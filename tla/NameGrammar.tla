---------------------------- MODULE NameGrammar -----------------------------
(***************************************************************************)
(* Identifiers, dotted names, constants and parameters: the rules of       *)
(* TSqlParser.g4 that every statement rule is built on.                    *)
(*                                                                         *)
(* Tokens have the names of TSqlLexer.g4.  Tokens that every rule treats   *)
(* alike share one name: ID stands for ID, TEMP_ID, the quoted identifiers *)
(* and every keyword that the modelled rules mention only through rule     *)
(* keyword; STRING, DECIMAL, LOCAL_ID for themselves; DECIMAL also for the *)
(* other unsigned numbers.                                                 *)
(***************************************************************************)
EXTENDS Ebnf

(***************************************************************************)
(* Keywords that may be used as identifiers.  These are the ones that some *)
(* modelled rule also uses as a keyword; GO is among them.                 *)
(***************************************************************************)
keyword ==
    OneOf({"GO", "TRY", "CATCH", "WORK", "MARK", "THROW", "CONVERSATION",
           "DIALOG", "TIMER", "OUTPUT", "DELAY", "TIMEOUT", "CALLER",
           "LOGIN", "GLOBAL", "DELETED", "INSERTED", "AT_KEYWORD", "TIME",
           "SERVICE", "CONTRACT", "GET", "SEND", "MESSAGE", "TYPE", "APPLY",
           "ZONE"})

id_ == T("ID") | N("keyword")

simple_name == (N("id_") & T("DOT"))^# & N("id_")

dotID == T("DOT") & N("id_")

doubleDotID == T("DOT") & T("DOT") & N("id_")

\* Mutant: no part may follow the one behind the double dot.
full_table_name_ShortDoubleDot == N("id_") & (N("dotID")^+ | N("doubleDotID"))^#

full_table_name ==
    N("id_") & (N("dotID")^+ | (N("doubleDotID") & N("dotID")^#))^#

table_name ==
    (  (N("id_") & T("DOT") & N("id_")^# & T("DOT"))
     | (N("id_") & T("DOT")))^#
    & N("id_")

func_proc_name_schema == (N("id_") & T("DOT"))^# & N("id_")

func_proc_name_database_schema ==
    (N("id_")^# & T("DOT") & N("id_")^# & T("DOT") & N("id_"))
    | N("func_proc_name_schema")

func_proc_name_server_database_schema ==
    (N("id_")^# & T("DOT") & N("id_")^# & T("DOT") & N("id_")^# & T("DOT") & N("id_"))
    | N("func_proc_name_database_schema")

\* Mutant: the whole dotted name is read as the table.
full_column_name_TableFirst ==
    N("full_table_name")
    | (N("full_table_name") & T("DOT") & N("id_"))
    | N("id_")

\* The $IDENTITY and $ROWGUID pseudo columns are left out.
full_column_name ==
    (OneOf({"DELETED", "INSERTED"}) & N("id_"))
    | (N("full_table_name") & T("DOT") & N("id_"))
    | N("id_")

cursor_name == N("id_") | T("LOCAL_ID")

column_name_list == CommaList(N("id_"))

constant == T("STRING") | (T("MINUS")^# & T("DECIMAL"))

primitive_constant == OneOf({"STRING", "DECIMAL"})

primitive_expression ==
    OneOf({"DEFAULT", "NULL_", "LOCAL_ID"}) | N("primitive_constant")

constant_LOCAL_ID == N("constant") | T("LOCAL_ID")

NameRules ==
    [keyword |-> keyword, id_ |-> id_, simple_name |-> simple_name,
     dotID |-> dotID, doubleDotID |-> doubleDotID,
     full_table_name |-> full_table_name, table_name |-> table_name,
     func_proc_name_schema |-> func_proc_name_schema,
     func_proc_name_database_schema |-> func_proc_name_database_schema,
     func_proc_name_server_database_schema |-> func_proc_name_server_database_schema,
     full_column_name |-> full_column_name, cursor_name |-> cursor_name,
     column_name_list |-> column_name_list,
     constant |-> constant, primitive_constant |-> primitive_constant,
     primitive_expression |-> primitive_expression,
     constant_LOCAL_ID |-> constant_LOCAL_ID]
=============================================================================
