-------------------------- MODULE StatementGrammar --------------------------
(***************************************************************************)
(* The statement level of TSqlParser.g4: files, batches, clauses, control  *)
(* of flow, transactions, procedure calls, conversations, cursors and the  *)
(* frame of a query.                                                       *)
(*                                                                         *)
(* A rule keeps every alternative and every optional part over the tokens  *)
(* modelled; an alternative that needs a token the model does not have can *)
(* match no stream over the modelled tokens, so leaving it out changes no  *)
(* parse of such a stream.  Tokens in mixed case stand for constructs      *)
(* whose inside does not interact with the statement structure: Predicate, *)
(* Dml and Ddl statements, Head and View, CREATE headers up to their AS.   *)
(***************************************************************************)
EXTENDS QueryGrammar, TLC

tsql_file ==
    (N("go_statement")^* & T("EOF"))
    | (N("batch_without_go") & (N("go_statement") & N("batch_without_go")^#)^*
       & N("go_statement")^# & T("EOF"))

batch_without_go ==
    N("sql_clauses")^+
    | N("batch_level_statement")
    | (N("execute_body_batch") & N("sql_clauses")^*)

batch_level_statement == N("create_or_alter_procedure") | N("create_view")

\* Head is CREATE PROCEDURE name parameters AS; a trigger is alike, with +.
create_or_alter_procedure == T("Head") & N("sql_clauses")^*

\* View is CREATE VIEW name AS.
create_view == T("View") & N("select_statement_standalone") & Semi

\* Mutant: a clause does not take its semicolon.
sql_clauses_NoSemicolon ==
    N("dml_clause") | N("cfl_statement") | N("another_statement") | N("ddl_clause") | T("SEMI")

\* Mutant: a procedure may be called without EXECUTE anywhere in a batch.
sql_clauses_BareCall ==
    (N("dml_clause") & Semi)
    | (N("cfl_statement") & Semi)
    | (N("another_statement") & Semi)
    | N("execute_body_batch")
    | (N("ddl_clause") & Semi)
    | T("SEMI")

sql_clauses ==
    (N("dml_clause") & Semi)
    | (N("cfl_statement") & Semi)
    | (N("another_statement") & Semi)
    | (N("ddl_clause") & Semi)
    | T("SEMI")

dml_clause == N("data_statement") | N("select_statement_standalone")

\* DELETE, INSERT and UPDATE statements, each with a semicolon of its own.
data_statement == T("Dml") & Semi

\* Mutant: one more statement with an optional name at its end.
ddl_clause_OptionalName == T("Ddl") & N("id_")^# & Semi

\* DROP TABLE and its like, which take a semicolon of their own.
ddl_clause == T("Ddl") & Semi

cfl_statement ==
    N("block_statement") | N("break_statement") | N("continue_statement")
    | N("goto_statement") | N("if_statement") | N("print_statement")
    | N("return_statement") | N("throw_statement") | N("try_catch_statement")
    | N("waitfor_statement") | N("while_statement")

\* Mutant: a block without END is admitted as a second form.
block_statement_TwoForms ==
    (T("BEGIN") & Semi & N("sql_clauses")^* & T("END") & Semi)
    | (T("BEGIN") & Semi & N("sql_clauses")^*)

block_statement == T("BEGIN") & Semi & N("sql_clauses")^* & T("END") & Semi

break_statement == T("BREAK") & Semi

continue_statement == T("CONTINUE") & Semi

goto_statement == (T("GOTO") & N("id_") & Semi) | (N("id_") & T("COLON") & Semi)

return_statement == T("RETURN") & N("expression")^# & Semi

\* Mutant: two alternatives, the one with ELSE first.
if_statement_TwoForms ==
    (T("IF") & N("search_condition") & N("sql_clauses") & T("ELSE") & N("sql_clauses") & Semi)
    | (T("IF") & N("search_condition") & N("sql_clauses") & Semi)

if_statement ==
    T("IF") & N("search_condition") & N("sql_clauses")
    & (T("ELSE") & N("sql_clauses"))^# & Semi

throw_statement ==
    T("THROW") & (N("throw_error_number") & T("COMMA") & N("throw_message")
                  & T("COMMA") & N("throw_state"))^# & Semi

throw_error_number == OneOf({"DECIMAL", "LOCAL_ID"})

throw_message == OneOf({"STRING", "LOCAL_ID"})

throw_state == OneOf({"DECIMAL", "LOCAL_ID"})

\* Mutant: either half may end with END TRY or END CATCH.
try_catch_statement_AnyEnd ==
    T("BEGIN") & T("TRY") & Semi & N("sql_clauses")^+ & T("END") & OneOf({"TRY", "CATCH"}) & Semi
    & T("BEGIN") & T("CATCH") & Semi & N("sql_clauses")^* & T("END") & OneOf({"TRY", "CATCH"}) & Semi

try_catch_statement ==
    T("BEGIN") & T("TRY") & Semi & N("sql_clauses")^+ & T("END") & T("TRY") & Semi
    & T("BEGIN") & T("CATCH") & Semi & N("sql_clauses")^* & T("END") & T("CATCH") & Semi

waitfor_statement ==
    T("WAITFOR") & T("COMMA")^#
    & (OneOf({"DELAY", "TIME", "TIMEOUT"}) & N("time"))^#
    & N("expression")^# & Semi

time == T("LOCAL_ID") | N("constant")

while_statement ==
    T("WHILE") & N("search_condition")
    & (N("sql_clauses") | (T("BREAK") & Semi) | (T("CONTINUE") & Semi))

\* The second alternative, DOUBLE_QUOTE_ID, is an expression as well and so
\* is never taken.
print_statement == T("PRINT") & N("expression") & (T("COMMA") & T("LOCAL_ID"))^* & Semi

another_statement ==
    N("conversation_statement") | N("cursor_statement") | N("execute_statement")
    | N("security_statement") | N("transaction_statement") | N("use_statement")

conversation_statement ==
    N("begin_conversation_timer") | N("begin_conversation_dialog")
    | N("end_conversation") | N("get_conversation") | N("send_conversation")
    | N("waitfor_conversation")

begin_conversation_timer ==
    T("BEGIN") & T("CONVERSATION") & T("TIMER") & T("LP") & T("LOCAL_ID") & T("RP")
    & T("TIMEOUT") & T("EQUAL") & N("time") & Semi

\* The options behind WITH are optional, and left out.
begin_conversation_dialog ==
    T("BEGIN") & T("DIALOG") & T("CONVERSATION")^# & T("LOCAL_ID")
    & T("FROM") & T("SERVICE") & N("service_name") & T("TO") & T("SERVICE") & N("service_name")
    & (T("COMMA") & T("STRING"))^# & T("ON") & T("CONTRACT") & N("contract_name")
    & T("WITH")^# & Semi

service_name == N("id_") | N("expression")

contract_name == N("id_") | N("expression")

end_conversation == T("END") & T("CONVERSATION") & T("LOCAL_ID") & Semi & T("WITH")^#

get_conversation ==
    T("GET") & T("CONVERSATION") & T("GROUP") & OneOf({"STRING", "LOCAL_ID"})
    & T("FROM") & N("queue_id") & Semi

queue_id == (N("id_") & T("DOT") & N("id_") & T("DOT") & N("id_")) | N("id_")

send_conversation ==
    T("SEND") & T("ON") & T("CONVERSATION") & OneOf({"STRING", "LOCAL_ID"})
    & T("MESSAGE") & T("TYPE") & N("expression")
    & (T("LP") & OneOf({"STRING", "LOCAL_ID"}) & T("RP"))^# & Semi

waitfor_conversation ==
    T("WAITFOR")^# & T("LP") & N("get_conversation") & T("RP")
    & (T("COMMA")^# & T("TIMEOUT") & N("time"))^# & Semi

cursor_statement ==
    (T("CLOSE") & T("GLOBAL")^# & N("cursor_name") & Semi)
    | (T("OPEN") & T("GLOBAL")^# & N("cursor_name") & Semi)

execute_statement == T("EXECUTE") & N("execute_body") & Semi

execute_body_batch ==
    N("func_proc_name_server_database_schema")
    & CommaList(N("execute_statement_arg"))^# & Semi

execute_body ==
    ((T("LOCAL_ID") & T("EQUAL"))^#
        & (N("func_proc_name_server_database_schema") | N("execute_var_string"))
        & N("execute_statement_arg")^#)
    | (T("LP") & CommaList(N("execute_var_string")) & T("RP")
        & (T("AS") & T("LOGIN") & T("EQUAL") & T("STRING"))^#
        & (T("AT_KEYWORD") & N("id_"))^#)
    | (T("AS") & ((T("LOGIN") & T("EQUAL") & T("STRING")) | T("CALLER")))

\* Mutant: a named argument may be continued by any argument.
execute_statement_arg_NamedThenAny ==
    (N("execute_statement_arg_unnamed") | N("execute_statement_arg_named"))
    & (T("COMMA") & N("execute_statement_arg"))^*

execute_statement_arg ==
    (N("execute_statement_arg_unnamed") & (T("COMMA") & N("execute_statement_arg"))^*)
    | CommaList(N("execute_statement_arg_named"))

execute_statement_arg_named == T("LOCAL_ID") & T("EQUAL") & N("execute_parameter")

\* Mutant: a name is read as part of a positional argument.
execute_statement_arg_unnamed_TakesName ==
    (T("LOCAL_ID") & T("EQUAL"))^# & N("execute_parameter")

execute_statement_arg_unnamed == N("execute_parameter")

execute_parameter ==
    N("constant") | (T("LOCAL_ID") & T("OUTPUT")^#) | N("id_") | T("DEFAULT") | T("NULL_")

\* TRAN is TRAN or TRANSACTION.
transaction_statement ==
    LET name == N("id_") | T("LOCAL_ID")
    IN  (T("BEGIN") & T("DISTRIBUTED") & T("TRAN") & name^#)
        | (T("BEGIN") & T("TRAN") & (name & (T("WITH") & T("MARK") & T("STRING"))^#)^#)
        | (T("COMMIT") & T("TRAN") & name^#)
        | (T("COMMIT") & T("WORK")^#)
        | (T("COMMIT") & N("id_"))
        | (T("ROLLBACK") & N("id_"))
        | (T("ROLLBACK") & T("TRAN") & name^#)
        | (T("ROLLBACK") & T("WORK")^#)
        | (T("SAVE") & T("TRAN") & name^#)

security_statement == N("execute_clause") & Semi

execute_clause == T("EXECUTE") & T("AS") & OneOf({"CALLER", "STRING"})

go_statement == T("GO") & T("DECIMAL")^#

use_statement == T("USE") & N("id_")

StatementRules ==
    [tsql_file |-> tsql_file,
     batch_without_go |-> batch_without_go,
     batch_level_statement |-> batch_level_statement,
     create_or_alter_procedure |-> create_or_alter_procedure,
     create_view |-> create_view,
     sql_clauses |-> sql_clauses,
     dml_clause |-> dml_clause,
     data_statement |-> data_statement,
     ddl_clause |-> ddl_clause,
     cfl_statement |-> cfl_statement,
     block_statement |-> block_statement,
     break_statement |-> break_statement,
     continue_statement |-> continue_statement,
     goto_statement |-> goto_statement,
     return_statement |-> return_statement,
     if_statement |-> if_statement,
     throw_statement |-> throw_statement,
     throw_error_number |-> throw_error_number,
     throw_message |-> throw_message,
     throw_state |-> throw_state,
     try_catch_statement |-> try_catch_statement,
     waitfor_statement |-> waitfor_statement,
     time |-> time,
     while_statement |-> while_statement,
     print_statement |-> print_statement,
     another_statement |-> another_statement,
     conversation_statement |-> conversation_statement,
     begin_conversation_timer |-> begin_conversation_timer,
     begin_conversation_dialog |-> begin_conversation_dialog,
     service_name |-> service_name,
     contract_name |-> contract_name,
     end_conversation |-> end_conversation,
     get_conversation |-> get_conversation,
     queue_id |-> queue_id,
     send_conversation |-> send_conversation,
     waitfor_conversation |-> waitfor_conversation,
     cursor_statement |-> cursor_statement,
     execute_statement |-> execute_statement,
     execute_body_batch |-> execute_body_batch,
     execute_body |-> execute_body,
     execute_statement_arg |-> execute_statement_arg,
     execute_statement_arg_named |-> execute_statement_arg_named,
     execute_statement_arg_unnamed |-> execute_statement_arg_unnamed,
     execute_parameter |-> execute_parameter,
     transaction_statement |-> transaction_statement,
     security_statement |-> security_statement,
     execute_clause |-> execute_clause,
     go_statement |-> go_statement,
     use_statement |-> use_statement]

SqlRules == StatementRules @@ QueryRules @@ NameRules
=============================================================================
