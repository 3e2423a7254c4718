------------------------------ MODULE Phrases -------------------------------
(***************************************************************************)
(* A caller of single rules of the grammar.  The first token of a stream   *)
(* says what the rest of it is read as; a stream without such a token is   *)
(* read as a file.                                                         *)
(***************************************************************************)
EXTENDS StatementGrammar, Prediction

phrase_file ==
    (T("Table") & N("full_table_name") & T("EOF"))
    | (T("Column") & N("full_column_name") & T("EOF"))
    | (T("Expression") & N("expression") & T("EOF"))
    | (T("Condition") & N("search_condition") & T("EOF"))
    | N("tsql_file")

PhraseRules == [phrase_file |-> phrase_file] @@ SqlRules

ReadAs == input[1]

\* The node is the call of this rule that starts at p.
NodeAt(n, rule, p) == nodes[n].rule = rule /\ nodes[n].start = p
=============================================================================
