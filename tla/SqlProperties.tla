--------------------------- MODULE SqlProperties ----------------------------
(***************************************************************************)
(* What the tree of an accepted file must look like: where the batch       *)
(* separators end up.  Statements has the semicolons and the ELSE tokens,  *)
(* Pairing the END and ON tokens.  Each is compared with a reading of the  *)
(* bare token stream that knows nothing of the grammar.                    *)
(***************************************************************************)
EXTENDS StatementGrammar, Prediction, Statements

\* tsql_file has two alternatives, and each ends with EOF.
ASSUME TsqlFileAssumption == ReadsWholeStream

-----------------------------------------------------------------------------
(***************************************************************************)
(* Batch separators                                                        *)
(***************************************************************************)

\* The tokens before p are a complete file of their own.
CompleteBefore(p) ==
    CanMatch(LookaheadTable(Append(SubSeq(input, 1, p - 1), "EOF")), <<Grammar[StartRule]>>, 1)

(***************************************************************************)
(* A GO that follows a complete piece of a file separates two batches.     *)
(* tsql_file reads GO through go_statement, but GO is also a keyword and   *)
(* so an id_: the parser gives it to whatever optional name the last       *)
(* statement still admits.                                                 *)
(***************************************************************************)
GoSeparates ==
    Accepted => \A p \in TokensOf("GO") : CompleteBefore(p) => IsSeparator(p)

(***************************************************************************)
(* Among the modelled statements, a GO behind a complete piece of a file   *)
(* is lost as a separator only to one of the open-ended tails: a column or *)
(* table alias, an argument of a procedure call, the expression of RETURN, *)
(* the name of a transaction, a label, or the name of the procedure called *)
(* at the start of a batch.                                                *)
(***************************************************************************)
GoIsLostOnlyToOpenTails ==
    Accepted => \A p \in TokensOf("GO") :
        CompleteBefore(p) /\ ~IsSeparator(p) =>
            nodes[Parent(Parent(owner[p]))].rule \in
                {"column_alias", "table_alias", "execute_parameter", "full_column_name",
                 "transaction_statement", "goto_statement", "func_proc_name_schema"}
=============================================================================
