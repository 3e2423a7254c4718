------------------------------ MODULE MCBatches ------------------------------
(***************************************************************************)
(* Files of several batches, over statements with and without an open tail *)
(* that could take a GO for a name.                                        *)
(***************************************************************************)
EXTENDS SqlProperties, SequencesExt

MCGrammar == SqlRules
MCItems == GrammarItems(MCGrammar)

\* The pieces streams are made of, and how many a stream has at most.  Streams
\* with neither a GO nor a semicolon are left out: no property looks at them.
Pieces ==
    {<<"GO">>, <<"SEMI">>, <<"ID">>, <<"COLON">>, <<"SELECT", "ID">>, <<"Ddl">>,
     <<"ROLLBACK">>, <<"RETURN">>, <<"EXECUTE", "ID">>, <<"EXECUTE", "AS", "STRING">>,
     <<"BEGIN", "TRAN">>}
MaxPieces == 4
MCInputs ==
    {FlattenSeq(w) \o <<"EOF">> :
        w \in {v \in BoundedSeq(Pieces, MaxPieces) :
                  \E i \in DOMAIN v : v[i] \in {<<"GO">>, <<"SEMI">>}}}

(***************************************************************************)
(* The batches of examples/dml_select.sql, under its heading "Select with  *)
(* Multiple Batch Separators": what follows the first USE of the example,  *)
(* and how many pieces at most.                                            *)
(***************************************************************************)
ExamplePieces ==
    {<<"USE", "ID">>, <<"SELECT", "STAR", "FROM", "ID">>, <<"OrderBy", "ID">>, <<"SEMI">>, <<"GO">>}
MaxExamplePieces == 4
ExampleInputs ==
    {<<"USE", "ID">> \o FlattenSeq(w) \o <<"EOF">> :
        w \in BoundedSeq(ExamplePieces, MaxExamplePieces)}
=============================================================================
