---------------------------- MODULE MCKeywordMap ----------------------------
(***************************************************************************)
(* Keyword rules of up to MaxLines lines behind the first, in the layouts  *)
(* a maintainer might write, followed by the beginning of rule id_.        *)
(***************************************************************************)
EXTENDS KeywordMap, SequencesExt

MCTokens == {"ID", "ABORT", "GO"}
MCPlain == {"ID"}

Row(mark, names, closes, ends) ==
    [mark |-> mark, names |-> names, closes |-> closes, ends |-> ends]

First == {Row(":", <<"ABORT">>, FALSE, FALSE), Row(":", <<"GO">>, FALSE, FALSE)}
Middle ==
    {Row("|", <<"GO">>, FALSE, FALSE), Row("|", <<"ABORT", "GO">>, FALSE, FALSE),
     Row("", <<"GO">>, FALSE, FALSE), Row("", <<>>, FALSE, TRUE)}
Close ==
    {Row("", <<>>, TRUE, TRUE), Row("", <<>>, TRUE, FALSE), Row("|", <<"GO">>, TRUE, TRUE)}
id_rule ==
    <<Row(":", <<"ID">>, FALSE, FALSE), Row("|", <<"keyword">>, FALSE, FALSE),
      Row("", <<>>, TRUE, TRUE)>>

MaxLines == 1
MCRevisions ==
    {<<first>> \o middle \o <<close>> \o id_rule :
        first \in First, middle \in BoundedSeq(Middle, MaxLines), close \in Close}
=============================================================================
