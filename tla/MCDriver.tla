------------------------------ MODULE MCDriver ------------------------------
(***************************************************************************)
(* Short files: every arrangement of the characters of comments, of those  *)
(* of strings and quoted names, and of pieces of both.                     *)
(***************************************************************************)
EXTENDS LexerProperties

Comments == BoundedSeq({"/", "*", "A"}, 8)
Quotes == BoundedSeq({"'", "N", "[", "]", "\""}, 5)
Numbers == BoundedSeq({"0", "X", "E", ".", "+"}, 4)
Lines == BoundedSeq({"A", "\n"}, 5)

\* What opens or closes something, and how many of them a file has at most.
Delimiters ==
    {<<"/", "*">>, <<"*", "/">>, <<"-", "-">>, <<"\n">>, <<"'">>, <<"\"">>, <<"[">>, <<"]">>}
MaxDelimiters == 4
Mixtures == {FlattenSeq(w) : w \in BoundedSeq(Delimiters, MaxDelimiters)}

MCFiles == Comments \cup Quotes \cup Numbers \cup Lines \cup Mixtures
=============================================================================
