----------------------------- MODULE Prediction -----------------------------
(***************************************************************************)
(* The decisions of ANTLR's adaptive prediction (ParserATNSimulator) as    *)
(* the generated parser sees them.  Full-context prediction looks ahead as *)
(* far as it must, to the end of the file if need be, and an alternative   *)
(* survives when some way of finishing it, and then everything the callers *)
(* still expect, agrees with the tokens.  Here that is computed with sets  *)
(* of positions: Ends gives the positions at which a right-hand side may   *)
(* end when it starts at position i.  On a stream that has a syntax error  *)
(* no alternative survives; the model then reports the error at the first  *)
(* decision, where ANTLR reads on to the offending token.                  *)
(***************************************************************************)
EXTENDS ParserCore

(***************************************************************************)
(* First sets: the tokens a right-hand side may begin with, and "" when it *)
(* may match nothing.                                                      *)
(***************************************************************************)
RECURSIVE FirstOf(_, _)
FirstOf(first, e) ==
    IF e = <<>> THEN {""}
    ELSE LET it == Head(e)
             begin == CASE it.k = "tok" -> it.set
                        [] it.k = "rule" -> first[it.sym]
                        [] it.k = "alt" -> UNION {FirstOf(first, it.alts[n]) : n \in DOMAIN it.alts}
                        [] OTHER -> FirstOf(first, it.alts[1]) \cup {""}
         IN  IF "" \in begin THEN (begin \ {""}) \cup FirstOf(first, Tail(e)) ELSE begin

RECURSIVE FirstSets(_)
FirstSets(first) ==
    LET next == [rule \in DOMAIN Grammar |-> FirstOf(first, Grammar[rule])]
    IN  IF next = first THEN first ELSE FirstSets(next)

First == FirstSets([rule \in DOMAIN Grammar |-> {}])

-----------------------------------------------------------------------------
(***************************************************************************)
(* A table t has the token stream t.w, the first sets t.first while it is  *)
(* being filled, and, for every position i > t.lo, the column t.cols[i -   *)
(* t.lo], which maps each rule that can derive something from position i   *)
(* to the positions where that may end. The columns are filled from the    *)
(* last token to the first. A rule that calls itself consumes a token      *)
(* first, so a column depends on itself only through finitely many calls.  *)
(***************************************************************************)
RECURSIVE Ends(_, _, _), LoopEnds(_, _, _)

RuleEnds(t, rule, i) ==
    IF i > t.lo
    THEN IF rule \in DOMAIN t.cols[i - t.lo] THEN t.cols[i - t.lo][rule] ELSE {}
    ELSE IF {IF i <= Len(t.w) THEN t.w[i] ELSE "", ""} \cap t.first[rule] # {}
    THEN Ends(t, Grammar[rule], i)
    ELSE {}

ItemEnds(t, it, i) ==
    CASE it.k = "tok" -> IF i <= Len(t.w) /\ t.w[i] \in it.set THEN {i + 1} ELSE {}
      [] it.k = "rule" -> RuleEnds(t, it.sym, i)
      [] it.k = "alt" -> UNION {Ends(t, it.alts[n], i) : n \in DOMAIN it.alts}
      [] it.k = "opt" -> {i} \cup Ends(t, it.alts[1], i)
      [] it.k = "star" -> LoopEnds(t, it.alts[1], i)

Ends(t, e, i) ==
    IF e = <<>> THEN {i}
    ELSE UNION {Ends(t, Tail(e), j) : j \in ItemEnds(t, Head(e), i)}

LoopEnds(t, e, i) == {i} \cup UNION {LoopEnds(t, e, j) : j \in Ends(t, e, i) \ {i}}

Column(t) ==
    LET ends == [rule \in DOMAIN Grammar |-> RuleEnds(t, rule, t.lo)]
    IN  [rule \in {r \in DOMAIN ends : ends[r] # {}} |-> ends[rule]]

RECURSIVE Fill(_)
Fill(t) ==
    IF t.lo = 0 THEN t
    ELSE Fill([t EXCEPT !.lo = @ - 1, !.cols = <<Column(t)>> \o @])

\* What prediction knows about the stream w.
LookaheadTable(w) ==
    LET t == Fill([w |-> w, lo |-> Len(w) + 1, cols |-> <<>>, first |-> First])
    IN  [w |-> w, lo |-> 0, cols |-> t.cols]

\* The tokens from position p on can be matched by the right-hand sides of
\* rests, one after the other.
RECURSIVE CanMatch(_, _, _)
CanMatch(t, rests, p) ==
    IF rests = <<>> THEN TRUE
    ELSE {j \in Ends(t, Head(rests), p) : CanMatch(t, Tail(rests), j)} # {}
=============================================================================
