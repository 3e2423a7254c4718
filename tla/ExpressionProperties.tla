------------------------ MODULE ExpressionProperties ------------------------
(***************************************************************************)
(* Operators in expressions and in search conditions: which operands the   *)
(* parser gives to each, against a reading of the tokens that knows only   *)
(* strengths and brackets.                                                 *)
(***************************************************************************)
EXTENDS Phrases, FiniteSetsExt

Opening == {"LP", "CASE"}
Closing == {"RP", "END"}
Count(tokens, p, q) == Cardinality({r \in p .. q : input[r] \in tokens})

\* How many brackets are open around the token p.
Depth(p) == Count(Opening, 1, p - 1) - Count(Closing, 1, p)

EndsOperand(p) == p > 1 /\ input[p] \in {"ID", "Predicate"} \cup Closing

\* An operator in front of its one operand.
Unary(p) == input[p] \in {"PLUS", "MINUS", "TILDE"} /\ ~EndsOperand(p - 1)

\* The AND of a BETWEEN is the next one behind it.
OfBetween(p) ==
    input[p] = "AND" /\ \E q \in 1 .. p - 1 :
        input[q] = "BETWEEN" /\ Depth(q) = Depth(p) /\ Count({"AND"}, q, p - 1) = 0

\* What separates operands, from the weakest to the strongest: the words of
\* CASE, the logical operators, those of predicates, those of expressions.
Strength(p) ==
    CASE input[p] \in {"WHEN", "THEN", "ELSE"} -> 0
      [] input[p] = "OR" -> 1
      [] input[p] = "AND" /\ ~OfBetween(p) -> 2
      [] input[p] \in {"EQUAL", "BETWEEN", "AND"} -> 3
      [] input[p] = "AT_KEYWORD" -> 4
      [] input[p] \in {"PLUS", "MINUS"} /\ ~Unary(p) -> 5
      [] input[p] \in {"STAR", "DIVIDE"} -> 6
      [] OTHER -> 7

\* The last token of an operand that starts behind p and that everything up
\* to this strength ends.
OperandEnd(p, strength) ==
    Min({q \in p + 1 .. Len(input) :
            \/ input[q] = "EOF"
            \/ Depth(q) < Depth(p)
            \/ Depth(q) = Depth(p) /\ Strength(q) <= strength}) - 1

(***************************************************************************)
(* The right operand of an operator ends before the next one that is not   *)
(* stronger (operators of one strength associate to the left), unless a    *)
(* unary operator has taken the rest of the expression before.             *)
(***************************************************************************)
RightEnd(p) ==
    LET plain == OperandEnd(p, Strength(p))
    IN  IF Strength(p) > 3 /\ \E u \in p + 1 .. plain : Unary(u) /\ Depth(u) = Depth(p)
        THEN OperandEnd(p, 3)
        ELSE plain

TakesRight(p, last) ==
    \E n \in DOMAIN nodes :
        nodes[n].parent = owner[p] /\ nodes[n].start = p + 1 /\ nodes[n].stop = last

AcceptedAs(kinds) == ReadAs \in kinds /\ status = "accepted"
Operators(strengths) == {p \in 2 .. Len(input) : Strength(p) \in strengths}

(***************************************************************************)
(* Multiplication binds tighter than addition, both associate to the left, *)
(* and brackets, CASE and comparisons bound them.                          *)
(***************************************************************************)
OperandsFollowStrength ==
    AcceptedAs({"Expression", "Condition"}) =>
        \A p \in Operators({5, 6}) : TakesRight(p, RightEnd(p))

(***************************************************************************)
(* A unary operator is not the strongest but takes the whole rest of the   *)
(* expression, and so does AT TIME ZONE: in -a + b * c the minus applies   *)
(* to a + b * c.                                                           *)
(***************************************************************************)
UnaryTakesTheRest ==
    AcceptedAs({"Expression", "Condition"}) =>
        /\ \A p \in 2 .. Len(input) : Unary(p) => TakesRight(p, OperandEnd(p, 3))
        /\ \A p \in Operators({4}) :
              \E n \in DOMAIN nodes :
                  NodeAt(n, "time_zone", p) /\ nodes[n].stop = OperandEnd(p, 3)

(***************************************************************************)
(* "AND takes precedence over OR", the comment on search_condition, and    *)
(* the AND of a BETWEEN is no logical operator.                            *)
(***************************************************************************)
AndBeforeOr ==
    AcceptedAs({"Condition"}) =>
        /\ \A p \in Operators({1, 2}) : TakesRight(p, RightEnd(p))
        /\ \A p \in DOMAIN input :
              input[p] = "AND" => (OfBetween(p) <=> nodes[owner[p]].rule = "predicate")
=============================================================================
