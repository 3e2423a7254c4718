------------------------------ MODULE LazyInit ------------------------------
(***************************************************************************)
(* What the generated lexers promise about their static data (the names,   *)
(* the deserialized automaton and the DFA cache that all lexers of a       *)
(* process share): it is made at most once, and a lexer is only ever       *)
(* constructed on data that is complete.                                   *)
(***************************************************************************)
EXTENDS Naturals

CONSTANT Threads    \* the threads, or goroutines, that construct lexers

VARIABLES
    made,       \* the static data is complete
    holders     \* the threads that have constructed a lexer on it

vars == <<made, holders>>

Init == made = FALSE /\ holders = {}

Make == ~made /\ made' = TRUE /\ UNCHANGED holders

Construct(t) == made /\ holders' = holders \cup {t} /\ UNCHANGED made

Next == Make \/ \E t \in Threads : Construct(t)

Spec == Init /\ [][Next]_vars
=============================================================================
