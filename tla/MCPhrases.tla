----------------------------- MODULE MCPhrases ------------------------------
(***************************************************************************)
(* Calls, names, expressions and conditions, each up to a size of its own. *)
(***************************************************************************)
EXTENDS CallProperties, NameProperties, ExpressionProperties, SequencesExt

MCGrammar == PhraseRules
MCItems == GrammarItems(MCGrammar)

(***************************************************************************)
(* Calls with up to MaxArgs arguments: constants, variables with and       *)
(* without OUTPUT, identifiers, and named arguments.                       *)
(***************************************************************************)
Args ==
    {<<"DECIMAL">>, <<"LOCAL_ID">>, <<"LOCAL_ID", "OUTPUT">>, <<"ID">>,
     <<"LOCAL_ID", "EQUAL", "DECIMAL">>, <<"LOCAL_ID", "EQUAL", "LOCAL_ID">>}
MaxArgs == 3

\* The pieces of w, with the same one between any two.
Joined(w, between) ==
    FlattenSeq([i \in 1 .. Len(w) |-> IF i = 1 THEN w[i] ELSE between \o w[i]])

Calls ==
    {call \o Joined(w, <<"COMMA">>) :
        call \in {<<"EXECUTE", "ID">>, <<"ID">>}, w \in BoundedSeq(Args, MaxArgs)}

\* Every sequence of up to MaxNameTokens identifiers and dots.
MaxNameTokens == 9
Names ==
    {<<kind>> \o w :
        kind \in {"Table", "Column"}, w \in BoundedSeq({"ID", "DOT"}, MaxNameTokens)}

(***************************************************************************)
(* Chains of n operands with operators between them.                       *)
(***************************************************************************)
Chains(n, operands, operators) ==
    {FlattenSeq([i \in 1 .. n |-> IF i = 1 THEN w[i] ELSE v[i - 1] \o w[i]]) :
        w \in [1 .. n -> operands], v \in [1 .. n - 1 -> operators]}

Operands ==
    {<<"ID">>, <<"MINUS", "ID">>, <<"LP", "ID", "PLUS", "ID", "RP">>, <<"ID", "COLLATE", "ID">>,
     <<"CASE", "WHEN", "Predicate", "THEN", "ID", "STAR", "ID", "ELSE", "TILDE", "ID", "END">>}
Arithmetic == {<<"STAR">>, <<"PLUS">>, <<"AT_KEYWORD", "TIME", "ZONE">>}
Expressions ==
    Chains(3, Operands, Arithmetic) \cup Chains(4, {<<"ID">>}, Arithmetic)
    \cup Chains(4, {<<"ID">>, <<"MINUS", "ID">>}, {<<"STAR">>, <<"PLUS">>})

Predicates ==
    {<<"Predicate">>, <<"NOT", "LP", "Predicate", "OR", "Predicate", "RP">>,
     <<"ID", "BETWEEN", "ID", "AND", "MINUS", "ID">>, <<"MINUS", "ID", "PLUS", "ID", "EQUAL", "ID">>}
Logical == {<<"AND">>, <<"OR">>}
Conditions ==
    Chains(3, Predicates, Logical) \cup Chains(4, {<<"Predicate">>}, Logical)

MCInputs ==
    {w \o <<"EOF">> :
        w \in Calls \cup Names
              \cup {<<"Expression">> \o e : e \in Expressions}
              \cup {<<"Condition">> \o c : c \in Conditions}}
=============================================================================
