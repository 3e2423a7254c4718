---------------------------- MODULE RuleNotation ----------------------------
(***************************************************************************)
(* A rule of TSqlParser.g4 together with the context class that ANTLR      *)
(* generates for it into TSqlParser.h:                                     *)
(*                                                                         *)
(*     class ::= right-hand side                                           *)
(*                                                                         *)
(* Right-hand sides are written as in Ebnf, with two abbreviations.  A     *)
(* sequence of keywords and punctuation is one terminal, T("DROP RULE");   *)
(* and a rule that matches only such terminals has no right-hand side here *)
(* and is referred to only.  L(n, x) is n=x in the grammar: field n of the *)
(* context is assigned the child that x matches.  V(n, x) is n+=x: the     *)
(* child is added to the vector n.                                         *)
(*                                                                         *)
(* A class is what a client of the parse tree sees of a rule: the children *)
(* that an accessor without argument returns (one), those that come as a   *)
(* vector (many), the fields and the vectors of its labels, each with the  *)
(* kind of child it holds.  Accessors of keywords and of punctuation are   *)
(* left out: their terminal carries no value.                              *)
(***************************************************************************)
EXTENDS Ebnf, TLC

class ::= body == [class |-> class, rhs |-> body]

L(label, x) == Item("field", label, {}, <<x>>)
V(label, x) == Item("vector", label, {}, <<x>>)

Id(label) == L(label, N("id_"))
Expr(label) == L(label, N("expression"))
Str(label) == L(label, T("STRING"))
Num(label) == L(label, T("DECIMAL"))

\* x (',' x)*
List(x) == x & (T(",") & x)^*

\* Alternatives listed: x | y | z.
Choice(xs) == Item("alt", "", {}, xs)

Class(single, several, field, vector) ==
    [one |-> single, many |-> several, field |-> field, vector |-> vector]
Named(single, several, field) == Class(single, several, field, <<>>)
Plain(single, several) == Named(single, several, <<>>)

\* Labels that hold children of one kind; the kind of terminals is "Token".
Of(kind, labels) == [label \in labels |-> kind]

\* The class of a rule that the header has none for, or only a base class.
NoClass == Plain({}, {})

\* Terminals whose text is a value.
ValueTokens ==
    {"STRING", "DECIMAL", "FLOAT", "REAL", "BINARY", "LOCAL_ID", "ID", "TEMP_ID",
     "DOUBLE_QUOTE_ID", "SQUARE_BRACKET_ID", "IPV4_ADDR", "DISK_DRIVE", "EOF"}
=============================================================================
