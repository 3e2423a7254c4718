-------------------------------- MODULE Ebnf --------------------------------
(***************************************************************************)
(* Right-hand sides of grammar rules, written as in an ANTLR .g4 file.     *)
(*                                                                         *)
(* A right-hand side is a sequence of items; juxtaposition in the .g4 is   *)
(* x & y here, x | y keeps its order (the order matters: the parser takes  *)
(* the first alternative that works), x? is x^#, x* is x^*, and x+ is x^+. *)
(* An item is a record with the same four fields whatever its kind, so     *)
(* that TLC can compare any two of them:                                   *)
(*   k    "tok" (match a token), "rule" (call a rule), "alt" (a decision   *)
(*        between alternatives), "opt" (a block or nothing), "star" (a     *)
(*        block repeated)                                                  *)
(*   sym  the rule of a "rule" item                                        *)
(*   set  the tokens of a "tok" item                                       *)
(*   alts the alternatives of an "alt" item, the one block of an "opt" or  *)
(*        "star" item                                                      *)
(***************************************************************************)
EXTENDS Sequences

Item(kind, name, tokens, bodies) ==
    <<[k |-> kind, sym |-> name, set |-> tokens, alts |-> bodies]>>

OneOf(tokens) == Item("tok", "", tokens, <<>>)
T(token) == OneOf({token})
N(name) == Item("rule", name, {}, <<>>)

x & y == x \o y
x | y ==
    IF Len(x) = 1 /\ Head(x).k = "alt"
    THEN Item("alt", "", {}, Append(Head(x).alts, y))
    ELSE Item("alt", "", {}, <<x, y>>)
x^# == Item("opt", "", {}, <<x>>)
x^* == Item("star", "", {}, <<x>>)
x^+ == x & x^*

\* x (COMMA x)*
CommaList(x) == x & (T("COMMA") & x)^*

(***************************************************************************)
(* Every item of a right-hand side, at any depth, and of a whole grammar   *)
(* (a function from rule names to right-hand sides).                       *)
(***************************************************************************)
RECURSIVE ItemsOf(_)
ItemsOf(e) ==
    UNION {{e[i]} \cup UNION {ItemsOf(e[i].alts[n]) : n \in DOMAIN e[i].alts} : i \in DOMAIN e}

GrammarItems(g) == UNION {ItemsOf(g[name]) : name \in DOMAIN g}
=============================================================================
