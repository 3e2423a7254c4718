----------------------------- MODULE RuleContext ----------------------------
(***************************************************************************)
(* One call of a generated rule function, seen by a client of the parse    *)
(* tree.  The function adds children to its context, in an order that the  *)
(* rule allows, and assigns the fields of labels.  The client looks at one *)
(* accessor or one field: watch, a kind of child or a label.               *)
(*                                                                         *)
(* The same children may match the rule in two ways that assign different  *)
(* fields; the parser then takes the first one without a word.  A client   *)
(* that watches for that follows two readings of the children, at and twin.*)
(***************************************************************************)
EXTENDS RuleNotation, Naturals

CONSTANTS
    Current,    \* the grammar: for every rule its class and right-hand side
    Port        \* the rules in which the grammar of the C++ port differs

VARIABLES
    grammar,    \* "current", or "port": the grammar of the C++ port
    rule,       \* the rule, or the labelled alternative, of this call
    code,       \* its right-hand side, which the function follows
    context,    \* the class of its context
    at,         \* where the function is in the rule: the item to match next
    twin,       \* the same in another reading of the children so far
    apart,      \* the labels that the two readings have assigned differently
    watch,      \* what the client looks at: a kind of child, a label, Readings
    got,        \* the children watched for, the first two
    besides,    \* kinds of child that have come without the label watched for
    exited      \* the function has returned

vars == <<grammar, rule, code, context, at, twin, apart, watch, got, besides, exited>>

RulesOf(g) == IF g = "port" THEN Port ELSE Current

\* Rules whose right-hand side is a list of labelled alternatives, which
\* are rules of their own here.
BaseRules == {"function_call", "built_in_functions"}

-----------------------------------------------------------------------------
(***************************************************************************)
(* A place in a right-hand side e is a path <<i, n, j, ...>>: item i of e, *)
(* in its alternative n item j, and so on.                                 *)
(***************************************************************************)
End == <<>>
Up(path) == SubSeq(path, 1, Len(path) - 2)
Forth(path) == [path EXCEPT ![Len(path)] = @ + 1]

BlockAt(e, path) ==
    LET block[i \in Nat] == IF i = 1 THEN e ELSE block[i - 2][path[i - 2]].alts[path[i - 1]]
    IN  block[Len(path)]

ItemAt(e, path) == BlockAt(e, path)[path[Len(path)]]

\* The place after an item.  After the block of a loop it is the loop again.
After(e, path) ==
    LET after[p \in Seq(Nat)] ==
            IF p[Len(p)] < Len(BlockAt(e, p)) THEN Forth(p)
            ELSE IF Len(p) = 1 THEN End
            ELSE IF ItemAt(e, Up(p)).k = "star" THEN Up(p)
            ELSE after[Up(p)]
    IN  after[path]

\* The tokens and rules that can be matched next at a place, End when the
\* function can return there.
Nexts(e, path) ==
    LET nexts[p \in Seq(Nat)] ==
            IF p = End THEN {End}
            ELSE LET it == ItemAt(e, p)
                     Skip == nexts[After(e, p)]
                     Into(n) == IF it.alts[n] = <<>> THEN Skip ELSE nexts[p \o <<n, 1>>]
                 IN  IF it.k \in {"tok", "rule"} THEN {p}
                     ELSE UNION {Into(n) : n \in DOMAIN it.alts}
                          \cup IF it.k \in {"opt", "star"} THEN Skip ELSE {}
    IN  nexts[path]

\* Where the function is when it has matched the item at path.
Behind(path) == After(code, path)

\* The children that can be added there, and the label they are assigned to.
Children(path) ==
    LET it == ItemAt(code, path)
    IN  IF it.k = "rule" THEN {it.sym} ELSE it.set

Marked(path) ==
    Len(path) > 2 /\ ItemAt(code, Up(path)).k \in {"field", "vector"}
Label(path) == IF Marked(path) THEN ItemAt(code, Up(path)).sym ELSE ""

\* How such a child is kept, and its type: a context class, or a terminal.
Kept(path, child) ==
    LET it == ItemAt(code, path)
    IN  [as |-> IF Marked(path) THEN ItemAt(code, Up(path)).k ELSE "child",
         type |-> IF it.k = "rule" THEN it.sym ELSE "Token",
         child |-> child]

-----------------------------------------------------------------------------
Readings == <<"readings", "">>

\* What there is to watch in a rule.
Watches(e) ==
    LET items == ItemsOf(e)
    IN  {<<"child", it.sym>> : it \in {x \in items : x.k = "rule"}}
        \cup {<<"child", t>> : t \in ValueTokens \cap UNION {it.set : it \in items}}
        \cup {<<"field", it.sym>> : it \in {x \in items : x.k \in {"field", "vector"}}}

\* The kinds of child that a label marks somewhere in the rule.
MarkedBy(label) ==
    LET marks == {it \in ItemsOf(code) : it.k \in {"field", "vector"} /\ it.sym = label}
        marked == UNION {ItemsOf(it.alts[1]) : it \in marks}
    IN  {it.sym : it \in {x \in marked : x.k = "rule"}} \cup UNION {it.set : it \in marked}

\* A child of such a kind, added at path without the label watched for.
Besides(path, child) ==
    {child} \cap IF watch[1] = "field" /\ watch[2] # Label(path) THEN MarkedBy(watch[2]) ELSE {}

\* enterRule: a new context without children.
Init ==
    /\ grammar \in {"current", "port"}
    /\ rule \in DOMAIN RulesOf(grammar) \ BaseRules
    /\ \E def \in {RulesOf(grammar)[rule]} : code = def.rhs /\ context = def.class
    /\ watch \in Watches(code) \cup {Readings}
    /\ at = <<1>>
    /\ twin = <<1>>
    /\ apart = {}
    /\ got = <<>>
    /\ besides = {}
    /\ exited = FALSE

\* match, or the call of another rule function: the child is added, and
\* assigned to the field of its label.
AddChild ==
    /\ ~exited
    /\ watch # Readings
    /\ \E p \in Nexts(code, at) \ {End} : \E child \in Children(p) :
          /\ got' = IF Len(got) < 2 /\ watch \in {<<"child", child>>, <<"field", Label(p)>>}
                    THEN Append(got, Kept(p, child))
                    ELSE got
          /\ besides' = besides \cup Besides(p, child)
          /\ at' = Behind(p)
          /\ twin' = at'
    /\ UNCHANGED <<grammar, rule, code, context, watch, apart, exited>>

\* The same child added in both readings, the second of which may be
\* given up.
AddChildTwice ==
    /\ ~exited
    /\ watch = Readings
    /\ \E p \in Nexts(code, at) \ {End} :
          /\ at' = Behind(p)
          /\ \/ \E q \in Nexts(code, twin) \ {End} :
                   /\ Children(p) \cap Children(q) # {}
                   /\ twin' = Behind(q)
                   /\ apart' = apart \cup IF Label(p) = Label(q) THEN {} ELSE {Label(p), Label(q)} \ {""}
             \/ /\ twin' = at'
                /\ apart' = {}
    /\ UNCHANGED <<grammar, rule, code, context, watch, got, besides, exited>>

\* exitRule: the context is complete.
ExitRule ==
    /\ ~exited
    /\ End \in Nexts(code, at)
    /\ exited' = TRUE
    /\ apart' = IF End \in Nexts(code, twin) THEN apart ELSE {}
    /\ UNCHANGED <<grammar, rule, code, context, at, twin, watch, got, besides>>

\* The client reads the context.
Visit == exited /\ UNCHANGED vars

Next == AddChild \/ AddChildTwice \/ ExitRule \/ Visit

Spec == Init /\ [][Next]_vars
=============================================================================
