----------------------------- MODULE ParserCore -----------------------------
(***************************************************************************)
(* The recursive-descent parser that ANTLR generates from TSqlParser.g4,   *)
(* for an arbitrary grammar: one function per rule, which enters the rule, *)
(* matches the items of its right-hand side from left to right, asks the   *)
(* prediction which way to go at every decision, and exits the rule.  The  *)
(* module keeps what the generated code keeps: the current token, the call *)
(* stack of rule functions, the current context, and the parse tree, whose *)
(* nodes record their rule, their parent, their first and their last       *)
(* token.                                                                  *)
(*                                                                         *)
(* Prediction is a parameter.  Nothing here depends on how it decides, so  *)
(* the theorems of ParserCoreProofs hold for any grammar and any decision. *)
(***************************************************************************)
EXTENDS Integers, Sequences

CONSTANTS
    Grammar,        \* rule name -> right-hand side, a sequence of items
    Items,          \* every item that occurs in the grammar, at any depth
    StartRule,      \* the rule the client calls
    Inputs,         \* the token streams; the last token of each is "EOF"
    Lookahead(_),   \* what prediction computes from a token stream
    Viable(_, _, _) \* Viable(t, rests, p): with lookahead t, the tokens from
                    \* p on match rests[1], then rests[2], and so on

Kinds == {"tok", "rule", "alt", "opt", "star"}

ASSUME ItemsAssumption ==
    \A it \in Items :
        /\ it = [k |-> it.k, sym |-> it.sym, set |-> it.set, alts |-> it.alts]
        /\ it.k \in Kinds
        /\ it.alts \in Seq(Seq(Items))
        /\ it.k \in {"opt", "star"} => Len(it.alts) = 1

ASSUME GrammarAssumption ==
    /\ StartRule \in DOMAIN Grammar
    /\ \A rule \in DOMAIN Grammar : Grammar[rule] \in Seq(Items)
    /\ \A it \in Items : it.k = "rule" => it.sym \in DOMAIN Grammar

ASSUME InputsAssumption ==
    \A w \in Inputs : w \in Seq(STRING) /\ w # <<>> /\ w[Len(w)] = "EOF"

(***************************************************************************)
(* A start rule that reads to the end of the stream: every alternative of  *)
(* it ends with EOF, which stands nowhere else in a stream.                *)
(***************************************************************************)
ReadsEof(it) == it.k = "tok" /\ it.set = {"EOF"}

EndsWithEof(e) == e # <<>> /\ ReadsEof(e[Len(e)])

EndsStream(e) ==
    /\ e # <<>>
    /\ \/ ReadsEof(e[Len(e)])
       \/ e[Len(e)].k = "alt" /\ \A n \in DOMAIN e[Len(e)].alts : EndsWithEof(e[Len(e)].alts[n])

ReadsWholeStream ==
    /\ EndsStream(Grammar[StartRule])
    /\ \A w \in Inputs : \A p \in DOMAIN w : w[p] = "EOF" => p = Len(w)

VARIABLES
    input,   \* the token stream
    table,   \* the prediction's knowledge of the stream
    pos,     \* index of the current token, _input.LT(1)
    stack,   \* the active rule functions: tree node, items still to match
    ctx,     \* the parser's current context (a node; 0 when there is none)
    nodes,   \* the parse tree: nodes in the order they were entered
    owner,   \* owner[p]: the node to which the terminal p was attached
    status   \* "ready", "parsing", "accepted" or "error"

vars == <<input, table, pos, stack, ctx, nodes, owner, status>>

Node(rule, parent, start) ==
    [rule |-> rule, parent |-> parent, start |-> start, stop |-> 0]

Frame(node, rest) == [node |-> node, rest |-> rest]

Top == stack[Len(stack)]

\* The item it is about to match, and its first (or only) block.
Expected == Head(Top.rest)
Block == Expected.alts[1]

\* The callers of the active rule function.
Callers == SubSeq(stack, 1, Len(stack) - 1)

\* The active function is about to match an item of this kind.
At(kind) == status = "parsing" /\ stack # <<>> /\ Top.rest # <<>> /\ Expected.k = kind

\* Replace what the active function has still to match.
Continue(rest) == stack' = [stack EXCEPT ![Len(stack)].rest = rest]

(***************************************************************************)
(* The active function can match e next: e, and then what every active     *)
(* function has still to match after it, innermost first.                  *)
(***************************************************************************)
Fits(e) ==
    Viable(table,
           [d \in 1 .. Len(stack) |->
               IF d = 1 THEN e \o Tail(Top.rest) ELSE stack[Len(stack) + 1 - d].rest],
           pos)

Init ==
    /\ input \in Inputs
    /\ table = <<>>
    /\ pos = 1
    /\ stack = <<>>
    /\ ctx = 0
    /\ nodes = <<>>
    /\ owner = <<>>
    /\ status = "ready"

(***************************************************************************)
(* A call of a rule function: the new context becomes a child of the       *)
(* current one and starts at the current token.                            *)
(***************************************************************************)
Enter(rule, callers) ==
    /\ nodes' = Append(nodes, Node(rule, ctx, pos))
    /\ ctx' = Len(nodes) + 1
    /\ stack' = Append(callers, Frame(Len(nodes) + 1, Grammar[rule]))

\* The client calls the start rule on a freshly filled token stream.
Call ==
    /\ status = "ready"
    /\ table' = Lookahead(input)
    /\ status' = "parsing"
    /\ Enter(StartRule, <<>>)
    /\ UNCHANGED <<input, pos, owner>>

\* Mutant: the token is attached to the root of the tree.
Match_ToRoot ==
    /\ At("tok")
    /\ pos <= Len(input)
    /\ input[pos] \in Expected.set
    /\ owner' = Append(owner, 1)
    /\ pos' = pos + 1
    /\ Continue(Tail(Top.rest))
    /\ UNCHANGED <<input, table, ctx, nodes, status>>

\* Match(token): the token is attached to the current context and consumed.
Match ==
    /\ At("tok")
    /\ pos <= Len(input)
    /\ input[pos] \in Expected.set
    /\ owner' = Append(owner, ctx)
    /\ pos' = pos + 1
    /\ Continue(Tail(Top.rest))
    /\ UNCHANGED <<input, table, ctx, nodes, status>>

\* The function of a referenced rule is called.
EnterRule ==
    /\ At("rule")
    /\ Enter(Expected.sym, Append(Callers, Frame(Top.node, Tail(Top.rest))))
    /\ UNCHANGED <<input, table, pos, owner, status>>

(***************************************************************************)
(* AdaptivePredict at a decision between alternatives: of those that fit,  *)
(* the one the grammar lists first.                                        *)
(***************************************************************************)
Choose ==
    /\ At("alt")
    /\ \E n \in DOMAIN Expected.alts :
          /\ Fits(Expected.alts[n])
          /\ \A m \in 1 .. n - 1 : ~Fits(Expected.alts[m])
          /\ Continue(Expected.alts[n] \o Tail(Top.rest))
    /\ UNCHANGED <<input, table, pos, ctx, nodes, owner, status>>

\* An optional block: entering it is the first alternative, so it is greedy.
EnterOptional ==
    /\ At("opt")
    /\ IF Fits(Block)
       THEN Continue(Block \o Tail(Top.rest))
       ELSE Continue(Tail(Top.rest))
    /\ UNCHANGED <<input, table, pos, ctx, nodes, owner, status>>

\* A loop: iterating once more is the first alternative.
Iterate ==
    /\ At("star")
    /\ IF Fits(Append(Block, Expected))
       THEN Continue(Block \o Top.rest)
       ELSE Continue(Tail(Top.rest))
    /\ UNCHANGED <<input, table, pos, ctx, nodes, owner, status>>

\* Mutant: the context entered before this one becomes current again.
ExitRule_ToPrevious ==
    /\ status = "parsing"
    /\ stack # <<>>
    /\ Top.rest = <<>>
    /\ nodes' = [nodes EXCEPT ![ctx].stop = pos - 1]
    /\ ctx' = ctx - 1
    /\ stack' = Callers
    /\ status' = IF Len(stack) = 1 THEN "accepted" ELSE "parsing"
    /\ UNCHANGED <<input, table, pos, owner>>

\* Mutant: the context stops at the last token its own function consumed.
ExitRule_StopsAtOwn ==
    /\ status = "parsing"
    /\ stack # <<>>
    /\ Top.rest = <<>>
    /\ LET own == {nodes[ctx].start - 1} \cup {p \in DOMAIN owner : owner[p] = ctx}
       IN  nodes' = [nodes EXCEPT ![ctx].stop = CHOOSE p \in own : \A q \in own : q <= p]
    /\ ctx' = nodes[ctx].parent
    /\ stack' = Callers
    /\ status' = IF Len(stack) = 1 THEN "accepted" ELSE "parsing"
    /\ UNCHANGED <<input, table, pos, owner>>

\* Mutant: the parse ends with the function that the start rule has called.
ExitRule_EndsWithCallee ==
    /\ status = "parsing"
    /\ stack # <<>>
    /\ Top.rest = <<>>
    /\ nodes' = [nodes EXCEPT ![ctx].stop = pos - 1]
    /\ ctx' = nodes[ctx].parent
    /\ stack' = Callers
    /\ status' = IF Len(stack) <= 2 THEN "accepted" ELSE "parsing"
    /\ UNCHANGED <<input, table, pos, owner>>

\* Mutant: the rule is recorded in the context that was entered last.
ExitRule_RenamesLast ==
    /\ status = "parsing"
    /\ stack # <<>>
    /\ Top.rest = <<>>
    /\ nodes' = [nodes EXCEPT ![ctx].stop = pos - 1, ![Len(nodes)].rule = nodes[ctx].rule]
    /\ ctx' = nodes[ctx].parent
    /\ stack' = Callers
    /\ status' = IF Len(stack) = 1 THEN "accepted" ELSE "parsing"
    /\ UNCHANGED <<input, table, pos, owner>>

(***************************************************************************)
(* ExitRule: the context stops at the last consumed token and its parent   *)
(* becomes current again.  When the start rule exits the parse is over.    *)
(***************************************************************************)
ExitRule ==
    /\ status = "parsing"
    /\ stack # <<>>
    /\ Top.rest = <<>>
    /\ nodes' = [nodes EXCEPT ![ctx].stop = pos - 1]
    /\ ctx' = nodes[ctx].parent
    /\ stack' = Callers
    /\ status' = IF Len(stack) = 1 THEN "accepted" ELSE "parsing"
    /\ UNCHANGED <<input, table, pos, owner>>

(***************************************************************************)
(* A token that does not match or a decision without a viable alternative: *)
(* the error listener is notified.  What the recovery does afterwards is   *)
(* not modelled: the client of a parse with an error gets no tree.         *)
(***************************************************************************)
SyntaxError ==
    /\ \/ At("tok") /\ (pos > Len(input) \/ input[pos] \notin Expected.set)
       \/ At("alt") /\ \A n \in DOMAIN Expected.alts : ~Fits(Expected.alts[n])
    /\ status' = "error"
    /\ UNCHANGED <<input, table, pos, stack, ctx, nodes, owner>>

Finished == status \in {"accepted", "error"}

\* The client keeps the result.
Keep == Finished /\ UNCHANGED vars

\* One step of the parser.
Step ==
    \/ Match
    \/ EnterRule
    \/ Choose
    \/ EnterOptional
    \/ Iterate
    \/ ExitRule
    \/ SyntaxError

Next == Call \/ Step \/ Keep

Spec == Init /\ [][Next]_vars

\* Once called, the parser runs in its caller's goroutine and waits for nothing.
FairSpec == Spec /\ WF_vars(Step)

-----------------------------------------------------------------------------
\* Every variable has its type.
TypeOK ==
    /\ input \in Inputs
    /\ pos \in 1 .. Len(input) + 1
    /\ stack \in Seq([node : 1 .. Len(nodes), rest : Seq(Items)])
    /\ ctx \in 0 .. Len(nodes)
    /\ nodes \in Seq([rule : DOMAIN Grammar, parent : Nat, start : Nat, stop : Nat])
    /\ owner \in Seq(1 .. Len(nodes))
    /\ status \in {"ready", "parsing", "accepted", "error"}

Open(n) == \E d \in DOMAIN stack : stack[d].node = n
Closed(n) == ~Open(n)

(***************************************************************************)
(* The current context is that of the innermost active rule function, and  *)
(* the parent links of the open contexts follow the call stack: that is    *)
(* what lets ExitRule restore the context from the tree alone.             *)
(***************************************************************************)
ContextFollowsCalls ==
    /\ ctx = IF stack = <<>> THEN 0 ELSE Top.node
    /\ \A d \in DOMAIN stack :
          nodes[stack[d].node].parent = IF d = 1 THEN 0 ELSE stack[d - 1].node
    /\ \A d, e \in DOMAIN stack : d < e => stack[d].node < stack[e].node

\* The tokens of m lie within those of n, and m does not outlive n.
Within(m, n) ==
    /\ n < m
    /\ nodes[n].start <= nodes[m].start
    /\ Closed(n) => Closed(m) /\ nodes[m].stop <= nodes[n].stop

(***************************************************************************)
(* The token intervals that EnterRule and ExitRule record form a tree: a   *)
(* node lies within its parent, and of two children of one parent the      *)
(* earlier has ended before the later begins.                              *)
(***************************************************************************)
IntervalsNest ==
    \A m \in DOMAIN nodes :
        /\ nodes[m].parent # 0 => Within(m, nodes[m].parent)
        /\ \A n \in 1 .. m - 1 : nodes[n].parent = nodes[m].parent =>
              Closed(n) /\ nodes[n].stop < nodes[m].start

(***************************************************************************)
(* Every consumed token hangs off exactly one node, the innermost one      *)
(* whose interval contains it.                                             *)
(***************************************************************************)
TokensHangInnermost ==
    /\ Len(owner) = pos - 1
    /\ \A p \in DOMAIN owner :
          /\ nodes[owner[p]].start <= p
          /\ Closed(owner[p]) => p <= nodes[owner[p]].stop
          /\ \A m \in DOMAIN nodes : m > owner[p] =>
                (Closed(m) /\ nodes[m].stop < p) \/ nodes[m].start > p

\* An accepted parse has left no context open and stands behind the stream.
AcceptedIsComplete ==
    status = "accepted" => stack = <<>> /\ ctx = 0 /\ pos = Len(input) + 1

(***************************************************************************)
(* What a listener was given by ExitRule stays as it is: a step adds nodes *)
(* and terminals to the tree and closes nodes, but a closed one does not   *)
(* change or open again, no node changes its rule, its parent or its first *)
(* token, and no terminal moves.                                           *)
(***************************************************************************)
Grows ==
    /\ \A n \in DOMAIN nodes :
          /\ n \in DOMAIN nodes'
          /\ nodes'[n].rule = nodes[n].rule
          /\ nodes'[n].parent = nodes[n].parent
          /\ nodes'[n].start = nodes[n].start
          /\ Closed(n) => nodes'[n].stop = nodes[n].stop /\ Closed(n)'
    /\ \A p \in DOMAIN owner : p \in DOMAIN owner' /\ owner'[p] = owner[p]

TreeOnlyGrows == [][Grows]_vars

\* Every parse that was begun ends, with a tree or with an error.
Termination == (status = "parsing") ~> Finished
=============================================================================
