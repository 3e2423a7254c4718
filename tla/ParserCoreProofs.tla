-------------------------- MODULE ParserCoreProofs --------------------------
(***************************************************************************)
(* The parse tree is well formed in every reachable state, and an accepted *)
(* parse is a derivation, for every grammar, every token stream and every  *)
(* prediction.                                                             *)
(***************************************************************************)
EXTENDS ParserCore, SequenceTheorems, TLAPS

(***************************************************************************)
(* What the named invariants need to be inductive: a call has nothing to   *)
(* build on, a running parse has an active function, and no node reaches   *)
(* behind the current token.                                               *)
(***************************************************************************)
Bookkeeping ==
    /\ status = "ready" => stack = <<>> /\ nodes = <<>> /\ owner = <<>> /\ pos = 1
    /\ status = "parsing" => stack # <<>>
    /\ status = "accepted" => stack = <<>>
    /\ \A n \in DOMAIN nodes :
          /\ nodes[n].start <= pos
          /\ Closed(n) => nodes[n].stop < pos

TreeInv ==
    TypeOK /\ ContextFollowsCalls /\ IntervalsNest /\ TokensHangInnermost /\ Bookkeeping

-----------------------------------------------------------------------------
FrameSet == [node : 1 .. Len(nodes), rest : Seq(Items)]
NodeSet == [rule : DOMAIN Grammar, parent : Nat, start : Nat, stop : Nat]

\* The active function is a frame of the stack, and its items are items.
LEMMA TopType ==
    ASSUME TypeOK, stack # <<>>
    PROVE  /\ Len(stack) \in Nat \ {0}
           /\ DOMAIN stack = 1 .. Len(stack)
           /\ \A d \in 1 .. Len(stack) : stack[d] \in FrameSet
           /\ Top \in FrameSet
           /\ Top.rest \in Seq(Items)
           /\ Top.node \in 1 .. Len(nodes)
<1>1. stack \in Seq(FrameSet)
  BY DEF TypeOK, FrameSet
<1>2. Len(stack) \in Nat \ {0} /\ DOMAIN stack = 1 .. Len(stack)
  BY <1>1, EmptySeq, LenProperties
<1>3. \A d \in 1 .. Len(stack) : stack[d] \in FrameSet
  BY <1>1, ElementOfSeq
<1>4. Top \in FrameSet
  BY <1>2, <1>3 DEF Top
<1> QED
  BY <1>2, <1>3, <1>4 DEF FrameSet

\* What an active function expects is an item, and so are its blocks.
LEMMA ExpectedType ==
    ASSUME TypeOK, NEW kind, At(kind)
    PROVE  /\ Expected \in Items
           /\ Expected.k = kind
           /\ Tail(Top.rest) \in Seq(Items)
           /\ \A n \in DOMAIN Expected.alts : Expected.alts[n] \in Seq(Items)
           /\ kind \in {"opt", "star"} => Block \in Seq(Items)
<1>1. Top.rest \in Seq(Items) /\ Top.rest # <<>> /\ Expected.k = kind
  BY TopType DEF At
<1>2. Expected \in Items /\ Tail(Top.rest) \in Seq(Items)
  BY <1>1, HeadTailProperties DEF Expected
<1>3. Expected.alts \in Seq(Seq(Items))
  BY <1>2, ItemsAssumption
<1>4. \A n \in 1 .. Len(Expected.alts) : Expected.alts[n] \in Seq(Items)
  BY <1>3, ElementOfSeq
<1>5. DOMAIN Expected.alts = 1 .. Len(Expected.alts)
  BY <1>3, LenProperties
<1>6. kind \in {"opt", "star"} => Len(Expected.alts) = 1
  BY <1>1, <1>2, ItemsAssumption
<1> QED
  BY <1>1, <1>2, <1>4, <1>5, <1>6 DEF Block

\* The nodes are numbered from 1 and their token indices are numbers.
LEMMA NodeTypes ==
    ASSUME TypeOK
    PROVE  /\ Len(nodes) \in Nat
           /\ DOMAIN nodes = 1 .. Len(nodes)
           /\ \A n \in DOMAIN nodes :
                 /\ nodes[n] \in NodeSet
                 /\ nodes[n].start \in Nat
                 /\ nodes[n].stop \in Nat
<1>1. nodes \in Seq(NodeSet)
  BY DEF TypeOK, NodeSet
<1>2. Len(nodes) \in Nat /\ DOMAIN nodes = 1 .. Len(nodes)
  BY <1>1, LenProperties
<1>3. \A n \in DOMAIN nodes : nodes[n] \in NodeSet
  BY <1>1, <1>2, ElementOfSeq
<1> QED
  BY <1>2, <1>3 DEF NodeSet

\* The current token's index is a number.
LEMMA PosType ==
    ASSUME TypeOK
    PROVE  Len(input) \in Nat /\ pos \in Nat \ {0}
<1>1. Len(input) \in Nat
  BY InputsAssumption, LenProperties DEF TypeOK
<1> QED
  BY <1>1 DEF TypeOK

\* The stack, empty or not.
LEMMA StackType ==
    ASSUME TypeOK
    PROVE  /\ stack \in Seq(FrameSet)
           /\ Len(stack) \in Nat
           /\ DOMAIN stack = 1 .. Len(stack)
           /\ \A d \in 1 .. Len(stack) :
                 /\ stack[d] \in FrameSet
                 /\ stack[d].node \in 1 .. Len(nodes)
           /\ stack = <<>> <=> Len(stack) = 0
<1>1. stack \in Seq(FrameSet)
  BY DEF TypeOK, FrameSet
<1>2. \A d \in 1 .. Len(stack) : stack[d] \in FrameSet
  BY <1>1, ElementOfSeq
<1> QED
  BY SMTT(60), <1>1, <1>2, EmptySeq, LenProperties DEF FrameSet

\* Replacing the items an active function has still to match keeps the type of
\* the stack and every frame's node.
LEMMA ContinueFrames ==
    ASSUME TypeOK, stack # <<>>, NEW rest \in Seq(Items), Continue(rest)
    PROVE  /\ stack' \in Seq(FrameSet)
           /\ Len(stack') = Len(stack)
           /\ DOMAIN stack' = DOMAIN stack
           /\ stack' # <<>>
           /\ \A d \in DOMAIN stack : stack'[d].node = stack[d].node
<1>1. stack \in Seq(FrameSet) /\ Len(stack) \in 1 .. Len(stack)
  BY TopType DEF TypeOK, FrameSet
<1> DEFINE top == [Top EXCEPT !.rest = rest]
<1>2. top \in FrameSet /\ top.node = Top.node
  BY TopType DEF FrameSet
<1>3. stack' = [stack EXCEPT ![Len(stack)] = top]
  BY DEF Continue, Top
<1> HIDE DEF top
<1>4. /\ stack' \in Seq(FrameSet)
      /\ Len(stack') = Len(stack)
      /\ \A d \in 1 .. Len(stack) : stack'[d] = IF d = Len(stack) THEN top ELSE stack[d]
  BY <1>1, <1>2, <1>3, ExceptSeq
<1>5. DOMAIN stack = 1 .. Len(stack) /\ DOMAIN stack' = 1 .. Len(stack)
  BY <1>1, <1>4, LenProperties
<1>6. stack' # <<>>
  BY <1>1, <1>4, EmptySeq
<1> QED
  BY <1>2, <1>4, <1>5, <1>6 DEF Top

-----------------------------------------------------------------------------
\* A step within the active function: no frame is pushed or popped.
SameFrames ==
    /\ stack # <<>>
    /\ stack' \in Seq(FrameSet)
    /\ Len(stack') = Len(stack)
    /\ DOMAIN stack' = DOMAIN stack
    /\ stack' # <<>>
    /\ \A d \in DOMAIN stack : stack'[d].node = stack[d].node
    /\ UNCHANGED <<input, ctx, nodes>>
    /\ status' = status

\* Such a step opens and closes nothing.
LEMMA SameOpen ==
    ASSUME SameFrames, NEW n
    PROVE  Closed(n)' <=> Closed(n)
BY DEF SameFrames, Closed, Open

\* It keeps the context, the call stack and the intervals of the nodes.
LEMMA SameContext ==
    ASSUME TreeInv, SameFrames
    PROVE  ContextFollowsCalls' /\ IntervalsNest'
<1>1. Top' = stack'[Len(stack)] /\ Top'.node = Top.node
  BY TopType DEF TreeInv, SameFrames, Top
<1>2. ctx' = Top'.node
  BY <1>1 DEF TreeInv, ContextFollowsCalls, SameFrames
<1>3. \A d \in DOMAIN stack' :
         nodes'[stack'[d].node].parent = IF d = 1 THEN 0 ELSE stack'[d - 1].node
  <2> SUFFICES ASSUME NEW d \in DOMAIN stack
               PROVE  nodes[stack'[d].node].parent = IF d = 1 THEN 0 ELSE stack'[d - 1].node
    BY DEF SameFrames
  <2>1. nodes[stack[d].node].parent = IF d = 1 THEN 0 ELSE stack[d - 1].node
    BY DEF TreeInv, ContextFollowsCalls
  <2>2. d # 1 => d - 1 \in DOMAIN stack
    BY TopType DEF TreeInv, SameFrames
  <2> QED
    BY <2>1, <2>2 DEF SameFrames
<1>4. \A d, e \in DOMAIN stack' : d < e => stack'[d].node < stack'[e].node
  BY DEF TreeInv, ContextFollowsCalls, SameFrames
<1>5. IntervalsNest'
  BY SameOpen DEF TreeInv, IntervalsNest, Within, SameFrames
<1> QED
  BY <1>2, <1>3, <1>4, <1>5 DEF ContextFollowsCalls, SameFrames

\* A decision keeps the whole invariant.
LEMMA DecisionKeeps ==
    ASSUME TreeInv, SameFrames, UNCHANGED <<pos, owner>>
    PROVE  TreeInv'
<1>1. TypeOK'
  BY DEF TreeInv, TypeOK, SameFrames, FrameSet
<1>2. TokensHangInnermost'
  BY SameOpen DEF TreeInv, TokensHangInnermost, SameFrames
<1>3. Bookkeeping'
  BY SameOpen DEF TreeInv, Bookkeeping, SameFrames
<1> QED
  BY <1>1, <1>2, <1>3, SameContext DEF TreeInv

\* Consuming a token keeps the invariant.
LEMMA MatchKeeps ==
    ASSUME TreeInv, Match
    PROVE  TreeInv'
<1>1. stack # <<>> /\ pos \in 1 .. Len(input) /\ pos' = pos + 1 /\ owner' = Append(owner, ctx)
  BY DEF TreeInv, TypeOK, Match, At
<1>2. SameFrames
  BY <1>1, ExpectedType, ContinueFrames DEF TreeInv, SameFrames, Match
<1>3. /\ ctx = Top.node
      /\ ctx \in 1 .. Len(nodes)
      /\ ctx = stack[Len(stack)].node
      /\ Len(stack) \in DOMAIN stack
      /\ DOMAIN stack = 1 .. Len(stack)
  BY <1>1, TopType DEF TreeInv, ContextFollowsCalls, Top
<1>4. /\ owner \in Seq(1 .. Len(nodes))
      /\ Len(owner) = pos - 1
      /\ owner' \in Seq(1 .. Len(nodes))
      /\ Len(owner') = pos
      /\ owner'[pos] = ctx
      /\ \A p \in 1 .. pos - 1 : owner'[p] = owner[p]
  <2>1. owner \in Seq(1 .. Len(nodes)) /\ Len(owner) = pos - 1
    BY DEF TreeInv, TypeOK, TokensHangInnermost
  <2> QED
    BY <1>1, <1>3, <2>1, AppendProperties
<1>5. DOMAIN owner = 1 .. pos - 1 /\ DOMAIN owner' = 1 .. pos
  BY <1>4, LenProperties
<1>6. TypeOK'
  <2>1. pos' \in 1 .. Len(input') + 1
    BY <1>1, <1>2 DEF TreeInv, TypeOK, SameFrames
  <2> QED
    BY <2>1, <1>2, <1>4 DEF TreeInv, TypeOK, SameFrames, FrameSet
<1>9. Bookkeeping'
  BY <1>1, <1>2, NodeTypes, SameOpen DEF TreeInv, Bookkeeping, SameFrames, Match, At
<1>10. TokensHangInnermost'
  <2>1. ~Closed(ctx)
    BY <1>3 DEF Closed, Open
  <2>2. \A m \in DOMAIN nodes : m > ctx => Closed(m)
    <3> SUFFICES ASSUME NEW m \in DOMAIN nodes, m > ctx, NEW d \in DOMAIN stack, stack[d].node = m
                 PROVE  FALSE
      BY DEF Closed, Open
    <3> QED
      BY <1>3 DEF TreeInv, ContextFollowsCalls
  <2>3. \A m \in DOMAIN nodes : m > ctx => Closed(m) /\ nodes[m].stop < pos
    BY <2>2 DEF TreeInv, Bookkeeping
  <2>4. nodes[ctx].start <= pos
    BY <1>3, NodeTypes DEF TreeInv, Bookkeeping
  <2>5. ASSUME NEW p \in 1 .. pos
        PROVE  /\ nodes[owner'[p]].start <= p
               /\ Closed(owner'[p]) => p <= nodes[owner'[p]].stop
               /\ \A m \in DOMAIN nodes : m > owner'[p] =>
                     (Closed(m) /\ nodes[m].stop < p) \/ nodes[m].start > p
    <3>1. CASE p = pos
      BY <3>1, <1>4, <2>1, <2>3, <2>4
    <3>2. CASE p \in 1 .. pos - 1
      BY <3>2, <1>4, <1>5 DEF TreeInv, TokensHangInnermost
    <3> QED
      BY <3>1, <3>2, PosType DEF TreeInv
  <2>6. nodes' = nodes /\ DOMAIN owner' = 1 .. pos /\ Len(owner') = pos' - 1
    BY <1>1, <1>2, <1>4, <1>5 DEF SameFrames
  <2>7. \A n : Closed(n)' <=> Closed(n)
    BY <1>2, SameOpen
  <2> QED
    BY <2>5, <2>6, <2>7 DEF TokensHangInnermost
<1> QED
  BY <1>2, <1>6, <1>9, <1>10, SameContext DEF TreeInv

-----------------------------------------------------------------------------
\* Calling a rule function: the callers stay open, the new node is the last.
LEMMA EnterKeeps ==
    ASSUME TreeInv,
           NEW rule \in DOMAIN Grammar,
           NEW callers \in Seq(FrameSet),
           Len(callers) = Len(stack),
           \A d \in 1 .. Len(stack) : callers[d].node = stack[d].node,
           Enter(rule, callers),
           UNCHANGED <<input, pos, owner>>,
           status' = "parsing"
    PROVE  TreeInv'
<1> DEFINE new == Len(nodes) + 1
           depth == Len(stack) + 1
<1>1. TypeOK
  BY DEF TreeInv
<1>2. /\ Len(nodes) \in Nat /\ new \in Nat
      /\ Len(stack) \in Nat /\ depth \in Nat
      /\ DOMAIN nodes = 1 .. Len(nodes) /\ DOMAIN stack = 1 .. Len(stack)
      /\ pos \in Nat
  BY <1>1, NodeTypes, StackType, PosType
<1>3. /\ nodes' \in Seq(NodeSet)
      /\ Len(nodes') = new
      /\ \A n \in 1 .. Len(nodes) : nodes'[n] = nodes[n]
      /\ nodes'[new] = Node(rule, ctx, pos)
  <2>1. Node(rule, ctx, pos) \in NodeSet
    BY <1>1, <1>2 DEF TypeOK, Node, NodeSet
  <2>2. nodes \in Seq(NodeSet)
    BY <1>1 DEF TypeOK, NodeSet
  <2> QED
    BY <2>1, <2>2, AppendProperties DEF Enter
<1>4. DOMAIN nodes' = 1 .. new
  BY <1>3, LenProperties
<1>5. /\ stack' \in Seq([node : 1 .. new, rest : Seq(Items)])
      /\ stack' # <<>>
      /\ Len(stack') = depth
      /\ \A d \in 1 .. Len(stack) : stack'[d].node = stack[d].node
      /\ stack'[depth].node = new
  <2> DEFINE F == [node : 1 .. new, rest : Seq(Items)]
  <2>1. Frame(new, Grammar[rule]) \in F /\ Frame(new, Grammar[rule]).node = new
    BY <1>2, GrammarAssumption DEF Frame
  <2>2. callers \in Seq(F)
    <3>1. FrameSet \subseteq F
      BY <1>2 DEF FrameSet
    <3> QED
      BY <3>1, SeqMonotonic
  <2>3. stack' = Append(callers, Frame(new, Grammar[rule]))
    BY DEF Enter
  <2> HIDE DEF F, new
  <2>4. /\ stack' \in Seq(F)
        /\ stack' # <<>>
        /\ Len(stack') = Len(callers) + 1
        /\ \A d \in 1 .. Len(callers) : stack'[d] = callers[d]
        /\ stack'[Len(callers) + 1] = Frame(new, Grammar[rule])
    BY <2>1, <2>2, <2>3, AppendProperties
  <2> QED
    BY <2>1, <2>4 DEF F
<1>6. DOMAIN stack' = 1 .. depth
  BY <1>5, LenProperties
<1>7. ctx' = new
  BY DEF Enter
<1> HIDE DEF new, depth
<1>8. \A d \in 1 .. Len(stack) : stack[d].node \in 1 .. Len(nodes)
  BY <1>1, StackType
<1>9. new = Len(nodes) + 1 /\ depth = Len(stack) + 1
  BY DEF new, depth
<1>10. TypeOK'
  <2>1. owner' \in Seq(1 .. new)
    <3>1. 1 .. Len(nodes) \subseteq 1 .. new
      BY <1>2, <1>9
    <3> QED
      BY <1>1, <3>1, SeqMonotonic DEF TypeOK
  <2> QED
    BY <1>1, <1>2, <1>3, <1>5, <1>7, <1>9, <2>1 DEF TypeOK, NodeSet
<1>11. ContextFollowsCalls'
  <2>1. ctx' = Top'.node
    BY <1>5, <1>7 DEF Top
  <2>2. ASSUME NEW d \in 1 .. depth
        PROVE  nodes'[stack'[d].node].parent = IF d = 1 THEN 0 ELSE stack'[d - 1].node
    <3>1. CASE d \in 1 .. Len(stack)
      <4>1. nodes'[stack'[d].node] = nodes[stack[d].node]
        BY <3>1, <1>3, <1>5, <1>8
      <4>2. d # 1 => d - 1 \in 1 .. Len(stack)
        BY <3>1, <1>2
      <4>3. nodes[stack[d].node].parent = IF d = 1 THEN 0 ELSE stack[d - 1].node
        BY <3>1, <1>2 DEF TreeInv, ContextFollowsCalls
      <4> QED
        BY <4>1, <4>2, <4>3, <1>5
    <3>2. CASE d = depth
      <4>1. nodes'[stack'[d].node].parent = ctx
        BY <3>2, <1>3, <1>5 DEF Node
      <4>2. CASE Len(stack) = 0
        BY <3>2, <4>1, <4>2, <1>1, <1>9, StackType DEF TreeInv, ContextFollowsCalls
      <4>3. CASE Len(stack) # 0
        <5>1. ctx = stack[Len(stack)].node
          BY <4>3, <1>1, StackType DEF TreeInv, ContextFollowsCalls, Top
        <5>2. stack'[Len(stack)].node = stack[Len(stack)].node
          BY <4>3, <1>2, <1>5
        <5> QED
          BY <3>2, <4>1, <4>3, <5>1, <5>2, <1>2, <1>9
      <4> QED
        BY <4>2, <4>3
    <3> QED
      BY <3>1, <3>2, <1>2, <1>9
  <2>3. ASSUME NEW d \in 1 .. depth, NEW e \in 1 .. depth, d < e
        PROVE  stack'[d].node < stack'[e].node
    <3>1. d \in 1 .. Len(stack)
      BY <2>3, <1>2, <1>9
    <3>2. CASE e \in 1 .. Len(stack)
      BY <2>3, <3>1, <3>2, <1>2, <1>5 DEF TreeInv, ContextFollowsCalls
    <3>3. CASE e = depth
      <4>1. stack'[d].node \in 1 .. Len(nodes)
        BY <3>1, <1>5, <1>8
      <4>2. stack'[e].node = Len(nodes) + 1
        BY <3>3, <1>5, <1>9
      <4> QED
        BY <4>1, <4>2, <1>2
    <3> QED
      BY <3>2, <3>3, <1>2, <1>9
  <2> QED
    BY <2>1, <2>2, <2>3, <1>5, <1>6 DEF ContextFollowsCalls
<1>12. \A n \in 1 .. Len(nodes) : Closed(n)' <=> Closed(n)
  <2> SUFFICES ASSUME NEW n \in 1 .. Len(nodes)
               PROVE  (\E d \in 1 .. depth : stack'[d].node = n)
                        <=> (\E d \in 1 .. Len(stack) : stack[d].node = n)
    BY <1>2, <1>6 DEF Closed, Open
  <2>1. ASSUME NEW d \in 1 .. depth, stack'[d].node = n
        PROVE  d \in 1 .. Len(stack) /\ stack[d].node = n
    <3>1. d # depth
      BY <2>1, <1>2, <1>5, <1>9
    <3>2. d \in 1 .. Len(stack)
      BY <3>1, <1>2, <1>9
    <3> QED
      BY <2>1, <3>2, <1>5
  <2>2. ASSUME NEW d \in 1 .. Len(stack), stack[d].node = n
        PROVE  d \in 1 .. depth /\ stack'[d].node = n
    BY SMTT(60), <2>2, <1>2, <1>5, <1>9
  <2> QED
    BY <2>1, <2>2
<1>13. \A n : n = new => ~Closed(n)'
  <2>1. depth \in DOMAIN stack'
    BY <1>2, <1>6, <1>9
  <2> QED
    BY <2>1, <1>5 DEF Closed, Open
<1>14. \A n \in DOMAIN nodes : nodes[n].start <= pos /\ (Closed(n) => nodes[n].stop < pos)
  BY DEF TreeInv, Bookkeeping
<1>15. nodes'[new].start = pos
  BY <1>3 DEF Node
<1>16. IntervalsNest'
  <2> SUFFICES ASSUME NEW m \in 1 .. new
               PROVE  /\ \A n : n = nodes'[m].parent /\ n # 0 => Within(m, n)'
                      /\ \A n \in 1 .. m - 1 : nodes'[n].parent = nodes'[m].parent =>
                            Closed(n)' /\ nodes'[n].stop < nodes'[m].start
    BY <1>4 DEF IntervalsNest, Within
  <2>1. CASE m \in 1 .. Len(nodes)
    <3>1. /\ nodes[m].parent # 0 => Within(m, nodes[m].parent)
          /\ \A n \in 1 .. m - 1 : nodes[n].parent = nodes[m].parent =>
                Closed(n) /\ nodes[n].stop < nodes[m].start
      BY <2>1, <1>2 DEF TreeInv, IntervalsNest
    <3>2. nodes[m].parent # 0 => nodes[m].parent \in 1 .. Len(nodes)
      BY <2>1, <3>1, <1>1, <1>2, NodeTypes DEF Within, NodeSet
    <3>3. \A n \in 1 .. m - 1 : n \in 1 .. Len(nodes)
      BY <2>1, <1>2
    <3> QED
      BY <2>1, <3>1, <3>2, <3>3, <1>3, <1>12 DEF Within
  <2>2. CASE m = new
    <3>1. nodes'[m].parent = ctx /\ nodes'[m].start = pos
      BY <2>2, <1>3, <1>15 DEF Node
    <3>2. ASSUME NEW k, k = ctx, k # 0
          PROVE  Within(m, k)'
      <4>1. ctx \in 1 .. Len(nodes) /\ ~Closed(ctx)
        <5>1. Len(stack) # 0 /\ ctx = stack[Len(stack)].node
          BY <3>2, <1>1, StackType DEF TreeInv, ContextFollowsCalls, Top
        <5> QED
          BY <5>1, <1>2, <1>8 DEF Closed, Open
      <4>2. \A n \in 1 .. Len(nodes) : n = ctx => Within(m, n)'
        BY <2>2, <3>1, <4>1, <1>2, <1>3, <1>9, <1>12, <1>14 DEF Within
      <4> QED
        BY <3>2, <4>1, <4>2
    <3>3. ASSUME NEW n \in 1 .. Len(nodes), nodes[n].parent = ctx
          PROVE  Closed(n)
      <4> SUFFICES ASSUME NEW d \in 1 .. Len(stack), stack[d].node = n
                   PROVE  FALSE
        BY <1>2 DEF Closed, Open
      <4>1. ctx = stack[Len(stack)].node /\ Len(stack) \in 1 .. Len(stack)
        BY <1>1, <1>2, StackType DEF TreeInv, ContextFollowsCalls, Top
      <4>2. ctx = IF d = 1 THEN 0 ELSE stack[d - 1].node
        BY <3>3, <1>2 DEF TreeInv, ContextFollowsCalls
      <4>3. d # 1 => d - 1 \in 1 .. Len(stack) /\ d - 1 < Len(stack)
        BY <1>2
      <4>4. d # 1 => stack[d - 1].node < ctx
        BY <4>1, <4>3, <1>2 DEF TreeInv, ContextFollowsCalls
      <4>5. ctx \in Nat /\ ctx # 0
        BY <4>1, <1>2, <1>8
      <4> QED
        BY <4>2, <4>4, <4>5
    <3>4. ASSUME NEW n \in 1 .. m - 1, nodes'[n].parent = nodes'[m].parent
          PROVE  Closed(n)' /\ nodes'[n].stop < nodes'[m].start
      <4>1. n \in 1 .. Len(nodes)
        BY <2>2, <1>2, <1>9
      <4> QED
        BY <3>1, <3>3, <3>4, <4>1, <1>2, <1>3, <1>12, <1>14
    <3> QED
      BY <3>1, <3>2, <3>4
  <2> QED
    BY <2>1, <2>2, <1>2, <1>9
<1>17. TokensHangInnermost'
  <2>1. owner \in Seq(1 .. Len(nodes)) /\ Len(owner) = pos - 1
    BY <1>1 DEF TypeOK, TreeInv, TokensHangInnermost
  <2>2. DOMAIN owner = 1 .. pos - 1 /\ \A p \in DOMAIN owner : owner[p] \in 1 .. Len(nodes)
    BY <2>1, LenProperties, ElementOfSeq
  <2> SUFFICES ASSUME NEW p \in 1 .. pos - 1
               PROVE  /\ nodes'[owner[p]].start <= p
                      /\ Closed(owner[p])' => p <= nodes'[owner[p]].stop
                      /\ \A m \in 1 .. new : m > owner[p] =>
                            (Closed(m)' /\ nodes'[m].stop < p) \/ nodes'[m].start > p
    BY <2>1, <2>2, <1>4 DEF TokensHangInnermost
  <2>3. /\ nodes[owner[p]].start <= p
        /\ Closed(owner[p]) => p <= nodes[owner[p]].stop
        /\ \A m \in 1 .. Len(nodes) : m > owner[p] =>
              (Closed(m) /\ nodes[m].stop < p) \/ nodes[m].start > p
    BY <2>2, <1>2 DEF TreeInv, TokensHangInnermost
  <2>4. owner[p] \in 1 .. Len(nodes) /\ pos > p
    BY <2>2, <1>2
  <2>5. ASSUME NEW m \in 1 .. new, m > owner[p]
        PROVE  (Closed(m)' /\ nodes'[m].stop < p) \/ nodes'[m].start > p
    <3>1. CASE m \in 1 .. Len(nodes)
      BY <2>3, <2>5, <3>1, <1>3, <1>12
    <3>2. CASE m = new
      BY <2>4, <3>2, <1>15
    <3> QED
      BY <3>1, <3>2, <1>2, <1>9
  <2> QED
    BY <2>3, <2>4, <2>5, <1>3, <1>12
<1>18. Bookkeeping'
  <2>1. ASSUME NEW n \in 1 .. new
        PROVE  nodes'[n].start <= pos /\ (Closed(n)' => nodes'[n].stop < pos)
    <3>1. CASE n \in 1 .. Len(nodes)
      BY <3>1, <1>2, <1>3, <1>12, <1>14
    <3>2. CASE n = new
      BY <3>2, <1>2, <1>13, <1>15
    <3> QED
      BY <3>1, <3>2, <1>2, <1>9
  <2> QED
    BY <2>1, <1>4, <1>5 DEF Bookkeeping
<1> QED
  BY <1>10, <1>11, <1>16, <1>17, <1>18 DEF TreeInv

-----------------------------------------------------------------------------
(***************************************************************************)
(* Leaving a rule function.  The context is the last open node, so every   *)
(* later node is closed and stops before the current token: it lies within *)
(* the interval that is closed now.                                        *)
(***************************************************************************)
LEMMA ExitKeeps ==
    ASSUME TreeInv, ExitRule
    PROVE  TreeInv'
<1>1. TypeOK /\ stack # <<>> /\ status = "parsing"
  BY DEF TreeInv, ExitRule
<1> DEFINE depth == Len(stack) - 1
<1>2. /\ Len(nodes) \in Nat /\ DOMAIN nodes = 1 .. Len(nodes)
      /\ depth \in Nat /\ Len(stack) = depth + 1
      /\ DOMAIN stack = 1 .. Len(stack)
      /\ pos \in Nat \ {0}
  BY <1>1, NodeTypes, TopType, PosType
<1>3. /\ ctx = stack[Len(stack)].node
      /\ ctx \in 1 .. Len(nodes)
      /\ Len(stack) \in DOMAIN stack
  BY <1>1, TopType DEF TreeInv, ContextFollowsCalls, Top
<1>4. /\ nodes' \in Seq(NodeSet)
      /\ Len(nodes') = Len(nodes)
      /\ DOMAIN nodes' = DOMAIN nodes
      /\ \A n \in DOMAIN nodes :
            /\ nodes'[n].start = nodes[n].start
            /\ nodes'[n].parent = nodes[n].parent
            /\ nodes'[n].stop = IF n = ctx THEN pos - 1 ELSE nodes[n].stop
  <2> DEFINE node == [nodes[ctx] EXCEPT !.stop = pos - 1]
  <2>1. nodes[ctx] \in NodeSet /\ nodes \in Seq(NodeSet)
    BY <1>1, <1>2, <1>3, NodeTypes DEF TypeOK, NodeSet
  <2>2. /\ node \in NodeSet
        /\ node.start = nodes[ctx].start
        /\ node.parent = nodes[ctx].parent
        /\ node.stop = pos - 1
    <3>1. pos - 1 \in Nat
      BY <1>2
    <3> QED
      BY <2>1, <3>1 DEF NodeSet
  <2>3. nodes' = [nodes EXCEPT ![ctx] = node]
    BY DEF ExitRule
  <2> HIDE DEF node
  <2>4. /\ nodes' \in Seq(NodeSet)
        /\ Len(nodes') = Len(nodes)
        /\ \A n \in 1 .. Len(nodes) : nodes'[n] = IF n = ctx THEN node ELSE nodes[n]
    BY <2>1, <2>2, <2>3, <1>3, ExceptSeq
  <2>5. DOMAIN nodes' = DOMAIN nodes
    BY <2>4, <1>2, LenProperties
  <2> QED
    BY <2>2, <2>4, <2>5, <1>2
<1>5. /\ stack' \in Seq(FrameSet)
      /\ Len(stack') = depth
      /\ DOMAIN stack' = 1 .. depth
      /\ \A d \in 1 .. depth : stack'[d] = stack[d]
      /\ stack' = <<>> <=> depth = 0
  <2>1. \A d \in 1 .. depth : stack[d] \in FrameSet
    BY <1>1, <1>2, StackType
  <2>2. stack' = SubSeq(stack, 1, depth)
    BY DEF ExitRule, Callers
  <2> HIDE DEF depth
  <2>3. /\ stack' \in Seq(FrameSet)
        /\ Len(stack') = depth
        /\ \A d \in 1 .. depth : stack'[d] = stack[d]
    BY <2>1, <2>2, <1>2, SubSeqProperties
  <2>4. DOMAIN stack' = 1 .. depth
    BY <2>3, LenProperties
  <2>5. stack' = <<>> <=> depth = 0
    BY <2>3, EmptySeq
  <2> QED
    BY <2>3, <2>4, <2>5
<1>6. UNCHANGED <<input, pos, owner>>
  BY DEF ExitRule
<1>7. \A d \in 1 .. Len(stack) :
         nodes[stack[d].node].parent = IF d = 1 THEN 0 ELSE stack[d - 1].node
  BY <1>2 DEF TreeInv, ContextFollowsCalls
<1>8. ctx' = IF depth = 0 THEN 0 ELSE stack[depth].node
  BY <1>2, <1>3, <1>7 DEF ExitRule
<1>9. \A d \in 1 .. Len(stack) : stack[d].node \in 1 .. Len(nodes)
  BY <1>1, StackType
<1> HIDE DEF depth
<1>10. TypeOK'
  <2>1. ctx' \in 0 .. Len(nodes')
    BY <1>2, <1>4, <1>8, <1>9
  <2>2. status' \in {"ready", "parsing", "accepted", "error"}
    BY DEF ExitRule
  <2> QED
    BY <2>1, <2>2, <1>1, <1>4, <1>5, <1>6 DEF TypeOK, NodeSet, FrameSet
<1>11. ContextFollowsCalls'
  <2>1. ctx' = IF stack' = <<>> THEN 0 ELSE Top'.node
    <3>1. CASE depth = 0
      BY <3>1, <1>5, <1>8
    <3>2. CASE depth # 0
      BY <3>2, <1>2, <1>5, <1>8 DEF Top
    <3> QED
      BY <3>1, <3>2
  <2>2. ASSUME NEW d \in 1 .. depth
        PROVE  nodes'[stack'[d].node].parent = IF d = 1 THEN 0 ELSE stack'[d - 1].node
    <3>1. d \in 1 .. Len(stack) /\ (d # 1 => d - 1 \in 1 .. depth)
      BY <1>2
    <3>2. nodes'[stack[d].node].parent = nodes[stack[d].node].parent
      BY <3>1, <1>2, <1>4, <1>9
    <3> QED
      BY <3>1, <3>2, <1>5, <1>7
  <2>3. ASSUME NEW d \in 1 .. depth, NEW e \in 1 .. depth, d < e
        PROVE  stack'[d].node < stack'[e].node
    <3>1. d \in DOMAIN stack /\ e \in DOMAIN stack
      BY <1>2
    <3>2. stack[d].node < stack[e].node
      BY <2>3, <3>1 DEF TreeInv, ContextFollowsCalls
    <3> QED
      BY <3>2, <1>5
  <2> QED
    BY <2>1, <2>2, <2>3, <1>5 DEF ContextFollowsCalls
<1>12. \A d \in 1 .. depth : stack[d].node < ctx
  BY <1>2, <1>3 DEF TreeInv, ContextFollowsCalls
<1>13. ~Closed(ctx) /\ \A m \in DOMAIN nodes : m > ctx => Closed(m)
  <2>1. ~Closed(ctx)
    BY <1>3 DEF Closed, Open
  <2>2. ASSUME NEW m \in DOMAIN nodes, m > ctx, NEW d \in DOMAIN stack, stack[d].node = m
        PROVE  FALSE
    <3>1. d \in 1 .. depth \/ d = Len(stack)
      BY <1>2
    <3> QED
      BY <2>2, <3>1, <1>2, <1>3, <1>12
  <2> QED
    BY <2>1, <2>2 DEF Closed, Open
<1>14. \A n \in DOMAIN nodes : Closed(n)' <=> (Closed(n) \/ n = ctx)
  <2> SUFFICES ASSUME NEW n \in DOMAIN nodes
               PROVE  (\E d \in 1 .. depth : stack'[d].node = n)
                        <=> ((\E d \in 1 .. Len(stack) : stack[d].node = n) /\ n # ctx)
    BY <1>2, <1>5 DEF Closed, Open
  <2>1. ASSUME NEW d \in 1 .. depth, stack'[d].node = n
        PROVE  d \in 1 .. Len(stack) /\ stack[d].node = n /\ n # ctx
    <3>1. stack[d].node < ctx /\ stack[d].node = n
      BY <2>1, <1>5, <1>12
    <3> QED
      BY <3>1, <1>2, <1>3
  <2>2. ASSUME NEW d \in 1 .. Len(stack), stack[d].node = n, n # ctx
        PROVE  d \in 1 .. depth /\ stack'[d].node = n
    <3>1. d # Len(stack)
      BY <2>2, <1>3
    <3>2. d \in 1 .. depth
      BY <3>1, <1>2
    <3> QED
      BY <2>2, <3>2, <1>5
  <2> QED
    BY <2>1, <2>2
<1>15. \A n \in DOMAIN nodes :
          /\ nodes[n].start \in Nat
          /\ nodes[n].stop \in Nat
          /\ nodes[n].start <= pos
          /\ Closed(n) => nodes[n].stop < pos
  BY <1>1, NodeTypes DEF TreeInv, Bookkeeping
<1>16. IntervalsNest'
  <2> SUFFICES ASSUME NEW m \in DOMAIN nodes
               PROVE  /\ \A n : n = nodes'[m].parent /\ n # 0 => Within(m, n)'
                      /\ \A n \in 1 .. m - 1 : nodes'[n].parent = nodes'[m].parent =>
                            Closed(n)' /\ nodes'[n].stop < nodes'[m].start
    BY <1>4 DEF IntervalsNest, Within
  <2>1. /\ nodes[m].parent # 0 => Within(m, nodes[m].parent)
        /\ \A n \in 1 .. m - 1 : nodes[n].parent = nodes[m].parent =>
              Closed(n) /\ nodes[n].stop < nodes[m].start
    BY DEF TreeInv, IntervalsNest
  <2>2. ASSUME NEW n \in DOMAIN nodes, Within(m, n)
        PROVE  Within(m, n)'
    <3>1. n < m /\ nodes'[n].start <= nodes'[m].start
      BY <2>2, <1>4 DEF Within
    <3>2. CASE n = ctx
      <4>1. Closed(m) /\ m # ctx
        BY <3>1, <3>2, <1>2, <1>3, <1>13
      <4>2. nodes'[m].stop <= nodes'[n].stop
        BY <3>2, <4>1, <1>2, <1>4, <1>15
      <4> QED
        BY <3>1, <4>1, <4>2, <1>14 DEF Within
    <3>3. CASE m = ctx
      BY <2>2, <3>1, <3>3, <1>2, <1>3, <1>4, <1>13, <1>14 DEF Within
    <3>4. CASE n # ctx /\ m # ctx
      BY <2>2, <3>1, <3>4, <1>4, <1>14 DEF Within
    <3> QED
      BY <3>2, <3>3, <3>4
  <2>3. nodes[m].parent # 0 => nodes[m].parent \in DOMAIN nodes
    BY <2>1, <1>1, <1>2, NodeTypes DEF Within, NodeSet
  <2>4. ASSUME NEW n, n = nodes'[m].parent, n # 0
        PROVE  Within(m, n)'
    <3>1. n = nodes[m].parent
      BY <2>4, <1>4
    <3> QED
      BY <2>1, <2>2, <2>3, <2>4, <3>1
  <2>5. ASSUME NEW n \in 1 .. m - 1, nodes'[n].parent = nodes'[m].parent
        PROVE  Closed(n)' /\ nodes'[n].stop < nodes'[m].start
    <3>1. n \in DOMAIN nodes
      BY <1>2
    <3>2. Closed(n) /\ nodes[n].stop < nodes[m].start
      BY <2>1, <2>5, <3>1, <1>4
    <3>3. n # ctx
      BY <3>2, <1>13
    <3> QED
      BY <3>1, <3>2, <3>3, <1>4, <1>14
  <2> QED
    BY <2>4, <2>5
<1>17. TokensHangInnermost'
  <2>1. owner \in Seq(1 .. Len(nodes)) /\ Len(owner) = pos - 1
    BY <1>1 DEF TypeOK, TreeInv, TokensHangInnermost
  <2>2. DOMAIN owner = 1 .. pos - 1 /\ \A p \in DOMAIN owner : owner[p] \in DOMAIN nodes
    BY <2>1, <1>2, LenProperties, ElementOfSeq
  <2> SUFFICES ASSUME NEW p \in 1 .. pos - 1
               PROVE  /\ nodes'[owner[p]].start <= p
                      /\ Closed(owner[p])' => p <= nodes'[owner[p]].stop
                      /\ \A m \in DOMAIN nodes : m > owner[p] =>
                            (Closed(m)' /\ nodes'[m].stop < p) \/ nodes'[m].start > p
    BY <2>1, <2>2, <1>4, <1>6 DEF TokensHangInnermost
  <2>3. /\ nodes[owner[p]].start <= p
        /\ Closed(owner[p]) => p <= nodes[owner[p]].stop
        /\ \A m \in DOMAIN nodes : m > owner[p] =>
              (Closed(m) /\ nodes[m].stop < p) \/ nodes[m].start > p
    BY <2>2 DEF TreeInv, TokensHangInnermost
  <2>4. nodes'[owner[p]].start <= p
    BY <2>2, <2>3, <1>4
  <2>5. Closed(owner[p])' => p <= nodes'[owner[p]].stop
    <3>1. CASE owner[p] = ctx
      BY <2>2, <3>1, <1>2, <1>4
    <3>2. CASE owner[p] # ctx
      BY <2>2, <2>3, <3>2, <1>4, <1>6, <1>14
    <3> QED
      BY <3>1, <3>2
  <2>6. ASSUME NEW m \in DOMAIN nodes, m > owner[p]
        PROVE  (Closed(m)' /\ nodes'[m].stop < p) \/ nodes'[m].start > p
    BY <2>3, <2>6, <1>4, <1>13, <1>14
  <2> QED
    BY <2>4, <2>5, <2>6
<1>18. Bookkeeping'
  <2>1. ASSUME NEW n \in DOMAIN nodes
        PROVE  nodes'[n].start <= pos /\ (Closed(n)' => nodes'[n].stop < pos)
    BY <1>2, <1>4, <1>14, <1>15
  <2>2. status' = IF depth = 0 THEN "accepted" ELSE "parsing"
    BY <1>2 DEF ExitRule
  <2> QED
    BY <2>1, <2>2, <1>4, <1>5, <1>6 DEF Bookkeeping
<1> QED
  BY <1>10, <1>11, <1>16, <1>17, <1>18 DEF TreeInv

-----------------------------------------------------------------------------
\* A syntax error and a finished parse leave the tree alone.
LEMMA StopKeeps ==
    ASSUME TreeInv,
           UNCHANGED <<input, pos, stack, ctx, nodes, owner>>,
           status' \in {status, "error"}
    PROVE  TreeInv'
<1>1. \A n : Closed(n)' <=> Closed(n)
  BY DEF Closed, Open
<1>2. TypeOK' /\ ContextFollowsCalls'
  BY DEF TreeInv, TypeOK, ContextFollowsCalls, Top
<1>3. IntervalsNest' /\ TokensHangInnermost'
  BY <1>1 DEF TreeInv, IntervalsNest, Within, TokensHangInnermost
<1>4. Bookkeeping'
  BY <1>1 DEF TreeInv, Bookkeeping
<1> QED
  BY <1>2, <1>3, <1>4 DEF TreeInv

\* The empty tree of a parser that was not called yet.
LEMMA InitTree == Init => TreeInv
<1> SUFFICES ASSUME Init PROVE TreeInv
  OBVIOUS
<1>1. /\ input \in Inputs /\ pos = 1 /\ ctx = 0 /\ status = "ready"
      /\ stack = <<>> /\ nodes = <<>> /\ owner = <<>>
  BY DEF Init
<1>2. Len(nodes) = 0 /\ DOMAIN nodes = {} /\ DOMAIN stack = {} /\ DOMAIN owner = {} /\ Len(owner) = 0
  BY <1>1
<1>3. Len(input) \in Nat
  BY <1>1, InputsAssumption, LenProperties
<1>4. TypeOK
  BY <1>1, <1>2, <1>3, EmptySeq DEF TypeOK
<1> QED
  BY <1>1, <1>2, <1>4 DEF TreeInv, ContextFollowsCalls, IntervalsNest,
                          TokensHangInnermost, Bookkeeping

\* The callers of a rule function: the active one is moved past the reference.
LEMMA EnterCallers ==
    ASSUME TypeOK, At("rule")
    PROVE  LET callers == Append(Callers, Frame(Top.node, Tail(Top.rest)))
           IN  /\ callers \in Seq(FrameSet)
               /\ Len(callers) = Len(stack)
               /\ \A d \in 1 .. Len(stack) : callers[d].node = stack[d].node
               /\ Expected.sym \in DOMAIN Grammar
<1>1. stack # <<>> /\ Expected.sym \in DOMAIN Grammar /\ Tail(Top.rest) \in Seq(Items)
  <2>1. Expected \in Items /\ Expected.k = "rule" /\ Tail(Top.rest) \in Seq(Items)
    BY ExpectedType
  <2> QED
    BY <2>1, GrammarAssumption DEF At
<1> DEFINE callers == Append(Callers, Frame(Top.node, Tail(Top.rest)))
           depth == Len(stack) - 1
<1>2. depth \in Nat /\ Len(stack) = depth + 1
  BY <1>1, TopType
<1>3. Frame(Top.node, Tail(Top.rest)) \in FrameSet /\ Frame(Top.node, Tail(Top.rest)).node = Top.node
  BY <1>1, TopType DEF Frame, FrameSet
<1>4. \A d \in 1 .. depth : stack[d] \in FrameSet
  BY <1>2, StackType
<1>5. Callers = SubSeq(stack, 1, depth)
  BY DEF Callers
<1> HIDE DEF depth
<1>6. /\ Callers \in Seq(FrameSet)
      /\ Len(Callers) = depth
      /\ \A d \in 1 .. depth : Callers[d] = stack[d]
  BY <1>2, <1>4, <1>5, SubSeqProperties
<1>7. /\ callers \in Seq(FrameSet)
      /\ Len(callers) = depth + 1
      /\ \A d \in 1 .. depth : callers[d] = Callers[d]
      /\ callers[depth + 1] = Frame(Top.node, Tail(Top.rest))
  BY <1>3, <1>6, AppendProperties
<1> HIDE DEF callers
<1>8. \A d \in 1 .. Len(stack) : callers[d].node = stack[d].node
  <2> SUFFICES ASSUME NEW d \in 1 .. Len(stack) PROVE callers[d].node = stack[d].node
    OBVIOUS
  <2>1. CASE d \in 1 .. depth
    BY <2>1, <1>6, <1>7
  <2>2. CASE d = depth + 1
    BY <2>2, <1>2, <1>3, <1>7 DEF Top
  <2> QED
    BY <2>1, <2>2, <1>2
<1> QED
  BY <1>1, <1>2, <1>7, <1>8 DEF callers

\* Every step of the parser keeps the invariant.
LEMMA StepKeepsTree == TreeInv /\ [Next]_vars => TreeInv'
<1> SUFFICES ASSUME TreeInv, [Next]_vars
             PROVE  TreeInv'
  OBVIOUS
<1>1. TypeOK
  BY DEF TreeInv
<1>2. CASE Call
  <2>1. stack = <<>> /\ Len(stack) = 0
    BY <1>2, <1>1, StackType DEF Call, TreeInv, Bookkeeping
  <2>2. <<>> \in Seq(FrameSet) /\ Len(<<>>) = Len(stack)
    BY <2>1, EmptySeq
  <2>3. \A d \in 1 .. Len(stack) : <<>>[d].node = stack[d].node
    BY <2>1
  <2> QED
    BY <1>2, <2>2, <2>3, GrammarAssumption, EnterKeeps DEF Call
<1>3. CASE Match
  BY <1>3, MatchKeeps
<1>4. CASE EnterRule
  BY <1>1, <1>4, EnterCallers, EnterKeeps DEF EnterRule, At
<1>5. CASE Choose
  <2>1. PICK n \in DOMAIN Expected.alts : Continue(Expected.alts[n] \o Tail(Top.rest))
    BY <1>5 DEF Choose
  <2>2. Expected.alts[n] \o Tail(Top.rest) \in Seq(Items)
    BY <1>1, <1>5, ExpectedType, ConcatProperties DEF Choose
  <2>3. SameFrames
    BY <1>1, <1>5, <2>1, <2>2, ContinueFrames DEF Choose, At, SameFrames
  <2> QED
    BY <1>5, <2>3, DecisionKeeps DEF Choose
<1>6. CASE EnterOptional
  <2>1. Tail(Top.rest) \in Seq(Items) /\ Block \o Tail(Top.rest) \in Seq(Items)
    BY <1>1, <1>6, ExpectedType, ConcatProperties DEF EnterOptional
  <2>2. SameFrames
    BY <1>1, <1>6, <2>1, ContinueFrames DEF EnterOptional, At, SameFrames
  <2> QED
    BY <1>6, <2>2, DecisionKeeps DEF EnterOptional
<1>7. CASE Iterate
  <2>1. Tail(Top.rest) \in Seq(Items) /\ Block \o Top.rest \in Seq(Items)
    BY <1>1, <1>7, ExpectedType, TopType, ConcatProperties DEF Iterate, At
  <2>2. SameFrames
    BY <1>1, <1>7, <2>1, ContinueFrames DEF Iterate, At, SameFrames
  <2> QED
    BY <1>7, <2>2, DecisionKeeps DEF Iterate
<1>8. CASE ExitRule
  BY <1>8, ExitKeeps
<1>9. CASE SyntaxError
  BY <1>9, StopKeeps DEF SyntaxError
<1>10. CASE Keep \/ UNCHANGED vars
  BY <1>10, StopKeeps DEF Keep, vars
<1> QED
  BY <1>2, <1>3, <1>4, <1>5, <1>6, <1>7, <1>8, <1>9, <1>10 DEF Next, Step

-----------------------------------------------------------------------------
\* The inductive invariant holds in every reachable state.
THEOREM TreeInvariant == Spec => []TreeInv
BY InitTree, StepKeepsTree, PTL DEF Spec

\* The generated parser keeps the types of its state, whatever the grammar.
THEOREM TypeCorrect == Spec => []TypeOK
<1>1. TreeInv => TypeOK
  BY DEF TreeInv
<1> QED
  BY <1>1, TreeInvariant, PTL

\* EnterRule and ExitRule keep the context in step with the call stack.
THEOREM ContextCorrect == Spec => []ContextFollowsCalls
<1>1. TreeInv => ContextFollowsCalls
  BY DEF TreeInv
<1> QED
  BY <1>1, TreeInvariant, PTL

\* The intervals that EnterRule and ExitRule record form a tree.
THEOREM IntervalsCorrect == Spec => []IntervalsNest
<1>1. TreeInv => IntervalsNest
  BY DEF TreeInv
<1> QED
  BY <1>1, TreeInvariant, PTL

\* Every token that Match consumed is in the tree once, at the innermost node.
THEOREM TokensCorrect == Spec => []TokensHangInnermost
<1>1. TreeInv => TokensHangInnermost
  BY DEF TreeInv
<1> QED
  BY <1>1, TreeInvariant, PTL

-----------------------------------------------------------------------------
(***************************************************************************)
(* The end of the parse.  While the start rule has not read EOF, what it   *)
(* has still to match ends the stream; then nothing is left of it, nor of  *)
(* the stream.                                                             *)
(***************************************************************************)
EofInv ==
    /\ status = "parsing" =>
          \/ EndsStream(stack[1].rest)
          \/ stack[1].rest = <<>> /\ Len(stack) = 1 /\ pos = Len(input) + 1
    /\ status = "accepted" => pos = Len(input) + 1

\* What stands before the last item does not matter.
LEMMA SameEnd ==
    ASSUME NEW e \in Seq(Items), NEW f \in Seq(Items), e # <<>>, f # <<>>,
           e[Len(e)] = f[Len(f)], EndsStream(e)
    PROVE  EndsStream(f)
BY DEF EndsStream

\* The rest of a sequence and its end.
LEMMA TailLast ==
    ASSUME NEW e \in Seq(Items), e # <<>>
    PROVE  /\ Tail(e) \in Seq(Items)
           /\ Len(e) = 1 => Tail(e) = <<>>
           /\ Len(e) # 1 => Tail(e) # <<>> /\ Tail(e)[Len(Tail(e))] = e[Len(e)]
<1> DEFINE t == Tail(e)
<1>1. t \in Seq(Items) /\ Len(t) = Len(e) - 1 /\ \A i \in 1 .. Len(t) : t[i] = e[i + 1]
  BY HeadTailProperties
<1>2. Len(e) \in Nat \ {0}
  BY EmptySeq
<1> HIDE DEF t
<1>3. ASSUME Len(e) = 1 PROVE t = <<>>
  BY <1>1, <1>3, EmptySeq
<1>4. ASSUME Len(e) # 1 PROVE t # <<>> /\ t[Len(t)] = e[Len(e)]
  <2>1. Len(t) \in 1 .. Len(t) /\ Len(t) + 1 = Len(e)
    BY <1>1, <1>2, <1>4
  <2> QED
    BY <1>1, <2>1, EmptySeq
<1> QED
  BY <1>1, <1>3, <1>4 DEF t

\* Nor does the first one, unless it is the last.
LEMMA TailEnd ==
    ASSUME NEW e \in Seq(Items), EndsStream(e), ~ReadsEof(Head(e)), Head(e).k # "alt"
    PROVE  EndsStream(Tail(e))
<1>1. e # <<>> /\ Len(e) \in Nat \ {0}
  BY EmptySeq DEF EndsStream
<1>2. Head(e) = e[1]
  BY <1>1
<1>3. Len(e) # 1
  BY <1>2 DEF EndsStream
<1> QED
  BY <1>1, <1>3, TailLast, SameEnd

\* A sequence that ends the stream still does with something before it.
LEMMA ConcatEnd ==
    ASSUME NEW d \in Seq(Items), NEW e \in Seq(Items), EndsStream(e)
    PROVE  EndsStream(d \o e)
<1>1. e # <<>> /\ Len(e) \in Nat \ {0} /\ Len(d) \in Nat
  BY EmptySeq, LenProperties DEF EndsStream
<1>2. /\ d \o e \in Seq(Items)
      /\ Len(d \o e) = Len(d) + Len(e)
      /\ (d \o e)[Len(d) + Len(e)] = e[Len(e)]
  BY <1>1, ConcatProperties
<1>3. d \o e # <<>>
  BY <1>1, <1>2, EmptySeq
<1> QED
  BY <1>1, <1>2, <1>3, SameEnd

\* The chosen alternative of a decision takes the place of the decision.
LEMMA ChosenEnd ==
    ASSUME NEW e \in Seq(Items), EndsStream(e), Head(e).k = "alt",
           NEW n \in DOMAIN Head(e).alts, Head(e).alts[n] \in Seq(Items)
    PROVE  EndsStream(Head(e).alts[n] \o Tail(e))
<1> DEFINE a == Head(e).alts[n]
<1>1. e # <<>> /\ Len(e) \in Nat \ {0} /\ Head(e) = e[1] /\ ~ReadsEof(Head(e))
  BY EmptySeq DEF EndsStream, ReadsEof
<1>2. Tail(e) \in Seq(Items)
  BY <1>1, TailLast
<1>3. CASE Len(e) = 1
  <2>1. EndsWithEof(a)
    BY <1>1, <1>3 DEF EndsStream
  <2>2. EndsStream(a)
    BY <2>1 DEF EndsStream, EndsWithEof
  <2>3. Tail(e) = <<>>
    BY <1>1, <1>3, TailLast
  <2>4. a \o Tail(e) = a
    BY <2>3, ConcatEmptySeq
  <2> QED
    BY <2>2, <2>4
<1>4. CASE Len(e) # 1
  <2>2. EndsStream(Tail(e))
    BY <1>1, <1>2, <1>4, TailLast, SameEnd
  <2> QED
    BY <1>2, <2>2, ConcatEnd
<1> QED
  BY <1>3, <1>4

\* What a step does to the frame of the start rule: if it is the active one its
\* items are replaced, otherwise it is left alone.
LEMMA FirstFrame ==
    ASSUME TypeOK, stack # <<>>, NEW rest \in Seq(Items), Continue(rest)
    PROVE  /\ Len(stack') = Len(stack)
           /\ stack'[1].rest = IF Len(stack) = 1 THEN rest ELSE stack[1].rest
<1>1. stack \in Seq(FrameSet) /\ Len(stack) \in 1 .. Len(stack) /\ 1 \in 1 .. Len(stack)
  BY TopType DEF TypeOK, FrameSet
<1> DEFINE top == [Top EXCEPT !.rest = rest]
<1>2. top \in FrameSet /\ top.rest = rest
  BY TopType DEF FrameSet
<1>3. stack' = [stack EXCEPT ![Len(stack)] = top]
  BY DEF Continue, Top
<1> HIDE DEF top
<1>4. Len(stack') = Len(stack) /\ stack'[1] = IF Len(stack) = 1 THEN top ELSE stack[1]
  BY <1>1, <1>2, <1>3, ExceptSeq
<1> QED
  BY <1>2, <1>4

\* A step within the active function keeps EofInv if the rest it leaves to the
\* start rule still ends the stream.
LEMMA ContinueKeepsEof ==
    ASSUME TreeInv, EofInv, stack # <<>>, status = "parsing", status' = status,
           UNCHANGED input, pos' = pos, Top.rest # <<>>,
           NEW rest \in Seq(Items), Continue(rest),
           EndsStream(Top.rest) => EndsStream(rest)
    PROVE  EofInv'
<1>1. CASE Len(stack) = 1
  <2>1. Top = stack[1] /\ EndsStream(Top.rest)
    BY <1>1 DEF EofInv, Top
  <2> QED
    BY <1>1, <2>1, FirstFrame DEF TreeInv, EofInv
<1>2. CASE Len(stack) # 1
  BY <1>2, FirstFrame DEF TreeInv, EofInv
<1> QED
  BY <1>1, <1>2

\* Match: the EOF that ends the start rule ends the stream.
LEMMA MatchKeepsEof ==
    ASSUME ReadsWholeStream, TreeInv, EofInv, Match
    PROVE  EofInv'
<1>1. /\ stack # <<>> /\ status = "parsing" /\ status' = status
      /\ Top.rest # <<>> /\ Expected = Head(Top.rest) /\ Expected.k = "tok"
      /\ input' = input /\ pos' = pos + 1 /\ pos \in 1 .. Len(input)
      /\ input[pos] \in Expected.set /\ Continue(Tail(Top.rest))
  <2>1. pos \in 1 .. Len(input)
    BY PosType DEF TreeInv, TypeOK, Match
  <2> QED
    BY <2>1 DEF Match, At, Expected
<1>2. Top.rest \in Seq(Items) /\ Tail(Top.rest) \in Seq(Items)
  BY <1>1, TopType, TailLast DEF TreeInv
<1>3. /\ Len(stack') = Len(stack)
      /\ stack'[1].rest = IF Len(stack) = 1 THEN Tail(Top.rest) ELSE stack[1].rest
  BY <1>1, <1>2, FirstFrame DEF TreeInv
<1>4. CASE Len(stack) = 1
  <2>1. Top = stack[1] /\ EndsStream(Top.rest)
    BY <1>1, <1>4 DEF EofInv, Top
  <2>2. CASE Len(Top.rest) = 1
    <3>1. ReadsEof(Expected)
      BY <1>1, <2>1, <2>2 DEF EndsStream
    <3>2. input[pos] = "EOF"
      BY <1>1, <3>1 DEF ReadsEof
    <3>3. pos = Len(input)
      <4>1. input \in Inputs /\ pos \in DOMAIN input
        BY <1>1, InputsAssumption, LenProperties DEF TreeInv, TypeOK
      <4> QED
        BY <3>2, <4>1 DEF ReadsWholeStream
    <3>4. Tail(Top.rest) = <<>>
      BY <1>1, <1>2, <2>2, TailLast
    <3> QED
      BY <1>1, <1>3, <1>4, <3>3, <3>4 DEF EofInv
  <2>3. CASE Len(Top.rest) # 1
    <3>1. EndsStream(Tail(Top.rest))
      BY <1>1, <1>2, <2>1, <2>3, TailLast, SameEnd
    <3> QED
      BY <1>1, <1>3, <1>4, <3>1 DEF EofInv
  <2> QED
    BY <2>2, <2>3
<1>5. CASE Len(stack) # 1
  BY <1>1, <1>3, <1>5 DEF EofInv
<1> QED
  BY <1>4, <1>5

\* EnterRule pushes a frame and moves its caller past the reference.
LEMMA EnterFrames ==
    ASSUME TypeOK, EnterRule
    PROVE  /\ stack # <<>>
           /\ Len(stack') = Len(stack) + 1
           /\ \A d \in 1 .. Len(stack) - 1 : stack'[d] = stack[d]
           /\ stack'[Len(stack)] = Frame(Top.node, Tail(Top.rest))
           /\ stack'[Len(stack) + 1] = Frame(Len(nodes) + 1, Grammar[Expected.sym])
<1> DEFINE depth == Len(stack) - 1
           moved == Frame(Top.node, Tail(Top.rest))
           new == Frame(Len(nodes) + 1, Grammar[Expected.sym])
           callers == Append(Callers, moved)
           F == [node : Nat, rest : Seq(Items)]
<1>1. stack # <<>> /\ Expected \in Items /\ Expected.k = "rule" /\ Tail(Top.rest) \in Seq(Items)
  BY ExpectedType DEF EnterRule, At
<1>2. depth \in Nat /\ Len(stack) = depth + 1
  BY <1>1, TopType
<1>3. moved \in F /\ new \in F
  <2>1. Top.node \in Nat /\ Len(nodes) + 1 \in Nat
    BY <1>1, TopType, NodeTypes
  <2> QED
    BY <1>1, <2>1, GrammarAssumption DEF Frame
<1>4. \A d \in 1 .. depth : stack[d] \in F
  BY <1>2, StackType, NodeTypes DEF FrameSet
<1>5. Callers = SubSeq(stack, 1, depth)
  BY DEF Callers
<1>6. stack' = Append(callers, new)
  BY DEF EnterRule, Enter
<1> HIDE DEF depth, moved, new, F
<1>7. Callers \in Seq(F) /\ Len(Callers) = depth /\ \A d \in 1 .. depth : Callers[d] = stack[d]
  BY <1>2, <1>4, <1>5, SubSeqProperties
<1>8. /\ callers \in Seq(F) /\ Len(callers) = depth + 1
      /\ \A d \in 1 .. depth : callers[d] = stack[d]
      /\ callers[depth + 1] = moved
  BY <1>3, <1>7, AppendProperties
<1> HIDE DEF callers
<1>9. /\ Len(stack') = depth + 2
      /\ \A d \in 1 .. depth + 1 : stack'[d] = callers[d]
      /\ stack'[depth + 2] = new
  BY <1>2, <1>3, <1>6, <1>8, AppendProperties
<1>10. \A d \in 1 .. depth : stack'[d] = stack[d]
  BY <1>2, <1>8, <1>9
<1>11. stack'[depth + 1] = moved
  BY <1>2, <1>8, <1>9
<1>12. Len(stack) - 1 = depth /\ Len(stack) + 1 = depth + 2
  BY <1>2
<1> QED
  BY <1>1, <1>2, <1>9, <1>10, <1>11, <1>12 DEF moved, new

\* ExitRule pops a frame.
LEMMA ExitFrames ==
    ASSUME TypeOK, ExitRule
    PROVE  /\ stack # <<>>
           /\ Len(stack') = Len(stack) - 1
           /\ \A d \in 1 .. Len(stack) - 1 : stack'[d] = stack[d]
<1>1. stack # <<>> /\ stack' = SubSeq(stack, 1, Len(stack) - 1)
  BY DEF ExitRule, Callers
<1>2. Len(stack) \in Nat \ {0} /\ \A d \in 1 .. Len(stack) : stack[d] \in FrameSet
  BY <1>1, TopType
<1> DEFINE depth == Len(stack) - 1
<1>3. depth \in Nat /\ stack' = SubSeq(stack, 1, depth) /\ \A d \in 1 .. depth : stack[d] \in FrameSet
  BY <1>1, <1>2
<1> HIDE DEF depth
<1>4. Len(stack') = depth /\ \A d \in 1 .. depth : stack'[d] = stack[d]
  BY <1>3, SubSeqProperties
<1> QED
  BY <1>1, <1>4 DEF depth

\* Every step keeps EofInv.
LEMMA StepKeepsEof ==
    ASSUME ReadsWholeStream, TreeInv, EofInv, [Next]_vars
    PROVE  EofInv'
<1>1. TypeOK
  BY DEF TreeInv
<1>2. CASE Call
  <2>1. status' = "parsing" /\ stack' = Append(<<>>, Frame(Len(nodes) + 1, Grammar[StartRule]))
    BY <1>2 DEF Call, Enter
  <2>2. stack'[1].rest = Grammar[StartRule]
    BY <2>1 DEF Frame
  <2> QED
    BY <2>1, <2>2 DEF EofInv, ReadsWholeStream
<1>3. CASE Match
  BY <1>3, MatchKeepsEof
<1>4. CASE EnterRule
  <2>1. /\ stack # <<>> /\ status = "parsing" /\ status' = status /\ Top.rest # <<>>
        /\ Expected = Head(Top.rest) /\ Expected.k = "rule" /\ Top.rest \in Seq(Items)
    BY <1>1, <1>4, TopType DEF EnterRule, At, Expected
  <2>2. EndsStream(stack'[1].rest)
    <3>1. CASE Len(stack) = 1
      <4>1. Top = stack[1] /\ EndsStream(Top.rest)
        BY <2>1, <3>1 DEF EofInv, Top
      <4>2. EndsStream(Tail(Top.rest))
        BY <2>1, <4>1, TailEnd DEF ReadsEof
      <4>3. stack'[1] = Frame(Top.node, Tail(Top.rest))
        <5>1. stack'[Len(stack)] = Frame(Top.node, Tail(Top.rest))
          BY <1>1, <1>4, EnterFrames
        <5> QED
          BY <3>1, <5>1
      <4>4. stack'[1].rest = Tail(Top.rest)
        BY <4>3 DEF Frame
      <4> QED
        BY <4>2, <4>4
    <3>2. CASE Len(stack) # 1
      <4>1. 1 \in 1 .. Len(stack) - 1
        BY <1>1, <2>1, <3>2, TopType
      <4>2. stack'[1] = stack[1]
        BY <1>1, <1>4, <4>1, EnterFrames
      <4> QED
        BY <2>1, <3>2, <4>2 DEF EofInv
    <3> QED
      BY <3>1, <3>2
  <2> QED
    BY <2>1, <2>2 DEF EofInv
<1>5. CASE Choose
  <2>1. PICK n \in DOMAIN Expected.alts : Continue(Expected.alts[n] \o Tail(Top.rest))
    BY <1>5 DEF Choose
  <2>2. /\ stack # <<>> /\ status = "parsing" /\ Top.rest # <<>> /\ Expected = Head(Top.rest)
        /\ Expected.k = "alt" /\ Top.rest \in Seq(Items)
        /\ Expected.alts[n] \in Seq(Items) /\ Tail(Top.rest) \in Seq(Items)
    BY <1>1, <1>5, ExpectedType, TopType DEF Choose, At, Expected
  <2>3. Expected.alts[n] \o Tail(Top.rest) \in Seq(Items)
    BY <2>2, ConcatProperties
  <2>4. EndsStream(Top.rest) => EndsStream(Expected.alts[n] \o Tail(Top.rest))
    BY <2>2, ChosenEnd
  <2> QED
    BY <1>5, <2>1, <2>2, <2>3, <2>4, ContinueKeepsEof DEF Choose
<1>6. CASE EnterOptional
  <2>1. /\ stack # <<>> /\ status = "parsing" /\ Top.rest # <<>> /\ Expected = Head(Top.rest)
        /\ Expected.k = "opt" /\ Top.rest \in Seq(Items)
        /\ Block \in Seq(Items) /\ Tail(Top.rest) \in Seq(Items)
    BY <1>1, <1>6, ExpectedType, TopType DEF EnterOptional, At, Expected
  <2>2. Block \o Tail(Top.rest) \in Seq(Items)
    BY <2>1, ConcatProperties
  <2>3. EndsStream(Top.rest) => EndsStream(Tail(Top.rest)) /\ EndsStream(Block \o Tail(Top.rest))
    BY <2>1, TailEnd, ConcatEnd DEF ReadsEof
  <2> QED
    BY <1>6, <2>1, <2>2, <2>3, ContinueKeepsEof DEF EnterOptional
<1>7. CASE Iterate
  <2>1. /\ stack # <<>> /\ status = "parsing" /\ Top.rest # <<>> /\ Expected = Head(Top.rest)
        /\ Expected.k = "star" /\ Top.rest \in Seq(Items)
        /\ Block \in Seq(Items) /\ Tail(Top.rest) \in Seq(Items)
    BY <1>1, <1>7, ExpectedType, TopType DEF Iterate, At, Expected
  <2>2. Block \o Top.rest \in Seq(Items)
    BY <2>1, ConcatProperties
  <2>3. EndsStream(Top.rest) => EndsStream(Tail(Top.rest)) /\ EndsStream(Block \o Top.rest)
    BY <2>1, TailEnd, ConcatEnd DEF ReadsEof
  <2> QED
    BY <1>7, <2>1, <2>2, <2>3, ContinueKeepsEof DEF Iterate
<1>8. CASE ExitRule
  <2>1. stack # <<>> /\ status = "parsing" /\ Top.rest = <<>> /\ UNCHANGED <<input, pos>>
    BY <1>8 DEF ExitRule
  <2>2. CASE Len(stack) = 1
    <3>1. Top = stack[1] /\ ~EndsStream(Top.rest)
      BY <2>1, <2>2 DEF Top, EndsStream
    <3>2. pos = Len(input) + 1 /\ status' = "accepted"
      BY <1>8, <2>1, <2>2, <3>1 DEF EofInv, ExitRule
    <3> QED
      BY <2>1, <3>2 DEF EofInv
  <2>3. CASE Len(stack) # 1
    <3>1. 1 \in 1 .. Len(stack) - 1
      BY <1>1, <2>1, <2>3, TopType
    <3>2. stack'[1] = stack[1] /\ status' = "parsing"
      BY <1>1, <1>8, <2>3, <3>1, ExitFrames DEF ExitRule
    <3> QED
      BY <2>1, <2>3, <3>2 DEF EofInv
  <2> QED
    BY <2>2, <2>3
<1>9. CASE SyntaxError
  BY <1>9 DEF SyntaxError, EofInv
<1>10. CASE Keep \/ UNCHANGED vars
  BY <1>10 DEF Keep, vars, EofInv
<1> QED
  BY <1>2, <1>3, <1>4, <1>5, <1>6, <1>7, <1>8, <1>9, <1>10 DEF Next, Step

(***************************************************************************)
(* If the start rule reads to the end of the stream, as tsql_file does, an *)
(* accepted parse has matched every token and left no context open.        *)
(***************************************************************************)
THEOREM AcceptedCorrect ==
    ASSUME ReadsWholeStream
    PROVE  Spec => []AcceptedIsComplete
<1>1. Init => EofInv
  BY DEF Init, EofInv
<1>2. TreeInv /\ EofInv /\ [Next]_vars => EofInv'
  BY StepKeepsEof
<1>3. TreeInv /\ EofInv => AcceptedIsComplete
  BY DEF TreeInv, Bookkeeping, ContextFollowsCalls, EofInv, AcceptedIsComplete
<1> QED
  BY <1>1, <1>2, <1>3, TreeInvariant, PTL DEF Spec

-----------------------------------------------------------------------------
\* A step that leaves the tree alone and closes no node.
LEMMA SameGrows ==
    ASSUME UNCHANGED nodes,
           \A n : Closed(n) => Closed(n)',
           \A p \in DOMAIN owner : p \in DOMAIN owner' /\ owner'[p] = owner[p]
    PROVE  Grows
BY DEF Grows

\* A new node is the last one, and only it is opened.
LEMMA EnterGrows ==
    ASSUME TypeOK, NEW rule, NEW callers \in Seq(FrameSet),
           Len(callers) = Len(stack),
           \A d \in 1 .. Len(stack) : callers[d].node = stack[d].node,
           Enter(rule, callers), rule \in DOMAIN Grammar, UNCHANGED owner
    PROVE  Grows
<1> DEFINE F == [node : Nat, rest : Seq(Items)]
           top == Frame(Len(nodes) + 1, Grammar[rule])
           node == Node(rule, ctx, pos)
<1>1. /\ nodes \in Seq(NodeSet) /\ Len(nodes) \in Nat /\ DOMAIN nodes = 1 .. Len(nodes)
      /\ DOMAIN stack = 1 .. Len(stack) /\ Len(stack) \in Nat
  BY NodeTypes, StackType DEF TypeOK, NodeSet
<1>2. node \in NodeSet
  BY <1>1, PosType DEF TypeOK, Node, NodeSet
<1>3. top \in F /\ top.node = Len(nodes) + 1
  BY <1>1, GrammarAssumption DEF Frame
<1>4. callers \in Seq(F)
  <2>1. FrameSet \subseteq F
    BY <1>1 DEF FrameSet
  <2> QED
    BY <2>1, SeqMonotonic
<1>5. nodes' = Append(nodes, node) /\ stack' = Append(callers, top)
  BY DEF Enter
<1> HIDE DEF F, top, node
<1>6. Len(nodes') = Len(nodes) + 1 /\ nodes' \in Seq(NodeSet)
      /\ \A n \in 1 .. Len(nodes) : nodes'[n] = nodes[n]
  BY <1>1, <1>2, <1>5, AppendProperties
<1>7. /\ stack' \in Seq(F) /\ Len(stack') = Len(stack) + 1
      /\ \A d \in 1 .. Len(stack) : stack'[d] = callers[d]
      /\ stack'[Len(stack) + 1] = top
  BY <1>3, <1>4, <1>5, AppendProperties
<1>8. DOMAIN nodes' = 1 .. Len(nodes) + 1 /\ DOMAIN stack' = 1 .. Len(stack) + 1
  BY <1>6, <1>7, LenProperties
<1>9. ASSUME NEW n \in DOMAIN nodes, Closed(n)
      PROVE  Closed(n)'
  <2> SUFFICES ASSUME NEW d \in 1 .. Len(stack) + 1, stack'[d].node = n
               PROVE  FALSE
    BY <1>8 DEF Closed, Open
  <2>1. CASE d \in 1 .. Len(stack)
    BY <1>1, <1>7, <1>9, <2>1 DEF Closed, Open
  <2>2. CASE d = Len(stack) + 1
    BY <1>1, <1>3, <1>7, <2>2
  <2> QED
    BY <1>1, <2>1, <2>2
<1> QED
  BY <1>1, <1>6, <1>8, <1>9 DEF Grows

\* ExitRule closes the current node, which was open.
LEMMA ExitGrows ==
    ASSUME TreeInv, ExitRule
    PROVE  Grows
<1>1. TypeOK /\ stack # <<>> /\ UNCHANGED owner
  BY DEF TreeInv, ExitRule
<1>2. /\ Len(stack) \in DOMAIN stack /\ DOMAIN stack = 1 .. Len(stack)
      /\ ctx = stack[Len(stack)].node /\ ctx \in 1 .. Len(nodes)
  BY <1>1, TopType DEF TreeInv, ContextFollowsCalls, Top
<1>3. ~Closed(ctx)
  BY <1>2 DEF Closed, Open
<1>4. /\ DOMAIN nodes' = DOMAIN nodes
      /\ \A n \in DOMAIN nodes :
            /\ nodes'[n].rule = nodes[n].rule
            /\ nodes'[n].parent = nodes[n].parent
            /\ nodes'[n].start = nodes[n].start
            /\ n # ctx => nodes'[n].stop = nodes[n].stop
  <2>1. nodes' = [nodes EXCEPT ![ctx].stop = pos - 1]
    BY DEF ExitRule
  <2>2. DOMAIN nodes' = DOMAIN nodes
    BY <2>1
  <2>3. ASSUME NEW n \in DOMAIN nodes
        PROVE  nodes'[n] = IF n = ctx THEN [nodes[n] EXCEPT !.stop = pos - 1] ELSE nodes[n]
    BY <2>1
  <2>4. \A n \in DOMAIN nodes : nodes[n] \in NodeSet
    BY <1>1, NodeTypes
  <2> QED
    BY <2>2, <2>3, <2>4 DEF NodeSet
<1>5. ASSUME NEW n, Closed(n)
      PROVE  Closed(n)'
  <2>1. Len(stack) \in Nat \ {0}
    BY <1>1, TopType
  <2>2. DOMAIN stack' = 1 .. Len(stack) - 1
    <3>1. Callers \in Seq(FrameSet)
      BY <1>1, <2>1, StackType, SubSeqProperties DEF Callers
    <3> QED
      BY <1>1, <3>1, ExitFrames, LenProperties DEF ExitRule
  <2>3. \A d \in DOMAIN stack' : d \in DOMAIN stack /\ stack'[d] = stack[d]
    BY <1>1, <1>2, <2>1, <2>2, ExitFrames
  <2> QED
    BY <1>5, <2>3 DEF Closed, Open
<1> QED
  BY <1>1, <1>3, <1>4, <1>5 DEF Grows

\* Every step lets the tree grow.
LEMMA StepGrows == TreeInv /\ [Next]_vars => Grows
<1> SUFFICES ASSUME TreeInv, [Next]_vars
             PROVE  Grows
  OBVIOUS
<1>1. TypeOK
  BY DEF TreeInv
<1>2. CASE Call
  <2>1. stack = <<>> /\ Len(stack) = 0
    BY <1>1, <1>2, StackType DEF Call, TreeInv, Bookkeeping
  <2>2. <<>> \in Seq(FrameSet) /\ Len(<<>>) = Len(stack)
    BY <2>1, EmptySeq
  <2>3. \A d \in 1 .. Len(stack) : <<>>[d].node = stack[d].node
    BY <2>1
  <2> QED
    BY <1>1, <1>2, <2>2, <2>3, GrammarAssumption, EnterGrows DEF Call
<1>3. CASE Match
  <2>1. \A n : Closed(n)' <=> Closed(n)
    BY <1>1, <1>3, ExpectedType, ContinueFrames DEF Match, At, Closed, Open
  <2>2. \A p \in DOMAIN owner : p \in DOMAIN owner' /\ owner'[p] = owner[p]
    <3>1. /\ owner \in Seq(1 .. Len(nodes)) /\ ctx \in 1 .. Len(nodes)
          /\ owner' = Append(owner, ctx)
      BY <1>1, <1>3, TopType DEF TypeOK, Match, At, TreeInv, ContextFollowsCalls
    <3>2. /\ Len(owner) \in Nat /\ DOMAIN owner = 1 .. Len(owner)
          /\ owner' \in Seq(1 .. Len(nodes)) /\ Len(owner') = Len(owner) + 1
          /\ \A p \in 1 .. Len(owner) : owner'[p] = owner[p]
      BY <3>1, AppendProperties, LenProperties
    <3>3. DOMAIN owner' = 1 .. Len(owner) + 1
      BY <3>2, LenProperties
    <3> QED
      BY <3>2, <3>3
  <2> QED
    BY <1>3, <2>1, <2>2, SameGrows DEF Match
<1>4. CASE EnterRule
  BY <1>1, <1>4, EnterCallers, EnterGrows DEF EnterRule
<1>5. CASE Choose
  <2>1. PICK n \in DOMAIN Expected.alts : Continue(Expected.alts[n] \o Tail(Top.rest))
    BY <1>5 DEF Choose
  <2>2. Expected.alts[n] \o Tail(Top.rest) \in Seq(Items)
    BY <1>1, <1>5, ExpectedType, ConcatProperties DEF Choose
  <2>3. \A m : Closed(m)' <=> Closed(m)
    BY <1>1, <1>5, <2>1, <2>2, ContinueFrames DEF Choose, At, Closed, Open
  <2> QED
    BY <1>5, <2>3, SameGrows DEF Choose
<1>6. CASE EnterOptional
  <2>1. Tail(Top.rest) \in Seq(Items) /\ Block \o Tail(Top.rest) \in Seq(Items)
    BY <1>1, <1>6, ExpectedType, ConcatProperties DEF EnterOptional
  <2>2. \A m : Closed(m)' <=> Closed(m)
    BY <1>1, <1>6, <2>1, ContinueFrames DEF EnterOptional, At, Closed, Open
  <2> QED
    BY <1>6, <2>2, SameGrows DEF EnterOptional
<1>7. CASE Iterate
  <2>1. Tail(Top.rest) \in Seq(Items) /\ Block \o Top.rest \in Seq(Items)
    BY <1>1, <1>7, ExpectedType, TopType, ConcatProperties DEF Iterate, At
  <2>2. \A m : Closed(m)' <=> Closed(m)
    BY <1>1, <1>7, <2>1, ContinueFrames DEF Iterate, At, Closed, Open
  <2> QED
    BY <1>7, <2>2, SameGrows DEF Iterate
<1>8. CASE ExitRule
  BY <1>8, ExitGrows
<1>9. CASE SyntaxError \/ Keep \/ UNCHANGED vars
  <2>1. UNCHANGED <<stack, nodes, owner>>
    BY <1>9 DEF SyntaxError, Keep, vars
  <2> QED
    BY <2>1, SameGrows DEF Closed, Open
<1> QED
  BY <1>2, <1>3, <1>4, <1>5, <1>6, <1>7, <1>8, <1>9 DEF Next, Step

\* What ExitRule has handed to a listener never changes afterwards.
THEOREM GrowthCorrect == Spec => TreeOnlyGrows
<1>1. TreeInv /\ [Next]_vars => [Grows]_vars
  BY StepGrows
<1> QED
  BY <1>1, TreeInvariant, PTL DEF Spec, TreeOnlyGrows

-----------------------------------------------------------------------------
(***************************************************************************)
(* An accepted parse is a derivation.  Whatever the prediction decides,    *)
(* the children of every node of an accepted tree, in their order, spell   *)
(* a right-hand side of the node's rule over the tokens of the node, and   *)
(* the root spells the whole stream from the start rule.  This is what a   *)
(* visitor of the generated parser relies on when it reads a context by    *)
(* the grammar of its rule.                                                *)
(***************************************************************************)

(***************************************************************************)
(* The right-hand sides that a rule's EBNF stands for.  A decision may be  *)
(* replaced by what one of its branches matches: an alternative, the block *)
(* of an option or nothing, one more iteration of a loop or nothing.  The  *)
(* forms of a rule are what is reached from its right-hand side by any     *)
(* number of such replacements.                                            *)
(***************************************************************************)
Branches(it) ==
    {e \in Seq(Items) :
        \/ it.k = "alt" /\ \E n \in DOMAIN it.alts : e = it.alts[n]
        \/ it.k = "opt" /\ e \in {<<>>, it.alts[1]}
        \/ it.k = "star" /\ e \in {<<>>, Append(it.alts[1], it)}}

ClosedUnderChoice(S) ==
    \A u, v \in Seq(Items), it \in Items :
        u \o (<<it>> \o v) \in S => \A e \in Branches(it) : u \o (e \o v) \in S

Forms(rule) ==
    {w \in Seq(Items) :
        \A S \in SUBSET Seq(Items) : Grammar[rule] \in S /\ ClosedUnderChoice(S) => w \in S}

(***************************************************************************)
(* An item of a form of n stands for the tokens from .. to - 1: a token    *)
(* for a terminal that was attached to n, a reference for a child m of n   *)
(* of the referenced rule.                                                 *)
(***************************************************************************)
Stands(n, it, from, to, m) ==
    \/ /\ it.k = "tok"
       /\ m = 0
       /\ from \in DOMAIN owner /\ owner[from] = n
       /\ input[from] \in it.set
       /\ to = from + 1
    \/ /\ it.k = "rule"
       /\ m \in DOMAIN nodes /\ Closed(m)
       /\ nodes[m].rule = it.sym /\ nodes[m].parent = n
       /\ nodes[m].start = from /\ nodes[m].stop = to - 1

(***************************************************************************)
(* The items of w stand for the tokens from the first one of n on: item i  *)
(* for those from b[i - 1] to b[i] - 1, with c[i] its child if it is a     *)
(* reference.  The children are different and in the order in which they   *)
(* were entered.                                                           *)
(***************************************************************************)
Bounds(w) == [0 .. Len(w) -> Nat]
Children(w) == [1 .. Len(w) -> Nat]

Spells(n, w, b, c) ==
    /\ b[0] = nodes[n].start
    /\ \A i \in 1 .. Len(w) : Stands(n, w[i], b[i - 1], b[i], c[i])
    /\ \A i, j \in 1 .. Len(w) : i < j /\ c[i] # 0 /\ c[j] # 0 => c[i] < c[j]

\* Every child of n is one of c, or the exception m.
NoOtherChild(n, c, m) ==
    \A k \in DOMAIN nodes : nodes[k].parent = n => k = m \/ \E i \in DOMAIN c : c[i] = k

\* All the children of n, in their order, spell a form of its rule from its
\* first token to its last.
Derived(n) ==
    \E w \in Forms(nodes[n].rule) : \E b \in Bounds(w), c \in Children(w) :
        /\ Spells(n, w, b, c)
        /\ b[Len(w)] = nodes[n].stop + 1
        /\ NoOtherChild(n, c, 0)

\* The tree has one root, which the start rule made for the whole stream.
RootSpansStream ==
    /\ 1 \in DOMAIN nodes
    /\ nodes[1].rule = StartRule
    /\ nodes[1].start = 1 /\ nodes[1].stop = Len(input)
    /\ \A n \in DOMAIN nodes : nodes[n].parent = 0 <=> n = 1

(***************************************************************************)
(* What the client of an accepted parse gets: one derivation of the token  *)
(* stream from the start rule.                                             *)
(***************************************************************************)
AcceptedIsDerivation ==
    status = "accepted" => RootSpansStream /\ \A n \in DOMAIN nodes : Derived(n)

-----------------------------------------------------------------------------
(***************************************************************************)
(* The inductive invariant.  Every closed node is derived already.  An     *)
(* active function has spelled a part of a form of its rule; what is left  *)
(* of the form is what it has still to match, which for a caller begins    *)
(* with the reference to the rule of the function that it called.          *)
(***************************************************************************)
Callee(d) == IF d = Len(stack) THEN 0 ELSE stack[d + 1].node

Reached(d) == IF d = Len(stack) THEN pos ELSE nodes[stack[d + 1].node].start

IsLeft(d, left) ==
    IF d = Len(stack)
    THEN left = stack[d].rest
    ELSE \E it \in Items : /\ it.k = "rule"
                           /\ it.sym = nodes[stack[d + 1].node].rule
                           /\ left = <<it>> \o stack[d].rest

Progress(d, done, left, b, c) ==
    /\ done \o left \in Forms(nodes[stack[d].node].rule)
    /\ IsLeft(d, left)
    /\ Spells(stack[d].node, done, b, c)
    /\ b[Len(done)] = Reached(d)
    /\ NoOtherChild(stack[d].node, c, Callee(d))

Underway(d) ==
    \E done, left \in Seq(Items) : \E b \in Bounds(done), c \in Children(done) :
        Progress(d, done, left, b, c)

DerivationInv ==
    /\ \A n \in DOMAIN nodes : Closed(n) => Derived(n)
    /\ \A d \in DOMAIN stack : Underway(d)

\* The start rule's node is the first and the only one without a parent.
RootInv ==
    /\ status # "ready" =>
          /\ 1 \in DOMAIN nodes
          /\ nodes[1].rule = StartRule
          /\ nodes[1].start = 1
    /\ \A n \in DOMAIN nodes : nodes[n].parent = 0 <=> n = 1
    /\ status = "accepted" => nodes[1].stop = pos - 1

-----------------------------------------------------------------------------
\* Moving the first item of the rest to the end of what is done.
LEMMA MoveFirst ==
    ASSUME NEW u \in Seq(Items), NEW v \in Seq(Items), NEW it \in Items
    PROVE  /\ Append(u, it) \in Seq(Items)
           /\ <<it>> \o v \in Seq(Items)
           /\ u \o (<<it>> \o v) = Append(u, it) \o v
<1>1. <<it>> \in Seq(Items) /\ Append(u, it) \in Seq(Items)
  BY AppendProperties
<1>2. <<it>> \o v \in Seq(Items)
  BY <1>1, ConcatProperties
<1>3. Append(u, it) = u \o <<it>>
  BY AppendIsConcat
<1>4. u \o (<<it>> \o v) = (u \o <<it>>) \o v
  BY <1>1, ConcatAssociative
<1> QED
  BY <1>1, <1>2, <1>3, <1>4

\* A sequence is its first item and the rest.
LEMMA FirstAndRest ==
    ASSUME NEW v \in Seq(Items), v # <<>>
    PROVE  /\ Head(v) \in Items
           /\ Tail(v) \in Seq(Items)
           /\ v = <<Head(v)>> \o Tail(v)
<1>1. Head(v) \in Items /\ Tail(v) \in Seq(Items)
  BY HeadTailProperties
<1>2. v = <<Head(v)>> \o Tail(v)
  BY <1>1, Z3
<1> QED
  BY <1>1, <1>2

\* A rule's right-hand side is a form of it, and replacing a decision makes
\* another one.
LEMMA FormsClosed ==
    ASSUME NEW rule \in DOMAIN Grammar
    PROVE  /\ Grammar[rule] \in Forms(rule)
           /\ Forms(rule) \subseteq Seq(Items)
           /\ \A u, v \in Seq(Items), it \in Items :
                 u \o (<<it>> \o v) \in Forms(rule) =>
                    \A e \in Branches(it) : u \o (e \o v) \in Forms(rule)
<1>1. Grammar[rule] \in Seq(Items)
  BY GrammarAssumption
<1>2. ASSUME NEW u \in Seq(Items), NEW v \in Seq(Items), NEW it \in Items,
             u \o (<<it>> \o v) \in Forms(rule), NEW e \in Branches(it)
      PROVE  u \o (e \o v) \in Forms(rule)
  <2>1. e \in Seq(Items)
    BY DEF Branches
  <2>2. u \o (e \o v) \in Seq(Items)
    BY <2>1, ConcatProperties
  <2>3. ASSUME NEW S \in SUBSET Seq(Items), Grammar[rule] \in S, ClosedUnderChoice(S)
        PROVE  u \o (e \o v) \in S
    <3>1. u \o (<<it>> \o v) \in S
      BY <1>2, <2>3 DEF Forms
    <3> QED
      BY <2>3, <3>1 DEF ClosedUnderChoice
  <2> QED
    BY <2>2, <2>3 DEF Forms
<1> QED
  BY <1>1, <1>2 DEF Forms

-----------------------------------------------------------------------------
(***************************************************************************)
(* What was spelled once stays spelled, because the tree only grows.       *)
(***************************************************************************)
LEMMA StandsStable ==
    ASSUME Grows, UNCHANGED input,
           NEW n, NEW it, NEW from, NEW to, NEW m,
           Stands(n, it, from, to, m)
    PROVE  Stands(n, it, from, to, m)'
<1>1. CASE it.k = "tok" /\ m = 0 /\ from \in DOMAIN owner /\ owner[from] = n
           /\ input[from] \in it.set /\ to = from + 1
  BY <1>1 DEF Stands, Grows
<1>2. CASE it.k = "rule" /\ m \in DOMAIN nodes /\ Closed(m)
           /\ nodes[m].rule = it.sym /\ nodes[m].parent = n
           /\ nodes[m].start = from /\ nodes[m].stop = to - 1
  BY <1>2 DEF Stands, Grows
<1> QED
  BY <1>1, <1>2 DEF Stands

\* So is what a whole sequence of items spells.
LEMMA SpellsStable ==
    ASSUME Grows, UNCHANGED input,
           NEW n, n \in DOMAIN nodes, NEW w, NEW b, NEW c,
           Spells(n, w, b, c)
    PROVE  Spells(n, w, b, c)'
<1>1. nodes'[n].start = nodes[n].start
  BY DEF Grows
<1>2. \A i \in 1 .. Len(w) : Stands(n, w[i], b[i - 1], b[i], c[i])'
  BY StandsStable DEF Spells
<1> QED
  BY <1>1, <1>2 DEF Spells

\* The items of w reach up to the token before to, and their children are the
\* ones in c and m.
SpellsUpTo(n, w, c, to, m) ==
    \E bb \in Bounds(w), cc \in Children(w) :
        /\ Spells(n, w, bb, cc)
        /\ bb[Len(w)] = to
        /\ \A k : (k = m \/ \E i \in DOMAIN c : c[i] = k) => \E i \in DOMAIN cc : cc[i] = k

\* One more item, which begins where the others end.
LEMMA SpellsMore ==
    ASSUME Grows, UNCHANGED input,
           NEW n, n \in DOMAIN nodes,
           NEW w \in Seq(Items), NEW b \in Bounds(w), NEW c \in Children(w),
           Spells(n, w, b, c),
           NEW it \in Items, NEW to \in Nat, NEW m \in Nat,
           Stands(n, it, b[Len(w)], to, m)',
           m # 0 => \A i \in DOMAIN c : c[i] < m
    PROVE  SpellsUpTo(n, Append(w, it), c, to, m)'
<1> DEFINE l == Len(w)
           ww == Append(w, it)
           bb == [i \in 0 .. l + 1 |-> IF i = l + 1 THEN to ELSE b[i]]
           cc == [i \in 1 .. l + 1 |-> IF i = l + 1 THEN m ELSE c[i]]
<1>1. l \in Nat /\ l = Len(w)
  BY LenProperties
<1>2. /\ ww \in Seq(Items) /\ Len(ww) = l + 1 /\ ww[l + 1] = it
      /\ \A i \in 1 .. l : ww[i] = w[i]
  BY AppendProperties
<1>3. Spells(n, w, b, c)'
  BY SpellsStable
<1>4. b \in [0 .. l -> Nat] /\ c \in [1 .. l -> Nat]
  BY DEF Bounds, Children
<1> HIDE DEF ww, l
<1>5. bb \in [0 .. l + 1 -> Nat] /\ cc \in [1 .. l + 1 -> Nat]
  BY <1>1, <1>4
<1>6. /\ bb[0] = b[0] /\ bb[l + 1] = to /\ cc[l + 1] = m
      /\ \A i \in 1 .. l : bb[i] = b[i] /\ bb[i - 1] = b[i - 1] /\ cc[i] = c[i]
      /\ bb[l] = b[l]
  BY <1>1, <1>4
<1> HIDE DEF bb, cc
<1>7. ASSUME NEW i \in 1 .. l + 1
      PROVE  Stands(n, ww[i], bb[i - 1], bb[i], cc[i])'
  <2>1. CASE i \in 1 .. l
    <3>1. ww[i] = w[i] /\ bb[i - 1] = b[i - 1] /\ bb[i] = b[i] /\ cc[i] = c[i]
      BY <1>2, <1>6, <2>1
    <3>2. Stands(n, w[i], b[i - 1], b[i], c[i])'
      BY <1>1, <1>3, <2>1 DEF Spells
    <3> QED
      BY <3>1, <3>2
  <2>2. CASE i = l + 1
    <3>1. i - 1 = l
      BY <1>1, <2>2
    <3>2. ww[i] = it /\ bb[i - 1] = b[Len(w)] /\ bb[i] = to /\ cc[i] = m
      BY <1>1, <1>2, <1>6, <2>2, <3>1
    <3> QED
      BY <3>2
  <2> QED
    BY <1>1, <2>1, <2>2
<1>8. ASSUME NEW i \in 1 .. l + 1, NEW j \in 1 .. l + 1, i < j, cc[i] # 0, cc[j] # 0
      PROVE  cc[i] < cc[j]
  <2>1. i \in 1 .. l /\ cc[i] = c[i]
    BY <1>1, <1>6, <1>8
  <2>2. CASE j \in 1 .. l
    <3>1. cc[j] = c[j]
      BY <1>6, <2>2
    <3> QED
      BY <1>1, <1>3, <1>8, <2>1, <2>2, <3>1 DEF Spells
  <2>3. CASE j = l + 1
    BY <1>4, <1>6, <1>8, <2>1, <2>3
  <2> QED
    BY <1>1, <2>2, <2>3
<1>9. Spells(n, ww, bb, cc)'
  <2>1. bb[0] = nodes'[n].start
    BY <1>3, <1>6 DEF Spells
  <2> QED
    BY <1>2, <1>7, <1>8, <2>1 DEF Spells
<1>10. ASSUME NEW k, k = m \/ \E i \in DOMAIN c : c[i] = k
       PROVE  \E i \in DOMAIN cc : cc[i] = k
  <2>1. DOMAIN cc = 1 .. l + 1 /\ DOMAIN c = 1 .. l
    BY <1>4, <1>5
  <2>2. CASE k = m
    BY <1>1, <1>6, <2>1, <2>2
  <2>3. CASE \E i \in DOMAIN c : c[i] = k
    BY <1>1, <1>6, <2>1, <2>3
  <2> QED
    BY <1>10, <2>2, <2>3
<1>11. bb \in Bounds(ww) /\ cc \in Children(ww) /\ bb[Len(ww)] = to
  BY <1>2, <1>5, <1>6 DEF Bounds, Children
<1>12. SpellsUpTo(n, ww, c, to, m)'
  BY <1>9, <1>10, <1>11 DEF SpellsUpTo
<1> QED
  BY <1>12 DEF ww

\* No node that a step adds is a child of n.
NoNewChild(n) ==
    \A k \in DOMAIN nodes' : nodes'[k].parent = n => k \in DOMAIN nodes

\* A closed node stays derived.
LEMMA DerivedStable ==
    ASSUME Grows, UNCHANGED input, NEW n, n \in DOMAIN nodes, Closed(n),
           Derived(n), NoNewChild(n)
    PROVE  Derived(n)'
<1>0. PICK w \in Forms(nodes[n].rule) : \E b \in Bounds(w), c \in Children(w) :
         /\ Spells(n, w, b, c)
         /\ b[Len(w)] = nodes[n].stop + 1
         /\ NoOtherChild(n, c, 0)
  BY DEF Derived
<1>1. PICK b \in Bounds(w), c \in Children(w) :
         /\ Spells(n, w, b, c)
         /\ b[Len(w)] = nodes[n].stop + 1
         /\ NoOtherChild(n, c, 0)
  BY <1>0
<1>2. Spells(n, w, b, c)'
  BY <1>1, SpellsStable
<1>3. nodes'[n].rule = nodes[n].rule /\ nodes'[n].stop = nodes[n].stop
  BY DEF Grows
<1>4. NoOtherChild(n, c, 0)'
  BY <1>1 DEF NoOtherChild, NoNewChild, Grows
<1> QED
  BY <1>1, <1>2, <1>3, <1>4 DEF Derived

\* A caller stays underway while the function that it called is active.
LEMMA UnderwayStable ==
    ASSUME Grows, UNCHANGED input, TypeOK,
           NEW d, d \in DOMAIN stack, d # Len(stack), d # Len(stack'),
           stack'[d] = stack[d],
           stack'[d + 1].node = stack[d + 1].node,
           NoNewChild(stack[d].node), Underway(d)
    PROVE  Underway(d)'
<1> PICK n : n = stack[d].node
  OBVIOUS
<1> PICK m : m = stack[d + 1].node
  OBVIOUS
<1>0. PICK done \in Seq(Items), left \in Seq(Items) :
         \E b \in Bounds(done), c \in Children(done) : Progress(d, done, left, b, c)
  BY DEF Underway
<1>1. PICK b \in Bounds(done), c \in Children(done) : Progress(d, done, left, b, c)
  BY <1>0
<1>2. n \in DOMAIN nodes /\ m \in DOMAIN nodes
  BY StackType, NodeTypes
<1>3. Spells(n, done, b, c)'
  BY <1>1, <1>2, SpellsStable DEF Progress
<1>4. /\ nodes'[n].rule = nodes[n].rule
      /\ nodes'[m].rule = nodes[m].rule
      /\ nodes'[m].start = nodes[m].start
  BY <1>2 DEF Grows
<1>5. IsLeft(d, left)'
  BY <1>1, <1>4 DEF IsLeft, Progress
<1>6. Reached(d)' = Reached(d) /\ Callee(d) = m /\ Callee(d)' = m
  BY <1>4 DEF Reached, Callee
<1>7. NoOtherChild(n, c, m)'
  BY <1>1, <1>6 DEF NoOtherChild, NoNewChild, Grows, Progress
<1>8. Progress(d, done, left, b, c)'
  <2>1. NoOtherChild(n, c, Callee(d))'
    BY SMTT(60), <1>6, <1>7
  <2> QED
    BY <1>1, <1>3, <1>4, <1>5, <1>6, <2>1 DEF Progress
<1> QED
  BY <1>8 DEF Underway

-----------------------------------------------------------------------------
\* What a step of the active function does to the frames.
LEMMA ContinueTop ==
    ASSUME TypeOK, stack # <<>>, NEW rest \in Seq(Items), Continue(rest)
    PROVE  /\ Len(stack) \in Nat \ {0}
           /\ Len(stack') = Len(stack)
           /\ DOMAIN stack = 1 .. Len(stack) /\ DOMAIN stack' = 1 .. Len(stack)
           /\ \A d \in 1 .. Len(stack) :
                 /\ stack'[d].node = stack[d].node
                 /\ d # Len(stack) => stack'[d] = stack[d]
           /\ stack'[Len(stack)].rest = rest
<1>1. stack \in Seq(FrameSet) /\ Len(stack) \in Nat \ {0} /\ Len(stack) \in 1 .. Len(stack)
  BY TopType DEF TypeOK, FrameSet
<1> DEFINE top == [Top EXCEPT !.rest = rest]
<1>2. top \in FrameSet /\ top.rest = rest
  BY TopType DEF FrameSet
<1>3. stack' = [stack EXCEPT ![Len(stack)] = top]
  BY DEF Continue, Top
<1> HIDE DEF top
<1>4. /\ Len(stack') = Len(stack)
      /\ \A d \in 1 .. Len(stack) : stack'[d] = IF d = Len(stack) THEN top ELSE stack[d]
  BY <1>1, <1>2, <1>3, ExceptSeq
<1>5. /\ DOMAIN stack = 1 .. Len(stack) /\ DOMAIN stack' = 1 .. Len(stack)
      /\ \A d \in 1 .. Len(stack) : stack'[d].node = stack[d].node
  BY <1>1, ContinueFrames, LenProperties
<1>6. stack'[Len(stack)] = top
  BY SMTT(60), <1>1, <1>4
<1>7. ASSUME NEW d \in 1 .. Len(stack)
      PROVE  stack'[d].node = stack[d].node /\ (d # Len(stack) => stack'[d] = stack[d])
  <2>1. d # Len(stack) => stack'[d] = stack[d]
    BY <1>4
  <2> QED
    BY <1>5, <2>1
<1>8. Len(stack') = Len(stack) /\ stack'[Len(stack)].rest = rest
  BY <1>2, <1>4, <1>6
<1> QED
  BY <1>1, <1>5, <1>7, <1>8

\* The closed nodes and the callers, when the active function takes a step of
\* its own.
LEMMA OthersKept ==
    ASSUME TypeOK, DerivationInv, Grows, UNCHANGED <<input, nodes>>, stack # <<>>,
           NEW rest \in Seq(Items), Continue(rest)
    PROVE  /\ \A n \in DOMAIN nodes' : Closed(n)' => Derived(n)'
           /\ \A d \in 1 .. Len(stack) : d # Len(stack) => Underway(d)'
<1> PICK l : l = Len(stack)
  OBVIOUS
<1>1. /\ l \in Nat \ {0}
      /\ Len(stack') = l
      /\ DOMAIN stack = 1 .. l /\ DOMAIN stack' = 1 .. l
      /\ \A d \in 1 .. l :
            /\ stack'[d].node = stack[d].node
            /\ d # l => stack'[d] = stack[d]
  BY ContinueTop
<1>2. \A n : NoNewChild(n)
  BY DEF NoNewChild
<1>3. ASSUME NEW n, n \in DOMAIN nodes', Closed(n)'
      PROVE  Derived(n)'
  <2>1. Closed(n)
    BY <1>1, <1>3 DEF Closed, Open
  <2> QED
    BY <1>2, <1>3, <2>1, DerivedStable DEF DerivationInv
<1>4. ASSUME NEW d \in 1 .. l, d # l
      PROVE  Underway(d)'
  <2>1. d + 1 \in 1 .. l
    BY <1>1, <1>4
  <2>2. stack'[d] = stack[d] /\ stack'[d + 1].node = stack[d + 1].node
    BY <1>1, <1>4, <2>1
  <2>3. d \in DOMAIN stack /\ d # Len(stack) /\ d # Len(stack') /\ NoNewChild(stack[d].node)
    BY <1>1, <1>2, <1>4
  <2> QED
    BY <2>2, <2>3, UnderwayStable DEF DerivationInv
<1> QED
  BY <1>3, <1>4

\* The progress of the active function.
LEMMA TopProgress ==
    ASSUME TypeOK, DerivationInv, stack # <<>>
    PROVE  \E done \in Seq(Items) : \E b \in Bounds(done), c \in Children(done) :
              /\ done \o Top.rest \in Forms(nodes[Top.node].rule)
              /\ Spells(Top.node, done, b, c)
              /\ b[Len(done)] = pos
              /\ NoOtherChild(Top.node, c, 0)
<1> PICK d : d = Len(stack)
  OBVIOUS
<1>1. d \in DOMAIN stack /\ Top = stack[d]
  BY TopType DEF Top
<1>2. Underway(d)
  BY <1>1 DEF DerivationInv
<1>3. PICK done \in Seq(Items), left \in Seq(Items) :
         \E b \in Bounds(done), c \in Children(done) : Progress(d, done, left, b, c)
  BY <1>2 DEF Underway
<1>4. PICK b \in Bounds(done), c \in Children(done) : Progress(d, done, left, b, c)
  BY <1>3
<1>5. left = Top.rest /\ Reached(d) = pos /\ Callee(d) = 0
  BY <1>1, <1>4 DEF Progress, IsLeft, Reached, Callee
<1>6. /\ done \o Top.rest \in Forms(nodes[Top.node].rule)
      /\ Spells(Top.node, done, b, c)
      /\ b[Len(done)] = pos
      /\ NoOtherChild(Top.node, c, 0)
  BY <1>1, <1>4, <1>5 DEF Progress
<1> QED
  BY <1>6

\* A decision replaces itself by one of its choices.
LEMMA DecisionDerives ==
    ASSUME TypeOK, DerivationInv, Grows, UNCHANGED <<input, nodes, pos>>,
           stack # <<>>, Top.rest # <<>>,
           NEW e \in Branches(Expected), Continue(e \o Tail(Top.rest))
    PROVE  DerivationInv'
<1> PICK rest : rest = e \o Tail(Top.rest)
  OBVIOUS
<1> PICK it : it = Expected
  OBVIOUS
<1> PICK d : d = Len(stack)
  OBVIOUS
<1> PICK n : n = Top.node
  OBVIOUS
<1>1. Top.rest \in Seq(Items) /\ n \in DOMAIN nodes /\ n = stack[d].node
  BY TopType, NodeTypes DEF Top
<1>2. it \in Items /\ Tail(Top.rest) \in Seq(Items) /\ Top.rest = <<it>> \o Tail(Top.rest)
  BY <1>1, FirstAndRest DEF Expected
<1>3. e \in Seq(Items) /\ rest \in Seq(Items)
  BY <1>2, ConcatProperties DEF Branches
<1>4. PICK done \in Seq(Items) : \E b \in Bounds(done), c \in Children(done) :
         /\ done \o Top.rest \in Forms(nodes[n].rule)
         /\ Spells(n, done, b, c)
         /\ b[Len(done)] = pos
         /\ NoOtherChild(n, c, 0)
  BY TopProgress
<1>5. PICK b \in Bounds(done), c \in Children(done) :
         /\ done \o Top.rest \in Forms(nodes[n].rule)
         /\ Spells(n, done, b, c)
         /\ b[Len(done)] = pos
         /\ NoOtherChild(n, c, 0)
  BY <1>4
<1>6. nodes[n].rule \in DOMAIN Grammar
  BY <1>1, NodeTypes DEF NodeSet
<1>7. done \o rest \in Forms(nodes[n].rule)
  <2>1. done \o (<<it>> \o Tail(Top.rest)) \in Forms(nodes[n].rule)
    BY <1>2, <1>5
  <2>2. done \o (e \o Tail(Top.rest)) \in Forms(nodes[n].rule)
    BY <1>2, <1>6, <2>1, FormsClosed
  <2> QED
    BY <2>2
<1>8. /\ Len(stack') = d /\ stack'[d].rest = rest /\ stack'[d].node = n
      /\ DOMAIN stack' = 1 .. d /\ d \in 1 .. d
  <2>1. /\ d \in Nat \ {0} /\ Len(stack') = d /\ DOMAIN stack' = 1 .. d
        /\ \A k \in 1 .. d : stack'[k].node = stack[k].node
        /\ stack'[d].rest = rest
    BY <1>3, ContinueTop
  <2>2. d \in 1 .. d
    BY <2>1
  <2> QED
    BY <1>1, <2>1, <2>2
<1>9. Spells(n, done, b, c)'
  BY <1>1, <1>5, SpellsStable
<1>10. Progress(d, done, rest, b, c)'
  <2>1. IsLeft(d, rest)' /\ Reached(d)' = pos /\ Callee(d)' = 0
    BY <1>8 DEF IsLeft, Reached, Callee
  <2>2. NoOtherChild(n, c, 0)'
    BY <1>5 DEF NoOtherChild
  <2> QED
    BY <1>5, <1>7, <1>8, <1>9, <2>1, <2>2 DEF Progress
<1>11. Underway(d)'
  BY <1>3, <1>10 DEF Underway
<1> QED
  BY <1>3, <1>8, <1>11, OthersKept DEF DerivationInv

\* Match adds a token to what the active function has spelled.
LEMMA MatchDerives ==
    ASSUME TreeInv, DerivationInv, Grows, Match
    PROVE  DerivationInv'
<1> PICK rest : rest = Tail(Top.rest)
  OBVIOUS
<1> PICK it : it = Expected
  OBVIOUS
<1> PICK d : d = Len(stack)
  OBVIOUS
<1> PICK n : n = Top.node
  OBVIOUS
<1> PICK p : p = pos
  OBVIOUS
<1> PICK q : q = p + 1
  OBVIOUS
<1>1. /\ TypeOK /\ stack # <<>> /\ Top.rest # <<>> /\ Continue(rest)
      /\ it.k = "tok" /\ input[p] \in it.set /\ pos' = q
      /\ UNCHANGED <<input, nodes>> /\ owner' = Append(owner, n)
  BY DEF TreeInv, ContextFollowsCalls, Match, At
<1>2. Top.rest \in Seq(Items) /\ n \in DOMAIN nodes /\ n = stack[d].node /\ n \in 1 .. Len(nodes)
  BY <1>1, TopType, NodeTypes DEF Top
<1>3. it \in Items /\ rest \in Seq(Items) /\ Top.rest = <<it>> \o rest
  BY <1>1, <1>2, FirstAndRest DEF Expected
<1>4. p \in Nat /\ q \in Nat
  BY <1>1, PosType
<1>5. p \in DOMAIN owner' /\ owner'[p] = n
  <2>1. owner \in Seq(1 .. Len(nodes)) /\ Len(owner) = p - 1
    BY DEF TreeInv, TypeOK, TokensHangInnermost
  <2>2. /\ owner' \in Seq(1 .. Len(nodes)) /\ Len(owner') = p /\ owner'[p] = n
    BY <1>1, <1>2, <1>4, <2>1, AppendProperties
  <2>3. p \in Nat \ {0} /\ DOMAIN owner' = 1 .. p
    BY <1>1, <2>2, PosType, LenProperties
  <2> QED
    BY <2>2, <2>3
<1>6. Stands(n, it, p, q, 0)'
  BY <1>1, <1>5 DEF Stands
<1>7. PICK done \in Seq(Items) : \E b \in Bounds(done), c \in Children(done) :
         /\ done \o Top.rest \in Forms(nodes[n].rule)
         /\ Spells(n, done, b, c)
         /\ b[Len(done)] = p
         /\ NoOtherChild(n, c, 0)
  BY <1>1, TopProgress
<1>8. PICK b \in Bounds(done), c \in Children(done) :
         /\ done \o Top.rest \in Forms(nodes[n].rule)
         /\ Spells(n, done, b, c)
         /\ b[Len(done)] = p
         /\ NoOtherChild(n, c, 0)
  BY <1>7
<1> DEFINE more == Append(done, it)
<1>9. more \in Seq(Items) /\ more \o rest \in Forms(nodes[n].rule)
  <2>1. more \in Seq(Items) /\ done \o (<<it>> \o rest) = more \o rest
    BY <1>3, MoveFirst
  <2> HIDE DEF more
  <2> QED
    BY <1>3, <1>8, <2>1
<1>10. Stands(n, it, b[Len(done)], q, 0)'
  BY <1>6, <1>8
<1>11. PICK bb \in Bounds(more), cc \in Children(more) :
          /\ Spells(n, more, bb, cc)'
          /\ bb[Len(more)] = q
          /\ \A k : (k = 0 \/ \E i \in DOMAIN c : c[i] = k) => \E i \in DOMAIN cc : cc[i] = k
  <2>1. UNCHANGED input /\ 0 \in Nat /\ Spells(n, done, b, c)
    BY <1>1, <1>8
  <2>2. SpellsUpTo(n, more, c, q, 0)'
    BY <1>2, <1>3, <1>4, <1>10, <2>1, SpellsMore
  <2> HIDE DEF more
  <2> QED
    BY <2>2 DEF SpellsUpTo
<1> HIDE DEF more
<1>12. /\ Len(stack') = d /\ stack'[d].rest = rest /\ stack'[d].node = n
       /\ DOMAIN stack' = 1 .. d /\ d \in 1 .. d
  <2>1. /\ d \in Nat \ {0} /\ Len(stack') = d /\ DOMAIN stack' = 1 .. d
        /\ \A k \in 1 .. d : stack'[k].node = stack[k].node
        /\ stack'[d].rest = rest
    BY <1>1, <1>3, ContinueTop
  <2>2. d \in 1 .. d
    BY <2>1
  <2> QED
    BY <1>2, <2>1, <2>2
<1>13. Progress(d, more, rest, bb, cc)'
  <2>1. IsLeft(d, rest)' /\ Reached(d)' = q /\ Callee(d)' = 0
    BY <1>1, <1>12 DEF IsLeft, Reached, Callee
  <2>2. NoOtherChild(n, cc, 0)'
    BY <1>1, <1>8, <1>11 DEF NoOtherChild
  <2> QED
    BY <1>1, <1>9, <1>11, <1>12, <2>1, <2>2 DEF Progress
<1>14. Underway(d)'
  BY <1>3, <1>9, <1>13 DEF Underway
<1> QED
  BY <1>1, <1>3, <1>12, <1>14, OthersKept DEF DerivationInv

\* A call adds one node, a child of the current context.
LEMMA EnterNodes ==
    ASSUME TypeOK, NEW rule \in DOMAIN Grammar, NEW callers, Enter(rule, callers)
    PROVE  /\ DOMAIN nodes' = 1 .. Len(nodes) + 1
           /\ \A n \in DOMAIN nodes : n \in DOMAIN nodes' /\ nodes'[n] = nodes[n]
           /\ nodes'[Len(nodes) + 1] = Node(rule, ctx, pos)
           /\ \A n \in DOMAIN nodes' : n \in DOMAIN nodes \/ n = Len(nodes) + 1
<1> DEFINE node == Node(rule, ctx, pos)
<1>1. nodes \in Seq(NodeSet) /\ Len(nodes) \in Nat /\ DOMAIN nodes = 1 .. Len(nodes)
  BY NodeTypes DEF TypeOK, NodeSet
<1>2. node \in NodeSet
  BY <1>1, PosType DEF TypeOK, Node, NodeSet
<1>3. nodes' = Append(nodes, node)
  BY DEF Enter
<1> HIDE DEF node
<1>4. /\ Len(nodes') = Len(nodes) + 1 /\ nodes' \in Seq(NodeSet)
      /\ \A n \in 1 .. Len(nodes) : nodes'[n] = nodes[n]
      /\ nodes'[Len(nodes) + 1] = node
  BY <1>1, <1>2, <1>3, AppendProperties
<1>5. DOMAIN nodes' = 1 .. Len(nodes) + 1
  BY <1>4, LenProperties
<1>6. \A n \in 1 .. Len(nodes) + 1 : n \in 1 .. Len(nodes) \/ n = Len(nodes) + 1
  BY <1>1
<1>7. \A n \in 1 .. Len(nodes) : n \in 1 .. Len(nodes) + 1
  BY <1>1
<1> QED
  BY <1>1, <1>4, <1>5, <1>6, <1>7 DEF node

\* The new function has its whole right-hand side to match, and the closed nodes
\* are left alone.
LEMMA EnterDerives ==
    ASSUME TreeInv, TreeInv', DerivationInv, Grows, UNCHANGED <<input, pos>>,
           NEW rule, rule \in DOMAIN Grammar, NEW callers, Enter(rule, callers),
           NEW d, d = Len(stack) + 1, Len(stack') = d,
           stack'[d] = Frame(Len(nodes) + 1, Grammar[rule]),
           d \in DOMAIN stack',
           \A e \in DOMAIN stack : e \in DOMAIN stack' /\ stack'[e].node = stack[e].node
    PROVE  /\ \A n \in DOMAIN nodes' : Closed(n)' => Derived(n)'
           /\ Underway(d)'
           /\ \A n \in DOMAIN nodes : n # ctx => NoNewChild(n)
<1> PICK new : new = Len(nodes) + 1
  OBVIOUS
<1> PICK p : p = pos
  OBVIOUS
<1>1. TypeOK /\ TypeOK'
  BY DEF TreeInv
<1>2. /\ \A n \in DOMAIN nodes : n \in DOMAIN nodes' /\ nodes'[n] = nodes[n]
      /\ nodes'[new] = Node(rule, ctx, p)
      /\ \A n \in DOMAIN nodes' : n \in DOMAIN nodes \/ n = new
      /\ new \in Nat /\ DOMAIN nodes' = 1 .. new
  BY <1>1, EnterNodes, NodeTypes
<1>3. \A n \in DOMAIN nodes : n # ctx => NoNewChild(n)
  BY <1>2 DEF NoNewChild, Node
<1>4. ASSUME NEW n, n \in DOMAIN nodes', Closed(n)'
      PROVE  Derived(n)'
  <2>1. n # new
    BY <1>4 DEF Closed, Open, Frame
  <2>2. n \in DOMAIN nodes
    BY <1>2, <1>4, <2>1
  <2>3. Closed(n)
    BY <1>4 DEF Closed, Open
  <2>4. n # ctx
    <3>1. CASE stack = <<>>
      BY <1>1, <2>2, <3>1, NodeTypes DEF TreeInv, ContextFollowsCalls
    <3>2. CASE stack # <<>>
      BY <1>1, <2>3, <3>2, TopType DEF TreeInv, ContextFollowsCalls, Closed, Open, Top
    <3> QED
      BY <3>1, <3>2
  <2> QED
    BY <1>3, <2>2, <2>3, <2>4, DerivedStable DEF DerivationInv
<1>5. Underway(d)'
  <2> PICK rest : rest = Grammar[rule]
    OBVIOUS
  <2> PICK done : done = <<>>
    OBVIOUS
  <2> PICK b : b = [i \in 0 .. 0 |-> p]
    OBVIOUS
  <2> PICK c : c = [i \in 1 .. 0 |-> 0]
    OBVIOUS
  <2>1. done \in Seq(Items) /\ Len(done) = 0 /\ rest \in Seq(Items) /\ done \o rest = rest
    BY GrammarAssumption, EmptySeq, ConcatEmptySeq
  <2>2. p \in Nat
    BY <1>1, PosType
  <2>3. b \in Bounds(done) /\ c \in Children(done) /\ b[Len(done)] = p /\ b[0] = p
    BY <2>1, <2>2 DEF Bounds, Children
  <2>4. stack'[d].node = new /\ stack'[d].rest = rest /\ nodes'[new].rule = rule /\ nodes'[new].start = p
    BY <1>2 DEF Frame, Node
  <2>5. done \o rest \in Forms(nodes'[new].rule)
    BY <2>1, <2>4, FormsClosed
  <2>6. Spells(new, done, b, c)'
    BY <2>1, <2>3, <2>4 DEF Spells
  <2>7. NoOtherChild(new, c, 0)'
    <3> SUFFICES ASSUME NEW k, k \in DOMAIN nodes', nodes'[k].parent = new
                 PROVE  FALSE
      BY DEF NoOtherChild
    <3>1. new # 0 /\ new \in Nat /\ k <= new /\ k \in Nat
      BY <1>1, <1>2, NodeTypes
    <3>2. Within(k, new)'
      BY <3>1 DEF TreeInv, IntervalsNest
    <3> QED
      BY <3>1, <3>2 DEF Within
  <2>8. IsLeft(d, rest)' /\ Reached(d)' = p /\ Callee(d)' = 0
    BY <2>4 DEF IsLeft, Reached, Callee
  <2>9. Progress(d, done, rest, b, c)'
    BY <2>3, <2>4, <2>5, <2>6, <2>7, <2>8 DEF Progress
  <2> QED
    BY <2>1, <2>3, <2>9 DEF Underway
<1> QED
  BY <1>3, <1>4, <1>5

\* EnterRule: what the caller has still to spell begins with the reference.
LEMMA EnterRuleDerives ==
    ASSUME TreeInv, TreeInv', DerivationInv, Grows, EnterRule
    PROVE  DerivationInv'
<1> PICK l : l = Len(stack)
  OBVIOUS
<1> PICK n : n = Top.node
  OBVIOUS
<1> PICK it : it = Expected
  OBVIOUS
<1> PICK new : new = Len(nodes) + 1
  OBVIOUS
<1> PICK p : p = pos
  OBVIOUS
<1>1. /\ TypeOK /\ stack # <<>> /\ Top.rest # <<>> /\ it.k = "rule"
      /\ UNCHANGED <<input, pos>> /\ TypeOK'
      /\ Enter(it.sym, Append(Callers, Frame(n, Tail(Top.rest))))
  BY DEF TreeInv, EnterRule, At
<1>2. /\ l \in Nat \ {0} /\ DOMAIN stack = 1 .. l
      /\ Top.rest \in Seq(Items) /\ n \in DOMAIN nodes /\ n = stack[l].node
  BY <1>1, TopType, NodeTypes DEF Top
<1>3. it \in Items /\ Tail(Top.rest) \in Seq(Items) /\ Top.rest = <<it>> \o Tail(Top.rest)
  BY <1>1, <1>2, FirstAndRest DEF Expected
<1>4. it.sym \in DOMAIN Grammar
  BY <1>1, <1>3, GrammarAssumption
<1>5. /\ Len(stack') = l + 1
      /\ \A d \in 1 .. l - 1 : stack'[d] = stack[d]
      /\ stack'[l] = Frame(n, Tail(Top.rest))
      /\ stack'[l + 1] = Frame(new, Grammar[it.sym])
  BY <1>1, EnterFrames
<1>6. DOMAIN stack' = 1 .. l + 1
  <2>1. DOMAIN stack' = 1 .. Len(stack')
    BY <1>1, LenProperties DEF TypeOK
  <2> QED
    BY <1>5, <2>1
<1>7. \A d \in 1 .. l : stack'[d].node = stack[d].node
  <2> SUFFICES ASSUME NEW d \in 1 .. l PROVE stack'[d].node = stack[d].node
    OBVIOUS
  <2>1. CASE d = l
    BY <1>2, <1>5, <2>1 DEF Frame
  <2>2. CASE d # l
    <3>1. d \in 1 .. l - 1
      BY <1>2, <2>2
    <3> QED
      BY <1>5, <3>1
  <2> QED
    BY <2>1, <2>2
<1>8. /\ \A k \in DOMAIN nodes' : Closed(k)' => Derived(k)'
      /\ Underway(l + 1)'
      /\ \A k \in DOMAIN nodes : k # ctx => NoNewChild(k)
  <2>1. l + 1 \in DOMAIN stack' /\ l + 1 = Len(stack) + 1 /\ Len(stack') = l + 1
    BY <1>2, <1>5, <1>6
  <2>2. \A e \in DOMAIN stack : e \in DOMAIN stack' /\ stack'[e].node = stack[e].node
    BY <1>2, <1>6, <1>7
  <2> QED
    BY <1>1, <1>4, <1>5, <2>1, <2>2, EnterDerives
<1>9. ASSUME NEW d \in 1 .. l - 1
      PROVE  Underway(d)'
  <2>1. d \in DOMAIN stack /\ d # Len(stack) /\ d # Len(stack') /\ l \in DOMAIN stack
    BY <1>2, <1>5
  <2>2. stack'[d] = stack[d] /\ stack'[d + 1].node = stack[d + 1].node
    BY <1>2, <1>5, <1>7
  <2>3. stack[d].node \in DOMAIN nodes
    BY <1>1, <1>2, <2>1, StackType, NodeTypes
  <2>4. stack[d].node # ctx
    <3>1. ctx = stack[l].node
      BY <1>1 DEF TreeInv, ContextFollowsCalls, Top
    <3>2. stack[d].node < stack[l].node
      BY <1>2, <2>1 DEF TreeInv, ContextFollowsCalls
    <3>3. stack[d].node \in Nat
      BY <1>1, <2>3, NodeTypes
    <3> QED
      BY <3>1, <3>2, <3>3
  <2> QED
    BY <1>1, <1>8, <2>1, <2>2, <2>3, <2>4, UnderwayStable DEF DerivationInv
<1>10. Underway(l)'
  <2>1. PICK done \in Seq(Items) : \E b \in Bounds(done), c \in Children(done) :
           /\ done \o Top.rest \in Forms(nodes[n].rule)
           /\ Spells(n, done, b, c)
           /\ b[Len(done)] = p
           /\ NoOtherChild(n, c, 0)
    BY <1>1, TopProgress
  <2>2. PICK b \in Bounds(done), c \in Children(done) :
           /\ done \o Top.rest \in Forms(nodes[n].rule)
           /\ Spells(n, done, b, c)
           /\ b[Len(done)] = p
           /\ NoOtherChild(n, c, 0)
    BY <2>1
  <2> PICK left : left = Top.rest
    OBVIOUS
  <2>3. /\ \A k \in DOMAIN nodes : k # 0 /\ k \in DOMAIN nodes' /\ nodes'[k] = nodes[k]
        /\ nodes'[new] = Node(it.sym, ctx, p)
        /\ \A k \in DOMAIN nodes' : k \in DOMAIN nodes \/ k = new
    BY <1>1, <1>4, EnterNodes, NodeTypes
  <2>4. Spells(n, done, b, c)'
    BY <1>1, <1>2, <2>2, SpellsStable
  <2>5. stack'[l].node = n /\ stack'[l].rest = Tail(Top.rest) /\ stack'[l + 1].node = new
    BY <1>5 DEF Frame
  <2>6. l # Len(stack')
    BY <1>2, <1>5
  <2>7. IsLeft(l, left)'
    <3>1. it.sym = nodes'[stack'[l + 1].node].rule
      BY <2>3, <2>5 DEF Node
    <3>2. left = <<it>> \o stack'[l].rest
      BY <1>3, <2>5
    <3> QED
      BY <1>1, <1>3, <2>6, <3>1, <3>2 DEF IsLeft
  <2>8. Reached(l)' = p /\ Callee(l)' = new
    BY <2>3, <2>5, <2>6 DEF Reached, Callee, Node
  <2>9. NoOtherChild(n, c, new)'
    BY <2>2, <2>3 DEF NoOtherChild
  <2>10. done \o left \in Forms(nodes'[n].rule)
    BY <1>2, <2>2, <2>3
  <2>11. Progress(l, done, left, b, c)'
    BY <2>2, <2>4, <2>5, <2>7, <2>8, <2>9, <2>10 DEF Progress
  <2> QED
    BY <1>2, <2>11 DEF Underway
<1>11. \A d \in 1 .. l + 1 : d \in 1 .. l - 1 \/ d = l \/ d = l + 1
  BY <1>2
<1> QED
  BY <1>6, <1>8, <1>9, <1>10, <1>11 DEF DerivationInv

\* ExitRule records the end of the current context.
LEMMA ExitNodes ==
    ASSUME TreeInv, ExitRule
    PROVE  /\ DOMAIN nodes' = DOMAIN nodes
           /\ nodes'[ctx].stop = pos - 1
           /\ \A n \in DOMAIN nodes :
                 /\ nodes'[n].rule = nodes[n].rule
                 /\ nodes'[n].parent = nodes[n].parent
                 /\ nodes'[n].start = nodes[n].start
<1>1. TypeOK /\ stack # <<>> /\ nodes' = [nodes EXCEPT ![ctx].stop = pos - 1]
  BY DEF TreeInv, ExitRule
<1>2. ctx \in DOMAIN nodes
  BY <1>1, TopType, NodeTypes DEF TreeInv, ContextFollowsCalls
<1>3. DOMAIN nodes' = DOMAIN nodes
  BY <1>1
<1>4. \A n \in DOMAIN nodes :
         nodes'[n] = IF n = ctx THEN [nodes[n] EXCEPT !.stop = pos - 1] ELSE nodes[n]
  BY <1>1
<1>5. \A n \in DOMAIN nodes : nodes[n] \in NodeSet
  BY <1>1, NodeTypes
<1> QED
  BY <1>2, <1>3, <1>4, <1>5 DEF NodeSet

\* ExitRule: the context is derived, and it stands for the reference in its
\* caller's form.
LEMMA ExitDerives ==
    ASSUME TreeInv, TreeInv', DerivationInv, Grows, ExitRule
    PROVE  DerivationInv'
<1> PICK l : l = Len(stack)
  OBVIOUS
<1> PICK n : n = Top.node
  OBVIOUS
<1> PICK p : p = pos
  OBVIOUS
<1>1. /\ TypeOK /\ stack # <<>> /\ Top.rest = <<>> /\ UNCHANGED <<input, pos>> /\ TypeOK'
      /\ n = ctx /\ p \in Nat /\ p - 1 + 1 = p
  BY PosType DEF TreeInv, ExitRule, ContextFollowsCalls
<1>2. /\ l \in Nat \ {0} /\ DOMAIN stack = 1 .. l
      /\ n \in DOMAIN nodes /\ n = stack[l].node /\ n \in Nat \ {0}
  BY <1>1, TopType, NodeTypes DEF Top
<1>3. Len(stack') = l - 1 /\ \A d \in 1 .. l - 1 : stack'[d] = stack[d]
  BY <1>1, ExitFrames
<1>4. DOMAIN stack' = 1 .. l - 1
  <2>1. DOMAIN stack' = 1 .. Len(stack')
    BY <1>1, LenProperties DEF TypeOK
  <2> QED
    BY <1>3, <2>1
<1>5. /\ DOMAIN nodes' = DOMAIN nodes
      /\ nodes'[n].stop = p - 1
      /\ \A k \in DOMAIN nodes :
            /\ nodes'[k].rule = nodes[k].rule
            /\ nodes'[k].parent = nodes[k].parent
            /\ nodes'[k].start = nodes[k].start
  BY <1>1, ExitNodes
<1>6. \A k : NoNewChild(k)
  BY <1>5 DEF NoNewChild
<1>7. Derived(n)'
  <2>1. PICK done \in Seq(Items) : \E b \in Bounds(done), c \in Children(done) :
           /\ done \o Top.rest \in Forms(nodes[n].rule)
           /\ Spells(n, done, b, c)
           /\ b[Len(done)] = p
           /\ NoOtherChild(n, c, 0)
    BY <1>1, TopProgress
  <2>2. PICK b \in Bounds(done), c \in Children(done) :
           /\ done \o Top.rest \in Forms(nodes[n].rule)
           /\ Spells(n, done, b, c)
           /\ b[Len(done)] = p
           /\ NoOtherChild(n, c, 0)
    BY <2>1
  <2>3. done \o Top.rest = done
    BY <1>1, ConcatEmptySeq
  <2>4. done \in Forms(nodes'[n].rule)
    BY <1>2, <1>5, <2>2, <2>3
  <2>5. Spells(n, done, b, c)'
    BY <1>1, <1>2, <2>2, SpellsStable
  <2>6. b[Len(done)] = nodes'[n].stop + 1
    BY <1>1, <1>5, <2>2
  <2>7. NoOtherChild(n, c, 0)'
    BY <1>5, <2>2 DEF NoOtherChild
  <2> QED
    BY <2>4, <2>5, <2>6, <2>7 DEF Derived
<1>8. ASSUME NEW k, k \in DOMAIN nodes', Closed(k)'
      PROVE  Derived(k)'
  <2>1. CASE k = n
    BY <1>7, <2>1
  <2>2. CASE k # n
    <3>1. ASSUME NEW d \in 1 .. l, stack[d].node = k
          PROVE  FALSE
      <4>1. d # l
        BY <1>2, <2>2, <3>1
      <4>2. d \in 1 .. l - 1
        BY <1>2, <4>1
      <4> QED
        BY <1>3, <1>4, <1>8, <3>1, <4>2 DEF Closed, Open
    <3>2. Closed(k) /\ k \in DOMAIN nodes
      BY <1>2, <1>5, <1>8, <3>1 DEF Closed, Open
    <3> QED
      BY <1>1, <1>6, <3>2, DerivedStable DEF DerivationInv
  <2> QED
    BY <2>1, <2>2
<1>9. ASSUME NEW d \in 1 .. l - 1, d # l - 1
      PROVE  Underway(d)'
  <2>1. d \in DOMAIN stack /\ d # Len(stack) /\ d # Len(stack') /\ d + 1 \in 1 .. l - 1
    BY <1>2, <1>3, <1>9
  <2>2. stack'[d] = stack[d] /\ stack'[d + 1].node = stack[d + 1].node
    BY <1>3, <2>1
  <2> QED
    BY <1>1, <1>6, <2>1, <2>2, UnderwayStable DEF DerivationInv
<1>10. ASSUME NEW d \in 1 .. l - 1, d = l - 1
       PROVE  Underway(d)'
  <2> PICK u : u = stack[d].node
    OBVIOUS
  <2> PICK rest : rest = stack[d].rest
    OBVIOUS
  <2>1. d \in DOMAIN stack /\ d # Len(stack) /\ d + 1 = l /\ Len(stack') = d /\ l \in DOMAIN stack
    BY <1>2, <1>3, <1>10
  <2>2. u \in DOMAIN nodes /\ rest \in Seq(Items)
    <3>1. stack[d] \in FrameSet
      BY <1>1, <1>2, <2>1, StackType
    <3> QED
      BY <1>1, <3>1, NodeTypes DEF FrameSet
  <2>3. stack'[d].node = u /\ stack'[d].rest = rest
    BY <1>3
  <2>4. Underway(d)
    BY <2>1 DEF DerivationInv
  <2>5. PICK done \in Seq(Items), left \in Seq(Items) :
           \E b \in Bounds(done), c \in Children(done) : Progress(d, done, left, b, c)
    BY <2>4 DEF Underway
  <2>6. PICK b \in Bounds(done), c \in Children(done) : Progress(d, done, left, b, c)
    BY <2>5
  <2>7. PICK it \in Items : /\ it.k = "rule"
                            /\ it.sym = nodes[n].rule
                            /\ left = <<it>> \o rest
    BY <1>2, <2>1, <2>6 DEF Progress, IsLeft
  <2>8. Reached(d) = nodes[n].start /\ Callee(d) = n
    BY <1>2, <2>1 DEF Reached, Callee
  <2>9. nodes[n].parent = u
    BY SMTT(60), <1>2, <2>1 DEF TreeInv, ContextFollowsCalls
  <2>10. Closed(n)'
    <3> SUFFICES ASSUME NEW e \in 1 .. l - 1, stack[e].node = n
                 PROVE  FALSE
      BY <1>3, <1>4 DEF Closed, Open
    <3>1. e \in DOMAIN stack /\ l \in DOMAIN stack /\ e < l
      BY <1>2
    <3>2. stack[e].node < stack[l].node
      BY <3>1 DEF TreeInv, ContextFollowsCalls
    <3> QED
      BY <1>2, <3>2
  <2>11. Stands(u, it, b[Len(done)], p, n)'
    <3>1. b[Len(done)] = nodes[n].start
      BY <2>6, <2>8 DEF Progress
    <3> QED
      BY <1>2, <1>5, <2>7, <2>9, <2>10, <3>1 DEF Stands
  <2>12. \A i \in DOMAIN c : c[i] < n
    <3> SUFFICES ASSUME NEW i \in 1 .. Len(done) PROVE c[i] < n
      BY DEF Children
    <3>1. Stands(u, done[i], b[i - 1], b[i], c[i])
      BY <2>6 DEF Progress, Spells
    <3>2. c[i] \in Nat
      BY DEF Children
    <3>3. CASE c[i] = 0
      BY <1>2, <3>3
    <3>4. CASE c[i] \in DOMAIN nodes /\ Closed(c[i]) /\ nodes[c[i]].parent = u
      <4>1. ~Closed(n)
        BY <1>2, <2>1 DEF Closed, Open
      <4>2. ASSUME n < c[i] PROVE FALSE
        <5>1. n \in 1 .. c[i] - 1
          BY <1>2, <3>2, <4>2
        <5> QED
          BY <2>9, <3>4, <4>1, <5>1 DEF TreeInv, IntervalsNest
      <4> QED
        BY <1>2, <3>2, <3>4, <4>1, <4>2
    <3> QED
      BY <3>1, <3>3, <3>4 DEF Stands
  <2> DEFINE more == Append(done, it)
  <2>13. more \in Seq(Items) /\ done \o (<<it>> \o rest) = more \o rest
    BY <2>2, MoveFirst
  <2>14. SpellsUpTo(u, more, c, p, n)'
    <3>1. Spells(u, done, b, c)
      BY <2>6 DEF Progress
    <3> QED
      BY <1>1, <1>2, <2>2, <2>11, <2>12, <3>1, SpellsMore
  <2> HIDE DEF more
  <2>15. PICK bb \in Bounds(more), cc \in Children(more) :
            /\ Spells(u, more, bb, cc)'
            /\ bb[Len(more)] = p
            /\ \A k : (k = n \/ \E i \in DOMAIN c : c[i] = k) => \E i \in DOMAIN cc : cc[i] = k
    BY <2>14 DEF SpellsUpTo
  <2>16. more \o rest \in Forms(nodes'[u].rule)
    BY <1>5, <2>2, <2>6, <2>7, <2>13 DEF Progress
  <2>17. IsLeft(d, rest)' /\ Reached(d)' = p /\ Callee(d)' = 0
    BY <1>1, <2>1, <2>3 DEF IsLeft, Reached, Callee
  <2>18. NoOtherChild(u, cc, 0)'
    <3>1. NoOtherChild(u, c, n)
      BY <2>6, <2>8 DEF Progress
    <3> QED
      BY <1>5, <2>15, <3>1 DEF NoOtherChild
  <2>19. Progress(d, more, rest, bb, cc)'
    BY <2>3, <2>15, <2>16, <2>17, <2>18 DEF Progress
  <2> QED
    BY <2>2, <2>13, <2>19 DEF Underway
<1> QED
  BY <1>4, <1>8, <1>9, <1>10 DEF DerivationInv

\* The first call: the start rule has everything to match.
LEMMA CallDerives ==
    ASSUME TreeInv, TreeInv', DerivationInv, Grows, Call
    PROVE  DerivationInv'
<1>1. /\ TypeOK /\ TypeOK' /\ UNCHANGED <<input, pos>> /\ stack = <<>>
      /\ Enter(StartRule, <<>>) /\ StartRule \in DOMAIN Grammar
  BY GrammarAssumption DEF TreeInv, Bookkeeping, Call
<1> PICK d : d = 1
  OBVIOUS
<1>2. /\ Len(stack) = 0 /\ DOMAIN stack = {}
      /\ stack' = <<Frame(Len(nodes) + 1, Grammar[StartRule])>>
  BY <1>1 DEF Enter
<1>3. /\ Len(stack') = d /\ d = Len(stack) + 1 /\ d \in DOMAIN stack' /\ DOMAIN stack' = {d}
      /\ stack'[d] = Frame(Len(nodes) + 1, Grammar[StartRule])
  BY <1>2
<1>4. \A e \in DOMAIN stack : e \in DOMAIN stack' /\ stack'[e].node = stack[e].node
  BY <1>2
<1>5. (\A n \in DOMAIN nodes' : Closed(n)' => Derived(n)') /\ Underway(d)'
  BY <1>1, <1>3, <1>4, EnterDerives
<1> QED
  BY <1>3, <1>5 DEF DerivationInv

\* A step that changes neither the tree nor the frames.
LEMMA StopDerives ==
    ASSUME DerivationInv, UNCHANGED <<input, pos, stack, nodes, owner>>
    PROVE  DerivationInv'
<1>1. \A n : Closed(n)' <=> Closed(n)
  BY DEF Closed, Open
<1>2. \A n, it, from, to, m : Stands(n, it, from, to, m)' <=> Stands(n, it, from, to, m)
  BY <1>1 DEF Stands
<1>3. \A n, w, b, c : Spells(n, w, b, c)' <=> Spells(n, w, b, c)
  BY <1>2 DEF Spells
<1>4. \A n : Derived(n)' <=> Derived(n)
  BY <1>3 DEF Derived, NoOtherChild
<1>5. \A d, done, left, b, c : Progress(d, done, left, b, c)' <=> Progress(d, done, left, b, c)
  <2> SUFFICES ASSUME NEW d, NEW done, NEW left, NEW b, NEW c
               PROVE  Progress(d, done, left, b, c)' <=> Progress(d, done, left, b, c)
    OBVIOUS
  <2>1. IsLeft(d, left)' <=> IsLeft(d, left)
    BY DEF IsLeft
  <2>2. Reached(d)' = Reached(d) /\ Callee(d)' = Callee(d)
    BY DEF Reached, Callee
  <2>3. NoOtherChild(stack[d].node, c, Callee(d))' <=> NoOtherChild(stack[d].node, c, Callee(d))
    BY <2>2 DEF NoOtherChild
  <2> QED
    BY <1>3, <2>1, <2>2, <2>3 DEF Progress
<1> QED
  BY <1>1, <1>4, <1>5 DEF DerivationInv, Underway

\* What the three kinds of decision continue with is one of their choices.
LEMMA DecisionBranches ==
    ASSUME TypeOK
    PROVE  /\ At("alt") => \A n \in DOMAIN Expected.alts : Expected.alts[n] \in Branches(Expected)
           /\ At("opt") => <<>> \in Branches(Expected) /\ Block \in Branches(Expected)
           /\ At("star") => /\ <<>> \in Branches(Expected)
                            /\ Append(Block, Expected) \in Branches(Expected)
<1>1. <<>> \in Seq(Items)
  BY EmptySeq
<1>2. ASSUME At("alt")
      PROVE  \A n \in DOMAIN Expected.alts : Expected.alts[n] \in Branches(Expected)
  BY <1>2, ExpectedType DEF Branches
<1>3. ASSUME At("opt")
      PROVE  <<>> \in Branches(Expected) /\ Block \in Branches(Expected)
  <2>1. Expected.k = "opt" /\ Block \in Seq(Items)
    BY <1>3, ExpectedType
  <2> QED
    BY <1>1, <2>1 DEF Branches, Block
<1>4. ASSUME At("star")
      PROVE  <<>> \in Branches(Expected) /\ Append(Block, Expected) \in Branches(Expected)
  <2>1. Expected.k = "star" /\ Block \in Seq(Items) /\ Expected \in Items
    BY <1>4, ExpectedType
  <2>2. Append(Block, Expected) \in Seq(Items)
    BY <2>1, AppendProperties
  <2> QED
    BY <1>1, <2>1, <2>2 DEF Branches, Block
<1> QED
  BY <1>2, <1>3, <1>4

\* Every step keeps the invariant.
LEMMA StepDerives ==
    ASSUME TreeInv, DerivationInv, [Next]_vars
    PROVE  DerivationInv'
<1>1. TypeOK /\ TreeInv' /\ Grows
  BY StepKeepsTree, StepGrows DEF TreeInv
<1>2. CASE Call
  BY <1>1, <1>2, CallDerives
<1>3. CASE Match
  BY <1>1, <1>3, MatchDerives
<1>4. CASE EnterRule
  BY <1>1, <1>4, EnterRuleDerives
<1>5. CASE Choose
  <2>1. At("alt") /\ UNCHANGED <<input, nodes, pos>>
    BY <1>5 DEF Choose
  <2>2. stack # <<>> /\ Top.rest # <<>>
    BY <2>1 DEF At
  <2>3. PICK n \in DOMAIN Expected.alts : Continue(Expected.alts[n] \o Tail(Top.rest))
    BY <1>5 DEF Choose
  <2>4. Expected.alts[n] \in Branches(Expected)
    BY <1>1, <2>1, DecisionBranches
  <2> QED
    BY <1>1, <2>1, <2>2, <2>3, <2>4, DecisionDerives
<1>6. CASE EnterOptional
  <2>1. At("opt") /\ UNCHANGED <<input, nodes, pos>>
    BY <1>6 DEF EnterOptional
  <2>2. stack # <<>> /\ Top.rest # <<>> /\ Tail(Top.rest) \in Seq(Items)
    BY <1>1, <2>1, ExpectedType DEF At
  <2>3. <<>> \o Tail(Top.rest) = Tail(Top.rest)
    BY <2>2, ConcatEmptySeq
  <2>4. \E e \in Branches(Expected) : Continue(e \o Tail(Top.rest))
    <3>1. CASE Continue(Block \o Tail(Top.rest))
      BY <1>1, <2>1, <3>1, DecisionBranches
    <3>2. CASE Continue(Tail(Top.rest))
      BY <1>1, <2>1, <2>3, <3>2, DecisionBranches
    <3> QED
      BY <1>6, <3>1, <3>2 DEF EnterOptional
  <2> QED
    BY <1>1, <2>1, <2>2, <2>4, DecisionDerives
<1>7. CASE Iterate
  <2>1. At("star") /\ UNCHANGED <<input, nodes, pos>>
    BY <1>7 DEF Iterate
  <2>2. /\ stack # <<>> /\ Top.rest # <<>> /\ Tail(Top.rest) \in Seq(Items)
        /\ Expected \in Items /\ Block \in Seq(Items) /\ Top.rest \in Seq(Items)
    BY <1>1, <2>1, ExpectedType, TopType DEF At
  <2>3. <<>> \o Tail(Top.rest) = Tail(Top.rest)
    BY <2>2, ConcatEmptySeq
  <2>4. Append(Block, Expected) \o Tail(Top.rest) = Block \o Top.rest
    <3>1. Top.rest = <<Expected>> \o Tail(Top.rest)
      BY <2>2, FirstAndRest DEF Expected
    <3>2. Block \o (<<Expected>> \o Tail(Top.rest)) = Append(Block, Expected) \o Tail(Top.rest)
      BY <2>2, MoveFirst
    <3> QED
      BY <3>1, <3>2
  <2>5. \E e \in Branches(Expected) : Continue(e \o Tail(Top.rest))
    <3>1. CASE Continue(Block \o Top.rest)
      BY <1>1, <2>1, <2>4, <3>1, DecisionBranches
    <3>2. CASE Continue(Tail(Top.rest))
      BY <1>1, <2>1, <2>3, <3>2, DecisionBranches
    <3> QED
      BY <1>7, <3>1, <3>2 DEF Iterate
  <2> QED
    BY <1>1, <2>1, <2>2, <2>5, DecisionDerives
<1>8. CASE ExitRule
  BY <1>1, <1>8, ExitDerives
<1>9. CASE SyntaxError \/ Keep \/ UNCHANGED vars
  BY <1>9, StopDerives DEF SyntaxError, Keep, vars
<1> QED
  BY <1>2, <1>3, <1>4, <1>5, <1>6, <1>7, <1>8, <1>9 DEF Next, Step

-----------------------------------------------------------------------------
\* The start rule's node stays the only root, and ExitRule ends it last.
LEMMA StepKeepsRoot ==
    ASSUME TreeInv, RootInv, [Next]_vars
    PROVE  RootInv'
<1>1. TypeOK /\ Grows
  BY StepGrows DEF TreeInv
<1>2. CASE Call
  <2>1. /\ nodes = <<>> /\ pos = 1 /\ stack = <<>> /\ ctx = 0 /\ status' = "parsing"
        /\ nodes' = Append(nodes, Node(StartRule, ctx, pos))
    BY <1>2 DEF TreeInv, Bookkeeping, ContextFollowsCalls, Call, Enter
  <2>2. nodes' = <<Node(StartRule, 0, 1)>>
    BY <2>1
  <2>3. DOMAIN nodes' = {1} /\ nodes'[1] = Node(StartRule, 0, 1)
    BY <2>2
  <2> QED
    BY <2>1, <2>3 DEF RootInv, Node
<1>3. CASE EnterRule
  <2>1. /\ stack # <<>> /\ status = "parsing" /\ status' = "parsing"
        /\ Enter(Expected.sym, Append(Callers, Frame(Top.node, Tail(Top.rest))))
        /\ Expected.sym \in DOMAIN Grammar
    BY <1>1, <1>3, EnterCallers DEF EnterRule, At
  <2>2. ctx # 0 /\ Len(nodes) + 1 # 1
    BY <1>1, <2>1, TopType, NodeTypes DEF TreeInv, ContextFollowsCalls
  <2>3. /\ \A n \in DOMAIN nodes : n \in DOMAIN nodes' /\ nodes'[n] = nodes[n]
        /\ nodes'[Len(nodes) + 1].parent = ctx
        /\ \A n \in DOMAIN nodes' : n \in DOMAIN nodes \/ n = Len(nodes) + 1
    <3>1. PICK rule \in DOMAIN Grammar : \E callers : Enter(rule, callers)
      BY <2>1
    <3>2. PICK callers : Enter(rule, callers)
      BY <3>1
    <3>3. /\ \A n \in DOMAIN nodes : n \in DOMAIN nodes' /\ nodes'[n] = nodes[n]
          /\ nodes'[Len(nodes) + 1] = Node(rule, ctx, pos)
          /\ \A n \in DOMAIN nodes' : n \in DOMAIN nodes \/ n = Len(nodes) + 1
      BY <1>1, <3>2, EnterNodes
    <3> QED
      BY <3>3 DEF Node
  <2> QED
    BY <2>1, <2>2, <2>3 DEF RootInv
<1>4. CASE ExitRule
  <2>1. /\ status = "parsing" /\ stack # <<>> /\ UNCHANGED pos
        /\ status' = IF Len(stack) = 1 THEN "accepted" ELSE "parsing"
    BY <1>4 DEF ExitRule
  <2>2. /\ DOMAIN nodes' = DOMAIN nodes
        /\ nodes'[ctx].stop = pos - 1
        /\ \A n \in DOMAIN nodes :
              /\ nodes'[n].rule = nodes[n].rule
              /\ nodes'[n].parent = nodes[n].parent
              /\ nodes'[n].start = nodes[n].start
    BY <1>4, ExitNodes
  <2>3. Len(stack) = 1 => ctx = 1
    <3> SUFFICES ASSUME Len(stack) = 1 PROVE ctx = 1
      OBVIOUS
    <3>1. 1 \in DOMAIN stack /\ ctx = stack[1].node /\ stack[1].node \in DOMAIN nodes
      BY <1>1, <2>1, TopType, NodeTypes DEF TreeInv, ContextFollowsCalls, Top
    <3>2. nodes[stack[1].node].parent = 0
      BY <3>1 DEF TreeInv, ContextFollowsCalls
    <3> QED
      BY <3>1, <3>2 DEF RootInv
  <2>4. status' = "accepted" => nodes'[1].stop = pos' - 1
    BY <2>1, <2>2, <2>3
  <2> QED
    BY <2>1, <2>2, <2>4 DEF RootInv
<1>5. CASE UNCHANGED nodes /\ status' # "accepted" /\ status # "ready"
  BY <1>5 DEF RootInv
<1>6. CASE Match \/ Choose \/ EnterOptional \/ Iterate \/ SyntaxError
  <2>1. UNCHANGED nodes /\ status' # "accepted" /\ status # "ready"
    BY <1>6 DEF Match, Choose, EnterOptional, Iterate, SyntaxError, At
  <2> QED
    BY <1>5, <2>1
<1>7. CASE Keep \/ UNCHANGED vars
  BY <1>7 DEF Keep, vars, RootInv
<1> QED
  BY <1>2, <1>3, <1>4, <1>6, <1>7 DEF Next, Step

-----------------------------------------------------------------------------
\* The tree of the rule functions that have returned is a derivation already
\* while the parse goes on.
THEOREM DerivationInvariant == Spec => []DerivationInv
<1>1. Init => DerivationInv
  BY DEF Init, DerivationInv
<1>2. TreeInv /\ DerivationInv /\ [Next]_vars => DerivationInv'
  BY StepDerives
<1> QED
  BY <1>1, <1>2, TreeInvariant, PTL DEF Spec

(***************************************************************************)
(* The parser is sound: if the start rule reads to the end of the stream,  *)
(* as tsql_file does, the tree of an accepted parse is a derivation of the *)
(* whole token stream, for every grammar, stream and prediction.           *)
(***************************************************************************)
THEOREM DerivationCorrect ==
    ASSUME ReadsWholeStream
    PROVE  Spec => []AcceptedIsDerivation
<1>1. Init => RootInv
  BY DEF Init, RootInv
<1>2. TreeInv /\ RootInv /\ [Next]_vars => RootInv'
  BY StepKeepsRoot
<1>3. TreeInv /\ DerivationInv /\ RootInv /\ AcceptedIsComplete => AcceptedIsDerivation
  <2> SUFFICES ASSUME TreeInv, DerivationInv, RootInv, AcceptedIsComplete, status = "accepted"
               PROVE  RootSpansStream /\ \A n \in DOMAIN nodes : Derived(n)
    BY DEF AcceptedIsDerivation
  <2>1. stack = <<>> /\ pos = Len(input) + 1 /\ Len(input) \in Nat
    BY PosType DEF AcceptedIsComplete, TreeInv
  <2>2. RootSpansStream
    BY <2>1 DEF RootInv, RootSpansStream
  <2>3. \A n \in DOMAIN nodes : Closed(n)
    BY <2>1 DEF Closed, Open
  <2> QED
    BY <2>2, <2>3 DEF DerivationInv
<1> QED
  BY <1>1, <1>2, <1>3, TreeInvariant, DerivationInvariant, AcceptedCorrect, PTL DEF Spec
=============================================================================
