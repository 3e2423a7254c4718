-------------------------- MODULE StatementProofs ---------------------------
(***************************************************************************)
(* Where a statement ends, for every token stream: a GO behind a semicolon *)
(* for every prediction, a semicolon and an ELSE for a prediction that is  *)
(* exact; and an exact prediction accepts a stream if and only if the      *)
(* grammar derives it.                                                     *)
(***************************************************************************)
EXTENDS Statements, PairingProofs

-----------------------------------------------------------------------------
(***************************************************************************)
(* The parse as a leftmost derivation.  f[d] is what the functions 1 .. d  *)
(* have still to match, innermost first; a step replaces the first item of *)
(* what all of them have to match, or consumes it.                         *)
(***************************************************************************)
Agenda(f) ==
    /\ f \in [0 .. Len(stack) -> Seq(Items)]
    /\ f[0] = <<>>
    /\ \A d \in 1 .. Len(stack) : f[d] = stack[d].rest \o f[d - 1]

\* Everything that is left, and what is left behind the expected item.
Left(f) == f[Len(stack)]
Behind(f) == Tail(Top.rest) \o f[Len(stack) - 1]

\* Joining sequences of items is associative.
LEMMA ItemsAssociative == \A a, b, c \in Seq(Items) : (a \o b) \o c = a \o (b \o c)
<1> SUFFICES ASSUME NEW a \in Seq(Items), NEW b \in Seq(Items), NEW c \in Seq(Items)
             PROVE  (a \o b) \o c = a \o (b \o c)
  OBVIOUS
<1>1. \A S : \A u, v, w \in Seq(S) : (u \o v) \o w = u \o (v \o w)
  BY ConcatAssociative
<1> QED
  BY <1>1

LEMMA AgendaTop ==
    ASSUME TypeOK, NEW f, Agenda(f), stack # <<>>
    PROVE  /\ Len(stack) \in Nat \ {0}
           /\ \A d \in 0 .. Len(stack) : f[d] \in Seq(Items)
           /\ Left(f) = Top.rest \o f[Len(stack) - 1]
           /\ Top.rest = <<>> => Left(f) = f[Len(stack) - 1]
<1>1. Len(stack) \in Nat \ {0} /\ Top.rest \in Seq(Items)
  BY TopType
<1>2. \A d \in 0 .. Len(stack) : f[d] \in Seq(Items)
  BY DEF Agenda
<1>3. Left(f) = Top.rest \o f[Len(stack) - 1]
  <2>1. Len(stack) \in 1 .. Len(stack)
    BY <1>1
  <2> QED
    BY <2>1 DEF Agenda, Left, Top
<1>4. Top.rest = <<>> => Left(f) = f[Len(stack) - 1]
  <2>1. f[Len(stack) - 1] \in Seq(Items)
    BY <1>1, <1>2
  <2> QED
    BY <1>3, <2>1, ConcatEmptySeq
<1> QED
  BY <1>1, <1>2, <1>3, <1>4

\* The expected item is the first of what is left.
LEMMA AgendaFirst ==
    ASSUME TypeOK, NEW f, Agenda(f), stack # <<>>, Top.rest # <<>>
    PROVE  /\ Expected \in Items /\ Expected = Top.rest[1]
           /\ Tail(Top.rest) \in Seq(Items)
           /\ Behind(f) \in Seq(Items)
           /\ Left(f) = <<Expected>> \o Behind(f)
<1>1. /\ Top.rest \in Seq(Items) /\ Expected = Head(Top.rest)
  BY TopType DEF Expected
<1>2. /\ Expected \in Items /\ Tail(Top.rest) \in Seq(Items)
      /\ Top.rest = <<Expected>> \o Tail(Top.rest)
  BY <1>1, FirstAndRest
<1>3. Len(stack) - 1 \in 0 .. Len(stack)
  BY AgendaTop
<1>4. f[Len(stack) - 1] \in Seq(Items) /\ Left(f) = Top.rest \o f[Len(stack) - 1]
  BY <1>3, AgendaTop
<1>5. <<Expected>> \in Seq(Items)
  BY <1>2
<1>6. (<<Expected>> \o Tail(Top.rest)) \o f[Len(stack) - 1] = <<Expected>> \o Behind(f)
  BY <1>2, <1>4, <1>5, ItemsAssociative DEF Behind
<1>7. Expected = Top.rest[1]
  BY <1>1, TailItems
<1>8. Behind(f) \in Seq(Items)
  BY <1>2, <1>4, ConcatProperties DEF Behind
<1>9. Left(f) = <<Expected>> \o Behind(f)
  BY <1>2, <1>4, <1>6
<1> QED
  BY <1>2, <1>7, <1>8, <1>9

\* The active function goes on with something else.
LEMMA AgendaContinue ==
    ASSUME TypeOK, NEW f, Agenda(f), stack # <<>>, NEW rest \in Seq(Items), Continue(rest)
    PROVE  \E g : /\ Agenda(g)'
                  /\ Len(stack') = Len(stack)
                  /\ \A d \in 0 .. Len(stack) - 1 : g[d] = f[d]
                  /\ g[Len(stack)] = rest \o f[Len(stack) - 1]
<1> DEFINE L == Len(stack)
<1>1. /\ L \in Nat \ {0} /\ Len(stack') = L /\ stack'[L].rest = rest
      /\ \A d \in 1 .. L : d # L => stack'[d] = stack[d]
  BY ContinueTop
<1>2. /\ f \in [0 .. L -> Seq(Items)] /\ f[0] = <<>>
      /\ \A d \in 1 .. L : f[d] = stack[d].rest \o f[d - 1]
  BY DEF Agenda
<1>3. rest \o f[L - 1] \in Seq(Items)
  <2>1. L - 1 \in 0 .. L
    BY <1>1
  <2>2. f[L - 1] \in Seq(Items)
    BY <1>2, <2>1
  <2> QED
    BY <2>2, ConcatProperties
<1>0. PICK g : g = [f EXCEPT ![L] = rest \o f[L - 1]]
  OBVIOUS
<1>4. /\ g \in [0 .. L -> Seq(Items)]
      /\ \A d \in 0 .. L - 1 : g[d] = f[d]
      /\ g[L] = rest \o f[L - 1]
  BY <1>0, <1>1, <1>2, <1>3
<1>5. \A d \in 1 .. L : g[d] = stack'[d].rest \o g[d - 1]
  <2> SUFFICES ASSUME NEW d \in 1 .. L PROVE g[d] = stack'[d].rest \o g[d - 1]
    OBVIOUS
  <2>1. d - 1 \in 0 .. L - 1
    BY <1>1
  <2>2. CASE d = L
    BY <1>1, <1>4, <2>1, <2>2
  <2>3. CASE d # L
    <3>1. d \in 0 .. L - 1
      BY <1>1, <2>3
    <3> QED
      BY <1>1, <1>2, <1>4, <2>1, <2>3, <3>1
  <2> QED
    BY <2>2, <2>3
<1>6. g[0] = <<>>
  BY <1>1, <1>2, <1>4
<1>7. Agenda(g)'
  BY <1>1, <1>4, <1>5, <1>6 DEF Agenda
<1> QED
  BY <1>1, <1>4, <1>7

LEMMA AgendaMatch ==
    ASSUME TypeOK, NEW f, Agenda(f), Match
    PROVE  /\ stack # <<>> /\ Top.rest # <<>> /\ Expected.k = "tok"
           /\ pos <= Len(input) /\ input[pos] \in Expected.set
           /\ \E g : /\ Agenda(g)'
                     /\ Len(stack') = Len(stack)
                     /\ \A d \in 0 .. Len(stack) - 1 : g[d] = f[d]
                     /\ g[Len(stack)] = Behind(f)
<1>1. /\ stack # <<>> /\ Top.rest # <<>> /\ Top.rest \in Seq(Items)
      /\ Tail(Top.rest) \in Seq(Items) /\ Continue(Tail(Top.rest))
  BY MatchStep
<1>2. Expected.k = "tok" /\ pos <= Len(input) /\ input[pos] \in Expected.set
  BY DEF Match, At
<1> QED
  BY <1>1, <1>2, AgendaContinue DEF Behind

LEMMA AgendaExit ==
    ASSUME TypeOK, NEW f, Agenda(f), ExitRule
    PROVE  /\ stack # <<>> /\ Top.rest = <<>>
           /\ \E g : /\ Agenda(g)'
                     /\ Len(stack') = Len(stack) - 1
                     /\ \A d \in 0 .. Len(stack) - 1 : g[d] = f[d]
                     /\ g[Len(stack) - 1] = Left(f)
<1> DEFINE L == Len(stack)
<1>1. stack # <<>> /\ Top.rest = <<>>
  BY DEF ExitRule
<1>2. Len(stack') = L - 1 /\ \A d \in 1 .. L - 1 : stack'[d] = stack[d]
  BY ExitFrames
<1>3. L \in Nat \ {0} /\ Left(f) = f[L - 1] /\ \A d \in 0 .. L : f[d] \in Seq(Items)
  BY <1>1, AgendaTop
<1>4. f[0] = <<>> /\ \A d \in 1 .. L : f[d] = stack[d].rest \o f[d - 1]
  BY DEF Agenda
<1>0. PICK g : g = [d \in 0 .. L - 1 |-> f[d]]
  OBVIOUS
<1>5. g \in [0 .. L - 1 -> Seq(Items)] /\ \A d \in 0 .. L - 1 : g[d] = f[d]
  BY <1>0, <1>3
<1>6. ASSUME NEW d \in 1 .. L - 1 PROVE g[d] = stack'[d].rest \o g[d - 1]
  <2>1. d \in 1 .. L /\ d \in 0 .. L - 1 /\ d - 1 \in 0 .. L - 1
    BY <1>3
  <2> QED
    BY <1>2, <1>4, <1>5, <2>1
<1>8. 0 \in 0 .. L - 1 /\ L - 1 \in 0 .. L - 1
  BY <1>3
<1>9. g[0] = <<>> /\ g[L - 1] = Left(f)
  BY <1>3, <1>4, <1>5, <1>8
<1>7. Agenda(g)' /\ g[L - 1] = Left(f)
  BY <1>2, <1>5, <1>6, <1>9 DEF Agenda
<1> QED
  BY <1>1, <1>2, <1>5, <1>7

LEMMA AgendaEnter ==
    ASSUME TypeOK, NEW f, Agenda(f), EnterRule
    PROVE  /\ stack # <<>> /\ Top.rest # <<>> /\ Expected.k = "rule"
           /\ Expected.sym \in DOMAIN Grammar
           /\ \E g : /\ Agenda(g)'
                     /\ Len(stack') = Len(stack) + 1
                     /\ \A d \in 0 .. Len(stack) - 1 : g[d] = f[d]
                     /\ g[Len(stack)] = Behind(f)
                     /\ g[Len(stack) + 1] = Grammar[Expected.sym] \o Behind(f)
<1> DEFINE L == Len(stack)
           new == Grammar[Expected.sym] \o Behind(f)
<1>1. /\ stack # <<>> /\ Top.rest # <<>> /\ Expected.sym \in DOMAIN Grammar
      /\ Len(stack') = L + 1
      /\ \A d \in 1 .. L - 1 : stack'[d] = stack[d]
      /\ stack'[L].rest = Tail(Top.rest)
      /\ stack'[L + 1].rest = Grammar[Expected.sym]
  BY EnterStep
<1>2. Expected.k = "rule"
  BY DEF EnterRule, At
<1>3. L \in Nat \ {0} /\ \A d \in 0 .. L : f[d] \in Seq(Items)
  BY <1>1, AgendaTop
<1>4. f[0] = <<>> /\ \A d \in 1 .. L : f[d] = stack[d].rest \o f[d - 1]
  BY DEF Agenda
<1>5. Behind(f) \in Seq(Items) /\ Behind(f) = Tail(Top.rest) \o f[L - 1]
  BY <1>1, AgendaFirst DEF Behind
<1>6. new \in Seq(Items)
  BY <1>1, <1>5, GrammarAssumption, ConcatProperties
<1>0. PICK g : g = [d \in 0 .. L + 1 |->
                       IF d = L + 1 THEN new ELSE IF d = L THEN Behind(f) ELSE f[d]]
  OBVIOUS
<1>7. /\ g \in [0 .. L + 1 -> Seq(Items)]
      /\ \A d \in 0 .. L - 1 : g[d] = f[d]
      /\ g[L] = Behind(f) /\ g[L + 1] = new
  <2> HIDE DEF new
  <2>1. L \in Nat /\ L # L + 1 /\ L \in 0 .. L + 1 /\ L + 1 \in 0 .. L + 1
    BY <1>3
  <2>2. ASSUME NEW d \in 0 .. L - 1 PROVE d # L /\ d # L + 1 /\ d \in 0 .. L + 1
    BY <2>1
  <2>3. ASSUME NEW d \in 0 .. L + 1, d # L + 1, d # L PROVE f[d] \in Seq(Items)
    <3>1. d \in 0 .. L
      BY <2>1, <2>3
    <3> QED
      BY <1>3, <3>1
  <2>4. g \in [0 .. L + 1 -> Seq(Items)]
    BY <1>0, <1>5, <1>6, <2>3
  <2> QED
    BY <1>0, <2>1, <2>2, <2>4
<1>8. ASSUME NEW d \in 1 .. L + 1 PROVE g[d] = stack'[d].rest \o g[d - 1]
  <2>1. CASE d = L + 1
    <3>1. d - 1 = L
      BY <1>3, <2>1
    <3> QED
      BY <1>1, <1>7, <2>1, <3>1
  <2>2. CASE d = L
    <3>1. d - 1 \in 0 .. L - 1
      BY <1>3, <2>2
    <3> QED
      BY <1>1, <1>5, <1>7, <2>2, <3>1
  <2>3. CASE d \in 1 .. L - 1
    <3>1. d \in 0 .. L - 1 /\ d - 1 \in 0 .. L - 1 /\ d \in 1 .. L
      BY <1>3, <2>3
    <3> QED
      BY <1>1, <1>4, <1>7, <2>3, <3>1
  <2>4. L \in Nat
    BY <1>3
  <2>5. d = L + 1 \/ d = L \/ d \in 1 .. L - 1
    BY <2>4
  <2> QED
    BY <2>1, <2>2, <2>3, <2>5
<1>9. g[0] = <<>>
  BY SMTT(60), <1>3, <1>4, <1>7
<1>10. Agenda(g)'
  BY <1>1, <1>7, <1>8, <1>9 DEF Agenda
<1> QED
  BY <1>1, <1>2, <1>7, <1>10

LEMMA AgendaCall ==
    ASSUME TreeInv, NEW f, Agenda(f), Call
    PROVE  \E g : /\ Agenda(g)'
                  /\ Len(stack') = 1
                  /\ g[0] = <<>> /\ g[1] = Grammar[StartRule]
<1>0. PICK g : g = [d \in 0 .. 1 |-> IF d = 0 THEN <<>> ELSE Grammar[StartRule]]
  OBVIOUS
<1>1. Len(stack') = 1 /\ stack'[1].rest = Grammar[StartRule]
  BY CallStep
<1>2. Grammar[StartRule] \in Seq(Items) /\ <<>> \in Seq(Items)
  BY GrammarAssumption
<1>3. g \in [0 .. 1 -> Seq(Items)] /\ g[0] = <<>> /\ g[1] = Grammar[StartRule]
  BY <1>0, <1>2
<1>4. g[1] = Grammar[StartRule] \o g[0]
  BY <1>2, <1>3, ConcatEmptySeq
<1>5. \A d \in 1 .. 1 : g[d] = stack'[d].rest \o g[d - 1]
  BY <1>1, <1>3, <1>4
<1>6. Agenda(g)'
  BY <1>1, <1>3, <1>5 DEF Agenda
<1> QED
  BY <1>1, <1>3, <1>6

-----------------------------------------------------------------------------
(***************************************************************************)
(* Decisions.                                                              *)
(***************************************************************************)
\* What an item is replaced by is a sequence of items.
LEMMA ExpansionTypes ==
    ASSUME NEW it \in Items
    PROVE  /\ it.k \in Kinds
           /\ Expansions(it) \subseteq Seq(Items)
           /\ it.k = "rule" => it.sym \in DOMAIN Grammar /\ Expansions(it) = {Grammar[it.sym]}
           /\ it.k = "tok" => Expansions(it) = {}
<1>1. /\ it.k \in Kinds /\ it.alts \in Seq(Seq(Items))
      /\ it.k \in {"opt", "star"} => Len(it.alts) = 1
  BY ItemsAssumption
<1>2. \A n \in DOMAIN it.alts : it.alts[n] \in Seq(Items)
  BY <1>1, ElementOfSeq, LenProperties
<1>3. it.k \in {"opt", "star"} => 1 \in DOMAIN it.alts
  BY <1>1, LenProperties
<1>4. CASE it.k = "tok"
  BY <1>1, <1>4 DEF Expansions, Kinds
<1>5. CASE it.k = "rule"
  BY <1>1, <1>5, GrammarAssumption DEF Expansions, Kinds
<1>6. CASE it.k = "alt"
  BY <1>1, <1>2, <1>6 DEF Expansions, Kinds
<1>7. CASE it.k = "opt"
  BY <1>1, <1>2, <1>3, <1>7 DEF Expansions, Kinds
<1>8. CASE it.k = "star"
  <2>1. Append(it.alts[1], it) \in Seq(Items)
    BY <1>2, <1>3, <1>8, AppendProperties
  <2> QED
    BY <1>1, <1>8, <2>1 DEF Expansions, Kinds
<1> QED
  BY <1>1, <1>4, <1>5, <1>6, <1>7, <1>8 DEF Kinds

\* What the parser asks the prediction, and what it does with the answer.
Answer(e) ==
    /\ Expected.k = "alt" => Fits(e)
    /\ Expected.k = "opt" => e = IF Fits(Block) THEN Block ELSE <<>>
    /\ Expected.k = "star" =>
          e = IF Fits(Append(Block, Expected)) THEN Append(Block, Expected) ELSE <<>>

LEMMA Decision ==
    ASSUME TypeOK, Choose \/ EnterOptional \/ Iterate
    PROVE  /\ stack # <<>> /\ Top.rest # <<>> /\ Tail(Top.rest) \in Seq(Items)
           /\ Expected \in Items /\ Expected.k \in {"alt", "opt", "star"}
           /\ \E e \in Seq(Items) :
                 /\ e \in Expansions(Expected) /\ Answer(e)
                 /\ Continue(e \o Tail(Top.rest))
<1> DEFINE rest == Tail(Top.rest)
<1>0. ASSUME NEW kind, At(kind)
      PROVE  /\ stack # <<>> /\ Top.rest # <<>> /\ rest \in Seq(Items)
             /\ Expected \in Items /\ Expected.k = kind
             /\ \A n \in DOMAIN Expected.alts : Expected.alts[n] \in Seq(Items)
             /\ kind \in {"opt", "star"} => Block \in Seq(Items)
  BY <1>0, ExpectedType DEF At
<1>1. <<>> \in Seq(Items) /\ <<>> \o rest = rest
  <2>1. rest \in Seq(Items)
    BY <1>0 DEF Choose, EnterOptional, Iterate
  <2> QED
    BY <2>1, ConcatEmptySeq
<1>2. CASE Choose
  <2>1. At("alt")
    BY <1>2 DEF Choose
  <2>2. PICK n \in DOMAIN Expected.alts :
           Fits(Expected.alts[n]) /\ Continue(Expected.alts[n] \o rest)
    BY <1>2 DEF Choose
  <2>3. Expected.k = "alt"
    BY <1>0, <2>1
  <2>4. Expected.alts[n] \in Expansions(Expected) /\ Answer(Expected.alts[n])
    BY <2>2, <2>3 DEF Expansions, Answer
  <2> QED
    BY <1>0, <2>1, <2>2, <2>3, <2>4
<1>3. CASE EnterOptional
  <2>1. At("opt") /\ IF Fits(Block) THEN Continue(Block \o rest) ELSE Continue(rest)
    BY <1>3 DEF EnterOptional
  <2>2. Expected.k = "opt" /\ Block \in Seq(Items)
    BY <1>0, <2>1
  <2>3. \A e \in {<<>>, Block} : e \in Expansions(Expected)
    BY <2>2 DEF Expansions, Block
  <2>4. CASE Fits(Block)
    <3>1. Answer(Block) /\ Continue(Block \o rest)
      BY <2>1, <2>2, <2>4 DEF Answer
    <3> QED
      BY <1>0, <2>1, <2>2, <2>3, <3>1
  <2>5. CASE ~Fits(Block)
    <3>1. Answer(<<>>) /\ Continue(<<>> \o rest)
      BY <1>1, <2>1, <2>2, <2>5 DEF Answer
    <3> QED
      BY <1>0, <1>1, <2>1, <2>3, <3>1
  <2> QED
    BY <2>4, <2>5
<1>4. CASE Iterate
  <2> DEFINE more == Append(Block, Expected)
  <2>1. At("star") /\ IF Fits(more) THEN Continue(Block \o Top.rest) ELSE Continue(rest)
    BY <1>4 DEF Iterate
  <2>2. Expected.k = "star" /\ Block \in Seq(Items) /\ Expected \in Items
    BY <1>0, <2>1
  <2>3. \A e \in {<<>>, more} : e \in Expansions(Expected)
    BY <2>2 DEF Expansions, Block
  <2>4. more \in Seq(Items) /\ more \o rest = Block \o Top.rest
    <3>1. Top.rest \in Seq(Items) /\ Top.rest # <<>> /\ Expected = Head(Top.rest)
      BY <1>0, <2>1, TopType DEF Expected
    <3>2. Top.rest = <<Expected>> \o rest
      BY <3>1, FirstAndRest
    <3>3. rest \in Seq(Items)
      BY <1>0, <2>1
    <3> HIDE DEF rest
    <3> QED
      BY <2>2, <3>2, <3>3, MoveFirst
  <2>5. CASE Fits(more)
    <3>1. Answer(more) /\ Continue(more \o rest)
      BY <2>1, <2>2, <2>4, <2>5 DEF Answer
    <3> QED
      BY <1>0, <2>1, <2>3, <2>4, <3>1
  <2>6. CASE ~Fits(more)
    <3>1. Answer(<<>>) /\ Continue(<<>> \o rest)
      BY <1>1, <2>1, <2>2, <2>6 DEF Answer
    <3> QED
      BY <1>0, <1>1, <2>1, <2>3, <3>1
  <2> QED
    BY <2>5, <2>6
<1> QED
  BY <1>2, <1>3, <1>4

LEMMA AgendaDecide ==
    ASSUME TypeOK, NEW f, Agenda(f), stack # <<>>, Top.rest # <<>>,
           NEW e \in Seq(Items), Continue(e \o Tail(Top.rest))
    PROVE  \E g : /\ Agenda(g)'
                  /\ Len(stack') = Len(stack)
                  /\ \A d \in 0 .. Len(stack) - 1 : g[d] = f[d]
                  /\ g[Len(stack)] = e \o Behind(f)
<1>1. Tail(Top.rest) \in Seq(Items)
  BY AgendaFirst
<1>2. e \o Tail(Top.rest) \in Seq(Items)
  BY <1>1, ConcatProperties
<1>3. PICK g : /\ Agenda(g)'
               /\ Len(stack') = Len(stack)
               /\ \A d \in 0 .. Len(stack) - 1 : g[d] = f[d]
               /\ g[Len(stack)] = (e \o Tail(Top.rest)) \o f[Len(stack) - 1]
  BY <1>2, AgendaContinue
<1>4. f[Len(stack) - 1] \in Seq(Items)
  <2>1. Len(stack) - 1 \in 0 .. Len(stack)
    BY AgendaTop
  <2> QED
    BY <2>1, AgendaTop
<1>6. (e \o Tail(Top.rest)) \o f[Len(stack) - 1] = e \o Behind(f)
  BY <1>1, <1>4, ItemsAssociative DEF Behind
<1> QED
  BY <1>3, <1>6

(***************************************************************************)
(* What an exact prediction is asked is whether the tokens match e and     *)
(* everything behind the expected item.                                    *)
(***************************************************************************)
LEMMA FitsMatches ==
    ASSUME ExactPrediction, TypeOK, table = Lookahead(input), NEW f, Agenda(f),
           stack # <<>>, Top.rest # <<>>, NEW e \in Seq(Items)
    PROVE  Fits(e) <=> Matches(table, e \o Behind(f), pos)
<1>0. \A a, b, c \in Seq(Items) : (a \o b) \o c = a \o (b \o c)
  BY ItemsAssociative
<1> DEFINE L == Len(stack)
           rests == [d \in 1 .. L |->
                        IF d = 1 THEN e \o Tail(Top.rest) ELSE stack[L + 1 - d].rest]
           g == [i \in 0 .. L |-> IF i = 0 THEN e \o Behind(f) ELSE f[L - i]]
<1>1. /\ L \in Nat \ {0} /\ \A d \in 0 .. L : f[d] \in Seq(Items)
      /\ f[0] = <<>> /\ \A d \in 1 .. L : f[d] = stack[d].rest \o f[d - 1]
  BY AgendaTop DEF Agenda
<1>2. Tail(Top.rest) \in Seq(Items) /\ Behind(f) \in Seq(Items)
  BY AgendaFirst
<1>3. e \o Tail(Top.rest) \in Seq(Items) /\ e \o Behind(f) \in Seq(Items)
  BY <1>2, ConcatProperties
<1>4. \A d \in 1 .. L : stack[d].rest \in Seq(Items)
  BY FrameTypes
<1>5. rests \in Seq(Seq(Items)) /\ Len(rests) = L
  <2>1. \A d \in 1 .. L : L + 1 - d \in 1 .. L
    BY <1>1
  <2>2. rests \in [1 .. L -> Seq(Items)]
    BY <1>3, <1>4, <2>1
  <2> HIDE DEF rests
  <2> QED
    BY <1>1, <2>2, SeqDef, LenProperties
<1>6. g \in [0 .. L -> Seq(Items)]
  <2>1. \A i \in 0 .. L : i = 0 \/ L - i \in 0 .. L
    BY <1>1
  <2> QED
    BY <1>1, <1>3, <2>1
<1>7. Concatenates(rests, g)
  <2>1. g[L] = <<>>
    BY <1>1
  <2>2. ASSUME NEW i \in 1 .. L PROVE g[i - 1] = rests[i] \o g[i]
    <3>1. CASE i = 1
      <4>1. 0 \in 0 .. L /\ 1 \in 0 .. L /\ 1 \in 1 .. L /\ L - 1 \in 0 .. L
        BY <1>1
      <4>2. g[0] = e \o Behind(f)
        BY <4>1
      <4>3. rests[1] = e \o Tail(Top.rest)
        BY <4>1
      <4>4. g[1] = f[L - 1]
        BY <4>1
      <4>5. (e \o Tail(Top.rest)) \o f[L - 1] = e \o Behind(f)
        <5>1. f[L - 1] \in Seq(Items)
          BY <1>1, <4>1
        <5> HIDE DEF g, rests
        <5> QED
          BY <1>0, <1>2, <5>1 DEF Behind
      <4>6. i - 1 = 0
        BY <3>1
      <4> HIDE DEF g, rests
      <4> QED
        BY <3>1, <4>2, <4>3, <4>4, <4>5, <4>6
    <3>2. CASE i # 1
      <4>1. i - 1 \in 0 .. L /\ i - 1 # 0 /\ i \in 0 .. L /\ i # 0 /\ L + 1 - i \in 1 .. L
        BY <1>1, <3>2
      <4>2. g[i - 1] = f[L - (i - 1)] /\ g[i] = f[L - i] /\ rests[i] = stack[L + 1 - i].rest
        BY <3>2, <4>1
      <4>3. L - (i - 1) = L + 1 - i /\ (L + 1 - i) - 1 = L - i
        BY <1>1, <4>1
      <4>4. f[L + 1 - i] = stack[L + 1 - i].rest \o f[L - i]
        BY <1>1, <4>1, <4>3
      <4> HIDE DEF g, rests
      <4> QED
        BY <4>2, <4>3, <4>4
    <3> QED
      BY <3>1, <3>2
  <2>3. DOMAIN g = 0 .. L
    OBVIOUS
  <2> HIDE DEF g, rests
  <2> QED
    BY <1>5, <2>1, <2>2, <2>3 DEF Concatenates
<1>8. g[0] = e \o Behind(f)
  BY <1>1
<1>9. Viable(table, rests, pos) <=> Matches(table, g[0], pos)
  <2>1. input \in Inputs /\ pos \in 1 .. Len(input) + 1
    BY DEF TypeOK
  <2>2. ExactAt(input, table, pos, Seq(Items), Seq(Seq(Items)))
    BY <2>1 DEF ExactPrediction
  <2> HIDE DEF g, rests
  <2>3. g \in [0 .. Len(rests) -> Seq(Items)]
    BY <1>5, <1>6
  <2> QED
    BY <1>5, <1>7, <2>2, <2>3 DEF ExactAt
<1> QED
  BY <1>8, <1>9 DEF Fits

-----------------------------------------------------------------------------
(***************************************************************************)
(* Which items stand next to each other in what is left.                   *)
(***************************************************************************)
\* The items of a sequence behind a first one.
LEMMA FirstThen ==
    ASSUME NEW it \in Items, NEW v \in Seq(Items)
    PROVE  /\ <<it>> \o v \in Seq(Items) /\ <<it>> \o v # <<>>
           /\ Len(v) \in Nat /\ DOMAIN v = 1 .. Len(v)
           /\ Len(<<it>> \o v) = Len(v) + 1 /\ DOMAIN (<<it>> \o v) = 1 .. Len(v) + 1
           /\ (<<it>> \o v)[1] = it
           /\ \A i \in 1 .. Len(v) : (<<it>> \o v)[i + 1] = v[i]
<1>1. <<it>> \in Seq(Items) /\ Len(<<it>>) = 1 /\ <<it>>[1] = it
  OBVIOUS
<1> DEFINE w == <<it>> \o v
<1>2. /\ w \in Seq(Items) /\ Len(v) \in Nat /\ Len(w) = 1 + Len(v)
      /\ \A i \in 1 .. 1 + Len(v) : w[i] = IF i <= 1 THEN <<it>>[i] ELSE v[i - 1]
  BY <1>1, ConcatItems
<1>3. DOMAIN v = 1 .. Len(v) /\ DOMAIN w = 1 .. Len(w)
  BY <1>2, LenProperties
<1> HIDE DEF w
<1>4. w[1] = it
  BY <1>1, <1>2
<1>5. ASSUME NEW i \in 1 .. Len(v) PROVE w[i + 1] = v[i]
  <2>1. i + 1 \in 1 .. 1 + Len(v) /\ ~(i + 1 <= 1) /\ (i + 1) - 1 = i
    BY <1>2
  <2> QED
    BY <1>2, <2>1
<1>6. w # <<>>
  BY <1>2, EmptySeq
<1> QED
  BY <1>2, <1>3, <1>4, <1>5, <1>6 DEF w

\* The items of two sequences, by their places.
LEMMA ConcatPlaces ==
    ASSUME NEW e \in Seq(Items), NEW v \in Seq(Items)
    PROVE  /\ e \o v \in Seq(Items) /\ Len(e) \in Nat /\ Len(v) \in Nat
           /\ DOMAIN e = 1 .. Len(e) /\ DOMAIN v = 1 .. Len(v)
           /\ Len(e \o v) = Len(e) + Len(v) /\ DOMAIN (e \o v) = 1 .. Len(e) + Len(v)
           /\ \A i \in 1 .. Len(e) : (e \o v)[i] = e[i]
           /\ \A i \in 1 .. Len(v) : (e \o v)[Len(e) + i] = v[i]
<1> DEFINE w == e \o v
<1>1. /\ w \in Seq(Items) /\ Len(e) \in Nat /\ Len(v) \in Nat /\ Len(w) = Len(e) + Len(v)
      /\ \A i \in 1 .. Len(e) + Len(v) : w[i] = IF i <= Len(e) THEN e[i] ELSE v[i - Len(e)]
  BY ConcatItems
<1>2. DOMAIN e = 1 .. Len(e) /\ DOMAIN v = 1 .. Len(v) /\ DOMAIN w = 1 .. Len(w)
  BY <1>1, LenProperties
<1> HIDE DEF w
<1>3. \A i \in 1 .. Len(e) : w[i] = e[i]
  BY <1>1
<1>4. ASSUME NEW i \in 1 .. Len(v) PROVE w[Len(e) + i] = v[i]
  <2>1. Len(e) + i \in 1 .. Len(e) + Len(v) /\ ~(Len(e) + i <= Len(e)) /\ (Len(e) + i) - Len(e) = i
    BY <1>1
  <2> QED
    BY <1>1, <2>1
<1> QED
  BY <1>1, <1>2, <1>3, <1>4 DEF w

\* A label stays one when items come before it.
LEMMA LabelledBehind ==
    ASSUME NEW e \in Seq(Items), NEW v \in Seq(Items), NEW traits, NEW j \in 1 .. Len(v)
    PROVE  Labelled(e \o v, Len(e) + j, traits) <=> Labelled(v, j, traits)
<1> DEFINE w == e \o v
<1>1. /\ Len(e) \in Nat /\ Len(v) \in Nat /\ Len(w) = Len(e) + Len(v)
      /\ \A i \in 1 .. Len(v) : w[Len(e) + i] = v[i]
  BY ConcatPlaces
<1> HIDE DEF w
<1>2. w[Len(e) + j] = v[j] /\ (Len(e) + j < Len(w) <=> j < Len(v))
  BY <1>1
<1>3. ASSUME j < Len(v) PROVE w[Len(e) + j + 1] = v[j + 1]
  <2>1. j + 1 \in 1 .. Len(v) /\ Len(e) + (j + 1) = Len(e) + j + 1
    BY <1>1, <1>3
  <2> QED
    BY <1>1, <2>1
<1>4. Labelled(w, Len(e) + j, traits) <=> Labelled(v, j, traits)
  BY <1>2, <1>3 DEF Labelled
<1> QED
  BY <1>4 DEF w

LEMMA LabelledBefore ==
    ASSUME NEW e \in Seq(Items), NEW v \in Seq(Items), NEW traits, NEW j \in 1 .. Len(e),
           Labelled(e, j, traits)
    PROVE  Labelled(e \o v, j, traits)
<1> DEFINE w == e \o v
<1>1. /\ Len(e) \in Nat /\ Len(v) \in Nat /\ Len(w) = Len(e) + Len(v)
      /\ \A i \in 1 .. Len(e) : w[i] = e[i]
  BY ConcatPlaces
<1> HIDE DEF w
<1>2. j < Len(e) /\ j + 1 \in 1 .. Len(e) /\ j < Len(w)
  BY <1>1 DEF Labelled
<1>3. w[j] = e[j] /\ w[j + 1] = e[j + 1]
  BY <1>1, <1>2
<1>4. Labelled(w, j, traits)
  BY <1>2, <1>3 DEF Labelled
<1> QED
  BY <1>4 DEF w

\* What is left behind the first item is apart as well, and if that is among
\* the last, it does not begin with one of the first.
LEMMA ApartTail ==
    ASSUME NEW it \in Items, NEW v \in Seq(Items), NEW traits, Apart(<<it>> \o v, traits)
    PROVE  /\ Apart(v, traits)
           /\ it \in traits.last => ~MayBegin(v, traits)
<1> DEFINE w == <<it>> \o v
<1>0. <<it>> \in Seq(Items) /\ Len(<<it>>) = 1
  OBVIOUS
<1>1. /\ Len(v) \in Nat /\ DOMAIN v = 1 .. Len(v) /\ DOMAIN w = 1 .. Len(v) + 1
      /\ w[1] = it /\ \A i \in 1 .. Len(v) : w[i + 1] = v[i]
  BY FirstThen
<1>2. \A j \in 1 .. Len(v) : Labelled(w, 1 + j, traits) <=> Labelled(v, j, traits)
  BY <1>0, LabelledBehind
<1> HIDE DEF w
<1>3. Apart(w, traits)
  BY DEF w
<1>4. ASSUME NEW i \in DOMAIN v, NEW j \in DOMAIN v, i < j, v[i] \in traits.last, v[j] \in traits.first,
             \A k \in i + 1 .. j - 1 : v[k] \in traits.empty
      PROVE  Labelled(v, j, traits)
  <2>1. i + 1 \in DOMAIN w /\ j + 1 \in DOMAIN w /\ i + 1 < j + 1
    BY <1>1, <1>4
  <2>2. w[i + 1] \in traits.last /\ w[j + 1] \in traits.first
    BY <1>1, <1>4
  <2>3. ASSUME NEW k \in i + 1 + 1 .. j + 1 - 1 PROVE w[k] \in traits.empty
    <3>1. k - 1 \in i + 1 .. j - 1 /\ k - 1 \in 1 .. Len(v) /\ (k - 1) + 1 = k
      BY <1>1
    <3> QED
      BY <1>1, <1>4, <3>1
  <2>4. Labelled(w, j + 1, traits)
    BY <1>3, <2>1, <2>2, <2>3 DEF Apart
  <2>5. j + 1 = 1 + j /\ j \in 1 .. Len(v)
    BY <1>1
  <2> QED
    BY <1>2, <2>4, <2>5
<1>5. ASSUME it \in traits.last, MayBegin(v, traits) PROVE FALSE
  <2>1. PICK j \in DOMAIN v : /\ v[j] \in traits.first /\ ~Labelled(v, j, traits)
                              /\ \A k \in 1 .. j - 1 : v[k] \in traits.empty
    BY <1>5 DEF MayBegin
  <2>2. 1 \in DOMAIN w /\ j + 1 \in DOMAIN w /\ 1 < j + 1 /\ w[j + 1] \in traits.first
    BY <1>1, <2>1
  <2>3. ASSUME NEW k \in 1 + 1 .. j + 1 - 1 PROVE w[k] \in traits.empty
    <3>1. k - 1 \in 1 .. j - 1 /\ k - 1 \in 1 .. Len(v) /\ (k - 1) + 1 = k
      BY <1>1
    <3> QED
      BY <1>1, <2>1, <3>1
  <2>4. Labelled(w, j + 1, traits)
    BY <1>1, <1>3, <1>5, <2>2, <2>3 DEF Apart
  <2>5. j + 1 = 1 + j /\ j \in 1 .. Len(v)
    BY <1>1
  <2> QED
    BY <1>2, <2>1, <2>4, <2>5
<1> QED
  BY <1>4, <1>5 DEF Apart

\* The items behind an item that is replaced keep their neighbours.
LEMMA PlacesBehind ==
    ASSUME NEW it \in Items, NEW e \in Seq(Items), NEW v \in Seq(Items), NEW traits, NEW j \in 1 .. Len(v)
    PROVE  /\ (<<it>> \o v)[j + 1] = (e \o v)[Len(e) + j]
           /\ Labelled(<<it>> \o v, j + 1, traits) <=> Labelled(e \o v, Len(e) + j, traits)
<1>0. <<it>> \in Seq(Items) /\ Len(<<it>>) = 1
  OBVIOUS
<1>1. /\ (<<it>> \o v)[1 + j] = v[j]
      /\ Labelled(<<it>> \o v, 1 + j, traits) <=> Labelled(v, j, traits)
  BY <1>0, ConcatPlaces, LabelledBehind
<1>2. 1 + j = j + 1
  OBVIOUS
<1>3. /\ (e \o v)[Len(e) + j] = v[j]
      /\ Labelled(e \o v, Len(e) + j, traits) <=> Labelled(v, j, traits)
  BY ConcatPlaces, LabelledBehind
<1> QED
  BY <1>1, <1>2, <1>3

\* What is left stays apart when its first item is replaced.
LEMMA ApartExpansion ==
    ASSUME NEW it \in Items, NEW v \in Seq(Items), NEW traits, NEW exceptions,
           Describes(traits, exceptions), Apart(<<it>> \o v, traits),
           NEW e \in Expansions(it)
    PROVE  Apart(e \o v, traits)
<1> DEFINE w == <<it>> \o v
           x == e \o v
           E == Len(e)
<1>0. e \in Seq(Items)
  BY ExpansionTypes
<1>1. Apart(e, traits) /\ (MayEnd(e, traits) => it \in traits.last)
  BY DEF Describes
<1>2. /\ Len(v) \in Nat /\ DOMAIN v = 1 .. Len(v) /\ DOMAIN w = 1 .. Len(v) + 1 /\ w[1] = it
  BY FirstThen
<1>3. /\ E \in Nat /\ DOMAIN e = 1 .. E /\ DOMAIN x = 1 .. E + Len(v)
      /\ \A i \in 1 .. E : x[i] = e[i]
  BY <1>0, ConcatPlaces
<1>4. ASSUME NEW n \in 1 .. Len(v)
      PROVE  w[n + 1] = x[E + n] /\ (Labelled(w, n + 1, traits) <=> Labelled(x, E + n, traits))
  BY <1>0, PlacesBehind
<1>5. \A j \in 1 .. E : Labelled(e, j, traits) => Labelled(x, j, traits)
  BY <1>0, LabelledBefore
<1> HIDE DEF w, x, E
<1>6. Apart(w, traits)
  BY DEF w
<1> SUFFICES ASSUME NEW i \in DOMAIN x, NEW j \in DOMAIN x, i < j,
                    x[i] \in traits.last, x[j] \in traits.first,
                    \A k \in i + 1 .. j - 1 : x[k] \in traits.empty
             PROVE  Labelled(x, j, traits)
  BY DEF Apart, x
<1>7. CASE j <= E
  <2>1. i \in 1 .. E /\ j \in 1 .. E
    BY <1>3, <1>7
  <2>2. \A k \in i + 1 .. j - 1 : k \in 1 .. E
    BY <1>3, <1>7
  <2>3. e[i] \in traits.last /\ e[j] \in traits.first /\ \A k \in i + 1 .. j - 1 : e[k] \in traits.empty
    BY <1>3, <2>1, <2>2
  <2>4. Labelled(e, j, traits)
    BY <1>1, <1>3, <2>1, <2>3 DEF Apart
  <2> QED
    BY <1>5, <2>1, <2>4
<1>8. CASE E < j
  <2> PICK b : b = j - E
    OBVIOUS
  <2>1. b \in 1 .. Len(v) /\ j = E + b /\ b + 1 \in DOMAIN w
    BY <1>2, <1>3, <1>8
  <2>2. w[b + 1] \in traits.first
    BY <1>4, <2>1
  <2>3. ASSUME NEW a \in 1 .. b, w[a] \in traits.last, \A k \in a + 1 .. b : w[k] \in traits.empty
        PROVE  Labelled(x, j, traits)
    <3>1. a \in DOMAIN w /\ a < b + 1 /\ (b + 1) - 1 = b
      BY <1>2, <2>1
    <3>2. Labelled(w, b + 1, traits)
      BY <1>6, <2>1, <2>2, <2>3, <3>1 DEF Apart
    <3> QED
      BY <1>4, <2>1, <3>2
  <2>4. CASE E < i
    <3> PICK a : a = i - E
      OBVIOUS
    <3>0. i \in Nat /\ i <= E + Len(v) /\ j \in Nat
      BY <1>2, <1>3
    <3>4. Len(v) \in Nat /\ E \in Nat /\ b \in Nat /\ j = E + b /\ E < i
      BY <1>2, <1>3, <2>1, <2>4
    <3>7. i \in Int /\ E \in Int /\ a = i - E
      BY <3>0, <3>4
    <3>8. a \in Int /\ i = E + a
      BY <3>7
    <3>5. i = E + a /\ a \in 1 .. Len(v)
      BY <3>0, <3>4, <3>8
    <3>6. a < b
      BY <3>0, <3>4
    <3>1. a \in 1 .. Len(v) /\ i = E + a /\ a < b
      BY <3>5, <3>6
    <3>2. a + 1 \in 1 .. b /\ w[a + 1] \in traits.last
      BY <1>4, <2>1, <3>1
    <3>3. ASSUME NEW k \in a + 1 + 1 .. b PROVE w[k] \in traits.empty
      <4>0. k \in Int /\ a + 2 <= k /\ k <= b /\ a \in Int /\ b \in Int
        BY <2>1, <3>1
      <4>3. k - 1 \in 1 .. Len(v) /\ (k - 1) + 1 = k
        BY <3>1, <3>4, <4>0, <2>1
      <4>4. E + (k - 1) \in i + 1 .. j - 1
        BY <3>1, <3>4, <4>0
      <4>1. k - 1 \in 1 .. Len(v) /\ (k - 1) + 1 = k /\ E + (k - 1) \in i + 1 .. j - 1
        BY <4>3, <4>4
      <4>2. w[(k - 1) + 1] = x[E + (k - 1)]
        BY <1>4, <4>1
      <4> QED
        BY <4>1, <4>2
    <3> QED
      BY <2>3, <3>2, <3>3
  <2>5. CASE i <= E
    <3>1. i \in 1 .. E /\ e[i] \in traits.last
      BY <1>3, <2>5
    <3>2. ASSUME NEW k \in i + 1 .. E PROVE e[k] \in traits.empty
      <4>1. k \in i + 1 .. j - 1 /\ k \in 1 .. E
        BY <1>3, <2>1, <3>1
      <4> QED
        BY <1>3, <4>1
    <3>3. MayEnd(e, traits)
      BY <1>3, <3>1, <3>2 DEF MayEnd, E
    <3>4. 1 \in 1 .. b /\ w[1] \in traits.last
      BY <1>1, <1>2, <2>1, <3>3
    <3>5. ASSUME NEW k \in 1 + 1 .. b PROVE w[k] \in traits.empty
      <4>1. k - 1 \in 1 .. Len(v) /\ (k - 1) + 1 = k /\ E + (k - 1) \in i + 1 .. j - 1
        BY <1>2, <1>3, <2>1, <3>1
      <4>2. w[(k - 1) + 1] = x[E + (k - 1)]
        BY <1>4, <4>1
      <4> QED
        BY <4>1, <4>2
    <3> QED
      BY <2>3, <3>4, <3>5
  <2> QED
    BY <1>3, <2>4, <2>5
<1> QED
  BY <1>3, <1>7, <1>8

\* And it does not begin with one of the first when it did not before.
LEMMA MayBeginExpansion ==
    ASSUME NEW it \in Items, NEW v \in Seq(Items), NEW traits, NEW exceptions,
           Describes(traits, exceptions), it \notin exceptions,
           NEW e \in Expansions(it), MayBegin(e \o v, traits)
    PROVE  MayBegin(<<it>> \o v, traits)
<1> DEFINE w == <<it>> \o v
           x == e \o v
           E == Len(e)
<1>0. e \in Seq(Items)
  BY ExpansionTypes
<1>1. /\ AllIn(e, traits.empty) => it \in traits.empty
      /\ MayBegin(e, traits) => it \in traits.first
      /\ it \in traits.single => E = 1 /\ e[1] \in traits.single
  BY DEF Describes
<1>2. /\ Len(v) \in Nat /\ DOMAIN v = 1 .. Len(v) /\ Len(w) = Len(v) + 1 /\ DOMAIN w = 1 .. Len(v) + 1
      /\ w[1] = it
  BY FirstThen
<1>3. /\ E \in Nat /\ DOMAIN e = 1 .. E /\ Len(x) = E + Len(v) /\ DOMAIN x = 1 .. E + Len(v)
      /\ \A i \in 1 .. E : x[i] = e[i]
  BY <1>0, ConcatPlaces
<1>4. ASSUME NEW n \in 1 .. Len(v)
      PROVE  w[n + 1] = x[E + n] /\ (Labelled(w, n + 1, traits) <=> Labelled(x, E + n, traits))
  BY <1>0, PlacesBehind
<1>5. \A j \in 1 .. E : Labelled(e, j, traits) => Labelled(x, j, traits)
  BY <1>0, LabelledBefore
<1>6. PICK j \in DOMAIN x : /\ x[j] \in traits.first /\ ~Labelled(x, j, traits)
                            /\ \A k \in 1 .. j - 1 : x[k] \in traits.empty
  BY DEF MayBegin
<1> HIDE DEF w, x, E
<1>7. CASE j <= E
  <2>1. j \in 1 .. E /\ \A k \in 1 .. j - 1 : k \in 1 .. E
    BY <1>3, <1>7
  <2>2. e[j] \in traits.first /\ ~Labelled(e, j, traits) /\ \A k \in 1 .. j - 1 : e[k] \in traits.empty
    BY <1>3, <1>5, <1>6, <2>1
  <2>3. it \in traits.first
    BY <1>1, <1>3, <2>1, <2>2 DEF MayBegin
  <2>4. ~Labelled(w, 1, traits)
    <3> SUFFICES ASSUME Labelled(w, 1, traits) PROVE FALSE
      OBVIOUS
    <3>1. it \in traits.single /\ 1 < Len(w) /\ w[1 + 1].k = "tok" /\ w[1 + 1].set = {"COLON"}
      BY <1>2 DEF Labelled
    <3>2. E = 1 /\ j = 1 /\ e[1] \in traits.single /\ 1 \in 1 .. Len(v)
      BY <1>1, <1>2, <1>3, <2>1, <3>1
    <3>3. x[1] \in traits.single /\ x[1 + 1] = w[1 + 1] /\ 1 < Len(x)
      BY <1>3, <1>4, <3>2
    <3> QED
      BY <1>6, <3>1, <3>2, <3>3 DEF Labelled
  <2>5. 1 \in DOMAIN w /\ \A k \in 1 .. 1 - 1 : w[k] \in traits.empty
    BY <1>2
  <2>6. MayBegin(w, traits)
    BY <1>2, <2>3, <2>4, <2>5 DEF MayBegin
  <2> QED
    BY <2>6 DEF w
<1>8. CASE E < j
  <2> PICK b : b = j - E
    OBVIOUS
  <2>1. b \in 1 .. Len(v) /\ j = E + b /\ b + 1 \in DOMAIN w
    BY <1>2, <1>3, <1>8
  <2>2. w[b + 1] \in traits.first /\ ~Labelled(w, b + 1, traits)
    BY <1>4, <1>6, <2>1
  <2>3. AllIn(e, traits.empty)
    <3>1. \A k \in 1 .. E : k \in 1 .. j - 1
      BY <1>3, <2>1
    <3> QED
      BY <1>3, <1>6, <3>1 DEF AllIn
  <2>4. ASSUME NEW k \in 1 .. b + 1 - 1 PROVE w[k] \in traits.empty
    <3>1. CASE k = 1
      BY <1>1, <1>2, <2>3, <3>1
    <3>2. CASE k # 1
      <4>1. k - 1 \in 1 .. Len(v) /\ (k - 1) + 1 = k /\ E + (k - 1) \in 1 .. j - 1
        BY <1>2, <1>3, <2>1, <3>2
      <4>2. w[(k - 1) + 1] = x[E + (k - 1)]
        BY <1>4, <4>1
      <4> QED
        BY <1>6, <4>1, <4>2
    <3> QED
      BY <3>1, <3>2
  <2>5. MayBegin(w, traits)
    BY <2>1, <2>2, <2>4 DEF MayBegin
  <2> QED
    BY <2>5 DEF w
<1> QED
  BY <1>3, <1>7, <1>8

-----------------------------------------------------------------------------
(***************************************************************************)
(* A GO behind a semicolon.                                                *)
(***************************************************************************)
\* The token at p is a GO right behind a semicolon, and no label.
IsGoAfterSemicolon(p) ==
    p > 1 /\ input[p - 1] = "SEMI" /\ input[p] = "GO" /\ input[p + 1] # "COLON"

\* The active function is go_statement's, at its beginning.
AtSeparator ==
    stack # <<>> /\ RuleOf(Len(stack)) = "go_statement" /\ Top.rest = Grammar["go_statement"]

\* What is left begins with a colon.
ColonNext(f) == Left(f) # <<>> /\ Left(f)[1].k = "tok" /\ Left(f)[1].set = {"COLON"}

GoAhead(f, traits) == IsGoAfterSemicolon(pos) => ~MayBegin(Left(f), traits) \/ AtSeparator

GoRead(f) ==
    \A p \in DOMAIN owner : IsGoAfterSemicolon(p) => IsSeparator(p) \/ (p = pos - 1 /\ ColonNext(f))

(***************************************************************************)
(* Nothing that may begin with a GO is left right behind a semicolon,      *)
(* unless it is the separator, and one that has been read as something     *)
(* else is the label before a colon.                                       *)
(***************************************************************************)
GoInv(traits) ==
    \E f : Agenda(f) /\ Apart(Left(f), traits) /\ GoAhead(f, traits) /\ GoRead(f)

\* What has been read keeps its node, and the node its rule.
LEMMA RulesStay ==
    ASSUME TreeInv, [Next]_vars, NEW p \in DOMAIN owner
    PROVE  p \in DOMAIN owner' /\ owner'[p] = owner[p] /\ RuleAt(p)' = RuleAt(p)
<1>1. Grows
  BY StepGrows
<1>2. owner[p] \in DOMAIN nodes
  BY OwnerTypes
<1> QED
  BY <1>1, <1>2 DEF Grows, RuleAt

\* A step that consumes nothing keeps what is said of the tokens behind it.
LEMMA GoReadStays ==
    ASSUME TreeInv, [Next]_vars, NEW f, NEW g, GoRead(f), UNCHANGED <<input, pos, owner>>,
           ColonNext(f) => ColonNext(g)'
    PROVE  GoRead(g)'
<1> SUFFICES ASSUME NEW p \in DOMAIN owner', IsGoAfterSemicolon(p)'
             PROVE  IsSeparator(p)' \/ (p = pos' - 1 /\ ColonNext(g)')
  BY DEF GoRead
<1>1. p \in DOMAIN owner /\ IsGoAfterSemicolon(p)
  BY DEF IsGoAfterSemicolon
<1>2. IsSeparator(p) \/ (p = pos - 1 /\ ColonNext(f))
  BY <1>1 DEF GoRead
<1>3. IsSeparator(p) => IsSeparator(p)'
  BY <1>1, RulesStay DEF IsSeparator
<1> QED
  BY <1>2, <1>3

LEMMA MatchKeepsGo ==
    ASSUME NEW traits, GoGrammar(traits), TreeInv, GoInv(traits), Match
    PROVE  GoInv(traits)'
<1>1. PICK f : Agenda(f) /\ Apart(Left(f), traits) /\ GoAhead(f, traits) /\ GoRead(f)
  BY DEF GoInv
<1>2. TypeOK /\ [Next]_vars
  BY DEF TreeInv, Next, Step
<1>3. /\ stack # <<>> /\ Top.rest # <<>> /\ Expected.k = "tok"
      /\ pos <= Len(input) /\ input[pos] \in Expected.set
  BY <1>1, <1>2, AgendaMatch
<1>4. PICK g : Agenda(g)' /\ Len(stack') = Len(stack) /\ g[Len(stack)] = Behind(f)
  BY <1>1, <1>2, AgendaMatch
<1>5. Expected \in Items /\ Behind(f) \in Seq(Items) /\ Left(f) = <<Expected>> \o Behind(f)
  BY <1>1, <1>2, <1>3, AgendaFirst
<1>6. Left(g)' = Behind(f)
  BY <1>4 DEF Left
<1>7. pos' = pos + 1 /\ UNCHANGED input /\ pos \in Nat \ {0}
  BY <1>2, MatchStep, OwnerTypes
<1>8. /\ Describes(traits, References("go_statement"))
      /\ Readers("SEMI") \subseteq traits.last /\ Readers("GO") \subseteq traits.first
  BY DEF GoGrammar
<1>9. Apart(Left(g)', traits) /\ (Expected \in traits.last => ~MayBegin(Left(g)', traits))
  BY <1>1, <1>5, <1>6, ApartTail
<1>10. GoAhead(g, traits)'
  <2> SUFFICES ASSUME IsGoAfterSemicolon(pos)' PROVE ~MayBegin(Left(g)', traits)
    BY DEF GoAhead
  <2>1. input[pos] = "SEMI"
    BY <1>7 DEF IsGoAfterSemicolon
  <2> QED
    BY <1>3, <1>5, <1>8, <1>9, <2>1 DEF Readers
<1>11. GoRead(g)'
  <2> SUFFICES ASSUME NEW p \in DOMAIN owner', IsGoAfterSemicolon(p)'
               PROVE  IsSeparator(p)' \/ (p = pos' - 1 /\ ColonNext(g)')
    BY DEF GoRead
  <2>1. /\ DOMAIN owner' = 1 .. pos /\ DOMAIN owner = 1 .. pos - 1
        /\ RuleAt(p)' = IF p = pos THEN RuleOf(Len(stack)) ELSE RuleAt(p)
    BY MatchedToken, OwnerTypes
  <2>2. IsGoAfterSemicolon(p)
    BY <1>7 DEF IsGoAfterSemicolon
  <2>3. CASE p = pos
    <3>1. CASE AtSeparator
      BY <2>1, <2>3, <3>1 DEF AtSeparator, IsSeparator
    <3>2. CASE ~AtSeparator
      <4>1. ~MayBegin(Left(f), traits)
        BY <1>1, <2>2, <2>3, <3>2 DEF GoAhead
      <4>2. Expected \in traits.first
        BY <1>3, <1>5, <1>8, <2>2, <2>3 DEF Readers, IsGoAfterSemicolon
      <4> DEFINE v == Behind(f)
                 w == <<Expected>> \o v
      <4>3. /\ 1 \in DOMAIN w /\ w[1] = Expected /\ Len(v) \in Nat /\ Len(w) = Len(v) + 1
            /\ \A i \in 1 .. Len(v) : w[i + 1] = v[i]
        <5> HIDE DEF v
        <5>1. v \in Seq(Items)
          BY <1>5 DEF v
        <5>2. /\ Len(v) \in Nat /\ DOMAIN w = 1 .. Len(v) + 1 /\ w[1] = Expected /\ Len(w) = Len(v) + 1
              /\ \A i \in 1 .. Len(v) : w[i + 1] = v[i]
          BY <1>5, <5>1, FirstThen
        <5> QED
          BY <5>2
      <4>4. Labelled(w, 1, traits)
        <5>1. ~MayBegin(w, traits)
          BY <1>5, <4>1
        <5>2. \A k \in 1 .. 1 - 1 : w[k] \in traits.empty
          OBVIOUS
        <5> HIDE DEF w
        <5> QED
          BY <4>2, <4>3, <5>1, <5>2 DEF MayBegin
      <4> HIDE DEF w, v
      <4>5. 1 < Len(w) /\ w[1 + 1].k = "tok" /\ w[1 + 1].set = {"COLON"}
        BY <4>4 DEF Labelled
      <4>6. 1 \in 1 .. Len(v)
        BY <4>3, <4>5
      <4>7. w[1 + 1] = v[1]
        BY <4>3, <4>6
      <4>8. v # <<>>
        BY <4>6
      <4>9. ColonNext(g)'
        BY <1>6, <4>5, <4>7, <4>8 DEF ColonNext, v
      <4> QED
        BY <1>7, <2>3, <4>9
    <3> QED
      BY <3>1, <3>2
  <2>4. CASE p # pos
    <3>1. p \in DOMAIN owner /\ RuleAt(p)' = RuleAt(p)
      BY <1>7, <2>1, <2>4
    <3>2. IsSeparator(p) \/ (p = pos - 1 /\ ColonNext(f))
      BY <1>1, <2>2, <3>1 DEF GoRead
    <3>3. ASSUME p = pos - 1, ColonNext(f) PROVE FALSE
      <4>1. Left(f)[1] = Expected
        BY <1>5, FirstThen
      <4>2. input[pos] = "COLON"
        BY <1>3, <3>3, <4>1 DEF ColonNext
      <4>3. p + 1 = pos
        BY <1>7, <3>3
      <4> QED
        BY <2>2, <4>2, <4>3 DEF IsGoAfterSemicolon
    <3> QED
      BY <3>1, <3>2, <3>3 DEF IsSeparator
  <2> QED
    BY <2>3, <2>4
<1>12. Apart(Left(g), traits)'
  BY <1>9
<1> QED
  BY <1>4, <1>10, <1>11, <1>12 DEF GoInv

\* A reference or a decision is replaced: what is left stays apart, and does
\* not begin to begin with one of the first.
LEMMA ExpansionKeepsGo ==
    ASSUME NEW traits, GoGrammar(traits), TreeInv, NEW f, Agenda(f), Apart(Left(f), traits),
           stack # <<>>, Top.rest # <<>>, NEW e \in Expansions(Expected)
    PROVE  /\ Apart(e \o Behind(f), traits)
           /\ Expected \notin References("go_statement") /\ ~MayBegin(Left(f), traits) =>
                 ~MayBegin(e \o Behind(f), traits)
<1>1. Expected \in Items /\ Behind(f) \in Seq(Items) /\ Left(f) = <<Expected>> \o Behind(f)
  BY AgendaFirst DEF TreeInv
<1>2. Describes(traits, References("go_statement"))
  BY DEF GoGrammar
<1> QED
  BY <1>1, <1>2, ApartExpansion, MayBeginExpansion

LEMMA EnterKeepsGo ==
    ASSUME NEW traits, GoGrammar(traits), TreeInv, GoInv(traits), EnterRule
    PROVE  GoInv(traits)'
<1>1. PICK f : Agenda(f) /\ Apart(Left(f), traits) /\ GoAhead(f, traits) /\ GoRead(f)
  BY DEF GoInv
<1>2. TypeOK /\ [Next]_vars
  BY DEF TreeInv, Next, Step
<1>3. /\ stack # <<>> /\ Top.rest # <<>> /\ Expected.k = "rule" /\ Expected.sym \in DOMAIN Grammar
  BY <1>1, <1>2, AgendaEnter
<1>4. PICK g : /\ Agenda(g)' /\ Len(stack') = Len(stack) + 1
               /\ g[Len(stack) + 1] = Grammar[Expected.sym] \o Behind(f)
  BY <1>1, <1>2, AgendaEnter
<1>5. Expected \in Items /\ Behind(f) \in Seq(Items) /\ Left(f) = <<Expected>> \o Behind(f)
  BY <1>1, <1>2, <1>3, AgendaFirst
<1>6. Left(g)' = Grammar[Expected.sym] \o Behind(f)
  BY <1>4 DEF Left
<1>7. /\ UNCHANGED <<input, pos, owner>>
      /\ stack'[Len(stack) + 1].node = Len(nodes) + 1
      /\ stack'[Len(stack) + 1].rest = Grammar[Expected.sym]
      /\ nodes'[Len(nodes) + 1].rule = Expected.sym
      /\ Top.rest[1].k = "rule" /\ Len(stack) \in Nat
  BY <1>2, EnterStep, FrameTypes
<1>8. Grammar[Expected.sym] \in Expansions(Expected)
  BY <1>3, <1>5, ExpansionTypes
<1>9. /\ Apart(Left(g)', traits)
      /\ Expected \notin References("go_statement") /\ ~MayBegin(Left(f), traits) =>
            ~MayBegin(Left(g)', traits)
  BY <1>1, <1>3, <1>6, <1>8, ExpansionKeepsGo
<1>10. GoAhead(g, traits)'
  <2> SUFFICES ASSUME IsGoAfterSemicolon(pos) PROVE ~MayBegin(Left(g)', traits) \/ AtSeparator'
    BY <1>7 DEF GoAhead, IsGoAfterSemicolon
  <2>1. CASE Expected.sym = "go_statement"
    <3>1. (RuleOf(Len(stack)) = "go_statement" /\ Top.rest = Grammar["go_statement"])'
      BY <1>4, <1>7, <2>1 DEF RuleOf, Top
    <3>2. Len(stack') # 0
      BY <1>4, <1>7
    <3>3. AtSeparator'
      BY <3>1, <3>2 DEF AtSeparator
    <3> QED
      BY <3>3
  <2>2. CASE Expected.sym # "go_statement"
    <3>1. Expected \notin References("go_statement")
      BY <2>2 DEF References
    <3>2. ~AtSeparator
      BY <1>7 DEF AtSeparator, GoGrammar
    <3>3. ~MayBegin(Left(f), traits)
      BY <1>1, <3>2 DEF GoAhead
    <3> QED
      BY <1>9, <3>1, <3>3
  <2> QED
    BY <2>1, <2>2
<1>11. ~ColonNext(f)
  BY <1>3, <1>5, FirstThen DEF ColonNext
<1>12. GoRead(g)'
  BY <1>1, <1>2, <1>7, <1>11, GoReadStays
<1>13. Apart(Left(g), traits)'
  BY <1>9
<1> QED
  BY <1>4, <1>10, <1>12, <1>13 DEF GoInv

LEMMA DecisionKeepsGo ==
    ASSUME NEW traits, GoGrammar(traits), TreeInv, GoInv(traits), Choose \/ EnterOptional \/ Iterate
    PROVE  GoInv(traits)'
<1>1. PICK f : Agenda(f) /\ Apart(Left(f), traits) /\ GoAhead(f, traits) /\ GoRead(f)
  BY DEF GoInv
<1>2. TypeOK /\ [Next]_vars
  BY DEF TreeInv, Next, Step
<1>3. stack # <<>> /\ Top.rest # <<>> /\ Expected \in Items /\ Expected.k \in {"alt", "opt", "star"}
  BY <1>2, Decision
<1>4. PICK e \in Seq(Items) : e \in Expansions(Expected) /\ Continue(e \o Tail(Top.rest))
  BY <1>2, Decision
<1>5. PICK g : Agenda(g)' /\ Len(stack') = Len(stack) /\ g[Len(stack)] = e \o Behind(f)
  BY <1>1, <1>2, <1>3, <1>4, AgendaDecide
<1>6. Left(g)' = e \o Behind(f)
  BY <1>5 DEF Left
<1>7. UNCHANGED <<input, pos, owner>>
  BY DEF Choose, EnterOptional, Iterate
<1>8. Behind(f) \in Seq(Items) /\ Left(f) = <<Expected>> \o Behind(f) /\ Expected = Top.rest[1]
  BY <1>1, <1>2, <1>3, AgendaFirst
<1>9. Expected \notin References("go_statement")
  BY <1>3 DEF References
<1>10. Apart(Left(g)', traits) /\ (~MayBegin(Left(f), traits) => ~MayBegin(Left(g)', traits))
  BY <1>1, <1>3, <1>4, <1>6, <1>9, ExpansionKeepsGo
<1>11. ~AtSeparator
  BY <1>3, <1>8 DEF AtSeparator, GoGrammar
<1>12. GoAhead(g, traits)'
  BY <1>1, <1>7, <1>10, <1>11 DEF GoAhead, IsGoAfterSemicolon
<1>13. ~ColonNext(f)
  BY <1>3, <1>8, FirstThen DEF ColonNext
<1>14. GoRead(g)'
  BY <1>1, <1>2, <1>7, <1>13, GoReadStays
<1>15. Apart(Left(g), traits)'
  BY <1>10
<1> QED
  BY <1>5, <1>12, <1>14, <1>15 DEF GoInv

LEMMA ExitKeepsGo ==
    ASSUME NEW traits, GoGrammar(traits), TreeInv, GoInv(traits), ExitRule
    PROVE  GoInv(traits)'
<1>1. PICK f : Agenda(f) /\ Apart(Left(f), traits) /\ GoAhead(f, traits) /\ GoRead(f)
  BY DEF GoInv
<1>2. TypeOK /\ [Next]_vars
  BY DEF TreeInv, Next, Step
<1>3. stack # <<>> /\ Top.rest = <<>>
  BY <1>1, <1>2, AgendaExit
<1>4. PICK g : Agenda(g)' /\ Len(stack') = Len(stack) - 1 /\ g[Len(stack) - 1] = Left(f)
  BY <1>1, <1>2, AgendaExit
<1>5. Left(g)' = Left(f)
  BY <1>4 DEF Left
<1>6. UNCHANGED <<input, pos, owner>>
  BY DEF ExitRule
<1>7. ~AtSeparator
  BY <1>3 DEF AtSeparator, GoGrammar
<1>8. GoAhead(g, traits)'
  BY <1>1, <1>5, <1>6, <1>7 DEF GoAhead, IsGoAfterSemicolon
<1>9. ColonNext(f) => ColonNext(g)'
  BY <1>5 DEF ColonNext
<1>10. GoRead(g)'
  BY <1>1, <1>2, <1>6, <1>9, GoReadStays
<1>11. Apart(Left(g), traits)'
  BY <1>1, <1>5
<1> QED
  BY <1>4, <1>8, <1>10, <1>11 DEF GoInv

LEMMA OthersKeepGo ==
    ASSUME NEW traits, GoGrammar(traits), TreeInv, GoInv(traits), Call \/ SyntaxError \/ UNCHANGED vars
    PROVE  GoInv(traits)'
<1>1. PICK f : Agenda(f) /\ Apart(Left(f), traits) /\ GoAhead(f, traits) /\ GoRead(f)
  BY DEF GoInv
<1>2. TypeOK /\ [Next]_vars
  BY DEF TreeInv, Next, Step
<1>3. CASE Call
  <2>1. /\ pos = 1 /\ owner = <<>> /\ UNCHANGED <<input, pos, owner>>
    BY <1>3, CallStep
  <2>2. PICK g : Agenda(g)' /\ Len(stack') = 1 /\ g[1] = Grammar[StartRule]
    BY <1>1, <1>3, AgendaCall
  <2>3. Apart(Left(g), traits)'
    BY <2>2 DEF Left, GoGrammar
  <2>4. GoAhead(g, traits)' /\ GoRead(g)'
    BY <2>1 DEF GoAhead, GoRead, IsGoAfterSemicolon
  <2> QED
    BY <2>2, <2>3, <2>4 DEF GoInv
<1>4. CASE SyntaxError \/ UNCHANGED vars
  <2>1. UNCHANGED <<input, pos, stack, nodes, owner>>
    BY <1>4 DEF SyntaxError, vars
  <2>2. Agenda(f)' /\ Left(f)' = Left(f)
    BY <1>1, <2>1 DEF Agenda, Left
  <2>3. GoAhead(f, traits)'
    BY <1>1, <2>1, <2>2 DEF GoAhead, IsGoAfterSemicolon, AtSeparator, RuleOf, Top
  <2>4. GoRead(f)'
    <3>1. ColonNext(f) => ColonNext(f)'
      BY <2>2 DEF ColonNext
    <3> QED
      BY <1>1, <1>2, <2>1, <3>1, GoReadStays
  <2>5. Apart(Left(f), traits)'
    BY <1>1, <2>2
  <2> QED
    BY <2>2, <2>3, <2>4, <2>5 DEF GoInv
<1> QED
  BY <1>3, <1>4

\* In the beginning nothing is left.
LEMMA InitAgenda ==
    ASSUME Init
    PROVE  \E f : Agenda(f) /\ Left(f) = <<>>
<1>0. PICK f : f = [d \in 0 .. 0 |-> <<>>]
  OBVIOUS
<1>1. Len(stack) = 0
  BY DEF Init
<1>2. f \in [0 .. 0 -> Seq(Items)] /\ f[0] = <<>>
  BY <1>0
<1> QED
  BY <1>1, <1>2 DEF Agenda, Left

(***************************************************************************)
(* In a grammar in which nothing that may begin with a GO stands behind    *)
(* something that may end with a semicolon, the separator of batches       *)
(* apart, a GO that follows a semicolon separates two batches, whatever    *)
(* the stream and the prediction: terminating the last statement with a    *)
(* semicolon is enough to protect the separator from being read as its     *)
(* alias or its argument.                                                  *)
(***************************************************************************)
THEOREM GoAfterSemicolonCorrect ==
    ASSUME NEW CONSTANT traits, GoGrammar(traits)
    PROVE  Spec => []GoAfterSemicolonSeparates
<1>1. Init => GoInv(traits)
  <2> SUFFICES ASSUME Init PROVE GoInv(traits)
    OBVIOUS
  <2>1. PICK f : Agenda(f) /\ Left(f) = <<>>
    BY InitAgenda
  <2>2. pos = 1 /\ DOMAIN owner = {}
    BY DEF Init
  <2>3. GoAhead(f, traits) /\ GoRead(f)
    BY <2>2 DEF GoAhead, GoRead, IsGoAfterSemicolon
  <2>4. Apart(Left(f), traits)
    BY <2>1 DEF Apart
  <2> QED
    BY <2>1, <2>3, <2>4 DEF GoInv
<1>2. TreeInv /\ GoInv(traits) /\ [Next]_vars => GoInv(traits)'
  <2> SUFFICES ASSUME TreeInv, GoInv(traits), [Next]_vars PROVE GoInv(traits)'
    OBVIOUS
  <2>1. \/ Match \/ EnterRule \/ Choose \/ EnterOptional \/ Iterate \/ ExitRule
        \/ Call \/ SyntaxError \/ UNCHANGED vars
    BY DEF Next, Step, Keep
  <2> QED
    BY <2>1, MatchKeepsGo, EnterKeepsGo, DecisionKeepsGo, ExitKeepsGo, OthersKeepGo
<1>3. TreeInv /\ GoInv(traits) => GoAfterSemicolonSeparates
  <2> SUFFICES ASSUME TreeInv, GoInv(traits), Accepted,
                      NEW p \in TokensOf("GO"), p > 1 /\ input[p - 1] = "SEMI" /\ input[p + 1] # "COLON"
               PROVE  IsSeparator(p)
    BY DEF GoAfterSemicolonSeparates
  <2>1. PICK f : Agenda(f) /\ GoRead(f)
    BY DEF GoInv
  <2>2. stack = <<>>
    BY DEF TreeInv, Bookkeeping, Accepted
  <2>3. Left(f) = <<>>
    BY <2>1, <2>2 DEF Agenda, Left
  <2>4. p \in DOMAIN owner /\ IsGoAfterSemicolon(p)
    BY DEF TokensOf, IsGoAfterSemicolon
  <2> QED
    BY <2>1, <2>3, <2>4 DEF GoRead, ColonNext
<1> QED
  BY <1>1, <1>2, <1>3, TreeInvariant, PTL DEF Spec

-----------------------------------------------------------------------------
(***************************************************************************)
(* Exact prediction.                                                       *)
(***************************************************************************)
\* What it says of the stream that is being parsed.
LEMMA ExactHere ==
    ASSUME ExactPrediction, TypeOK, table = Lookahead(input), NEW p \in 1 .. Len(input) + 1
    PROVE  /\ Matches(table, <<>>, p)
           /\ \A it \in Items, v \in Seq(Items) : it.k = "tok" =>
                 (Matches(table, <<it>> \o v, p)
                    <=> p <= Len(input) /\ input[p] \in it.set /\ Matches(table, v, p + 1))
           /\ \A it \in Items, u, v \in Seq(Items) : it.k # "tok" =>
                 (Matches(table, u \o (<<it>> \o v), p)
                    <=> \E e \in Expansions(it) : Matches(table, u \o (e \o v), p))
<1>1. input \in Inputs
  BY DEF TypeOK
<1>2. ExactAt(input, table, p, Seq(Items), Seq(Seq(Items)))
  BY <1>1 DEF ExactPrediction
<1> QED
  BY <1>2 DEF ExactAt

\* One step of a derivation from the first item.
LEMMA ExactFirst ==
    ASSUME ExactPrediction, TypeOK, table = Lookahead(input), NEW p \in 1 .. Len(input) + 1,
           NEW it \in Items, it.k # "tok", NEW v \in Seq(Items)
    PROVE  Matches(table, <<it>> \o v, p) <=> \E e \in Expansions(it) : Matches(table, e \o v, p)
<1>1. <<>> \in Seq(Items) /\ <<it>> \o v \in Seq(Items) /\ \A e \in Expansions(it) : e \o v \in Seq(Items)
  BY ExpansionTypes, FirstThen, ConcatProperties
<1>2. \A w \in Seq(Items) : <<>> \o w = w
  BY ConcatEmptySeq
<1>3. Matches(table, <<>> \o (<<it>> \o v), p)
         <=> \E e \in Expansions(it) : Matches(table, <<>> \o (e \o v), p)
  BY <1>1, ExactHere
<1>4. <<>> \o (<<it>> \o v) = <<it>> \o v /\ \A e \in Expansions(it) : <<>> \o (e \o v) = e \o v
  BY <1>1, <1>2
<1> QED
  BY <1>3, <1>4

\* The answer keeps what the tokens match: an alternative is chosen only when
\* it matches, and a block is skipped only when it does not.
LEMMA AnswerMatches ==
    ASSUME ExactPrediction, TypeOK, table = Lookahead(input), NEW f, Agenda(f),
           stack # <<>>, Top.rest # <<>>, Expected.k \in {"alt", "opt", "star"},
           NEW e \in Expansions(Expected), Answer(e)
    PROVE  Matches(table, Left(f), pos) <=> Matches(table, e \o Behind(f), pos)
<1>1. Expected \in Items /\ Behind(f) \in Seq(Items) /\ Left(f) = <<Expected>> \o Behind(f)
  BY AgendaFirst
<1>2. Expansions(Expected) \subseteq Seq(Items) /\ e \in Seq(Items)
  BY <1>1, ExpansionTypes
<1>3. pos \in 1 .. Len(input) + 1 /\ Expected.k # "tok"
  BY DEF TypeOK
<1>4. Matches(table, Left(f), pos)
         <=> \E d \in Expansions(Expected) : Matches(table, d \o Behind(f), pos)
  BY <1>1, <1>3, ExactFirst
<1>5. \A d \in Seq(Items) : Fits(d) <=> Matches(table, d \o Behind(f), pos)
  BY FitsMatches
<1>6. CASE Expected.k = "alt"
  BY <1>2, <1>4, <1>5, <1>6 DEF Answer
<1>7. CASE Expected.k = "opt"
  <2>1. Expansions(Expected) = {<<>>, Block} /\ e = IF Fits(Block) THEN Block ELSE <<>>
    BY <1>7 DEF Expansions, Block, Answer
  <2> QED
    BY <1>2, <1>4, <1>5, <2>1
<1>8. CASE Expected.k = "star"
  <2> DEFINE more == Append(Block, Expected)
  <2>1. Expansions(Expected) = {<<>>, more} /\ e = IF Fits(more) THEN more ELSE <<>>
    BY <1>8 DEF Expansions, Block, Answer
  <2> HIDE DEF more
  <2> QED
    BY <1>2, <1>4, <1>5, <2>1
<1> QED
  BY <1>6, <1>7, <1>8

\* An error is reported only where nothing that is left to match fits.
LEMMA ErrorMatchesNothing ==
    ASSUME ExactPrediction, TypeOK, table = Lookahead(input), NEW f, Agenda(f), SyntaxError
    PROVE  ~Matches(table, Left(f), pos)
<1>1. stack # <<>> /\ Top.rest # <<>>
  BY DEF SyntaxError, At
<1>2. Expected \in Items /\ Behind(f) \in Seq(Items) /\ Left(f) = <<Expected>> \o Behind(f)
  BY <1>1, AgendaFirst
<1>3. pos \in 1 .. Len(input) + 1
  BY DEF TypeOK
<1>4. CASE At("tok") /\ (pos > Len(input) \/ input[pos] \notin Expected.set)
  <2>1. Expected.k = "tok" /\ ~(pos <= Len(input) /\ input[pos] \in Expected.set)
    <3>1. input \in Seq(STRING) /\ Len(input) \in Nat
      BY InputsAssumption, LenProperties DEF TypeOK
    <3> QED
      BY <1>3, <1>4, <3>1 DEF At
  <2> QED
    BY <1>2, <1>3, <2>1, ExactHere
<1>5. CASE At("alt") /\ \A n \in DOMAIN Expected.alts : ~Fits(Expected.alts[n])
  <2>1. Expected.k = "alt"
    BY <1>5 DEF At
  <2>2. \A e \in Expansions(Expected) : e \in Seq(Items) /\ ~Fits(e)
    BY <1>2, <1>5, <2>1, ExpansionTypes DEF Expansions
  <2>3. \A e \in Expansions(Expected) : ~Matches(table, e \o Behind(f), pos)
    BY <1>1, <2>2, FitsMatches
  <2> QED
    BY <1>2, <1>3, <2>1, <2>3, ExactFirst
<1> QED
  BY <1>4, <1>5 DEF SyntaxError

\* Prediction knows the stream.
TableInv == status # "ready" => table = Lookahead(input)

LEMMA StepKeepsTable ==
    ASSUME TableInv, [Next]_vars
    PROVE  TableInv'
<1>1. CASE Call
  BY <1>1 DEF Call, TableInv
<1>2. CASE Step
  <2>1. status = "parsing" /\ UNCHANGED <<table, input>>
    BY <1>2 DEF Step, Match, EnterRule, Choose, EnterOptional, Iterate, ExitRule, SyntaxError, At
  <2> QED
    BY <2>1 DEF TableInv
<1>3. CASE UNCHANGED vars
  BY <1>3 DEF TableInv, vars
<1> QED
  BY <1>1, <1>2, <1>3 DEF Next, Keep

\* What the grammar says of the stream.
Derivable == Matches(Lookahead(input), Grammar[StartRule], 1)

VerdictInv ==
    status # "ready" =>
        \E f : /\ Agenda(f)
               /\ Derivable <=> Matches(table, Left(f), pos)
               /\ status = "error" => ~Matches(table, Left(f), pos)

LEMMA StepKeepsVerdict ==
    ASSUME ExactPrediction, TreeInv, TableInv, VerdictInv, Step
    PROVE  VerdictInv'
<1>1. TypeOK /\ [Next]_vars /\ status = "parsing" /\ UNCHANGED <<input, table>>
  BY DEF TreeInv, Next, Step, Match, EnterRule, Choose, EnterOptional, Iterate, ExitRule, SyntaxError, At
<1>2. table = Lookahead(input) /\ (Derivable' <=> Derivable)
  BY <1>1 DEF TableInv, Derivable
<1>3. PICK f : Agenda(f) /\ (Derivable <=> Matches(table, Left(f), pos))
  BY <1>1 DEF VerdictInv
<1>4. pos \in 1 .. Len(input) + 1
  BY <1>1 DEF TypeOK
<1>5. ASSUME NEW g, Agenda(g)', status' # "error",
             Matches(table, Left(f), pos) <=> Matches(table, Left(g)', pos')
      PROVE  VerdictInv'
  <2>1. (Derivable <=> Matches(table, Left(g), pos))'
    BY <1>1, <1>2, <1>3, <1>5
  <2> QED
    BY <1>5, <2>1 DEF VerdictInv
<1>6. CASE Match
  <2>1. /\ stack # <<>> /\ Top.rest # <<>> /\ Expected.k = "tok"
        /\ pos <= Len(input) /\ input[pos] \in Expected.set
    BY <1>1, <1>3, <1>6, AgendaMatch
  <2>2. PICK g : Agenda(g)' /\ Len(stack') = Len(stack) /\ g[Len(stack)] = Behind(f)
    BY <1>1, <1>3, <1>6, AgendaMatch
  <2>3. Expected \in Items /\ Behind(f) \in Seq(Items) /\ Left(f) = <<Expected>> \o Behind(f)
    BY <1>1, <1>3, <2>1, AgendaFirst
  <2>4. Matches(table, <<Expected>> \o Behind(f), pos)
          <=> pos <= Len(input) /\ input[pos] \in Expected.set /\ Matches(table, Behind(f), pos + 1)
    BY <1>1, <1>2, <1>4, <2>1, <2>3, ExactHere
  <2>5. pos' = pos + 1 /\ status' # "error" /\ Left(g)' = Behind(f)
    BY <1>1, <1>6, <2>2 DEF Match, Left
  <2> QED
    BY <1>5, <2>1, <2>2, <2>3, <2>4, <2>5
<1>7. CASE EnterRule
  <2>1. /\ stack # <<>> /\ Top.rest # <<>> /\ Expected.k = "rule" /\ Expected.sym \in DOMAIN Grammar
    BY <1>1, <1>3, <1>7, AgendaEnter
  <2>2. PICK g : /\ Agenda(g)' /\ Len(stack') = Len(stack) + 1
                 /\ g[Len(stack) + 1] = Grammar[Expected.sym] \o Behind(f)
    BY <1>1, <1>3, <1>7, AgendaEnter
  <2>3. Expected \in Items /\ Behind(f) \in Seq(Items) /\ Left(f) = <<Expected>> \o Behind(f)
    BY <1>1, <1>3, <2>1, AgendaFirst
  <2>4. Expansions(Expected) = {Grammar[Expected.sym]}
    BY <2>1, <2>3, ExpansionTypes
  <2>5. Matches(table, Left(f), pos) <=> Matches(table, Grammar[Expected.sym] \o Behind(f), pos)
    BY <1>1, <1>2, <1>4, <2>1, <2>3, <2>4, ExactFirst
  <2>6. pos' = pos /\ status' # "error" /\ Left(g)' = Grammar[Expected.sym] \o Behind(f)
    BY <1>1, <1>7, <2>2 DEF EnterRule, Left
  <2> QED
    BY <1>5, <2>2, <2>5, <2>6
<1>8. CASE Choose \/ EnterOptional \/ Iterate
  <2>1. stack # <<>> /\ Top.rest # <<>> /\ Expected.k \in {"alt", "opt", "star"}
    BY <1>1, <1>8, Decision
  <2>2. PICK e \in Seq(Items) : e \in Expansions(Expected) /\ Answer(e) /\ Continue(e \o Tail(Top.rest))
    BY <1>1, <1>8, Decision
  <2>3. PICK g : Agenda(g)' /\ Len(stack') = Len(stack) /\ g[Len(stack)] = e \o Behind(f)
    BY <1>1, <1>3, <2>1, <2>2, AgendaDecide
  <2>4. Matches(table, Left(f), pos) <=> Matches(table, e \o Behind(f), pos)
    BY <1>1, <1>2, <1>3, <2>1, <2>2, AnswerMatches
  <2>5. pos' = pos /\ status' # "error" /\ Left(g)' = e \o Behind(f)
    BY <1>1, <1>8, <2>3 DEF Choose, EnterOptional, Iterate, Left
  <2> QED
    BY <1>5, <2>3, <2>4, <2>5
<1>9. CASE ExitRule
  <2>1. PICK g : Agenda(g)' /\ Len(stack') = Len(stack) - 1 /\ g[Len(stack) - 1] = Left(f)
    BY <1>1, <1>3, <1>9, AgendaExit
  <2>2. pos' = pos /\ status' # "error" /\ Left(g)' = Left(f)
    BY <1>9, <2>1 DEF ExitRule, Left
  <2> QED
    BY <1>5, <2>1, <2>2
<1>10. CASE SyntaxError
  <2>1. ~Matches(table, Left(f), pos)
    BY <1>1, <1>2, <1>3, <1>10, ErrorMatchesNothing
  <2>2. UNCHANGED <<pos, stack, table>>
    BY <1>10 DEF SyntaxError
  <2>3. Agenda(f)' /\ (Matches(table, Left(f), pos)' <=> Matches(table, Left(f), pos))
    BY <1>3, <2>2 DEF Agenda, Left
  <2>4. (Derivable <=> Matches(table, Left(f), pos))'
    BY <1>2, <1>3, <2>3
  <2> QED
    BY <2>1, <2>3, <2>4 DEF VerdictInv
<1> QED
  BY <1>6, <1>7, <1>8, <1>9, <1>10 DEF Step

LEMMA NextKeepsVerdict ==
    ASSUME ExactPrediction, TreeInv, TableInv, VerdictInv, [Next]_vars
    PROVE  VerdictInv'
<1>1. CASE Call
  <2>1. pos' = 1 /\ status' = "parsing" /\ table' = Lookahead(input) /\ input' = input /\ stack = <<>>
    BY <1>1, CallStep DEF Call
  <2>2. PICK f : f = [d \in 0 .. 0 |-> <<>>]
    OBVIOUS
  <2>3. Agenda(f)
    BY <2>1, <2>2 DEF Agenda
  <2>4. PICK g : Agenda(g)' /\ Len(stack') = 1 /\ g[1] = Grammar[StartRule]
    BY <1>1, <2>3, AgendaCall
  <2>5. (Derivable <=> Matches(table, Left(g), pos))'
    BY <2>1, <2>4 DEF Derivable, Left
  <2> QED
    BY <2>1, <2>4, <2>5 DEF VerdictInv
<1>2. CASE Step
  BY <1>2, StepKeepsVerdict
<1>3. CASE UNCHANGED vars
  BY <1>3 DEF VerdictInv, vars, Agenda, Left, Derivable
<1> QED
  BY <1>1, <1>2, <1>3 DEF Next, Keep

\* What the client is told agrees with the grammar.
VerdictAgrees ==
    /\ Accepted => Derivable
    /\ status = "error" => ~Derivable

(***************************************************************************)
(* With an exact prediction the parser accepts a stream if and only if the *)
(* grammar derives it: no decision of the generated code, each taken on    *)
(* its own and never undone, loses a stream or lets one through.           *)
(***************************************************************************)
THEOREM VerdictCorrect ==
    ASSUME ExactPrediction
    PROVE  Spec => []VerdictAgrees
<1>1. Init => TableInv /\ VerdictInv
  BY DEF Init, TableInv, VerdictInv
<1>2. TreeInv /\ TableInv /\ VerdictInv /\ [Next]_vars => TableInv' /\ VerdictInv'
  BY StepKeepsTable, NextKeepsVerdict
<1>3. TreeInv /\ TableInv /\ VerdictInv => VerdictAgrees
  <2> SUFFICES ASSUME TreeInv, TableInv, VerdictInv PROVE VerdictAgrees
    OBVIOUS
  <2>1. CASE Accepted
    <3>1. PICK f : Agenda(f) /\ (Derivable <=> Matches(table, Left(f), pos))
      BY <2>1 DEF VerdictInv, Accepted
    <3>2. Left(f) = <<>>
      BY <2>1, <3>1 DEF Agenda, Left, TreeInv, Bookkeeping, Accepted
    <3>3. TypeOK /\ table = Lookahead(input) /\ pos \in 1 .. Len(input) + 1
      BY <2>1 DEF TreeInv, TypeOK, TableInv, Accepted
    <3>4. Matches(table, <<>>, pos)
      BY <3>3, ExactHere
    <3> QED
      BY <2>1, <3>1, <3>2, <3>4 DEF VerdictAgrees, Accepted
  <2>2. CASE ~Accepted
    BY <2>2 DEF VerdictInv, VerdictAgrees
  <2> QED
    BY <2>1, <2>2
<1> QED
  BY <1>1, <1>2, <1>3, TreeInvariant, PTL DEF Spec

-----------------------------------------------------------------------------
(***************************************************************************)
(* Nodes that are added, and nodes that are closed.                        *)
(***************************************************************************)
LEMMA LastOrBefore ==
    ASSUME NEW l \in Nat, NEW d \in 1 .. l
    PROVE  d \in 1 .. l - 1 \/ d = l
OBVIOUS

\* A call adds the last node, which starts at the current token.
LEMMA NodeAdded ==
    ASSUME TreeInv, [Next]_vars, NEW n \in DOMAIN nodes', n \notin DOMAIN nodes
    PROVE  /\ Call \/ EnterRule
           /\ nodes'[n].start = pos
           /\ \A m \in DOMAIN nodes : m < n
           /\ EnterRule => nodes'[n].rule = Expected.sym
           /\ \E d \in DOMAIN stack' : stack'[d].node = n
<1>1. TypeOK /\ TypeOK'
  BY StepKeepsTree DEF TreeInv
<1>2. ASSUME NEW rule \in DOMAIN Grammar, NEW callers, Enter(rule, callers)
      PROVE  /\ nodes'[n].start = pos /\ nodes'[n].rule = rule /\ n = Len(nodes) + 1
             /\ \A m \in DOMAIN nodes : m < n
  <2>1. /\ n = Len(nodes) + 1 /\ nodes'[Len(nodes) + 1] = Node(rule, ctx, pos)
        /\ DOMAIN nodes = 1 .. Len(nodes) /\ Len(nodes) \in Nat
    BY <1>1, <1>2, EnterNodes, NodeTypes
  <2> QED
    BY <2>1 DEF Node
<1>3. Len(stack') \in Nat /\ DOMAIN stack' = 1 .. Len(stack') /\ Len(stack) \in Nat
  BY <1>1, FrameTypes
<1>4. CASE Call
  <2>1. /\ nodes'[n].start = pos /\ n = Len(nodes) + 1 /\ \A m \in DOMAIN nodes : m < n
    BY <1>2, <1>4, GrammarAssumption DEF Call
  <2>2. nodes = <<>> /\ Len(stack') = 1 /\ stack'[1].node = 1
    BY <1>4, CallStep
  <2>3. 1 \in DOMAIN stack' /\ n = 1
    BY <1>3, <2>1, <2>2
  <2>4. ~EnterRule
    BY <1>4 DEF Call, EnterRule, At
  <2> QED
    BY <1>4, <2>1, <2>2, <2>3, <2>4
<1>5. CASE EnterRule
  <2>1. /\ Expected.sym \in DOMAIN Grammar /\ Len(stack') = Len(stack) + 1
        /\ stack'[Len(stack) + 1].node = Len(nodes) + 1
    BY <1>1, <1>5, EnterStep
  <2>2. PICK callers : Enter(Expected.sym, callers)
    BY <1>5 DEF EnterRule
  <2>3. /\ nodes'[n].start = pos /\ nodes'[n].rule = Expected.sym /\ n = Len(nodes) + 1
        /\ \A m \in DOMAIN nodes : m < n
    BY <1>2, <2>1, <2>2
  <2>4. Len(stack) + 1 \in DOMAIN stack'
    BY <1>3, <2>1
  <2> QED
    BY <1>5, <2>1, <2>3, <2>4
<1>6. CASE ExitRule
  BY <1>6, ExitNodes
<1>7. CASE ~(Call \/ EnterRule \/ ExitRule)
  <2>1. UNCHANGED nodes
    BY <1>7 DEF Next, Step, Match, Choose, EnterOptional, Iterate, SyntaxError, Keep, vars
  <2> QED
    BY <2>1
<1> QED
  BY <1>4, <1>5, <1>6, <1>7

\* Only ExitRule closes a node, that of the active function.
LEMMA NodeClosed ==
    ASSUME TreeInv, [Next]_vars, NEW n \in DOMAIN nodes', Closed(n)', ~(n \in DOMAIN nodes /\ Closed(n))
    PROVE  /\ ExitRule /\ stack # <<>> /\ Top.rest = <<>> /\ n = Top.node /\ n \in DOMAIN nodes
           /\ nodes'[n].stop = pos - 1
<1>1. TypeOK
  BY DEF TreeInv
<1>2. Len(stack) \in Nat /\ DOMAIN stack = 1 .. Len(stack)
  BY <1>1, FrameTypes
<1>0. TypeOK' /\ DOMAIN stack' = 1 .. Len(stack')
  <2>1. TypeOK'
    BY StepKeepsTree DEF TreeInv
  <2> QED
    BY <2>1, FrameTypes
<1>3. n \in DOMAIN nodes /\ ~Closed(n)
  BY NodeAdded DEF Closed, Open
<1>4. PICK d \in 1 .. Len(stack) : stack[d].node = n
  BY <1>2, <1>3 DEF Closed, Open
<1>5. ASSUME \A c \in 1 .. Len(stack) : c \in DOMAIN stack' /\ stack'[c].node = stack[c].node PROVE FALSE
  BY <1>4, <1>5 DEF Closed, Open
<1>6. ASSUME stack # <<>>, NEW f \in Seq(Items), Continue(f) PROVE FALSE
  <2>1. /\ Len(stack') = Len(stack) /\ \A c \in 1 .. Len(stack) : stack'[c].node = stack[c].node
    BY <1>1, <1>6, ContinueTop
  <2> QED
    BY <1>0, <1>5, <2>1
<1>7. CASE Match
  BY <1>1, <1>6, <1>7, MatchStep
<1>8. CASE Choose \/ EnterOptional \/ Iterate
  BY <1>1, <1>6, <1>8, DecisionStep
<1>9. CASE EnterRule
  <2>1. /\ Len(stack') = Len(stack) + 1 /\ \A c \in 1 .. Len(stack) - 1 : stack'[c] = stack[c]
        /\ stack'[Len(stack)].node = Top.node
    BY <1>1, <1>9, EnterStep
  <2>2. ASSUME NEW c \in 1 .. Len(stack) PROVE c \in DOMAIN stack' /\ stack'[c].node = stack[c].node
    <3>1. c \in 1 .. Len(stack) - 1 \/ c = Len(stack)
      BY <1>2, LastOrBefore
    <3>2. stack'[c].node = stack[c].node
      BY <2>1, <3>1 DEF Top
    <3>3. \A l \in Nat : \A b \in 1 .. l : b \in 1 .. l + 1
      OBVIOUS
    <3> QED
      BY SMTT(60), <1>0, <1>2, <2>1, <3>2, <3>3
  <2> QED
    BY <1>5, <2>2
<1>10. CASE Call
  BY <1>2, <1>4, <1>10, CallStep
<1>11. CASE ExitRule
  <2>1. /\ stack # <<>> /\ Top.rest = <<>> /\ Len(stack') = Len(stack) - 1
        /\ \A c \in 1 .. Len(stack) - 1 : stack'[c] = stack[c]
    BY SMTT(60), <1>1, <1>11, ExitFrames DEF ExitRule
  <2>2. d = Len(stack)
    <3>1. d \notin 1 .. Len(stack) - 1
      <4> SUFFICES ASSUME d \in 1 .. Len(stack) - 1 PROVE FALSE
        OBVIOUS
      <4>1. d \in DOMAIN stack' /\ stack'[d].node = n
        BY <1>0, <1>4, <2>1
      <4> QED
        BY <4>1 DEF Closed, Open
    <3> QED
      BY <1>2, <3>1, LastOrBefore
  <2>3. n = Top.node /\ n = ctx
    BY <1>4, <2>1, <2>2 DEF Top, TreeInv, ContextFollowsCalls
  <2> QED
    BY <1>3, <1>11, <2>1, <2>3, ExitNodes
<1>12. CASE SyntaxError \/ UNCHANGED vars
  <2>1. UNCHANGED stack
    BY <1>12 DEF SyntaxError, vars
  <2> QED
    BY <1>2, <1>5, <2>1
<1> QED
  BY <1>7, <1>8, <1>9, <1>10, <1>11, <1>12 DEF Next, Step, Keep

-----------------------------------------------------------------------------
(***************************************************************************)
(* Nodes that are never empty.                                             *)
(***************************************************************************)
\* An item that may match nothing is one of empty.
Empties(empty) == \A it \in Items : \A e \in Expansions(it) : AllIn(e, empty) => it \in empty

Nonempty(rule, empty) == ~AllIn(Grammar[rule], empty)

StartOf(d) == nodes[stack[d].node].start

\* A function that has matched no token has more than empty items left, or has
\* called one that will match a token.
StillNonempty(d, empty) ==
    Nonempty(RuleOf(d), empty) /\ StartOf(d) = pos =>
        \/ ~AllIn(stack[d].rest, empty)
        \/ d < Len(stack) /\ Nonempty(RuleOf(d + 1), empty)

InOrder == \A n, m \in DOMAIN nodes : n <= m => nodes[n].start <= nodes[m].start

NonemptyInv(empty) ==
    /\ InOrder
    /\ \A d \in DOMAIN stack : StillNonempty(d, empty)
    /\ \A n \in DOMAIN nodes :
          Closed(n) /\ Nonempty(nodes[n].rule, empty) => nodes[n].start <= nodes[n].stop

LEMMA AllInConcat ==
    ASSUME NEW e \in Seq(Items), NEW v \in Seq(Items), NEW S
    PROVE  AllIn(e \o v, S) <=> AllIn(e, S) /\ AllIn(v, S)
<1> DEFINE w == e \o v
<1>1. /\ Len(e) \in Nat /\ Len(v) \in Nat /\ DOMAIN e = 1 .. Len(e) /\ DOMAIN v = 1 .. Len(v)
      /\ DOMAIN w = 1 .. Len(e) + Len(v)
      /\ \A i \in 1 .. Len(e) : w[i] = e[i]
      /\ \A i \in 1 .. Len(v) : w[Len(e) + i] = v[i]
  BY ConcatPlaces
<1> HIDE DEF w
<1>2. ASSUME AllIn(w, S) PROVE AllIn(e, S) /\ AllIn(v, S)
  <2>1. \A i \in 1 .. Len(e) : i \in DOMAIN w
    BY <1>1
  <2>2. \A i \in 1 .. Len(v) : Len(e) + i \in DOMAIN w
    BY <1>1
  <2>3. \A i \in 1 .. Len(v) : v[i] \in S
    BY <1>1, <1>2, <2>2 DEF AllIn
  <2> QED
    BY <1>1, <1>2, <2>1, <2>3 DEF AllIn
<1>3. ASSUME AllIn(e, S), AllIn(v, S), NEW i \in DOMAIN w PROVE w[i] \in S
  <2>1. CASE i <= Len(e)
    <3>1. i \in 1 .. Len(e)
      BY <1>1, <2>1
    <3> QED
      BY <1>1, <1>3, <3>1 DEF AllIn
  <2>2. CASE i > Len(e)
    <3> PICK k : k = i - Len(e)
      OBVIOUS
    <3>1. k \in 1 .. Len(v) /\ i = Len(e) + k
      BY <1>1, <2>2
    <3> QED
      BY <1>1, <1>3, <3>1 DEF AllIn
  <2> QED
    BY <1>1, <2>1, <2>2
<1> QED
  BY <1>2, <1>3 DEF AllIn, w

LEMMA AllInOne ==
    ASSUME NEW it \in Items, NEW v \in Seq(Items), NEW S
    PROVE  AllIn(<<it>> \o v, S) <=> it \in S /\ AllIn(v, S)
<1>1. <<it>> \in Seq(Items) /\ (AllIn(<<it>>, S) <=> it \in S)
  BY DEF AllIn
<1> QED
  BY <1>1, AllInConcat

LEMMA StepKeepsOrder ==
    ASSUME TreeInv, InOrder, [Next]_vars
    PROVE  InOrder'
<1> SUFFICES ASSUME NEW n \in DOMAIN nodes', NEW m \in DOMAIN nodes', n <= m
             PROVE  nodes'[n].start <= nodes'[m].start
  BY DEF InOrder
<1>1. Grows /\ TypeOK /\ pos \in Nat
  BY StepGrows, PosType DEF TreeInv
<1>2. \A k \in DOMAIN nodes : nodes'[k].start = nodes[k].start /\ nodes[k].start <= pos
  BY <1>1 DEF Grows, TreeInv, Bookkeeping
<1>3. DOMAIN nodes = 1 .. Len(nodes) /\ Len(nodes) \in Nat
  BY <1>1, NodeTypes
<1>0. TypeOK' /\ DOMAIN nodes' \subseteq Nat
  <2>1. TypeOK'
    BY StepKeepsTree DEF TreeInv
  <2>2. DOMAIN nodes' = 1 .. Len(nodes') /\ Len(nodes') \in Nat
    BY <2>1, NodeTypes
  <2> QED
    BY <2>1, <2>2
<1>4. CASE n \in DOMAIN nodes /\ m \in DOMAIN nodes
  BY <1>2, <1>4 DEF InOrder
<1>5. CASE n \in DOMAIN nodes /\ m \notin DOMAIN nodes
  BY <1>2, <1>5, NodeAdded
<1>6. CASE n \notin DOMAIN nodes /\ m \in DOMAIN nodes
  <2>1. m < n
    BY <1>6, NodeAdded
  <2> QED
    BY <1>0, <1>3, <2>1
<1>7. CASE n \notin DOMAIN nodes /\ m \notin DOMAIN nodes
  BY <1>1, <1>7, NodeAdded
<1> QED
  BY <1>4, <1>5, <1>6, <1>7

\* The functions have begun in the order in which they have been called.
LEMMA FramesInOrder ==
    ASSUME TreeInv, InOrder, NEW d \in 1 .. Len(stack), NEW c \in 1 .. d
    PROVE  StartOf(c) <= StartOf(d) /\ StartOf(d) <= pos /\ StartOf(c) \in Nat /\ StartOf(d) \in Nat
<1>1. TypeOK /\ pos \in Nat
  BY PosType DEF TreeInv
<1>2. Len(stack) \in Nat /\ DOMAIN stack = 1 .. Len(stack) /\ c \in 1 .. Len(stack)
  <2>1. Len(stack) \in Nat /\ DOMAIN stack = 1 .. Len(stack)
    BY <1>1, FrameTypes
  <2> QED
    BY <2>1
<1>3. stack[c].node \in DOMAIN nodes /\ stack[d].node \in DOMAIN nodes
  BY <1>1, <1>2, FrameTypes
<1>4. stack[c].node <= stack[d].node
  <2>1. stack[c].node \in Nat /\ stack[d].node \in Nat
    BY <1>1, <1>3, NodeTypes
  <2>2. c < d => stack[c].node < stack[d].node
    BY <1>2 DEF TreeInv, ContextFollowsCalls
  <2> QED
    BY <1>2, <2>1, <2>2
<1>5. nodes[stack[c].node].start \in Nat /\ nodes[stack[d].node].start \in Nat
  BY <1>1, <1>3, NodeTypes
<1> QED
  BY <1>3, <1>4, <1>5 DEF StartOf, InOrder, TreeInv, Bookkeeping

\* What a step does to the frames.
SameFrame(d) ==
    /\ stack'[d].node = stack[d].node /\ stack'[d].rest = stack[d].rest
    /\ RuleOf(d)' = RuleOf(d) /\ StartOf(d)' = StartOf(d)

LEMMA FrameStays ==
    ASSUME TreeInv, [Next]_vars, NEW d \in 1 .. Len(stack), stack'[d].node = stack[d].node
    PROVE  RuleOf(d)' = RuleOf(d) /\ StartOf(d)' = StartOf(d)
<1>1. TypeOK /\ Grows
  BY StepGrows DEF TreeInv
<1>2. stack[d].node \in DOMAIN nodes
  BY Zenon, <1>1, FrameTypes
<1> QED
  BY SMTT(60), <1>1, <1>2 DEF Grows, RuleOf, StartOf

LEMMA ContinueStep ==
    ASSUME TreeInv, [Next]_vars, stack # <<>>, NEW rest \in Seq(Items), Continue(rest)
    PROVE  /\ Len(stack) \in Nat \ {0} /\ Len(stack') = Len(stack)
           /\ DOMAIN stack = 1 .. Len(stack) /\ DOMAIN stack' = 1 .. Len(stack)
           /\ \A d \in 1 .. Len(stack) - 1 : d \in 1 .. Len(stack) /\ SameFrame(d)
           /\ stack'[Len(stack)].node = Top.node /\ stack'[Len(stack)].rest = rest
           /\ \A d \in 1 .. Len(stack) : RuleOf(d)' = RuleOf(d) /\ StartOf(d)' = StartOf(d)
<1> DEFINE L == Len(stack)
<1>1. TypeOK /\ TypeOK'
  BY StepKeepsTree DEF TreeInv
<1>2. /\ L \in Nat \ {0} /\ Len(stack') = L /\ stack'[L].rest = rest
      /\ \A d \in 1 .. L : /\ stack'[d].node = stack[d].node
                           /\ d # L => stack'[d] = stack[d]
  BY <1>1, ContinueTop
<1>3. DOMAIN stack = 1 .. L /\ DOMAIN stack' = 1 .. L
  BY <1>1, <1>2, FrameTypes
<1>4. L \in 1 .. L /\ \A d \in 1 .. L - 1 : d \in 1 .. L /\ d # L
  BY <1>2
<1>5. ASSUME NEW d \in 1 .. L - 1 PROVE SameFrame(d)
  BY <1>2, <1>4, FrameStays DEF SameFrame
<1>6. \A d \in 1 .. L : RuleOf(d)' = RuleOf(d) /\ StartOf(d)' = StartOf(d)
  BY <1>2, FrameStays
<1> QED
  BY <1>2, <1>3, <1>4, <1>5, <1>6 DEF Top

LEMMA MatchFrames ==
    ASSUME TreeInv, Match
    PROVE  /\ stack # <<>> /\ Top.rest # <<>> /\ Expected.k = "tok" /\ input[pos] \in Expected.set
           /\ Expected \in Items /\ Tail(Top.rest) \in Seq(Items)
           /\ Top.rest = <<Expected>> \o Tail(Top.rest) /\ Continue(Tail(Top.rest))
           /\ pos' = pos + 1 /\ UNCHANGED <<input, nodes, status, table>>
<1>1. TypeOK
  BY DEF TreeInv
<1>2. /\ stack # <<>> /\ Top.rest # <<>> /\ Top.rest \in Seq(Items)
      /\ Continue(Tail(Top.rest)) /\ pos' = pos + 1 /\ UNCHANGED <<input, nodes, status>>
  BY <1>1, MatchStep
<1>3. Expected.k = "tok" /\ input[pos] \in Expected.set /\ UNCHANGED table
  BY DEF Match, At
<1> QED
  BY <1>2, <1>3, FirstAndRest DEF Expected

LEMMA DecideFrames ==
    ASSUME TreeInv, Choose \/ EnterOptional \/ Iterate
    PROVE  /\ stack # <<>> /\ Top.rest # <<>> /\ Expected.k \in {"alt", "opt", "star"}
           /\ Expected \in Items /\ Tail(Top.rest) \in Seq(Items)
           /\ Top.rest = <<Expected>> \o Tail(Top.rest)
           /\ UNCHANGED <<input, pos, nodes, owner, status, table>>
           /\ \E e \in Seq(Items) : /\ e \in Expansions(Expected) /\ Answer(e)
                                    /\ e \o Tail(Top.rest) \in Seq(Items)
                                    /\ Continue(e \o Tail(Top.rest))
<1>1. TypeOK
  BY DEF TreeInv
<1>2. /\ stack # <<>> /\ Top.rest # <<>> /\ Expected.k \in {"alt", "opt", "star"}
      /\ Tail(Top.rest) \in Seq(Items)
      /\ \E e \in Seq(Items) : /\ e \in Expansions(Expected) /\ Answer(e)
                               /\ Continue(e \o Tail(Top.rest))
  BY <1>1, Decision
<1>3. \A e \in Seq(Items) : e \o Tail(Top.rest) \in Seq(Items)
  BY <1>2, ConcatProperties
<1>4. UNCHANGED <<input, pos, nodes, owner, status, table>>
  BY DEF Choose, EnterOptional, Iterate
<1>5. Expected \in Items /\ Top.rest = <<Expected>> \o Tail(Top.rest)
  BY <1>1, <1>2, TopType, FirstAndRest DEF Expected
<1> QED
  BY <1>2, <1>3, <1>4, <1>5

LEMMA EnterFrame ==
    ASSUME TreeInv, EnterRule
    PROVE  /\ stack # <<>> /\ Top.rest # <<>> /\ Expected.k = "rule"
           /\ Expected \in Items /\ Tail(Top.rest) \in Seq(Items)
           /\ Top.rest = <<Expected>> \o Tail(Top.rest)
           /\ Expected.sym \in DOMAIN Grammar /\ Expansions(Expected) = {Grammar[Expected.sym]}
           /\ Grammar[Expected.sym] \in Seq(Items)
           /\ Len(stack) \in Nat \ {0} /\ Len(stack') = Len(stack) + 1
           /\ DOMAIN stack = 1 .. Len(stack) /\ DOMAIN stack' = 1 .. Len(stack) + 1
           /\ \A d \in 1 .. Len(stack) - 1 : d \in 1 .. Len(stack) /\ SameFrame(d)
           /\ stack'[Len(stack)].node = Top.node /\ stack'[Len(stack)].rest = Tail(Top.rest)
           /\ \A d \in 1 .. Len(stack) : RuleOf(d)' = RuleOf(d) /\ StartOf(d)' = StartOf(d)
           /\ \A d : d = Len(stack) + 1 => RuleOf(d)' = Expected.sym /\ StartOf(d)' = pos
           /\ stack'[Len(stack) + 1].rest = Grammar[Expected.sym]
           /\ UNCHANGED <<input, pos, owner, status, table>>
<1> DEFINE L == Len(stack)
<1>1. TypeOK /\ TypeOK' /\ [Next]_vars
  BY StepKeepsTree DEF TreeInv, Next, Step
<1>2. /\ stack # <<>> /\ Top.rest # <<>> /\ Top.rest \in Seq(Items) /\ Expected.sym \in DOMAIN Grammar
      /\ Len(stack') = L + 1
      /\ \A d \in 1 .. L - 1 : stack'[d] = stack[d]
      /\ stack'[L].node = Top.node /\ stack'[L].rest = Tail(Top.rest)
      /\ stack'[L + 1].node = Len(nodes) + 1 /\ stack'[L + 1].rest = Grammar[Expected.sym]
      /\ nodes'[Len(nodes) + 1].rule = Expected.sym
      /\ UNCHANGED <<input, pos, owner, status>>
  BY <1>1, EnterStep
<1>3. Expected.k = "rule" /\ UNCHANGED table
  BY DEF EnterRule, At
<1>4. Expected \in Items /\ Tail(Top.rest) \in Seq(Items) /\ Top.rest = <<Expected>> \o Tail(Top.rest)
  BY <1>2, FirstAndRest DEF Expected
<1>5. Expansions(Expected) = {Grammar[Expected.sym]} /\ Grammar[Expected.sym] \in Seq(Items)
  BY <1>2, <1>3, <1>4, ExpansionTypes, GrammarAssumption
<1>6. L \in Nat \ {0} /\ DOMAIN stack = 1 .. L /\ DOMAIN stack' = 1 .. L + 1
  <2>1. L \in Nat \ {0}
    BY <1>1, <1>2, TopType
  <2> QED
    BY <1>1, <1>2, <2>1, FrameTypes
<1>7. L \in 1 .. L /\ \A d \in 1 .. L - 1 : d \in 1 .. L
  BY <1>6
<1>8. \A d \in 1 .. L - 1 : SameFrame(d)
  BY <1>1, <1>2, <1>7, FrameStays DEF SameFrame
<1>9. ASSUME NEW d \in 1 .. L PROVE RuleOf(d)' = RuleOf(d) /\ StartOf(d)' = StartOf(d)
  <2>1. stack'[d].node = stack[d].node
    BY <1>2, <1>6, LastOrBefore DEF Top
  <2> QED
    BY <1>1, <2>1, FrameStays
<1>10. ASSUME NEW d, d = L + 1 PROVE RuleOf(d)' = Expected.sym /\ StartOf(d)' = pos
  <2>1. Len(nodes) + 1 \in DOMAIN nodes' /\ Len(nodes) + 1 \notin DOMAIN nodes
    <3>1. PICK callers : Enter(Expected.sym, callers)
      BY DEF EnterRule
    <3>2. DOMAIN nodes' = 1 .. Len(nodes) + 1
      BY <1>1, <1>2, <3>1, EnterNodes
    <3>3. Len(nodes) \in Nat /\ DOMAIN nodes = 1 .. Len(nodes)
      BY <1>1, NodeTypes
    <3> QED
      BY <3>2, <3>3
  <2>2. nodes'[Len(nodes) + 1].start = pos
    BY <1>1, <2>1, NodeAdded
  <2> QED
    BY <1>2, <1>10, <2>2 DEF RuleOf, StartOf
<1> QED
  BY <1>2, <1>3, <1>4, <1>5, <1>6, <1>7, <1>8, <1>9, <1>10

LEMMA ExitFrame ==
    ASSUME TreeInv, ExitRule
    PROVE  /\ stack # <<>> /\ Top.rest = <<>>
           /\ Len(stack) \in Nat \ {0} /\ Len(stack') = Len(stack) - 1
           /\ DOMAIN stack = 1 .. Len(stack) /\ DOMAIN stack' = 1 .. Len(stack) - 1
           /\ \A d \in 1 .. Len(stack) - 1 : d \in 1 .. Len(stack) /\ SameFrame(d)
           /\ UNCHANGED <<input, pos, owner, table>>
<1> DEFINE L == Len(stack)
<1>1. TypeOK /\ TypeOK' /\ [Next]_vars
  BY StepKeepsTree DEF TreeInv, Next, Step
<1>2. stack # <<>> /\ Len(stack') = L - 1 /\ \A d \in 1 .. L - 1 : stack'[d] = stack[d]
  BY <1>1, ExitFrames
<1>3. Top.rest = <<>> /\ UNCHANGED <<input, pos, owner, table>>
  BY DEF ExitRule
<1>4. L \in Nat \ {0} /\ DOMAIN stack = 1 .. L /\ DOMAIN stack' = 1 .. L - 1
  <2>1. L \in Nat \ {0}
    BY <1>1, <1>2, TopType
  <2> QED
    BY <1>1, <1>2, <2>1, FrameTypes
<1>5. \A d \in 1 .. L - 1 : d \in 1 .. L
  BY <1>4
<1>6. \A d \in 1 .. L - 1 : SameFrame(d)
  BY <1>1, <1>2, <1>5, FrameStays DEF SameFrame
<1> QED
  BY <1>2, <1>3, <1>4, <1>5, <1>6

\* The one frame of a parse that begins.
LEMMA CallFrame ==
    ASSUME TreeInv, Call
    PROVE  /\ stack = <<>> /\ nodes = <<>> /\ owner = <<>> /\ pos = 1
           /\ Len(stack') = 1 /\ DOMAIN stack' = 1 .. 1
           /\ stack'[1].rest = Grammar[StartRule] /\ RuleOf(1)' = StartRule
           /\ DOMAIN nodes' = {1} /\ ~Closed(1)'
           /\ UNCHANGED <<input, pos, owner>>
<1>1. /\ stack = <<>> /\ nodes = <<>> /\ owner = <<>> /\ pos = 1
      /\ Len(stack') = 1 /\ stack'[1].rest = Grammar[StartRule] /\ stack'[1].node = 1
      /\ nodes'[1].rule = StartRule
      /\ UNCHANGED <<input, pos, owner>>
  BY CallStep
<1>2. TypeOK /\ TypeOK'
  BY StepKeepsTree DEF TreeInv, Next
<1>3. DOMAIN stack' = 1 .. 1
  BY <1>1, <1>2, FrameTypes
<1>4. ~Closed(1)'
  BY <1>1, <1>3 DEF Closed, Open
<1>5. DOMAIN nodes' = {1}
  <2>1. DOMAIN nodes' = 1 .. 0 + 1
    BY <1>1, <1>2, EnterNodes, GrammarAssumption DEF Call
  <2> QED
    BY <2>1
<1> QED
  BY <1>1, <1>3, <1>4, <1>5 DEF RuleOf

\* A node of such a rule is closed behind at least one token.
LEMMA StepKeepsNonempty ==
    ASSUME TreeInv, [Next]_vars, NEW empty, Empties(empty), NonemptyInv(empty)
    PROVE  NonemptyInv(empty)'
<1> DEFINE L == Len(stack)
           Ne(rule) == Nonempty(rule, empty)
<1>0. TypeOK /\ Grows /\ pos \in Nat \ {0} /\ InOrder
  BY StepGrows, PosType DEF TreeInv, NonemptyInv
<1>1. InOrder'
  BY <1>0, StepKeepsOrder
<1>2. \A d \in DOMAIN stack : StillNonempty(d, empty)
  BY DEF NonemptyInv
<1>3. \A it \in Items : \A e \in Expansions(it) : AllIn(e, empty) => it \in empty
  BY DEF Empties
<1>4. ASSUME NEW n \in DOMAIN nodes', Closed(n)', Ne(nodes'[n].rule)
      PROVE  nodes'[n].start <= nodes'[n].stop
  <2>1. CASE n \in DOMAIN nodes /\ Closed(n)
    <3>1. nodes'[n].start = nodes[n].start /\ nodes'[n].stop = nodes[n].stop /\ nodes'[n].rule = nodes[n].rule
      BY <1>0, <2>1 DEF Grows
    <3> QED
      BY <1>4, <2>1, <3>1 DEF NonemptyInv
  <2>2. CASE ~(n \in DOMAIN nodes /\ Closed(n))
    <3>1. stack # <<>> /\ Top.rest = <<>> /\ n = Top.node /\ n \in DOMAIN nodes /\ nodes'[n].stop = pos - 1
      BY <1>4, <2>2, NodeClosed
    <3>2. L \in Nat \ {0} /\ DOMAIN stack = 1 .. L /\ L \in DOMAIN stack /\ Top = stack[L]
      BY <1>0, <3>1, TopType DEF Top
    <3>3. nodes'[n].start = nodes[n].start /\ nodes'[n].rule = nodes[n].rule /\ nodes[n].start \in Nat
      BY <1>0, <3>1, NodeTypes DEF Grows
    <3>4. RuleOf(L) = nodes[n].rule /\ StartOf(L) = nodes[n].start
      BY <3>1, <3>2 DEF RuleOf, StartOf
    <3>5. AllIn(stack[L].rest, empty) /\ ~(L < L)
      BY <3>1, <3>2 DEF AllIn
    <3>6. StartOf(L) # pos
      BY <1>2, <1>4, <3>2, <3>3, <3>4, <3>5 DEF StillNonempty
    <3>7. nodes[n].start <= pos
      BY <3>1 DEF TreeInv, Bookkeeping
    <3> QED
      BY <1>0, <3>1, <3>3, <3>4, <3>6, <3>7
  <2> QED
    BY <2>1, <2>2
<1>5. ASSUME NEW d, SameFrame(d), UNCHANGED pos, d \in DOMAIN stack,
             d < L /\ Ne(RuleOf(d + 1)) => d < Len(stack') /\ Ne(RuleOf(d + 1)')
      PROVE  StillNonempty(d, empty)'
  <2>1. StillNonempty(d, empty)
    BY <1>2, <1>5
  <2>2. stack'[d].rest = stack[d].rest /\ RuleOf(d)' = RuleOf(d) /\ StartOf(d)' = StartOf(d)
    BY <1>5 DEF SameFrame
  <2>3. ASSUME Ne(RuleOf(d)), StartOf(d) = pos
        PROVE  ~AllIn(stack[d].rest, empty) \/ (d < Len(stack') /\ Ne(RuleOf(d + 1)'))
    BY <1>5, <2>1, <2>3 DEF StillNonempty
  <2> QED
    BY <1>5, <2>2, <2>3 DEF StillNonempty
<1>6. ASSUME NEW d \in DOMAIN stack', StartOf(d)' < pos' PROVE StillNonempty(d, empty)'
  <2>1. StartOf(d)' # pos'
    <3>1. pos' = pos + 1 \/ pos' = pos
      BY DEF Next, Step, Call, Match, EnterRule, Choose, EnterOptional, Iterate, ExitRule, SyntaxError, Keep, vars
    <3> QED
      BY <1>0, <1>6, <3>1
  <2> QED
    BY <2>1 DEF StillNonempty
<1>7. ASSUME NEW d \in DOMAIN stack', ~AllIn(stack'[d].rest, empty) PROVE StillNonempty(d, empty)'
  BY <1>7 DEF StillNonempty
<1>8. SUFFICES ASSUME NEW d \in DOMAIN stack' PROVE StillNonempty(d, empty)'
  BY <1>1, <1>4 DEF NonemptyInv
<1>9. CASE Match
  <2>1. /\ stack # <<>> /\ Tail(Top.rest) \in Seq(Items) /\ Continue(Tail(Top.rest)) /\ pos' = pos + 1
    BY <1>9, MatchFrames
  <2>2. /\ L \in Nat \ {0} /\ DOMAIN stack' = 1 .. L /\ StartOf(d)' = StartOf(d)
    BY <1>8, <2>1, ContinueStep
  <2>3. d \in 1 .. d /\ d \in 1 .. L
    BY <2>2
  <2>4. StartOf(d) <= pos /\ StartOf(d) \in Nat
    BY <1>0, <2>3, FramesInOrder
  <2>5. StartOf(d)' < pos'
    BY <1>0, <2>1, <2>2, <2>4
  <2> QED
    BY <1>6, <2>5
<1>10. CASE Choose \/ EnterOptional \/ Iterate
  <2>1. /\ stack # <<>> /\ Expected \in Items /\ Tail(Top.rest) \in Seq(Items)
        /\ Top.rest = <<Expected>> \o Tail(Top.rest) /\ UNCHANGED <<pos, nodes>>
    BY <1>10, DecideFrames
  <2>2. PICK e \in Seq(Items) : /\ e \in Expansions(Expected) /\ e \o Tail(Top.rest) \in Seq(Items)
                                /\ Continue(e \o Tail(Top.rest))
    BY <1>10, DecideFrames
  <2>3. /\ L \in Nat \ {0} /\ Len(stack') = L /\ DOMAIN stack = 1 .. L /\ DOMAIN stack' = 1 .. L
        /\ \A c \in 1 .. L - 1 : c \in 1 .. L /\ SameFrame(c)
        /\ stack'[L].rest = e \o Tail(Top.rest)
        /\ \A c \in 1 .. L : RuleOf(c)' = RuleOf(c) /\ StartOf(c)' = StartOf(c)
    BY <2>1, <2>2, ContinueStep
  <2>4. CASE d \in 1 .. L - 1
    <3>1. d + 1 \in 1 .. L /\ d \in DOMAIN stack /\ SameFrame(d)
      BY <2>3, <2>4
    <3>2. \A c : c = d + 1 => RuleOf(c)' = RuleOf(c)
      BY <2>3, <3>1
    <3> QED
      BY <1>5, <2>1, <2>3, <3>1, <3>2
  <2>5. CASE d = L
    <3>1. StillNonempty(L, empty) /\ L \in 1 .. L /\ ~(L < L)
      BY <1>2, <2>3
    <3>2. RuleOf(d)' = RuleOf(L) /\ StartOf(d)' = StartOf(L)
      BY <2>3, <2>5, <3>1
    <3>3. ASSUME ~AllIn(stack[L].rest, empty) PROVE ~AllIn(stack'[L].rest, empty)
      <4>1. stack[L].rest = <<Expected>> \o Tail(Top.rest)
        BY <2>1 DEF Top
      <4>2. ~(Expected \in empty /\ AllIn(Tail(Top.rest), empty))
        BY <2>1, <3>3, <4>1, AllInOne
      <4>3. ~(AllIn(e, empty) /\ AllIn(Tail(Top.rest), empty))
        BY <1>3, <2>1, <2>2, <4>2
      <4> QED
        BY <2>1, <2>2, <2>3, <4>3, AllInConcat
    <3> QED
      BY <2>1, <2>5, <3>1, <3>2, <3>3 DEF StillNonempty
  <2> QED
    BY <1>8, <2>3, <2>4, <2>5, LastOrBefore
<1>11. CASE EnterRule
  <2>1. /\ stack # <<>> /\ Expected \in Items /\ Tail(Top.rest) \in Seq(Items)
        /\ Top.rest = <<Expected>> \o Tail(Top.rest)
        /\ Expansions(Expected) = {Grammar[Expected.sym]}
        /\ L \in Nat \ {0} /\ Len(stack') = L + 1
        /\ DOMAIN stack = 1 .. L /\ DOMAIN stack' = 1 .. L + 1
        /\ \A c \in 1 .. L - 1 : c \in 1 .. L /\ SameFrame(c)
        /\ stack'[L].rest = Tail(Top.rest)
        /\ \A c \in 1 .. L : RuleOf(c)' = RuleOf(c) /\ StartOf(c)' = StartOf(c)
        /\ \A c : c = L + 1 => RuleOf(c)' = Expected.sym
        /\ stack'[L + 1].rest = Grammar[Expected.sym]
        /\ UNCHANGED pos
    BY <1>11, EnterFrame
  <2>2. CASE d \in 1 .. L - 1
    <3>1. d + 1 \in 1 .. L /\ d \in DOMAIN stack /\ SameFrame(d) /\ d < L + 1
      BY <2>1, <2>2
    <3>2. \A c : c = d + 1 => RuleOf(c)' = RuleOf(c)
      BY <2>1, <3>1
    <3> QED
      BY <1>5, <2>1, <3>1, <3>2
  <2>3. CASE d = L
    <3>1. StillNonempty(L, empty) /\ L \in 1 .. L /\ ~(L < L) /\ L < L + 1
      BY <1>2, <2>1
    <3>2. RuleOf(d)' = RuleOf(L) /\ StartOf(d)' = StartOf(L)
      BY <2>1, <2>3, <3>1
    <3>3. ASSUME ~AllIn(stack[L].rest, empty) PROVE ~AllIn(stack'[L].rest, empty) \/ Ne(Expected.sym)
      <4>1. stack[L].rest = <<Expected>> \o Tail(Top.rest)
        BY <2>1 DEF Top
      <4>0. Expected \in Items /\ Tail(Top.rest) \in Seq(Items)
        BY <2>1
      <4>2. ~(Expected \in empty /\ AllIn(Tail(Top.rest), empty))
        BY <3>3, <4>0, <4>1, AllInOne
      <4> QED
        BY <1>3, <2>1, <4>2 DEF Nonempty
    <3>4. \A c : c = d + 1 => RuleOf(c)' = Expected.sym
      BY <2>1, <2>3
    <3> QED
      BY <2>1, <2>3, <3>1, <3>2, <3>3, <3>4 DEF StillNonempty
  <2>4. CASE d = L + 1
    <3>1. RuleOf(d)' = Expected.sym
      BY <2>1, <2>4
    <3> QED
      BY <2>1, <2>4, <3>1 DEF StillNonempty, Nonempty
  <2>5. d \in 1 .. L - 1 \/ d = L \/ d = L + 1
    BY <1>8, <2>1
  <2> QED
    BY <2>2, <2>3, <2>4, <2>5
<1>12. CASE ExitRule
  <2>1. /\ Top.rest = <<>> /\ L \in Nat \ {0} /\ Len(stack') = L - 1 /\ DOMAIN stack = 1 .. L
        /\ DOMAIN stack' = 1 .. L - 1 /\ \A c \in 1 .. L - 1 : c \in 1 .. L /\ SameFrame(c)
        /\ UNCHANGED pos
    BY <1>12, ExitFrame
  <2>2. d \in 1 .. L - 1 /\ d \in 1 .. L /\ SameFrame(d) /\ d \in DOMAIN stack
    BY <1>8, <2>1
  <2>3. CASE d < L - 1
    <3>1. d + 1 \in 1 .. L - 1
      BY <2>1, <2>2, <2>3
    <3>2. \A c : c = d + 1 => RuleOf(c)' = RuleOf(c)
      BY <2>1, <3>1 DEF SameFrame
    <3> QED
      BY <1>5, <2>1, <2>2, <2>3, <3>2
  <2>4. CASE d = L - 1
    <3>1. ASSUME Ne(RuleOf(L)), StartOf(L - 1) = pos PROVE FALSE
      <4>1. L \in 1 .. L /\ L - 1 \in 1 .. L
        BY <2>1, <2>2, <2>4
      <4>2. StartOf(L - 1) <= StartOf(L) /\ StartOf(L) <= pos /\ StartOf(L) \in Nat
        BY <1>0, <4>1, FramesInOrder
      <4>3. StartOf(L) = pos
        BY <1>0, <3>1, <4>2
      <4>4. AllIn(stack[L].rest, empty) /\ ~(L < L)
        BY <2>1 DEF AllIn, Top
      <4> QED
        BY <1>2, <2>1, <3>1, <4>1, <4>3, <4>4 DEF StillNonempty
    <3>2. StillNonempty(d, empty) /\ L - 1 + 1 = L
      BY <1>2, <2>1, <2>2
    <3>3. stack'[d].rest = stack[d].rest /\ RuleOf(d)' = RuleOf(d) /\ StartOf(d)' = StartOf(d)
      BY <2>2 DEF SameFrame
    <3>4. Ne(RuleOf(d)) /\ StartOf(d) = pos => ~AllIn(stack[d].rest, empty)
      BY <2>4, <3>1, <3>2 DEF StillNonempty
    <3> QED
      BY <2>1, <3>3, <3>4 DEF StillNonempty
  <2> QED
    BY <2>1, <2>2, <2>3, <2>4
<1>13. CASE Call
  <2>1. DOMAIN stack' = 1 .. 1 /\ stack'[1].rest = Grammar[StartRule] /\ RuleOf(1)' = StartRule
    BY <1>13, CallFrame
  <2>2. d = 1
    BY <1>8, <2>1
  <2> QED
    BY <2>1, <2>2 DEF StillNonempty, Nonempty
<1>14. CASE SyntaxError \/ UNCHANGED vars
  <2>1. UNCHANGED <<stack, nodes, pos>>
    BY <1>14 DEF SyntaxError, vars
  <2> QED
    BY <1>2, <1>8, <2>1 DEF StillNonempty, RuleOf, StartOf
<1> QED
  BY <1>9, <1>10, <1>11, <1>12, <1>13, <1>14 DEF Next, Step, Keep

-----------------------------------------------------------------------------
(***************************************************************************)
(* What stands last in what a function has left.                           *)
(***************************************************************************)
LEMMA LastOfConcat ==
    ASSUME NEW e \in Seq(Items), NEW v \in Seq(Items), NEW S
    PROVE  /\ v # <<>> => (LastIn(e \o v, S) <=> LastIn(v, S))
           /\ v = <<>> => e \o v = e
<1>1. CASE v = <<>>
  BY <1>1, ConcatEmptySeq
<1>2. CASE v # <<>>
  <2> DEFINE w == e \o v
  <2>1. /\ Len(e) \in Nat /\ Len(v) \in Nat /\ Len(w) = Len(e) + Len(v) /\ w \in Seq(Items)
        /\ \A i \in 1 .. Len(v) : w[Len(e) + i] = v[i]
    BY ConcatPlaces
  <2> HIDE DEF w
  <2>2. Len(v) # 0
    BY <1>2, EmptySeq
  <2>3. Len(v) \in 1 .. Len(v) /\ Len(w) # 0
    BY <2>1, <2>2
  <2>4. w[Len(w)] = v[Len(v)]
    BY <2>1, <2>3
  <2>5. w # <<>>
    BY <2>3
  <2>6. LastIn(w, S) <=> LastIn(v, S)
    BY <1>2, <2>4, <2>5 DEF LastIn
  <2> QED
    BY <1>2, <2>6 DEF w
<1> QED
  BY <1>1, <1>2

LEMMA LastOfOne ==
    ASSUME NEW it \in Items, NEW v \in Seq(Items), NEW S
    PROVE  /\ v # <<>> => (LastIn(<<it>> \o v, S) <=> LastIn(v, S))
           /\ v = <<>> => (LastIn(<<it>> \o v, S) <=> it \in S)
<1>1. <<it>> \in Seq(Items) /\ (LastIn(<<it>>, S) <=> it \in S)
  BY DEF LastIn
<1> QED
  BY <1>1, LastOfConcat

\* A function of one of the rules has an ending left, or has called another one
\* as its last item.
EndsWell(d, rules, endings) ==
    /\ stack[d].rest # <<>> => LastIn(stack[d].rest, endings)
    /\ stack[d].rest = <<>> /\ d < Len(stack) => RuleOf(d + 1) \in rules

EndingsInv(rules, endings) ==
    \A d \in DOMAIN stack : RuleOf(d) \in rules => EndsWell(d, rules, endings)

\* What an ending is replaced by: nothing, or something that ends well again.
LEMMA EndingExpansion ==
    ASSUME NEW rules, NEW endings, NEW semi, Closing(rules, endings, semi),
           NEW it \in Items, it \in endings, it.k \in {"alt", "opt", "star"}, semi.k = "tok",
           NEW e \in Expansions(it)
    PROVE  e = <<>> \/ LastIn(e, endings)
<1>1. \/ it.k = "opt" /\ it.alts[1] = <<semi>>
      \/ it \in ClauseLoops
      \/ it.k = "alt" /\ \A n \in DOMAIN it.alts : LastIn(it.alts[n], endings)
  BY DEF Closing
<1>2. CASE it.k = "opt" /\ it.alts[1] = <<semi>>
  <2>1. Expansions(it) = {<<>>, <<semi>>}
    BY <1>2 DEF Expansions
  <2>2. LastIn(<<semi>>, endings)
    BY DEF LastIn, Closing
  <2> QED
    BY <2>1, <2>2
<1>3. CASE it \in ClauseLoops
  <2>1. PICK clause \in Items : it.alts[1] = <<clause>> /\ it.k = "star"
    BY <1>3 DEF ClauseLoops, References
  <2>2. Expansions(it) = {<<>>, Append(<<clause>>, it)}
    BY <2>1 DEF Expansions
  <2>3. LastIn(Append(<<clause>>, it), endings)
    <3>1. <<clause>> \in Seq(Items) /\ Len(<<clause>>) = 1
      OBVIOUS
    <3> PICK v : v = Append(<<clause>>, it)
      OBVIOUS
    <3>2. v \in Seq(Items) /\ Len(v) = 2 /\ v[2] = it
      BY <3>1, AppendProperties
    <3>3. v # <<>>
      BY <3>2
    <3> QED
      BY <3>2, <3>3 DEF LastIn
  <2> QED
    BY <2>2, <2>3
<1>4. CASE it.k = "alt" /\ \A n \in DOMAIN it.alts : LastIn(it.alts[n], endings)
  BY <1>4 DEF Expansions
<1> QED
  BY <1>1, <1>2, <1>3, <1>4

LEMMA StepKeepsEndings ==
    ASSUME TreeInv, [Next]_vars, NEW rules, NEW endings, NEW semi,
           Closing(rules, endings, semi), semi.k = "tok", EndingsInv(rules, endings)
    PROVE  EndingsInv(rules, endings)'
<1> DEFINE L == Len(stack)
<1>1. \A d \in DOMAIN stack : RuleOf(d) \in rules => EndsWell(d, rules, endings)
  BY DEF EndingsInv
<1>2. SUFFICES ASSUME NEW d \in DOMAIN stack', RuleOf(d)' \in rules PROVE EndsWell(d, rules, endings)'
  BY DEF EndingsInv
<1>3. ASSUME d \in DOMAIN stack, SameFrame(d),
             d < Len(stack') => d < L /\ RuleOf(d + 1)' = RuleOf(d + 1)
      PROVE  EndsWell(d, rules, endings)'
  <2>1. EndsWell(d, rules, endings) /\ stack'[d].rest = stack[d].rest
    BY <1>1, <1>2, <1>3 DEF SameFrame
  <2> QED
    BY <1>3, <2>1 DEF EndsWell
<1>4. \A rule \in rules \cap DOMAIN Grammar : LastIn(Grammar[rule], endings)
  BY DEF Closing
<1>5. \A it \in endings : it.k = "tok" => it = semi
  BY DEF Closing, ClauseLoops
<1>6. \A it \in endings : it.k = "rule" => it.sym \in rules
  BY DEF Closing, ClauseLoops
<1>7. CASE Match
  <2>1. /\ stack # <<>> /\ Tail(Top.rest) \in Seq(Items) /\ Continue(Tail(Top.rest))
        /\ Expected \in Items /\ Top.rest = <<Expected>> \o Tail(Top.rest) /\ Top.rest # <<>>
    BY <1>7, MatchFrames
  <2>2. [Next]_vars
    OBVIOUS
  <2>3. /\ L \in Nat \ {0} /\ Len(stack') = L /\ DOMAIN stack = 1 .. L /\ DOMAIN stack' = 1 .. L
        /\ \A c \in 1 .. L - 1 : c \in 1 .. L /\ SameFrame(c)
        /\ stack'[L].rest = Tail(Top.rest)
        /\ \A c \in 1 .. L : RuleOf(c)' = RuleOf(c)
    BY <2>1, ContinueStep
  <2>4. CASE d \in 1 .. L - 1
    <3>1. d + 1 \in 1 .. L /\ d \in DOMAIN stack /\ SameFrame(d) /\ d < L
      BY <2>3, <2>4
    <3>2. \A c : c = d + 1 => RuleOf(c)' = RuleOf(c)
      BY <2>3, <3>1
    <3> QED
      BY <1>3, <3>1, <3>2
  <2>5. CASE d = L
    <3>1. EndsWell(L, rules, endings) /\ ~(L < L)
      BY <1>1, <1>2, <2>3, <2>5
    <3>2. LastIn(<<Expected>> \o Tail(Top.rest), endings)
      BY <2>1, <3>1 DEF EndsWell, Top
    <3>3. Tail(Top.rest) # <<>> => LastIn(Tail(Top.rest), endings)
      BY <2>1, <3>2, LastOfOne
    <3> QED
      BY <2>3, <2>5, <3>1, <3>3 DEF EndsWell
  <2> QED
    BY <1>2, <2>3, <2>4, <2>5, LastOrBefore
<1>8. CASE Choose \/ EnterOptional \/ Iterate
  <2>1. /\ stack # <<>> /\ Tail(Top.rest) \in Seq(Items) /\ Expected.k \in {"alt", "opt", "star"}
        /\ Expected \in Items /\ Top.rest = <<Expected>> \o Tail(Top.rest) /\ Top.rest # <<>>
    BY <1>8, DecideFrames
  <2>2. PICK e \in Seq(Items) : /\ e \in Expansions(Expected) /\ e \o Tail(Top.rest) \in Seq(Items)
                                /\ Continue(e \o Tail(Top.rest))
    BY <1>8, DecideFrames
  <2>3. /\ L \in Nat \ {0} /\ Len(stack') = L /\ DOMAIN stack = 1 .. L /\ DOMAIN stack' = 1 .. L
        /\ \A c \in 1 .. L - 1 : c \in 1 .. L /\ SameFrame(c)
        /\ stack'[L].rest = e \o Tail(Top.rest)
        /\ \A c \in 1 .. L : RuleOf(c)' = RuleOf(c)
    BY <2>1, <2>2, ContinueStep
  <2>4. CASE d \in 1 .. L - 1
    <3>1. d + 1 \in 1 .. L /\ d \in DOMAIN stack /\ SameFrame(d) /\ d < L
      BY <2>3, <2>4
    <3>2. \A c : c = d + 1 => RuleOf(c)' = RuleOf(c)
      BY <2>3, <3>1
    <3> QED
      BY <1>3, <3>1, <3>2
  <2>5. CASE d = L
    <3>1. EndsWell(L, rules, endings) /\ ~(L < L)
      BY <1>1, <1>2, <2>3, <2>5
    <3>2. LastIn(<<Expected>> \o Tail(Top.rest), endings)
      BY <2>1, <3>1 DEF EndsWell, Top
    <3>3. CASE Tail(Top.rest) # <<>>
      <4>1. LastIn(e \o Tail(Top.rest), endings)
        BY ZenonT(60), <2>1, <2>2, <3>2, <3>3, LastOfOne, LastOfConcat
      <4> QED
        BY <2>3, <2>5, <3>1, <4>1 DEF EndsWell, LastIn
    <3>4. CASE Tail(Top.rest) = <<>>
      <4>1. Expected \in endings /\ e \o Tail(Top.rest) = e
        BY <2>1, <2>2, <3>2, <3>4, LastOfOne, LastOfConcat
      <4>2. e = <<>> \/ LastIn(e, endings)
        BY <2>1, <2>2, <4>1, EndingExpansion
      <4> QED
        BY <2>3, <2>5, <3>1, <4>1, <4>2 DEF EndsWell
    <3> QED
      BY <3>3, <3>4
  <2> QED
    BY <1>2, <2>3, <2>4, <2>5, LastOrBefore
<1>9. CASE EnterRule
  <2>1. /\ Expected \in Items /\ Tail(Top.rest) \in Seq(Items) /\ Expected.k = "rule"
        /\ Top.rest = <<Expected>> \o Tail(Top.rest) /\ Top.rest # <<>>
        /\ Expected.sym \in DOMAIN Grammar
        /\ L \in Nat \ {0} /\ Len(stack') = L + 1
        /\ DOMAIN stack = 1 .. L /\ DOMAIN stack' = 1 .. L + 1
        /\ \A c \in 1 .. L - 1 : c \in 1 .. L /\ SameFrame(c)
        /\ stack'[L].rest = Tail(Top.rest)
        /\ \A c \in 1 .. L : RuleOf(c)' = RuleOf(c)
        /\ \A c : c = L + 1 => RuleOf(c)' = Expected.sym
        /\ stack'[L + 1].rest = Grammar[Expected.sym]
    BY <1>9, EnterFrame
  <2>2. CASE d \in 1 .. L - 1
    <3>1. d + 1 \in 1 .. L /\ d \in DOMAIN stack /\ SameFrame(d) /\ d < L
      BY <2>1, <2>2
    <3>2. \A c : c = d + 1 => RuleOf(c)' = RuleOf(c)
      BY <2>1, <3>1
    <3> QED
      BY <1>3, <3>1, <3>2
  <2>3. CASE d = L
    <3>1. EndsWell(L, rules, endings)
      BY <1>1, <1>2, <2>1, <2>3
    <3>2. LastIn(<<Expected>> \o Tail(Top.rest), endings)
      BY <2>1, <3>1 DEF EndsWell, Top
    <3>3. Tail(Top.rest) # <<>> => LastIn(Tail(Top.rest), endings)
      BY <2>1, <3>2, LastOfOne
    <3>4. Tail(Top.rest) = <<>> => Expected.sym \in rules
      BY <1>6, <2>1, <3>2, LastOfOne
    <3>5. \A c : c = d + 1 => RuleOf(c)' = Expected.sym
      BY <2>1, <2>3
    <3> QED
      BY <2>1, <2>3, <3>3, <3>4, <3>5 DEF EndsWell
  <2>4. CASE d = L + 1
    <3>1. RuleOf(d)' = Expected.sym
      BY <2>1, <2>4
    <3>2. LastIn(Grammar[Expected.sym], endings)
      BY <1>2, <1>4, <2>1, <3>1
    <3> QED
      BY <2>1, <2>4, <3>2 DEF EndsWell, LastIn
  <2>5. d \in 1 .. L - 1 \/ d = L \/ d = L + 1
    BY <1>2, <2>1
  <2> QED
    BY <2>2, <2>3, <2>4, <2>5
<1>10. CASE ExitRule
  <2>1. /\ L \in Nat \ {0} /\ Len(stack') = L - 1 /\ DOMAIN stack = 1 .. L
        /\ DOMAIN stack' = 1 .. L - 1 /\ \A c \in 1 .. L - 1 : c \in 1 .. L /\ SameFrame(c)
    BY <1>10, ExitFrame
  <2>2. d \in 1 .. L - 1 /\ d \in DOMAIN stack /\ SameFrame(d) /\ d < L
    BY <1>2, <2>1
  <2>3. ASSUME d < L - 1 PROVE RuleOf(d + 1)' = RuleOf(d + 1)
    <3>1. d + 1 \in 1 .. L - 1
      BY <2>1, <2>2, <2>3
    <3>2. \A c : c = d + 1 => RuleOf(c)' = RuleOf(c)
      BY <2>1, <3>1 DEF SameFrame
    <3> QED
      BY <3>2
  <2> QED
    BY <1>3, <2>1, <2>2, <2>3
<1>11. CASE Call
  <2>1. DOMAIN stack' = 1 .. 1 /\ Len(stack') = 1 /\ stack'[1].rest = Grammar[StartRule] /\ RuleOf(1)' = StartRule
    BY <1>11, CallFrame
  <2>2. d = 1 /\ ~(d < Len(stack'))
    BY <1>2, <2>1
  <2>3. LastIn(Grammar[StartRule], endings)
    BY <1>2, <1>4, <2>1, <2>2, GrammarAssumption
  <2> QED
    BY <2>1, <2>2, <2>3 DEF EndsWell, LastIn
<1>12. CASE SyntaxError \/ UNCHANGED vars
  <2>1. UNCHANGED <<stack, nodes>>
    BY <1>12 DEF SyntaxError, vars
  <2> QED
    BY <1>1, <1>2, <2>1 DEF EndsWell, RuleOf
<1> QED
  BY <1>7, <1>8, <1>9, <1>10, <1>11, <1>12 DEF Next, Step, Keep

-----------------------------------------------------------------------------
(***************************************************************************)
(* A semicolon behind a statement.                                         *)
(***************************************************************************)
LEMMA MayBeginFirst ==
    ASSUME NEW it \in Items, NEW v \in Seq(Items), NEW traits, traits.single = {}, it \in traits.first
    PROVE  MayBegin(<<it>> \o v, traits)
<1> DEFINE w == <<it>> \o v
<1>1. 1 \in DOMAIN w /\ w[1] = it
  <2>1. Len(v) \in Nat /\ DOMAIN w = 1 .. Len(v) + 1 /\ w[1] = it
    BY FirstThen
  <2> QED
    BY <2>1
<1>2. \A k \in 1 .. 1 - 1 : w[k] \in traits.empty
  OBVIOUS
<1> HIDE DEF w
<1>3. MayBegin(w, traits)
  BY <1>1, <1>2 DEF MayBegin, Labelled
<1> QED
  BY <1>3 DEF w

LEMMA MayBeginBehind ==
    ASSUME NEW it \in Items, NEW v \in Seq(Items), NEW traits, it \in traits.empty, MayBegin(v, traits)
    PROVE  MayBegin(<<it>> \o v, traits)
<1> DEFINE w == <<it>> \o v
<1>0. <<it>> \in Seq(Items) /\ Len(<<it>>) = 1
  OBVIOUS
<1>1. /\ Len(v) \in Nat /\ DOMAIN v = 1 .. Len(v) /\ DOMAIN w = 1 .. Len(v) + 1
      /\ w[1] = it /\ \A i \in 1 .. Len(v) : w[i + 1] = v[i]
  BY FirstThen
<1>2. \A j \in 1 .. Len(v) : Labelled(w, 1 + j, traits) <=> Labelled(v, j, traits)
  BY <1>0, LabelledBehind
<1> HIDE DEF w
<1>3. PICK j \in DOMAIN v : /\ v[j] \in traits.first /\ ~Labelled(v, j, traits)
                            /\ \A k \in 1 .. j - 1 : v[k] \in traits.empty
  BY DEF MayBegin
<1>4. j \in 1 .. Len(v) /\ j + 1 \in DOMAIN w /\ j + 1 = 1 + j
  BY <1>1
<1>5. w[j + 1] \in traits.first /\ ~Labelled(w, j + 1, traits)
  BY <1>1, <1>2, <1>3, <1>4
<1>6. ASSUME NEW k \in 1 .. j + 1 - 1 PROVE w[k] \in traits.empty
  <2>1. CASE k = 1
    BY <1>1, <2>1
  <2>2. CASE k # 1
    <3>1. k - 1 \in 1 .. j - 1 /\ k - 1 \in 1 .. Len(v) /\ (k - 1) + 1 = k
      BY <1>1, <2>2
    <3>2. w[(k - 1) + 1] = v[k - 1]
      BY <1>1, <3>1
    <3> QED
      BY <1>3, <3>1, <3>2
  <2> QED
    BY <2>1, <2>2
<1>7. MayBegin(w, traits)
  BY <1>4, <1>5, <1>6 DEF MayBegin
<1> QED
  BY <1>7 DEF w

LEMMA MayBeginConcat ==
    ASSUME NEW e \in Seq(Items), NEW v \in Seq(Items), NEW traits, traits.single = {},
           MayBegin(e \o v, traits), ~MayBegin(e, traits)
    PROVE  AllIn(e, traits.empty)
<1> DEFINE w == e \o v
<1>1. /\ Len(e) \in Nat /\ DOMAIN e = 1 .. Len(e) /\ Len(v) \in Nat
      /\ DOMAIN w = 1 .. Len(e) + Len(v)
      /\ \A i \in 1 .. Len(e) : w[i] = e[i]
  BY ConcatPlaces
<1>2. PICK j \in DOMAIN w : w[j] \in traits.first /\ \A k \in 1 .. j - 1 : w[k] \in traits.empty
  BY DEF MayBegin
<1> HIDE DEF w
<1>3. CASE j <= Len(e)
  <2>1. j \in 1 .. Len(e) /\ \A k \in 1 .. j - 1 : k \in 1 .. Len(e)
    BY <1>1, <1>3
  <2>2. e[j] \in traits.first /\ \A k \in 1 .. j - 1 : e[k] \in traits.empty
    BY <1>1, <1>2, <2>1
  <2> QED
    BY <1>1, <2>1, <2>2 DEF MayBegin, Labelled
<1>4. CASE j > Len(e)
  <2>1. \A k \in 1 .. Len(e) : k \in 1 .. j - 1
    BY <1>1, <1>4
  <2> QED
    BY <1>1, <1>2, <2>1 DEF AllIn
<1> QED
  BY <1>1, <1>3, <1>4

\* What does not match behind a semicolon does not do so after a replacement.
LEMMA NotBehindSemi ==
    ASSUME ExactPrediction, TypeOK, table = Lookahead(input), NEW p \in 1 .. Len(input) + 1,
           NEW semi \in Items, NEW it \in Items, it.k # "tok", NEW v \in Seq(Items),
           NEW e \in Expansions(it), ~Matches(table, <<semi>> \o (<<it>> \o v), p)
    PROVE  ~Matches(table, <<semi>> \o (e \o v), p)
<1>1. <<semi>> \in Seq(Items)
  OBVIOUS
<1>2. Matches(table, <<semi>> \o (<<it>> \o v), p)
         <=> \E d \in Expansions(it) : Matches(table, <<semi>> \o (d \o v), p)
  BY <1>1, ExactHere
<1> QED
  BY <1>2

-----------------------------------------------------------------------------
\* The semicolon, if it is one, is not behind the function that is about to
\* end: it has one already, or could not have one.
HasSemi(f, semi) ==
    input[pos - 1] = "SEMI" \/ ~Matches(table, <<semi>> \o Left(f), pos)

TopHasSemi(f, rules, semi) ==
    stack # <<>> /\ Top.rest = <<>> /\ RuleOf(Len(stack)) \in rules => HasSemi(f, semi)

\* Behind a statement comes no clause, but by a loop.
NoClauseBehind(f, traits) ==
    \A d \in DOMAIN stack : RuleOf(d) \in Terminated => ~MayBegin(f[d - 1], traits)

\* A statement without a semicolon has just ended.
Fresh ==
    /\ input[pos - 1] # "SEMI"
    /\ \E m \in DOMAIN nodes :
          nodes[m].rule \in Terminated /\ Closed(m) /\ nodes[m].stop = pos - 1

ClauseHere == \E n \in NodesOf("sql_clauses") : nodes[n].start = pos

NoClauseNext(f, traits, semi) ==
    ~ClauseHere /\ ~MayBegin(Left(f), traits) /\ ~Matches(table, <<semi>> \o Left(f), pos)

ClauseNext(f, semi) ==
    \E v \in Seq(Items), x \in Items :
        /\ Left(f) = <<x>> \o v
        /\ x \in References("sql_clauses") \/ x = Grammar["sql_clauses"][1]
        /\ ~Matches(table, <<semi>> \o v, pos)

\* A semicolon here is none that a clause begins with.
SemiAhead(f, traits, semis, semi) ==
    Fresh /\ input[pos] = "SEMI" =>
        \/ NoClauseNext(f, traits, semi)
        \/ ClauseNext(f, semi)
        \/ ~MayBegin(Left(f), semis)

SemiRead ==
    \A n \in NodesOf("sql_clauses"), m \in DOMAIN nodes :
        /\ nodes[n].start < pos /\ input[nodes[n].start] = "SEMI"
        /\ nodes[m].rule \in Terminated /\ Closed(m) /\ nodes[m].stop = nodes[n].start - 1
        => input[nodes[m].stop] = "SEMI"

SemiParts(f, traits, semis, rules, semi) ==
    /\ Agenda(f)
    /\ Apart(Left(f), traits)
    /\ NoClauseBehind(f, traits)
    /\ TopHasSemi(f, rules, semi)
    /\ SemiAhead(f, traits, semis, semi)

SemiInv(traits, semis, rules, endings, semi) ==
    /\ TableInv
    /\ NonemptyInv(traits.empty)
    /\ EndingsInv(rules, endings)
    /\ SemiRead
    /\ \E f : SemiParts(f, traits, semis, rules, semi)

\* A clause that has been entered has begun behind the current token, or here.
LEMMA SemiReadStays ==
    ASSUME TreeInv, [Next]_vars, SemiRead, UNCHANGED <<input, pos>>
    PROVE  SemiRead'
<1> SUFFICES ASSUME NEW n \in DOMAIN nodes', NEW m \in DOMAIN nodes', nodes'[n].rule = "sql_clauses",
                    nodes'[n].start < pos, input[nodes'[n].start] = "SEMI",
                    nodes'[m].rule \in Terminated, Closed(m)', nodes'[m].stop = nodes'[n].start - 1
             PROVE  input[nodes'[m].stop] = "SEMI"
  BY DEF SemiRead, NodesOf
<1>1. Grows /\ pos \in Nat
  BY StepGrows, PosType DEF TreeInv
<1>2. n \in DOMAIN nodes
  BY <1>1, NodeAdded
<1>3. nodes'[n].start = nodes[n].start /\ nodes'[n].rule = nodes[n].rule /\ nodes[n].start \in Nat
  BY <1>1, <1>2, NodeTypes DEF Grows, TreeInv
<1>4. CASE m \in DOMAIN nodes /\ Closed(m)
  <2>1. nodes'[m].stop = nodes[m].stop /\ nodes'[m].rule = nodes[m].rule
    BY <1>1, <1>4 DEF Grows
  <2> QED
    BY <1>2, <1>3, <1>4, <2>1 DEF SemiRead, NodesOf
<1>5. CASE ~(m \in DOMAIN nodes /\ Closed(m))
  <2>1. nodes'[m].stop = pos - 1
    BY <1>5, NodeClosed
  <2>2. nodes[n].start = pos
    BY <1>1, <1>3, <2>1
  <2> QED
    BY <1>1, <1>3, <2>2
<1> QED
  BY <1>4, <1>5

LEMMA SameFirst ==
    ASSUME NEW a \in Items, NEW b \in Items, NEW u \in Seq(Items), NEW v \in Seq(Items),
           <<a>> \o u = <<b>> \o v
    PROVE  a = b /\ u = v
<1> DEFINE w == <<a>> \o u
<1>1. /\ Len(u) \in Nat /\ Len(w) = Len(u) + 1 /\ w[1] = a
      /\ \A i \in 1 .. Len(u) : w[i + 1] = u[i]
  BY FirstThen
<1>2. /\ Len(v) \in Nat /\ Len(w) = Len(v) + 1 /\ w[1] = b
      /\ \A i \in 1 .. Len(v) : w[i + 1] = v[i]
  BY FirstThen
<1> HIDE DEF w
<1>3. Len(u) = Len(v)
  BY <1>1, <1>2
<1>4. \A i \in 1 .. Len(u) : u[i] = v[i]
  BY <1>1, <1>2, <1>3
<1>5. u = v
  BY <1>3, <1>4, SeqEqual
<1> QED
  BY <1>1, <1>2, <1>5

\* What comes next at a semicolon that is none of the statement before it.
LEMMA ExpansionKeepsSemi ==
    ASSUME NEW traits, NEW semis, NEW rules, NEW endings, NEW semi,
           SemicolonGrammar(traits, semis, rules, endings, semi),
           ExactPrediction, TypeOK, table = Lookahead(input), NEW f,
           NEW it \in Items, NEW v \in Seq(Items), Left(f) = <<it>> \o v,
           NEW e \in Expansions(it), it.k = "alt" => Matches(table, e \o v, pos),
           NEW w, w = e \o v,
           \/ NoClauseNext(f, traits, semi)
           \/ ClauseNext(f, semi)
           \/ ~MayBegin(Left(f), semis)
    PROVE  \/ /\ it \notin References("sql_clauses") /\ ~ClauseHere
              /\ ~MayBegin(w, traits) /\ ~Matches(table, <<semi>> \o w, pos)
           \/ \E u \in Seq(Items), x \in Items :
                 /\ w = <<x>> \o u
                 /\ x \in References("sql_clauses") \/ x = Grammar["sql_clauses"][1]
                 /\ ~Matches(table, <<semi>> \o u, pos)
           \/ ~MayBegin(w, semis)
<1>1. /\ Describes(traits, ClauseLoops) /\ Describes(semis, {})
      /\ semis.single = {} /\ traits.single = {} /\ semis.empty = traits.empty
      /\ semi \in Items /\ References("sql_clauses") \subseteq traits.first
      /\ Len(Grammar["sql_clauses"]) = 1
      /\ Grammar["sql_clauses"][1].k = "alt"
      /\ \A n \in DOMAIN Grammar["sql_clauses"][1].alts :
            \/ Grammar["sql_clauses"][1].alts[n] = <<semi>>
            \/ /\ ~MayBegin(Grammar["sql_clauses"][1].alts[n], semis)
               /\ ~AllIn(Grammar["sql_clauses"][1].alts[n], semis.empty)
  BY DEF SemicolonGrammar
<1>2. e \in Seq(Items) /\ it.k # "tok" /\ <<>> \in Seq(Items)
  BY ExpansionTypes
<1>3. pos \in 1 .. Len(input) + 1
  BY DEF TypeOK
<1>4. CASE NoClauseNext(f, traits, semi)
  <2>1. /\ ~ClauseHere /\ ~MayBegin(<<it>> \o v, traits)
        /\ ~Matches(table, <<semi>> \o (<<it>> \o v), pos)
    BY <1>4 DEF NoClauseNext
  <2>2. it \notin References("sql_clauses")
    BY <1>1, <2>1, MayBeginFirst
  <2>3. ~Matches(table, <<semi>> \o w, pos)
    BY <1>1, <1>2, <1>3, <2>1, NotBehindSemi
  <2>4. CASE it \notin ClauseLoops
    BY <1>1, <2>1, <2>2, <2>3, <2>4, MayBeginExpansion
  <2>5. CASE it \in ClauseLoops
    <3>1. PICK clause \in References("sql_clauses") : it.alts[1] = <<clause>> /\ it.k = "star"
      BY <2>5 DEF ClauseLoops
    <3>2. clause \in Items
      BY <3>1 DEF References
    <3>3. Expansions(it) = {<<>>, Append(<<clause>>, it)}
      BY <3>1 DEF Expansions
    <3>4. CASE e = <<>>
      <4>1. w = v
        BY <3>4, ConcatEmptySeq
      <4>2. AllIn(e, traits.empty)
        BY <3>4 DEF AllIn
      <4>3. it \in traits.empty
        BY <1>1, <4>2 DEF Describes
      <4>4. ~MayBegin(w, traits)
        BY <2>1, <4>1, <4>3, MayBeginBehind
      <4> QED
        BY <2>1, <2>2, <2>3, <4>4
    <3>5. CASE e = Append(<<clause>>, it)
      <4>1. <<clause>> \in Seq(Items) /\ <<it>> \in Seq(Items) /\ <<it>> \o v \in Seq(Items)
        BY <3>2, FirstThen
      <4>2. w = <<clause>> \o (<<it>> \o v)
        BY <3>5, <4>1, MoveFirst
      <4> QED
        BY <2>1, <3>1, <3>2, <4>1, <4>2
    <3> QED
      BY <3>3, <3>4, <3>5
  <2> QED
    BY <2>4, <2>5
<1>5. CASE ClauseNext(f, semi)
  <2>1. PICK u \in Seq(Items), x \in Items :
           /\ Left(f) = <<x>> \o u
           /\ x \in References("sql_clauses") \/ x = Grammar["sql_clauses"][1]
           /\ ~Matches(table, <<semi>> \o u, pos)
    BY <1>5 DEF ClauseNext
  <2>2. x = it /\ u = v
    BY ZenonT(60), <2>1, SameFirst
  <2>3. CASE it \in References("sql_clauses")
    <3>1. it.k = "rule" /\ it.sym = "sql_clauses"
      BY <2>3 DEF References
    <3>2. "sql_clauses" \in DOMAIN Grammar /\ e = Grammar["sql_clauses"]
      BY <3>1, ExpansionTypes
    <3>3. e[1] \in Items /\ e = <<e[1]>>
      BY <1>1, <1>2, <3>2, ElementOfSeq
    <3> QED
      BY <2>1, <2>2, <3>2, <3>3
  <2>4. CASE it = Grammar["sql_clauses"][1]
    <3>1. it.k = "alt"
      BY <1>1, <2>4
    <3>2. PICK n \in DOMAIN it.alts : e = it.alts[n]
      BY <3>1 DEF Expansions
    <3>3. e # <<semi>>
      BY <2>1, <2>2, <3>1
    <3>4. ~MayBegin(e, semis) /\ ~AllIn(e, semis.empty)
      BY <1>1, <2>4, <3>2, <3>3
    <3>5. ~MayBegin(w, semis)
      BY <1>1, <1>2, <3>4, MayBeginConcat
    <3> QED
      BY <3>5
  <2> QED
    BY <2>1, <2>2, <2>3, <2>4
<1>6. CASE ~MayBegin(Left(f), semis)
  <2>1. ~MayBegin(w, semis)
    BY <1>1, <1>6, MayBeginExpansion
  <2> QED
    BY <2>1
<1> QED
  BY <1>4, <1>5, <1>6

\* A statement is fresh until the next token.
LEMMA FreshStays ==
    ASSUME TreeInv, [Next]_vars, UNCHANGED <<input, pos>>, Fresh', ~ExitRule
    PROVE  Fresh
<1>1. Grows
  BY StepGrows
<1>2. PICK m \in DOMAIN nodes' :
         nodes'[m].rule \in Terminated /\ Closed(m)' /\ nodes'[m].stop = pos - 1
  BY DEF Fresh
<1>3. m \in DOMAIN nodes /\ Closed(m)
  BY <1>2, NodeClosed
<1>4. nodes'[m].rule = nodes[m].rule /\ nodes'[m].stop = nodes[m].stop
  BY <1>1, <1>3 DEF Grows
<1> QED
  BY <1>2, <1>3, <1>4 DEF Fresh

LEMMA ClauseHereStays ==
    ASSUME TreeInv, [Next]_vars, UNCHANGED <<input, pos>>, ~Call, ClauseHere',
           EnterRule => Expected.sym # "sql_clauses"
    PROVE  ClauseHere
<1>1. Grows
  BY StepGrows
<1>2. PICK n \in DOMAIN nodes' : nodes'[n].rule = "sql_clauses" /\ nodes'[n].start = pos
  BY DEF ClauseHere, NodesOf
<1>3. n \in DOMAIN nodes
  BY <1>2, NodeAdded
<1>4. nodes'[n].rule = nodes[n].rule /\ nodes'[n].start = nodes[n].start
  BY <1>1, <1>3 DEF Grows
<1> QED
  BY <1>2, <1>3, <1>4 DEF ClauseHere, NodesOf

\* A step of the active function keeps what is behind the others.
LEMMA ContinueKeepsBehind ==
    ASSUME TreeInv, [Next]_vars, stack # <<>>, NEW rest \in Seq(Items), Continue(rest),
           NEW traits, NEW f, NEW g, NoClauseBehind(f, traits),
           \A d \in 0 .. Len(stack) - 1 : g[d] = f[d]
    PROVE  NoClauseBehind(g, traits)'
<1> DEFINE L == Len(stack)
<1> SUFFICES ASSUME NEW d \in DOMAIN stack', RuleOf(d)' \in Terminated PROVE ~MayBegin(g[d - 1], traits)
  BY DEF NoClauseBehind
<1>1. /\ L \in Nat \ {0} /\ DOMAIN stack = 1 .. L /\ DOMAIN stack' = 1 .. L
      /\ \A c \in 1 .. L : RuleOf(c)' = RuleOf(c)
  BY ContinueStep
<1>2. d \in DOMAIN stack /\ RuleOf(d) \in Terminated /\ d - 1 \in 0 .. L - 1
  BY <1>1
<1> QED
  BY <1>2 DEF NoClauseBehind

\* While it parses, prediction knows the stream.
LEMMA TableKnows ==
    ASSUME TableInv, status = "parsing"
    PROVE  table = Lookahead(input)
BY DEF TableInv

LEMMA MatchKeepsSemi ==
    ASSUME NEW traits, NEW semis, NEW rules, NEW endings, NEW semi,
           SemicolonGrammar(traits, semis, rules, endings, semi),
           TreeInv, SemiInv(traits, semis, rules, endings, semi), Match
    PROVE  SemiRead' /\ \E g : SemiParts(g, traits, semis, rules, semi)'
<1> DEFINE L == Len(stack)
<1>1. PICK f : SemiParts(f, traits, semis, rules, semi)
  BY DEF SemiInv
<1>2. /\ Agenda(f) /\ Apart(Left(f), traits) /\ NoClauseBehind(f, traits)
      /\ TopHasSemi(f, rules, semi) /\ SemiAhead(f, traits, semis, semi)
      /\ SemiRead /\ EndingsInv(rules, endings)
  BY <1>1 DEF SemiParts, SemiInv
<1>3. TypeOK /\ [Next]_vars /\ pos \in Nat \ {0}
  BY PosType DEF TreeInv, Next, Step
<1>4. /\ stack # <<>> /\ Top.rest # <<>> /\ Expected.k = "tok" /\ input[pos] \in Expected.set
      /\ Expected \in Items /\ Tail(Top.rest) \in Seq(Items)
      /\ Top.rest = <<Expected>> \o Tail(Top.rest) /\ Continue(Tail(Top.rest))
      /\ pos' = pos + 1 /\ UNCHANGED <<input, nodes, table>>
  BY MatchFrames
<1>5. PICK g : /\ Agenda(g)' /\ Len(stack') = L
               /\ \A d \in 0 .. L - 1 : g[d] = f[d]
               /\ g[L] = Behind(f)
  BY <1>2, <1>3, AgendaMatch
<1>6. Behind(f) \in Seq(Items) /\ Left(f) = <<Expected>> \o Behind(f)
  BY <1>2, <1>3, <1>4, AgendaFirst
<1>7. Left(g)' = Behind(f)
  BY <1>5 DEF Left
<1>8. /\ L \in Nat \ {0} /\ L \in DOMAIN stack /\ stack'[L].rest = Tail(Top.rest)
      /\ \A d \in 1 .. L : RuleOf(d)' = RuleOf(d)
  <2>1. /\ L \in Nat \ {0} /\ DOMAIN stack = 1 .. L /\ stack'[L].rest = Tail(Top.rest)
        /\ \A d \in 1 .. L : RuleOf(d)' = RuleOf(d)
    BY <1>3, <1>4, ContinueStep
  <2> QED
    BY <2>1
<1>9. Apart(Left(g), traits)'
  BY <1>2, <1>4, <1>6, <1>7, ApartTail
<1>10. NoClauseBehind(g, traits)'
  BY <1>2, <1>3, <1>4, <1>5, ContinueKeepsBehind
<1>11. TopHasSemi(g, rules, semi)'
  <2> SUFFICES ASSUME (Top.rest)' = <<>>, RuleOf(Len(stack))' \in rules
               PROVE  input[pos] = "SEMI"
    <3>1. (input[pos - 1])' = input[pos]
      BY <1>3, <1>4
    <3> QED
      BY <3>1 DEF TopHasSemi, HasSemi
  <2>1. Tail(Top.rest) = <<>>
    BY <1>5, <1>8 DEF Top
  <2>2. L \in 1 .. L
    BY <1>8
  <2>3. \A d : d = L => RuleOf(d)' = RuleOf(d)
    BY <1>8, <2>2
  <2>9. \A d : d = Len(stack') => RuleOf(d)' \in rules
    BY DEF RuleOf
  <2>4. RuleOf(L) \in rules
    BY <1>5, <2>3, <2>9
  <2>5. EndsWell(L, rules, endings)
    BY <1>2, <1>8, <2>4 DEF EndingsInv
  <2>6. LastIn(<<Expected>> \o Tail(Top.rest), endings)
    BY <1>4, <2>5 DEF EndsWell, Top
  <2>7. Expected \in endings
    BY <1>4, <2>1, <2>6, LastOfOne
  <2>8. Expected = semi /\ semi.set = {"SEMI"}
    BY <1>4, <2>7 DEF SemicolonGrammar, Closing, ClauseLoops
  <2> QED
    BY <1>4, <2>8
<1>12. ASSUME NEW m \in DOMAIN nodes', Closed(m)'
       PROVE  m \in DOMAIN nodes /\ Closed(m) /\ nodes'[m] = nodes[m] /\ nodes[m].stop < pos /\ nodes[m].stop \in Nat
  <2>1. m \in DOMAIN nodes /\ Closed(m)
    <3>1. ~ExitRule
      BY <1>4 DEF ExitRule
    <3> QED
      BY <1>3, <1>12, <3>1, NodeClosed
  <2>2. nodes[m].stop < pos
    BY <2>1 DEF TreeInv, Bookkeeping
  <2> QED
    BY <1>3, <1>4, <2>1, <2>2, NodeTypes
<1>13. ~Fresh'
  <2> SUFFICES ASSUME NEW m \in DOMAIN nodes', Closed(m)', nodes'[m].stop = pos' - 1 PROVE FALSE
    BY DEF Fresh
  <2>1. nodes[m].stop < pos /\ nodes[m].stop = pos /\ nodes[m].stop \in Nat
    BY <1>3, <1>4, <1>12
  <2> QED
    BY <2>1
<1>14. SemiAhead(g, traits, semis, semi)'
  BY <1>13 DEF SemiAhead
<1>15. SemiRead'
  <2> SUFFICES ASSUME NEW n \in DOMAIN nodes', NEW m \in DOMAIN nodes', nodes'[n].rule = "sql_clauses",
                      nodes'[n].start < pos', input[nodes'[n].start] = "SEMI",
                      nodes'[m].rule \in Terminated, Closed(m)', nodes'[m].stop = nodes'[n].start - 1,
                      input[nodes'[m].stop] # "SEMI"
               PROVE  FALSE
    BY <1>4 DEF SemiRead, NodesOf
  <2>1. m \in DOMAIN nodes /\ Closed(m) /\ nodes'[m] = nodes[m] /\ nodes[m].stop < pos
    BY <1>12
  <2>2. n \in DOMAIN nodes /\ nodes'[n] = nodes[n] /\ nodes[n].start \in Nat
    BY <1>3, <1>4, NodeTypes
  <2>3. CASE nodes[n].start < pos
    BY <1>2, <2>1, <2>2, <2>3 DEF SemiRead, NodesOf
  <2>4. CASE ~(nodes[n].start < pos)
    <3>1. nodes[n].start = pos
      BY <1>3, <1>4, <2>2, <2>4
    <3>2. Fresh /\ input[pos] = "SEMI" /\ ClauseHere
      BY <2>1, <2>2, <3>1 DEF Fresh, ClauseHere, NodesOf
    <3>3. Expected \in semis.first /\ semis.single = {} /\ Grammar["sql_clauses"][1].k = "alt"
      BY <1>4, <3>2 DEF SemicolonGrammar, Readers
    <3>4. MayBegin(Left(f), semis)
      BY <1>4, <1>6, <3>3, MayBeginFirst
    <3>5. ~NoClauseNext(f, traits, semi)
      BY <3>2 DEF NoClauseNext
    <3>6. ClauseNext(f, semi)
      BY <1>2, <3>2, <3>4, <3>5 DEF SemiAhead
    <3>7. PICK v \in Seq(Items), x \in Items :
             Left(f) = <<x>> \o v /\ (x \in References("sql_clauses") \/ x = Grammar["sql_clauses"][1])
      BY <3>6 DEF ClauseNext
    <3>8. x = Expected
      BY <1>4, <1>6, <3>7, SameFirst
    <3> QED
      BY <1>4, <3>3, <3>7, <3>8 DEF References
  <2> QED
    BY <2>3, <2>4
<1>16. SemiParts(g, traits, semis, rules, semi)'
  BY <1>5, <1>9, <1>10, <1>11, <1>14 DEF SemiParts
<1> QED
  BY <1>15, <1>16

\* What comes next is still no clause, or still one, when the expected item is
\* replaced.
LEMMA ExpansionKeepsAhead ==
    ASSUME NEW traits, NEW semis, NEW rules, NEW endings, NEW semi,
           SemicolonGrammar(traits, semis, rules, endings, semi),
           ExactPrediction, TreeInv, table = Lookahead(input),
           EnterRule \/ Choose \/ EnterOptional \/ Iterate,
           NEW f, SemiAhead(f, traits, semis, semi),
           Expected \in Items, NEW v \in Seq(Items), Left(f) = <<Expected>> \o v,
           NEW e \in Expansions(Expected), Expected.k = "alt" => Matches(table, e \o v, pos),
           NEW g, Left(g)' = e \o v
    PROVE  SemiAhead(g, traits, semis, semi)'
<1>1. TypeOK /\ [Next]_vars /\ UNCHANGED <<input, pos, table>> /\ ~ExitRule /\ ~Call
  <2>1. TypeOK /\ [Next]_vars
    BY DEF TreeInv, Next, Step
  <2>2. UNCHANGED <<input, pos, table>>
    BY DEF EnterRule, Choose, EnterOptional, Iterate
  <2>3. ~ExitRule
    BY DEF EnterRule, Choose, EnterOptional, Iterate, ExitRule, At
  <2>4. ~Call
    BY DEF EnterRule, Choose, EnterOptional, Iterate, Call, At
  <2> QED
    BY <2>1, <2>2, <2>3, <2>4
<1>2. SUFFICES ASSUME Fresh', input[pos] = "SEMI"
               PROVE  (\/ NoClauseNext(g, traits, semi)
                       \/ ClauseNext(g, semi)
                       \/ ~MayBegin(Left(g), semis))'
  BY <1>1 DEF SemiAhead
<1>3. Fresh
  BY <1>1, <1>2, FreshStays
<1>4. \/ NoClauseNext(f, traits, semi)
      \/ ClauseNext(f, semi)
      \/ ~MayBegin(Left(f), semis)
  BY <1>2, <1>3 DEF SemiAhead
<1> PICK w : w = e \o v
  OBVIOUS
<1>5. \/ /\ Expected \notin References("sql_clauses") /\ ~ClauseHere
         /\ ~MayBegin(w, traits) /\ ~Matches(table, <<semi>> \o w, pos)
      \/ \E u \in Seq(Items), x \in Items :
            /\ w = <<x>> \o u
            /\ x \in References("sql_clauses") \/ x = Grammar["sql_clauses"][1]
            /\ ~Matches(table, <<semi>> \o u, pos)
      \/ ~MayBegin(w, semis)
  BY <1>1, <1>4, ExpansionKeepsSemi
<1>6. Left(g)' = w
  OBVIOUS
<1>7. ASSUME Expected \notin References("sql_clauses"), ~ClauseHere PROVE ~ClauseHere'
  <2>1. EnterRule => Expected.sym # "sql_clauses"
    BY <1>7 DEF EnterRule, At, References
  <2> QED
    BY <1>1, <1>7, <2>1, ClauseHereStays
<1>8. ASSUME ~ClauseHere', ~MayBegin(w, traits), ~Matches(table, <<semi>> \o w, pos)
      PROVE  NoClauseNext(g, traits, semi)'
  BY <1>1, <1>6, <1>8 DEF NoClauseNext
<1>9. ASSUME NEW u \in Seq(Items), NEW x \in Items, w = <<x>> \o u,
             x \in References("sql_clauses") \/ x = Grammar["sql_clauses"][1],
             ~Matches(table, <<semi>> \o u, pos)
      PROVE  ClauseNext(g, semi)'
  BY <1>1, <1>6, <1>9 DEF ClauseNext
<1> QED
  BY <1>5, <1>6, <1>7, <1>8, <1>9

LEMMA EnterKeepsSemi ==
    ASSUME NEW traits, NEW semis, NEW rules, NEW endings, NEW semi,
           SemicolonGrammar(traits, semis, rules, endings, semi), ExactPrediction,
           TreeInv, SemiInv(traits, semis, rules, endings, semi), EnterRule
    PROVE  \E g : SemiParts(g, traits, semis, rules, semi)'
<1> DEFINE L == Len(stack)
<1>1. PICK f : SemiParts(f, traits, semis, rules, semi)
  BY DEF SemiInv
<1>2. /\ Agenda(f) /\ Apart(Left(f), traits) /\ NoClauseBehind(f, traits)
      /\ SemiAhead(f, traits, semis, semi) /\ TableInv
  BY <1>1 DEF SemiParts, SemiInv
<1>3. TypeOK /\ table = Lookahead(input)
  BY <1>2, TableKnows DEF TreeInv, EnterRule, At
<1>4. /\ stack # <<>> /\ Top.rest # <<>> /\ Expected.k = "rule" /\ Expected \in Items
      /\ Expected.sym \in DOMAIN Grammar /\ Expansions(Expected) = {Grammar[Expected.sym]}
      /\ L \in Nat \ {0} /\ Len(stack') = L + 1
      /\ DOMAIN stack = 1 .. L /\ DOMAIN stack' = 1 .. L + 1
      /\ \A d \in 1 .. L : RuleOf(d)' = RuleOf(d)
      /\ \A d : d = L + 1 => RuleOf(d)' = Expected.sym
      /\ stack'[L + 1].rest = Grammar[Expected.sym]
  BY EnterFrame
<1>5. PICK g : /\ Agenda(g)' /\ Len(stack') = L + 1
               /\ \A d \in 0 .. L - 1 : g[d] = f[d]
               /\ g[L] = Behind(f) /\ g[L + 1] = Grammar[Expected.sym] \o Behind(f)
  BY <1>2, <1>3, AgendaEnter
<1>6. Behind(f) \in Seq(Items) /\ Left(f) = <<Expected>> \o Behind(f)
  BY <1>2, <1>3, <1>4, AgendaFirst
<1>7. Left(g)' = Grammar[Expected.sym] \o Behind(f)
  BY <1>5 DEF Left
<1>8. Apart(Left(g), traits)'
  <2>1. Apart(Grammar[Expected.sym] \o Behind(f), traits)
    BY <1>2, <1>4, <1>6, ApartExpansion DEF SemicolonGrammar
  <2> QED
    BY <1>7, <2>1
<1>9. NoClauseBehind(g, traits)'
  <2> SUFFICES ASSUME NEW d \in DOMAIN stack', RuleOf(d)' \in Terminated PROVE ~MayBegin(g[d - 1], traits)
    BY DEF NoClauseBehind
  <2>1. CASE d \in 1 .. L
    <3>1. d \in DOMAIN stack /\ RuleOf(d) \in Terminated /\ d - 1 \in 0 .. L - 1
      BY <1>4, <2>1
    <3> QED
      BY <1>2, <1>5, <3>1 DEF NoClauseBehind
  <2>2. CASE d = L + 1
    <3>1. Expected.sym \in Terminated /\ d - 1 = L
      BY <1>4, <2>2
    <3>2. Expected \in traits.last
      BY <1>4, <3>1 DEF SemicolonGrammar, References
    <3>3. ~MayBegin(Behind(f), traits)
      BY <1>2, <1>4, <1>6, <3>2, ApartTail
    <3> QED
      BY <1>5, <3>1, <3>3
  <2> QED
    BY <1>4, <2>1, <2>2
<1>10. TopHasSemi(g, rules, semi)'
  <2>1. ASSUME RuleOf(Len(stack))' \in rules PROVE (Top.rest)' # <<>>
    <3>1. \A d : d = Len(stack') => RuleOf(d)' \in rules
      BY <2>1 DEF RuleOf
    <3>2. Expected.sym \in rules
      BY <1>4, <3>1
    <3>3. Grammar[Expected.sym] # <<>>
      BY <1>4, <3>2 DEF SemicolonGrammar, Closing, LastIn
    <3> QED
      BY <1>4, <3>3 DEF Top
  <2> QED
    BY <2>1 DEF TopHasSemi
<1>11. SemiAhead(g, traits, semis, semi)'
  BY <1>2, <1>3, <1>4, <1>6, <1>7, ExpansionKeepsAhead
<1>12. SemiParts(g, traits, semis, rules, semi)'
  BY <1>5, <1>8, <1>9, <1>10, <1>11 DEF SemiParts
<1> QED
  BY <1>12

\* An ending that is skipped is no semicolon, and no semicolon is next.
LEMMA SkippedEnding ==
    ASSUME NEW traits, NEW semis, NEW rules, NEW endings, NEW semi,
           SemicolonGrammar(traits, semis, rules, endings, semi), ExactPrediction,
           TypeOK, table = Lookahead(input), NEW f, Agenda(f), stack # <<>>, Top.rest # <<>>,
           Expected \in endings, Expected.k \in {"alt", "opt", "star"}, Answer(<<>>),
           <<>> \in Expansions(Expected)
    PROVE  ~Matches(table, <<semi>> \o Behind(f), pos)
<1> DEFINE B == Behind(f)
           clauses == Grammar["sql_clauses"]
<1>1. /\ semi \in Items /\ semi.k = "tok" /\ <<semi>> \in Seq(Items) /\ <<semi>> # <<>>
      /\ Closing(rules, endings, semi)
      /\ Len(clauses) = 1 /\ clauses[1].k = "alt"
      /\ \E n \in DOMAIN clauses[1].alts : clauses[1].alts[n] = <<semi>>
  BY DEF SemicolonGrammar
<1>2. Expected \in Items /\ B \in Seq(Items) /\ pos \in 1 .. Len(input) + 1
  BY AgendaFirst DEF TypeOK
<1>3. \A d \in Seq(Items) : Fits(d) <=> Matches(table, d \o B, pos)
  BY FitsMatches
<1>4. \/ Expected.k = "opt" /\ Expected.alts[1] = <<semi>>
      \/ Expected \in ClauseLoops
      \/ Expected.k = "alt" /\ \A n \in DOMAIN Expected.alts : LastIn(Expected.alts[n], endings)
  BY <1>1 DEF Closing
<1>5. CASE Expected.k = "opt" /\ Expected.alts[1] = <<semi>>
  <2>1. ~Fits(<<semi>>)
    BY <1>1, <1>5 DEF Answer, Block
  <2> QED
    BY <1>1, <1>3, <2>1
<1>6. CASE Expected \in ClauseLoops
  <2>1. PICK clause \in References("sql_clauses") : Expected.alts[1] = <<clause>> /\ Expected.k = "star"
    BY <1>6 DEF ClauseLoops
  <2> DEFINE more == Append(<<clause>>, Expected)
             X == <<Expected>> \o B
  <2>2. clause \in Items /\ clause.k = "rule" /\ clause.sym = "sql_clauses"
    BY DEF References
  <2>3. <<clause>> \in Seq(Items) /\ X \in Seq(Items)
    BY <1>2, <2>2, FirstThen
  <2>4. more \in Seq(Items) /\ more \o B = <<clause>> \o X /\ more # <<>>
    <3>1. more \in Seq(Items) /\ Len(more) = Len(<<clause>>) + 1
      BY <1>2, <2>3, AppendProperties
    <3>2. more \o B = <<clause>> \o X
      BY <1>2, <2>3, MoveFirst
    <3>3. Len(<<clause>>) = 1
      OBVIOUS
    <3> HIDE DEF more, X
    <3>4. more # <<>>
      BY <3>1, <3>3
    <3> QED
      BY <3>1, <3>2, <3>4
  <2> HIDE DEF more, X
  <2>5. ~Fits(more)
    BY <2>1, <2>4 DEF Answer, Block, more
  <2>6. ~Matches(table, <<clause>> \o X, pos)
    BY <1>3, <2>4, <2>5
  <2>7. Expansions(clause) = {clauses}
    BY <2>2, ExpansionTypes
  <2>8. ~Matches(table, clauses \o X, pos)
    BY <1>2, <2>2, <2>3, <2>6, <2>7, ExactFirst
  <2>9. clauses[1] \in Items /\ clauses = <<clauses[1]>>
    <3>1. clauses \in Seq(Items)
      BY <2>2, <2>7, ExpansionTypes
    <3> QED
      BY <1>1, <3>1, ElementOfSeq
  <2>10. <<semi>> \in Expansions(clauses[1])
    BY <1>1 DEF Expansions
  <2>11. ~Matches(table, <<semi>> \o X, pos)
    BY <1>1, <1>2, <2>3, <2>8, <2>9, <2>10, ExactFirst
  <2>12. ~Matches(table, <<semi>> \o (<<>> \o B), pos)
    BY <1>1, <1>2, <2>1, <2>11, NotBehindSemi DEF X
  <2>13. <<>> \o B = B
    BY <1>2, ConcatEmptySeq
  <2> QED
    BY <2>12, <2>13
<1>7. CASE Expected.k = "alt" /\ \A n \in DOMAIN Expected.alts : LastIn(Expected.alts[n], endings)
  BY <1>7 DEF Expansions, LastIn
<1> QED
  BY <1>4, <1>5, <1>6, <1>7

LEMMA DecisionKeepsSemi ==
    ASSUME NEW traits, NEW semis, NEW rules, NEW endings, NEW semi,
           SemicolonGrammar(traits, semis, rules, endings, semi), ExactPrediction,
           TreeInv, SemiInv(traits, semis, rules, endings, semi), Choose \/ EnterOptional \/ Iterate
    PROVE  \E g : SemiParts(g, traits, semis, rules, semi)'
<1> DEFINE L == Len(stack)
<1>1. PICK f : SemiParts(f, traits, semis, rules, semi)
  BY DEF SemiInv
<1>2. /\ Agenda(f) /\ Apart(Left(f), traits) /\ NoClauseBehind(f, traits)
      /\ SemiAhead(f, traits, semis, semi) /\ TableInv /\ EndingsInv(rules, endings)
  BY <1>1 DEF SemiParts, SemiInv
<1>3. TypeOK /\ [Next]_vars /\ table = Lookahead(input)
  <2>1. TypeOK /\ [Next]_vars
    BY DEF TreeInv, Next, Step
  <2>2. status = "parsing"
    BY DEF Choose, EnterOptional, Iterate, At
  <2> QED
    BY <1>2, <2>1, <2>2, TableKnows
<1>4. /\ stack # <<>> /\ Top.rest # <<>> /\ Expected.k \in {"alt", "opt", "star"}
      /\ Expected \in Items /\ Tail(Top.rest) \in Seq(Items)
      /\ Top.rest = <<Expected>> \o Tail(Top.rest)
      /\ UNCHANGED <<input, pos, table>>
  BY DecideFrames
<1>0. PICK e \in Seq(Items) : /\ e \in Expansions(Expected) /\ Answer(e)
                              /\ e \o Tail(Top.rest) \in Seq(Items)
                              /\ Continue(e \o Tail(Top.rest))
  BY DecideFrames
<1>5. PICK g : /\ Agenda(g)' /\ Len(stack') = L
               /\ \A d \in 0 .. L - 1 : g[d] = f[d]
               /\ g[L] = e \o Behind(f)
  BY <1>0, <1>2, <1>3, <1>4, AgendaDecide
<1>6. Behind(f) \in Seq(Items) /\ Left(f) = <<Expected>> \o Behind(f)
  BY <1>2, <1>3, <1>4, AgendaFirst
<1>7. Left(g)' = e \o Behind(f)
  BY <1>5 DEF Left
<1>8. Apart(Left(g), traits)'
  <2>1. Apart(e \o Behind(f), traits)
    BY <1>0, <1>2, <1>4, <1>6, ApartExpansion DEF SemicolonGrammar
  <2> QED
    BY <1>7, <2>1
<1>9. NoClauseBehind(g, traits)'
  BY <1>0, <1>2, <1>3, <1>4, <1>5, ContinueKeepsBehind
<1>10. TopHasSemi(g, rules, semi)'
  <2> SUFFICES ASSUME (Top.rest)' = <<>>, RuleOf(Len(stack))' \in rules
               PROVE  ~Matches(table, <<semi>> \o Left(g)', pos)
    BY <1>4 DEF TopHasSemi, HasSemi
  <2>1. /\ L \in Nat \ {0} /\ L \in DOMAIN stack /\ stack'[L].rest = e \o Tail(Top.rest)
        /\ \A d : d = L => RuleOf(d)' = RuleOf(d)
    <3>1. /\ L \in Nat \ {0} /\ DOMAIN stack = 1 .. L /\ stack'[L].rest = e \o Tail(Top.rest)
          /\ \A d \in 1 .. L : RuleOf(d)' = RuleOf(d)
      BY <1>0, <1>3, <1>4, ContinueStep
    <3>2. L \in 1 .. L
      BY <3>1
    <3> QED
      BY <3>1, <3>2
  <2>2. e \o Tail(Top.rest) = <<>>
    BY <1>5, <2>1 DEF Top
  <2>3. e = <<>> /\ Tail(Top.rest) = <<>>
    <3>1. Len(e) = 0 /\ Len(Tail(Top.rest)) = 0
      <4>1. /\ Len(e) \in Nat /\ Len(Tail(Top.rest)) \in Nat
            /\ Len(e \o Tail(Top.rest)) = Len(e) + Len(Tail(Top.rest))
        BY <1>0, <1>4, ConcatPlaces
      <4>4. \A x : x = <<>> => Len(x) = 0
        OBVIOUS
      <4>2. Len(e \o Tail(Top.rest)) = 0
        BY <2>2, <4>4
      <4>3. \A a, b \in Nat : a + b = 0 => a = 0 /\ b = 0
        OBVIOUS
      <4> QED
        BY <4>1, <4>2, <4>3
    <3> QED
      BY <1>0, <1>4, <3>1, EmptySeq
  <2>4. \A d : d = Len(stack') => RuleOf(d)' \in rules
    BY DEF RuleOf
  <2>5. RuleOf(L) \in rules
    BY <1>5, <2>1, <2>4
  <2>6. EndsWell(L, rules, endings)
    BY <1>2, <2>1, <2>5 DEF EndingsInv
  <2>7. LastIn(<<Expected>> \o Tail(Top.rest), endings)
    BY <1>4, <2>6 DEF EndsWell, Top
  <2>8. Expected \in endings
    BY <1>4, <2>3, <2>7, LastOfOne
  <2>9. ~Matches(table, <<semi>> \o Behind(f), pos)
    BY <1>0, <1>2, <1>3, <1>4, <2>3, <2>8, SkippedEnding
  <2>10. Left(g)' = Behind(f)
    BY <1>6, <1>7, <2>3, ConcatEmptySeq
  <2> QED
    BY <2>9, <2>10
<1>11. Expected.k = "alt" => Matches(table, e \o Behind(f), pos)
  BY <1>0, <1>2, <1>3, <1>4, FitsMatches DEF Answer
<1>12. SemiAhead(g, traits, semis, semi)'
  BY <1>0, <1>2, <1>3, <1>4, <1>6, <1>7, <1>11, ExpansionKeepsAhead
<1>13. SemiParts(g, traits, semis, rules, semi)'
  BY <1>5, <1>8, <1>9, <1>10, <1>12 DEF SemiParts
<1> QED
  BY <1>13

\* Where a statement ends no clause begins: all have matched a token by then.
LEMMA NoClauseHere ==
    ASSUME NEW empty, TreeInv, NonemptyInv(empty), stack # <<>>, Top.rest = <<>>,
           \A rule \in Terminated \cap DOMAIN Grammar : Nonempty(rule, empty),
           RuleOf(Len(stack)) \in Terminated
    PROVE  ~ClauseHere
<1> DEFINE L == Len(stack)
<1> SUFFICES ASSUME NEW n \in DOMAIN nodes, nodes[n].rule = "sql_clauses", nodes[n].start = pos
             PROVE  FALSE
  BY DEF ClauseHere, NodesOf
<1>1. TypeOK /\ InOrder /\ pos \in Nat \ {0}
  BY PosType DEF TreeInv, NonemptyInv
<1>2. L \in Nat \ {0} /\ DOMAIN stack = 1 .. L /\ L \in 1 .. L
  BY <1>1, TopType
<1>3. nodes[n].rule \in DOMAIN Grammar /\ RuleOf(L) \in DOMAIN Grammar
  <2>1. stack[L].node \in DOMAIN nodes
    BY <1>1, <1>2, FrameTypes
  <2> QED
    BY <1>1, <2>1, NodeTypes DEF RuleOf, NodeSet
<1>4. StartOf(L) # pos
  <2>1. StillNonempty(L, empty) /\ ~(L < L)
    BY <1>2 DEF NonemptyInv
  <2>2. AllIn(stack[L].rest, empty)
    BY DEF AllIn, Top
  <2> QED
    BY <1>3, <2>1, <2>2 DEF StillNonempty
<1>5. CASE Closed(n)
  <2>1. Nonempty(nodes[n].rule, empty)
    BY <1>3 DEF Terminated
  <2>2. nodes[n].start <= nodes[n].stop /\ nodes[n].stop < pos /\ nodes[n].stop \in Nat
    BY <1>1, <1>5, <2>1, NodeTypes DEF NonemptyInv, TreeInv, Bookkeeping
  <2> QED
    BY <1>1, <2>2
<1>6. CASE ~Closed(n)
  <2>1. PICK d \in 1 .. L : stack[d].node = n
    BY <1>2, <1>6 DEF Closed, Open
  <2>2. d \in 1 .. L /\ L \in 1 .. Len(stack) /\ StartOf(d) = pos
    BY <1>2, <2>1 DEF StartOf
  <2>3. StartOf(d) <= StartOf(L) /\ StartOf(L) <= pos /\ StartOf(L) \in Nat
    BY <1>1, <2>2, FramesInOrder
  <2> QED
    BY <1>1, <1>4, <2>2, <2>3
<1> QED
  BY <1>5, <1>6

LEMMA ExitKeepsSemi ==
    ASSUME NEW traits, NEW semis, NEW rules, NEW endings, NEW semi,
           SemicolonGrammar(traits, semis, rules, endings, semi),
           TreeInv, SemiInv(traits, semis, rules, endings, semi), ExitRule
    PROVE  \E g : SemiParts(g, traits, semis, rules, semi)'
<1> DEFINE L == Len(stack)
<1>1. PICK f : SemiParts(f, traits, semis, rules, semi)
  BY DEF SemiInv
<1>2. /\ Agenda(f) /\ Apart(Left(f), traits) /\ NoClauseBehind(f, traits)
      /\ TopHasSemi(f, rules, semi) /\ SemiAhead(f, traits, semis, semi)
      /\ NonemptyInv(traits.empty) /\ EndingsInv(rules, endings)
  BY <1>1 DEF SemiParts, SemiInv
<1>3. TypeOK /\ [Next]_vars /\ ~Call /\ ~EnterRule
  <2>1. TypeOK /\ [Next]_vars
    BY DEF TreeInv, Next, Step
  <2> QED
    BY <2>1 DEF ExitRule, Call, EnterRule, At
<1>4. /\ stack # <<>> /\ Top.rest = <<>>
      /\ L \in Nat \ {0} /\ Len(stack') = L - 1
      /\ DOMAIN stack = 1 .. L /\ DOMAIN stack' = 1 .. L - 1
      /\ \A d \in 1 .. L - 1 : d \in 1 .. L /\ SameFrame(d)
      /\ UNCHANGED <<input, pos, table>>
  BY ExitFrame
<1>5. PICK g : /\ Agenda(g)' /\ Len(stack') = L - 1
               /\ \A d \in 0 .. L - 1 : g[d] = f[d]
               /\ g[L - 1] = Left(f)
  BY <1>2, <1>3, AgendaExit
<1>6. Left(g)' = Left(f) /\ Left(f) = f[L - 1]
  <2>1. Left(g)' = Left(f)
    BY <1>5 DEF Left
  <2> QED
    BY <1>2, <1>3, <1>4, <2>1, AgendaTop
<1>7. Terminated \subseteq rules /\ L \in DOMAIN stack
  <2>1. Terminated \subseteq rules
    BY DEF SemicolonGrammar
  <2> QED
    BY <1>4, <2>1
<1>8. Apart(Left(g), traits)'
  BY <1>2, <1>6
<1>9. NoClauseBehind(g, traits)'
  <2> SUFFICES ASSUME NEW d \in DOMAIN stack', RuleOf(d)' \in Terminated PROVE ~MayBegin(g[d - 1], traits)
    BY DEF NoClauseBehind
  <2>1. d \in DOMAIN stack /\ RuleOf(d) \in Terminated /\ d - 1 \in 0 .. L - 1
    <3>1. d \in 1 .. L - 1 /\ SameFrame(d)
      BY <1>4
    <3> QED
      BY <1>4, <3>1 DEF SameFrame
  <2> QED
    BY <1>2, <1>5, <2>1 DEF NoClauseBehind
<1>10. TopHasSemi(g, rules, semi)'
  <2> SUFFICES ASSUME stack' # <<>>, (Top.rest)' = <<>>, RuleOf(Len(stack))' \in rules
               PROVE  HasSemi(f, semi)
    BY <1>4, <1>6 DEF TopHasSemi, HasSemi
  <2> PICK d : d = L - 1
    OBVIOUS
  <2>1. d \in 1 .. L - 1
    <3>1. L - 1 # 0
      <4>1. TypeOK'
        BY <1>3, StepKeepsTree DEF TreeInv
      <4>2. Len(stack') \in Nat \ {0}
        BY <4>1, TopType
      <4> QED
        BY <1>4, <4>2
    <3> QED
      BY <1>4, <3>1
  <2>2. d \in DOMAIN stack /\ d < L /\ SameFrame(d) /\ d + 1 = L
    BY <1>4, <2>1
  <2>3. stack[d].rest = <<>>
    BY <1>4, <2>2 DEF Top, SameFrame
  <2>4. \A c : c = Len(stack') => RuleOf(c)' \in rules
    BY DEF RuleOf
  <2>5. RuleOf(d) \in rules
    BY <1>4, <2>2, <2>4 DEF SameFrame
  <2>6. RuleOf(L) \in rules
    BY <1>2, <2>2, <2>3, <2>5 DEF EndingsInv, EndsWell
  <2> QED
    BY <1>2, <1>4, <2>6 DEF TopHasSemi
<1>11. SemiAhead(g, traits, semis, semi)'
  <2>1. SUFFICES ASSUME Fresh', input[pos] = "SEMI"
                 PROVE  (\/ NoClauseNext(g, traits, semi)
                         \/ ClauseNext(g, semi)
                         \/ ~MayBegin(Left(g), semis))'
    BY <1>4 DEF SemiAhead
  <2>2. ClauseHere' => ClauseHere
    BY <1>3, <1>4, ClauseHereStays
  <2>3. CASE Fresh
    <3>1. NoClauseNext(f, traits, semi) => NoClauseNext(g, traits, semi)'
      BY <1>4, <1>6, <2>2 DEF NoClauseNext
    <3>2. ClauseNext(f, semi) => ClauseNext(g, semi)'
      BY <1>4, <1>6 DEF ClauseNext
    <3> QED
      BY <1>2, <1>6, <2>1, <2>3, <3>1, <3>2 DEF SemiAhead
  <2>4. CASE ~Fresh
    <3>1. PICK m \in DOMAIN nodes' :
             nodes'[m].rule \in Terminated /\ Closed(m)' /\ nodes'[m].stop = pos - 1
      BY <1>4, <2>1 DEF Fresh
    <3>2. input[pos - 1] # "SEMI"
      BY <1>4, <2>1 DEF Fresh
    <3>3. m \in DOMAIN nodes /\ nodes'[m].rule = nodes[m].rule /\ (Closed(m) => nodes'[m].stop = nodes[m].stop)
      BY <1>3, <3>1, NodeAdded, StepGrows DEF Grows
    <3>4. ~Closed(m)
      BY <2>4, <3>1, <3>2, <3>3 DEF Fresh
    <3>5. m = Top.node
      BY <1>3, <3>1, <3>4, NodeClosed
    <3>6. RuleOf(L) \in Terminated
      BY <3>1, <3>3, <3>5 DEF RuleOf, Top
    <3>7. ~Matches(table, <<semi>> \o Left(f), pos)
      BY <1>2, <1>4, <1>7, <3>2, <3>6 DEF TopHasSemi, HasSemi
    <3>8. ~MayBegin(Left(f), traits)
      BY <1>2, <1>6, <1>7, <3>6 DEF NoClauseBehind
    <3>9. ~ClauseHere
      <4>1. \A rule \in Terminated \cap DOMAIN Grammar : Nonempty(rule, traits.empty)
        BY DEF SemicolonGrammar, Nonempty
      <4> QED
        BY <1>2, <1>4, <3>6, <4>1, NoClauseHere
    <3>10. NoClauseNext(g, traits, semi)'
      BY <1>4, <1>6, <2>2, <3>7, <3>8, <3>9 DEF NoClauseNext
    <3> QED
      BY <3>10
  <2> QED
    BY <2>3, <2>4
<1>12. SemiParts(g, traits, semis, rules, semi)'
  BY <1>5, <1>8, <1>9, <1>10, <1>11 DEF SemiParts
<1> QED
  BY <1>12

LEMMA OthersKeepSemi ==
    ASSUME NEW traits, NEW semis, NEW rules, NEW endings, NEW semi,
           SemicolonGrammar(traits, semis, rules, endings, semi),
           TreeInv, SemiInv(traits, semis, rules, endings, semi), Call \/ SyntaxError \/ UNCHANGED vars
    PROVE  \E g : SemiParts(g, traits, semis, rules, semi)'
<1>1. PICK f : SemiParts(f, traits, semis, rules, semi)
  BY DEF SemiInv
<1>2. /\ Agenda(f) /\ Apart(Left(f), traits) /\ NoClauseBehind(f, traits)
      /\ TopHasSemi(f, rules, semi) /\ SemiAhead(f, traits, semis, semi)
  BY <1>1 DEF SemiParts
<1>3. CASE Call
  <2>1. /\ Len(stack') = 1 /\ DOMAIN stack' = 1 .. 1
        /\ stack'[1].rest = Grammar[StartRule] /\ RuleOf(1)' = StartRule
        /\ DOMAIN nodes' = {1} /\ ~Closed(1)'
    BY <1>3, CallFrame
  <2>2. PICK g : Agenda(g)' /\ Len(stack') = 1 /\ g[0] = <<>> /\ g[1] = Grammar[StartRule]
    BY <1>2, <1>3, AgendaCall
  <2>3. Apart(Left(g), traits)'
    BY <2>2 DEF Left, SemicolonGrammar
  <2>4. NoClauseBehind(g, traits)'
    <3>1. ~MayBegin(g[0], traits)
      BY <2>2 DEF MayBegin
    <3>2. \A d \in DOMAIN stack' : d - 1 = 0
      BY <2>1
    <3> QED
      BY <3>1, <3>2 DEF NoClauseBehind
  <2>5. TopHasSemi(g, rules, semi)'
    <3>1. ASSUME RuleOf(Len(stack))' \in rules PROVE (Top.rest)' # <<>>
      <4>1. \A d : d = Len(stack') => RuleOf(d)' \in rules
        BY <3>1 DEF RuleOf
      <4>2. StartRule \in rules
        BY <2>1, <4>1
      <4>3. Grammar[StartRule] # <<>>
        BY <4>2, GrammarAssumption DEF SemicolonGrammar, Closing, LastIn
      <4> QED
        BY <2>1, <4>3 DEF Top
    <3> QED
      BY <3>1 DEF TopHasSemi
  <2>6. SemiAhead(g, traits, semis, semi)'
    BY <2>1 DEF SemiAhead, Fresh
  <2>7. SemiParts(g, traits, semis, rules, semi)'
    BY <2>2, <2>3, <2>4, <2>5, <2>6 DEF SemiParts
  <2> QED
    BY <2>7
<1>4. CASE SyntaxError \/ UNCHANGED vars
  <2>1. UNCHANGED <<input, table, pos, stack, nodes, owner>>
    BY <1>4 DEF SyntaxError, vars
  <2>2. Agenda(f)' /\ Left(f)' = Left(f)
    BY <1>2, <2>1 DEF Agenda, Left
  <2>3. NoClauseBehind(f, traits)'
    BY <1>2, <2>1 DEF NoClauseBehind, RuleOf
  <2>4. TopHasSemi(f, rules, semi)'
    BY <1>2, <2>1, <2>2 DEF TopHasSemi, HasSemi, RuleOf, Top
  <2>5. SemiAhead(f, traits, semis, semi)'
    <3>1. Fresh' => Fresh
      BY <2>1 DEF Fresh, Closed, Open
    <3>2. ClauseHere' => ClauseHere
      BY <2>1 DEF ClauseHere, NodesOf
    <3>3. NoClauseNext(f, traits, semi) => NoClauseNext(f, traits, semi)'
      BY <2>1, <2>2, <3>2 DEF NoClauseNext
    <3>4. ClauseNext(f, semi) => ClauseNext(f, semi)'
      BY <2>1, <2>2 DEF ClauseNext
    <3> QED
      BY <1>2, <2>1, <2>2, <3>1, <3>3, <3>4 DEF SemiAhead
  <2>6. SemiParts(f, traits, semis, rules, semi)'
    BY <1>2, <2>2, <2>3, <2>4, <2>5 DEF SemiParts
  <2> QED
    BY <2>6
<1> QED
  BY <1>3, <1>4

LEMMA NextKeepsSemi ==
    ASSUME NEW traits, NEW semis, NEW rules, NEW endings, NEW semi,
           SemicolonGrammar(traits, semis, rules, endings, semi), ExactPrediction,
           TreeInv, SemiInv(traits, semis, rules, endings, semi), [Next]_vars
    PROVE  SemiInv(traits, semis, rules, endings, semi)'
<1>1. /\ TableInv /\ NonemptyInv(traits.empty) /\ EndingsInv(rules, endings) /\ SemiRead
  BY DEF SemiInv
<1>2. Empties(traits.empty) /\ Closing(rules, endings, semi) /\ semi.k = "tok"
  BY DEF SemicolonGrammar, Describes, Empties
<1>3. /\ TableInv' /\ NonemptyInv(traits.empty)' /\ EndingsInv(rules, endings)'
  BY <1>1, <1>2, StepKeepsTable, StepKeepsNonempty, StepKeepsEndings
<1>4. \/ Match \/ EnterRule \/ Choose \/ EnterOptional \/ Iterate \/ ExitRule
      \/ Call \/ SyntaxError \/ UNCHANGED vars
  BY DEF Next, Step, Keep
<1>5. SemiRead'
  <2>1. CASE Match
    BY <2>1, MatchKeepsSemi
  <2>2. CASE ~Match
    <3>1. UNCHANGED <<input, pos>>
      BY <1>4, <2>2 DEF EnterRule, Choose, EnterOptional, Iterate, ExitRule, Call, SyntaxError, vars
    <3> QED
      BY <1>1, <3>1, SemiReadStays
  <2> QED
    BY <2>1, <2>2
<1>6. \E g : SemiParts(g, traits, semis, rules, semi)'
  BY <1>4, MatchKeepsSemi, EnterKeepsSemi, DecisionKeepsSemi, ExitKeepsSemi, OthersKeepSemi
<1>7. PICK g : SemiParts(g, traits, semis, rules, semi)'
  BY <1>6
<1> QED
  BY <1>3, <1>5, <1>7 DEF SemiInv

LEMMA InitSemi ==
    ASSUME NEW traits, NEW semis, NEW rules, NEW endings, NEW semi, Init
    PROVE  SemiInv(traits, semis, rules, endings, semi)
<1>1. /\ stack = <<>> /\ nodes = <<>> /\ DOMAIN stack = {} /\ DOMAIN nodes = {} /\ status = "ready"
  BY DEF Init
<1>2. PICK f : Agenda(f) /\ Left(f) = <<>>
  BY InitAgenda
<1>3. SemiParts(f, traits, semis, rules, semi)
  BY <1>1, <1>2 DEF SemiParts, Apart, NoClauseBehind, TopHasSemi, SemiAhead, Fresh
<1> QED
  BY <1>1, <1>3 DEF SemiInv, TableInv, NonemptyInv, InOrder, EndingsInv, SemiRead, NodesOf

(***************************************************************************)
(* In a grammar in which every rule that a statement may end with ends     *)
(* with an optional semicolon or with a loop over clauses, and with a      *)
(* prediction that is exact, a semicolon right behind a statement is that  *)
(* statement's: no stream is read with the semicolon as a clause of its    *)
(* own, though the grammar allows it.  Greedy prediction alone does not    *)
(* say so.  It takes the semicolon at the first place that can have it;    *)
(* the invariant says that such a place has been there: where a function   *)
(* of one of the rules is about to end without a semicolon, the tokens do  *)
(* not match one.                                                          *)
(***************************************************************************)
THEOREM SemicolonCorrect ==
    ASSUME NEW CONSTANT traits, NEW CONSTANT semis, NEW CONSTANT rules, NEW CONSTANT endings,
           NEW CONSTANT semi, SemicolonGrammar(traits, semis, rules, endings, semi), ExactPrediction
    PROVE  Spec => []SemicolonTerminates
<1> DEFINE Inv == SemiInv(traits, semis, rules, endings, semi)
<1>1. Init => Inv
  BY InitSemi
<1>2. TreeInv /\ Inv /\ [Next]_vars => Inv'
  BY NextKeepsSemi
<1>3. TreeInv /\ Inv => SemicolonTerminates
  <2> SUFFICES ASSUME TreeInv, Inv, Accepted, NEW n \in DOMAIN nodes, IsEmptyClause(n),
                      NEW rule \in Terminated, NEW m \in NodesOf(rule),
                      nodes[m].stop = nodes[n].start - 1
               PROVE  input[nodes[m].stop] = "SEMI"
    BY DEF SemicolonTerminates
  <2>1. stack = <<>> /\ pos \in Nat \ {0}
    BY PosType DEF TreeInv, Bookkeeping, Accepted
  <2>2. Closed(n) /\ Closed(m) /\ m \in DOMAIN nodes /\ nodes[m].rule \in Terminated
    BY <2>1 DEF Closed, Open, NodesOf
  <2>3. /\ nodes[n].rule = "sql_clauses" /\ nodes[n].start = nodes[n].stop /\ input[nodes[n].start] = "SEMI"
        /\ nodes[n].stop < pos
    BY <2>2 DEF IsEmptyClause, TreeInv, Bookkeeping
  <2> QED
    BY <2>2, <2>3 DEF SemiInv, SemiRead, NodesOf
<1> HIDE DEF Inv
<1> QED
  BY <1>1, <1>2, <1>3, TreeInvariant, PTL DEF Spec

-----------------------------------------------------------------------------
(***************************************************************************)
(* What the function of IF has still to match: behind its ELSE, or behind  *)
(* the place of one, and at any time.                                      *)
(***************************************************************************)
PastElse(x) == {<<x.clause, x.end>>, <<x.end>>, <<x.semi>>, <<>>}

IfRests(x) ==
    PastElse(x) \cup
    {Grammar["if_statement"], <<x.condition, x.clause, x.otherwise, x.end>>,
     <<x.clause, x.otherwise, x.end>>, <<x.otherwise, x.end>>, <<x.else, x.clause, x.end>>}

LEMMA IfItems ==
    ASSUME NEW x, IsIf(x), "if_statement" \in DOMAIN Grammar
    PROVE  /\ {x.if, x.condition, x.clause, x.otherwise, x.else, x.end, x.semi} \subseteq Items
           /\ x.otherwise # x.end
           /\ Expansions(x.otherwise) = {<<>>, <<x.else, x.clause>>}
           /\ Expansions(x.end) = {<<>>, <<x.semi>>}
           /\ IfRests(x) \subseteq Seq(Items)
<1>1. /\ Grammar["if_statement"] = <<x.if, x.condition, x.clause, x.otherwise, x.end>>
      /\ x.otherwise.k = "opt" /\ x.otherwise.alts[1] = <<x.else, x.clause>>
      /\ x.end.k = "opt" /\ x.end.alts[1] = <<x.semi>>
  BY DEF IsIf
<1>2. {x.if, x.condition, x.clause, x.otherwise, x.end} \subseteq Items
  <2>1. Grammar["if_statement"] \in Seq(Items)
    BY GrammarAssumption
  <2>2. <<x.if, x.condition, x.clause, x.otherwise, x.end>> \in Seq(Items)
    BY <1>1, <2>1
  <2> PICK w : w = <<x.if, x.condition, x.clause, x.otherwise, x.end>>
    OBVIOUS
  <2>3. w \in Seq(Items) /\ Len(w) = 5 /\ w[1] = x.if /\ w[2] = x.condition /\ w[3] = x.clause
        /\ w[4] = x.otherwise /\ w[5] = x.end
    BY <2>2
  <2> QED
    BY <2>3, ElementOfSeq
<1>3. Expansions(x.otherwise) = {<<>>, <<x.else, x.clause>>} /\ Expansions(x.end) = {<<>>, <<x.semi>>}
  BY <1>1 DEF Expansions
<1>4. <<x.else, x.clause>> \in Seq(Items) /\ <<x.semi>> \in Seq(Items)
  BY <1>2, <1>3, ExpansionTypes
<1>5. x.else \in Items /\ x.semi \in Items
  <2> PICK u, v : u = <<x.else, x.clause>> /\ v = <<x.semi>>
    OBVIOUS
  <2>1. Len(u) = 2 /\ u[1] = x.else /\ Len(v) = 1 /\ v[1] = x.semi
    OBVIOUS
  <2> QED
    BY <1>4, <2>1, ElementOfSeq
<1>6. x.otherwise # x.end
  <2>1. <<x.else, x.clause>> # <<x.semi>>
    OBVIOUS
  <2> QED
    BY <1>1, <2>1
<1>7. IfRests(x) \subseteq Seq(Items)
  BY <1>1, <1>2, <1>5 DEF IfRests, PastElse
<1> QED
  BY <1>2, <1>3, <1>5, <1>6, <1>7

\* What is left when its first item has been matched or skipped.
LEMMA IfTail ==
    ASSUME NEW x, IsIf(x), NEW e \in IfRests(x), e # <<>>
    PROVE  /\ Tail(e) \in IfRests(x)
           /\ e[1].k = "tok" =>
                 \/ e \notin PastElse(x) /\ Tail(e) \notin PastElse(x)
                 \/ e \notin PastElse(x) /\ Tail(e) = <<x.clause, x.end>> /\ e[1].set = {"ELSE"}
                 \/ e \in PastElse(x) /\ Tail(e) = <<>> /\ e[1].set = {"SEMI"}
           /\ e[1].k = "rule" =>
                 \/ e \notin PastElse(x) /\ Tail(e) \notin PastElse(x)
                 \/ e = <<x.clause, x.end>> /\ Tail(e) = <<x.end>>
           /\ e[1].k \notin {"tok", "rule"} =>
                 \/ e \notin PastElse(x) /\ e[1] = x.otherwise /\ Tail(e) = <<x.end>>
                 \/ e = <<x.end>> /\ e[1] = x.end /\ Tail(e) = <<>>
<1>1. /\ Grammar["if_statement"] = <<x.if, x.condition, x.clause, x.otherwise, x.end>>
      /\ x.if.k = "tok" /\ x.condition.k = "rule" /\ x.clause.k = "rule"
      /\ x.otherwise.k = "opt" /\ x.end.k = "opt"
      /\ x.else.k = "tok" /\ x.else.set = {"ELSE"} /\ x.semi.k = "tok" /\ x.semi.set = {"SEMI"}
  BY DEF IsIf
<1>2. /\ \A a : Tail(<<a>>) = <<>> /\ <<a>>[1] = a
      /\ \A a, b : Tail(<<a, b>>) = <<b>> /\ <<a, b>>[1] = a
      /\ \A a, b, c : Tail(<<a, b, c>>) = <<b, c>> /\ <<a, b, c>>[1] = a
      /\ \A a, b, c, d : Tail(<<a, b, c, d>>) = <<b, c, d>> /\ <<a, b, c, d>>[1] = a
      /\ \A a, b, c, d, g : Tail(<<a, b, c, d, g>>) = <<b, c, d, g>> /\ <<a, b, c, d, g>>[1] = a
  OBVIOUS
<1>3. ASSUME NEW a, NEW b, NEW c, NEW d PROVE <<a, b, c, d>> \notin PastElse(x)
  BY DEF PastElse
<1>4. ASSUME NEW a, NEW b, NEW c PROVE <<a, b, c>> \notin PastElse(x)
  BY DEF PastElse
<1>5. ASSUME NEW a, NEW b, NEW c, NEW d, NEW g PROVE <<a, b, c, d, g>> \notin PastElse(x)
  BY DEF PastElse
<1>6. <<x.otherwise, x.end>> \notin PastElse(x)
  <2>1. x.otherwise # x.clause
    BY <1>1
  <2>2. \A a, b, c : <<a, b>> # <<c>> /\ <<a, b>> # <<>>
    OBVIOUS
  <2>3. <<x.otherwise, x.end>> # <<x.clause, x.end>>
    BY <2>1
  <2> QED
    BY <2>2, <2>3 DEF PastElse
<1>7. CASE e = Grammar["if_statement"]
  BY <1>1, <1>2, <1>3, <1>5, <1>7 DEF IfRests
<1>8. CASE e = <<x.condition, x.clause, x.otherwise, x.end>>
  BY <1>1, <1>2, <1>3, <1>4, <1>8 DEF IfRests
<1>9. CASE e = <<x.clause, x.otherwise, x.end>>
  BY <1>1, <1>2, <1>4, <1>6, <1>9 DEF IfRests
<1>10. CASE e = <<x.otherwise, x.end>>
  BY <1>1, <1>2, <1>6, <1>10 DEF IfRests, PastElse
<1>11. CASE e = <<x.else, x.clause, x.end>>
  BY <1>1, <1>2, <1>4, <1>11 DEF IfRests, PastElse
<1>12. CASE e = <<x.clause, x.end>>
  BY <1>1, <1>2, <1>12 DEF IfRests, PastElse
<1>13. CASE e = <<x.end>>
  BY <1>1, <1>2, <1>13 DEF IfRests, PastElse
<1>14. CASE e = <<x.semi>>
  BY <1>1, <1>2, <1>14 DEF IfRests, PastElse
<1> QED
  BY <1>7, <1>8, <1>9, <1>10, <1>11, <1>12, <1>13, <1>14 DEF IfRests, PastElse

\* What an option of the IF is replaced by.
LEMMA IfChoice ==
    ASSUME NEW x, IsIf(x), "if_statement" \in DOMAIN Grammar,
           NEW e \in IfRests(x), e # <<>>, e[1].k \notin {"tok", "rule"}, NEW d \in Expansions(e[1])
    PROVE  /\ d \o Tail(e) \in IfRests(x)
           /\ d \o Tail(e) # <<x.clause, x.end>>
           /\ e \in PastElse(x) => d \o Tail(e) \in PastElse(x)
           /\ d \o Tail(e) \in {<<x.end>>, <<>>} => d = <<>>
<1>1. /\ {x.clause, x.else, x.end, x.semi} \subseteq Items
      /\ Expansions(x.otherwise) = {<<>>, <<x.else, x.clause>>}
      /\ Expansions(x.end) = {<<>>, <<x.semi>>}
      /\ x.clause.k = "rule" /\ x.otherwise.k = "opt" /\ x.end.k = "opt" /\ x.semi.k = "tok"
  BY IfItems DEF IsIf
<1>2. \/ e \notin PastElse(x) /\ e[1] = x.otherwise /\ Tail(e) = <<x.end>>
      \/ e = <<x.end>> /\ e[1] = x.end /\ Tail(e) = <<>>
  BY IfTail
<1>3. /\ <<x.end>> \in Seq(Items) /\ <<x.semi>> \in Seq(Items) /\ <<>> \in Seq(Items)
      /\ \A v \in Seq(Items) : <<>> \o v = v /\ v \o <<>> = v
  BY <1>1, ConcatEmptySeq
<1>4. <<x.else, x.clause>> \o <<x.end>> = <<x.else, x.clause, x.end>>
  <2>1. <<x.else, x.clause>> = Append(<<x.else>>, x.clause)
    OBVIOUS
  <2>2. <<x.else>> \in Seq(Items)
    BY <1>1
  <2>3. Append(<<x.else>>, x.clause) \o <<x.end>> = <<x.else>> \o (<<x.clause>> \o <<x.end>>)
    BY <1>1, <1>3, <2>2, MoveFirst
  <2>4. \A v \in Seq(Items) : v # <<>> => v = <<Head(v)>> \o Tail(v)
    BY FirstAndRest
  <2>5. <<x.clause>> \o <<x.end>> = <<x.clause, x.end>>
    <3> PICK v : v = <<x.clause, x.end>>
      OBVIOUS
    <3>1. v \in Seq(Items) /\ v # <<>> /\ Head(v) = x.clause /\ Tail(v) = <<x.end>>
      BY <1>1
    <3> QED
      BY <2>4, <3>1
  <2>6. <<x.else>> \o <<x.clause, x.end>> = <<x.else, x.clause, x.end>>
    <3> PICK v : v = <<x.else, x.clause, x.end>>
      OBVIOUS
    <3>1. v \in Seq(Items) /\ v # <<>> /\ Head(v) = x.else /\ Tail(v) = <<x.clause, x.end>>
      BY <1>1
    <3> QED
      BY <2>4, <3>1
  <2> QED
    BY <2>1, <2>3, <2>5, <2>6
<1>5. /\ \A a, b, c, g : <<a, b, c>> # <<g>> /\ <<a, b, c>> # <<>> /\ <<a, b, c>> # <<g, a>>
      /\ \A a, b, c : <<a>> # <<b, c>> /\ <<a>> # <<>> /\ <<a, b>> # <<>>
      /\ \A a, b : <<a>> = <<b>> => a = b
  OBVIOUS
<1>6. CASE e \notin PastElse(x) /\ e[1] = x.otherwise /\ Tail(e) = <<x.end>>
  <2>1. CASE d = <<>>
    <3>1. d \o Tail(e) = <<x.end>>
      BY <1>3, <1>6, <2>1
    <3>2. <<x.end>> # <<x.clause, x.end>> /\ <<x.end>> \in PastElse(x) /\ <<x.end>> \in IfRests(x)
      BY <1>5 DEF IfRests, PastElse
    <3> QED
      BY <2>1, <3>1, <3>2
  <2>2. CASE d = <<x.else, x.clause>>
    <3>1. d \o Tail(e) = <<x.else, x.clause, x.end>>
      BY <1>4, <1>6, <2>2
    <3>2. <<x.else, x.clause, x.end>> # <<x.clause, x.end>>
      OBVIOUS
    <3> QED
      BY SMTT(60), <1>5, <1>6, <3>1, <3>2 DEF IfRests
  <2> QED
    BY <1>1, <1>6, <2>1, <2>2
<1>7. CASE e = <<x.end>> /\ e[1] = x.end /\ Tail(e) = <<>>
  <2>1. d \o Tail(e) = d /\ (d = <<>> \/ d = <<x.semi>>)
    BY <1>1, <1>3, <1>7
  <2>2. <<x.semi>> # <<x.end>> /\ <<x.semi>> # <<x.clause, x.end>> /\ <<>> # <<x.clause, x.end>>
    BY <1>1, <1>5
  <2> QED
    BY <1>5, <2>1, <2>2 DEF IfRests, PastElse
<1> QED
  BY <1>2, <1>6, <1>7

\* So these are all the rests of an IF.
IfFamily(x) == [rule \in DOMAIN Grammar |-> IF rule = "if_statement" THEN IfRests(x) ELSE Seq(Items)]

LEMMA IfClosed ==
    ASSUME NEW x, IsIf(x)
    PROVE  ClosedUnderSteps(IfFamily(x))
<1> SUFFICES ASSUME NEW rule \in DOMAIN Grammar, NEW S, S = IfFamily(x)[rule]
             PROVE  /\ Grammar[rule] \in S
                    /\ \A e \in Seq(Items) : e \in S /\ e # <<>> =>
                          /\ e[1].k \in {"tok", "rule"} => Tail(e) \in S
                          /\ \A f \in Seq(Items) : Decides(e, f) => f \in S
  BY Zenon DEF ClosedUnderSteps
<1>1. CASE rule # "if_statement"
  <2>1. S = Seq(Items)
    BY <1>1 DEF IfFamily
  <2> QED
    BY <2>1, GrammarAssumption, TailItems
<1>2. CASE rule = "if_statement"
  <2>1. S = IfRests(x) /\ "if_statement" \in DOMAIN Grammar
    BY <1>2 DEF IfFamily
  <2>2. Grammar[rule] \in S
    BY <1>2, <2>1 DEF IfRests
  <2>3. ASSUME NEW e \in IfRests(x), e # <<>>, NEW f \in Seq(Items), Decides(e, f)
        PROVE  f \in IfRests(x)
    <3>1. CASE f = Tail(e)
      BY <2>3, <3>1, IfTail
    <3>2. CASE f # Tail(e)
      <4>1. PICK n \in DOMAIN e[1].alts : f = e[1].alts[n] \o (IF e[1].k = "star" THEN e ELSE Tail(e))
        BY <2>3, <3>2 DEF Decides
      <4>2. e[1].k \notin {"tok", "rule"}
        BY <2>3 DEF Decides
      <4>3. e[1] \in Items /\ e[1].k = "opt"
        BY SMTT(60), <2>1, <2>3, <4>2, IfTail, IfItems DEF IsIf
      <4>4. n = 1
        <5>1. Len(e[1].alts) = 1 /\ DOMAIN e[1].alts = 1 .. Len(e[1].alts)
          BY <4>3, ItemsAssumption, LenProperties
        <5> QED
          BY <5>1
      <4>5. f = e[1].alts[1] \o Tail(e) /\ e[1].alts[1] \in Expansions(e[1])
        BY <4>1, <4>3, <4>4 DEF Expansions
      <4> QED
        BY <2>1, <2>3, <4>2, <4>5, IfChoice
    <3> QED
      BY <3>1, <3>2
  <2> QED
    BY <2>1, <2>2, <2>3, IfTail
<1> QED
  BY <1>1, <1>2

\* What leads to another IF stands last, but for options, in what is left too.
LEMMA LeadsTail ==
    ASSUME NEW e \in Seq(Items), e # <<>>, NEW parts, NEW around, NEW options,
           LeadsLast(parts, e, around, options)
    PROVE  /\ LeadsLast(parts, Tail(e), around, options)
           /\ Leads(parts, e[1], around) => AllIn(Tail(e), options)
<1>1. /\ Len(e) \in Nat \ {0} /\ Tail(e) \in Seq(Items) /\ Len(Tail(e)) = Len(e) - 1
      /\ \A i \in 1 .. Len(e) - 1 : Tail(e)[i] = e[i + 1]
  BY TailItems
<1>2. DOMAIN Tail(e) = 1 .. Len(e) - 1 /\ DOMAIN e = 1 .. Len(e)
  BY <1>1, LenProperties
<1>3. \A i \in 1 .. Len(e) - 1 : i + 1 \in 1 .. Len(e) /\ 1 < i + 1
  BY <1>1
<1>4. ASSUME NEW i \in 1 .. Len(e) - 1, NEW j \in 1 .. Len(e) - 1, i < j, Leads(parts, Tail(e)[i], around)
      PROVE  Tail(e)[j] \in options
  <2>1. i + 1 < j + 1
    BY <1>1, <1>4
  <2> QED
    BY <1>1, <1>2, <1>3, <1>4, <2>1 DEF LeadsLast
<1>5. ASSUME Leads(parts, e[1], around), NEW j \in 1 .. Len(e) - 1 PROVE Tail(e)[j] \in options
  <2>1. 1 \in 1 .. Len(e)
    BY <1>1
  <2> QED
    BY <1>1, <1>2, <1>3, <1>5, <2>1 DEF LeadsLast
<1> QED
  BY <1>2, <1>4, <1>5 DEF LeadsLast, AllIn

LEMMA LeadsConcat ==
    ASSUME NEW e \in Seq(Items), NEW v \in Seq(Items), NEW parts, NEW around, NEW options,
           LeadsLast(parts, e, around, options), LeadsLast(parts, v, around, options),
           \A i \in DOMAIN e : Leads(parts, e[i], around) => AllIn(v, options)
    PROVE  LeadsLast(parts, e \o v, around, options)
<1> DEFINE w == e \o v
<1>1. /\ Len(e) \in Nat /\ Len(v) \in Nat /\ DOMAIN e = 1 .. Len(e) /\ DOMAIN v = 1 .. Len(v)
      /\ DOMAIN w = 1 .. Len(e) + Len(v)
      /\ \A i \in 1 .. Len(e) : w[i] = e[i]
      /\ \A i \in 1 .. Len(v) : w[Len(e) + i] = v[i]
  BY ConcatPlaces
<1> HIDE DEF w
<1> SUFFICES ASSUME NEW i \in DOMAIN w, NEW j \in DOMAIN w, i < j, Leads(parts, w[i], around)
             PROVE  w[j] \in options
  BY DEF LeadsLast, w
<1>2. \A k \in DOMAIN w : k > Len(e) => k - Len(e) \in 1 .. Len(v) /\ w[k] = v[k - Len(e)]
  <2> SUFFICES ASSUME NEW k \in DOMAIN w, k > Len(e), NEW h, h = k - Len(e)
               PROVE  h \in 1 .. Len(v) /\ w[k] = v[h]
    OBVIOUS
  <2>1. h \in 1 .. Len(v) /\ k = Len(e) + h
    BY <1>1
  <2> QED
    BY <1>1, <2>1
<1>3. CASE j <= Len(e)
  <2>1. i \in 1 .. Len(e) /\ j \in 1 .. Len(e)
    BY <1>1, <1>3
  <2> QED
    BY <1>1, <2>1 DEF LeadsLast
<1>4. CASE i <= Len(e) /\ j > Len(e)
  <2>1. i \in 1 .. Len(e)
    BY <1>1, <1>4
  <2>2. AllIn(v, options)
    BY <1>1, <2>1
  <2> QED
    BY <1>1, <1>2, <1>4, <2>2 DEF AllIn
<1>5. CASE i > Len(e) /\ j > Len(e)
  <2> PICK g, h : g = i - Len(e) /\ h = j - Len(e)
    OBVIOUS
  <2>1. g \in 1 .. Len(v) /\ h \in 1 .. Len(v) /\ g < h /\ w[i] = v[g] /\ w[j] = v[h]
    BY <1>1, <1>2, <1>5
  <2> QED
    BY <1>1, <2>1 DEF LeadsLast
<1> QED
  BY <1>1, <1>3, <1>4, <1>5

\* What the functions of carriers have still to match.
LeadFamily(parts, x, around) ==
    [rule \in DOMAIN Grammar |->
        {e \in Seq(ItemsIn(parts, rule)) :
            rule \in Carriers => LeadsLast(parts, e, around, {x.otherwise, x.end})}]

LEMMA LeadClosed ==
    ASSUME NEW parts, NEW x, NEW around, IfGrammar(parts, x, around)
    PROVE  ClosedUnderSteps(LeadFamily(parts, x, around))
<1> DEFINE Last(e) == LeadsLast(parts, e, around, {x.otherwise, x.end})
<1> SUFFICES ASSUME NEW rule \in DOMAIN Grammar, NEW X, X = ItemsIn(parts, rule),
                    NEW S, S = {e \in Seq(X) : rule \in Carriers => Last(e)}
             PROVE  /\ Grammar[rule] \in S
                    /\ \A e \in Seq(Items) : e \in S /\ e # <<>> =>
                          /\ e[1].k \in {"tok", "rule"} => Tail(e) \in S
                          /\ \A f \in Seq(Items) : Decides(e, f) => f \in S
  BY Zenon DEF ClosedUnderSteps, LeadFamily
<1>0. AreParts(parts)
  BY DEF IfGrammar
<1>1. /\ X \subseteq Items /\ Grammar[rule] \in Seq(X) /\ Grammar[rule] \in SequencesIn(parts, rule)
      /\ \A it \in X : \A n \in DOMAIN it.alts : it.alts[n] \in Seq(Items) =>
            it.alts[n] \in Seq(X) /\ it.alts[n] \in SequencesIn(parts, rule)
  BY <1>0, ItemAlternatives
<1>2. rule \in Carriers => /\ \A e \in SequencesIn(parts, rule) : Last(e)
                           /\ \A it \in X : it.k = "star" => ~Leads(parts, it, around)
  BY DEF IfGrammar
<1>3. Grammar[rule] \in S
  BY <1>1, <1>2
<1>4. ASSUME NEW e \in S, e # <<>>, e \in Seq(Items)
      PROVE  Tail(e) \in S /\ e[1] \in X
  <2>1. Tail(e) \in Seq(X) /\ Head(e) \in X /\ Head(e) = e[1]
    BY <1>4, HeadTailProperties
  <2>2. rule \in Carriers => Last(Tail(e))
    BY <1>4, LeadsTail
  <2> QED
    BY <2>1, <2>2
<1>5. ASSUME NEW e \in S, e # <<>>, e \in Seq(Items), NEW f \in Seq(Items), Decides(e, f)
      PROVE  f \in S
  <2>1. CASE f = Tail(e)
    BY <1>4, <1>5, <2>1
  <2>2. ASSUME NEW n \in DOMAIN e[1].alts, e[1].alts[n] \in Seq(Items),
               f = e[1].alts[n] \o (IF e[1].k = "star" THEN e ELSE Tail(e))
        PROVE  f \in S
    <3> DEFINE b == e[1].alts[n]
               t == IF e[1].k = "star" THEN e ELSE Tail(e)
    <3>1. b \in Seq(X) /\ t \in S /\ t \in Seq(X) /\ b \in Seq(Items) /\ t \in Seq(Items)
      <4>1. Tail(e) \in Seq(Items)
        BY <1>5, TailItems
      <4> QED
        BY <1>1, <1>4, <1>5, <2>2, <4>1
    <3>2. ASSUME NEW i \in DOMAIN b, Leads(parts, b[i], around) PROVE Leads(parts, e[1], around)
      <4>1. e[1] \in Items /\ b[i] \in parts[e[1]]
        BY <1>0, <1>1, <1>4, <1>5, <2>2 DEF AreParts
      <4>2. parts[b[i]] \subseteq parts[e[1]]
        BY <1>0, <4>1 DEF AreParts
      <4> QED
        BY <3>2, <4>2 DEF Leads
    <3>3. ASSUME rule \in Carriers, NEW i \in DOMAIN b, Leads(parts, b[i], around)
          PROVE  AllIn(t, {x.otherwise, x.end})
      <4>1. Leads(parts, e[1], around) /\ e[1] \in X
        BY <1>4, <1>5, <3>2, <3>3
      <4>2. e[1].k # "star"
        BY <1>2, <3>3, <4>1
      <4>3. AllIn(Tail(e), {x.otherwise, x.end})
        BY <1>5, <3>3, <4>1, LeadsTail
      <4> QED
        BY <4>2, <4>3
    <3>4. rule \in Carriers => Last(b) /\ Last(t)
      <4>1. b \in SequencesIn(parts, rule)
        BY <1>1, <1>4, <1>5, <2>2
      <4>2. rule \in Carriers => Last(b)
        BY <1>2, <4>1
      <4> HIDE DEF t, Last
      <4>3. rule \in Carriers => Last(t)
        BY <3>1
      <4> QED
        BY <4>2, <4>3
    <3> HIDE DEF b, t
    <3>5. b \o t \in Seq(X)
      BY <3>1, ConcatProperties
    <3>6. rule \in Carriers => Last(b \o t)
      BY <3>1, <3>3, <3>4, LeadsConcat
    <3> QED
      BY <2>2, <3>5, <3>6 DEF b, t
  <2> QED
    BY <1>5, <2>1, <2>2 DEF Decides
<1> QED
  BY <1>3, <1>4, <1>5

\* A step that calls no function adds no frame and changes only the last one.
LEMMA NoNewFrame ==
    ASSUME TreeInv, [Next]_vars, ~EnterRule, ~Call
    PROVE  /\ DOMAIN stack = 1 .. Len(stack) /\ DOMAIN stack' = 1 .. Len(stack')
           /\ Len(stack) \in Nat /\ Len(stack') \in Nat /\ Len(stack') <= Len(stack)
           /\ \A d \in DOMAIN stack' :
                 /\ d \in DOMAIN stack /\ stack'[d].node = stack[d].node /\ RuleOf(d)' = RuleOf(d)
                 /\ d < Len(stack') => stack'[d].rest = stack[d].rest
<1> DEFINE L == Len(stack)
<1>1. TypeOK /\ TypeOK'
  BY StepKeepsTree DEF TreeInv
<1>2. DOMAIN stack = 1 .. L /\ DOMAIN stack' = 1 .. Len(stack') /\ L \in Nat /\ Len(stack') \in Nat
  BY <1>1, FrameTypes
<1>3. ASSUME Len(stack') <= L,
             \A d \in DOMAIN stack' : /\ stack'[d].node = stack[d].node
                                      /\ d < Len(stack') => stack'[d].rest = stack[d].rest
      PROVE  \A d \in DOMAIN stack' :
                /\ d \in DOMAIN stack /\ stack'[d].node = stack[d].node /\ RuleOf(d)' = RuleOf(d)
                /\ d < Len(stack') => stack'[d].rest = stack[d].rest
  <2>1. \A d \in DOMAIN stack' : d \in 1 .. L
    BY <1>2, <1>3
  <2> QED
    BY <1>2, <1>3, <2>1, FrameStays
<1>4. ASSUME stack # <<>>, NEW f \in Seq(Items), Continue(f)
      PROVE  /\ Len(stack') <= L
             /\ \A d \in DOMAIN stack' : /\ stack'[d].node = stack[d].node
                                         /\ d < Len(stack') => stack'[d].rest = stack[d].rest
  <2>1. /\ L \in Nat \ {0} /\ Len(stack') = L /\ DOMAIN stack' = 1 .. L
        /\ \A d \in 1 .. L - 1 : SameFrame(d)
        /\ stack'[L].node = Top.node
    BY <1>4, ContinueStep
  <2>2. ASSUME NEW d \in 1 .. L PROVE stack'[d].node = stack[d].node
    BY <2>1, LastOrBefore DEF SameFrame, Top
  <2>3. ASSUME NEW d \in 1 .. L, d < L PROVE stack'[d].rest = stack[d].rest
    <3>1. \A l \in Nat : \A c \in 1 .. l : c < l => c \in 1 .. l - 1
      OBVIOUS
    <3> QED
      BY <2>1, <2>3, <3>1 DEF SameFrame
  <2>4. \A l \in Nat : l <= l
    OBVIOUS
  <2> QED
    BY <2>1, <2>2, <2>3, <2>4
<1>5. /\ Len(stack') <= L
      /\ \A d \in DOMAIN stack' : /\ stack'[d].node = stack[d].node
                                  /\ d < Len(stack') => stack'[d].rest = stack[d].rest
  <2>1. CASE Match
    <3>1. stack # <<>> /\ Tail(Top.rest) \in Seq(Items) /\ Continue(Tail(Top.rest))
      BY <2>1, MatchFrames
    <3> QED
      BY <1>4, <3>1
  <2>2. CASE Choose \/ EnterOptional \/ Iterate
    <3>1. stack # <<>> /\ \E e \in Seq(Items) : Continue(e)
      BY <2>2, DecideFrames
    <3> QED
      BY <1>4, <3>1
  <2>3. CASE ExitRule
    <3>1. Len(stack') = L - 1 /\ \A d \in 1 .. L - 1 : SameFrame(d)
      BY <2>3, ExitFrame
    <3> QED
      BY <1>2, <3>1 DEF SameFrame
  <2>4. CASE SyntaxError \/ UNCHANGED vars
    <3>1. UNCHANGED stack
      BY <2>4 DEF SyntaxError, vars
    <3> QED
      BY <1>2, <3>1
  <2> QED
    BY <2>1, <2>2, <2>3, <2>4 DEF Next, Step, Keep
<1> QED
  BY <1>2, <1>3, <1>5

\* The item the active function expects is one of its rule.
LEMMA ExpectedInRule ==
    ASSUME NEW parts, NEW x, NEW around, TypeOK, RestsIn(LeadFamily(parts, x, around)),
           stack # <<>>, Top.rest # <<>>
    PROVE  /\ Expected \in ItemsIn(parts, RuleOf(Len(stack)))
           /\ RuleOf(Len(stack)) \in DOMAIN Grammar
           /\ RuleOf(Len(stack)) \in Carriers =>
                 LeadsLast(parts, Top.rest, around, {x.otherwise, x.end})
<1> DEFINE L == Len(stack)
<1>1. L \in DOMAIN stack /\ RuleOf(L) \in DOMAIN Grammar /\ Top = stack[L]
  <2>1. L \in Nat \ {0}
    BY TopType
  <2>2. L \in 1 .. L
    BY <2>1
  <2> QED
    BY <2>2, FrameTypes DEF Top
<1>2. Top.rest \in LeadFamily(parts, x, around)[RuleOf(L)]
  BY <1>1 DEF RestsIn
<1>3. /\ Top.rest \in Seq(ItemsIn(parts, RuleOf(L)))
      /\ RuleOf(L) \in Carriers => LeadsLast(parts, Top.rest, around, {x.otherwise, x.end})
  BY <1>1, <1>2 DEF LeadFamily
<1>4. Expected \in ItemsIn(parts, RuleOf(L))
  BY <1>3, HeadTailProperties DEF Expected
<1> QED
  BY <1>1, <1>3, <1>4

-----------------------------------------------------------------------------
(***************************************************************************)
(* The functions around an IF.                                             *)
(***************************************************************************)
\* Around a node that may have an IF inside there are only such nodes.
AroundInv(around) ==
    \A m \in DOMAIN nodes, d \in DOMAIN stack :
        nodes[m].rule \in around /\ stack[d].node < m => RuleOf(d) \in around

\* From frame d to frame e it goes through a block, or through carriers that
\* have nothing but options left.
Reaches(d, e, options) ==
    \/ \E k \in d + 1 .. e : RuleOf(k) \in Blocks
    \/ RuleOf(e) \in Carriers /\ \A k \in d .. e - 1 : AllIn(stack[k].rest, options)

ChainInv(around, options) ==
    \A d, e \in DOMAIN stack :
        d < e /\ RuleOf(d) \in Carriers /\ RuleOf(e) \in around => Reaches(d, e, options)

\* The function that calls one around an IF.
LEMMA EnterAround ==
    ASSUME NEW parts, NEW x, NEW around, IfGrammar(parts, x, around),
           TreeInv, RestsIn(LeadFamily(parts, x, around)), EnterRule, Expected.sym \in around
    PROVE  /\ RuleOf(Len(stack)) \in around
           /\ RuleOf(Len(stack)) \in Carriers =>
                 /\ Expected.sym \in Carriers \cup Blocks
                 /\ AllIn(Tail(Top.rest), {x.otherwise, x.end})
<1>1. TypeOK
  BY DEF TreeInv
<1>2. stack # <<>> /\ Top.rest # <<>> /\ Top.rest \in Seq(Items) /\ Expected.k = "rule" /\ Expected \in Items
  BY <1>1, EnterFrame, TopType
<1>3. /\ Expected \in ItemsIn(parts, RuleOf(Len(stack))) /\ RuleOf(Len(stack)) \in DOMAIN Grammar
      /\ RuleOf(Len(stack)) \in Carriers => LeadsLast(parts, Top.rest, around, {x.otherwise, x.end})
  BY <1>1, <1>2, ExpectedInRule
<1>4. RuleOf(Len(stack)) \in around
  BY <1>2, <1>3 DEF IfGrammar
<1>5. ASSUME RuleOf(Len(stack)) \in Carriers
      PROVE  Expected.sym \in Carriers \cup Blocks /\ AllIn(Tail(Top.rest), {x.otherwise, x.end})
  <2>1. Expected.sym \in Carriers \cup Blocks
    BY <1>2, <1>3, <1>5 DEF IfGrammar
  <2>2. Expected = Top.rest[1]
    BY <1>2, TailItems DEF Expected
  <2>3. Leads(parts, Expected, around)
    BY <1>2 DEF Leads, IfGrammar, AreParts
  <2> QED
    BY <1>2, <1>3, <1>5, <2>1, <2>2, <2>3, LeadsTail
<1> QED
  BY <1>4, <1>5

LEMMA StepKeepsAround ==
    ASSUME NEW parts, NEW x, NEW around, IfGrammar(parts, x, around),
           TreeInv, RestsIn(LeadFamily(parts, x, around)), AroundInv(around), [Next]_vars
    PROVE  AroundInv(around)'
<1> SUFFICES ASSUME NEW m \in DOMAIN nodes', NEW d \in DOMAIN stack',
                    nodes'[m].rule \in around, stack'[d].node < m
             PROVE  RuleOf(d)' \in around
  BY DEF AroundInv
<1>1. TypeOK /\ Grows
  BY StepGrows DEF TreeInv
<1>2. CASE EnterRule
  <2> PICK l : l = Len(stack)
    OBVIOUS
  <2>1. /\ l \in Nat \ {0} /\ DOMAIN stack = 1 .. l /\ DOMAIN stack' = 1 .. l + 1
        /\ \A c \in 1 .. l - 1 : SameFrame(c)
        /\ stack'[l].node = Top.node
        /\ \A c \in 1 .. l : RuleOf(c)' = RuleOf(c)
        /\ \A c : c = l + 1 => RuleOf(c)' = Expected.sym
    BY <1>2, EnterFrame
  <2>2. stack'[l + 1].node = Len(nodes) + 1
    BY <1>1, <1>2, EnterStep
  <2>3. \A c \in 1 .. l : stack'[c].node = stack[c].node
    BY <2>1, LastOrBefore DEF SameFrame, Top
  <2>4. d \in 1 .. l \/ d = l + 1
    BY <2>1
  <2>5. CASE m \in DOMAIN nodes
    <3>1. nodes'[m].rule = nodes[m].rule
      BY <1>1, <2>5 DEF Grows
    <3>2. d # l + 1
      <4>1. Len(nodes) \in Nat /\ m \in 1 .. Len(nodes)
        BY <1>1, <2>5, NodeTypes
      <4>2. \A a \in Nat : \A b \in 1 .. a : ~(a + 1 < b)
        OBVIOUS
      <4> QED
        BY <2>2, <4>1, <4>2
    <3> QED
      BY <2>1, <2>3, <2>4, <2>5, <3>1, <3>2 DEF AroundInv
  <2>6. CASE m \notin DOMAIN nodes
    <3>1. Expected.sym \in around
      BY <1>2, <2>6, NodeAdded
    <3>2. RuleOf(l) \in around
      BY <1>2, <3>1, EnterAround
    <3>3. CASE d \in 1 .. l - 1
      <4>1. d \in 1 .. l /\ l \in 1 .. l /\ d < l
        BY <2>1, <3>3
      <4>2. stack[d].node < stack[l].node
        BY <2>1, <4>1 DEF TreeInv, ContextFollowsCalls
      <4>3. stack[l].node \in DOMAIN nodes
        BY <1>1, <2>1, <4>1, FrameTypes
      <4>4. RuleOf(d) \in around
        BY <2>1, <3>2, <4>1, <4>2, <4>3 DEF AroundInv, RuleOf
      <4> QED
        BY <2>1, <4>1, <4>4
    <3>4. CASE d = l
      <4>1. d \in 1 .. l
        BY <2>1, <3>4
      <4> QED
        BY <2>1, <3>2, <3>4, <4>1
    <3>5. CASE d = l + 1
      BY <2>1, <3>1, <3>5
    <3> QED
      BY <2>1, <2>4, <3>3, <3>4, <3>5, LastOrBefore
  <2> QED
    BY <2>5, <2>6
<1>3. CASE Call
  <2>1. DOMAIN stack' = 1 .. 1 /\ DOMAIN nodes' = {1} /\ stack'[1].node = 1
    BY <1>3, CallFrame, CallStep
  <2>2. d = 1 /\ m = 1
    BY <2>1
  <2> QED
    BY <2>1, <2>2
<1>4. CASE ~EnterRule /\ ~Call
  <2>1. d \in DOMAIN stack /\ stack'[d].node = stack[d].node /\ RuleOf(d)' = RuleOf(d)
    BY <1>4, NoNewFrame
  <2>2. m \in DOMAIN nodes
    BY <1>4, NodeAdded
  <2>3. nodes'[m].rule = nodes[m].rule
    BY <1>1, <2>2 DEF Grows
  <2> QED
    BY <2>1, <2>2, <2>3 DEF AroundInv
<1> QED
  BY <1>2, <1>3, <1>4

LEMMA StepKeepsChain ==
    ASSUME NEW parts, NEW x, NEW around, IfGrammar(parts, x, around), TreeInv,
           RestsIn(LeadFamily(parts, x, around)), ChainInv(around, {x.otherwise, x.end}), [Next]_vars
    PROVE  ChainInv(around, {x.otherwise, x.end})'
<1> DEFINE options == {x.otherwise, x.end}
<1> SUFFICES ASSUME NEW d \in DOMAIN stack', NEW e \in DOMAIN stack', d < e,
                    RuleOf(d)' \in Carriers, RuleOf(e)' \in around
             PROVE  Reaches(d, e, options)'
  BY DEF ChainInv
<1>1. ASSUME d \in DOMAIN stack, e \in DOMAIN stack,
             \A k \in d .. e : RuleOf(k)' = RuleOf(k),
             \A k \in d .. e - 1 : stack'[k].rest = stack[k].rest, d \in Int, e \in Int
      PROVE  Reaches(d, e, options)'
  <2>1. d \in d .. e /\ e \in d .. e /\ \A k \in d + 1 .. e : k \in d .. e
    BY <1>1
  <2>2. Reaches(d, e, options)
    BY <1>1, <2>1 DEF ChainInv
  <2>3. \A k : k = e => RuleOf(k)' = RuleOf(k)
    BY <1>1, <2>1
  <2> QED
    BY <1>1, <2>1, <2>2, <2>3 DEF Reaches
<1>2. CASE EnterRule
  <2> PICK l : l = Len(stack)
    OBVIOUS
  <2>1. /\ l \in Nat \ {0} /\ DOMAIN stack = 1 .. l /\ DOMAIN stack' = 1 .. l + 1
        /\ \A c \in 1 .. l - 1 : SameFrame(c)
        /\ stack'[l].rest = Tail(Top.rest)
        /\ \A c \in 1 .. l : RuleOf(c)' = RuleOf(c)
        /\ \A c : c = l + 1 => RuleOf(c)' = Expected.sym
    BY <1>2, EnterFrame
  <2>2. CASE e \in 1 .. l
    <3>1. d \in 1 .. l /\ \A k \in d .. e : k \in 1 .. l
      BY <2>1, <2>2
    <3>2. \A k \in d .. e - 1 : k \in 1 .. l - 1
      BY <2>1, <2>2
    <3>3. \A k \in d .. e : RuleOf(k)' = RuleOf(k)
      BY <2>1, <3>1
    <3>4. \A k \in d .. e - 1 : stack'[k].rest = stack[k].rest
      BY <2>1, <3>2 DEF SameFrame
    <3> QED
      BY <1>1, <2>1, <2>2, <3>1, <3>3, <3>4
  <2>3. CASE e = l + 1
    <3>1. Expected.sym \in around
      BY <2>1, <2>3
    <3>2. /\ RuleOf(l) \in around
          /\ RuleOf(l) \in Carriers =>
                Expected.sym \in Carriers \cup Blocks /\ AllIn(Tail(Top.rest), options)
      BY <1>2, <3>1, EnterAround
    <3>3. d \in 1 .. l /\ d \in Int /\ RuleOf(d) \in Carriers /\ l \in 1 .. l
      BY <2>1, <2>3
    <3>4. e \in d + 1 .. e
      BY <2>1, <2>3, <3>3
    <3>5. CASE RuleOf(l) \in Carriers /\ \A k \in d .. l - 1 : AllIn(stack[k].rest, options)
      <4>1. CASE Expected.sym \in Blocks
        BY <2>1, <2>3, <3>4, <4>1 DEF Reaches
      <4>2. CASE Expected.sym \in Carriers
        <5>1. ASSUME NEW k \in d .. e - 1 PROVE AllIn(stack'[k].rest, options)
          <6>1. (k \in d .. l - 1 /\ k \in 1 .. l - 1) \/ k = l
            BY <2>1, <2>3, <3>3
          <6>2. CASE k = l
            BY <2>1, <3>2, <3>5, <6>2
          <6>3. CASE k \in d .. l - 1 /\ k \in 1 .. l - 1
            BY <2>1, <3>5, <6>3 DEF SameFrame
          <6> QED
            BY <6>1, <6>2, <6>3
        <5>2. RuleOf(e)' \in Carriers
          BY <2>1, <2>3, <4>2
        <5> HIDE DEF options
        <5>3. \A k \in d .. e - 1 : AllIn(stack[k].rest, options)'
          BY <5>1 DEF AllIn
        <5> QED
          BY <5>2, <5>3 DEF Reaches
      <4> QED
        BY <3>2, <3>5, <4>1, <4>2
    <3>6. CASE d = l
      <4>1. \A k : k \notin d .. l - 1
        BY <2>1, <3>6
      <4> QED
        BY <3>3, <3>5, <3>6, <4>1
    <3>7. CASE d # l
      <4>1. d < l
        BY <2>1, <3>3, <3>7
      <4>2. Reaches(d, l, options)
        BY <2>1, <3>2, <3>3, <4>1 DEF ChainInv
      <4>3. CASE \E k \in d + 1 .. l : RuleOf(k) \in Blocks
        <5>1. PICK k \in d + 1 .. l : RuleOf(k) \in Blocks
          BY <4>3
        <5>2. k \in d + 1 .. e /\ k \in 1 .. l
          BY <2>1, <2>3, <3>3
        <5>3. RuleOf(k)' \in Blocks
          BY <2>1, <5>1, <5>2
        <5> QED
          BY <5>2, <5>3 DEF Reaches
      <4> QED
        BY <3>5, <4>2, <4>3 DEF Reaches
    <3> QED
      BY <3>6, <3>7
  <2> QED
    BY <2>1, <2>2, <2>3
<1>3. CASE Call
  <2>1. DOMAIN stack' = 1 .. 1
    BY <1>3, CallFrame
  <2>2. d = 1 /\ e = 1
    BY <2>1
  <2> QED
    BY <2>2
<1>4. CASE ~EnterRule /\ ~Call
  <2> PICK l : l = Len(stack')
    OBVIOUS
  <2>1. /\ l \in Nat /\ DOMAIN stack' = 1 .. l
        /\ \A k \in 1 .. l : /\ k \in DOMAIN stack /\ RuleOf(k)' = RuleOf(k)
                             /\ k < l => stack'[k].rest = stack[k].rest
    BY <1>4, NoNewFrame
  <2>2. d \in 1 .. l /\ e \in 1 .. l /\ \A k \in d .. e : k \in 1 .. l
    BY <2>1
  <2>3. \A k \in d .. e - 1 : k \in 1 .. l /\ k < l
    BY <2>1, <2>2
  <2> QED
    BY <1>1, <2>1, <2>2, <2>3
<1> QED
  BY <1>2, <1>3, <1>4

-----------------------------------------------------------------------------
(***************************************************************************)
(* The IFs that an ELSE could be taken from.                               *)
(***************************************************************************)
\* Behind its ELSE an IF has one.
ElseTaken(x) ==
    \A d \in DOMAIN stack :
        RuleOf(d) = "if_statement" /\ stack[d].rest = <<x.clause, x.end>> => HasElse(stack[d].node)

\* The IF of node m has passed the place of its ELSE and has neither an ELSE
\* nor a semicolon.
Loose(m, x) ==
    /\ nodes[m].rule = "if_statement" /\ ~HasElse(m)
    /\ \A q \in TokensOf("SEMI") : owner[q] # m
    /\ \A d \in DOMAIN stack : stack[d].node = m => stack[d].rest \in {<<x.end>>, <<>>}

\* Within node n, node m is inside a block.
Enclosed(n, m) ==
    \E b \in DOMAIN nodes :
        /\ nodes[b].rule \in Blocks /\ n < b /\ b < m
        /\ Open(b) \/ nodes[m].start <= nodes[b].stop

\* The IF of frame d may still take an ELSE, and there is a loose one inside.
Rival(d, m, x) ==
    /\ RuleOf(d) = "if_statement" /\ stack[d].rest \notin PastElse(x)
    /\ stack[d].node < m /\ Loose(m, x) /\ ~Enclosed(stack[d].node, m)

AllOptions(d, x) == \A k \in d .. Len(stack) : AllIn(stack[k].rest, {x.otherwise, x.end})

NoElseNext(f, x) == ~Matches(table, <<x.else, x.clause>> \o Left(f), pos)

NoSemiNext(f, m, x) ==
    \/ ~Matches(table, <<x.semi>> \o Left(f), pos)
    \/ Top.node = m /\ Top.rest = <<x.end>>

\* Then there is no ELSE to take: the tokens match neither an ELSE nor a
\* semicolon here, but for the one that may end the loose IF.
Rivals(f, x) ==
    \A d \in DOMAIN stack, m \in DOMAIN nodes :
        Rival(d, m, x) => AllOptions(d, x) /\ NoElseNext(f, x) /\ NoSemiNext(f, m, x)

\* An IF that has been passed over by an ELSE; n is the node of that ELSE, at p.
Passed(m, n, p) ==
    \/ HasElse(m)
    \/ \E q \in TokensOf("SEMI") : q < p /\ owner[q] = m
    \/ \E b \in DOMAIN nodes :
          /\ Closed(b) /\ nodes[b].rule \in Blocks /\ n < b /\ b < m
          /\ nodes[m].start <= nodes[b].stop /\ nodes[b].stop < p

ElseRead ==
    \A p \in TokensOf("ELSE"), m \in NodesOf("if_statement") :
        owner[p] < m /\ nodes[m].start < p => Passed(m, owner[p], p)

\* No node behind that of the active function is open.
LEMMA ClosedAbove ==
    ASSUME TreeInv, stack # <<>>, NEW m \in DOMAIN nodes, Top.node < m
    PROVE  Closed(m)
<1> SUFFICES ASSUME NEW d \in DOMAIN stack, stack[d].node = m PROVE FALSE
  BY DEF Closed, Open
<1>1. TypeOK
  BY DEF TreeInv
<1> PICK l : l = Len(stack)
  OBVIOUS
<1>2. l \in Nat \ {0} /\ DOMAIN stack = 1 .. l /\ Top = stack[l] /\ l \in DOMAIN stack
  BY <1>1, TopType DEF Top
<1>3. d < l \/ d = l
  BY <1>2
<1>4. stack[d].node \in Nat /\ stack[l].node \in Nat
  BY <1>1, <1>2, FrameTypes, NodeTypes
<1>5. d < l => stack[d].node < stack[l].node
  BY <1>2 DEF TreeInv, ContextFollowsCalls
<1> QED
  BY <1>2, <1>3, <1>4, <1>5

LEMMA HasElseStays ==
    ASSUME TreeInv, [Next]_vars, NEW m, HasElse(m)
    PROVE  HasElse(m)'
<1>1. PICK p \in DOMAIN owner : input[p] = "ELSE" /\ owner[p] = m
  BY DEF HasElse, TokensOf
<1>2. p \in DOMAIN owner' /\ owner'[p] = owner[p]
  BY <1>1, RulesStay
<1>3. UNCHANGED input
  BY DEF Next, Step, Call, Match, EnterRule, Choose, EnterOptional, Iterate, ExitRule,
         SyntaxError, Keep, vars
<1> QED
  BY <1>1, <1>2, <1>3 DEF HasElse, TokensOf

\* A node that is inside a block stays so: when the block ends, the node has
\* ended, and it has tokens.
LEMMA EnclosedStays ==
    ASSUME NEW empty, TreeInv, NonemptyInv(empty), [Next]_vars, NEW n, NEW m \in DOMAIN nodes,
           Nonempty(nodes[m].rule, empty), Enclosed(n, m)
    PROVE  Enclosed(n, m)'
<1>1. PICK b \in DOMAIN nodes : /\ nodes[b].rule \in Blocks /\ n < b /\ b < m
                                /\ Open(b) \/ nodes[m].start <= nodes[b].stop
  BY DEF Enclosed
<1>2. Grows /\ TypeOK /\ pos \in Nat
  BY StepGrows, PosType DEF TreeInv
<1>3. b \in DOMAIN nodes' /\ nodes'[b].rule = nodes[b].rule /\ nodes'[m].start = nodes[m].start
  BY <1>1, <1>2 DEF Grows
<1>4. nodes[m].start \in Nat /\ nodes[m].stop \in Nat
  BY <1>2, NodeTypes
<1>5. CASE Closed(b)
  <2>1. nodes'[b].stop = nodes[b].stop /\ nodes[m].start <= nodes[b].stop
    BY <1>1, <1>2, <1>5 DEF Grows, Closed
  <2> QED
    BY <1>1, <1>3, <2>1 DEF Enclosed
<1>6. CASE ~Closed(b) /\ Closed(b)'
  <2>1. b = Top.node /\ nodes'[b].stop = pos - 1 /\ stack # <<>>
    BY <1>3, <1>6, NodeClosed
  <2>2. Closed(m)
    BY <1>1, <2>1, ClosedAbove
  <2>3. nodes[m].start <= nodes[m].stop
    BY <2>2 DEF NonemptyInv
  <2>4. nodes[m].stop < pos
    BY <2>2 DEF TreeInv, Bookkeeping
  <2>5. nodes[m].start <= pos - 1
    BY <1>2, <1>4, <2>3, <2>4
  <2> QED
    BY <1>1, <1>3, <2>1, <2>5 DEF Enclosed
<1>7. CASE ~Closed(b)'
  <2>1. Open(b)'
    BY <1>7 DEF Closed
  <2> QED
    BY <1>1, <1>3, <2>1 DEF Enclosed
<1> QED
  BY <1>5, <1>6, <1>7

\* A step leaves the callers of the active function alone.
LEMMA CallersStay ==
    ASSUME TreeInv, [Next]_vars, NEW d \in 1 .. Len(stack) - 1
    PROVE  d \in DOMAIN stack /\ d \in DOMAIN stack' /\ SameFrame(d)
<1>1. TypeOK
  BY DEF TreeInv
<1> PICK l : l = Len(stack)
  OBVIOUS
<1>2. l \in Nat /\ DOMAIN stack = 1 .. l /\ d \in 1 .. l - 1 /\ d \in 1 .. l
  BY <1>1, FrameTypes
<1>3. stack # <<>>
  BY <1>2
<1>4. ASSUME NEW rest \in Seq(Items), Continue(rest) PROVE d \in DOMAIN stack' /\ SameFrame(d)
  BY <1>2, <1>3, <1>4, ContinueStep
<1>5. CASE Match
  <2>1. PICK rest \in Seq(Items) : Continue(rest)
    BY <1>5, MatchFrames
  <2> QED
    BY <1>4, <2>1
<1>6. CASE Choose \/ EnterOptional \/ Iterate
  <2>1. PICK rest \in Seq(Items) : Continue(rest)
    BY <1>6, DecideFrames
  <2> QED
    BY <1>4, <2>1
<1>7. CASE EnterRule
  <2>1. DOMAIN stack' = 1 .. l + 1 /\ SameFrame(d)
    BY <1>2, <1>7, EnterFrame
  <2>2. d \in 1 .. l + 1
    BY <1>2
  <2> QED
    BY <1>2, <2>1, <2>2
<1>8. CASE ExitRule
  BY <1>2, <1>8, ExitFrame
<1>9. CASE Call
  BY <1>3, <1>9, CallFrame
<1>10. CASE SyntaxError \/ UNCHANGED vars
  <2>1. UNCHANGED stack
    BY <1>10 DEF SyntaxError, vars
  <2>2. stack'[d].node = stack[d].node /\ stack'[d].rest = stack[d].rest /\ d \in DOMAIN stack'
    BY <1>2, <2>1
  <2> QED
    BY <1>2, <2>2, FrameStays DEF SameFrame
<1> QED
  BY <1>2, <1>5, <1>6, <1>7, <1>8, <1>9, <1>10 DEF Next, Step, Keep

\* An IF becomes loose only in a step of its own function.
LEMMA LooseBefore ==
    ASSUME TreeInv, [Next]_vars, NEW x, NEW m \in DOMAIN nodes, Loose(m, x)'
    PROVE  /\ nodes[m].rule = "if_statement" /\ ~HasElse(m)
           /\ \/ Loose(m, x)
              \/ stack # <<>> /\ Top.node = m /\ Top.rest \notin {<<x.end>>, <<>>}
<1>1. Grows /\ TypeOK
  BY StepGrows DEF TreeInv
<1>2. nodes[m].rule = "if_statement"
  BY <1>1 DEF Grows, Loose
<1>3. ~HasElse(m)
  BY HasElseStays DEF Loose
<1>4. UNCHANGED input
  BY DEF Next, Step, Call, Match, EnterRule, Choose, EnterOptional, Iterate, ExitRule,
         SyntaxError, Keep, vars
<1>5. \A q \in TokensOf("SEMI") : owner[q] # m
  BY <1>4, RulesStay DEF Loose, TokensOf
<1>6. ASSUME NEW d \in DOMAIN stack, stack[d].node = m, stack[d].rest \notin {<<x.end>>, <<>>}
      PROVE  stack # <<>> /\ Top.node = m /\ Top.rest \notin {<<x.end>>, <<>>}
  <2> PICK l : l = Len(stack)
    OBVIOUS
  <2>1. l \in Nat /\ DOMAIN stack = 1 .. l
    BY <1>1, FrameTypes
  <2>2. CASE d = l
    BY <1>6, <2>1, <2>2 DEF Top
  <2>3. CASE d # l
    <3>1. d \in 1 .. l - 1
      BY <2>1, <2>3
    <3>2. d \in DOMAIN stack' /\ stack'[d].node = stack[d].node /\ stack'[d].rest = stack[d].rest
      BY <2>1, <3>1, CallersStay DEF SameFrame
    <3> QED
      BY <1>6, <3>2 DEF Loose
  <2> QED
    BY <2>2, <2>3
<1> QED
  BY <1>2, <1>3, <1>5, <1>6 DEF Loose

\* Items that are no tokens; an IF begins with one.
NonTokens == {it \in Items : it.k # "tok"}

LEMMA IfNonempty ==
    ASSUME NEW x, IsIf(x), "if_statement" \in DOMAIN Grammar
    PROVE  Empties(NonTokens) /\ Nonempty("if_statement", NonTokens)
<1>1. Empties(NonTokens)
  BY ExpansionTypes DEF Empties, NonTokens
<1>2. Nonempty("if_statement", NonTokens)
  <2> PICK e : e = Grammar["if_statement"]
    OBVIOUS
  <2>1. e = <<x.if, x.condition, x.clause, x.otherwise, x.end>> /\ x.if.k = "tok"
    BY DEF IsIf
  <2>2. 1 \in DOMAIN e /\ e[1] = x.if
    BY <2>1
  <2> QED
    BY <2>1, <2>2 DEF Nonempty, AllIn, NonTokens
<1> QED
  BY <1>1, <1>2

\* What a function of IF has left.
LEMMA IfFrame ==
    ASSUME NEW x, TypeOK, RestsIn(IfFamily(x)), NEW d \in DOMAIN stack, RuleOf(d) = "if_statement"
    PROVE  "if_statement" \in DOMAIN Grammar /\ stack[d].rest \in IfRests(x)
<1>1. "if_statement" \in DOMAIN Grammar
  BY FrameTypes
<1> QED
  BY <1>1 DEF RestsIn, IfFamily

\* The active function, if it is that of the IF of node m.
LEMMA IfTop ==
    ASSUME NEW x, IsIf(x), TreeInv, RestsIn(IfFamily(x)), stack # <<>>, RuleOf(Len(stack)) = "if_statement"
    PROVE  /\ "if_statement" \in DOMAIN Grammar
           /\ Top.rest \in IfRests(x)
           /\ Top.rest # <<>> => Expected = Top.rest[1]
<1>1. TypeOK /\ Len(stack) \in DOMAIN stack
  <2>1. TypeOK
    BY DEF TreeInv
  <2>2. DOMAIN stack = 1 .. Len(stack) /\ Len(stack) \in Nat \ {0}
    BY <2>1, TopType
  <2> QED
    BY <2>1, <2>2
<1>2. "if_statement" \in DOMAIN Grammar /\ Top.rest \in IfRests(x)
  BY <1>1, IfFrame DEF Top
<1>3. Top.rest # <<>> => Expected = Top.rest[1]
  BY <1>1, TopType, TailItems DEF Expected
<1> QED
  BY <1>2, <1>3

\* There has been no rival, or the active function is that of the rival.
LEMMA RivalBefore ==
    ASSUME NEW x, IsIf(x), TreeInv, NonemptyInv(NonTokens), RestsIn(IfFamily(x)), [Next]_vars,
           NEW d \in DOMAIN stack, NEW m \in DOMAIN nodes,
           stack'[d].node = stack[d].node, Rival(d, m, x)', stack[d].rest \notin PastElse(x)
    PROVE  /\ RuleOf(d) = "if_statement" /\ stack[d].node < m /\ ~Enclosed(stack[d].node, m)
           /\ ~HasElse(m) /\ "if_statement" \in DOMAIN Grammar
           /\ \/ Rival(d, m, x)
              \/ /\ stack # <<>> /\ Top.node = m /\ Top.rest \notin {<<x.end>>, <<>>}
                 /\ RuleOf(Len(stack)) = "if_statement" /\ d < Len(stack)
<1>1. TypeOK /\ DOMAIN stack = 1 .. Len(stack) /\ Len(stack) \in Nat
  BY FrameTypes DEF TreeInv
<1>2. /\ RuleOf(d)' = RuleOf(d)
  BY <1>1, FrameStays
<1>3. RuleOf(d) = "if_statement" /\ stack[d].node < m /\ Loose(m, x)'
  BY <1>2 DEF Rival
<1>4. /\ nodes[m].rule = "if_statement" /\ ~HasElse(m)
      /\ \/ Loose(m, x)
         \/ stack # <<>> /\ Top.node = m /\ Top.rest \notin {<<x.end>>, <<>>}
  BY <1>3, LooseBefore
<1>5. "if_statement" \in DOMAIN Grammar
  BY <1>1, <1>3, FrameTypes
<1>6. Nonempty(nodes[m].rule, NonTokens)
  BY <1>4, <1>5, IfNonempty
<1> PICK n : n = stack[d].node
  OBVIOUS
<1>7. ~Enclosed(n, m)'
  BY DEF Rival
<1>8. ~Enclosed(n, m)
  BY <1>6, <1>7, EnclosedStays
<1>9. ASSUME stack # <<>>, Top.node = m PROVE RuleOf(Len(stack)) = "if_statement" /\ d < Len(stack)
  <2> PICK l : l = Len(stack)
    OBVIOUS
  <2>1. Top = stack[l]
    BY DEF Top
  <2>2. RuleOf(l) = "if_statement"
    BY <1>4, <1>9, <2>1 DEF RuleOf
  <2>3. d # l
    <3>1. n \in Nat
      BY <1>1, FrameTypes, NodeTypes
    <3> QED
      BY <1>3, <1>9, <2>1, <3>1
  <2> QED
    BY <1>1, <2>2, <2>3
<1> QED
  BY <1>3, <1>4, <1>5, <1>8, <1>9 DEF Rival

\* A function that is about to match a token or a reference has more than
\* options left.
LEMMA NotAllOptions ==
    ASSUME NEW x, IsIf(x), TypeOK, stack # <<>>, Top.rest # <<>>, Expected.k # "opt",
           NEW d \in DOMAIN stack
    PROVE  ~AllOptions(d, x)
<1> PICK l : l = Len(stack)
  OBVIOUS
<1>1. l \in Nat \ {0} /\ DOMAIN stack = 1 .. l /\ l \in d .. l /\ Top = stack[l]
  BY TopType DEF Top
<1>2. Top.rest \in Seq(Items) /\ Expected = Top.rest[1]
  BY TopType, TailItems DEF Expected
<1>3. 1 \in DOMAIN Top.rest
  BY <1>2, TailItems, LenProperties
<1>4. x.otherwise.k = "opt" /\ x.end.k = "opt"
  BY DEF IsIf
<1> QED
  BY <1>1, <1>2, <1>3, <1>4 DEF AllOptions, AllIn

\* The token that is matched: whose it is.
LEMMA MatchOwner ==
    ASSUME TreeInv, Match
    PROVE  /\ stack # <<>> /\ Top.rest # <<>> /\ Expected.k = "tok" /\ input[pos] \in Expected.set
           /\ pos \in DOMAIN owner' /\ owner'[pos] = Top.node /\ pos \in Nat
           /\ DOMAIN owner' = DOMAIN owner \cup {pos}
           /\ \A p \in DOMAIN owner : p < pos /\ owner'[p] = owner[p]
           /\ UNCHANGED <<input, nodes>>
<1>1. /\ DOMAIN owner' = 1 .. pos /\ owner'[pos] = Top.node
      /\ \A p \in 1 .. pos - 1 : owner'[p] = owner[p]
  BY MatchedToken
<1>2. pos \in Nat \ {0} /\ DOMAIN owner = 1 .. pos - 1
  BY OwnerTypes
<1>3. pos \in 1 .. pos /\ 1 .. pos = (1 .. pos - 1) \cup {pos} /\ \A p \in 1 .. pos - 1 : p < pos
  BY <1>2
<1> QED
  BY <1>1, <1>2, <1>3, MatchFrames

LEMMA StepKeepsTaken ==
    ASSUME NEW x, IsIf(x), TreeInv, RestsIn(IfFamily(x)), ElseTaken(x), [Next]_vars
    PROVE  ElseTaken(x)'
<1> SUFFICES ASSUME NEW d \in DOMAIN stack', RuleOf(d)' = "if_statement",
                    stack'[d].rest = <<x.clause, x.end>>, NEW n, n = stack'[d].node
             PROVE  HasElse(n)'
  BY DEF ElseTaken
<1>1. TypeOK /\ DOMAIN stack = 1 .. Len(stack) /\ Len(stack) \in Nat
  BY FrameTypes DEF TreeInv
<1> PICK l : l = Len(stack)
  OBVIOUS
<1>2. ASSUME d \in 1 .. l, stack[d].node = n, stack[d].rest = <<x.clause, x.end>> PROVE HasElse(n)'
  <2>1. RuleOf(d) = "if_statement"
    BY <1>1, <1>2, FrameStays
  <2>2. HasElse(n)
    BY <1>1, <1>2, <2>1 DEF ElseTaken
  <2> QED
    BY <2>2, HasElseStays
<1>3. ASSUME d \in 1 .. l - 1 PROVE HasElse(n)'
  <2>1. SameFrame(d) /\ d \in 1 .. l
    BY <1>1, <1>3, CallersStay
  <2> QED
    BY <1>2, <2>1 DEF SameFrame
<1>4. ASSUME stack # <<>>, NEW rest \in Seq(Items), Continue(rest)
      PROVE  /\ d \in 1 .. l
             /\ d = l => /\ rest = <<x.clause, x.end>> /\ n = Top.node
                         /\ RuleOf(Len(stack)) = "if_statement"
  BY <1>1, <1>4, ContinueStep
<1>5. CASE Match
  <2>1. /\ stack # <<>> /\ Top.rest # <<>> /\ Tail(Top.rest) \in Seq(Items) /\ Continue(Tail(Top.rest))
        /\ Expected.k = "tok"
    BY <1>5, MatchFrames
  <2> PICK rest \in Seq(Items) : rest = Tail(Top.rest) /\ Continue(rest)
    BY <2>1
  <2>2. CASE d = l
    <3>1. Tail(Top.rest) = <<x.clause, x.end>> /\ n = Top.node /\ RuleOf(Len(stack)) = "if_statement"
      BY <1>4, <2>1, <2>2
    <3>2. Top.rest \in IfRests(x) /\ Expected = Top.rest[1]
      BY <2>1, <3>1, IfTop
    <3>3. \A a, b : <<a, b>> # <<>>
      OBVIOUS
    <3>4. Expected.set = {"ELSE"}
      <4>1. Tail(Top.rest) \in PastElse(x) /\ Tail(Top.rest) # <<>>
        BY <3>1, <3>3 DEF PastElse
      <4> QED
        BY <2>1, <3>2, <4>1, IfTail
    <3>5. input'[pos] = "ELSE" /\ pos \in DOMAIN owner' /\ owner'[pos] = n
      BY <1>5, <3>1, <3>4, MatchOwner
    <3> QED
      BY <3>5 DEF HasElse, TokensOf
  <2> QED
    BY <1>1, <1>3, <1>4, <2>1, <2>2, LastOrBefore
<1>6. CASE Choose \/ EnterOptional \/ Iterate
  <2>1. /\ stack # <<>> /\ Top.rest # <<>> /\ Expected.k \in {"alt", "opt", "star"}
        /\ \E e \in Expansions(Expected) :
              e \o Tail(Top.rest) \in Seq(Items) /\ Continue(e \o Tail(Top.rest))
    BY <1>6, DecideFrames
  <2> PICK e \in Expansions(Expected), rest \in Seq(Items) : rest = e \o Tail(Top.rest) /\ Continue(rest)
    BY <2>1
  <2>2. CASE d = l
    <3>1. rest = <<x.clause, x.end>> /\ RuleOf(Len(stack)) = "if_statement"
      BY <1>4, <2>1, <2>2
    <3>2. Top.rest \in IfRests(x) /\ Expected = Top.rest[1] /\ "if_statement" \in DOMAIN Grammar
      BY <2>1, <3>1, IfTop
    <3> QED
      BY <2>1, <3>1, <3>2, IfChoice
  <2> QED
    BY <1>1, <1>3, <1>4, <2>1, <2>2, LastOrBefore
<1>7. CASE EnterRule
  <2>1. /\ stack # <<>> /\ Top.rest # <<>> /\ Expected.k = "rule"
        /\ DOMAIN stack' = 1 .. l + 1 /\ RuleOf(l)' = RuleOf(l)
        /\ stack'[l].rest = Tail(Top.rest)
        /\ \A c : c = l + 1 => RuleOf(c)' = Expected.sym
        /\ stack'[l + 1].rest = Grammar[Expected.sym]
        /\ l \in 1 .. l
    BY <1>7, EnterFrame
  <2>2. CASE d = l
    <3>1. RuleOf(Len(stack)) = "if_statement" /\ Tail(Top.rest) = <<x.clause, x.end>>
      BY <2>1, <2>2
    <3>2. Top.rest \in IfRests(x) /\ Expected = Top.rest[1]
      BY <2>1, <3>1, IfTop
    <3>3. \A a, b, c : <<a, b>> # <<c>>
      OBVIOUS
    <3>4. Tail(Top.rest) \in PastElse(x) /\ Tail(Top.rest) # <<x.end>>
      BY <3>1, <3>3 DEF PastElse
    <3> QED
      BY <2>1, <3>2, <3>4, IfTail
  <2>3. CASE d = l + 1
    <3>1. Grammar["if_statement"] = <<x.clause, x.end>>
      BY <2>1, <2>3
    <3>2. Grammar["if_statement"] = <<x.if, x.condition, x.clause, x.otherwise, x.end>>
      BY DEF IsIf
    <3>3. \A a, b, c, e, g : <<a, b, c, e, g>> # <<a, b>> /\ <<a, b, c, e, g>> # <<c, g>>
      OBVIOUS
    <3> QED
      BY <3>1, <3>2, <3>3
  <2>4. d \in 1 .. l - 1 \/ d = l \/ d = l + 1
    BY <1>1, <2>1
  <2> QED
    BY <1>3, <2>2, <2>3, <2>4
<1>8. CASE ExitRule
  <2>1. d \in 1 .. l - 1
    BY <1>8, ExitFrame
  <2> QED
    BY <1>3, <2>1
<1>9. CASE Call
  <2>1. DOMAIN stack' = 1 .. 1 /\ stack'[1].rest = Grammar[StartRule] /\ RuleOf(1)' = StartRule /\ d = 1
    BY <1>9, CallFrame
  <2>2. Grammar["if_statement"] = <<x.clause, x.end>>
    BY <2>1
  <2>3. Grammar["if_statement"] = <<x.if, x.condition, x.clause, x.otherwise, x.end>>
    BY DEF IsIf
  <2>4. \A a, b, c, e, g : <<a, b, c, e, g>> # <<c, g>>
    OBVIOUS
  <2> QED
    BY <2>2, <2>3, <2>4
<1>10. CASE SyntaxError \/ UNCHANGED vars
  <2>1. UNCHANGED stack
    BY <1>10 DEF SyntaxError, vars
  <2> QED
    BY <1>1, <1>2, <2>1
<1> QED
  BY <1>5, <1>6, <1>7, <1>8, <1>9, <1>10 DEF Next, Step, Keep

LEMMA PassedStays ==
    ASSUME TreeInv, [Next]_vars, NEW m \in DOMAIN nodes, NEW n, NEW p, Passed(m, n, p)
    PROVE  Passed(m, n, p)'
<1>1. Grows /\ UNCHANGED input
  BY StepGrows DEF Next, Step, Call, Match, EnterRule, Choose, EnterOptional, Iterate, ExitRule,
                   SyntaxError, Keep, vars
<1>2. CASE HasElse(m)
  BY <1>2, HasElseStays DEF Passed
<1>3. CASE \E q \in TokensOf("SEMI") : q < p /\ owner[q] = m
  <2>1. PICK q \in DOMAIN owner : input[q] = "SEMI" /\ q < p /\ owner[q] = m
    BY <1>3 DEF TokensOf
  <2>2. q \in DOMAIN owner' /\ owner'[q] = m
    BY <2>1, RulesStay
  <2> QED
    BY <1>1, <2>1, <2>2 DEF Passed, TokensOf
<1>4. CASE \E b \in DOMAIN nodes :
              /\ Closed(b) /\ nodes[b].rule \in Blocks /\ n < b /\ b < m
              /\ nodes[m].start <= nodes[b].stop /\ nodes[b].stop < p
  <2>1. PICK b \in DOMAIN nodes :
              /\ Closed(b) /\ nodes[b].rule \in Blocks /\ n < b /\ b < m
              /\ nodes[m].start <= nodes[b].stop /\ nodes[b].stop < p
    BY <1>4
  <2>2. /\ b \in DOMAIN nodes' /\ nodes'[b].rule = nodes[b].rule /\ nodes'[b].stop = nodes[b].stop
        /\ Closed(b)' /\ nodes'[m].start = nodes[m].start
    BY <1>1, <2>1 DEF Grows
  <2> QED
    BY <2>1, <2>2 DEF Passed
<1> QED
  BY <1>2, <1>3, <1>4 DEF Passed

\* When an ELSE is taken, the IFs inside have been passed.
LEMMA ElseTakenHere ==
    ASSUME NEW parts, NEW x, NEW around, IfGrammar(parts, x, around), TreeInv, NonemptyInv(NonTokens),
           RestsIn(LeadFamily(parts, x, around)), RestsIn(IfFamily(x)), AroundInv(around),
           NEW f, Rivals(f, x), Match, input[pos] = "ELSE",
           NEW m \in DOMAIN nodes, nodes[m].rule = "if_statement", Top.node < m
    PROVE  Passed(m, Top.node, pos)
<1>1. TypeOK /\ IsIf(x) /\ AreParts(parts) /\ pos \in Nat
  BY PosType DEF TreeInv, IfGrammar
<1>2. stack # <<>> /\ Top.rest # <<>> /\ Expected.k = "tok" /\ "ELSE" \in Expected.set
  BY MatchOwner
<1> PICK l : l = Len(stack)
  OBVIOUS
<1>3. l \in Nat \ {0} /\ DOMAIN stack = 1 .. l /\ l \in DOMAIN stack /\ Top = stack[l]
  BY <1>1, <1>2, TopType DEF Top
<1>4. Closed(m)
  BY <1>2, ClosedAbove
<1>5. nodes[m].start <= nodes[m].stop \/ ~Nonempty(nodes[m].rule, NonTokens)
  BY <1>4 DEF NonemptyInv
<1>6. RuleOf(l) \in around
  <2>1. nodes[m].rule \in around
    BY DEF IfGrammar
  <2> QED
    BY <1>3, <2>1 DEF AroundInv
<1>7. RuleOf(l) = "if_statement"
  <2>1. Expected \in ItemsIn(parts, RuleOf(l)) /\ RuleOf(l) \in DOMAIN Grammar
    BY <1>1, <1>2, ExpectedInRule
  <2>2. Reads(Expected, {"ELSE"})
    BY <1>2 DEF Reads
  <2>3. RuleOf(l) \in ReadBy(parts, {"ELSE"})
    BY <2>1, <2>2 DEF ReadBy
  <2> QED
    BY <1>6, <2>3 DEF IfGrammar
<1>8. "if_statement" \in DOMAIN Grammar /\ Top.rest \in IfRests(x) /\ Expected = Top.rest[1]
  BY <1>1, <1>2, <1>7, IfTop
<1>9. Top.rest \notin PastElse(x)
  <2>1. Expected.set # {"SEMI"}
    BY <1>2
  <2> QED
    BY <1>1, <1>2, <1>8, <2>1, IfTail
<1>10. ~Rival(l, m, x)
  <2>1. ~AllOptions(l, x)
    BY <1>1, <1>2, <1>3, NotAllOptions
  <2> QED
    BY <1>3, <2>1 DEF Rivals
<1>11. ~Loose(m, x) \/ Enclosed(Top.node, m)
  BY <1>3, <1>7, <1>9, <1>10 DEF Rival
<1>12. CASE ~Loose(m, x)
  <2>1. \A d \in DOMAIN stack : stack[d].node # m
    BY <1>4 DEF Closed, Open
  <2>2. HasElse(m) \/ \E q \in TokensOf("SEMI") : owner[q] = m
    BY <1>12, <2>1 DEF Loose
  <2>3. \A q \in TokensOf("SEMI") : q < pos
    BY OwnerTypes, MatchOwner DEF TokensOf
  <2> QED
    BY <2>2, <2>3 DEF Passed
<1>13. CASE Enclosed(Top.node, m)
  <2>1. PICK b \in DOMAIN nodes : /\ nodes[b].rule \in Blocks /\ Top.node < b /\ b < m
                                  /\ Open(b) \/ nodes[m].start <= nodes[b].stop
    BY <1>13 DEF Enclosed
  <2>2. Closed(b) /\ nodes[m].start <= nodes[b].stop
    BY <1>2, <2>1, ClosedAbove DEF Closed
  <2>3. nodes[b].stop < pos
    BY <2>2 DEF TreeInv, Bookkeeping
  <2> QED
    BY <2>1, <2>2, <2>3 DEF Passed
<1> QED
  BY <1>11, <1>12, <1>13

LEMMA StepKeepsElse ==
    ASSUME NEW parts, NEW x, NEW around, IfGrammar(parts, x, around), TreeInv, NonemptyInv(NonTokens),
           RestsIn(LeadFamily(parts, x, around)), RestsIn(IfFamily(x)), AroundInv(around),
           NEW f, Rivals(f, x), ElseRead, [Next]_vars
    PROVE  ElseRead'
<1> SUFFICES ASSUME NEW p \in DOMAIN owner', input'[p] = "ELSE", NEW m \in DOMAIN nodes',
                    nodes'[m].rule = "if_statement", NEW n, n = owner'[p], n < m, nodes'[m].start < p
             PROVE  Passed(m, n, p)'
  BY DEF ElseRead, TokensOf, NodesOf
<1>1. Grows /\ UNCHANGED input
  BY StepGrows DEF Next, Step, Call, Match, EnterRule, Choose, EnterOptional, Iterate, ExitRule,
                   SyntaxError, Keep, vars
<1>2. pos \in Nat /\ DOMAIN owner = 1 .. pos - 1
  BY OwnerTypes
<1>3. (p \in DOMAIN owner /\ owner[p] = n) \/ (Match /\ p = pos /\ n = Top.node)
  <2>1. CASE Match
    <3>1. CASE p \in DOMAIN owner
      BY <2>1, <3>1, MatchOwner
    <3>2. CASE p \notin DOMAIN owner
      BY <2>1, <3>2, MatchOwner
    <3> QED
      BY <3>1, <3>2
  <2>2. CASE ~Match
    <3>1. UNCHANGED owner
      BY <2>2 DEF Next, Step, Call, EnterRule, Choose, EnterOptional, Iterate, ExitRule,
                  SyntaxError, Keep, vars
    <3> QED
      BY <3>1
  <2> QED
    BY <2>1, <2>2
<1>4. m \in DOMAIN nodes
  <2> SUFFICES ASSUME m \notin DOMAIN nodes PROVE FALSE
    OBVIOUS
  <2>1. nodes'[m].start = pos
    BY NodeAdded
  <2> QED
    BY <1>2, <1>3, <2>1
<1>5. nodes[m].rule = "if_statement" /\ nodes[m].start < p
  BY <1>1, <1>4 DEF Grows
<1>6. Passed(m, n, p)
  <2>1. CASE p \in DOMAIN owner /\ owner[p] = n
    BY <1>1, <1>4, <1>5, <2>1 DEF ElseRead, TokensOf, NodesOf
  <2>2. CASE Match /\ p = pos /\ n = Top.node
    BY <1>1, <1>4, <1>5, <2>2, ElseTakenHere
  <2> QED
    BY <1>3, <2>1, <2>2
<1> QED
  BY <1>4, <1>6, PassedStays

\* There is no rival right behind a token.
LEMMA MatchHasNoRival ==
    ASSUME NEW x, IsIf(x), TreeInv, NonemptyInv(NonTokens), RestsIn(IfFamily(x)),
           NEW f, Rivals(f, x), Match, NEW d \in DOMAIN stack', NEW m \in DOMAIN nodes'
    PROVE  ~Rival(d, m, x)'
<1> SUFFICES ASSUME Rival(d, m, x)' PROVE FALSE
  OBVIOUS
<1>1. TypeOK /\ [Next]_vars
  BY DEF TreeInv, Next, Step
<1>2. /\ stack # <<>> /\ Top.rest # <<>> /\ Expected.k = "tok" /\ input[pos] \in Expected.set
      /\ Tail(Top.rest) \in Seq(Items) /\ Continue(Tail(Top.rest)) /\ UNCHANGED <<input, nodes>>
  BY MatchFrames
<1> PICK rest \in Seq(Items) : rest = Tail(Top.rest) /\ Continue(rest)
  BY <1>2
<1> PICK l : l = Len(stack)
  OBVIOUS
<1>3. /\ l \in Nat \ {0} /\ DOMAIN stack = 1 .. l /\ DOMAIN stack' = 1 .. l /\ l \in DOMAIN stack
      /\ stack'[l].node = Top.node /\ stack'[l].rest = Tail(Top.rest)
      /\ \A c \in 1 .. l : RuleOf(c)' = RuleOf(c)
      /\ Top = stack[l]
  <2>1. /\ l \in Nat \ {0} /\ DOMAIN stack = 1 .. l /\ DOMAIN stack' = 1 .. l
        /\ stack'[l].node = Top.node /\ stack'[l].rest = rest
        /\ \A c \in 1 .. l : RuleOf(c)' = RuleOf(c)
    BY <1>1, <1>2, ContinueStep
  <2>2. l \in 1 .. l
    BY <2>1
  <2> QED
    BY <2>1, <2>2 DEF Top
<1>4. stack'[d].node = stack[d].node /\ (d # l => stack'[d].rest = stack[d].rest)
  <2>1. d \in 1 .. l - 1 => stack'[d].node = stack[d].node /\ stack'[d].rest = stack[d].rest
    BY <1>1, CallersStay DEF SameFrame
  <2> QED
    BY <1>3, <2>1, LastOrBefore
<1>5. stack'[d].rest \notin PastElse(x) /\ RuleOf(d) = "if_statement"
  BY <1>3 DEF Rival
<1>6. RuleOf(l) = "if_statement" => Top.rest \in IfRests(x) /\ Expected = Top.rest[1]
  BY <1>2, IfTop
<1>7. stack[d].rest \notin PastElse(x)
  <2>1. CASE d # l
    BY <1>4, <1>5, <2>1
  <2>2. CASE d = l
    <3>1. Tail(Top.rest) \notin PastElse(x)
      BY <1>3, <1>5, <2>2
    <3> QED
      BY <1>2, <1>3, <1>5, <1>6, <2>2, <3>1, IfTail DEF PastElse
  <2> QED
    BY <2>1, <2>2
<1>8. m \in DOMAIN nodes /\ d \in DOMAIN stack
  BY <1>2, <1>3
<1>9. \/ Rival(d, m, x)
      \/ Top.node = m /\ RuleOf(l) = "if_statement"
  BY <1>1, <1>4, <1>7, <1>8, RivalBefore
<1>10. ~Rival(d, m, x)
  <2>1. ~AllOptions(d, x)
    BY <1>1, <1>2, <1>8, NotAllOptions
  <2> QED
    BY <1>8, <2>1 DEF Rivals
<1>11. CASE Top.node = m /\ RuleOf(l) = "if_statement"
  <2>1. Tail(Top.rest) \in {<<x.end>>, <<>>}
    <3>1. Loose(m, x)'
      BY DEF Rival
    <3>2. l \in DOMAIN stack' /\ stack'[l].node = m
      BY <1>3, <1>11
    <3>3. stack'[l].rest \in {<<x.end>>, <<>>}
      BY <3>1, <3>2 DEF Loose
    <3> QED
      BY <1>3, <3>3
  <2>2. \A a, b, c : <<a, b>> # <<c>> /\ <<a, b>> # <<>>
    OBVIOUS
  <2>3. Expected.set = {"SEMI"}
    <3>1. Tail(Top.rest) \in PastElse(x) /\ Tail(Top.rest) # <<x.clause, x.end>>
      BY <2>1, <2>2 DEF PastElse
    <3> QED
      BY <1>2, <1>6, <1>11, <3>1, IfTail
  <2>4. input'[pos] = "SEMI" /\ pos \in DOMAIN owner' /\ owner'[pos] = m
    BY <1>2, <1>11, <2>3, MatchOwner
  <2> QED
    BY <2>4 DEF Rival, Loose, TokensOf
<1> QED
  BY <1>9, <1>10, <1>11

\* Nor is there one where a function has just been called.
LEMMA EnterHasNoRival ==
    ASSUME NEW x, IsIf(x), TreeInv, NonemptyInv(NonTokens), RestsIn(IfFamily(x)), ElseTaken(x),
           NEW f, Rivals(f, x), EnterRule, NEW d \in DOMAIN stack', NEW m \in DOMAIN nodes'
    PROVE  ~Rival(d, m, x)'
<1> SUFFICES ASSUME Rival(d, m, x)' PROVE FALSE
  OBVIOUS
<1>1. TypeOK /\ [Next]_vars
  BY DEF TreeInv, Next, Step
<1> PICK l : l = Len(stack)
  OBVIOUS
<1>2. /\ stack # <<>> /\ Top.rest # <<>> /\ Expected.k = "rule" /\ Top = stack[l]
      /\ l \in Nat \ {0} /\ DOMAIN stack = 1 .. l /\ DOMAIN stack' = 1 .. l + 1 /\ l \in DOMAIN stack
      /\ stack'[l].node = Top.node /\ stack'[l].rest = Tail(Top.rest)
      /\ \A c \in 1 .. l : RuleOf(c)' = RuleOf(c)
      /\ \A c : c = l + 1 => RuleOf(c)' = Expected.sym
      /\ stack'[l + 1].rest = Grammar[Expected.sym]
  BY EnterFrame DEF Top
<1>3. stack'[l + 1].node = Len(nodes) + 1 /\ DOMAIN nodes = 1 .. Len(nodes) /\ Len(nodes) \in Nat
  BY <1>1, EnterStep, NodeTypes
<1>4. /\ RuleOf(d)' = "if_statement" /\ stack'[d].rest \notin PastElse(x)
      /\ stack'[d].node < m /\ Loose(m, x)'
  BY DEF Rival
<1>5. m \in DOMAIN nodes
  <2> SUFFICES ASSUME m \notin DOMAIN nodes PROVE FALSE
    OBVIOUS
  <2>1. nodes'[m].rule = Expected.sym /\ \E c \in DOMAIN stack' : stack'[c].node = m
    BY <1>1, NodeAdded
  <2>2. m = Len(nodes) + 1
    <3>1. PICK callers : Enter(Expected.sym, callers)
      BY DEF EnterRule
    <3>2. DOMAIN nodes' = 1 .. Len(nodes) + 1
      BY <1>1, <1>2, <3>1, EnterNodes, EnterStep
    <3> QED
      BY <1>3, <3>2
  <2>3. Grammar["if_statement"] \in {<<x.end>>, <<>>}
    <3>1. l + 1 \in DOMAIN stack'
      BY <1>2
    <3>2. stack'[l + 1].rest \in {<<x.end>>, <<>>}
      BY <1>3, <1>4, <2>2, <3>1 DEF Loose
    <3> QED
      BY <1>2, <1>4, <2>1, <3>2 DEF Loose
  <2>4. Grammar["if_statement"] = <<x.if, x.condition, x.clause, x.otherwise, x.end>>
    BY DEF IsIf
  <2>5. \A a, b, c, e, g, h : <<a, b, c, e, g>> # <<h>> /\ <<a, b, c, e, g>> # <<>>
    OBVIOUS
  <2> QED
    BY <2>3, <2>4, <2>5
<1>6. d \in 1 .. l
  <2>1. d = l + 1 => FALSE
    BY <1>3, <1>4, <1>5
  <2> QED
    BY <1>2, <2>1
<1>7. stack'[d].node = stack[d].node /\ (d # l => stack'[d].rest = stack[d].rest)
  <2>1. d \in 1 .. l - 1 => stack'[d].node = stack[d].node /\ stack'[d].rest = stack[d].rest
    BY <1>1, CallersStay DEF SameFrame
  <2> QED
    BY <1>2, <1>6, <2>1, LastOrBefore
<1>8. RuleOf(d) = "if_statement"
  BY <1>2, <1>4, <1>6
<1>9. RuleOf(l) = "if_statement" => Top.rest \in IfRests(x) /\ Expected = Top.rest[1]
  BY <1>2, IfTop
<1>10. stack[d].rest \notin PastElse(x)
  <2>1. CASE d # l
    BY <1>4, <1>7, <2>1
  <2>2. CASE d = l
    <3>1. Tail(Top.rest) \notin PastElse(x)
      BY <1>2, <1>4, <2>2
    <3> QED
      BY <1>2, <1>8, <1>9, <2>2, <3>1, IfTail DEF PastElse
  <2> QED
    BY <2>1, <2>2
<1>11. \/ Rival(d, m, x)
       \/ Top.node = m /\ RuleOf(l) = "if_statement" /\ ~HasElse(m)
  BY <1>1, <1>2, <1>5, <1>6, <1>7, <1>10, RivalBefore
<1>12. ~Rival(d, m, x)
  <2>1. ~AllOptions(d, x)
    BY <1>1, <1>2, <1>6, NotAllOptions
  <2> QED
    BY <1>2, <1>5, <1>6, <2>1 DEF Rivals
<1>13. CASE Top.node = m /\ RuleOf(l) = "if_statement" /\ ~HasElse(m)
  <2>1. Tail(Top.rest) \in {<<x.end>>, <<>>}
    <3>1. l \in DOMAIN stack' /\ stack'[l].node = m
      BY <1>2, <1>13
    <3>2. stack'[l].rest \in {<<x.end>>, <<>>}
      BY <1>4, <3>1 DEF Loose
    <3> QED
      BY <1>2, <3>2
  <2>2. Top.rest = <<x.clause, x.end>>
    BY <1>2, <1>9, <1>13, <2>1, IfTail DEF PastElse
  <2> QED
    BY <1>2, <1>13, <2>2 DEF ElseTaken
<1> QED
  BY <1>11, <1>12, <1>13

\* An option is taken if and only if the tokens match it.
LEMMA OptionAnswer ==
    ASSUME ExactPrediction, TypeOK, table = Lookahead(input), NEW f, Agenda(f),
           stack # <<>>, Top.rest # <<>>, Expected.k = "opt", NEW e \in Expansions(Expected), Answer(e)
    PROVE  /\ e # <<>> => Matches(table, e \o Behind(f), pos)
           /\ e = <<>> => \A d \in Expansions(Expected) :
                             d # <<>> => ~Matches(table, d \o Behind(f), pos)
<1>1. Expected \in Items /\ Expansions(Expected) = {<<>>, Block}
  BY AgendaFirst DEF Expansions, Block
<1>2. \A d \in Expansions(Expected) : d \in Seq(Items)
  BY <1>1, ExpansionTypes
<1>3. \A d \in Expansions(Expected) : Fits(d) <=> Matches(table, d \o Behind(f), pos)
  BY <1>2, FitsMatches
<1>4. e = IF Fits(Block) THEN Block ELSE <<>>
  BY DEF Answer
<1> QED
  BY <1>1, <1>3, <1>4

\* What the tokens do not match before an option, they do not match when it
\* has been skipped.
LEMMA NotBefore ==
    ASSUME ExactPrediction, TypeOK, table = Lookahead(input), NEW f, Agenda(f),
           stack # <<>>, Top.rest # <<>>, Expected.k = "opt", NEW u \in Seq(Items),
           ~Matches(table, u \o Left(f), pos)
    PROVE  ~Matches(table, u \o Behind(f), pos)
<1>1. Expected \in Items /\ Behind(f) \in Seq(Items) /\ Left(f) = <<Expected>> \o Behind(f)
  BY AgendaFirst
<1>2. <<>> \in Expansions(Expected) /\ <<>> \o Behind(f) = Behind(f)
  BY <1>1, ConcatEmptySeq DEF Expansions
<1>3. pos \in 1 .. Len(input) + 1
  BY DEF TypeOK
<1>4. Matches(table, u \o (<<Expected>> \o Behind(f)), pos)
         <=> \E e \in Expansions(Expected) : Matches(table, u \o (e \o Behind(f)), pos)
  BY <1>1, <1>3, ExactHere
<1> QED
  BY <1>1, <1>2, <1>4

\* A rival's options are skipped, and still there is no ELSE to take.
LEMMA RivalSkips ==
    ASSUME NEW x, IsIf(x), "if_statement" \in DOMAIN Grammar, ExactPrediction, TreeInv,
           table = Lookahead(input), RestsIn(IfFamily(x)), NEW f, Agenda(f),
           stack # <<>>, Top.rest # <<>>, NEW d \in DOMAIN stack, NEW m \in DOMAIN nodes,
           nodes[m].rule = "if_statement", AllOptions(d, x), NoElseNext(f, x), NoSemiNext(f, m, x),
           NEW e \in Expansions(Expected), Answer(e),
           Top.node = m => e \o Tail(Top.rest) \in {<<x.end>>, <<>>}
    PROVE  /\ e = <<>> /\ Expected.k = "opt" /\ AllIn(Tail(Top.rest), {x.otherwise, x.end})
           /\ ~Matches(table, <<x.else, x.clause>> \o Behind(f), pos)
           /\ ~Matches(table, <<x.semi>> \o Behind(f), pos)
<1> DEFINE options == {x.otherwise, x.end}
<1> PICK l : l = Len(stack)
  OBVIOUS
<1>1. TypeOK /\ l \in Nat \ {0} /\ l \in d .. l /\ Top = stack[l] /\ l \in DOMAIN stack
  <2>1. TypeOK
    BY DEF TreeInv
  <2> QED
    BY <2>1, TopType DEF Top
<1>2. Top.rest \in Seq(Items) /\ Expected = Top.rest[1]
  BY <1>1, TopType, TailItems DEF Expected
<1>3. Expected \in options /\ AllIn(Tail(Top.rest), options)
  <2>1. AllIn(Top.rest, options)
    BY <1>1 DEF AllOptions
  <2>2. /\ Len(Top.rest) \in Nat \ {0} /\ DOMAIN Top.rest = 1 .. Len(Top.rest)
        /\ DOMAIN Tail(Top.rest) = 1 .. Len(Top.rest) - 1
        /\ \A i \in 1 .. Len(Top.rest) - 1 : Tail(Top.rest)[i] = Top.rest[i + 1]
    BY <1>2, TailItems, LenProperties
  <2>3. 1 \in DOMAIN Top.rest /\ \A i \in 1 .. Len(Top.rest) - 1 : i + 1 \in DOMAIN Top.rest
    BY <2>2
  <2> QED
    BY <1>2, <2>1, <2>2, <2>3 DEF AllIn
<1>4. /\ {x.else, x.clause, x.semi} \subseteq Items
      /\ Expansions(x.otherwise) = {<<>>, <<x.else, x.clause>>}
      /\ Expansions(x.end) = {<<>>, <<x.semi>>}
      /\ x.otherwise.k = "opt" /\ x.end.k = "opt"
  BY IfItems DEF IsIf
<1>5. Expected.k = "opt" /\ <<x.else, x.clause>> \in Seq(Items) /\ <<x.semi>> \in Seq(Items)
  BY <1>3, <1>4
<1>6. ~Matches(table, <<x.else, x.clause>> \o Behind(f), pos)
  BY <1>1, <1>5, NotBefore DEF NoElseNext
<1>7. CASE ~Matches(table, <<x.semi>> \o Left(f), pos)
  <2>1. ~Matches(table, <<x.semi>> \o Behind(f), pos)
    BY <1>1, <1>5, <1>7, NotBefore
  <2>2. e # <<>> => Matches(table, e \o Behind(f), pos)
    BY <1>1, <1>5, OptionAnswer
  <2>3. e = <<>> \/ e = <<x.else, x.clause>> \/ e = <<x.semi>>
    BY <1>3, <1>4
  <2>4. e = <<>>
    BY <1>6, <2>1, <2>2, <2>3
  <2> QED
    BY <1>3, <1>5, <1>6, <2>1, <2>4
<1>8. CASE Top.node = m /\ Top.rest = <<x.end>>
  <2>1. RuleOf(Len(stack)) = "if_statement"
    BY <1>1, <1>8 DEF RuleOf
  <2>2. Top.rest \in IfRests(x)
    BY <2>1, IfTop
  <2>3. Expected = x.end
    <3>1. <<x.end>>[1] = x.end
      OBVIOUS
    <3> QED
      BY <1>2, <1>8, <3>1
  <2>4. e = <<>>
    BY <1>2, <1>5, <1>8, <2>2, IfChoice
  <2>5. <<x.semi>> # <<>> /\ <<x.semi>> \in Expansions(Expected)
    BY <1>4, <2>3
  <2>6. ~Matches(table, <<x.semi>> \o Behind(f), pos)
    BY <1>1, <1>5, <2>4, <2>5, OptionAnswer
  <2> QED
    BY <1>3, <1>5, <1>6, <2>4, <2>6
<1> QED
  BY <1>7, <1>8 DEF NoSemiNext

\* A decision: an option is skipped, or an IF becomes loose.
LEMMA DecisionKeepsRivals ==
    ASSUME NEW parts, NEW x, NEW around, IfGrammar(parts, x, around), ExactPrediction,
           TreeInv, TableInv, NonemptyInv(NonTokens), RestsIn(IfFamily(x)),
           ChainInv(around, {x.otherwise, x.end}), NEW f, Agenda(f), Rivals(f, x),
           Choose \/ EnterOptional \/ Iterate
    PROVE  \E g : Agenda(g)' /\ Rivals(g, x)'
<1> DEFINE options == {x.otherwise, x.end}
<1>1. TypeOK /\ [Next]_vars /\ IsIf(x) /\ "if_statement" \in around /\ table = Lookahead(input)
  <2>1. status = "parsing"
    BY DEF Choose, EnterOptional, Iterate, At
  <2> QED
    BY <2>1, TableKnows DEF TreeInv, Next, Step, IfGrammar
<1>2. /\ stack # <<>> /\ Top.rest # <<>> /\ Expected.k \in {"alt", "opt", "star"}
      /\ Tail(Top.rest) \in Seq(Items) /\ UNCHANGED <<input, pos, nodes, owner, status, table>>
  BY DecideFrames
<1>3. PICK e \in Seq(Items) : /\ e \in Expansions(Expected) /\ Answer(e)
                              /\ e \o Tail(Top.rest) \in Seq(Items)
                              /\ Continue(e \o Tail(Top.rest))
  BY DecideFrames
<1> PICK rest \in Seq(Items) : rest = e \o Tail(Top.rest) /\ Continue(rest)
  BY <1>3
<1> PICK l : l = Len(stack)
  OBVIOUS
<1>4. PICK g : Agenda(g)' /\ Len(stack') = l /\ g[l] = e \o Behind(f)
  BY <1>1, <1>2, <1>3, AgendaDecide
<1>5. /\ l \in Nat \ {0} /\ DOMAIN stack = 1 .. l /\ DOMAIN stack' = 1 .. l /\ l \in DOMAIN stack
      /\ stack'[l].node = Top.node /\ stack'[l].rest = rest
      /\ \A c \in 1 .. l : RuleOf(c)' = RuleOf(c)
      /\ Top = stack[l]
  <2>1. /\ l \in Nat \ {0} /\ DOMAIN stack = 1 .. l /\ DOMAIN stack' = 1 .. l
        /\ stack'[l].node = Top.node /\ stack'[l].rest = rest
        /\ \A c \in 1 .. l : RuleOf(c)' = RuleOf(c)
    BY <1>1, <1>2, ContinueStep
  <2>2. l \in 1 .. l
    BY <2>1
  <2> QED
    BY <2>1, <2>2 DEF Top
<1>6. \A c \in 1 .. l - 1 : stack'[c].node = stack[c].node /\ stack'[c].rest = stack[c].rest
  BY <1>1, CallersStay DEF SameFrame
<1>7. Behind(f) \in Seq(Items) /\ <<>> \o Behind(f) = Behind(f) /\ <<>> \o Tail(Top.rest) = Tail(Top.rest)
  BY <1>1, <1>2, AgendaFirst, ConcatEmptySeq
<1>8. Left(g)' = e \o Behind(f) /\ Top'.node = Top.node /\ Top'.rest = rest
  BY <1>4, <1>5 DEF Left, Top
<1> SUFFICES ASSUME NEW d \in DOMAIN stack', NEW m \in DOMAIN nodes', Rival(d, m, x)'
             PROVE  AllOptions(d, x)' /\ NoElseNext(g, x)' /\ NoSemiNext(g, m, x)'
  BY <1>4 DEF Rivals
<1>9. d \in 1 .. l /\ m \in DOMAIN nodes /\ stack'[d].node = stack[d].node
  BY <1>2, <1>5, <1>6, LastOrBefore
<1>10. stack'[d].rest \notin PastElse(x) /\ RuleOf(d) = "if_statement" /\ Loose(m, x)'
  <2>1. RuleOf(d)' = RuleOf(d)
    BY <1>5, <1>9
  <2> QED
    BY <2>1 DEF Rival
<1>11. nodes[m].rule = "if_statement" /\ nodes'[m].rule = "if_statement"
  BY <1>2, <1>10 DEF Loose
<1>12. RuleOf(l) = "if_statement" =>
          "if_statement" \in DOMAIN Grammar /\ Top.rest \in IfRests(x) /\ Expected = Top.rest[1]
  BY <1>1, <1>2, IfTop
<1>13. stack[d].rest \notin PastElse(x)
  <2>1. CASE d = l
    BY <1>2, <1>3, <1>5, <1>10, <1>12, <2>1, <1>1, IfChoice
  <2>2. CASE d # l
    BY <1>5, <1>6, <1>9, <1>10, <2>2, LastOrBefore
  <2> QED
    BY <2>1, <2>2
<1>14. /\ stack[d].node < m /\ ~Enclosed(stack[d].node, m) /\ "if_statement" \in DOMAIN Grammar
       /\ \/ Rival(d, m, x)
          \/ /\ Top.node = m /\ Top.rest \notin {<<x.end>>, <<>>}
             /\ RuleOf(l) = "if_statement" /\ d < l
  BY <1>1, <1>5, <1>9, <1>13, RivalBefore
<1>15. Top.node = m => rest \in {<<x.end>>, <<>>}
  BY <1>5, <1>10 DEF Loose
<1>16. ASSUME e = <<>>, AllIn(Tail(Top.rest), options),
              \A k \in d .. l - 1 : AllIn(stack[k].rest, options),
              ~Matches(table, <<x.else, x.clause>> \o Behind(f), pos),
              \/ ~Matches(table, <<x.semi>> \o Behind(f), pos)
              \/ Top.node = m /\ Tail(Top.rest) = <<x.end>>
       PROVE  AllOptions(d, x)' /\ NoElseNext(g, x)' /\ NoSemiNext(g, m, x)'
  <2>1. Left(g)' = Behind(f) /\ rest = Tail(Top.rest)
    BY <1>7, <1>8, <1>16
  <2>2. AllOptions(d, x)'
    <3>1. ASSUME NEW k \in d .. l PROVE AllIn(stack'[k].rest, options)
      <4>1. k \in 1 .. l /\ ((k \in d .. l - 1 /\ k \in 1 .. l - 1) \/ k = l)
        BY <1>5, <1>9
      <4> QED
        BY <1>5, <1>6, <1>16, <2>1, <4>1
    <3> HIDE DEF options
    <3>2. \A k \in d .. l : AllIn(stack[k].rest, options)'
      BY <3>1 DEF AllIn
    <3> QED
      BY <1>4, <3>2 DEF AllOptions, options
  <2>3. NoElseNext(g, x)'
    BY <1>2, <1>16, <2>1 DEF NoElseNext, Matches
  <2>4. NoSemiNext(g, m, x)'
    BY <1>2, <1>8, <1>16, <2>1 DEF NoSemiNext, Matches
  <2> QED
    BY <2>2, <2>3, <2>4
<1>17. CASE Rival(d, m, x)
  <2>1. AllOptions(d, x) /\ NoElseNext(f, x) /\ NoSemiNext(f, m, x)
    BY <1>5, <1>9, <1>17 DEF Rivals
  <2>2. /\ e = <<>> /\ AllIn(Tail(Top.rest), options)
        /\ ~Matches(table, <<x.else, x.clause>> \o Behind(f), pos)
        /\ ~Matches(table, <<x.semi>> \o Behind(f), pos)
    BY ZenonT(60), <1>1, <1>2, <1>3, <1>5, <1>9, <1>11, <1>14, <1>15, <2>1, RivalSkips
  <2>3. \A k \in d .. l - 1 : AllIn(stack[k].rest, options)
    <3>1. \A k \in d .. l - 1 : k \in d .. l
      BY <1>5, <1>9
    <3> QED
      BY <2>1, <3>1 DEF AllOptions
  <2> QED
    BY <1>16, <2>2, <2>3
<1>18. CASE /\ Top.node = m /\ Top.rest \notin {<<x.end>>, <<>>}
            /\ RuleOf(l) = "if_statement" /\ d < l
  <2>1. e = <<>>
    BY <1>1, <1>2, <1>3, <1>12, <1>15, <1>18, IfChoice
  <2>2. Expected = x.otherwise /\ Tail(Top.rest) = <<x.end>>
    BY <1>1, <1>2, <1>12, <1>18, IfTail
  <2>3. /\ x.otherwise.k = "opt" /\ <<x.else, x.clause>> \in Expansions(x.otherwise)
        /\ <<x.else, x.clause>> # <<>>
    BY <1>1, <1>14, IfItems DEF IsIf
  <2>4. ~Matches(table, <<x.else, x.clause>> \o Behind(f), pos)
    BY <1>1, <1>2, <1>3, <2>1, <2>2, <2>3, OptionAnswer
  <2>5. AllIn(Tail(Top.rest), options)
    <3>1. AllIn(<<x.end>>, options)
      BY DEF AllIn
    <3> QED
      BY <2>2, <3>1
  <2>6. \A k \in d .. l - 1 : AllIn(stack[k].rest, options)
    <3>1. Reaches(d, l, options)
      BY <1>1, <1>5, <1>9, <1>10, <1>18 DEF ChainInv, Carriers
    <3>2. ASSUME NEW k \in d + 1 .. l, RuleOf(k) \in Blocks PROVE FALSE
      <4>1. k \in 1 .. l /\ d < k /\ (k < l \/ k = l)
        BY <1>5, <1>9
      <4>2. k # l
        BY <1>18, <3>2 DEF Blocks
      <4>3. stack[d].node < stack[k].node /\ stack[k].node < stack[l].node
        BY <1>5, <1>9, <4>1, <4>2 DEF TreeInv, ContextFollowsCalls
      <4>4. stack[k].node \in DOMAIN nodes /\ Open(stack[k].node) /\ nodes[stack[k].node].rule \in Blocks
        BY <1>1, <1>5, <3>2, <4>1, FrameTypes DEF Open, RuleOf
      <4>5. Enclosed(stack[d].node, m)
        BY <1>5, <1>18, <4>3, <4>4 DEF Enclosed
      <4> QED
        BY <1>14, <4>5
    <3> QED
      BY <3>1, <3>2 DEF Reaches
  <2> QED
    BY <1>16, <1>18, <2>1, <2>2, <2>4, <2>5, <2>6
<1> QED
  BY <1>14, <1>17, <1>18

LEMMA ExitKeepsRivals ==
    ASSUME NEW x, IsIf(x), TreeInv, NonemptyInv(NonTokens), RestsIn(IfFamily(x)),
           NEW f, Agenda(f), Rivals(f, x), ExitRule
    PROVE  \E g : Agenda(g)' /\ Rivals(g, x)'
<1>1. TypeOK /\ [Next]_vars /\ Grows
  BY StepGrows DEF TreeInv, Next, Step
<1> PICK l : l = Len(stack)
  OBVIOUS
<1>2. /\ stack # <<>> /\ Top.rest = <<>> /\ l \in Nat \ {0} /\ Len(stack') = l - 1
      /\ DOMAIN stack = 1 .. l /\ DOMAIN stack' = 1 .. l - 1
      /\ \A c \in 1 .. l - 1 : c \in 1 .. l /\ SameFrame(c)
      /\ UNCHANGED <<input, pos, owner, table>>
  BY ExitFrame
<1>3. PICK g : Agenda(g)' /\ g[l - 1] = Left(f)
  BY <1>1, AgendaExit
<1>4. Left(g)' = Left(f)
  BY <1>2, <1>3 DEF Left
<1> SUFFICES ASSUME NEW d \in DOMAIN stack', NEW m \in DOMAIN nodes', Rival(d, m, x)'
             PROVE  AllOptions(d, x)' /\ NoElseNext(g, x)' /\ NoSemiNext(g, m, x)'
  BY <1>3 DEF Rivals
<1>5. d \in 1 .. l - 1 /\ d \in DOMAIN stack /\ SameFrame(d)
  BY <1>2
<1>6. m \in DOMAIN nodes
  <2>1. ~Call /\ ~EnterRule
    BY <1>2 DEF ExitRule, Call, EnterRule, At
  <2> QED
    BY <1>1, <2>1, NodeAdded
<1>7. stack'[d].node = stack[d].node /\ stack[d].rest \notin PastElse(x)
  BY <1>5 DEF SameFrame, Rival
<1>8. Rival(d, m, x)
  BY <1>1, <1>2, <1>5, <1>6, <1>7, RivalBefore
<1>9. AllOptions(d, x) /\ NoElseNext(f, x) /\ NoSemiNext(f, m, x)
  BY <1>5, <1>6, <1>8 DEF Rivals
<1>10. AllOptions(d, x)'
  <2>1. ASSUME NEW k \in d .. l - 1 PROVE AllIn(stack'[k].rest, {x.otherwise, x.end})
    <3>1. k \in d .. l /\ k \in 1 .. l - 1
      BY <1>2, <1>5
    <3> QED
      BY <1>2, <1>9, <3>1 DEF AllOptions, SameFrame
  <2>2. \A k \in d .. l - 1 : AllIn(stack[k].rest, {x.otherwise, x.end})'
    BY <2>1 DEF AllIn
  <2> QED
    BY <1>2, <2>2 DEF AllOptions
<1>11. ~Matches(table, <<x.semi>> \o Left(f), pos)
  <2>1. <<x.end>> # <<>>
    OBVIOUS
  <2> QED
    BY <1>2, <1>9, <2>1 DEF NoSemiNext
<1> QED
  BY <1>2, <1>4, <1>9, <1>10, <1>11 DEF NoElseNext, NoSemiNext, Matches

LEMMA OthersKeepRivals ==
    ASSUME NEW x, TreeInv, NEW f, Agenda(f), Rivals(f, x), Call \/ SyntaxError \/ UNCHANGED vars
    PROVE  \E g : Agenda(g)' /\ Rivals(g, x)'
<1>1. CASE Call
  <2>1. DOMAIN stack' = 1 .. 1 /\ stack'[1].node = 1 /\ DOMAIN nodes' = {1}
    BY <1>1, CallFrame, CallStep
  <2>2. PICK g : Agenda(g)'
    BY <1>1, AgendaCall
  <2>3. ASSUME NEW d \in DOMAIN stack', NEW m \in DOMAIN nodes' PROVE ~Rival(d, m, x)'
    <3>1. d = 1 /\ m = 1
      BY <2>1
    <3> QED
      BY <2>1, <3>1 DEF Rival
  <2> QED
    BY <2>2, <2>3 DEF Rivals
<1>2. CASE SyntaxError \/ UNCHANGED vars
  <2>1. UNCHANGED <<input, pos, stack, nodes, owner, table>>
    BY <1>2 DEF SyntaxError, vars
  <2>2. Agenda(f)'
    BY <2>1 DEF Agenda
  <2>3. ASSUME NEW d, NEW m
        PROVE  /\ Rival(d, m, x)' => Rival(d, m, x)
               /\ AllOptions(d, x) => AllOptions(d, x)'
               /\ NoElseNext(f, x) => NoElseNext(f, x)'
               /\ NoSemiNext(f, m, x) => NoSemiNext(f, m, x)'
    <3>1. Loose(m, x)' => Loose(m, x)
      BY <2>1 DEF Loose, HasElse, TokensOf
    <3>2. RuleOf(d)' = RuleOf(d)
      BY <2>1 DEF RuleOf
    <3>3. \A n : Enclosed(n, m) => Enclosed(n, m)'
      BY <2>1 DEF Enclosed, Open
    <3>4. Rival(d, m, x)' => Rival(d, m, x)
      BY <2>1, <3>1, <3>2, <3>3 DEF Rival
    <3>5. AllOptions(d, x) => AllOptions(d, x)'
      BY <2>1 DEF AllOptions, AllIn
    <3>6. NoElseNext(f, x) => NoElseNext(f, x)'
      BY <2>1 DEF NoElseNext, Matches, Left
    <3>7. NoSemiNext(f, m, x) => NoSemiNext(f, m, x)'
      BY <2>1 DEF NoSemiNext, Matches, Left, Top
    <3> QED
      BY <3>4, <3>5, <3>6, <3>7
  <2>4. Rivals(f, x)'
    BY <2>1, <2>3 DEF Rivals
  <2> QED
    BY <2>2, <2>4
<1> QED
  BY <1>1, <1>2

ElseInv(parts, x, around) ==
    /\ TableInv
    /\ NonemptyInv(NonTokens)
    /\ RestsIn(LeadFamily(parts, x, around)) /\ RestsIn(IfFamily(x))
    /\ AroundInv(around)
    /\ ChainInv(around, {x.otherwise, x.end})
    /\ ElseTaken(x)
    /\ ElseRead
    /\ \E f : Agenda(f) /\ Rivals(f, x)

LEMMA NextKeepsElse ==
    ASSUME NEW parts, NEW x, NEW around, IfGrammar(parts, x, around), ExactPrediction,
           TreeInv, ElseInv(parts, x, around), [Next]_vars
    PROVE  ElseInv(parts, x, around)'
<1>1. /\ TableInv /\ NonemptyInv(NonTokens)
      /\ RestsIn(LeadFamily(parts, x, around)) /\ RestsIn(IfFamily(x))
      /\ AroundInv(around) /\ ChainInv(around, {x.otherwise, x.end}) /\ ElseTaken(x) /\ ElseRead
  BY DEF ElseInv
<1>2. PICK f : Agenda(f) /\ Rivals(f, x)
  BY DEF ElseInv
<1>3. IsIf(x)
  BY DEF IfGrammar
<1>4. TableInv' /\ NonemptyInv(NonTokens)'
  BY <1>1, StepKeepsTable, StepKeepsNonempty, ExpansionTypes DEF Empties, NonTokens
<1>5. RestsIn(LeadFamily(parts, x, around))' /\ RestsIn(IfFamily(x))'
  BY <1>1, <1>3, LeadClosed, IfClosed, StepKeepsRests
<1>6. AroundInv(around)' /\ ChainInv(around, {x.otherwise, x.end})'
  BY <1>1, StepKeepsAround, StepKeepsChain
<1>7. ElseTaken(x)' /\ ElseRead'
  BY <1>1, <1>2, <1>3, StepKeepsTaken, StepKeepsElse
<1>8. \E g : Agenda(g)' /\ Rivals(g, x)'
  <2>1. CASE Match
    <3>1. PICK g : Agenda(g)'
      BY <1>2, <2>1, AgendaMatch DEF TreeInv
    <3>2. Rivals(g, x)'
      BY <1>1, <1>2, <1>3, <2>1, MatchHasNoRival DEF Rivals
    <3> QED
      BY <3>1, <3>2
  <2>2. CASE EnterRule
    <3>1. PICK g : Agenda(g)'
      BY <1>2, <2>2, AgendaEnter DEF TreeInv
    <3>2. Rivals(g, x)'
      BY <1>1, <1>2, <1>3, <2>2, EnterHasNoRival DEF Rivals
    <3> QED
      BY <3>1, <3>2
  <2>3. CASE Choose \/ EnterOptional \/ Iterate
    BY <1>1, <1>2, <2>3, DecisionKeepsRivals
  <2>4. CASE ExitRule
    BY <1>1, <1>2, <1>3, <2>4, ExitKeepsRivals
  <2>5. CASE Call \/ SyntaxError \/ UNCHANGED vars
    BY <1>2, <2>5, OthersKeepRivals
  <2> QED
    BY <2>1, <2>2, <2>3, <2>4, <2>5 DEF Next, Step, Keep
<1>9. PICK g : Agenda(g)' /\ Rivals(g, x)'
  BY <1>8
<1> QED
  BY <1>4, <1>5, <1>6, <1>7, <1>9 DEF ElseInv

LEMMA InitElse ==
    ASSUME NEW parts, NEW x, NEW around, Init
    PROVE  ElseInv(parts, x, around)
<1>1. stack = <<>> /\ nodes = <<>> /\ owner = <<>> /\ status = "ready"
  BY DEF Init
<1>2. DOMAIN stack = {} /\ DOMAIN nodes = {} /\ DOMAIN owner = {}
  BY <1>1
<1>3. PICK f : Agenda(f)
  BY InitAgenda
<1>4. Rivals(f, x) /\ ElseRead /\ ElseTaken(x) /\ AroundInv(around) /\ ChainInv(around, {x.otherwise, x.end})
  BY <1>2 DEF Rivals, ElseRead, TokensOf, ElseTaken, AroundInv, ChainInv
<1>5. TableInv /\ NonemptyInv(NonTokens)
  BY <1>1, <1>2 DEF TableInv, NonemptyInv, InOrder
<1> QED
  BY <1>3, <1>4, <1>5, InitRests DEF ElseInv

(***************************************************************************)
(* In a grammar in which an IF reaches an IF inside it only at the end of  *)
(* its clause or through a block, and with a prediction that is exact, an  *)
(* ELSE belongs to the nearest IF that has none and has not been ended     *)
(* before.  That an optional ELSE is taken greedily does not say so: the   *)
(* inner IF leaves it when the rest of the stream would not fit.  The      *)
(* invariant says that then nobody takes it: while an IF inside another    *)
(* has passed the place of its ELSE without taking one, the tokens match   *)
(* an ELSE neither here nor behind a semicolon.                            *)
(***************************************************************************)
THEOREM ElseCorrect ==
    ASSUME NEW CONSTANT parts, NEW CONSTANT x, NEW CONSTANT around,
           IfGrammar(parts, x, around), ExactPrediction
    PROVE  Spec => []ElseBelongsToNearestIf
<1> DEFINE Inv == ElseInv(parts, x, around)
<1>1. Init => Inv
  BY InitElse
<1>2. TreeInv /\ Inv /\ [Next]_vars => Inv'
  BY NextKeepsElse
<1>3. TreeInv /\ Inv => ElseBelongsToNearestIf
  <2> SUFFICES ASSUME TreeInv, Inv, Accepted, NEW p \in TokensOf("ELSE"),
                      NEW m \in NodesOf("if_statement"), owner[p] < m, nodes[m].start < p
               PROVE  HasElse(m) \/ Ended(m, owner[p], p)
    BY DEF ElseBelongsToNearestIf
  <2>1. Passed(m, owner[p], p)
    BY DEF ElseInv, ElseRead
  <2> QED
    BY <2>1 DEF Passed, Ended, NodesOf
<1> HIDE DEF Inv
<1> QED
  BY <1>1, <1>2, <1>3, TreeInvariant, PTL DEF Spec

=============================================================================
