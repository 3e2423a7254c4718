--------------------------- MODULE PairingProofs ----------------------------
(***************************************************************************)
(* Brackets pair up in every tree of a grammar that Brackets describes,    *)
(* whatever the token stream and whatever the prediction decides.          *)
(***************************************************************************)
EXTENDS Pairing, ParserCoreProofs, FiniteSetTheorems, WellFoundedInduction

-----------------------------------------------------------------------------
(***************************************************************************)
(* The balance of brackets.                                                *)
(***************************************************************************)
\* The balance of adjacent stretches adds up.
LEMMA BalanceSplit ==
    ASSUME NEW opens, NEW closes, NEW a \in Int, NEW b \in Int, NEW c \in Int,
           a <= b + 1, b <= c
    PROVE  /\ Balance(opens, closes, a, b) \in Int
           /\ Balance(opens, closes, b + 1, c) \in Int
           /\ Balance(opens, closes, a, c) =
                 Balance(opens, closes, a, b) + Balance(opens, closes, b + 1, c)
<1>1. ASSUME NEW S
      PROVE  /\ Cardinality(S \cap a .. b) \in Nat
             /\ Cardinality(S \cap b + 1 .. c) \in Nat
             /\ Cardinality(S \cap a .. c) =
                   Cardinality(S \cap a .. b) + Cardinality(S \cap b + 1 .. c)
  <2> DEFINE L == S \cap a .. b
             R == S \cap b + 1 .. c
             M == S \cap a .. c
  <2>1. IsFiniteSet(L) /\ IsFiniteSet(R)
    <3>1. IsFiniteSet(a .. b) /\ IsFiniteSet(b + 1 .. c)
      BY FS_Interval
    <3> QED
      BY <3>1, FS_Intersection
  <2>2. M = L \cup R /\ L \cap R = {}
    <3>1. a .. c = (a .. b) \cup (b + 1 .. c) /\ (a .. b) \cap (b + 1 .. c) = {}
      OBVIOUS
    <3> QED
      BY <3>1
  <2> HIDE DEF L, R, M
  <2>3. Cardinality(L) \in Nat /\ Cardinality(R) \in Nat
    BY <2>1, FS_CardinalityType
  <2>4. Cardinality(L \cup R) = Cardinality(L) + Cardinality(R) - Cardinality(L \cap R)
    BY <2>1, FS_Union
  <2>5. Cardinality(L \cap R) = 0 /\ Cardinality(M) = Cardinality(L \cup R)
    BY <2>2, FS_EmptySet
  <2>6. Cardinality(M) = Cardinality(L) + Cardinality(R)
    BY <2>3, <2>4, <2>5
  <2> QED
    BY <2>3, <2>6 DEF L, R, M
<1>2. /\ Cardinality(opens \cap a .. b) \in Nat
      /\ Cardinality(opens \cap b + 1 .. c) \in Nat
      /\ Cardinality(opens \cap a .. c) =
            Cardinality(opens \cap a .. b) + Cardinality(opens \cap b + 1 .. c)
  BY <1>1
<1>3. /\ Cardinality(closes \cap a .. b) \in Nat
      /\ Cardinality(closes \cap b + 1 .. c) \in Nat
      /\ Cardinality(closes \cap a .. c) =
            Cardinality(closes \cap a .. b) + Cardinality(closes \cap b + 1 .. c)
  BY <1>1
<1> QED
  BY <1>2, <1>3 DEF Balance

\* The same, split before b.
LEMMA BalanceBefore ==
    ASSUME NEW opens, NEW closes, NEW a \in Int, NEW b \in Int, NEW c \in Int,
           a <= b, b <= c + 1
    PROVE  /\ Balance(opens, closes, a, b - 1) \in Int
           /\ Balance(opens, closes, b, c) \in Int
           /\ Balance(opens, closes, a, c) =
                 Balance(opens, closes, a, b - 1) + Balance(opens, closes, b, c)
<1>1. PICK d \in Int : d = b - 1
  OBVIOUS
<1>2. b = d + 1 /\ a <= d + 1 /\ d <= c
  BY <1>1
<1>3. /\ Balance(opens, closes, a, d) \in Int
      /\ Balance(opens, closes, d + 1, c) \in Int
      /\ Balance(opens, closes, a, c) =
            Balance(opens, closes, a, d) + Balance(opens, closes, d + 1, c)
  BY <1>2, BalanceSplit
<1> QED
  BY <1>1, <1>2, <1>3

\* The same for all stretches.
LEMMA BalanceParts ==
    ASSUME NEW opens, NEW closes
    PROVE  \A a, b, c \in Int : a <= b /\ b <= c + 1 =>
              /\ Balance(opens, closes, a, b - 1) \in Int
              /\ Balance(opens, closes, b, c) \in Int
              /\ Balance(opens, closes, a, c) =
                    Balance(opens, closes, a, b - 1) + Balance(opens, closes, b, c)
BY BalanceBefore

\* Nothing has the balance 0.
LEMMA BalanceNone ==
    ASSUME NEW opens, NEW closes, NEW q \in Int, NEW p \in Int, q > p
    PROVE  Balance(opens, closes, q, p) = 0
<1>1. Cardinality({}) = 0
  BY FS_EmptySet
<1>2. q .. p = {}
  OBVIOUS
<1>3. \A S : S \cap q .. p = {}
  BY <1>2
<1>4. \A S : Cardinality(S \cap q .. p) = 0
  BY <1>1, <1>3
<1> QED
  BY <1>4 DEF Balance

\* A single token has the balance of its kind.
LEMMA BalanceOne ==
    ASSUME NEW opens, NEW closes, opens \cap closes = {}, NEW p \in Int
    PROVE  Balance(opens, closes, p, p) =
              IF p \in opens THEN 1 ELSE IF p \in closes THEN -1 ELSE 0
<1>1. Cardinality({}) = 0 /\ Cardinality({p}) = 1
  BY FS_EmptySet, FS_Singleton
<1>2. p .. p = {p}
  OBVIOUS
<1>3. \A S : S \cap p .. p = IF p \in S THEN {p} ELSE {}
  BY <1>2
<1>4. \A S : Cardinality(S \cap p .. p) = IF p \in S THEN 1 ELSE 0
  BY <1>1, <1>3
<1>5. ~(p \in opens /\ p \in closes)
  OBVIOUS
<1>6. Balance(opens, closes, p, p) =
         (IF p \in opens THEN 1 ELSE 0) - (IF p \in closes THEN 1 ELSE 0)
  BY <1>4 DEF Balance
<1> QED
  BY <1>5, <1>6

(***************************************************************************)
(* The brackets of a .. b are closed within a .. b.                        *)
(***************************************************************************)
Flat(opens, closes, a, b) ==
    /\ Balance(opens, closes, a, b) = 0
    /\ \A r \in a .. b : Balance(opens, closes, r, b) <= 0

\* A token that is no bracket changes nothing.
LEMMA FlatNext ==
    ASSUME NEW opens, NEW closes, opens \cap closes = {}, NEW a \in Int, NEW b \in Int, a <= b,
           Flat(opens, closes, a, b - 1), b \notin opens, b \notin closes
    PROVE  Flat(opens, closes, a, b)
<1> DEFINE B(q, p) == Balance(opens, closes, q, p)
<1>1. B(b, b) = 0
  BY BalanceOne
<1>2. \A r \in a .. b : B(r, b) = B(r, b - 1) + B(b, b) /\ B(r, b - 1) \in Int
  BY BalanceBefore
<1>3. B(b, b - 1) = 0
  BY BalanceNone
<1>4. B(a, b - 1) = 0 /\ \A r \in a .. b - 1 : B(r, b - 1) <= 0
  BY DEF Flat
<1> HIDE DEF B
<1>5. B(a, b) = 0 /\ \A r \in a .. b : B(r, b) <= 0
  <2>1. a \in a .. b
    OBVIOUS
  <2>2. B(a, b) = 0
    BY <1>1, <1>2, <1>4, <2>1
  <2>3. ASSUME NEW r \in a .. b PROVE B(r, b) <= 0
    <3>1. B(r, b) = B(r, b - 1)
      BY <1>1, <1>2
    <3>2. CASE r = b
      BY <1>3, <3>1, <3>2
    <3>3. CASE r # b
      <4>1. r \in a .. b - 1
        BY <3>3
      <4> QED
        BY <1>4, <3>1, <4>1
    <3> QED
      BY <3>2, <3>3
  <2> QED
    BY <2>2, <2>3
<1> QED
  BY <1>5 DEF B, Flat

(***************************************************************************)
(* A bracket that opens at u behind a flat stretch and closes at p, with a *)
(* flat stretch in between.                                                *)
(***************************************************************************)
LEMMA FlatPair ==
    ASSUME NEW opens, NEW closes, opens \cap closes = {},
           NEW a \in Int, NEW u \in Int, NEW p \in Int, a <= u, u < p,
           u \in opens, p \in closes,
           Flat(opens, closes, a, u - 1), Flat(opens, closes, u + 1, p - 1)
    PROVE  /\ Flat(opens, closes, a, p)
           /\ Balance(opens, closes, u, p) = 0
           /\ \A r \in u + 1 .. p : Balance(opens, closes, r, p) < 0
<1> DEFINE B(q, r) == Balance(opens, closes, q, r)
<1>1. B(u, u) = 1 /\ B(p, p) = -1 /\ B(p, p - 1) = 0
  <2>1. p \notin opens
    OBVIOUS
  <2>2. B(u, u) = 1
    BY BalanceOne
  <2>3. B(p, p) = -1
    BY <2>1, BalanceOne
  <2>4. B(p, p - 1) = 0
    BY BalanceNone
  <2> QED
    BY <2>2, <2>3, <2>4
<1>2. \A x, y, z \in Int : x <= y /\ y <= z + 1 =>
         B(x, y - 1) \in Int /\ B(y, z) \in Int /\ B(x, z) = B(x, y - 1) + B(y, z)
  BY BalanceParts
<1>3. /\ B(a, u - 1) = 0 /\ \A r \in a .. u - 1 : B(r, u - 1) <= 0
      /\ B(u + 1, p - 1) = 0 /\ \A r \in u + 1 .. p - 1 : B(r, p - 1) <= 0
  BY DEF Flat
<1> HIDE DEF B
<1>4. ASSUME NEW r \in u + 1 .. p PROVE B(r, p) < 0 /\ B(r, p) \in Int
  <2>1. B(r, p - 1) \in Int /\ B(r, p) = B(r, p - 1) + B(p, p)
    BY <1>2
  <2>2. CASE r = p
    BY <1>1, <2>1, <2>2
  <2>3. CASE r # p
    <3>1. r \in u + 1 .. p - 1
      BY <2>3
    <3> QED
      BY <1>1, <1>3, <2>1, <3>1
  <2> QED
    BY <2>2, <2>3
<1>5. B(u + 1, p) = -1
  <2>1. B(u + 1, p) = B(u + 1, p - 1) + B(p, p)
    BY <1>2
  <2> QED
    BY <1>1, <1>3, <2>1
<1>6. B(u, p) = 0
  <2>1. PICK v \in Int : v = u + 1
    OBVIOUS
  <2>2. B(u, p) = B(u, v - 1) + B(v, p)
    BY <1>2, <2>1
  <2>3. v - 1 = u
    BY <2>1
  <2> QED
    BY <1>1, <1>5, <2>1, <2>2, <2>3
<1>7. ASSUME NEW r \in a .. u PROVE B(r, p) <= 0
  <2>1. B(r, u - 1) \in Int /\ B(r, p) = B(r, u - 1) + B(u, p)
    BY <1>2
  <2>2. CASE r = u
    BY <1>6, <2>2
  <2>3. CASE r # u
    <3>1. r \in a .. u - 1
      BY <2>3
    <3> QED
      BY <1>3, <1>6, <2>1, <3>1
  <2> QED
    BY <2>2, <2>3
<1>8. B(a, p) = 0
  <2>1. B(a, p) = B(a, u - 1) + B(u, p)
    BY <1>2
  <2> QED
    BY <1>3, <1>6, <2>1
<1>9. \A r \in a .. p : B(r, p) <= 0
  <2> SUFFICES ASSUME NEW r \in a .. p PROVE B(r, p) <= 0
    OBVIOUS
  <2>1. r \in a .. u \/ r \in u + 1 .. p
    OBVIOUS
  <2>2. CASE r \in u + 1 .. p
    BY <1>4, <2>2
  <2> QED
    BY <1>7, <2>1, <2>2
<1> QED
  BY <1>4, <1>6, <1>8, <1>9 DEF B, Flat

-----------------------------------------------------------------------------
(***************************************************************************)
(* Brackets in what a function has still to match.                         *)
(***************************************************************************)
\* What stands behind the first item.
LEMMA TailItems ==
    ASSUME NEW e \in Seq(Items), e # <<>>
    PROVE  /\ Len(e) \in Nat \ {0} /\ Head(e) = e[1] /\ e[1] \in Items
           /\ Tail(e) \in Seq(Items) /\ Len(Tail(e)) = Len(e) - 1
           /\ \A i \in 1 .. Len(e) - 1 : Tail(e)[i] = e[i + 1]
<1>1. Len(e) \in Nat \ {0}
  BY EmptySeq, LenProperties
<1> QED
  BY <1>1, HeadTailProperties, ElementOfSeq

\* The items of a concatenation.
LEMMA ConcatItems ==
    ASSUME NEW d \in Seq(Items), NEW e \in Seq(Items)
    PROVE  /\ d \o e \in Seq(Items)
           /\ Len(d) \in Nat /\ Len(e) \in Nat /\ Len(d \o e) = Len(d) + Len(e)
           /\ \A i \in 1 .. Len(d) + Len(e) :
                 (d \o e)[i] = IF i <= Len(d) THEN d[i] ELSE e[i - Len(d)]
  BY ConcatProperties, LenProperties

\* One step along a sequence whose brackets are in turn.
LEMMA InTurnTail ==
    ASSUME NEW e \in Seq(Items), e # <<>>, NEW opening, NEW closing, NEW open,
           InTurn(e, opening, closing, open)
    PROVE  /\ open + Weight(e[1], opening, closing) \in 0 .. 1
           /\ open \in 0 .. 1
           /\ InTurn(Tail(e), opening, closing, open + Weight(e[1], opening, closing))
<1> DEFINE W(it) == Weight(it, opening, closing)
           t == Tail(e)
<1>1. /\ Len(e) \in Nat \ {0} /\ Len(t) = Len(e) - 1
      /\ \A i \in 1 .. Len(e) - 1 : t[i] = e[i + 1]
  BY TailItems
<1> HIDE DEF W, t
<1>2. PICK s \in [1 .. Len(e) + 1 -> 0 .. 1] :
         /\ s[1] = open
         /\ \A i \in 1 .. Len(e) : s[i + 1] = s[i] + W(e[i])
         /\ s[Len(e) + 1] = 0
  BY DEF InTurn, W
<1> DEFINE r == [i \in 1 .. Len(t) + 1 |-> s[i + 1]]
<1>3. r \in [1 .. Len(t) + 1 -> 0 .. 1]
  BY <1>1, <1>2
<1>4. r[1] = s[2] /\ s[2] = open + W(e[1]) /\ s[2] \in 0 .. 1 /\ open \in 0 .. 1
  <2>1. 1 \in 1 .. Len(e) /\ 1 \in 1 .. Len(t) + 1 /\ 2 \in 1 .. Len(e) + 1 /\ 1 \in 1 .. Len(e) + 1
    BY <1>1
  <2> QED
    BY <1>2, <2>1
<1>5. \A i \in 1 .. Len(t) : r[i + 1] = r[i] + W(t[i])
  <2> SUFFICES ASSUME NEW i \in 1 .. Len(t)
               PROVE  r[i + 1] = r[i] + W(t[i])
    OBVIOUS
  <2>1. i + 1 \in 1 .. Len(e) /\ i + 1 \in 1 .. Len(t) + 1 /\ i \in 1 .. Len(t) + 1
    BY <1>1
  <2>2. t[i] = e[i + 1]
    BY <1>1
  <2>3. s[(i + 1) + 1] = s[i + 1] + W(e[i + 1])
    BY <1>2, <2>1
  <2>4. r[i + 1] = s[(i + 1) + 1] /\ r[i] = s[i + 1]
    BY <2>1
  <2> QED
    BY <2>2, <2>3, <2>4
<1>6. r[Len(t) + 1] = 0
  BY <1>1, <1>2
<1> HIDE DEF r
<1>7. InTurn(t, opening, closing, open + W(e[1]))
  BY <1>3, <1>4, <1>5, <1>6 DEF InTurn, W
<1> QED
  BY <1>4, <1>7 DEF W, t

\* Brackets are still in turn with items in front that are none.
LEMMA InTurnConcat ==
    ASSUME NEW d \in Seq(Items), NEW e \in Seq(Items), NEW opening, NEW closing, NEW open,
           \A i \in 1 .. Len(d) : Weight(d[i], opening, closing) = 0,
           InTurn(e, opening, closing, open)
    PROVE  InTurn(d \o e, opening, closing, open)
<1> DEFINE W(it) == Weight(it, opening, closing)
           t == d \o e
<1>1. /\ Len(d) \in Nat /\ Len(e) \in Nat /\ Len(t) = Len(d) + Len(e)
      /\ \A i \in 1 .. Len(t) : t[i] = IF i <= Len(d) THEN d[i] ELSE e[i - Len(d)]
  BY ConcatItems
<1>2. \A i \in 1 .. Len(d) : W(d[i]) = 0
  OBVIOUS
<1> HIDE DEF W, t
<1>3. PICK s \in [1 .. Len(e) + 1 -> 0 .. 1] :
         /\ s[1] = open
         /\ \A i \in 1 .. Len(e) : s[i + 1] = s[i] + W(e[i])
         /\ s[Len(e) + 1] = 0
  BY DEF InTurn, W
<1> DEFINE r == [i \in 1 .. Len(t) + 1 |-> IF i <= Len(d) THEN open ELSE s[i - Len(d)]]
<1>4. open \in 0 .. 1
  <2>1. 1 \in 1 .. Len(e) + 1
    BY <1>1
  <2> QED
    BY <1>3, <2>1
<1>5. r \in [1 .. Len(t) + 1 -> 0 .. 1]
  <2> SUFFICES ASSUME NEW i \in 1 .. Len(t) + 1, ~(i <= Len(d))
               PROVE  s[i - Len(d)] \in 0 .. 1
    BY <1>4
  <2>1. i - Len(d) \in 1 .. Len(e) + 1
    BY <1>1
  <2> QED
    BY <1>3, <2>1
<1>6. r[1] = open
  <2>1. 1 \in 1 .. Len(t) + 1
    BY <1>1
  <2>2. CASE 1 <= Len(d)
    BY <2>1, <2>2
  <2>3. CASE ~(1 <= Len(d))
    BY <1>1, <1>3, <2>1, <2>3
  <2> QED
    BY <2>2, <2>3
<1>7. \A i \in 1 .. Len(t) : r[i + 1] = r[i] + W(t[i])
  <2> SUFFICES ASSUME NEW i \in 1 .. Len(t)
               PROVE  r[i + 1] = r[i] + W(t[i])
    OBVIOUS
  <2>1. i \in 1 .. Len(t) + 1 /\ i + 1 \in 1 .. Len(t) + 1
    BY <1>1
  <2>2. CASE i < Len(d)
    <3>1. r[i + 1] = open /\ r[i] = open /\ W(t[i]) = 0
      <4>1. i \in 1 .. Len(d) /\ i <= Len(d) /\ i + 1 <= Len(d)
        BY <1>1, <2>2
      <4> QED
        BY <1>1, <1>2, <2>1, <4>1
    <3> QED
      BY <1>4, <3>1
  <2>3. CASE i = Len(d)
    <3>1. r[i] = open /\ W(t[i]) = 0
      <4>1. i \in 1 .. Len(d) /\ i <= Len(d)
        BY <1>1, <2>3
      <4> QED
        BY <1>1, <1>2, <2>1, <4>1
    <3>2. r[i + 1] = s[1]
      <4>1. ~(i + 1 <= Len(d)) /\ (i + 1) - Len(d) = 1
        BY <1>1, <2>3
      <4> QED
        BY <2>1, <4>1
    <3> QED
      BY <1>3, <1>4, <3>1, <3>2
  <2>4. CASE i > Len(d)
    <3>1. PICK j \in Int : j = i - Len(d)
      <4>1. i - Len(d) \in Int
        BY <1>1
      <4> QED
        BY <4>1
    <3>2. j \in 1 .. Len(e) /\ (i + 1) - Len(d) = j + 1 /\ ~(i <= Len(d)) /\ ~(i + 1 <= Len(d))
      BY <1>1, <2>4, <3>1
    <3>3. r[i] = s[j] /\ r[i + 1] = s[j + 1] /\ t[i] = e[j]
      BY <1>1, <2>1, <3>1, <3>2
    <3> QED
      BY <1>3, <3>2, <3>3
  <2> QED
    BY <1>1, <2>2, <2>3, <2>4
<1>8. r[Len(t) + 1] = 0
  <2>1. Len(t) + 1 \in 1 .. Len(t) + 1 /\ ~(Len(t) + 1 <= Len(d)) /\ Len(t) + 1 - Len(d) = Len(e) + 1
    BY <1>1
  <2> QED
    BY <1>3, <2>1
<1> HIDE DEF r
<1>9. InTurn(t, opening, closing, open)
  BY <1>5, <1>6, <1>7, <1>8 DEF InTurn, W
<1> QED
  BY <1>9 DEF t

(***************************************************************************)
(* What a function of one of the rules has still to match, open brackets   *)
(* of its own being open: the whole rule, which is a decision, or a        *)
(* sequence whose brackets are in turn.                                    *)
(***************************************************************************)
Undecided(rule, e) == e = Grammar[rule] /\ Len(e) = 1 /\ e[1].k = "alt"

Decided(parts, e, opening, closing, open) ==
    InTurn(e, opening, closing, open) /\ OnTheSurface(parts, e, opening \cup closing)

Ready(parts, rule, e, opening, closing, open) ==
    (open = 0 /\ Undecided(rule, e)) \/ Decided(parts, e, opening, closing, open)

\* A rule begins with no bracket open.
LEMMA ReadyStart ==
    ASSUME NEW parts, NEW rules, NEW opening, NEW closing,
           Brackets(parts, rules, opening, closing), NEW rule \in rules
    PROVE  Ready(parts, rule, Grammar[rule], opening, closing, 0)
<1>1. \A e \in Alternatives(rule) : Decided(parts, e, opening, closing, 0)
  BY DEF Brackets, Decided
<1>2. CASE Len(Grammar[rule]) = 1 /\ Grammar[rule][1].k = "alt"
  BY <1>2 DEF Ready, Undecided
<1>3. CASE ~(Len(Grammar[rule]) = 1 /\ Grammar[rule][1].k = "alt")
  <2>1. Alternatives(rule) = {Grammar[rule]}
    BY <1>3 DEF Alternatives
  <2> QED
    BY <1>1, <2>1 DEF Ready
<1> QED
  BY <1>2, <1>3

\* It ends with no bracket open.
LEMMA ReadyEnd ==
    ASSUME NEW parts, NEW rule, NEW opening, NEW closing, NEW open,
           Ready(parts, rule, <<>>, opening, closing, open)
    PROVE  open = 0
<1>1. Len(<<>>) = 0
  OBVIOUS
<1>2. CASE InTurn(<<>>, opening, closing, open)
  <2>1. PICK s : s[1] = open /\ s[Len(<<>>) + 1] = 0
    BY <1>2 DEF InTurn
  <2> QED
    BY <1>1, <2>1
<1> QED
  BY <1>2 DEF Ready, Decided

\* An item is passed: a token, a call, or a block that is skipped.
LEMMA ReadyTail ==
    ASSUME NEW parts, NEW rule, NEW opening, NEW closing, NEW open,
           NEW e \in Seq(Items), e # <<>>, e[1].k # "alt",
           Ready(parts, rule, e, opening, closing, open)
    PROVE  /\ open \in 0 .. 1
           /\ open + Weight(e[1], opening, closing) \in 0 .. 1
           /\ Ready(parts, rule, Tail(e), opening, closing,
                    open + Weight(e[1], opening, closing))
<1>1. Decided(parts, e, opening, closing, open)
  BY DEF Ready, Undecided
<1>2. /\ open \in 0 .. 1
      /\ open + Weight(e[1], opening, closing) \in 0 .. 1
      /\ InTurn(Tail(e), opening, closing, open + Weight(e[1], opening, closing))
  BY <1>1, InTurnTail DEF Decided
<1>3. OnTheSurface(parts, Tail(e), opening \cup closing)
  <2>1. /\ Tail(e) \in Seq(Items) /\ Len(Tail(e)) = Len(e) - 1 /\ Len(e) \in Nat \ {0}
        /\ \A i \in 1 .. Len(e) - 1 : Tail(e)[i] = e[i + 1]
    BY TailItems
  <2>2. DOMAIN Tail(e) = 1 .. Len(e) - 1 /\ DOMAIN e = 1 .. Len(e)
    BY <2>1, LenProperties
  <2>3. \A i \in DOMAIN Tail(e) : i + 1 \in DOMAIN e /\ Tail(e)[i] = e[i + 1]
    BY <2>1, <2>2
  <2> QED
    BY <1>1, <2>3 DEF Decided, OnTheSurface
<1> QED
  BY <1>2, <1>3 DEF Ready, Decided

\* The blocks of an item of the sequence have no bracket.
LEMMA NoBracketInside ==
    ASSUME NEW parts, AreParts(parts), NEW words, NEW e \in Seq(Items), e # <<>>,
           OnTheSurface(parts, e, words), e[1].k # "tok",
           NEW n \in DOMAIN e[1].alts, e[1].alts[n] \in Seq(Items)
    PROVE  /\ OnTheSurface(parts, e[1].alts[n], words)
           /\ \A i \in DOMAIN e[1].alts[n] : ~Reads(e[1].alts[n][i], words)
<1> DEFINE b == e[1].alts[n]
<1>1. e[1] \in Items /\ 1 \in DOMAIN e
  BY TailItems, LenProperties
<1>2. \A it \in parts[e[1]] : ~Reads(it, words)
  BY <1>1 DEF OnTheSurface
<1>3. \A i \in DOMAIN b : b[i] \in parts[e[1]] /\ parts[b[i]] \subseteq parts[e[1]]
  BY <1>1 DEF AreParts
<1> QED
  BY <1>2, <1>3 DEF OnTheSurface

\* A block of the first item takes its place, or comes before it.
LEMMA DecidedBlock ==
    ASSUME NEW parts, AreParts(parts), NEW opening, NEW closing, NEW open,
           NEW e \in Seq(Items), e # <<>>, e[1].k # "tok",
           Decided(parts, e, opening, closing, open),
           NEW n \in DOMAIN e[1].alts, e[1].alts[n] \in Seq(Items),
           NEW t \in {e, Tail(e)}
    PROVE  Decided(parts, e[1].alts[n] \o t, opening, closing, open)
<1> DEFINE b == e[1].alts[n]
           words == opening \cup closing
<1>1. OnTheSurface(parts, b, words) /\ \A i \in DOMAIN b : ~Reads(b[i], words)
  BY NoBracketInside DEF Decided
<1>2. Weight(e[1], opening, closing) = 0
  BY DEF Weight, Reads
<1>3. Decided(parts, t, opening, closing, open) /\ t \in Seq(Items)
  <2>1. /\ open + Weight(e[1], opening, closing) \in 0 .. 1
        /\ open \in 0 .. 1
        /\ InTurn(Tail(e), opening, closing, open + Weight(e[1], opening, closing))
    BY InTurnTail DEF Decided
  <2>2. InTurn(Tail(e), opening, closing, open)
    BY <1>2, <2>1
  <2>3. /\ Tail(e) \in Seq(Items) /\ Len(Tail(e)) = Len(e) - 1 /\ Len(e) \in Nat \ {0}
        /\ \A i \in 1 .. Len(e) - 1 : Tail(e)[i] = e[i + 1]
    BY TailItems
  <2>4. DOMAIN Tail(e) = 1 .. Len(e) - 1 /\ DOMAIN e = 1 .. Len(e)
    BY <2>3, LenProperties
  <2>5. \A i \in DOMAIN Tail(e) : i + 1 \in DOMAIN e /\ Tail(e)[i] = e[i + 1]
    BY <2>3, <2>4
  <2>6. OnTheSurface(parts, Tail(e), words)
    BY <2>5 DEF Decided, OnTheSurface
  <2> QED
    BY <2>2, <2>3, <2>6 DEF Decided
<1>4. b \in Seq(Items) /\ DOMAIN b = 1 .. Len(b) /\ DOMAIN t = 1 .. Len(t)
  BY <1>3, LenProperties
<1> HIDE DEF b
<1>5. \A i \in 1 .. Len(b) : Weight(b[i], opening, closing) = 0
  BY <1>1, <1>4 DEF Weight, Reads
<1>6. InTurn(b \o t, opening, closing, open)
  BY <1>3, <1>4, <1>5, InTurnConcat DEF Decided
<1>7. OnTheSurface(parts, b \o t, words)
  <2>1. /\ b \o t \in Seq(Items) /\ Len(b) \in Nat /\ Len(t) \in Nat
        /\ Len(b \o t) = Len(b) + Len(t)
        /\ \A i \in 1 .. Len(b) + Len(t) :
              (b \o t)[i] = IF i <= Len(b) THEN b[i] ELSE t[i - Len(b)]
    BY <1>3, <1>4, ConcatItems
  <2>2. DOMAIN (b \o t) = 1 .. Len(b) + Len(t)
    BY <2>1, LenProperties
  <2>3. \A i \in DOMAIN (b \o t) :
           \/ i \in DOMAIN b /\ (b \o t)[i] = b[i]
           \/ i - Len(b) \in DOMAIN t /\ (b \o t)[i] = t[i - Len(b)]
    BY <1>4, <2>1, <2>2
  <2>4. OnTheSurface(parts, t, words)
    BY <1>3 DEF Decided
  <2> QED
    BY <1>1, <2>3, <2>4 DEF OnTheSurface
<1> QED
  BY <1>6, <1>7 DEF Decided, b

\* A block is entered, or an alternative chosen.
LEMMA ReadyBlock ==
    ASSUME NEW parts, AreParts(parts), NEW rules, NEW opening, NEW closing, NEW open,
           Brackets(parts, rules, opening, closing), NEW rule \in rules,
           NEW e \in Seq(Items), e # <<>>, e[1].k # "tok",
           Ready(parts, rule, e, opening, closing, open),
           NEW n \in DOMAIN e[1].alts, e[1].alts[n] \in Seq(Items),
           NEW t \in {e, Tail(e)}, e[1].k = "alt" => t = Tail(e)
    PROVE  Ready(parts, rule, e[1].alts[n] \o t, opening, closing, open)
<1>1. CASE Decided(parts, e, opening, closing, open)
  BY <1>1, DecidedBlock DEF Ready
<1>2. CASE open = 0 /\ Undecided(rule, e)
  <2> DEFINE b == e[1].alts[n]
  <2>1. e = Grammar[rule] /\ Len(e) = 1 /\ e[1].k = "alt"
    BY <1>2 DEF Undecided
  <2>2. b \in Alternatives(rule)
    BY <2>1 DEF Alternatives
  <2>3. Decided(parts, b, opening, closing, 0)
    BY <2>2 DEF Brackets, Decided
  <2>4. t = <<>>
    BY <2>1, TailLast
  <2>5. b \o t = b
    BY <2>4, ConcatEmptySeq
  <2> QED
    BY <1>2, <2>3, <2>5 DEF Ready
<1> QED
  BY <1>1, <1>2 DEF Ready

-----------------------------------------------------------------------------
(***************************************************************************)
(* What a step does to the items that the functions have still to match.   *)
(***************************************************************************)
\* The rule of the function in frame d.
RuleOf(d) == nodes[stack[d].node].rule

\* A decision makes f of e: a block is skipped, or entered and repeated.
Decides(e, f) ==
    /\ e # <<>>
    /\ e[1].k \in {"alt", "opt", "star"}
    /\ \/ e[1].k # "alt" /\ f = Tail(e)
       \/ \E n \in DOMAIN e[1].alts :
             /\ e[1].alts[n] \in Seq(Items)
             /\ f = e[1].alts[n] \o (IF e[1].k = "star" THEN e ELSE Tail(e))

\* The three kinds of decision.
LEMMA DecisionStep ==
    ASSUME TypeOK, Choose \/ EnterOptional \/ Iterate
    PROVE  /\ stack # <<>>
           /\ UNCHANGED <<input, pos, ctx, nodes, owner, status>>
           /\ \E f \in Seq(Items) : Decides(Top.rest, f) /\ Continue(f)
<1>1. ASSUME NEW kind, At(kind)
      PROVE  /\ stack # <<>> /\ Top.rest # <<>> /\ Top.rest \in Seq(Items)
             /\ Expected = Top.rest[1] /\ Expected.k = kind
             /\ Tail(Top.rest) \in Seq(Items)
             /\ \A n \in DOMAIN Expected.alts : Expected.alts[n] \in Seq(Items)
             /\ kind \in {"opt", "star"} => 1 \in DOMAIN Expected.alts
  <2>1. stack # <<>> /\ Top.rest # <<>> /\ Top.rest \in Seq(Items) /\ Expected.k = kind
    BY <1>1, TopType DEF At
  <2>2. Expected = Top.rest[1]
    BY <2>1, TailItems DEF Expected
  <2>3. Expected \in Items
    BY <1>1, ExpectedType
  <2>4. kind \in {"opt", "star"} => 1 \in DOMAIN Expected.alts
    <3>1. Expected.alts \in Seq(Seq(Items)) /\ (kind \in {"opt", "star"} => Len(Expected.alts) = 1)
      BY <2>1, <2>3, ItemsAssumption
    <3>2. DOMAIN Expected.alts = 1 .. Len(Expected.alts)
      BY <3>1, LenProperties
    <3> QED
      BY <3>1, <3>2
  <2> QED
    BY <1>1, <2>1, <2>2, <2>4, ExpectedType
<1>2. CASE Choose
  <2>1. At("alt") /\ UNCHANGED <<input, pos, ctx, nodes, owner, status>>
    BY <1>2 DEF Choose
  <2>2. PICK n \in DOMAIN Expected.alts : Continue(Expected.alts[n] \o Tail(Top.rest))
    BY <1>2 DEF Choose
  <2>3. Expected.alts[n] \o Tail(Top.rest) \in Seq(Items)
    BY <1>1, <2>1, ConcatProperties
  <2>4. Decides(Top.rest, Expected.alts[n] \o Tail(Top.rest))
    <3>1. /\ Top.rest # <<>> /\ Expected = Top.rest[1] /\ Expected.k = "alt"
          /\ Expected.alts[n] \in Seq(Items)
      BY <1>1, <2>1
    <3> QED
      BY <3>1 DEF Decides
  <2> QED
    BY <1>1, <2>1, <2>2, <2>3, <2>4
<1>3. CASE EnterOptional
  <2>1. At("opt") /\ UNCHANGED <<input, pos, ctx, nodes, owner, status>>
    BY <1>3 DEF EnterOptional
  <2>0. /\ Top.rest # <<>> /\ Expected = Top.rest[1] /\ Expected.k = "opt"
        /\ 1 \in DOMAIN Expected.alts /\ Expected.alts[1] \in Seq(Items)
    BY <1>1, <2>1
  <2>2. CASE Continue(Block \o Tail(Top.rest))
    <3>1. Decides(Top.rest, Block \o Tail(Top.rest))
      BY <2>0 DEF Decides, Block
    <3>2. Block \o Tail(Top.rest) \in Seq(Items)
      BY <1>1, <2>1, ConcatProperties DEF Block
    <3> QED
      BY <1>1, <2>1, <2>2, <3>1, <3>2
  <2>3. CASE Continue(Tail(Top.rest))
    <3>1. Decides(Top.rest, Tail(Top.rest))
      BY <2>0 DEF Decides
    <3> QED
      BY <1>1, <2>1, <2>3, <3>1
  <2> QED
    BY <1>3, <2>2, <2>3 DEF EnterOptional
<1>4. CASE Iterate
  <2>1. At("star") /\ UNCHANGED <<input, pos, ctx, nodes, owner, status>>
    BY <1>4 DEF Iterate
  <2>2. CASE Continue(Block \o Top.rest)
    <3>1. Decides(Top.rest, Block \o Top.rest)
      BY <1>1, <2>1 DEF Decides, Block
    <3>2. Block \o Top.rest \in Seq(Items)
      BY <1>1, <2>1, ConcatProperties DEF Block
    <3> QED
      BY <1>1, <2>1, <2>2, <3>1, <3>2
  <2>3. CASE Continue(Tail(Top.rest))
    <3>1. Decides(Top.rest, Tail(Top.rest))
      BY <1>1, <2>1 DEF Decides
    <3> QED
      BY <1>1, <2>1, <2>3, <3>1
  <2> QED
    BY <1>4, <2>2, <2>3 DEF Iterate
<1> QED
  BY <1>2, <1>3, <1>4

(***************************************************************************)
(* A family of sequences, S[rule] for every rule, that the steps of the    *)
(* functions do not leave.                                                 *)
(***************************************************************************)
ClosedUnderSteps(S) ==
    \A rule \in DOMAIN Grammar :
        /\ Grammar[rule] \in S[rule]
        /\ \A e \in Seq(Items) : e \in S[rule] /\ e # <<>> =>
              /\ e[1].k \in {"tok", "rule"} => Tail(e) \in S[rule]
              /\ \A f \in Seq(Items) : Decides(e, f) => f \in S[rule]

RestsIn(S) == \A d \in DOMAIN stack : stack[d].rest \in S[RuleOf(d)]

\* No step changes the rule of a node.
LEMMA RulesKept ==
    ASSUME TreeInv, [Next]_vars
    PROVE  \A n \in DOMAIN nodes : n \in DOMAIN nodes' /\ nodes'[n].rule = nodes[n].rule
BY StepGrows DEF Grows

\* Every frame is that of a node, and the node of a rule.
LEMMA FrameTypes ==
    ASSUME TypeOK
    PROVE  /\ Len(stack) \in Nat
           /\ DOMAIN stack = 1 .. Len(stack)
           /\ \A d \in 1 .. Len(stack) :
                 /\ stack[d].node \in DOMAIN nodes
                 /\ stack[d].rest \in Seq(Items)
                 /\ RuleOf(d) \in DOMAIN Grammar
<1>1. /\ Len(stack) \in Nat /\ DOMAIN stack = 1 .. Len(stack)
      /\ \A d \in 1 .. Len(stack) : stack[d] \in FrameSet
  BY StackType
<1>2. DOMAIN nodes = 1 .. Len(nodes) /\ \A n \in DOMAIN nodes : nodes[n] \in NodeSet
  BY NodeTypes
<1>3. \A d \in 1 .. Len(stack) : stack[d].node \in DOMAIN nodes /\ stack[d].rest \in Seq(Items)
  BY <1>1, <1>2 DEF FrameSet
<1>4. \A n \in DOMAIN nodes : nodes[n].rule \in DOMAIN Grammar
  BY <1>2 DEF NodeSet
<1> QED
  BY <1>1, <1>3, <1>4 DEF RuleOf

\* A token is matched: what is left, and what has been matched.
LEMMA MatchStep ==
    ASSUME TypeOK, Match
    PROVE  /\ stack # <<>> /\ Top.rest # <<>> /\ Top.rest \in Seq(Items)
           /\ Top.rest[1].k = "tok" /\ input[pos] \in Top.rest[1].set
           /\ Tail(Top.rest) \in Seq(Items) /\ Continue(Tail(Top.rest))
           /\ owner' = Append(owner, ctx) /\ pos' = pos + 1
           /\ UNCHANGED <<input, ctx, nodes, status>>
<1>1. /\ At("tok") /\ input[pos] \in Expected.set /\ Continue(Tail(Top.rest))
      /\ owner' = Append(owner, ctx) /\ pos' = pos + 1
      /\ UNCHANGED <<input, ctx, nodes, status>>
  BY DEF Match
<1>2. stack # <<>> /\ Top.rest # <<>> /\ Top.rest \in Seq(Items) /\ Expected.k = "tok"
  BY <1>1, TopType DEF At
<1>3. Expected = Top.rest[1] /\ Tail(Top.rest) \in Seq(Items)
  BY <1>2, TailItems DEF Expected
<1> QED
  BY <1>1, <1>2, <1>3

\* A function is called: the caller moves past the reference, the new function
\* begins.
LEMMA EnterStep ==
    ASSUME TypeOK, EnterRule
    PROVE  /\ stack # <<>> /\ Top.rest # <<>> /\ Top.rest \in Seq(Items)
           /\ Top.rest[1].k = "rule" /\ Tail(Top.rest) \in Seq(Items)
           /\ Expected.sym \in DOMAIN Grammar
           /\ Len(stack') = Len(stack) + 1
           /\ \A d \in 1 .. Len(stack) - 1 : stack'[d] = stack[d]
           /\ stack'[Len(stack)].node = Top.node
           /\ stack'[Len(stack)].rest = Tail(Top.rest)
           /\ stack'[Len(stack) + 1].node = Len(nodes) + 1
           /\ stack'[Len(stack) + 1].rest = Grammar[Expected.sym]
           /\ nodes'[Len(nodes) + 1].rule = Expected.sym
           /\ UNCHANGED <<input, pos, owner, status>>
<1>1. /\ At("rule") /\ UNCHANGED <<input, pos, owner, status>>
      /\ Enter(Expected.sym, Append(Callers, Frame(Top.node, Tail(Top.rest))))
  BY DEF EnterRule
<1>2. stack # <<>> /\ Top.rest # <<>> /\ Top.rest \in Seq(Items) /\ Expected.k = "rule"
  BY <1>1, TopType DEF At
<1>3. Expected = Top.rest[1] /\ Tail(Top.rest) \in Seq(Items)
  BY <1>2, TailItems DEF Expected
<1>4. Expected.sym \in DOMAIN Grammar
  BY <1>1, EnterCallers
<1>5. /\ Len(stack') = Len(stack) + 1
      /\ \A d \in 1 .. Len(stack) - 1 : stack'[d] = stack[d]
      /\ stack'[Len(stack)] = Frame(Top.node, Tail(Top.rest))
      /\ stack'[Len(stack) + 1] = Frame(Len(nodes) + 1, Grammar[Expected.sym])
  BY EnterFrames
<1>6. /\ stack'[Len(stack)].node = Top.node
      /\ stack'[Len(stack)].rest = Tail(Top.rest)
      /\ stack'[Len(stack) + 1].node = Len(nodes) + 1
      /\ stack'[Len(stack) + 1].rest = Grammar[Expected.sym]
  BY <1>5 DEF Frame
<1>7. nodes'[Len(nodes) + 1].rule = Expected.sym
  <2>1. PICK sym : sym = Expected.sym
    OBVIOUS
  <2>2. PICK callers : Enter(sym, callers)
    BY <1>1, <2>1
  <2>3. nodes'[Len(nodes) + 1] = Node(sym, ctx, pos)
    BY <1>4, <2>1, <2>2, EnterNodes
  <2> QED
    BY <2>1, <2>3 DEF Node
<1> QED
  BY <1>1, <1>2, <1>3, <1>4, <1>5, <1>6, <1>7

\* The start rule is called on an empty stack.
LEMMA CallStep ==
    ASSUME TreeInv, Call
    PROVE  /\ stack = <<>> /\ nodes = <<>> /\ owner = <<>> /\ pos = 1
           /\ Len(stack') = 1 /\ stack'[1].rest = Grammar[StartRule] /\ stack'[1].node = 1
           /\ nodes'[1].rule = StartRule
           /\ UNCHANGED <<input, pos, owner>>
<1>1. /\ stack = <<>> /\ nodes = <<>> /\ owner = <<>> /\ pos = 1
      /\ Enter(StartRule, <<>>) /\ UNCHANGED <<input, pos, owner>>
  BY DEF Call, TreeInv, Bookkeeping
<1>2. /\ nodes' = <<Node(StartRule, ctx, pos)>>
      /\ stack' = <<Frame(1, Grammar[StartRule])>>
  <2>1. Len(nodes) = 0
    BY <1>1
  <2> QED
    BY <1>1, <2>1 DEF Enter
<1>3. /\ Len(stack') = 1 /\ stack'[1] = Frame(1, Grammar[StartRule])
      /\ nodes'[1] = Node(StartRule, ctx, pos)
  BY SMTT(60), <1>2
<1> QED
  BY <1>1, <1>3 DEF Frame, Node

\* A step of the active function replaces what the top frame has to match.
LEMMA TopStep ==
    ASSUME TypeOK, stack # <<>>, NEW f \in Seq(Items), Continue(f),
           \A n \in DOMAIN nodes : nodes'[n].rule = nodes[n].rule
    PROVE  /\ Len(stack) \in Nat \ {0} /\ Len(stack') = Len(stack)
           /\ DOMAIN stack = 1 .. Len(stack) /\ DOMAIN stack' = 1 .. Len(stack)
           /\ Top = stack[Len(stack)]
           /\ stack'[Len(stack)].rest = f
           /\ \A d \in 1 .. Len(stack) :
                 /\ stack'[d].node = stack[d].node
                 /\ RuleOf(d)' = RuleOf(d)
                 /\ d # Len(stack) => stack'[d].rest = stack[d].rest
<1>1. /\ Len(stack) \in Nat \ {0} /\ Len(stack') = Len(stack)
      /\ DOMAIN stack = 1 .. Len(stack) /\ DOMAIN stack' = 1 .. Len(stack)
      /\ \A d \in 1 .. Len(stack) :
            /\ stack'[d].node = stack[d].node
            /\ d # Len(stack) => stack'[d] = stack[d]
      /\ stack'[Len(stack)].rest = f
  BY ContinueTop
<1>2. \A d \in 1 .. Len(stack) : stack[d].node \in DOMAIN nodes
  BY SMTT(60), FrameTypes
<1>3. \A d \in 1 .. Len(stack) : RuleOf(d)' = RuleOf(d)
  BY <1>1, <1>2 DEF RuleOf
<1> QED
  BY <1>1, <1>3 DEF Top

\* Every step stays in such a family.
LEMMA StepKeepsRests ==
    ASSUME TreeInv, [Next]_vars, NEW S, ClosedUnderSteps(S), RestsIn(S)
    PROVE  RestsIn(S)'
<1> DEFINE L == Len(stack)
<1>1. TypeOK /\ \A n \in DOMAIN nodes : n \in DOMAIN nodes' /\ nodes'[n].rule = nodes[n].rule
  BY RulesKept DEF TreeInv
<1>2. TypeOK'
  BY StepKeepsTree DEF TreeInv
<1>3. /\ L \in Nat /\ DOMAIN stack = 1 .. L
      /\ \A d \in 1 .. L :
            /\ stack[d].node \in DOMAIN nodes /\ stack[d].rest \in Seq(Items)
            /\ RuleOf(d) \in DOMAIN Grammar
            /\ stack[d].rest \in S[RuleOf(d)]
  BY <1>1, FrameTypes DEF RestsIn
<1>4. Len(stack') \in Nat /\ DOMAIN stack' = 1 .. Len(stack')
  BY <1>2, FrameTypes
<1>5. ASSUME stack # <<>>
      PROVE  L \in Nat \ {0} /\ L \in 1 .. L /\ Top = stack[L]
  BY SMTT(60), <1>1, <1>5, TopType DEF Top
<1>6. ASSUME stack # <<>>, NEW f \in Seq(Items), Continue(f), f \in S[RuleOf(L)]
      PROVE  RestsIn(S)'
  <2>1. /\ L \in Nat \ {0} /\ Len(stack') = L
        /\ stack'[L].rest = f
        /\ \A d \in 1 .. L :
              RuleOf(d)' = RuleOf(d) /\ (d # L => stack'[d].rest = stack[d].rest)
    BY <1>1, <1>6, TopStep
  <2>2. ASSUME NEW d \in 1 .. L PROVE stack'[d].rest \in S[RuleOf(d)']
    <3>1. CASE d = L
      BY SMTT(60), <1>6, <2>1, <3>1
    <3>2. CASE d # L
      BY <1>3, <2>1, <3>2
    <3> QED
      BY <3>1, <3>2
  <2> QED
    BY <1>4, <2>1, <2>2 DEF RestsIn
<1>7. CASE Call
  <2>1. Len(stack') = 1 /\ stack'[1].rest = Grammar[StartRule] /\ RuleOf(1)' = StartRule
    BY <1>7, CallStep DEF RuleOf
  <2>2. Grammar[StartRule] \in S[StartRule]
    BY GrammarAssumption DEF ClosedUnderSteps
  <2>3. \A d \in 1 .. 1 : d = 1
    OBVIOUS
  <2> QED
    BY <1>4, <2>1, <2>2, <2>3 DEF RestsIn
<1>8. CASE Match
  <2>1. /\ stack # <<>> /\ Top.rest # <<>> /\ Top.rest \in Seq(Items) /\ Top.rest[1].k = "tok"
        /\ Tail(Top.rest) \in Seq(Items) /\ Continue(Tail(Top.rest))
    BY <1>1, <1>8, MatchStep
  <2>2. Tail(Top.rest) \in S[RuleOf(L)]
    BY <1>3, <1>5, <2>1 DEF ClosedUnderSteps
  <2> QED
    BY <1>6, <2>1, <2>2
<1>9. CASE Choose \/ EnterOptional \/ Iterate
  <2>1. stack # <<>>
    BY <1>1, <1>9, DecisionStep
  <2>2. PICK f \in Seq(Items) : Decides(Top.rest, f) /\ Continue(f)
    BY <1>1, <1>9, DecisionStep
  <2>3. f \in S[RuleOf(L)]
    <3>1. Top.rest # <<>>
      BY <2>2 DEF Decides
    <3> QED
      BY <1>3, <1>5, <2>1, <2>2, <3>1 DEF ClosedUnderSteps
  <2> QED
    BY <1>6, <2>1, <2>2, <2>3
<1>10. CASE EnterRule
  <2>1. /\ stack # <<>> /\ Top.rest # <<>> /\ Top.rest[1].k = "rule"
        /\ Tail(Top.rest) \in Seq(Items) /\ Expected.sym \in DOMAIN Grammar
        /\ Len(stack') = L + 1
        /\ \A d \in 1 .. L - 1 : stack'[d] = stack[d]
        /\ stack'[L].node = Top.node /\ stack'[L].rest = Tail(Top.rest)
        /\ stack'[L + 1].node = Len(nodes) + 1
        /\ stack'[L + 1].rest = Grammar[Expected.sym]
        /\ nodes'[Len(nodes) + 1].rule = Expected.sym
    BY <1>1, <1>10, EnterStep
  <2>2. Tail(Top.rest) \in S[RuleOf(L)]
    BY <1>3, <1>5, <2>1 DEF ClosedUnderSteps
  <2>3. \A d \in 1 .. L : RuleOf(d)' = RuleOf(d)
    <3>1. \A d \in 1 .. L : stack'[d].node = stack[d].node
      BY <1>5, <2>1
    <3> QED
      BY <1>1, <1>3, <3>1 DEF RuleOf
  <2>4. ASSUME NEW d \in 1 .. L + 1 PROVE stack'[d].rest \in S[RuleOf(d)']
    <3>1. CASE d \in 1 .. L - 1
      <4>1. d \in 1 .. L
        BY <1>3, <3>1
      <4> QED
        BY <1>3, <2>1, <2>3, <3>1, <4>1
    <3>2. CASE d = L
      BY <1>5, <2>1, <2>2, <2>3, <3>2
    <3>3. CASE d = L + 1
      <4>1. RuleOf(d)' = Expected.sym
        BY <2>1, <3>3 DEF RuleOf
      <4> QED
        BY <2>1, <3>3, <4>1 DEF ClosedUnderSteps
    <3>4. L \in Nat
      BY <1>3
    <3>5. d \in 1 .. L - 1 \/ d = L \/ d = L + 1
      BY <3>4
    <3> QED
      BY <3>1, <3>2, <3>3, <3>5
  <2> QED
    BY <1>4, <2>1, <2>4 DEF RestsIn
<1>11. CASE ExitRule
  <2>1. stack # <<>> /\ Len(stack') = L - 1 /\ \A d \in 1 .. L - 1 : stack'[d] = stack[d]
    BY <1>1, <1>11, ExitFrames
  <2>2. \A d \in 1 .. L - 1 : d \in 1 .. L
    BY <1>3
  <2>3. \A d \in 1 .. L - 1 : RuleOf(d)' = RuleOf(d)
    BY <1>1, <1>3, <2>1, <2>2 DEF RuleOf
  <2> QED
    BY <1>3, <1>4, <2>1, <2>2, <2>3 DEF RestsIn
<1>12. CASE SyntaxError \/ Keep \/ UNCHANGED vars
  <2>1. UNCHANGED <<stack, nodes>>
    BY <1>12 DEF SyntaxError, Keep, vars
  <2> QED
    BY <1>3, <1>4, <2>1 DEF RestsIn, RuleOf
<1> QED
  BY <1>7, <1>8, <1>9, <1>10, <1>11, <1>12 DEF Next, Step

-----------------------------------------------------------------------------
(***************************************************************************)
(* The brackets that functions of the rules have matched.                  *)
(***************************************************************************)
BracketsAt(rules, words) == {p \in DOMAIN owner : input[p] \in words /\ RuleAt(p) \in rules}

\* The tokens that have been matched, and whose they are.
LEMMA OwnerTypes ==
    ASSUME TreeInv
    PROVE  /\ pos \in Nat \ {0} /\ Len(owner) = pos - 1
           /\ DOMAIN owner = 1 .. pos - 1
           /\ \A p \in 1 .. pos - 1 : owner[p] \in DOMAIN nodes
<1>1. pos \in Nat \ {0} /\ Len(owner) = pos - 1
  BY PosType DEF TreeInv, TokensHangInnermost
<1>2. owner \in Seq(1 .. Len(nodes)) /\ DOMAIN nodes = 1 .. Len(nodes)
  BY NodeTypes DEF TreeInv, TypeOK
<1>3. DOMAIN owner = 1 .. pos - 1 /\ \A p \in 1 .. Len(owner) : owner[p] \in 1 .. Len(nodes)
  BY <1>1, <1>2, LenProperties, ElementOfSeq
<1> QED
  BY <1>1, <1>2, <1>3

\* A step that matches no token changes no bracket.
LEMMA BracketsStay ==
    ASSUME TreeInv, [Next]_vars, UNCHANGED <<input, owner>>, NEW rules, NEW words
    PROVE  BracketsAt(rules, words)' = BracketsAt(rules, words)
<1>1. \A p \in DOMAIN owner : RuleAt(p)' = RuleAt(p)
  BY OwnerTypes, RulesKept DEF RuleAt
<1> QED
  BY <1>1 DEF BracketsAt

\* A token that is matched is attached to the active function's node.
LEMMA MatchedToken ==
    ASSUME TreeInv, Match
    PROVE  /\ DOMAIN owner' = 1 .. pos
           /\ owner'[pos] = Top.node /\ \A p \in 1 .. pos - 1 : owner'[p] = owner[p]
           /\ \A p \in 1 .. pos :
                 RuleAt(p)' = IF p = pos THEN RuleOf(Len(stack)) ELSE RuleAt(p)
<1>1. TypeOK /\ stack # <<>> /\ owner' = Append(owner, ctx) /\ UNCHANGED nodes
  BY MatchStep DEF TreeInv
<1>2. ctx = Top.node /\ ctx \in 1 .. Len(nodes) /\ Top = stack[Len(stack)]
  BY <1>1, TopType DEF TreeInv, ContextFollowsCalls, Top
<1>3. owner \in Seq(1 .. Len(nodes)) /\ Len(owner) = pos - 1 /\ pos \in Nat \ {0}
  BY OwnerTypes DEF TreeInv, TypeOK
<1>4. /\ owner' \in Seq(1 .. Len(nodes)) /\ Len(owner') = Len(owner) + 1
      /\ \A p \in 1 .. Len(owner) : owner'[p] = owner[p]
      /\ owner'[Len(owner) + 1] = ctx
  BY <1>1, <1>2, <1>3, AppendProperties
<1>5. Len(owner) + 1 = pos
  BY <1>3
<1>6. DOMAIN owner' = 1 .. pos
  BY <1>4, <1>5, LenProperties
<1>7. owner'[pos] = Top.node /\ \A p \in 1 .. pos - 1 : owner'[p] = owner[p]
  BY <1>2, <1>3, <1>4, <1>5
<1>8. ASSUME NEW p \in 1 .. pos
      PROVE  RuleAt(p)' = IF p = pos THEN RuleOf(Len(stack)) ELSE RuleAt(p)
  <2>1. CASE p = pos
    BY <1>1, <1>2, <1>7, <2>1 DEF RuleAt, RuleOf
  <2>2. CASE p # pos
    <3>1. p \in 1 .. pos - 1
      BY <1>3, <2>2
    <3> QED
      BY <1>1, <1>7, <2>2, <3>1 DEF RuleAt
  <2> QED
    BY <2>1, <2>2
<1> QED
  BY <1>6, <1>7, <1>8

\* It may be one more bracket.
LEMMA BracketsMatch ==
    ASSUME TreeInv, Match, NEW rules, NEW words
    PROVE  /\ BracketsAt(rules, words) \subseteq 1 .. pos - 1
           /\ BracketsAt(rules, words)' = BracketsAt(rules, words) \cup
                 (IF input[pos] \in words /\ RuleOf(Len(stack)) \in rules THEN {pos} ELSE {})
<1>1. /\ DOMAIN owner' = 1 .. pos /\ DOMAIN owner = 1 .. pos - 1 /\ pos \in Nat \ {0}
      /\ \A p \in 1 .. pos :
            RuleAt(p)' = IF p = pos THEN RuleOf(Len(stack)) ELSE RuleAt(p)
      /\ input' = input
  BY OwnerTypes, MatchedToken DEF Match
<1>2. BracketsAt(rules, words) \subseteq 1 .. pos - 1
  BY <1>1 DEF BracketsAt
<1>3. ASSUME NEW p
      PROVE  p \in BracketsAt(rules, words)' <=>
                p \in BracketsAt(rules, words) \cup
                   (IF input[pos] \in words /\ RuleOf(Len(stack)) \in rules THEN {pos} ELSE {})
  <2>1. p \in BracketsAt(rules, words)' <=>
           p \in 1 .. pos /\ input[p] \in words /\ RuleAt(p)' \in rules
    BY <1>1 DEF BracketsAt
  <2>2. CASE p = pos
    <3>1. p \in 1 .. pos /\ p \notin BracketsAt(rules, words)
      BY <1>1, <1>2, <2>2
    <3> QED
      BY <1>1, <2>1, <2>2, <3>1
  <2>3. CASE p # pos
    <3>1. p \in 1 .. pos <=> p \in 1 .. pos - 1
      BY <1>1, <2>3
    <3>2. p \in BracketsAt(rules, words) <=>
             p \in 1 .. pos - 1 /\ input[p] \in words /\ RuleAt(p) \in rules
      BY <1>1 DEF BracketsAt
    <3> QED
      BY <1>1, <2>1, <2>3, <3>1, <3>2
  <2> QED
    BY <2>2, <2>3
<1>4. BracketsAt(rules, words)' = BracketsAt(rules, words) \cup
         (IF input[pos] \in words /\ RuleOf(Len(stack)) \in rules THEN {pos} ELSE {})
  BY <1>3
<1> QED
  BY <1>2, <1>4

\* Brackets behind a stretch do not count in it.
LEMMA SameBalance ==
    ASSUME NEW n \in Int, NEW opens, NEW closes, NEW opens1, NEW closes1,
           opens1 \cap 1 .. n = opens \cap 1 .. n,
           closes1 \cap 1 .. n = closes \cap 1 .. n,
           NEW a \in Nat \ {0}, NEW b \in Int, b <= n
    PROVE  /\ Balance(opens1, closes1, a, b) = Balance(opens, closes, a, b)
           /\ (Flat(opens1, closes1, a, b) <=> Flat(opens, closes, a, b))
<1>1. ASSUME NEW q \in Nat \ {0}
      PROVE  Balance(opens1, closes1, q, b) = Balance(opens, closes, q, b)
  <2>1. q .. b \subseteq 1 .. n
    OBVIOUS
  <2>2. opens1 \cap q .. b = opens \cap q .. b /\ closes1 \cap q .. b = closes \cap q .. b
    BY <2>1
  <2> QED
    BY <2>2 DEF Balance
<1>2. \A r \in a .. b : r \in Nat \ {0}
  OBVIOUS
<1>3. Balance(opens1, closes1, a, b) = Balance(opens, closes, a, b)
  BY <1>1
<1>4. \A r \in a .. b : Balance(opens1, closes1, r, b) = Balance(opens, closes, r, b)
  BY <1>1, <1>2
<1> QED
  BY <1>3, <1>4 DEF Flat

-----------------------------------------------------------------------------
(***************************************************************************)
(* The brackets that are open while the parse goes on.  A function has at  *)
(* most one bracket of its own open.  m[d] is the position behind the last *)
(* bracket that the functions of the frames up to d have open, or 1: the   *)
(* function in frame d has a bracket open iff m[d] differs from m[d - 1],  *)
(* and whatever else stands between open brackets is closed.               *)
(***************************************************************************)
Hanging(opens, closes, m) ==
    /\ m \in [0 .. Len(stack) -> 1 .. pos]
    /\ m[0] = 1
    /\ Flat(opens, closes, m[Len(stack)], pos - 1)
    /\ \A d \in 0 .. Len(stack) : Balance(opens, closes, 1, m[d] - 1) >= 0
    /\ \A d \in 1 .. Len(stack) : m[d - 1] # m[d] =>
          /\ m[d - 1] < m[d]
          /\ m[d] - 1 \in opens
          /\ owner[m[d] - 1] = stack[d].node
          /\ Flat(opens, closes, m[d - 1], m[d] - 2)

\* How many brackets of its own the function in frame d has open.
OwnOpen(m, d) == IF m[d - 1] = m[d] THEN 0 ELSE 1

(***************************************************************************)
(* What every function has still to match goes on from the brackets it has *)
(* open; the functions of other rules have none.                           *)
(***************************************************************************)
InTune(parts, rules, opening, closing, m) ==
    \A d \in 1 .. Len(stack) :
        IF RuleOf(d) \in rules
        THEN Ready(parts, RuleOf(d), stack[d].rest, opening, closing, OwnOpen(m, d))
        ELSE OwnOpen(m, d) = 0

\* The bracket that the one at p closes, as Partner finds it.
Matched(opens, closes, p) ==
    /\ Balance(opens, closes, 1, p) >= 0
    /\ \E u \in opens :
          /\ u \in 1 .. p - 1
          /\ owner[u] = owner[p]
          /\ Balance(opens, closes, u, p) = 0
          /\ \A r \in u + 1 .. p : Balance(opens, closes, r, p) < 0

\* The active function takes a step without a token.
LEMMA HangingSame ==
    ASSUME NEW opens, NEW closes, NEW m, Hanging(opens, closes, m),
           Len(stack') = Len(stack),
           \A d \in 1 .. Len(stack) : stack'[d].node = stack[d].node,
           UNCHANGED <<pos, owner>>
    PROVE  Hanging(opens, closes, m)'
BY DEF Hanging

\* A function begins, with no bracket open.
LEMMA HangingEnter ==
    ASSUME NEW opens, NEW closes, NEW m, Hanging(opens, closes, m),
           Len(stack) \in Nat,
           Len(stack') = Len(stack) + 1,
           \A d \in 1 .. Len(stack) : stack'[d].node = stack[d].node,
           UNCHANGED <<pos, owner>>
    PROVE  \E m1 :
              /\ Hanging(opens, closes, m1)'
              /\ \A d \in 1 .. Len(stack) : OwnOpen(m1, d) = OwnOpen(m, d)
              /\ OwnOpen(m1, Len(stack) + 1) = 0
<1> PICK l \in Nat : l = Len(stack)
  OBVIOUS
<1> DEFINE m1 == [d \in 0 .. l + 1 |-> IF d = l + 1 THEN m[l] ELSE m[d]]
<1>1. /\ m \in [0 .. l -> 1 .. pos] /\ m[0] = 1
      /\ Flat(opens, closes, m[l], pos - 1)
      /\ \A d \in 0 .. l : Balance(opens, closes, 1, m[d] - 1) >= 0
      /\ \A d \in 1 .. l : m[d - 1] # m[d] =>
            /\ m[d - 1] < m[d] /\ m[d] - 1 \in opens /\ owner[m[d] - 1] = stack[d].node
            /\ Flat(opens, closes, m[d - 1], m[d] - 2)
  BY DEF Hanging
<1>2. /\ m1 \in [0 .. l + 1 -> 1 .. pos]
      /\ m1[l + 1] = m[l] /\ \A d \in 0 .. l : m1[d] = m[d]
  BY <1>1
<1> HIDE DEF m1
<1>3. \A d \in 1 .. l : m1[d] = m[d] /\ m1[d - 1] = m[d - 1]
  BY <1>2
<1>4. m1[(l + 1) - 1] = m1[l + 1] /\ m1[0] = 1
  BY <1>1, <1>2
<1>5. \A d \in 0 .. l + 1 : Balance(opens, closes, 1, m1[d] - 1) >= 0
  BY <1>1, <1>2
<1>6. \A d \in 1 .. l + 1 : m1[d - 1] # m1[d] => d \in 1 .. l
  BY <1>4
<1>7. \A d \in 1 .. l + 1 : m1[d - 1] # m1[d] =>
         /\ m1[d - 1] < m1[d] /\ m1[d] - 1 \in opens /\ owner[m1[d] - 1] = stack'[d].node
         /\ Flat(opens, closes, m1[d - 1], m1[d] - 2)
  BY <1>1, <1>3, <1>6
<1>8. Hanging(opens, closes, m1)'
  BY <1>1, <1>2, <1>4, <1>5, <1>7 DEF Hanging
<1>9. /\ \A d \in 1 .. l : OwnOpen(m1, d) = OwnOpen(m, d)
      /\ OwnOpen(m1, l + 1) = 0
  BY <1>3, <1>4 DEF OwnOpen
<1> QED
  BY <1>8, <1>9

\* A function ends that has no bracket open.
LEMMA HangingExit ==
    ASSUME NEW opens, NEW closes, NEW m, Hanging(opens, closes, m),
           Len(stack) \in Nat \ {0},
           Len(stack') = Len(stack) - 1,
           \A d \in 1 .. Len(stack) - 1 : stack'[d].node = stack[d].node,
           OwnOpen(m, Len(stack)) = 0,
           UNCHANGED <<pos, owner>>
    PROVE  \E m1 :
              /\ Hanging(opens, closes, m1)'
              /\ \A d \in 1 .. Len(stack) - 1 : OwnOpen(m1, d) = OwnOpen(m, d)
<1> PICK l \in Nat : l + 1 = Len(stack)
  <2>1. Len(stack) - 1 \in Nat /\ (Len(stack) - 1) + 1 = Len(stack)
    OBVIOUS
  <2> QED
    BY <2>1
<1> DEFINE m1 == [d \in 0 .. l |-> m[d]]
<1>1. /\ m \in [0 .. l + 1 -> 1 .. pos] /\ m[0] = 1
      /\ Flat(opens, closes, m[l + 1], pos - 1)
      /\ \A d \in 0 .. l + 1 : Balance(opens, closes, 1, m[d] - 1) >= 0
      /\ \A d \in 1 .. l + 1 : m[d - 1] # m[d] =>
            /\ m[d - 1] < m[d] /\ m[d] - 1 \in opens /\ owner[m[d] - 1] = stack[d].node
            /\ Flat(opens, closes, m[d - 1], m[d] - 2)
  BY DEF Hanging
<1>2. Len(stack') = l /\ Len(stack) - 1 = l
  OBVIOUS
<1>3. m[l] = m[l + 1]
  <2>1. (l + 1) - 1 = l
    OBVIOUS
  <2> QED
    BY <2>1 DEF OwnOpen
<1>4. m1 \in [0 .. l -> 1 .. pos] /\ \A d \in 0 .. l : m1[d] = m[d]
  BY SMTT(60), <1>1
<1> HIDE DEF m1
<1>5. \A d \in 1 .. l : m1[d] = m[d] /\ m1[d - 1] = m[d - 1] /\ d \in 1 .. l + 1
  BY <1>4
<1>6. m1[0] = 1 /\ m1[l] = m[l + 1]
  BY <1>1, <1>3, <1>4
<1>7. \A d \in 0 .. l : Balance(opens, closes, 1, m1[d] - 1) >= 0
  <2>1. \A d \in 0 .. l : d \in 0 .. l + 1
    OBVIOUS
  <2> QED
    BY <1>1, <1>4, <2>1
<1>8. \A d \in 1 .. l : m1[d - 1] # m1[d] =>
         /\ m1[d - 1] < m1[d] /\ m1[d] - 1 \in opens /\ owner[m1[d] - 1] = stack'[d].node
         /\ Flat(opens, closes, m1[d - 1], m1[d] - 2)
  BY ZenonT(60), <1>1, <1>2, <1>5
<1>9. Hanging(opens, closes, m1)'
  BY <1>1, <1>2, <1>4, <1>6, <1>7, <1>8 DEF Hanging
<1>10. \A d \in 1 .. l : OwnOpen(m1, d) = OwnOpen(m, d)
  BY <1>5 DEF OwnOpen
<1> QED
  BY <1>2, <1>9, <1>10

\* The token n is attached to the node of frame l.
Attaches(l, n) ==
    /\ l \in Nat \ {0} /\ Len(stack) = l /\ Len(stack') = l
    /\ \A d \in 1 .. l : stack'[d].node = stack[d].node
    /\ n \in Nat \ {0} /\ pos = n /\ pos' = n + 1
    /\ \A p \in 1 .. n - 1 : owner'[p] = owner[p]
    /\ owner'[n] = stack[l].node

\* It may be a bracket, of weight w.
Adds(n, w, opens, closes, opens1, closes1) ==
    /\ opens1 \cap closes1 = {}
    /\ opens \subseteq 1 .. n - 1 /\ closes \subseteq 1 .. n - 1
    /\ opens \subseteq opens1 /\ closes \subseteq closes1
    /\ opens1 \ opens \subseteq {n} /\ closes1 \ closes \subseteq {n}
    /\ w = IF n \in opens1 THEN 1 ELSE IF n \in closes1 THEN -1 ELSE 0

(***************************************************************************)
(* A token is matched.  A bracket that closes finds the bracket that its   *)
(* function has open.                                                      *)
(***************************************************************************)
LEMMA HangingMatch ==
    ASSUME NEW opens, NEW closes, NEW m, Hanging(opens, closes, m),
           NEW l, NEW n, Attaches(l, n),
           NEW opens1, NEW closes1, NEW w, Adds(n, w, opens, closes, opens1, closes1),
           OwnOpen(m, l) + w \in 0 .. 1
    PROVE  /\ \E m1 :
                 /\ Hanging(opens1, closes1, m1)'
                 /\ \A d \in 1 .. l - 1 : OwnOpen(m1, d) = OwnOpen(m, d)
                 /\ OwnOpen(m1, l) = OwnOpen(m, l) + w
           /\ n \in closes1 => Matched(opens1, closes1, n)'
<1> DEFINE B(a, b) == Balance(opens1, closes1, a, b)
           F(a, b) == Flat(opens1, closes1, a, b)
<1>0. \A a, b, c \in Int : a <= b /\ b <= c + 1 =>
         B(a, b - 1) \in Int /\ B(b, c) \in Int /\ B(a, c) = B(a, b - 1) + B(b, c)
  BY BalanceParts
<1> USE DEF Attaches, Adds
<1>1. /\ opens1 \cap 1 .. n - 1 = opens \cap 1 .. n - 1
      /\ closes1 \cap 1 .. n - 1 = closes \cap 1 .. n - 1
  OBVIOUS
<1>2. \A a \in Nat \ {0}, b \in Int : b <= n - 1 =>
         B(a, b) = Balance(opens, closes, a, b) /\ (F(a, b) <=> Flat(opens, closes, a, b))
  <2> SUFFICES ASSUME NEW a \in Nat \ {0}, NEW b \in Int, b <= n - 1
               PROVE  B(a, b) = Balance(opens, closes, a, b) /\ (F(a, b) <=> Flat(opens, closes, a, b))
    OBVIOUS
  <2>1. PICK k \in Int : k = n - 1
    OBVIOUS
  <2>2. /\ opens1 \cap 1 .. k = opens \cap 1 .. k /\ closes1 \cap 1 .. k = closes \cap 1 .. k
        /\ b <= k
    BY <1>1, <2>1
  <2> QED
    BY <2>2, SameBalance
<1>3. /\ m \in [0 .. l -> 1 .. n] /\ m[0] = 1
      /\ Flat(opens, closes, m[l], n - 1)
      /\ \A d \in 0 .. l : Balance(opens, closes, 1, m[d] - 1) >= 0
      /\ \A d \in 1 .. l : m[d - 1] # m[d] =>
            /\ m[d - 1] < m[d] /\ m[d] - 1 \in opens /\ owner[m[d] - 1] = stack[d].node
            /\ Flat(opens, closes, m[d - 1], m[d] - 2)
  BY DEF Hanging
<1>4. \A d \in 0 .. l : m[d] \in Nat \ {0} /\ m[d] <= n /\ m[d] \in Int
  BY SMTT(60), <1>3
<1>5. F(m[l], n - 1) /\ \A d \in 0 .. l : B(1, m[d] - 1) >= 0
  <2>1. F(m[l], n - 1)
    <3>1. n - 1 \in Int /\ n - 1 <= n - 1 /\ m[l] \in Nat \ {0}
      BY <1>4
    <3> QED
      BY <1>2, <1>3, <3>1
  <2>2. ASSUME NEW d \in 0 .. l PROVE B(1, m[d] - 1) >= 0
    <3>1. m[d] - 1 \in Int /\ m[d] - 1 <= n - 1 /\ 1 \in Nat \ {0}
      BY <1>4
    <3> QED
      BY <1>2, <1>3, <3>1
  <2> QED
    BY <2>1, <2>2
<1>6. \A d \in 1 .. l : m[d - 1] # m[d] =>
         /\ m[d - 1] < m[d] /\ m[d] - 1 \in opens1 /\ m[d] - 1 \in 1 .. n - 1
         /\ owner'[m[d] - 1] = stack'[d].node
         /\ F(m[d - 1], m[d] - 2)
  <2> SUFFICES ASSUME NEW d \in 1 .. l, m[d - 1] # m[d]
               PROVE  /\ m[d - 1] < m[d] /\ m[d] - 1 \in opens1 /\ m[d] - 1 \in 1 .. n - 1
                      /\ owner'[m[d] - 1] = stack'[d].node
                      /\ F(m[d - 1], m[d] - 2)
    OBVIOUS
  <2>1. /\ m[d - 1] < m[d] /\ m[d] - 1 \in opens /\ owner[m[d] - 1] = stack[d].node
        /\ Flat(opens, closes, m[d - 1], m[d] - 2)
    BY <1>3
  <2>2. m[d] - 1 \in opens1 /\ m[d] - 1 \in 1 .. n - 1
    BY <2>1
  <2>3. F(m[d - 1], m[d] - 2)
    <3>1. d - 1 \in 0 .. l /\ d \in 0 .. l
      OBVIOUS
    <3>2. m[d - 1] \in Nat \ {0} /\ m[d] - 2 \in Int /\ m[d] - 2 <= n - 1
      BY <1>4, <3>1
    <3> QED
      BY <1>2, <2>1, <3>2
  <2> QED
    BY <2>1, <2>2, <2>3
<1>7. OwnOpen(m, l) \in {0, 1} /\ w \in {-1, 0, 1} /\ l \in 0 .. l /\ l - 1 \in 0 .. l
  BY DEF OwnOpen
\* It is enough to say what becomes of the top frame.
<1>8. ASSUME NEW k \in 1 .. n + 1,
             F(k, n), B(1, k - 1) >= 0,
             m[l - 1] # k =>
                /\ m[l - 1] < k /\ k - 1 \in opens1 /\ owner'[k - 1] = stack'[l].node
                /\ F(m[l - 1], k - 2),
             (IF m[l - 1] = k THEN 0 ELSE 1) = OwnOpen(m, l) + w
      PROVE  \E m1 :
                /\ Hanging(opens1, closes1, m1)'
                /\ \A d \in 1 .. l - 1 : OwnOpen(m1, d) = OwnOpen(m, d)
                /\ OwnOpen(m1, l) = OwnOpen(m, l) + w
  <2> DEFINE m1 == [d \in 0 .. l |-> IF d = l THEN k ELSE m[d]]
  <2>1. /\ m1 \in [0 .. l -> 1 .. n + 1]
        /\ m1[l] = k /\ \A d \in 0 .. l : d # l => m1[d] = m[d]
    BY <1>3
  <2> HIDE DEF m1
  <2>2. m1[0] = 1 /\ m1[l - 1] = m[l - 1]
    <3>1. 0 \in 0 .. l /\ 0 # l /\ l - 1 \in 0 .. l /\ l - 1 # l
      OBVIOUS
    <3> QED
      BY <1>3, <2>1, <3>1
  <2>3. \A d \in 0 .. l : B(1, m1[d] - 1) >= 0
    BY <1>5, <1>8, <2>1
  <2>4. \A d \in 1 .. l - 1 : m1[d] = m[d] /\ m1[d - 1] = m[d - 1] /\ d \in 1 .. l
    BY <2>1
  <2>5. \A d \in 1 .. l : m1[d - 1] # m1[d] =>
           /\ m1[d - 1] < m1[d] /\ m1[d] - 1 \in opens1 /\ owner'[m1[d] - 1] = stack'[d].node
           /\ F(m1[d - 1], m1[d] - 2)
    <3> SUFFICES ASSUME NEW d \in 1 .. l, m1[d - 1] # m1[d]
                 PROVE  /\ m1[d - 1] < m1[d] /\ m1[d] - 1 \in opens1
                        /\ owner'[m1[d] - 1] = stack'[d].node
                        /\ F(m1[d - 1], m1[d] - 2)
      OBVIOUS
    <3>1. CASE d = l
      BY <1>8, <2>1, <2>2, <3>1
    <3>2. CASE d # l
      <4>1. d \in 1 .. l - 1
        BY <3>2
      <4> QED
        BY <1>6, <2>4, <4>1
    <3> QED
      BY <3>1, <3>2
  <2>6. Hanging(opens1, closes1, m1)'
    <3>1. (n + 1) - 1 = n
      OBVIOUS
    <3>2. F(m1[l], pos' - 1)
      BY <1>8, <2>1, <3>1
    <3> QED
      BY <2>1, <2>2, <2>3, <2>5, <3>2 DEF Hanging
  <2>7. \A d \in 1 .. l - 1 : OwnOpen(m1, d) = OwnOpen(m, d)
    BY <2>4 DEF OwnOpen
  <2>8. OwnOpen(m1, l) = OwnOpen(m, l) + w
    BY <1>8, <2>1, <2>2 DEF OwnOpen
  <2> QED
    BY <2>6, <2>7, <2>8
<1>9. CASE w = 0
  <2>1. n \notin opens1 /\ n \notin closes1
    BY <1>9
  <2>2. F(m[l], n)
    BY <1>4, <1>5, <1>7, <2>1, FlatNext
  <2>3. m[l - 1] # m[l] =>
           /\ m[l - 1] < m[l] /\ m[l] - 1 \in opens1 /\ owner'[m[l] - 1] = stack'[l].node
           /\ F(m[l - 1], m[l] - 2)
    BY <1>6
  <2>4. (IF m[l - 1] = m[l] THEN 0 ELSE 1) = OwnOpen(m, l) + w
    BY <1>9 DEF OwnOpen
  <2>5. m[l] \in 1 .. n + 1 /\ B(1, m[l] - 1) >= 0
    BY <1>4, <1>5, <1>7
  <2> QED
    BY <1>8, <2>1, <2>2, <2>3, <2>4, <2>5
<1>10. CASE w = 1
  <2>1. n \in opens1 /\ n \notin closes1
    BY <1>10
  <2>2. OwnOpen(m, l) = 0 /\ m[l - 1] = m[l]
    BY <1>7, <1>10 DEF OwnOpen
  <2>3. F(n + 1, n)
    <3>1. B(n + 1, n) = 0
      BY BalanceNone
    <3>2. n + 1 .. n = {}
      OBVIOUS
    <3> QED
      BY <3>1, <3>2 DEF Flat
  <2>4. B(1, (n + 1) - 1) >= 0
    <3>1. B(1, n) = B(1, n - 1) + B(n, n) /\ B(1, n - 1) \in Int
      <4>1. 1 \in Int /\ n \in Int /\ 1 <= n /\ n <= n + 1
        OBVIOUS
      <4> QED
        BY <4>1, BalanceBefore
    <3>2. B(n, n) = 1
      <4>1. n \in Int
        OBVIOUS
      <4> QED
        BY <2>1, <4>1, BalanceOne, Zenon
    <3>3. B(1, n - 1) = B(1, m[l] - 1) + B(m[l], n - 1) /\ B(1, m[l] - 1) \in Int
      <4>1. PICK k \in Int : k = n - 1
        OBVIOUS
      <4>2. 1 <= m[l] /\ m[l] <= k + 1
        BY <1>4, <1>7, <4>1
      <4> QED
        BY <1>4, <1>0, <1>7, <4>1, <4>2
    <3>4. B(m[l], n - 1) = 0 /\ B(1, m[l] - 1) >= 0
      BY <1>5, <1>7 DEF Flat
    <3>5. (n + 1) - 1 = n
      OBVIOUS
    <3> QED
      BY <3>1, <3>2, <3>3, <3>4, <3>5
  <2>5. /\ m[l - 1] < n + 1 /\ (n + 1) - 1 \in opens1 /\ owner'[(n + 1) - 1] = stack'[l].node
        /\ F(m[l - 1], (n + 1) - 2)
    <3>1. (n + 1) - 1 = n /\ (n + 1) - 2 = n - 1 /\ l \in 1 .. l
      OBVIOUS
    <3> QED
      BY <1>4, <1>5, <1>7, <2>1, <2>2, <3>1
  <2>6. (IF m[l - 1] = n + 1 THEN 0 ELSE 1) = OwnOpen(m, l) + w
    <3>1. m[l - 1] # n + 1
      BY <1>4, <1>7
    <3> QED
      BY <1>10, <2>2, <3>1
  <2>7. n + 1 \in 1 .. n + 1
    OBVIOUS
  <2> QED
    BY <1>8, <2>1, <2>3, <2>4, <2>5, <2>6, <2>7
<1>11. CASE w = -1
  <2>1. n \notin opens1 /\ n \in closes1
    BY <1>11
  <2>2. OwnOpen(m, l) = 1 /\ m[l - 1] # m[l]
    BY <1>7, <1>11 DEF OwnOpen
  <2>3. PICK u \in Int : u = m[l] - 1
    BY <1>4, <1>7
  <2>4. /\ m[l - 1] <= u /\ u \in opens1 /\ u \in 1 .. n - 1 /\ owner'[u] = stack'[l].node
        /\ F(m[l - 1], u - 1) /\ F(u + 1, n - 1)
    <3>1. /\ m[l - 1] < m[l] /\ m[l] - 1 \in opens1 /\ m[l] - 1 \in 1 .. n - 1
          /\ owner'[m[l] - 1] = stack'[l].node /\ F(m[l - 1], m[l] - 2)
      <4>1. l \in 1 .. l
        OBVIOUS
      <4> QED
        BY <1>6, <2>2, <4>1
    <3>2. u - 1 = m[l] - 2 /\ u + 1 = m[l] /\ m[l - 1] <= u
      BY SMTT(60), <1>4, <1>7, <2>3, <3>1
    <3> QED
      BY <1>5, <2>3, <3>1, <3>2
  <2>5. /\ F(m[l - 1], n)
        /\ B(u, n) = 0
        /\ \A r \in u + 1 .. n : B(r, n) < 0
    <3>1. m[l - 1] \in Int /\ n \in Int /\ u < n
      BY <1>4, <1>7, <2>4
    <3> QED
      BY <2>1, <2>4, <3>1, FlatPair
  <2>6. B(1, m[l - 1] - 1) >= 0
    BY <1>5, <1>7
  <2>7. B(1, n) >= 0
    <3>1. B(1, n) = B(1, m[l - 1] - 1) + B(m[l - 1], n) /\ B(1, m[l - 1] - 1) \in Int
      <4>1. 1 <= m[l - 1] /\ m[l - 1] <= n + 1 /\ m[l - 1] \in Int
        BY <1>4, <1>7
      <4> QED
        BY <1>0, <4>1
    <3>2. B(m[l - 1], n) = 0
      BY <2>5 DEF Flat
    <3> QED
      BY <2>6, <3>1, <3>2
  <2>8. Matched(opens1, closes1, n)'
    <3>1. owner'[u] = owner'[n] /\ u \in 1 .. n - 1
      <4>1. l \in 1 .. l
        OBVIOUS
      <4> QED
        BY <2>4, <4>1
    <3> QED
      BY <2>4, <2>5, <2>7, <3>1 DEF Matched
  <2>9. (IF m[l - 1] = m[l - 1] THEN 0 ELSE 1) = OwnOpen(m, l) + w
    BY <1>11, <2>2
  <2>10. m[l - 1] \in 1 .. n + 1
    BY <1>4, <1>7
  <2> QED
    BY <1>8, <2>5, <2>6, <2>8, <2>9, <2>10
<1> QED
  BY <1>7, <1>9, <1>10, <1>11

-----------------------------------------------------------------------------
(***************************************************************************)
(* The invariant of the brackets.                                          *)
(***************************************************************************)
PairsInv(parts, rules, opening, closing) ==
    LET opens == BracketsAt(rules, opening)
        closes == BracketsAt(rules, closing)
    IN  /\ \E m : Hanging(opens, closes, m) /\ InTune(parts, rules, opening, closing, m)
        /\ \A p \in closes : Matched(opens, closes, p)

\* The sequences over the items of a rule.
OverItems(parts) == [rule \in DOMAIN Grammar |-> Seq(ItemsIn(parts, rule))]

\* A step that matches no token keeps it, if some m does.
LEMMA PairsStay ==
    ASSUME TreeInv, [Next]_vars, UNCHANGED <<input, pos, owner>>,
           NEW parts, NEW rules, NEW opening, NEW closing,
           PairsInv(parts, rules, opening, closing),
           \A opens, closes, m :
              Hanging(opens, closes, m) /\ InTune(parts, rules, opening, closing, m) =>
                 \E m1 : /\ Hanging(opens, closes, m1)'
                         /\ InTune(parts, rules, opening, closing, m1)'
    PROVE  PairsInv(parts, rules, opening, closing)'
<1> PICK opens : opens = BracketsAt(rules, opening)
  OBVIOUS
<1> PICK closes : closes = BracketsAt(rules, closing)
  OBVIOUS
<1>1. BracketsAt(rules, opening)' = opens /\ BracketsAt(rules, closing)' = closes
  BY BracketsStay
<1>2. PICK m : Hanging(opens, closes, m) /\ InTune(parts, rules, opening, closing, m)
  BY DEF PairsInv
<1>3. PICK m1 : Hanging(opens, closes, m1)' /\ InTune(parts, rules, opening, closing, m1)'
  BY <1>2
<1>4. \A p \in closes : Matched(opens, closes, p)'
  <2>1. \A p \in closes : Matched(opens, closes, p)
    BY DEF PairsInv
  <2> QED
    BY <2>1 DEF Matched
<1> QED
  BY <1>1, <1>3, <1>4 DEF PairsInv

\* What a decision makes of the rest goes on from the same open brackets.
LEMMA ReadyDecides ==
    ASSUME NEW parts, AreParts(parts), NEW rules, NEW opening, NEW closing, NEW open,
           Brackets(parts, rules, opening, closing), NEW rule \in rules,
           NEW e \in Seq(Items), NEW f \in Seq(Items), Decides(e, f),
           Ready(parts, rule, e, opening, closing, open)
    PROVE  Ready(parts, rule, f, opening, closing, open)
<1>1. e # <<>> /\ e[1].k \in {"alt", "opt", "star"}
  BY DEF Decides
<1>2. CASE e[1].k # "alt" /\ f = Tail(e)
  <2>1. /\ open \in 0 .. 1
        /\ Ready(parts, rule, Tail(e), opening, closing,
                 open + Weight(e[1], opening, closing))
    BY <1>1, <1>2, ReadyTail
  <2>2. Weight(e[1], opening, closing) = 0
    BY <1>1 DEF Weight, Reads
  <2>3. open + 0 = open
    BY <2>1
  <2> QED
    BY <1>2, <2>1, <2>2, <2>3
<1>3. CASE \E n \in DOMAIN e[1].alts :
              /\ e[1].alts[n] \in Seq(Items)
              /\ f = e[1].alts[n] \o (IF e[1].k = "star" THEN e ELSE Tail(e))
  <2>1. PICK n \in DOMAIN e[1].alts :
           /\ e[1].alts[n] \in Seq(Items)
           /\ f = e[1].alts[n] \o (IF e[1].k = "star" THEN e ELSE Tail(e))
    BY <1>3
  <2>2. PICK t \in {e, Tail(e)} : t = IF e[1].k = "star" THEN e ELSE Tail(e)
    OBVIOUS
  <2>3. e[1].k # "tok" /\ (e[1].k = "alt" => t = Tail(e)) /\ f = e[1].alts[n] \o t
    BY <1>1, <2>1, <2>2
  <2> QED
    BY <1>1, <2>1, <2>3, ReadyBlock
<1> QED
  BY <1>2, <1>3 DEF Decides

\* A decision.
LEMMA DecisionPairs ==
    ASSUME TreeInv, [Next]_vars, Choose \/ EnterOptional \/ Iterate,
           NEW parts, AreParts(parts), NEW rules, NEW opening, NEW closing,
           Brackets(parts, rules, opening, closing),
           PairsInv(parts, rules, opening, closing)
    PROVE  PairsInv(parts, rules, opening, closing)'
<1>1. /\ TypeOK /\ stack # <<>> /\ UNCHANGED <<input, pos, owner>>
      /\ \A n \in DOMAIN nodes : nodes'[n].rule = nodes[n].rule
  BY DecisionStep, RulesKept DEF TreeInv
<1>2. PICK f \in Seq(Items) : Decides(Top.rest, f) /\ Continue(f)
  BY <1>1, DecisionStep
<1>3. PICK l \in Nat \ {0} : l = Len(stack)
  BY <1>1, TopType
<1>4. /\ Len(stack') = l /\ Top = stack[l] /\ stack'[l].rest = f
      /\ \A d \in 1 .. l :
            /\ stack'[d].node = stack[d].node
            /\ RuleOf(d)' = RuleOf(d)
            /\ d # l => stack'[d].rest = stack[d].rest
  BY <1>1, <1>2, <1>3, TopStep
<1>5. stack[l].rest \in Seq(Items) /\ l \in 1 .. l
  BY <1>1, <1>3, FrameTypes
<1>6. ASSUME NEW opens, NEW closes, NEW m,
             Hanging(opens, closes, m), InTune(parts, rules, opening, closing, m)
      PROVE  Hanging(opens, closes, m)' /\ InTune(parts, rules, opening, closing, m)'
  <2>1. Hanging(opens, closes, m)'
    BY <1>1, <1>3, <1>4, <1>6, HangingSame
  <2>2. ASSUME NEW d \in 1 .. l
        PROVE  IF RuleOf(d)' \in rules
               THEN Ready(parts, RuleOf(d)', stack'[d].rest, opening, closing, OwnOpen(m, d))
               ELSE OwnOpen(m, d) = 0
    <3>1. IF RuleOf(d) \in rules
          THEN Ready(parts, RuleOf(d), stack[d].rest, opening, closing, OwnOpen(m, d))
          ELSE OwnOpen(m, d) = 0
      BY <1>3, <1>6 DEF InTune
    <3>2. CASE d = l /\ RuleOf(d) \in rules
      <4>1. Decides(stack[d].rest, f) /\ stack[d].rest \in Seq(Items) /\ stack'[d].rest = f
        BY <1>2, <1>4, <1>5, <3>2
      <4>2. Ready(parts, RuleOf(d), f, opening, closing, OwnOpen(m, d))
        BY <3>1, <3>2, <4>1, ReadyDecides
      <4> QED
        BY <1>4, <3>2, <4>1, <4>2
    <3>3. CASE d # l \/ RuleOf(d) \notin rules
      BY <1>4, <3>1, <3>3
    <3> QED
      BY <3>2, <3>3
  <2> QED
    BY <1>4, <2>1, <2>2 DEF InTune
<1> QED
  BY <1>1, <1>6, PairsStay

\* A call.
LEMMA EnterPairs ==
    ASSUME TreeInv, [Next]_vars, EnterRule,
           NEW parts, NEW rules, NEW opening, NEW closing,
           Brackets(parts, rules, opening, closing),
           PairsInv(parts, rules, opening, closing)
    PROVE  PairsInv(parts, rules, opening, closing)'
<1>1. /\ TypeOK /\ stack # <<>>
      /\ \A n \in DOMAIN nodes : nodes'[n].rule = nodes[n].rule
  BY EnterStep, RulesKept DEF TreeInv
<1>2. PICK l \in Nat \ {0} : l = Len(stack)
  BY <1>1, TopType
<1>3. /\ Top.rest # <<>> /\ Top.rest \in Seq(Items)
      /\ Top.rest[1].k = "rule" /\ Tail(Top.rest) \in Seq(Items)
      /\ Len(stack') = l + 1
      /\ \A d \in 1 .. l - 1 : stack'[d] = stack[d]
      /\ stack'[l].node = Top.node
      /\ stack'[l].rest = Tail(Top.rest)
      /\ stack'[l + 1].node = Len(nodes) + 1
      /\ stack'[l + 1].rest = Grammar[Expected.sym]
      /\ nodes'[Len(nodes) + 1].rule = Expected.sym
      /\ UNCHANGED <<input, pos, owner>>
  BY <1>1, <1>2, EnterStep
<1>4. Top = stack[l] /\ \A d \in 1 .. l : stack[d].node \in DOMAIN nodes
  BY <1>1, <1>2, FrameTypes DEF Top
<1>5. \A d \in 1 .. l : stack'[d].node = stack[d].node /\ RuleOf(d)' = RuleOf(d)
  <2>1. \A d \in 1 .. l : stack'[d].node = stack[d].node
    BY <1>3, <1>4
  <2> QED
    BY <1>1, <1>4, <2>1 DEF RuleOf
<1>6. ASSUME NEW opens, NEW closes, NEW m,
             Hanging(opens, closes, m), InTune(parts, rules, opening, closing, m)
      PROVE  \E m1 : /\ Hanging(opens, closes, m1)'
                     /\ InTune(parts, rules, opening, closing, m1)'
  <2>1. PICK m1 : /\ Hanging(opens, closes, m1)'
                  /\ \A d \in 1 .. l : OwnOpen(m1, d) = OwnOpen(m, d)
                  /\ OwnOpen(m1, l + 1) = 0
    BY <1>2, <1>3, <1>5, <1>6, HangingEnter
  <2>2. ASSUME NEW d \in 1 .. l + 1
        PROVE  IF RuleOf(d)' \in rules
               THEN Ready(parts, RuleOf(d)', stack'[d].rest, opening, closing, OwnOpen(m1, d))
               ELSE OwnOpen(m1, d) = 0
    <3>1. CASE d \in 1 .. l
      <4>1. IF RuleOf(d) \in rules
            THEN Ready(parts, RuleOf(d), stack[d].rest, opening, closing, OwnOpen(m, d))
            ELSE OwnOpen(m, d) = 0
        BY <1>2, <1>6, <3>1 DEF InTune
      <4>2. RuleOf(d)' = RuleOf(d) /\ OwnOpen(m1, d) = OwnOpen(m, d)
        BY <1>5, <2>1, <3>1
      <4>3. CASE d # l
        <5>1. d \in 1 .. l - 1
          BY <3>1, <4>3
        <5>2. stack'[d] = stack[d]
          BY <1>3, <5>1
        <5> QED
          BY <4>1, <4>2, <5>2
      <4>4. CASE d = l /\ RuleOf(d) \in rules
        <5>1. /\ OwnOpen(m, d) \in 0 .. 1
              /\ Ready(parts, RuleOf(d), Tail(Top.rest), opening, closing,
                       OwnOpen(m, d) + Weight(Top.rest[1], opening, closing))
          <6>1. Ready(parts, RuleOf(d), Top.rest, opening, closing, OwnOpen(m, d))
            BY <1>4, <4>1, <4>4
          <6>2. Top.rest[1].k # "alt"
            BY <1>3
          <6> QED
            BY <1>3, <6>1, <6>2, ReadyTail
        <5>2. Weight(Top.rest[1], opening, closing) = 0
          BY <1>3 DEF Weight, Reads
        <5>3. OwnOpen(m, d) + 0 = OwnOpen(m, d)
          BY <5>1
        <5> QED
          BY <1>3, <4>2, <4>4, <5>1, <5>2, <5>3
      <4>5. CASE RuleOf(d) \notin rules
        BY <4>1, <4>2, <4>5
      <4> QED
        BY <4>3, <4>4, <4>5
    <3>2. CASE d = l + 1
      <4>1. RuleOf(d)' = Expected.sym /\ OwnOpen(m1, d) = 0
        BY <1>3, <2>1, <3>2 DEF RuleOf
      <4>2. PICK sym : sym = Expected.sym
        OBVIOUS
      <4>3. sym \in rules => Ready(parts, sym, Grammar[sym], opening, closing, 0)
        BY ReadyStart
      <4> QED
        BY <1>3, <3>2, <4>1, <4>2, <4>3
    <3>3. d \in 1 .. l \/ d = l + 1
      OBVIOUS
    <3> QED
      BY <3>1, <3>2, <3>3
  <2>3. InTune(parts, rules, opening, closing, m1)'
    BY <1>3, <2>2 DEF InTune
  <2> QED
    BY <2>1, <2>3
<1> QED
  BY <1>3, <1>6, PairsStay

\* The call of the start rule.
LEMMA CallPairs ==
    ASSUME TreeInv, [Next]_vars, Call,
           NEW parts, NEW rules, NEW opening, NEW closing,
           Brackets(parts, rules, opening, closing),
           PairsInv(parts, rules, opening, closing)
    PROVE  PairsInv(parts, rules, opening, closing)'
<1>1. /\ Len(stack) = 0 /\ Len(stack') = 1 /\ stack'[1].rest = Grammar[StartRule]
      /\ RuleOf(1)' = StartRule /\ UNCHANGED <<input, pos, owner>>
  BY CallStep DEF RuleOf
<1>2. ASSUME NEW opens, NEW closes, NEW m,
             Hanging(opens, closes, m), InTune(parts, rules, opening, closing, m)
      PROVE  \E m1 : /\ Hanging(opens, closes, m1)'
                     /\ InTune(parts, rules, opening, closing, m1)'
  <2>1. PICK m1 : Hanging(opens, closes, m1)' /\ OwnOpen(m1, 1) = 0
    <3>1. /\ Len(stack) \in Nat /\ Len(stack') = Len(stack) + 1 /\ Len(stack) + 1 = 1
          /\ \A d \in 1 .. Len(stack) : stack'[d].node = stack[d].node
      BY <1>1
    <3> QED
      BY <1>1, <1>2, <3>1, HangingEnter
  <2>2. StartRule \in rules =>
           Ready(parts, StartRule, Grammar[StartRule], opening, closing, 0)
    BY ReadyStart
  <2>3. \A d \in 1 .. 1 : d = 1
    OBVIOUS
  <2>4. InTune(parts, rules, opening, closing, m1)'
    BY <1>1, <2>1, <2>2, <2>3 DEF InTune
  <2> QED
    BY <2>1, <2>4
<1> QED
  BY <1>1, <1>2, PairsStay

\* A function that ends has no bracket open.
LEMMA ExitPairs ==
    ASSUME TreeInv, [Next]_vars, ExitRule,
           NEW parts, NEW rules, NEW opening, NEW closing,
           PairsInv(parts, rules, opening, closing)
    PROVE  PairsInv(parts, rules, opening, closing)'
<1>1. /\ TypeOK /\ stack # <<>> /\ Top.rest = <<>> /\ UNCHANGED <<input, pos, owner>>
      /\ \A n \in DOMAIN nodes : nodes'[n].rule = nodes[n].rule
  BY RulesKept DEF TreeInv, ExitRule
<1>2. PICK l \in Nat \ {0} : l = Len(stack)
  BY <1>1, TopType
<1>3. Len(stack') = l - 1 /\ \A d \in 1 .. l - 1 : stack'[d] = stack[d]
  BY <1>1, <1>2, ExitFrames
<1>4. stack[l].rest = <<>> /\ \A d \in 1 .. l - 1 : d \in 1 .. l /\ RuleOf(d)' = RuleOf(d)
  <2>1. \A d \in 1 .. l - 1 : d \in 1 .. l
    OBVIOUS
  <2>2. \A d \in 1 .. l : stack[d].node \in DOMAIN nodes
    BY <1>1, <1>2, FrameTypes
  <2> QED
    BY <1>1, <1>2, <1>3, <2>1, <2>2 DEF Top, RuleOf
<1>5. ASSUME NEW opens, NEW closes, NEW m,
             Hanging(opens, closes, m), InTune(parts, rules, opening, closing, m)
      PROVE  \E m1 : /\ Hanging(opens, closes, m1)'
                     /\ InTune(parts, rules, opening, closing, m1)'
  <2>1. \A d \in 1 .. l :
           IF RuleOf(d) \in rules
           THEN Ready(parts, RuleOf(d), stack[d].rest, opening, closing, OwnOpen(m, d))
           ELSE OwnOpen(m, d) = 0
    BY <1>2, <1>5 DEF InTune
  <2>2. OwnOpen(m, l) = 0
    <3>1. l \in 1 .. l
      OBVIOUS
    <3>2. CASE RuleOf(l) \in rules
      <4>1. Ready(parts, RuleOf(l), <<>>, opening, closing, OwnOpen(m, l))
        BY <1>4, <2>1, <3>1, <3>2
      <4> QED
        BY <4>1, ReadyEnd
    <3> QED
      BY <2>1, <3>1, <3>2
  <2>3. PICK m1 : /\ Hanging(opens, closes, m1)'
                  /\ \A d \in 1 .. l - 1 : OwnOpen(m1, d) = OwnOpen(m, d)
    BY <1>1, <1>2, <1>3, <1>5, <2>2, HangingExit
  <2>4. \A d \in 1 .. l - 1 :
           IF RuleOf(d)' \in rules
           THEN Ready(parts, RuleOf(d)', stack'[d].rest, opening, closing, OwnOpen(m1, d))
           ELSE OwnOpen(m1, d) = 0
    BY <1>3, <1>4, <2>1, <2>3
  <2>5. InTune(parts, rules, opening, closing, m1)'
    BY <1>3, <2>4 DEF InTune
  <2> QED
    BY <2>3, <2>5
<1> QED
  BY <1>1, <1>5, PairsStay

\* The weight of the item that reads a token is that of the token.
LEMMA TokenWeight ==
    ASSUME NEW parts, NEW rules, NEW opening, NEW closing,
           Brackets(parts, rules, opening, closing), NEW rule \in rules,
           NEW it \in ItemsIn(parts, rule), it.k = "tok", NEW word \in it.set
    PROVE  Weight(it, opening, closing) =
              IF word \in opening THEN 1 ELSE IF word \in closing THEN -1 ELSE 0
<1>1. /\ Reads(it, opening) => it.set \subseteq opening
      /\ Reads(it, closing) => it.set \subseteq closing
  BY DEF Brackets
<1>2. \A words : word \in words => Reads(it, words)
  BY DEF Reads
<1>3. (Reads(it, opening) <=> word \in opening) /\ (Reads(it, closing) <=> word \in closing)
  BY <1>1, <1>2
<1> QED
  BY <1>3 DEF Weight

\* A token.
LEMMA MatchPairs ==
    ASSUME TreeInv, [Next]_vars, Match,
           NEW parts, NEW rules, NEW opening, NEW closing,
           Brackets(parts, rules, opening, closing), RestsIn(OverItems(parts)),
           PairsInv(parts, rules, opening, closing)
    PROVE  PairsInv(parts, rules, opening, closing)'
<1> PICK opens : opens = BracketsAt(rules, opening)
  OBVIOUS
<1> PICK closes : closes = BracketsAt(rules, closing)
  OBVIOUS
<1> PICK opens1 : opens1 = BracketsAt(rules, opening)'
  OBVIOUS
<1> PICK closes1 : closes1 = BracketsAt(rules, closing)'
  OBVIOUS
<1>1. /\ TypeOK /\ stack # <<>> /\ Top.rest # <<>> /\ Top.rest \in Seq(Items)
      /\ Top.rest[1].k = "tok" /\ input[pos] \in Top.rest[1].set
      /\ Tail(Top.rest) \in Seq(Items) /\ Continue(Tail(Top.rest))
      /\ pos' = pos + 1 /\ UNCHANGED <<input, nodes>>
  BY MatchStep DEF TreeInv
<1>2. PICK l \in Nat \ {0} : l = Len(stack)
  BY <1>1, TopType
<1>3. PICK n \in Nat \ {0} : n = pos
  BY OwnerTypes
<1>4. /\ Len(stack') = l /\ Top = stack[l] /\ stack'[l].rest = Tail(Top.rest)
      /\ \A d \in 1 .. l :
            /\ stack'[d].node = stack[d].node
            /\ RuleOf(d)' = RuleOf(d)
            /\ d # l => stack'[d].rest = stack[d].rest
  BY <1>1, <1>2, TopStep
<1>5. /\ DOMAIN owner' = 1 .. n /\ owner'[n] = stack[l].node
      /\ \A p \in 1 .. n - 1 : owner'[p] = owner[p]
  BY <1>3, <1>4, MatchedToken
<1>6. /\ opens \subseteq 1 .. n - 1 /\ closes \subseteq 1 .. n - 1
      /\ opens1 = opens \cup (IF input[n] \in opening /\ RuleOf(l) \in rules THEN {n} ELSE {})
      /\ closes1 = closes \cup (IF input[n] \in closing /\ RuleOf(l) \in rules THEN {n} ELSE {})
  BY <1>2, <1>3, BracketsMatch
<1>7. opens1 \cap closes1 = {}
  <2>1. opening \cap closing = {}
    BY DEF Brackets
  <2> QED
    BY <2>1 DEF BracketsAt
<1>8. /\ opens \subseteq opens1 /\ closes \subseteq closes1
      /\ opens1 \ opens \subseteq {n} /\ closes1 \ closes \subseteq {n}
      /\ n \in opens1 <=> input[n] \in opening /\ RuleOf(l) \in rules
      /\ n \in closes1 <=> input[n] \in closing /\ RuleOf(l) \in rules
  <2>1. n \notin 1 .. n - 1
    OBVIOUS
  <2> QED
    BY <1>6, <2>1
<1>9. PICK m : Hanging(opens, closes, m) /\ InTune(parts, rules, opening, closing, m)
  BY DEF PairsInv
<1>10. PICK w : w = IF n \in opens1 THEN 1 ELSE IF n \in closes1 THEN -1 ELSE 0
  OBVIOUS
<1>11. /\ OwnOpen(m, l) + w \in 0 .. 1
       /\ IF RuleOf(l) \in rules
          THEN Ready(parts, RuleOf(l), Tail(Top.rest), opening, closing, OwnOpen(m, l) + w)
          ELSE OwnOpen(m, l) + w = 0
  <2>1. IF RuleOf(l) \in rules
        THEN Ready(parts, RuleOf(l), Top.rest, opening, closing, OwnOpen(m, l))
        ELSE OwnOpen(m, l) = 0
    <3>1. l \in 1 .. Len(stack)
      BY <1>2
    <3> QED
      BY <1>4, <1>9, <3>1 DEF InTune
  <2>2. CASE RuleOf(l) \in rules
    <3>1. w = Weight(Top.rest[1], opening, closing)
      <4>1. Top.rest[1] \in ItemsIn(parts, RuleOf(l))
        <5>1. l \in DOMAIN stack /\ RuleOf(l) \in DOMAIN Grammar
          <6>1. l \in 1 .. l /\ DOMAIN stack = 1 .. l
            BY <1>1, <1>2, FrameTypes
          <6> QED
            BY <1>1, <1>2, <6>1, FrameTypes
        <5>2. Top.rest \in Seq(ItemsIn(parts, RuleOf(l)))
          BY <1>4, <5>1 DEF RestsIn, OverItems
        <5>3. 1 \in 1 .. Len(Top.rest)
          BY <1>1, TailItems
        <5> QED
          BY <5>2, <5>3, ElementOfSeq
      <4>2. Weight(Top.rest[1], opening, closing) =
               IF input[n] \in opening THEN 1 ELSE IF input[n] \in closing THEN -1 ELSE 0
        BY <1>1, <1>3, <2>2, <4>1, TokenWeight
      <4> QED
        BY <1>8, <1>10, <2>2, <4>2
    <3>2. Top.rest[1].k # "alt"
      BY <1>1
    <3> QED
      BY <1>1, <2>1, <2>2, <3>1, <3>2, ReadyTail
  <2>3. CASE RuleOf(l) \notin rules
    <3>1. w = 0 /\ OwnOpen(m, l) = 0
      BY <1>8, <1>10, <2>1, <2>3
    <3> QED
      BY <2>3, <3>1
  <2> QED
    BY <2>2, <2>3
<1>12. /\ \E m1 :
             /\ Hanging(opens1, closes1, m1)'
             /\ \A d \in 1 .. l - 1 : OwnOpen(m1, d) = OwnOpen(m, d)
             /\ OwnOpen(m1, l) = OwnOpen(m, l) + w
       /\ n \in closes1 => Matched(opens1, closes1, n)'
  <2>1. Len(stack) = l /\ pos = n /\ pos' = n + 1
    BY <1>1, <1>2, <1>3
  <2>2. Attaches(l, n)
    BY <1>4, <1>5, <2>1 DEF Attaches
  <2>3. Adds(n, w, opens, closes, opens1, closes1)
    BY <1>6, <1>7, <1>8, <1>10 DEF Adds
  <2> QED
    BY <1>9, <1>11, <2>2, <2>3, HangingMatch
<1>13. PICK m1 :
          /\ Hanging(opens1, closes1, m1)'
          /\ \A d \in 1 .. l - 1 : OwnOpen(m1, d) = OwnOpen(m, d)
          /\ OwnOpen(m1, l) = OwnOpen(m, l) + w
  BY <1>12
<1>14. InTune(parts, rules, opening, closing, m1)'
  <2>1. ASSUME NEW d \in 1 .. l
        PROVE  IF RuleOf(d)' \in rules
               THEN Ready(parts, RuleOf(d)', stack'[d].rest, opening, closing, OwnOpen(m1, d))
               ELSE OwnOpen(m1, d) = 0
    <3>1. CASE d = l
      BY <1>4, <1>11, <1>13, <3>1
    <3>2. CASE d # l
      <4>1. d \in 1 .. l - 1
        BY <3>2
      <4>2. IF RuleOf(d) \in rules
            THEN Ready(parts, RuleOf(d), stack[d].rest, opening, closing, OwnOpen(m, d))
            ELSE OwnOpen(m, d) = 0
        BY <1>2, <1>9 DEF InTune
      <4> QED
        BY <1>4, <1>13, <3>2, <4>1, <4>2
    <3> QED
      BY <3>1, <3>2
  <2> QED
    BY <1>4, <2>1 DEF InTune
<1>15. ASSUME NEW p \in closes1
       PROVE  Matched(opens1, closes1, p)'
  <2>1. CASE p = n
    BY <1>12, <1>15, <2>1
  <2>2. CASE p # n
    <3>1. p \in closes /\ p \in 1 .. n - 1
      BY <1>6, <1>8, <1>15, <2>2
    <3>2. PICK k \in Int : k = n - 1
      OBVIOUS
    <3>3. /\ opens1 \cap 1 .. k = opens \cap 1 .. k /\ closes1 \cap 1 .. k = closes \cap 1 .. k
          /\ p <= k
      BY <1>6, <3>1, <3>2
    <3>4. \A a \in Nat \ {0} : Balance(opens1, closes1, a, p) = Balance(opens, closes, a, p)
      BY <3>1, <3>2, <3>3, SameBalance
    <3>5. Matched(opens, closes, p)
      BY <3>1 DEF PairsInv
    <3>6. PICK u \in opens :
             /\ u \in 1 .. p - 1
             /\ owner[u] = owner[p]
             /\ Balance(opens, closes, u, p) = 0
             /\ \A r \in u + 1 .. p : Balance(opens, closes, r, p) < 0
      BY <3>5 DEF Matched
    <3>7. u \in 1 .. n - 1 /\ owner'[u] = owner'[p] /\ u \in Nat \ {0}
      BY <1>5, <3>1, <3>6
    <3>8. Balance(opens1, closes1, u, p) = 0 /\ Balance(opens1, closes1, 1, p) >= 0
      <4>1. Balance(opens, closes, 1, p) >= 0
        BY <3>5 DEF Matched
      <4> QED
        BY <3>4, <3>6, <3>7, <4>1
    <3>9. \A r \in u + 1 .. p : Balance(opens1, closes1, r, p) < 0
      <4>1. \A r \in u + 1 .. p : r \in Nat \ {0}
        BY <3>7
      <4> QED
        BY <3>4, <3>6, <4>1
    <3>10. u \in opens1
      BY <1>8, <3>6
    <3> QED
      BY <3>6, <3>7, <3>8, <3>9, <3>10 DEF Matched
  <2> QED
    BY <2>1, <2>2
<1> QED
  BY <1>13, <1>14, <1>15 DEF PairsInv

(***************************************************************************)
(* Every step keeps the invariant of the brackets.                         *)
(***************************************************************************)
LEMMA StepKeepsPairs ==
    ASSUME TreeInv, [Next]_vars,
           NEW parts, AreParts(parts), NEW rules, NEW opening, NEW closing,
           Brackets(parts, rules, opening, closing), RestsIn(OverItems(parts)),
           PairsInv(parts, rules, opening, closing)
    PROVE  PairsInv(parts, rules, opening, closing)'
<1>1. CASE Call
  BY <1>1, CallPairs
<1>2. CASE Match
  BY <1>2, MatchPairs
<1>3. CASE EnterRule
  BY <1>3, EnterPairs
<1>4. CASE Choose \/ EnterOptional \/ Iterate
  BY <1>4, DecisionPairs
<1>5. CASE ExitRule
  BY <1>5, ExitPairs
<1>6. CASE SyntaxError \/ Keep \/ UNCHANGED vars
  <2>1. UNCHANGED <<input, pos, stack, nodes, owner>>
    BY <1>6 DEF SyntaxError, Keep, vars
  <2>2. \A opens, closes, m : Hanging(opens, closes, m) => Hanging(opens, closes, m)'
    BY <2>1 DEF Hanging
  <2>3. \A m : InTune(parts, rules, opening, closing, m) =>
                  InTune(parts, rules, opening, closing, m)'
    BY <2>1 DEF InTune, RuleOf
  <2> QED
    BY <2>1, <2>2, <2>3, PairsStay
<1> QED
  BY <1>1, <1>2, <1>3, <1>4, <1>5, <1>6 DEF Next, Step

-----------------------------------------------------------------------------
(***************************************************************************)
(* What stays true of the sequences that a rule's functions have still to  *)
(* match.                                                                  *)
(***************************************************************************)
\* The items inside an item of a rule are items of the rule.
LEMMA ItemAlternatives ==
    ASSUME NEW parts, AreParts(parts), NEW rule \in DOMAIN Grammar
    PROVE  /\ ItemsIn(parts, rule) \subseteq Items
           /\ Grammar[rule] \in Seq(ItemsIn(parts, rule))
           /\ Grammar[rule] \in SequencesIn(parts, rule)
           /\ \A it \in ItemsIn(parts, rule) : \A n \in DOMAIN it.alts :
                 it.alts[n] \in Seq(Items) =>
                    /\ it.alts[n] \in Seq(ItemsIn(parts, rule))
                    /\ it.alts[n] \in SequencesIn(parts, rule)
<1> DEFINE X == ItemsIn(parts, rule)
<1>1. /\ Grammar[rule] \in Seq(Items) /\ DOMAIN Grammar[rule] = 1 .. Len(Grammar[rule])
      /\ \A i \in DOMAIN Grammar[rule] : Grammar[rule][i] \in Items
  BY GrammarAssumption, ElementOfSeq, LenProperties
<1>2. X \subseteq Items
  BY <1>1 DEF ItemsIn, AreParts
<1>3. \A e \in Seq(Items) : (\A i \in DOMAIN e : e[i] \in X) => e \in Seq(X)
  <2> SUFFICES ASSUME NEW e \in Seq(Items), \A i \in DOMAIN e : e[i] \in X
               PROVE  e \in Seq(X)
    OBVIOUS
  <2>1. Len(e) \in Nat /\ DOMAIN e = 1 .. Len(e)
    BY LenProperties
  <2>2. e \in [1 .. Len(e) -> X]
    <3> HIDE DEF X
    <3>1. e \in [1 .. Len(e) -> Items]
      BY LenProperties
    <3> QED
      BY <2>1, <3>1
  <2> HIDE DEF X
  <2> QED
    BY <2>1, <2>2, SeqDef
<1>4. Grammar[rule] \in Seq(X)
  <2>1. \A i \in DOMAIN Grammar[rule] : Grammar[rule][i] \in X
    BY <1>1 DEF ItemsIn, AreParts
  <2> QED
    BY <1>1, <1>3, <2>1
<1>5. Grammar[rule] \in SequencesIn(parts, rule)
  BY DEF SequencesIn
<1>6. ASSUME NEW it \in X, NEW n \in DOMAIN it.alts, it.alts[n] \in Seq(Items)
      PROVE  it.alts[n] \in Seq(X) /\ it.alts[n] \in SequencesIn(parts, rule)
  <2>1. it.alts[n] \in SequencesIn(parts, rule)
    BY <1>6 DEF SequencesIn
  <2>2. PICK j \in DOMAIN Grammar[rule] : it \in parts[Grammar[rule][j]]
    BY DEF ItemsIn
  <2>3. it \in Items /\ Grammar[rule][j] \in Items
    BY <1>1, <1>2
  <2>4. \A i \in DOMAIN it.alts[n] : it.alts[n][i] \in parts[it]
    BY <2>3 DEF AreParts
  <2>5. parts[it] \subseteq parts[Grammar[rule][j]]
    BY <2>2, <2>3 DEF AreParts
  <2>6. \A i \in DOMAIN it.alts[n] : it.alts[n][i] \in X
    BY <2>4, <2>5 DEF ItemsIn
  <2> QED
    BY <1>3, <1>6, <2>1, <2>6
<1> QED
  BY <1>2, <1>4, <1>5, <1>6

\* The items that are left are items of the rule.
LEMMA OverItemsClosed ==
    ASSUME NEW parts, AreParts(parts)
    PROVE  ClosedUnderSteps(OverItems(parts))
<1> SUFFICES ASSUME NEW rule \in DOMAIN Grammar, NEW X, X = ItemsIn(parts, rule)
             PROVE  /\ Grammar[rule] \in Seq(X)
                    /\ \A e \in Seq(Items) : e \in Seq(X) /\ e # <<>> =>
                          /\ e[1].k \in {"tok", "rule"} => Tail(e) \in Seq(X)
                          /\ \A f \in Seq(Items) : Decides(e, f) => f \in Seq(X)
  BY Zenon DEF ClosedUnderSteps, OverItems
<1>1. /\ X \subseteq Items /\ Grammar[rule] \in Seq(X)
      /\ \A it \in X : \A n \in DOMAIN it.alts : it.alts[n] \in Seq(Items) => it.alts[n] \in Seq(X)
  BY ItemAlternatives
<1>2. ASSUME NEW e \in Seq(X), e # <<>>
      PROVE  Tail(e) \in Seq(X) /\ e[1] \in X
  <2>1. Tail(e) \in Seq(X) /\ Head(e) \in X /\ Head(e) = e[1]
    BY <1>2, HeadTailProperties
  <2> QED
    BY <2>1
<1>3. ASSUME NEW e \in Seq(X), e # <<>>, NEW f \in Seq(Items), Decides(e, f)
      PROVE  f \in Seq(X)
  <2>1. CASE f = Tail(e)
    BY <1>2, <1>3, <2>1
  <2>2. ASSUME NEW n \in DOMAIN e[1].alts, e[1].alts[n] \in Seq(Items),
               f = e[1].alts[n] \o (IF e[1].k = "star" THEN e ELSE Tail(e))
        PROVE  f \in Seq(X)
    <3>1. e[1].alts[n] \in Seq(X) /\ (IF e[1].k = "star" THEN e ELSE Tail(e)) \in Seq(X)
      BY <1>1, <1>2, <1>3, <2>2
    <3> QED
      BY <2>2, <3>1, ConcatProperties
  <2> QED
    BY <1>3, <2>1, <2>2 DEF Decides
<1> QED
  BY <1>1, <1>2, <1>3

(***************************************************************************)
(* What stands directly behind one of the words in what is left.           *)
(***************************************************************************)
FollowedRests(parts, words, next, rules) ==
    [rule \in DOMAIN Grammar |->
        {e \in Seq(ItemsIn(parts, rule)) : rule \notin rules => FollowedIn(e, words, next)}]

\* The tail of a rest keeps it; behind a word it begins with one of next.
LEMMA FollowedTail ==
    ASSUME NEW e \in Seq(Items), e # <<>>, NEW words, NEW next, FollowedIn(e, words, next)
    PROVE  /\ FollowedIn(Tail(e), words, next)
           /\ Reads(e[1], words) =>
                 Tail(e) # <<>> /\ Tail(e)[1].k = "tok" /\ Tail(e)[1].set \subseteq next
<1>1. /\ Len(e) \in Nat \ {0} /\ Tail(e) \in Seq(Items) /\ Len(Tail(e)) = Len(e) - 1
      /\ \A i \in 1 .. Len(e) - 1 : Tail(e)[i] = e[i + 1]
  BY TailItems
<1>2. DOMAIN Tail(e) = 1 .. Len(e) - 1 /\ DOMAIN e = 1 .. Len(e)
  BY <1>1, LenProperties
<1>3. \A i \in 1 .. Len(e) : Reads(e[i], words) =>
         i < Len(e) /\ e[i + 1].k = "tok" /\ e[i + 1].set \subseteq next
  BY <1>2 DEF FollowedIn
<1>4. ASSUME NEW i \in DOMAIN Tail(e), Reads(Tail(e)[i], words)
      PROVE  /\ i < Len(Tail(e))
             /\ Tail(e)[i + 1].k = "tok" /\ Tail(e)[i + 1].set \subseteq next
  <2>1. PICK j \in Int : j = i + 1
    BY <1>1, <1>2
  <2>2. j \in 1 .. Len(e) /\ Tail(e)[i] = e[j]
    BY <1>1, <1>2, <2>1
  <2>3. j < Len(e) /\ e[j + 1].k = "tok" /\ e[j + 1].set \subseteq next
    BY <1>3, <1>4, <2>2
  <2>4. j \in 1 .. Len(e) - 1 /\ i < Len(Tail(e))
    BY <1>1, <1>2, <2>1, <2>2, <2>3
  <2>5. Tail(e)[j] = e[j + 1]
    BY <1>1, <2>4
  <2> QED
    BY <2>1, <2>3, <2>4, <2>5
<1>5. ASSUME Reads(e[1], words)
      PROVE  Tail(e) # <<>> /\ Tail(e)[1].k = "tok" /\ Tail(e)[1].set \subseteq next
  <2>1. 1 < Len(e) /\ e[1 + 1].k = "tok" /\ e[1 + 1].set \subseteq next
    <3>1. 1 \in 1 .. Len(e)
      BY <1>1
    <3> QED
      BY <1>3, <1>5, <3>1
  <2>2. 1 \in 1 .. Len(e) - 1 /\ Len(Tail(e)) # 0
    BY <1>1, <2>1
  <2>3. Tail(e)[1] = e[1 + 1]
    BY <1>1, <2>2
  <2>4. Tail(e) # <<>>
    BY <1>1, <2>2, EmptySeq
  <2> QED
    BY <2>1, <2>3, <2>4
<1> QED
  BY <1>4, <1>5 DEF FollowedIn

\* A block in front of a rest keeps it: no word ends the block.
LEMMA FollowedConcat ==
    ASSUME NEW d \in Seq(Items), NEW e \in Seq(Items), NEW words, NEW next,
           FollowedIn(d, words, next), FollowedIn(e, words, next)
    PROVE  FollowedIn(d \o e, words, next)
<1>1. /\ d \o e \in Seq(Items)
      /\ Len(d) \in Nat /\ Len(e) \in Nat /\ Len(d \o e) = Len(d) + Len(e)
      /\ \A i \in 1 .. Len(d) + Len(e) :
            (d \o e)[i] = IF i <= Len(d) THEN d[i] ELSE e[i - Len(d)]
  BY ConcatItems
<1>2. /\ DOMAIN d = 1 .. Len(d) /\ DOMAIN e = 1 .. Len(e)
      /\ DOMAIN (d \o e) = 1 .. Len(d) + Len(e)
  BY <1>1, LenProperties
<1> DEFINE c == d \o e
<1>3. \A i \in 1 .. Len(d) + Len(e) : c[i] = IF i <= Len(d) THEN d[i] ELSE e[i - Len(d)]
  BY <1>1
<1>4. Len(c) = Len(d) + Len(e) /\ DOMAIN c = 1 .. Len(d) + Len(e)
  BY <1>1, <1>2
<1> HIDE DEF c
<1>5. ASSUME NEW i \in 1 .. Len(d) + Len(e), Reads(c[i], words)
      PROVE  i < Len(c) /\ c[i + 1].k = "tok" /\ c[i + 1].set \subseteq next
  <2>1. CASE i <= Len(d)
    <3>1. i \in DOMAIN d /\ c[i] = d[i]
      BY <1>1, <1>2, <1>3, <2>1
    <3>2. i < Len(d) /\ d[i + 1].k = "tok" /\ d[i + 1].set \subseteq next
      BY <1>5, <3>1 DEF FollowedIn
    <3>3. i + 1 \in 1 .. Len(d) + Len(e) /\ i + 1 <= Len(d) /\ i < Len(c)
      BY <1>1, <1>4, <3>2
    <3>4. c[i + 1] = d[i + 1]
      BY <1>3, <3>3
    <3> QED
      BY <3>2, <3>3, <3>4
  <2>2. CASE ~(i <= Len(d))
    <3>1. PICK j \in Int : j = i - Len(d)
      <4>1. i - Len(d) \in Int
        BY <1>1
      <4> QED
        BY <4>1
    <3>2. j \in DOMAIN e /\ c[i] = e[j]
      BY <1>1, <1>2, <1>3, <2>2, <3>1
    <3>3. j < Len(e) /\ e[j + 1].k = "tok" /\ e[j + 1].set \subseteq next
      BY <1>5, <3>2 DEF FollowedIn
    <3>4. /\ i + 1 \in 1 .. Len(d) + Len(e) /\ ~(i + 1 <= Len(d)) /\ i < Len(c)
          /\ (i + 1) - Len(d) = j + 1
      BY <1>1, <1>4, <2>2, <3>1, <3>3
    <3>5. c[i + 1] = e[j + 1]
      BY <1>3, <3>4
    <3> QED
      BY <3>3, <3>4, <3>5
  <2> QED
    BY <2>1, <2>2
<1>6. FollowedIn(c, words, next)
  BY <1>4, <1>5 DEF FollowedIn
<1> QED
  BY <1>6 DEF c

\* So no step of a function leaves these rests.
LEMMA FollowedClosed ==
    ASSUME NEW parts, AreParts(parts), NEW words, NEW next, NEW rules,
           Followed(parts, words, next, rules)
    PROVE  ClosedUnderSteps(FollowedRests(parts, words, next, rules))
<1> SUFFICES ASSUME NEW rule \in DOMAIN Grammar, NEW X, X = ItemsIn(parts, rule),
                    NEW S, S = {e \in Seq(X) : rule \notin rules => FollowedIn(e, words, next)}
             PROVE  /\ Grammar[rule] \in S
                    /\ \A e \in Seq(Items) : e \in S /\ e # <<>> =>
                          /\ e[1].k \in {"tok", "rule"} => Tail(e) \in S
                          /\ \A f \in Seq(Items) : Decides(e, f) => f \in S
  BY Zenon DEF ClosedUnderSteps, FollowedRests
<1>1. /\ X \subseteq Items /\ Grammar[rule] \in Seq(X) /\ Grammar[rule] \in SequencesIn(parts, rule)
      /\ \A it \in X : \A n \in DOMAIN it.alts : it.alts[n] \in Seq(Items) =>
            it.alts[n] \in Seq(X) /\ it.alts[n] \in SequencesIn(parts, rule)
  BY ItemAlternatives
<1>2. \A e \in SequencesIn(parts, rule) : rule \notin rules => FollowedIn(e, words, next)
  BY DEF Followed
<1>3. Grammar[rule] \in S
  BY <1>1, <1>2
<1>4. ASSUME NEW e \in S, e # <<>>, e \in Seq(Items)
      PROVE  Tail(e) \in S /\ e[1] \in X
  <2>1. Tail(e) \in Seq(X) /\ Head(e) \in X /\ Head(e) = e[1]
    BY <1>4, HeadTailProperties
  <2>2. rule \notin rules => FollowedIn(Tail(e), words, next)
    BY <1>4, FollowedTail
  <2> QED
    BY <2>1, <2>2
<1>5. ASSUME NEW e \in S, e # <<>>, e \in Seq(Items), NEW f \in Seq(Items), Decides(e, f)
      PROVE  f \in S
  <2>1. CASE f = Tail(e)
    BY <1>4, <1>5, <2>1
  <2>2. ASSUME NEW n \in DOMAIN e[1].alts, e[1].alts[n] \in Seq(Items),
               f = e[1].alts[n] \o (IF e[1].k = "star" THEN e ELSE Tail(e))
        PROVE  f \in S
    <3> DEFINE b == e[1].alts[n]
               t == IF e[1].k = "star" THEN e ELSE Tail(e)
    <3>1. b \in Seq(X) /\ t \in S /\ t \in Seq(X) /\ b \in Seq(Items) /\ t \in Seq(Items)
      <4>1. Tail(e) \in Seq(Items)
        BY <1>5, TailItems
      <4> QED
        BY <1>1, <1>4, <1>5, <2>2, <4>1
    <3>2. rule \notin rules => FollowedIn(b, words, next) /\ FollowedIn(t, words, next)
      <4>1. b \in SequencesIn(parts, rule)
        BY <1>1, <1>4, <1>5, <2>2
      <4>2. rule \notin rules => FollowedIn(b, words, next)
        BY <1>2, <4>1
      <4> HIDE DEF t
      <4>3. rule \notin rules => FollowedIn(t, words, next)
        BY <3>1
      <4> QED
        BY <4>2, <4>3
    <3> HIDE DEF b, t
    <3>3. b \o t \in Seq(X)
      BY <3>1, ConcatProperties
    <3>4. rule \notin rules => FollowedIn(b \o t, words, next)
      BY <3>1, <3>2, FollowedConcat
    <3> QED
      BY <2>2, <3>3, <3>4 DEF b, t
  <2> QED
    BY <1>5, <2>1, <2>2 DEF Decides
<1> QED
  BY <1>3, <1>4, <1>5

(***************************************************************************)
(* What stands directly before one of the words, or before the block or    *)
(* the decision that begins with it.                                       *)
(***************************************************************************)
PrecededRests(parts, words, before, rules) ==
    [rule \in DOMAIN Grammar |->
        {e \in Seq(ItemsIn(parts, rule)) : rule \notin rules => PrecededIn(e, words, before)}]

\* The tail of a rest keeps it; if it begins with a word, one of before was cut.
LEMMA PrecededTail ==
    ASSUME NEW e \in Seq(Items), e # <<>>, NEW words, NEW before, PrecededIn(e, words, before)
    PROVE  /\ PrecededIn(Tail(e), words, before)
           /\ Tail(e) # <<>> /\ BeginsWith(Tail(e)[1], words) =>
                 e[1].k = "tok" /\ e[1].set \subseteq before
<1> DEFINE t == Tail(e)
<1>1. /\ Len(e) \in Nat \ {0} /\ t \in Seq(Items) /\ Len(t) = Len(e) - 1
      /\ \A i \in 1 .. Len(e) - 1 : t[i] = e[i + 1]
  BY TailItems
<1>2. DOMAIN t = 1 .. Len(e) - 1 /\ DOMAIN e = 1 .. Len(e) /\ (t # <<>> => Len(t) # 0)
  BY <1>1, LenProperties, EmptySeq
<1> HIDE DEF t
<1>3. \A i \in 1 .. Len(e) : i > 1 /\ BeginsWith(e[i], words) =>
         e[i - 1].k = "tok" /\ e[i - 1].set \subseteq before
  BY <1>2 DEF PrecededIn
<1>4. ASSUME NEW i \in DOMAIN t, i > 1, BeginsWith(t[i], words)
      PROVE  t[i - 1].k = "tok" /\ t[i - 1].set \subseteq before
  <2>1. PICK j \in Int : j = i - 1
    BY <1>1, <1>2
  <2>2. /\ i + 1 \in 1 .. Len(e) /\ i + 1 > 1 /\ (i + 1) - 1 = i
        /\ j \in 1 .. Len(e) - 1 /\ j + 1 = i
    BY <1>1, <1>2, <1>4, <2>1
  <2>3. t[i] = e[i + 1] /\ t[j] = e[j + 1]
    BY <1>1, <1>2, <2>2
  <2>4. e[i].k = "tok" /\ e[i].set \subseteq before
    BY <1>3, <1>4, <2>2, <2>3
  <2> QED
    BY <2>1, <2>2, <2>3, <2>4
<1>5. ASSUME t # <<>>, BeginsWith(t[1], words)
      PROVE  e[1].k = "tok" /\ e[1].set \subseteq before
  <2>1. 1 \in 1 .. Len(e) - 1 /\ 1 + 1 \in 1 .. Len(e) /\ 1 + 1 > 1 /\ (1 + 1) - 1 = 1
    BY <1>1, <1>2, <1>5
  <2>2. t[1] = e[1 + 1]
    BY <1>1, <2>1
  <2> QED
    BY <1>3, <1>5, <2>1, <2>2
<1>6. PrecededIn(t, words, before)
  BY <1>4 DEF PrecededIn
<1> QED
  BY <1>5, <1>6 DEF t

\* A block in front of a rest that does not begin with a word keeps it.
LEMMA PrecededConcat ==
    ASSUME NEW d \in Seq(Items), NEW e \in Seq(Items), NEW words, NEW before,
           PrecededIn(d, words, before), PrecededIn(e, words, before),
           e # <<>> => ~BeginsWith(e[1], words)
    PROVE  PrecededIn(d \o e, words, before)
<1> DEFINE c == d \o e
<1>1. /\ c \in Seq(Items)
      /\ Len(d) \in Nat /\ Len(e) \in Nat /\ Len(c) = Len(d) + Len(e)
      /\ \A i \in 1 .. Len(d) + Len(e) : c[i] = IF i <= Len(d) THEN d[i] ELSE e[i - Len(d)]
  BY ConcatItems
<1>2. DOMAIN d = 1 .. Len(d) /\ DOMAIN e = 1 .. Len(e) /\ DOMAIN c = 1 .. Len(d) + Len(e)
  BY <1>1, LenProperties
<1> HIDE DEF c
<1>3. ASSUME NEW i \in 1 .. Len(d) + Len(e), i > 1, BeginsWith(c[i], words)
      PROVE  c[i - 1].k = "tok" /\ c[i - 1].set \subseteq before
  <2>1. PICK h \in Int : h = i - 1
    <3>1. i - 1 \in Int
      BY <1>1
    <3> QED
      BY <3>1
  <2>2. h \in 1 .. Len(d) + Len(e)
    BY <1>1, <1>3, <2>1
  <2>3. CASE i <= Len(d)
    <3>1. i \in DOMAIN d /\ c[i] = d[i] /\ h <= Len(d)
      BY <1>1, <1>2, <1>3, <2>1, <2>3
    <3>2. d[i - 1].k = "tok" /\ d[i - 1].set \subseteq before
      BY <1>3, <3>1 DEF PrecededIn
    <3>3. c[h] = d[h]
      BY <1>1, <2>2, <3>1
    <3> QED
      BY <2>1, <3>2, <3>3
  <2>4. CASE ~(i <= Len(d))
    <3>1. PICK j \in Int : j = i - Len(d)
      <4>1. i - Len(d) \in Int
        BY <1>1
      <4> QED
        BY <4>1
    <3>2. j \in 1 .. Len(e) /\ c[i] = e[j]
      BY <1>1, <2>4, <3>1
    <3>3. e # <<>>
      BY <1>1, <3>2, EmptySeq
    <3>4. j > 1
      BY <1>3, <3>2, <3>3
    <3>5. e[j - 1].k = "tok" /\ e[j - 1].set \subseteq before
      BY <1>2, <1>3, <3>2, <3>4 DEF PrecededIn
    <3>6. c[h] = e[j - 1]
      <4>1. ~(h <= Len(d)) /\ h - Len(d) = j - 1
        BY <1>1, <2>1, <3>1, <3>4
      <4> QED
        BY <1>1, <2>2, <4>1
    <3> QED
      BY <2>1, <3>5, <3>6
  <2> QED
    BY <2>3, <2>4
<1>4. PrecededIn(c, words, before)
  BY <1>2, <1>3 DEF PrecededIn
<1> QED
  BY <1>4 DEF c

(***************************************************************************)
(* What a decision makes of the rest begins with one of the words only if  *)
(* the decision did, and not behind a loop or a block that is skipped.     *)
(***************************************************************************)
LEMMA PrecededDecides ==
    ASSUME NEW parts, AreParts(parts), NEW words, NEW before, NEW rules,
           Preceded(parts, words, before, rules), NEW rule \in DOMAIN Grammar \ rules,
           NEW e \in Seq(Items), e \in Seq(ItemsIn(parts, rule)), PrecededIn(e, words, before),
           NEW f \in Seq(Items), Decides(e, f)
    PROVE  /\ PrecededIn(f, words, before)
           /\ f # <<>> /\ BeginsWith(f[1], words) => BeginsWith(e[1], words)
<1>1. e # <<>> /\ e[1].k # "tok" /\ Tail(e) \in Seq(Items)
  BY TailItems DEF Decides
<1>2. PrecededIn(Tail(e), words, before) /\ (Tail(e) # <<>> => ~BeginsWith(Tail(e)[1], words))
  BY <1>1, PrecededTail
<1>3. e[1] \in ItemsIn(parts, rule)
  <2>1. Head(e) \in ItemsIn(parts, rule) /\ Head(e) = e[1]
    BY <1>1, HeadTailProperties
  <2> QED
    BY <2>1
<1>4. /\ \A d \in SequencesIn(parts, rule) : PrecededIn(d, words, before)
      /\ e[1].k = "star" => ~BeginsWith(e[1], words)
      /\ \A n \in DOMAIN e[1].alts :
            e[1].alts[n] # <<>> /\ BeginsWith(e[1].alts[n][1], words) =>
               Reads(e[1].alts[n][1], words)
  BY <1>3 DEF Preceded
<1>5. ASSUME NEW n \in DOMAIN e[1].alts, e[1].alts[n] \in Seq(Items),
             f = e[1].alts[n] \o (IF e[1].k = "star" THEN e ELSE Tail(e))
      PROVE  /\ PrecededIn(f, words, before)
             /\ f # <<>> /\ BeginsWith(f[1], words) => BeginsWith(e[1], words)
  <2> DEFINE b == e[1].alts[n]
             t == IF e[1].k = "star" THEN e ELSE Tail(e)
  <2>1. t \in Seq(Items) /\ PrecededIn(t, words, before) /\ (t # <<>> => ~BeginsWith(t[1], words))
    <3>1. CASE e[1].k = "star"
      BY <1>4, <3>1
    <3>2. CASE e[1].k # "star"
      BY <1>1, <1>2, <3>2
    <3> QED
      BY <3>1, <3>2
  <2>2. b \in Seq(Items) /\ PrecededIn(b, words, before) /\ f = b \o t
    <3>1. b \in SequencesIn(parts, rule)
      BY SMTT(60), <1>3, <1>5, ItemAlternatives
    <3> QED
      BY <1>4, <1>5, <3>1
  <2>3. b # <<>> /\ BeginsWith(b[1], words) => BeginsWith(e[1], words)
    BY <1>4 DEF BeginsWith
  <2> HIDE DEF b, t
  <2>4. PrecededIn(f, words, before)
    BY <2>1, <2>2, PrecededConcat
  <2>5. ASSUME f # <<>>, BeginsWith(f[1], words)
        PROVE  BeginsWith(e[1], words)
    <3>1. CASE b = <<>>
      <4>1. f = t
        BY <2>1, <2>2, <3>1, ConcatEmptySeq
      <4> QED
        BY <2>1, <2>5, <4>1
    <3>2. CASE b # <<>>
      <4>1. Len(b) \in Nat \ {0} /\ Len(t) \in Nat
        BY <2>1, <2>2, <3>2, TailItems, LenProperties
      <4>2. 1 \in 1 .. Len(b) + Len(t) /\ 1 <= Len(b)
        BY <4>1
      <4>3. f[1] = b[1]
        BY <2>1, <2>2, <4>2, ConcatItems
      <4> QED
        BY <2>3, <2>5, <3>2, <4>3
    <3> QED
      BY <3>1, <3>2
  <2> QED
    BY <2>4, <2>5
<1> QED
  BY <1>2, <1>5 DEF Decides

\* So no step of a function leaves these rests.
LEMMA PrecededClosed ==
    ASSUME NEW parts, AreParts(parts), NEW words, NEW before, NEW rules,
           Preceded(parts, words, before, rules)
    PROVE  ClosedUnderSteps(PrecededRests(parts, words, before, rules))
<1> SUFFICES ASSUME NEW rule \in DOMAIN Grammar, NEW X, X = ItemsIn(parts, rule),
                    NEW S, S = {e \in Seq(X) : rule \notin rules => PrecededIn(e, words, before)}
             PROVE  /\ Grammar[rule] \in S
                    /\ \A e \in Seq(Items) : e \in S /\ e # <<>> =>
                          /\ e[1].k \in {"tok", "rule"} => Tail(e) \in S
                          /\ \A f \in Seq(Items) : Decides(e, f) => f \in S
  BY Zenon DEF ClosedUnderSteps, PrecededRests
<1>1. Grammar[rule] \in Seq(X) /\ Grammar[rule] \in SequencesIn(parts, rule)
  BY ItemAlternatives
<1>2. Grammar[rule] \in S
  BY <1>1 DEF Preceded
<1>3. ASSUME NEW e \in S, e # <<>>, e \in Seq(Items)
      PROVE  Tail(e) \in S
  <2>1. Tail(e) \in Seq(X)
    BY <1>3, HeadTailProperties
  <2>2. rule \notin rules => PrecededIn(Tail(e), words, before)
    BY <1>3, PrecededTail
  <2> QED
    BY <2>1, <2>2
<1>4. ASSUME NEW e \in S, e # <<>>, e \in Seq(Items), NEW f \in Seq(Items), Decides(e, f)
      PROVE  f \in S
  <2>1. f \in Seq(X)
    BY <1>4, OverItemsClosed DEF ClosedUnderSteps, OverItems
  <2>2. rule \notin rules => PrecededIn(f, words, before)
    BY <1>4, PrecededDecides
  <2> QED
    BY <2>1, <2>2
<1> QED
  BY <1>2, <1>3, <1>4

-----------------------------------------------------------------------------
(***************************************************************************)
(* What the tree tells of a token and its neighbours.                      *)
(***************************************************************************)
\* A token is attached to a rule that reads it.
TokensInv(parts) ==
    \A words : \A p \in DOMAIN owner : input[p] \in words => RuleAt(p) \in ReadBy(parts, words)

\* Outside the rules, one of the words is followed by one of next in the same
\* node, which is what the active function expects if the parse stands there.
FollowInv(words, next, rules) ==
    \A p \in DOMAIN owner : input[p] \in words /\ RuleAt(p) \notin rules =>
        \/ p + 1 \in DOMAIN owner /\ input[p + 1] \in next /\ owner[p + 1] = owner[p]
        \/ /\ p = Len(owner) /\ stack # <<>> /\ Top.node = owner[p] /\ Top.rest # <<>>
           /\ Top.rest[1].k = "tok" /\ Top.rest[1].set \subseteq next

\* The token before p belongs to the node, and is one of before.
ComesBehind(p, node, before) == p > 1 /\ owner[p - 1] = node /\ input[p - 1] \in before

\* Outside the rules, one of the words stands behind one of before in the same
\* node, and only the active function can be about to match one.
PrecedeInv(words, before, rules) ==
    /\ \A p \in DOMAIN owner :
          input[p] \in words /\ RuleAt(p) \notin rules => ComesBehind(p, owner[p], before)
    /\ \A d \in DOMAIN stack :
          RuleOf(d) \notin rules /\ stack[d].rest # <<>> /\ BeginsWith(stack[d].rest[1], words) =>
             d = Len(stack) /\ ComesBehind(pos, stack[d].node, before)

\* A token that is matched is one that an item of the rule reads.
LEMMA MatchReads ==
    ASSUME TypeOK, Match, NEW words, input[pos] \in words
    PROVE  Reads(Top.rest[1], words)
BY MatchStep DEF Reads

\* The rules of the tokens that have been matched do not change.
LEMMA TokensStay ==
    ASSUME TreeInv, [Next]_vars, UNCHANGED <<input, owner>>
    PROVE  DOMAIN owner' = DOMAIN owner /\ \A p \in DOMAIN owner : RuleAt(p)' = RuleAt(p)
BY OwnerTypes, RulesKept DEF RuleAt

\* A step is a match, or it leaves the tokens alone and matches no token item.
LEMMA OtherSteps ==
    ASSUME TreeInv, [Next]_vars, ~Match
    PROVE  /\ UNCHANGED <<input, owner, pos>>
           /\ \/ UNCHANGED stack
              \/ stack = <<>> /\ owner = <<>>
              \/ stack # <<>> /\ (Top.rest = <<>> \/ Top.rest[1].k # "tok")
<1>1. TypeOK
  BY DEF TreeInv
<1>2. CASE Call
  BY <1>2, CallStep
<1>3. CASE EnterRule
  BY <1>1, <1>3, EnterStep
<1>4. CASE Choose \/ EnterOptional \/ Iterate
  BY <1>1, <1>4, DecisionStep DEF Decides
<1>5. CASE ExitRule
  BY <1>5 DEF ExitRule
<1>6. CASE SyntaxError \/ Keep \/ UNCHANGED vars
  BY <1>6 DEF SyntaxError, Keep, vars
<1> QED
  BY <1>2, <1>3, <1>4, <1>5, <1>6 DEF Next, Step

\* The first item that the active function has still to match is one of its rule.
LEMMA FirstItem ==
    ASSUME TypeOK, stack # <<>>, Top.rest # <<>>, NEW parts, RestsIn(OverItems(parts))
    PROVE  Top.rest[1] \in ItemsIn(parts, RuleOf(Len(stack)))
<1>1. PICK l \in Nat \ {0} : l = Len(stack)
  BY TopType
<1>2. l \in DOMAIN stack /\ RuleOf(l) \in DOMAIN Grammar /\ Top = stack[l]
  BY <1>1, FrameTypes DEF Top
<1>3. Top.rest \in Seq(ItemsIn(parts, RuleOf(l)))
  BY <1>2 DEF RestsIn, OverItems
<1>4. Head(Top.rest) \in ItemsIn(parts, RuleOf(l)) /\ Head(Top.rest) = Top.rest[1]
  BY <1>3, HeadTailProperties
<1> QED
  BY <1>1, <1>4

\* Only a match attaches a token, and the item it matches is one of the rule.
LEMMA StepKeepsTokens ==
    ASSUME TreeInv, [Next]_vars, NEW parts, RestsIn(OverItems(parts)), TokensInv(parts)
    PROVE  TokensInv(parts)'
<1>1. CASE ~Match
  BY <1>1, OtherSteps, TokensStay DEF TokensInv
<1>2. CASE Match
  <2>1. /\ TypeOK /\ stack # <<>> /\ Top.rest # <<>> /\ Top.rest[1].k = "tok"
        /\ input[pos] \in Top.rest[1].set /\ input' = input
    BY <1>2, MatchStep DEF TreeInv
  <2>2. PICK n \in Nat \ {0} : n = pos
    BY OwnerTypes
  <2>3. /\ DOMAIN owner = 1 .. n - 1 /\ DOMAIN owner' = 1 .. n
        /\ \A p \in 1 .. n :
              RuleAt(p)' = IF p = n THEN RuleOf(Len(stack)) ELSE RuleAt(p)
    BY <1>2, <2>2, OwnerTypes, MatchedToken
  <2>4. RuleOf(Len(stack)) \in DOMAIN Grammar
    <3>1. Len(stack) \in 1 .. Len(stack)
      BY <2>1, TopType
    <3> QED
      BY <2>1, <3>1, FrameTypes
  <2>5. ASSUME NEW p \in 1 .. n, NEW words, input[p] \in words
        PROVE  RuleAt(p)' \in ReadBy(parts, words)
    <3>1. CASE p = n
      <4>1. Reads(Top.rest[1], words)
        BY <1>2, <2>1, <2>2, <2>5, <3>1, MatchReads
      <4> QED
        BY <2>1, <2>3, <2>4, <3>1, <4>1, FirstItem DEF ReadBy
    <3>2. CASE p # n
      <4>1. p \in 1 .. n - 1
        BY <3>2
      <4> QED
        BY <2>3, <2>5, <3>2, <4>1 DEF TokensInv
    <3> QED
      BY <3>1, <3>2
  <2> QED
    BY <2>1, <2>3, <2>5 DEF TokensInv
<1> QED
  BY <1>1, <1>2

\* A match of a word leaves one of next to be matched at once.
LEMMA StepKeepsFollow ==
    ASSUME TreeInv, [Next]_vars, NEW parts, NEW words, NEW next, NEW rules,
           RestsIn(FollowedRests(parts, words, next, rules)), FollowInv(words, next, rules)
    PROVE  FollowInv(words, next, rules)'
<1>1. CASE ~Match
  <2>1. UNCHANGED <<input, owner>>
    BY <1>1, OtherSteps
  <2>2. DOMAIN owner' = DOMAIN owner /\ \A p \in DOMAIN owner : RuleAt(p)' = RuleAt(p)
    BY <2>1, TokensStay
  <2>3. CASE UNCHANGED stack
    BY <2>1, <2>2, <2>3 DEF FollowInv, Top
  <2>4. CASE stack = <<>> /\ owner = <<>>
    BY <2>1, <2>2, <2>4 DEF FollowInv
  <2>5. CASE stack # <<>> /\ (Top.rest = <<>> \/ Top.rest[1].k # "tok")
    BY <2>1, <2>2, <2>5 DEF FollowInv
  <2> QED
    BY <1>1, <2>3, <2>4, <2>5, OtherSteps
<1>2. CASE Match
  <2>1. /\ TypeOK /\ stack # <<>> /\ Top.rest # <<>> /\ Top.rest \in Seq(Items)
        /\ input[pos] \in Top.rest[1].set /\ input' = input /\ nodes' = nodes
        /\ Tail(Top.rest) \in Seq(Items) /\ Continue(Tail(Top.rest))
    BY <1>2, MatchStep DEF TreeInv
  <2>2. PICK l \in Nat \ {0} : l = Len(stack)
    BY <2>1, TopType
  <2>3. PICK n \in Nat \ {0} : n = pos
    BY OwnerTypes
  <2>4. /\ Len(owner) = n - 1 /\ DOMAIN owner = 1 .. n - 1 /\ DOMAIN owner' = 1 .. n
        /\ owner'[n] = Top.node /\ \A p \in 1 .. n - 1 : owner'[p] = owner[p]
        /\ \A p \in 1 .. n : RuleAt(p)' = IF p = n THEN RuleOf(l) ELSE RuleAt(p)
    BY <1>2, <2>2, <2>3, OwnerTypes, MatchedToken
  <2>5. /\ Len(owner') = n /\ stack' # <<>> /\ Top = stack[l]
        /\ Top'.node = Top.node /\ Top'.rest = Tail(Top.rest)
    <3>1. /\ Len(stack') = l /\ stack'[l].rest = Tail(Top.rest) /\ stack'[l].node = stack[l].node
          /\ Top = stack[l]
      <4>1. l \in 1 .. l
        OBVIOUS
      <4> QED
        BY <2>1, <2>2, <4>1, TopStep
    <3>2. Len(owner') = n
      <4>1. TreeInv' /\ pos' = n + 1
        BY <1>2, <2>3, StepKeepsTree, MatchStep DEF TreeInv
      <4> QED
        BY <4>1 DEF TreeInv, TokensHangInnermost
    <3>3. stack' # <<>>
      BY <3>1
    <3> QED
      BY <3>1, <3>2, <3>3 DEF Top
  <2>6. ASSUME NEW p \in 1 .. n, input[p] \in words, RuleAt(p)' \notin rules
        PROVE  \/ p + 1 \in 1 .. n /\ input[p + 1] \in next /\ owner'[p + 1] = owner'[p]
               \/ /\ p = n /\ Top'.node = owner'[p] /\ Top'.rest # <<>>
                  /\ Top'.rest[1].k = "tok" /\ Top'.rest[1].set \subseteq next
    <3>1. CASE p = n
      <4>1. RuleOf(l) \notin rules /\ Reads(Top.rest[1], words)
        BY <1>2, <2>1, <2>3, <2>4, <2>6, <3>1, MatchReads
      <4>2. FollowedIn(Top.rest, words, next)
        <5>1. l \in DOMAIN stack /\ RuleOf(l) \in DOMAIN Grammar
          BY <2>1, <2>2, FrameTypes
        <5> QED
          BY <2>5, <4>1, <5>1 DEF RestsIn, FollowedRests
      <4>3. /\ Tail(Top.rest) # <<>> /\ Tail(Top.rest)[1].k = "tok"
            /\ Tail(Top.rest)[1].set \subseteq next
        BY <2>1, <4>1, <4>2, FollowedTail
      <4> QED
        BY <2>4, <2>5, <3>1, <4>3
    <3>2. CASE p # n
      <4>1. p \in 1 .. n - 1 /\ RuleAt(p) \notin rules /\ owner'[p] = owner[p]
        BY <2>4, <2>6, <3>2
      <4>2. CASE p + 1 \in DOMAIN owner /\ input[p + 1] \in next /\ owner[p + 1] = owner[p]
        BY <2>4, <4>1, <4>2
      <4>3. CASE p = Len(owner) /\ Top.node = owner[p] /\ Top.rest[1].set \subseteq next
        <5>1. p + 1 = n
          BY <2>4, <4>3
        <5> QED
          BY <2>1, <2>3, <2>4, <4>1, <4>3, <5>1
      <4> QED
        BY <2>4, <2>6, <4>1, <4>2, <4>3 DEF FollowInv
    <3> QED
      BY <3>1, <3>2
  <2> QED
    BY <2>1, <2>4, <2>5, <2>6 DEF FollowInv
<1> QED
  BY <1>1, <1>2

\* What stands before the words stays as it is, and the next one stands behind
\* the token that has just been matched.
LEMMA StepKeepsPrecede ==
    ASSUME TreeInv, [Next]_vars, NEW parts, AreParts(parts), NEW words, NEW before, NEW rules,
           Preceded(parts, words, before, rules),
           RestsIn(PrecededRests(parts, words, before, rules)),
           PrecedeInv(words, before, rules)
    PROVE  PrecedeInv(words, before, rules)'
<1> DEFINE Pending(d) ==
              /\ RuleOf(d) \notin rules /\ stack[d].rest # <<>>
              /\ BeginsWith(stack[d].rest[1], words)
<1>1. TypeOK /\ TypeOK'
  BY StepKeepsTree DEF TreeInv
<1>2. PICK l \in Nat : l = Len(stack)
  BY <1>1, FrameTypes
<1>3. /\ DOMAIN stack = 1 .. l /\ Len(stack') \in Nat /\ DOMAIN stack' = 1 .. Len(stack')
      /\ \A d \in 1 .. l : RuleOf(d) \in DOMAIN Grammar /\ stack[d].rest \in Seq(Items)
      /\ stack # <<>> => l # 0 /\ Top = stack[l]
  <2>1. stack # <<>> => Top = stack[l] /\ Len(stack) # 0
    BY <1>1, <1>2, TopType DEF Top
  <2> QED
    BY <1>1, <1>2, <2>1, FrameTypes
<1>4. \A d \in 1 .. l : Pending(d) => d = l /\ ComesBehind(pos, stack[d].node, before)
  BY <1>2, <1>3 DEF PrecedeInv
<1>5. \A n \in DOMAIN nodes : nodes'[n].rule = nodes[n].rule
  BY RulesKept
<1>6. ASSUME UNCHANGED <<input, owner, pos>>,
             \A d \in 1 .. Len(stack') : Pending(d)' =>
                d = Len(stack') /\ ComesBehind(pos, stack'[d].node, before)
      PROVE  PrecedeInv(words, before, rules)'
  <2>1. DOMAIN owner' = DOMAIN owner /\ \A p \in DOMAIN owner : RuleAt(p)' = RuleAt(p)
    BY <1>6, TokensStay
  <2>2. \A p \in DOMAIN owner' :
           input'[p] \in words /\ RuleAt(p)' \notin rules => ComesBehind(p, owner[p], before)
    BY <1>6, <2>1 DEF PrecedeInv
  <2>3. \A p, node : ComesBehind(p, node, before) => ComesBehind(p, node, before)'
    BY <1>6 DEF ComesBehind
  <2> QED
    BY <1>3, <1>6, <2>2, <2>3 DEF PrecedeInv
<1>7. CASE Choose \/ EnterOptional \/ Iterate
  <2>1. stack # <<>> /\ UNCHANGED <<input, pos, owner>>
    BY <1>1, <1>7, DecisionStep
  <2>2. PICK f \in Seq(Items) : Decides(Top.rest, f) /\ Continue(f)
    BY <1>1, <1>7, DecisionStep
  <2>3. /\ Len(stack') = l /\ stack'[l].rest = f
        /\ \A d \in 1 .. l :
              /\ stack'[d].node = stack[d].node /\ RuleOf(d)' = RuleOf(d)
              /\ d # l => stack'[d].rest = stack[d].rest
    BY <1>1, <1>2, <1>5, <2>1, <2>2, TopStep
  <2>4. ASSUME RuleOf(l) \notin rules, f # <<>>, BeginsWith(f[1], words)
        PROVE  Pending(l)
    <3>1. /\ l \in 1 .. l /\ RuleOf(l) \in DOMAIN Grammar \ rules /\ Top.rest \in Seq(Items)
          /\ Top = stack[l]
      BY <1>3, <2>1, <2>4
    <3>2. /\ Top.rest \in Seq(ItemsIn(parts, RuleOf(l)))
          /\ PrecededIn(Top.rest, words, before)
      BY <1>3, <3>1 DEF RestsIn, PrecededRests
    <3>3. BeginsWith(Top.rest[1], words)
      BY <2>2, <2>4, <3>1, <3>2, PrecededDecides
    <3>4. Top.rest # <<>>
      BY <2>2 DEF Decides
    <3> QED
      BY <2>4, <3>1, <3>3, <3>4
  <2>5. ASSUME NEW d \in 1 .. l, Pending(d)'
        PROVE  d = l /\ ComesBehind(pos, stack'[d].node, before)
    <3>1. Pending(d)
      <4>1. CASE d = l
        BY <2>3, <2>4, <2>5, <4>1
      <4>2. CASE d # l
        BY <2>3, <2>5, <4>2
      <4> QED
        BY <4>1, <4>2
    <3> QED
      BY <1>4, <2>3, <3>1
  <2> QED
    BY <1>6, <2>1, <2>3, <2>5
<1>8. CASE EnterRule
  <2>1. /\ stack # <<>> /\ Top.rest # <<>> /\ Top.rest \in Seq(Items) /\ Top.rest[1].k = "rule"
        /\ Expected.sym \in DOMAIN Grammar /\ Len(stack') = l + 1
        /\ \A d \in 1 .. l - 1 : stack'[d] = stack[d]
        /\ stack'[l].node = Top.node /\ stack'[l].rest = Tail(Top.rest)
        /\ stack'[l + 1].node = Len(nodes) + 1
        /\ stack'[l + 1].rest = Grammar[Expected.sym]
        /\ nodes'[Len(nodes) + 1].rule = Expected.sym
        /\ UNCHANGED <<input, pos, owner>>
    BY <1>1, <1>2, <1>8, EnterStep
  <2>2. \A d \in 1 .. l : RuleOf(d)' = RuleOf(d)
    <3>1. \A d \in 1 .. l : stack[d].node \in DOMAIN nodes
      BY <1>1, <1>2, FrameTypes
    <3>2. \A d \in 1 .. l : stack'[d].node = stack[d].node
      <4>1. \A d \in 1 .. l : d \in 1 .. l - 1 \/ d = l
        OBVIOUS
      <4> QED
        BY <1>3, <2>1, <4>1
    <3> QED
      BY <1>5, <3>1, <3>2 DEF RuleOf
  <2>3. ASSUME NEW d \in 1 .. l + 1 PROVE ~Pending(d)'
    <3>1. CASE d \in 1 .. l - 1
      <4>1. d \in 1 .. l /\ d # l
        BY <3>1
      <4>2. ~Pending(d)
        BY <1>4, <4>1
      <4> QED
        BY <2>1, <2>2, <3>1, <4>1, <4>2
    <3>2. CASE d = l
      <4>1. l \in 1 .. l /\ Top = stack[l]
        BY <1>3, <2>1
      <4>2. RuleOf(l) \notin rules => PrecededIn(Top.rest, words, before)
        BY <1>3, <4>1 DEF RestsIn, PrecededRests
      <4>3. RuleOf(l) \notin rules /\ Tail(Top.rest) # <<>> =>
               ~BeginsWith(Tail(Top.rest)[1], words)
        BY <2>1, <4>2, PrecededTail
      <4> QED
        BY <2>1, <2>2, <3>2, <4>1, <4>3
    <3>3. CASE d = l + 1
      <4>1. RuleOf(d)' = Expected.sym /\ stack'[d].rest = Grammar[Expected.sym]
        BY <2>1, <3>3 DEF RuleOf
      <4> QED
        BY <2>1, <4>1 DEF Preceded
    <3>4. d \in 1 .. l - 1 \/ d = l \/ d = l + 1
      OBVIOUS
    <3> QED
      BY <3>1, <3>2, <3>3, <3>4
  <2> QED
    BY <1>6, <2>1, <2>3
<1>9. CASE ExitRule
  <2>1. /\ stack # <<>> /\ Len(stack') = l - 1 /\ \A d \in 1 .. l - 1 : stack'[d] = stack[d]
        /\ UNCHANGED <<input, pos, owner>>
    BY <1>1, <1>2, <1>9, ExitFrames DEF ExitRule
  <2>2. ASSUME NEW d \in 1 .. l - 1 PROVE ~Pending(d)'
    <3>1. d \in 1 .. l /\ d # l
      OBVIOUS
    <3>2. RuleOf(d)' = RuleOf(d)
      BY <1>1, <1>2, <1>5, <2>1, <3>1, FrameTypes DEF RuleOf
    <3> QED
      BY <1>4, <2>1, <3>1, <3>2
  <2> QED
    BY <1>6, <2>1, <2>2
<1>10. CASE Call
  <2>1. /\ Len(stack') = 1 /\ stack'[1].rest = Grammar[StartRule] /\ RuleOf(1)' = StartRule
        /\ UNCHANGED <<input, pos, owner>>
    BY <1>10, CallStep DEF RuleOf
  <2>2. ~Pending(1)'
    BY <2>1, GrammarAssumption DEF Preceded
  <2>3. \A d \in 1 .. 1 : d = 1
    OBVIOUS
  <2> QED
    BY <1>6, <2>1, <2>2, <2>3
<1>11. CASE SyntaxError \/ Keep \/ UNCHANGED vars
  <2>1. UNCHANGED <<input, pos, stack, nodes, owner>>
    BY <1>11 DEF SyntaxError, Keep, vars
  <2> QED
    BY <2>1 DEF PrecedeInv, ComesBehind, RuleAt, RuleOf
<1>12. CASE Match
  <2>1. /\ stack # <<>> /\ Top.rest # <<>> /\ Top.rest \in Seq(Items)
        /\ Top.rest[1].k = "tok" /\ input[pos] \in Top.rest[1].set /\ input' = input
        /\ Tail(Top.rest) \in Seq(Items) /\ Continue(Tail(Top.rest)) /\ pos' = pos + 1
    BY <1>1, <1>12, MatchStep
  <2>2. PICK n \in Nat \ {0} : n = pos
    BY OwnerTypes
  <2>3. /\ DOMAIN owner = 1 .. n - 1 /\ DOMAIN owner' = 1 .. n
        /\ owner'[n] = Top.node /\ \A p \in 1 .. n - 1 : owner'[p] = owner[p]
        /\ \A p \in 1 .. n : RuleAt(p)' = IF p = n THEN RuleOf(l) ELSE RuleAt(p)
    BY <1>2, <1>12, <2>2, OwnerTypes, MatchedToken
  <2>4. /\ l \in 1 .. l /\ Len(stack') = l /\ stack'[l].rest = Tail(Top.rest)
        /\ \A d \in 1 .. l :
              /\ stack'[d].node = stack[d].node /\ RuleOf(d)' = RuleOf(d)
              /\ d # l => stack'[d].rest = stack[d].rest
    <3>1. l \in 1 .. l
      BY <1>3, <2>1
    <3>2. \A d \in DOMAIN nodes : nodes'[d].rule = nodes[d].rule
      BY <1>5
    <3> QED
      BY <1>1, <1>2, <2>1, <3>1, <3>2, TopStep
  <2>5. \A node : \A p \in 1 .. n : ComesBehind(p, node, before) =>
           p > 1 /\ owner'[p - 1] = node /\ input'[p - 1] \in before
    <3>1. \A p \in 1 .. n : p > 1 => p - 1 \in 1 .. n - 1
      OBVIOUS
    <3> QED
      BY <2>1, <2>3, <3>1 DEF ComesBehind
  <2>6. ASSUME NEW p \in 1 .. n, input[p] \in words, RuleAt(p)' \notin rules
        PROVE  ComesBehind(p, owner'[p], before)
    <3>1. CASE p = n
      <4>1. Pending(l)
        <5>1. Reads(Top.rest[1], words)
          BY <1>1, <1>12, <2>2, <2>6, <3>1, MatchReads
        <5> QED
          BY <1>3, <2>1, <2>3, <2>6, <3>1, <5>1 DEF BeginsWith
      <4> QED
        BY <1>3, <1>4, <2>1, <2>2, <2>3, <2>4, <3>1, <4>1
    <3>2. CASE p # n
      <4>1. p \in 1 .. n - 1 /\ RuleAt(p) \notin rules /\ owner'[p] = owner[p]
        BY <2>3, <2>6, <3>2
      <4> QED
        BY <2>3, <2>6, <4>1 DEF PrecedeInv
    <3> QED
      BY <3>1, <3>2
  <2>7. ASSUME NEW d \in 1 .. l, Pending(d)'
        PROVE  /\ d = l /\ n + 1 > 1
               /\ owner'[(n + 1) - 1] = stack'[d].node /\ input'[(n + 1) - 1] \in before
    <3>1. CASE d = l
      <4>1. PrecededIn(Top.rest, words, before)
        BY <1>3, <2>1, <2>4, <2>7, <3>1 DEF RestsIn, PrecededRests
      <4>2. Top.rest[1].set \subseteq before
        BY <2>1, <2>4, <2>7, <3>1, <4>1, PrecededTail
      <4>3. (n + 1) - 1 = n /\ n + 1 > 1
        OBVIOUS
      <4>4. stack'[l].node = Top.node /\ input'[n] \in before
        BY <1>3, <2>1, <2>2, <2>4, <4>2
      <4> QED
        BY <2>3, <3>1, <4>3, <4>4
    <3>2. CASE d # l
      <4>1. Pending(d)
        BY <2>4, <2>7, <3>2
      <4> QED
        BY <1>4, <3>2, <4>1
    <3> QED
      BY <3>1, <3>2
  <2>8. \A p \in DOMAIN owner' :
           input'[p] \in words /\ RuleAt(p)' \notin rules =>
              p > 1 /\ owner'[p - 1] = owner'[p] /\ input'[p - 1] \in before
    BY <2>1, <2>3, <2>5, <2>6
  <2>9. pos' = n + 1
    BY <2>1, <2>2
  <2> QED
    BY <1>3, <2>4, <2>7, <2>8, <2>9 DEF PrecedeInv, ComesBehind
<1> QED
  BY <1>7, <1>8, <1>9, <1>10, <1>11, <1>12 DEF Next, Step

-----------------------------------------------------------------------------
(***************************************************************************)
(* What holds before the first step.                                       *)
(***************************************************************************)
LEMMA InitRests ==
    ASSUME Init, NEW S
    PROVE  RestsIn(S)
BY EmptySeq DEF Init, RestsIn

\* No token has been matched.
LEMMA InitTokens ==
    ASSUME Init
    PROVE  /\ \A parts : TokensInv(parts)
           /\ \A words, next, rules : FollowInv(words, next, rules)
           /\ \A words, before, rules : PrecedeInv(words, before, rules)
BY DEF Init, TokensInv, FollowInv, PrecedeInv

\* No bracket is open, and no function active.
LEMMA InitPairs ==
    ASSUME Init, NEW parts, NEW rules, NEW opening, NEW closing
    PROVE  PairsInv(parts, rules, opening, closing)
<1>1. stack = <<>> /\ Len(stack) = 0 /\ pos = 1 /\ owner = <<>> /\ DOMAIN owner = {}
  BY DEF Init
<1>2. BracketsAt(rules, opening) = {} /\ BracketsAt(rules, closing) = {}
  BY <1>1 DEF BracketsAt
<1> PICK m : m = [d \in 0 .. 0 |-> 1]
  OBVIOUS
<1>3. m \in [0 .. 0 -> 1 .. 1] /\ m[0] = 1
  OBVIOUS
<1>4. \A d \in 0 .. 0 : d = 0
  OBVIOUS
<1>5. Balance({}, {}, 1, 0) = 0
  BY FS_EmptySet DEF Balance
<1>6. Flat({}, {}, 1, 0)
  BY <1>5 DEF Flat
<1>7. Hanging({}, {}, m)
  BY <1>1, <1>3, <1>4, <1>5, <1>6 DEF Hanging
<1>8. InTune(parts, rules, opening, closing, m)
  BY <1>1 DEF InTune
<1> QED
  BY <1>2, <1>7, <1>8 DEF PairsInv

-----------------------------------------------------------------------------
(***************************************************************************)
(* What an accepted parse tells.                                           *)
(***************************************************************************)
\* The bracket at u is the one that Matched finds for p.
Answers(opens, closes, u, p) ==
    /\ u \in opens /\ u \in 1 .. p - 1
    /\ owner[u] = owner[p]
    /\ Balance(opens, closes, u, p) = 0
    /\ \A r \in u + 1 .. p : Balance(opens, closes, r, p) < 0

\* Partner is the bracket that Matched speaks of.
LEMMA MatchedPartner ==
    ASSUME NEW opens, NEW closes, opens \subseteq Int, NEW p \in Int, Matched(opens, closes, p)
    PROVE  Answers(opens, closes, Partner(opens, closes, p), p)
<1>1. PICK t \in opens :
        /\ t \in 1 .. p - 1
        /\ owner[t] = owner[p]
        /\ Balance(opens, closes, t, p) = 0
        /\ \A r \in t + 1 .. p : Balance(opens, closes, r, p) < 0
  BY DEF Matched
<1> DEFINE S == {q \in opens : q <= p /\ Balance(opens, closes, q, p) = 0}
<1>2. t \in S
  BY <1>1
<1>3. ASSUME NEW q \in S PROVE t >= q
  <2>1. q \in Int /\ q <= p /\ Balance(opens, closes, q, p) = 0 /\ ~(0 < 0)
    OBVIOUS
  <2>2. q \notin t + 1 .. p
    BY <1>1, <2>1
  <2> QED
    BY <1>1, <2>1, <2>2
<1>4. Max(S) = t
  <2>1. \A x \in S : (\A y \in S : x >= y) => x = t
    BY <1>1, <1>2, <1>3
  <2> HIDE DEF S
  <2> QED
    BY <1>2, <1>3, <2>1 DEF Max
<1>5. Partner(opens, closes, p) = t
  BY <1>4 DEF Partner
<1> QED
  BY <1>1, <1>5 DEF Answers

\* No function is active any more, so every bracket has been closed.
LEMMA AcceptedPairs ==
    ASSUME TreeInv, stack = <<>>, NEW parts, NEW rules, NEW opening, NEW closing,
           PairsInv(parts, rules, opening, closing)
    PROVE  PairUp(BracketsAt(rules, opening), BracketsAt(rules, closing))
<1> PICK opens : opens = BracketsAt(rules, opening)
  OBVIOUS
<1> PICK closes : closes = BracketsAt(rules, closing)
  OBVIOUS
<1>1. pos \in Nat \ {0} /\ Len(owner) = pos - 1 /\ DOMAIN owner = 1 .. pos - 1
  BY OwnerTypes
<1>2. opens \subseteq Int /\ closes \subseteq Int
  BY <1>1 DEF BracketsAt
<1>3. Balance(opens, closes, 1, Len(owner)) = 0
  <2>1. PICK m : Hanging(opens, closes, m)
    BY DEF PairsInv
  <2>2. Len(stack) = 0
    OBVIOUS
  <2>3. Flat(opens, closes, 1, pos - 1)
    BY <2>1, <2>2 DEF Hanging
  <2> QED
    BY <1>1, <2>3 DEF Flat
<1>4. ASSUME NEW p \in closes
      PROVE  Balance(opens, closes, 1, p) >= 0 /\ owner[Partner(opens, closes, p)] = owner[p]
  <2>1. Matched(opens, closes, p)
    BY DEF PairsInv
  <2> QED
    BY <1>2, <2>1, MatchedPartner DEF Matched, Answers
<1> QED
  BY <1>3, <1>4 DEF PairUp

\* The parse stands behind the stream, which ends with EOF.
LEMMA AcceptedStream ==
    ASSUME TreeInv, AcceptedIsComplete, Accepted
    PROVE  /\ stack = <<>> /\ Len(owner) \in Nat \ {0} /\ DOMAIN owner = 1 .. Len(owner)
           /\ input[Len(owner)] = "EOF"
<1>1. stack = <<>> /\ pos = Len(input) + 1
  BY DEF Accepted, AcceptedIsComplete
<1>2. input \in Seq(STRING) /\ input # <<>> /\ input[Len(input)] = "EOF"
  BY InputsAssumption DEF TreeInv, TypeOK
<1>3. Len(input) \in Nat \ {0}
  BY <1>2, LenProperties, EmptySeq
<1>4. Len(owner) = Len(input) /\ DOMAIN owner = 1 .. Len(owner)
  BY <1>1, <1>3, OwnerTypes
<1> QED
  BY <1>1, <1>2, <1>3, <1>4

(***************************************************************************)
(* The token behind a word tells whether a function of the rules has       *)
(* matched the word.                                                       *)
(***************************************************************************)
LEMMA AnnouncedByRule ==
    ASSUME TreeInv, AcceptedIsComplete, Accepted, NEW parts, TokensInv(parts),
           NEW word, word # "EOF", NEW heads, word \in heads,
           "keyword" \notin ReadBy(parts, heads),
           NEW next, NEW all, next \subseteq all, NEW read, all \subseteq read,
           NEW rules, ReadBy(parts, read) \cap rules = {},
           FollowInv({word}, next, rules), PrecedeInv(all, Words, {"keyword"}),
           NEW p \in DOMAIN owner, input[p] = word
    PROVE  Announces(p, next) <=> RuleAt(p) \notin rules
<1>1. /\ stack = <<>> /\ Len(owner) \in Nat \ {0} /\ DOMAIN owner = 1 .. Len(owner)
      /\ input[Len(owner)] = "EOF"
  BY AcceptedStream
<1>2. PICK q \in Int : q = p + 1
  BY <1>1
<1>3. q \in DOMAIN owner /\ q - 1 = p
  BY <1>1, <1>2
<1>4. ASSUME Announces(p, next)
      PROVE  RuleAt(p) \notin rules
  <2>1. input[q] \in next /\ RuleAt(q) # "keyword"
    BY <1>2, <1>4 DEF Announces
  <2>2. ComesBehind(q, owner[q], Words)
    BY <1>3, <2>1 DEF PrecedeInv
  <2>3. RuleAt(p) = RuleAt(q)
    BY <1>3, <2>2 DEF ComesBehind, RuleAt
  <2>4. RuleAt(q) \in ReadBy(parts, read)
    BY <1>3, <2>1 DEF TokensInv
  <2> QED
    BY <2>3, <2>4
<1>5. ASSUME RuleAt(p) \notin rules
      PROVE  Announces(p, next)
  <2>1. input[p + 1] \in next /\ owner[p + 1] = owner[p]
    BY <1>1, <1>5 DEF FollowInv
  <2>2. RuleAt(p) \in ReadBy(parts, heads)
    BY DEF TokensInv
  <2>3. RuleAt(p + 1) # "keyword"
    BY <2>1, <2>2 DEF RuleAt
  <2> QED
    BY <2>1, <2>3 DEF Announces
<1> QED
  BY <1>4, <1>5

-----------------------------------------------------------------------------
(***************************************************************************)
(* BEGIN, CASE and END: the invariant.                                     *)
(***************************************************************************)
Follows(parts, words, next, rules) ==
    RestsIn(FollowedRests(parts, words, next, rules)) /\ FollowInv(words, next, rules)

Precedes(parts, words, before, rules) ==
    RestsIn(PrecededRests(parts, words, before, rules)) /\ PrecedeInv(words, before, rules)

BlockInv(parts) ==
    /\ TreeInv
    /\ RestsIn(OverItems(parts))
    /\ TokensInv(parts)
    /\ PairsInv(parts, BlockRules, {"BEGIN", "CASE"}, {"END"})
    /\ Follows(parts, {"BEGIN"}, Statements, BlockRules)
    /\ Follows(parts, {"END"}, {"CONVERSATION"}, BlockRules)
    /\ Precedes(parts, Statements, Words, {"keyword"})

\* A step keeps what follows and what precedes a word.
LEMMA StepKeepsNeighbours ==
    ASSUME TreeInv, [Next]_vars, NEW parts, AreParts(parts), NEW words, NEW beside, NEW rules
    PROVE  /\ Followed(parts, words, beside, rules) /\ Follows(parts, words, beside, rules) =>
                 Follows(parts, words, beside, rules)'
           /\ Preceded(parts, words, beside, rules) /\ Precedes(parts, words, beside, rules) =>
                 Precedes(parts, words, beside, rules)'
<1>1. ASSUME Followed(parts, words, beside, rules), Follows(parts, words, beside, rules)
      PROVE  Follows(parts, words, beside, rules)'
  <2>1. RestsIn(FollowedRests(parts, words, beside, rules))'
    <3>1. PICK S : S = FollowedRests(parts, words, beside, rules)
      OBVIOUS
    <3>2. ClosedUnderSteps(S) /\ RestsIn(S)
      BY <1>1, <3>1, FollowedClosed DEF Follows
    <3>3. RestsIn(S)'
      BY <3>2, StepKeepsRests
    <3> QED
      BY <3>1, <3>3
  <2>2. FollowInv(words, beside, rules)'
    BY <1>1, StepKeepsFollow DEF Follows
  <2> QED
    BY <2>1, <2>2 DEF Follows
<1>2. ASSUME Preceded(parts, words, beside, rules), Precedes(parts, words, beside, rules)
      PROVE  Precedes(parts, words, beside, rules)'
  <2>1. RestsIn(PrecededRests(parts, words, beside, rules))'
    <3>1. PICK S : S = PrecededRests(parts, words, beside, rules)
      OBVIOUS
    <3>2. ClosedUnderSteps(S) /\ RestsIn(S)
      BY <1>2, <3>1, PrecededClosed DEF Precedes
    <3>3. RestsIn(S)'
      BY <3>2, StepKeepsRests
    <3> QED
      BY <3>1, <3>3
  <2>2. PrecedeInv(words, beside, rules)'
    BY <1>2, StepKeepsPrecede DEF Precedes
  <2> QED
    BY <2>1, <2>2 DEF Precedes
<1> QED
  BY <1>1, <1>2

\* A step keeps what has been matched within the rules.
LEMMA StepKeepsBrackets ==
    ASSUME TreeInv, [Next]_vars, NEW parts, AreParts(parts),
           NEW rules, NEW opening, NEW closing, Brackets(parts, rules, opening, closing),
           RestsIn(OverItems(parts)), TokensInv(parts),
           PairsInv(parts, rules, opening, closing)
    PROVE  /\ RestsIn(OverItems(parts))' /\ TokensInv(parts)'
           /\ PairsInv(parts, rules, opening, closing)'
<1>1. RestsIn(OverItems(parts))'
  <2>1. PICK S : S = OverItems(parts)
    OBVIOUS
  <2>2. ClosedUnderSteps(S) /\ RestsIn(S)
    BY <2>1, OverItemsClosed
  <2>3. RestsIn(S)'
    BY <2>2, StepKeepsRests
  <2> QED
    BY <2>1, <2>3
<1>2. TokensInv(parts)'
  BY StepKeepsTokens
<1>3. PairsInv(parts, rules, opening, closing)'
  BY StepKeepsPairs
<1> QED
  BY <1>1, <1>2, <1>3

\* Nothing has neighbours yet.
LEMMA InitNeighbours ==
    ASSUME Init, NEW parts, NEW words, NEW beside, NEW rules
    PROVE  Follows(parts, words, beside, rules) /\ Precedes(parts, words, beside, rules)
BY InitRests, InitTokens DEF Follows, Precedes

\* The invariant holds before the parse.
LEMMA InitBlocks ==
    ASSUME Init, TreeInv, NEW parts
    PROVE  BlockInv(parts)
BY InitRests, InitTokens, InitPairs, InitNeighbours DEF BlockInv

\* Every step keeps it, by the conditions on the grammar.
LEMMA StepKeepsBlocks ==
    ASSUME NEW parts, BlockGrammar(parts), BlockInv(parts), [Next]_vars
    PROVE  BlockInv(parts)'
<1>1. TreeInv /\ TreeInv'
  BY StepKeepsTree DEF BlockInv
<1>2. /\ RestsIn(OverItems(parts))' /\ TokensInv(parts)'
      /\ PairsInv(parts, BlockRules, {"BEGIN", "CASE"}, {"END"})'
  BY <1>1, StepKeepsBrackets DEF BlockInv, BlockGrammar
<1>3. /\ Follows(parts, {"BEGIN"}, Statements, BlockRules)'
      /\ Follows(parts, {"END"}, {"CONVERSATION"}, BlockRules)'
      /\ Precedes(parts, Statements, Words, {"keyword"})'
  BY <1>1, StepKeepsNeighbours DEF BlockInv, BlockGrammar
<1> QED
  BY <1>1, <1>2, <1>3 DEF BlockInv

\* When the parse is accepted the words tell what the functions have matched.
LEMMA BlockWords ==
    ASSUME NEW parts, BlockGrammar(parts), BlockInv(parts), AcceptedIsComplete, Accepted
    PROVE  /\ Openings = BracketsAt(BlockRules, {"BEGIN", "CASE"})
           /\ Closings = BracketsAt(BlockRules, {"END"})
           /\ \A p \in DOMAIN owner :
                 input[p] = "END" /\ ~Closes(p) => RuleAt(p) = "end_conversation"
<1>1. TreeInv /\ TokensInv(parts)
  BY DEF BlockInv
<1>2. /\ FollowInv({"BEGIN"}, Statements, BlockRules)
      /\ FollowInv({"END"}, {"CONVERSATION"}, BlockRules)
      /\ PrecedeInv(Statements, Words, {"keyword"})
  BY DEF BlockInv, Follows, Precedes
<1>3. /\ "keyword" \notin ReadBy(parts, {"BEGIN", "END"})
      /\ ReadBy(parts, Statements) \cap BlockRules = {}
      /\ ReadBy(parts, {"CASE"}) \subseteq BlockRules
      /\ ReadBy(parts, {"END"}) \subseteq BlockRules \cup {"end_conversation"}
  BY DEF BlockGrammar
<1>4. ASSUME NEW p \in DOMAIN owner, input[p] = "BEGIN"
      PROVE  Announces(p, Statements) <=> RuleAt(p) \notin BlockRules
  <2>1. "BEGIN" # "EOF" /\ "BEGIN" \in {"BEGIN", "END"} /\ Statements \subseteq Statements
    OBVIOUS
  <2> QED
    BY <1>1, <1>2, <1>3, <1>4, <2>1, AnnouncedByRule
<1>5. ASSUME NEW p \in DOMAIN owner, input[p] = "END"
      PROVE  Announces(p, {"CONVERSATION"}) <=> RuleAt(p) \notin BlockRules
  <2>1. "END" # "EOF" /\ "END" \in {"BEGIN", "END"} /\ Statements \subseteq Statements
    OBVIOUS
  <2>2. {"CONVERSATION"} \subseteq Statements
    BY DEF Statements
  <2> QED
    BY <1>1, <1>2, <1>3, <1>5, <2>1, <2>2, AnnouncedByRule
<1>6. ASSUME NEW p \in DOMAIN owner, input[p] = "CASE"
      PROVE  RuleAt(p) \in BlockRules
  BY <1>1, <1>3, <1>6 DEF TokensInv
<1>7. Openings = BracketsAt(BlockRules, {"BEGIN", "CASE"})
  <2>1. \A p \in DOMAIN owner :
           Opens(p) <=> input[p] \in {"BEGIN", "CASE"} /\ RuleAt(p) \in BlockRules
    BY <1>4, <1>6 DEF Opens
  <2> QED
    BY <2>1 DEF Openings, BracketsAt
<1>8. Closings = BracketsAt(BlockRules, {"END"})
  <2>1. \A p \in DOMAIN owner : Closes(p) <=> input[p] \in {"END"} /\ RuleAt(p) \in BlockRules
    BY <1>5 DEF Closes
  <2> QED
    BY <2>1 DEF Closings, BracketsAt
<1>9. ASSUME NEW p \in DOMAIN owner, input[p] = "END", ~Closes(p)
      PROVE  RuleAt(p) = "end_conversation"
  <2>1. RuleAt(p) \notin BlockRules
    BY <1>5, <1>9 DEF Closes
  <2>2. RuleAt(p) \in ReadBy(parts, {"END"})
    BY <1>1, <1>9 DEF TokensInv
  <2> QED
    BY <1>3, <2>1, <2>2
<1> QED
  BY <1>7, <1>8, <1>9

(***************************************************************************)
(* For every grammar with the conditions of BlockGrammar, every stream and *)
(* every prediction: in the tree of an accepted parse BEGIN, CASE and END  *)
(* pair up like brackets, the END of a block belongs to the node of the    *)
(* BEGIN or CASE it closes, and an END that closes nothing ends a          *)
(* conversation.                                                           *)
(***************************************************************************)
THEOREM BlocksCorrect ==
    ASSUME NEW parts, BlockGrammar(parts)
    PROVE  Spec => []BlocksPairUp
<1>1. Init /\ TreeInv => BlockInv(parts)
  BY InitBlocks
<1>2. BlockInv(parts) /\ [Next]_vars => BlockInv(parts)'
  BY StepKeepsBlocks
<1>3. BlockInv(parts) /\ AcceptedIsComplete => BlocksPairUp
  <2> SUFFICES ASSUME BlockInv(parts), AcceptedIsComplete, Accepted
               PROVE  /\ PairUp(Openings, Closings)
                      /\ \A p \in DOMAIN owner :
                            input[p] = "END" /\ ~Closes(p) => RuleAt(p) = "end_conversation"
    BY DEF BlocksPairUp
  <2>1. PairUp(BracketsAt(BlockRules, {"BEGIN", "CASE"}), BracketsAt(BlockRules, {"END"}))
    <3>1. TreeInv /\ PairsInv(parts, BlockRules, {"BEGIN", "CASE"}, {"END"})
      BY DEF BlockInv
    <3>2. stack = <<>>
      BY <3>1, AcceptedStream
    <3> QED
      BY <3>1, <3>2, AcceptedPairs
  <2> QED
    BY <2>1, BlockWords
<1>4. ReadsWholeStream
  BY DEF BlockGrammar
<1>5. Spec => []AcceptedIsComplete
  BY <1>4, AcceptedCorrect
<1> QED
  BY <1>1, <1>2, <1>3, <1>5, TreeInvariant, PTL DEF Spec

-----------------------------------------------------------------------------
(***************************************************************************)
(* JOIN and ON: the invariant.                                             *)
(***************************************************************************)
JoinInv(parts) ==
    /\ TreeInv
    /\ RestsIn(OverItems(parts))
    /\ TokensInv(parts)
    /\ PairsInv(parts, {"join_on"}, {"JOIN"}, {"ON"})
    /\ Follows(parts, {"CROSS"}, {"JOIN", "APPLY"}, {})
    /\ Precedes(parts, {"JOIN"}, {"CROSS"}, {"join_on"})
    /\ Follows(parts, {"ON"}, {"CONTRACT", "CONVERSATION"}, {"join_on"})
    /\ Precedes(parts, {"CONTRACT", "CONVERSATION"}, Words, {"keyword"})

\* The invariant holds before the parse.
LEMMA InitJoins ==
    ASSUME Init, TreeInv, NEW parts
    PROVE  JoinInv(parts)
BY InitRests, InitTokens, InitPairs, InitNeighbours DEF JoinInv

\* Every step keeps it, by the conditions on the grammar.
LEMMA StepKeepsJoins ==
    ASSUME NEW parts, JoinGrammar(parts), JoinInv(parts), [Next]_vars
    PROVE  JoinInv(parts)'
<1>1. TreeInv /\ TreeInv'
  BY StepKeepsTree DEF JoinInv
<1>2. /\ RestsIn(OverItems(parts))' /\ TokensInv(parts)'
      /\ PairsInv(parts, {"join_on"}, {"JOIN"}, {"ON"})'
  BY <1>1, StepKeepsBrackets DEF JoinInv, JoinGrammar
<1>3. /\ Follows(parts, {"CROSS"}, {"JOIN", "APPLY"}, {})'
      /\ Precedes(parts, {"JOIN"}, {"CROSS"}, {"join_on"})'
  BY <1>1, StepKeepsNeighbours DEF JoinInv, JoinGrammar
<1>4. /\ Follows(parts, {"ON"}, {"CONTRACT", "CONVERSATION"}, {"join_on"})'
      /\ Precedes(parts, {"CONTRACT", "CONVERSATION"}, Words, {"keyword"})'
  BY <1>1, StepKeepsNeighbours DEF JoinInv, JoinGrammar
<1> QED
  BY <1>1, <1>2, <1>3, <1>4 DEF JoinInv

\* When the parse is accepted the words tell what the functions have matched.
LEMMA JoinWords ==
    ASSUME NEW parts, JoinGrammar(parts), JoinInv(parts), AcceptedIsComplete, Accepted
    PROVE  /\ JoinOpenings = BracketsAt({"join_on"}, {"JOIN"})
           /\ JoinClosings = BracketsAt({"join_on"}, {"ON"})
<1> DEFINE Read == {"CROSS", "CONTRACT", "CONVERSATION"}
           Next2 == {"CONTRACT", "CONVERSATION"}
<1>1. TreeInv /\ TokensInv(parts)
  BY DEF JoinInv
<1>2. /\ FollowInv({"CROSS"}, {"JOIN", "APPLY"}, {})
      /\ PrecedeInv({"JOIN"}, {"CROSS"}, {"join_on"})
      /\ FollowInv({"ON"}, Next2, {"join_on"})
      /\ PrecedeInv(Next2, Words, {"keyword"})
  BY DEF JoinInv, Follows, Precedes
<1>3. "keyword" \notin ReadBy(parts, {"ON"}) /\ ReadBy(parts, Read) \cap {"join_on"} = {}
  BY DEF JoinGrammar
<1>4. ASSUME NEW p \in DOMAIN owner, input[p] = "ON"
      PROVE  Announces(p, Next2) <=> RuleAt(p) \notin {"join_on"}
  <2>1. "ON" # "EOF" /\ "ON" \in {"ON"} /\ Next2 \subseteq Next2 /\ Next2 \subseteq Read
    OBVIOUS
  <2> HIDE DEF Next2, Read
  <2> QED
    BY <1>1, <1>2, <1>3, <1>4, <2>1, AnnouncedByRule
<1>5. ASSUME NEW p \in DOMAIN owner, input[p] = "JOIN"
      PROVE  (p > 1 => input[p - 1] # "CROSS") <=> RuleAt(p) \in {"join_on"}
  <2>1. ASSUME RuleAt(p) \notin {"join_on"}
        PROVE  p > 1 /\ input[p - 1] = "CROSS"
    BY <1>2, <1>5, <2>1 DEF PrecedeInv, ComesBehind
  <2>2. ASSUME p > 1, input[p - 1] = "CROSS"
        PROVE  RuleAt(p) \notin {"join_on"}
    <3>1. /\ stack = <<>> /\ Len(owner) \in Nat \ {0} /\ DOMAIN owner = 1 .. Len(owner)
      BY <1>1, AcceptedStream
    <3>2. PICK h \in Int : h = p - 1
      BY <3>1
    <3>3. h \in DOMAIN owner /\ h + 1 = p
      BY <2>2, <3>1, <3>2
    <3>4. input[h] \in {"CROSS"} /\ RuleAt(h) \notin {}
      BY <2>2, <3>2
    <3>5. owner[p] = owner[h]
      BY <1>2, <3>1, <3>3, <3>4 DEF FollowInv
    <3>6. RuleAt(h) \in ReadBy(parts, Read)
      BY <1>1, <3>3, <3>4 DEF TokensInv
    <3> QED
      BY <1>3, <3>5, <3>6 DEF RuleAt
  <2> QED
    BY <2>1, <2>2
<1>6. JoinOpenings = BracketsAt({"join_on"}, {"JOIN"})
  BY <1>5 DEF JoinOpenings, BracketsAt
<1>7. JoinClosings = BracketsAt({"join_on"}, {"ON"})
  BY <1>4 DEF JoinClosings, BracketsAt
<1> QED
  BY <1>6, <1>7

(***************************************************************************)
(* For every grammar with the conditions of JoinGrammar, every stream and  *)
(* every prediction: in the tree of an accepted parse every JOIN but a     *)
(* CROSS JOIN has its ON, and an ON belongs to the node of the nearest     *)
(* JOIN before it that has none yet.                                       *)
(***************************************************************************)
THEOREM JoinsCorrect ==
    ASSUME NEW parts, JoinGrammar(parts)
    PROVE  Spec => []OnBelongsToNearestJoin
<1>1. Init /\ TreeInv => JoinInv(parts)
  BY InitJoins
<1>2. JoinInv(parts) /\ [Next]_vars => JoinInv(parts)'
  BY StepKeepsJoins
<1>3. JoinInv(parts) /\ AcceptedIsComplete => OnBelongsToNearestJoin
  <2> SUFFICES ASSUME JoinInv(parts), AcceptedIsComplete, Accepted
               PROVE  PairUp(JoinOpenings, JoinClosings)
    BY DEF OnBelongsToNearestJoin
  <2>1. PairUp(BracketsAt({"join_on"}, {"JOIN"}), BracketsAt({"join_on"}, {"ON"}))
    <3>1. TreeInv /\ PairsInv(parts, {"join_on"}, {"JOIN"}, {"ON"})
      BY DEF JoinInv
    <3>2. stack = <<>>
      BY <3>1, AcceptedStream
    <3> QED
      BY <3>1, <3>2, AcceptedPairs
  <2> QED
    BY <2>1, JoinWords
<1>4. ReadsWholeStream
  BY DEF JoinGrammar
<1>5. Spec => []AcceptedIsComplete
  BY <1>4, AcceptedCorrect
<1> QED
  BY <1>1, <1>2, <1>3, <1>5, TreeInvariant, PTL DEF Spec

-----------------------------------------------------------------------------
(***************************************************************************)
(* Which tokens the terminals of a derived node stand for.                 *)
(***************************************************************************)
\* A set of natural numbers that is not empty has a least element.
LEMMA LeastNumber ==
    ASSUME NEW T \in SUBSET Nat, T # {}
    PROVE  \E i \in T : \A j \in T : i <= j
<1>1. PICK i \in T : \A j \in T : ~(<<j, i>> \in OpToRel(<, Nat))
  BY NatLessThanWellFounded, WFMin
<1>2. \A j \in T : ~(j < i)
  BY <1>1 DEF OpToRel
<1> QED
  BY <1>2

\* Induction up to b, over a set of numbers.
LEMMA UpTo ==
    ASSUME NEW b \in Nat, NEW Q, 0 \in Q, \A i \in Nat : i < b /\ i \in Q => i + 1 \in Q
    PROVE  b \in Q
<1> DEFINE T == {k \in Nat : k <= b /\ k \notin Q}
<1>1. SUFFICES ASSUME T # {} PROVE FALSE
  OBVIOUS
<1>2. T \in SUBSET Nat
  OBVIOUS
<1>3. PICK k \in T : \A j \in T : k <= j
  BY <1>1, <1>2, LeastNumber
<1>4. k \in Nat /\ k <= b /\ k \notin Q /\ k # 0
  BY <1>3
<1>5. PICK j \in Nat : j = k - 1
  BY <1>4
<1>6. j \notin T /\ j < b /\ j + 1 = k
  BY <1>3, <1>4, <1>5
<1> QED
  BY <1>4, <1>5, <1>6

\* A closed node ends no earlier than in front of its first token.
EndsInv == \A n \in DOMAIN nodes : Closed(n) => nodes[n].start <= nodes[n].stop + 1

\* ExitRule ends a node behind the last token that has been consumed.
LEMMA StepKeepsEnds ==
    ASSUME TreeInv, EndsInv, [Next]_vars
    PROVE  EndsInv'
<1>1. TypeOK /\ Grows
  BY StepGrows DEF TreeInv
<1>2. ASSUME NEW n \in DOMAIN nodes, Closed(n)
      PROVE  nodes'[n].start <= nodes'[n].stop + 1
  <2>1. nodes'[n].start = nodes[n].start /\ nodes'[n].stop = nodes[n].stop
    BY <1>1, <1>2 DEF Grows
  <2> QED
    BY <1>2, <2>1 DEF EndsInv
<1>3. ASSUME \A d \in DOMAIN stack : d \in DOMAIN stack' /\ stack'[d].node = stack[d].node,
             \A n \in DOMAIN nodes' : n \in DOMAIN nodes \/ ~Closed(n)'
      PROVE  EndsInv'
  <2>1. \A n : Closed(n)' => Closed(n)
    BY <1>3 DEF Closed, Open
  <2> QED
    BY <1>2, <1>3, <2>1 DEF EndsInv
<1>4. ASSUME stack # <<>>, UNCHANGED nodes, NEW f \in Seq(Items), Continue(f)
      PROVE  EndsInv'
  BY <1>1, <1>3, <1>4, TopStep
<1>5. CASE Match
  BY <1>1, <1>4, <1>5, MatchStep
<1>6. CASE Choose \/ EnterOptional \/ Iterate
  BY <1>1, <1>4, <1>6, DecisionStep
<1>7. TypeOK'
  BY StepKeepsTree DEF TreeInv
<1>8. Len(stack) \in Nat /\ DOMAIN stack = 1 .. Len(stack) /\ DOMAIN stack' = 1 .. Len(stack')
  BY <1>1, <1>7, FrameTypes
<1>9. CASE EnterRule
  <2> PICK new : new = Len(nodes) + 1
    OBVIOUS
  <2>1. /\ stack # <<>> /\ Len(stack') = Len(stack) + 1
        /\ \A d \in 1 .. Len(stack) - 1 : stack'[d] = stack[d]
        /\ stack'[Len(stack)].node = Top.node
        /\ stack'[Len(stack) + 1].node = new
        /\ Expected.sym \in DOMAIN Grammar
    BY <1>1, <1>9, EnterStep
  <2>2. Top = stack[Len(stack)]
    BY DEF Top
  <2>3. \A d \in DOMAIN stack : d \in DOMAIN stack' /\ stack'[d].node = stack[d].node
    BY <1>8, <2>1, <2>2
  <2>4. \A n \in DOMAIN nodes' : n \in DOMAIN nodes \/ n = new
    <3>1. PICK callers : Enter(Expected.sym, callers)
      BY <1>9 DEF EnterRule
    <3> QED
      BY <1>1, <2>1, <3>1, EnterNodes
  <2>5. ~Closed(new)'
    <3>1. Len(stack) + 1 \in DOMAIN stack'
      BY <1>8, <2>1
    <3> QED
      BY <2>1, <3>1 DEF Closed, Open
  <2> QED
    BY <1>3, <2>3, <2>4, <2>5
<1>10. CASE Call
  <2>1. stack = <<>> /\ nodes = <<>> /\ Len(stack') = 1 /\ stack'[1].node = 1
    BY <1>10, CallStep
  <2>2. \A n \in DOMAIN nodes' : n = 1
    <3>1. DOMAIN nodes' = 1 .. 0 + 1
      BY <1>1, <1>10, <2>1, EnterNodes, GrammarAssumption DEF Call
    <3> QED
      BY <3>1
  <2>3. ~Closed(1)'
    <3>1. 1 \in DOMAIN stack'
      BY <1>8, <2>1
    <3> QED
      BY <2>1, <3>1 DEF Closed, Open
  <2> QED
    BY <2>2, <2>3 DEF EndsInv
<1>11. CASE ExitRule
  <2>1. /\ stack # <<>> /\ Len(stack') = Len(stack) - 1
        /\ \A d \in 1 .. Len(stack) - 1 : stack'[d] = stack[d]
    BY <1>1, <1>11, ExitFrames
  <2>2. /\ DOMAIN nodes' = DOMAIN nodes /\ nodes'[ctx].stop = pos - 1
        /\ \A n \in DOMAIN nodes : nodes'[n].start = nodes[n].start
    BY <1>11, ExitNodes
  <2>3. ctx = stack[Len(stack)].node
    BY <2>1 DEF TreeInv, ContextFollowsCalls, Top
  <2>4. ASSUME NEW n \in DOMAIN nodes, n # ctx, Closed(n)'
        PROVE  Closed(n)
    <3>1. \A l \in Nat : \A d \in 1 .. l : d \in 1 .. l - 1 \/ d = l
      OBVIOUS
    <3>2. \A d \in 1 .. Len(stack) - 1 : stack[d].node # n
      BY <1>8, <2>1, <2>4 DEF Closed, Open
    <3> QED
      BY <1>8, <2>3, <2>4, <3>1, <3>2 DEF Closed, Open
  <2>5. ASSUME ctx \in DOMAIN nodes
        PROVE  nodes'[ctx].start <= nodes'[ctx].stop + 1
    <3>1. nodes[ctx].start <= pos /\ pos \in Nat
      BY <2>5, OwnerTypes DEF TreeInv, Bookkeeping
    <3>2. (pos - 1) + 1 = pos
      BY <3>1
    <3> QED
      BY <2>2, <2>5, <3>1, <3>2
  <2>6. ASSUME NEW n \in DOMAIN nodes', Closed(n)'
        PROVE  nodes'[n].start <= nodes'[n].stop + 1
    <3>1. CASE n = ctx
      BY <2>2, <2>5, <3>1
    <3>2. CASE n # ctx
      BY <1>2, <2>2, <2>4, <2>6, <3>2
    <3> QED
      BY <3>1, <3>2
  <2> QED
    BY <2>6 DEF EndsInv
<1>12. CASE SyntaxError \/ Keep \/ UNCHANGED vars
  <2>1. UNCHANGED <<stack, nodes>>
    BY <1>12 DEF SyntaxError, Keep, vars
  <2> QED
    BY <2>1 DEF EndsInv, Closed, Open
<1> QED
  BY <1>5, <1>6, <1>9, <1>10, <1>11, <1>12 DEF Next, Step

\* The items of a node stand for stretches of tokens from left to right.
LEMMA SpelledInOrder ==
    ASSUME TypeOK, EndsInv, NEW n, NEW w \in Seq(Items), NEW b \in Bounds(w), NEW c \in Children(w),
           Spells(n, w, b, c), NEW i \in 0 .. Len(w), NEW j \in 0 .. Len(w), i <= j
    PROVE  b[i] <= b[j]
<1>1. PICK l \in Nat : l = Len(w)
  BY LenProperties
<1>2. b \in [0 .. l -> Nat]
  BY <1>1 DEF Bounds
<1>3. ASSUME NEW k \in 1 .. l
      PROVE  b[k - 1] <= b[k]
  <2>1. Stands(n, w[k], b[k - 1], b[k], c[k])
    BY <1>1 DEF Spells
  <2>2. b[k - 1] \in Nat /\ b[k] \in Nat
    <3>1. k - 1 \in 0 .. l /\ k \in 0 .. l
      OBVIOUS
    <3> QED
      BY <1>2, <3>1
  <2>3. CASE b[k] = b[k - 1] + 1
    BY <2>2, <2>3
  <2>4. CASE c[k] \in DOMAIN nodes /\ Closed(c[k]) /\ nodes[c[k]].start = b[k - 1]
                /\ nodes[c[k]].stop = b[k] - 1
    <3>1. b[k - 1] <= (b[k] - 1) + 1
      BY <2>4 DEF EndsInv
    <3> QED
      BY <2>2, <3>1
  <2> QED
    BY <2>1, <2>3, <2>4 DEF Stands
<1>4. PICK m \in Nat : m = j - i
  BY <1>1
<1> DEFINE Q == {k \in Nat : i + k <= j => b[i] <= b[i + k]}
<1>5. 0 \in Q
  <2>1. i + 0 = i /\ b[i] \in Nat
    BY <1>1, <1>2
  <2> QED
    BY <2>1
<1>6. ASSUME NEW k \in Nat, k < m, k \in Q
      PROVE  k + 1 \in Q
  <2>1. PICK h \in Nat : h = i + k + 1
    BY <1>1
  <2>2. h \in 1 .. l /\ h - 1 = i + k /\ i + k <= j /\ i + k \in 0 .. l /\ h = i + (k + 1)
    BY <1>1, <1>4, <1>6, <2>1
  <2>3. b[i] <= b[i + k] /\ b[i + k] <= b[h]
    BY <1>3, <1>6, <2>2
  <2>4. b[i] \in Nat /\ b[i + k] \in Nat /\ b[h] \in Nat
    BY <1>1, <1>2, <2>2
  <2>5. b[i] <= b[h]
    BY <2>3, <2>4
  <2> QED
    BY <2>2, <2>5
<1> HIDE DEF Q
<1>7. m \in Q
  BY <1>5, <1>6, UpTo
<1>8. i + m = j /\ i + m <= j
  BY <1>1, <1>4
<1> QED
  BY <1>7, <1>8 DEF Q

\* The tokens of a node are those that the terminals of its form stand for.
LEMMA SpelledTokens ==
    ASSUME TreeInv, EndsInv, NEW n \in DOMAIN nodes, Closed(n),
           NEW w \in Seq(Items), NEW b \in Bounds(w), NEW c \in Children(w),
           Spells(n, w, b, c), b[Len(w)] = nodes[n].stop + 1
    PROVE  /\ \A i \in 1 .. Len(w) : w[i].k = "tok" =>
                 /\ b[i - 1] \in DOMAIN owner /\ owner[b[i - 1]] = n
                 /\ input[b[i - 1]] \in w[i].set /\ b[i] = b[i - 1] + 1
           /\ \A p \in DOMAIN owner : owner[p] = n =>
                 \E i \in 1 .. Len(w) : w[i].k = "tok" /\ b[i - 1] = p
<1>1. PICK l \in Nat : l = Len(w)
  BY LenProperties
<1>2. b \in [0 .. l -> Nat] /\ b[0] = nodes[n].start /\ b[l] = nodes[n].stop + 1
  BY <1>1 DEF Bounds, Spells
<1>3. \A i \in 1 .. l : Stands(n, w[i], b[i - 1], b[i], c[i])
  BY <1>1 DEF Spells
<1>4. ASSUME NEW i \in 1 .. l, w[i].k = "tok"
      PROVE  /\ b[i - 1] \in DOMAIN owner /\ owner[b[i - 1]] = n
             /\ input[b[i - 1]] \in w[i].set /\ b[i] = b[i - 1] + 1
  BY <1>3, <1>4 DEF Stands
<1>5. ASSUME NEW p \in DOMAIN owner, owner[p] = n
      PROVE  \E i \in 1 .. l : w[i].k = "tok" /\ b[i - 1] = p
  <2>1. p \in Nat /\ nodes[n].start <= p /\ p <= nodes[n].stop /\ nodes[n].stop \in Nat
    <3>1. p \in Nat
      BY OwnerTypes
    <3>2. nodes[n].start <= p /\ p <= nodes[n].stop
      BY <1>5 DEF TreeInv, TokensHangInnermost
    <3>3. nodes[n].stop \in Nat
      BY NodeTypes DEF TreeInv, NodeSet
    <3> QED
      BY <3>1, <3>2, <3>3
  <2> DEFINE Holds(i) == i \in 1 .. l /\ b[i - 1] <= p /\ p < b[i]
             Q == {i \in Nat : i <= l => b[i] <= p \/ \E j \in 1 .. l : Holds(j)}
  <2>2. 0 \in Q
    BY <1>2, <2>1
  <2>3. ASSUME NEW i \in Nat, i < l, i \in Q
        PROVE  i + 1 \in Q
    <3>1. PICK j \in Nat : j = i + 1
      OBVIOUS
    <3>2. j \in 1 .. l /\ j - 1 = i /\ b[i] \in Nat /\ b[j] \in Nat
      BY <1>2, <2>3, <3>1
    <3>3. CASE b[i] <= p
      <4>1. b[j] <= p \/ Holds(j)
        BY <2>1, <3>2, <3>3
      <4> QED
        BY <3>1, <3>2, <4>1
    <3>4. CASE \E h \in 1 .. l : Holds(h)
      BY <3>4
    <3> QED
      BY <2>3, <3>3, <3>4
  <2>4. l \in Q
    <3> HIDE DEF Q
    <3> QED
      BY <1>1, <2>2, <2>3, UpTo
  <2>5. PICK i \in 1 .. l : Holds(i)
    <3>1. ~(b[l] <= p)
      BY <1>2, <2>1
    <3> QED
      BY <2>4, <3>1
  <2>6. i - 1 \in 0 .. l /\ i \in 0 .. l
    OBVIOUS
  <2>7. b[i - 1] \in Nat /\ b[i] \in Nat
    BY <1>2, <2>6
  <2>8. CASE w[i].k = "tok"
    <3>1. b[i - 1] = p
      BY <1>4, <2>1, <2>5, <2>7, <2>8
    <3> QED
      BY <2>8, <3>1
  <2>9. CASE w[i].k # "tok"
    <3>1. PICK m \in DOMAIN nodes :
            /\ Closed(m) /\ nodes[m].parent = n
            /\ nodes[m].start = b[i - 1] /\ nodes[m].stop = b[i] - 1
      BY <1>3, <2>9 DEF Stands
    <3>2. m > owner[p]
      <4>1. n \in Nat \ {0} /\ m \in Nat
        BY NodeTypes DEF TreeInv
      <4>2. Within(m, n)
        BY <3>1, <4>1 DEF TreeInv, IntervalsNest
      <4> QED
        BY <1>5, <4>1, <4>2 DEF Within
    <3>3. nodes[m].stop < p \/ nodes[m].start > p
      BY <3>1, <3>2 DEF TreeInv, TokensHangInnermost
    <3> QED
      BY <2>1, <2>5, <2>7, <3>1, <3>3
  <2> QED
    BY <2>8, <2>9
<1> QED
  BY <1>1, <1>4, <1>5

-----------------------------------------------------------------------------
(***************************************************************************)
(* Every form of a rule has the words of its right-hand side, if they      *)
(* stand outside all decisions.                                            *)
(***************************************************************************)
\* The items of a sequence in which something is put between u and v.
LEMMA Inserted ==
    ASSUME NEW u \in Seq(Items), NEW e \in Seq(Items), NEW v \in Seq(Items)
    PROVE  /\ u \o (e \o v) \in Seq(Items)
           /\ Len(u) \in Nat /\ Len(e) \in Nat /\ Len(v) \in Nat
           /\ DOMAIN (u \o (e \o v)) = 1 .. Len(u) + Len(e) + Len(v)
           /\ \A i \in 1 .. Len(u) : (u \o (e \o v))[i] = u[i]
           /\ \A i \in 1 .. Len(e) : (u \o (e \o v))[Len(u) + i] = e[i]
           /\ \A i \in 1 .. Len(v) : (u \o (e \o v))[Len(u) + Len(e) + i] = v[i]
<1> PICK t : t = e \o v
  OBVIOUS
<1> PICK y : y = u \o t
  OBVIOUS
<1>1. /\ t \in Seq(Items) /\ Len(e) \in Nat /\ Len(v) \in Nat /\ Len(t) = Len(e) + Len(v)
      /\ \A i \in 1 .. Len(e) + Len(v) : t[i] = IF i <= Len(e) THEN e[i] ELSE v[i - Len(e)]
  BY ConcatItems
<1>2. /\ y \in Seq(Items) /\ Len(u) \in Nat /\ Len(y) = Len(u) + Len(t)
      /\ \A i \in 1 .. Len(u) + Len(t) : y[i] = IF i <= Len(u) THEN u[i] ELSE t[i - Len(u)]
  BY <1>1, ConcatItems
<1>3. DOMAIN y = 1 .. Len(u) + Len(e) + Len(v)
  BY <1>1, <1>2, LenProperties
<1>4. \A i \in 1 .. Len(u) : y[i] = u[i]
  BY <1>1, <1>2
<1>5. ASSUME NEW i \in 1 .. Len(e) PROVE y[Len(u) + i] = e[i]
  <2>1. PICK j \in Int : j = Len(u) + i
    BY <1>2
  <2>2. j \in 1 .. Len(u) + Len(t) /\ ~(j <= Len(u)) /\ j - Len(u) = i
    BY <1>1, <1>2, <2>1
  <2>3. i \in 1 .. Len(e) + Len(v) /\ i <= Len(e)
    BY <1>1
  <2> QED
    BY <1>1, <1>2, <2>1, <2>2, <2>3
<1>6. ASSUME NEW i \in 1 .. Len(v) PROVE y[Len(u) + Len(e) + i] = v[i]
  <2>1. PICK j \in Int : j = Len(u) + Len(e) + i
    BY <1>1, <1>2
  <2>2. PICK h \in Int : h = Len(e) + i
    BY <1>1
  <2>3. j \in 1 .. Len(u) + Len(t) /\ ~(j <= Len(u)) /\ j - Len(u) = h
    BY <1>1, <1>2, <2>1, <2>2
  <2>4. h \in 1 .. Len(e) + Len(v) /\ ~(h <= Len(e)) /\ h - Len(e) = i
    BY <1>1, <2>2
  <2> QED
    BY <1>1, <1>2, <2>1, <2>3, <2>4
<1> QED
  BY <1>1, <1>2, <1>3, <1>4, <1>5, <1>6

\* A decision is replaced by what one of its branches makes of it.
LEMMA SkeletonBranch ==
    ASSUME NEW parts, AreParts(parts), NEW words, NEW pairs, NEW size \in Nat,
           DOMAIN pairs = 1 .. size,
           NEW u \in Seq(Items), NEW v \in Seq(Items), NEW it \in Items,
           Skeleton(parts, u \o (<<it>> \o v), words, pairs), NEW e \in Branches(it)
    PROVE  Skeleton(parts, u \o (e \o v), words, pairs)
<1> PICK x : x = u \o (<<it>> \o v)
  OBVIOUS
<1> PICK y : y = u \o (e \o v)
  OBVIOUS
<1>1. e \in Seq(Items) /\ it.k \in {"alt", "opt", "star"}
  BY DEF Branches
<1>2. PICK lu \in Nat, le \in Nat, lv \in Nat : lu = Len(u) /\ le = Len(e) /\ lv = Len(v)
  BY <1>1, LenProperties
<1>3. /\ DOMAIN x = 1 .. lu + 1 + lv
      /\ \A i \in 1 .. lu : x[i] = u[i]
      /\ x[lu + 1] = it
      /\ \A i \in 1 .. lv : x[lu + 1 + i] = v[i]
  <2>1. <<it>> \in Seq(Items) /\ Len(<<it>>) = 1 /\ <<it>>[1] = it /\ 1 \in 1 .. 1
    OBVIOUS
  <2> PICK one : one = <<it>>
    OBVIOUS
  <2>2. /\ DOMAIN x = 1 .. lu + Len(one) + lv
        /\ \A i \in 1 .. lu : x[i] = u[i]
        /\ \A i \in 1 .. Len(one) : x[lu + i] = one[i]
        /\ \A i \in 1 .. lv : x[lu + Len(one) + i] = v[i]
    BY <1>2, <2>1, Inserted
  <2> QED
    BY <2>1, <2>2
<1>4. /\ DOMAIN y = 1 .. lu + le + lv
      /\ \A i \in 1 .. lu : y[i] = u[i]
      /\ \A i \in 1 .. le : y[lu + i] = e[i]
      /\ \A i \in 1 .. lv : y[lu + le + i] = v[i]
  BY <1>1, <1>2, Inserted
<1>5. \A i \in 1 .. le : e[i] \in parts[it]
  <2>1. it \in parts[it] /\ it.alts \in Seq(Seq(Items))
        /\ \A n \in DOMAIN it.alts : \A i \in DOMAIN it.alts[n] : it.alts[n][i] \in parts[it]
    BY ItemsAssumption DEF AreParts
  <2>2. CASE \E n \in DOMAIN it.alts : e = it.alts[n]
    <3>1. DOMAIN e = 1 .. le
      BY <1>1, <1>2, LenProperties
    <3> QED
      BY <2>1, <2>2, <3>1
  <2>3. CASE e = <<>>
    BY <1>2, <2>3
  <2>4. CASE it.k \in {"opt", "star"} /\ (e = it.alts[1] \/ e = Append(it.alts[1], it))
    <3>1. 1 \in DOMAIN it.alts /\ it.alts[1] \in Seq(Items)
      <4>1. Len(it.alts) = 1
        BY <2>4, ItemsAssumption
      <4>2. DOMAIN it.alts = 1 .. 1
        BY <2>1, <4>1, LenProperties
      <4> QED
        BY <2>1, <4>1, <4>2, ElementOfSeq
    <3> PICK block \in Seq(Items) : block = it.alts[1]
      BY <3>1
    <3>2. DOMAIN block = 1 .. Len(block) /\ Len(block) \in Nat
      BY LenProperties
    <3>3. \A i \in 1 .. Len(block) : block[i] \in parts[it]
      BY <2>1, <3>1, <3>2
    <3>4. CASE e = block
      BY <1>2, <3>3, <3>4
    <3>5. CASE e = Append(block, it)
      <4>1. le = Len(block) + 1 /\ \A i \in 1 .. Len(block) : e[i] = block[i]
        BY <1>2, <3>5, AppendProperties
      <4>2. e[Len(block) + 1] = it
        BY <3>5, AppendProperties
      <4>3. \A i \in 1 .. le : i \in 1 .. Len(block) \/ i = Len(block) + 1
        BY <3>2, <4>1
      <4> QED
        BY <2>1, <3>3, <4>1, <4>2, <4>3
    <3> QED
      BY <2>4, <3>4, <3>5
  <2> QED
    BY <2>2, <2>3, <2>4 DEF Branches
<1>6. \A z \in parts[it] : ~Reads(z, words) /\ parts[z] \subseteq parts[it]
  <2>1. lu + 1 \in DOMAIN x /\ OnTheSurface(parts, x, words)
    BY <1>3 DEF Skeleton
  <2> QED
    BY <1>1, <1>3, <2>1 DEF OnTheSurface, AreParts
<1> DEFINE move(i) == IF i <= lu THEN i ELSE i + (le - 1)
<1>7. \A i \in 1 .. lu + 1 + lv : i # lu + 1 => move(i) \in 1 .. lu + le + lv /\ y[move(i)] = x[i]
  <2> SUFFICES ASSUME NEW i \in 1 .. lu + 1 + lv, i # lu + 1
               PROVE  move(i) \in 1 .. lu + le + lv /\ y[move(i)] = x[i]
    OBVIOUS
  <2>1. CASE i <= lu
    <3>1. i \in 1 .. lu /\ i \in 1 .. lu + le + lv
      BY <2>1
    <3> QED
      BY <1>3, <1>4, <2>1, <3>1
  <2>2. CASE ~(i <= lu)
    <3>1. PICK h \in Int : h = i - (lu + 1)
      OBVIOUS
    <3>2. h \in 1 .. lv /\ lu + 1 + h = i /\ lu + le + h = i + (le - 1)
      BY <2>2, <3>1
    <3>3. i + (le - 1) \in 1 .. lu + le + lv
      BY <2>2
    <3> QED
      BY <1>3, <1>4, <2>2, <3>2, <3>3
  <2> QED
    BY <2>1, <2>2
<1>8. \A j \in 1 .. lu + le + lv :
         \/ \E i \in 1 .. le : y[j] = e[i]
         \/ \E i \in 1 .. lu + 1 + lv : i # lu + 1 /\ move(i) = j
  <2> SUFFICES ASSUME NEW j \in 1 .. lu + le + lv
               PROVE  \/ \E i \in 1 .. le : y[j] = e[i]
                      \/ \E i \in 1 .. lu + 1 + lv : i # lu + 1 /\ move(i) = j
    OBVIOUS
  <2>1. CASE j <= lu
    <3>1. j \in 1 .. lu + 1 + lv /\ j # lu + 1 /\ move(j) = j
      BY <2>1
    <3> QED
      BY <3>1
  <2>2. CASE ~(j <= lu) /\ j <= lu + le
    <3>1. PICK i \in Int : i = j - lu
      OBVIOUS
    <3>2. i \in 1 .. le /\ lu + i = j
      BY <2>2, <3>1
    <3> QED
      BY <1>4, <3>2
  <2>3. CASE ~(j <= lu + le)
    <3>1. PICK i \in Int : i = j - (le - 1)
      OBVIOUS
    <3>2. i \in 1 .. lu + 1 + lv /\ i # lu + 1 /\ ~(i <= lu) /\ i + (le - 1) = j
      BY <2>3, <3>1
    <3>3. move(i) = j
      BY <3>2
    <3> QED
      BY <3>2, <3>3
  <2> QED
    BY <2>1, <2>2, <2>3
<1>9. OnTheSurface(parts, y, words)
  <2>1. OnTheSurface(parts, x, words)
    BY DEF Skeleton
  <2>2. ASSUME NEW j \in 1 .. lu + le + lv, y[j].k # "tok", NEW z \in parts[y[j]]
        PROVE  ~Reads(z, words)
    <3>1. CASE \E i \in 1 .. le : y[j] = e[i]
      BY <1>5, <1>6, <2>2, <3>1
    <3>2. CASE \E i \in 1 .. lu + 1 + lv : i # lu + 1 /\ move(i) = j
      <4>1. PICK i \in DOMAIN x : y[j] = x[i]
        BY <1>3, <1>7, <3>2
      <4> QED
        BY <2>1, <2>2, <4>1 DEF OnTheSurface
    <3> QED
      BY <1>8, <3>1, <3>2
  <2> QED
    BY <1>4, <2>2 DEF OnTheSurface
<1>10. PICK a \in [1 .. size -> DOMAIN x] : Places(x, a, words, pairs)
  BY DEF Skeleton
<1>11. \A k \in 1 .. size :
          /\ a[k] \in 1 .. lu + 1 + lv /\ a[k] # lu + 1
          /\ a[k] + 1 \in 1 .. lu + 1 + lv /\ a[k] + 1 # lu + 1
          /\ x[a[k]].k = "tok" /\ x[a[k]].set = {pairs[k].word}
          /\ x[a[k] + 1].k = "tok" /\ x[a[k] + 1].set = {pairs[k].behind}
  <2>1. \A k \in 1 .. size :
           /\ a[k] \in 1 .. lu + 1 + lv /\ a[k] + 1 \in 1 .. lu + 1 + lv
           /\ x[a[k]].k = "tok" /\ x[a[k]].set = {pairs[k].word}
           /\ x[a[k] + 1].k = "tok" /\ x[a[k] + 1].set = {pairs[k].behind}
    BY <1>3, <1>10, Zenon DEF Places
  <2>2. \A i : x[i].k = "tok" => i # lu + 1
    BY <1>1, <1>3
  <2> QED
    BY <2>1, <2>2, Zenon
<1> PICK a1 : a1 = [k \in 1 .. size |-> move(a[k])]
  OBVIOUS
<1>12. a1 \in [1 .. size -> 1 .. lu + le + lv] /\ \A k \in 1 .. size : a1[k] = move(a[k])
  <2>1. \A k \in 1 .. size : move(a[k]) \in 1 .. lu + le + lv
    BY <1>7, <1>11
  <2> HIDE DEF move
  <2> QED
    BY <2>1
<1>13. \A i, j \in 1 .. lu + 1 + lv : i # lu + 1 /\ j # lu + 1 /\ i < j => move(i) < move(j)
  OBVIOUS
<1>14. \A i \in 1 .. lu + 1 + lv : i # lu + 1 /\ i + 1 # lu + 1 => move(i + 1) = move(i) + 1
  OBVIOUS
<1> HIDE DEF move
<1>15. \A k \in 1 .. size :
          /\ y[a1[k]].k = "tok" /\ y[a1[k]].set = {pairs[k].word}
          /\ a1[k] + 1 \in 1 .. lu + le + lv
          /\ y[a1[k] + 1].k = "tok" /\ y[a1[k] + 1].set = {pairs[k].behind}
  <2>1. \A k \in 1 .. size :
           /\ y[a1[k]] = x[a[k]]
           /\ a1[k] + 1 \in 1 .. lu + le + lv /\ y[a1[k] + 1] = x[a[k] + 1]
    BY ZenonT(60), <1>7, <1>11, <1>12, <1>14
  <2> QED
    BY ZenonT(60), <1>11, <2>1
<1>16. \A k, m \in 1 .. size : k < m => a1[k] < a1[m]
  BY <1>10, <1>11, <1>12, <1>13 DEF Places
<1>17. ASSUME NEW j \in 1 .. lu + le + lv, Reads(y[j], words)
       PROVE  \E k \in 1 .. size : a1[k] = j
  <2>1. PICK i \in 1 .. lu + 1 + lv : i # lu + 1 /\ move(i) = j
    BY <1>5, <1>6, <1>8, <1>17
  <2>2. Reads(x[i], words)
    BY <1>7, <1>17, <2>1
  <2>3. PICK k \in 1 .. size : a[k] = i
    BY <1>3, <1>10, <2>2 DEF Places
  <2> QED
    BY <1>12, <2>1, <2>3
<1>18. Places(y, a1, words, pairs)
  BY <1>4, <1>12, <1>15, <1>16, <1>17 DEF Places
<1> QED
  BY <1>4, <1>9, <1>12, <1>18 DEF Skeleton

\* So it is for all forms.
LEMMA SkeletonForms ==
    ASSUME NEW parts, AreParts(parts), NEW words, NEW pairs, NEW size \in Nat,
           DOMAIN pairs = 1 .. size, NEW rule \in DOMAIN Grammar,
           Skeleton(parts, Grammar[rule], words, pairs), NEW w \in Forms(rule)
    PROVE  Skeleton(parts, w, words, pairs)
<1> DEFINE S == {x \in Seq(Items) : Skeleton(parts, x, words, pairs)}
<1>1. S \in SUBSET Seq(Items) /\ Grammar[rule] \in S
  BY GrammarAssumption
<1>2. ClosedUnderChoice(S)
  <2> SUFFICES ASSUME NEW u \in Seq(Items), NEW v \in Seq(Items), NEW it \in Items,
                      u \o (<<it>> \o v) \in S, NEW e \in Branches(it)
               PROVE  u \o (e \o v) \in S
    BY DEF ClosedUnderChoice
  <2>1. u \o (e \o v) \in Seq(Items)
    BY Inserted DEF Branches
  <2>2. Skeleton(parts, u \o (e \o v), words, pairs)
    BY SkeletonBranch
  <2> QED
    BY <2>1, <2>2
<1>3. w \in S
  BY <1>1, <1>2 DEF Forms
<1> QED
  BY <1>3

-----------------------------------------------------------------------------
(***************************************************************************)
(* TRY and CATCH.                                                          *)
(***************************************************************************)
\* The tokens of n that are one of the words are those of pairs, in their order.
Laid(n, x, words, pairs) ==
    /\ \A k \in DOMAIN pairs :
          /\ owner[x[k]] = n
          /\ input[x[k]] = pairs[k].word /\ input[x[k] + 1] = pairs[k].behind
    /\ \A k, m \in DOMAIN pairs : k < m => x[k] < x[m]
    /\ \A p \in DOMAIN owner :
          owner[p] = n /\ input[p] \in words => \E k \in DOMAIN pairs : x[k] = p

\* So they are in every derived node whose rule has them on its surface.
LEMMA SkeletonTokens ==
    ASSUME TreeInv, EndsInv, NEW parts, AreParts(parts), NEW words, NEW pairs, NEW size \in Nat,
           DOMAIN pairs = 1 .. size, NEW n \in DOMAIN nodes, Closed(n), Derived(n),
           Skeleton(parts, Grammar[nodes[n].rule], words, pairs)
    PROVE  \E x \in [1 .. size -> DOMAIN owner] : Laid(n, x, words, pairs)
<1>1. TypeOK /\ nodes[n].rule \in DOMAIN Grammar
  BY NodeTypes DEF TreeInv, NodeSet
<1>2. PICK w \in Forms(nodes[n].rule) : \E b \in Bounds(w), c \in Children(w) :
         Spells(n, w, b, c) /\ b[Len(w)] = nodes[n].stop + 1
  BY DEF Derived
<1>3. w \in Seq(Items)
  BY <1>1, FormsClosed
<1>4. PICK b \in Bounds(w), c \in Children(w) :
         Spells(n, w, b, c) /\ b[Len(w)] = nodes[n].stop + 1
  BY <1>2
<1>5. PICK l \in Nat : l = Len(w) /\ DOMAIN w = 1 .. l
  BY <1>3, LenProperties
<1>6. Skeleton(parts, w, words, pairs)
  BY <1>1, SkeletonForms
<1>7. PICK a \in [1 .. size -> 1 .. l] : Places(w, a, words, pairs)
  BY <1>5, <1>6 DEF Skeleton
<1>8. \A i \in 1 .. l : w[i].k = "tok" =>
         /\ b[i - 1] \in DOMAIN owner /\ owner[b[i - 1]] = n
         /\ input[b[i - 1]] \in w[i].set /\ b[i] = b[i - 1] + 1
  BY <1>1, <1>3, <1>4, <1>5, SpelledTokens
<1>9. \A p \in DOMAIN owner : owner[p] = n => \E i \in 1 .. l : w[i].k = "tok" /\ b[i - 1] = p
  BY <1>1, <1>3, <1>4, <1>5, SpelledTokens
<1>10. \A k \in 1 .. size :
          /\ a[k] \in 1 .. l /\ a[k] + 1 \in 1 .. l /\ (a[k] + 1) - 1 = a[k]
          /\ w[a[k]].k = "tok" /\ w[a[k]].set = {pairs[k].word}
          /\ w[a[k] + 1].k = "tok" /\ w[a[k] + 1].set = {pairs[k].behind}
  <2>1. \A i \in 1 .. l : (i + 1) - 1 = i
    OBVIOUS
  <2> QED
    BY <1>5, <1>7, <2>1, Zenon DEF Places
<1> PICK x : x = [k \in 1 .. size |-> b[a[k] - 1]]
  OBVIOUS
<1>11. \A k \in 1 .. size :
          /\ x[k] = b[a[k] - 1] /\ x[k] \in DOMAIN owner
          /\ owner[x[k]] = n /\ input[x[k]] = pairs[k].word
          /\ b[a[k]] = x[k] + 1
  BY <1>8, <1>10
<1>12. \A k \in 1 .. size : input[x[k] + 1] = pairs[k].behind
  <2> SUFFICES ASSUME NEW k \in 1 .. size PROVE input[x[k] + 1] = pairs[k].behind
    OBVIOUS
  <2>1. PICK i \in 1 .. l : i = a[k] + 1
    BY <1>10
  <2>2. b[i - 1] = x[k] + 1 /\ w[i].k = "tok" /\ w[i].set = {pairs[k].behind}
    BY <1>10, <1>11, <2>1
  <2> QED
    BY <1>8, <2>2
<1>13. ASSUME NEW k \in 1 .. size, NEW m \in 1 .. size, k < m
       PROVE  x[k] < x[m]
  <2>1. a[k] < a[m] /\ a[k] \in 1 .. l /\ a[m] \in 1 .. l
    BY <1>7, <1>10, <1>13 DEF Places
  <2>2. PICK j \in Int : j = a[m] - 1
    BY <2>1
  <2>3. a[k] \in 0 .. l /\ j \in 0 .. l /\ a[k] <= j
    BY <2>1, <2>2
  <2>4. b[a[k]] <= b[j]
    BY <1>1, <1>3, <1>4, <1>5, <2>3, SpelledInOrder
  <2>5. x[k] \in Nat /\ x[m] \in Nat
    BY <1>11, OwnerTypes
  <2>6. x[k] + 1 <= x[m]
    BY <1>11, <2>2, <2>4
  <2> QED
    BY <2>5, <2>6
<1>14. ASSUME NEW p \in DOMAIN owner, owner[p] = n, input[p] \in words
       PROVE  \E k \in 1 .. size : x[k] = p
  <2>1. PICK i \in 1 .. l : w[i].k = "tok" /\ b[i - 1] = p
    BY <1>9, <1>14
  <2>2. Reads(w[i], words)
    BY <1>8, <1>14, <2>1 DEF Reads
  <2>3. PICK k \in 1 .. size : a[k] = i
    BY <1>5, <1>7, <2>2 DEF Places
  <2> QED
    BY <1>11, <2>1, <2>3
<1>15. x \in [1 .. size -> DOMAIN owner]
  BY <1>11
<1>16. Laid(n, x, words, pairs)
  BY <1>11, <1>12, <1>13, <1>14 DEF Laid
<1> QED
  BY <1>15, <1>16

\* In an accepted parse the brackets of a TRY statement are the four that its
\* rule reads, and Partner pairs the first with the second and the third with
\* the fourth.
LEMMA TryBrackets ==
    ASSUME NEW parts, TryGrammar(parts), BlockInv(parts), EndsInv,
           AcceptedIsComplete, AcceptedIsDerivation, Accepted,
           NEW p \in DOMAIN owner, RuleAt(p) = "try_catch_statement"
    PROVE  /\ Opens(p) /\ input[p + 1] = "TRY" =>
                 \E q \in DOMAIN owner :
                    q > p /\ Opens(q) /\ input[q + 1] = "CATCH" /\ owner[q] = owner[p]
           /\ Closes(p) => input[p + 1] = input[Partner(Openings, Closings, p) + 1]
<1> DEFINE words == {"BEGIN", "CASE", "END"}
<1>1. BlockGrammar(parts) /\ AreParts(parts) /\ TreeInv /\ stack = <<>>
  BY AcceptedStream DEF TryGrammar, BlockGrammar, BlockInv
<1> PICK n \in DOMAIN nodes : n = owner[p]
  BY <1>1, OwnerTypes
<1>2. Derived(n) /\ Closed(n) /\ nodes[n].rule = "try_catch_statement"
  BY <1>1 DEF AcceptedIsDerivation, Accepted, Closed, Open, RuleAt
<1>3. PICK x \in [1 .. 4 -> DOMAIN owner] : Laid(n, x, words, TryPairs)
  <2>1. DOMAIN TryPairs = 1 .. 4 /\ 4 \in Nat
    BY DEF TryPairs
  <2>2. Skeleton(parts, Grammar[nodes[n].rule], words, TryPairs)
    BY <1>2 DEF TryGrammar
  <2> HIDE DEF words
  <2> QED
    BY <1>1, <1>2, <2>1, <2>2, SkeletonTokens
<1>4. DOMAIN owner = 1 .. Len(owner) /\ Len(owner) \in Nat
  BY <1>1, AcceptedStream
<1> PICK x1 \in DOMAIN owner, x2 \in DOMAIN owner, x3 \in DOMAIN owner, x4 \in DOMAIN owner :
      x1 = x[1] /\ x2 = x[2] /\ x3 = x[3] /\ x4 = x[4]
  OBVIOUS
<1>5. /\ owner[x1] = n /\ input[x1] = "BEGIN" /\ input[x1 + 1] = "TRY"
      /\ owner[x2] = n /\ input[x2] = "END" /\ input[x2 + 1] = "TRY"
      /\ owner[x3] = n /\ input[x3] = "BEGIN" /\ input[x3 + 1] = "CATCH"
      /\ owner[x4] = n /\ input[x4] = "END" /\ input[x4 + 1] = "CATCH"
  <2>1. DOMAIN TryPairs = 1 .. 4
    BY DEF TryPairs
  <2>2. \A k \in 1 .. 4 :
           owner[x[k]] = n /\ input[x[k]] = TryPairs[k].word /\ input[x[k] + 1] = TryPairs[k].behind
    BY <1>3, <2>1 DEF Laid
  <2> QED
    BY <2>2 DEF TryPairs
<1>6. x1 < x2 /\ x2 < x3 /\ x3 < x4
  <2>1. DOMAIN TryPairs = 1 .. 4
    BY DEF TryPairs
  <2>2. \A k, m \in 1 .. 4 : k < m => x[k] < x[m]
    BY <1>3, <2>1 DEF Laid
  <2> QED
    BY <2>2
<1>7. \A q \in DOMAIN owner : owner[q] = n /\ input[q] \in words => q \in {x1, x2, x3, x4}
  <2>1. DOMAIN TryPairs = 1 .. 4
    BY DEF TryPairs
  <2>2. \A q \in DOMAIN owner : owner[q] = n /\ input[q] \in words => \E k \in 1 .. 4 : x[k] = q
    BY <1>3, <2>1 DEF Laid
  <2>3. \A k \in 1 .. 4 : k = 1 \/ k = 2 \/ k = 3 \/ k = 4
    OBVIOUS
  <2> QED
    BY <2>2, <2>3
<1> PICK opens : opens = Openings
  OBVIOUS
<1> PICK closes : closes = Closings
  OBVIOUS
<1>8. opens = BracketsAt(BlockRules, {"BEGIN", "CASE"}) /\ closes = BracketsAt(BlockRules, {"END"})
  BY <1>1, BlockWords
<1>9. opens \subseteq Int /\ \A q \in closes : Matched(opens, closes, q)
  BY <1>4, <1>8 DEF BlockInv, PairsInv, BracketsAt
<1>10. \A q \in DOMAIN owner : owner[q] = n =>
          /\ q \in opens <=> input[q] \in {"BEGIN", "CASE"}
          /\ q \in closes <=> input[q] = "END"
  BY <1>2, <1>8 DEF BracketsAt, BlockRules, RuleAt
<1>11. ASSUME Opens(p), input[p + 1] = "TRY"
       PROVE  \E q \in DOMAIN owner :
                 q > p /\ Opens(q) /\ input[q + 1] = "CATCH" /\ owner[q] = owner[p]
  <2>1. input[p] \in {"BEGIN", "CASE"}
    BY <1>11 DEF Opens
  <2>2. p \in {x1, x2, x3, x4}
    BY <1>7, <2>1
  <2>3. p = x1
    BY <1>5, <1>11, <2>1, <2>2
  <2>4. x3 \in opens /\ x3 > p
    BY <1>4, <1>5, <1>6, <1>10, <2>3
  <2>5. Opens(x3)
    BY <2>4 DEF Openings
  <2> QED
    BY <1>5, <2>4, <2>5
<1>12. ASSUME NEW q \in {x2, x4}, NEW u, u = Partner(opens, closes, q)
       PROVE  /\ u \in {x1, x3} /\ u \in 1 .. q - 1
              /\ Balance(opens, closes, u, q) = 0
              /\ \A r \in u + 1 .. q : Balance(opens, closes, r, q) < 0
  <2>1. q \in closes /\ q \in Int /\ owner[q] = n /\ q \in DOMAIN owner
    BY <1>4, <1>5, <1>10
  <2>2. /\ u \in opens /\ u \in 1 .. q - 1 /\ owner[u] = n
        /\ Balance(opens, closes, u, q) = 0
        /\ \A r \in u + 1 .. q : Balance(opens, closes, r, q) < 0
    <3>1. Matched(opens, closes, q) /\ opens \subseteq Int /\ q \in Int
      BY <1>9, <2>1
    <3>2. Answers(opens, closes, Partner(opens, closes, q), q)
      BY <3>1, MatchedPartner
    <3>3. Answers(opens, closes, u, q)
      BY <1>12, <3>2
    <3> QED
      BY <2>1, <3>3 DEF Answers
  <2>3. u \in DOMAIN owner
    BY <1>4, <2>1, <2>2
  <2>4. input[u] \in {"BEGIN", "CASE"}
    BY <1>10, <2>2, <2>3
  <2>5. u \in {x1, x2, x3, x4}
    BY <1>7, <2>2, <2>3, <2>4
  <2>6. u \in {x1, x3}
    BY <1>5, <2>4, <2>5
  <2> QED
    BY <2>2, <2>6
<1>13. Partner(opens, closes, x2) = x1
  <2>1. PICK u : u = Partner(opens, closes, x2)
    OBVIOUS
  <2>2. u \in {x1, x3} /\ u \in 1 .. x2 - 1
    BY <1>12, <2>1
  <2> QED
    BY <1>4, <1>6, <2>1, <2>2
<1>14. Partner(opens, closes, x4) = x3
  <2>1. PICK u : u = Partner(opens, closes, x4)
    OBVIOUS
  <2>2. /\ u \in {x1, x3} /\ Balance(opens, closes, u, x4) = 0
        /\ \A r \in u + 1 .. x4 : Balance(opens, closes, r, x4) < 0
    BY <1>12, <2>1
  <2>3. ASSUME u = x1 PROVE FALSE
    <3>1. Balance(opens, closes, x1, x2) = 0
      BY <1>12, <1>13
    <3>2. /\ Balance(opens, closes, x2 + 1, x4) \in Int
          /\ Balance(opens, closes, x1, x4) =
                Balance(opens, closes, x1, x2) + Balance(opens, closes, x2 + 1, x4)
      <4>1. x1 \in Int /\ x2 \in Int /\ x4 \in Int /\ x1 <= x2 + 1 /\ x2 <= x4
        BY <1>4, <1>6
      <4> QED
        BY <4>1, BalanceSplit
    <3>3. Balance(opens, closes, x2 + 1, x4) = 0
      BY <2>2, <2>3, <3>1, <3>2
    <3>4. x2 + 1 \in u + 1 .. x4
      BY <1>4, <1>6, <2>3
    <3> QED
      BY <2>2, <3>3, <3>4
  <2> QED
    BY <2>1, <2>2, <2>3
<1>15. ASSUME Closes(p)
       PROVE  input[p + 1] = input[Partner(opens, closes, p) + 1]
  <2>1. input[p] = "END"
    BY <1>15 DEF Closes
  <2>2. p \in {x2, x4}
    BY <1>5, <1>7, <2>1
  <2>3. CASE p = x2
    BY <1>5, <1>13, <2>3
  <2>4. CASE p = x4
    BY <1>5, <1>14, <2>4
  <2> QED
    BY <2>2, <2>3, <2>4
<1> QED
  BY <1>11, <1>15

(***************************************************************************)
(* For every grammar with the conditions of TryGrammar, every stream and   *)
(* every prediction: in the tree of an accepted parse a BEGIN TRY has its  *)
(* CATCH in its own node, and an END closes the half that bears its name.  *)
(***************************************************************************)
THEOREM TryCorrect ==
    ASSUME NEW parts, TryGrammar(parts)
    PROVE  Spec => []TryHasItsCatch
<1>1. BlockGrammar(parts) /\ ReadsWholeStream
  BY DEF TryGrammar, BlockGrammar
<1>2. Init /\ TreeInv => BlockInv(parts) /\ EndsInv
  <2>1. Init => EndsInv
    BY DEF Init, EndsInv
  <2> QED
    BY <2>1, InitBlocks
<1>3. BlockInv(parts) /\ EndsInv /\ [Next]_vars => BlockInv(parts)' /\ EndsInv'
  BY <1>1, StepKeepsBlocks, StepKeepsEnds DEF BlockInv
<1>4. BlockInv(parts) /\ EndsInv /\ AcceptedIsComplete /\ AcceptedIsDerivation => TryHasItsCatch
  BY TryBrackets DEF TryHasItsCatch
<1>5. Spec => []AcceptedIsComplete /\ []AcceptedIsDerivation
  BY <1>1, AcceptedCorrect, DerivationCorrect
<1> QED
  BY <1>2, <1>3, <1>4, <1>5, TreeInvariant, PTL DEF Spec
=============================================================================
