----------------------------- MODULE LexerProofs ----------------------------
(***************************************************************************)
(* What the lexer finds, for every text: every token is the longest match  *)
(* of the rule that is listed first, a quote that is not closed takes the  *)
(* rest of the text with it, a comment ends where the comments nested in   *)
(* it are closed, and where all that is opened is closed, strings, comments*)
(* and quoted names are what one pass through the text takes them for.     *)
(***************************************************************************)
EXTENDS LexerProperties, DriverProofs

\* The rules that the theorems are about are rules, and an error is none.
LEMMA NamedRules ==
    /\ \A rule \in {"SPACE", "COMMENT", "DOUBLE_QUOTE_ID", "DOUBLE_QUOTE_BLANK",
                    "SQUARE_BRACKET_ID", "DIVIDE"} :
          \E i \in DOMAIN RuleOrder : RuleOrder[i] = rule
    /\ \A i \in DOMAIN RuleOrder : RuleOrder[i] # "error"
<1>1. /\ 8 \in DOMAIN RuleOrder /\ RuleOrder[8] = "SPACE"
      /\ 9 \in DOMAIN RuleOrder /\ RuleOrder[9] = "COMMENT"
      /\ 11 \in DOMAIN RuleOrder /\ RuleOrder[11] = "DOUBLE_QUOTE_ID"
      /\ 12 \in DOMAIN RuleOrder /\ RuleOrder[12] = "DOUBLE_QUOTE_BLANK"
      /\ 14 \in DOMAIN RuleOrder /\ RuleOrder[14] = "SQUARE_BRACKET_ID"
      /\ 48 \in DOMAIN RuleOrder /\ RuleOrder[48] = "DIVIDE"
  BY SMTT(60) DEF RuleOrder
<1>2. \A i \in DOMAIN RuleOrder : RuleOrder[i] # "error"
  BY SMTT(60) DEF RuleOrder
<1> QED
  BY <1>1, <1>2

\* A set of natural numbers with a bound has a greatest element.
LEMMA GreatestNumber ==
    ASSUME NEW n \in Nat, NEW T \in SUBSET (0 .. n), T # {}
    PROVE  \E i \in T : \A j \in T : j <= i
<1> DEFINE U == {k \in 0 .. n : n - k \in T}
<1>1. U \in SUBSET Nat
  OBVIOUS
<1>2. U # {}
  <2>1. PICK t \in T : TRUE
    OBVIOUS
  <2>2. n - t \in 0 .. n /\ n - (n - t) = t
    OBVIOUS
  <2> QED
    BY <2>2
<1>3. PICK k \in U : \A j \in U : k <= j
  BY <1>1, <1>2, LeastNumber
<1>4. n - k \in T /\ k \in 0 .. n
  OBVIOUS
<1>5. ASSUME NEW j \in T PROVE j <= n - k
  <2>1. n - j \in 0 .. n /\ n - (n - j) = j
    OBVIOUS
  <2>2. k <= n - j
    BY <1>3, <2>1
  <2> QED
    BY <1>4, <2>2
<1> QED
  BY <1>4, <1>5

\* All the places where a match from p on can end.
AllEnds(text, p) == UNION {Ends(text, RuleOrder[i], p) : i \in DOMAIN RuleOrder}

\* If a rule matches, the longest match is one of the matches and no shorter
\* than any of them.
LEMMA LongestIsMax ==
    ASSUME NEW text \in Seq(Characters), NEW p \in 1 .. Len(text),
           AllEnds(text, p) # {}
    PROVE  /\ LongestEnd(text, p) \in AllEnds(text, p)
           /\ \A f \in AllEnds(text, p) : f <= LongestEnd(text, p)
           /\ LongestEnd(text, p) \in p .. Len(text)
<1> DEFINE ends == AllEnds(text, p)
<1>1. ends \subseteq p .. Len(text)
  BY EndsWithin, p \in Nat DEF AllEnds
<1>2. Len(text) \in Nat /\ ends \in SUBSET (0 .. Len(text))
  BY <1>1
<1>3. LongestEnd(text, p) = IF \E e \in ends : \A f \in ends : f <= e
                            THEN CHOOSE e \in ends : \A f \in ends : f <= e
                            ELSE p - 1
  BY DEF LongestEnd, AllEnds
<1>4. \E e \in ends : \A f \in ends : f <= e
  BY <1>2, GreatestNumber
<1> HIDE DEF ends
<1>5. LongestEnd(text, p) \in ends /\ \A f \in ends : f <= LongestEnd(text, p)
  BY <1>3, <1>4, Zenon
<1> QED
  BY <1>1, <1>5 DEF ends

\* The type of a token is a rule that matches it.
LEMMA TypeMatches ==
    ASSUME NEW text \in Seq(Characters), NEW p \in 1 .. Len(text),
           NEW e \in AllEnds(text, p)
    PROVE  /\ e \in Ends(text, TokenType(text, p, e), p)
           /\ TokenType(text, p, e) # "error"
<1> DEFINE found == {i \in DOMAIN RuleOrder : e \in Ends(text, RuleOrder[i], p)}
<1>1. found # {} /\ found \in SUBSET Nat
  BY RuleNumbers DEF AllEnds
<1>2. \E i \in found : \A j \in found : i <= j
  BY <1>1, LeastNumber
<1>3. TokenType(text, p, e) = RuleOrder[CHOOSE i \in found : \A j \in found : i <= j]
  BY DEF TokenType
<1>4. (CHOOSE i \in found : \A j \in found : i <= j) \in found
  BY <1>2, Zenon
<1> QED
  BY <1>3, <1>4, NamedRules

-----------------------------------------------------------------------------
(***************************************************************************)
(* Every piece is what nextToken finds at its first character: the longest *)
(* match, or an error because there is none.                               *)
(***************************************************************************)
FollowsRules(t) ==
    /\ t.start \in 1 .. Len(content)
    /\ \/ /\ AllEnds(content, t.start) # {}
          /\ t.stop = LongestEnd(content, t.start)
          /\ t.type = TokenType(content, t.start, t.stop)
       \/ /\ AllEnds(content, t.start) = {}
          /\ t.type = "error"
          /\ t.stop = LET reached == Reached(content, t.start)
                      IN  IF reached < Len(content) THEN reached + 1 ELSE reached

PiecesFollowRules == \A n \in DOMAIN pieces : FollowsRules(pieces[n])

\* A piece is added behind the others.
LEMMA OneMorePiece ==
    ASSUME TypeOK, NEW STATE t, t \in [type : Types, start : Nat, stop : Nat],
           pieces' = Append(pieces, t)
    PROVE  \A n \in DOMAIN pieces' : pieces'[n] = t \/ (n \in DOMAIN pieces /\ pieces'[n] = pieces[n])
<1> DEFINE R == [type : Types, start : Nat, stop : Nat]
<1>1. pieces \in Seq(R) /\ t \in R
  BY DEF TypeOK
<1> HIDE DEF R
<1>2. /\ pieces' \in Seq(R) /\ Len(pieces') = Len(pieces) + 1 /\ Len(pieces) \in Nat
      /\ pieces'[Len(pieces) + 1] = t
      /\ \A n \in 1 .. Len(pieces) : pieces'[n] = pieces[n]
  BY <1>1, AppendProperties, LenProperties
<1>3. DOMAIN pieces = 1 .. Len(pieces) /\ DOMAIN pieces' = 1 .. Len(pieces) + 1
  BY <1>1, <1>2, LenProperties
<1>4. \A n \in 1 .. Len(pieces) + 1 : n \in 1 .. Len(pieces) \/ n = Len(pieces) + 1
  BY <1>2
<1> QED
  BY <1>2, <1>3, <1>4

\* A match is found only if a rule has one.
LEMMA NoMatch ==
    ASSUME NEW text \in Seq(Characters), NEW p \in 1 .. Len(text)
    PROVE  AllEnds(text, p) = {} <=> LongestEnd(text, p) < p
<1> DEFINE ends == AllEnds(text, p)
<1>1. ASSUME ends = {} PROVE LongestEnd(text, p) < p
  <2>1. LongestEnd(text, p) = IF \E e \in ends : \A f \in ends : f <= e
                              THEN CHOOSE e \in ends : \A f \in ends : f <= e
                              ELSE p - 1
    BY DEF LongestEnd, AllEnds
  <2>2. LongestEnd(text, p) = p - 1
    BY <1>1, <2>1
  <2> QED
    BY <2>2
<1>2. ASSUME ends # {} PROVE ~(LongestEnd(text, p) < p)
  BY <1>2, LongestIsMax
<1> QED
  BY <1>1, <1>2

\* Every step keeps the pieces in line with the rules.
LEMMA StepFollowsRules ==
    ASSUME IInv, PiecesFollowRules, [Next]_vars
    PROVE  PiecesFollowRules'
<1>1. TypeOK /\ content \in Seq(Characters) /\ Len(content) \in Nat
  BY DEF IInv, TypeOK
<1>2. CASE GetLine \/ GetLastLine \/ ReadFails \/ GetNothing
  <2>1. pieces' = <<>>
    BY <1>2 DEF GetLine, GetLastLine, ReadFails, GetNothing, Looping, IInv, ReadSoFar
  <2> QED
    BY <2>1 DEF PiecesFollowRules
<1>3. CASE Emit
  <2> DEFINE e == LongestEnd(content, index)
             t == Piece(TokenType(content, index, e), index, e)
  <2>1. /\ index \in 1 .. Len(content) /\ e >= index /\ UNCHANGED content
        /\ pieces' = Append(pieces, t)
    BY <1>1, <1>3 DEF Emit, AtText, TypeOK
  <2>2. AllEnds(content, index) # {}
    <3>1. e \in index - 1 .. Len(content)
      BY <1>1, <2>1, LongestWithin
    <3> HIDE DEF e
    <3>2. ~(e < index)
      BY <2>1, <3>1
    <3> QED
      BY <1>1, <2>1, <3>2, NoMatch DEF e
  <2>3. e \in index .. Len(content) /\ TokenType(content, index, e) \in Types
    BY <1>1, <2>1, <2>2, LongestIsMax, TypeOfMatch
  <2>4. /\ t.start = index /\ t.stop = e /\ t.type = TokenType(content, index, e)
        /\ t \in [type : Types, start : Nat, stop : Nat]
    BY <2>1, <2>3 DEF Piece
  <2> HIDE DEF t, e
  <2>5. FollowsRules(t)
    BY <2>1, <2>2, <2>4 DEF FollowsRules, e
  <2>6. \A n \in DOMAIN pieces' : pieces'[n] = t \/ (n \in DOMAIN pieces /\ pieces'[n] = pieces[n])
    BY <1>1, <2>1, <2>4, OneMorePiece
  <2>7. \A n \in DOMAIN pieces' : FollowsRules(pieces'[n])
    BY <2>5, <2>6 DEF PiecesFollowRules
  <2> QED
    BY <2>1, <2>7 DEF PiecesFollowRules, FollowsRules
<1>4. CASE Recover
  <2> DEFINE reached == Reached(content, index)
             last == IF reached < Len(content) THEN reached + 1 ELSE reached
             t == Piece("error", index, last)
  <2>1. /\ index \in 1 .. Len(content) /\ LongestEnd(content, index) < index /\ UNCHANGED content
        /\ pieces' = Append(pieces, t)
    BY <1>1, <1>4 DEF Recover, AtText, TypeOK
  <2>2. AllEnds(content, index) = {}
    BY <1>1, <2>1, NoMatch
  <2>3. last \in Nat /\ "error" \in Types
    <3>1. reached = Len(content) \/ reached = index - 1
      BY DEF Reached
    <3> HIDE DEF reached
    <3> QED
      BY <1>1, <2>1, <3>1 DEF Types
  <2>4. /\ t.start = index /\ t.stop = last /\ t.type = "error"
        /\ t \in [type : Types, start : Nat, stop : Nat]
    BY <2>1, <2>3 DEF Piece
  <2> HIDE DEF t, last
  <2>5. FollowsRules(t)
    BY <2>1, <2>2, <2>4 DEF FollowsRules, last
  <2>6. \A n \in DOMAIN pieces' : pieces'[n] = t \/ (n \in DOMAIN pieces /\ pieces'[n] = pieces[n])
    BY <1>1, <2>1, <2>4, OneMorePiece
  <2>7. \A n \in DOMAIN pieces' : FollowsRules(pieces'[n])
    BY <2>5, <2>6 DEF PiecesFollowRules
  <2> QED
    BY <2>1, <2>7 DEF PiecesFollowRules, FollowsRules
<1>5. CASE Close \/ EmitEOF \/ Done \/ UNCHANGED vars
  <2>1. UNCHANGED <<content, pieces>>
    BY <1>5 DEF Close, EmitEOF, Done, vars
  <2> QED
    BY <2>1 DEF PiecesFollowRules, FollowsRules
<1> QED
  BY <1>2, <1>3, <1>4, <1>5 DEF Next

\* Of all the matches the lexer always takes the longest, and of equally long
\* ones that of the rule which the grammar lists first.
THEOREM LongestMatchCorrect == Spec => []PiecesFollowRules
<1>1. Init => PiecesFollowRules
  BY DEF Init, PiecesFollowRules
<1>2. IInv /\ PiecesFollowRules /\ [Next]_vars => PiecesFollowRules'
  BY StepFollowsRules
<1> QED
  BY <1>1, <1>2, Invariant, PTL DEF Spec

-----------------------------------------------------------------------------
(***************************************************************************)
(* Quotes and brackets.                                                    *)
(***************************************************************************)
\* A word of the text.
LEMMA WordOf ==
    ASSUME NEW text \in Seq(Characters), NEW p \in 1 .. Len(text), NEW e \in p .. Len(text)
    PROVE  /\ SubSeq(text, p, e) \in Seq(Characters)
           /\ Len(SubSeq(text, p, e)) = e - p + 1
           /\ DOMAIN SubSeq(text, p, e) = 1 .. e - p + 1
           /\ \A i \in 1 .. e - p + 1 : SubSeq(text, p, e)[i] = text[p + i - 1]
<1> DEFINE w == SubSeq(text, p, e)
<1>1. Len(text) \in Nat /\ \A i \in p .. e : text[i] \in Characters
  BY ElementOfSeq
<1>2. w \in Seq(Characters) /\ Len(w) = e - p + 1 /\ \A i \in 1 .. e - p + 1 : w[i] = text[p + i - 1]
  BY <1>1, SubSeqProperties
<1> HIDE DEF w
<1>3. DOMAIN w = 1 .. e - p + 1
  BY <1>2, LenProperties
<1> QED
  BY <1>2, <1>3 DEF w

\* What encloses a word: its first and its last character.
LEMMA WordEnds ==
    ASSUME NEW text \in Seq(Characters), NEW p \in 1 .. Len(text), NEW e \in p + 1 .. Len(text)
    PROVE  Between(SubSeq(text, p, e), text[p], text[e])
<1> DEFINE w == SubSeq(text, p, e)
           l == e - p + 1
<1>1. l \in Nat /\ l >= 2 /\ 1 \in 1 .. l /\ l \in 1 .. l /\ p + 1 - 1 = p /\ p + l - 1 = e
  OBVIOUS
<1> HIDE DEF l
<1>2. w \in Seq(Characters) /\ Len(w) = l /\ \A i \in 1 .. l : w[i] = text[p + i - 1]
  BY WordOf, e \in p .. Len(text) DEF l
<1> HIDE DEF w
<1>3. w[1] = text[p] /\ w[l] = text[e]
  BY <1>1, <1>2
<1>4. w # <<>>
  BY <1>1, <1>2, EmptySeq
<1>5. Head(w) = w[1] /\ Last(w) = w[l]
  BY <1>2, <1>4 DEF Last
<1>6. Between(w, text[p], text[e])
  BY <1>1, <1>2, <1>3, <1>5 DEF Between
<1> QED
  BY <1>6 DEF w

\* The double quote is none of the other characters that matter here.
LEMMA DoubleQuoteIsItself == DoubleQuote \notin {"[", "]", "\n", "/"}
  BY Zenon DEF DoubleQuote

\* An opening quote or bracket that is closed somewhere begins a match.
LEMMA ClosedIsMatched ==
    ASSUME NEW text \in Seq(Characters), NEW p \in 1 .. Len(text), NEW close,
           \/ text[p] = DoubleQuote /\ close = DoubleQuote
           \/ text[p] = "[" /\ close = "]",
           NEW i \in p + 1 .. Len(text), text[i] = close
    PROVE  AllEnds(text, p) # {}
<1>0. Len(text) \in Nat
  OBVIOUS
<1>1. PICK e \in {k \in p + 1 .. Len(text) : text[k] = close} :
         \A k \in {j \in p + 1 .. Len(text) : text[j] = close} : e <= k
  <2> DEFINE T == {k \in p + 1 .. Len(text) : text[k] = close}
  <2>1. T \in SUBSET Nat /\ T # {}
    OBVIOUS
  <2> HIDE DEF T
  <2>2. \E e \in T : \A k \in T : e <= k
    BY <2>1, LeastNumber
  <2> QED
    BY <2>2 DEF T
<1>2. /\ e \in p + 1 .. Len(text) /\ text[e] = close
      /\ \A k \in p + 1 .. e - 1 : text[k] # close
  BY <1>0, <1>1
<1> DEFINE w == SubSeq(text, p, e)
           l == e - p + 1
<1>3. /\ w \in Seq(Characters) /\ Len(w) = l /\ \A k \in 1 .. l : w[k] = text[p + k - 1]
      /\ Between(w, text[p], text[e])
  BY <1>2, WordOf, WordEnds, e \in p .. Len(text)
<1>4. l \in Nat /\ l >= 2 /\ e \in p .. Len(text)
  BY <1>2
<1>5. \A k \in 2 .. l - 1 : w[k] # close
  <2> SUFFICES ASSUME NEW k \in 2 .. l - 1 PROVE w[k] # close
    OBVIOUS
  <2>1. k \in 1 .. l /\ p + k - 1 \in p + 1 .. e - 1
    BY <1>4
  <2> HIDE DEF w, l
  <2> QED
    BY <1>2, <1>3, <2>1
<1> HIDE DEF w, l
<1>6. ASSUME NEW rule \in {"DOUBLE_QUOTE_ID", "DOUBLE_QUOTE_BLANK", "SQUARE_BRACKET_ID"},
             Matches(rule, w)
      PROVE  AllEnds(text, p) # {}
  <2>1. e \in Ends(text, rule, p)
    BY <1>4, <1>6 DEF Ends, w
  <2>2. PICK k \in DOMAIN RuleOrder : RuleOrder[k] = rule
    BY NamedRules
  <2> QED
    BY <2>1, <2>2 DEF AllEnds
<1>7. CASE close = DoubleQuote /\ l > 2
  <2>1. text[p] = DoubleQuote /\ text[e] = DoubleQuote
    BY <1>2, <1>7, DoubleQuoteIsItself
  <2>2. Between(w, DoubleQuote, DoubleQuote) /\ Len(w) > 2 /\ \A k \in 2 .. Len(w) - 1 : w[k] # DoubleQuote
    BY <1>3, <1>5, <1>7, <2>1
  <2>3. Matches("DOUBLE_QUOTE_ID", w)
    BY <2>2 DEF Matches, Words
  <2> QED
    BY <1>6, <2>3
<1>8. CASE close = DoubleQuote /\ l = 2
  <2>1. text[p] = DoubleQuote /\ text[e] = DoubleQuote
    BY <1>2, <1>8, DoubleQuoteIsItself
  <2>2. Len(w) = 2 /\ w[1] = DoubleQuote /\ w[2] = DoubleQuote
    <3>1. e = p + 1 /\ p + 1 - 1 = p /\ p + 2 - 1 = p + 1
      BY <1>2, <1>8 DEF l
    <3>2. w[1] = text[p] /\ w[2] = text[e]
      BY <1>3, <1>8, <3>1
    <3> QED
      BY <1>3, <1>8, <2>1, <3>2
  <2>3. w = <<DoubleQuote, DoubleQuote>>
    <3> DEFINE v == <<DoubleQuote, DoubleQuote>>
    <3>1. v \in Seq({DoubleQuote}) /\ Len(v) = 2 /\ v[1] = DoubleQuote /\ v[2] = DoubleQuote
      OBVIOUS
    <3> HIDE DEF v
    <3>2. \A k \in 1 .. 2 : w[k] = v[k]
      BY <2>2, <3>1
    <3>3. w = v
      BY <1>3, <2>2, <3>1, <3>2, SeqEqual
    <3> QED
      BY <3>3 DEF v
  <2>4. Matches("DOUBLE_QUOTE_BLANK", w)
    BY <2>3 DEF Matches, Words
  <2> QED
    BY <1>6, <2>4
<1>9. CASE close = "]"
  <2>1. text[p] = "[" /\ text[e] = "]"
    BY <1>2, <1>9, DoubleQuoteIsItself
  <2> DEFINE v == SubSeq(w, 2, l - 1)
  <2>2. \A k \in DOMAIN v : v[k] # "]"
    <3>1. Len(v) = l - 2 /\ v \in Seq(Characters) /\ \A k \in 1 .. l - 2 : v[k] = w[k + 1]
      <4>1. \A k \in 2 .. l - 1 : w[k] \in Characters
        BY <1>3, <1>4, ElementOfSeq
      <4> QED
        BY <1>4, <4>1, SubSeqProperties
    <3> HIDE DEF v
    <3>2. DOMAIN v = 1 .. l - 2
      BY <3>1, LenProperties
    <3> SUFFICES ASSUME NEW k \in 1 .. l - 2 PROVE v[k] # "]"
      BY <3>2
    <3>3. k + 1 \in 2 .. l - 1
      BY <1>4
    <3> QED
      BY <1>5, <1>9, <3>1, <3>3
  <2>3. Inner(w) = v
    BY <1>3 DEF Inner
  <2> HIDE DEF v
  <2>5. Doubled(v, "]")
    <3> SUFFICES ASSUME NEW a \in DOMAIN v, NEW b \in DOMAIN v, \A k \in a .. b : v[k] = "]"
                 PROVE  a > b
      BY DEF Doubled
    <3> QED
      BY SMTT(60), <2>2
  <2>6. Matches("SQUARE_BRACKET_ID", w)
    BY <1>3, <2>1, <2>3, <2>5 DEF Matches, Words
  <2> QED
    BY <1>6, <2>6
<1> QED
  BY <1>4, <1>7, <1>8, <1>9

\* A newline is a match by itself.
LEMMA NewlineIsMatched ==
    ASSUME NEW text \in Seq(Characters), NEW p \in 1 .. Len(text), text[p] = "\n"
    PROVE  AllEnds(text, p) # {}
<1> DEFINE w == SubSeq(text, p, p)
<1>1. p \in p .. Len(text) /\ p - p + 1 = 1 /\ 1 \in 1 .. 1 /\ p + 1 - 1 = p
  OBVIOUS
<1>2. Len(w) = 1 /\ w[1] = "\n"
  BY <1>1, WordOf
<1> HIDE DEF w
<1>3. Matches("SPACE", w)
  BY <1>2 DEF Matches, Words, Blanks
<1>4. p \in Ends(text, "SPACE", p)
  BY <1>1, <1>3 DEF Ends, w
<1>5. PICK k \in DOMAIN RuleOrder : RuleOrder[k] = "SPACE"
  BY NamedRules
<1> QED
  BY <1>4, <1>5 DEF AllEnds

\* The text ends with the newline that the driver adds.
LEMMA LastIsNewline ==
    ASSUME IInv, phase = "done"
    PROVE  Len(content) \in Nat /\ Len(content) >= 1 /\ content[Len(content)] = "\n"
<1> DEFINE f == SubSeq(file, 1, at)
<1>1. content = Append(f, "\n")
  BY DEF IInv, ReadSoFar
<1>2. f \in Seq(Characters)
  <2>1. \A i \in 1 .. at : file[i] \in Characters
    BY ElementOfSeq DEF IInv, TypeOK
  <2> QED
    BY <2>1 DEF IInv, TypeOK
<1> HIDE DEF f
<1>3. Len(content) = Len(f) + 1 /\ content[Len(f) + 1] = "\n" /\ Len(f) \in Nat
  BY <1>1, <1>2
<1> QED
  BY <1>3

\* What one piece says about quotes and brackets that are not closed.
QuoteTakesTheRest(t) ==
    LET close == IF content[t.start] = "[" THEN "]" ELSE DoubleQuote
        open == \A i \in t.start + 1 .. Len(content) : content[i] # close
    IN  content[t.start] \in {DoubleQuote, "["} /\ open /\ t.type = "error" <=>
            t.stop = Len(content) /\ t.type = "error"

\* A piece that follows the rules is one of these.
LEMMA PieceTakesTheRest ==
    ASSUME IInv, phase = "done", NEW t, FollowsRules(t)
    PROVE  QuoteTakesTheRest(t)
<1> DEFINE close == IF content[t.start] = "[" THEN "]" ELSE DoubleQuote
           open == \A i \in t.start + 1 .. Len(content) : content[i] # close
<1>1. content \in Seq(Characters) /\ t.start \in 1 .. Len(content) /\ Len(content) \in Nat
  BY LastIsNewline DEF IInv, TypeOK, FollowsRules
<1>2. CASE t.type # "error"
  BY <1>2 DEF QuoteTakesTheRest
<1>3. CASE t.type = "error"
  <2>1. AllEnds(content, t.start) = {}
    <3>1. ASSUME AllEnds(content, t.start) # {} PROVE FALSE
      <4>1. t.type = TokenType(content, t.start, LongestEnd(content, t.start))
        BY <3>1 DEF FollowsRules
      <4> QED
        BY <1>1, <1>3, <3>1, <4>1, LongestIsMax, TypeMatches
    <3> QED
      BY <3>1
  <2>2. t.stop = LET reached == Reached(content, t.start)
                 IN  IF reached < Len(content) THEN reached + 1 ELSE reached
    BY <2>1 DEF FollowsRules
  <2>3. CASE content[t.start] \in {DoubleQuote, "["}
    <3>1. t.stop = Len(content)
      BY <1>1, <2>2, <2>3 DEF Reached
    <3>2. open
      BY <1>1, <2>1, <2>3, ClosedIsMatched
    <3> QED
      BY <1>3, <2>3, <3>1, <3>2 DEF QuoteTakesTheRest
  <2>4. CASE content[t.start] \notin {DoubleQuote, "["}
    <3>1. t.stop = t.start
      BY <1>1, <2>2, <2>4 DEF Reached
    <3>2. t.start # Len(content)
      BY <1>1, <2>1, LastIsNewline, NewlineIsMatched
    <3> QED
      BY <2>4, <3>1, <3>2 DEF QuoteTakesTheRest
  <2> QED
    BY <2>3, <2>4
<1> QED
  BY <1>2, <1>3

\* A double quote or a bracket without its end takes the rest of the text as
\* one error, and no other error is longer than a character.
THEOREM UnclosedQuoteCorrect == Spec => []UnclosedQuoteTakesTheRest
<1>1. IInv /\ PiecesFollowRules => UnclosedQuoteTakesTheRest
  <2> SUFFICES ASSUME IInv, PiecesFollowRules, phase = "done", NEW n \in DOMAIN pieces
               PROVE  QuoteTakesTheRest(pieces[n])
    BY DEF UnclosedQuoteTakesTheRest, QuoteTakesTheRest
  <2> QED
    BY PieceTakesTheRest DEF PiecesFollowRules
<1> QED
  BY <1>1, Invariant, LongestMatchCorrect, PTL

-----------------------------------------------------------------------------
(***************************************************************************)
(* Functions that are defined by recursion.  step[i][x] is the value at i  *)
(* if x is the value at i - 1.                                             *)
(***************************************************************************)
Recursion(f, a, b, first, step) ==
    f = [i \in a .. b |-> IF i = a THEN first ELSE step[i][f[i - 1]]]

\* There is such a function, whatever the step.
LEMMA RecursionExists ==
    ASSUME NEW a \in Int, NEW b \in Int, NEW first, NEW step
    PROVE  \E f : Recursion(f, a, b, first, step)
<1> DEFINE Rec(f, n) ==
               f = [i \in a .. n |-> IF i = a THEN first ELSE step[i][f[i - 1]]]
<1>1. CASE b < a
  <2>1. a .. b = {}
    BY <1>1
  <2> DEFINE f == [i \in a .. b |-> first]
  <2>2. Recursion(f, a, b, first, step)
    BY <2>1 DEF Recursion
  <2> QED
    BY <2>2
<1>2. CASE a <= b
  <2> DEFINE T == {k \in Nat : ~\E f : Rec(f, a + k)}
  <2>1. T = {}
    <3>1. SUFFICES ASSUME T # {} PROVE FALSE
      OBVIOUS
    <3>2. T \in SUBSET Nat
      OBVIOUS
    <3>3. PICK k \in T : \A j \in T : k <= j
      BY <3>1, <3>2, LeastNumber
    <3>4. k # 0
      <4> DEFINE f == [i \in a .. a + 0 |-> first]
      <4>1. Rec(f, a + 0)
        OBVIOUS
      <4> QED
        BY <4>1
    <3>5. k - 1 \in Nat /\ k - 1 \notin T /\ a + (k - 1) = a + k - 1
      BY <3>3, <3>4
    <3>6. PICK f : Rec(f, a + k - 1)
      BY <3>5
    <3> DEFINE g == [i \in a .. a + k |-> IF i = a + k THEN step[i][f[i - 1]] ELSE f[i]]
    <3>7. Rec(g, a + k)
      <4>1. ASSUME NEW i \in a .. a + k
            PROVE  g[i] = IF i = a THEN first ELSE step[i][g[i - 1]]
        <5>1. CASE i = a
          BY <3>3, <3>4, <3>6, <5>1
        <5>2. CASE i # a
          <6>1. i - 1 \in a .. a + k - 1 /\ i - 1 \in a .. a + k /\ i - 1 # a + k
            BY <5>2
          <6>2. g[i - 1] = f[i - 1]
            BY <6>1
          <6>3. CASE i = a + k
            BY <5>2, <6>2, <6>3
          <6>4. CASE i # a + k
            <7>1. i \in a .. a + k - 1
              BY <6>4
            <7>2. f[i] = step[i][f[i - 1]]
              BY <3>6, <5>2, <7>1
            <7> QED
              BY <5>2, <6>2, <6>4, <7>2
          <6> QED
            BY <6>3, <6>4
        <5> QED
          BY <5>1, <5>2
      <4> QED
        BY <4>1
    <3> QED
      BY <3>3, <3>7
  <2>2. b - a \in Nat /\ a + (b - a) = b
    BY <1>2
  <2>3. \E f : Rec(f, a + (b - a))
    BY <2>1, <2>2
  <2> HIDE DEF Rec
  <2>4. \E f : Rec(f, b)
    BY <2>2, <2>3
  <2> QED
    BY <2>4 DEF Rec, Recursion
<1> QED
  BY <1>1, <1>2

\* A set that holds the least number of an interval, and with each number of
\* it the next one, holds the interval.
LEMMA IntervalInduction ==
    ASSUME NEW a \in Int, NEW b \in Int, NEW Q, a <= b => a \in Q,
           \A i \in a + 1 .. b : i - 1 \in Q => i \in Q
    PROVE  \A i \in a .. b : i \in Q
<1> DEFINE T == {k \in Nat : a + k \in a .. b /\ a + k \notin Q}
<1>1. T = {}
  <2>1. SUFFICES ASSUME T # {} PROVE FALSE
    OBVIOUS
  <2>2. T \in SUBSET Nat
    OBVIOUS
  <2>3. PICK k \in T : \A j \in T : k <= j
    BY <2>1, <2>2, LeastNumber
  <2>4. k # 0
    BY <2>3
  <2>5. k - 1 \in Nat /\ k - 1 \notin T /\ a + (k - 1) = a + k - 1
    BY <2>3, <2>4
  <2>6. a + k - 1 \in Q /\ a + k \in a + 1 .. b
    BY <2>3, <2>4, <2>5
  <2> QED
    BY <2>3, <2>6
<1>2. ASSUME NEW i \in a .. b PROVE i \in Q
  <2>1. PICK k \in Nat : a + k = i
    BY i - a \in Nat, a + (i - a) = i
  <2>2. k \notin T
    BY <1>1
  <2>3. a + k \in Q
    BY <2>1, <2>2
  <2> QED
    BY <2>1, <2>3
<1> QED
  BY <1>2

\* The values of such a function.
LEMMA RecursionType ==
    ASSUME NEW a \in Int, NEW b \in Int, NEW S, NEW first \in S, NEW step, NEW f,
           Recursion(f, a, b, first, step),
           \A i \in a + 1 .. b : \A x \in S : step[i][x] \in S
    PROVE  \A i \in a .. b : f[i] \in S
<1> DEFINE Q == {i \in a .. b : f[i] \in S}
<1>1. a <= b => a \in Q
  BY DEF Recursion
<1>2. ASSUME NEW i \in a + 1 .. b, i - 1 \in Q PROVE i \in Q
  <2>1. i \in a .. b /\ i # a
    OBVIOUS
  <2>2. f[i] = step[i][f[i - 1]]
    BY <2>1 DEF Recursion
  <2> QED
    BY <1>2, <2>1, <2>2
<1> HIDE DEF Q
<1>3. \A i \in a .. b : i \in Q
  BY <1>1, <1>2, IntervalInduction
<1> QED
  BY <1>3 DEF Q

-----------------------------------------------------------------------------
(***************************************************************************)
(* Flattened sequences.                                                    *)
(***************************************************************************)
\* How FlattenSeq goes through the sequences.
Flattens(seqs, f) ==
    f = [i \in 1 .. Len(seqs) |-> IF i = 1 THEN seqs[i] ELSE f[i - 1] \o seqs[i]]

\* FlattenSeq is the last value of that function.
LEMMA FlattenDef ==
    ASSUME NEW R, NEW seqs \in Seq(Seq(R)), seqs # <<>>
    PROVE  \E f : /\ Flattens(seqs, f)
                  /\ FlattenSeq(seqs) = f[Len(seqs)]
                  /\ \A i \in 1 .. Len(seqs) : f[i] \in Seq(R)
<1> DEFINE S == Seq(R)
           L == Len(seqs)
           step == [i \in 1 .. L |-> [x \in S |-> x \o seqs[i]]]
<1>1. L \in Nat /\ L \in Int /\ L # 0 /\ \A i \in 1 .. L : seqs[i] \in S
  BY EmptySeq, ElementOfSeq
<1> HIDE DEF L
<1>2. \A i \in 1 .. L : \A x \in S : step[i][x] = x \o seqs[i] /\ step[i][x] \in S
  <2> SUFFICES ASSUME NEW i \in 1 .. L, NEW x \in S
               PROVE  step[i][x] = x \o seqs[i] /\ step[i][x] \in S
    OBVIOUS
  <2>1. seqs[i] \in Seq(R)
    BY <1>1
  <2> QED
    BY <2>1, ConcatProperties
<1>3. seqs[1] \in S /\ 1 \in 1 .. L
  BY <1>1
<1> HIDE DEF step, S
<1>4. PICK a \in Int : a = 1
  OBVIOUS
<1>5. \A i \in a + 1 .. L : i \in 1 .. L /\ i # 1 /\ i - 1 \in 1 .. L
  BY <1>1, <1>4
<1>6. PICK f : Recursion(f, a, L, seqs[1], step)
  BY <1>1, RecursionExists
<1>7. \A i \in a .. L : f[i] \in S
  <2>1. \A i \in a + 1 .. L : \A x \in S : step[i][x] \in S
    BY <1>2, <1>5
  <2> QED
    BY <1>1, <1>3, <1>6, <2>1, RecursionType
<1>8. Flattens(seqs, f)
  <2>0. f = [i \in 1 .. L |-> IF i = 1 THEN seqs[1] ELSE step[i][f[i - 1]]]
    BY <1>4, <1>6 DEF Recursion
  <2>1. ASSUME NEW i \in 1 .. L
        PROVE  (IF i = 1 THEN seqs[1] ELSE step[i][f[i - 1]])
                 = IF i = 1 THEN seqs[i] ELSE f[i - 1] \o seqs[i]
    <3>1. CASE i = 1
      BY <3>1
    <3>2. CASE i # 1
      <4>1. i - 1 \in a .. L
        BY <1>1, <1>4, <3>2
      <4> QED
        BY <1>2, <1>7, <3>2, <4>1
    <3> QED
      BY <3>1, <3>2
  <2>2. f = [i \in 1 .. L |-> IF i = 1 THEN seqs[i] ELSE f[i - 1] \o seqs[i]]
    BY <2>0, <2>1, Zenon
  <2> QED
    BY <2>2 DEF Flattens, L
<1>9. FlattenSeq(seqs) = (CHOOSE g : Flattens(seqs, g))[L]
  BY <1>1 DEF FlattenSeq, Flattens, L
<1>10. PICK g : Flattens(seqs, g) /\ FlattenSeq(seqs) = g[L]
  BY <1>8, <1>9
<1>11. g = [i \in 1 .. L |-> IF i = 1 THEN seqs[i] ELSE g[i - 1] \o seqs[i]]
  BY <1>10 DEF Flattens, L
<1> DEFINE Q == {i \in 1 .. L : g[i] \in S}
<1>12. a <= L => a \in Q
  BY <1>3, <1>4, <1>11
<1>13. ASSUME NEW i \in a + 1 .. L, i - 1 \in Q PROVE i \in Q
  <2>1. g[i] = g[i - 1] \o seqs[i] /\ g[i - 1] \in S
    BY <1>5, <1>11, <1>13
  <2> QED
    BY <1>2, <1>5, <2>1
<1> HIDE DEF Q
<1>14. \A i \in a .. L : i \in Q
  BY <1>1, <1>12, <1>13, IntervalInduction
<1>15. \A i \in 1 .. L : g[i] \in S
  BY <1>4, <1>14 DEF Q
<1> QED
  BY <1>10, <1>15 DEF L, S

\* The sequence x begins with y.
Begins(x, y) == Len(y) <= Len(x) /\ \A k \in 1 .. Len(y) : x[k] = y[k]

\* What comes of the first sequences is at the front.
LEMMA FlattenGoesOn ==
    ASSUME NEW R, NEW seqs \in Seq(Seq(R)), NEW f, Flattens(seqs, f),
           \A i \in 1 .. Len(seqs) : f[i] \in Seq(R), NEW b \in 1 .. Len(seqs)
    PROVE  \A i \in b .. Len(seqs) : Begins(f[i], f[b])
<1> DEFINE L == Len(seqs)
           Q == {i \in b .. L : Begins(f[i], f[b])}
<1>1. L \in Int /\ L \in Nat /\ b \in Int /\ \A i \in 1 .. L : seqs[i] \in Seq(R) /\ f[i] \in Seq(R)
  BY ElementOfSeq
<1>2. f = [i \in 1 .. L |-> IF i = 1 THEN seqs[i] ELSE f[i - 1] \o seqs[i]]
  BY DEF Flattens
<1>3. b \in 1 .. L
  OBVIOUS
<1> HIDE DEF L
<1>4. b <= L => b \in Q
  BY <1>1, <1>3 DEF Begins
<1>5. ASSUME NEW i \in b + 1 .. L, i - 1 \in Q PROVE i \in Q
  <2>1. i \in 1 .. L /\ i # 1 /\ i - 1 \in 1 .. L /\ i \in b .. L
    BY <1>1, <1>3
  <2>2. f[i] = f[i - 1] \o seqs[i]
    BY <1>2, <2>1
  <2> DEFINE x == f[i - 1]
             y == seqs[i]
             z == f[b]
  <2>3. x \in Seq(R) /\ y \in Seq(R) /\ z \in Seq(R) /\ Begins(x, z) /\ f[i] = x \o y
    BY <1>1, <1>3, <1>5, <2>1, <2>2
  <2> HIDE DEF x, y, z
  <2>4. /\ Len(x \o y) = Len(x) + Len(y) /\ Len(x) \in Nat /\ Len(y) \in Nat /\ Len(z) \in Nat
        /\ \A k \in 1 .. Len(x) : (x \o y)[k] = x[k]
    BY <2>3, ConcatProperties, LenProperties
  <2>5. Begins(x \o y, z)
    BY <2>3, <2>4 DEF Begins
  <2> QED
    BY <2>1, <2>3, <2>5 DEF z
<1> HIDE DEF Q
<1>6. \A i \in b .. L : i \in Q
  BY <1>1, <1>4, <1>5, IntervalInduction
<1> QED
  BY <1>6 DEF Q, L

\* What FlattenSeq gives: its type, how it begins, and that nothing is lost.
FlattenFacts(R, seqs) ==
    /\ FlattenSeq(seqs) \in Seq(R)
    /\ seqs = <<>> => FlattenSeq(seqs) = <<>>
    /\ Len(seqs) = 1 => FlattenSeq(seqs) = seqs[1]
    /\ Len(seqs) >= 1 => Begins(FlattenSeq(seqs), seqs[1])
    /\ Len(seqs) >= 2 /\ seqs[1] = <<>> => Begins(FlattenSeq(seqs), seqs[2])
    /\ \A k \in 1 .. Len(seqs) : \A j \in 1 .. Len(seqs[k]) :
          \E m \in 1 .. Len(FlattenSeq(seqs)) : FlattenSeq(seqs)[m] = seqs[k][j]

\* These facts hold of any sequence of sequences.
LEMMA FlattenProperties ==
    ASSUME NEW R, NEW seqs \in Seq(Seq(R))
    PROVE  FlattenFacts(R, seqs)
<1> DEFINE L == Len(seqs)
           z == FlattenSeq(seqs)
<1>1. CASE seqs = <<>>
  <2>1. Len(seqs) = 0
    BY <1>1, EmptySeq
  <2>2. FlattenSeq(seqs) = <<>>
    BY <1>1, <2>1 DEF FlattenSeq
  <2> QED
    BY <2>1, <2>2, EmptySeq DEF FlattenFacts
<1>2. CASE seqs # <<>>
  <2>1. PICK f : /\ Flattens(seqs, f)
                 /\ z = f[L]
                 /\ \A i \in 1 .. L : f[i] \in Seq(R)
    BY <1>2, FlattenDef
  <2>2. L \in Nat /\ L # 0 /\ \A i \in 1 .. L : seqs[i] \in Seq(R) /\ f[i] \in Seq(R)
    BY <1>2, <2>1, EmptySeq, ElementOfSeq
  <2>3. f = [i \in 1 .. L |-> IF i = 1 THEN seqs[i] ELSE f[i - 1] \o seqs[i]]
    BY <2>1 DEF Flattens
  <2>4. \A b \in 1 .. L : Begins(z, f[b])
    <3> SUFFICES ASSUME NEW b \in 1 .. L PROVE Begins(z, f[b])
      OBVIOUS
    <3>1. \A i \in b .. L : Begins(f[i], f[b])
      BY <2>1, FlattenGoesOn
    <3>2. L \in b .. L
      BY <2>2
    <3> QED
      BY <2>1, <3>1, <3>2
  <2> HIDE DEF z, L
  <2>5. z \in Seq(R) /\ (L = 1 => z = seqs[1])
    BY <2>1, <2>2, <2>3
  <2>6. Begins(z, seqs[1])
    <3>1. 1 \in 1 .. L /\ f[1] = seqs[1]
      BY <2>2, <2>3
    <3> QED
      BY <2>4, <3>1
  <2>7. ASSUME L >= 2, seqs[1] = <<>> PROVE Begins(z, seqs[2])
    <3>1. 2 \in 1 .. L /\ 1 \in 1 .. L /\ 2 - 1 = 1
      BY <2>2, <2>7
    <3>2. f[1] = <<>>
      BY <2>3, <2>7, <3>1
    <3>3. f[2] = f[2 - 1] \o seqs[2]
      BY <2>3, <3>1, 2 # 1, Zenon
    <3>4. f[2] = f[1] \o seqs[2]
      BY <3>1, <3>3
    <3>5. f[2] = seqs[2]
      BY <2>2, <3>1, <3>2, <3>4, ConcatEmptySeq
    <3> QED
      BY <2>4, <3>1, <3>5
  <2>8. ASSUME NEW k \in 1 .. L, NEW j \in 1 .. Len(seqs[k])
        PROVE  \E m \in 1 .. Len(z) : z[m] = seqs[k][j]
    <3>1. Begins(z, f[k]) /\ Len(z) \in Nat
      BY <2>4, <2>5, LenProperties
    <3>2. \E m \in 1 .. Len(f[k]) : f[k][m] = seqs[k][j]
      <4>1. CASE k = 1
        <5>1. f[k] = seqs[k]
          BY <2>3, <4>1
        <5> QED
          BY <5>1
      <4>2. CASE k # 1
        <5>1. f[k] = f[k - 1] \o seqs[k]
          BY <2>3, <4>2
        <5>2. k - 1 \in 1 .. L
          BY <2>2, <4>2
        <5> DEFINE x == f[k - 1]
                   y == seqs[k]
        <5>3. x \in Seq(R) /\ y \in Seq(R) /\ j \in 1 .. Len(y)
          BY <2>2, <5>2
        <5> HIDE DEF x, y
        <5>4. /\ Len(x \o y) = Len(x) + Len(y) /\ Len(x) \in Nat /\ Len(y) \in Nat
              /\ \A m \in Len(x) + 1 .. Len(x) + Len(y) : (x \o y)[m] = y[m - Len(x)]
          BY <5>3, ConcatProperties, LenProperties
        <5>5. /\ Len(x) + j \in Len(x) + 1 .. Len(x) + Len(y) /\ (Len(x) + j) - Len(x) = j
              /\ Len(x) + j \in 1 .. Len(x \o y)
          BY <5>3, <5>4
        <5>6. (x \o y)[Len(x) + j] = y[j]
          BY <5>4, <5>5
        <5>7. \E m \in 1 .. Len(x \o y) : (x \o y)[m] = y[j]
          BY <5>5, <5>6
        <5> QED
          BY <5>1, <5>7 DEF x, y
      <4> QED
        BY <4>1, <4>2
    <3>3. Len(f[k]) \in Nat
      BY <2>2, LenProperties
    <3>4. \A m \in 1 .. Len(f[k]) : m \in 1 .. Len(z) /\ z[m] = f[k][m]
      BY <3>1, <3>3 DEF Begins
    <3> QED
      BY <3>2, <3>4
  <2> QED
    BY <1>2, <2>5, <2>6, <2>7, <2>8 DEF FlattenFacts, z, L
<1> QED
  BY <1>1, <1>2

-----------------------------------------------------------------------------
(***************************************************************************)
(* The readings of a comment.                                              *)
(***************************************************************************)
ReadingSet == [depth : Int, at : {"slash", "star", "body"}]

\* How the readings z begin if the preferred reading goes on as x.
Heads(z, x) ==
    Len(x) >= 1 =>
        /\ Len(z) >= 1 /\ z[1] = x[1]
        /\ x[1].depth = 0 => Len(z) = 1
        /\ Len(x) >= 2 /\ x[1].depth # 0 => Len(z) >= 2 /\ z[2] = x[2]

Complete(rs) == \E k \in 1 .. Len(rs) : rs[k].depth = 0

\* What is left when the less preferred readings are given up.
PrunedFacts(rs) ==
    /\ Pruned(rs) \in Seq(ReadingSet)
    /\ ~Complete(rs) => Pruned(rs) = rs
    /\ Complete(rs) => Complete(Pruned(rs))
    /\ Len(rs) >= 1 => Len(Pruned(rs)) >= 1 /\ Pruned(rs)[1] = rs[1]
    /\ Len(rs) >= 1 /\ rs[1].depth = 0 => Len(Pruned(rs)) = 1
    /\ Len(rs) >= 2 /\ rs[1].depth # 0 => Len(Pruned(rs)) >= 2 /\ Pruned(rs)[2] = rs[2]

\* These facts hold of any list of readings.
LEMMA PrunedProperties ==
    ASSUME NEW rs \in Seq(ReadingSet)
    PROVE  PrunedFacts(rs)
<1> DEFINE complete == {i \in DOMAIN rs : rs[i].depth = 0}
           L == Len(rs)
<1>1. DOMAIN rs = 1 .. L /\ L \in Nat /\ \A i \in 1 .. L : rs[i] \in ReadingSet
  BY LenProperties, ElementOfSeq
<1> HIDE DEF L
<1>2. complete = {} <=> ~Complete(rs)
  BY <1>1 DEF Complete, L
<1>3. CASE complete = {}
  <2>1. Pruned(rs) = rs
    BY <1>3 DEF Pruned
  <2>2. ~(L >= 1 /\ rs[1].depth = 0)
    BY <1>1, <1>3
  <2> QED
    BY <1>2, <1>3, <2>1, <2>2 DEF PrunedFacts, L
<1>4. CASE complete # {}
  <2>1. complete \in SUBSET Nat
    BY <1>1
  <2>2. \E i \in complete : \A j \in complete : i <= j
    BY <1>4, <2>1, LeastNumber
  <2>3. PICK c : /\ Pruned(rs) = SubSeq(rs, 1, c)
                 /\ c \in complete /\ \A j \in complete : c <= j
    <3>1. Pruned(rs) = SubSeq(rs, 1, CHOOSE i \in complete : \A j \in complete : i <= j)
      BY <1>4 DEF Pruned
    <3> HIDE DEF complete
    <3> QED
      BY <2>2, <3>1, Zenon
  <2>4. c \in 1 .. L /\ rs[c].depth = 0
    BY <1>1, <2>3
  <2> DEFINE w == SubSeq(rs, 1, c)
  <2>5. w \in Seq(ReadingSet) /\ Len(w) = c /\ \A i \in 1 .. c : w[i] = rs[i]
    <3>1. \A i \in 1 .. c : rs[i] \in ReadingSet
      BY <1>1, <2>4
    <3> QED
      BY <1>1, <2>4, <3>1 DEF L
  <2>6. Complete(w)
    <3>1. c \in 1 .. c
      BY <2>4
    <3> HIDE DEF w
    <3> QED
      BY <2>4, <2>5, <3>1 DEF Complete
  <2> HIDE DEF w
  <2>7. w[1] = rs[1] /\ Len(w) >= 1
    BY <1>1, <2>4, <2>5
  <2>8. ASSUME rs[1].depth = 0 PROVE Len(w) = 1
    <3>1. 1 \in complete
      BY <1>1, <2>4, <2>8
    <3> QED
      BY <1>1, <2>3, <2>4, <2>5, <3>1
  <2>9. ASSUME rs[1].depth # 0 PROVE Len(w) >= 2 /\ w[2] = rs[2]
    <3>1. c # 1
      BY <2>4, <2>9
    <3> QED
      BY <1>1, <2>4, <2>5, <3>1
  <2>10. Complete(rs)
    BY <1>2, <1>4
  <2>11. Pruned(rs) = w
    BY <2>3 DEF w
  <2> QED
    BY <2>5, <2>6, <2>7, <2>8, <2>9, <2>10, <2>11 DEF PrunedFacts
<1> QED
  BY <1>3, <1>4

\* Short sequences put together.
LEMMA ShortConcat ==
    ASSUME NEW S, NEW x \in S, NEW y \in S
    PROVE  /\ <<>> \o <<x>> = <<x>> /\ <<x>> \o <<>> = <<x>>
           /\ <<x>> \o <<y>> = <<x, y>>
<1> DEFINE a == <<x>>
           b == <<y>>
           u == <<x, y>>
<1>1. /\ a \in Seq(S) /\ Len(a) = 1 /\ a[1] = x
      /\ b \in Seq(S) /\ Len(b) = 1 /\ b[1] = y
      /\ u \in Seq(S) /\ Len(u) = 2 /\ u[1] = x /\ u[2] = y
  OBVIOUS
<1> HIDE DEF a, b, u
<1>2. <<>> \o a = a /\ a \o <<>> = a
  BY <1>1, ConcatEmptySeq
<1>3. /\ a \o b \in Seq(S) /\ Len(a \o b) = 2
      /\ (a \o b)[1] = x /\ (a \o b)[2] = y
  BY <1>1, ConcatProperties
<1>4. a \o b = u
  <2> DEFINE c == a \o b
  <2>1. c \in Seq(S) /\ Len(c) = 2 /\ c[1] = x /\ c[2] = y
    BY <1>3
  <2> HIDE DEF c
  <2>2. \A i \in 1 .. 2 : c[i] = u[i]
    BY <1>1, <2>1
  <2>3. c = u
    BY <1>1, <2>1, <2>2, SeqEqual
  <2> QED
    BY <2>3 DEF c
<1> QED
  BY <1>2, <1>4 DEF a, b, u

\* What becomes of one reading.
ReadingFacts(r, c) ==
    /\ Readings(r, c) \in Seq(ReadingSet)
    /\ r.at = "slash" /\ c = "*" => Readings(r, c) = <<Reading(r.depth, "body")>>
    /\ r.at = "slash" /\ c # "*" => Readings(r, c) = <<>>
    /\ r.at = "star" /\ c = "/" => Readings(r, c) = <<Reading(r.depth - 1, "body")>>
    /\ r.at = "star" /\ c # "/" => Readings(r, c) = <<>>
    /\ r.at = "body" /\ r.depth = 0 => Readings(r, c) = <<>>
    /\ r.at = "body" /\ r.depth # 0 /\ c = "*" =>
          Readings(r, c) = <<Reading(r.depth, "star"), Reading(r.depth, "body")>>
    /\ r.at = "body" /\ r.depth # 0 /\ c = "/" =>
          Readings(r, c) = <<Reading(r.depth + 1, "slash"), Reading(r.depth, "body")>>
    /\ r.at = "body" /\ r.depth # 0 /\ c \notin {"*", "/"} =>
          Readings(r, c) = <<Reading(r.depth, "body")>>

\* These facts hold of any reading and any character.
LEMMA ReadingProperties ==
    ASSUME NEW r \in ReadingSet, NEW c
    PROVE  ReadingFacts(r, c)
<1>1. r.depth \in Int /\ r.at \in {"slash", "star", "body"}
  BY DEF ReadingSet
<1>2. \A d \in Int : \A a \in {"slash", "star", "body"} : Reading(d, a) \in ReadingSet
  BY DEF Reading, ReadingSet
<1>3. <<>> \in Seq(ReadingSet) /\ \A x \in ReadingSet : <<x>> \in Seq(ReadingSet)
  OBVIOUS
<1>4. \A x, y \in ReadingSet : <<x, y>> \in Seq(ReadingSet)
  OBVIOUS
<1>5. CASE r.at = "slash"
  <2>1. Readings(r, c) = IF c = "*" THEN <<Reading(r.depth, "body")>> ELSE <<>>
    BY <1>5 DEF Readings
  <2> QED
    BY <1>1, <1>2, <1>3, <1>5, <2>1 DEF ReadingFacts
<1>6. CASE r.at = "star"
  <2>1. Readings(r, c) = IF c = "/" THEN <<Reading(r.depth - 1, "body")>> ELSE <<>>
    BY <1>6 DEF Readings
  <2> QED
    BY <1>1, <1>2, <1>3, <1>6, <2>1 DEF ReadingFacts
<1>7. CASE r.at = "body" /\ r.depth = 0
  <2>1. Readings(r, c) = <<>>
    BY <1>7 DEF Readings
  <2> QED
    BY <1>3, <1>7, <2>1 DEF ReadingFacts
<1>8. CASE r.at = "body" /\ r.depth # 0
  <2> DEFINE star == Reading(r.depth, "star")
             slash == Reading(r.depth + 1, "slash")
             body == Reading(r.depth, "body")
  <2>1. Readings(r, c) = (IF c = "*" THEN <<star>> ELSE <<>>)
                         \o (IF c = "/" THEN <<slash>> ELSE <<>>) \o <<body>>
    BY <1>8 DEF Readings
  <2>2. star \in ReadingSet /\ slash \in ReadingSet /\ body \in ReadingSet
    BY <1>1, <1>2
  <2> HIDE DEF star, slash, body
  <2>3. CASE c = "*"
    <3>1. Readings(r, c) = <<star>> \o <<>> \o <<body>>
      BY <2>1, <2>3
    <3>2. <<star>> \o <<>> = <<star>> /\ <<star>> \o <<body>> = <<star, body>>
      BY <2>2, ShortConcat
    <3>3. Readings(r, c) = <<star, body>>
      BY <3>1, <3>2
    <3> QED
      BY <1>4, <1>8, <2>2, <2>3, <3>3 DEF ReadingFacts, star, body
  <2>4. CASE c = "/"
    <3>1. Readings(r, c) = <<>> \o <<slash>> \o <<body>>
      BY <2>1, <2>4
    <3>2. <<>> \o <<slash>> = <<slash>> /\ <<slash>> \o <<body>> = <<slash, body>>
      BY <2>2, ShortConcat
    <3>3. Readings(r, c) = <<slash, body>>
      BY <3>1, <3>2
    <3> QED
      BY <1>4, <1>8, <2>2, <2>4, <3>3 DEF ReadingFacts, slash, body
  <2>5. CASE c \notin {"*", "/"}
    <3>1. Readings(r, c) = <<>> \o <<>> \o <<body>>
      BY <2>1, <2>5
    <3>2. Readings(r, c) = <<body>>
      BY <2>2, <3>1
    <3> QED
      BY <1>3, <1>8, <2>2, <2>5, <3>2 DEF ReadingFacts, body
  <2> QED
    BY <2>3, <2>4, <2>5
<1> QED
  BY <1>1, <1>5, <1>6, <1>7, <1>8

\* The readings behind c.
NextReadings(rs, c) == Pruned(FlattenSeq([k \in DOMAIN rs |-> Readings(rs[k], c)]))

NextFacts(rs, c) ==
    /\ NextReadings(rs, c) \in Seq(ReadingSet)
    /\ rs = <<>> => NextReadings(rs, c) = <<>>
    /\ Len(rs) = 1 /\ Readings(rs[1], c) = <<>> => NextReadings(rs, c) = <<>>
    /\ Len(rs) >= 1 => Heads(NextReadings(rs, c), Readings(rs[1], c))
    /\ Len(rs) >= 2 /\ Readings(rs[1], c) = <<>> =>
          Heads(NextReadings(rs, c), Readings(rs[2], c))
    /\ ~Complete(NextReadings(rs, c)) =>
          \A k \in 1 .. Len(rs) : \A j \in 1 .. Len(Readings(rs[k], c)) :
              \E m \in 1 .. Len(NextReadings(rs, c)) :
                  NextReadings(rs, c)[m] = Readings(rs[k], c)[j]

\* These facts hold of any list of readings and any character.
LEMMA NextProperties ==
    ASSUME NEW rs \in Seq(ReadingSet), NEW c
    PROVE  NextFacts(rs, c)
<1> DEFINE seqs == [k \in DOMAIN rs |-> Readings(rs[k], c)]
           L == Len(rs)
           flat == FlattenSeq(seqs)
           z == NextReadings(rs, c)
<1>1. DOMAIN rs = 1 .. L /\ L \in Nat /\ \A i \in 1 .. L : rs[i] \in ReadingSet
  BY LenProperties, ElementOfSeq
<1>2. \A i \in 1 .. L : Readings(rs[i], c) \in Seq(ReadingSet)
  BY <1>1, ReadingProperties DEF ReadingFacts
<1>3. /\ seqs \in Seq(Seq(ReadingSet)) /\ Len(seqs) = L
      /\ \A i \in 1 .. L : seqs[i] = Readings(rs[i], c)
  <2> HIDE DEF L
  <2>1. seqs \in [1 .. L -> Seq(ReadingSet)]
    BY <1>1, <1>2
  <2>2. seqs \in Seq(Seq(ReadingSet)) /\ DOMAIN seqs = 1 .. L
    BY <1>1, <2>1, SeqDef
  <2>3. Len(seqs) = L
    BY <1>1, <2>2, LenProperties
  <2> QED
    BY <1>1, <2>2, <2>3
<1> HIDE DEF seqs, L
<1>4. FlattenFacts(ReadingSet, seqs)
  BY <1>3, FlattenProperties
<1>5. flat \in Seq(ReadingSet) /\ Len(flat) \in Nat
  BY <1>4, LenProperties DEF FlattenFacts
<1>6. z = Pruned(flat) /\ PrunedFacts(flat)
  BY <1>5, PrunedProperties DEF NextReadings, seqs
<1> HIDE DEF flat, z
<1>7. ASSUME NEW x, Len(x) \in Nat, Begins(flat, x) PROVE Heads(z, x)
  <2> SUFFICES ASSUME Len(x) >= 1 PROVE Heads(z, x)
    BY DEF Heads
  <2>1. Len(flat) >= 1 /\ flat[1] = x[1] /\ (Len(x) >= 2 => Len(flat) >= 2 /\ flat[2] = x[2])
    BY <1>5, <1>7 DEF Begins
  <2> QED
    BY <1>6, <2>1 DEF Heads, PrunedFacts
<1>8. z \in Seq(ReadingSet)
  BY <1>6 DEF PrunedFacts
<1>9. ASSUME flat = <<>> PROVE z = <<>>
  <2>1. ~Complete(flat)
    BY <1>9 DEF Complete
  <2> QED
    BY <1>6, <1>9, <2>1 DEF PrunedFacts
<1>10. rs = <<>> => z = <<>>
  <2> SUFFICES ASSUME rs = <<>> PROVE z = <<>>
    OBVIOUS
  <2>1. L = 0
    BY DEF L
  <2>2. seqs = <<>>
    BY <1>3, <2>1, EmptySeq
  <2> QED
    BY <1>4, <1>9, <2>2 DEF FlattenFacts, flat
<1>11. ASSUME L = 1, Readings(rs[1], c) = <<>> PROVE z = <<>>
  <2>1. flat = seqs[1] /\ seqs[1] = <<>>
    BY <1>3, <1>4, <1>11 DEF FlattenFacts, flat
  <2> QED
    BY <1>9, <2>1
<1>12. ASSUME L >= 1 PROVE Heads(z, Readings(rs[1], c))
  <2>1. 1 \in 1 .. L
    BY <1>1, <1>12
  <2>2. Begins(flat, Readings(rs[1], c)) /\ Len(Readings(rs[1], c)) \in Nat
    BY <1>2, <1>3, <1>4, <1>12, <2>1, LenProperties DEF FlattenFacts, flat
  <2> QED
    BY <1>7, <2>2
<1>13. ASSUME L >= 2, Readings(rs[1], c) = <<>> PROVE Heads(z, Readings(rs[2], c))
  <2>1. 1 \in 1 .. L /\ 2 \in 1 .. L
    BY <1>1, <1>13
  <2>2. Begins(flat, Readings(rs[2], c)) /\ Len(Readings(rs[2], c)) \in Nat
    BY <1>2, <1>3, <1>4, <1>13, <2>1, LenProperties DEF FlattenFacts, flat
  <2> QED
    BY <1>7, <2>2
<1>14. ASSUME ~Complete(z), NEW k \in 1 .. L, NEW j \in 1 .. Len(Readings(rs[k], c))
       PROVE  \E m \in 1 .. Len(z) : z[m] = Readings(rs[k], c)[j]
  <2>1. z = flat
    BY <1>6, <1>14 DEF PrunedFacts
  <2>2. \E m \in 1 .. Len(flat) : flat[m] = seqs[k][j]
    BY <1>3, <1>4 DEF FlattenFacts, flat
  <2> QED
    BY <1>3, <2>1, <2>2
<1> QED
  BY <1>8, <1>10, <1>11, <1>12, <1>13, <1>14 DEF NextFacts, z, L

\* rs[i] is the list of the readings behind i, for a comment that starts at p.
ReadsComment(text, p, rs) ==
    /\ rs[p] = IF text[p] = "/" THEN <<Reading(1, "slash")>> ELSE <<>>
    /\ \A i \in p + 1 .. Len(text) : rs[i] = NextReadings(rs[i - 1], text[i])
    /\ \A i \in p .. Len(text) : rs[i] \in Seq(ReadingSet)

\* Every text has such lists, and they tell where a comment may end.
LEMMA CommentDef ==
    ASSUME NEW text \in Seq(Characters), NEW p \in 1 .. Len(text)
    PROVE  \E rs : /\ ReadsComment(text, p, rs)
                   /\ CommentEnds(text, p) = {i \in p .. Len(text) : Complete(rs[i])}
<1> DEFINE S == Seq(ReadingSet)
           L == Len(text)
           first == IF text[p] = "/" THEN <<Reading(1, "slash")>> ELSE <<>>
           step == [i \in p + 1 .. L |-> [x \in S |-> NextReadings(x, text[i])]]
           Def(f) == f = [i \in p .. L |-> IF i = p THEN first
                                           ELSE NextReadings(f[i - 1], text[i])]
<1>1. L \in Int /\ p \in Int /\ p \in 1 .. L
  OBVIOUS
<1> HIDE DEF L
<1>2. first \in S
  <2>1. Reading(1, "slash") \in ReadingSet
    BY DEF Reading, ReadingSet
  <2> QED
    BY <2>1
<1>3. \A x \in S : \A c : NextReadings(x, c) \in S
  BY NextProperties DEF NextFacts
<1>4. \A i \in p + 1 .. L : \A x \in S : step[i][x] = NextReadings(x, text[i]) /\ step[i][x] \in S
  BY <1>3
<1> HIDE DEF first, step, S
<1>5. PICK f : Recursion(f, p, L, first, step)
  BY <1>1, RecursionExists
<1>6. \A i \in p .. L : f[i] \in S
  BY <1>1, <1>2, <1>4, <1>5, RecursionType
<1>7. Def(f)
  <2>1. f = [i \in p .. L |-> IF i = p THEN first ELSE step[i][f[i - 1]]]
    BY <1>5 DEF Recursion
  <2>2. ASSUME NEW i \in p .. L
        PROVE  (IF i = p THEN first ELSE step[i][f[i - 1]])
                 = IF i = p THEN first ELSE NextReadings(f[i - 1], text[i])
    <3>1. CASE i # p
      <4>1. i \in p + 1 .. L /\ i - 1 \in p .. L
        BY <1>1, <3>1
      <4> QED
        BY <1>4, <1>6, <3>1, <4>1
    <3> QED
      BY <3>1
  <2> QED
    BY <2>1, <2>2, Zenon
<1>8. PICK rs : /\ Def(rs)
                /\ CommentEnds(text, p)
                     = {i \in p .. L : LET now == rs[i] IN \E k \in DOMAIN now : now[k].depth = 0}
  <2>1. CommentEnds(text, p)
          = LET rs == CHOOSE rs : Def(rs)
            IN  {i \in p .. L : LET now == rs[i] IN \E k \in DOMAIN now : now[k].depth = 0}
    BY DEF CommentEnds, L, first, NextReadings
  <2> HIDE DEF Def
  <2> QED
    BY <1>7, <2>1, Zenon
<1> DEFINE Q == {i \in p .. L : rs[i] \in S}
<1>9. p <= L => p \in Q
  BY <1>1, <1>2, <1>8
<1>10. ASSUME NEW i \in p + 1 .. L, i - 1 \in Q PROVE i \in Q
  <2>1. i \in p .. L /\ i # p
    BY <1>1
  <2>2. rs[i] = NextReadings(rs[i - 1], text[i])
    BY <1>8, <2>1
  <2> QED
    BY <1>3, <1>10, <2>1, <2>2
<1> HIDE DEF Q
<1>11. \A i \in p .. L : i \in Q
  BY <1>1, <1>9, <1>10, IntervalInduction
<1>12. \A i \in p .. L : rs[i] \in S
  BY <1>11 DEF Q
<1>13. ReadsComment(text, p, rs)
  <2>1. p \in p .. L /\ \A i \in p + 1 .. L : i \in p .. L /\ i # p
    BY <1>1
  <2>2. rs[p] = first /\ \A i \in p + 1 .. L : rs[i] = NextReadings(rs[i - 1], text[i])
    BY <1>8, <2>1
  <2> QED
    BY <1>12, <2>2 DEF ReadsComment, first, S, L
<1>14. \A i \in p .. L : (\E k \in DOMAIN rs[i] : rs[i][k].depth = 0) <=> Complete(rs[i])
  BY <1>12, LenProperties DEF Complete, S
<1>15. CommentEnds(text, p) = {i \in p .. L : Complete(rs[i])}
  BY <1>8, <1>14
<1> QED
  BY <1>13, <1>15 DEF L

\* Once the readings have died out there is no end of the comment any more.
LEMMA NoReadings ==
    ASSUME NEW text \in Seq(Characters), NEW p \in 1 .. Len(text), NEW rs,
           ReadsComment(text, p, rs), NEW b \in p .. Len(text), rs[b] = <<>>
    PROVE  \A i \in b .. Len(text) : ~Complete(rs[i])
<1> DEFINE L == Len(text)
           Q == {i \in b .. L : rs[i] = <<>>}
<1>1. L \in Int /\ b \in Int /\ b \in p .. L /\ p \in Int
  OBVIOUS
<1> HIDE DEF L
<1>2. b <= L => b \in Q
  BY <1>1
<1>3. ASSUME NEW i \in b + 1 .. L, i - 1 \in Q PROVE i \in Q
  <2>1. i \in p + 1 .. L /\ i \in b .. L
    BY <1>1
  <2>2. rs[i] = NextReadings(<<>>, text[i])
    BY <1>3, <2>1 DEF ReadsComment, L
  <2>3. NextReadings(<<>>, text[i]) = <<>>
    BY NextProperties, EmptySeq DEF NextFacts
  <2> QED
    BY <2>1, <2>2, <2>3
<1> HIDE DEF Q
<1>4. \A i \in b .. L : i \in Q
  BY <1>1, <1>2, <1>3, IntervalInduction
<1>5. ~Complete(<<>>)
  BY DEF Complete
<1> QED
  BY <1>4, <1>5 DEF Q, L

-----------------------------------------------------------------------------
(***************************************************************************)
(* The scanner in a comment.                                               *)
(***************************************************************************)
\* The character behind i, for the scanner.
After(i) == IF i < Len(content) THEN content[i + 1] ELSE "\n"

\* scan[i] is what encloses the place behind i, for a scanner that starts at p.
Scans(p, scan) ==
    /\ scan[p - 1] = Code
    /\ \A i \in p .. Len(content) : scan[i] = Beyond(scan[i - 1], content[i], After(i))

\* The scanner's recursive definition is one.
LEMMA ScanDef ==
    ASSUME content \in Seq(Characters), NEW p \in 1 .. Len(content)
    PROVE  Scans(p, Scan(p))
<1> DEFINE S == [kind : {"code", "string", "quotes", "brackets", "line", "comment"},
                 depth : Int, half : BOOLEAN]
           L == Len(content)
           step == [i \in p .. L |-> [x \in S |-> Beyond(x, content[i], After(i))]]
           Def(f) == f = [i \in p - 1 .. L |->
                             IF i < p THEN Code ELSE Beyond(f[i - 1], content[i], After(i))]
<1>1. L \in Int /\ p \in Int /\ p - 1 \in Int /\ p \in 1 .. L /\ p - 1 + 1 = p
  OBVIOUS
<1> HIDE DEF L
<1>2. Code \in S /\ \A kind \in {"string", "quotes", "brackets", "line"} : Enclosed(kind) \in S
  <2>1. Code \in S
    BY DEF Code
  <2>2. ASSUME NEW kind \in {"string", "quotes", "brackets", "line"} PROVE Enclosed(kind) \in S
    BY <2>1 DEF Enclosed
  <2> QED
    BY <2>1, <2>2
<1>3. \A d \in Int : Comment(d) \in S
  BY DEF Comment
<1>4. \A m \in S : [m EXCEPT !.half = TRUE] \in S /\ [m EXCEPT !.half = FALSE] \in S /\ m.depth \in Int
  OBVIOUS
<1>5. ASSUME NEW m \in S, NEW c, NEW d PROVE Beyond(m, c, d) \in S
  <2>1. m.half \in BOOLEAN
    OBVIOUS
  <2> HIDE DEF S
  <2>2. CASE m.half
    BY <1>2, <1>4, <2>2 DEF Beyond
  <2>3. CASE ~m.half /\ m.kind = "code"
    BY <1>2, <1>3, <2>3 DEF Beyond
  <2>4. CASE ~m.half /\ m.kind = "comment"
    <3>1. m.depth \in Int
      BY <1>4, Zenon
    <3>2. m.depth - 1 \in Int /\ m.depth + 1 \in Int
      BY <3>1
    <3>3. Comment(m.depth - 1) \in S /\ Comment(m.depth + 1) \in S
      BY <1>3, <3>2, Zenon
    <3> QED
      BY <2>4, <3>3 DEF Beyond
  <2>5. CASE ~m.half /\ m.kind = "line"
    BY <1>2, <2>5 DEF Beyond
  <2>6. CASE ~m.half /\ m.kind \notin {"code", "comment", "line"}
    BY <1>2, <1>4, <2>6 DEF Beyond
  <2> QED
    BY <2>1, <2>2, <2>3, <2>4, <2>5, <2>6
<1>6. \A i \in p .. L : \A x \in S :
         step[i][x] = Beyond(x, content[i], After(i)) /\ step[i][x] \in S
  BY <1>5
<1> HIDE DEF step, S
<1>7. PICK f : Recursion(f, p - 1, L, Code, step)
  BY <1>1, RecursionExists
<1>8. \A i \in p - 1 .. L : f[i] \in S
  <2>1. \A i \in p - 1 + 1 .. L : \A x \in S : step[i][x] \in S
    BY <1>1, <1>6
  <2> QED
    BY <1>1, <1>2, <1>7, <2>1, RecursionType
<1>9. Def(f)
  <2>1. f = [i \in p - 1 .. L |-> IF i = p - 1 THEN Code ELSE step[i][f[i - 1]]]
    BY <1>7 DEF Recursion
  <2>2. ASSUME NEW i \in p - 1 .. L
        PROVE  (IF i = p - 1 THEN Code ELSE step[i][f[i - 1]])
                 = IF i < p THEN Code ELSE Beyond(f[i - 1], content[i], After(i))
    <3>1. CASE i = p - 1
      <4>1. i < p
        BY <1>1, <3>1
      <4> QED
        BY <3>1, <4>1
    <3>2. CASE i # p - 1
      <4>1. ~(i < p) /\ i \in p .. L /\ i - 1 \in p - 1 .. L
        BY <1>1, <3>2
      <4> QED
        BY <1>6, <1>8, <3>2, <4>1
    <3> QED
      BY <3>1, <3>2
  <2> QED
    BY <2>1, <2>2, Zenon
<1>10. Def(Scan(p))
  <2>1. Scan(p) = CHOOSE g : Def(g)
    BY DEF Scan, L, After
  <2> HIDE DEF Def
  <2> QED
    BY <1>9, <2>1, Zenon
<1>11. Scan(p)[p - 1] = Code
  <2>1. p - 1 \in p - 1 .. L /\ p - 1 < p
    BY <1>1
  <2> QED
    BY <1>10, <2>1
<1>12. ASSUME NEW i \in p .. L PROVE Scan(p)[i] = Beyond(Scan(p)[i - 1], content[i], After(i))
  <2>1. i \in p - 1 .. L /\ ~(i < p)
    BY <1>1
  <2> QED
    BY <1>10, <2>1
<1> QED
  BY <1>11, <1>12 DEF Scans, L

\* In a comment, behind a character that belongs to no pair.
Inside(depth) == [kind |-> "comment", depth |-> depth, half |-> FALSE]

\* One step of the scanner in a comment.
LEMMA BeyondInComment ==
    ASSUME NEW D \in Int, NEW c, NEW d
    PROVE  /\ Beyond(Comment(D), c, d) = IF D = 0 THEN Code ELSE Inside(D)
           /\ c = "*" /\ d = "/" => Beyond(Inside(D), c, d) = Comment(D - 1)
           /\ c = "/" /\ d = "*" => Beyond(Inside(D), c, d) = Comment(D + 1)
           /\ ~(c = "*" /\ d = "/") /\ ~(c = "/" /\ d = "*") => Beyond(Inside(D), c, d) = Inside(D)
           /\ c = "/" /\ d = "*" => Beyond(Code, c, d) = Comment(1)
           /\ Comment(D) # Code /\ Inside(D) # Code
<1>1. Beyond(Comment(D), c, d) = IF D = 0 THEN Code ELSE Inside(D)
  <2>1. Comment(D).half /\ Comment(D).kind = "comment" /\ Comment(D).depth = D
    BY DEF Comment
  <2>2. [Comment(D) EXCEPT !.half = FALSE] = Inside(D)
    <3> DEFINE m == Comment(D)
               w == [m EXCEPT !.half = FALSE]
               S == [kind : {"comment"}, depth : Int, half : BOOLEAN]
    <3>1. m \in S /\ m.depth = D
      BY DEF Comment
    <3> HIDE DEF m
    <3>2. w \in S /\ w.depth = D /\ w.half = FALSE
      BY <3>1
    <3>3. Inside(D) \in S /\ Inside(D).depth = D /\ Inside(D).half = FALSE
      BY DEF Inside
    <3> HIDE DEF w
    <3>4. w = Inside(D)
      BY <3>2, <3>3
    <3> QED
      BY <3>4 DEF w, m
  <2> QED
    BY <2>1, <2>2 DEF Beyond
<1>2. ~Inside(D).half /\ Inside(D).kind = "comment" /\ Inside(D).depth = D
  BY DEF Inside
<1>3. /\ c = "*" /\ d = "/" => Beyond(Inside(D), c, d) = Comment(D - 1)
      /\ c = "/" /\ d = "*" => Beyond(Inside(D), c, d) = Comment(D + 1)
      /\ ~(c = "*" /\ d = "/") /\ ~(c = "/" /\ d = "*") => Beyond(Inside(D), c, d) = Inside(D)
  BY <1>2 DEF Beyond
<1>4. ~Code.half /\ Code.kind = "code" /\ Comment(D).kind = "comment"
  BY DEF Code, Comment
<1>5. ASSUME c = "/", d = "*" PROVE Beyond(Code, c, d) = Comment(1)
  <2>1. c # DoubleQuote
    BY <1>5, DoubleQuoteIsItself
  <2> QED
    BY <1>4, <1>5, <2>1 DEF Beyond
<1> QED
  BY <1>1, <1>2, <1>3, <1>4, <1>5

(***************************************************************************)
(* How the readings begin where the scanner is in a comment: the preferred *)
(* reading is the scanner's, or it is refused by the character a that      *)
(* comes next and the second one is the scanner's.                         *)
(***************************************************************************)
HalfHead(z, D, a) ==
    /\ Len(z) >= 1
    /\ \/ z[1] = Reading(D + 1, "star") /\ a = "/"
       \/ z[1] = Reading(D, "slash") /\ a = "*"

BodyHead(z, D, a) ==
    \/ Len(z) >= 1 /\ z[1] = Reading(D, "body")
    \/ /\ Len(z) >= 2
       /\ z[2] = Reading(D, "body")
       /\ \/ z[1] = Reading(D, "star") /\ a # "/"
          \/ z[1] = Reading(D + 1, "slash") /\ a # "*"

\* What becomes of one reading, for each of its places.
LEMMA OneReading ==
    ASSUME NEW D \in Int, NEW c
    PROVE  /\ Reading(D, "slash") \in ReadingSet
           /\ Reading(D, "star") \in ReadingSet
           /\ Reading(D, "body") \in ReadingSet
           /\ Readings(Reading(D, "slash"), c) = IF c = "*" THEN <<Reading(D, "body")>> ELSE <<>>
           /\ Readings(Reading(D, "star"), c) = IF c = "/" THEN <<Reading(D - 1, "body")>> ELSE <<>>
           /\ D = 0 => Readings(Reading(D, "body"), c) = <<>>
           /\ D # 0 /\ c = "*" =>
                Readings(Reading(D, "body"), c) = <<Reading(D, "star"), Reading(D, "body")>>
           /\ D # 0 /\ c = "/" =>
                Readings(Reading(D, "body"), c) = <<Reading(D + 1, "slash"), Reading(D, "body")>>
           /\ D # 0 /\ c \notin {"*", "/"} => Readings(Reading(D, "body"), c) = <<Reading(D, "body")>>
           /\ \A a : Reading(D, a).depth = D
<1>1. \A a : Reading(D, a).depth = D /\ Reading(D, a).at = a
  BY DEF Reading
<1>2. \A a \in {"slash", "star", "body"} : Reading(D, a) \in ReadingSet
  BY DEF Reading, ReadingSet
<1>3. \A a \in {"slash", "star", "body"} : ReadingFacts(Reading(D, a), c)
  BY <1>2, ReadingProperties
<1>4. /\ ReadingFacts(Reading(D, "slash"), c) /\ ReadingFacts(Reading(D, "star"), c)
      /\ ReadingFacts(Reading(D, "body"), c)
  BY <1>3
<1> QED
  BY <1>1, <1>2, <1>4 DEF ReadingFacts

\* The readings behind the second character of a pair.
LEMMA HalfStep ==
    ASSUME NEW z \in Seq(ReadingSet), NEW D \in Nat, NEW c, HalfHead(z, D, c)
    PROVE  /\ Len(NextReadings(z, c)) >= 1
           /\ NextReadings(z, c)[1] = Reading(D, "body")
           /\ D = 0 => Len(NextReadings(z, c)) = 1
<1> DEFINE n == NextReadings(z, c)
           b == Reading(D, "body")
<1>1. Readings(z[1], c) = <<b>>
  <2>1. D \in Int /\ D + 1 \in Int /\ D + 1 - 1 = D
    OBVIOUS
  <2> QED
    BY <2>1, OneReading DEF HalfHead
<1>2. Heads(n, <<b>>)
  BY <1>1, NextProperties DEF NextFacts, HalfHead
<1>3. b.depth = D
  BY OneReading, D \in Int
<1> HIDE DEF n, b
<1>4. Len(<<b>>) = 1 /\ <<b>>[1] = b
  OBVIOUS
<1> QED
  BY <1>2, <1>3, <1>4 DEF Heads, n, b

\* The readings behind a character of the body, if a comes next.
LEMMA BodyStep ==
    ASSUME NEW z \in Seq(ReadingSet), NEW D \in Nat \ {0}, NEW c, NEW a, BodyHead(z, D, c)
    PROVE  /\ c = "*" /\ a = "/" => HalfHead(NextReadings(z, c), D - 1, a)
           /\ c = "/" /\ a = "*" => HalfHead(NextReadings(z, c), D + 1, a)
           /\ ~(c = "*" /\ a = "/") /\ ~(c = "/" /\ a = "*") => BodyHead(NextReadings(z, c), D, a)
<1> DEFINE n == NextReadings(z, c)
           b == Reading(D, "body")
           x == Readings(b, c)
<1>0. D \in Int /\ D + 1 \in Int /\ D # 0 /\ D + 1 # 0 /\ D - 1 + 1 = D
  OBVIOUS
<1>1. Heads(n, x)
  <2>0. NextFacts(z, c)
    BY NextProperties
  <2>1. CASE Len(z) >= 1 /\ z[1] = b
    BY <2>0, <2>1 DEF NextFacts
  <2>2. CASE /\ Len(z) >= 2
             /\ z[2] = b
             /\ \/ z[1] = Reading(D, "star") /\ c # "/"
                \/ z[1] = Reading(D + 1, "slash") /\ c # "*"
    <3>1. Readings(z[1], c) = <<>>
      BY <1>0, <2>2, OneReading
    <3> QED
      BY <2>0, <2>2, <3>1 DEF NextFacts
  <2> QED
    BY <2>1, <2>2 DEF BodyHead
<1> HIDE DEF n
<1>2. CASE c = "*"
  <2> DEFINE s == Reading(D, "star")
  <2>1. x = <<s, b>> /\ s.depth = D
    BY <1>0, <1>2, OneReading
  <2> HIDE DEF s, b, x
  <2>2. Len(x) = 2 /\ x[1] = s /\ x[2] = b
    BY <2>1
  <2>3. Len(n) >= 2 /\ n[1] = s /\ n[2] = b
    BY <1>0, <1>1, <2>1, <2>2 DEF Heads
  <2>4. Len(n) >= 1
    BY <1>1, <2>2 DEF Heads
  <2>5. CASE a = "/"
    <3>1. HalfHead(n, D - 1, a)
      BY <1>0, <2>3, <2>4, <2>5 DEF HalfHead, s
    <3> QED
      BY <1>2, <2>5, <3>1 DEF n
  <2>6. CASE a # "/"
    <3>1. BodyHead(n, D, a)
      BY <2>3, <2>6 DEF BodyHead, s, b
    <3> QED
      BY <1>2, <2>6, <3>1 DEF n
  <2> QED
    BY <2>5, <2>6
<1>3. CASE c = "/"
  <2> DEFINE s == Reading(D + 1, "slash")
  <2>1. x = <<s, b>> /\ s.depth = D + 1
    BY <1>0, <1>3, OneReading
  <2> HIDE DEF s, b, x
  <2>2. Len(x) = 2 /\ x[1] = s /\ x[2] = b
    BY <2>1
  <2>3. Len(n) >= 2 /\ n[1] = s /\ n[2] = b
    BY <1>0, <1>1, <2>1, <2>2 DEF Heads
  <2>4. Len(n) >= 1
    BY <1>1, <2>2 DEF Heads
  <2>5. CASE a = "*"
    <3>1. HalfHead(n, D + 1, a)
      BY <2>3, <2>4, <2>5 DEF HalfHead, s
    <3> QED
      BY <1>3, <2>5, <3>1 DEF n
  <2>6. CASE a # "*"
    <3>1. BodyHead(n, D, a)
      BY <2>3, <2>6 DEF BodyHead, s, b
    <3> QED
      BY <1>3, <2>6, <3>1 DEF n
  <2> QED
    BY <2>5, <2>6
<1>4. CASE c \notin {"*", "/"}
  <2>1. x = <<b>>
    BY <1>0, <1>4, OneReading
  <2> HIDE DEF b, x
  <2>2. Len(x) = 1 /\ x[1] = b
    BY <2>1
  <2>3. Len(n) >= 1 /\ n[1] = b
    BY <1>1, <2>2 DEF Heads
  <2>4. BodyHead(n, D, a)
    BY <2>3 DEF BodyHead, b
  <2> QED
    BY <1>4, <2>4 DEF n
<1> QED
  BY <1>2, <1>3, <1>4

\* Only what starts as a comment can end as one.
LEMMA CommentOpens ==
    ASSUME NEW text \in Seq(Characters), NEW p \in 1 .. Len(text), NEW rs,
           ReadsComment(text, p, rs), NEW e \in p .. Len(text), Complete(rs[e])
    PROVE  text[p] = "/" /\ p + 1 \in p + 1 .. Len(text) /\ text[p + 1] = "*"
<1>0. Len(text) \in Int /\ p \in p .. Len(text)
  OBVIOUS
<1>1. text[p] = "/"
  <2>1. ASSUME text[p] # "/" PROVE FALSE
    <3>1. rs[p] = <<>>
      BY <2>1 DEF ReadsComment
    <3> QED
      BY <1>0, <3>1, NoReadings
  <2> QED
    BY <2>1
<1>2. rs[p] = <<Reading(1, "slash")>>
  BY <1>1 DEF ReadsComment
<1> DEFINE r == Reading(1, "slash")
<1>3. r.depth = 1
  BY DEF Reading
<1>4. Len(rs[p]) = 1 /\ rs[p][1] = r
  BY <1>2
<1> HIDE DEF r
<1>5. ~Complete(rs[p])
  BY <1>3, <1>4 DEF Complete
<1>6. e # p
  BY <1>5
<1>7. p + 1 \in p + 1 .. Len(text) /\ p + 1 \in p .. Len(text) /\ e \in p + 1 .. Len(text) /\ p + 1 - 1 = p
  BY <1>0, <1>6
<1>8. ASSUME text[p + 1] # "*" PROVE FALSE
  <2>1. rs[p + 1] = NextReadings(rs[p], text[p + 1])
    BY <1>7 DEF ReadsComment
  <2>2. Readings(rs[p][1], text[p + 1]) = <<>>
    BY <1>4, <1>8, OneReading, 1 \in Int DEF r
  <2>3. rs[p] \in Seq(ReadingSet)
    BY <1>0 DEF ReadsComment
  <2>4. rs[p + 1] = <<>>
    BY <1>4, <2>1, <2>2, <2>3, NextProperties DEF NextFacts
  <2> QED
    BY <1>7, <2>4, NoReadings
<1> QED
  BY <1>1, <1>7, <1>8

\* Where the scanner is in a comment, the preferred readings are its own.
Follows(rs, scan, i) ==
    \/ \E D \in Nat : scan[i] = Comment(D) /\ HalfHead(rs[i], D, After(i))
    \/ \E D \in Nat \ {0} : scan[i] = Inside(D) /\ BodyHead(rs[i], D, After(i))

\* The list follows the scanner up to the place where it leaves the comment.
LEMMA ReadingsFollowScan ==
    ASSUME content \in Seq(Characters), NEW p \in 1 .. Len(content), NEW rs, NEW scan,
           ReadsComment(content, p, rs), Scans(p, scan),
           content[p] = "/", p + 1 \in p + 1 .. Len(content), content[p + 1] = "*",
           NEW e \in p .. Len(content), \A i \in p .. e : scan[i] # Code
    PROVE  Follows(rs, scan, e)
<1> DEFINE L == Len(content)
           Q == {i \in p .. e : Follows(rs, scan, i)}
<1>1. L \in Int /\ p \in Int /\ e \in Int /\ p \in 1 .. L /\ e \in p .. L
  OBVIOUS
<1> HIDE DEF L
<1>2. \A i \in p + 1 .. L : After(i - 1) = content[i]
  <2> SUFFICES ASSUME NEW i \in p + 1 .. L PROVE After(i - 1) = content[i]
    OBVIOUS
  <2>1. i - 1 < L /\ i - 1 + 1 = i
    BY <1>1
  <2> QED
    BY <2>1 DEF After, L
<1>3. p <= e => p \in Q
  <2>1. p \in p .. L /\ p \in p .. e /\ p + 1 - 1 = p /\ p + 1 \in p + 1 .. L
    BY <1>1 DEF L
  <2>2. After(p) = "*"
    BY <1>2, <2>1
  <2>3. scan[p] = Comment(1)
    <3>1. scan[p] = Beyond(Code, content[p], After(p))
      BY <2>1 DEF Scans, L
    <3> QED
      BY <2>2, <3>1, BeyondInComment, 1 \in Int
  <2>4. rs[p] = <<Reading(1, "slash")>>
    BY DEF ReadsComment
  <2>5. Len(rs[p]) >= 1 /\ rs[p][1] = Reading(1, "slash")
    BY <2>4
  <2>6. HalfHead(rs[p], 1, After(p))
    BY <2>2, <2>5 DEF HalfHead
  <2> QED
    BY <2>1, <2>3, <2>6 DEF Follows
<1>4. ASSUME NEW i \in p + 1 .. e, i - 1 \in Q PROVE i \in Q
  <2>1. i \in p + 1 .. L /\ i \in p .. L /\ i \in p .. e /\ i - 1 \in p .. L
    BY <1>1
  <2> DEFINE z == rs[i - 1]
             c == content[i]
             a == After(i)
  <2>2. z \in Seq(ReadingSet) /\ rs[i] = NextReadings(z, c)
    BY <2>1 DEF ReadsComment, L
  <2>3. scan[i] = Beyond(scan[i - 1], c, a) /\ scan[i] # Code /\ After(i - 1) = c
    BY <1>2, <2>1 DEF Scans, L
  <2>4. Follows(rs, scan, i - 1)
    BY <1>4
  <2> HIDE DEF c, a
  <2>5. CASE \E D \in Nat : scan[i - 1] = Comment(D) /\ HalfHead(z, D, c)
    <3>1. PICK D \in Nat : scan[i - 1] = Comment(D) /\ HalfHead(z, D, c)
      BY <2>5
    <3>2. D # 0 /\ scan[i] = Inside(D)
      BY <2>3, <3>1, BeyondInComment, D \in Int
    <3>3. Len(rs[i]) >= 1 /\ rs[i][1] = Reading(D, "body")
      BY <2>2, <3>1, HalfStep
    <3>4. BodyHead(rs[i], D, After(i))
      BY <3>3 DEF BodyHead
    <3> QED
      BY <2>1, <3>2, <3>4 DEF Follows
  <2>6. CASE \E D \in Nat \ {0} : scan[i - 1] = Inside(D) /\ BodyHead(z, D, c)
    <3>1. PICK D \in Nat \ {0} : scan[i - 1] = Inside(D) /\ BodyHead(z, D, c)
      BY <2>6
    <3>2. D \in Int /\ D - 1 \in Nat /\ D + 1 \in Nat
      OBVIOUS
    <3>3. CASE c = "*" /\ a = "/"
      <4>1. scan[i] = Comment(D - 1)
        BY <2>3, <3>1, <3>2, <3>3, BeyondInComment
      <4>2. HalfHead(NextReadings(z, c), D - 1, a)
        BY <2>2, <3>1, <3>3, BodyStep, Zenon
      <4> QED
        BY <2>1, <2>2, <3>2, <4>1, <4>2 DEF Follows, a
    <3>4. CASE c = "/" /\ a = "*"
      <4>1. scan[i] = Comment(D + 1)
        BY <2>3, <3>1, <3>2, <3>4, BeyondInComment
      <4>2. HalfHead(NextReadings(z, c), D + 1, a)
        BY <2>2, <3>1, <3>4, BodyStep, Zenon
      <4> QED
        BY <2>1, <2>2, <3>2, <4>1, <4>2 DEF Follows, a
    <3>5. CASE ~(c = "*" /\ a = "/") /\ ~(c = "/" /\ a = "*")
      <4>1. scan[i] = Inside(D) /\ BodyHead(rs[i], D, a)
        BY <2>2, <2>3, <3>1, <3>2, <3>5, BeyondInComment, BodyStep
      <4> QED
        BY <2>1, <3>1, <4>1 DEF Follows, a
    <3> QED
      BY <3>3, <3>4, <3>5
  <2> QED
    BY <2>3, <2>4, <2>5, <2>6 DEF Follows
<1> HIDE DEF Q
<1>5. \A i \in p .. e : i \in Q
  BY <1>1, <1>3, <1>4, IntervalInduction
<1> QED
  BY <1>1, <1>5 DEF Q

\* Where the scanner leaves the comment is the last of its ends.
LEMMA ScanEndsLast ==
    ASSUME content \in Seq(Characters), NEW p \in 1 .. Len(content), NEW rs, NEW scan,
           ReadsComment(content, p, rs), Scans(p, scan),
           content[p] = "/", p + 1 \in p + 1 .. Len(content), content[p + 1] = "*",
           NEW e \in p .. Len(content), scan[e] = Code, \A i \in p .. e - 1 : scan[i] # Code
    PROVE  Complete(rs[e]) /\ \A i \in e + 1 .. Len(content) : ~Complete(rs[i])
<1> DEFINE L == Len(content)
<1>1. L \in Int /\ p \in 1 .. L /\ e \in p .. L /\ p + 1 \in p + 1 .. L
  OBVIOUS
<1> HIDE DEF L
<1>2. e # p
  <2>1. p + 1 \in p .. L /\ p \in p .. L /\ p < L
    BY <1>1
  <2>2. After(p) = "*"
    BY <2>1 DEF After, L
  <2>3. scan[p] = Comment(1)
    <3>1. scan[p] = Beyond(Code, content[p], After(p))
      BY <2>1 DEF Scans, L
    <3> QED
      BY <2>2, <3>1, BeyondInComment, 1 \in Int
  <2> QED
    BY <2>3, BeyondInComment, 1 \in Int
<1>3. e \in p + 1 .. L /\ e - 1 \in p .. L
  BY <1>1, <1>2
<1>4. Follows(rs, scan, e - 1)
  BY <1>3, ReadingsFollowScan DEF L
<1> DEFINE z == rs[e - 1]
           c == content[e]
<1>5. z \in Seq(ReadingSet) /\ rs[e] = NextReadings(z, c) /\ rs[e] \in Seq(ReadingSet)
  BY <1>1, <1>3 DEF ReadsComment, L
<1>6. scan[e] = Beyond(scan[e - 1], c, After(e))
  BY <1>1 DEF Scans, L
<1>7. After(e - 1) = c
  <2>1. e - 1 < L /\ e - 1 + 1 = e
    BY <1>1, <1>3
  <2> QED
    BY <2>1 DEF After, L
<1>8. HalfHead(z, 0, c)
  <2>1. ASSUME NEW D \in Nat \ {0}, scan[e - 1] = Inside(D) PROVE FALSE
    <3>1. D \in Int /\ D - 1 \in Int /\ D + 1 \in Int
      OBVIOUS
    <3>2. \/ scan[e] = Comment(D - 1)
          \/ scan[e] = Comment(D + 1)
          \/ scan[e] = Inside(D)
      BY <1>6, <2>1, <3>1, BeyondInComment
    <3> QED
      BY <3>1, <3>2, BeyondInComment
  <2>2. PICK D \in Nat : scan[e - 1] = Comment(D) /\ HalfHead(z, D, c)
    BY <1>4, <1>7, <2>1 DEF Follows
  <2>3. D = 0
    BY <1>6, <2>2, BeyondInComment, D \in Int
  <2> QED
    BY <2>2, <2>3
<1> HIDE DEF c
<1>9. Len(rs[e]) = 1 /\ rs[e][1] = Reading(0, "body")
  BY <1>5, <1>8, HalfStep, 0 \in Nat
<1>10. Complete(rs[e])
  <2>1. rs[e][1].depth = 0
    BY <1>9, OneReading, 0 \in Int
  <2> QED
    BY <1>9, <2>1 DEF Complete
<1>11. ASSUME NEW i \in e + 1 .. L PROVE ~Complete(rs[i])
  <2>1. e + 1 \in p + 1 .. L /\ e + 1 \in p .. L /\ e + 1 - 1 = e
    BY <1>1
  <2>2. rs[e + 1] = NextReadings(rs[e], content[e + 1])
    BY <2>1 DEF ReadsComment, L
  <2>3. Readings(rs[e][1], content[e + 1]) = <<>>
    BY <1>9, OneReading, 0 \in Int
  <2>4. rs[e + 1] = <<>>
    BY <1>5, <1>9, <2>2, <2>3, NextProperties DEF NextFacts
  <2> QED
    BY <2>1, <2>4, NoReadings DEF L
<1> QED
  BY <1>10, <1>11 DEF L

HasReading(z, r) == \E k \in 1 .. Len(z) : z[k] = r

\* A reading goes on as long as no comment is complete.
LEMMA ReadingGoesOn ==
    ASSUME NEW z \in Seq(ReadingSet), NEW c, ~Complete(NextReadings(z, c)),
           NEW r, HasReading(z, r), NEW j \in 1 .. Len(Readings(r, c))
    PROVE  HasReading(NextReadings(z, c), Readings(r, c)[j])
  BY NextProperties DEF NextFacts, HasReading

\* What looks like the end of the comment ends it, unless it has ended before.
LEMMA AnyEndEnds ==
    ASSUME NEW text \in Seq(Characters), NEW p \in 1 .. Len(text), NEW rs,
           ReadsComment(text, p, rs), text[p] = "/", text[p + 1] = "*",
           NEW e \in p + 3 .. Len(text), text[e - 1] = "*", text[e] = "/"
    PROVE  \E i \in p + 1 .. Len(text) : Complete(rs[i])
<1> DEFINE L == Len(text)
           body == Reading(1, "body")
           Has(i, r) == HasReading(rs[i], r)
           Q == {i \in p + 1 .. L : Has(i, body)}
<1>1. L \in Int /\ p \in 1 .. L /\ p \in Int /\ p + 1 \in Int /\ e \in p + 3 .. L
  OBVIOUS
<1> HIDE DEF L
<1>2. SUFFICES ASSUME \A i \in p + 1 .. L : ~Complete(rs[i]) PROVE FALSE
  BY DEF L
<1>3. ASSUME NEW i \in p + 1 .. L, NEW r, Has(i - 1, r), NEW j \in 1 .. Len(Readings(r, text[i]))
      PROVE  Has(i, Readings(r, text[i])[j])
  <2>1. i - 1 \in p .. L
    BY <1>1
  <2>2. rs[i] = NextReadings(rs[i - 1], text[i]) /\ rs[i - 1] \in Seq(ReadingSet) /\ ~Complete(rs[i])
    BY <1>2, <2>1 DEF ReadsComment, L
  <2> QED
    BY <1>3, <2>2, ReadingGoesOn
<1>4. p + 1 <= L => p + 1 \in Q
  <2> SUFFICES ASSUME p + 1 <= L PROVE p + 1 \in Q
    OBVIOUS
  <2>1. p + 1 \in p + 1 .. L /\ p + 1 - 1 = p
    BY <1>1
  <2> DEFINE s == Reading(1, "slash")
             x == Readings(s, "*")
  <2>2. x = <<body>>
    BY OneReading, 1 \in Int
  <2>3. rs[p] = <<s>>
    BY DEF ReadsComment
  <2> HIDE DEF s, body, x
  <2>4. Len(rs[p]) = 1 /\ rs[p][1] = s /\ Len(x) = 1 /\ x[1] = body
    BY <2>2, <2>3
  <2>5. Has(p, s)
    BY <2>4 DEF HasReading
  <2>6. 1 \in 1 .. Len(x)
    BY <2>4
  <2>7. Has(p + 1, x[1])
    <3>1. Has(p + 1 - 1, s)
      BY <2>1, <2>5
    <3>2. x = Readings(s, text[p + 1])
      BY DEF x
    <3> HIDE DEF Has
    <3> QED
      BY <1>3, <2>1, <2>6, <3>1, <3>2
  <2> QED
    BY <2>1, <2>4, <2>7
<1>5. ASSUME NEW i \in p + 1 + 1 .. L, i - 1 \in Q PROVE i \in Q
  <2>1. i \in p + 1 .. L
    BY <1>1
  <2> DEFINE x == Readings(body, text[i])
  <2>2. \E j \in 1 .. Len(x) : x[j] = body
    <3>1. \/ x = <<Reading(1, "star"), body>>
          \/ x = <<Reading(2, "slash"), body>>
          \/ x = <<body>>
      <4>1. 1 \in Int /\ 1 # 0 /\ 1 + 1 = 2
        OBVIOUS
      <4> QED
        BY <4>1, OneReading
    <3> DEFINE s == Reading(1, "star")
               t == Reading(2, "slash")
    <3> HIDE DEF x, body, s, t
    <3>2. x = <<s, body>> \/ x = <<t, body>> \/ x = <<body>>
      BY <3>1 DEF s, t
    <3>3. CASE x = <<s, body>> \/ x = <<t, body>>
      <4>1. Len(x) = 2 /\ x[2] = body
        BY <3>3
      <4> QED
        BY <4>1
    <3>4. CASE x = <<body>>
      <4>1. Len(x) = 1 /\ x[1] = body
        BY <3>4
      <4> QED
        BY <4>1
    <3> QED
      BY <3>2, <3>3, <3>4
  <2>3. Has(i - 1, body)
    BY <1>5
  <2> HIDE DEF Has
  <2>4. Has(i, body)
    BY <1>3, <2>1, <2>2, <2>3
  <2> QED
    BY <2>1, <2>4
<1> HIDE DEF Q
<1>6. \A i \in p + 1 .. L : i \in Q
  BY <1>1, <1>4, <1>5, IntervalInduction
<1>7. Has(e - 2, body)
  <2>1. e - 2 \in p + 1 .. L
    BY <1>1
  <2> QED
    BY <1>6, <2>1 DEF Q
<1> HIDE DEF body, Has
<1>8. Has(e - 1, Reading(1, "star"))
  <2>1. e - 1 \in p + 1 .. L /\ e - 1 - 1 = e - 2
    BY <1>1
  <2> DEFINE s == Reading(1, "star")
             x == Readings(body, "*")
  <2>2. x = <<s, body>>
    BY OneReading, 1 \in Int, 1 # 0 DEF body
  <2> HIDE DEF s, x
  <2>3. Len(x) = 2 /\ x[1] = s
    BY <2>2
  <2>4. 1 \in 1 .. Len(x)
    BY <2>3
  <2>5. x = Readings(body, text[e - 1])
    BY DEF x
  <2>6. Has(e - 1, x[1])
    BY <1>3, <1>7, <2>1, <2>4, <2>5
  <2> QED
    BY <2>3, <2>6 DEF s
<1>9. Has(e, Reading(0, "body"))
  <2>1. e \in p + 1 .. L
    BY <1>1
  <2> DEFINE s == Reading(0, "body")
             r == Reading(1, "star")
             x == Readings(r, "/")
  <2>2. x = <<s>>
    <3>1. 1 \in Int /\ 1 - 1 = 0
      OBVIOUS
    <3> QED
      BY <3>1, OneReading
  <2>3. x = Readings(r, text[e]) /\ Has(e - 1, r)
    BY <1>8
  <2> HIDE DEF s, x, r
  <2>4. Len(x) = 1 /\ x[1] = s
    BY <2>2
  <2>5. 1 \in 1 .. Len(x)
    BY <2>4
  <2>6. Has(e, x[1])
    BY <1>3, <2>1, <2>3, <2>5
  <2> QED
    BY <2>4, <2>6 DEF s
<1>10. Complete(rs[e])
  BY <1>9, OneReading, 0 \in Int DEF Has, HasReading, Complete
<1> QED
  BY <1>1, <1>2, <1>10

\* The division sign is a slash.
LEMMA DivideIsSlash ==
    ASSUME NEW text \in Seq(Characters), NEW p \in 1 .. Len(text),
           NEW e \in Ends(text, "DIVIDE", p)
    PROVE  e = p /\ text[p] = "/"
<1> DEFINE w == SubSeq(text, p, e)
<1>1. e \in p .. Len(text) /\ Matches("DIVIDE", w)
  BY DEF Ends
<1>2. "DIVIDE" \notin DOMAIN Words
  BY DEF Words
<1>3. w = Symbols["DIVIDE"]
  BY <1>1, <1>2 DEF Matches
<1>4. Symbols["DIVIDE"] = <<"/">>
  BY DEF Symbols
<1>5. Len(w) = e - p + 1 /\ \A i \in 1 .. e - p + 1 : w[i] = text[p + i - 1]
  BY <1>1, WordOf
<1>6. Len(w) = 1 /\ w[1] = "/"
  BY <1>3, <1>4
<1> HIDE DEF w
<1>7. e - p + 1 = 1 /\ e \in Int /\ p \in Int
  <2>1. e \in Int /\ p \in Int
    BY <1>1
  <2>2. e - p + 1 = 1
    BY <1>5, <1>6, Zenon
  <2> QED
    BY <2>1, <2>2
<1>8. e = p /\ 1 \in 1 .. e - p + 1 /\ p + 1 - 1 = p
  BY <1>7
<1> QED
  BY <1>5, <1>6, <1>8

\* What one piece says about comments.
CommentFallsBack(t) ==
    LET p == t.start
        scan == Scan(p)
    IN  /\ t.type = "COMMENT" =>
              \A e \in p .. Len(content) :
                  scan[e] = Code /\ (\A i \in p .. e - 1 : scan[i] # Code) => t.stop = e
        /\ t.type = "DIVIDE" /\ content[p + 1] = "*" =>
              \A e \in p + 3 .. Len(content) : ~EndsComment(e)

\* A piece that follows the rules falls back to the end it can have.
LEMMA PieceFallsBack ==
    ASSUME content \in Seq(Characters), NEW t, FollowsRules(t)
    PROVE  CommentFallsBack(t)
<1> DEFINE p == t.start
           L == Len(content)
           scan == Scan(p)
<1>1. p \in 1 .. L /\ L \in Nat /\ p \in Int
  BY DEF FollowsRules
<1>2. PICK rs : /\ ReadsComment(content, p, rs)
                /\ CommentEnds(content, p) = {i \in p .. L : Complete(rs[i])}
  BY <1>1, CommentDef
<1>3. Scans(p, scan)
  BY <1>1, ScanDef
<1>4. ASSUME t.type # "error"
      PROVE  /\ t.stop \in Ends(content, t.type, p) /\ t.stop \in p .. L
             /\ \A f \in CommentEnds(content, p) : f <= t.stop
  <2>1. /\ AllEnds(content, p) # {}
        /\ t.stop = LongestEnd(content, p) /\ t.type = TokenType(content, p, t.stop)
    BY <1>4 DEF FollowsRules
  <2>2. /\ t.stop \in AllEnds(content, p) /\ t.stop \in p .. L
        /\ \A f \in AllEnds(content, p) : f <= t.stop
    BY <1>1, <2>1, LongestIsMax
  <2>3. t.stop \in Ends(content, t.type, p)
    BY <1>1, <2>1, <2>2, TypeMatches
  <2>4. CommentEnds(content, p) \subseteq AllEnds(content, p)
    <3>1. PICK k \in DOMAIN RuleOrder : RuleOrder[k] = "COMMENT"
      BY NamedRules
    <3> QED
      BY <3>1 DEF AllEnds, Ends
  <2> QED
    BY <2>2, <2>3, <2>4
<1>5. ASSUME t.type = "COMMENT", NEW e \in p .. L, scan[e] = Code, \A i \in p .. e - 1 : scan[i] # Code
      PROVE  t.stop = e
  <2>1. t.stop \in p .. L /\ Complete(rs[t.stop]) /\ \A f \in p .. L : Complete(rs[f]) => f <= t.stop
    BY <1>2, <1>4, <1>5 DEF Ends
  <2>2. content[p] = "/" /\ p + 1 \in p + 1 .. L /\ content[p + 1] = "*"
    BY <1>1, <1>2, <2>1, CommentOpens
  <2>3. Complete(rs[e]) /\ \A i \in e + 1 .. L : ~Complete(rs[i])
    <3> HIDE DEF scan
    <3> QED
      BY <1>1, <1>2, <1>3, <1>5, <2>2, ScanEndsLast
  <2>4. e <= t.stop /\ t.stop \notin e + 1 .. L
    BY <2>1, <2>3
  <2> QED
    BY <1>1, <2>1, <2>4
<1>6. ASSUME t.type = "DIVIDE", content[p + 1] = "*", NEW e \in p + 3 .. L, EndsComment(e)
      PROVE  FALSE
  <2>1. t.stop = p /\ content[p] = "/" /\ \A f \in CommentEnds(content, p) : f <= p
    BY <1>1, <1>4, <1>6, DivideIsSlash
  <2>2. content[e - 1] = "*" /\ content[e] = "/"
    BY <1>6 DEF EndsComment
  <2>3. PICK i \in p + 1 .. L : Complete(rs[i])
    BY <1>1, <1>2, <1>6, <2>1, <2>2, AnyEndEnds
  <2>4. i \in p .. L /\ ~(i <= p)
    BY <1>1
  <2> QED
    BY <1>2, <2>1, <2>3, <2>4
<1> QED
  BY <1>5, <1>6 DEF CommentFallsBack

\* A comment ends where the comments nested in it are all closed; if they are
\* not, it ends at an earlier end if there is one, and only without any is its
\* slash a division sign.
THEOREM CommentCorrect == Spec => []UnclosedCommentFallsBack
<1>1. IInv /\ PiecesFollowRules => UnclosedCommentFallsBack
  <2> SUFFICES ASSUME IInv, PiecesFollowRules, phase = "done", NEW n \in DOMAIN pieces
               PROVE  CommentFallsBack(pieces[n])
    BY DEF UnclosedCommentFallsBack, CommentFallsBack
  <2>1. content \in Seq(Characters)
    BY DEF IInv, TypeOK
  <2> QED
    BY <2>1, PieceFallsBack DEF PiecesFollowRules
<1> QED
  BY <1>1, Invariant, LongestMatchCorrect, PTL

-----------------------------------------------------------------------------
(***************************************************************************)
(* The scanner in code, in strings and in quoted names.                    *)
(***************************************************************************)
\* The characters that open or close something are different from each other
\* and from those that words are made of.
LEMMA Delimiters ==
    /\ DoubleQuote \notin {"'", "[", "]", "-", "/", "*", "\n", "N"}
    /\ \A c \in {"'", DoubleQuote, "[", "]", "-", "/", "*"} :
          c \notin NamePart /\ c \notin Blanks
    /\ \A c \in {"'", DoubleQuote, "["} : c \notin {"=", "\\", "|", ":", ".", "+", "-"}
<1>1. DoubleQuote \notin {"'", "[", "]", "-", "/", "*", "\n", "N"}
  BY Zenon DEF DoubleQuote
<1>2. \A c \in {"'", DoubleQuote, "[", "]", "-", "/", "*"} : c \notin NamePart /\ c \notin Blanks
  BY Zenon DEF DoubleQuote, NamePart, NameStart, Letters, DEC_DIGIT, Blanks
<1>3. \A c \in {"'", DoubleQuote, "["} : c \notin {"=", "\\", "|", ":", ".", "+", "-"}
  BY Zenon DEF DoubleQuote
<1> QED
  BY <1>1, <1>2, <1>3

\* In the middle of a pair within a string or a bracketed name.
Doubling(kind) == [Enclosed(kind) EXCEPT !.half = TRUE]

\* What c opens in code if d comes next.
Opens(c, d) ==
    c \in {"'", DoubleQuote, "["} \/ (c = "-" /\ d = "-") \/ (c = "/" /\ d = "*")

\* The fields of what the scanner remembers.
LEMMA Enclosures ==
    ASSUME NEW kind \in {"string", "quotes", "brackets", "line"}
    PROVE  /\ ~Code.half /\ Code.kind = "code"
           /\ ~Enclosed(kind).half /\ Enclosed(kind).kind = kind
           /\ Doubling(kind).half /\ Doubling(kind).kind = kind
           /\ [Doubling(kind) EXCEPT !.half = FALSE] = Enclosed(kind)
           /\ Enclosed(kind) # Code /\ Doubling(kind) # Code /\ Doubling(kind) # Enclosed(kind)
<1> DEFINE S == [kind : {"code", "string", "quotes", "brackets", "line"}, depth : Int, half : BOOLEAN]
           m == Enclosed(kind)
           w == Doubling(kind)
<1>1. Code \in S /\ ~Code.half /\ Code.kind = "code" /\ Code.depth = 0
  BY DEF Code
<1>2. m \in S /\ ~m.half /\ m.kind = kind /\ m.depth = 0
  BY <1>1 DEF Enclosed
<1> DEFINE v == [w EXCEPT !.half = FALSE]
<1>3. w \in S /\ w.half /\ w.kind = kind /\ w.depth = 0
  <2>1. w = [m EXCEPT !.half = TRUE]
    BY DEF Doubling
  <2> HIDE DEF m, w
  <2> QED
    BY <1>2, <2>1
<1> HIDE DEF m, w
<1>4. v \in S /\ ~v.half /\ v.kind = kind /\ v.depth = 0
  BY <1>3
<1> HIDE DEF v
<1>5. v = m
  BY <1>2, <1>4
<1>6. kind # "code"
  OBVIOUS
<1>7. m # Code /\ w # Code /\ w # m
  BY <1>1, <1>2, <1>3, <1>6
<1> QED
  BY <1>1, <1>2, <1>3, <1>5, <1>7 DEF m, w, v

\* One step of the scanner in code.
LEMMA BeyondInCode ==
    ASSUME NEW c, NEW d
    PROVE  /\ ~Opens(c, d) => Beyond(Code, c, d) = Code
           /\ c = "'" => Beyond(Code, c, d) = Enclosed("string")
           /\ c = DoubleQuote => Beyond(Code, c, d) = Enclosed("quotes")
           /\ c = "[" => Beyond(Code, c, d) = Enclosed("brackets")
           /\ c = "-" /\ d = "-" => Beyond(Code, c, d) = Enclosed("line")
<1>1. ~Code.half /\ Code.kind = "code"
  BY Enclosures
<1>2. DoubleQuote \notin {"'", "[", "]", "-", "/"}
  BY Delimiters
<1>3. Beyond(Code, c, d) =
            CASE c = "'" -> Enclosed("string")
              [] c = DoubleQuote -> Enclosed("quotes")
              [] c = "[" -> Enclosed("brackets")
              [] c = "-" /\ d = "-" -> Enclosed("line")
              [] c = "/" /\ d = "*" -> Comment(1)
              [] OTHER -> Code
  BY <1>1 DEF Beyond
<1> QED
  BY <1>2, <1>3 DEF Opens

\* What ends a string or a quoted name.
Closing(kind) == CASE kind = "string" -> "'" [] kind = "quotes" -> DoubleQuote [] kind = "brackets" -> "]"

\* One step of the scanner in a string, a quoted name or the comment of a line.
LEMMA BeyondEnclosed ==
    ASSUME NEW kind \in {"string", "quotes", "brackets"}, NEW c, NEW d
    PROVE  /\ c # Closing(kind) => Beyond(Enclosed(kind), c, d) = Enclosed(kind)
           /\ c = Closing(kind) /\ (d # Closing(kind) \/ kind = "quotes") =>
                 Beyond(Enclosed(kind), c, d) = Code
           /\ c = Closing(kind) /\ d = Closing(kind) /\ kind # "quotes" =>
                 Beyond(Enclosed(kind), c, d) = Doubling(kind)
           /\ Beyond(Doubling(kind), c, d) = Enclosed(kind)
<1> DEFINE m == Enclosed(kind)
           close == CASE m.kind = "string" -> "'"
                      [] m.kind = "quotes" -> DoubleQuote
                      [] m.kind = "brackets" -> "]"
<1>1. ~m.half /\ m.kind = kind
  BY Enclosures
<1>2. close = Closing(kind)
  BY <1>1 DEF Closing
<1>3. Beyond(m, c, d) = IF c # close THEN m
                        ELSE IF d = close /\ m.kind # "quotes" THEN [m EXCEPT !.half = TRUE]
                        ELSE Code
  <2> HIDE DEF m
  <2> QED
    BY <1>1 DEF Beyond
<1>4. Beyond(Doubling(kind), c, d) = [Doubling(kind) EXCEPT !.half = FALSE]
  <2>1. Doubling(kind).half /\ Doubling(kind).kind = kind /\ kind # "comment"
    BY Enclosures
  <2> DEFINE w == Doubling(kind)
  <2> HIDE DEF w
  <2>2. Beyond(w, c, d) = [w EXCEPT !.half = FALSE]
    BY <2>1 DEF Beyond, w
  <2> QED
    BY <2>2 DEF w
<1>5. Beyond(Doubling(kind), c, d) = Enclosed(kind)
  BY <1>4, Enclosures
<1> QED
  BY <1>1, <1>2, <1>3, <1>5 DEF Doubling

LEMMA BeyondInLine ==
    ASSUME NEW c, NEW d
    PROVE  Beyond(Enclosed("line"), c, d) = IF d = "\n" THEN Code ELSE Enclosed("line")
<1>1. ~Enclosed("line").half /\ Enclosed("line").kind = "line"
  BY Enclosures
<1> DEFINE m == Enclosed("line")
<1> HIDE DEF m
<1>2. Beyond(m, c, d) = IF d = "\n" THEN Code ELSE m
  BY <1>1 DEF Beyond, m
<1> QED
  BY <1>2 DEF m

\* Where nothing is opened the scanner stays in code.
LEMMA StaysInCode ==
    ASSUME content \in Seq(Characters), NEW p \in 1 .. Len(content), NEW scan, Scans(p, scan),
           NEW e \in p - 1 .. Len(content), \A i \in p .. e : ~Opens(content[i], After(i))
    PROVE  \A i \in p - 1 .. e : scan[i] = Code
<1> DEFINE L == Len(content)
           Q == {i \in p - 1 .. e : scan[i] = Code}
<1>1. L \in Int /\ p \in Int /\ e \in Int /\ p - 1 \in Int /\ e <= L
  OBVIOUS
<1> HIDE DEF L
<1>2. p - 1 <= e => p - 1 \in Q
  BY <1>1 DEF Scans
<1>3. ASSUME NEW i \in p - 1 + 1 .. e, i - 1 \in Q PROVE i \in Q
  <2>1. i \in p .. L /\ i \in p .. e /\ i \in p - 1 .. e
    BY <1>1
  <2>2. scan[i] = Beyond(Code, content[i], After(i))
    BY <1>3, <2>1 DEF Scans, L
  <2> QED
    BY <2>1, <2>2, BeyondInCode
<1> HIDE DEF Q
<1>4. \A i \in p - 1 .. e : i \in Q
  BY <1>1, <1>2, <1>3, IntervalInduction
<1> QED
  BY <1>4 DEF Q


(***************************************************************************)
(* The scanner is in a string or a bracketed name that the place o opens   *)
(* and that it leaves at e.                                                *)
(***************************************************************************)
Encloses(kind, o, e, scan) ==
    /\ o \in 1 .. Len(content) /\ e \in o + 1 .. Len(content)
    /\ scan[o] = Enclosed(kind)
    /\ \A i \in o + 1 .. e : scan[i] = Beyond(scan[i - 1], content[i], After(i))
    /\ \A i \in o .. e - 1 : scan[i] # Code
    /\ scan[e] = Code

\* Within it, it is in the middle of a pair or not.
LEMMA InQuotes ==
    ASSUME content \in Seq(Characters), NEW kind \in {"string", "quotes", "brackets"},
           NEW o, NEW e, NEW scan, Encloses(kind, o, e, scan)
    PROVE  /\ \A i \in o .. e - 1 : scan[i] = Enclosed(kind)
                                      \/ (kind # "quotes" /\ scan[i] = Doubling(kind))
           /\ \A i \in o + 1 .. e - 1 : /\ content[i] # Closing(kind) => scan[i] = Enclosed(kind)
                                        /\ kind = "quotes" => content[i] # Closing(kind)
           /\ \A i \in o + 1 .. e - 1 :
                 content[i] = Closing(kind) /\ scan[i - 1] = Enclosed(kind) =>
                     scan[i] = Doubling(kind) /\ content[i + 1] = Closing(kind)
           /\ \A i \in o + 1 .. e : scan[i - 1] = Doubling(kind) =>
                 i < e /\ scan[i] = Enclosed(kind) /\ content[i] = Closing(kind)
           /\ content[e] = Closing(kind) /\ scan[e - 1] = Enclosed(kind)
           /\ kind # "quotes" => After(e) # Closing(kind)
<1> DEFINE L == Len(content)
           q == Closing(kind)
           S == Enclosed(kind)
           D == Doubling(kind)
           Fine(i) == scan[i] = S \/ (kind # "quotes" /\ scan[i] = D /\ After(i) = q)
           Q == {i \in o .. e - 1 : Fine(i)}
<1>1. /\ L \in Int /\ o \in 1 .. L /\ e \in o + 1 .. L /\ o \in Int /\ e \in Int /\ e - 1 \in Int
      /\ scan[o] = S /\ scan[e] = Code
      /\ \A i \in o + 1 .. e : scan[i] = Beyond(scan[i - 1], content[i], After(i))
      /\ \A i \in o .. e - 1 : scan[i] # Code
  BY DEF Encloses
<1>2. \A i \in o + 1 .. e : After(i - 1) = content[i]
  BY <1>1 DEF After
<1>3. /\ \A c, d : c # q => Beyond(S, c, d) = S
      /\ \A c, d : c = q /\ (d # q \/ kind = "quotes") => Beyond(S, c, d) = Code
      /\ \A c, d : c = q /\ d = q /\ kind # "quotes" => Beyond(S, c, d) = D
      /\ \A c, d : Beyond(D, c, d) = S
      /\ S # Code /\ D # Code /\ D # S
  BY BeyondEnclosed, Enclosures
<1> HIDE DEF L, q, S, D
<1>4. ASSUME NEW i \in o + 1 .. e - 1, Fine(i - 1) PROVE Fine(i)
  <2>1. /\ i \in o + 1 .. e /\ scan[i] = Beyond(scan[i - 1], content[i], After(i))
        /\ scan[i] # Code
    BY <1>1
  <2> QED
    BY <1>3, <1>4, <2>1
<1>5. \A i \in o .. e - 1 : Fine(i)
  <2>1. o <= e - 1 => o \in Q
    BY <1>1
  <2>2. ASSUME NEW i \in o + 1 .. e - 1, i - 1 \in Q PROVE i \in Q
    BY <1>1, <1>4, <2>2
  <2> HIDE DEF Q
  <2>3. \A i \in o .. e - 1 : i \in Q
    BY <1>1, <2>1, <2>2, IntervalInduction
  <2> QED
    BY <2>3 DEF Q
<1>6. ASSUME NEW i \in o + 1 .. e - 1
      PROVE  /\ content[i] # q => scan[i] = S
             /\ kind = "quotes" => content[i] # q
             /\ content[i] = q /\ scan[i - 1] = S => scan[i] = D /\ content[i + 1] = q
  <2>1. /\ i \in o + 1 .. e /\ scan[i] = Beyond(scan[i - 1], content[i], After(i))
        /\ scan[i] # Code /\ i - 1 \in o .. e - 1 /\ i \in o .. e - 1
    BY <1>1
  <2>2. Fine(i - 1) /\ Fine(i) /\ After(i - 1) = content[i]
    BY <1>2, <1>5, <2>1
  <2>3. i + 1 \in o + 1 .. e /\ i + 1 - 1 = i
    BY <1>1
  <2>4. After(i) = content[i + 1]
    BY <1>2, <2>3
  <2> QED
    BY <1>3, <2>1, <2>2, <2>4
<1>7. ASSUME NEW i \in o + 1 .. e, scan[i - 1] = D
      PROVE  i < e /\ scan[i] = S /\ content[i] = q
  <2>1. /\ scan[i] = Beyond(scan[i - 1], content[i], After(i)) /\ i - 1 \in o .. e - 1
    BY <1>1
  <2>2. scan[i] = S
    BY <1>3, <1>7, <2>1
  <2>3. i # e
    BY <1>1, <1>3, <2>2
  <2>4. content[i] = q
    BY <1>2, <1>3, <1>5, <1>7, <2>1
  <2> QED
    BY <1>1, <2>2, <2>3, <2>4
<1>8. content[e] = q /\ scan[e - 1] = S /\ (kind # "quotes" => After(e) # q)
  <2>1. e \in o + 1 .. e /\ e - 1 \in o .. e - 1 /\ ~(e < e)
    BY <1>1
  <2>2. scan[e] = Beyond(scan[e - 1], content[e], After(e)) /\ Fine(e - 1)
    BY <1>1, <1>5, <2>1
  <2>3. scan[e - 1] = S
    BY <1>7, <2>1, <2>2
  <2> QED
    BY <1>1, <1>3, <2>2, <2>3
<1> QED
  BY <1>5, <1>6, <1>7, <1>8 DEF q, S, D

\* Even and odd.
LEMMA Parity ==
    ASSUME NEW n \in Int
    PROVE  (n % 2 = 0 \/ n % 2 = 1) /\ ((n + 1) % 2 = 0 <=> n % 2 = 1)
  OBVIOUS

\* In a run of closing characters the first, third, ... begin a pair.
LEMMA RunAlternates ==
    ASSUME content \in Seq(Characters), NEW kind \in {"string", "brackets"},
           NEW o, NEW e, NEW scan, Encloses(kind, o, e, scan),
           NEW a \in o + 1 .. e, scan[a - 1] = Enclosed(kind),
           NEW b \in a .. e, \A k \in a .. b : content[k] = Closing(kind)
    PROVE  \A k \in a - 1 .. b : k < e => scan[k] = IF (k - a) % 2 = 0 THEN Doubling(kind) ELSE Enclosed(kind)
<1> DEFINE S == Enclosed(kind)
           D == Doubling(kind)
           Q == {k \in a - 1 .. b : k < e => scan[k] = IF (k - a) % 2 = 0 THEN D ELSE S}
<1>1. /\ o \in Int /\ e \in Int /\ a \in Int /\ b \in Int /\ a - 1 \in Int
      /\ a \in o + 1 .. e /\ b \in a .. e
  BY DEF Encloses
<1>2. /\ \A i \in o + 1 .. e - 1 :
             content[i] = Closing(kind) /\ scan[i - 1] = S => scan[i] = D
      /\ \A i \in o + 1 .. e : scan[i - 1] = D => scan[i] = S
      /\ S # D
  BY InQuotes, Enclosures
<1> HIDE DEF S, D
<1>3. a - 1 <= b => a - 1 \in Q
  <2>1. (a - 1 - a) % 2 = 1
    <3>1. a - 1 - a \in Int /\ a - 1 - a + 1 = 0 /\ 0 % 2 = 0
      BY <1>1
    <3> QED
      BY <3>1, Parity
  <2>2. scan[a - 1] = S
    BY DEF S
  <2> QED
    BY <1>1, <2>1, <2>2
<1>4. ASSUME NEW k \in a - 1 + 1 .. b, k - 1 \in Q PROVE k \in Q
  <2>1. k \in a .. b /\ k \in a - 1 .. b /\ k - 1 \in a - 1 .. b
    BY <1>1
  <2> SUFFICES ASSUME k < e PROVE scan[k] = IF (k - a) % 2 = 0 THEN D ELSE S
    BY <2>1
  <2>2. k \in o + 1 .. e - 1 /\ k \in o + 1 .. e /\ k - 1 < e
    BY <1>1, <2>1
  <2>3. content[k] = Closing(kind)
    BY <2>1
  <2>4. scan[k - 1] = IF (k - 1 - a) % 2 = 0 THEN D ELSE S
    BY <1>4, <2>2
  <2>5. k - a = k - 1 - a + 1 /\ k - 1 - a \in Int /\ k - a \in Int
    BY <1>1, <2>1
  <2>6. ((k - a) % 2 = 0 <=> (k - 1 - a) % 2 = 1) /\ ((k - 1 - a) % 2 = 0 \/ (k - 1 - a) % 2 = 1)
    BY <2>5, Parity
  <2> QED
    BY <1>2, <2>2, <2>3, <2>4, <2>6
<1> HIDE DEF Q
<1>5. \A k \in a - 1 .. b : k \in Q
  BY <1>1, <1>3, <1>4, IntervalInduction
<1> QED
  BY <1>5 DEF Q, S, D


\* The inside of a quoted word.
LEMMA InnerOf ==
    ASSUME NEW text \in Seq(Characters), NEW o \in 1 .. Len(text), NEW f \in o + 1 .. Len(text),
           NEW v, v = Inner(SubSeq(text, o, f))
    PROVE  /\ Len(v) = f - o - 1 /\ DOMAIN v = 1 .. f - o - 1
           /\ \A k \in 1 .. f - o - 1 : v[k] = text[o + k]
<1> DEFINE w == SubSeq(text, o, f)
           l == f - o + 1
<1>1. l \in Int /\ f \in o .. Len(text) /\ l - 1 = f - o /\ l - 2 = f - o - 1 /\ f - o - 1 \in Nat
  OBVIOUS
<1>2. w \in Seq(Characters) /\ Len(w) = l /\ \A i \in 1 .. l : w[i] = text[o + i - 1]
  BY <1>1, WordOf
<1> HIDE DEF w
<1>3. v = SubSeq(w, 2, l - 1)
  BY <1>2 DEF Inner, w
<1>4. \A i \in 2 .. l - 1 : w[i] \in Characters
  BY <1>1, <1>2, ElementOfSeq
<1>5. v \in Seq(Characters) /\ Len(v) = l - 2 /\ \A k \in 1 .. l - 2 : v[k] = w[k + 1]
  BY <1>1, <1>2, <1>3, <1>4, SubSeqProperties
<1>6. \A k \in 1 .. l - 2 : k + 1 \in 1 .. l /\ o + (k + 1) - 1 = o + k
  BY <1>1
<1>7. DOMAIN v = 1 .. l - 2
  BY <1>5, LenProperties
<1> HIDE DEF l
<1> QED
  BY <1>1, <1>2, <1>5, <1>6, <1>7

\* What the scanner takes for a string or a bracketed name has the closing
\* character in it in pairs only.
LEMMA EnclosedIsDoubled ==
    ASSUME content \in Seq(Characters), NEW kind \in {"string", "brackets"},
           NEW o, NEW e, NEW scan, Encloses(kind, o, e, scan)
    PROVE  Doubled(Inner(SubSeq(content, o, e)), Closing(kind))
<1> DEFINE v == Inner(SubSeq(content, o, e))
           q == Closing(kind)
           S == Enclosed(kind)
           D == Doubling(kind)
           l == e - o - 1
<1>1. /\ o \in Int /\ e \in Int /\ o \in 1 .. Len(content) /\ e \in o + 1 .. Len(content)
      /\ l \in Nat /\ l = e - o - 1 /\ scan[o] = S
  BY DEF Encloses
<1>2. Len(v) = l /\ DOMAIN v = 1 .. l /\ \A k \in 1 .. l : v[k] = content[o + k]
  BY <1>1, InnerOf
<1>3. /\ \A i \in o + 1 .. e - 1 : content[i] # q => scan[i] = S
      /\ \A i \in o + 1 .. e : scan[i - 1] = D => i < e /\ content[i] = q
      /\ D # S
  BY InQuotes, Enclosures
<1> HIDE DEF v, l
<1> SUFFICES ASSUME NEW i \in 1 .. l, NEW j \in 1 .. l, \A k \in i .. j : v[k] = q,
                    i = 1 \/ v[i - 1] # q, j = l \/ v[j + 1] # q, ~(i > j)
             PROVE  (j - i) % 2 = 1
  <2>1. Doubled(v, q)
    <3> HIDE DEF q
    <3> QED
      BY <1>2, Zenon DEF Doubled
  <2> QED
    BY <2>1 DEF v
<1>0. i <= j
  OBVIOUS
<1> DEFINE a == o + i
           b == o + j
<1>4. /\ a \in o + 1 .. e - 1 /\ b \in a .. e - 1 /\ a \in o + 1 .. e /\ b \in a .. e
      /\ b + 1 \in o + 1 .. e /\ b + 1 - 1 = b /\ b - a = j - i /\ b < e /\ b \in a - 1 .. b
      /\ a \in Int /\ b \in Int
  BY <1>0, <1>1
<1>5. \A k \in a .. b : content[k] = q
  <2> SUFFICES ASSUME NEW k \in a .. b PROVE content[k] = q
    OBVIOUS
  <2>1. k - o \in i .. j /\ k - o \in 1 .. l /\ o + (k - o) = k
    BY <1>1
  <2> QED
    BY <1>2, <2>1
<1>6. scan[a - 1] = S
  <2>1. CASE i = 1
    BY <1>1, <2>1
  <2>2. CASE i # 1
    <3>1. i - 1 \in 1 .. l /\ o + (i - 1) = a - 1 /\ a - 1 \in o + 1 .. e - 1
      BY <1>1, <2>2
    <3>2. content[a - 1] # q
      BY <1>2, <2>2, <3>1
    <3> QED
      BY <1>3, <3>1, <3>2
  <2> QED
    BY <2>1, <2>2
<1> HIDE DEF a, b
<1>7. scan[b] = IF (b - a) % 2 = 0 THEN D ELSE S
  <2> HIDE DEF D, S, q
  <2>1. \A k \in a - 1 .. b : k < e => scan[k] = IF (k - a) % 2 = 0 THEN D ELSE S
    BY SMTT(60), <1>4, <1>5, <1>6, RunAlternates DEF D, S, q
  <2> QED
    BY <1>4, <2>1
<1>8. scan[b] # D
  <2> SUFFICES ASSUME scan[b] = D PROVE FALSE
    OBVIOUS
  <2>1. b + 1 < e /\ content[b + 1] = q
    BY <1>3, <1>4
  <2>2. j # l /\ j + 1 \in 1 .. l /\ o + (j + 1) = b + 1
    BY <1>1, <2>1 DEF b
  <2>3. v[j + 1] = q
    BY <1>2, <2>1, <2>2
  <2> QED
    BY <2>2, <2>3
<1>9. (b - a) % 2 = 1
  <2>1. (b - a) % 2 # 0
    BY <1>7, <1>8
  <2> QED
    BY <1>4, <2>1, Parity, b - a \in Int
<1> QED
  BY <1>4, <1>9

\* No longer word has them in pairs.
LEMMA LongerIsNotDoubled ==
    ASSUME content \in Seq(Characters), NEW kind \in {"string", "brackets"},
           NEW o, NEW e, NEW scan, Encloses(kind, o, e, scan), NEW f \in e + 1 .. Len(content)
    PROVE  ~Doubled(Inner(SubSeq(content, o, f)), Closing(kind))
<1> DEFINE v == Inner(SubSeq(content, o, f))
           q == Closing(kind)
           S == Enclosed(kind)
           D == Doubling(kind)
           l == f - o - 1
           T == {k \in o + 1 .. e : \A j \in k .. e : content[j] = q}
<1>1. /\ o \in Int /\ e \in Int /\ f \in Int /\ o \in 1 .. Len(content) /\ e \in o + 1 .. Len(content)
      /\ f \in o + 1 .. Len(content) /\ e < f /\ e < Len(content)
      /\ l \in Nat /\ l = f - o - 1 /\ scan[o] = S
  BY DEF Encloses
<1>2. Len(v) = l /\ DOMAIN v = 1 .. l /\ \A k \in 1 .. l : v[k] = content[o + k]
  BY <1>1, InnerOf
<1>3. /\ \A i \in o + 1 .. e - 1 : content[i] # q => scan[i] = S
      /\ content[e] = q /\ scan[e - 1] = S /\ After(e) # q /\ D # S
  BY InQuotes, Enclosures
<1> HIDE DEF v, l
<1>4. PICK a \in T : \A k \in T : a <= k
  <2>1. T \in SUBSET Nat
    BY <1>1
  <2>2. e \in T
    BY <1>1, <1>3
  <2> HIDE DEF T
  <2> QED
    BY <2>1, <2>2, LeastNumber
<1>5. /\ a \in o + 1 .. e /\ a \in Int /\ \A k \in a .. e : content[k] = q
      /\ e \in a .. e /\ e - 1 \in a - 1 .. e /\ e - 1 < e
  BY <1>1, <1>4
<1>6. a = o + 1 \/ content[a - 1] # q
  <2> SUFFICES ASSUME a # o + 1, content[a - 1] = q PROVE FALSE
    OBVIOUS
  <2>1. a - 1 \in o + 1 .. e /\ ~(a <= a - 1) /\ \A k \in a - 1 .. e : k = a - 1 \/ k \in a .. e
    BY <1>1, <1>5
  <2>2. a - 1 \in T
    BY <1>5, <2>1
  <2> QED
    BY <1>4, <2>1, <2>2
<1>7. scan[a - 1] = S
  <2>1. CASE a = o + 1
    BY <1>1, <2>1
  <2>2. CASE a # o + 1
    <3>1. a - 1 \in o + 1 .. e - 1
      BY <1>1, <1>5, <2>2
    <3> QED
      BY <1>3, <1>6, <2>2, <3>1
  <2> QED
    BY <2>1, <2>2
<1>8. scan[e - 1] = IF (e - 1 - a) % 2 = 0 THEN D ELSE S
  <2> HIDE DEF D, S, q
  <2>1. \A k \in a - 1 .. e : k < e => scan[k] = IF (k - a) % 2 = 0 THEN D ELSE S
    BY SMTT(60), <1>5, <1>7, RunAlternates DEF D, S, q
  <2> QED
    BY <1>5, <2>1
<1>9. (e - a) % 2 # 1
  <2>1. e - 1 - a \in Int /\ e - 1 - a + 1 = e - a /\ e - a \in Int
    BY <1>1, <1>5
  <2>2. (e - 1 - a) % 2 # 0
    BY <1>3, <1>8
  <2>3. (e - a) % 2 = 0
    BY <2>1, <2>2, Parity
  <2> QED
    BY <2>3
<1> DEFINE i == a - o
           j == e - o
<1>10. /\ i \in 1 .. l /\ j \in 1 .. l /\ i <= j /\ j - i = e - a /\ o + j = e
       /\ \A k \in i .. j : k \in 1 .. l /\ o + k \in a .. e
  BY <1>1, <1>5
<1>11. \A k \in i .. j : v[k] = q
  BY <1>2, <1>5, <1>10
<1>12. i = 1 \/ v[i - 1] # q
  <2> SUFFICES ASSUME i # 1 PROVE v[i - 1] # q
    OBVIOUS
  <2>1. i - 1 \in 1 .. l /\ o + (i - 1) = a - 1 /\ a # o + 1
    BY <1>1, <1>5, <1>10
  <2> QED
    BY <1>2, <1>6, <2>1
<1>13. j = l \/ v[j + 1] # q
  <2> SUFFICES ASSUME j # l PROVE v[j + 1] # q
    OBVIOUS
  <2>1. j + 1 \in 1 .. l /\ o + (j + 1) = e + 1
    BY <1>1, <1>10
  <2>2. After(e) = content[e + 1]
    BY <1>1 DEF After
  <2> QED
    BY <1>2, <1>3, <2>1, <2>2
<1> HIDE DEF i, j
<1>14. ASSUME Doubled(v, q) PROVE FALSE
  <2>1. i > j \/ (j - i) % 2 = 1
    BY <1>2, <1>10, <1>11, <1>12, <1>13, <1>14 DEF Doubled
  <2>2. ~(i > j)
    BY <1>10
  <2> QED
    BY <1>9, <1>10, <2>1, <2>2
<1> QED
  BY <1>14 DEF v, q


-----------------------------------------------------------------------------
(***************************************************************************)
(* Words that are no strings, comments or quoted names.                    *)
(***************************************************************************)
\* A word opens nothing behind its first character, and nothing at all if it
\* has more than one.
Plain(w) ==
    /\ w[1] \notin {DoubleQuote, "["}
    /\ Len(w) > 1 => w[1] # "'" /\ (w[1] \in {"-", "/"} => w[2] \notin {"-", "*"})
    /\ \A i \in 2 .. Len(w) :
          /\ w[i] \notin {"'", DoubleQuote, "["}
          /\ w[i] \in {"-", "/"} => i < Len(w) /\ w[i + 1] \notin {"-", "*"}

Delimiting == {"'", DoubleQuote, "[", "-", "/"}

\* A word without any such character is plain.
LEMMA ClassIsPlain ==
    ASSUME NEW w \in Seq(Characters), w # <<>>, \A i \in 1 .. Len(w) : w[i] \notin Delimiting
    PROVE  Plain(w)
<1>1. Len(w) \in Nat /\ Len(w) # 0 /\ 1 \in 1 .. Len(w) /\ \A i \in 2 .. Len(w) : i \in 1 .. Len(w)
  BY EmptySeq
<1> QED
  BY <1>1 DEF Plain, Delimiting

\* The classes of characters that words are made of.
LEMMA Classes ==
    /\ \A c \in NamePart : c \notin Delimiting
    /\ \A c \in DEC_DIGIT \cup {"."} : c \notin Delimiting
    /\ \A c \in HEX_DIGIT \cup {"0", "X"} : c \notin Delimiting
    /\ \A c \in Blanks : c \notin Delimiting
    /\ \A c \in Letters \cup {":"} : c \notin Delimiting
    /\ \A c \in {"E", ".", "+", "%"} : c \notin Delimiting
<1>1. \A c \in NamePart : c \notin Delimiting
  BY Zenon, Delimiters DEF Delimiting
<1>2. \A c \in Blanks : c \notin Delimiting
  BY Zenon, Delimiters DEF Delimiting
<1>3. \A c \in {"E", ".", "+", "%", "0", "1", "X", "A", ":"} : c \notin Delimiting
  BY Zenon DEF Delimiting, DoubleQuote
<1>4. /\ \A c \in DEC_DIGIT \cup {"."} : c \in NamePart \/ c = "."
      /\ \A c \in HEX_DIGIT \cup {"0", "X"} : c \in {"0", "1", "A", "E", "X"}
      /\ \A c \in Letters \cup {":"} : c \in NamePart \/ c = ":"
  BY DEF DEC_DIGIT, HEX_DIGIT, NamePart, NameStart
<1> QED
  BY <1>1, <1>2, <1>3, <1>4

\* The names of the rules.
LEMMA RuleNames ==
    \A k \in DOMAIN RuleOrder :
        \/ RuleOrder[k] \in Quoting
        \/ RuleOrder[k] \in {"GO", "MINUTE_ABBR", "DISK_DRIVE", "IPV4_ADDR", "SPACE", "LOCAL_ID",
                             "TEMP_ID", "DECIMAL", "ID", "BINARY", "FLOAT", "REAL", "MODULE"}
        \/ RuleOrder[k] \in DOMAIN Symbols
  BY SMTT(120) DEF RuleOrder, Quoting, Symbols

\* The words of the symbols.
LEMMA SymbolWords ==
    \A r \in DOMAIN Symbols :
        \/ r = "DOUBLE_FORWARD_SLASH"
        \/ Len(Symbols[r]) = 1 /\ Symbols[r][1] \notin {DoubleQuote, "["}
        \/ /\ Len(Symbols[r]) = 2 /\ Symbols[r][1] \notin {DoubleQuote, "[", "'"}
           /\ Symbols[r][2] \in {"\\", "=", "|", ":"}
<1> DEFINE Firsts == {"\\", "/", "'", "=", ">", "<", "!", "+", "-", "*", "%", "&", "^", "|", ".", "_",
                       "@", "#", "$", "(", ")", ",", ";", ":", "~", "?"}
           One(r) == \E c \in Firsts : Symbols[r] = <<c>>
           Two(r) == \E c \in Firsts \ {"'"} : \E d \in {"\\", "=", "|", ":"} : Symbols[r] = <<c, d>>
           Ones == {"BACKSLASH", "SINGLE_QUOTE", "EQUAL", "GREATER", "LESS", "EXCLAMATION", "DOT",
                    "UNDERLINE", "AT", "SHARP", "DOLLAR", "LR_BRACKET", "RR_BRACKET", "COMMA",
                    "SEMI", "COLON", "STAR", "DIVIDE", "PLUS", "MINUS", "BIT_NOT", "BIT_OR",
                    "BIT_AND", "BIT_XOR", "PLACEHOLDER"}
           Twos == {"DOUBLE_BACK_SLASH", "PLUS_ASSIGN", "MINUS_ASSIGN", "MULT_ASSIGN",
                    "DIV_ASSIGN", "MOD_ASSIGN", "AND_ASSIGN", "XOR_ASSIGN", "OR_ASSIGN",
                    "DOUBLE_BAR", "DOUBLE_COLON"}
<1>1. DoubleQuote \notin Firsts /\ "[" \notin Firsts
  BY Zenon DEF DoubleQuote
<1>2. \A r \in DOMAIN Symbols : r \in Ones \/ r \in Twos \/ r = "DOUBLE_FORWARD_SLASH"
  BY SMTT(60) DEF Symbols
<1>3. /\ Symbols["BACKSLASH"] = <<"\\">>
      /\ Symbols["SINGLE_QUOTE"] = <<"'">>
      /\ Symbols["EQUAL"] = <<"=">>
      /\ Symbols["GREATER"] = <<">">>
      /\ Symbols["LESS"] = <<"<">>
  BY DEF Symbols
<1>9. /\ Symbols["EXCLAMATION"] = <<"!">>
      /\ Symbols["DOT"] = <<".">>
      /\ Symbols["UNDERLINE"] = <<"_">>
      /\ Symbols["AT"] = <<"@">>
      /\ Symbols["SHARP"] = <<"#">>
  BY DEF Symbols
<1>10. /\ Symbols["DOLLAR"] = <<"$">>
       /\ Symbols["LR_BRACKET"] = <<"(">>
       /\ Symbols["RR_BRACKET"] = <<")">>
       /\ Symbols["COMMA"] = <<",">>
       /\ Symbols["SEMI"] = <<";">>
  BY DEF Symbols
<1>11. /\ Symbols["COLON"] = <<":">>
       /\ Symbols["STAR"] = <<"*">>
       /\ Symbols["DIVIDE"] = <<"/">>
       /\ Symbols["PLUS"] = <<"+">>
       /\ Symbols["MINUS"] = <<"-">>
  BY DEF Symbols
<1>12. /\ Symbols["BIT_NOT"] = <<"~">>
       /\ Symbols["BIT_OR"] = <<"|">>
       /\ Symbols["BIT_AND"] = <<"&">>
       /\ Symbols["BIT_XOR"] = <<"^">>
       /\ Symbols["PLACEHOLDER"] = <<"?">>
  BY DEF Symbols
<1>4. /\ Symbols["DOUBLE_BACK_SLASH"] = <<"\\", "\\">>
      /\ Symbols["PLUS_ASSIGN"] = <<"+", "=">>
      /\ Symbols["MINUS_ASSIGN"] = <<"-", "=">>
      /\ Symbols["MULT_ASSIGN"] = <<"*", "=">>
      /\ Symbols["DIV_ASSIGN"] = <<"/", "=">>
      /\ Symbols["MOD_ASSIGN"] = <<"%", "=">>
      /\ Symbols["AND_ASSIGN"] = <<"&", "=">>
      /\ Symbols["XOR_ASSIGN"] = <<"^", "=">>
      /\ Symbols["OR_ASSIGN"] = <<"|", "=">>
      /\ Symbols["DOUBLE_BAR"] = <<"|", "|">>
      /\ Symbols["DOUBLE_COLON"] = <<":", ":">>
  BY SMTT(120) DEF Symbols
<1>7. \A r \in Ones : One(r)
  BY <1>3, <1>9, <1>10, <1>11, <1>12, Zenon
<1>8. \A r \in Twos : Two(r)
  BY <1>4, Zenon
<1> HIDE DEF Firsts, Ones, Twos
<1>5. ASSUME NEW r, One(r)
      PROVE  Len(Symbols[r]) = 1 /\ Symbols[r][1] \notin {DoubleQuote, "["}
  BY <1>1, <1>5
<1>6. ASSUME NEW r, Two(r)
      PROVE  /\ Len(Symbols[r]) = 2 /\ Symbols[r][1] \notin {DoubleQuote, "[", "'"}
             /\ Symbols[r][2] \in {"\\", "=", "|", ":"}
  BY <1>1, <1>6
<1> QED
  BY <1>2, <1>5, <1>6, <1>7, <1>8

\* A rule that is for no string, comment or quoted name matches plain words.
LEMMA PlainRule ==
    ASSUME NEW k \in DOMAIN RuleOrder,
           RuleOrder[k] \notin Quoting, RuleOrder[k] # "DOUBLE_FORWARD_SLASH",
           NEW w \in Seq(Characters), w # <<>>, Matches(RuleOrder[k], w)
    PROVE  Plain(w)
<1> DEFINE rule == RuleOrder[k]
           l == Len(w)
<1>1. /\ l \in Nat /\ l # 0 /\ l >= 1 /\ DOMAIN w = 1 .. l /\ 1 \in 1 .. l /\ Head(w) = w[1]
      /\ \A i \in 1 .. l : w[i] \in Characters
  BY EmptySeq, ElementOfSeq, LenProperties
<1>2. \/ rule \in {"GO", "MINUTE_ABBR", "DISK_DRIVE", "IPV4_ADDR", "SPACE", "LOCAL_ID",
                   "TEMP_ID", "DECIMAL", "ID", "BINARY", "FLOAT", "REAL", "MODULE"}
      \/ rule \in DOMAIN Symbols
  BY RuleNames
<1>3. rule \notin Quoting /\ rule # "DOUBLE_FORWARD_SLASH" /\ Matches(rule, w)
  OBVIOUS
<1> HIDE DEF rule, l
<1>4. ASSUME \A i \in 1 .. l : w[i] \notin Delimiting PROVE Plain(w)
  BY <1>4, ClassIsPlain DEF l
<1>5. ASSUME NEW class, \A c \in class : c \notin Delimiting, All(w, class) PROVE Plain(w)
  BY <1>1, <1>4, <1>5 DEF All
<1>6. CASE rule = "GO" \/ rule = "MINUTE_ABBR"
  <2>1. w \in {<<"G", "O">>, <<"N">>, <<"n">>}
    BY <1>3, <1>6 DEF Matches, Words
  <2>2. \A c \in {"G", "O", "N", "n"} : c \notin Delimiting
    BY Zenon DEF Delimiting, DoubleQuote
  <2>3. \A i \in 1 .. l : w[i] \in {"G", "O", "N", "n"}
    BY <2>1 DEF l
  <2> QED
    BY <1>4, <2>2, <2>3
<1>7. CASE rule = "DISK_DRIVE"
  <2>1. l = 2 /\ w[1] \in Letters /\ w[2] = ":"
    BY <1>3, <1>7 DEF Matches, Words, l
  <2>2. \A i \in 1 .. l : w[i] \in Letters \cup {":"}
    BY <2>1
  <2> QED
    BY <1>4, <2>2, Classes
<1>8. CASE rule = "IPV4_ADDR"
  <2>1. IPV4_ADDR(w)
    BY <1>3, <1>8 DEF Matches, Words
  <2>2. All(w, DEC_DIGIT \cup {"."})
    BY <2>1 DEF IPV4_ADDR, All
  <2> QED
    BY <1>5, <2>2, Classes
<1>9. CASE rule = "SPACE"
  <2>1. l = 1 /\ w[1] \in Blanks
    BY <1>3, <1>9 DEF Matches, Words, l
  <2> QED
    BY <1>4, <2>1, Classes
<1>10. CASE rule \in {"LOCAL_ID", "TEMP_ID", "ID"}
  <2>1. All(w, NamePart)
    BY <1>3, <1>10 DEF Matches, Words, ID
  <2> QED
    BY <1>5, <2>1, Classes
<1>11. CASE rule = "DECIMAL"
  <2>1. All(w, DEC_DIGIT)
    BY <1>3, <1>11 DEF Matches, Words, DECIMAL, Some
  <2> QED
    BY <1>5, <2>1, Classes
<1>12. CASE rule = "BINARY"
  <2> DEFINE v == SubSeq(w, 3, l)
  <2>1. l >= 2 /\ w[1] = "0" /\ w[2] = "X" /\ All(v, HEX_DIGIT)
    BY <1>3, <1>12 DEF Matches, Words, l
  <2>2. ASSUME NEW i \in 3 .. l PROVE w[i] \in HEX_DIGIT
    <3>1. v \in Seq(Characters) /\ Len(v) = l - 2 /\ \A j \in 1 .. l - 2 : v[j] = w[j + 2]
      <4>1. \A j \in 3 .. l : w[j] \in Characters
        BY <1>1
      <4> QED
        BY <1>1, <2>1, <4>1, SubSeqProperties
    <3> HIDE DEF v
    <3>2. i - 2 \in 1 .. l - 2 /\ i - 2 + 2 = i /\ DOMAIN v = 1 .. l - 2
      BY <1>1, <3>1, LenProperties
    <3> QED
      BY <2>1, <3>1, <3>2 DEF All
  <2>3. \A i \in 1 .. l : i = 1 \/ i = 2 \/ i \in 3 .. l
    BY <1>1
  <2>4. \A i \in 1 .. l : w[i] \in HEX_DIGIT \cup {"0", "X"}
    BY <2>1, <2>2, <2>3
  <2> QED
    BY <1>4, <2>4, Classes
<1>13. CASE rule = "FLOAT"
  <2>1. DEC_DOT_DEC(w)
    BY <1>3, <1>13 DEF Matches, Words
  <2>2. \A i \in 1 .. l : w[i] \in DEC_DIGIT \cup {"."}
    BY <1>1, <2>1 DEF DEC_DOT_DEC
  <2> QED
    BY <1>4, <2>2, Classes
<1>14. CASE rule = "MODULE"
  <2>1. w = <<"%">>
    BY <1>3, <1>14 DEF Matches, Words
  <2>2. l = 1 /\ w[1] = "%"
    BY <2>1 DEF l
  <2>3. "%" \notin Delimiting
    BY Classes
  <2> QED
    BY <1>4, <2>2, <2>3
<1>15. CASE rule \in DOMAIN Symbols
  <2>1. rule \notin {"GO", "MINUTE_ABBR", "DISK_DRIVE", "IPV4_ADDR", "SPACE", "COMMENT", "LINE_COMMENT",
                     "DOUBLE_QUOTE_ID", "DOUBLE_QUOTE_BLANK", "SQUARE_BRACKET_ID", "LOCAL_ID",
                     "TEMP_ID", "DECIMAL", "ID", "STRING", "BINARY", "FLOAT", "REAL", "MODULE"}
    BY <1>15, SMTT(60) DEF Symbols
  <2>2. w = Symbols[rule]
    BY <1>3, <2>1, SMTT(30) DEF Matches, Words
  <2>3. \/ l = 1 /\ w[1] \notin {DoubleQuote, "["}
        \/ l = 2 /\ w[1] \notin {DoubleQuote, "[", "'"} /\ w[2] \in {"\\", "=", "|", ":"}
    BY <1>3, <1>15, <2>2, SymbolWords DEF l
  <2>4. \A c \in {"\\", "=", "|", ":"} : c \notin Delimiting /\ c # "*"
    BY Zenon DEF Delimiting, DoubleQuote
  <2>5. Len(w) = l
    BY DEF l
  <2> QED
    BY <1>1, <2>3, <2>4, <2>5 DEF Plain, Delimiting
<1>16. CASE rule = "REAL"
  <2>1. REAL(w)
    BY <1>3, <1>16 DEF Matches, Words
  <2>2. PICK m \in DOMAIN w :
           LET mantissa == SubSeq(w, 1, m - 1)
               exponent == SubSeq(w, m + 1, Len(w))
           IN  /\ w[m] = "E"
               /\ DECIMAL(mantissa) \/ DEC_DOT_DEC(mantissa)
               /\ \/ DECIMAL(exponent)
                  \/ exponent # <<>> /\ Head(exponent) \in {"+", "-"} /\ DECIMAL(Tail(exponent))
    BY <2>1, Zenon DEF REAL
  <2> DEFINE u == SubSeq(w, 1, m - 1)
             v == SubSeq(w, m + 1, l)
             digits == DEC_DIGIT
  <2>3. m \in 1 .. l /\ m \in Int /\ l \in Int
    BY <1>1
  <2>4. /\ w[m] = "E"
        /\ DECIMAL(u) \/ DEC_DOT_DEC(u)
        /\ DECIMAL(v) \/ (v # <<>> /\ Head(v) \in {"+", "-"} /\ DECIMAL(Tail(v)))
    BY <2>2 DEF l
  <2>5. u \in Seq(Characters) /\ Len(u) = m - 1 /\ \A j \in 1 .. m - 1 : u[j] = w[j]
    <3>1. \A j \in 1 .. m - 1 : w[j] \in Characters
      BY <1>1, <2>3
    <3> QED
      BY <2>3, <3>1, SubSeqProperties
  <2>6. v \in Seq(Characters) /\ Len(v) = l - m /\ \A j \in 1 .. l - m : v[j] = w[m + j]
    <3>1. \A j \in m + 1 .. l : w[j] \in Characters
      BY <1>1, <2>3
    <3> QED
      BY <2>3, <3>1, SubSeqProperties
  <2> HIDE DEF u, v
  <2>7. \A i \in 1 .. m - 1 : w[i] \in DEC_DIGIT \cup {"."}
    <3>1. DOMAIN u = 1 .. m - 1
      BY <2>5, LenProperties
    <3> QED
      BY <2>4, <2>5, <3>1 DEF DECIMAL, Some, All, DEC_DOT_DEC
  <2> SUFFICES ASSUME TRUE PROVE Plain(w)
    OBVIOUS
  <2>8. CASE DECIMAL(v)
    <3>1. DOMAIN v = 1 .. l - m
      BY <2>6, LenProperties
    <3>2. \A j \in 1 .. l - m : w[m + j] \in DEC_DIGIT
      BY <2>6, <2>8, <3>1 DEF DECIMAL, Some, All
    <3>3. ASSUME NEW i \in 1 .. l PROVE w[i] \notin Delimiting
      <4>1. CASE i < m
        BY <2>3, <2>7, <4>1, Classes, i \in 1 .. m - 1
      <4>2. CASE i = m
        BY <2>4, <4>2, Classes
      <4>3. CASE i > m
        <5>1. i - m \in 1 .. l - m /\ m + (i - m) = i
          BY <2>3, <4>3
        <5> QED
          BY <3>2, <5>1, Classes
      <4> QED
        BY <2>3, <4>1, <4>2, <4>3
    <3> QED
      BY <1>4, <3>3
  <2>9. CASE v # <<>> /\ Head(v) \in {"+", "-"} /\ DECIMAL(Tail(v))
    <3> DEFINE x == Tail(v)
    <3>1. /\ Head(v) = v[1] /\ x \in Seq(Characters) /\ Len(x) = l - m - 1
          /\ \A j \in 1 .. l - m - 1 : x[j] = v[j + 1]
      BY <2>6, <2>9, HeadTailProperties, EmptySeq
    <3>2. DECIMAL(x) /\ x # <<>>
      BY <2>9 DEF DECIMAL, Some
    <3> HIDE DEF x
    <3>3. DOMAIN x = 1 .. l - m - 1 /\ Len(x) # 0 /\ l - m - 1 >= 1
      BY <2>3, <3>1, <3>2, LenProperties, EmptySeq
    <3>4. \A j \in 1 .. l - m - 1 : w[m + 1 + j] \in DEC_DIGIT
      <4> SUFFICES ASSUME NEW j \in 1 .. l - m - 1 PROVE w[m + 1 + j] \in DEC_DIGIT
        OBVIOUS
      <4>1. j + 1 \in 1 .. l - m /\ m + (j + 1) = m + 1 + j
        BY <2>3
      <4>2. x[j] \in DEC_DIGIT
        BY <3>2, <3>3 DEF DECIMAL, Some, All
      <4> QED
        BY <2>6, <3>1, <4>1, <4>2
    <3>5. w[m + 1] \in {"+", "-"}
      <4>1. 1 \in 1 .. l - m
        BY <2>3, <3>3
      <4> QED
        BY <2>6, <2>9, <3>1, <4>1
    <3>6. ASSUME NEW i \in 1 .. l, i # m + 1 PROVE w[i] \notin Delimiting
      <4>1. CASE i < m
        BY <2>3, <2>7, <4>1, Classes, i \in 1 .. m - 1
      <4>2. CASE i = m
        BY <2>4, <4>2, Classes
      <4>3. CASE i > m
        <5>1. i - m - 1 \in 1 .. l - m - 1 /\ m + 1 + (i - m - 1) = i
          BY <2>3, <3>6, <4>3
        <5> QED
          BY <3>4, <5>1, Classes
      <4> QED
        BY <2>3, <4>1, <4>2, <4>3
    <3>7. m + 2 \in 1 .. l /\ m + 2 # m + 1 /\ m + 1 + 1 = m + 2 /\ 1 # m + 1 /\ m + 1 < l
      BY <2>3, <3>3
    <3>8. w[m + 2] \notin {"-", "*"}
      <4>1. m + 1 + 1 = m + 2 /\ 1 \in 1 .. l - m - 1
        BY <2>3, <3>3
      <4>2. w[m + 2] \in DEC_DIGIT
        BY <3>4, <4>1
      <4>3. \A c \in DEC_DIGIT : c \notin {"-", "*"}
        BY DEF DEC_DIGIT
      <4> QED
        BY <4>2, <4>3
    <3>9. w[1] \notin Delimiting
      BY <1>1, <3>6, <3>7
    <3>10. ASSUME NEW i \in 2 .. l
           PROVE  /\ w[i] \notin {"'", DoubleQuote, "["}
                  /\ w[i] \in {"-", "/"} => i < l /\ w[i + 1] \notin {"-", "*"}
      <4>1. CASE i = m + 1
        <5>1. w[i] \notin {"'", DoubleQuote, "["}
          BY <3>5, <4>1, Delimiters
        <5> QED
          BY <3>7, <3>8, <4>1, <5>1
      <4>2. CASE i # m + 1
        <5>1. w[i] \notin Delimiting
          BY <3>6, <4>2, i \in 1 .. l
        <5> QED
          BY <5>1 DEF Delimiting
      <4> QED
        BY <4>1, <4>2
    <3> QED
      BY <3>9, <3>10 DEF Plain, Delimiting, l
  <2> QED
    BY <2>4, <2>8, <2>9
<1> QED
  BY <1>2, <1>6, <1>7, <1>8, <1>9, <1>10, <1>11, <1>12, <1>13, <1>14, <1>15, <1>16


-----------------------------------------------------------------------------
(***************************************************************************)
(* The words of strings, comments and quoted names.                        *)
(***************************************************************************)
\* The ends of a word.
LEMMA BetweenEnds ==
    ASSUME NEW text \in Seq(Characters), NEW o \in 1 .. Len(text), NEW f \in o .. Len(text),
           NEW a, NEW b
    PROVE  Between(SubSeq(text, o, f), a, b) <=> f > o /\ text[o] = a /\ text[f] = b
<1> DEFINE w == SubSeq(text, o, f)
           l == f - o + 1
<1>1. l \in Nat /\ l >= 1 /\ (l >= 2 <=> f > o) /\ 1 \in 1 .. l /\ l \in 1 .. l
      /\ o + 1 - 1 = o /\ o + l - 1 = f
  OBVIOUS
<1>2. w \in Seq(Characters) /\ Len(w) = l /\ \A i \in 1 .. l : w[i] = text[o + i - 1]
  BY WordOf
<1> HIDE DEF w, l
<1>3. w # <<>> /\ w[1] = text[o] /\ w[l] = text[f]
  BY <1>1, <1>2, EmptySeq
<1>4. Head(w) = w[1] /\ Last(w) = w[l]
  BY <1>2, <1>3 DEF Last
<1>5. Between(w, a, b) <=> f > o /\ text[o] = a /\ text[f] = b
  BY <1>1, <1>2, <1>3, <1>4 DEF Between
<1> QED
  BY <1>5 DEF w

\* Where the quote of a string stands whose first character is at p.
QuoteOf(text, p) == IF text[p] = "N" THEN p + 1 ELSE p

LEMMA StringEnds ==
    ASSUME NEW text \in Seq(Characters), NEW p \in 1 .. Len(text), NEW o, o = QuoteOf(text, p),
           NEW f \in p .. Len(text)
    PROVE  f \in Ends(text, "STRING", p) <=>
             /\ f > o /\ text[o] = "'" /\ text[f] = "'"
             /\ Doubled(Inner(SubSeq(text, o, f)), "'")
<1> DEFINE w == SubSeq(text, p, f)
           quoted == IF Head(w) = "N" THEN Tail(w) ELSE w
           l == f - p + 1
<1>1. l \in Nat /\ l >= 1 /\ 1 \in 1 .. l /\ p + 1 - 1 = p /\ p \in Int /\ f \in Int
      /\ p <= f /\ f <= Len(text) /\ Len(text) \in Int
  OBVIOUS
<1>2. w \in Seq(Characters) /\ Len(w) = l /\ \A i \in 1 .. l : w[i] = text[p + i - 1]
  BY WordOf
<1>3. f \in Ends(text, "STRING", p) <=> Matches("STRING", w)
  BY DEF Ends
<1>4. Matches("STRING", w) <=> STRING_(w)
  <2> HIDE DEF w
  <2> QED
    BY DEF Matches, Words
<1>5. STRING_(w) <=> Between(quoted, "'", "'") /\ Doubled(Inner(quoted), "'")
  BY DEF STRING_
<1> HIDE DEF w, l
<1>6. w # <<>> /\ Head(w) = text[p]
  BY <1>1, <1>2, EmptySeq
<1>7. CASE text[p] # "N"
  <2>1. quoted = w /\ o = p
    BY <1>6, <1>7 DEF QuoteOf
  <2>2. Between(w, "'", "'") <=> f > p /\ text[p] = "'" /\ text[f] = "'"
    BY BetweenEnds DEF w
  <2> QED
    BY <1>3, <1>4, <1>5, <2>1, <2>2 DEF w
<1>8. CASE text[p] = "N"
  <2>1. quoted = Tail(w) /\ o = p + 1
    BY <1>6, <1>8 DEF QuoteOf
  <2>2. CASE f = p
    <3>1. l = 1
      BY <2>2 DEF l
    <3>2. Len(Tail(w)) = 0
      BY <1>2, <1>6, <3>1, HeadTailProperties
    <3>3. ~Between(quoted, "'", "'")
      BY <2>1, <3>2 DEF Between
    <3> QED
      BY <1>1, <1>3, <1>4, <1>5, <2>1, <2>2, <3>3
  <2>3. CASE f # p
    <3> DEFINE v == SubSeq(text, p + 1, f)
    <3>1. p + 1 \in 1 .. Len(text) /\ f \in p + 1 .. Len(text) /\ f - (p + 1) + 1 = l - 1 /\ l - 1 \in Nat
      BY <1>1, <2>3 DEF l
    <3>2. v \in Seq(Characters) /\ Len(v) = l - 1 /\ \A i \in 1 .. l - 1 : v[i] = text[p + 1 + i - 1]
      BY <3>1, WordOf
    <3> HIDE DEF v
    <3>3. Tail(w) \in Seq(Characters) /\ Len(Tail(w)) = l - 1 /\ \A i \in 1 .. l - 1 : Tail(w)[i] = w[i + 1]
      BY <1>2, <1>6, HeadTailProperties
    <3>4. \A i \in 1 .. l - 1 : Tail(w)[i] = v[i]
      <4> SUFFICES ASSUME NEW i \in 1 .. l - 1 PROVE Tail(w)[i] = v[i]
        OBVIOUS
      <4>1. i + 1 \in 1 .. l /\ p + (i + 1) - 1 = p + 1 + i - 1
        BY <1>1
      <4> QED
        BY <1>2, <3>2, <3>3, <4>1
    <3>5. Tail(w) = v
      BY <3>2, <3>3, <3>4, SeqEqual
    <3>6. Between(v, "'", "'") <=> f > p + 1 /\ text[p + 1] = "'" /\ text[f] = "'"
      BY <3>1, BetweenEnds DEF v
    <3> QED
      BY <1>3, <1>4, <1>5, <2>1, <3>5, <3>6 DEF v
  <2> QED
    BY <2>2, <2>3
<1> QED
  BY <1>7, <1>8

LEMMA BracketEnds ==
    ASSUME NEW text \in Seq(Characters), NEW p \in 1 .. Len(text), NEW f \in p .. Len(text)
    PROVE  f \in Ends(text, "SQUARE_BRACKET_ID", p) <=>
             /\ f > p /\ text[p] = "[" /\ text[f] = "]"
             /\ Doubled(Inner(SubSeq(text, p, f)), "]")
<1> DEFINE w == SubSeq(text, p, f)
<1>1. f \in Ends(text, "SQUARE_BRACKET_ID", p) <=> Matches("SQUARE_BRACKET_ID", w)
  BY DEF Ends
<1>2. Between(w, "[", "]") <=> f > p /\ text[p] = "[" /\ text[f] = "]"
  BY BetweenEnds
<1> HIDE DEF w
<1>3. Matches("SQUARE_BRACKET_ID", w) <=> Between(w, "[", "]") /\ Doubled(Inner(w), "]")
  BY DEF Matches, Words
<1> QED
  BY <1>1, <1>2, <1>3 DEF w

LEMMA DoubleQuoteEnds ==
    ASSUME NEW text \in Seq(Characters), NEW p \in 1 .. Len(text),
           NEW rule \in {"DOUBLE_QUOTE_ID", "DOUBLE_QUOTE_BLANK"}, NEW f \in Ends(text, rule, p)
    PROVE  /\ f \in p + 1 .. Len(text) /\ text[p] = DoubleQuote /\ text[f] = DoubleQuote
           /\ \A k \in p + 1 .. f - 1 : text[k] # DoubleQuote
<1> DEFINE w == SubSeq(text, p, f)
           l == f - p + 1
<1>1. f \in p .. Len(text) /\ Matches(rule, w)
  BY DEF Ends
<1>2. /\ l \in Nat /\ l >= 1 /\ p + 1 - 1 = p /\ p \in Int /\ f \in Int /\ p + 2 - 1 = p + 1
      /\ p <= f /\ f <= Len(text) /\ Len(text) \in Int /\ (l = 2 <=> f = p + 1)
  BY <1>1
<1>3. Len(w) = l /\ \A i \in 1 .. l : w[i] = text[p + i - 1]
  BY <1>1, WordOf
<1>4. Between(w, DoubleQuote, DoubleQuote) <=> f > p /\ text[p] = DoubleQuote /\ text[f] = DoubleQuote
  BY <1>1, BetweenEnds
<1> HIDE DEF w
<1>5. CASE rule = "DOUBLE_QUOTE_ID"
  <2>1. Between(w, DoubleQuote, DoubleQuote) /\ \A i \in 2 .. Len(w) - 1 : w[i] # DoubleQuote
    BY <1>1, <1>5 DEF Matches, Words
  <2>2. ASSUME NEW k \in p + 1 .. f - 1 PROVE text[k] # DoubleQuote
    <3>1. k - p + 1 \in 2 .. l - 1 /\ k - p + 1 \in 1 .. l /\ p + (k - p + 1) - 1 = k
      BY <1>2
    <3> QED
      BY <1>3, <2>1, <3>1
  <2>3. f \in p + 1 .. Len(text)
    BY <1>2, <1>4, <2>1
  <2> QED
    BY <1>4, <2>1, <2>2, <2>3
<1>6. CASE rule = "DOUBLE_QUOTE_BLANK"
  <2>1. w = <<DoubleQuote, DoubleQuote>>
    BY <1>1, <1>6 DEF Matches, Words
  <2>2. Len(w) = 2 /\ w[1] = DoubleQuote /\ w[2] = DoubleQuote
    BY <2>1
  <2> HIDE DEF l
  <2>3. l = 2 /\ 1 \in 1 .. l /\ 2 \in 1 .. l
    BY <1>2, <1>3, <2>2
  <2>4. text[p] = DoubleQuote /\ text[f] = DoubleQuote
    BY <1>2, <1>3, <2>2, <2>3
  <2> QED
    BY <1>2, <2>3, <2>4
<1> QED
  BY <1>5, <1>6

LEMMA LineCommentEnds ==
    ASSUME NEW text \in Seq(Characters), NEW p \in 1 .. Len(text), NEW f \in p .. Len(text)
    PROVE  f \in Ends(text, "LINE_COMMENT", p) <=>
             /\ f > p /\ text[p] = "-" /\ text[p + 1] = "-"
             /\ \A k \in p .. f : text[k] # "\n"
<1> DEFINE w == SubSeq(text, p, f)
           l == f - p + 1
<1>1. f \in Ends(text, "LINE_COMMENT", p) <=> Matches("LINE_COMMENT", w)
  BY DEF Ends
<1>2. /\ l \in Nat /\ l >= 1 /\ p + 1 - 1 = p /\ p + 2 - 1 = p + 1 /\ p \in Int /\ f \in Int
      /\ (l >= 2 <=> f > p) /\ 1 \in 1 .. l /\ (f > p => 2 \in 1 .. l)
      /\ \A k \in p .. f : k - p + 1 \in 1 .. l /\ p + (k - p + 1) - 1 = k
      /\ \A i \in 1 .. l : p + i - 1 \in p .. f
  OBVIOUS
<1>3. Len(w) = l /\ DOMAIN w = 1 .. l /\ \A i \in 1 .. l : w[i] = text[p + i - 1]
  BY WordOf
<1> HIDE DEF w, l
<1>4. Matches("LINE_COMMENT", w) <=> LINE_COMMENT(w)
  BY DEF Matches, Words
<1>5. (\A i \in DOMAIN w : w[i] # "\n") <=> \A k \in p .. f : text[k] # "\n"
  <2>1. ASSUME \A i \in DOMAIN w : w[i] # "\n", NEW k \in p .. f PROVE text[k] # "\n"
    <3>1. k - p + 1 \in DOMAIN w /\ w[k - p + 1] = text[k]
      BY <1>2, <1>3
    <3> QED
      BY <2>1, <3>1
  <2>2. ASSUME \A k \in p .. f : text[k] # "\n", NEW i \in DOMAIN w PROVE w[i] # "\n"
    <3>1. p + i - 1 \in p .. f /\ w[i] = text[p + i - 1]
      BY <1>2, <1>3
    <3> QED
      BY <2>2, <3>1
  <2> QED
    BY <2>1, <2>2
<1>6. w[1] = text[p] /\ (f > p => w[2] = text[p + 1])
  BY <1>2, <1>3
<1> QED
  BY <1>1, <1>2, <1>3, <1>4, <1>5, <1>6 DEF LINE_COMMENT

LEMMA CommentBegins ==
    ASSUME NEW text \in Seq(Characters), NEW p \in 1 .. Len(text), NEW f \in Ends(text, "COMMENT", p)
    PROVE  text[p] = "/" /\ p < Len(text) /\ text[p + 1] = "*"
<1>1. PICK rs : /\ ReadsComment(text, p, rs)
                /\ CommentEnds(text, p) = {i \in p .. Len(text) : Complete(rs[i])}
  BY CommentDef
<1>2. f \in p .. Len(text) /\ Complete(rs[f])
  BY <1>1 DEF Ends
<1>3. text[p] = "/" /\ p + 1 \in p + 1 .. Len(text) /\ text[p + 1] = "*"
  BY <1>1, <1>2, CommentOpens
<1> QED
  BY <1>3

LEMMA PlainEnds ==
    ASSUME NEW text \in Seq(Characters), NEW p \in 1 .. Len(text),
           NEW k \in DOMAIN RuleOrder, RuleOrder[k] \notin Quoting,
           RuleOrder[k] # "DOUBLE_FORWARD_SLASH", NEW f \in Ends(text, RuleOrder[k], p)
    PROVE  /\ f \in p .. Len(text) /\ text[p] \notin {DoubleQuote, "["}
           /\ f > p => text[p] # "'" /\ (text[p] \in {"-", "/"} => text[p + 1] \notin {"-", "*"})
           /\ \A i \in p + 1 .. f :
                 /\ text[i] \notin {"'", DoubleQuote, "["}
                 /\ text[i] \in {"-", "/"} => i < f /\ text[i + 1] \notin {"-", "*"}
<1> DEFINE w == SubSeq(text, p, f)
           l == f - p + 1
<1>1. f \in p .. Len(text) /\ Matches(RuleOrder[k], w)
  BY DEF Ends, Quoting
<1>2. /\ l \in Nat /\ l >= 1 /\ p + 1 - 1 = p /\ p + 2 - 1 = p + 1 /\ p \in Int /\ f \in Int
      /\ (l > 1 <=> f > p) /\ 1 \in 1 .. l /\ (f > p => 2 \in 1 .. l)
  BY <1>1
<1>3. w \in Seq(Characters) /\ Len(w) = l /\ \A i \in 1 .. l : w[i] = text[p + i - 1]
  BY <1>1, WordOf
<1> HIDE DEF w
<1>4. w # <<>>
  BY <1>2, <1>3, EmptySeq
<1>5. Plain(w)
  BY <1>1, <1>3, <1>4, PlainRule
<1>6. w[1] = text[p] /\ (f > p => w[2] = text[p + 1])
  BY <1>2, <1>3
<1>7. ASSUME NEW i \in p + 1 .. f
      PROVE  /\ text[i] \notin {"'", DoubleQuote, "["}
             /\ text[i] \in {"-", "/"} => i < f /\ text[i + 1] \notin {"-", "*"}
  <2> DEFINE j == i - p + 1
  <2>1. j \in 2 .. l /\ j \in 1 .. l /\ p + j - 1 = i /\ (j < l <=> i < f)
        /\ (j < l => j + 1 \in 1 .. l) /\ p + (j + 1) - 1 = i + 1
    BY <1>2
  <2> HIDE DEF j, l
  <2> QED
    BY <1>3, <1>5, <2>1 DEF Plain
<1> QED
  BY <1>1, <1>2, <1>3, <1>5, <1>6, <1>7 DEF Plain


-----------------------------------------------------------------------------
(***************************************************************************)
(* A piece is what the scanner finds, if the scanner is in code before it  *)
(* and at the end of the text.                                             *)
(***************************************************************************)
Outside(scan) == {i \in 0 .. Len(content) : scan[i] = Code}

\* The scanner is in code before the piece t and at the end of the text, and t
\* follows the rules but is none that may begin with a comment's slash.
Closed(t, scan) ==
    /\ content \in Seq(Characters)
    /\ content[Len(content)] = "\n"
    /\ FollowsRules(t)
    /\ t.type # "DOUBLE_FORWARD_SLASH"
    /\ Scans(t.start, scan)
    /\ scan[Len(content)] = Code

\* What such a piece is: a match that no other is longer than, or an error.
LEMMA ClosedPiece ==
    ASSUME NEW t, NEW scan, Closed(t, scan)
    PROVE  /\ content \in Seq(Characters) /\ Len(content) \in Nat
           /\ t.start \in 1 .. Len(content) /\ t.start \in Int /\ scan[t.start - 1] = Code
           /\ \A i \in t.start .. Len(content) : scan[i] = Beyond(scan[i - 1], content[i], After(i))
           /\ AllEnds(content, t.start) # {} =>
                 /\ t.stop \in t.start .. Len(content)
                 /\ t.stop \in Ends(content, t.type, t.start)
                 /\ \E k \in DOMAIN RuleOrder : RuleOrder[k] = t.type
                 /\ \A rule, e : /\ \E k \in DOMAIN RuleOrder : RuleOrder[k] = rule
                                 /\ e \in Ends(content, rule, t.start)
                                 => e <= t.stop
           /\ AllEnds(content, t.start) = {} =>
                 /\ t.type = "error"
                 /\ content[t.start] \notin {DoubleQuote, "["} => t.stop = t.start
<1> DEFINE p == t.start
           L == Len(content)
<1>1. content \in Seq(Characters) /\ L \in Nat /\ p \in 1 .. L /\ p \in Int /\ Scans(p, scan) /\ FollowsRules(t)
  BY DEF Closed, FollowsRules
<1>2. ASSUME AllEnds(content, p) # {}
      PROVE  /\ t.stop \in p .. L
             /\ t.stop \in Ends(content, t.type, p)
             /\ \E k \in DOMAIN RuleOrder : RuleOrder[k] = t.type
             /\ \A rule, e : /\ \E k \in DOMAIN RuleOrder : RuleOrder[k] = rule
                             /\ e \in Ends(content, rule, p)
                             => e <= t.stop
  <2>1. t.stop = LongestEnd(content, p) /\ t.type = TokenType(content, p, t.stop)
    BY <1>1, <1>2 DEF FollowsRules
  <2>2. /\ t.stop \in AllEnds(content, p) /\ t.stop \in p .. L
        /\ \A f \in AllEnds(content, p) : f <= t.stop
    BY <1>1, <1>2, <2>1, LongestIsMax
  <2>3. t.stop \in Ends(content, t.type, p) /\ t.type # "error"
    BY <1>1, <2>1, <2>2, TypeMatches
  <2>4. t.type \in Types
    <3>1. LongestEnd(content, p) >= p
      BY <1>1, <2>1, <2>2
    <3> QED
      BY <1>1, <2>1, <3>1, TypeOfMatch
  <2> QED
    BY <2>2, <2>3, <2>4 DEF AllEnds, Types
<1>3. ASSUME AllEnds(content, p) = {}
      PROVE  t.type = "error" /\ (content[p] \notin {DoubleQuote, "["} => t.stop = p)
  <2>1. t.type = "error" /\ t.stop = LET reached == Reached(content, p)
                                     IN  IF reached < L THEN reached + 1 ELSE reached
    BY <1>1, <1>3 DEF FollowsRules
  <2>2. ASSUME content[p] \notin {DoubleQuote, "["} PROVE t.stop = p
    <3>1. Reached(content, p) = p - 1
      BY <2>2 DEF Reached
    <3> QED
      BY <1>1, <2>1, <3>1
  <2> QED
    BY <2>1, <2>2
<1> QED
  BY <1>1, <1>2, <1>3 DEF Scans

\* Where the scanner is in code again, behind a place where it is not.
LEMMA LeavesAt ==
    ASSUME NEW scan, Len(content) \in Nat, NEW o \in 1 .. Len(content), scan[o] # Code,
           scan[Len(content)] = Code
    PROVE  \E e \in o + 1 .. Len(content) : scan[e] = Code /\ \A i \in o .. e - 1 : scan[i] # Code
<1> DEFINE T == {i \in o .. Len(content) : scan[i] = Code}
<1>1. T \in SUBSET Nat /\ Len(content) \in T
  OBVIOUS
<1> HIDE DEF T
<1>2. PICK e \in T : \A i \in T : e <= i
  BY <1>1, LeastNumber
<1> USE DEF T
<1>3. e \in o + 1 .. Len(content) /\ scan[e] = Code
  BY <1>2
<1>4. ASSUME NEW i \in o .. e - 1 PROVE scan[i] # Code
  <2>1. i \in o .. Len(content) /\ ~(e <= i)
    BY <1>3
  <2> QED
    BY <1>2, <2>1
<1> QED
  BY <1>3, <1>4

\* The characters that a rule's matches begin with.
LEMMA QuotingBegins ==
    ASSUME content \in Seq(Characters), NEW p \in 1 .. Len(content), NEW type \in Quoting,
           NEW f \in Ends(content, type, p)
    PROVE  /\ type = "STRING" => \/ content[p] = "'"
                                 \/ content[p] = "N" /\ p < Len(content) /\ content[p + 1] = "'"
           /\ type = "COMMENT" => content[p] = "/" /\ After(p) = "*"
           /\ type = "LINE_COMMENT" => content[p] = "-" /\ After(p) = "-"
           /\ type \in {"DOUBLE_QUOTE_ID", "DOUBLE_QUOTE_BLANK"} => content[p] = DoubleQuote
           /\ type = "SQUARE_BRACKET_ID" => content[p] = "["
<1>1. f \in p .. Len(content) /\ Len(content) \in Nat
  BY EndsWithin, p \in Nat
<1>2. ASSUME type = "STRING"
      PROVE  content[p] = "'" \/ (content[p] = "N" /\ p < Len(content) /\ content[p + 1] = "'")
  <2>1. f > QuoteOf(content, p) /\ content[QuoteOf(content, p)] = "'"
    BY <1>1, <1>2, StringEnds
  <2> QED
    BY <1>1, <2>1 DEF QuoteOf
<1>3. ASSUME type = "COMMENT" PROVE content[p] = "/" /\ After(p) = "*"
  BY <1>3, CommentBegins DEF After
<1>4. ASSUME type = "LINE_COMMENT" PROVE content[p] = "-" /\ After(p) = "-"
  BY <1>1, <1>4, LineCommentEnds DEF After
<1>5. ASSUME type \in {"DOUBLE_QUOTE_ID", "DOUBLE_QUOTE_BLANK"} PROVE content[p] = DoubleQuote
  BY <1>5, DoubleQuoteEnds
<1>6. ASSUME type = "SQUARE_BRACKET_ID" PROVE content[p] = "["
  BY <1>1, <1>6, BracketEnds
<1> QED
  BY <1>2, <1>3, <1>4, <1>5, <1>6

\* All the rules for strings, comments and quoted names are rules.
LEMMA QuotingRules ==
    \A rule \in Quoting : \E k \in DOMAIN RuleOrder : RuleOrder[k] = rule
<1>1. /\ 10 \in DOMAIN RuleOrder /\ RuleOrder[10] = "LINE_COMMENT"
      /\ 19 \in DOMAIN RuleOrder /\ RuleOrder[19] = "STRING"
  BY SMTT(60) DEF RuleOrder
<1> QED
  BY <1>1, NamedRules DEF Quoting


\* A piece that begins where nothing is opened is code.
LEMMA PlainPiece ==
    ASSUME NEW t, NEW scan, Closed(t, scan), ~Opens(content[t.start], After(t.start)),
           ~(content[t.start] = "N" /\ After(t.start) = "'")
    PROVE  Agrees(t, Outside(scan))
<1> DEFINE p == t.start
           e == t.stop
           L == Len(content)
<1>1. content \in Seq(Characters) /\ L \in Nat /\ p \in 1 .. L /\ p \in Int /\ Scans(p, scan)
  BY ClosedPiece DEF Closed
<1>2. t.type \notin Quoting /\ e \in p .. L /\ \A i \in p .. e : ~Opens(content[i], After(i))
  <2>1. CASE AllEnds(content, p) = {}
    <3>1. t.type = "error" /\ e = p
      BY <2>1, ClosedPiece DEF Opens
    <3> QED
      BY <1>1, <3>1 DEF Quoting
  <2>2. CASE AllEnds(content, p) # {}
    <3>1. /\ e \in p .. L /\ e \in Ends(content, t.type, p)
          /\ \E k \in DOMAIN RuleOrder : RuleOrder[k] = t.type
      BY <2>2, ClosedPiece
    <3>2. t.type \notin Quoting
      <4> SUFFICES ASSUME t.type \in Quoting PROVE FALSE
        OBVIOUS
      <4>1. /\ t.type = "STRING" => \/ content[p] = "'"
                                    \/ content[p] = "N" /\ p < L /\ content[p + 1] = "'"
            /\ t.type = "COMMENT" => content[p] = "/" /\ After(p) = "*"
            /\ t.type = "LINE_COMMENT" => content[p] = "-" /\ After(p) = "-"
            /\ t.type \in {"DOUBLE_QUOTE_ID", "DOUBLE_QUOTE_BLANK"} => content[p] = DoubleQuote
            /\ t.type = "SQUARE_BRACKET_ID" => content[p] = "["
        BY <1>1, <3>1, QuotingBegins
      <4>2. p < L => After(p) = content[p + 1]
        BY DEF After
      <4> QED
        BY <4>1, <4>2 DEF Quoting, Opens
    <3>3. t.type # "DOUBLE_FORWARD_SLASH"
      BY DEF Closed
    <3>4. PICK k \in DOMAIN RuleOrder : RuleOrder[k] = t.type
      BY <3>1
    <3>5. \A i \in p + 1 .. e : /\ content[i] \notin {"'", DoubleQuote, "["}
                                /\ content[i] \in {"-", "/"} =>
                                      i < e /\ content[i + 1] \notin {"-", "*"}
      BY <1>1, <3>1, <3>2, <3>3, <3>4, PlainEnds
    <3>6. ASSUME NEW i \in p .. e PROVE ~Opens(content[i], After(i))
      <4>1. CASE i = p
        BY <4>1
      <4>2. CASE i # p
        <5>1. i \in p + 1 .. e /\ (i < e => i < L)
          BY <1>1, <3>1, <4>2
        <5>2. i < e => After(i) = content[i + 1]
          BY <5>1 DEF After
        <5> QED
          BY <3>5, <5>1, <5>2 DEF Opens
      <4> QED
        BY <4>1, <4>2
    <3> QED
      BY <3>1, <3>2, <3>6
  <2> QED
    BY <2>1, <2>2
<1>3. \A i \in p - 1 .. e : scan[i] = Code
  BY <1>1, <1>2, StaysInCode, e \in p - 1 .. L
<1>4. \A i \in p - 1 .. e : i \in Outside(scan)
  BY <1>1, <1>2, <1>3 DEF Outside
<1> QED
  BY SMTT(60), <1>1, <1>2, <1>4 DEF Agrees

\* A piece that begins where something is opened at o, its first character or
\* the one behind N, and ends where the scanner leaves it.
LEMMA QuotingAgrees ==
    ASSUME Len(content) \in Nat, NEW t, NEW scan, t.start \in 1 .. Len(content), t.type \in Quoting,
           scan[t.start - 1] = Code, t.stop \in t.start .. Len(content), scan[t.stop] = Code,
           NEW o \in t.start .. t.stop, \A i \in o .. t.stop - 1 : scan[i] # Code,
           \/ o = t.start /\ ~(t.type = "STRING" /\ content[t.start] = "N")
           \/ /\ o = t.start + 1 /\ scan[t.start] = Code
              /\ t.type = "STRING" /\ content[t.start] = "N"
    PROVE  Agrees(t, Outside(scan))
<1>1. \A i \in t.start - 1 .. t.stop : i \in 0 .. Len(content)
  OBVIOUS
<1>2. {t.start - 1, t.stop} \subseteq Outside(scan)
  BY <1>1 DEF Outside
<1>3. ASSUME NEW i \in t.start .. t.stop - 1
      PROVE  i \in Outside(scan) <=> i = t.start /\ t.type = "STRING" /\ content[i] = "N"
  <2>1. i \in Outside(scan) <=> scan[i] = Code
    BY <1>1, i \in t.start - 1 .. t.stop DEF Outside
  <2>2. i = t.start \/ i \in t.start + 1 .. t.stop - 1
    OBVIOUS
  <2> QED
    BY <2>1, <2>2
<1> QED
  BY <1>2, <1>3 DEF Agrees

\* A comment.
LEMMA CommentPiece ==
    ASSUME NEW t, NEW scan, Closed(t, scan), content[t.start] = "/", After(t.start) = "*"
    PROVE  Agrees(t, Outside(scan))
<1> DEFINE p == t.start
           L == Len(content)
<1>1. content \in Seq(Characters) /\ L \in Nat /\ p \in 1 .. L /\ p \in Int /\ Scans(p, scan)
      /\ scan[p - 1] = Code /\ scan[L] = Code /\ scan[p] = Beyond(Code, content[p], After(p))
  <2>1. /\ content \in Seq(Characters) /\ L \in Nat /\ p \in 1 .. L /\ p \in Int
        /\ scan[p - 1] = Code /\ p \in p .. L
        /\ \A i \in p .. L : scan[i] = Beyond(scan[i - 1], content[i], After(i))
    BY ClosedPiece
  <2> QED
    BY <2>1 DEF Closed
<1>2. p < L /\ content[p + 1] = "*" /\ p + 1 \in p + 1 .. L
  BY <1>1 DEF After
<1>3. scan[p] = Comment(1) /\ Comment(1) # Code
  BY <1>1, BeyondInComment, 1 \in Int
<1>4. PICK e \in p + 1 .. L : scan[e] = Code /\ \A i \in p .. e - 1 : scan[i] # Code
  BY <1>1, <1>3, LeavesAt
<1>5. PICK rs : /\ ReadsComment(content, p, rs)
                /\ CommentEnds(content, p) = {i \in p .. L : Complete(rs[i])}
  BY <1>1, CommentDef
<1>6. Complete(rs[e]) /\ \A i \in e + 1 .. L : ~Complete(rs[i])
  BY <1>1, <1>2, <1>4, <1>5, ScanEndsLast, e \in p .. L
<1>7. e \in Ends(content, "COMMENT", p)
  BY <1>1, <1>5, <1>6 DEF Ends
<1>8. \E k \in DOMAIN RuleOrder : RuleOrder[k] = "COMMENT"
  BY NamedRules
<1>9. AllEnds(content, p) # {}
  BY <1>7, <1>8 DEF AllEnds
<1>10. /\ t.stop \in p .. L /\ t.stop \in Ends(content, t.type, p)
       /\ \E k \in DOMAIN RuleOrder : RuleOrder[k] = t.type
       /\ e <= t.stop
  BY <1>7, <1>8, <1>9, ClosedPiece
<1>11. t.type = "COMMENT"
  <2>1. t.type \in Quoting
    <3> SUFFICES ASSUME t.type \notin Quoting PROVE FALSE
      OBVIOUS
    <3>1. PICK k \in DOMAIN RuleOrder : RuleOrder[k] = t.type
      BY <1>10
    <3>2. t.type # "DOUBLE_FORWARD_SLASH"
      BY DEF Closed
    <3>3. t.stop > p => content[p + 1] \notin {"-", "*"}
      BY <1>1, <1>10, <3>1, <3>2, PlainEnds
    <3> QED
      BY <1>1, <1>2, <1>4, <1>10, <3>3
  <2>2. content[p] \notin {"'", "N", "-", DoubleQuote, "["}
    BY Delimiters
  <2> QED
    BY <1>1, <1>10, <2>1, <2>2, QuotingBegins DEF Quoting
<1>12. t.stop = e
  <2>1. Complete(rs[t.stop])
    BY <1>5, <1>10, <1>11 DEF Ends
  <2>2. t.stop \notin e + 1 .. L
    BY <1>6, <2>1
  <2> QED
    BY <1>1, <1>4, <1>10, <2>2
<1>13. p \in p .. t.stop /\ t.type \in Quoting
  BY <1>1, <1>10, <1>11 DEF Quoting
<1>14. Len(content) \in Nat /\ ~(t.type = "STRING" /\ content[t.start] = "N")
  BY <1>1, <1>11
<1> QED
  BY <1>1, <1>4, <1>10, <1>12, <1>13, <1>14, QuotingAgrees

\* The comment of a line.
LEMMA LinePiece ==
    ASSUME NEW t, NEW scan, Closed(t, scan), content[t.start] = "-", After(t.start) = "-"
    PROVE  Agrees(t, Outside(scan))
<1> DEFINE p == t.start
           L == Len(content)
           M == Enclosed("line")
<1>1. /\ content \in Seq(Characters) /\ L \in Nat /\ p \in 1 .. L /\ p \in Int
      /\ scan[p - 1] = Code /\ scan[L] = Code /\ p \in p .. L /\ content[L] = "\n"
      /\ \A i \in p .. L : scan[i] = Beyond(scan[i - 1], content[i], After(i))
  <2>1. /\ content \in Seq(Characters) /\ L \in Nat /\ p \in 1 .. L /\ p \in Int
        /\ scan[p - 1] = Code /\ p \in p .. L
        /\ \A i \in p .. L : scan[i] = Beyond(scan[i - 1], content[i], After(i))
    BY ClosedPiece
  <2> QED
    BY <2>1 DEF Closed
<1>2. p < L /\ content[p + 1] = "-"
  BY <1>1 DEF After
<1>3. scan[p] = M /\ M # Code
  BY <1>1, BeyondInCode, Enclosures
<1>4. PICK e \in p + 1 .. L : scan[e] = Code /\ \A i \in p .. e - 1 : scan[i] # Code
  BY <1>1, <1>3, LeavesAt
<1> DEFINE Q == {i \in p .. e - 1 : scan[i] = M}
<1>5. ASSUME NEW i \in p + 1 .. e, scan[i - 1] = M
      PROVE  scan[i] = IF After(i) = "\n" THEN Code ELSE M
  BY <1>1, <1>4, <1>5, BeyondInLine, i \in p .. L
<1>6. \A i \in p .. e - 1 : scan[i] = M
  <2>1. p <= e - 1 => p \in Q
    BY <1>1, <1>3, <1>4
  <2>2. ASSUME NEW i \in p + 1 .. e - 1, i - 1 \in Q PROVE i \in Q
    <3>1. i \in p + 1 .. e /\ i \in p .. e - 1
      BY <1>1, <1>4
    <3> QED
      BY <1>4, <1>5, <2>2, <3>1
  <2> HIDE DEF Q
  <2>3. e - 1 \in Int
    BY <1>4
  <2>4. \A i \in p .. e - 1 : i \in Q
    BY <1>1, <2>1, <2>2, <2>3, IntervalInduction
  <2> QED
    BY <2>4 DEF Q
<1>7. After(e) = "\n" /\ \A i \in p + 1 .. e - 1 : After(i) # "\n"
  <2>1. e \in p + 1 .. e /\ e - 1 \in p .. e - 1
    BY <1>1, <1>4
  <2>2. After(e) = "\n"
    BY <1>3, <1>4, <1>5, <1>6, <2>1
  <2>3. ASSUME NEW i \in p + 1 .. e - 1 PROVE After(i) # "\n"
    <3>1. i \in p + 1 .. e /\ i \in p .. e - 1 /\ i - 1 \in p .. e - 1
      BY <1>1, <1>4
    <3> QED
      BY <1>3, <1>5, <1>6, <3>1
  <2> QED
    BY <2>2, <2>3
<1>8. \A k \in p .. e : content[k] # "\n"
  <2> SUFFICES ASSUME NEW k \in p .. e PROVE content[k] # "\n"
    OBVIOUS
  <2>1. CASE k = p \/ k = p + 1
    BY <1>2, <2>1
  <2>2. CASE k # p /\ k # p + 1
    <3>1. k - 1 \in p + 1 .. e - 1 /\ k - 1 < L /\ k - 1 + 1 = k
      BY <1>1, <1>4, <2>2
    <3>2. After(k - 1) = content[k]
      BY <3>1 DEF After
    <3> QED
      BY <1>7, <3>1, <3>2
  <2> QED
    BY <2>1, <2>2
<1>9. e < L /\ content[e + 1] = "\n"
  <2>1. e # L
    BY <1>1, <1>4, <1>8
  <2> QED
    BY <1>1, <1>4, <1>7, <2>1 DEF After
<1>10. e \in Ends(content, "LINE_COMMENT", p)
  BY <1>1, <1>2, <1>4, <1>8, LineCommentEnds, e \in p .. L, e > p
<1>11. \E k \in DOMAIN RuleOrder : RuleOrder[k] = "LINE_COMMENT"
  BY QuotingRules DEF Quoting
<1>12. AllEnds(content, p) # {}
  BY <1>10, <1>11 DEF AllEnds
<1>13. /\ t.stop \in p .. L /\ t.stop \in Ends(content, t.type, p)
       /\ \E k \in DOMAIN RuleOrder : RuleOrder[k] = t.type
       /\ e <= t.stop
  BY <1>10, <1>11, <1>12, ClosedPiece
<1>14. t.type = "LINE_COMMENT"
  <2>1. t.type \in Quoting
    <3> SUFFICES ASSUME t.type \notin Quoting PROVE FALSE
      OBVIOUS
    <3>1. PICK k \in DOMAIN RuleOrder : RuleOrder[k] = t.type
      BY <1>13
    <3>2. t.type # "DOUBLE_FORWARD_SLASH"
      BY DEF Closed
    <3>3. t.stop > p => content[p + 1] \notin {"-", "*"}
      BY <1>1, <1>13, <3>1, <3>2, PlainEnds
    <3> QED
      BY <1>1, <1>2, <1>4, <1>13, <3>3
  <2>2. content[p] \notin {"'", "N", "/", DoubleQuote, "["}
    BY Delimiters
  <2> QED
    BY <1>1, <1>13, <2>1, <2>2, QuotingBegins DEF Quoting
<1>15. t.stop = e
  <2>1. \A k \in p .. t.stop : content[k] # "\n"
    BY <1>1, <1>13, <1>14, LineCommentEnds
  <2>2. e + 1 \notin p .. t.stop
    BY <1>9, <2>1
  <2> QED
    BY <1>1, <1>4, <1>13, <2>2
<1>16. p \in p .. t.stop /\ t.type \in Quoting
  BY <1>1, <1>13, <1>14 DEF Quoting
<1>17. Len(content) \in Nat /\ ~(t.type = "STRING" /\ content[t.start] = "N")
  BY <1>1, <1>14
<1> QED
  BY <1>1, <1>4, <1>13, <1>15, <1>16, <1>17, QuotingAgrees


\* A string.
LEMMA StringPiece ==
    ASSUME NEW t, NEW scan, Closed(t, scan), NEW o,
           o = QuoteOf(content, t.start), o \in 1 .. Len(content), content[o] = "'"
    PROVE  Agrees(t, Outside(scan))
<1> DEFINE p == t.start
           L == Len(content)
<1>1. /\ content \in Seq(Characters) /\ L \in Nat /\ p \in 1 .. L /\ p \in Int
      /\ scan[p - 1] = Code /\ scan[L] = Code /\ p \in p .. L /\ content[L] = "\n"
      /\ \A i \in p .. L : scan[i] = Beyond(scan[i - 1], content[i], After(i))
  <2>1. /\ content \in Seq(Characters) /\ L \in Nat /\ p \in 1 .. L /\ p \in Int
        /\ scan[p - 1] = Code /\ p \in p .. L
        /\ \A i \in p .. L : scan[i] = Beyond(scan[i - 1], content[i], After(i))
    BY ClosedPiece
  <2> QED
    BY <2>1 DEF Closed
<1>2. \/ o = p /\ content[p] # "N"
      \/ o = p + 1 /\ content[p] = "N" /\ scan[p] = Code
  <2>1. CASE content[p] # "N"
    BY <2>1 DEF QuoteOf
  <2>2. CASE content[p] = "N"
    <3>1. ~Opens(content[p], After(p))
      BY <2>2, Delimiters DEF Opens
    <3>2. scan[p] = Beyond(Code, content[p], After(p))
      BY <1>1
    <3>3. scan[p] = Code
      BY <3>1, <3>2, BeyondInCode
    <3> QED
      BY <2>2, <3>3 DEF QuoteOf
  <2> QED
    BY <2>1, <2>2
<1>3. o \in p .. L /\ o \in 1 .. L /\ scan[o - 1] = Code /\ o + 1 - 1 = o
  BY <1>1, <1>2
<1>4. scan[o] = Enclosed("string") /\ Enclosed("string") # Code
  BY <1>1, <1>3, BeyondInCode, Enclosures
<1>5. PICK e \in o + 1 .. L : scan[e] = Code /\ \A i \in o .. e - 1 : scan[i] # Code
  BY <1>1, <1>3, <1>4, LeavesAt
<1>6. Encloses("string", o, e, scan)
  <2>1. \A i \in o + 1 .. e : i \in p .. L
    BY <1>1, <1>3, <1>5
  <2> QED
    BY <1>1, <1>3, <1>4, <1>5, <2>1 DEF Encloses
<1>7. Closing("string") = "'" /\ "string" \in {"string", "brackets"}
      /\ "string" \in {"string", "quotes", "brackets"}
  BY DEF Closing
<1>8. e \in p .. L /\ e > o
  BY <1>1, <1>3, <1>5
<1>9. e \in Ends(content, "STRING", p)
  <2>1. content[e] = "'"
    BY <1>1, <1>6, <1>7, InQuotes
  <2>2. Doubled(Inner(SubSeq(content, o, e)), "'")
    BY <1>1, <1>6, <1>7, EnclosedIsDoubled
  <2> QED
    BY <1>1, <1>8, <2>1, <2>2, StringEnds
<1>10. \E k \in DOMAIN RuleOrder : RuleOrder[k] = "STRING"
  BY QuotingRules DEF Quoting
<1>11. AllEnds(content, p) # {}
  BY <1>9, <1>10 DEF AllEnds
<1>12. /\ t.stop \in p .. L /\ t.stop \in Ends(content, t.type, p)
       /\ \E k \in DOMAIN RuleOrder : RuleOrder[k] = t.type
       /\ e <= t.stop
  BY <1>9, <1>10, <1>11, ClosedPiece
<1>13. t.type = "STRING"
  <2>1. t.type \in Quoting
    <3> SUFFICES ASSUME t.type \notin Quoting PROVE FALSE
      OBVIOUS
    <3>1. PICK k \in DOMAIN RuleOrder : RuleOrder[k] = t.type
      BY <1>12
    <3>2. t.type # "DOUBLE_FORWARD_SLASH"
      BY DEF Closed
    <3>3. /\ t.stop > p => content[p] # "'"
          /\ \A i \in p + 1 .. t.stop : content[i] # "'"
      BY SMTT(60), <1>1, <1>12, <3>1, <3>2, PlainEnds
    <3>4. t.stop > p /\ (o = p + 1 => o \in p + 1 .. t.stop)
      BY SMTT(60), <1>1, <1>2, <1>8, <1>12
    <3> QED
      BY <1>2, <3>3, <3>4
  <2>2. content[p] \notin {"/", "-", DoubleQuote, "["}
    BY <1>2, Delimiters
  <2> QED
    BY <1>1, <1>12, <2>1, <2>2, QuotingBegins DEF Quoting
<1>14. t.stop = e
  <2>1. Doubled(Inner(SubSeq(content, o, t.stop)), "'")
    BY <1>1, <1>12, <1>13, StringEnds
  <2>2. t.stop \notin e + 1 .. L
    BY <1>1, <1>6, <1>7, <2>1, LongerIsNotDoubled
  <2> QED
    BY <1>1, <1>8, <1>12, <2>2
<1>15. o \in p .. t.stop /\ t.type \in Quoting
  BY <1>1, <1>3, <1>8, <1>13, <1>14 DEF Quoting
<1> QED
  BY <1>1, <1>2, <1>5, <1>12, <1>13, <1>14, <1>15, QuotingAgrees

\* A name in brackets.
LEMMA BracketPiece ==
    ASSUME NEW t, NEW scan, Closed(t, scan), content[t.start] = "["
    PROVE  Agrees(t, Outside(scan))
<1> DEFINE p == t.start
           L == Len(content)
<1>1. /\ content \in Seq(Characters) /\ L \in Nat /\ p \in 1 .. L /\ p \in Int
      /\ scan[p - 1] = Code /\ scan[L] = Code /\ p \in p .. L
      /\ \A i \in p .. L : scan[i] = Beyond(scan[i - 1], content[i], After(i))
  <2>1. /\ content \in Seq(Characters) /\ L \in Nat /\ p \in 1 .. L /\ p \in Int
        /\ scan[p - 1] = Code /\ p \in p .. L
        /\ \A i \in p .. L : scan[i] = Beyond(scan[i - 1], content[i], After(i))
    BY ClosedPiece
  <2> QED
    BY <2>1 DEF Closed
<1>2. scan[p] = Enclosed("brackets") /\ Enclosed("brackets") # Code
  BY <1>1, BeyondInCode, Enclosures
<1>3. PICK e \in p + 1 .. L : scan[e] = Code /\ \A i \in p .. e - 1 : scan[i] # Code
  BY <1>1, <1>2, LeavesAt
<1>4. Encloses("brackets", p, e, scan)
  <2>1. \A i \in p + 1 .. e : i \in p .. L
    BY <1>1, <1>3
  <2> QED
    BY <1>1, <1>2, <1>3, <2>1 DEF Encloses
<1>5. Closing("brackets") = "]" /\ "brackets" \in {"string", "brackets"}
      /\ "brackets" \in {"string", "quotes", "brackets"}
  BY DEF Closing
<1>6. e \in p .. L /\ e > p
  BY <1>1, <1>3
<1>7. e \in Ends(content, "SQUARE_BRACKET_ID", p)
  <2>1. content[e] = "]"
    BY <1>1, <1>4, <1>5, InQuotes
  <2>2. Doubled(Inner(SubSeq(content, p, e)), "]")
    BY <1>1, <1>4, <1>5, EnclosedIsDoubled
  <2> QED
    BY <1>1, <1>6, <2>1, <2>2, BracketEnds
<1>8. \E k \in DOMAIN RuleOrder : RuleOrder[k] = "SQUARE_BRACKET_ID"
  BY QuotingRules DEF Quoting
<1>9. AllEnds(content, p) # {}
  BY <1>7, <1>8 DEF AllEnds
<1>10. /\ t.stop \in p .. L /\ t.stop \in Ends(content, t.type, p)
       /\ \E k \in DOMAIN RuleOrder : RuleOrder[k] = t.type
       /\ e <= t.stop
  BY <1>7, <1>8, <1>9, ClosedPiece
<1>11. t.type = "SQUARE_BRACKET_ID"
  <2>1. t.type \in Quoting
    <3> SUFFICES ASSUME t.type \notin Quoting PROVE FALSE
      OBVIOUS
    <3>1. PICK k \in DOMAIN RuleOrder : RuleOrder[k] = t.type
      BY <1>10
    <3>2. t.type # "DOUBLE_FORWARD_SLASH"
      BY DEF Closed
    <3> QED
      BY <1>1, <1>10, <3>1, <3>2, PlainEnds
  <2>2. content[p] \notin {"/", "-", DoubleQuote, "'", "N"}
    BY Delimiters
  <2> QED
    BY <1>1, <1>10, <2>1, <2>2, QuotingBegins DEF Quoting
<1>12. t.stop = e
  <2>1. Doubled(Inner(SubSeq(content, p, t.stop)), "]")
    BY <1>1, <1>10, <1>11, BracketEnds
  <2>2. t.stop \notin e + 1 .. L
    BY <1>1, <1>4, <1>5, <2>1, LongerIsNotDoubled
  <2> QED
    BY <1>1, <1>6, <1>10, <2>2
<1>13. p \in p .. t.stop /\ t.type \in Quoting
  BY <1>1, <1>6, <1>11, <1>12 DEF Quoting
<1>14. ~(t.type = "STRING" /\ content[t.start] = "N")
  BY <1>11
<1> QED
  BY <1>1, <1>3, <1>10, <1>12, <1>13, <1>14, QuotingAgrees

\* A name in double quotes, or two double quotes.
LEMMA DoubleQuotePiece ==
    ASSUME NEW t, NEW scan, Closed(t, scan), content[t.start] = DoubleQuote
    PROVE  Agrees(t, Outside(scan))
<1> DEFINE p == t.start
           L == Len(content)
<1>1. /\ content \in Seq(Characters) /\ L \in Nat /\ p \in 1 .. L /\ p \in Int
      /\ scan[p - 1] = Code /\ scan[L] = Code /\ p \in p .. L
      /\ \A i \in p .. L : scan[i] = Beyond(scan[i - 1], content[i], After(i))
  <2>1. /\ content \in Seq(Characters) /\ L \in Nat /\ p \in 1 .. L /\ p \in Int
        /\ scan[p - 1] = Code /\ p \in p .. L
        /\ \A i \in p .. L : scan[i] = Beyond(scan[i - 1], content[i], After(i))
    BY ClosedPiece
  <2> QED
    BY <2>1 DEF Closed
<1>2. scan[p] = Enclosed("quotes") /\ Enclosed("quotes") # Code
  BY <1>1, BeyondInCode, Enclosures
<1>3. PICK e \in p + 1 .. L : scan[e] = Code /\ \A i \in p .. e - 1 : scan[i] # Code
  BY <1>1, <1>2, LeavesAt
<1>4. Encloses("quotes", p, e, scan)
  <2>1. \A i \in p + 1 .. e : i \in p .. L
    BY <1>1, <1>3
  <2> QED
    BY <1>1, <1>2, <1>3, <2>1 DEF Encloses
<1>5. Closing("quotes") = DoubleQuote /\ "quotes" \in {"string", "quotes", "brackets"}
  BY DEF Closing
<1>6. content[e] = DoubleQuote /\ \A i \in p + 1 .. e - 1 : content[i] # DoubleQuote
  BY <1>1, <1>4, <1>5, InQuotes
<1>7. AllEnds(content, p) # {}
  BY <1>1, <1>3, <1>6, ClosedIsMatched
<1>8. /\ t.stop \in p .. L /\ t.stop \in Ends(content, t.type, p)
      /\ \E k \in DOMAIN RuleOrder : RuleOrder[k] = t.type
  BY <1>7, ClosedPiece
<1>9. t.type \in {"DOUBLE_QUOTE_ID", "DOUBLE_QUOTE_BLANK"}
  <2>1. t.type \in Quoting
    <3> SUFFICES ASSUME t.type \notin Quoting PROVE FALSE
      OBVIOUS
    <3>1. PICK k \in DOMAIN RuleOrder : RuleOrder[k] = t.type
      BY <1>8
    <3>2. t.type # "DOUBLE_FORWARD_SLASH"
      BY DEF Closed
    <3> QED
      BY <1>1, <1>8, <3>1, <3>2, PlainEnds
  <2>2. content[p] \notin {"/", "-", "'", "N", "["}
    BY Delimiters
  <2> QED
    BY <1>1, <1>8, <2>1, <2>2, QuotingBegins DEF Quoting
<1>10. t.stop = e
  <2>1. /\ t.stop \in p + 1 .. L /\ content[t.stop] = DoubleQuote
        /\ \A k \in p + 1 .. t.stop - 1 : content[k] # DoubleQuote
    BY <1>1, <1>8, <1>9, DoubleQuoteEnds
  <2>2. e \notin p + 1 .. t.stop - 1 /\ t.stop \notin p + 1 .. e - 1
    BY <1>6, <2>1
  <2> QED
    BY <1>1, <1>3, <2>1, <2>2
<1>11. p \in p .. t.stop /\ t.type \in Quoting
  BY <1>1, <1>3, <1>9, <1>10 DEF Quoting
<1>12. ~(t.type = "STRING" /\ content[t.start] = "N")
  BY <1>9
<1> QED
  BY <1>1, <1>3, <1>8, <1>10, <1>11, <1>12, QuotingAgrees

\* Every piece.
LEMMA PieceAgrees ==
    ASSUME NEW t, NEW scan, Closed(t, scan)
    PROVE  Agrees(t, Outside(scan))
<1> DEFINE p == t.start
<1>1. p \in 1 .. Len(content) /\ Len(content) \in Nat
  BY ClosedPiece
<1>2. CASE content[p] = "'"
  BY <1>1, <1>2, StringPiece DEF QuoteOf
<1>3. CASE content[p] = "N" /\ After(p) = "'"
  <2>1. p < Len(content) /\ content[p + 1] = "'"
    BY <1>1, <1>3 DEF After
  <2> QED
    BY <1>1, <1>3, <2>1, StringPiece DEF QuoteOf
<1>4. CASE content[p] = DoubleQuote
  BY <1>4, DoubleQuotePiece
<1>5. CASE content[p] = "["
  BY <1>5, BracketPiece
<1>6. CASE content[p] = "-" /\ After(p) = "-"
  BY <1>6, LinePiece
<1>7. CASE content[p] = "/" /\ After(p) = "*"
  BY <1>7, CommentPiece
<1>8. CASE ~Opens(content[p], After(p)) /\ ~(content[p] = "N" /\ After(p) = "'")
  BY <1>8, PlainPiece
<1> QED
  BY <1>2, <1>3, <1>4, <1>5, <1>6, <1>7, <1>8 DEF Opens

\* Up to the first DOUBLE_FORWARD_SLASH every piece is what the scanner finds.
LEMMA PiecesAgree ==
    ASSUME IInv, PiecesFollowRules, phase = "done", NEW scan, Scans(1, scan),
           scan[Len(content)] = Code,
           NEW n \in DOMAIN pieces
    PROVE  \/ Agrees(pieces[n], Outside(scan))
           \/ \E m \in 1 .. n : pieces[m].type = "DOUBLE_FORWARD_SLASH"
<1> DEFINE Good(i) == \/ Agrees(pieces[i], Outside(scan))
                      \/ \E m \in 1 .. i : pieces[m].type = "DOUBLE_FORWARD_SLASH"
           Q == {i \in 1 .. Len(pieces) : Good(i)}
<1>1. /\ content \in Seq(Characters) /\ Len(content) \in Nat /\ content[Len(content)] = "\n"
      /\ Len(pieces) \in Nat /\ DOMAIN pieces = 1 .. Len(pieces)
      /\ \A i \in DOMAIN pieces :
            pieces[i].start = IF i = 1 THEN 1 ELSE pieces[i - 1].stop + 1
      /\ \A i \in 1 .. Len(pieces) : pieces[i].stop \in Int
  <2>1. pieces \in Seq([type : Types, start : Nat, stop : Nat]) /\ EveryCharacterOnce
        /\ content \in Seq(Characters)
    BY DEF IInv, TypeOK
  <2>2. \A i \in 1 .. Len(pieces) : pieces[i].stop \in Int
    <3> DEFINE R == [type : Types, start : Nat, stop : Nat]
    <3>1. \A r \in R : r.stop \in Int
      OBVIOUS
    <3> HIDE DEF R
    <3>2. pieces \in Seq(R)
      BY <2>1 DEF R
    <3> QED
      BY <3>1, <3>2, ElementOfSeq
  <2> QED
    BY <2>1, <2>2, LastIsNewline, LenProperties DEF EveryCharacterOnce
<1>2. ASSUME NEW i \in 1 .. Len(pieces), pieces[i].type # "DOUBLE_FORWARD_SLASH",
             scan[pieces[i].start - 1] = Code
      PROVE  Good(i)
  <2> DEFINE t == pieces[i]
  <2>1. FollowsRules(t) /\ t.start \in 1 .. Len(content)
    BY <1>1 DEF PiecesFollowRules, FollowsRules
  <2>2. \A j \in t.start .. Len(content) : j \in 1 .. Len(content)
    BY <2>1
  <2>3. Scans(t.start, scan)
    BY <1>2, <2>2 DEF Scans
  <2>4. Closed(t, scan)
    BY <1>1, <1>2, <2>1, <2>3 DEF Closed
  <2> HIDE DEF t
  <2>5. Agrees(t, Outside(scan))
    BY <2>4, PieceAgrees
  <2> QED
    BY <2>5 DEF t
<1>3. ASSUME NEW i \in 1 .. Len(pieces), pieces[i].type = "DOUBLE_FORWARD_SLASH" PROVE Good(i)
  BY <1>3, i \in 1 .. i
<1>4. 1 <= Len(pieces) => 1 \in Q
  <2> SUFFICES ASSUME 1 <= Len(pieces) PROVE Good(1)
    BY <1>1
  <2>1. 1 \in 1 .. Len(pieces) /\ pieces[1].start - 1 = 0 /\ scan[0] = Code
    <3>1. 1 \in 1 .. Len(pieces) /\ 1 - 1 = 0
      BY <1>1
    <3>2. pieces[1].start = 1
      BY <1>1, <3>1
    <3> QED
      BY <3>1, <3>2 DEF Scans
  <2> HIDE DEF Good
  <2> QED
    BY <1>2, <1>3, <2>1
<1>5. ASSUME NEW i \in 1 + 1 .. Len(pieces), i - 1 \in Q PROVE i \in Q
  <2>1. i \in 1 .. Len(pieces) /\ i - 1 \in 1 .. Len(pieces) /\ i # 1 /\ \A m \in 1 .. i - 1 : m \in 1 .. i
    BY <1>1
  <2>2. CASE \E m \in 1 .. i - 1 : pieces[m].type = "DOUBLE_FORWARD_SLASH"
    BY <2>1, <2>2
  <2>3. CASE Agrees(pieces[i - 1], Outside(scan))
    <3>1. scan[pieces[i - 1].stop] = Code
      BY <2>3 DEF Agrees, Outside
    <3>2. pieces[i - 1].stop \in Int
      BY <1>1, <2>1
    <3>3. pieces[i].start - 1 = pieces[i - 1].stop
      BY SMTT(60), <1>1, <2>1, <3>2
    <3>4. scan[pieces[i].start - 1] = Code
      BY <3>1, <3>3
    <3> HIDE DEF Good
    <3>5. Good(i)
      BY <1>2, <1>3, <2>1, <3>4
    <3> QED
      BY <2>1, <3>5
  <2> QED
    BY <1>5, <2>2, <2>3
<1> HIDE DEF Good, Q
<1>6. PICK one \in Int : one = 1
  OBVIOUS
<1>7. \A i \in one .. Len(pieces) : i \in Q
  <2>1. one <= Len(pieces) => one \in Q
    BY <1>4, <1>6
  <2>2. \A i \in one + 1 .. Len(pieces) : i - 1 \in Q => i \in Q
    BY <1>5, <1>6
  <2>3. one \in Int /\ Len(pieces) \in Int
    BY <1>1, <1>6
  <2> HIDE DEF Q
  <2> QED
    BY <2>1, <2>2, <2>3, IntervalInduction
<1> QED
  BY <1>1, <1>6, <1>7 DEF Good, Q

\* In a text in which all that is opened is closed, the tokens are strings,
\* comments and quoted names exactly where the scanner finds them, up to the
\* first DOUBLE_FORWARD_SLASH.
THEOREM ClosedTextCorrect == Spec => []ClosedTextIsReadAsEnclosed
<1>1. ASSUME IInv, PiecesFollowRules PROVE ClosedTextIsReadAsEnclosed
  <2> DEFINE scan == Scan(1)
  <2> SUFFICES ASSUME phase = "done", Len(content) \in Outside(scan), NEW n \in DOMAIN pieces
               PROVE  \/ Agrees(pieces[n], Outside(scan))
                      \/ \E m \in 1 .. n : pieces[m].type = "DOUBLE_FORWARD_SLASH"
    BY DEF ClosedTextIsReadAsEnclosed, Outside
  <2>1. content \in Seq(Characters) /\ 1 \in 1 .. Len(content)
    <3>1. content \in Seq(Characters)
      BY <1>1 DEF IInv, TypeOK
    <3>2. Len(content) \in Nat /\ Len(content) >= 1
      BY <1>1, LastIsNewline
    <3> QED
      BY <3>1, <3>2
  <2>2. Scans(1, scan)
    BY <2>1, ScanDef
  <2>3. scan[Len(content)] = Code
    BY DEF Outside
  <2> HIDE DEF scan
  <2> QED
    BY <1>1, <2>2, <2>3, PiecesAgree
<1> QED
  BY <1>1, Invariant, LongestMatchCorrect, PTL

=============================================================================
