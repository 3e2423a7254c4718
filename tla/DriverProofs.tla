---------------------------- MODULE DriverProofs ----------------------------
(***************************************************************************)
(* Proofs about Driver, for any set of files and any faults.               *)
(***************************************************************************)
EXTENDS Driver, WellFoundedInduction, SequenceTheorems, TLAPS

\* A set of natural numbers that is not empty has a least element.
LEMMA LeastNumber ==
    ASSUME NEW T \in SUBSET Nat, T # {}
    PROVE  \E i \in T : \A j \in T : i <= j
<1>1. PICK i \in T : \A j \in T : ~(<<j, i>> \in OpToRel(<, Nat))
  BY NatLessThanWellFounded, WFMin
<1>2. \A j \in T : ~(j < i)
  BY <1>1 DEF OpToRel
<1> QED
  BY <1>2

\* The rules are numbered.
LEMMA RuleNumbers == DOMAIN RuleOrder \subseteq Nat
  BY SMTT(60) DEF RuleOrder

\* A match lies within the text.
LEMMA EndsWithin ==
    ASSUME NEW text \in Seq(Characters), NEW rule, NEW p \in Nat
    PROVE  Ends(text, rule, p) \subseteq p .. Len(text)
<1>1. CASE rule = "COMMENT"
  BY <1>1, Zenon DEF Ends, CommentEnds
<1>2. CASE rule # "COMMENT"
  BY <1>2, Zenon DEF Ends
<1> QED
  BY <1>1, <1>2

\* The longest match, too.
LEMMA LongestWithin ==
    ASSUME NEW text \in Seq(Characters), NEW p \in 1 .. Len(text)
    PROVE  LongestEnd(text, p) \in p - 1 .. Len(text)
<1> DEFINE ends == UNION {Ends(text, RuleOrder[i], p) : i \in DOMAIN RuleOrder}
<1>1. ends \subseteq p .. Len(text)
  BY EndsWithin, p \in Nat
<1>2. Len(text) \in Nat
  OBVIOUS
<1>3. CASE \E e \in ends : \A f \in ends : f <= e
  <2>1. LongestEnd(text, p) = CHOOSE e \in ends : \A f \in ends : f <= e
    BY <1>3 DEF LongestEnd
  <2>2. LongestEnd(text, p) \in ends
    <3> HIDE DEF ends
    <3> QED
      BY <1>3, <2>1
  <2>3. LongestEnd(text, p) \in p .. Len(text)
    BY <2>2, <1>1, Zenon
  <2> QED
    BY <2>3, <1>2
<1>4. CASE ~(\E e \in ends : \A f \in ends : f <= e)
  <2>1. LongestEnd(text, p) = p - 1
    BY <1>4 DEF LongestEnd
  <2> QED
    BY <2>1, <1>2
<1> QED
  BY <1>3, <1>4

\* If there is a match, its type is a rule.
LEMMA TypeOfMatch ==
    ASSUME NEW text \in Seq(Characters), NEW p \in 1 .. Len(text), LongestEnd(text, p) >= p
    PROVE  TokenType(text, p, LongestEnd(text, p)) \in Types
<1> DEFINE ends == UNION {Ends(text, RuleOrder[i], p) : i \in DOMAIN RuleOrder}
           e == LongestEnd(text, p)
           found == {i \in DOMAIN RuleOrder : e \in Ends(text, RuleOrder[i], p)}
<1>1. \E d \in ends : \A f \in ends : f <= d
  <2>1. SUFFICES ASSUME ~(\E d \in ends : \A f \in ends : f <= d) PROVE FALSE
    OBVIOUS
  <2>2. e = p - 1
    BY <2>1 DEF LongestEnd
  <2> QED
    BY <2>2
<1>2. e = CHOOSE d \in ends : \A f \in ends : f <= d
  BY <1>1 DEF LongestEnd
<1>3. e \in ends
  BY <1>1, <1>2, Zenon
<1>4. found # {}
  BY <1>3
<1>5. \E i \in found : \A j \in found : i <= j
  BY <1>4, RuleNumbers, LeastNumber
<1>6. TokenType(text, p, e) = RuleOrder[CHOOSE i \in found : \A j \in found : i <= j]
  BY DEF TokenType
<1>7. (CHOOSE i \in found : \A j \in found : i <= j) \in found
  BY <1>5, Zenon
<1> QED
  BY <1>6, <1>7 DEF Types

-----------------------------------------------------------------------------
(***************************************************************************)
(* What the reading loop has done so far: the text is the part of the file *)
(* that has been read, and a newline once the end has been seen.  The      *)
(* lexer starts when the end has been seen, and not before.                *)
(***************************************************************************)
ReadSoFar ==
    /\ fault = "none" /\ ~eof => content = SubSeq(file, 1, at)
    /\ eof => /\ content = Append(SubSeq(file, 1, at), "\n")
              /\ fault = "none" => at = Len(file)
    /\ eof => fault # "stuck"
    /\ phase # "reading" => eof
    /\ phase = "reading" => index = 1 /\ pieces = <<>>

IInv == TypeOK /\ ReadSoFar /\ EveryCharacterOnce

\* Reading on in a sequence.
LEMMA ReadOn ==
    ASSUME NEW f \in Seq(Characters), NEW m \in 0 .. Len(f), NEW n \in m .. Len(f)
    PROVE  SubSeq(f, 1, m) \o SubSeq(f, m + 1, n) = SubSeq(f, 1, n)
<1>1. /\ SubSeq(f, 1, m) \in Seq(Characters) /\ Len(SubSeq(f, 1, m)) = m
      /\ SubSeq(f, m + 1, n) \in Seq(Characters) /\ Len(SubSeq(f, m + 1, n)) = n - m
      /\ SubSeq(f, 1, n) \in Seq(Characters) /\ Len(SubSeq(f, 1, n)) = n
  OBVIOUS
<1>2. /\ SubSeq(f, 1, m) \o SubSeq(f, m + 1, n) \in Seq(Characters)
      /\ Len(SubSeq(f, 1, m) \o SubSeq(f, m + 1, n)) = n
  BY <1>1
<1>3. ASSUME NEW i \in 1 .. n
      PROVE  (SubSeq(f, 1, m) \o SubSeq(f, m + 1, n))[i] = SubSeq(f, 1, n)[i]
  <2>0. SubSeq(f, 1, n)[i] = f[i]
    OBVIOUS
  <2>1. CASE i <= m
    BY <2>1, <1>1
  <2>2. CASE i > m
    <3>1. i - m \in 1 .. n - m
      BY <2>2
    <3>2. SubSeq(f, m + 1, n)[i - m] = f[i]
      BY <3>1
    <3>3. (SubSeq(f, 1, m) \o SubSeq(f, m + 1, n))[i] = SubSeq(f, m + 1, n)[i - m]
      <4> DEFINE front == SubSeq(f, 1, m)
                 back == SubSeq(f, m + 1, n)
      <4>1. /\ front \in Seq(Characters) /\ Len(front) = m
            /\ back \in Seq(Characters) /\ Len(back) = n - m
        BY <1>1
      <4> HIDE DEF front, back
      <4>2. (front \o back)[i] = back[i - m]
        BY <2>2, <4>1, ConcatProperties
      <4> QED
        BY <4>2 DEF front, back
    <3> QED
      BY <2>0, <3>2, <3>3
  <2> QED
    BY <2>1, <2>2
<1> QED
  BY <1>1, <1>2, <1>3, SeqEqual

\* Reading on up to a newline.
LEMMA ReadLine ==
    ASSUME NEW f \in Seq(Characters), NEW m \in 0 .. Len(f), NEW q \in m + 1 .. Len(f), f[q] = "\n"
    PROVE  SubSeq(f, 1, m) \o SubSeq(f, m + 1, q - 1) \o <<"\n">> = SubSeq(f, 1, q)
<1>1. SubSeq(f, 1, m) \o SubSeq(f, m + 1, q - 1) = SubSeq(f, 1, q - 1)
  BY ReadOn, q - 1 \in m .. Len(f)
<1>2. SubSeq(f, 1, q - 1) \o SubSeq(f, q - 1 + 1, q) = SubSeq(f, 1, q)
  BY ReadOn, q - 1 \in 0 .. Len(f), q \in q - 1 .. Len(f)
<1>3. SubSeq(f, q - 1 + 1, q) = <<"\n">>
  <2>1. SubSeq(f, q, q) \in Seq(Characters) /\ Len(SubSeq(f, q, q)) = 1 /\ SubSeq(f, q, q)[1] = f[q]
    OBVIOUS
  <2>2. <<"\n">> \in Seq(Characters) /\ Len(<<"\n">>) = 1 /\ <<"\n">>[1] = "\n"
    OBVIOUS
  <2>3. SubSeq(f, q, q) = <<"\n">>
    <3> DEFINE s == SubSeq(f, q, q)
               t == <<"\n">>
    <3>1. s \in Seq(Characters) /\ t \in Seq(Characters) /\ Len(s) = Len(t)
      BY <2>1, <2>2
    <3>2. \A i \in 1 .. Len(s) : s[i] = t[i]
      BY <2>1, <2>2
    <3> HIDE DEF s, t
    <3>3. s = t
      BY <3>1, <3>2, SeqEqual
    <3> QED
      BY <3>3 DEF s, t
  <2> QED
    BY <2>3
<1> QED
  BY <1>1, <1>2, <1>3

\* Reading on and adding a newline of one's own.
LEMMA ReadPart ==
    ASSUME NEW f \in Seq(Characters), NEW m \in 0 .. Len(f), NEW n \in m .. Len(f)
    PROVE  /\ SubSeq(f, 1, m) \o SubSeq(f, m + 1, n) \o <<"\n">> = Append(SubSeq(f, 1, n), "\n")
           /\ SubSeq(f, 1, n) \in Seq(Characters)
<1>1. SubSeq(f, 1, m) \o SubSeq(f, m + 1, n) = SubSeq(f, 1, n)
  BY ReadOn
<1>2. SubSeq(f, 1, n) \in Seq(Characters)
  OBVIOUS
<1>3. SubSeq(f, 1, n) \o <<"\n">> = Append(SubSeq(f, 1, n), "\n")
  BY <1>2, AppendIsConcat
<1> QED
  BY <1>1, <1>2, <1>3

\* A newline at the end.
LEMMA AddNewline ==
    ASSUME NEW s \in Seq(Characters)
    PROVE  Append(s, "\n") \in Seq(Characters)
<1>1. "\n" \in Characters
  BY DEF Characters, Blanks
<1> QED
  BY <1>1, AppendProperties

\* A piece that begins where the last one ended keeps the pieces together.
LEMMA NextPiece ==
    ASSUME TypeOK, EveryCharacterOnce,
           NEW STATE type, type \in Types, NEW STATE last, last \in index .. Len(content),
           pieces' = Append(pieces, Piece(type, index, last)),
           index' = last + 1, UNCHANGED <<content, phase>>, phase = "lexing"
    PROVE  /\ index' \in 1 .. Len(content') + 1
           /\ pieces' \in Seq([type : Types, start : Nat, stop : Nat])
           /\ EveryCharacterOnce'
<1>1. index \in Nat /\ index >= 1 /\ last \in Nat /\ Len(content) \in Nat
  BY DEF TypeOK
<1>2. Piece(type, index, last) \in [type : Types, start : Nat, stop : Nat]
  BY <1>1 DEF Piece
<1>3. /\ pieces' \in Seq([type : Types, start : Nat, stop : Nat])
      /\ pieces' # <<>>
      /\ Len(pieces') = Len(pieces) + 1
      /\ pieces'[Len(pieces) + 1] = Piece(type, index, last)
      /\ \A i \in 1 .. Len(pieces) : pieces'[i] = pieces[i]
  <2> DEFINE R == [type : Types, start : Nat, stop : Nat]
             x == Piece(type, index, last)
  <2>1. pieces \in Seq(R) /\ x \in R /\ pieces' = Append(pieces, x)
    BY <1>2 DEF TypeOK
  <2> HIDE DEF R, x
  <2>2. /\ pieces' \in Seq(R) /\ pieces' # <<>> /\ Len(pieces') = Len(pieces) + 1
        /\ pieces'[Len(pieces) + 1] = x
        /\ \A i \in 1 .. Len(pieces) : pieces'[i] = pieces[i]
    BY <2>1, AppendProperties
  <2> QED
    BY <2>2 DEF R, x
<1>4. index' \in 1 .. Len(content') + 1
  BY <1>1
<1>5. Len(pieces) \in Nat
  BY DEF TypeOK
<1>6. index' = pieces'[Len(pieces')].stop + 1
  BY <1>3 DEF Piece
<1>7. ASSUME NEW i \in DOMAIN pieces'
      PROVE  /\ pieces'[i].start <= pieces'[i].stop
             /\ pieces'[i].start = IF i = 1 THEN 1 ELSE pieces'[i - 1].stop + 1
  <2>1. CASE i \in 1 .. Len(pieces)
    <3>1. i \in DOMAIN pieces /\ pieces'[i] = pieces[i]
      BY <2>1, <1>3 DEF TypeOK
    <3>2. ASSUME i # 1 PROVE pieces'[i - 1] = pieces[i - 1]
      <4>1. i - 1 \in 1 .. Len(pieces)
        BY <3>2, <2>1, <1>5
      <4> QED
        BY <4>1, <1>3
    <3> QED
      BY <3>1, <3>2 DEF EveryCharacterOnce
  <2>2. CASE i = Len(pieces) + 1
    <3>1. pieces'[i].start = index /\ pieces'[i].stop = last
      BY <2>2, <1>3 DEF Piece
    <3>2. CASE pieces = <<>>
      <4>1. index = 1 /\ i = 1
        BY <3>2, <2>2 DEF EveryCharacterOnce
      <4> QED
        BY <4>1, <3>1, <1>1
    <3>3. CASE pieces # <<>>
      <4>1. index = pieces[Len(pieces)].stop + 1
        BY <3>3 DEF EveryCharacterOnce
      <4>2. i # 1 /\ i - 1 = Len(pieces) /\ Len(pieces) \in 1 .. Len(pieces)
        BY <3>3, <2>2, <1>5 DEF TypeOK
      <4>3. pieces'[i - 1] = pieces[Len(pieces)]
        BY <4>2, <1>3
      <4> QED
        BY <4>1, <4>2, <4>3, <3>1, <1>1
    <3> QED
      BY <3>2, <3>3
  <2>3. i \in 1 .. Len(pieces) \/ i = Len(pieces) + 1
    <3>1. DOMAIN pieces' = 1 .. Len(pieces')
      BY <1>3
    <3> QED
      BY <3>1, <1>3, <1>5
  <2> QED
    BY <2>1, <2>2, <2>3
<1>8. phase' # "done"
  OBVIOUS
<1>9. EveryCharacterOnce'
  BY <1>3, <1>6, <1>7, <1>8 DEF EveryCharacterOnce
<1> QED
  BY <1>3, <1>4, <1>9

-----------------------------------------------------------------------------
\* The driver starts with an empty text and no tokens.
LEMMA InitInv == Init => IInv
<1> SUFFICES ASSUME Init PROVE IInv
  OBVIOUS
<1>1. file \in Seq(Characters)
  BY FilesAssumption DEF Init
<1>2. TypeOK
  <2>1. at \in 0 .. Len(file) /\ content \in Seq(Characters) /\ index \in 1 .. Len(content) + 1
    BY <1>1 DEF Init
  <2>2. pieces \in Seq([type : Types, start : Nat, stop : Nat])
    BY DEF Init
  <2>3. eof \in BOOLEAN /\ fault \in {"none", "ended", "stuck"}
        /\ phase \in {"reading", "lexing", "done"}
    BY DEF Init
  <2> QED
    BY <1>1, <2>1, <2>2, <2>3 DEF TypeOK
<1>3. SubSeq(file, 1, 0) = <<>>
  BY <1>1
<1>4. ReadSoFar
  BY <1>3 DEF Init, ReadSoFar
<1>5. EveryCharacterOnce
  BY DEF Init, EveryCharacterOnce
<1> QED
  BY <1>2, <1>4, <1>5 DEF IInv

\* While the file is read there are no pieces, and none are added.
LEMMA NoPieces ==
    ASSUME IInv, phase = "reading", content' \in Seq(Characters), UNCHANGED <<index, pieces>>,
           phase' # "done"
    PROVE  /\ index' \in 1 .. Len(content') + 1
           /\ pieces' \in Seq([type : Types, start : Nat, stop : Nat])
           /\ EveryCharacterOnce'
<1>1. index' = 1 /\ pieces' = <<>>
  BY DEF IInv, ReadSoFar
<1>2. Len(content') \in Nat
  OBVIOUS
<1>3. EveryCharacterOnce'
  BY <1>1 DEF EveryCharacterOnce
<1> QED
  BY <1>1, <1>2, <1>3

\* Every step keeps the invariant.
LEMMA StepInv == IInv /\ [Next]_vars => IInv'
<1> SUFFICES ASSUME IInv, [Next]_vars PROVE IInv'
  OBVIOUS
<1>0. /\ TypeOK /\ ReadSoFar /\ EveryCharacterOnce
      /\ file \in Seq(Characters) /\ at \in 0 .. Len(file) /\ Len(file) \in Nat
      /\ content \in Seq(Characters)
  BY DEF IInv, TypeOK
<1>1. CASE GetLine
  <2>1. PICK q \in at + 1 .. Len(file) :
            /\ LineEnd(q) /\ at' = q
            /\ content' = content \o SubSeq(file, at + 1, q - 1) \o <<"\n">>
    BY <1>1 DEF GetLine
  <2>2. /\ phase = "reading" /\ ~eof /\ fault = "none"
        /\ UNCHANGED <<file, eof, fault, phase, index, pieces>>
    BY <1>1 DEF GetLine, Looping
  <2>3. file[q] = "\n"
    BY <2>1 DEF LineEnd, NewlineAt
  <2>4. content' = SubSeq(file, 1, q)
    BY <2>1, <2>2, <2>3, <1>0, ReadLine DEF ReadSoFar
  <2>5. content' \in Seq(Characters)
    BY <2>4, <1>0
  <2>6. phase' # "done" /\ UNCHANGED <<index, pieces>>
    BY <2>2
  <2>7. /\ index' \in 1 .. Len(content') + 1
        /\ pieces' \in Seq([type : Types, start : Nat, stop : Nat])
        /\ EveryCharacterOnce'
    BY <2>2, <2>5, <2>6, NoPieces
  <2>8. TypeOK'
    BY <2>1, <2>2, <2>5, <2>7, <1>0 DEF TypeOK
  <2>9. ReadSoFar'
    BY <2>1, <2>2, <2>4, <1>0 DEF ReadSoFar
  <2> QED
    BY <2>7, <2>8, <2>9 DEF IInv
<1>2. CASE GetLastLine
  <2>1. /\ phase = "reading" /\ ~eof /\ fault = "none"
        /\ at' = Len(file) /\ eof' = TRUE
        /\ content' = content \o SubSeq(file, at + 1, Len(file)) \o <<"\n">>
        /\ UNCHANGED <<file, fault, phase, index, pieces>>
    BY <1>2 DEF GetLastLine, Looping
  <2>2. /\ content' = Append(SubSeq(file, 1, Len(file)), "\n")
        /\ SubSeq(file, 1, Len(file)) \in Seq(Characters)
    BY <2>1, <1>0, ReadPart, Len(file) \in at .. Len(file) DEF ReadSoFar
  <2>3. content' \in Seq(Characters)
    BY <2>2, AddNewline
  <2>4. phase' # "done" /\ UNCHANGED <<index, pieces>>
    BY <2>1
  <2>5. /\ index' \in 1 .. Len(content') + 1
        /\ pieces' \in Seq([type : Types, start : Nat, stop : Nat])
        /\ EveryCharacterOnce'
    BY <2>1, <2>3, <2>4, NoPieces
  <2>6. TypeOK'
    BY <2>1, <2>3, <2>5, <1>0 DEF TypeOK
  <2>7. ReadSoFar'
    BY <2>1, <2>2, <1>0 DEF ReadSoFar
  <2> QED
    BY <2>5, <2>6, <2>7 DEF IInv
<1>3. CASE ReadFails
  <2>1. PICK k \in at .. Len(file) :
            at' = k /\ content' = content \o SubSeq(file, at + 1, k) \o <<"\n">>
    BY <1>3 DEF ReadFails
  <2>2. /\ phase = "reading" /\ ~eof /\ fault = "none"
        /\ UNCHANGED <<file, phase, index, pieces>>
        /\ \/ eof' = TRUE /\ fault' = "ended"
           \/ eof' = FALSE /\ fault' = "stuck"
    BY <1>3 DEF ReadFails, Looping
  <2>3. content' = Append(SubSeq(file, 1, k), "\n") /\ SubSeq(file, 1, k) \in Seq(Characters)
    BY <2>1, <2>2, <1>0, ReadPart DEF ReadSoFar
  <2>4. content' \in Seq(Characters)
    BY <2>3, AddNewline
  <2>5. phase' # "done" /\ UNCHANGED <<index, pieces>>
    BY <2>2
  <2>6. /\ index' \in 1 .. Len(content') + 1
        /\ pieces' \in Seq([type : Types, start : Nat, stop : Nat])
        /\ EveryCharacterOnce'
    BY <2>2, <2>4, <2>5, NoPieces
  <2>7. TypeOK'
    <3>1. eof' \in BOOLEAN /\ fault' \in {"none", "ended", "stuck"}
      BY <2>2
    <3>2. at' \in 0 .. Len(file') /\ file' \in Seq(Characters)
      BY <2>1, <2>2, <1>0
    <3>3. phase' \in {"reading", "lexing", "done"}
      BY <2>2
    <3> QED
      BY <3>1, <3>2, <3>3, <2>4, <2>6 DEF TypeOK
  <2>8. ReadSoFar'
    BY <2>1, <2>2, <2>3, <1>0 DEF ReadSoFar
  <2> QED
    BY <2>6, <2>7, <2>8 DEF IInv
<1>4. CASE GetNothing
  <2>1. /\ phase = "reading" /\ ~eof /\ fault = "stuck"
        /\ UNCHANGED <<file, at, eof, fault, phase, index, pieces>>
        /\ content' = content \/ content' = Append(content, "\n")
    BY <1>4 DEF GetNothing, Looping
  <2>2. content' \in Seq(Characters)
    BY <2>1, <1>0, AddNewline
  <2>3. phase' # "done" /\ UNCHANGED <<index, pieces>>
    BY <2>1
  <2>4. /\ index' \in 1 .. Len(content') + 1
        /\ pieces' \in Seq([type : Types, start : Nat, stop : Nat])
        /\ EveryCharacterOnce'
    BY <2>1, <2>2, <2>3, NoPieces
  <2>5. TypeOK'
    BY <2>1, <2>2, <2>4, <1>0 DEF TypeOK
  <2>6. ReadSoFar'
    BY <2>1, <1>0 DEF ReadSoFar
  <2> QED
    BY <2>4, <2>5, <2>6 DEF IInv
<1>5. CASE Close
  <2>1. TypeOK'
    BY <1>5, <1>0 DEF Close, TypeOK
  <2>2. ReadSoFar'
    BY <1>5, <1>0 DEF Close, ReadSoFar
  <2>3. EveryCharacterOnce'
    BY <1>5, <1>0 DEF Close, EveryCharacterOnce
  <2> QED
    BY <2>1, <2>2, <2>3 DEF IInv
<1>6. CASE Emit
  <2> DEFINE e == LongestEnd(content, index)
  <2>1. /\ phase = "lexing" /\ index <= Len(content) /\ e >= index /\ index' = e + 1
        /\ pieces' = Append(pieces, Piece(TokenType(content, index, e), index, e))
        /\ UNCHANGED <<file, at, eof, fault, content, phase>>
    BY <1>6 DEF Emit, AtText
  <2>2. index \in 1 .. Len(content)
    BY <2>1, <1>0 DEF TypeOK
  <2>3. e \in index - 1 .. Len(content)
    BY <2>2, <1>0, LongestWithin
  <2>4. TokenType(content, index, e) \in Types
    BY <2>1, <2>2, <1>0, TypeOfMatch
  <2> HIDE DEF e
  <2>5. e \in index .. Len(content)
    BY <2>1, <2>2, <2>3
  <2>6. /\ index' \in 1 .. Len(content') + 1
        /\ pieces' \in Seq([type : Types, start : Nat, stop : Nat])
        /\ EveryCharacterOnce'
    BY <2>1, <2>4, <2>5, <1>0, NextPiece
  <2>7. TypeOK'
    BY <2>1, <2>6, <1>0 DEF TypeOK
  <2>8. ReadSoFar'
    BY <2>1, <1>0 DEF ReadSoFar
  <2> QED
    BY <2>6, <2>7, <2>8 DEF IInv
<1>7. CASE Recover
  <2> DEFINE reached == Reached(content, index)
             last == IF reached < Len(content) THEN reached + 1 ELSE reached
  <2>1. /\ phase = "lexing" /\ index <= Len(content) /\ index' = last + 1
        /\ pieces' = Append(pieces, Piece("error", index, last))
        /\ UNCHANGED <<file, at, eof, fault, content, phase>>
    BY <1>7 DEF Recover, AtText
  <2>2. index \in 1 .. Len(content)
    BY <2>1, <1>0 DEF TypeOK
  <2>3. last \in index .. Len(content)
    <3>1. reached = Len(content) \/ reached = index - 1
      BY DEF Reached
    <3>2. Len(content) \in Nat
      BY <1>0
    <3> HIDE DEF reached
    <3> QED
      BY <3>1, <3>2, <2>2
  <2>4. "error" \in Types
    BY DEF Types
  <2> HIDE DEF last
  <2>5. /\ index' \in 1 .. Len(content') + 1
        /\ pieces' \in Seq([type : Types, start : Nat, stop : Nat])
        /\ EveryCharacterOnce'
    BY <2>1, <2>3, <2>4, <1>0, NextPiece
  <2>6. TypeOK'
    BY <2>1, <2>5, <1>0 DEF TypeOK
  <2>7. ReadSoFar'
    BY <2>1, <1>0 DEF ReadSoFar
  <2> QED
    BY <2>5, <2>6, <2>7 DEF IInv
<1>8. CASE EmitEOF
  <2>1. TypeOK'
    BY <1>8, <1>0 DEF EmitEOF, TypeOK
  <2>2. ReadSoFar'
    BY <1>8, <1>0 DEF EmitEOF, ReadSoFar
  <2>3. index = Len(content) + 1
    BY <1>8, <1>0 DEF EmitEOF, TypeOK
  <2>4. EveryCharacterOnce'
    BY <1>8, <1>0, <2>3 DEF EmitEOF, EveryCharacterOnce
  <2> QED
    BY <2>1, <2>2, <2>4 DEF IInv
<1>9. CASE Done \/ UNCHANGED vars
  <2>1. UNCHANGED <<file, at, eof, fault, content, phase, index, pieces>>
    BY <1>9 DEF Done, vars
  <2>2. TypeOK'
    BY <2>1, <1>0 DEF TypeOK
  <2>3. ReadSoFar'
    BY <2>1, <1>0 DEF ReadSoFar
  <2>4. EveryCharacterOnce'
    BY <2>1, <1>0 DEF EveryCharacterOnce
  <2> QED
    BY <2>2, <2>3, <2>4 DEF IInv
<1> QED
  BY <1>1, <1>2, <1>3, <1>4, <1>5, <1>6, <1>7, <1>8, <1>9 DEF Next

\* The invariant holds throughout.
LEMMA Invariant == Spec => []IInv
  BY InitInv, StepInv, PTL DEF Spec

-----------------------------------------------------------------------------
\* The variables of the driver and the lexer keep their types.
THEOREM TypeCorrect == Spec => []TypeOK
<1>1. IInv => TypeOK
  BY DEF IInv
<1> QED
  BY <1>1, Invariant, PTL

(***************************************************************************)
(* The reading loop hands the lexer the file and one more newline, or what *)
(* was read of it before a fault that looks like its end.                  *)
(***************************************************************************)
THEOREM ContentCorrect == Spec => []ContentIsFile
<1>1. IInv => ContentIsFile
  BY DEF IInv, ReadSoFar, ContentIsFile
<1> QED
  BY <1>1, Invariant, PTL

(***************************************************************************)
(* The lexer reads every character of every text exactly once, whatever    *)
(* its rules match.                                                        *)
(***************************************************************************)
THEOREM PiecesCorrect == Spec => []EveryCharacterOnce
<1>1. IInv => EveryCharacterOnce
  BY DEF IInv
<1> QED
  BY <1>1, Invariant, PTL

(***************************************************************************)
(* No step of the driver leaves it where it was, unless a read has failed  *)
(* unnoticed: for every file, the reading loop and the lexer end.          *)
(***************************************************************************)
THEOREM ProgressCorrect == Spec => EveryStepAdvances
<1>1. ASSUME IInv, [Next]_vars
      PROVE  [Advances \/ fault' = "stuck"]_vars
  <2>0. /\ file \in Seq(Characters) /\ at \in 0 .. Len(file) /\ Len(file) \in Nat
        /\ content \in Seq(Characters) /\ index \in 1 .. Len(content) + 1
        /\ Len(content) \in Nat
    BY <1>1 DEF IInv, TypeOK
  <2>1. CASE GetLine
    <3>1. PICK q \in at + 1 .. Len(file) : at' = q
      BY <2>1 DEF GetLine
    <3> QED
      BY <2>1, <3>1, <2>0 DEF GetLine, Advances
  <2>2. CASE GetLastLine
    BY <2>2 DEF GetLastLine, Looping, Advances
  <2>3. CASE ReadFails
    BY <2>3 DEF ReadFails, Looping, Advances
  <2>4. CASE GetNothing
    BY <2>4 DEF GetNothing
  <2>5. CASE Close
    BY <2>5 DEF Close, Advances
  <2>6. CASE Emit
    <3> DEFINE e == LongestEnd(content, index)
    <3>1. /\ index <= Len(content) /\ e >= index /\ index' = e + 1
          /\ UNCHANGED <<content, phase>>
      BY <2>6 DEF Emit, AtText
    <3>2. e \in index - 1 .. Len(content)
      BY <3>1, <2>0, LongestWithin, index \in 1 .. Len(content)
    <3> HIDE DEF e
    <3>3. index < index' /\ index' <= Len(content) + 1
      BY <3>1, <3>2, <2>0
    <3> QED
      BY <3>1, <3>3 DEF Advances
  <2>7. CASE Recover
    <3> DEFINE reached == Reached(content, index)
    <3>1. /\ index <= Len(content)
          /\ index' = (IF reached < Len(content) THEN reached + 1 ELSE reached) + 1
          /\ UNCHANGED <<content, phase>>
      BY <2>7 DEF Recover, AtText
    <3>2. reached = Len(content) \/ reached = index - 1
      BY DEF Reached
    <3> HIDE DEF reached
    <3>3. index < index' /\ index' <= Len(content) + 1
      BY <3>1, <3>2, <2>0
    <3> QED
      BY <3>1, <3>3 DEF Advances
  <2>8. CASE EmitEOF
    BY <2>8 DEF EmitEOF, Advances
  <2>9. CASE Done \/ UNCHANGED vars
    BY <2>9 DEF Done
  <2> QED
    BY <1>1, <2>1, <2>2, <2>3, <2>4, <2>5, <2>6, <2>7, <2>8, <2>9 DEF Next
<1> QED
  BY <1>1, Invariant, PTL DEF Spec, EveryStepAdvances
=============================================================================
