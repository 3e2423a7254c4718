-------------------------- MODULE KeywordMapProofs --------------------------
(***************************************************************************)
(* The compiled package never has an emptied keyword map, and its IsID_    *)
(* agrees with its rule id_ after both tools were run, for every set of    *)
(* texts of the keyword rule.                                              *)
(***************************************************************************)
EXTENDS KeywordMap, SequenceTheorems, TLAPS

\* The lines of a text are lines, numbered from 1.
LEMMA RevisionType ==
    ASSUME NEW g \in Revisions
    PROVE  /\ Len(g) \in Nat
           /\ DOMAIN g = 1 .. Len(g)
           /\ \A i \in DOMAIN g : g[i] \in Line
BY RevisionsAssumption, LenProperties, ElementOfSeq

\* The script finds ABORT in every text in which it finds the rule.
LEMMA AbortExtracted ==
    ASSUME NEW g \in Revisions, Found(g)
    PROVE  Abort \in NamesIn(extract_keyword_candidates(Scanned(g)))
<1> DEFINE lines == Scanned(g)
<1>1. 1 \in DOMAIN g
  BY RevisionType, RevisionsAssumption, EmptySeq DEF Found
<1>2. 1 \in DOMAIN lines /\ lines[1] = g[1]
  BY <1>1 DEF Found, Scanned
<1>3. g[1].mark = ":" /\ g[1].names = <<Abort>>
  BY DEF Found
<1>4. IsAlternative(lines[1]) /\ lines[1].names[1] = Abort
  BY <1>2, <1>3 DEF IsAlternative
<1> HIDE DEF lines
<1>5. /\ 1 \in DOMAIN extract_keyword_candidates(lines)
      /\ extract_keyword_candidates(lines)[1] = Abort
  BY <1>2, <1>4 DEF extract_keyword_candidates
<1> QED
  BY <1>5 DEF NamesIn, lines

(***************************************************************************)
(* In a text that keeps the layout, the script finds exactly the names     *)
(* that ANTLR reads: the first line that ends with ";" is the one that     *)
(* closes the rule, and it names nothing.                                  *)
(***************************************************************************)
LEMMA ExtractionIsExact ==
    ASSUME NEW g \in Revisions, WellLaidOut(g)
    PROVE  NamesIn(extract_keyword_candidates(Scanned(g))) = Keywords(g)
<1> DEFINE lines == Scanned(g)
           keys == extract_keyword_candidates(lines)
<1>1. /\ Len(g) \in Nat /\ DOMAIN g = 1 .. Len(g)
      /\ \A i \in DOMAIN g : g[i].names \in Seq(STRING)
  BY RevisionType DEF Line
<1>2. \A i \in DOMAIN g :
         /\ g[i].closes <=> g[i].ends
         /\ g[i].closes => g[i].names = <<>>
         /\ g[i].names # <<>> => g[i].mark \in {":", "|"} /\ Len(g[i].names) = 1
  BY DEF WellLaidOut
<1>3. DOMAIN lines = {i \in DOMAIN g : \A j \in 1 .. i : ~g[j].ends}
      /\ \A i \in DOMAIN lines : lines[i] = g[i]
  BY DEF Scanned
<1> HIDE DEF lines
<1>4. DOMAIN keys = {i \in DOMAIN lines : IsAlternative(lines[i])}
      /\ \A i \in DOMAIN keys : keys[i] = lines[i].names[1]
  BY DEF extract_keyword_candidates
<1> HIDE DEF keys
<1>5. ASSUME NEW i \in DOMAIN g, g[i].names # <<>>
      PROVE  DOMAIN g[i].names = {1} /\ NamesIn(g[i].names) = {g[i].names[1]}
  <2>1. DOMAIN g[i].names = {1}
    BY <1>1, <1>2, <1>5, LenProperties
  <2> QED
    BY <2>1 DEF NamesIn
<1>6. ASSUME NEW t \in NamesIn(keys)
      PROVE  t \in Keywords(g)
  <2>1. PICK i \in DOMAIN keys : t = keys[i]
    BY DEF NamesIn
  <2>2. i \in DOMAIN g /\ t = g[i].names[1] /\ g[i].names # <<>>
    BY <2>1, <1>3, <1>4 DEF IsAlternative
  <2>3. t \in NamesIn(g[i].names)
    BY <2>2, <1>5
  <2>4. \A j \in 1 .. i - 1 : ~g[j].closes
    BY <2>1, <2>2, <1>1, <1>2, <1>3, <1>4
  <2> QED
    BY <2>2, <2>3, <2>4 DEF Keywords
<1>7. ASSUME NEW t \in Keywords(g)
      PROVE  t \in NamesIn(keys)
  <2>1. PICK i \in DOMAIN g : t \in NamesIn(g[i].names) /\ \A j \in 1 .. i - 1 : ~g[j].closes
    BY DEF Keywords
  <2>2. g[i].names # <<>>
    BY <2>1 DEF NamesIn
  <2>3. t = g[i].names[1] /\ IsAlternative(g[i])
    BY <2>1, <2>2, <1>2, <1>5 DEF IsAlternative
  <2>4. \A j \in 1 .. i : ~g[j].ends
    BY <2>1, <2>2, <1>1, <1>2
  <2>5. i \in DOMAIN keys /\ keys[i] = t
    BY <2>3, <2>4, <1>3, <1>4
  <2> QED
    BY <2>5 DEF NamesIn
<1> QED
  BY <1>6, <1>7 DEF keys, lines

-----------------------------------------------------------------------------
(***************************************************************************)
(* The invariant.  What the script has scanned holds ABORT, and so does    *)
(* every file written to its closing brace; a tool counts as run only      *)
(* while its output is that of the current grammar.                        *)
(***************************************************************************)
MapInv ==
    /\ grammar \in Revisions
    /\ found => Abort \in NamesIn(extract_keyword_candidates(buffer))
    /\ mapFile.whole => Abort \in NamesIn(mapFile.keys)
    /\ "build" \in steps => parser = Keywords(grammar)
    /\ "generate" \in steps =>
          /\ Found(grammar)
          /\ found => buffer = Scanned(grammar)
          /\ mapFile.whole => mapFile.keys = extract_keyword_candidates(Scanned(grammar))
    /\ NoEmptyMap
    /\ RegeneratedAgrees

\* The committed state is a consistent one.
LEMMA InitMap == Init => MapInv
<1> SUFFICES ASSUME Init PROVE MapInv
  OBVIOUS
<1> DEFINE keys == extract_keyword_candidates(Scanned(grammar))
<1>1. /\ grammar \in Revisions /\ WellLaidOut(grammar) /\ Found(grammar)
      /\ parser = Keywords(grammar)
      /\ ~found /\ mapFile.whole /\ mapFile.keys = keys
      /\ package.keys = NamesIn(keys) /\ package.parser = parser
  BY DEF Init, WellLaidOut
<1> HIDE DEF keys
<1>2. Abort \in NamesIn(keys) /\ NamesIn(keys) = Keywords(grammar)
  BY <1>1, AbortExtracted, ExtractionIsExact DEF keys
<1>3. NoEmptyMap /\ RegeneratedAgrees
  BY <1>1, <1>2 DEF NoEmptyMap, RegeneratedAgrees, Agree, IsID_, IsKeyword, id_
<1> QED
  BY <1>1, <1>2, <1>3 DEF MapInv, keys

\* Every step of the maintainer and of the tools keeps it.
LEMMA StepKeepsMap == MapInv /\ [Next]_vars => MapInv'
<1> SUFFICES ASSUME MapInv, [Next]_vars
             PROVE  MapInv'
  OBVIOUS
<1> USE DEF NoEmptyMap, RegeneratedAgrees, Agree, IsID_, IsKeyword, id_
<1>1. CASE Edit
  BY <1>1 DEF Edit, MapInv
<1>2. CASE Build
  BY <1>2 DEF Build, MapInv
<1>3. CASE Scan
  <2>1. found' => Abort \in NamesIn(extract_keyword_candidates(buffer'))
    BY <1>3, AbortExtracted DEF Scan, MapInv
  <2> QED
    BY <1>3, <2>1 DEF Scan, MapInv
<1>4. CASE OpenMap
  BY <1>4 DEF OpenMap, MapInv
<1>5. CASE WriteMap
  BY <1>5 DEF WriteMap, Exit, MapInv
<1>6. CASE NameError
  BY <1>6 DEF NameError, Exit, MapInv
<1>7. CASE Interrupt
  BY <1>7 DEF Interrupt, Exit, MapInv
<1>8. CASE Compile
  <2>1. /\ mapFile.whole
        /\ package'.parser = parser
        /\ package'.keys = NamesIn(mapFile.keys)
        /\ package'.steps = steps
        /\ package'.tidy = WellLaidOut(grammar)
        /\ UNCHANGED <<grammar, parser, mapFile, script, buffer, found, steps>>
    BY <1>8 DEF Compile
  <2>2. ASSUME steps = {"build", "generate"}, WellLaidOut(grammar)
        PROVE  package'.keys = package'.parser
    <3>1. parser = Keywords(grammar) /\ mapFile.keys = extract_keyword_candidates(Scanned(grammar))
      BY <2>1, <2>2 DEF MapInv
    <3> QED
      BY <2>1, <2>2, <3>1, ExtractionIsExact DEF MapInv
  <2>3. NoEmptyMap' /\ RegeneratedAgrees'
    BY <2>1, <2>2 DEF MapInv
  <2> QED
    BY <2>1, <2>3 DEF MapInv
<1>9. CASE UNCHANGED vars
  BY <1>9 DEF vars, MapInv
<1> QED
  BY <1>1, <1>2, <1>3, <1>4, <1>5, <1>6, <1>7, <1>8, <1>9 DEF Next

\* The lines of a scan are lines of the grammar.
LEMMA ScannedLines ==
    ASSUME NEW g \in Revisions
    PROVE  \A i \in DOMAIN Scanned(g) : Scanned(g)[i] \in Line
BY RevisionsAssumption DEF Scanned

\* The types are kept.
LEMMA StepKeepsTypes == TypeOK /\ [Next]_vars => TypeOK'
<1> SUFFICES ASSUME TypeOK, [Next]_vars
             PROVE  TypeOK'
  OBVIOUS
<1>1. CASE Edit
  BY <1>1 DEF Edit, TypeOK
<1>2. CASE Build
  BY <1>2 DEF Build, TypeOK
<1>3. CASE Scan
  <2>1. \A i \in DOMAIN buffer' : buffer'[i] \in Line
    BY <1>3, ScannedLines DEF Scan, TypeOK
  <2> QED
    BY <1>3, <2>1 DEF Scan, TypeOK, Found
<1>4. CASE OpenMap
  BY <1>4 DEF OpenMap, TypeOK
<1>5. ASSUME Exit
      PROVE  script' = "idle" /\ found' = FALSE /\ \A i \in DOMAIN buffer' : buffer'[i] \in Line
  BY <1>5 DEF Exit
<1>6. CASE WriteMap
  <2>1. mapFile'.whole \in BOOLEAN /\ steps' \subseteq {"build", "generate"}
    BY <1>6 DEF WriteMap, TypeOK
  <2> QED
    BY <1>5, <1>6, <2>1 DEF WriteMap, TypeOK
<1>7. CASE NameError \/ Interrupt
  BY <1>5, <1>7 DEF NameError, Interrupt, TypeOK
<1>8. CASE Compile
  BY <1>8 DEF Compile, TypeOK
<1>9. CASE UNCHANGED vars
  BY <1>9 DEF vars, TypeOK
<1> QED
  BY <1>1, <1>2, <1>3, <1>4, <1>6, <1>7, <1>8, <1>9 DEF Next

-----------------------------------------------------------------------------
\* The state of the tools keeps its types; a scan holds lines of the grammar.
THEOREM TypeCorrect == Spec => []TypeOK
<1>1. ASSUME Init PROVE TypeOK
  <2>1. \A i \in DOMAIN buffer : buffer[i] \in Line
    BY <1>1 DEF Init
  <2>2. mapFile.whole = TRUE /\ found = FALSE /\ steps = {"build", "generate"}
        /\ package.steps = steps /\ script = "idle" /\ grammar \in Revisions
    BY <1>1 DEF Init
  <2> QED
    BY <2>1, <2>2 DEF TypeOK
<1> QED
  BY <1>1, StepKeepsTypes, PTL DEF Spec

\* The inductive invariant holds in every reachable state.
THEOREM MapInvariant == Spec => []MapInv
BY InitMap, StepKeepsMap, PTL DEF Spec

\* Whenever the script dies or is interrupted, and whatever is compiled then:
\* the emptied keyword_map.go never reaches a program.
THEOREM EmptyMapNeverCompiled == Spec => []NoEmptyMap
<1>1. MapInv => NoEmptyMap
  BY DEF MapInv
<1> QED
  BY <1>1, MapInvariant, PTL

\* build.sh and the script together, in any order, bring IsID_ and id_ back into
\* agreement after an edit that keeps the layout of the rule.
THEOREM RegenerationIsEnough == Spec => []RegeneratedAgrees
<1>1. MapInv => RegeneratedAgrees
  BY DEF MapInv
<1> QED
  BY <1>1, MapInvariant, PTL
=============================================================================
