------------------------- MODULE GoLexerInitProofs --------------------------
(***************************************************************************)
(* The Go lexers implement LazyInit, for any set of goroutines.            *)
(***************************************************************************)
EXTENDS GoLexerInit, TLAPS

(***************************************************************************)
(* The invariant: the goroutine that fills the struct runs alone while the *)
(* once is running, whoever is past the once finds it done, and then the   *)
(* struct is full.                                                         *)
(***************************************************************************)
OnceInv ==
    /\ TypeOK
    /\ \A t \in Threads : pc[t] = "init" => once = "running"
    /\ \A t \in Threads : pc[t] = "build" => once = "done"
    /\ \A t, u \in Threads : pc[t] = "init" /\ pc[u] = "init" => t = u
    /\ once = "done" => filled = Fields
    /\ \A t \in Threads : lexer[t] # 0 => filled = Fields

\* Before the first call nothing is filled and nobody runs.
LEMMA InitOnce == Init => OnceInv
BY DEF Init, OnceInv, TypeOK, Fields

\* Every step keeps the invariant.
LEMMA StepKeepsOnce == OnceInv /\ [Next]_vars => OnceInv'
<1> SUFFICES ASSUME OnceInv, [Next]_vars
             PROVE  OnceInv'
  OBVIOUS
<1> USE DEF OnceInv, TypeOK, Goto, Fields
<1>1. ASSUME NEW t \in Threads, Call(t)
      PROVE  OnceInv'
  BY <1>1 DEF Call
<1>2. ASSUME NEW t \in Threads, DoFirst(t)
      PROVE  OnceInv'
  BY <1>2 DEF DoFirst
<1>3. ASSUME NEW t \in Threads, Assign(t)
      PROVE  OnceInv'
  BY <1>3 DEF Assign
<1>4. ASSUME NEW t \in Threads, DoReturn(t)
      PROVE  OnceInv'
  BY <1>4 DEF DoReturn, AfterDo
<1>5. ASSUME NEW t \in Threads, DoLater(t)
      PROVE  OnceInv'
  BY <1>5 DEF DoLater, AfterDo
<1>6. ASSUME NEW t \in Threads, BuildLexer(t)
      PROVE  OnceInv'
  BY <1>6 DEF BuildLexer
<1>7. CASE UNCHANGED vars
  BY <1>7 DEF vars
<1> QED
  BY <1>1, <1>2, <1>3, <1>4, <1>5, <1>6, <1>7 DEF Next, Run

\* The invariant holds in every reachable state.
THEOREM OnceInvariant == Spec => []OnceInv
BY InitOnce, StepKeepsOnce, PTL DEF Spec

\* The state keeps its types; the assignments end with the last field.
THEOREM TypeCorrect == Spec => []TypeOK
<1>1. OnceInv => TypeOK
  BY DEF OnceInv
<1> QED
  BY <1>1, OnceInvariant, PTL

\* NewTSqlLexer never reads the static data while tsqllexerLexerInit writes it.
THEOREM ReadsDoNotRace == Spec => []NoWriteWhileRead
<1>1. OnceInv => NoWriteWhileRead
  BY DEF OnceInv, NoWriteWhileRead
<1> QED
  BY <1>1, OnceInvariant, PTL

-----------------------------------------------------------------------------
\* An empty struct and no lexer: the initial state of LazyInit.
LEMMA InitIsLazy == Init => Abstract!Init
BY DEF Init, Abstract!Init, Fields

\* The last assignment makes the data, building a lexer is Construct, and every
\* other step is a stutter of LazyInit.
LEMMA StepIsLazy == OnceInv /\ [Next]_vars => [Abstract!Next]_Abstract!vars
<1> SUFFICES ASSUME OnceInv, [Next]_vars
             PROVE  Abstract!Next \/ UNCHANGED Abstract!vars
  OBVIOUS
<1> USE DEF Abstract!vars
<1>1. ASSUME NEW t \in Threads, Call(t) \/ DoFirst(t) \/ DoReturn(t) \/ DoLater(t)
      PROVE  UNCHANGED Abstract!vars
  BY <1>1 DEF Call, DoFirst, DoReturn, DoLater
<1>2. ASSUME NEW t \in Threads, Assign(t)
      PROVE  Abstract!Make \/ UNCHANGED Abstract!vars
  BY <1>2 DEF Assign, Abstract!Make, OnceInv, TypeOK, Fields
<1>3. ASSUME NEW t \in Threads, BuildLexer(t)
      PROVE  Abstract!Construct(t)
  <2>1. filled = Fields /\ filled' = filled /\ lexer' = [lexer EXCEPT ![t] = filled]
    BY <1>3 DEF BuildLexer, OnceInv
  <2>2. {u \in Threads : lexer'[u] # 0} = {u \in Threads : lexer[u] # 0} \cup {t}
    BY <2>1 DEF OnceInv, TypeOK, Fields
  <2> QED
    BY <2>1, <2>2 DEF Abstract!Construct
<1>4. CASE UNCHANGED vars
  BY <1>4 DEF vars
<1> QED
  BY <1>1, <1>2, <1>3, <1>4 DEF Next, Run, Abstract!Next

\* Every behaviour of the Go lexers is one of LazyInit.
THEOREM GoImplementsLazyInit == Spec => LazilyInitialized
<1>1. Init /\ [][Next]_vars /\ []OnceInv => Abstract!Init /\ [][Abstract!Next]_Abstract!vars
  BY InitIsLazy, StepIsLazy, PTL
<1> QED
  BY <1>1, OnceInvariant, PTL DEF Spec, LazilyInitialized, Abstract!Spec
=============================================================================
