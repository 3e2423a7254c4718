------------------------- MODULE CppLexerInitProofs -------------------------
(***************************************************************************)
(* The C++ lexers keep the assertion of tsqllexerLexerInitialize and       *)
(* implement LazyInit, in both builds, for any set of threads and any      *)
(* number of exceptions.                                                   *)
(***************************************************************************)
EXTENDS CppLexerInit, TLAPS

(***************************************************************************)
(* The invariant.  With the shared pointer: one thread at a time is inside *)
(* call_once, the flag says so, the pointer is null until that thread      *)
(* publishes it, and all threads see the same pointer.  A thread past      *)
(* initialize has a pointer in both builds.                                *)
(***************************************************************************)
Inside(t) == pc[t] \in {"make", "return"}

SharedInv ==
    /\ \A t \in Threads : Inside(t) => flag = "running"
    /\ \A t, u \in Threads : Inside(t) /\ Inside(u) => t = u
    /\ \A t \in Threads : flag = "done" => ptr[t]
    /\ flag = "new" => \A t \in Threads : ~ptr[t]
    /\ \A t, u \in Threads : ptr[t] = ptr[u]

CppInv ==
    /\ TypeOK
    /\ \A t \in Threads : pc[t] = "make" => ~ptr[t]
    /\ \A t \in Threads : pc[t] \in {"return", "bind"} => ptr[t]
    /\ \A t \in Threads : lexer[t] => ptr[t]
    /\ ~threadLocal => SharedInv

\* Nothing is made before the first constructor is called.
LEMMA InitCpp == Init => CppInv
BY ThrowsAssumption DEF Init, CppInv, TypeOK, SharedInv, Inside

\* Every step keeps the invariant, whether an exception is thrown or not.
LEMMA StepKeepsCpp == CppInv /\ [Next]_vars => CppInv'
<1> SUFFICES ASSUME CppInv, [Next]_vars
             PROVE  CppInv'
  OBVIOUS
<1> USE ThrowsAssumption DEF CppInv, TypeOK, SharedInv, Inside, Goto
<1>1. ASSUME NEW t \in Threads, Construct(t)
      PROVE  CppInv'
  BY <1>1 DEF Construct
<1>2. ASSUME NEW t \in Threads, Enter(t), UNCHANGED threadLocal
      PROVE  CppInv'
  BY <1>2 DEF Enter
<1>3. ASSUME NEW t \in Threads, Skip(t), UNCHANGED threadLocal
      PROVE  CppInv'
  BY <1>3 DEF Skip
<1>4. ASSUME NEW t \in Threads, Release(t), UNCHANGED threadLocal
      PROVE  CppInv'
  BY <1>4 DEF Release
<1>5. ASSUME NEW t \in Threads, MakeThrows(t), UNCHANGED threadLocal
      PROVE  CppInv'
  BY <1>5 DEF MakeThrows
<1>6. ASSUME NEW t \in Threads, Return(t), UNCHANGED threadLocal
      PROVE  CppInv'
  BY <1>6 DEF Return
<1>7. ASSUME NEW t \in Threads, Bind(t), UNCHANGED threadLocal
      PROVE  CppInv'
  BY <1>7 DEF Bind
<1>8. ASSUME NEW t \in Threads, BindThrows(t), UNCHANGED threadLocal
      PROVE  CppInv'
  BY <1>8 DEF BindThrows
<1>9. CASE UNCHANGED vars
  BY <1>9 DEF vars
<1> QED
  BY <1>1, <1>2, <1>3, <1>4, <1>5, <1>6, <1>7, <1>8, <1>9 DEF Next, Run

\* The invariant holds in every reachable state.
THEOREM CppInvariant == Spec => []CppInv
BY InitCpp, StepKeepsCpp, PTL DEF Spec

\* The state keeps its types; an exception leaves the once flag in one of the
\* states that call_once knows.
THEOREM TypeCorrect == Spec => []TypeOK
<1>1. CppInv => TypeOK
  BY DEF CppInv
<1> QED
  BY <1>1, CppInvariant, PTL

\* The assertion at the head of tsqllexerLexerInitialize never fails.
THEOREM AssertionNeverFails == Spec => []AssertionHolds
<1>1. CppInv => AssertionHolds
  BY DEF CppInv, SharedInv, Inside, AssertionHolds
<1> QED
  BY <1>1, CppInvariant, PTL

\* No constructor, and no thread using a finished lexer of the default build,
\* dereferences a null pointer.
THEOREM NoNullDereference == Spec => []DereferencesAreSafe
<1>1. CppInv => DereferencesAreSafe
  BY DEF CppInv, SharedInv, DereferencesAreSafe, TypeOK
<1> QED
  BY <1>1, CppInvariant, PTL

-----------------------------------------------------------------------------
\* No pointer and no lexer: the initial state of LazyInit.
LEMMA InitIsLazy == Init => Abstract!Init
BY DEF Init, Abstract!Init

\* Publishing the first pointer makes the data, binding an interpreter is
\* Construct, and every other step is a stutter of LazyInit.
LEMMA StepIsLazy == CppInv /\ [Next]_vars => [Abstract!Next]_Abstract!vars
<1> SUFFICES ASSUME CppInv, [Next]_vars
             PROVE  Abstract!Next \/ UNCHANGED Abstract!vars
  OBVIOUS
<1> USE DEF Abstract!vars
<1>1. ASSUME NEW t \in Threads,
             \/ Construct(t) \/ Enter(t) \/ Skip(t) \/ MakeThrows(t) \/ Return(t) \/ BindThrows(t)
      PROVE  UNCHANGED Abstract!vars
  BY <1>1 DEF Construct, Enter, Skip, MakeThrows, Return, BindThrows
<1>2. ASSUME NEW t \in Threads, Release(t)
      PROVE  Abstract!Make \/ UNCHANGED Abstract!vars
  <2>1. ptr'[t] /\ lexer' = lexer
    BY <1>2 DEF Release, CppInv, TypeOK
  <2>2. (\E u \in Threads : ptr'[u]) = TRUE
    BY <2>1
  <2>3. {u \in Threads : lexer'[u]} = {u \in Threads : lexer[u]}
    BY <2>1
  <2> QED
    BY <2>2, <2>3 DEF Abstract!Make
<1>3. ASSUME NEW t \in Threads, Bind(t)
      PROVE  Abstract!Construct(t)
  <2>1. ptr[t] /\ ptr' = ptr /\ lexer' = [lexer EXCEPT ![t] = TRUE]
    BY <1>3 DEF Bind, CppInv
  <2>2. {u \in Threads : lexer'[u]} = {u \in Threads : lexer[u]} \cup {t}
    BY <2>1 DEF CppInv, TypeOK
  <2> QED
    BY <2>1, <2>2 DEF Abstract!Construct
<1>4. CASE UNCHANGED vars
  BY <1>4 DEF vars
<1> QED
  BY <1>1, <1>2, <1>3, <1>4 DEF Next, Run, Abstract!Next

\* Every behaviour of the C++ lexers is one of LazyInit.
THEOREM CppImplementsLazyInit == Spec => LazilyInitialized
<1>1. Init /\ [][Next]_vars /\ []CppInv => Abstract!Init /\ [][Abstract!Next]_Abstract!vars
  BY InitIsLazy, StepIsLazy, PTL
<1> QED
  BY <1>1, CppInvariant, PTL DEF Spec, LazilyInitialized, Abstract!Spec
=============================================================================
