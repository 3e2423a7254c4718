---------------------------- MODULE CppLexerInit ----------------------------
(***************************************************************************)
(* The constructor of the C++ port's TSqlLexer, called from many threads.  *)
(* tsqllexerLexerInitialize builds the static data in a local unique_ptr   *)
(* and publishes the pointer with its last statement.  In the default      *)
(* build one pointer is shared and guarded by a once flag; with            *)
(* ANTLR4_USE_THREAD_LOCAL_CACHE every thread has a pointer of its own and *)
(* there is no flag.  Building the data or the interpreter may throw.  The *)
(* build is chosen in the initial state and never changes.                 *)
(***************************************************************************)
EXTENDS Naturals

CONSTANTS
    Threads,    \* the threads that construct lexers
    MaxThrows   \* bound on the exceptions of a run

ASSUME ThrowsAssumption == MaxThrows \in Nat

VARIABLES
    threadLocal,    \* ANTLR4_USE_THREAD_LOCAL_CACHE
    flag,           \* tsqllexerLexerOnceFlag: "new", "running" or "done"
    ptr,            \* tsqllexerLexerStaticData as each thread sees it: not null
    pc,             \* per thread: "idle", "initialize", "make", "return" or "bind"
    lexer,          \* the thread has constructed a lexer
    throws          \* the exceptions so far

vars == <<threadLocal, flag, ptr, pc, lexer, throws>>

Init ==
    /\ threadLocal \in BOOLEAN
    /\ flag = "new"
    /\ ptr = [t \in Threads |-> FALSE]
    /\ pc = [t \in Threads |-> "idle"]
    /\ lexer = [t \in Threads |-> FALSE]
    /\ throws = 0

Goto(t, label) == pc' = [pc EXCEPT ![t] = label]

\* TSqlLexer::TSqlLexer calls initialize first.
Construct(t) ==
    /\ pc[t] = "idle"
    /\ Goto(t, "initialize")
    /\ UNCHANGED <<threadLocal, flag, ptr, lexer, throws>>

(***************************************************************************)
(* initialize: call_once runs tsqllexerLexerInitialize in one thread at a  *)
(* time until one returns; a thread-local build looks at its own pointer.  *)
(***************************************************************************)
Enter(t) ==
    /\ pc[t] = "initialize"
    /\ IF threadLocal
       THEN ~ptr[t] /\ UNCHANGED flag
       ELSE flag = "new" /\ flag' = "running"
    /\ Goto(t, "make")
    /\ UNCHANGED <<ptr, lexer, throws>>

\* Mutant: a thread that finds the flag taken does not wait.
Skip_NoWait(t) ==
    /\ pc[t] = "initialize"
    /\ IF threadLocal THEN TRUE ELSE flag # "new"
    /\ Goto(t, "bind")
    /\ UNCHANGED <<flag, ptr, lexer, throws>>

\* Mutant: a thread that finds the flag done looks at it again.
Skip_Spins(t) ==
    /\ pc[t] = "initialize"
    /\ IF threadLocal THEN ptr[t] ELSE flag = "done"
    /\ UNCHANGED <<flag, ptr, pc, lexer, throws>>

Skip(t) ==
    /\ pc[t] = "initialize"
    /\ IF threadLocal THEN ptr[t] ELSE flag = "done"
    /\ Goto(t, "bind")
    /\ UNCHANGED <<flag, ptr, lexer, throws>>

\* Mutant: the pointer is published before the data is complete.
Release_Early(t) ==
    /\ pc[t] = "make"
    /\ ptr' = IF threadLocal THEN [ptr EXCEPT ![t] = TRUE] ELSE [u \in Threads |-> TRUE]
    /\ UNCHANGED <<flag, pc, lexer, throws>>

\* The static data is complete; release() publishes it.
Release(t) ==
    /\ pc[t] = "make"
    /\ ptr' = IF threadLocal THEN [ptr EXCEPT ![t] = TRUE] ELSE [u \in Threads |-> TRUE]
    /\ Goto(t, "return")
    /\ UNCHANGED <<flag, lexer, throws>>

\* Building the static data throws: the unique_ptr frees it, call_once leaves
\* the flag to the next thread, and the constructor fails.
MakeThrows(t) ==
    /\ pc[t] = "make"
    /\ throws < MaxThrows
    /\ throws' = throws + 1
    /\ flag' = IF threadLocal THEN flag ELSE "new"
    /\ Goto(t, "idle")
    /\ UNCHANGED <<ptr, lexer>>

Return(t) ==
    /\ pc[t] = "return"
    /\ flag' = IF threadLocal THEN flag ELSE "done"
    /\ Goto(t, "bind")
    /\ UNCHANGED <<ptr, lexer, throws>>

\* The interpreter is constructed on the static data.
Bind(t) ==
    /\ pc[t] = "bind"
    /\ lexer' = [lexer EXCEPT ![t] = TRUE]
    /\ Goto(t, "idle")
    /\ UNCHANGED <<flag, ptr, throws>>

\* Mutant: the failing constructor takes the static data down.
BindThrows_Frees(t) ==
    /\ pc[t] = "bind"
    /\ throws < MaxThrows
    /\ throws' = throws + 1
    /\ ptr' = [u \in Threads |-> FALSE]
    /\ Goto(t, "idle")
    /\ UNCHANGED <<flag, lexer>>

\* Constructing the interpreter throws: the constructor fails.
BindThrows(t) ==
    /\ pc[t] = "bind"
    /\ throws < MaxThrows
    /\ throws' = throws + 1
    /\ Goto(t, "idle")
    /\ UNCHANGED <<flag, ptr, lexer>>

Run(t) ==
    /\ \/ Enter(t) \/ Skip(t) \/ Release(t) \/ MakeThrows(t) \/ Return(t)
       \/ Bind(t) \/ BindThrows(t)
    /\ UNCHANGED threadLocal

Next == \E t \in Threads : Construct(t) \/ Run(t)

Spec == Init /\ [][Next]_vars

\* The operating system runs every thread that can run.
FairSpec == Spec /\ \A t \in Threads : WF_vars(Run(t))

-----------------------------------------------------------------------------
\* Every variable has its type.
TypeOK ==
    /\ threadLocal \in BOOLEAN
    /\ flag \in {"new", "running", "done"}
    /\ ptr \in [Threads -> BOOLEAN]
    /\ pc \in [Threads -> {"idle", "initialize", "make", "return", "bind"}]
    /\ lexer \in [Threads -> BOOLEAN]
    /\ throws \in 0 .. MaxThrows

(***************************************************************************)
(* assert(tsqllexerLexerStaticData == nullptr), the first statement of     *)
(* tsqllexerLexerInitialize: whatever was thrown before, the static data   *)
(* is made in one thread at a time and only while there is none.           *)
(***************************************************************************)
AssertionHolds ==
    \A t \in Threads : pc[t] = "make" =>
        /\ ~ptr[t]
        /\ ~threadLocal => \A u \in Threads \ {t} : pc[u] # "make"

(***************************************************************************)
(* The constructor dereferences the pointer of its own thread, which is    *)
(* never null, and so may any thread that is handed the finished lexer, if *)
(* the pointer is shared.                                                  *)
(***************************************************************************)
DereferencesAreSafe ==
    \A t \in Threads :
        /\ pc[t] = "bind" \/ lexer[t] => ptr[t]
        /\ ~threadLocal /\ lexer[t] => \A u \in Threads : ptr[u]

(***************************************************************************)
(* The lexers implement LazyInit: data that was made is never lost, and no *)
(* lexer is constructed before.                                            *)
(***************************************************************************)
Abstract == INSTANCE LazyInit WITH
    made <- \E t \in Threads : ptr[t], holders <- {t \in Threads : lexer[t]}

LazilyInitialized == Abstract!Spec

\* Every constructor returns or throws: a throwing thread leaves no other waiting.
EveryCallReturns == \A t \in Threads : pc[t] = "initialize" ~> pc[t] = "idle"
=============================================================================
