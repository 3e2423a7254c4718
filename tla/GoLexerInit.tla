---------------------------- MODULE GoLexerInit -----------------------------
(***************************************************************************)
(* NewTSqlLexer and TSqlLexerInit of tsql_lexer.go, called from many       *)
(* goroutines.  The static data is one package-level struct whose fields   *)
(* tsqllexerLexerInit assigns in place, one after the other; nothing but   *)
(* the sync.Once keeps another goroutine from reading it half-filled.      *)
(***************************************************************************)
EXTENDS Naturals

CONSTANT Threads

(***************************************************************************)
(* The assignments, in their order: 1 the names, 2 the context cache, 3    *)
(* the serialized automaton, 4 the automaton, 5 the slice of DFAs, 6 the   *)
(* DFAs themselves.                                                        *)
(***************************************************************************)
Fields == 6

VARIABLES
    once,       \* the sync.Once: "new", "running" or "done"
    filled,     \* how many of the assignments have been executed
    pc,         \* per goroutine: "idle", "do", "init" or "build"
    goal,       \* the function it called: "init" or "lexer"
    lexer       \* the assignments its last lexer was built on; 0: no lexer

vars == <<once, filled, pc, goal, lexer>>

Init ==
    /\ once = "new"
    /\ filled = 0
    /\ pc = [t \in Threads |-> "idle"]
    /\ goal = [t \in Threads |-> "init"]
    /\ lexer = [t \in Threads |-> 0]

Goto(t, label) == pc' = [pc EXCEPT ![t] = label]

\* A goroutine calls NewTSqlLexer, or TSqlLexerInit ahead of time.
Call(t) ==
    /\ pc[t] = "idle"
    /\ \E g \in {"init", "lexer"} : goal' = [goal EXCEPT ![t] = g]
    /\ Goto(t, "do")
    /\ UNCHANGED <<once, filled, lexer>>

\* once.Do runs its argument in the first goroutine that calls it.
DoFirst(t) ==
    /\ pc[t] = "do"
    /\ once = "new"
    /\ once' = "running"
    /\ Goto(t, "init")
    /\ UNCHANGED <<filled, goal, lexer>>

\* Mutant: the assignments never come to an end.
Assign_StartsOver(t) ==
    /\ pc[t] = "init"
    /\ filled < Fields
    /\ filled' = (filled + 1) % Fields
    /\ UNCHANGED <<once, pc, goal, lexer>>

\* An assignment of tsqllexerLexerInit.
Assign(t) ==
    /\ pc[t] = "init"
    /\ filled < Fields
    /\ filled' = filled + 1
    /\ UNCHANGED <<once, pc, goal, lexer>>

AfterDo(t) == Goto(t, IF goal[t] = "lexer" THEN "build" ELSE "idle")

\* Mutant: once.Do returns before the DFAs are filled in.
DoReturn_Early(t) ==
    /\ pc[t] = "init"
    /\ filled = Fields - 1
    /\ once' = "done"
    /\ AfterDo(t)
    /\ UNCHANGED <<filled, goal, lexer>>

\* tsqllexerLexerInit returns, and with it once.Do.
DoReturn(t) ==
    /\ pc[t] = "init"
    /\ filled = Fields
    /\ once' = "done"
    /\ AfterDo(t)
    /\ UNCHANGED <<filled, goal, lexer>>

\* Mutant: a later call does not wait for the first one to return.
DoLater_NoWait(t) ==
    /\ pc[t] = "do"
    /\ once # "new"
    /\ AfterDo(t)
    /\ UNCHANGED <<once, filled, goal, lexer>>

\* Every other call of once.Do waits for the first one to return.
DoLater(t) ==
    /\ pc[t] = "do"
    /\ once = "done"
    /\ AfterDo(t)
    /\ UNCHANGED <<once, filled, goal, lexer>>

\* The rest of NewTSqlLexer copies the fields into the lexer.
BuildLexer(t) ==
    /\ pc[t] = "build"
    /\ lexer' = [lexer EXCEPT ![t] = filled]
    /\ Goto(t, "idle")
    /\ UNCHANGED <<once, filled, goal>>

Run(t) == DoFirst(t) \/ Assign(t) \/ DoReturn(t) \/ DoLater(t) \/ BuildLexer(t)

Next == \E t \in Threads : Call(t) \/ Run(t)

Spec == Init /\ [][Next]_vars

\* The Go scheduler runs every goroutine that can run.
FairSpec == Spec /\ \A t \in Threads : WF_vars(Run(t))

-----------------------------------------------------------------------------
\* Every variable has its type.
TypeOK ==
    /\ once \in {"new", "running", "done"}
    /\ filled \in 0 .. Fields
    /\ pc \in [Threads -> {"idle", "do", "init", "build"}]
    /\ goal \in [Threads -> {"init", "lexer"}]
    /\ lexer \in [Threads -> 0 .. Fields]

(***************************************************************************)
(* The lexers implement LazyInit: no goroutine builds a lexer on fields    *)
(* that tsqllexerLexerInit has not assigned yet, and the data is filled    *)
(* only once.                                                              *)
(***************************************************************************)
Abstract == INSTANCE LazyInit WITH
    made <- filled = Fields, holders <- {t \in Threads : lexer[t] # 0}

LazilyInitialized == Abstract!Spec

(***************************************************************************)
(* No goroutine writes the struct once another may be reading it, so the   *)
(* unsynchronized reads of NewTSqlLexer race with nothing.                 *)
(***************************************************************************)
NoWriteWhileRead ==
    \A t, u \in Threads : ~(pc[t] = "build" /\ pc[u] = "init")

\* Every call of once.Do returns, although all but one wait for another one.
EveryCallReturns == \A t \in Threads : pc[t] = "do" ~> pc[t] \in {"idle", "build"}
=============================================================================
