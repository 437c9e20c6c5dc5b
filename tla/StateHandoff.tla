---------------------------- MODULE StateHandoff ----------------------------
(***************************************************************************)
(* The hand-off of the renderer state mutex (src/src/renderer/State.zig).  *)
(* The mutex is unfair, so the parse thread of module ReadPipeline, which  *)
(* unlocks and relocks it once per batch, calls yieldToDemand in between:  *)
(* if a renderer has announced itself with lockDemand, sleep on the futex  *)
(* handoff_gen until it has had its turn.                                  *)
(*                                                                         *)
(* One action per atomic operation; the mutex goes to any thread that asks.*)
(* The model is sequentially consistent.  The code's atomics are monotonic *)
(* and may read stale values, whose cost the code bounds by the timeout;   *)
(* what is shown without a timeout is shown of executions without them.    *)
(***************************************************************************)
EXTENDS Naturals, FiniteSets

CONSTANTS Demanders,     \* threads using lockDemand (the renderer)
          Others,        \* threads that lock the mutex directly
          Parser, None,
          MaxHandoffs,   \* bound: turns of the demanders
          OvertakenCap   \* bound: where the history count saturates

ASSUME ThreadsAssumption ==
    /\ IsFiniteSet(Demanders) /\ Demanders # {}
    /\ Parser \notin Demanders \cup Others
    /\ None \notin Demanders \cup Others \cup {Parser}
    /\ Demanders \cap Others = {}

VARIABLES mutex,        \* its holder or None
          demand,       \* waiting lockDemand callers
          handoff_gen,
          gen,          \* the parse thread's snapshot of handoff_gen
          pc,
          overtaken     \* history: turns of the parser while demanders waited,
                        \* since one of them had a turn or a hand-off timed out

vars == <<mutex, demand, handoff_gen, gen, pc, overtaken>>

Threads == Demanders \cup Others \cup {Parser}

Init ==
    /\ mutex = None /\ demand = 0 /\ handoff_gen = 0 /\ gen = 0
    /\ pc = [t \in Threads |-> "out"]
    /\ overtaken = 0

Goto(t, l) == pc' = [pc EXCEPT ![t] = l]
At(t, l) == pc[t] = l

-----------------------------------------------------------------------------
(* lockDemand and unlockDemand *)

(* Mutant: the waiter is not counted. *)
AnnounceUncounted(d) ==
    /\ At(d, "out") /\ handoff_gen < MaxHandoffs
    /\ Goto(d, "lock")
    /\ UNCHANGED <<mutex, demand, handoff_gen, gen, overtaken>>

Announce(d) ==
    /\ At(d, "out") /\ handoff_gen < MaxHandoffs
    /\ demand' = demand + 1
    /\ Goto(d, "lock")
    /\ UNCHANGED <<mutex, handoff_gen, gen, overtaken>>

LockDemand(d) ==
    /\ At(d, "lock") /\ mutex = None
    /\ mutex' = d
    /\ overtaken' = 0
    /\ Goto(d, "locked")
    /\ UNCHANGED <<demand, handoff_gen, gen>>

(* Mutant: the demand is left standing. *)
WithdrawNothing(d) ==
    /\ At(d, "locked")
    /\ Goto(d, "critical")
    /\ UNCHANGED <<mutex, demand, handoff_gen, gen, overtaken>>

Withdraw(d) ==
    /\ At(d, "locked")
    /\ demand' = demand - 1
    /\ Goto(d, "critical")
    /\ UNCHANGED <<mutex, handoff_gen, gen, overtaken>>

UnlockDemand(d) ==
    /\ At(d, "critical")
    /\ mutex' = None
    /\ Goto(d, "unlocked")
    /\ UNCHANGED <<demand, handoff_gen, gen, overtaken>>

(* Mutant: the generation is bumped by the next lockDemand, too late. *)
BumpNothing(d) ==
    /\ At(d, "unlocked")
    /\ Goto(d, "wake")
    /\ UNCHANGED <<mutex, demand, handoff_gen, gen, overtaken>>

Bump(d) ==
    /\ At(d, "unlocked")
    /\ handoff_gen' = handoff_gen + 1
    /\ Goto(d, "wake")
    /\ UNCHANGED <<mutex, demand, gen, overtaken>>

Wake(d) ==
    /\ At(d, "wake")
    /\ pc' = [pc EXCEPT ![d] = "out",
                        ![Parser] = IF @ = "asleep" THEN "out" ELSE @]
    /\ UNCHANGED <<mutex, demand, handoff_gen, gen, overtaken>>

-----------------------------------------------------------------------------
(* The parse thread: processOutput, then yieldToDemand. *)

ParserLock ==
    /\ At(Parser, "out") /\ mutex = None
    /\ mutex' = Parser
    /\ overtaken' = IF (\E d \in Demanders : At(d, "lock"))
                       /\ overtaken < OvertakenCap
                    THEN overtaken + 1 ELSE overtaken
    /\ Goto(Parser, "critical")
    /\ UNCHANGED <<demand, handoff_gen, gen>>

ParserUnlock ==
    /\ At(Parser, "critical")
    /\ mutex' = None
    /\ Goto(Parser, "check")
    /\ UNCHANGED <<demand, handoff_gen, gen, overtaken>>

(* Mutant: the parse thread never yields. *)
CheckDemandNever ==
    /\ At(Parser, "check")
    /\ Goto(Parser, "out")
    /\ UNCHANGED <<mutex, demand, handoff_gen, gen, overtaken>>

CheckDemand ==
    /\ At(Parser, "check")
    /\ Goto(Parser, IF demand = 0 THEN "out" ELSE "snapshot")
    /\ UNCHANGED <<mutex, demand, handoff_gen, gen, overtaken>>

Snapshot ==
    /\ At(Parser, "snapshot")
    /\ gen' = handoff_gen
    /\ Goto(Parser, "recheck")
    /\ UNCHANGED <<mutex, demand, handoff_gen, overtaken>>

(* Mutant: demand is not looked at again after the snapshot. *)
RecheckSkipped ==
    /\ At(Parser, "recheck")
    /\ Goto(Parser, "wait")
    /\ UNCHANGED <<mutex, demand, handoff_gen, gen, overtaken>>

Recheck ==
    /\ At(Parser, "recheck")
    /\ Goto(Parser, IF demand = 0 THEN "out" ELSE "wait")
    /\ UNCHANGED <<mutex, demand, handoff_gen, gen, overtaken>>

(* The futex compares and sleeps atomically. *)
FutexWait ==
    /\ At(Parser, "wait")
    /\ Goto(Parser, IF handoff_gen = gen THEN "asleep" ELSE "out")
    /\ UNCHANGED <<mutex, demand, handoff_gen, gen, overtaken>>

FutexTimeout ==
    /\ At(Parser, "asleep")
    /\ overtaken' = 0
    /\ Goto(Parser, "out")
    /\ UNCHANGED <<mutex, demand, handoff_gen, gen>>

-----------------------------------------------------------------------------
(* Any other thread: a plain lock and unlock. *)

OtherLock(t) ==
    /\ At(t, "out") /\ mutex = None
    /\ mutex' = t
    /\ Goto(t, "critical")
    /\ UNCHANGED <<demand, handoff_gen, gen, overtaken>>

OtherUnlock(t) ==
    /\ At(t, "critical")
    /\ mutex' = None
    /\ Goto(t, "out")
    /\ UNCHANGED <<demand, handoff_gen, gen, overtaken>>

-----------------------------------------------------------------------------
Turn(d) == LockDemand(d) \/ Withdraw(d) \/ UnlockDemand(d) \/ Bump(d) \/ Wake(d)
Parse ==
    ParserLock \/ ParserUnlock \/ CheckDemand \/ Snapshot \/ Recheck \/ FutexWait
Other(t) == OtherLock(t) \/ OtherUnlock(t)

Next ==
    \/ \E d \in Demanders : Announce(d) \/ Turn(d)
    \/ \E t \in Others : Other(t)
    \/ Parse \/ FutexTimeout

Spec == Init /\ [][Next]_vars

(* Every thread runs when it can.  Fairness is weak: the mutex owes a      *)
(* waiter nothing while others keep taking it.  Nothing waits for the      *)
(* timeout, which has none.                                                *)
FairSpec ==
    /\ Spec
    /\ WF_vars(Parse)
    /\ \A d \in Demanders : WF_vars(Turn(d))
    /\ \A t \in Others : WF_vars(OtherUnlock(t))

-----------------------------------------------------------------------------
DemanderPCs == {"out", "lock", "locked", "critical", "unlocked", "wake"}
ParserPCs == {"out", "critical", "check", "snapshot", "recheck", "wait", "asleep"}

TypeOK ==
    /\ mutex \in Threads \cup {None}
    /\ demand \in Nat /\ handoff_gen \in Nat /\ gen \in Nat
    /\ pc \in [Threads -> DemanderPCs \cup ParserPCs]
    /\ overtaken \in Nat

(* The demand count is exact, so the unsigned decrement never underflows   *)
(* (the assertion in lockDemand) and yieldToDemand never misses a waiter.  *)
DemandExact ==
    demand = Cardinality({d \in Demanders : pc[d] \in {"lock", "locked"}})

(* A parse thread asleep in yieldToDemand is waiting for somebody: while   *)
(* the generation has not moved some demander is still before its bump,    *)
(* and once it has moved the wake is still to come.                        *)
NoLostHandoff ==
    At(Parser, "asleep") =>
        IF handoff_gen = gen
        THEN \E d \in Demanders : pc[d] \in {"lock", "locked", "critical", "unlocked"}
        ELSE \E d \in Demanders : pc[d] = "wake"

(* Between two turns of demanders the parse thread takes the mutex a       *)
(* bounded number of times although the mutex is unfair, unless a hand-off *)
(* times out: once with the one demander that the code has (the parse      *)
(* thread was past its last check when the demander asked), and twice more *)
(* for each further one, whose bump and whose wake come too late.          *)
BoundedOvertaking == overtaken <= 2 * Cardinality(Demanders) - 1

Intrusion == \E t \in Others : OtherLock(t)

(* The renderer gets its turn although the mutex is unfair, once the other *)
(* threads leave the mutex alone and hand-offs no longer time out.         *)
RendererGetsTurn ==
    <>[][~Intrusion /\ ~FutexTimeout]_vars
        => \A d \in Demanders : At(d, "lock") ~> At(d, "critical")

(* The parse thread is never parked for good, even without its timeout,    *)
(* once the other threads leave the mutex alone.                           *)
YieldReturns ==
    <>[][~Intrusion]_vars => (At(Parser, "check") ~> At(Parser, "out"))

=============================================================================
