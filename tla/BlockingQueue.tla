--------------------------- MODULE BlockingQueue ---------------------------
(***************************************************************************)
(* The bounded queue of src/src/datastruct/blocking_queue.zig.  Every      *)
(* mailbox of the program (app, renderer, IO writer, search, CoreFoundation*)
(* release thread) is one of these.                                        *)
(*                                                                         *)
(* Each public function runs under the queue's mutex, so a function that   *)
(* does not wait is one action; push, when it waits, is split where the    *)
(* condition variable releases the mutex, and drain holds the mutex from   *)
(* DrainBegin to DrainDeinit (`draining').                                 *)
(*                                                                         *)
(* The condition variable keeps a count of its waiters and a count of      *)
(* signals not yet consumed.  Its waiters sleep on a futex; whoever the    *)
(* futex lets go looks for a signal, and sleeps again if there is none.    *)
(***************************************************************************)
EXTENDS Naturals, FiniteSets

CONSTANTS Producers,   \* threads that push
          Messages,    \* values that are pushed
          Timeouts,    \* the Timeout variants the producers use
          Capacity,    \* `bounds' in the code (64 in every instance)
          Undefined    \* content of a slot never written

ASSUME CapacityAssumption == Capacity \in Nat \ {0}
ASSUME TimeoutsAssumption == Timeouts \subseteq {"instant", "forever", "ns"}
ASSUME UndefinedAssumption == Undefined \notin Messages
ASSUME ProducersAssumption == IsFiniteSet(Producers)

VARIABLES data, read, write, len,  \* the ring
          not_full_waiters,        \* pushes between += 1 and -= 1
          signals,                 \* unconsumed signals of cond_not_full
          draining,                \* a DrainIterator holds the mutex
          pc,                      \* where each producer is in push
          value,                   \* the value argument of its push
          timeout,                 \* the timeout argument of its push
          ret,                     \* what its last push returned
          popped                   \* what the last pop returned

ring == <<data, read, write, len>>
vars == <<data, read, write, len, not_full_waiters, signals, draining,
          pc, value, timeout, ret, popped>>

Slots == 0 .. Capacity - 1

(* waiting: asleep on the futex.  roused: out of it, about to look for a  *)
(* signal.  woken: consumed a signal, the mutex not yet taken back.       *)
(* expiring: waitTimeout passed its deadline and found no signal, but is  *)
(* still counted as a waiter.  expired: no longer counted, the mutex not  *)
(* yet taken back.                                                        *)
PCs == {"idle", "waiting", "roused", "woken", "expiring", "expired"}
At(s) == {p \in Producers : pc[p] = s}

(* The `waiters' half of the condition variable's state word. *)
CondWaiters == {p \in Producers : pc[p] \in {"waiting", "roused", "expiring"}}

full == len = Capacity
(* Mutant: the wrap-around tests the wrong side of the bound. *)
AdvanceOffByOne(i) == IF i + 1 > Capacity THEN i + 1 - Capacity ELSE i + 1

Advance(i) == IF i + 1 >= Capacity THEN i + 1 - Capacity ELSE i + 1

Init ==
    /\ data = [s \in Slots |-> Undefined]
    /\ read = 0 /\ write = 0 /\ len = 0
    /\ not_full_waiters = 0
    /\ signals = 0
    /\ draining = FALSE
    /\ pc = [p \in Producers |-> "idle"]
    /\ value = [p \in Producers |-> Undefined]
    /\ timeout = [p \in Producers |-> "instant"]
    /\ ret = [p \in Producers |-> 0]
    /\ popped = Undefined

-----------------------------------------------------------------------------
(* push *)

Enqueue(m) ==
    /\ data' = [data EXCEPT ![write] = m]
    /\ write' = Advance(write)
    /\ len' = len + 1
    /\ read' = read

(* The call's arguments die with it. *)
Return(p, n) ==
    /\ ret' = [ret EXCEPT ![p] = n]
    /\ pc' = [pc EXCEPT ![p] = "idle"]
    /\ value' = [value EXCEPT ![p] = Undefined]
    /\ timeout' = [timeout EXCEPT ![p] = "instant"]

(* A call that finds room, or that may not wait, finishes at once. *)
PushNow(p, m, t) ==
    /\ pc[p] = "idle" /\ ~draining
    /\ \/ ~full /\ Enqueue(m) /\ Return(p, len + 1)
       \/ full /\ t = "instant" /\ Return(p, 0) /\ UNCHANGED ring
    /\ UNCHANGED <<not_full_waiters, signals, draining, popped>>

(* A call that finds the queue full starts to wait. *)
PushWait(p, m, t) ==
    /\ pc[p] = "idle" /\ ~draining
    /\ full /\ t # "instant"
    /\ value' = [value EXCEPT ![p] = m]
    /\ timeout' = [timeout EXCEPT ![p] = t]
    /\ not_full_waiters' = not_full_waiters + 1
    /\ pc' = [pc EXCEPT ![p] = "waiting"]
    /\ UNCHANGED <<ring, signals, draining, ret, popped>>

(* The futex lets go of a waiter for no reason, or because of its deadline. *)
Rouse(p) ==
    /\ pc[p] = "waiting"
    /\ pc' = [pc EXCEPT ![p] = "roused"]
    /\ UNCHANGED <<ring, not_full_waiters, signals, draining, value, timeout,
                   ret, popped>>

(* The waiter consumes a signal; it does not hold the mutex yet. *)
WakeUp(p) ==
    /\ pc[p] = "roused" /\ signals > 0
    /\ signals' = signals - 1
    /\ pc' = [pc EXCEPT ![p] = "woken"]
    /\ UNCHANGED <<ring, not_full_waiters, draining, value, timeout, ret, popped>>

(* Mutant: the waiter sleeps again without having looked. *)
ResleepBlindly(p) ==
    /\ pc[p] = "roused"
    /\ pc' = [pc EXCEPT ![p] = "waiting"]
    /\ UNCHANGED <<ring, not_full_waiters, signals, draining, value, timeout,
                   ret, popped>>

Resleep(p) ==
    /\ pc[p] = "roused" /\ signals = 0
    /\ pc' = [pc EXCEPT ![p] = "waiting"]
    /\ UNCHANGED <<ring, not_full_waiters, signals, draining, value, timeout,
                   ret, popped>>

(* A timed waiter passes its deadline with no signal to consume.  Looking *)
(* for a signal and leaving the waiter count are two atomic operations,   *)
(* and neither is done under the queue's mutex.                           *)
Expire(p) ==
    /\ pc[p] = "roused" /\ timeout[p] = "ns" /\ signals = 0
    /\ pc' = [pc EXCEPT ![p] = "expiring"]
    /\ UNCHANGED <<ring, not_full_waiters, signals, draining, value, timeout,
                   ret, popped>>

LeaveWaiters(p) ==
    /\ pc[p] = "expiring"
    /\ pc' = [pc EXCEPT ![p] = "expired"]
    /\ UNCHANGED <<ring, not_full_waiters, signals, draining, value, timeout,
                   ret, popped>>

(* Mutant: the queue is not tested again after the wait. *)
ResumeUnchecked(p) ==
    /\ pc[p] = "woken" /\ ~draining
    /\ not_full_waiters' = not_full_waiters - 1
    /\ Enqueue(value[p]) /\ Return(p, len + 1)
    /\ UNCHANGED <<signals, draining, popped>>

(* The woken waiter holds the mutex again.  The queue is tested once more, *)
(* and once only: if a third party refilled it the push fails.             *)
Resume(p) ==
    /\ pc[p] = "woken" /\ ~draining
    /\ not_full_waiters' = not_full_waiters - 1
    /\ \/ ~full /\ Enqueue(value[p]) /\ Return(p, len + 1)
       \/ full /\ Return(p, 0) /\ UNCHANGED ring
    /\ UNCHANGED <<signals, draining, popped>>

(* Mutant: the early return of a timed push keeps its place in the count. *)
GiveUpCounted(p) ==
    /\ pc[p] = "expired" /\ ~draining
    /\ Return(p, 0)
    /\ UNCHANGED <<ring, not_full_waiters, signals, draining, popped>>

GiveUp(p) ==
    /\ pc[p] = "expired" /\ ~draining
    /\ not_full_waiters' = not_full_waiters - 1
    /\ Return(p, 0)
    /\ UNCHANGED <<ring, signals, draining, popped>>

-----------------------------------------------------------------------------
(* pop and drain *)

(* Mutant: the read index is not advanced. *)
DequeueInPlace ==
    /\ len > 0
    /\ len' = len - 1
    /\ popped' = data[read]
    /\ UNCHANGED <<data, read, write>>

Dequeue ==
    /\ len > 0
    /\ read' = Advance(read)
    /\ len' = len - 1
    /\ popped' = data[read]
    /\ UNCHANGED <<data, write>>

(* signal() does nothing when every waiter of the condition variable has  *)
(* a signal already.  It lets go one waiter asleep on the futex, and those *)
(* who were on their way to sleep notice that the epoch has moved.        *)
Signal ==
    IF not_full_waiters > 0 /\ signals < Cardinality(CondWaiters)
    THEN /\ signals' = signals + 1
         /\ \E roused \in SUBSET At("waiting") :
               /\ At("waiting") # {} => roused # {}
               /\ pc' = [p \in Producers |-> IF p \in roused THEN "roused" ELSE pc[p]]
    ELSE UNCHANGED <<signals, pc>>

(* Mutant: only the pop that takes the queue out of the full state signals. *)
PopSignalsIfFull ==
    /\ ~draining
    /\ Dequeue
    /\ IF full THEN Signal ELSE UNCHANGED <<signals, pc>>
    /\ UNCHANGED <<not_full_waiters, draining, value, timeout, ret>>

Pop ==
    /\ ~draining
    /\ Dequeue
    /\ Signal
    /\ UNCHANGED <<not_full_waiters, draining, value, timeout, ret>>

DrainBegin ==
    /\ ~draining
    /\ draining' = TRUE
    /\ UNCHANGED <<ring, not_full_waiters, signals, pc, value, timeout, ret, popped>>

DrainNext ==
    /\ draining
    /\ Dequeue
    /\ UNCHANGED <<not_full_waiters, signals, draining, pc, value, timeout, ret>>

(* Mutant: a drain ends without the signal. *)
DrainDeinitSilent ==
    /\ draining
    /\ draining' = FALSE
    /\ UNCHANGED <<ring, not_full_waiters, signals, pc, value, timeout, ret, popped>>

DrainDeinit ==
    /\ draining
    /\ Signal
    /\ draining' = FALSE
    /\ UNCHANGED <<ring, not_full_waiters, value, timeout, ret, popped>>

-----------------------------------------------------------------------------
Push(p) == \E m \in Messages, t \in Timeouts : PushNow(p, m, t) \/ PushWait(p, m, t)
Wait(p) ==
    \/ WakeUp(p) \/ Resleep(p) \/ Expire(p) \/ LeaveWaiters(p)
    \/ Resume(p) \/ GiveUp(p)
Drain == DrainBegin \/ DrainNext \/ DrainDeinit

Next == (\E p \in Producers : Push(p) \/ Rouse(p) \/ Wait(p)) \/ Pop \/ Drain

Spec == Init /\ [][Next]_vars

(* What the program does: drain is only called by the queue's own test.   *)
PopNext == (\E p \in Producers : Push(p) \/ Rouse(p) \/ Wait(p)) \/ Pop
PopSpec == Init /\ [][PopNext]_vars

(* The consumer's event loop keeps popping while it has messages, and a   *)
(* thread that can run is eventually run.  Nothing promises that a futex  *)
(* lets go of a waiter without being told.                                *)
FairPopSpec ==
    /\ PopSpec
    /\ WF_vars(Pop)
    /\ \A p \in Producers : WF_vars(Wait(p))

-----------------------------------------------------------------------------
TypeOK ==
    /\ data \in [Slots -> Messages \cup {Undefined}]
    /\ read \in Slots /\ write \in Slots /\ len \in 0 .. Capacity
    /\ not_full_waiters \in Nat
    /\ signals \in Nat
    /\ draining \in BOOLEAN
    /\ pc \in [Producers -> PCs]
    /\ value \in [Producers -> Messages \cup {Undefined}]
    /\ timeout \in [Producers -> {"instant", "forever", "ns"}]
    /\ ret \in [Producers -> 0 .. Capacity]
    /\ popped \in Messages \cup {Undefined}

(* The slot of the i-th unread message, i = 0 being the oldest. *)
SlotOf(i) == IF read + i >= Capacity THEN read + i - Capacity ELSE read + i

(* The unread messages in the order they were pushed. *)
Contents == [i \in 1 .. len |-> data[SlotOf(i - 1)]]

Fifo == INSTANCE FifoQueue WITH
    None <- Undefined,
    queue <- Contents,
    pending <- value,
    result <- ret,
    taken <- popped

(* The ring, its counters and its waiters behave as a bounded FIFO queue:  *)
(* no message is lost, duplicated, reordered or overwritten once accepted, *)
(* and the value returned tells whether it was.                            *)
ImplementsFifo == Fifo!Spec

(* The three counters agree: `write' is the slot after the last unread one *)
(* (so that push overwrites no unread message), and every unread slot has  *)
(* been written (so that pop hands out no undefined memory).               *)
RingConsistent ==
    /\ write = IF read + len >= Capacity THEN read + len - Capacity ELSE read + len
    /\ \A i \in 0 .. len - 1 : data[SlotOf(i)] # Undefined

(* not_full_waiters counts exactly the pushes in progress, so pop never    *)
(* skips the signal a sleeping producer needs.                             *)
WaitersCounted ==
    not_full_waiters = Cardinality({p \in Producers : pc[p] # "idle"})

(* What the code's bookkeeping promises of its counters. *)
CountersAgree == RingConsistent /\ WaitersCounted

(* Producers that wait for a signal. *)
Sleepers == At("waiting") \cup At("roused")

(* No lost wake-up: a producer asleep in push always has either a message  *)
(* ahead of it whose pop will signal it, or a signal or an already woken   *)
(* producer on the way, or a drain in progress that ends with a signal.    *)
NoLostWakeup ==
    Sleepers # {} =>
        \/ len > 0
        \/ signals > 0
        \/ At("woken") # {}
        \/ draining

(* Every signal not yet consumed has a producer awake to consume it, as    *)
(* long as no wait is timed: a signal is posted once, so one that its      *)
(* waiter slept through would be a wake-up lost.  (A timed wait looks for  *)
(* a signal and leaves the waiter count in two steps; a signal in between  *)
(* is stranded.)                                                           *)
SignalsAreHeard ==
    "ns" \notin Timeouts => signals <= Cardinality(At("roused"))

(* Once the producers stop making new calls, every call in progress        *)
(* returns: no producer sleeps for ever while the consumer keeps popping.  *)
PushesReturn ==
    <>[][~ \E p \in Producers : pc[p] = "idle" /\ pc'[p] = "waiting"]_vars
        => \A p \in Producers : []<>(pc[p] = "idle")

=============================================================================
