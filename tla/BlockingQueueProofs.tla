------------------------ MODULE BlockingQueueProofs ------------------------
(***************************************************************************)
(* Safety of the bounded queue for every number of producers, every        *)
(* capacity and every set of messages.                                     *)
(***************************************************************************)
EXTENDS BlockingQueue, FiniteSetTheorems, SequenceTheorems, TLAPS

(* The message of a push in progress is a message; there is no other. *)
ArgumentsHeld ==
    \A p \in Producers :
        IF pc[p] = "idle" THEN value[p] = Undefined ELSE value[p] \in Messages

(* TypeOK and RingConsistent are not inductive by themselves: that the    *)
(* decrements of not_full_waiters stay in Nat needs WaitersCounted, and   *)
(* that a resumed push writes a message needs ArgumentsHeld.              *)
IInv == TypeOK /\ RingConsistent /\ WaitersCounted /\ ArgumentsHeld

Busy == {p \in Producers : pc[p] # "idle"}

-----------------------------------------------------------------------------
(* Counting the producers inside push.                                     *)

(* Whatever the state, the producers inside push are finitely many. *)
LEMMA BusyFinite == IsFiniteSet(Busy)
  BY ProducersAssumption, FS_Subset DEF Busy

(* A producer that begins to wait is one more producer inside push. *)
LEMMA BusyGrows ==
    ASSUME NEW p \in Producers, pc[p] = "idle", pc \in [Producers -> PCs],
           pc' = [pc EXCEPT ![p] = "waiting"]
    PROVE  Cardinality(Busy') = Cardinality(Busy) + 1
<1>1. Busy' = Busy \cup {p} /\ p \notin Busy
  BY DEF Busy
<1>2. QED
  BY <1>1, BusyFinite, FS_AddElement

(* A push that returns is one producer less inside push. *)
LEMMA BusyShrinks ==
    ASSUME NEW p \in Producers, pc[p] # "idle", pc \in [Producers -> PCs],
           pc' = [pc EXCEPT ![p] = "idle"]
    PROVE  /\ Cardinality(Busy') = Cardinality(Busy) - 1
           /\ Cardinality(Busy) \in Nat \ {0}
<1>1. Busy' = Busy \ {p} /\ p \in Busy
  BY DEF Busy
<1>2. Cardinality(Busy \ {p}) = Cardinality(Busy) - 1
  BY <1>1, BusyFinite, FS_RemoveElement
<1>3. Cardinality(Busy) \in Nat /\ Cardinality(Busy) # 0
  BY <1>1, BusyFinite, FS_CardinalityType, FS_EmptySet
<1>4. QED
  BY <1>1, <1>2, <1>3

(* Steps that move a producer between two states inside push, or none,    *)
(* leave the set of producers inside push alone.                          *)
LEMMA BusyStays ==
    ASSUME NEW p \in Producers, NEW s \in PCs \ {"idle"}, pc[p] # "idle",
           pc \in [Producers -> PCs], pc' = [pc EXCEPT ![p] = s]
    PROVE  Busy' = Busy
  BY DEF Busy

(* A signal moves waiters out of the futex, nobody in or out of push. *)
LEMMA SignalStays ==
    ASSUME pc \in [Producers -> PCs], signals \in Nat, Signal
    PROVE  /\ pc' \in [Producers -> PCs] /\ signals' \in Nat
           /\ \A p \in Producers : pc'[p] = "idle" <=> pc[p] = "idle"
           /\ Busy' = Busy
<1>1. CASE UNCHANGED <<signals, pc>>
  BY <1>1 DEF Busy
<1>2. ASSUME NEW roused \in SUBSET At("waiting"), signals' = signals + 1,
             pc' = [p \in Producers |-> IF p \in roused THEN "roused" ELSE pc[p]]
      PROVE  /\ pc' \in [Producers -> PCs] /\ signals' \in Nat
             /\ \A p \in Producers : pc'[p] = "idle" <=> pc[p] = "idle"
             /\ Busy' = Busy
  BY <1>2 DEF At, PCs, Busy
<1>3. QED
  BY <1>1, <1>2 DEF Signal

-----------------------------------------------------------------------------
(* The ring.                                                               *)

(* Enqueue writes the free slot after the last unread message. *)
LEMMA EnqueueSafe ==
    ASSUME IInv, NEW m \in Messages, ~full, Enqueue(m)
    PROVE  /\ data' \in [Slots -> Messages \cup {Undefined}]
           /\ read' \in Slots /\ write' \in Slots /\ len' \in 0 .. Capacity
           /\ RingConsistent'
<1> USE CapacityAssumption
<1>1. /\ data' \in [Slots -> Messages \cup {Undefined}]
      /\ read' \in Slots /\ write' \in Slots /\ len' \in 0 .. Capacity
  BY DEF IInv, TypeOK, Enqueue, Advance, full, Slots
<1>2. (write = IF read + len >= Capacity THEN read + len - Capacity ELSE read + len)'
  BY DEF IInv, TypeOK, RingConsistent, Enqueue, Advance, full, Slots
<1>3. ASSUME NEW i \in 0 .. len' - 1
      PROVE  (data[SlotOf(i)] # Undefined)'
  <2>1. SlotOf(i)' = SlotOf(i) /\ SlotOf(i) \in Slots
    BY <1>3 DEF IInv, TypeOK, Enqueue, SlotOf, full, Slots
  <2>2. CASE i = len
    <3>1. SlotOf(i) = write
      BY <2>2 DEF IInv, RingConsistent, SlotOf
    <3>2. data'[write] = m
      BY <2>1, <3>1 DEF IInv, TypeOK, Enqueue
    <3>3. QED
      BY <2>1, <3>1, <3>2, UndefinedAssumption
  <2>3. CASE i # len
    <3>1. i \in 0 .. len - 1
      BY <1>3, <2>3 DEF IInv, TypeOK, Enqueue
    <3>2. SlotOf(i) # write
      BY <3>1 DEF IInv, TypeOK, RingConsistent, SlotOf, full, Slots
    <3>3. data'[SlotOf(i)] = data[SlotOf(i)]
      BY <2>1, <3>2 DEF IInv, TypeOK, Enqueue
    <3>4. data[SlotOf(i)] # Undefined
      BY <3>1 DEF IInv, RingConsistent
    <3>5. QED
      BY <2>1, <3>3, <3>4
  <2>4. QED
    BY <2>2, <2>3
<1>4. QED
  BY <1>1, <1>2, <1>3 DEF RingConsistent

(* After a pop the i-th unread message is in the slot of the (i+1)-th. *)
LEMMA DequeueShifts ==
    ASSUME IInv, Dequeue, NEW i \in Nat, i < len'
    PROVE  SlotOf(i)' = SlotOf(i + 1) /\ i + 1 \in 0 .. len - 1
  BY CapacityAssumption DEF IInv, TypeOK, Dequeue, Advance, SlotOf, Slots

(* Dequeue takes a written slot and leaves the others in their order. *)
LEMMA DequeueSafe ==
    ASSUME IInv, Dequeue
    PROVE  /\ data' \in [Slots -> Messages \cup {Undefined}]
           /\ read' \in Slots /\ write' \in Slots /\ len' \in 0 .. Capacity
           /\ popped' \in Messages
           /\ RingConsistent'
<1> USE CapacityAssumption
<1>1. /\ data' \in [Slots -> Messages \cup {Undefined}]
      /\ read' \in Slots /\ write' \in Slots /\ len' \in 0 .. Capacity
  BY DEF IInv, TypeOK, Dequeue, Advance, Slots
<1>2. popped' \in Messages
  <2>1. SlotOf(0) = read
    BY DEF IInv, TypeOK, SlotOf, Slots
  <2>2. 0 \in 0 .. len - 1
    BY DEF IInv, TypeOK, Dequeue
  <2>3. data[SlotOf(0)] # Undefined
    BY <2>2 DEF IInv, RingConsistent
  <2>4. QED
    BY <2>1, <2>3 DEF IInv, TypeOK, Dequeue
<1>3. (write = IF read + len >= Capacity THEN read + len - Capacity ELSE read + len)'
  BY DEF IInv, TypeOK, RingConsistent, Dequeue, Advance, Slots
<1>4. ASSUME NEW i \in 0 .. len' - 1
      PROVE  (data[SlotOf(i)] # Undefined)'
  <2>1. SlotOf(i)' = SlotOf(i + 1) /\ i + 1 \in 0 .. len - 1
    BY <1>4, DequeueShifts DEF IInv, TypeOK, Dequeue
  <2>2. QED
    BY <2>1 DEF IInv, RingConsistent, Dequeue
<1>5. QED
  BY <1>1, <1>2, <1>3, <1>4 DEF RingConsistent

-----------------------------------------------------------------------------
(* The inductive invariant holds initially. *)
LEMMA InitIInv == Init => IInv
<1> SUFFICES ASSUME Init PROVE IInv
  OBVIOUS
<1> USE CapacityAssumption
<1>1. TypeOK
  <2>1. /\ data \in [Slots -> Messages \cup {Undefined}]
        /\ read \in Slots /\ write \in Slots /\ len \in 0 .. Capacity
    BY DEF Init, Slots
  <2>2. /\ not_full_waiters \in Nat
        /\ signals \in Nat
        /\ draining \in BOOLEAN
        /\ popped \in Messages \cup {Undefined}
    BY DEF Init
  <2>3. /\ pc \in [Producers -> PCs]
        /\ value \in [Producers -> Messages \cup {Undefined}]
        /\ timeout \in [Producers -> {"instant", "forever", "ns"}]
        /\ ret \in [Producers -> 0 .. Capacity]
    BY DEF Init, PCs
  <2>4. QED
    BY <2>1, <2>2, <2>3 DEF TypeOK
<1>2. RingConsistent /\ ArgumentsHeld
  BY DEF Init, RingConsistent, ArgumentsHeld
<1>3. WaitersCounted
  <2>1. {p \in Producers : pc[p] # "idle"} = {}
    BY DEF Init
  <2>2. QED
    BY <2>1, FS_EmptySet DEF Init, WaitersCounted
<1>4. QED
  BY <1>1, <1>2, <1>3 DEF IInv

(* Every step of the queue preserves the inductive invariant. *)
LEMMA NextIInv == IInv /\ [Next]_vars => IInv'
<1> SUFFICES ASSUME IInv, [Next]_vars PROVE IInv'
  OBVIOUS
<1> USE CapacityAssumption
<1>1. ASSUME NEW p \in Producers, NEW m \in Messages, NEW t \in Timeouts, PushNow(p, m, t)
      PROVE  IInv'
  <2>1. pc' = pc
    BY <1>1 DEF PushNow, Return, IInv, TypeOK
  <2>2. WaitersCounted' /\ ArgumentsHeld'
    BY <1>1, <2>1 DEF PushNow, Return, IInv, TypeOK, WaitersCounted, ArgumentsHeld
  <2>3. CASE ~full /\ Enqueue(m) /\ Return(p, len + 1)
    <3>1. ret' \in [Producers -> 0 .. Capacity]
      BY <2>3 DEF IInv, TypeOK, Return, full
    <3>2. TypeOK' /\ RingConsistent'
      BY <1>1, <2>1, <2>3, <3>1, EnqueueSafe DEF PushNow, Return, IInv, TypeOK
    <3>3. QED
      BY <2>2, <3>2 DEF IInv
  <2>4. CASE full /\ t = "instant" /\ Return(p, 0) /\ UNCHANGED ring
    <3>1. TypeOK'
      BY <1>1, <2>1, <2>4 DEF PushNow, Return, IInv, TypeOK, ring
    <3>2. RingConsistent'
      BY <2>4 DEF IInv, RingConsistent, SlotOf, ring
    <3>3. QED
      BY <2>2, <3>1, <3>2 DEF IInv
  <2>5. QED
    BY <1>1, <2>3, <2>4 DEF PushNow
<1>2. ASSUME NEW p \in Producers, NEW m \in Messages, NEW t \in Timeouts, PushWait(p, m, t)
      PROVE  IInv'
  <2>1. TypeOK' /\ RingConsistent' /\ ArgumentsHeld'
    BY <1>2, TimeoutsAssumption
    DEF PushWait, IInv, TypeOK, RingConsistent, ArgumentsHeld, SlotOf, ring, PCs
  <2>2. Cardinality(Busy') = Cardinality(Busy) + 1
    BY <1>2, BusyGrows DEF PushWait, IInv, TypeOK
  <2>3. WaitersCounted'
    BY <1>2, <2>2 DEF PushWait, IInv, WaitersCounted, Busy
  <2>4. QED
    BY <2>1, <2>3 DEF IInv
<1>3. ASSUME NEW p \in Producers, Rouse(p) \/ WakeUp(p) \/ Resleep(p) \/ Expire(p) \/ LeaveWaiters(p)
      PROVE  IInv'
  <2>1. TypeOK' /\ RingConsistent' /\ ArgumentsHeld'
    BY <1>3 DEF Rouse, WakeUp, Resleep, Expire, LeaveWaiters, IInv, TypeOK, RingConsistent,
                ArgumentsHeld, SlotOf, ring, PCs
  <2>2. Busy' = Busy
    BY <1>3, BusyStays DEF Rouse, WakeUp, Resleep, Expire, LeaveWaiters, IInv, TypeOK, PCs
  <2>3. WaitersCounted'
    BY <1>3, <2>2 DEF Rouse, WakeUp, Resleep, Expire, LeaveWaiters, IInv, WaitersCounted, Busy
  <2>4. QED
    BY <2>1, <2>3 DEF IInv
<1>4. ASSUME NEW p \in Producers, Resume(p) \/ GiveUp(p)
      PROVE  IInv'
  <2>1. /\ Cardinality(Busy') = Cardinality(Busy) - 1
        /\ Cardinality(Busy) \in Nat \ {0}
    BY <1>4, BusyShrinks DEF Resume, GiveUp, Return, IInv, TypeOK
  <2>2. not_full_waiters = Cardinality(Busy)
    BY DEF IInv, WaitersCounted, Busy
  <2>3. not_full_waiters' \in Nat /\ not_full_waiters' = Cardinality(Busy')
    BY <1>4, <2>1, <2>2 DEF Resume, GiveUp
  <2>4. WaitersCounted'
    BY <2>3 DEF WaitersCounted, Busy
  <2>5. ArgumentsHeld'
    BY <1>4 DEF Resume, GiveUp, Return, IInv, TypeOK, ArgumentsHeld
  <2>6. CASE ~full /\ Enqueue(value[p]) /\ Return(p, len + 1) /\ Resume(p)
    <3>1. value[p] \in Messages
      BY <2>6 DEF Resume, IInv, ArgumentsHeld
    <3>2. ret' \in [Producers -> 0 .. Capacity]
      BY <2>6 DEF IInv, TypeOK, Return, full
    <3>3. TypeOK' /\ RingConsistent'
      BY <2>3, <2>6, <3>1, <3>2, EnqueueSafe DEF Resume, Return, IInv, TypeOK, PCs
    <3>4. QED
      BY <2>4, <2>5, <3>3 DEF IInv
  <2>7. CASE Return(p, 0) /\ UNCHANGED ring /\ (Resume(p) \/ GiveUp(p))
    <3>1. TypeOK'
      BY <2>3, <2>7 DEF Resume, GiveUp, Return, IInv, TypeOK, ring, PCs
    <3>2. RingConsistent'
      BY <2>7 DEF IInv, RingConsistent, SlotOf, ring
    <3>3. QED
      BY <2>4, <2>5, <3>1, <3>2 DEF IInv
  <2>8. QED
    BY <1>4, <2>6, <2>7 DEF Resume, GiveUp
<1>5. ASSUME Pop \/ DrainNext
      PROVE  IInv'
  <2>0. /\ pc' \in [Producers -> PCs] /\ signals' \in Nat
        /\ \A p \in Producers : pc'[p] = "idle" <=> pc[p] = "idle"
        /\ Busy' = Busy
    BY <1>5, SignalStays DEF Pop, DrainNext, Busy, IInv, TypeOK
  <2>1. WaitersCounted'
    BY <1>5, <2>0 DEF Pop, DrainNext, IInv, WaitersCounted, Busy
  <2>2. ArgumentsHeld'
    BY <1>5, <2>0 DEF Pop, DrainNext, IInv, ArgumentsHeld
  <2>3. TypeOK' /\ RingConsistent'
    BY <1>5, <2>0, DequeueSafe DEF Pop, DrainNext, IInv, TypeOK
  <2>4. QED
    BY <2>1, <2>2, <2>3 DEF IInv
<1>6. ASSUME DrainBegin \/ DrainDeinit
      PROVE  IInv'
  <2>0. /\ pc' \in [Producers -> PCs] /\ signals' \in Nat
        /\ \A p \in Producers : pc'[p] = "idle" <=> pc[p] = "idle"
        /\ Busy' = Busy
    BY <1>6, SignalStays DEF DrainBegin, DrainDeinit, Busy, IInv, TypeOK
  <2>1. TypeOK'
    <3>1. draining' \in BOOLEAN
      BY <1>6 DEF DrainBegin, DrainDeinit
    <3>2. QED
      BY <1>6, <2>0, <3>1 DEF DrainBegin, DrainDeinit, IInv, TypeOK, ring
  <2>2. WaitersCounted'
    BY <1>6, <2>0 DEF DrainBegin, DrainDeinit, IInv, WaitersCounted, Busy
  <2>3. RingConsistent' /\ ArgumentsHeld'
    BY <1>6, <2>0 DEF DrainBegin, DrainDeinit, IInv, RingConsistent,
                      ArgumentsHeld, SlotOf, ring
  <2>4. QED
    BY <2>1, <2>2, <2>3 DEF IInv
<1>7. CASE UNCHANGED vars
  BY <1>7 DEF vars, IInv, TypeOK, RingConsistent, WaitersCounted, ArgumentsHeld, SlotOf
<1>8. QED
  BY <1>1, <1>2, <1>3, <1>4, <1>5, <1>6, <1>7 DEF Next, Push, Wait, Drain

(* The queue's counters, indices and waiters keep their types: the waiter  *)
(* count never goes below zero and no index leaves the array.              *)
THEOREM TypeCorrect == Spec => []TypeOK
<1>1. IInv => TypeOK
  BY DEF IInv
<1>2. QED
  BY <1>1, InitIInv, NextIInv, PTL DEF Spec

(* push overwrites no unread message and pop returns no undefined slot,    *)
(* for any capacity, any number of producers and any use of drain.         *)
THEOREM RingSafe == Spec => []RingConsistent
<1>1. IInv => RingConsistent
  BY DEF IInv
<1>2. QED
  BY <1>1, InitIInv, NextIInv, PTL DEF Spec

(* not_full_waiters is the number of pushes in progress, also on the early *)
(* return of a timed push.                                                 *)
THEOREM WaitersCorrect == Spec => []WaitersCounted
<1>1. IInv => WaitersCounted
  BY DEF IInv
<1>2. QED
  BY <1>1, InitIInv, NextIInv, PTL DEF Spec

(* Ring indices and waiter count are right together.                       *)
THEOREM CountersCorrect == Spec => []CountersAgree
<1>1. RingConsistent /\ WaitersCounted => CountersAgree
  BY DEF CountersAgree
<1>2. QED
  BY <1>1, RingSafe, WaitersCorrect, PTL

-----------------------------------------------------------------------------
(* Pop and DrainDeinit send a signal that some sleeping producer can take. *)
LEMMA SignalReaches ==
    ASSUME IInv, Sleepers # {}, Signal
    PROVE  signals' > 0
<1>1. PICK p \in Producers : pc[p] \in {"waiting", "roused"}
  BY DEF Sleepers, At
<1>2. p \in Busy /\ p \in CondWaiters
  BY <1>1 DEF Busy, CondWaiters
<1>3. Cardinality(Busy) \in Nat /\ Cardinality(Busy) # 0
  BY <1>2, BusyFinite, FS_CardinalityType, FS_EmptySet
<1>4. IsFiniteSet(CondWaiters)
  BY ProducersAssumption, FS_Subset DEF CondWaiters
<1>5. Cardinality(CondWaiters) \in Nat /\ Cardinality(CondWaiters) # 0
  BY <1>2, <1>4, FS_CardinalityType, FS_EmptySet
<1>6. not_full_waiters > 0 /\ signals \in Nat
  BY <1>3 DEF IInv, TypeOK, WaitersCounted, Busy
<1>7. QED
  BY <1>5, <1>6 DEF Signal

(* Every step preserves NoLostWakeup. *)
LEMMA NextWakeup == IInv /\ NoLostWakeup /\ [Next]_vars => NoLostWakeup'
<1> SUFFICES ASSUME IInv, NoLostWakeup, [Next]_vars, Sleepers' # {}
             PROVE  \/ len' > 0
                    \/ signals' > 0
                    \/ At("woken")' # {}
                    \/ draining'
  BY DEF NoLostWakeup
<1> USE CapacityAssumption
<1>1. ASSUME NEW p \in Producers, NEW m \in Messages, NEW t \in Timeouts, PushNow(p, m, t)
      PROVE  len' > 0
  BY <1>1 DEF PushNow, Enqueue, ring, full, IInv, TypeOK
<1>2. ASSUME NEW p \in Producers, NEW m \in Messages, NEW t \in Timeouts, PushWait(p, m, t)
      PROVE  len' > 0
  BY <1>2 DEF PushWait, ring, full, IInv, TypeOK
<1>3. ASSUME NEW p \in Producers, WakeUp(p)
      PROVE  At("woken")' # {}
  BY <1>3 DEF WakeUp, At, IInv, TypeOK
<1>4. ASSUME NEW p \in Producers,
             Rouse(p) \/ Resleep(p) \/ Expire(p) \/ LeaveWaiters(p) \/ GiveUp(p)
      PROVE  len' > 0 \/ signals' > 0 \/ At("woken")' # {} \/ draining'
  <2>1. Sleepers # {}
    BY <1>4 DEF Rouse, Resleep, Expire, LeaveWaiters, GiveUp, Return, At, Sleepers,
                IInv, TypeOK
  <2>2. At("woken") # {} => At("woken")' # {}
    BY <1>4 DEF Rouse, Resleep, Expire, LeaveWaiters, GiveUp, Return, At, IInv, TypeOK
  <2>3. UNCHANGED <<len, signals, draining>>
    BY <1>4 DEF Rouse, Resleep, Expire, LeaveWaiters, GiveUp, ring
  <2>4. QED
    BY <2>1, <2>2, <2>3 DEF NoLostWakeup
<1>5. ASSUME NEW p \in Producers, Resume(p)
      PROVE  len' > 0
  BY <1>5 DEF Resume, Enqueue, ring, full, IInv, TypeOK
<1>6. ASSUME Pop \/ DrainDeinit
      PROVE  signals' > 0
  <2>1. Signal
    BY <1>6 DEF Pop, DrainDeinit
  <2>2. Sleepers # {}
    BY <2>1 DEF Signal, At, Sleepers
  <2>3. QED
    BY <2>1, <2>2, SignalReaches
<1>7. ASSUME DrainBegin \/ DrainNext
      PROVE  draining'
  BY <1>7 DEF DrainBegin, DrainNext
<1>8. CASE UNCHANGED vars
  BY <1>8 DEF vars, NoLostWakeup, Sleepers, At
<1>9. QED
  BY <1>1, <1>2, <1>3, <1>4, <1>5, <1>6, <1>7, <1>8 DEF Next, Push, Wait, Drain

(* A producer never sleeps in push with an empty queue and nothing on its  *)
(* way to wake it, although a drain signals once for many freed slots.     *)
THEOREM NoWakeupIsLost == Spec => []NoLostWakeup
<1>1. Init => NoLostWakeup
  BY DEF Init, NoLostWakeup, Sleepers, At
<1>2. QED
  BY <1>1, InitIInv, NextIInv, NextWakeup, PTL DEF Spec

-----------------------------------------------------------------------------
(* Signals that are heard.  Without timed waits every waiter is asleep on  *)
(* the futex or awake; a waiter on its way out without a signal would be   *)
(* counted by signal() and never take one.                                 *)

Untimed ==
    \A p \in Producers : timeout[p] # "ns" /\ pc[p] \notin {"expiring", "expired"}

HeardInv == Untimed /\ signals <= Cardinality(At("roused"))

(* The producers at one place inside push are finitely many. *)
LEMMA AtFinite ==
    ASSUME NEW s
    PROVE  IsFiniteSet(At(s)) /\ Cardinality(At(s)) \in Nat
  BY ProducersAssumption, FS_Subset, FS_CardinalityType DEF At

(* A signal that is posted lets a sleeper go, or finds all of them awake. *)
LEMMA SignalHeard ==
    ASSUME IInv, HeardInv, Signal
    PROVE  signals' <= Cardinality(At("roused"))'
<1>1. CASE UNCHANGED <<signals, pc>>
  BY <1>1 DEF HeardInv, At
<1>2. ASSUME signals < Cardinality(CondWaiters), signals' = signals + 1,
             NEW R \in SUBSET At("waiting"), At("waiting") # {} => R # {},
             pc' = [p \in Producers |-> IF p \in R THEN "roused" ELSE pc[p]]
      PROVE  signals' <= Cardinality(At("roused"))'
  <2>1. At("roused")' = At("roused") \cup R
    BY <1>2 DEF At
  <2>2. signals \in Nat
    BY DEF IInv, TypeOK
  <2>3. CASE R = {}
    <3>1. CondWaiters = At("roused")
      BY <1>2, <2>3 DEF CondWaiters, At, HeardInv, Untimed
    <3>2. At("roused")' = At("roused")
      BY <2>1, <2>3
    <3>3. QED
      BY <1>2, <2>2, <3>1, <3>2, AtFinite
  <2>4. CASE R # {}
    <3>1. PICK q \in R : q \notin At("roused")
      BY <1>2, <2>4 DEF At
    <3>2. At("roused") \cup {q} \subseteq At("roused")'
      BY <2>1, <3>1
    <3>3. IsFiniteSet(At("roused")') /\ IsFiniteSet(At("roused"))
      BY ProducersAssumption, FS_Subset DEF At
    <3>4. Cardinality(At("roused") \cup {q}) = Cardinality(At("roused")) + 1
      BY <3>1, <3>3, FS_AddElement
    <3>5. Cardinality(At("roused") \cup {q}) <= Cardinality(At("roused")')
      BY <3>2, <3>3, FS_Subset
    <3>6. Cardinality(At("roused")') \in Nat /\ Cardinality(At("roused")) \in Nat
      BY <3>3, FS_CardinalityType
    <3>7. QED
      BY <1>2, <2>2, <3>4, <3>5, <3>6 DEF HeardInv
  <2>5. QED
    BY <2>3, <2>4
<1>3. QED
  BY <1>1, <1>2 DEF Signal

(* Every step keeps the waiters untimed and the signals heard. *)
LEMMA NextHeard ==
    ASSUME "ns" \notin Timeouts, IInv, HeardInv, [Next]_vars
    PROVE  HeardInv'
<1> USE TimeoutsAssumption
<1>0. signals \in Nat /\ pc \in [Producers -> PCs]
  BY DEF IInv, TypeOK
<1>1. ASSUME NEW p \in Producers, NEW m \in Messages, NEW t \in Timeouts,
             PushNow(p, m, t) \/ PushWait(p, m, t)
      PROVE  HeardInv'
  <2>1. Untimed'
    BY <1>1 DEF PushNow, PushWait, Return, HeardInv, Untimed, IInv, TypeOK
  <2>2. At("roused")' = At("roused") /\ signals' = signals
    BY <1>0, <1>1 DEF PushNow, PushWait, Return, At
  <2>3. QED
    BY <2>1, <2>2 DEF HeardInv
<1>2. ASSUME NEW p \in Producers, Rouse(p) \/ Resleep(p) \/ WakeUp(p)
      PROVE  HeardInv'
  <2>1. Untimed'
    BY <1>0, <1>2 DEF Rouse, Resleep, WakeUp, HeardInv, Untimed
  <2>2. CASE Rouse(p)
    <3>1. At("roused")' = At("roused") \cup {p} /\ p \notin At("roused")
      BY <1>0, <2>2 DEF Rouse, At
    <3>2. Cardinality(At("roused") \cup {p}) = Cardinality(At("roused")) + 1
      BY <3>1, AtFinite, FS_AddElement
    <3>3. signals' = signals
      BY <2>2 DEF Rouse
    <3>4. QED
      BY <1>0, <2>1, <3>1, <3>2, <3>3, AtFinite DEF HeardInv
  <2>3. CASE Resleep(p) \/ WakeUp(p)
    <3>1. At("roused")' = At("roused") \ {p} /\ p \in At("roused")
      BY <1>0, <2>3 DEF Resleep, WakeUp, At
    <3>2. Cardinality(At("roused") \ {p}) = Cardinality(At("roused")) - 1
      BY <3>1, AtFinite, FS_RemoveElement
    <3>3. Cardinality(At("roused")) \in Nat \ {0}
      BY <3>1, AtFinite, FS_EmptySet
    <3>4. \/ signals = 0 /\ signals' = 0
          \/ signals' = signals - 1
      BY <2>3 DEF Resleep, WakeUp
    <3>5. signals <= Cardinality(At("roused"))
      BY DEF HeardInv
    <3>6. signals' <= Cardinality(At("roused") \ {p})
      BY <1>0, <3>2, <3>3, <3>4, <3>5
    <3>7. QED
      BY <2>1, <3>1, <3>6 DEF HeardInv
  <2>4. QED
    BY <1>2, <2>2, <2>3
<1>3. ASSUME NEW p \in Producers, Expire(p) \/ LeaveWaiters(p) \/ GiveUp(p)
      PROVE  FALSE
  BY <1>3 DEF Expire, LeaveWaiters, GiveUp, HeardInv, Untimed
<1>4. ASSUME NEW p \in Producers, Resume(p)
      PROVE  HeardInv'
  <2>1. Untimed'
    BY <1>0, <1>4 DEF Resume, Return, HeardInv, Untimed, IInv, TypeOK
  <2>2. At("roused")' = At("roused") /\ signals' = signals
    BY <1>0, <1>4 DEF Resume, Return, At
  <2>3. QED
    BY <2>1, <2>2 DEF HeardInv
<1>5. ASSUME Pop \/ DrainDeinit
      PROVE  HeardInv'
  <2>1. Signal /\ timeout' = timeout
    BY <1>5 DEF Pop, DrainDeinit
  <2>2. Untimed'
    BY <2>1 DEF Signal, HeardInv, Untimed
  <2>3. QED
    BY <2>1, <2>2, SignalHeard DEF HeardInv
<1>6. CASE DrainBegin \/ DrainNext \/ UNCHANGED vars
  <2>1. UNCHANGED <<signals, pc, timeout>>
    BY <1>6 DEF DrainBegin, DrainNext, vars
  <2>2. QED
    BY <2>1 DEF HeardInv, Untimed, At
<1>7. QED
  BY <1>1, <1>2, <1>3, <1>4, <1>5, <1>6 DEF Next, Push, Wait, Drain

(* With pushes that wait for ever, as all that the program makes, no       *)
(* signal is slept through: each has a producer awake to consume it.       *)
THEOREM NoSignalIsMissed == Spec => []SignalsAreHeard
<1>1. Init => HeardInv
  <2> SUFFICES ASSUME Init PROVE HeardInv
    OBVIOUS
  <2>1. signals = 0 /\ Untimed
    BY DEF Init, Untimed
  <2>2. QED
    BY <2>1, AtFinite DEF HeardInv
<1>2. DEFINE Inv == "ns" \notin Timeouts => HeardInv
<1>3. Init => Inv
  BY <1>1
<1>4. IInv /\ Inv /\ [Next]_vars => Inv'
  BY NextHeard
<1>5. Inv => SignalsAreHeard
  BY DEF SignalsAreHeard, HeardInv
<1> HIDE DEF Inv
<1>6. QED
  BY <1>3, <1>4, <1>5, InitIInv, NextIInv, PTL DEF Spec

-----------------------------------------------------------------------------
(* The ring implements the FIFO queue.                                     *)

(* The unread part of the ring is a sequence of messages. *)
LEMMA ContentsIsSeq ==
    IInv => /\ Contents \in Seq(Messages)
            /\ Len(Contents) = len
            /\ \A i \in 1 .. len : Contents[i] = data[SlotOf(i - 1)]
<1> SUFFICES ASSUME IInv
             PROVE  /\ Contents \in Seq(Messages)
                    /\ Len(Contents) = len
                    /\ \A i \in 1 .. len : Contents[i] = data[SlotOf(i - 1)]
  OBVIOUS
<1> USE CapacityAssumption
<1>1. ASSUME NEW i \in 1 .. len PROVE data[SlotOf(i - 1)] \in Messages
  <2>1. i - 1 \in 0 .. len - 1 /\ SlotOf(i - 1) \in Slots
    BY DEF IInv, TypeOK, SlotOf, Slots
  <2>2. data[SlotOf(i - 1)] # Undefined
    BY <2>1 DEF IInv, RingConsistent
  <2>3. QED
    BY <2>1, <2>2 DEF IInv, TypeOK
<1>2. len \in Nat
  BY DEF IInv, TypeOK
<1>3. Contents \in [1 .. len -> Messages]
  BY <1>1 DEF Contents
<1>4. QED
  BY <1>2, <1>3, SeqDef, LenProperties DEF Contents

(* The same in the next state. *)
LEMMA ContentsNext ==
    ASSUME IInv'
    PROVE  /\ Contents' \in Seq(Messages)
           /\ Len(Contents') = len'
           /\ \A i \in 1 .. len' : Contents'[i] = data'[SlotOf(i - 1)']
<1>1. (IInv => /\ Contents \in Seq(Messages)
              /\ Len(Contents) = len
              /\ \A i \in 1 .. len : Contents[i] = data[SlotOf(i - 1)])'
  BY ContentsIsSeq, PTL
<1>2. QED
  BY <1>1

(* Enqueue appends to the unread messages. *)
LEMMA EnqueueAppends ==
    ASSUME IInv, IInv', NEW m \in Messages, ~full, Enqueue(m)
    PROVE  Contents' = Append(Contents, m)
<1> USE CapacityAssumption
<1>1. /\ Contents \in Seq(Messages) /\ Len(Contents) = len
      /\ \A i \in 1 .. len : Contents[i] = data[SlotOf(i - 1)]
  BY ContentsIsSeq
<1>2. /\ Contents' \in Seq(Messages) /\ Len(Contents') = len + 1
      /\ \A i \in 1 .. len + 1 : Contents'[i] = data'[SlotOf(i - 1)]
  <2>1. SlotOf(0)' = SlotOf(0) /\ len' = len + 1
    BY DEF Enqueue, SlotOf
  <2>2. ASSUME NEW i \in 1 .. len + 1 PROVE Contents'[i] = data'[SlotOf(i - 1)]
    BY <2>1 DEF Contents, Enqueue, SlotOf
  <2>3. Contents' \in Seq(Messages) /\ Len(Contents') = len'
    BY ContentsNext
  <2>4. QED
    BY <2>1, <2>2, <2>3
<1>3. ASSUME NEW i \in 1 .. len PROVE Contents'[i] = Contents[i]
  <2>1. SlotOf(i - 1) # write /\ SlotOf(i - 1) \in Slots
    BY DEF IInv, TypeOK, RingConsistent, SlotOf, full, Slots
  <2>2. data'[SlotOf(i - 1)] = data[SlotOf(i - 1)]
    BY <2>1 DEF IInv, TypeOK, Enqueue
  <2>3. QED
    BY <1>1, <1>2, <2>2 DEF IInv, TypeOK
<1>4. Contents'[len + 1] = m
  <2>1. SlotOf(len) = write
    BY DEF IInv, RingConsistent, SlotOf
  <2>2. data'[write] = m
    BY DEF IInv, TypeOK, Enqueue
  <2>3. QED
    BY <1>2, <2>1, <2>2 DEF IInv, TypeOK
<1>5. /\ Append(Contents, m) \in Seq(Messages)
      /\ Len(Append(Contents, m)) = len + 1
      /\ \A i \in 1 .. len : Append(Contents, m)[i] = Contents[i]
      /\ Append(Contents, m)[len + 1] = m
  BY <1>1, AppendProperties
<1>6. len \in Nat
  BY DEF IInv, TypeOK
<1>7. \A i \in 1 .. len + 1 : Contents'[i] = Append(Contents, m)[i]
  BY <1>3, <1>4, <1>5, <1>6
<1>8. QED
  BY <1>2, <1>5, <1>7, SeqEqual

(* Dequeue takes the oldest unread message. *)
LEMMA DequeueTakesHead ==
    ASSUME IInv, IInv', Dequeue
    PROVE  /\ Contents # <<>>
           /\ popped' = Head(Contents)
           /\ Contents' = Tail(Contents)
<1> USE CapacityAssumption
<1>1. /\ Contents \in Seq(Messages) /\ Len(Contents) = len
      /\ \A i \in 1 .. len : Contents[i] = data[SlotOf(i - 1)]
  BY ContentsIsSeq
<1>2. Contents # <<>>
  BY <1>1 DEF Dequeue, IInv, TypeOK
<1>3. popped' = Head(Contents)
  <2>1. Head(Contents) = Contents[1]
    BY <1>1, <1>2
  <2>2. 1 \in 1 .. len /\ SlotOf(1 - 1) = read
    BY DEF Dequeue, IInv, TypeOK, SlotOf, Slots
  <2>3. QED
    BY <1>1, <2>1, <2>2 DEF Dequeue
<1>4. /\ Contents' \in Seq(Messages) /\ Len(Contents') = len - 1
      /\ \A i \in 1 .. len - 1 : Contents'[i] = data[SlotOf(i)]
  <2>1. Contents' \in Seq(Messages) /\ Len(Contents') = len'
    BY ContentsNext
  <2>2. ASSUME NEW i \in 1 .. len - 1 PROVE Contents'[i] = data[SlotOf(i)]
    <3>1. i - 1 \in Nat /\ i - 1 < len' /\ (i - 1) + 1 = i /\ i \in 1 .. len'
      BY <2>2 DEF IInv, TypeOK, Dequeue
    <3>2. SlotOf(i - 1)' = SlotOf(i)
      BY <3>1, DequeueShifts
    <3>3. Contents'[i] = data'[SlotOf(i - 1)']
      BY <3>1, ContentsNext
    <3>4. QED
      BY <3>2, <3>3 DEF Dequeue
  <2>3. QED
    BY <2>1, <2>2 DEF Dequeue
<1>5. /\ Tail(Contents) \in Seq(Messages)
      /\ Len(Tail(Contents)) = len - 1
      /\ \A i \in 1 .. len - 1 : Tail(Contents)[i] = Contents[i + 1]
  BY <1>1, <1>2, HeadTailProperties
<1>6. \A i \in 1 .. len - 1 : Contents'[i] = Tail(Contents)[i]
  <2>1. ASSUME NEW i \in 1 .. len - 1 PROVE Contents'[i] = Tail(Contents)[i]
    <3>1. i + 1 \in 1 .. len /\ (i + 1) - 1 = i
      BY DEF IInv, TypeOK
    <3>2. Contents[i + 1] = data[SlotOf(i)]
      BY <1>1, <3>1
    <3>3. QED
      BY <1>4, <1>5, <3>2
  <2>2. QED
    BY <2>1
<1>7. Contents' = Tail(Contents)
  BY <1>4, <1>5, <1>6, SeqEqual
<1>8. QED
  BY <1>2, <1>3, <1>7

(* The initial ring is the empty queue. *)
LEMMA InitRefines == Init => Fifo!Init
<1> SUFFICES ASSUME Init PROVE Fifo!Init
  OBVIOUS
<1>1. Len(Contents) = 0 /\ Contents \in Seq(Messages)
  BY InitIInv, ContentsIsSeq DEF Init
<1>2. Contents = <<>>
  BY <1>1, EmptySeq
<1>3. QED
  BY <1>2 DEF Init, Fifo!Init

(* Every step of the ring is a step of the FIFO queue, or leaves it alone. *)
LEMMA NextRefines == IInv /\ IInv' /\ [Next]_vars => [Fifo!Next]_Fifo!vars
<1> SUFFICES ASSUME IInv, IInv', [Next]_vars PROVE [Fifo!Next]_Fifo!vars
  OBVIOUS
<1>0. Len(Contents) = len /\ len \in 0 .. Capacity
  BY ContentsIsSeq DEF IInv, TypeOK
<1>f. full <=> ~ (Len(Contents) < Capacity)
  BY <1>0, CapacityAssumption DEF full
<1>a. UNCHANGED ring => Contents' = Contents
  BY DEF ring, Contents, SlotOf
<1>1. ASSUME NEW p \in Producers, NEW m \in Messages, NEW t \in Timeouts, PushNow(p, m, t)
      PROVE  Fifo!Send(p, m)
  <2>1. value[p] = Undefined /\ value' = value /\ popped' = popped
    BY <1>1 DEF PushNow, Return, IInv, TypeOK, ArgumentsHeld
  <2>2. CASE ~full /\ Enqueue(m) /\ Return(p, len + 1)
    <3>1. Contents' = Append(Contents, m)
      BY <2>2, EnqueueAppends
    <3>2. QED
      BY <1>0, <1>f, <2>1, <2>2, <3>1 DEF Return, Fifo!Send, Fifo!Accept
  <2>3. CASE full /\ t = "instant" /\ Return(p, 0) /\ UNCHANGED ring
    BY <1>0, <1>a, <2>1, <2>3 DEF full, Return, Fifo!Send, Fifo!Refuse
  <2>4. QED
    BY <1>1, <2>2, <2>3 DEF PushNow
<1>2. ASSUME NEW p \in Producers, NEW m \in Messages, NEW t \in Timeouts, PushWait(p, m, t)
      PROVE  Fifo!Wait(p, m)
  <2>1. value[p] = Undefined
    BY <1>2 DEF PushWait, IInv, ArgumentsHeld
  <2>2. QED
    BY <1>0, <1>2, <1>a, <2>1 DEF PushWait, full, Fifo!Wait
<1>3. ASSUME NEW p \in Producers, Resume(p) \/ GiveUp(p)
      PROVE  Fifo!EndWait(p)
  <2>1. value[p] \in Messages /\ value[p] # Undefined
    BY <1>3, UndefinedAssumption DEF Resume, GiveUp, IInv, ArgumentsHeld
  <2>2. value' = [value EXCEPT ![p] = Undefined] /\ popped' = popped
    BY <1>3 DEF Resume, GiveUp, Return
  <2>3. CASE ~full /\ Enqueue(value[p]) /\ Return(p, len + 1)
    <3>1. Contents' = Append(Contents, value[p])
      BY <2>1, <2>3, EnqueueAppends
    <3>2. QED
      BY <1>0, <1>f, <2>1, <2>2, <2>3, <3>1 DEF Return, Fifo!EndWait, Fifo!Accept
  <2>4. CASE Return(p, 0) /\ UNCHANGED ring
    BY <1>a, <2>1, <2>2, <2>4 DEF Return, Fifo!EndWait, Fifo!Refuse
  <2>5. QED
    BY <1>3, <2>3, <2>4 DEF Resume, GiveUp
<1>4. ASSUME Pop \/ DrainNext
      PROVE  Fifo!Take
  <2>1. Dequeue /\ UNCHANGED <<value, ret>>
    BY <1>4 DEF Pop, DrainNext
  <2>2. QED
    BY <2>1, DequeueTakesHead DEF Fifo!Take
<1>5. ASSUME UNCHANGED <<ring, value, ret, popped>>
      PROVE  UNCHANGED Fifo!vars
  BY <1>5, <1>a DEF Fifo!vars
<1>6. ASSUME NEW p \in Producers,
             Rouse(p) \/ WakeUp(p) \/ Resleep(p) \/ Expire(p) \/ LeaveWaiters(p)
      PROVE  UNCHANGED <<ring, value, ret, popped>>
  BY <1>6 DEF Rouse, WakeUp, Resleep, Expire, LeaveWaiters
<1>7. ASSUME DrainBegin \/ DrainDeinit
      PROVE  UNCHANGED <<ring, value, ret, popped>>
  BY <1>7 DEF DrainBegin, DrainDeinit
<1>8. CASE UNCHANGED vars
  BY <1>5, <1>8 DEF vars, ring
<1>9. CASE Next
  BY <1>1, <1>2, <1>3, <1>4, <1>5, <1>6, <1>7, <1>9
     DEF Next, Push, Wait, Drain, Fifo!Next
<1>10. QED
  BY <1>8, <1>9

(* With any number of producers, any capacity and any use of the timeouts  *)
(* and of drain, the ring is a FIFO queue: no accepted message is lost,    *)
(* duplicated, reordered or overwritten, a push returns 0 exactly when its *)
(* message was not accepted, and refuses at once only when full.           *)
THEOREM RingImplementsFifo == Spec => ImplementsFifo
  BY InitIInv, NextIInv, InitRefines, NextRefines, PTL
     DEF Spec, Fifo!Spec, ImplementsFifo

=============================================================================
