------------------------- MODULE StateHandoffProofs -------------------------
(***************************************************************************)
(* The hand-off protocol for any number of demanding and other threads,    *)
(* with or without timeouts.                                               *)
(***************************************************************************)
EXTENDS StateHandoff, FiniteSetTheorems, TLAPS

Waiting == {d \in Demanders : pc[d] \in {"lock", "locked"}}

(* A demander before its bump: whoever sleeps on the present generation    *)
(* will see it move.                                                       *)
BeforeBump == \E d \in Demanders : pc[d] \in {"lock", "locked", "critical", "unlocked"}

(* NoLostHandoff is not inductive: the parse thread commits to sleeping at *)
(* its second look at `demand', one step before the futex compares.        *)
Committed ==
    /\ gen <= handoff_gen
    /\ pc[Parser] \in {"wait", "asleep"} /\ handoff_gen = gen => BeforeBump
    /\ pc[Parser] = "asleep" /\ handoff_gen # gen =>
           \E d \in Demanders : pc[d] = "wake"

Types ==
    /\ demand \in Nat /\ handoff_gen \in Nat /\ gen \in Nat
    /\ pc \in [Threads -> DemanderPCs \cup ParserPCs]

IInv == Types /\ DemandExact /\ Committed

-----------------------------------------------------------------------------
(* The set of announced demanders is finite. *)
LEMMA WaitingFinite == IsFiniteSet(Waiting)
  BY ThreadsAssumption, FS_Subset DEF Waiting

(* A step of a demander changes its own place and perhaps the parser's. *)
LEMMA WaitingSame ==
    ASSUME NEW d \in Demanders, \A e \in Demanders \ {d} : pc'[e] = pc[e],
           pc[d] \in {"lock", "locked"} <=> pc'[d] \in {"lock", "locked"}
    PROVE  Waiting' = Waiting
  BY DEF Waiting

(* lockDemand counts its caller. *)
LEMMA AnnounceCounts ==
    ASSUME IInv, NEW d \in Demanders, Announce(d)
    PROVE  DemandExact'
<1>1. Waiting' = Waiting \cup {d} /\ d \notin Waiting
  BY DEF Announce, At, Goto, Waiting, IInv, Types, Threads
<1>2. Cardinality(Waiting') = Cardinality(Waiting) + 1
  BY <1>1, WaitingFinite, FS_AddElement
<1>3. QED
  BY <1>2 DEF Announce, IInv, DemandExact, Waiting

(* Once it has the mutex, lockDemand takes back its count: the decrement   *)
(* is never of zero.                                                       *)
LEMMA WithdrawCounts ==
    ASSUME IInv, NEW d \in Demanders, Withdraw(d)
    PROVE  DemandExact' /\ demand' \in Nat
<1>1. Waiting' = Waiting \ {d} /\ d \in Waiting
  BY DEF Withdraw, At, Goto, Waiting, IInv, Types, Threads
<1>2. Cardinality(Waiting \ {d}) = Cardinality(Waiting) - 1
  BY <1>1, WaitingFinite, FS_RemoveElement
<1>3. Cardinality(Waiting) \in Nat /\ Cardinality(Waiting) # 0
  BY <1>1, WaitingFinite, FS_CardinalityType, FS_EmptySet
<1>4. demand = Cardinality(Waiting) /\ demand' = demand - 1
  BY DEF Withdraw, IInv, DemandExact, Waiting
<1>5. demand' = Cardinality(Waiting') /\ demand' \in Nat
  BY <1>1, <1>2, <1>3, <1>4
<1>6. QED
  BY <1>5 DEF DemandExact, Waiting

(* A non-zero demand belongs to a demander that has not had its turn. *)
LEMMA DemandMeansWaiting ==
    ASSUME IInv, demand # 0
    PROVE  BeforeBump
<1>1. Waiting # {}
  BY FS_EmptySet DEF IInv, DemandExact, Waiting
<1>2. QED
  BY <1>1 DEF Waiting, BeforeBump

-----------------------------------------------------------------------------
(* Steps of a demander. *)
LEMMA DemanderStep ==
    ASSUME IInv, NEW d \in Demanders, Announce(d) \/ Turn(d)
    PROVE  IInv'
<1>0. d # Parser /\ d \in Threads /\ Parser \in Threads /\ Demanders \subseteq Threads
  BY ThreadsAssumption DEF Threads
<1>1. CASE Announce(d)
  <2>1. Types'
    BY <1>0, <1>1 DEF Announce, Goto, IInv, Types, DemanderPCs
  <2>2. Committed'
    BY <1>0, <1>1 DEF Announce, At, Goto, IInv, Types, Committed, BeforeBump
  <2>3. QED
    BY <1>1, <2>1, <2>2, AnnounceCounts DEF IInv
<1>2. CASE Withdraw(d)
  <2>1. Types'
    BY <1>0, <1>2, WithdrawCounts DEF Withdraw, Goto, IInv, Types, DemanderPCs
  <2>2. Committed'
    BY <1>0, <1>2 DEF Withdraw, At, Goto, IInv, Types, Committed, BeforeBump
  <2>3. QED
    BY <1>2, <2>1, <2>2, WithdrawCounts DEF IInv
<1>3. CASE LockDemand(d) \/ UnlockDemand(d)
  <2>1. Types'
    BY <1>0, <1>3 DEF LockDemand, UnlockDemand, Goto, IInv, Types, DemanderPCs
  <2>2. Committed'
    BY <1>0, <1>3 DEF LockDemand, UnlockDemand, At, Goto, IInv, Types, Committed, BeforeBump
  <2>3. Waiting' = Waiting /\ demand' = demand
    BY <1>0, <1>3, WaitingSame DEF LockDemand, UnlockDemand, At, Goto, IInv, Types
  <2>4. QED
    BY <2>1, <2>2, <2>3 DEF IInv, DemandExact, Waiting
<1>4. CASE Bump(d)
  <2>1. Types'
    BY <1>0, <1>4 DEF Bump, Goto, IInv, Types, DemanderPCs
  <2>2. Committed'
    BY <1>0, <1>4 DEF Bump, At, Goto, IInv, Types, Committed
  <2>3. Waiting' = Waiting /\ demand' = demand
    BY <1>0, <1>4, WaitingSame DEF Bump, At, Goto, IInv, Types
  <2>4. QED
    BY <2>1, <2>2, <2>3 DEF IInv, DemandExact, Waiting
<1>5. CASE Wake(d)
  <2>1. pc'[Parser] = (IF pc[Parser] = "asleep" THEN "out" ELSE pc[Parser])
    BY <1>0, <1>5 DEF Wake, IInv, Types
  <2>2. \A e \in Demanders \ {d} : pc'[e] = pc[e]
    BY <1>0, <1>5, ThreadsAssumption DEF Wake, IInv, Types
  <2>3. pc[d] = "wake" /\ pc'[d] = "out"
    BY <1>0, <1>5 DEF Wake, At, IInv, Types
  <2>4. Types'
    BY <1>0, <1>5 DEF Wake, IInv, Types, DemanderPCs, ParserPCs
  <2>5. BeforeBump => BeforeBump'
    BY <2>2, <2>3 DEF BeforeBump
  <2>6. Committed'
    BY <1>5, <2>1, <2>5 DEF Wake, IInv, Committed
  <2>7. Waiting' = Waiting /\ demand' = demand
    BY <1>5, <2>2, <2>3, WaitingSame DEF Wake
  <2>8. QED
    BY <2>4, <2>6, <2>7 DEF IInv, DemandExact, Waiting
<1>6. QED
  BY <1>1, <1>2, <1>3, <1>4, <1>5 DEF Turn

(* Steps of the parse thread. *)
LEMMA ParserStep ==
    ASSUME IInv, Parse \/ FutexTimeout
    PROVE  IInv'
<1>0. Parser \in Threads /\ Demanders \subseteq Threads /\ Parser \notin Demanders
  BY ThreadsAssumption DEF Threads
<1>1. Types'
  BY <1>0 DEF Parse, ParserLock, ParserUnlock, CheckDemand, Snapshot, Recheck,
              FutexWait, FutexTimeout, Goto, IInv, Types, ParserPCs
<1>2. \A d \in Demanders : pc'[d] = pc[d]
  BY <1>0 DEF Parse, ParserLock, ParserUnlock, CheckDemand, Snapshot, Recheck,
              FutexWait, FutexTimeout, Goto, IInv, Types
<1>3. UNCHANGED <<demand, handoff_gen>>
  BY DEF Parse, ParserLock, ParserUnlock, CheckDemand, Snapshot, Recheck,
         FutexWait, FutexTimeout
<1>4. DemandExact' /\ (BeforeBump <=> BeforeBump')
  <2>1. Waiting' = Waiting
    BY <1>2 DEF Waiting
  <2>2. QED
    BY <1>2, <1>3, <2>1 DEF IInv, DemandExact, Waiting, BeforeBump
<1>5. Committed'
  <2>1. CASE Recheck
    BY <1>0, <1>3, <1>4, <2>1, DemandMeansWaiting
       DEF Recheck, At, Goto, IInv, Types, Committed
  <2>2. CASE FutexWait
    BY <1>0, <1>2, <1>3, <1>4, <2>2 DEF FutexWait, At, Goto, IInv, Types, Committed
  <2>3. CASE Snapshot
    BY <1>0, <1>3, <2>3 DEF Snapshot, Goto, IInv, Types, Committed
  <2>4. CASE ParserLock \/ ParserUnlock \/ CheckDemand \/ FutexTimeout
    BY <1>0, <1>3, <2>4 DEF ParserLock, ParserUnlock, CheckDemand, FutexTimeout,
       Goto, IInv, Types, Committed
  <2>5. QED
    BY <2>1, <2>2, <2>3, <2>4 DEF Parse
<1>6. QED
  BY <1>1, <1>4, <1>5 DEF IInv

(* Steps of any other thread. *)
LEMMA OtherStep ==
    ASSUME IInv, NEW t \in Others, Other(t)
    PROVE  IInv'
<1>0. t \in Threads /\ t # Parser /\ t \notin Demanders
      /\ Parser \in Threads /\ Demanders \subseteq Threads
  BY ThreadsAssumption DEF Threads
<1>1. Types'
  BY <1>0 DEF Other, OtherLock, OtherUnlock, Goto, IInv, Types, DemanderPCs
<1>2. /\ \A d \in Demanders : pc'[d] = pc[d]
      /\ pc'[Parser] = pc[Parser]
      /\ UNCHANGED <<demand, handoff_gen, gen>>
  BY <1>0 DEF Other, OtherLock, OtherUnlock, Goto, IInv, Types
<1>3. Waiting' = Waiting
  BY <1>2 DEF Waiting
<1>4. DemandExact'
  BY <1>2, <1>3 DEF IInv, DemandExact, Waiting
<1>5. Committed'
  BY <1>2 DEF IInv, Committed, BeforeBump
<1>6. QED
  BY <1>1, <1>4, <1>5 DEF IInv

(* Initially nobody has announced itself and nobody sleeps. *)
LEMMA InitIInv == Init => IInv
<1> SUFFICES ASSUME Init PROVE IInv
  OBVIOUS
<1>1. Parser \in Threads /\ Demanders \subseteq Threads
  BY DEF Threads
<1>2. Waiting = {}
  BY <1>1 DEF Init, Waiting
<1>3. DemandExact
  BY <1>2, FS_EmptySet DEF Init, DemandExact, Waiting
<1>4. Types /\ Committed
  BY <1>1 DEF Init, Types, Committed, DemanderPCs
<1>5. QED
  BY <1>3, <1>4 DEF IInv

(* Every step preserves the inductive invariant. *)
LEMMA NextIInv == IInv /\ [Next]_vars => IInv'
<1>1. IInv /\ UNCHANGED vars => IInv'
  BY DEF vars, IInv, Types, DemandExact, Committed, BeforeBump
<1>2. QED
  BY <1>1, DemanderStep, ParserStep, OtherStep DEF Next

(* What IInv does not say of the types: the mutex and the history count. *)
Rest == mutex \in Threads \cup {None} /\ overtaken \in Nat

(* The mutex is only given to threads, the history only counts up. *)
LEMMA RestStep == Rest /\ [Next]_vars => Rest'
<1> SUFFICES ASSUME Rest, [Next]_vars PROVE Rest'
  OBVIOUS
<1> USE DEF Rest
<1>1. ASSUME NEW d \in Demanders, Announce(d) \/ Turn(d)
      PROVE  Rest'
  BY <1>1 DEF Threads, Announce, Turn, LockDemand, Withdraw, UnlockDemand, Bump, Wake
<1>2. ASSUME NEW t \in Others, Other(t)
      PROVE  Rest'
  BY <1>2 DEF Threads, Other, OtherLock, OtherUnlock
<1>3. CASE ParserLock
  BY <1>3 DEF Threads, ParserLock
<1>4. CASE ParserUnlock \/ CheckDemand \/ Snapshot \/ Recheck \/ FutexWait
           \/ FutexTimeout \/ UNCHANGED vars
  BY <1>4 DEF ParserUnlock, CheckDemand, Snapshot, Recheck, FutexWait,
              FutexTimeout, vars
<1>5. QED
  BY <1>1, <1>2, <1>3, <1>4 DEF Next, Parse

(* Counters, places and the mutex keep their types: the decrement of the   *)
(* demand count never goes below zero.                                     *)
THEOREM HandoffTyped == Spec => []TypeOK
<1>1. Init => Rest
  BY DEF Init, Rest
<1>2. IInv /\ Rest => TypeOK
  BY DEF IInv, Types, Rest, TypeOK
<1>3. QED
  BY <1>1, <1>2, RestStep, InitIInv, NextIInv, PTL DEF Spec

(* The demand count is the number of waiting lockDemand callers. *)
THEOREM DemandCounted == Spec => []DemandExact
<1>1. IInv => DemandExact
  BY DEF IInv
<1>2. QED
  BY <1>1, InitIInv, NextIInv, PTL DEF Spec

(* A parked parse thread always has a demander whose bump or wake is still *)
(* to come: the hand-off does not depend on its timeout.                   *)
THEOREM HandoffNotLost == Spec => []NoLostHandoff
<1>1. IInv => NoLostHandoff
  BY DEF IInv, Committed, BeforeBump, NoLostHandoff, At
<1>2. QED
  BY <1>1, InitIInv, NextIInv, PTL DEF Spec

-----------------------------------------------------------------------------
(* The parse thread's turns are paid for by the demanders: it may lock     *)
(* again at once (`Loose'), or it sleeps until a demander's bump moves the *)
(* generation or its wake ends the sleep.                                  *)
Asked  == \E d \in Demanders : At(d, "lock")
ToBump == {d \in Demanders : pc[d] \in {"locked", "critical", "unlocked"}}
ToWake == {d \in Demanders : pc[d] \in {"locked", "critical", "unlocked", "wake"}}
Loose  == IF \/ pc[Parser] = "out"
             \/ pc[Parser] \in {"recheck", "wait"} /\ handoff_gen # gen
          THEN 1 ELSE 0

(* The turns taken and those that can still be taken while somebody waits. *)
Turns == overtaken + Cardinality(ToBump) + Cardinality(ToWake) + Loose

Overtaking ==
    IF Asked THEN Turns <= 2 * Cardinality(Demanders) - 1 ELSE overtaken = 0

OInv == IInv /\ Rest /\ Overtaking

LEMMA CountsTyped ==
    /\ Cardinality(Demanders) \in Nat \ {0}
    /\ IsFiniteSet(ToBump) /\ Cardinality(ToBump) \in Nat
    /\ IsFiniteSet(ToWake) /\ Cardinality(ToWake) \in Nat
    /\ Loose \in {0, 1}
<1>1. Cardinality(Demanders) \in Nat \ {0}
  BY ThreadsAssumption, FS_CardinalityType, FS_EmptySet
<1>2. IsFiniteSet(ToBump) /\ IsFiniteSet(ToWake)
  BY ThreadsAssumption, FS_Subset DEF ToBump, ToWake
<1>3. QED
  BY <1>1, <1>2, FS_CardinalityType DEF Loose

(* A demander that waits owes the parse thread neither bump nor wake.      *)
LEMMA AskerOwesNothing ==
    ASSUME Asked
    PROVE  /\ Cardinality(ToBump) <= Cardinality(Demanders) - 1
           /\ Cardinality(ToWake) <= Cardinality(Demanders) - 1
<1>1. PICK d \in Demanders : pc[d] = "lock"
  BY DEF Asked, At
<1>2. ToBump \in SUBSET (Demanders \ {d}) /\ ToWake \in SUBSET (Demanders \ {d})
  BY <1>1 DEF ToBump, ToWake
<1>3. /\ IsFiniteSet(Demanders \ {d})
      /\ Cardinality(Demanders \ {d}) = Cardinality(Demanders) - 1
  BY ThreadsAssumption, FS_RemoveElement
<1>4. QED
  BY <1>2, <1>3, FS_Subset

(* When somebody waits and the history count is zero, the bound has room.  *)
LEMMA FreshCount ==
    ASSUME overtaken = 0
    PROVE  Overtaking
  BY CountsTyped, AskerOwesNothing DEF Overtaking, Turns

(* Steps that leave the demanders where they are.                          *)
LEMMA DemandersStay ==
    ASSUME OInv, \A d \in Demanders : pc'[d] = pc[d],
           overtaken' \in Nat, overtaken' + Loose' <= overtaken + Loose,
           Asked \/ overtaken' = overtaken
    PROVE  Overtaking'
<1>1. Asked' = Asked /\ ToBump' = ToBump /\ ToWake' = ToWake
  BY DEF Asked, At, ToBump, ToWake
<1>2. Loose \in {0, 1} /\ Loose' \in {0, 1}
  BY DEF Loose
<1>3. QED
  BY <1>1, <1>2, CountsTyped DEF OInv, Rest, Overtaking, Turns

(* Steps of the parse thread.                                              *)
LEMMA ParserTurns ==
    ASSUME OInv, Parse \/ FutexTimeout
    PROVE  Overtaking'
<1>0. /\ Parser \in Threads /\ Demanders \subseteq Threads /\ Parser \notin Demanders
      /\ pc \in [Threads -> DemanderPCs \cup ParserPCs]
      /\ overtaken \in Nat
  BY ThreadsAssumption DEF Threads, OInv, IInv, Types, Rest
<1>1. \A d \in Demanders : pc'[d] = pc[d]
  BY <1>0 DEF Parse, ParserLock, ParserUnlock, CheckDemand, Snapshot, Recheck,
              FutexWait, FutexTimeout, Goto
<1>2. ASSUME Asked
      PROVE  demand # 0
  <2>1. Waiting # {}
    BY <1>2 DEF Asked, At, Waiting
  <2>2. QED
    BY <2>1, WaitingFinite, FS_EmptySet DEF OInv, IInv, DemandExact, Waiting
<1>3. CASE FutexTimeout
  <2>1. /\ Asked' => Asked
        /\ Cardinality(ToBump)' = Cardinality(ToBump)
        /\ Cardinality(ToWake)' = Cardinality(ToWake)
    BY <1>1 DEF Asked, At, ToBump, ToWake
  <2>2. overtaken' = 0 /\ Loose' \in {0, 1}
    BY <1>3 DEF FutexTimeout, Loose
  <2>3. QED
    BY <2>1, <2>2, CountsTyped, AskerOwesNothing DEF Overtaking, Turns
<1>4. CASE ParserLock
  <2>1. Loose = 1 /\ Loose' = 0
    BY <1>0, <1>4 DEF ParserLock, At, Goto, Loose
  <2>2. Asked \/ overtaken' = overtaken
    BY <1>4 DEF ParserLock, Asked
  <2>3. overtaken' = overtaken \/ overtaken' = overtaken + 1
    BY <1>4 DEF ParserLock
  <2>4. overtaken' \in Nat /\ overtaken' + Loose' <= overtaken + Loose
    BY <1>0, <2>1, <2>3
  <2>5. QED
    BY <1>1, <2>2, <2>4, DemandersStay
<1>5. CASE ParserUnlock
  <2>1. Loose' = 0 /\ Loose \in {0, 1} /\ overtaken' = overtaken
    BY <1>0, <1>5 DEF ParserUnlock, At, Goto, Loose
  <2>2. QED
    BY <1>0, <1>1, <2>1, DemandersStay
<1>6. CASE Snapshot
  <2>1. Loose' = 0 /\ Loose \in {0, 1} /\ overtaken' = overtaken
    BY <1>0, <1>6 DEF Snapshot, At, Goto, Loose
  <2>2. QED
    BY <1>0, <1>1, <2>1, DemandersStay
<1>7. CASE CheckDemand \/ Recheck
  <2>1. overtaken' = overtaken /\ UNCHANGED <<handoff_gen, gen>>
    BY <1>7 DEF CheckDemand, Recheck
  <2>2. CASE Asked
    <3>1. Loose' <= Loose
      BY <1>0, <1>2, <1>7, <2>2 DEF CheckDemand, Recheck, At, Goto, Loose
    <3>2. QED
      BY <1>0, <1>1, <2>1, <3>1, DemandersStay DEF Loose
  <2>3. CASE ~ Asked
    BY <1>1, <2>1, <2>3 DEF OInv, Overtaking, Asked, At
  <2>4. QED
    BY <2>2, <2>3
<1>8. CASE FutexWait
  <2>1. Loose' = Loose /\ overtaken' = overtaken
    BY <1>0, <1>8 DEF FutexWait, At, Goto, Loose
  <2>2. QED
    BY <1>0, <1>1, <2>1, DemandersStay DEF Loose
<1>9. QED
  BY <1>3, <1>4, <1>5, <1>6, <1>7, <1>8 DEF Parse

(* Steps of a demander.                                                    *)
LEMMA DemanderTurns ==
    ASSUME OInv, NEW d \in Demanders, Announce(d) \/ Turn(d)
    PROVE  Overtaking'
<1>0. /\ d # Parser /\ Parser \in Threads /\ Demanders \subseteq Threads
      /\ pc \in [Threads -> DemanderPCs \cup ParserPCs]
      /\ overtaken \in Nat /\ handoff_gen \in Nat /\ gen \in Nat
      /\ gen <= handoff_gen
  BY ThreadsAssumption DEF Threads, OInv, IInv, Types, Committed, Rest
<1> USE DEF At, Goto
<1>1. CASE Announce(d)
  <2>1. /\ pc' = [pc EXCEPT ![d] = "lock"] /\ pc[d] = "out"
        /\ overtaken' = overtaken /\ UNCHANGED <<handoff_gen, gen>>
    BY <1>1 DEF Announce
  <2>2. ToBump' = ToBump /\ ToWake' = ToWake /\ Loose' = Loose
    BY <1>0, <2>1 DEF ToBump, ToWake, Loose
  <2>3. CASE Asked
    <3>1. Turns' = Turns /\ (Asked' => Asked)
      BY <2>1, <2>2, <2>3 DEF Turns
    <3>2. Asked'
      BY <1>0, <2>1 DEF Asked
    <3>3. QED
      BY <2>3, <3>1, <3>2 DEF OInv, Overtaking
  <2>4. CASE ~ Asked
    <3>1. overtaken = 0
      BY <2>4 DEF OInv, Overtaking
    <3>2. Asked'
      BY <1>0, <2>1 DEF Asked
    <3>3. /\ Cardinality(ToBump)' <= Cardinality(Demanders) - 1
          /\ Cardinality(ToWake)' <= Cardinality(Demanders) - 1
      <4>1. ToBump \in SUBSET (Demanders \ {d}) /\ ToWake \in SUBSET (Demanders \ {d})
        BY <2>1 DEF ToBump, ToWake
      <4>2. /\ IsFiniteSet(Demanders \ {d})
            /\ Cardinality(Demanders \ {d}) = Cardinality(Demanders) - 1
        BY ThreadsAssumption, FS_RemoveElement
      <4>3. QED
        BY <2>2, <4>1, <4>2, FS_Subset
    <3>4. QED
      BY <2>1, <2>2, <3>1, <3>2, <3>3, CountsTyped DEF Overtaking, Turns
  <2>5. QED
    BY <2>3, <2>4
<1>2. CASE LockDemand(d)
  <2>1. overtaken' = 0
    BY <1>2 DEF LockDemand
  <2>2. CASE Asked'
    <3>1. PICK e \in Demanders : pc'[e] = "lock"
      BY <2>2 DEF Asked
    <3>2. ToBump' \in SUBSET (Demanders \ {e}) /\ ToWake' \in SUBSET (Demanders \ {e})
      BY <3>1 DEF ToBump, ToWake
    <3>3. /\ IsFiniteSet(Demanders \ {e})
          /\ Cardinality(Demanders \ {e}) = Cardinality(Demanders) - 1
      BY <3>1, ThreadsAssumption, FS_RemoveElement
    <3>4. /\ Cardinality(ToBump)' <= Cardinality(Demanders) - 1
          /\ Cardinality(ToWake)' <= Cardinality(Demanders) - 1
          /\ Cardinality(ToBump)' \in Nat /\ Cardinality(ToWake)' \in Nat
      BY <3>2, <3>3, FS_Subset, FS_CardinalityType
    <3>5. Loose' \in {0, 1}
      BY DEF Loose
    <3>6. QED
      BY <2>1, <3>4, <3>5, CountsTyped DEF Overtaking, Turns
  <2>3. QED
    BY <2>1, <2>2 DEF Overtaking
<1>3. CASE Withdraw(d) \/ UnlockDemand(d)
  <2>1. ToBump' = ToBump /\ ToWake' = ToWake /\ Loose' = Loose /\ (Asked' <=> Asked)
    BY <1>0, <1>3 DEF Withdraw, UnlockDemand, ToBump, ToWake, Loose, Asked
  <2>2. overtaken' = overtaken
    BY <1>3 DEF Withdraw, UnlockDemand
  <2>3. QED
    BY <2>1, <2>2 DEF OInv, Overtaking, Turns
<1>4. CASE Bump(d)
  <2>1. /\ ToBump' = ToBump \ {d} /\ d \in ToBump /\ ToWake' = ToWake
        /\ (Asked' <=> Asked) /\ overtaken' = overtaken
    BY <1>0, <1>4 DEF Bump, ToBump, ToWake, Asked
  <2>2. Cardinality(ToBump)' = Cardinality(ToBump) - 1
    BY <2>1, CountsTyped, FS_RemoveElement
  <2>3. Loose' \in {0, 1}
    BY DEF Loose
  <2>4. Turns' <= Turns
    BY <1>0, <2>1, <2>2, <2>3, CountsTyped DEF Turns
  <2>5. Turns \in Int /\ Turns' \in Int
    BY <1>0, <2>1, <2>2, <2>3, CountsTyped DEF Turns
  <2>6. QED
    BY <2>1, <2>4, <2>5, CountsTyped DEF OInv, Overtaking
<1>5. CASE Wake(d)
  <2>1. /\ pc[d] = "wake" /\ overtaken' = overtaken
        /\ \A e \in Demanders : pc'[e] = IF e = d THEN "out" ELSE pc[e]
    BY <1>0, <1>5, ThreadsAssumption DEF Wake
  <2>2. /\ ToBump' = ToBump /\ ToWake' = ToWake \ {d} /\ d \in ToWake
        /\ (Asked' <=> Asked)
    BY <2>1 DEF ToBump, ToWake, Asked
  <2>3. Cardinality(ToWake)' = Cardinality(ToWake) - 1
    BY <2>2, CountsTyped, FS_RemoveElement
  <2>4. Loose' \in {0, 1}
    BY DEF Loose
  <2>5. Turns' <= Turns /\ Turns \in Int /\ Turns' \in Int
    BY <1>0, <2>1, <2>2, <2>3, <2>4, CountsTyped DEF Turns
  <2>6. QED
    BY <2>1, <2>2, <2>5, CountsTyped DEF OInv, Overtaking
<1>6. QED
  BY <1>1, <1>2, <1>3, <1>4, <1>5 DEF Turn

(* While demanders wait, the parse thread takes the mutex at most once,    *)
(* and twice more for each further demander, before one of them has it.    *)
THEOREM OvertakingBounded == Spec => []BoundedOvertaking
<1>1. Init => Overtaking
  BY FreshCount DEF Init
<1>2. OInv /\ [Next]_vars => Overtaking'
  <2> SUFFICES ASSUME OInv, [Next]_vars PROVE Overtaking'
    OBVIOUS
  <2>1. ASSUME NEW t \in Others, Other(t)
        PROVE  Overtaking'
    <3>1. /\ t \in Threads /\ t # Parser /\ t \notin Demanders
          /\ Parser \in Threads /\ Demanders \subseteq Threads
          /\ pc \in [Threads -> DemanderPCs \cup ParserPCs] /\ overtaken \in Nat
      BY ThreadsAssumption DEF Threads, OInv, IInv, Types, Rest
    <3>2. /\ \A d \in Demanders : pc'[d] = pc[d]
          /\ Loose' = Loose /\ overtaken' = overtaken
      BY <2>1, <3>1 DEF Other, OtherLock, OtherUnlock, Goto, Loose
    <3>3. QED
      BY <3>1, <3>2, DemandersStay DEF Loose
  <2>2. CASE UNCHANGED vars
    BY <2>2 DEF vars, OInv, Overtaking, Turns, Asked, At, ToBump, ToWake, Loose
  <2>3. QED
    BY <2>1, <2>2, DemanderTurns, ParserTurns DEF Next
<1>3. OInv => BoundedOvertaking
  <2> SUFFICES ASSUME OInv PROVE BoundedOvertaking
    OBVIOUS
  <2>1. overtaken \in Nat
    BY DEF OInv, Rest
  <2>2. QED
    BY <2>1, CountsTyped DEF OInv, Overtaking, Turns, BoundedOvertaking
<1>4. Init => Rest
  BY DEF Init, Rest
<1>5. QED
  BY <1>1, <1>2, <1>3, <1>4, RestStep, InitIInv, NextIInv, PTL DEF Spec, OInv

=============================================================================
