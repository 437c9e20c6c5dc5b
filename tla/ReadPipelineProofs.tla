------------------------ MODULE ReadPipelineProofs ------------------------
(***************************************************************************)
(* Buffer ownership, the idle wake and the order of the bytes in the read  *)
(* pipeline, for any number of buffers, any buffer size and any amount of  *)
(* output.                                                                 *)
(***************************************************************************)
EXTENDS ReadPipeline, SequenceTheorems, TLAPS

(* The ring counters: `head' is `count' slots after `tail'. *)
RingShape ==
    /\ head \in Slots /\ tail \in Slots /\ count \in 0 .. buffer_count
    /\ head = IF tail + count >= buffer_count
              THEN tail + count - buffer_count ELSE tail + count

(* Only the parse stage lowers `count' and only the gather stage raises it,*)
(* so what each saw under the mutex still holds while it uses its buffer.  *)
Claims ==
    /\ Filling => count < buffer_count
    /\ Reading => count > 0

IInv == RingShape /\ Claims

(* Steps that leave the ring alone and take neither stage into its buffer. *)
LEMMA RingUntouched ==
    ASSUME IInv, UNCHANGED <<head, tail, count>>,
           Filling' => Filling, Reading' => Reading
    PROVE  IInv'
  BY DEF IInv, RingShape, Claims

(* Publishing moves head and count together. *)
LEMMA PublishShape ==
    ASSUME IInv, Publish
    PROVE  IInv'
<1> USE BufferAssumption
<1>1. Filling /\ count < buffer_count /\ ~ Filling'
  BY DEF Publish, AfterPublish, Filling, IInv, Claims
<1>2. Reading' = Reading
  BY DEF Publish, Reading, parse
<1>3. CASE total > 0
  <2>1. head' = NextSlot(head) /\ count' = count + 1 /\ tail' = tail
    BY <1>3 DEF Publish
  <2>2. RingShape'
    BY <1>1, <2>1 DEF IInv, RingShape, NextSlot, Slots
  <2>3. QED
    BY <1>1, <1>2, <2>1, <2>2 DEF IInv, RingShape, Claims
<1>4. CASE ~ (total > 0)
  BY <1>1, <1>2, <1>4, RingUntouched DEF Publish
<1>5. QED
  BY <1>3, <1>4

(* Releasing a batch moves tail and count together. *)
LEMMA ReleaseShape ==
    ASSUME IInv, Release
    PROVE  IInv'
<1> USE BufferAssumption
<1>1. Reading /\ count > 0 /\ ~ Reading'
  BY DEF Release, Reading, IInv, Claims
<1>2. Filling' = Filling
  BY DEF Release, Filling, gather
<1>3. tail' = NextSlot(tail) /\ count' = count - 1 /\ head' = head
  BY DEF Release
<1>4. RingShape'
  BY <1>1, <1>3 DEF IInv, RingShape, NextSlot, Slots
<1>5. QED
  BY <1>1, <1>2, <1>3, <1>4 DEF IInv, RingShape, Claims

(* Initially the ring is empty and neither stage has a buffer. *)
LEMMA InitIInv == Init => IInv
  BY BufferAssumption DEF Init, IInv, RingShape, Claims, Filling, Reading, Slots

(* Every step keeps the shape of the ring and the claims on its buffers. *)
LEMMA NextIInv == IInv /\ [Next]_vars => IInv'
<1> SUFFICES ASSUME IInv, [Next]_vars PROVE IInv'
  OBVIOUS
<1>1. CASE Environment
  BY <1>1, RingUntouched DEF Environment, ChildWrites, ChildCloses, WriteQuit,
     ring, gather, parse, Filling, Reading
<1>2. CASE Claim
  <2>1. Filling' => count < buffer_count
    BY <1>2, BufferAssumption DEF Claim, Filling, IInv, RingShape
  <2>2. QED
    BY <1>2, <2>1 DEF Claim, IInv, RingShape, Claims, Reading, ring, parse
<1>3. CASE ReadData \/ ReadWouldBlock \/ ReadEnd
  BY <1>3, RingUntouched DEF ReadData, ReadWouldBlock, ReadEnd, ring, parse,
     Filling, Reading
<1>4. CASE ArmBridge \/ BridgePoll \/ EndBridge \/ DrainIdle
  BY <1>4, RingUntouched DEF ArmBridge, BridgePoll, EndBridge, DrainIdle, ring,
     parse, Filling, Reading
<1>5. CASE Publish
  BY <1>5, PublishShape
<1>6. CASE SignalBatch \/ SetDone \/ SignalDone \/ OuterPoll
  BY <1>6, RingUntouched DEF SignalBatch, SetDone, SignalDone, OuterPoll,
     BatchReady, AfterPublish, ring, parse, Filling, Reading
<1>7. CASE NextBatch
  <2>1. Reading' => count > 0
    BY <1>7 DEF NextBatch, Reading
  <2>2. QED
    BY <1>7, <2>1 DEF NextBatch, IInv, RingShape, Claims, Filling, ring, gather
<1>8. CASE Process \/ WriteIdle \/ Join
  BY <1>8, RingUntouched DEF Process, WriteIdle, Join, ring, gather, Filling, Reading
<1>9. CASE Release
  BY <1>9, ReleaseShape
<1>10. CASE SignalFree
  BY <1>10, RingUntouched DEF SignalFree, SlotFree, ring, Filling, Reading
<1>11. CASE UNCHANGED vars
  BY <1>11, RingUntouched DEF vars, ring, gather, parse, Filling, Reading
<1>12. QED
  BY <1>1, <1>2, <1>3, <1>4, <1>5, <1>6, <1>7, <1>8, <1>9, <1>10, <1>11
     DEF Next, Gather, Parse

(* The gather stage never fills the buffer the parse stage is reading: the *)
(* buffer contents need no lock (Pipeline, "owned by exactly one stage").  *)
THEOREM BuffersHaveOneOwner == Spec => []OneOwner
<1>1. IInv => OneOwner
  BY BufferAssumption DEF IInv, RingShape, Claims, OneOwner, Slots
<1>2. QED
  BY <1>1, InitIInv, NextIInv, PTL DEF Spec

-----------------------------------------------------------------------------
(* NoIdleSleep needs that the flag the parse stage tests is up during the  *)
(* whole bridge poll.                                                      *)
BridgeArmed == gpc = "bridge" => bridging

IdleInv == BridgeArmed /\ NoIdleSleep /\ idle \in Nat /\ count \in Nat

(* The gather stage's own steps and its environment. *)
LEMMA GatherIdle ==
    ASSUME IdleInv, IInv', Environment \/ Gather \/ OuterPoll
    PROVE  IdleInv'
<1>1. ASSUME Environment \/ BridgePoll \/ EndBridge \/ DrainIdle \/ ReadData
             \/ ReadWouldBlock \/ ReadEnd \/ Claim
      PROVE  IdleInv'
  BY <1>1 DEF Environment, ChildWrites, ChildCloses, WriteQuit, BridgePoll,
     EndBridge, DrainIdle, ReadData, ReadWouldBlock, ReadEnd, Claim,
     ring, gather, parse, IdleInv, BridgeArmed, NoIdleSleep
<1>2. ASSUME ArmBridge
      PROVE  IdleInv'
  BY <1>2 DEF ArmBridge, ring, IdleInv, BridgeArmed, NoIdleSleep
<1>3. ASSUME Publish \/ SignalBatch \/ SetDone \/ SignalDone \/ OuterPoll
      PROVE  IdleInv'
  <2>1. gpc' # "bridge" /\ idle' = idle
    BY <1>3 DEF Publish, SignalBatch, SetDone, SignalDone, OuterPoll, AfterPublish
  <2>2. count' \in Nat
    BY BufferAssumption DEF IInv, RingShape
  <2>3. QED
    BY <2>1, <2>2 DEF IdleInv, BridgeArmed, NoIdleSleep
<1>4. QED
  BY <1>1, <1>2, <1>3 DEF Gather

(* The parse stage's steps. *)
LEMMA ParseIdle ==
    ASSUME IdleInv, IInv', Parse
    PROVE  IdleInv'
<1>0. count' \in Nat
  BY BufferAssumption DEF IInv, RingShape
<1>1. ASSUME NextBatch \/ Process \/ Join
      PROVE  IdleInv'
  BY <1>1 DEF NextBatch, Process, Join, ring, gather, IdleInv, BridgeArmed, NoIdleSleep
<1>2. ASSUME Release
      PROVE  IdleInv'
  BY <1>0, <1>2 DEF Release, gather, IdleInv, BridgeArmed, NoIdleSleep
<1>3. ASSUME SignalFree
      PROVE  IdleInv'
  BY <1>3 DEF SignalFree, SlotFree, ring, IdleInv, BridgeArmed, NoIdleSleep
<1>4. ASSUME WriteIdle
      PROVE  IdleInv'
  BY <1>4 DEF WriteIdle, ring, gather, IdleInv, BridgeArmed, NoIdleSleep
<1>5. QED
  BY <1>1, <1>2, <1>3, <1>4 DEF Parse

(* While the gather stage sleeps in a bridge poll, an idle parse stage has *)
(* interrupted it or is about to.                                          *)
THEOREM BridgeIsInterrupted == Spec => []NoIdleSleep
<1>1. Init => IdleInv
  BY DEF Init, IdleInv, BridgeArmed, NoIdleSleep
<1>2. IdleInv /\ IInv' /\ [Next]_vars => IdleInv'
  <2>1. IdleInv /\ UNCHANGED vars => IdleInv'
    BY DEF vars, ring, gather, parse, IdleInv, BridgeArmed, NoIdleSleep
  <2>2. QED
    BY <2>1, GatherIdle, ParseIdle DEF Next
<1>3. IdleInv => NoIdleSleep
  BY DEF IdleInv
<1>4. QED
  BY <1>1, <1>2, <1>3, InitIInv, NextIInv, PTL DEF Spec

-----------------------------------------------------------------------------
(* Slot `s' holds `n' bytes, the ones that follow the first `b' of the     *)
(* stream.                                                                 *)
Stored(s, b, n) ==
    /\ n <= Len(bufs[s])
    /\ \A k \in 1 .. n : bufs[s][k] = b + k

(* NothingLostInRing byte by byte, with what makes it inductive: the       *)
(* batches are inside their buffers.                                       *)
RingBytes ==
    /\ \A k \in 1 .. Len(parsed) : parsed[k] = k
    /\ \A i \in First .. count - 1 :
          /\ lens[RingSlot(i)] > 0
          /\ Stored(RingSlot(i), Before(i), lens[RingSlot(i)])
    /\ Filling => Stored(head, Before(count), total)
    /\ received = Before(count) + IF Filling THEN total ELSE 0

BInv == IInv /\ TypeOK /\ RingBytes

(* The slots of the batches: the one after the last batch is `head'.       *)
LEMMA SlotOf ==
    ASSUME RingShape
    PROVE  /\ RingSlot(0) = tail /\ RingSlot(count) = head
           /\ \A i \in 0 .. count : RingSlot(i) \in Slots
           /\ \A i, j \in 0 .. count : i # j /\ count < buffer_count
                                         => RingSlot(i) # RingSlot(j)
  BY BufferAssumption DEF RingShape, RingSlot, Slots

(* The stream position of every batch, and of what follows the last.       *)
LEMMA BeforeType ==
    ASSUME BInv
    PROVE  /\ First \in 0 .. count
           /\ \A i \in First .. count : Before(i) \in Nat
<1>1. First \in 0 .. count
  BY DEF BInv, IInv, Claims, RingShape, First, Reading
<1>2. ASSUME NEW i \in First .. count
      PROVE  Before(i) \in Nat
  <2>1. CASE i = First
    <3>1. parsed \in Seq(Bytes)
      BY DEF BInv, TypeOK, RingOK, ParseOK
    <3>2. QED
      BY <2>1, <3>1, LenProperties DEF Before
  <2>2. CASE i # First
    <3> DEFINE s == RingSlot(i - 1)
    <3>1. i - 1 \in First .. count - 1 /\ s \in Slots
      BY <1>1, <2>2, SlotOf DEF BInv, IInv, RingShape
    <3>2. lens[s] > 0 /\ lens[s] <= Len(bufs[s])
      BY <3>1 DEF BInv, RingBytes, Stored
    <3>3. bufs[s] \in Seq(Bytes) /\ lens[s] \in Nat
      BY <3>1 DEF BInv, TypeOK, RingOK
    <3>4. bufs[s][lens[s]] \in Bytes
      <4>1. lens[s] \in 1 .. Len(bufs[s])
        BY <3>2, <3>3, LenProperties
      <4>2. QED
        BY <3>3, <4>1, ElementOfSeq
    <3>5. QED
      BY <2>2, <3>4, BufferAssumption DEF Before, Bytes
  <2>3. QED
    BY <2>1, <2>2
<1>3. QED
  BY <1>1, <1>2

(* Initially nothing has been read.                                        *)
LEMMA InitBInv == Init => BInv
<1>1. Init => TypeOK
  BY BufferAssumption DEF Init, TypeOK, EnvOK, RingOK, FlagsOK, GatherOK, ParseOK, Slots, Bytes
<1>2. Init => RingBytes
  BY DEF Init, RingBytes, First, Before, Filling
<1>3. QED
  BY <1>1, <1>2, InitIInv DEF BInv

(* Steps that move no byte.                                                *)
LEMMA BytesUntouched ==
    ASSUME RingBytes, UNCHANGED <<ring, received, parsed>>,
           First' = First, Filling' = Filling, Filling => total' = total
    PROVE  RingBytes'
<1>1. \A i : RingSlot(i)' = RingSlot(i) /\ Before(i)' = Before(i)
  BY DEF RingSlot, Before, ring
<1>2. \A s, b, n : Stored(s, b, n)' = Stored(s, b, n)
  BY DEF Stored, ring
<1>3. QED
  BY <1>1, <1>2 DEF RingBytes, ring

(* Each part of the types is kept by the steps that leave its variables.   *)
LEMMA TypesUntouched ==
    ASSUME TypeOK
    PROVE  /\ UNCHANGED <<env, received>> => EnvOK'
           /\ UNCHANGED ring => RingOK'
           /\ UNCHANGED <<bridging, done, idle_pipe, idle>> => FlagsOK'
           /\ UNCHANGED gather => GatherOK'
           /\ UNCHANGED parse => ParseOK'
<1>1. UNCHANGED <<env, received>> => EnvOK'
  BY DEF TypeOK, EnvOK, env
<1>2. UNCHANGED ring => RingOK'
  BY DEF TypeOK, RingOK, ring
<1>3. UNCHANGED <<bridging, done, idle_pipe, idle>> => FlagsOK'
  BY DEF TypeOK, FlagsOK
<1>4. UNCHANGED gather => GatherOK'
  BY DEF TypeOK, GatherOK, gather
<1>5. UNCHANGED parse => ParseOK'
  BY DEF TypeOK, ParseOK, parse
<1>6. QED
  BY <1>1, <1>2, <1>3, <1>4, <1>5

(* The environment and the steps that only move a stage along.             *)
LEMMA QuietType ==
    ASSUME TypeOK,
           \/ Environment \/ ReadWouldBlock \/ ReadEnd \/ ArmBridge \/ BridgePoll
           \/ EndBridge \/ DrainIdle \/ SignalBatch \/ OuterPoll \/ SetDone
           \/ SignalDone \/ NextBatch \/ SignalFree \/ WriteIdle \/ Join \/ Claim
           \/ UNCHANGED vars
    PROVE  TypeOK'
<1>1. CASE ChildWrites
  <2>1. EnvOK'
    <3>1. written' \in 0 .. MaxBytes /\ received' \in 0 .. written'
      BY <1>1, BufferAssumption DEF ChildWrites, TypeOK, EnvOK
    <3>2. QED
      BY <1>1, <3>1 DEF ChildWrites, TypeOK, EnvOK
  <2>2. QED
    BY <1>1, <2>1, TypesUntouched DEF ChildWrites, TypeOK
<1>2. CASE ChildCloses
  <2>1. EnvOK'
    BY <1>2 DEF ChildCloses, TypeOK, EnvOK
  <2>2. QED
    BY <1>2, <2>1, TypesUntouched DEF ChildCloses, TypeOK
<1>3. CASE WriteQuit
  <2>1. EnvOK'
    BY <1>3 DEF WriteQuit, TypeOK, EnvOK
  <2>2. QED
    BY <1>3, <2>1, TypesUntouched DEF WriteQuit, TypeOK
<1>4. CASE ReadWouldBlock
  <2>1. GatherOK'
    <3>1. spins' \in 0 .. bridge_spin_max
      BY <1>4, BufferAssumption DEF ReadWouldBlock, TypeOK, GatherOK
    <3>2. bridge_start' \in BOOLEAN /\ gpc' \in {"read", "publish", "arm"}
      BY <1>4, BufferAssumption DEF ReadWouldBlock, TypeOK, GatherOK
    <3>3. QED
      BY <1>4, <3>1, <3>2 DEF ReadWouldBlock, TypeOK, GatherOK
  <2>2. QED
    BY <1>4, <2>1, TypesUntouched DEF ReadWouldBlock, TypeOK
<1>5. CASE ReadEnd
  <2>1. GatherOK'
    BY <1>5 DEF ReadEnd, TypeOK, GatherOK
  <2>2. QED
    BY <1>5, <2>1, TypesUntouched DEF ReadEnd, TypeOK
<1>6. CASE Claim
  <2>1. GatherOK'
    <3>1. total' \in 0 .. buffer_capacity /\ spins' \in 0 .. bridge_spin_max
      BY <1>6, BufferAssumption DEF Claim, TypeOK, GatherOK
    <3>2. QED
      BY <1>6, <3>1 DEF Claim, TypeOK, GatherOK
  <2>2. QED
    BY <1>6, <2>1, TypesUntouched DEF Claim, TypeOK
<1>7. CASE ArmBridge
  <2>1. GatherOK'
    BY <1>7 DEF ArmBridge, TypeOK, GatherOK
  <2>2. FlagsOK'
    BY <1>7 DEF ArmBridge, TypeOK, FlagsOK
  <2>3. QED
    BY <1>7, <2>1, <2>2, TypesUntouched DEF ArmBridge, TypeOK
<1>8. CASE EndBridge
  <2>1. GatherOK'
    BY <1>8 DEF EndBridge, TypeOK, GatherOK
  <2>2. FlagsOK'
    BY <1>8 DEF EndBridge, TypeOK, FlagsOK
  <2>3. QED
    BY <1>8, <2>1, <2>2, TypesUntouched DEF EndBridge, TypeOK
<1>9. CASE DrainIdle
  <2>1. GatherOK'
    BY <1>9 DEF DrainIdle, TypeOK, GatherOK
  <2>2. FlagsOK'
    BY <1>9 DEF DrainIdle, TypeOK, FlagsOK
  <2>3. QED
    BY <1>9, <2>1, <2>2, TypesUntouched DEF DrainIdle, TypeOK
<1>10. CASE BridgePoll
  <2>1. GatherOK'
    BY <1>10 DEF BridgePoll, TypeOK, GatherOK, Pollable
  <2>2. QED
    BY <1>10, <2>1, TypesUntouched DEF BridgePoll, TypeOK
<1>11. CASE SignalBatch
  <2>1. GatherOK'
    BY <1>11 DEF SignalBatch, TypeOK, GatherOK, AfterPublish, BatchReady
  <2>2. ParseOK'
    BY <1>11 DEF SignalBatch, TypeOK, ParseOK, AfterPublish, BatchReady
  <2>3. QED
    BY <1>11, <2>1, <2>2, TypesUntouched DEF SignalBatch, TypeOK
<1>12. CASE SignalDone
  <2>1. GatherOK'
    BY <1>12 DEF SignalDone, TypeOK, GatherOK, BatchReady
  <2>2. ParseOK'
    BY <1>12 DEF SignalDone, TypeOK, ParseOK, BatchReady
  <2>3. QED
    BY <1>12, <2>1, <2>2, TypesUntouched DEF SignalDone, TypeOK
<1>13. CASE OuterPoll
  <2>1. GatherOK'
    BY <1>13 DEF OuterPoll, TypeOK, GatherOK
  <2>2. QED
    BY <1>13, <2>1, TypesUntouched DEF OuterPoll, TypeOK
<1>14. CASE SetDone
  <2>1. GatherOK'
    BY <1>14 DEF SetDone, TypeOK, GatherOK
  <2>2. FlagsOK'
    BY <1>14 DEF SetDone, TypeOK, FlagsOK
  <2>3. QED
    BY <1>14, <2>1, <2>2, TypesUntouched DEF SetDone, TypeOK
<1>15. CASE NextBatch
  <2>1. ParseOK'
    BY <1>15 DEF NextBatch, TypeOK, ParseOK
  <2>2. QED
    BY <1>15, <2>1, TypesUntouched DEF NextBatch, TypeOK
<1>16. CASE Join
  <2>1. ParseOK'
    BY <1>16 DEF Join, TypeOK, ParseOK
  <2>2. QED
    BY <1>16, <2>1, TypesUntouched DEF Join, TypeOK
<1>17. CASE SignalFree
  <2>1. GatherOK'
    BY <1>17 DEF SignalFree, TypeOK, GatherOK, SlotFree
  <2>2. ParseOK'
    BY <1>17 DEF SignalFree, TypeOK, ParseOK, SlotFree
  <2>3. QED
    BY <1>17, <2>1, <2>2, TypesUntouched DEF SignalFree, TypeOK
<1>18. CASE WriteIdle
  <2>1. ParseOK'
    BY <1>18 DEF WriteIdle, TypeOK, ParseOK
  <2>2. FlagsOK'
    BY <1>18 DEF WriteIdle, TypeOK, FlagsOK
  <2>3. QED
    BY <1>18, <2>1, <2>2, TypesUntouched DEF WriteIdle, TypeOK
<1>19. CASE UNCHANGED vars
  BY <1>19, TypesUntouched DEF vars, TypeOK
<1>20. QED
  BY <1>1, <1>2, <1>3, <1>4, <1>5, <1>6, <1>7, <1>8, <1>9, <1>10, <1>11, <1>12, <1>13, <1>14, <1>15, <1>16, <1>17, <1>18, <1>19
     DEF Environment

LEMMA QuietBytes ==
    ASSUME BInv,
           \/ Environment \/ ReadWouldBlock \/ ReadEnd \/ ArmBridge \/ BridgePoll
           \/ EndBridge \/ DrainIdle \/ SignalBatch \/ OuterPoll \/ SetDone
           \/ SignalDone \/ NextBatch \/ SignalFree \/ WriteIdle \/ Join
           \/ UNCHANGED vars
    PROVE  RingBytes'
<1> USE DEF ring, gather, parse, env, First, Filling
<1>0. RingBytes
  BY DEF BInv
<1>1. CASE Environment
  BY <1>0, <1>1, BytesUntouched DEF Environment, ChildWrites, ChildCloses, WriteQuit
<1>2. CASE ReadWouldBlock \/ ReadEnd
  BY <1>0, <1>2, BytesUntouched DEF ReadWouldBlock, ReadEnd
<1>3. CASE ArmBridge \/ EndBridge \/ DrainIdle \/ BridgePoll
  BY <1>0, <1>3, BytesUntouched DEF ArmBridge, EndBridge, DrainIdle, BridgePoll
<1>4. CASE SignalBatch \/ OuterPoll \/ SetDone \/ SignalDone
  BY <1>0, <1>4, BytesUntouched DEF SignalBatch, OuterPoll, SetDone, SignalDone,
     AfterPublish, BatchReady
<1>5. CASE NextBatch \/ SignalFree \/ WriteIdle \/ Join
  BY <1>0, <1>5, BytesUntouched DEF NextBatch, SignalFree, SlotFree, WriteIdle, Join
<1>6. CASE UNCHANGED vars
  BY <1>0, <1>6, BytesUntouched DEF vars
<1>7. QED
  BY <1>1, <1>2, <1>3, <1>4, <1>5, <1>6

(* A claimed buffer starts empty.                                          *)
LEMMA ClaimBytes ==
    ASSUME BInv, Claim
    PROVE  RingBytes'
<1>1. RingBytes /\ ~ Filling
  BY DEF BInv, Claim, Filling
<1>2. UNCHANGED <<ring, received, parsed>> /\ First' = First
  BY DEF Claim, parse, First
<1>3. CASE count = buffer_count
  BY <1>1, <1>2, <1>3, BytesUntouched DEF Claim, Filling
<1>4. CASE count # buffer_count
  <2>1. Filling' /\ total' = 0
    BY <1>4 DEF Claim, Filling
  <2>2. \A i : RingSlot(i)' = RingSlot(i) /\ Before(i)' = Before(i)
    BY <1>2 DEF RingSlot, Before, ring
  <2>3. \A s, b, n : Stored(s, b, n)' = Stored(s, b, n)
    BY <1>2 DEF Stored, ring
  <2>4. count \in Nat /\ First \in 0 .. count /\ Before(count) \in Nat
    BY BeforeType DEF BInv, TypeOK, RingOK
  <2>5. Stored(head, Before(count), 0)
    <3>1. bufs[head] \in Seq(Bytes)
      BY DEF BInv, TypeOK, RingOK, ParseOK
    <3>2. QED
      BY <3>1, LenProperties DEF Stored
  <2>6. QED
    BY <1>1, <1>2, <2>1, <2>2, <2>3, <2>4, <2>5 DEF RingBytes, ring
<1>5. QED
  BY <1>3, <1>4

(* Reading appends the next bytes of the stream to the claimed buffer.     *)
LEMMA ReadDataBytes ==
    ASSUME BInv, ReadData
    PROVE  TypeOK' /\ RingBytes'
<1> DEFINE b == bufs[head]
           p == SubSeq(b, 1, total)
<1>1. PICK n \in 1 .. Available :
        /\ total + n <= buffer_capacity
        /\ bufs' = [bufs EXCEPT ![head] = p \o StreamAfter(received, n)]
        /\ received' = received + n
        /\ total' = total + n
        /\ gpc' = IF total + n = buffer_capacity THEN "publish" ELSE "read"
  BY DEF ReadData, StreamAfter
<1> DEFINE q == StreamAfter(received, n)
<1>2. /\ Filling /\ Filling' /\ count < buffer_count
      /\ UNCHANGED <<lens, head, tail, count, parsed>> /\ First' = First
  BY <1>1 DEF ReadData, Filling, BInv, IInv, Claims, parse, First
<1>3. /\ b \in Seq(Bytes) /\ total \in Nat /\ total <= Len(b)
      /\ \A k \in 1 .. total : b[k] = Before(count) + k
      /\ received = Before(count) + total /\ received \in Nat /\ n \in Nat
      /\ received + n <= written /\ written <= MaxBytes
      /\ received + n \in 0 .. written /\ written \in Nat
  BY <1>1, <1>2, BufferAssumption
     DEF BInv, TypeOK, RingOK, GatherOK, EnvOK, RingBytes, Stored, Available
<1>4. /\ p \in Seq(Bytes) /\ Len(p) = total
      /\ \A k \in 1 .. total : p[k] = b[k]
  <2>1. \A k \in 1 .. total : b[k] \in Bytes
    BY <1>3, LenProperties, ElementOfSeq
  <2>2. QED
    BY <1>3, <2>1, SubSeqProperties
<1>5. /\ q \in Seq(Bytes) /\ Len(q) = n
      /\ \A k \in 1 .. n : q[k] = received + k
  <2>1. \A k \in 1 .. n : received + k \in Bytes
    BY <1>3, BufferAssumption DEF Bytes
  <2>2. q \in [1 .. n -> Bytes] /\ \A k \in 1 .. n : q[k] = received + k
    BY <2>1 DEF StreamAfter
  <2>3. q \in Seq(Bytes)
    BY <1>3, <2>2, SeqDef
  <2>4. Len(q) = n
    BY <1>3, <2>2, <2>3, LenProperties
  <2>5. QED
    BY <2>2, <2>3, <2>4
<1>6. /\ p \o q \in Seq(Bytes) /\ Len(p \o q) = total + n
      /\ \A k \in 1 .. total + n : (p \o q)[k] = Before(count) + k
  <2>1. /\ p \o q \in Seq(Bytes) /\ Len(p \o q) = total + n
        /\ \A k \in 1 .. total + n :
              (p \o q)[k] = IF k <= total THEN p[k] ELSE q[k - total]
    BY <1>4, <1>5, ConcatProperties
  <2>2. Before(count) \in Nat
    BY BeforeType DEF BInv, TypeOK, RingOK
  <2>3. ASSUME NEW k \in 1 .. total + n
        PROVE  (p \o q)[k] = Before(count) + k
    <3> HIDE DEF p, q
    <3>1. CASE k <= total
      <4>1. k \in 1 .. total
        BY <1>3, <3>1
      <4>2. (p \o q)[k] = p[k] /\ p[k] = b[k] /\ b[k] = Before(count) + k
        BY <1>3, <1>4, <2>1, <4>1
      <4>3. QED
        BY <4>2
    <3>2. CASE ~ (k <= total)
      <4>1. k - total \in 1 .. n
        BY <1>3, <3>2
      <4>2. QED
        <5>1. (p \o q)[k] = q[k - total] /\ q[k - total] = received + (k - total)
          BY <1>5, <2>1, <3>2, <4>1
        <5>2. QED
          BY <1>3, <2>2, <5>1
    <3>3. QED
      BY <3>1, <3>2
  <2>4. QED
    BY <2>1, <2>3
<1> HIDE DEF p, q
<1>7. TypeOK'
  <2>1. EnvOK'
    <3>1. written' \in 0 .. MaxBytes /\ received' \in 0 .. written'
      BY <1>1, <1>3 DEF ReadData, env, BInv, TypeOK, EnvOK
    <3>2. QED
      BY <3>1 DEF ReadData, env, BInv, TypeOK, EnvOK
  <2>2. RingOK'
    BY <1>1, <1>2, <1>6 DEF BInv, TypeOK, RingOK, p, q
  <2>3. GatherOK'
    <3>1. total' \in 0 .. buffer_capacity /\ spins' \in 0 .. bridge_spin_max
      BY <1>1, <1>3, BufferAssumption DEF ReadData
    <3>2. gpc' \in {"read", "publish"}
      BY <1>1
    <3>3. QED
      BY <3>1, <3>2 DEF ReadData, BInv, TypeOK, GatherOK
  <2>4. QED
    BY <2>1, <2>2, <2>3, TypesUntouched DEF ReadData, BInv, TypeOK
<1>8. RingBytes'
  <2>1. /\ bufs'[head] = p \o q
        /\ \A s \in Slots \ {head} : bufs'[s] = bufs[s]
    BY <1>1 DEF p, q, BInv, TypeOK, RingOK
  <2>2. /\ RingSlot(count) = head /\ count \in Nat
        /\ \A i \in First .. count - 1 : RingSlot(i) \in Slots \ {head}
        /\ First \in 0 .. count
    BY <1>2, SlotOf, BeforeType DEF BInv, IInv, RingShape
  <2>3. \A i : RingSlot(i)' = RingSlot(i)
    BY <1>2 DEF RingSlot
  <2>4. \A i \in First .. count : Before(i)' = Before(i)
    <3> SUFFICES ASSUME NEW i \in First .. count, i # First
                 PROVE  bufs'[RingSlot(i - 1)] = bufs[RingSlot(i - 1)]
      BY <1>2, <2>3 DEF Before
    <3> QED
      BY <2>1, <2>2
  <2>5. \A i \in First .. count - 1 :
            /\ lens'[RingSlot(i)] > 0
            /\ Stored(RingSlot(i), Before(i), lens[RingSlot(i)])'
    BY <1>2, <2>1, <2>2, <2>3, <2>4 DEF BInv, RingBytes, Stored
  <2>6. Stored(head, Before(count), total)'
    BY <1>1, <1>2, <1>6, <2>1, <2>2, <2>4 DEF Stored
  <2>7. received' = Before(count)' + total'
    <3>1. Before(count) \in Nat
      BY BeforeType, <2>2
    <3>2. QED
      BY <1>1, <1>2, <1>3, <2>2, <2>4, <3>1
  <2>8. QED
    BY <1>2, <2>3, <2>5, <2>6, <2>7 DEF BInv, RingBytes
<1>9. QED
  BY <1>7, <1>8

(* Publishing makes the filled buffer the last batch.                      *)
LEMMA PublishBytes ==
    ASSUME BInv, Publish
    PROVE  TypeOK' /\ RingBytes'
<1>1. /\ Filling /\ ~ Filling' /\ count < buffer_count
      /\ UNCHANGED <<bufs, tail, parsed, received, total>> /\ First' = First
  BY DEF Publish, AfterPublish, Filling, BInv, IInv, Claims, parse, First
<1>2. /\ total \in Nat /\ total <= buffer_capacity /\ count \in Nat
      /\ Stored(head, Before(count), total) /\ received = Before(count) + total
      /\ Before(count) \in Nat /\ First \in 0 .. count
  BY <1>1, BeforeType, BufferAssumption DEF BInv, TypeOK, RingOK, GatherOK, RingBytes
<1>3. \A i : RingSlot(i)' = RingSlot(i)
  BY <1>1 DEF RingSlot
<1>4. CASE total > 0
  <2>1. /\ lens' = [lens EXCEPT ![head] = total]
        /\ head' = NextSlot(head) /\ count' = count + 1 /\ gpc' = "signal"
    BY <1>4 DEF Publish
  <2>2. TypeOK'
    <3>1. RingOK'
      <4>1. lens' \in [Slots -> 0 .. buffer_capacity]
        BY <1>2, <2>1, BufferAssumption DEF BInv, TypeOK, RingOK
      <4>2. head' \in Slots /\ count' \in 0 .. buffer_count
        BY <1>1, <1>2, <2>1, BufferAssumption DEF BInv, TypeOK, RingOK, NextSlot, Slots
      <4>3. QED
        BY <1>1, <4>1, <4>2 DEF BInv, TypeOK, RingOK
    <3>2. GatherOK'
      BY <2>1 DEF Publish, BInv, TypeOK, GatherOK
    <3>3. QED
      BY <3>1, <3>2, TypesUntouched DEF Publish, BInv, TypeOK
  <2>3. /\ lens'[head] = total
        /\ \A s \in Slots \ {head} : lens'[s] = lens[s]
    BY <2>1 DEF BInv, TypeOK, RingOK
  <2>4. /\ RingSlot(count) = head
        /\ \A i \in First .. count - 1 : RingSlot(i) \in Slots \ {head}
    BY <1>1, <1>2, SlotOf DEF BInv, IInv, RingShape
  <2>5. \A i \in First .. count : Before(i)' = Before(i)
    <3> SUFFICES ASSUME NEW i \in First .. count, i # First
                 PROVE  lens'[RingSlot(i - 1)] = lens[RingSlot(i - 1)]
      BY <1>1, <1>3 DEF Before
    <3> QED
      BY <1>2, <2>3, <2>4
  <2>6. Before(count)' = Before(count) + total
    <3>1. count' # First' /\ count' - 1 = count
      BY <1>1, <1>2, <2>1
    <3>2. RingSlot(count - 1)' = head
      BY <1>1, <2>4, <3>1 DEF RingSlot
    <3>3. Before(count)' = bufs[head][total]
      BY <1>1, <2>3, <3>1, <3>2 DEF Before
    <3>4. total \in 1 .. total
      BY <1>2, <1>4
    <3>5. QED
      BY <1>2, <3>3, <3>4 DEF Stored
  <2>7. \A i \in First .. count - 1 :
            /\ lens'[RingSlot(i)] > 0
            /\ Stored(RingSlot(i), Before(i), lens[RingSlot(i)])'
    <3> SUFFICES ASSUME NEW i \in First .. count - 1
                 PROVE  /\ lens'[RingSlot(i)] > 0
                        /\ Stored(RingSlot(i), Before(i), lens[RingSlot(i)])'
      OBVIOUS
    <3>1. i \in First .. count /\ lens'[RingSlot(i)] = lens[RingSlot(i)]
      BY <1>2, <2>3, <2>4
    <3>2. lens[RingSlot(i)] > 0 /\ Stored(RingSlot(i), Before(i), lens[RingSlot(i)])
      BY DEF BInv, RingBytes
    <3>3. QED
      BY <1>1, <1>3, <2>5, <3>1, <3>2 DEF Stored
  <2>8. ASSUME NEW i, i = count
        PROVE  /\ lens'[RingSlot(i)] > 0
               /\ Stored(RingSlot(i), Before(i), lens[RingSlot(i)])'
    <3>1. i \in First .. count /\ RingSlot(i) = head /\ lens'[head] = total
      BY <1>2, <2>3, <2>4, <2>8
    <3>2. Stored(head, Before(i), total)
      BY <1>2, <2>8
    <3>3. QED
      BY <1>1, <1>3, <1>4, <2>5, <3>1, <3>2 DEF Stored
  <2>9. \A i \in First' .. count' - 1 :
            /\ lens'[RingSlot(i)'] > 0
            /\ Stored(RingSlot(i), Before(i), lens[RingSlot(i)])'
    <3>1. \A i \in First' .. count' - 1 : i \in First .. count - 1 \/ i = count
      BY <1>1, <1>2, <2>1
    <3>2. QED
      BY <1>3, <2>7, <2>8, <3>1
  <2>10. received' = Before(count)'
    BY <1>1, <1>2, <2>6
  <2>11. QED
    BY <1>1, <2>2, <2>9, <2>10 DEF BInv, RingBytes
<1>5. CASE ~ (total > 0)
  <2>1. UNCHANGED ring /\ gpc' = AfterPublish
    BY <1>1, <1>5 DEF Publish, ring
  <2>2. TypeOK'
    <3>1. GatherOK'
      BY <2>1 DEF Publish, AfterPublish, BInv, TypeOK, GatherOK
    <3>2. QED
      BY <2>1, <3>1, TypesUntouched DEF Publish, BInv, TypeOK
  <2>3. /\ \A i : Before(i)' = Before(i)
        /\ \A s, b, n : Stored(s, b, n)' = Stored(s, b, n)
    BY <1>1, <1>3, <2>1 DEF Before, Stored, ring
  <2>4. total = 0
    BY <1>2, <1>5
  <2>5. QED
    BY <1>1, <1>2, <1>3, <2>1, <2>2, <2>3, <2>4 DEF BInv, RingBytes, ring
<1>6. QED
  BY <1>4, <1>5

(* Processing appends the oldest batch, which continues the parsed bytes.  *)
LEMMA ProcessBytes ==
    ASSUME BInv, Process
    PROVE  TypeOK' /\ RingBytes'
<1> DEFINE n == lens[tail]
           p == SubSeq(bufs[tail], 1, n)
<1>1. /\ UNCHANGED <<ring, received, total>> /\ Filling' = Filling
      /\ parsed' = parsed \o p
      /\ First = 0 /\ First' = 1 /\ count > 0 /\ count \in Nat
  BY DEF Process, gather, Filling, First, BInv, IInv, Claims, Reading, TypeOK, RingOK
<1>2. /\ RingSlot(0) = tail /\ Before(0) = Len(parsed)
      /\ n > 0 /\ n \in Nat /\ n <= Len(bufs[tail])
      /\ \A k \in 1 .. n : bufs[tail][k] = Len(parsed) + k
      /\ bufs[tail] \in Seq(Bytes) /\ parsed \in Seq(Bytes)
  <2>1. RingSlot(0) = tail /\ Before(0) = Len(parsed) /\ 0 \in First .. count - 1
    BY <1>1, SlotOf DEF BInv, IInv, Before
  <2>2. n \in Nat /\ bufs[tail] \in Seq(Bytes) /\ parsed \in Seq(Bytes)
    BY BufferAssumption DEF BInv, TypeOK, RingOK, ParseOK
  <2>3. QED
    BY <2>1, <2>2 DEF BInv, RingBytes, Stored
<1>3. p \in Seq(Bytes) /\ Len(p) = n /\ \A k \in 1 .. n : p[k] = bufs[tail][k]
  <2>1. \A k \in 1 .. n : bufs[tail][k] \in Bytes
    BY <1>2, LenProperties, ElementOfSeq
  <2>2. QED
    BY <1>2, <2>1, SubSeqProperties
<1> HIDE DEF p
<1>4. /\ parsed' \in Seq(Bytes) /\ Len(parsed') = Len(parsed) + n
      /\ \A k \in 1 .. Len(parsed') : parsed'[k] = k
  <2>1. /\ parsed' \in Seq(Bytes) /\ Len(parsed') = Len(parsed) + n
        /\ \A k \in 1 .. Len(parsed) + n :
              parsed'[k] = IF k <= Len(parsed) THEN parsed[k] ELSE p[k - Len(parsed)]
    <3>1. /\ parsed \o p \in Seq(Bytes) /\ Len(parsed \o p) = Len(parsed) + Len(p)
          /\ \A k \in 1 .. Len(parsed) + Len(p) : (parsed \o p)[k] =
                IF k <= Len(parsed) THEN parsed[k] ELSE p[k - Len(parsed)]
      <4>1. parsed \in Seq(Bytes) /\ p \in Seq(Bytes)
        BY <1>2, <1>3
      <4>2. QED
        BY <4>1, ConcatProperties
    <3>2. parsed' = parsed \o p /\ Len(p) = n
      BY <1>1, <1>3
    <3>3. QED
      BY <3>1, <3>2
  <2>2. Len(parsed) \in Nat /\ \A k \in 1 .. Len(parsed) : parsed[k] = k
    BY <1>2, LenProperties DEF BInv, RingBytes
  <2>3. \A k \in 1 .. n : p[k] = Len(parsed) + k
    BY <1>2, <1>3
  <2>4. ASSUME NEW k \in 1 .. Len(parsed) + n
        PROVE  parsed'[k] = k
    <3>1. CASE k <= Len(parsed)
      <4>1. k \in 1 .. Len(parsed)
        BY <2>2, <3>1
      <4>2. QED
        BY <2>1, <2>2, <3>1, <4>1
    <3>2. CASE ~ (k <= Len(parsed))
      <4>1. k - Len(parsed) \in 1 .. n
        BY <1>2, <2>2, <3>2
      <4>2. parsed'[k] = Len(parsed) + (k - Len(parsed))
        BY <2>1, <2>3, <3>2, <4>1
      <4>3. QED
        BY <2>2, <4>2
    <3>3. QED
      BY <3>1, <3>2
  <2>5. QED
    BY <2>1, <2>4
<1>5. TypeOK'
  <2>1. ParseOK'
    BY <1>4 DEF Process, BInv, TypeOK, ParseOK
  <2>2. QED
    BY <2>1, TypesUntouched DEF Process, BInv, TypeOK
<1>6. RingBytes'
  <2>1. \A i : RingSlot(i)' = RingSlot(i)
    BY <1>1 DEF RingSlot, ring
  <2>2. \A s, b, m : Stored(s, b, m)' = Stored(s, b, m)
    BY <1>1 DEF Stored, ring
  <2>3. ASSUME NEW i \in 1 .. count
        PROVE  Before(i)' = Before(i)
    <3>1. CASE i = 1
      <4>1. Before(1) = bufs[tail][n] /\ Before(1)' = Len(parsed')
        BY <1>1, <1>2 DEF Before
      <4>2. n \in 1 .. n
        BY <1>2
      <4>3. QED
        BY <1>2, <1>4, <3>1, <4>1, <4>2
    <3>2. CASE i # 1
      BY <1>1, <2>1, <3>2 DEF Before, ring
    <3>3. QED
      BY <3>1, <3>2
  <2>4. QED
    BY <1>1, <1>4, <2>1, <2>2, <2>3 DEF BInv, RingBytes, ring
<1>7. QED
  BY <1>5, <1>6

(* Releasing a batch renumbers the ones behind it.                         *)
LEMMA ReleaseBytes ==
    ASSUME BInv, Release
    PROVE  TypeOK' /\ RingBytes'
<1>1. /\ UNCHANGED <<bufs, lens, head, parsed, received, total>> /\ Filling' = Filling
      /\ tail' = NextSlot(tail) /\ count' = count - 1
      /\ First = 1 /\ First' = 0 /\ count > 0 /\ count \in Nat /\ count <= buffer_count
  BY BufferAssumption
     DEF Release, gather, Filling, First, BInv, IInv, Claims, Reading, TypeOK, RingOK
<1>2. \A i \in 0 .. count - 1 : RingSlot(i)' = RingSlot(i + 1)
  BY <1>1, BufferAssumption DEF RingSlot, NextSlot, Slots, BInv, TypeOK, RingOK
<1>3. \A i \in 0 .. count - 1 : Before(i)' = Before(i + 1)
  <2>1. ASSUME NEW i \in 0 .. count - 1
        PROVE  Before(i)' = Before(i + 1)
    <3>1. CASE i = 0
      BY <1>1, <3>1 DEF Before
    <3>2. CASE i # 0
      <4>1. i - 1 \in 0 .. count - 1 /\ (i - 1) + 1 = i /\ (i + 1) - 1 = i /\ i + 1 # 1
        BY <1>1, <3>2
      <4>2. RingSlot(i - 1)' = RingSlot(i)
        BY <1>2, <4>1
      <4>3. QED
        BY <1>1, <3>2, <4>1, <4>2 DEF Before
    <3>3. QED
      BY <3>1, <3>2
  <2>2. QED
    BY <2>1
<1>4. \A s, b, n : Stored(s, b, n)' = Stored(s, b, n)
  BY <1>1 DEF Stored
<1>5. TypeOK'
  <2>1. RingOK'
    BY <1>1, BufferAssumption DEF BInv, TypeOK, RingOK, NextSlot, Slots
  <2>2. ParseOK'
    BY DEF Release, BInv, TypeOK, ParseOK
  <2>3. QED
    BY <2>1, <2>2, TypesUntouched DEF Release, BInv, TypeOK
<1>6. RingBytes'
  <2>1. \A i \in 0 .. count' - 1 :
            /\ lens'[RingSlot(i)'] > 0
            /\ Stored(RingSlot(i), Before(i), lens[RingSlot(i)])'
    <3> SUFFICES ASSUME NEW i \in 0 .. count' - 1
                 PROVE  /\ lens'[RingSlot(i)'] > 0
                        /\ Stored(RingSlot(i), Before(i), lens[RingSlot(i)])'
      OBVIOUS
    <3>1. i \in 0 .. count - 1 /\ i + 1 \in First .. count - 1
      BY <1>1
    <3>2. QED
      BY <1>1, <1>2, <1>3, <1>4, <3>1 DEF BInv, RingBytes
  <2>2. Before(count)' = Before(count)
    <3>1. count - 1 \in 0 .. count - 1 /\ (count - 1) + 1 = count
      BY <1>1
    <3>2. QED
      BY <1>1, <1>3, <3>1
  <2>3. QED
    BY <1>1, <1>4, <2>1, <2>2 DEF BInv, RingBytes
<1>7. QED
  BY <1>5, <1>6

(* Every step keeps the types and the order of the bytes.                  *)
LEMMA NextBInv == BInv /\ [Next]_vars => BInv'
<1> SUFFICES ASSUME BInv, [Next]_vars PROVE TypeOK' /\ RingBytes'
  BY NextIInv DEF BInv
<1>1. CASE Claim
  BY <1>1, ClaimBytes, QuietType DEF BInv
<1>2. CASE ReadData
  BY <1>2, ReadDataBytes
<1>3. CASE Publish
  BY <1>3, PublishBytes
<1>4. CASE Process
  BY <1>4, ProcessBytes
<1>5. CASE Release
  BY <1>5, ReleaseBytes
<1>6. CASE \/ Environment \/ ReadWouldBlock \/ ReadEnd \/ ArmBridge \/ BridgePoll
           \/ EndBridge \/ DrainIdle \/ SignalBatch \/ OuterPoll \/ SetDone
           \/ SignalDone \/ NextBatch \/ SignalFree \/ WriteIdle \/ Join
           \/ UNCHANGED vars
  BY <1>6, QuietType, QuietBytes DEF BInv
<1>7. QED
  BY <1>1, <1>2, <1>3, <1>4, <1>5, <1>6 DEF Next, Gather, Parse

(* Two sequences of the same length that agree byte by byte.               *)
LEMMA SameBytes ==
    ASSUME NEW s \in Seq(Nat), NEW b \in Nat, NEW n \in Nat, n <= Len(s),
           \A k \in 1 .. n : s[k] = b + k
    PROVE  SubSeq(s, 1, n) = StreamAfter(b, n)
<1>1. \A k \in 1 .. n : s[k] \in Nat
  BY LenProperties, ElementOfSeq
<1>2. /\ SubSeq(s, 1, n) \in Seq(Nat) /\ Len(SubSeq(s, 1, n)) = n
      /\ \A k \in 1 .. n : SubSeq(s, 1, n)[k] = b + k
  BY <1>1, SubSeqProperties
<1>3. SubSeq(s, 1, n) \in [1 .. n -> Nat]
  BY <1>2, LenProperties
<1>4. QED
  BY <1>2, <1>3 DEF StreamAfter

(* The variables of the read pipeline stay in their ranges.                *)
THEOREM TypeCorrect == Spec => []TypeOK
<1>1. BInv => TypeOK
  BY DEF BInv
<1>2. QED
  BY <1>1, InitBInv, NextBInv, PTL DEF Spec

(* Every byte read from the pty is parsed, in a published batch or in the  *)
(* buffer being filled, once, and in the order in which it was written.    *)
THEOREM RingKeepsTheStream == Spec => []NothingLostInRing
<1>1. ASSUME BInv
      PROVE  NothingLostInRing
  <2>1. /\ parsed \in Seq(Nat) /\ Len(parsed) \in Nat /\ count \in Nat
        /\ total \in Nat /\ head \in Slots
        /\ \A s \in Slots : bufs[s] \in Seq(Nat) /\ lens[s] \in Nat
    <3>1. Bytes \subseteq Nat
      BY BufferAssumption DEF Bytes
    <3>2. parsed \in Seq(Nat) /\ \A s \in Slots : bufs[s] \in Seq(Nat)
      BY <1>1, <3>1, SeqMonotonic DEF BInv, TypeOK, RingOK, ParseOK
    <3>3. QED
      BY <1>1, <3>2, LenProperties, BufferAssumption DEF BInv, TypeOK, RingOK, GatherOK
  <2>2. parsed = StreamAfter(0, Len(parsed))
    <3>1. PICK none \in Nat : none = 0
      OBVIOUS
    <3>2. \A k \in 1 .. Len(parsed) : parsed[k] = none + k
      BY <1>1, <2>1, <3>1 DEF BInv, RingBytes
    <3>3. SubSeq(parsed, 1, Len(parsed)) = StreamAfter(none, Len(parsed))
      BY <2>1, <3>2, SameBytes
    <3>4. QED
      BY <2>1, <3>1, <3>3, SubSeqFull
  <2>3. ASSUME NEW i \in First .. count - 1
        PROVE  /\ lens[RingSlot(i)] > 0
               /\ Batch(RingSlot(i)) = StreamAfter(Before(i), lens[RingSlot(i)])
    <3>1. RingSlot(i) \in Slots /\ Before(i) \in Nat
      BY <1>1, <2>1, SlotOf, BeforeType DEF BInv, IInv
    <3>2. lens[RingSlot(i)] > 0 /\ Stored(RingSlot(i), Before(i), lens[RingSlot(i)])
      BY <1>1 DEF BInv, RingBytes
    <3>3. QED
      BY <2>1, <3>1, <3>2, SameBytes DEF Stored, Batch
  <2>4. ASSUME Filling
        PROVE  SubSeq(bufs[head], 1, total) = StreamAfter(Before(count), total)
    <3>1. Before(count) \in Nat
      BY <1>1, <2>1, BeforeType
    <3>2. Stored(head, Before(count), total)
      BY <1>1, <2>4 DEF BInv, RingBytes
    <3>3. QED
      BY <2>1, <3>1, <3>2, SameBytes DEF Stored
  <2>5. received = Before(count) + IF Filling THEN total ELSE 0
    BY <1>1 DEF BInv, RingBytes
  <2>6. QED
    BY <2>2, <2>3, <2>4, <2>5 DEF NothingLostInRing
<1>2. QED
  BY <1>1, InitBInv, NextBInv, PTL DEF Spec

-----------------------------------------------------------------------------
(* Once `done' is set nothing is published any more, and the parse stage   *)
(* leaves its loop only when it finds `done' set and no batch.             *)
EndInv ==
    /\ done => gpc \in {"finished", "exited"}
    /\ ppc \in {"join", "exited"} => done /\ count = 0

LEMMA NextEndInv == EndInv /\ BInv /\ [Next]_vars => EndInv'
<1> SUFFICES ASSUME EndInv, BInv, [Next]_vars PROVE EndInv'
  OBVIOUS
<1>1. CASE Environment \/ UNCHANGED vars
  BY <1>1 DEF Environment, ChildWrites, ChildCloses, WriteQuit, vars, ring,
     gather, parse, EndInv
<1>2. CASE Claim \/ ReadData \/ ReadWouldBlock \/ ReadEnd
  BY <1>2 DEF Claim, ReadData, ReadWouldBlock, ReadEnd, ring, parse, EndInv
<1>3. CASE ArmBridge \/ BridgePoll \/ EndBridge \/ DrainIdle
  BY <1>3 DEF ArmBridge, BridgePoll, EndBridge, DrainIdle, ring, parse, EndInv
<1>4. CASE Publish
  BY <1>4 DEF Publish, parse, EndInv
<1>5. CASE SignalBatch \/ SignalDone \/ SetDone \/ OuterPoll
  BY <1>5 DEF SignalBatch, SignalDone, SetDone, OuterPoll, BatchReady, ring, parse, EndInv
<1>6. CASE NextBatch
  BY <1>6 DEF NextBatch, ring, gather, EndInv, BInv, TypeOK, RingOK
<1>7. CASE Process \/ WriteIdle \/ Join
  BY <1>7 DEF Process, WriteIdle, Join, ring, gather, EndInv
<1>8. CASE Release
  BY <1>8 DEF Release, gather, EndInv
<1>9. CASE SignalFree
  BY <1>9 DEF SignalFree, SlotFree, ring, EndInv
<1>10. QED
  BY <1>1, <1>2, <1>3, <1>4, <1>5, <1>6, <1>7, <1>8, <1>9 DEF Next, Gather, Parse

(* When the parse stage leaves, everything read from the pty was parsed.   *)
THEOREM LeavesNothingBehind == Spec => []DrainedAtExit
<1>1. Init => EndInv
  BY DEF Init, EndInv
<1>2. EndInv /\ BInv => DrainedAtExit
  <2> SUFFICES ASSUME EndInv, BInv, ppc \in {"join", "exited"}
               PROVE  Len(parsed) = received
    BY DEF EndInv, DrainedAtExit
  <2>1. count = 0 /\ First = 0 /\ ~ Filling
    BY DEF EndInv, First, Filling
  <2>2. received = Len(parsed) + 0 /\ Len(parsed) \in Nat
    BY <2>1, LenProperties DEF BInv, RingBytes, Before, TypeOK, ParseOK
  <2>3. QED
    BY <2>2
<1>3. QED
  BY <1>1, <1>2, InitBInv, NextBInv, NextEndInv, PTL DEF Spec

=============================================================================
