--------------------------- MODULE ReadPipeline ---------------------------
(***************************************************************************)
(* The two-stage pty reader of src/src/termio/Exec.zig (ReadThread): the   *)
(* gather thread reads the pty into a ring of buffers, the parse thread    *)
(* (the read thread itself) feeds the published batches to the terminal.   *)
(*                                                                         *)
(* One action per critical section of the pipeline mutex and one per       *)
(* system call or condition-variable signal made outside it.  Each         *)
(* condition variable has one possible waiter, so a wait is a program      *)
(* location and a signal moves its waiter on.                              *)
(*                                                                         *)
(* The bytes of the pty are numbered in the order the child writes them.   *)
(***************************************************************************)
EXTENDS Naturals, Sequences

CONSTANTS buffer_count, buffer_capacity, bridge_threshold, bridge_spin_max,
          MaxBytes   \* bound: how many bytes the child writes

ASSUME BufferAssumption ==
    /\ buffer_count \in Nat \ {0, 1}
    /\ buffer_capacity \in Nat \ {0}
    /\ bridge_threshold \in 1 .. buffer_capacity
    /\ bridge_spin_max \in Nat
    /\ MaxBytes \in Nat

VARIABLES
    written, closed, quit,         \* the pty's far end and the quit pipe
    received,                      \* bytes read from the pty so far
    bufs, lens, head, tail, count, \* Pipeline: the ring
    bridging, done,                \* Pipeline: flags
    idle_pipe, idle,               \* whether the pipe exists; bytes in it
    gpc, total, spins, bridge_start, fatal, revents, ended,  \* gather stage
    ppc, wake, parsed              \* parse stage

env    == <<written, closed, quit>>
ring   == <<bufs, lens, head, tail, count>>
gather == <<gpc, total, spins, bridge_start, fatal, revents, ended>>
parse  == <<ppc, wake, parsed>>
vars   == <<env, received, ring, bridging, done, idle_pipe, idle, gather, parse>>

Slots == 0 .. buffer_count - 1
(* Mutant: the wrap-around is one too late. *)
NextSlotLate(i) == IF i = buffer_count THEN 0 ELSE i + 1
NextSlot(i) == IF i = buffer_count - 1 THEN 0 ELSE i + 1  \* (i + 1) % buffer_count

Available == written - received

Init ==
    /\ written = 0 /\ closed = FALSE /\ quit = FALSE /\ received = 0
    /\ bufs = [s \in Slots |-> <<>>]
    /\ lens = [s \in Slots |-> 0]
    /\ head = 0 /\ tail = 0 /\ count = 0
    /\ bridging = FALSE /\ done = FALSE
    /\ idle_pipe \in BOOLEAN /\ idle = 0
    /\ gpc = "claim" /\ total = 0 /\ spins = 0
    /\ bridge_start = FALSE /\ fatal = FALSE /\ revents = {} /\ ended = "no"
    /\ ppc = "next" /\ wake = FALSE /\ parsed = <<>>

-----------------------------------------------------------------------------
(* The child and the IO writer thread. *)

ChildWrites ==
    /\ ~closed /\ written < MaxBytes
    /\ written' = written + 1
    /\ UNCHANGED <<closed, quit, received, ring, bridging, done, idle_pipe, idle,
                   gather, parse>>

ChildCloses ==
    /\ ~closed /\ closed' = TRUE
    /\ UNCHANGED <<written, quit, received, ring, bridging, done, idle_pipe, idle,
                   gather, parse>>

(* threadExit: one byte into the quit pipe. *)
WriteQuit ==
    /\ ~quit /\ quit' = TRUE
    /\ UNCHANGED <<written, closed, received, ring, bridging, done, idle_pipe, idle,
                   gather, parse>>

-----------------------------------------------------------------------------
(* The gather stage. *)

(* Mutant: the gather stage does not wait for a free buffer. *)
ClaimUnchecked ==
    /\ gpc = "claim"
    /\ gpc' = "read" /\ total' = 0 /\ spins' = 0 /\ bridge_start' = FALSE
    /\ UNCHANGED <<env, received, ring, bridging, done, idle_pipe, idle, fatal,
                   revents, ended, parse>>

(* Claim a free buffer, or wait on slot_free for one. *)
Claim ==
    /\ gpc = "claim"
    /\ IF count = buffer_count
       THEN gpc' = "full" /\ UNCHANGED <<total, spins, bridge_start>>
       ELSE gpc' = "read" /\ total' = 0 /\ spins' = 0 /\ bridge_start' = FALSE
    /\ UNCHANGED <<env, received, ring, bridging, done, idle_pipe, idle, fatal,
                   revents, ended, parse>>

(* Mutant: the new bytes go to the start of the buffer, not to buf[total..]. *)
ReadDataFromStart ==
    /\ gpc = "read" /\ Available > 0
    /\ \E n \in 1 .. Available :
          /\ total + n <= buffer_capacity
          /\ bufs' = [bufs EXCEPT ![head] = [i \in 1 .. n |-> received + i]
                                            \o SubSeq(@, 1, total)]
          /\ received' = received + n
          /\ total' = total + n
          /\ gpc' = IF total + n = buffer_capacity THEN "publish" ELSE "read"
    /\ spins' = 0
    /\ UNCHANGED <<env, lens, head, tail, count, bridging, done, idle_pipe, idle,
                   bridge_start, fatal, revents, ended, parse>>

ReadData ==
    /\ gpc = "read" /\ Available > 0
    /\ \E n \in 1 .. Available :
          /\ total + n <= buffer_capacity
          /\ bufs' = [bufs EXCEPT ![head] =
                        SubSeq(@, 1, total) \o [i \in 1 .. n |-> received + i]]
          /\ received' = received + n
          /\ total' = total + n
          /\ gpc' = IF total + n = buffer_capacity THEN "publish" ELSE "read"
    /\ spins' = 0
    /\ UNCHANGED <<env, lens, head, tail, count, bridging, done, idle_pipe, idle,
                   bridge_start, fatal, revents, ended, parse>>

(* EAGAIN: deliver an interactive batch, spin, or try to bridge the gap.   *)
ReadWouldBlock ==
    /\ gpc = "read" /\ Available = 0 /\ ~closed
    /\ IF total < bridge_threshold
       THEN gpc' = "publish" /\ UNCHANGED <<spins, bridge_start>>
       ELSE IF spins < bridge_spin_max
       THEN spins' = spins + 1 /\ UNCHANGED <<gpc, bridge_start>>
       ELSE /\ bridge_start' = TRUE
            /\ gpc' \in IF bridge_start THEN {"arm", "publish"} ELSE {"arm"}
            /\ UNCHANGED spins
    /\ UNCHANGED <<env, received, ring, bridging, done, idle_pipe, idle, total,
                   fatal, revents, ended, parse>>

(* The far end is closed and drained: EIO on Linux, 0 bytes on macOS.      *)
ReadEnd ==
    /\ gpc = "read" /\ Available = 0 /\ closed
    /\ fatal' \in BOOLEAN
    /\ ended' = IF fatal' THEN "eof" ELSE ended
    /\ gpc' = "publish"
    /\ UNCHANGED <<env, received, ring, bridging, done, idle_pipe, idle, total,
                   spins, bridge_start, revents, parse>>

(* Mutant: the bridge is armed without looking whether the parser is idle. *)
ArmBridgeUnchecked ==
    /\ gpc = "arm"
    /\ gpc' = "bridge" /\ bridging' = TRUE
    /\ UNCHANGED <<env, received, ring, done, idle_pipe, idle, total, spins,
                   bridge_start, fatal, revents, ended, parse>>

(* Bridge only while the parse stage has something to do. *)
ArmBridge ==
    /\ gpc = "arm"
    /\ IF count = 0
       THEN gpc' = "publish" /\ UNCHANGED bridging
       ELSE gpc' = "bridge" /\ bridging' = TRUE
    /\ UNCHANGED <<env, received, ring, done, idle_pipe, idle, total, spins,
                   bridge_start, fatal, revents, ended, parse>>

Pollable ==
    (IF Available > 0 THEN {"in"} ELSE {}) \cup (IF closed THEN {"hup"} ELSE {})
        \cup (IF quit THEN {"quit"} ELSE {})

(* poll() with the 1 ms timeout: with nothing ready it times out.  (A      *)
(* failing bridge poll, which is delivered like a timeout, is left out.)   *)
BridgePoll ==
    /\ gpc = "bridge"
    /\ revents' = Pollable \cup (IF idle > 0 THEN {"idle"} ELSE {})
    /\ gpc' = "bridged"
    /\ UNCHANGED <<env, received, ring, bridging, done, idle_pipe, idle, total,
                   spins, bridge_start, fatal, ended, parse>>

(* clearBridging, then act on what poll saw. *)
EndBridge ==
    /\ gpc = "bridged"
    /\ bridging' = FALSE
    /\ fatal' = ("quit" \in revents)
    /\ ended' = IF "quit" \in revents THEN "quit" ELSE ended
    /\ gpc' = IF "quit" \notin revents /\ "idle" \in revents THEN "drain"
              ELSE IF "quit" \notin revents /\ "in" \in revents THEN "read"
              ELSE "publish"
    /\ revents' = {}
    /\ UNCHANGED <<env, received, ring, done, idle_pipe, idle, total, spins,
                   bridge_start, parse>>

DrainIdle ==
    /\ gpc = "drain"
    /\ idle' = 0
    /\ gpc' = "publish"
    /\ UNCHANGED <<env, received, ring, bridging, done, idle_pipe, total, spins,
                   bridge_start, fatal, revents, ended, parse>>

AfterPublish ==
    IF fatal THEN "finish" ELSE IF total = buffer_capacity THEN "claim" ELSE "poll"

Publish ==
    /\ gpc = "publish"
    /\ IF total > 0
       THEN /\ lens' = [lens EXCEPT ![head] = total]
            /\ head' = NextSlot(head)
            /\ count' = count + 1
            /\ gpc' = "signal"
       ELSE /\ gpc' = AfterPublish
            /\ UNCHANGED <<lens, head, count>>
    /\ UNCHANGED <<env, received, bufs, tail, bridging, done, idle_pipe, idle,
                   total, spins, bridge_start, fatal, revents, ended, parse>>

BatchReady == ppc' = IF ppc = "waiting" THEN "next" ELSE ppc
SlotFree   == gpc' = IF gpc = "full" THEN "claim" ELSE gpc

(* Mutant: a batch is published without the signal. *)
SignalBatchSilent ==
    /\ gpc = "signal"
    /\ gpc' = AfterPublish
    /\ UNCHANGED <<env, received, ring, bridging, done, idle_pipe, idle, total,
                   spins, bridge_start, fatal, revents, ended, parse>>

SignalBatch ==
    /\ gpc = "signal"
    /\ BatchReady
    /\ gpc' = AfterPublish
    /\ UNCHANGED <<env, received, ring, bridging, done, idle_pipe, idle, total,
                   spins, bridge_start, fatal, revents, ended, wake, parsed>>

(* The outer poll sleeps until the pty or the quit pipe has something.     *)
OuterPoll ==
    /\ gpc = "poll"
    /\ \/ Pollable # {} /\
            \/ "quit" \in Pollable /\ ended' = "quit" /\ gpc' = "finish"
            \/ "quit" \notin Pollable /\ "hup" \in Pollable
                 /\ ended' = "hup" /\ gpc' = "finish"
            \/ Pollable = {"in"} /\ gpc' = "claim" /\ UNCHANGED ended
       \/ ended' = "error" /\ gpc' = "finish"     \* poll failed
    /\ UNCHANGED <<env, received, ring, bridging, done, idle_pipe, idle, total,
                   spins, bridge_start, fatal, revents, parse>>

SetDone ==
    /\ gpc = "finish"
    /\ done' = TRUE
    /\ gpc' = "finished"
    /\ UNCHANGED <<env, received, ring, bridging, idle_pipe, idle, total, spins,
                   bridge_start, fatal, revents, ended, parse>>

(* Mutant: the end of the stream is set without the signal. *)
SignalDoneSilent ==
    /\ gpc = "finished"
    /\ gpc' = "exited"
    /\ UNCHANGED <<env, received, ring, bridging, done, idle_pipe, idle, total,
                   spins, bridge_start, fatal, revents, ended, parse>>

SignalDone ==
    /\ gpc = "finished"
    /\ BatchReady
    /\ gpc' = "exited"
    /\ UNCHANGED <<env, received, ring, bridging, done, idle_pipe, idle, total,
                   spins, bridge_start, fatal, revents, ended, wake, parsed>>

Gather ==
    \/ Claim \/ ReadData \/ ReadWouldBlock \/ ReadEnd
    \/ ArmBridge \/ BridgePoll \/ EndBridge \/ DrainIdle
    \/ Publish \/ SignalBatch \/ SetDone \/ SignalDone

-----------------------------------------------------------------------------
(* The parse stage. *)

(* Mutant: done is looked at before the batches that are left. *)
NextBatchDoneFirst ==
    /\ ppc = "next"
    /\ ppc' = IF done THEN "join" ELSE IF count > 0 THEN "process" ELSE "waiting"
    /\ UNCHANGED <<env, received, ring, bridging, done, idle_pipe, idle, gather,
                   wake, parsed>>

(* Take the next published batch, wait for one, or leave the loop. *)
NextBatch ==
    /\ ppc = "next"
    /\ ppc' = IF count > 0 THEN "process" ELSE IF done THEN "join" ELSE "waiting"
    /\ UNCHANGED <<env, received, ring, bridging, done, idle_pipe, idle, gather,
                   wake, parsed>>

(* processOutput reads the batch without the pipeline mutex. *)
Process ==
    /\ ppc = "process"
    /\ parsed' = parsed \o SubSeq(bufs[tail], 1, lens[tail])
    /\ ppc' = "release"
    /\ UNCHANGED <<env, received, ring, bridging, done, idle_pipe, idle, gather, wake>>

Release ==
    /\ ppc = "release"
    /\ tail' = NextSlot(tail)
    /\ count' = count - 1
    /\ wake' = (count' = 0 /\ bridging /\ idle_pipe)
    /\ ppc' = "freed"
    /\ UNCHANGED <<env, received, bufs, lens, head, bridging, done, idle_pipe, idle,
                   gather, parsed>>

SignalFree ==
    /\ ppc = "freed"
    /\ SlotFree
    /\ ppc' = IF wake THEN "wake" ELSE "next"
    /\ UNCHANGED <<env, received, ring, bridging, done, idle_pipe, idle, total, spins,
                   bridge_start, fatal, revents, ended, wake, parsed>>

WriteIdle ==
    /\ ppc = "wake"
    /\ idle' = idle + 1
    /\ wake' = FALSE
    /\ ppc' = "next"
    /\ UNCHANGED <<env, received, ring, bridging, done, idle_pipe, gather, parsed>>

(* The deferred gather_thread.join(). *)
Join ==
    /\ ppc = "join" /\ gpc = "exited"
    /\ ppc' = "exited"
    /\ UNCHANGED <<env, received, ring, bridging, done, idle_pipe, idle, gather,
                   wake, parsed>>

Parse == NextBatch \/ Process \/ Release \/ SignalFree \/ WriteIdle \/ Join

-----------------------------------------------------------------------------
Environment == ChildWrites \/ ChildCloses \/ WriteQuit
Next == Environment \/ Gather \/ OuterPoll \/ Parse

Spec == Init /\ [][Next]_vars

(* Each stage runs whenever it can; the outer poll returns once something  *)
(* it watches is ready.  Nothing makes the child write, close or the       *)
(* surface quit.                                                           *)
FairSpec ==
    /\ Spec
    /\ WF_vars(Gather)
    /\ WF_vars(Pollable # {} /\ OuterPoll)
    /\ WF_vars(Parse)

-----------------------------------------------------------------------------
Bytes == 1 .. MaxBytes

EnvOK ==
    /\ written \in 0 .. MaxBytes /\ received \in 0 .. written
    /\ closed \in BOOLEAN /\ quit \in BOOLEAN
RingOK ==
    /\ bufs \in [Slots -> Seq(Bytes)] /\ lens \in [Slots -> 0 .. buffer_capacity]
    /\ head \in Slots /\ tail \in Slots /\ count \in 0 .. buffer_count
FlagsOK ==
    /\ bridging \in BOOLEAN /\ done \in BOOLEAN
    /\ idle_pipe \in BOOLEAN /\ idle \in Nat
GatherOK ==
    /\ gpc \in {"claim", "full", "read", "arm", "bridge", "bridged", "drain",
                "publish", "signal", "poll", "finish", "finished", "exited"}
    /\ total \in 0 .. buffer_capacity /\ spins \in 0 .. bridge_spin_max
    /\ bridge_start \in BOOLEAN /\ fatal \in BOOLEAN
    /\ revents \in SUBSET {"in", "hup", "quit", "idle"}
    /\ ended \in {"no", "quit", "eof", "hup", "error"}
ParseOK ==
    /\ ppc \in {"next", "waiting", "process", "release", "freed", "wake", "join", "exited"}
    /\ wake \in BOOLEAN /\ parsed \in Seq(Bytes)

TypeOK == EnvOK /\ RingOK /\ FlagsOK /\ GatherOK /\ ParseOK

(* The gather stage writes into bufs[head] outside the mutex in these      *)
(* locations, the parse stage reads bufs[tail] outside it in "process".    *)
Filling == gpc \in {"read", "arm", "bridge", "bridged", "drain", "publish"}
Reading == ppc \in {"process", "release"}

(* A buffer is owned by one stage at a time. *)
OneOwner == Filling /\ Reading => head # tail

(* The i-th published batch not yet consumed, the oldest first. *)
RingSlot(i) ==
    IF tail + i >= buffer_count THEN tail + i - buffer_count ELSE tail + i
Batch(s) == SubSeq(bufs[s], 1, lens[s])

(* `n' bytes of the stream that follow its first `b' bytes.                *)
StreamAfter(b, n) == [k \in 1 .. n |-> b + k]

(* The oldest batch that is not in `parsed' yet, and how much of the       *)
(* stream comes before batch `i': it ends with the last byte of the batch  *)
(* before, or with the parsed bytes when there is none.                    *)
First     == IF ppc = "release" THEN 1 ELSE 0
Before(i) == IF i = First THEN Len(parsed)
             ELSE bufs[RingSlot(i - 1)][lens[RingSlot(i - 1)]]

(* Every byte read from the pty is in exactly one place: parsed, in a      *)
(* published batch, or in the buffer being filled; and those places, the   *)
(* batches from the oldest on, continue each other in the order in which   *)
(* the child wrote the bytes.                                              *)
NothingLostInRing ==
    /\ parsed = StreamAfter(0, Len(parsed))
    /\ \A i \in First .. count - 1 :
          /\ lens[RingSlot(i)] > 0
          /\ Batch(RingSlot(i)) = StreamAfter(Before(i), lens[RingSlot(i)])
    /\ Filling => SubSeq(bufs[head], 1, total) = StreamAfter(Before(count), total)
    /\ received = Before(count) + IF Filling THEN total ELSE 0

(* While the gather stage sleeps in a bridge poll, an idle parse stage has *)
(* interrupted it or is about to: a batch is never held back from an idle  *)
(* parser for the whole timeout.                                           *)
NoIdleSleep ==
    gpc = "bridge" /\ count = 0 /\ idle_pipe =>
        idle > 0 \/ (wake /\ ppc \in {"freed", "wake"})

(* The parse stage leaves only after everything that was published has     *)
(* been parsed, and the gather stage is gone by the time it has.           *)
DrainedAtExit ==
    ppc \in {"join", "exited"} => done /\ count = 0 /\ Len(parsed) = received

(* Both stages end once the child has closed the pty or the surface quits. *)
Terminates == (closed \/ quit) ~> (gpc = "exited" /\ ppc = "exited")

(* A byte the child wrote is parsed unless the reader is told to stop.     *)
EventuallyParsed ==
    \A b \in Bytes :
        (written >= b) ~> (Len(parsed) >= b \/ ended \in {"quit", "hup", "error"})

(* When the reader stops because the pty was closed, it has parsed         *)
(* everything the child wrote before closing it.                           *)
TailDelivered == ended = "hup" /\ ppc = "exited" => Len(parsed) = written

=============================================================================
