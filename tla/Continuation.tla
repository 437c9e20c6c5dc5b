---------------------------- MODULE Continuation ----------------------------
(***************************************************************************)
(* The continuation a stream may keep: the bytes from which a fresh stream *)
(* rebuilds what is unfinished (src/src/terminal/stream_continuation.zig), *)
(* for a terminal that is saved and restored in the middle of its input.   *)
(*                                                                         *)
(* A step is one read, taken byte by byte as debug builds do and as `next' *)
(* does with a read of one byte.  StreamReads has the reads of the others. *)
(***************************************************************************)
EXTENDS VtByte

CONSTANTS MaxBytes,   \* continuation_max_bytes
          NoTracker   \* the stream keeps no continuation

ASSUME ContinuationAssumption ==
    /\ MaxBytes \in Nat \ {0}
    /\ NoTracker \notin [bytes : Seq(Nat), broken : BOOLEAN]

VARIABLES tracker,  \* the continuation, or NoTracker
          built     \* history: what the unfinished string holds, while that is kept

vars == <<stream, tracker, built>>  \* the stream itself is VtByte's

-----------------------------------------------------------------------------
(* The continuation. *)

NoBytes == [bytes |-> <<>>, broken |-> FALSE]
Broken  == [bytes |-> <<>>, broken |-> TRUE]

LastIn(p, S) == CHOOSE i \in 0..Len(p) : /\ i > 0 => p[i] \in S
                                         /\ \A j \in i + 1..Len(p) : p[j] \notin S

(* Where replay must begin in input, or 0: at the last ESC ... *)
FindVTReplayStart(input) == LastIn(input, {Esc})

(* Mutant: a lead byte is looked for at the very end only. *)
FindUtf8ReplayStartNear(input) == IF input[Len(input)] >= 192 THEN Len(input) ELSE 0

(* ... or at the lead byte of what is pending, one of the last three. *)
FindUtf8ReplayStart(input) ==
    LET at == LastIn(input, 192..255) IN IF Len(input) - at < 3 THEN at ELSE 0

ReplayStart(s, input) ==
    IF s.vt.state # "ground" THEN FindVTReplayStart(input) ELSE FindUtf8ReplayStart(input)

Replace(suffix) ==
    IF Len(suffix) > MaxBytes THEN Broken ELSE [bytes |-> suffix, broken |-> FALSE]

Extend(t, fragment) ==
    IF t.broken THEN t
    ELSE IF Len(fragment) > MaxBytes - Len(t.bytes) THEN Broken
    ELSE [t EXCEPT !.bytes = @ \o fragment]

(* trackContinuation, after each read. *)
Track(t, s, input) ==
    LET start == ReplayStart(s, input)
    IN CASE Ground(s) -> NoBytes
         [] ~Ground(s) /\ start > 0 -> Replace(SubSeq(input, start, Len(input)))
         [] ~Ground(s) /\ start = 0 -> Extend(t, input)

(* BoundaryScanner.next on one byte: what it scans next, and whether work  *)
(* the handler has done for the byte would be repeated.  It takes bytes    *)
(* through the parser's table; every action but those that build a string  *)
(* is such work, and a C0 control in text is.                              *)
Builds == {"dcs_hook", "dcs_put", "apc_start", "apc_put", "osc_reset", "osc_put"}

Scan(s, c) ==
    IF s.vt.state # "ground"
    THEN LET n == ParserNext(s.vt, c)
         IN [s |-> WithVt(s, n.p), commits |-> \E k \in 1..3 : n.acts[k] # <<>> /\ n.acts[k][1][1] \notin Builds]
    ELSE LET one == DecoderNext(s.utf8, c)
             two == DecoderNext(one.d, c)
             cps == one.out \o (IF one.used THEN <<>> ELSE two.out)
             d   == IF one.used THEN one.d ELSE two.d
         IN [s |-> [(IF \E i \in 1..Len(cps) : cps[i] = Esc THEN StartEscape(s) ELSE s)
                    EXCEPT !.utf8 = d],
             commits |-> \E i \in 1..Len(cps) : cps[i] # Esc]

(* Committed work whose byte leaves the unfinished state as it is. *)
Omittable(s, n) ==
    /\ n.commits /\ ~Ground(n.s)
    /\ n.s.vt.state = s.vt.state /\ n.s.utf8.state = s.utf8.state

(* What a scan of bytes finds: where it ends, whether any byte commits, and *)
(* the bytes but the omittable ones.                                        *)
Joined(r, c, n) ==
    [s |-> n.s, commits |-> r.commits \/ n.commits,
     written |-> IF Omittable(r.s, n) THEN r.written ELSE Append(r.written, c)]
AndScan(r, c) == Joined(r, c, Scan(r.s, c))

Unscanned == [s |-> Fresh, commits |-> FALSE, written |-> <<>>]
Scanned(bytes) ==
    LET after[i \in 0..Len(bytes)] ==
            IF i = 0 THEN Unscanned ELSE AndScan(after[i - 1], bytes[i])
    IN after[Len(bytes)]

(* Tracker.write. *)
Written(bytes) == Scanned(bytes).written

(* validate: whether a snapshot may hold these bytes. *)
Verdict(n, bytes) ==
    CASE Ground(n.s) -> "NoPendingState"
      [] ~Ground(n.s) /\ ReplayStart(n.s, bytes) # 1 -> "NonCanonicalContinuation"
      [] ~Ground(n.s) /\ ReplayStart(n.s, bytes) = 1 ->
            IF n.commits THEN "ReplayWouldCommit" ELSE "valid"

Validate(bytes) ==
    IF bytes = <<>> THEN "valid" ELSE Verdict(Scanned(bytes), bytes)

-----------------------------------------------------------------------------
(* What the handlers and the OSC parser hold of an unfinished string. *)
Held(held, act) ==
    CASE act[1] \in {"dcs_hook", "apc_start", "osc_reset"} -> <<act>>
      [] act[1] \in {"dcs_put", "apc_put", "osc_put"} -> Append(held, act)
      [] act[1] \in {"dcs_unhook", "apc_end", "osc_end"} -> <<>>
      [] OTHER -> held

Build(held, acts) ==
    LET after[i \in 0..Len(acts)] == IF i = 0 THEN held ELSE Held(after[i - 1], acts[i])
    IN after[Len(acts)]

(* The memory for what is kept may be refused (markBroken). *)
Keep(r, chunk) ==
    /\ stream' = r.s
    /\ IF tracker = NoTracker THEN UNCHANGED <<tracker, built>>
       ELSE LET t == Track(tracker, r.s, chunk)
            IN \E kept \in {t} \cup (IF Len(t.bytes) > 0 THEN {Broken} ELSE {}) :
                  /\ tracker' = kept
                  /\ built' = IF kept.broken THEN <<>> ELSE Build(built, r.acts)

Init == /\ InitByte
        /\ tracker \in {NoTracker, NoBytes}
        /\ built = <<>>

ReadBytes(input) == Keep(NextBytes(stream, input), input)

NextRead == \E input \in Seq(Bytes) \ {<<>>} : ReadBytes(input)

ReadSpec == Init /\ [][NextRead]_vars

-----------------------------------------------------------------------------
(* The arrays of the parser and the continuation hold what is put into     *)
(* them, along every path that puts something there.                       *)
TypeOK ==
    /\ StreamOK
    /\ tracker # NoTracker =>
           /\ Len(tracker.bytes) <= MaxBytes
           /\ tracker.broken => tracker.bytes = <<>>

(* r, what w does to a fresh stream, rebuilds what is unfinished. *)
CutOff == <<"apc_end", FALSE>>
Rebuilds(w, r) ==
    /\ r.s = stream
    /\ Build(<<>>, r.acts) = built
    /\ Written(Track(NoBytes, r.s, w).bytes) = w
    /\ \A i \in 1..Len(r.acts) : r.acts[i][1] \in Builds \/ r.acts[i] = CutOff
    /\ Validate(w) = IF \E i \in 1..Len(r.acts) : r.acts[i] = CutOff
                     THEN "ReplayWouldCommit" ELSE "valid"

Replays(w) == Rebuilds(w, NextBytes(Fresh, w))

(* A fresh stream that is fed the continuation is where this one is, holds *)
(* the same part of an unfinished string, would export the same bytes, and *)
(* has done nothing a second time (stream.zig:509-512); a snapshot accepts *)
(* the bytes.  The exception is an APC that a C1 control has cut off: the  *)
(* bytes end it again, and no snapshot accepts them.                       *)
ContinuationReplays ==
    (tracker # NoTracker /\ tracker # Broken) => Replays(Written(tracker.bytes))

=============================================================================
