---------------------------- MODULE StreamReads ----------------------------
(***************************************************************************)
(* A stream that is read into, as release builds do it, with a             *)
(* continuation or without.                                                *)
(*                                                                         *)
(* A step is one read.  The stream's state is finite, so that behaviours   *)
(* have reads without end; what is bounded is the length of one read and   *)
(* the bytes that occur.                                                   *)
(***************************************************************************)
EXTENDS VtStream, Continuation

CONSTANTS Pieces,               \* of reads of text: bytes, characters, sequences
          VtBytes, VtReach,     \* reads of control sequences
          FeedBytes, FeedReach  \* reads that a continuation is kept of

Concat(S, T) == {p \o q : p \in S, q \in T}
TextChunks == Pieces \cup Concat(Pieces, Pieces)
LongChunks == TextChunks \cup Concat(TextChunks, Pieces)

Strings(S, n) == UNION {[1..k -> S] : k \in 1..n}
VtChunks   == Strings(VtBytes, VtReach)
Feeds  == Strings(FeedBytes, FeedReach)
Given  == UNION {{p[i] : i \in DOMAIN p} : p \in Pieces} \cup VtBytes \cup FeedBytes
Single == Strings(Given, 1)

ASSUME ReadsAssumption ==
    /\ Pieces \subseteq Seq(Bytes) \ {<<>>} /\ Given \subseteq Bytes
    /\ {VtReach, FeedReach} \subseteq Nat \ {0}

-----------------------------------------------------------------------------
(* nextSlice. *)
Read(simd, chunk) == Keep(NextSlice(simd, stream, chunk), chunk)

(* nextSliceUntilGround: the caller keeps the rest. *)
ReadUntilGround(chunk) ==
    LET r == NextSliceUntilGround(stream, chunk)
    IN /\ r.rest # chunk
       /\ Keep(r, Upto(chunk, Len(chunk) - Len(r.rest)))

(* How a stream without a continuation is read in the end is how it is read *)
(* byte by byte (ReadsAreBytewise), so that its reads here are of one byte. *)
Next == \E chunk \in IF tracker = NoTracker THEN Single ELSE Feeds :
            \/ \E simd \in BOOLEAN : Read(simd, chunk)
            \/ ReadUntilGround(chunk)

Spec == Init /\ [][Next]_vars

-----------------------------------------------------------------------------
SliceIs(chunk, slow) == \A simd \in BOOLEAN : NextSlice(simd, stream, chunk) = slow

StopsAtGround(chunk, until) ==
    LET taken == Len(chunk) - Len(until.rest)
    IN /\ [until EXCEPT !.rest = <<>>] = Bytewise(stream, Upto(chunk, taken))
       /\ \A n \in 0..taken - 1 : ~Ground(Bytewise(stream, Upto(chunk, n)).s)
       /\ until.rest # <<>> => Ground(until.s)

(* The text to read where a stream stands: in bulk, the more of it where   *)
(* nothing is unfinished.                                                  *)
TextAt(s) == IF s = Fresh THEN LongChunks
             ELSE IF s.vt.state = "ground" THEN TextChunks ELSE {}

(* However the input is cut into reads and whichever decoder the build     *)
(* has, the terminal sees what it sees byte by byte (stream.zig, nextSlice *)
(* against next), and a read until ground takes the shortest prefix that   *)
(* ends there.                                                             *)
ReadsAreBytewise ==
    tracker = NoTracker =>
        \A chunk \in VtChunks \cup TextAt(stream) :
            /\ SliceIs(chunk, Bytewise(stream, chunk))
            /\ StopsAtGround(chunk, NextSliceUntilGround(stream, chunk))

=============================================================================
