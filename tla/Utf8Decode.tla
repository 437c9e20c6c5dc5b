----------------------------- MODULE Utf8Decode -----------------------------
(***************************************************************************)
(* The three UTF-8 decoders of the terminal's input, as pure operators:    *)
(*   - one byte at a time (Utf8Automaton);                               *)
(*   - a whole slice up to the next ESC with vector instructions and       *)
(*     simdutf (src/src/simd/vt.cpp), what builds with simd use;           *)
(*   - the same without (src/src/simd/vt.zig), what the other builds use.  *)
(* Bytes are numbers.  A scan by vectors and then by single bytes is the   *)
(* first index at which it would stop; simdutf is known by what vt.cpp     *)
(* expects of it.                                                          *)
(***************************************************************************)
EXTENDS Utf8Automaton

(* The index of the first byte of p in S, or one past its end. *)
FirstIn(p, S) ==
    CHOOSE i \in 1..Len(p) + 1 :
        /\ i <= Len(p) => p[i] \in S
        /\ \A j \in 1..i - 1 : p[j] \notin S

Upto(p, n) == SubSeq(p, 1, n)
After(p, n) == SubSeq(p, n + 1, Len(p))

-----------------------------------------------------------------------------
(* A slice, with vectors. *)

Leads == 194..244
SeqLen(b) == CASE b <= 223 -> 2 [] b \in 224..239 -> 3 [] OTHER -> 4

(* Table 3-7 of Unicode: what byte i + 1 of a sequence led by b may be. *)
Following(b, i) ==
    CASE i > 1 -> 128..191
      [] b = 224 -> 160..191 [] b = 237 -> 128..159
      [] b = 240 -> 144..191 [] b = 244 -> 128..143
      [] OTHER -> 128..191

MaximalSubpart(p) ==
    IF p = <<>> THEN 0
    ELSE IF p[1] \notin Leads THEN 1
    ELSE LET most == IF Len(p) < SeqLen(p[1]) THEN Len(p) ELSE SeqLen(p[1])
         IN CHOOSE v \in 1..most :
                /\ \A i \in 2..v : p[i] \in Following(p[1], i - 1)
                /\ v < most => p[v + 1] \notin Following(p[1], v)

(* Mutant: looks back two bytes, and misses a lead byte with two after it. *)
TrimTwo(p) ==
    LET starts == {i \in 1..Len(p) : i > Len(p) - 2 /\ p[i] \notin 128..191}
        last   == CHOOSE i \in starts : \A j \in starts : j <= i
        rest   == SubSeq(p, last, Len(p))
    IN IF /\ starts # {}
          /\ p[last] \in Leads
          /\ Len(rest) < SeqLen(p[last])
          /\ MaximalSubpart(rest) = Len(rest)
       THEN last - 1 ELSE Len(p)

(* The length of p without a sequence that more input may complete. *)
TrimValidPartialUTF8(p) ==
    LET starts == {i \in 1..Len(p) : i > Len(p) - 4 /\ p[i] \notin 128..191}
        last   == CHOOSE i \in starts : \A j \in starts : j <= i
        rest   == SubSeq(p, last, Len(p))
    IN IF /\ starts # {}
          /\ p[last] \in Leads
          /\ Len(rest) < SeqLen(p[last])
          /\ MaximalSubpart(rest) = Len(rest)
       THEN last - 1 ELSE Len(p)

(* simdutf: the length of the well-formed sequence p starts with, or 0. *)
WellFormed(p) ==
    IF p[1] < 128 THEN 1
    ELSE IF /\ p[1] \in Leads /\ Len(p) >= SeqLen(p[1])
            /\ \A i \in 2..SeqLen(p[1]) : p[i] \in Following(p[1], i - 1)
         THEN SeqLen(p[1]) ELSE 0

(* simdutf: the code point of a well-formed sequence. *)
CodePoint(q) ==
    LET bits[i \in 1..Len(q)] ==
            IF i = 1 THEN q[1] % (2 ^ (7 - Len(q))) ELSE 64 * bits[i - 1] + (q[i] % 64)
    IN IF Len(q) = 1 THEN q[1] ELSE bits[Len(q)]

RECURSIVE DecodeUTF8(_)
DecodeUTF8(p) ==
    IF p = <<>> THEN <<>>
    ELSE IF WellFormed(p) > 0
         THEN <<CodePoint(Upto(p, WellFormed(p)))>> \o DecodeUTF8(After(p, WellFormed(p)))
         ELSE <<Replacement>> \o DecodeUTF8(After(p, MaximalSubpart(p)))

(* DecodeUTF8UntilControlSeq: ASCII is copied up to the first byte that is *)
(* none or ESC, the text from there to the next ESC is decoded.            *)
VectorDecode(input) ==
    LET base == FirstIn(input, 128..255 \cup {Esc}) - 1
        esc  == FirstIn(input, {Esc})
        text == SubSeq(input, base + 1, esc - 1)
        kept == IF esc <= Len(input) THEN Len(text) ELSE TrimValidPartialUTF8(text)
    IN [consumed |-> base + kept, cps |-> Upto(input, base) \o DecodeUTF8(Upto(text, kept))]

-----------------------------------------------------------------------------
(* A slice, without vectors. *)

ScalarSeqLen(b) == CASE b < 224 -> 2 [] b \in 224..239 -> 3 [] OTHER -> 4

ScalarFirst(b) == CASE b = 224 -> 160..191 [] b = 237 -> 128..159
                    [] b = 240 -> 144..191 [] b = 244 -> 128..143
                    [] OTHER -> 128..191

(* The code points of region q, whose end may still grow when it is open. *)
RECURSIVE ScalarRegion(_, _)
ScalarRegion(q, open) ==
    LET need  == ScalarSeqLen(q[1])
        stop  == {i \in 2..Len(q) :
                    q[i] \notin (IF i = 2 THEN ScalarFirst(q[1]) ELSE 128..191)}
        valid == CHOOSE v \in 1..need :   \* up to a byte that does not belong
                    /\ v = need \/ v = Len(q) \/ v + 1 \in stop
                    /\ v <= Len(q) /\ \A i \in 2..v : i \notin stop
        Emit(cp, n) == LET r == ScalarRegion(After(q, n), open)
                       IN [left |-> r.left, cps |-> <<cp>> \o r.cps]
    IN CASE q = <<>> -> [left |-> 0, cps |-> <<>>]
         [] q # <<>> /\ q[1] < 128 -> Emit(q[1], 1)
         [] q # <<>> /\ q[1] >= 128 /\ q[1] \notin Leads -> Emit(Replacement, 1)
         [] q # <<>> /\ q[1] \in Leads ->
              IF valid = need THEN Emit(CodePoint(Upto(q, need)), need)
              ELSE IF valid = Len(q) /\ open THEN [left |-> Len(q), cps |-> <<>>]
              ELSE Emit(Replacement, valid)

ScalarDecode(input) ==
    LET esc    == FirstIn(input, {Esc})
        region == Upto(input, esc - 1)
        r      == ScalarRegion(region, esc > Len(input))
    IN [consumed |-> Len(region) - r.left, cps |-> r.cps]

=============================================================================
