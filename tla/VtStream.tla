------------------------------ MODULE VtStream ------------------------------
(***************************************************************************)
(* A slice of input, as release builds take it: decoded and consumed in    *)
(* bulk.  A slice handed to the handler is the actions of its elements.    *)
(* The reference is VtByte, one byte after the other.                      *)
(***************************************************************************)
EXTENDS VtByte, Utf8Decode

CONSTANT CpBuf  \* code points decoded at a time, 4096 in the code

ASSUME CpBufAssumption == CpBuf \in Nat \ {0}

(* A stream under way in its input: the actions so far and what is left. *)
At(s, input) == [s |-> s, acts |-> <<>>, rest |-> input]
Took(r, k, n) == [s |-> n.s, acts |-> r.acts \o n.acts, rest |-> After(r.rest, k)]

(* `next' for each byte: the reference. *)
Bytewise(s, input) == Took(At(s, input), Len(input), NextBytes(s, input))

-----------------------------------------------------------------------------
(* A slice.  Each operation goes on where the one before it stopped. *)

(* The number of bytes of S at the start of input. *)
Run(input, S) == CHOOSE n \in 0..Len(input) :
    /\ \A i \in 1..n : input[i] \in S
    /\ n < Len(input) => input[n + 1] \notin S

RECURSIVE CsiParamsOf(_, _)
CsiParamsOf(p, bytes) ==
    IF bytes = <<>> THEN p ELSE CsiParamsOf(CsiParam(p, bytes[1]), Tail(bytes))

ConsumeCsiParams(r) ==
    LET n     == Run(r.rest, CsiParamBytes)
        p     == CsiParamsOf(r.s.vt, Upto(r.rest, n))
        final == CsiDispatchFinal(p, r.rest[n + 1])
    IN IF n < Len(r.rest) /\ r.rest[n + 1] \in Finals
       THEN Took(r, n + 1, Outcome(WithVt(r.s, final.p), final.acts))
       ELSE Took(r, n, Outcome(WithVt(r.s, p), <<>>))

ApcPayload == (0..127) \ {24, 26, Esc}
OscPayload == 32..255

(* n bytes of payload in bulk, and one of the string's normal ends after them. *)
ConsumeString(r, put, n, ends) ==
    LET acts == [i \in 1..n |-> <<put, r.rest[i]>>]
        c    == r.rest[n + 1]
        done == IF c = Esc THEN StartEscape(r.s)
                ELSE WithVt(r.s, [r.s.vt EXCEPT !.state = "ground"])
    IN IF n < Len(r.rest) /\ c \in DOMAIN ends
       THEN Took(r, n + 1, Outcome(done, Append(acts, ends[c])))
       ELSE Took(r, n, Outcome(r.s, acts))

ConsumeApcString(r) == ConsumeString(r, "apc_put", Run(r.rest, ApcPayload),
                                     [c \in {Esc, 156} |-> <<"apc_end", TRUE>>])
ConsumeOscString(r) == ConsumeString(r, "osc_put", Run(r.rest, OscPayload),
                                     [c \in {Esc, 7} |-> <<"osc_end", c>>])

(* Bulk consumption where the state has one; what it cannot take is left. *)
Bulk(r) == CASE r.s.vt.state = "csi_param" -> ConsumeCsiParams(r)
             [] r.s.vt.state = "sos_pm_apc_string" -> ConsumeApcString(r)
             [] r.s.vt.state = "osc_string" -> ConsumeOscString(r)
             [] OTHER -> r

(* The byte at which the bulk consumption of a state has stopped. *)
StoppedAt(state, r) ==
    IF r.s.vt.state # state \/ r.rest = <<>> THEN r
    ELSE Took(r, 1, NextNonUtf8(r.s, r.rest[1]))

RECURSIVE ConsumeUntilGround(_)
ConsumeUntilGround(r) ==
    IF r.s.vt.state = "ground" \/ r.rest = <<>> THEN r
    ELSE ConsumeUntilGround(StoppedAt(r.s.vt.state, Bulk(r)))

RECURSIVE ConsumeAllEscapes(_)
ConsumeAllEscapes(r) ==
    IF r.rest = <<>> \/ r.rest[1] # Esc THEN r
    ELSE ConsumeAllEscapes(ConsumeUntilGround(Took(r, 1, Outcome(StartEscape(r.s), <<>>))))

(* Bytes of text through the decoder, while `all' or one is unfinished. *)
RECURSIVE TextBytewise(_, _)
TextBytewise(all, r) ==
    IF r.rest = <<>> \/ (~all /\ r.s.utf8.state = Accept) THEN r
    ELSE TextBytewise(all, Took(r, 1, NextUtf8(r.s, r.rest[1])))

RECURSIVE ActsOfText(_)
ActsOfText(cps) == IF cps = <<>> THEN <<>> ELSE CodepointActs(cps[1]) \o ActsOfText(Tail(cps))

Text(r, text) == Took(r, text.consumed, Outcome(r.s, ActsOfText(text.cps)))
Decode(simd, r) == Text(r, IF simd THEN VectorDecode(r.rest) ELSE ScalarDecode(r.rest))

(* At ground: text up to an ESC, its sequences, text again.  What is left of *)
(* the text without an ESC is a cut sequence.                                *)
RECURSIVE TextAndEscapes(_, _), Escapes(_, _)
Escapes(simd, r) ==
    IF r.rest # <<>> /\ r.rest[1] # Esc THEN TextBytewise(TRUE, r)
    ELSE TextAndEscapes(simd, ConsumeAllEscapes(r))
TextAndEscapes(simd, r) ==
    IF r.s.vt.state # "ground" \/ r.rest = <<>> THEN r ELSE Escapes(simd, Decode(simd, r))

(* A character cut by the end of an earlier read is finished first. *)
UntilGround(r) == ConsumeUntilGround(TextBytewise(FALSE, r))

NextSliceCapped(simd, r) == TextAndEscapes(simd, ConsumeAllEscapes(UntilGround(r)))

(* No more than CpBuf bytes are taken at a time. *)
RECURSIVE SliceFrom(_, _, _)
SliceFrom(simd, r, input) ==
    IF input = <<>> THEN r
    ELSE SliceFrom(simd,
                   NextSliceCapped(simd, [r EXCEPT !.rest = Upto(input,
                       IF Len(input) < CpBuf THEN Len(input) ELSE CpBuf)]),
                   After(input, CpBuf))

NextSlice(simd, s, input) == SliceFrom(simd, At(s, <<>>), input)

(* The shortest prefix that ends at ground, or all of the input. *)
NextSliceUntilGround(s, input) == IF Ground(s) THEN At(s, input) ELSE UntilGround(At(s, input))

=============================================================================
