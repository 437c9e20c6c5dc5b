------------------------------- MODULE VtByte -------------------------------
(***************************************************************************)
(* The terminal's input stream (src/src/terminal/stream.zig), one byte at  *)
(* a time (`next', and what debug builds do with a read): text goes to the *)
(* UTF-8 decoder, a control sequence through the parser's table, with fast *)
(* paths past it for the most common ones.                                 *)
(***************************************************************************)
EXTENDS VtParser

Bytes == 0..255

Fresh == [vt |-> Parser, utf8 |-> Decoder]
Ground(s) == s.vt.state = "ground" /\ s.utf8.state = Accept

(* What one byte does to a stream: the stream and the actions. *)
Outcome(s, acts) == [s |-> s, acts |-> acts]
Then(acts, n) == [n EXCEPT !.acts = acts \o @]

(* What a sequence leaves in the parser's arrays is cleared by the next ESC *)
(* before anything reads it: it is forgotten at ground.                     *)
WithVt(s, p) == [s EXCEPT !.vt = IF p.state = "ground" THEN Parser ELSE p]
StartEscape(s) == WithVt(s, [Clear(s.vt) EXCEPT !.state = "escape"])

-----------------------------------------------------------------------------
(* `execute': a C1 control is ESC and a letter; some C0 have no effect. *)
Execute(c) == IF c > 127 THEN <<<<"esc_dispatch", <<>>, c - 64>>>>
              ELSE IF c \in {5} \cup (7..15) THEN <<<<"execute", c>>>> ELSE <<>>

(* A code point of text: C1 controls are ignored. *)
CodepointActs(cp) == CASE cp < 32 -> Execute(cp)
                       [] cp \in 128..159 -> <<>>
                       [] OTHER -> <<<<"print", cp>>>>

HandleCodepoints(s, cps) ==
    IF cps = <<>> THEN Outcome(s, <<>>)
    ELSE IF cps[1] = Esc THEN Outcome(StartEscape(s), <<>>)
    ELSE Outcome(s, CodepointActs(cps[1]))

Decoded(s, n) == HandleCodepoints([s EXCEPT !.utf8 = n.d], n.out)
Offer(s, c) == Decoded(s, DecoderNext(s.utf8, c))
OfferAgain(n, c) == Then(n.acts, Offer(n.s, c))

(* A byte that ends an ill-formed sequence is offered again. *)
NextUtf8(s, c) ==
    IF DecoderNext(s.utf8, c).used THEN Offer(s, c) ELSE OfferAgain(Offer(s, c), c)

(* Mutant: separators are not looked at. *)
CsiDispatchAny(p, c) ==
    [p |-> [(IF Len(p.params) >= MaxParams THEN p ELSE Finalize(p)) EXCEPT !.state = "ground"],
     acts |-> IF Len(p.params) >= MaxParams THEN <<>> ELSE <<Csi(Finalize(p), c)>>]

CsiDispatchFinal(p, c) ==
    LET final == Finalize(p)
        full  == Len(p.params) >= MaxParams
    IN [p    |-> [(IF full THEN p ELSE final) EXCEPT !.state = "ground"],
        acts |-> IF full \/ (c # 109 /\ p.sep # {}) THEN <<>> ELSE <<Csi(final, c)>>]

Finals == 64..126

(* The byte after ESC [: a digit, a separator, a private marker or a final. *)
CsiEntryBytes == Digits \cup {59} \cup (60..63) \cup Finals
CsiFirst(p, c) ==
    CASE c \in Digits -> [p EXCEPT !.acc = c - 48, !.idx = 1]
      [] c = 59       -> [p EXCEPT !.params = <<0>>]
      [] c \in 60..63 -> Collect(p, c)

CsiEntryByte(p, c) ==
    IF c \in Finals THEN CsiDispatchFinal(p, c)
    ELSE [p |-> [CsiFirst(p, c) EXCEPT !.state = "csi_param"], acts |-> <<>>]

(* A parameter byte of a CSI; past the last parameter it has no effect. *)
CsiParamBytes == Digits \cup Separators
CsiParam(p, c) ==
    IF c \in Separators THEN Separate(p, c)
    ELSE IF Len(p.params) >= MaxParams THEN p
    ELSE [p EXCEPT !.acc = Accumulate(@, c), !.idx = 1]

(* The parser's actions, as the stream carries them out. *)
Carry(act) == IF act # <<>> /\ act[1][1] = "execute" THEN Execute(act[1][2]) ELSE act
Perform(acts) == Carry(acts[1]) \o Carry(acts[2]) \o Carry(acts[3])

(* Without the fast paths: the parser's table alone. *)
Performed(s, n) == Outcome(WithVt(s, n.p), Perform(n.acts))
ByTable(s, c) == Performed(s, ParserNext(s.vt, c))

NextNonUtf8(s, c) ==
    LET p == s.vt
        Quiet(q, acts) == Outcome(WithVt(s, q), acts)
        Fast(n) == Quiet(n.p, n.acts)
    IN CASE p.state = "escape" /\ c = 91 -> Quiet([p EXCEPT !.state = "csi_entry"], <<>>)
         [] p.state = "csi_param" /\ c < 16 -> Quiet(p, Execute(c))
         [] p.state = "csi_param" /\ c \in (C0 \ 0..15) \cup {127} -> Quiet(p, <<>>)
         [] p.state = "csi_param" /\ c \in {24, 26} ->
                Quiet([p EXCEPT !.state = "ground"], <<>>)
         [] p.state = "csi_param" /\ c \in CsiParamBytes -> Quiet(CsiParam(p, c), <<>>)
         [] p.state = "csi_param" /\ c \in Finals -> Fast(CsiDispatchFinal(p, c))
         [] p.state = "csi_entry" /\ c \in CsiEntryBytes -> Fast(CsiEntryByte(p, c))
         [] OTHER -> ByTable(s, c)

NextByte(s, c) == IF s.vt.state = "ground" THEN NextUtf8(s, c) ELSE NextNonUtf8(s, c)

(* Bytes one after the other: the stream they leave and all their actions. *)
AndByte(r, c) == Then(r.acts, NextByte(r.s, c))
NextBytes(s, bytes) ==
    LET after[i \in 0..Len(bytes)] ==
            IF i = 0 THEN Outcome(s, <<>>) ELSE AndByte(after[i - 1], bytes[i])
    IN after[Len(bytes)]

-----------------------------------------------------------------------------
(* A stream that is fed byte by byte, any byte at any time. *)

VARIABLE stream  \* the parser and the decoder

InitByte == stream = Fresh
TakeByte == \E c \in Bytes : stream' = NextByte(stream, c).s
ByteSpec == InitByte /\ [][TakeByte]_stream

-----------------------------------------------------------------------------
(* What the arrays of the parser hold fits, the counters keep their width, *)
(* and the decoder rests while the parser works.                           *)
ParserOK(p) ==
    /\ p \in [state : States, inter : Seq(Bytes), params : Seq(0..MaxParam),
              sep : SUBSET Nat, acc : 0..MaxParam, idx : 0..IdxWrap - 1]
    /\ Len(p.inter) <= MaxIntermediate
    /\ Len(p.params) <= MaxParams
    /\ p.sep \subseteq 0..Len(p.params) - 1

StreamOK ==
    /\ stream = [vt |-> stream.vt, utf8 |-> stream.utf8]
    /\ ParserOK(stream.vt)
    /\ stream.utf8.state \in DOMAIN Rows
    /\ stream.vt.state # "ground" => stream.utf8 = Decoder

(* What of a parser makes a difference to what it does next. *)
Live(p) ==
    [p EXCEPT !.acc = IF Len(p.params) >= MaxParams THEN 0 ELSE @,
              !.idx = IF Len(p.params) >= MaxParams \/ @ = 0 THEN 0 ELSE 1]

(* The fast paths of the stream do what the parser's table does, byte for  *)
(* byte ("must match the behavior of the parser's csi_dispatch action",    *)
(* stream.zig:1322-1323).                                                  *)
FastPathsMatch ==
    stream.vt.state # "ground" =>
        \A c \in Bytes :
            LET fast == NextNonUtf8(stream, c)
                slow == ByTable(stream, c)
            IN fast.acts = slow.acts /\ Live(fast.s.vt) = Live(slow.s.vt)

=============================================================================
