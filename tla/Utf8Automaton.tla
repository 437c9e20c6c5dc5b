--------------------------- MODULE Utf8Automaton ---------------------------
(***************************************************************************)
(* The UTF-8 decoder that takes one byte at a time, a table-driven         *)
(* automaton (src/src/terminal/UTF8Decoder.zig).                           *)
(***************************************************************************)
EXTENDS Integers, Sequences

Esc == 27
Replacement == 65533

(* A state of the automaton is the offset of its row. *)

Class == [b \in 0..255 |->
    CASE b < 128 -> 0 [] b \in 128..143 -> 1 [] b \in 144..159 -> 9
      [] b \in 160..191 -> 7 [] b \in {192, 193} \/ b >= 245 -> 8
      [] b \in 194..223 -> 2 [] b = 224 -> 10 [] b = 237 -> 4
      [] b \in 225..239 \ {237} -> 3 [] b = 240 -> 11
      [] b \in 241..243 -> 6 [] b = 244 -> 5]

Accept == 0
Reject == 12

(* The row of a state: <<the classes it goes on with, the next state>>. *)
Rows == [s \in {Accept, 24, 36, 48, 60, 72, 84, 96} |->
    CASE s = Accept -> {<<{0}, Accept>>, <<{2}, 24>>, <<{3}, 36>>, <<{4}, 60>>,
                        <<{5}, 96>>, <<{6}, 84>>, <<{10}, 48>>, <<{11}, 72>>}
      [] s = 24 -> {<<{1, 7, 9}, Accept>>}
      [] s = 36 -> {<<{1, 7, 9}, 24>>}
      [] s = 48 -> {<<{7}, 24>>}
      [] s = 60 -> {<<{1, 9}, 24>>}
      [] s = 72 -> {<<{7, 9}, 36>>}
      [] s = 84 -> {<<{1, 7, 9}, 36>>}
      [] s = 96 -> {<<{1}, 36>>}]

Transitions == [s \in DOMAIN Rows |-> [k \in 0..11 |->
    IF \E r \in Rows[s] : k \in r[1]
    THEN (CHOOSE r \in Rows[s] : k \in r[1])[2] ELSE Reject]]

Decoder == [state |-> Accept, acc |-> 0]

(* `next': the decoder, the code points it emits and whether it consumed b. *)
DecoderNext(d, b) ==
    LET k   == Class[b]
        acc == IF d.state = Accept
               THEN b % (IF k < 8 THEN 2 ^ (8 - k) ELSE 1)
               ELSE 64 * d.acc + (b % 64)
        to  == Transitions[d.state][k]
    IN CASE to = Accept -> [d |-> Decoder, out |-> <<acc>>, used |-> TRUE]
         [] to = Reject -> [d |-> Decoder, out |-> <<Replacement>>,
                            used |-> d.state = Accept]
         [] OTHER -> [d |-> [state |-> to, acc |-> acc], out |-> <<>>, used |-> TRUE]

=============================================================================
