--------------------------- MODULE MCStreamReads ---------------------------
(* TLC instances of StreamReads: reads of a stream and its continuation. *)
EXTENDS StreamReads, TLC

(* One byte of each class that the decoders tell apart. *)
Units == {7, 27, 91, 109, 132, 155, 160, 192, 195, 224, 225, 237, 240, 241, 244}

Characters == {<<195, 160>>, <<224, 160, 132>>, <<225, 132, 160>>, <<237, 155, 160>>,
               <<240, 160, 132, 155>>, <<241, 132, 160, 155>>, <<244, 132, 155, 160>>}

(* Characters cut after two bytes or more. *)
CutCharacters == UNION {{SubSeq(c, 1, n) : n \in 2..Len(c) - 1} : c \in Characters}

Sequences == {<<27, 91, 109>>}

MCPieces == {<<u>> : u \in Units} \cup Characters \cup CutCharacters \cup Sequences

=============================================================================
