-------------------------- MODULE MCBlockingQueue --------------------------
(***************************************************************************)
(* TLC instances of BlockingQueue.                                         *)
(***************************************************************************)
EXTENDS BlockingQueue, TLC

(* Producers and messages are interchangeable. *)
Symmetry == Permutations(Producers) \cup Permutations(Messages)

=============================================================================
