---------------------------- MODULE MCPrediction ----------------------------
(* TLC instances of Prediction. *)
EXTENDS Prediction, TLC

(* What is typed is compared for equality only, and so are places. *)
Symmetry == Permutations(Places) \cup Permutations(Texts)

=============================================================================
