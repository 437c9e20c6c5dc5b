--------------------------- MODULE MCSurfaceTimers ---------------------------
(* TLC instances of SurfaceTimers. *)
EXTENDS SurfaceTimers, TLC

(* Sizes are compared for equality only. *)
Symmetry == Permutations(Sizes)

=============================================================================
