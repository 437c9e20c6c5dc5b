--------------------------- MODULE MCStateHandoff ---------------------------
(* TLC instances of StateHandoff. *)
EXTENDS StateHandoff

=============================================================================
