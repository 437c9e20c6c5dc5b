-------------------------- MODULE MCSurfaceThreads --------------------------
(* TLC instances of SurfaceThreads. *)
EXTENDS SurfaceThreads

=============================================================================
