--------------------------- MODULE MCReadPipeline ---------------------------
(* TLC instances of ReadPipeline. *)
EXTENDS ReadPipeline

=============================================================================
