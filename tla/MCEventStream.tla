--------------------------- MODULE MCEventStream ---------------------------
(* The instance of EventStream for TLC is given by its configuration. *)
EXTENDS EventStream
=============================================================================
