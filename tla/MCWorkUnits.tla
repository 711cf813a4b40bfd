---------------------------- MODULE MCWorkUnits -----------------------------
(* The instance of WorkUnits for TLC is given by its configuration. *)
EXTENDS WorkUnits
=============================================================================
