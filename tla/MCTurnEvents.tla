----------------------------- MODULE MCTurnEvents -----------------------------
(***************************************************************************)
(* TurnEvents on small instances.                                          *)
(***************************************************************************)
EXTENDS TurnEvents

\* A wide character and the end of a line.
TwoGlyphs == {[width |-> 3, form |-> "ink"], [width |-> 1, form |-> "newline"]}
=============================================================================
