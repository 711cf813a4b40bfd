---------------------------- MODULE MCStageLoop -----------------------------
(* Instances of StageLoop for TLC. *)
EXTENDS StageLoop

\* The review has two attempts, every other stage one: a crash resumes a stage
\* without using up an attempt.
ReviewTwice == [n \in 0..LastOrdinal |-> IF Kind(n) = "review" THEN 2 ELSE 1]
=============================================================================
