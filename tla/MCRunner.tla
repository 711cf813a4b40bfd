------------------------------ MODULE MCRunner ------------------------------
(* Instances of Runner for TLC. *)
EXTENDS Runner, TLC

\* Every slot is a worker process of its own and can run every job.
OwnProcess == [s \in Slots |-> s]
EverySlotRunsAll == [s \in Slots |-> Jobs]
OneAttempt == [p \in OperationIds |-> 1]
TwoAttempts == [p \in OperationIds |-> 2]

Symmetry == Permutations(Slots)
=============================================================================
