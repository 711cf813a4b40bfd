--------------------------- MODULE MCCoordinator ---------------------------
(* Finite instances of Coordinator for TLC.  Both slots belong to one      *)
(* worker process: their handles then differ in nothing but the lease      *)
(* generation, the hardest case for the fence.                             *)
EXTENDS CoordinatorRefinement, TLC

CONSTANT worker

OneWorker == [s \in Slots |-> worker]
EverySlotRunsAll == [s \in Slots |-> Jobs]

\* The first stage has a second attempt.
FirstTwice == [p \in OperationIds |-> IF p[2] = 0 THEN 2 ELSE 1]

Symmetry == Permutations(Slots)
=============================================================================
