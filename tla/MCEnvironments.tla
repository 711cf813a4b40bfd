--------------------------- MODULE MCEnvironments ---------------------------
(* Two executors with one reconciler, or one executor with two reconcilers,  *)
(* on either backend; the workers may be configured apart.                   *)
EXTENDS Environments

CONSTANTS s1, s2, r1, r2

Upgraded == [s \in Slots |-> IF s = s1 THEN "old" ELSE "new"]

SameImage == [s \in Slots |-> "image"]

OneEngine == [p \in Processes |-> "engine"]

Reconfigured == [p \in Processes |-> IF p = s1 THEN "before" ELSE "after"]

TwoExecutors == {s1, s2, r1}

TwoReconcilers == {s1, r1, r2}

Deployment(kubernetes, running, image, namespace, maxFaults) ==
    [kubernetes |-> kubernetes, running |-> running, image |-> image, namespace |-> namespace,
     maxFaults |-> maxFaults]

EitherBackend ==
    {Deployment(TRUE, TwoExecutors, Upgraded, Reconfigured, 1),
     Deployment(TRUE, TwoReconcilers, SameImage, Reconfigured, 1),
     Deployment(FALSE, TwoExecutors, SameImage, OneEngine, 2),
     Deployment(FALSE, TwoExecutors, Upgraded, OneEngine, 1),
     Deployment(FALSE, TwoReconcilers, SameImage, OneEngine, 1)}

=============================================================================
