----------------------- MODULE CoordinatorRefinement ------------------------
(***************************************************************************)
(* The coordinator implements JobLifecycle: a client sees the statuses of  *)
(* the job and of its operations and nothing of the attempts behind them.  *)
(***************************************************************************)
EXTENDS Coordinator

Phase(status) ==
    CASE status \in {"queued", "running"} -> "open"
      [] status = "cancelling" -> "stopping"
      [] OTHER -> status

PassedStages(j) == {o \in Ordinals : op[<<j, o>>].status = "succeeded"}

Lifecycle ==
    INSTANCE JobLifecycle
        WITH phase <- [j \in Jobs |-> Phase(jobStatus[j])],
             total <- opCount,
             passed <- [j \in Jobs |-> PassedStages(j)]

\* However attempts are claimed, lost, retried, recovered or settled late, a
\* client sees stages pass one after the other, each once, and one end of the
\* job: the coordinator implements the lifecycle.
ImplementsLifecycle == Lifecycle!Spec

=============================================================================
