---------------------------- MODULE MCWorkspaces ----------------------------
(* Two daemons and two workers, and requests that meet.                    *)
EXTENDS Workspaces

KindOf == [e1 |-> "ensure", e2 |-> "ensure", e3 |-> "ensure", rm |-> "remove",
           rf |-> "refresh", xp |-> "export", cn |-> "continue",
           x1 |-> "execute", x2 |-> "execute", x3 |-> "execute"]

\* All are for job "a", except e2.
TargetOf == [r \in Requests |-> IF r = "e2" THEN "b" ELSE "a"]

ProcessOf == [e1 |-> "d1", e2 |-> "d2", e3 |-> "d2", rm |-> "d1",
              rf |-> "d1", xp |-> "d2", cn |-> "d2",
              x1 |-> "w1", x2 |-> "w2", x3 |-> "w2"]

\* All but the workers' requests meet in one process.
OneProcess == [r \in Requests |-> IF Kind[r] = "execute" THEN ProcessOf[r] ELSE "d1"]

Workload(arriving, daemonOf, maxRevision, maxFaults) ==
    [arriving |-> arriving, daemonOf |-> daemonOf, maxRevision |-> maxRevision, maxFaults |-> maxFaults]

\* Requests of two processes for a cache that is missing or broken; a removal
\* that meets an execution; one that meets a continuation; executions that
\* overlap after a lost lease, with a continuation and with a refresh; more
\* requests in one process than it can serve.
Meetings ==
    {Workload({"e1", "e2", "e3", "rm"}, ProcessOf, 2, 1),
     Workload({"e1", "e3", "rm", "x1"}, ProcessOf, 2, 0),
     Workload({"e1", "e3", "rm", "x1", "x2"}, ProcessOf, 1, 1),
     Workload({"e1", "rm", "cn", "xp", "x1", "x2"}, ProcessOf, 1, 0),
     Workload({"e1", "cn", "x1", "x2", "x3"}, ProcessOf, 1, 0),
     Workload({"e1", "rf", "x1", "x2", "x3"}, ProcessOf, 1, 0),
     Workload({"e1", "e2", "e3", "rm"}, OneProcess, 1, 1)}

ThreeConnections == [d \in Daemons |-> 3]

=============================================================================
