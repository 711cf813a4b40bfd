-------------------------- MODULE WorkspacesProofs --------------------------
(***************************************************************************)
(* Proofs about the worktrees, for any number of requests, jobs and        *)
(* processes, any workload and any sizes of the pools.                     *)
(*                                                                         *)
(* IInv is the inductive invariant.  Held: what a request holds at each of *)
(* its steps.  Exclusive: the locks are locks.  OfRequest: the cache, to a *)
(* request that is about to replace or to use it; what ensure has read is  *)
(* so; the row an execution has loaded may be old, but not its base; a     *)
(* lease is for the operation that is next.  OfJob: what row, directory    *)
(* and cache have to do with each other and with the job, and that a job   *)
(* which goes on has its environment, so nobody removes its worktree;      *)
(* without faults the row and the directory come and go together.          *)
(***************************************************************************)
EXTENDS Workspaces, FiniteSetTheorems, TLAPS

-----------------------------------------------------------------------------
(* The inductive invariant.                                                *)

\* What a call holds once it has begun.
Base(kind) ==
    IF kind \in {"ensure", "remove", "refresh", "export"} THEN {"conn", "job", "gate"} ELSE {"conn", "job"}
More(kind) == IF kind = "ensure" THEN {"conn2", "repo"} ELSE {"gate"}

InCache == {"check", "quarantine", "publish", "clean", "add", "record"}
Making == {"clean", "add", "record"}
Removal == {"drop", "unrecord"}
Outside == Ended \cup {"new", "claimed", "settle"}
Ensures(r) == Kind[r] = "ensure" /\ pc[r] \in InCache \cup {"locks"}

HeldBy(r) ==
    /\ pc[r] \in Outside => held[r] = {}
    /\ pc[r] \in {"claimed", "settle"} => Kind[r] = "execute"
    /\ pc[r] = "entry" => held[r] \subseteq Base(Kind[r]) /\ held[r] # Base(Kind[r])
    /\ pc[r] = "load" => held[r] = Base(Kind[r])
    /\ pc[r] = "locks" =>
           /\ Kind[r] \in {"ensure", "execute"} /\ Base(Kind[r]) \subseteq held[r]
           /\ held[r] \subseteq Base(Kind[r]) \cup More(Kind[r])
           /\ held[r] # Base(Kind[r]) \cup More(Kind[r])
    /\ pc[r] \in InCache => Kind[r] = "ensure" /\ held[r] = {"conn", "job", "gate", "conn2", "repo"}
    /\ pc[r] \in Removal => Kind[r] = "remove" /\ held[r] = {"conn", "job", "gate"}
    /\ pc[r] = "restore" => Kind[r] = "execute" /\ held[r] = {"conn", "job", "gate"}
    /\ pc[r] \in {"provision", "work"} => Kind[r] = "execute" /\ held[r] = {"conn", "job"}

Held == \A r \in Requests : HeldBy(r)

Exclusive ==
    \A q, r \in Requests :
        \/ q = r
        \/ /\ "job" \in held[q] /\ "job" \in held[r] => JobOf[q] # JobOf[r]
           /\ "gate" \in held[q] /\ "gate" \in held[r] => DaemonOf[q] # DaemonOf[r]
           /\ ~("repo" \in held[q] /\ "repo" \in held[r])

\* A request that replaces the cache has found none that may be used; whatever
\* was made from a cache is still in it.
Cached(r) ==
    /\ pc[r] = "quarantine" => mirror.state # "valid"
    /\ pc[r] = "publish" => mirror.state = "none"
    /\ pc[r] \in Making => mirror.state = "valid" /\ seen[r].rev \in 1 .. mirror.rev
MadeFromCache(j) ==
    /\ dir[j] # None => mirror.state = "valid"
    /\ record[j] # None => mirror.state = "valid" /\ record[j].base <= mirror.rev

\* What ensure has read of the row and made of the directory is still so, and
\* there is no worktree that the row calls active.
ReadStill(r) ==
    LET j == JobOf[r]
    IN  /\ Ensures(r) => seen[r].record = record[j] /\ (pc[r] # "record" => ~Active(j) \/ dir[j] = None)
        /\ pc[r] \in Making /\ record[j] # None => seen[r].rev = record[j].base
        /\ pc[r] = "add" => dir[j] = None
        /\ pc[r] = "record" => dir[j] # None /\ dir[j].rev = seen[r].rev /\ ~dir[j].work

\* A worktree that is being removed has its row until it is gone, and no
\* environment.
Removing(r) ==
    /\ pc[r] \in Removal => Active(JobOf[r]) /\ released[JobOf[r]]
    /\ pc[r] = "unrecord" => dir[JobOf[r]] = None

\* The row that an execution has loaded may be out of date, but not its base;
\* what is not a Plan is claimed when there was one, and works in a worktree
\* that has its row.
Executing(r) ==
    LET j == JobOf[r]
    IN  /\ Kind[r] = "execute" /\ pc[r] \in {"entry", "load", "locks", "restore"} =>
              /\ seen[r].record # None /\ record[j] # None
              /\ seen[r].record.revision \in {record[j].base, Commit}
        /\ Kind[r] = "execute" /\ pc[r] \in {"locks", "restore"} => seen[r].op = "plan"
        /\ seen[r].op = "later" => job[j] # "queued"
        /\ pc[r] = "work" /\ seen[r].op = "later" => Active(j)

\* The lease is for the operation that is next.
Leased(r) ==
    LET j == JobOf[r]
    IN  Owns(r) =>
           /\ \/ seen[r].op = "plan" /\ job[j] = "queued"
              \/ seen[r].op = "later" /\ job[j] \in {"planned", "continued"} /\ Active(j)
           /\ pc[r] \in {"work", "settle"} => ~released[j]

\* A job that goes on has its environment, and nobody removes its worktree.
Running(j) ==
    /\ job[j] \in {"planned", "continued"} => ~released[j]
    /\ job[j] = "continued" => Active(j)

\* A result has its row, and its job has a plan.
Resulting(j) == dir[j] # None /\ dir[j].work => Active(j) /\ job[j] # "queued"

\* Without faults, only a removal that is not over separates row and directory.
Faultless(j) ==
    Active(j) /\ dir[j] = None => \E r \in Requests : JobOf[r] = j /\ pc[r] = "unrecord"

\* Row and worktree are at the base, or at a commit of the agent.
Based(j) ==
    /\ record[j] # None => record[j].revision \in {record[j].base, Commit}
    /\ Active(j) /\ dir[j] # None => dir[j].rev \in {record[j].base, Commit}

OfRequest(r) == Cached(r) /\ ReadStill(r) /\ Removing(r) /\ Executing(r) /\ Leased(r)
                  /\ (faults = 0 /\ Ensures(r) => ~Active(JobOf[r]))
OfJob(j) == MadeFromCache(j) /\ Running(j) /\ Resulting(j) /\ Based(j) /\ (faults = 0 => Faultless(j))

IInv ==
    /\ TypeOK /\ Held /\ Exclusive /\ mirror.rev <= upstream
    /\ \A r \in Requests : OfRequest(r)
    /\ \A j \in Jobs : OfJob(j)
-----------------------------------------------------------------------------
(* The steps.                                                              *)

\* What a request may do, and what happens beside the requests.
Act(r) ==
    Arrive(r) \/ Claim(r) \/ Step(r) \/ SettleFailure(r) \/ GiveUp(r) \/ CallFails(r)
Other ==
    BranchMoves \/ (\E j \in Jobs : LeaseExpires(j) \/ ReleaseEnvironment(j)) \/ \E d \in Daemons : Crash(d)

\* Where a request may be.
Pcs == GitSteps \cup Ended \cup {"new", "claimed", "entry", "load", "locks", "record", "unrecord",
                                 "provision", "work", "settle"}

\* Where each step leads from, where it leads to, and what the request holds
\* then.  What another request holds and where it is does not change.
LEMMA Steps ==
  ASSUME TypeOK, NEW r \in Requests
  PROVE  /\ \A q \in Requests \ {r} : Act(r) => pc'[q] = pc[q] /\ held'[q] = held[q]
         /\ Act(r) => pc' = [q \in Requests |-> pc'[q]] /\ held' = [q \in Requests |-> held'[q]]
         /\ Arrive(r) =>
               pc[r] = "new" /\ Kind[r] # "execute" /\ pc'[r] = "entry" /\ held'[r] = held[r]
         /\ Claim(r) =>
               pc[r] = "new" /\ Kind[r] = "execute" /\ pc'[r] = "claimed" /\ held'[r] = held[r]
         /\ PoolTimesOut(r) =>
               pc[r] \in {"entry", "locks"} /\ pc'[r] = "refused" /\ held'[r] = {}
         /\ LoadEnsure(r) =>
               pc[r] = "load" /\ Kind[r] = "ensure" /\ \/ pc'[r] = "done" /\ held'[r] = {}
                                                       \/ pc'[r] = "locks" /\ held'[r] = held[r]
         /\ CheckMirror(r) =>
               pc[r] = "check" /\ pc'[r] \in {"clean", "publish", "quarantine"} /\ held'[r] = held[r]
         /\ Quarantine(r) =>
               pc[r] = "quarantine" /\ pc'[r] = "publish" /\ held'[r] = held[r]
         /\ Publish(r) =>
               pc[r] = "publish" /\ \/ pc'[r] = "clean" /\ held'[r] = held[r]
                                    \/ pc'[r] = "refused" /\ held'[r] = {}
         /\ CleanWorktree(r) =>
               pc[r] = "clean" /\ pc'[r] = "add" /\ held'[r] = held[r]
         /\ AddWorktree(r) =>
               pc[r] = "add" /\ \/ pc'[r] = "record" /\ held'[r] = held[r]
                                \/ pc'[r] = "refused" /\ held'[r] = {}
         /\ PutWorkspace(r) =>
               pc[r] = "record" /\ pc'[r] = "done" /\ held'[r] = {}
         /\ LoadRemove(r) =>
               pc[r] = "load" /\ Kind[r] = "remove" /\ \/ pc'[r] = "drop" /\ held'[r] = held[r]
                                                       \/ pc'[r] \in {"done", "refused"} /\ held'[r] = {}
         /\ DropWorktree(r) =>
               pc[r] = "drop" /\ pc'[r] = "unrecord" /\ held'[r] = held[r]
         /\ MarkRemoved(r) =>
               pc[r] = "unrecord" /\ pc'[r] = "done" /\ held'[r] = {}
         /\ Refresh(r) =>
               pc[r] = "load" /\ Kind[r] = "refresh" /\ pc'[r] \in {"done", "refused"} /\ held'[r] = {}
         /\ Export(r) =>
               pc[r] = "load" /\ Kind[r] = "export" /\ pc'[r] \in {"done", "refused"} /\ held'[r] = {}
         /\ Continue(r) =>
               pc[r] = "load" /\ Kind[r] = "continue" /\ pc'[r] \in {"done", "refused"} /\ held'[r] = {}
         /\ LoadContext(r) =>
               pc[r] = "claimed" /\ pc'[r] \in {"entry", "refused"} /\ held'[r] = held[r]
         /\ StartExecution(r) =>
               pc[r] = "load" /\ Kind[r] = "execute" /\ pc'[r] \in {"locks", "provision"} /\ held'[r] = held[r]
         /\ Restore(r) =>
               pc[r] = "restore" /\ \/ pc'[r] = "provision" /\ held'[r] = held[r] \ {"gate"}
                                    \/ pc'[r] = "refused" /\ held'[r] = {}
         /\ Provision(r) =>
               pc[r] = "provision" /\ \/ pc'[r] = "work" /\ held'[r] = held[r]
                                      \/ pc'[r] = "refused" /\ held'[r] = {}
         /\ Work(r) =>
               pc[r] = "work" /\ pc'[r] \in {"settle", "refused"} /\ held'[r] = {}
         /\ Settle(r) =>
               pc[r] = "settle" /\ pc'[r] \in {"done", "refused"} /\ held'[r] = held[r]
         /\ SettleFailure(r) =>
               pc[r] = "refused" /\ pc'[r] = "refused" /\ held'[r] = held[r]
         /\ GiveUp(r) =>
               pc[r] \in {"entry", "work"} /\ Kind[r] = "execute" /\ pc'[r] = "refused" /\ held'[r] = {}
         /\ CallFails(r) =>
               pc[r] \in GitSteps \cup {"record", "unrecord"} /\ pc'[r] = "refused" /\ held'[r] = {}
<1> USE DEF TypeOK, Goto, End, At
<1>1. \A q \in Requests \ {r} : Act(r) => pc'[q] = pc[q] /\ held'[q] = held[q]
    BY DEF Act, Step, Arrive, Claim, Acquire, PoolTimesOut, LoadEnsure, CheckMirror, Quarantine, Publish,
        CleanWorktree, AddWorktree, PutWorkspace, LoadRemove, DropWorktree, MarkRemoved, Refresh, Export,
        Continue, LoadContext, StartExecution, Restore, Provision, Work, Settle, SettleFailure, GiveUp,
        CallFails
<1>2. Act(r) => pc' = [q \in Requests |-> pc'[q]] /\ held' = [q \in Requests |-> held'[q]]
    BY DEF Act, Step, Arrive, Claim, Acquire, PoolTimesOut, LoadEnsure, CheckMirror, Quarantine, Publish,
        CleanWorktree, AddWorktree, PutWorkspace, LoadRemove, DropWorktree, MarkRemoved, Refresh, Export,
        Continue, LoadContext, StartExecution, Restore, Provision, Work, Settle, SettleFailure, GiveUp,
        CallFails
<1>3. Arrive(r) => pc[r] = "new" /\ Kind[r] # "execute" /\ pc'[r] = "entry" /\ held'[r] = held[r]
  BY DEF Arrive
<1>4. Claim(r) => pc[r] = "new" /\ Kind[r] = "execute" /\ pc'[r] = "claimed" /\ held'[r] = held[r]
  BY DEF Claim
<1>5. PoolTimesOut(r) => pc[r] \in {"entry", "locks"} /\ pc'[r] = "refused" /\ held'[r] = {}
  BY DEF PoolTimesOut, Waiting
<1>6. LoadEnsure(r) =>
         pc[r] = "load" /\ Kind[r] = "ensure" /\ ((pc'[r] = "done" /\ held'[r] = {}) \/ (pc'[r] = "locks" /\ held'[r] = held[r]))
  BY DEF LoadEnsure
<1>7. CheckMirror(r) => pc[r] = "check" /\ pc'[r] \in {"clean", "publish", "quarantine"} /\ held'[r] = held[r]
  BY DEF CheckMirror
<1>8. Quarantine(r) => pc[r] = "quarantine" /\ pc'[r] = "publish" /\ held'[r] = held[r]
  BY DEF Quarantine
<1>9. Publish(r) =>
         pc[r] = "publish" /\ ((pc'[r] = "clean" /\ held'[r] = held[r]) \/ (pc'[r] = "refused" /\ held'[r] = {}))
  BY DEF Publish
<1>10. CleanWorktree(r) => pc[r] = "clean" /\ pc'[r] = "add" /\ held'[r] = held[r]
  BY DEF CleanWorktree
<1>11. AddWorktree(r) =>
         pc[r] = "add" /\ ((pc'[r] = "record" /\ held'[r] = held[r]) \/ (pc'[r] = "refused" /\ held'[r] = {}))
  BY DEF AddWorktree
<1>12. PutWorkspace(r) => pc[r] = "record" /\ pc'[r] = "done" /\ held'[r] = {}
  BY DEF PutWorkspace
<1>13. LoadRemove(r) =>
         pc[r] = "load" /\ Kind[r] = "remove" /\ ((pc'[r] = "drop" /\ held'[r] = held[r]) \/ (pc'[r] \in {"done", "refused"} /\ held'[r] = {}))
  BY DEF LoadRemove
<1>14. DropWorktree(r) => pc[r] = "drop" /\ pc'[r] = "unrecord" /\ held'[r] = held[r]
  BY DEF DropWorktree
<1>15. MarkRemoved(r) => pc[r] = "unrecord" /\ pc'[r] = "done" /\ held'[r] = {}
  BY DEF MarkRemoved
<1>16. Refresh(r) => pc[r] = "load" /\ Kind[r] = "refresh" /\ pc'[r] \in {"done", "refused"} /\ held'[r] = {}
  BY DEF Refresh
<1>17. Export(r) => pc[r] = "load" /\ Kind[r] = "export" /\ pc'[r] \in {"done", "refused"} /\ held'[r] = {}
  BY DEF Export
<1>18. Continue(r) =>
         pc[r] = "load" /\ Kind[r] = "continue" /\ pc'[r] \in {"done", "refused"} /\ held'[r] = {}
  BY DEF Continue
<1>19. LoadContext(r) => pc[r] = "claimed" /\ pc'[r] \in {"entry", "refused"} /\ held'[r] = held[r]
  BY DEF LoadContext
<1>20. StartExecution(r) =>
         pc[r] = "load" /\ Kind[r] = "execute" /\ pc'[r] \in {"locks", "provision"} /\ held'[r] = held[r]
  BY DEF StartExecution
<1>21. Restore(r) =>
         pc[r] = "restore" /\ ((pc'[r] = "provision" /\ held'[r] = held[r] \ {"gate"}) \/ (pc'[r] = "refused" /\ held'[r] = {}))
  BY DEF Restore
<1>22. Provision(r) =>
         pc[r] = "provision" /\ ((pc'[r] = "work" /\ held'[r] = held[r]) \/ (pc'[r] = "refused" /\ held'[r] = {}))
  BY DEF Provision
<1>23. Work(r) => pc[r] = "work" /\ pc'[r] \in {"settle", "refused"} /\ held'[r] = {}
  BY DEF Work
<1>24. Settle(r) => pc[r] = "settle" /\ pc'[r] \in {"done", "refused"} /\ held'[r] = held[r]
  BY DEF Settle
<1>25. SettleFailure(r) => pc[r] = "refused" /\ pc'[r] = "refused" /\ held'[r] = held[r]
  BY DEF SettleFailure
<1>26. GiveUp(r) => pc[r] \in {"entry", "work"} /\ Kind[r] = "execute" /\ pc'[r] = "refused" /\ held'[r] = {}
  BY DEF GiveUp
<1>27. CallFails(r) => pc[r] \in GitSteps \cup {"record", "unrecord"} /\ pc'[r] = "refused" /\ held'[r] = {}
  BY DEF CallFails
<1> QED BY <1>1, <1>2, <1>3, <1>4, <1>5, <1>6, <1>7, <1>8, <1>9, <1>10, <1>11, <1>12, <1>13, <1>14, <1>15,
      <1>16, <1>17, <1>18, <1>19, <1>20, <1>21, <1>22, <1>23, <1>24, <1>25, <1>26, <1>27

\* What a step leaves alone.
LEMMA Frame ==
  ASSUME NEW r \in Requests, Act(r)
  PROVE  /\ upstream' = upstream /\ workload' = workload
         /\ dir' = dir \/ CleanWorktree(r) \/ AddWorktree(r) \/ DropWorktree(r) \/ Restore(r) \/ Work(r)
         /\ record' = record \/ PutWorkspace(r) \/ MarkRemoved(r) \/ Refresh(r)
         /\ mirror' = mirror \/ CheckMirror(r) \/ Quarantine(r) \/ Publish(r)
         /\ job' = job \/ Continue(r) \/ Settle(r) \/ SettleFailure(r)
         /\ owner' = owner \/ Claim(r) \/ Settle(r) \/ SettleFailure(r)
         /\ released' = released \/ Continue(r) \/ Provision(r)
         /\ seen' = seen \/ LoadEnsure(r) \/ CheckMirror(r) \/ Publish(r) \/ Claim(r) \/ LoadContext(r)
         /\ faults' = faults \/ CallFails(r)
<1>1. upstream' = upstream /\ workload' = workload
  BY DEF Act, Step, Arrive, Claim, Acquire, PoolTimesOut, LoadEnsure, CheckMirror, Quarantine, Publish,
        CleanWorktree, AddWorktree, PutWorkspace, LoadRemove, DropWorktree, MarkRemoved, Refresh, Export,
        Continue, LoadContext, StartExecution, Restore, Provision, Work, Settle, SettleFailure, GiveUp,
        CallFails
<1>2. dir' = dir \/ CleanWorktree(r) \/ AddWorktree(r) \/ DropWorktree(r) \/ Restore(r) \/ Work(r)
  BY DEF Act, Step, Arrive, Claim, Acquire, PoolTimesOut, LoadEnsure, CheckMirror, Quarantine, Publish,
        PutWorkspace, LoadRemove, MarkRemoved, Refresh, Export, Continue, LoadContext, StartExecution,
        Provision, Settle, SettleFailure, GiveUp, CallFails
<1>3. record' = record \/ PutWorkspace(r) \/ MarkRemoved(r) \/ Refresh(r)
  BY DEF Act, Step, Arrive, Claim, Acquire, PoolTimesOut, LoadEnsure, CheckMirror, Quarantine, Publish,
        CleanWorktree, AddWorktree, LoadRemove, DropWorktree, Export, Continue, LoadContext, StartExecution,
        Restore, Provision, Work, Settle, SettleFailure, GiveUp, CallFails
<1>4. mirror' = mirror \/ CheckMirror(r) \/ Quarantine(r) \/ Publish(r)
  BY DEF Act, Step, Arrive, Claim, Acquire, PoolTimesOut, LoadEnsure, CleanWorktree, AddWorktree,
        PutWorkspace, LoadRemove, DropWorktree, MarkRemoved, Refresh, Export, Continue, LoadContext,
        StartExecution, Restore, Provision, Work, Settle, SettleFailure, GiveUp, CallFails
<1>5. job' = job \/ Continue(r) \/ Settle(r) \/ SettleFailure(r)
  BY DEF Act, Step, Arrive, Claim, Acquire, PoolTimesOut, LoadEnsure, CheckMirror, Quarantine, Publish,
        CleanWorktree, AddWorktree, PutWorkspace, LoadRemove, DropWorktree, MarkRemoved, Refresh, Export,
        LoadContext, StartExecution, Restore, Provision, Work, GiveUp, CallFails
<1>6. owner' = owner \/ Claim(r) \/ Settle(r) \/ SettleFailure(r)
  BY DEF Act, Step, Arrive, Acquire, PoolTimesOut, LoadEnsure, CheckMirror, Quarantine, Publish,
        CleanWorktree, AddWorktree, PutWorkspace, LoadRemove, DropWorktree, MarkRemoved, Refresh, Export,
        Continue, LoadContext, StartExecution, Restore, Provision, Work, GiveUp, CallFails
<1>7. released' = released \/ Continue(r) \/ Provision(r)
  BY DEF Act, Step, Arrive, Claim, Acquire, PoolTimesOut, LoadEnsure, CheckMirror, Quarantine, Publish,
        CleanWorktree, AddWorktree, PutWorkspace, LoadRemove, DropWorktree, MarkRemoved, Refresh, Export,
        LoadContext, StartExecution, Restore, Work, Settle, SettleFailure, GiveUp, CallFails
<1>8. seen' = seen \/ LoadEnsure(r) \/ CheckMirror(r) \/ Publish(r) \/ Claim(r) \/ LoadContext(r)
  BY DEF Act, Step, Arrive, Acquire, PoolTimesOut, Quarantine, CleanWorktree, AddWorktree, PutWorkspace,
        LoadRemove, DropWorktree, MarkRemoved, Refresh, Export, Continue, StartExecution, Restore, Provision,
        Work, Settle, SettleFailure, GiveUp, CallFails
<1>9. faults' = faults \/ CallFails(r)
  BY DEF Act, Step, Arrive, Claim, Acquire, PoolTimesOut, LoadEnsure, CheckMirror, Quarantine, Publish,
        CleanWorktree, AddWorktree, PutWorkspace, LoadRemove, DropWorktree, MarkRemoved, Refresh, Export,
        Continue, LoadContext, StartExecution, Restore, Provision, Work, Settle, SettleFailure, GiveUp
<1> QED BY <1>1, <1>2, <1>3, <1>4, <1>5, <1>6, <1>7, <1>8, <1>9

-----------------------------------------------------------------------------
(* Worktrees.                                                              *)

Trees == [rev: Heads, work: BOOLEAN]

\* A worktree, taken apart.
LEMMA TreeParts ==
  ASSUME NEW e \in Heads, NEW w \in BOOLEAN
  PROVE  \E d \in Trees : d = [rev |-> e, work |-> w] /\ d.rev = e /\ d.work = w
<1> DEFINE d == [rev |-> e, work |-> w]
<1>1. d \in Trees /\ d.rev = e /\ d.work = w
  BY DEF Trees
<1> QED BY <1>1

\* What is there is no marker.
LEMMA TreesAreNotNone ==
  ASSUME TypeOK
  PROVE  /\ None \notin Trees /\ None \notin Records
         /\ \A j \in Jobs : (dir[j] # None) <=> (dir[j] \in Trees)
         /\ \A j \in Jobs : (record[j] # None) <=> (record[j] \in Records)
<1>1. MaxRevision \in Nat
  BY RequestsAssumption DEF TypeOK, MaxRevision
<1>2. Heads \subseteq Nat /\ Revisions \subseteq Nat
  BY <1>1 DEF Heads, Revisions, Commit
<1>3. None \notin Trees /\ None \notin Records
  BY <1>2, NoneAssumption DEF Trees, Records
<1> QED BY <1>3 DEF TypeOK, Trees

\* Revisions are numbers.
LEMMA Numbers ==
  ASSUME TypeOK
  PROVE  /\ mirror.rev \in Nat /\ upstream \in Nat /\ faults \in Nat
         /\ \A j \in Jobs : record[j] # None => record[j].base \in Nat
         /\ MaxRevision \in Nat \ {0} /\ MaxFaults \in Nat
<1>1. MaxRevision \in Nat \ {0} /\ MaxFaults \in Nat
  BY RequestsAssumption DEF TypeOK, MaxRevision, MaxFaults
<1> QED BY <1>1 DEF TypeOK, Mirror, Revisions, Records

-----------------------------------------------------------------------------
(* Locks.                                                                  *)

\* The lists of what a request acquires, as sets.
LEMMA Orders ==
  ASSUME NEW r \in Requests
  PROVE  /\ DOMAIN Order(r) \subseteq 1 .. 3
         /\ At(r, "entry") => {Order(r)[i] : i \in DOMAIN Order(r)} = Base(Kind[r])
         /\ At(r, "locks") => {Order(r)[i] : i \in DOMAIN Order(r)} = More(Kind[r])
         /\ \A i, k \in DOMAIN Order(r) : Order(r)[i] = Order(r)[k] => i = k
<1>1. ASSUME NEW seq, seq \in {<<"conn", "job", "gate">>, <<"conn", "job">>, <<"conn2", "repo">>, <<"gate">>}
      PROVE  /\ DOMAIN seq \subseteq 1 .. 3
             /\ \A i, k \in DOMAIN seq : seq[i] = seq[k] => i = k
  BY <1>1
<1>2. Order(r) \in {<<"conn", "job", "gate">>, <<"conn", "job">>, <<"conn2", "repo">>, <<"gate">>}
  BY DEF Order, Entry, Further
<1>3. ASSUME At(r, "entry") PROVE {Order(r)[i] : i \in DOMAIN Order(r)} = Base(Kind[r])
  <2>1. CASE Kind[r] \in {"ensure", "remove", "refresh", "export"}
    BY <1>3, <2>1 DEF Order, Entry, Base
  <2>2. CASE Kind[r] \notin {"ensure", "remove", "refresh", "export"}
    BY <1>3, <2>2 DEF Order, Entry, Base
  <2> QED BY <2>1, <2>2
<1>4. ASSUME At(r, "locks") PROVE {Order(r)[i] : i \in DOMAIN Order(r)} = More(Kind[r])
  <2>1. CASE Kind[r] = "ensure"
    BY <1>4, <2>1 DEF Order, Further, More, At
  <2>2. CASE Kind[r] # "ensure"
    BY <1>4, <2>2 DEF Order, Further, More, At
  <2> QED BY <2>1, <2>2
<1> QED BY <1>1, <1>2, <1>3, <1>4

\* A request that waits lacks something, the next of its list.
LEMMA Wanting ==
  ASSUME IInv, NEW r \in Requests, Waiting(r)
  PROVE  /\ Wanted(r) \notin held[r]
         /\ At(r, "entry") =>
               /\ Wanted(r) \in Base(Kind[r])
               /\ (Missing(r) = {Min(Missing(r))}) <=> (held[r] \cup {Wanted(r)} = Base(Kind[r]))
         /\ At(r, "locks") =>
               /\ Wanted(r) \in More(Kind[r])
               /\ (Missing(r) = {Min(Missing(r))}) <=>
                      (held[r] \cup {Wanted(r)} = Base(Kind[r]) \cup More(Kind[r]))
<1> DEFINE all == {Order(r)[i] : i \in DOMAIN Order(r)}
<1>1. Missing(r) # {}
  <2>1. ~(all \subseteq held[r])
    BY Orders DEF IInv, Held, HeldBy, Waiting, At
  <2> QED BY <2>1 DEF Missing
<1>2. PICK m \in Missing(r) : \A i \in Missing(r) : m <= i
  <2>1. Missing(r) \subseteq 1 .. 3
    BY Orders DEF Missing
  <2> QED BY <1>1, <2>1
<1>3. Min(Missing(r)) \in Missing(r)
  BY <1>2 DEF Min
<1> DEFINE n == Min(Missing(r))
<1>4. n \in DOMAIN Order(r) /\ Wanted(r) = Order(r)[n] /\ Wanted(r) \notin held[r]
  BY <1>3 DEF Missing, Wanted
<1> HIDE DEF n
<1>5. (Missing(r) = {n}) <=> (all \subseteq held[r] \cup {Wanted(r)})
  BY <1>4, Orders DEF Missing
<1>6. Wanted(r) \in all
  BY <1>4
<1>7. /\ At(r, "entry") => all = Base(Kind[r]) /\ held[r] \subseteq Base(Kind[r])
      /\ At(r, "locks") => all = More(Kind[r]) /\ Base(Kind[r]) \subseteq held[r]
                            /\ held[r] \subseteq Base(Kind[r]) \cup More(Kind[r])
  BY Orders DEF IInv, Held, HeldBy, At
<1> HIDE DEF all
<1> QED BY <1>4, <1>5, <1>6, <1>7 DEF n

\* Where a request goes when it is given what it waits for.
LEMMA Acquired ==
  ASSUME IInv, NEW r \in Requests, Acquire(r)
  PROVE  /\ held'[r] = held[r] \cup {Wanted(r)} /\ Wanted(r) \in Resources
         /\ \/ pc[r] \in {"entry", "locks"} /\ pc'[r] = pc[r] /\ Missing(r) # {Min(Missing(r))}
            \/ /\ Missing(r) = {Min(Missing(r))}
               /\ \/ pc[r] = "entry" /\ pc'[r] = "load"
                  \/ pc[r] = "locks" /\ Kind[r] = "ensure" /\ pc'[r] = "check"
                  \/ pc[r] = "locks" /\ Kind[r] = "execute" /\ pc'[r] = "restore"
<1>1. HeldBy(r) /\ TypeOK
  BY DEF IInv, Held
<1>2. pc' = [pc EXCEPT ![r] = IF Missing(r) # {Min(Missing(r))} THEN pc[r]
                             ELSE IF pc[r] = "entry" THEN "load"
                             ELSE IF Kind[r] = "ensure" THEN "check" ELSE "restore"]
  BY DEF Acquire, Goto, At
<1>3. held'[r] = held[r] \cup {Wanted(r)}
  BY <1>1 DEF TypeOK, Acquire
<1>4. Wanted(r) \in Resources
  BY Wanting DEF Acquire, Waiting, At, Base, More, Resources
<1> QED BY <1>1, <1>2, <1>3, <1>4 DEF TypeOK, HeldBy, Acquire, Waiting

\* The types of what a step may change; the workload, which the types depend on,
\* is never one of them.
LEMMA NextTyped ==
  ASSUME IInv, Next
  PROVE  TypeOK'
<1>0. TypeOK /\ JobOf \in [Requests -> Jobs] /\ MaxRevision \in Nat \ {0} /\ MaxFaults \in Nat
  BY RequestsAssumption, Numbers DEF IInv
<1> DEFINE Seen == [record: Records \cup {None}, rev: 0 .. MaxRevision, op: Operations \cup {"none"}]
           States == {"queued", "planned", "continued"} \cup Terminal
           Typed == /\ pc' \in [Requests -> Pcs] /\ held' \in [Requests -> SUBSET Resources]
                    /\ seen' \in [Requests -> Seen] /\ record' \in [Jobs -> Records \cup {None}]
                    /\ dir' \in [Jobs -> Trees \cup {None}] /\ mirror' \in Mirror /\ upstream' \in Revisions
                    /\ job' \in [Jobs -> States] /\ owner' \in [Jobs -> Requests \cup {None}]
                    /\ released' \in [Jobs -> BOOLEAN] /\ faults' \in 0 .. MaxFaults /\ workload' = workload
<1>1. /\ pc \in [Requests -> Pcs] /\ held \in [Requests -> SUBSET Resources]
      /\ seen \in [Requests -> Seen] /\ record \in [Jobs -> Records \cup {None}]
      /\ dir \in [Jobs -> Trees \cup {None}] /\ mirror \in Mirror /\ upstream \in Revisions
      /\ job \in [Jobs -> States] /\ owner \in [Jobs -> Requests \cup {None}]
      /\ released \in [Jobs -> BOOLEAN] /\ faults \in 0 .. MaxFaults
  BY <1>0 DEF TypeOK, Pcs, Trees
<1>2. ASSUME NEW r \in Requests, Act(r) PROVE Typed
  <2>1. OfRequest(r) /\ HeldBy(r) /\ JobOf[r] \in Jobs
    BY <1>0 DEF IInv, Held
  <2>2. pc' \in [Requests -> Pcs] /\ held' \in [Requests -> SUBSET Resources]
    <3>1. pc'[r] \in Pcs /\ held'[r] \in SUBSET Resources
      <4>1. CASE Acquire(r)
        BY <1>1, <4>1, Acquired DEF Pcs, GitSteps
      <4>2. CASE ~Acquire(r)
        BY <1>0, <1>1, <1>2, <4>2, Steps DEF Act, Step, Pcs, GitSteps, Ended
      <4> QED BY <4>1, <4>2
    <3>2. /\ \A q \in Requests \ {r} : pc'[q] = pc[q] /\ held'[q] = held[q]
          /\ pc' = [q \in Requests |-> pc'[q]] /\ held' = [q \in Requests |-> held'[q]]
      BY <1>0, <1>2, Steps
    <3>3. \A q \in Requests : pc'[q] \in Pcs /\ held'[q] \in SUBSET Resources
      BY <1>1, <3>1, <3>2
    <3> QED BY <3>2, <3>3
  <2>3. seen' \in [Requests -> Seen]
    <3>1. CASE LoadEnsure(r)
      <4>1. seen' = seen \/ seen' = [seen EXCEPT ![r].record = record[JobOf[r]]]
        BY <3>1 DEF LoadEnsure
      <4> QED BY <1>1, <2>1, <4>1
    <3>2. CASE LoadContext(r)
      <4>1. seen' = seen \/ seen' = [seen EXCEPT ![r].record = record[JobOf[r]]]
        BY <3>2 DEF LoadContext
      <4> QED BY <1>1, <2>1, <4>1
    <3>3. CASE Claim(r)
      <4>1. \E o \in Operations : seen' = [seen EXCEPT ![r].op = o]
        BY <3>3 DEF Claim, Operations
      <4> QED BY <1>1, <4>1
    <3>4. CASE CheckMirror(r) \/ Publish(r)
      <4>1. seen' = seen \/ seen' = [seen EXCEPT ![r].rev = BaseOf(r, upstream)]
        BY <3>4 DEF CheckMirror, Publish
      <4>2. BaseOf(r, upstream) \in 0 .. MaxRevision
        BY <1>0, <1>1 DEF BaseOf, Revisions, Records
      <4> QED BY <1>1, <4>1, <4>2
    <3> QED BY <1>1, <1>2, <3>1, <3>2, <3>3, <3>4, Frame
  <2>4. dir' \in [Jobs -> Trees \cup {None}]
    <3>1. CASE CleanWorktree(r) \/ DropWorktree(r)
      BY <1>1, <2>1, <3>1 DEF CleanWorktree, DropWorktree
    <3>2. CASE AddWorktree(r)
      <4>1. seen[r].rev \in Heads
        BY <1>0, <1>1, <2>1, <3>2 DEF AddWorktree, At, OfRequest, Cached, Making, Mirror, Revisions, Heads
      <4>2. dir' = dir \/ dir' = [dir EXCEPT ![JobOf[r]] = [rev |-> seen[r].rev, work |-> FALSE]]
        BY <3>2 DEF AddWorktree
      <4>3. dir' = dir \/ \E d \in Trees : dir' = [dir EXCEPT ![JobOf[r]] = d]
        BY <4>1, <4>2, TreeParts
      <4> QED BY <1>1, <2>1, <4>3
    <3>3. CASE Restore(r)
      <4>1. seen[r].record.revision \in Heads
        BY <1>1, <2>1, <3>3 DEF Restore, At, OfRequest, Executing, HeldBy, Records
      <4>2. dir' = dir \/ dir' = [dir EXCEPT ![JobOf[r]] = [rev |-> seen[r].record.revision, work |-> FALSE]]
        BY <3>3 DEF Restore
      <4>3. dir' = dir \/ \E d \in Trees : dir' = [dir EXCEPT ![JobOf[r]] = d]
        BY <4>1, <4>2, TreeParts
      <4> QED BY <1>1, <2>1, <4>3
    <3>4. CASE Work(r)
      <4>1. CASE dir[JobOf[r]] = None
        BY <1>1, <3>4, <4>1 DEF Work
      <4>2. CASE dir[JobOf[r]] # None
        <5>1. dir[JobOf[r]] \in Trees /\ Commit \in Heads
          BY <1>1, <2>1, <4>2 DEF Heads
        <5>2. dir[JobOf[r]].rev \in Heads /\ dir[JobOf[r]].work \in BOOLEAN
          BY <5>1 DEF Trees
        <5>3. PICK head \in Heads, w \in BOOLEAN : dir' = [dir EXCEPT ![JobOf[r]] = [rev |-> head, work |-> w]]
          BY <1>1, <2>1, <3>4, <4>2, <5>1, <5>2 DEF Work
        <5>4. \E d \in Trees : dir' = [dir EXCEPT ![JobOf[r]] = d]
          BY <5>3, TreeParts
        <5> QED BY <1>1, <2>1, <5>4
      <4> QED BY <4>1, <4>2
    <3> QED BY <1>1, <1>2, <3>1, <3>2, <3>3, <3>4, Frame
  <2>5. record' \in [Jobs -> Records \cup {None}]
    <3>1. CASE PutWorkspace(r)
      <4>1. seen[r].rev \in Revisions /\ dir[JobOf[r]].rev = seen[r].rev
        BY <1>0, <1>1, <2>1, <3>1
        DEF PutWorkspace, At, OfRequest, Cached, ReadStill, Making, Mirror, Revisions
      <4>2. record[JobOf[r]] # None => record[JobOf[r]].base \in Revisions
        BY <1>1, <2>1 DEF Records
      <4>3. \E b \in Revisions :
               record' = [record EXCEPT ![JobOf[r]] = [state |-> "active", base |-> b, revision |-> seen[r].rev]]
        BY <3>1, <4>1, <4>2 DEF PutWorkspace
      <4> QED BY <1>1, <2>1, <4>1, <4>3 DEF Records, Heads
    <3>2. CASE MarkRemoved(r)
      <4>1. record[JobOf[r]] \in Records /\ record' = [record EXCEPT ![JobOf[r]].state = "removed"]
        BY <1>1, <2>1, <3>2 DEF MarkRemoved, At, OfRequest, Removing, Removal, Active
      <4> QED BY <1>1, <2>1, <4>1 DEF Records
    <3>3. CASE Refresh(r)
      <4>1. CASE Active(JobOf[r]) /\ dir[JobOf[r]] # None
        <5>1. record[JobOf[r]] \in Records /\ dir[JobOf[r]] \in Trees
          BY <1>1, <2>1, <4>1 DEF Active
        <5>2. dir[JobOf[r]].rev \in Heads
          BY <5>1 DEF Trees
        <5>3. record' = [record EXCEPT ![JobOf[r]].revision = dir[JobOf[r]].rev]
          BY <3>3, <4>1 DEF Refresh
        <5> QED BY <1>1, <2>1, <5>1, <5>2, <5>3 DEF Records
      <4>2. CASE ~(Active(JobOf[r]) /\ dir[JobOf[r]] # None)
        BY <1>1, <3>3, <4>2 DEF Refresh
      <4> QED BY <4>1, <4>2
    <3> QED BY <1>1, <1>2, <3>1, <3>2, <3>3, Frame
  <2>6. mirror' \in Mirror /\ upstream' \in Revisions /\ faults' \in 0 .. MaxFaults /\ workload' = workload
    <3>1. CASE CheckMirror(r) \/ Quarantine(r) \/ Publish(r)
      BY <1>0, <1>1, <3>1 DEF CheckMirror, Quarantine, Publish, Mirror, Revisions
    <3>2. CASE CallFails(r)
      BY <1>0, <1>1, <3>2 DEF CallFails
    <3> QED BY <1>1, <1>2, <3>1, <3>2, Frame
  <2>7. /\ job' \in [Jobs -> States] /\ owner' \in [Jobs -> Requests \cup {None}]
        /\ released' \in [Jobs -> BOOLEAN]
    <3>1. job' \in [Jobs -> States]
      BY <1>1, <1>2, <2>1, Frame DEF Continue, Settle, SettleFailure, Terminal
    <3>2. owner' \in [Jobs -> Requests \cup {None}]
      BY <1>1, <1>2, <2>1, Frame DEF Claim, Settle, SettleFailure
    <3>3. released' \in [Jobs -> BOOLEAN]
      BY <1>1, <1>2, <2>1, Frame DEF Continue, Provision
    <3> QED BY <3>1, <3>2, <3>3
  <2> QED BY <2>2, <2>3, <2>4, <2>5, <2>6, <2>7
<1>3. ASSUME Other PROVE Typed
  <2>1. CASE BranchMoves
    BY <1>0, <1>1, <2>1 DEF BranchMoves, Revisions
  <2>2. ASSUME NEW j \in Jobs, LeaseExpires(j) PROVE Typed
    BY <1>1, <2>2 DEF LeaseExpires
  <2>3. ASSUME NEW j \in Jobs, ReleaseEnvironment(j) PROVE Typed
    BY <1>1, <2>3 DEF ReleaseEnvironment
  <2>4. ASSUME NEW d \in Daemons, Crash(d) PROVE Typed
    <3>1. pc' \in [Requests -> Pcs] /\ held' \in [Requests -> SUBSET Resources]
      BY <1>1, <2>4 DEF Crash, Pcs, Ended
    <3> QED BY <1>0, <1>1, <2>4, <3>1 DEF Crash
  <2> QED BY <1>3, <2>1, <2>2, <2>3, <2>4 DEF Other
<1>4. Typed
  BY <1>2, <1>3 DEF Next, Act, Other
<1> QED BY <1>0, <1>4
  DEF TypeOK, Pcs, Trees, MaxRevision, MaxFaults, Revisions, Heads, Records, Mirror

\* A step leaves each request with what it holds at the place it goes to.
LEMMA NextHeld ==
  ASSUME IInv, Next
  PROVE  Held'
<1>0. TypeOK /\ Held
  BY DEF IInv
<1>1. ASSUME NEW r \in Requests, Act(r) PROVE Held'
  <2>0. HeldBy(r)
    BY <1>0 DEF Held
  <2> USE DEF HeldBy, Outside, Ended, InCache, Removal
  <2>1. ASSUME NEW q \in Requests, q # r PROVE HeldBy(q)'
    <3>1. pc'[q] = pc[q] /\ held'[q] = held[q] /\ HeldBy(q)
      BY <1>0, <1>1, <2>1, Steps DEF Held
    <3> QED BY <3>1
  <2>2. HeldBy(r)'
    <3>1. CASE Acquire(r)
      <4>1. held'[r] = held[r] \cup {Wanted(r)} /\ Waiting(r)
        BY <3>1, Acquired DEF Acquire
      <4>2. CASE Missing(r) # {Min(Missing(r))}
        BY <2>0, <3>1, <4>1, <4>2, Acquired, Wanting DEF Waiting, At
      <4>3. CASE Missing(r) = {Min(Missing(r))} /\ pc[r] = "entry"
        <5>1. pc'[r] = "load" /\ held'[r] = Base(Kind[r])
          BY <3>1, <4>1, <4>3, Acquired, Wanting DEF At
        <5> QED BY <5>1
      <4>4. CASE Missing(r) = {Min(Missing(r))} /\ pc[r] = "locks"
        <5>1. held'[r] = Base(Kind[r]) \cup More(Kind[r])
          BY <4>1, <4>4, Wanting DEF At
        <5>2. \/ Kind[r] = "ensure" /\ pc'[r] = "check"
              \/ Kind[r] = "execute" /\ pc'[r] = "restore"
          BY <3>1, <4>4, Acquired
        <5>3. /\ Kind[r] = "ensure" => held'[r] = {"conn", "job", "gate", "conn2", "repo"}
              /\ Kind[r] = "execute" => held'[r] = {"conn", "job", "gate"}
          BY <5>1 DEF Base, More
        <5> QED BY <5>2, <5>3
      <4> QED BY <4>1, <4>2, <4>3, <4>4 DEF Waiting
    <3>2. CASE pc'[r] \in Ended /\ held'[r] = {}
      BY <3>2
    <3>3. CASE pc'[r] = "locks" /\ held'[r] = held[r] /\ pc[r] = "load" /\ Kind[r] \in {"ensure", "execute"}
      <4>1. held'[r] = Base(Kind[r])
        BY <2>0, <3>3
      <4>2. \E x \in More(Kind[r]) : x \notin Base(Kind[r])
        BY <3>3 DEF Base, More
      <4> QED BY <3>3, <4>1, <4>2
    <3>4. CASE pc'[r] = "entry" /\ held'[r] = {}
      BY <3>4 DEF Base
    <3>5. CASE Arrive(r) \/ Claim(r) \/ LoadContext(r) \/ Settle(r) \/ SettleFailure(r)
      BY <1>0, <2>0, <3>2, <3>4, <3>5, Steps
    <3>6. CASE PoolTimesOut(r) \/ Refresh(r) \/ Export(r) \/ Continue(r) \/ GiveUp(r) \/ CallFails(r)
      BY <1>0, <3>2, <3>6, Steps
    <3>7. CASE LoadEnsure(r)
      BY <1>0, <3>2, <3>3, <3>7, Steps
    <3>8. CASE CheckMirror(r) \/ Quarantine(r) \/ Publish(r)
      BY <1>0, <2>0, <3>2, <3>8, Steps
    <3>9. CASE CleanWorktree(r) \/ AddWorktree(r) \/ PutWorkspace(r)
      BY <1>0, <2>0, <3>2, <3>9, Steps
    <3>10. CASE LoadRemove(r) \/ DropWorktree(r) \/ MarkRemoved(r)
      BY <1>0, <2>0, <3>2, <3>10, Steps DEF Base
    <3>11. CASE StartExecution(r)
      BY <1>0, <2>0, <3>3, <3>11, Steps DEF Base
    <3>12. CASE Restore(r) \/ Provision(r)
      BY <1>0, <2>0, <3>2, <3>12, Steps
    <3>13. CASE Work(r)
      BY <1>0, <2>0, <3>2, <3>13, Steps
    <3> QED BY <1>1, <3>1, <3>5, <3>6, <3>7, <3>8, <3>9, <3>10, <3>11, <3>12, <3>13 DEF Act, Step
  <2> QED BY <2>1, <2>2 DEF Held
<1>2. ASSUME Other PROVE Held'
  <2>1. ASSUME NEW q \in Requests PROVE HeldBy(q)'
    <3>1. \/ pc'[q] = pc[q] /\ held'[q] = held[q]
          \/ pc'[q] = "dead" /\ held'[q] = {}
          \/ pc'[q] = pc[q] /\ ~InProgress(q) /\ held'[q] = {}
      BY <1>0, <1>2 DEF Other, BranchMoves, LeaseExpires, ReleaseEnvironment, Crash, TypeOK
    <3> QED BY <1>0, <3>1 DEF Held, HeldBy, InProgress, Outside, Ended, InCache, Removal
  <2> QED BY <2>1 DEF Held
<1> QED BY <1>1, <1>2 DEF Next, Act, Other

\* Nobody is given a lock that another request holds.
LEMMA NextExclusive ==
  ASSUME IInv, Next
  PROVE  Exclusive'
<1>0. TypeOK /\ Exclusive /\ Held
  BY DEF IInv
<1>1. ASSUME \A q \in Requests : held'[q] \subseteq held[q], workload' = workload
      PROVE  Exclusive'
  BY <1>0, <1>1 DEF Exclusive, DaemonOf
<1>2. ASSUME NEW r \in Requests, Act(r) PROVE Exclusive'
  <2>1. CASE Acquire(r)
    BY <1>0, <2>1, Wanting DEF Acquire, TypeOK, Exclusive, DaemonOf, Available, Holders
  <2>2. CASE ~Acquire(r)
    <3>1. held'[r] \subseteq held[r]
      BY <1>0, <1>2, <2>2, Steps DEF Act, Step
    <3>2. workload' = workload /\ \A q \in Requests \ {r} : held'[q] = held[q]
      BY <1>0, <1>2, Steps, Frame
    <3> QED BY <1>1, <3>1, <3>2
  <2> QED BY <2>1, <2>2
<1>3. ASSUME Other PROVE Exclusive'
  <2>1. workload' = workload
    BY <1>3 DEF Other, BranchMoves, LeaseExpires, ReleaseEnvironment, Crash
  <2>2. \A q \in Requests : held'[q] \subseteq held[q]
    BY <1>0, <1>3 DEF Other, BranchMoves, LeaseExpires, ReleaseEnvironment, Crash, TypeOK
  <2> QED BY <1>1, <2>1, <2>2
<1> QED BY <1>2, <1>3 DEF Next, Act, Other

-----------------------------------------------------------------------------
(* Who may meet whom.                                                      *)

\* The steps that a request takes under the lock of its job.
Inner == {"load", "locks", "restore", "provision", "work"} \cup InCache \cup Removal

\* Two requests for one job are never both inside, nor any two in the cache.
LEMMA Alone ==
  ASSUME IInv, NEW q \in Requests, NEW r \in Requests, q # r
  PROVE  /\ JobOf[q] = JobOf[r] => ~(pc[q] \in Inner /\ pc[r] \in Inner)
         /\ ~(pc[q] \in InCache /\ pc[r] \in InCache)
<1>1. ASSUME NEW p \in Requests
      PROVE  /\ pc[p] \in Inner => "job" \in held[p]
             /\ pc[p] \in InCache => "repo" \in held[p]
  <2>1. HeldBy(p)
    BY DEF IInv, Held
  <2> QED BY <2>1 DEF HeldBy, Inner, Base
<1>2. Exclusive
  BY DEF IInv
<1> QED BY <1>1, <1>2 DEF Exclusive

\* The step of a request changes nothing of the others and of other jobs, and
\* worktree, row and cache only inside.
LEMMA Effects ==
  ASSUME IInv, NEW r \in Requests, Act(r)
  PROVE  /\ \A q \in Requests : q # r => pc'[q] = pc[q] /\ seen'[q] = seen[q]
         /\ \A j \in Jobs : j # JobOf[r] =>
               /\ dir'[j] = dir[j] /\ record'[j] = record[j] /\ job'[j] = job[j]
               /\ owner'[j] = owner[j] /\ released'[j] = released[j]
         /\ pc[r] \notin Inner => dir' = dir /\ record' = record /\ released' = released
         /\ pc[r] \notin InCache => mirror' = mirror
         /\ faults' = 0 => faults = 0
<1>0. TypeOK /\ faults \in Nat /\ faults \in 0 .. MaxFaults
  BY Numbers DEF IInv, TypeOK
<1>1. \A q \in Requests : q # r => pc'[q] = pc[q]
  BY <1>0, Steps
<1>2. \A q \in Requests : q # r => seen'[q] = seen[q]
  BY <1>0, Frame DEF TypeOK, LoadEnsure, CheckMirror, Publish, Claim, LoadContext
<1>3. \A j \in Jobs : j # JobOf[r] => dir'[j] = dir[j]
  BY <1>0, Frame DEF TypeOK, CleanWorktree, AddWorktree, DropWorktree, Restore, Work
<1>4. \A j \in Jobs : j # JobOf[r] => record'[j] = record[j]
  BY <1>0, Frame DEF TypeOK, PutWorkspace, MarkRemoved, Refresh
<1>5. \A j \in Jobs : j # JobOf[r] => job'[j] = job[j] /\ owner'[j] = owner[j] /\ released'[j] = released[j]
  BY <1>0, Frame DEF TypeOK, Claim, Continue, Settle, SettleFailure, Provision
<1>6. pc[r] \notin Inner => dir' = dir /\ record' = record /\ released' = released
  BY <1>0, Frame, Steps DEF Inner, InCache, Removal
<1>7. pc[r] \notin InCache => mirror' = mirror
  BY <1>0, Frame, Steps DEF InCache
<1>8. faults' = 0 => faults = 0
  BY <1>0, Frame DEF CallFails
<1> QED BY <1>1, <1>2, <1>3, <1>4, <1>5, <1>6, <1>7, <1>8

\* A cache that is valid stays, and only gains revisions.
LEMMA CacheGrows ==
  ASSUME IInv, Next
  PROVE  /\ mirror'.rev <= upstream' /\ upstream <= upstream' /\ mirror'.rev \in Nat
         /\ mirror.state = "valid" => mirror'.state = "valid" /\ mirror.rev <= mirror'.rev
<1>0. mirror.rev <= upstream /\ mirror \in Mirror /\ upstream \in Nat /\ mirror.rev \in Nat
  BY Numbers DEF IInv, TypeOK
<1>1. ASSUME NEW r \in Requests, Act(r)
      PROVE  /\ mirror'.rev <= upstream' /\ upstream <= upstream' /\ mirror'.rev \in Nat
             /\ mirror.state = "valid" => mirror'.state = "valid" /\ mirror.rev <= mirror'.rev
  <2>1. upstream' = upstream
    BY <1>1, Frame
  <2>2. CASE mirror' = mirror
    BY <1>0, <2>1, <2>2
  <2>3. CASE CheckMirror(r)
    BY <1>0, <2>1, <2>3 DEF CheckMirror, Mirror
  <2>4. CASE Quarantine(r)
    <3>1. mirror.state # "valid"
      BY <2>4 DEF Quarantine, At, IInv, OfRequest, Cached
    <3> QED BY <1>0, <2>1, <2>4, <3>1 DEF Quarantine
  <2>5. CASE Publish(r)
    BY <1>0, <2>1, <2>5 DEF Publish
  <2> QED BY <1>1, <2>2, <2>3, <2>4, <2>5, Frame
<1>2. CASE BranchMoves
  BY <1>0, <1>2 DEF BranchMoves
<1>3. CASE Other /\ ~BranchMoves
  BY <1>0, <1>3 DEF Other, LeaseExpires, ReleaseEnvironment, Crash
<1> QED BY <1>1, <1>2, <1>3 DEF Next, Act, Other

-----------------------------------------------------------------------------
(* What the step of a request does to its job.                             *)

\* How a worktree comes, goes and changes.
LEMMA DirSteps ==
  ASSUME IInv, NEW r \in Requests, Act(r), NEW j \in Jobs, j = JobOf[r]
  PROVE  \/ dir'[j] = dir[j]
         \/ pc[r] \in {"clean", "drop"} /\ dir'[j] = None
         \/ /\ pc[r] = "add" /\ pc'[r] = "record" /\ AddWorktree(r)
            /\ dir'[j] \in Trees /\ dir'[j].rev = seen[r].rev /\ ~dir'[j].work
         \/ /\ pc[r] = "restore" /\ pc'[r] = "provision" /\ mirror.state = "valid"
            /\ dir'[j] \in Trees /\ dir'[j].rev = seen[r].record.revision /\ ~dir'[j].work
         \/ /\ pc[r] = "work" /\ dir[j] \in Trees /\ dir'[j] \in Trees
            /\ dir'[j].rev \in {dir[j].rev, Commit}
            /\ dir'[j].work => dir[j].work \/ seen[r].op = "later"
            /\ dir[j].work => dir'[j].work
<1>0. TypeOK /\ OfRequest(r) /\ HeldBy(r) /\ MaxRevision \in Nat
  BY Numbers DEF IInv, Held
<1>1. CASE CleanWorktree(r) \/ DropWorktree(r)
  BY <1>0, <1>1 DEF CleanWorktree, DropWorktree, At, TypeOK
<1>2. CASE AddWorktree(r)
  <2>1. seen[r].rev \in Heads
    BY <1>0, <1>2 DEF AddWorktree, At, OfRequest, Cached, Making, Mirror, Revisions, Heads, TypeOK
  <2>2. \/ dir'[j] = dir[j]
        \/ pc'[r] = "record" /\ dir'[j] = [rev |-> seen[r].rev, work |-> FALSE]
    BY <1>0, <1>2 DEF AddWorktree, TypeOK, Goto
  <2>5. PICK d \in Trees : d = [rev |-> seen[r].rev, work |-> FALSE] /\ d.rev = seen[r].rev /\ d.work = FALSE
    BY <2>1, TreeParts
  <2>3. \/ dir'[j] = dir[j]
        \/ pc'[r] = "record" /\ dir'[j] \in Trees /\ dir'[j].rev = seen[r].rev /\ ~dir'[j].work
    BY <2>2, <2>5
  <2>4. pc[r] = "add"
    BY <1>2 DEF AddWorktree, At
  <2> QED BY <1>2, <2>3, <2>4
<1>3. CASE Restore(r)
  <2>1. seen[r].record.revision \in Heads
    BY <1>0, <1>3 DEF Restore, At, OfRequest, Executing, HeldBy, Records, TypeOK
  <2>2. \/ dir'[j] = dir[j]
        \/ /\ pc'[r] = "provision" /\ mirror.state = "valid"
           /\ dir'[j] = [rev |-> seen[r].record.revision, work |-> FALSE]
    BY <1>0, <1>3 DEF Restore, TypeOK, Goto
  <2>5. PICK d \in Trees : /\ d = [rev |-> seen[r].record.revision, work |-> FALSE]
                          /\ d.rev = seen[r].record.revision /\ d.work = FALSE
    BY <2>1, TreeParts
  <2>3. \/ dir'[j] = dir[j]
        \/ /\ pc'[r] = "provision" /\ mirror.state = "valid"
           /\ dir'[j] \in Trees /\ dir'[j].rev = seen[r].record.revision /\ ~dir'[j].work
    BY <2>2, <2>5
  <2>4. pc[r] = "restore"
    BY <1>3 DEF Restore, At
  <2> QED BY <2>3, <2>4
<1>4. CASE Work(r)
  <2>1. CASE dir[j] = None
    BY <1>0, <1>4, <2>1 DEF Work, TypeOK
  <2>2. CASE dir[j] # None
    <3>1. dir[j] \in Trees /\ Commit \in Heads
      BY <1>0, <2>2, TreesAreNotNone DEF Heads
    <3>2. dir[j].rev \in Heads /\ dir[j].work \in BOOLEAN
      BY <3>1 DEF Trees
    <3>3. PICK head \in {dir[j].rev, Commit} :
             dir'[j] = [rev |-> head, work |-> dir[j].work \/ seen[r].op = "later"]
      BY <1>0, <1>4, <2>2 DEF Work, TypeOK
    <3>4. dir'[j].rev = head /\ dir'[j].work = (dir[j].work \/ seen[r].op = "later") /\ dir'[j] \in Trees
      BY <3>1, <3>2, <3>3 DEF Trees
    <3> QED BY <1>4, <3>1, <3>4 DEF Work, At
  <2> QED BY <2>1, <2>2
<1> QED BY <1>1, <1>2, <1>3, <1>4, Frame

\* How a row changes: its base never does.
LEMMA RowSteps ==
  ASSUME IInv, NEW r \in Requests, Act(r), NEW j \in Jobs, j = JobOf[r]
  PROVE  \/ record'[j] = record[j]
         \/ /\ pc[r] = "record" /\ pc'[r] = "done" /\ record'[j] \in Records /\ record'[j].state = "active"
            /\ record'[j].base = (IF record[j] = None THEN seen[r].rev ELSE record[j].base)
            /\ record'[j].revision = seen[r].rev
         \/ /\ pc[r] = "unrecord" /\ pc'[r] = "done" /\ record[j] \in Records /\ record'[j] \in Records
            /\ record'[j].state = "removed"
            /\ record'[j].base = record[j].base /\ record'[j].revision = record[j].revision
         \/ /\ pc[r] = "load" /\ pc'[r] = "done" /\ Active(j) /\ dir[j] # None
            /\ record[j] \in Records /\ record'[j] \in Records /\ record'[j].state = record[j].state
            /\ record'[j].base = record[j].base /\ record'[j].revision = dir[j].rev
<1>0. TypeOK /\ TypeOK' /\ OfRequest(r) /\ HeldBy(r)
  BY NextTyped DEF IInv, Held, Next, Act
<1>1. CASE PutWorkspace(r)
  <2>1. dir[j].rev = seen[r].rev
    BY <1>0, <1>1 DEF PutWorkspace, At, OfRequest, ReadStill
  <2>2. /\ record'[j] = [state |-> "active", base |-> IF record[j] = None THEN seen[r].rev ELSE record[j].base,
                         revision |-> seen[r].rev]
        /\ pc[r] = "record" /\ pc'[r] = "done"
    BY <1>0, <1>1, <2>1 DEF PutWorkspace, At, TypeOK, End, Goto
  <2>3. seen[r].rev \in Revisions /\ seen[r].rev \in Heads
    BY <1>0, <1>1, Numbers DEF PutWorkspace, At, OfRequest, Cached, Making, Mirror, Revisions, Heads, TypeOK
  <2>4. record[j] # None => record[j].base \in Revisions
    BY <1>0 DEF TypeOK, Records
  <2>5. \E b \in Revisions :
           /\ b = (IF record[j] = None THEN seen[r].rev ELSE record[j].base)
           /\ record'[j] = [state |-> "active", base |-> b, revision |-> seen[r].rev]
    BY <2>2, <2>3, <2>4
  <2>6. /\ record'[j] \in Records /\ record'[j].state = "active"
        /\ record'[j].base = (IF record[j] = None THEN seen[r].rev ELSE record[j].base)
        /\ record'[j].revision = seen[r].rev
    BY <2>3, <2>5 DEF Records
  <2> QED BY <2>2, <2>6
<1>2. CASE MarkRemoved(r)
  <2>1. record[j] \in Records
    BY <1>0, <1>2 DEF MarkRemoved, At, OfRequest, Removing, Removal, Active, TypeOK
  <2>2. /\ record'[j] = [record[j] EXCEPT !.state = "removed"]
        /\ pc[r] = "unrecord" /\ pc'[r] = "done"
    BY <1>0, <1>2 DEF MarkRemoved, At, TypeOK, End, Goto
  <2> QED BY <2>1, <2>2 DEF Records
<1>3. CASE Refresh(r)
  <2>1. CASE Active(j) /\ dir[j] # None
    <3>1. record[j] \in Records /\ dir[j] \in Trees
      BY <1>0, <2>1, TreesAreNotNone DEF Active
    <3>2. dir[j].rev \in Heads
      BY <3>1 DEF Trees
    <3>3. record'[j] = [record[j] EXCEPT !.revision = dir[j].rev] /\ pc[r] = "load" /\ pc'[r] = "done"
      BY <1>0, <1>3, <2>1 DEF Refresh, At, TypeOK, End, Goto
    <3> QED BY <2>1, <3>1, <3>2, <3>3 DEF Records
  <2>2. CASE ~(Active(j) /\ dir[j] # None)
    BY <1>3, <2>2 DEF Refresh
  <2> QED BY <2>1, <2>2
<1> QED BY <1>1, <1>2, <1>3, Frame

\* How the job, its lease and its environment change.
LEMMA JobSteps ==
  ASSUME IInv, NEW r \in Requests, Act(r), NEW j \in Jobs, j = JobOf[r]
  PROVE  /\ \/ job'[j] = job[j]
            \/ /\ pc[r] = "load" /\ pc'[r] = "done" /\ job[j] = "succeeded" /\ job'[j] = "continued"
               /\ Active(j) /\ ~released'[j] /\ owner'[j] = owner[j]
            \/ /\ Owns(r) /\ owner'[j] = None /\ pc[r] = "settle"
               /\ job'[j] = (IF job[j] = "queued" THEN "planned" ELSE "succeeded")
            \/ Owns(r) /\ owner'[j] = None /\ pc[r] = "refused" /\ job'[j] = "failed"
         /\ \/ owner'[j] = owner[j]
            \/ owner'[j] = None
            \/ /\ Claim(r) /\ owner'[j] = r /\ pc[r] = "new" /\ pc'[r] = "claimed" /\ Active(j)
               /\ job[j] \in {"queued", "planned", "continued"} /\ Kind[r] = "execute"
               /\ seen'[r].op = (IF job[j] = "queued" THEN "plan" ELSE "later")
         /\ released'[j] = released[j] \/ ~released'[j]
<1>0. TypeOK
  BY DEF IInv
<1> USE DEF TypeOK, At, End, Goto
<1>1. \/ job'[j] = job[j]
      \/ /\ pc[r] = "load" /\ pc'[r] = "done" /\ job[j] = "succeeded" /\ job'[j] = "continued"
         /\ Active(j) /\ ~released'[j] /\ owner'[j] = owner[j]
      \/ /\ Owns(r) /\ owner'[j] = None /\ pc[r] = "settle"
         /\ job'[j] = (IF job[j] = "queued" THEN "planned" ELSE "succeeded")
      \/ Owns(r) /\ owner'[j] = None /\ pc[r] = "refused" /\ job'[j] = "failed"
  <2>1. CASE Continue(r)
    BY <1>0, <2>1 DEF Continue
  <2>2. CASE Settle(r)
    BY <1>0, <2>2 DEF Settle
  <2>3. CASE SettleFailure(r)
    BY <1>0, <2>3 DEF SettleFailure
  <2> QED BY <2>1, <2>2, <2>3, Frame
<1>2. \/ owner'[j] = owner[j]
      \/ owner'[j] = None
      \/ /\ Claim(r) /\ owner'[j] = r /\ pc[r] = "new" /\ pc'[r] = "claimed" /\ Active(j)
         /\ job[j] \in {"queued", "planned", "continued"} /\ Kind[r] = "execute"
         /\ seen'[r].op = (IF job[j] = "queued" THEN "plan" ELSE "later")
  <2>1. CASE Claim(r)
    BY <1>0, <2>1 DEF Claim, Terminal
  <2>2. CASE Settle(r) \/ SettleFailure(r)
    BY <1>0, <2>2 DEF Settle, SettleFailure
  <2> QED BY <2>1, <2>2, Frame
<1>3. released'[j] = released[j] \/ ~released'[j]
  BY <1>0, Frame DEF Continue, Provision
<1> QED BY <1>1, <1>2, <1>3

\* What stays of a job, whatever a request does: the base of its row, that it
\* has a plan, and, while it is to go on, its row.
LEMMA Lasting ==
  ASSUME IInv, NEW r \in Requests, Act(r), NEW j \in Jobs
  PROVE  /\ record[j] # None => record'[j] # None /\ record'[j].base = record[j].base
         /\ job[j] # "queued" => job'[j] # "queued"
         /\ Active(j) /\ job[j] \in {"planned", "continued"} => Active(j)'
         /\ pc[r] \notin Removal /\ Active(j) => Active(j)'
         /\ pc[r] # "record" /\ Active(j)' => Active(j)
<1>1. CASE j # JobOf[r]
  BY <1>1, Effects DEF Active
<1>2. CASE j = JobOf[r]
  <2>1. None \notin Records
    BY TreesAreNotNone DEF IInv
  <2>2. record[j] # None => record'[j] # None /\ record'[j].base = record[j].base
    BY <1>2, <2>1, RowSteps
  <2>3. job[j] # "queued" => job'[j] # "queued"
    BY <1>2, JobSteps
  <2>4. pc[r] \notin Removal /\ Active(j) => Active(j)'
    BY <1>2, <2>1, RowSteps DEF Active, Removal
  <2>5. pc[r] # "record" /\ Active(j)' => Active(j)
    BY <1>2, <2>1, RowSteps DEF Active
  <2>6. job[j] \in {"planned", "continued"} => pc[r] \notin Removal
    BY <1>2 DEF IInv, OfJob, Running, OfRequest, Removing
  <2> QED BY <2>2, <2>3, <2>4, <2>5, <2>6
<1> QED BY <1>1, <1>2

-----------------------------------------------------------------------------
(* A step of one request, for the others.                                  *)

\* What the others have read and what they have the lease for is still so.
LEMMA OtherRequests ==
  ASSUME IInv, NEW r \in Requests, Act(r), NEW q \in Requests, q # r
  PROVE  OfRequest(q)'
<1> DEFINE j == JobOf[q]
<1>0. /\ OfRequest(q) /\ j \in Jobs /\ HeldBy(q) /\ OfRequest(r) /\ OfJob(j)
      /\ pc'[q] = pc[q] /\ seen'[q] = seen[q]
  BY RequestsAssumption, Effects DEF IInv, Held
<1>1. pc[q] \in Inner => dir'[j] = dir[j] /\ record'[j] = record[j] /\ released'[j] = released[j]
  BY <1>0, Alone, Effects
<1>2. pc[q] \in InCache => mirror' = mirror
  BY Alone, Effects
<1>3. Cached(q)'
  BY <1>0, <1>2 DEF OfRequest, Cached, InCache, Making
<1>4. ReadStill(q)'
  BY <1>0, <1>1 DEF OfRequest, ReadStill, Ensures, Making, Active, Inner, InCache
<1>5. Removing(q)'
  BY <1>0, <1>1 DEF OfRequest, Removing, Removal, Active, Inner
<1>6. Executing(q)'
  <2>1. /\ record[j] # None => record'[j] # None /\ record'[j].base = record[j].base
        /\ job[j] # "queued" => job'[j] # "queued"
    BY <1>0, Lasting
  <2>2. pc[q] = "work" => (Active(j)' <=> Active(j))
    BY <1>1 DEF Inner, Active
  <2> QED BY <1>0, <2>1, <2>2 DEF OfRequest, Executing
<1>7. Leased(q)'
  <2> SUFFICES ASSUME owner'[j] = q PROVE Leased(q)'
    BY DEF Leased, Owns
  <2>1. owner[j] = q /\ owner'[j] # None
    <3>1. CASE j # JobOf[r]
      BY <1>0, <3>1, Effects, NoneAssumption
    <3>2. CASE j = JobOf[r]
      BY <1>0, <3>2, JobSteps, NoneAssumption
    <3> QED BY <3>1, <3>2, NoneAssumption
  <2>2. /\ \/ seen[q].op = "plan" /\ job[j] = "queued"
           \/ seen[q].op = "later" /\ job[j] \in {"planned", "continued"} /\ Active(j)
        /\ pc[q] \in {"work", "settle"} => ~released[j]
    BY <1>0, <2>1 DEF OfRequest, Leased, Owns
  <2>3. job'[j] = job[j] /\ (~released[j] => ~released'[j])
    <3>1. CASE j # JobOf[r]
      BY <1>0, <3>1, Effects, NoneAssumption
    <3>2. CASE j = JobOf[r]
      BY <1>0, <2>1, <2>2, <3>2, JobSteps DEF Owns
    <3> QED BY <3>1, <3>2
  <2>4. Active(j) /\ job[j] \in {"planned", "continued"} => Active(j)'
    BY <1>0, Lasting
  <2> QED BY <1>0, <2>2, <2>3, <2>4 DEF Leased
<1>8. faults' = 0 /\ Ensures(q)' => ~Active(j)'
  BY <1>0, <1>1, Effects DEF OfRequest, Ensures, Active, Inner
<1> QED BY <1>3, <1>4, <1>5, <1>6, <1>7, <1>8 DEF OfRequest

\* The other jobs have their worktrees, rows and removals.
LEMMA OtherJobs ==
  ASSUME IInv, NEW r \in Requests, Act(r), NEW j \in Jobs, j # JobOf[r]
  PROVE  OfJob(j)'
<1>0. /\ OfJob(j) /\ dir'[j] = dir[j] /\ record'[j] = record[j] /\ job'[j] = job[j]
      /\ released'[j] = released[j] /\ TypeOK
  BY Effects DEF IInv
<1>1. MadeFromCache(j)'
  <2>1. mirror.state = "valid" => mirror'.state = "valid" /\ mirror.rev <= mirror'.rev /\ mirror'.rev \in Nat
    BY CacheGrows DEF Next, Act
  <2>2. mirror.rev \in Nat /\ (record[j] # None => record[j].base \in Nat)
    BY <1>0, Numbers
  <2> QED BY <1>0, <2>1, <2>2 DEF OfJob, MadeFromCache
<1>2. Running(j)' /\ Resulting(j)' /\ Based(j)'
  BY <1>0 DEF OfJob, Running, Resulting, Based, Active
<1>3. faults' = 0 => Faultless(j)'
  <2> SUFFICES ASSUME faults' = 0, Active(j)', dir'[j] = None
               PROVE  \E q \in Requests : JobOf[q] = j /\ pc'[q] = "unrecord"
    BY DEF Faultless
  <2>1. PICK q \in Requests : JobOf[q] = j /\ pc[q] = "unrecord"
    BY <1>0, Effects DEF OfJob, Faultless, Active
  <2> QED BY <2>1, Effects
<1> QED BY <1>1, <1>2, <1>3 DEF OfJob

-----------------------------------------------------------------------------
(* A step of one request, for itself.                                      *)

\* The step that has led to a place.
LEMMA Origins ==
  ASSUME IInv, NEW r \in Requests, Act(r)
  PROVE  /\ pc'[r] = "quarantine" => CheckMirror(r)
         /\ pc'[r] = "publish" => CheckMirror(r) \/ Quarantine(r)
         /\ pc'[r] = "clean" => CheckMirror(r) \/ Publish(r)
         /\ pc'[r] = "add" => CleanWorktree(r)
         /\ pc'[r] = "record" => AddWorktree(r)
         /\ pc'[r] \in {"check", "restore"} => Acquire(r) /\ pc[r] = "locks"
         /\ pc'[r] = "drop" => LoadRemove(r)
         /\ pc'[r] = "unrecord" => DropWorktree(r)
         /\ pc'[r] = "entry" /\ Kind[r] = "execute" => LoadContext(r) \/ (Acquire(r) /\ pc[r] = "entry")
         /\ pc'[r] = "load" => Acquire(r) /\ pc[r] = "entry"
         /\ pc'[r] = "locks" => LoadEnsure(r) \/ StartExecution(r) \/ (Acquire(r) /\ pc[r] = "locks")
         /\ pc'[r] = "work" => Provision(r)
         /\ pc'[r] = "settle" => Work(r)
<1>0. TypeOK
  BY DEF IInv
<1>1. CASE Acquire(r)
  BY <1>1, Acquired
<1>2. CASE ~Acquire(r)
  BY <1>0, <1>2, Steps DEF Act, Step
<1> QED BY <1>1, <1>2

\* The base of a worktree that is to be made is in the cache it is made from.
LEMMA ChosenBase ==
  ASSUME IInv, NEW r \in Requests, pc[r] \in {"check", "publish"}
  PROVE  /\ BaseOf(r, upstream) \in 1 .. upstream /\ upstream \in Nat
         /\ record[JobOf[r]] # None => BaseOf(r, upstream) = record[JobOf[r]].base
<1> DEFINE j == JobOf[r]
<1>1. /\ TypeOK /\ OfRequest(r) /\ HeldBy(r) /\ OfJob(j) /\ mirror.rev <= upstream
      /\ mirror.rev \in Nat /\ upstream \in Nat /\ j \in Jobs
  BY RequestsAssumption, Numbers DEF IInv, Held
<1>2. seen[r].record = record[j]
  BY <1>1 DEF OfRequest, ReadStill, Ensures, HeldBy, InCache
<1>3. upstream \in 1 .. upstream
  BY <1>1 DEF TypeOK, Revisions
<1>4. record[j] # None => record[j].base \in 1 .. upstream
  <2>1. record[j] # None => record[j].base \in Nat \ {0} /\ record[j].base <= mirror.rev
    BY <1>1 DEF OfJob, MadeFromCache, TypeOK, Records, Revisions
  <2> QED BY <1>1, <2>1
<1> QED BY <1>1, <1>2, <1>3, <1>4 DEF BaseOf

LEMMA OwnCached ==
  ASSUME IInv, NEW r \in Requests, Act(r)
  PROVE  Cached(r)'
<1>0. TypeOK /\ OfRequest(r)
  BY DEF IInv
<1>1. CASE CheckMirror(r)
  <2>1. CASE mirror.state = "valid"
    <3>1. mirror'.rev = upstream /\ mirror'.state = "valid" /\ seen'[r].rev = BaseOf(r, upstream) /\ pc'[r] = "clean"
      BY <1>0, <1>1, <2>1 DEF CheckMirror, Goto, TypeOK, Mirror
    <3> QED BY <1>1, <3>1, ChosenBase DEF Cached, CheckMirror, At
  <2>2. CASE mirror.state # "valid"
    <3>1. pc'[r] = (IF mirror.state = "none" THEN "publish" ELSE "quarantine") /\ mirror' = mirror
      BY <1>0, <1>1, <2>2 DEF CheckMirror, Goto, TypeOK
    <3> QED BY <2>2, <3>1 DEF Cached, Making
  <2> QED BY <2>1, <2>2
<1>2. CASE Quarantine(r)
  BY <1>0, <1>2, Steps DEF Quarantine, Cached, Making
<1>3. CASE Publish(r)
  <2>1. mirror.state = "none"
    BY <1>0, <1>3 DEF OfRequest, Cached, Publish, At
  <2>2. mirror'.rev = upstream /\ mirror'.state = "valid" /\ seen'[r].rev = BaseOf(r, upstream) /\ pc'[r] = "clean"
    BY <1>0, <1>3, <2>1 DEF Publish, Goto, TypeOK
  <2> QED BY <1>3, <2>2, ChosenBase DEF Cached, Publish, At
<1>4. CASE CleanWorktree(r) \/ AddWorktree(r)
  <2>1. mirror' = mirror /\ seen' = seen /\ pc[r] \in Making
    BY <1>4 DEF CleanWorktree, AddWorktree, At, Making
  <2>2. pc'[r] \in {"add", "record", "refused"}
    BY <1>0, <1>4, Steps
  <2> QED BY <1>0, <2>1, <2>2 DEF OfRequest, Cached
<1>5. CASE pc'[r] \notin {"quarantine", "publish"} \cup Making
  BY <1>5 DEF Cached
<1> QED BY <1>1, <1>2, <1>3, <1>4, <1>5, Origins DEF Making

\* Nothing is left of a job that ensure goes to work for, unless its removal
\* was interrupted.
LEMMA NothingToKeep ==
  ASSUME IInv, NEW r \in Requests, LoadEnsure(r), pc'[r] = "locks"
  PROVE  /\ ~Active(JobOf[r]) \/ dir[JobOf[r]] = None
         /\ faults = 0 => ~Active(JobOf[r])
<1> DEFINE j == JobOf[r]
<1>1. TypeOK /\ OfJob(j) /\ j \in Jobs
  BY RequestsAssumption DEF IInv
<1>2. ~(Active(j) /\ dir[j] # None /\ mirror.state = "valid") /\ pc[r] = "load"
  BY <1>1 DEF LoadEnsure, End, Goto, At, TypeOK
<1>3. ~Active(j) \/ dir[j] = None
  BY <1>1, <1>2 DEF OfJob, MadeFromCache
<1>4. ASSUME faults = 0, Active(j) PROVE FALSE
  <2>1. PICK q \in Requests : JobOf[q] = j /\ pc[q] = "unrecord"
    BY <1>1, <1>3, <1>4 DEF OfJob, Faultless
  <2> QED BY <1>2, <2>1, Alone DEF Inner, Removal
<1> QED BY <1>3, <1>4

LEMMA OwnReadStill ==
  ASSUME IInv, NEW r \in Requests, Act(r)
  PROVE  ReadStill(r)' /\ (faults' = 0 /\ Ensures(r)' => ~Active(JobOf[r])')
<1> DEFINE j == JobOf[r]
<1>0. TypeOK /\ OfRequest(r) /\ j \in Jobs /\ HeldBy(r) /\ (faults' = 0 => faults = 0)
  BY RequestsAssumption, Effects DEF IInv, Held
<1>1. CASE LoadEnsure(r)
  <2>1. pc'[r] \in {"done", "locks"} /\ dir' = dir /\ record' = record
    BY <1>0, <1>1, Steps DEF LoadEnsure
  <2>2. pc'[r] = "locks" => seen'[r].record = record[j]
    BY <1>0, <1>1 DEF LoadEnsure, TypeOK, End, Goto
  <2> QED BY <1>0, <1>1, <2>1, <2>2, NothingToKeep DEF ReadStill, Ensures, InCache, Making, Active
<1>2. CASE Acquire(r)
  <2>1. seen' = seen /\ dir' = dir /\ record' = record
    BY <1>2 DEF Acquire
  <2>2. /\ pc'[r] \notin Making
        /\ Kind[r] = "ensure" /\ pc'[r] \in InCache \cup {"locks"} => pc[r] = "locks"
    BY <1>2, Acquired DEF InCache, Making
  <2> QED BY <1>0, <2>1, <2>2 DEF OfRequest, ReadStill, Ensures, Active, InCache, Making
<1>3. CASE CheckMirror(r) \/ Publish(r)
  <2>1. dir' = dir /\ record' = record /\ pc[r] \in {"check", "publish"} /\ Ensures(r)
    BY <1>0, <1>3 DEF CheckMirror, Publish, At, Ensures, HeldBy, InCache
  <2>2. seen'[r].record = seen[r].record
    BY <1>0, <1>3 DEF CheckMirror, Publish, TypeOK
  <2>3. pc'[r] \in Making => pc'[r] = "clean" /\ seen'[r].rev = BaseOf(r, upstream)
    BY <1>0, <1>3 DEF CheckMirror, Publish, TypeOK, Goto, End, Making
  <2>4. pc'[r] \notin {"add", "record"}
    BY <1>0, <1>3, Steps
  <2> QED BY <1>0, <2>1, <2>2, <2>3, <2>4, ChosenBase DEF OfRequest, ReadStill, Ensures, Active
<1>4. CASE Quarantine(r)
  <2>1. dir' = dir /\ record' = record /\ seen' = seen /\ pc[r] = "quarantine" /\ Ensures(r) /\ pc'[r] = "publish"
    BY <1>0, <1>4, Steps DEF Quarantine, At, Ensures, HeldBy, InCache
  <2> QED BY <1>0, <2>1 DEF OfRequest, ReadStill, Ensures, Active, Making
<1>5. CASE CleanWorktree(r)
  <2>1. record' = record /\ seen' = seen /\ pc[r] = "clean" /\ Ensures(r) /\ pc'[r] = "add"
    BY <1>0, <1>5, Steps DEF CleanWorktree, At, Ensures, HeldBy, InCache
  <2>2. dir'[j] = None
    BY <1>0, <1>5 DEF CleanWorktree, TypeOK
  <2> QED BY <1>0, <2>1, <2>2 DEF OfRequest, ReadStill, Ensures, Active, Making
<1>6. CASE AddWorktree(r)
  <2>1. record' = record /\ seen' = seen /\ pc[r] = "add" /\ Ensures(r) /\ pc'[r] \in {"record", "refused"}
    BY <1>0, <1>6, Steps DEF AddWorktree, At, Ensures, HeldBy, InCache
  <2>2. pc'[r] = "record" => dir'[j] # None /\ dir'[j].rev = seen[r].rev /\ ~dir'[j].work
    <3>1. pc'[r] = "record" => dir'[j] = [rev |-> seen[r].rev, work |-> FALSE]
      BY <1>0, <1>6 DEF AddWorktree, TypeOK, End, Goto
    <3>2. seen[r].rev \in Heads
      BY <1>0, <2>1, Numbers DEF OfRequest, Cached, Making, Mirror, Revisions, Heads, TypeOK
    <3>3. PICK d \in Trees : d = [rev |-> seen[r].rev, work |-> FALSE] /\ d.rev = seen[r].rev /\ d.work = FALSE
      BY <3>2, TreeParts
    <3> QED BY <1>0, <3>1, <3>3, TreesAreNotNone
  <2>3. Ensures(r)' => pc'[r] = "record"
    BY <2>1 DEF Ensures, InCache
  <2> QED BY <1>0, <2>1, <2>2, <2>3 DEF OfRequest, ReadStill, Ensures, Active, Making
<1>7. CASE ~Ensures(r)' /\ pc'[r] \notin Making
  BY <1>7 DEF ReadStill, Making
<1>8. CASE StartExecution(r)
  BY <1>0, <1>7, <1>8, Steps DEF Ensures, Making
<1> QED BY <1>1, <1>2, <1>3, <1>4, <1>5, <1>6, <1>7, <1>8, Origins DEF Making, Ensures, InCache

LEMMA OwnRemoving ==
  ASSUME IInv, NEW r \in Requests, Act(r)
  PROVE  Removing(r)'
<1>0. TypeOK /\ OfRequest(r) /\ JobOf[r] \in Jobs
  BY RequestsAssumption DEF IInv
<1>1. CASE LoadRemove(r)
  <2>1. record' = record /\ released' = released
    BY <1>1 DEF LoadRemove
  <2>2. pc'[r] # "unrecord" /\ (pc'[r] = "drop" => Active(JobOf[r]) /\ released[JobOf[r]])
    BY <1>0, <1>1 DEF LoadRemove, End, Goto, TypeOK
  <2> QED BY <2>1, <2>2 DEF Removing, Removal, Active
<1>2. CASE DropWorktree(r)
  <2>1. record' = record /\ released' = released /\ dir'[JobOf[r]] = None /\ pc[r] = "drop"
    BY <1>0, <1>2 DEF DropWorktree, At, TypeOK
  <2> QED BY <1>0, <2>1 DEF OfRequest, Removing, Removal, Active
<1>3. CASE pc'[r] \notin Removal
  BY <1>3 DEF Removing, Removal
<1> QED BY <1>1, <1>2, <1>3, Origins DEF Removal

\* What an execution has loaded, claimed and been given the lease for.
LEMMA OwnExecuting ==
  ASSUME IInv, NEW r \in Requests, Act(r)
  PROVE  Executing(r)'
<1> DEFINE j == JobOf[r]
<1>0. TypeOK /\ OfRequest(r) /\ OfJob(j) /\ j \in Jobs /\ HeldBy(r)
  BY RequestsAssumption DEF IInv, Held
<1>1. ~Claim(r) => seen'[r].op = seen[r].op
  BY <1>0, Frame DEF TypeOK, LoadEnsure, CheckMirror, Publish, LoadContext
<1>2. Kind[r] = "execute" /\ ~LoadContext(r) => seen'[r].record = seen[r].record
  BY <1>0, Frame DEF TypeOK, LoadEnsure, CheckMirror, Publish, Claim
<1>3. record[j] # None => record'[j] # None /\ record'[j].base = record[j].base
  BY <1>0, Lasting
<1>4. ASSUME Kind[r] = "execute", pc'[r] \in {"entry", "load", "locks", "restore"}
      PROVE  /\ seen'[r].record # None /\ record'[j] # None
             /\ seen'[r].record.revision \in {record'[j].base, Commit}
  <2>1. CASE LoadContext(r)
    <3>1. seen'[r].record = record[j] /\ record' = record /\ Active(j)
      BY <1>0, <1>4, <2>1 DEF LoadContext, TypeOK, Goto
    <3> QED BY <1>0, <3>1 DEF OfJob, Based, Active
  <2>2. CASE ~LoadContext(r)
    <3>1. pc[r] \in {"entry", "load", "locks"}
      BY <1>0, <1>4, <2>2, Origins, Steps
    <3> QED BY <1>0, <1>2, <1>3, <1>4, <2>2, <3>1 DEF OfRequest, Executing
  <2> QED BY <2>1, <2>2
<1>5. ASSUME Kind[r] = "execute", pc'[r] \in {"locks", "restore"} PROVE seen'[r].op = "plan"
  <2>1. CASE StartExecution(r)
    BY <1>0, <1>5, <2>1 DEF StartExecution, Goto, TypeOK
  <2>2. CASE Acquire(r) /\ pc[r] = "locks"
    BY <1>0, <1>5, <2>2 DEF Acquire, OfRequest, Executing
  <2> QED BY <1>0, <1>5, <2>1, <2>2, Origins, Steps
<1>6. ASSUME seen'[r].op = "later" PROVE job'[j] # "queued"
  <2>1. CASE Claim(r)
    BY <1>0, <1>6, <2>1 DEF Claim, TypeOK
  <2>2. CASE ~Claim(r)
    BY <1>0, <1>1, <1>6, <2>2, Lasting DEF OfRequest, Executing
  <2> QED BY <2>1, <2>2
<1>7. ASSUME pc'[r] = "work", seen'[r].op = "later" PROVE Active(j)'
  <2>1. Provision(r) /\ Owns(r) /\ record' = record /\ seen' = seen
    BY <1>0, <1>7, Origins DEF Provision, End, Goto, TypeOK
  <2> QED BY <1>0, <1>7, <2>1 DEF OfRequest, Leased, Active
<1> QED BY <1>4, <1>5, <1>6, <1>7 DEF Executing

LEMMA OwnLeased ==
  ASSUME IInv, NEW r \in Requests, Act(r)
  PROVE  Leased(r)'
<1> DEFINE j == JobOf[r]
<1>0. TypeOK /\ OfRequest(r) /\ OfJob(j) /\ j \in Jobs /\ HeldBy(r)
  BY RequestsAssumption DEF IInv, Held
<1> SUFFICES ASSUME owner'[j] = r PROVE Leased(r)'
  BY DEF Leased, Owns
<1>1. owner'[j] # None
  BY NoneAssumption
<1>2. CASE Claim(r)
  <2>1. /\ Active(j) /\ record' = record /\ job' = job /\ pc'[r] = "claimed"
        /\ job[j] \in {"queued", "planned", "continued"}
        /\ seen'[r].op = (IF job[j] = "queued" THEN "plan" ELSE "later")
    BY <1>0, <1>2 DEF Claim, Terminal, TypeOK, Goto
  <2> QED BY <2>1 DEF Leased, Active
<1>3. CASE ~Claim(r)
  <2>1. Owns(r) /\ job[j] # "succeeded"
    BY <1>0, <1>3, <1>1, JobSteps DEF Owns, OfRequest, Leased
  <2>2. job'[j] = job[j]
    BY <1>0, <1>1, <2>1, JobSteps
  <2>3. seen'[r].op = seen[r].op
    BY <1>0, <1>3, Frame DEF TypeOK, LoadEnsure, CheckMirror, Publish, LoadContext
  <2>4. Active(j) /\ job[j] \in {"planned", "continued"} => Active(j)'
    BY <1>0, Lasting
  <2>5. pc'[r] \in {"work", "settle"} => ~released'[j]
    <3>1. CASE Provision(r)
      BY <1>0, <2>1, <3>1 DEF Provision, TypeOK
    <3>2. CASE Work(r)
      BY <1>0, <2>1, <3>2 DEF Work, At, OfRequest, Leased
    <3> QED BY <3>1, <3>2, Origins
  <2> QED BY <1>0, <2>1, <2>2, <2>3, <2>4, <2>5 DEF Leased, OfRequest
<1> QED BY <1>2, <1>3

\* All of it.
LEMMA OwnRequest ==
  ASSUME IInv, NEW r \in Requests, Act(r)
  PROVE  OfRequest(r)'
BY OwnCached, OwnReadStill, OwnRemoving, OwnExecuting, OwnLeased DEF OfRequest

-----------------------------------------------------------------------------
(* A step of one request, for its job.                                     *)

LEMMA JobMade ==
  ASSUME IInv, NEW r \in Requests, Act(r), NEW j \in Jobs, j = JobOf[r]
  PROVE  MadeFromCache(j)' /\ Based(j)'
<1>0. TypeOK /\ OfJob(j) /\ OfRequest(r) /\ HeldBy(r)
  BY DEF IInv, Held
<1>1. /\ mirror.state = "valid" => mirror'.state = "valid" /\ mirror.rev <= mirror'.rev
      /\ mirror'.rev \in Nat /\ mirror.rev \in Nat
      /\ record[j] # None => record[j].base \in Nat
      /\ None \notin Records /\ None \notin Trees
  BY <1>0, CacheGrows, Numbers, TreesAreNotNone DEF Next, Act
<1>2. dir'[j] # None => mirror'.state = "valid"
  <2>1. dir'[j] # None => mirror.state = "valid"
    BY <1>0, <1>1, DirSteps DEF OfJob, MadeFromCache, OfRequest, Cached, Making
  <2> QED BY <1>1, <2>1
<1>3. record'[j] # None => mirror'.state = "valid" /\ record'[j].base <= mirror'.rev
  <2>1. CASE record[j] # None
    <3>1. record'[j].base = record[j].base
      BY <2>1, Lasting
    <3> QED BY <1>0, <1>1, <2>1, <3>1 DEF OfJob, MadeFromCache
  <2>2. CASE record[j] = None /\ record'[j] # None
    <3>1. pc[r] = "record" /\ record'[j].base = seen[r].rev
      BY <1>1, <2>2, RowSteps
    <3>2. mirror.state = "valid" /\ seen[r].rev \in 1 .. mirror.rev
      BY <1>0, <3>1 DEF OfRequest, Cached, Making
    <3> QED BY <1>1, <3>1, <3>2
  <2> QED BY <2>1, <2>2
<1>4. record'[j] # None => record'[j].revision \in {record'[j].base, Commit}
  <2>1. CASE record'[j] = record[j]
    BY <1>0, <2>1 DEF OfJob, Based
  <2>2. CASE /\ pc[r] = "record" /\ record'[j].revision = seen[r].rev
             /\ record'[j].base = (IF record[j] = None THEN seen[r].rev ELSE record[j].base)
    BY <1>0, <2>2 DEF OfRequest, ReadStill, Making
  <2>3. CASE /\ Active(j) /\ dir[j] # None /\ record'[j].base = record[j].base
             /\ record'[j].revision = dir[j].rev
    BY <1>0, <2>3 DEF OfJob, Based
  <2>4. CASE /\ record[j] \in Records /\ record'[j].base = record[j].base
             /\ record'[j].revision = record[j].revision
    BY <1>0, <1>1, <2>4 DEF OfJob, Based
  <2> QED BY <2>1, <2>2, <2>3, <2>4, RowSteps
<1>5. Active(j)' /\ dir'[j] # None => dir'[j].rev \in {record'[j].base, Commit}
  <2> SUFFICES ASSUME Active(j)', dir'[j] # None PROVE dir'[j].rev \in {record'[j].base, Commit}
    OBVIOUS
  <2>1. CASE pc[r] = "record"
    <3>1. dir'[j] = dir[j]
      BY <2>1, DirSteps
    <3>2. dir[j].rev = seen[r].rev /\ (record[j] # None => seen[r].rev = record[j].base)
      BY <1>0, <2>1 DEF OfRequest, ReadStill, Making
    <3>3. CASE record'[j] = record[j]
      BY <3>1, <3>2, <3>3 DEF Active
    <3>4. CASE record'[j].base = (IF record[j] = None THEN seen[r].rev ELSE record[j].base)
      BY <3>1, <3>2, <3>4
    <3> QED BY <2>1, <3>3, <3>4, RowSteps
  <2>2. CASE pc[r] # "record"
    <3>1. Active(j) /\ record[j] # None /\ record'[j].base = record[j].base
      BY <2>2, Lasting DEF Active
    <3>2. CASE dir'[j] = dir[j]
      BY <1>0, <3>1, <3>2 DEF OfJob, Based
    <3>3. CASE pc[r] = "add" /\ dir'[j].rev = seen[r].rev
      BY <1>0, <3>1, <3>3 DEF OfRequest, ReadStill, Making
    <3>4. CASE pc[r] = "restore" /\ dir'[j].rev = seen[r].record.revision
      BY <1>0, <3>1, <3>4 DEF OfRequest, Executing, HeldBy
    <3>5. CASE dir[j] \in Trees /\ dir'[j].rev \in {dir[j].rev, Commit}
      BY <1>0, <1>1, <3>1, <3>5 DEF OfJob, Based
    <3> QED BY <3>2, <3>3, <3>4, <3>5, DirSteps
  <2> QED BY <2>1, <2>2
<1> QED BY <1>2, <1>3, <1>4, <1>5 DEF MadeFromCache, Based

LEMMA JobRunning ==
  ASSUME IInv, NEW r \in Requests, Act(r), NEW j \in Jobs, j = JobOf[r]
  PROVE  Running(j)'
<1>0. OfJob(j) /\ OfRequest(r) /\ TypeOK
  BY DEF IInv
<1>1. CASE job'[j] = job[j]
  <2>1. released'[j] = released[j] \/ ~released'[j]
    BY JobSteps
  <2>2. job[j] = "continued" => Active(j)'
    BY <1>0, Lasting DEF OfJob, Running
  <2> QED BY <1>0, <1>1, <2>1, <2>2 DEF OfJob, Running
<1>2. CASE pc[r] = "load" /\ Active(j) /\ ~released'[j]
  BY <1>2, Lasting DEF Running, Removal
<1>3. CASE Owns(r) /\ pc[r] = "settle" /\ job'[j] = (IF job[j] = "queued" THEN "planned" ELSE "succeeded")
  <2>1. ~released[j]
    BY <1>0, <1>3 DEF OfRequest, Leased
  <2>2. ~released'[j]
    BY <2>1, JobSteps
  <2> QED BY <1>3, <2>2 DEF Running
<1>4. CASE job'[j] = "failed"
  BY <1>4 DEF Running
<1> QED BY <1>1, <1>2, <1>3, <1>4, JobSteps

LEMMA JobResulting ==
  ASSUME IInv, NEW r \in Requests, Act(r), NEW j \in Jobs, j = JobOf[r]
  PROVE  Resulting(j)'
<1>0. OfJob(j) /\ OfRequest(r) /\ TypeOK /\ None \notin Trees
  BY TreesAreNotNone DEF IInv
<1> SUFFICES ASSUME dir'[j] # None, dir'[j].work PROVE Active(j)' /\ job'[j] # "queued"
  BY DEF Resulting
<1>1. CASE dir'[j] = dir[j]
  <2>1. Active(j) /\ job[j] # "queued" /\ pc[r] # "unrecord"
    BY <1>0, <1>1 DEF OfJob, Resulting, OfRequest, Removing
  <2>2. CASE pc[r] = "drop"
    BY <1>0, <2>1, <2>2, RowSteps, JobSteps DEF Active
  <2> QED BY <2>1, <2>2, Lasting DEF Removal
<1>2. CASE pc[r] = "work" /\ dir[j] \in Trees /\ (dir'[j].work => dir[j].work \/ seen[r].op = "later")
  <2>1. Active(j) /\ job[j] # "queued"
    BY <1>0, <1>2 DEF OfJob, Resulting, OfRequest, Executing
  <2> QED BY <1>2, <2>1, Lasting DEF Removal
<1> QED BY <1>1, <1>2, DirSteps

LEMMA JobFaultless ==
  ASSUME IInv, NEW r \in Requests, Act(r), NEW j \in Jobs, j = JobOf[r], faults' = 0
  PROVE  Faultless(j)'
<1>0. OfJob(j) /\ OfRequest(r) /\ HeldBy(r) /\ TypeOK /\ None \notin Trees /\ faults = 0
  BY TreesAreNotNone, Effects DEF IInv, Held
<1> SUFFICES ASSUME Active(j)', dir'[j] = None
             PROVE  \E q \in Requests : JobOf[q] = j /\ pc'[q] = "unrecord"
  BY DEF Faultless
<1>1. CASE pc[r] = "drop"
  <2>1. pc'[r] = "unrecord"
    BY <1>0, <1>1, Steps, Acquired, Numbers DEF Act, Step, CallFails
  <2> QED BY <2>1
<1>2. CASE pc[r] = "clean"
  <2>1. ~Active(j)
    BY <1>0, <1>2 DEF OfRequest, Ensures, HeldBy, InCache
  <2> QED BY <1>2, <2>1, Lasting
<1>3. CASE dir[j] = None /\ Active(j)
  <2>1. PICK q \in Requests : JobOf[q] = j /\ pc[q] = "unrecord"
    BY <1>0, <1>3 DEF OfJob, Faultless
  <2>2. CASE q # r
    BY <2>1, <2>2, Effects
  <2>3. CASE q = r
    <3>1. MarkRemoved(r)
      BY <1>0, <2>1, <2>3, Steps, Acquired, Numbers DEF Act, Step, CallFails
    <3> QED BY <1>0, <3>1 DEF MarkRemoved, Active, TypeOK, Records
  <2> QED BY <2>2, <2>3
<1>4. CASE dir[j] = None /\ ~Active(j)
  <2>1. pc[r] = "record"
    BY <1>4, Lasting
  <2> QED BY <1>0, <1>4, <2>1 DEF OfRequest, ReadStill
<1>5. dir[j] = None \/ pc[r] \in {"clean", "drop"}
  BY <1>0, DirSteps
<1> QED BY <1>1, <1>2, <1>3, <1>4, <1>5

\* All of it.
LEMMA OwnJob ==
  ASSUME IInv, NEW r \in Requests, Act(r), NEW j \in Jobs, j = JobOf[r]
  PROVE  OfJob(j)'
BY JobMade, JobRunning, JobResulting, JobFaultless DEF OfJob

-----------------------------------------------------------------------------
(* What happens beside the requests.                                       *)

\* A process that dies leaves worktrees, rows and cache as they are; so do the
\* branch, the reconciler and a lease that runs out.
LEMMA OtherKeeps ==
  ASSUME IInv, Other
  PROVE  (\A r \in Requests : OfRequest(r)') /\ (\A j \in Jobs : OfJob(j)')
<1>0. TypeOK /\ faults \in Nat
  BY Numbers DEF IInv
<1>1. /\ dir' = dir /\ record' = record /\ job' = job /\ mirror' = mirror /\ seen' = seen
      /\ \A r \in Requests : pc'[r] = pc[r] \/ (pc'[r] = "dead" /\ faults' # 0)
      /\ faults' = 0 => faults = 0
  BY <1>0 DEF Other, BranchMoves, LeaseExpires, ReleaseEnvironment, Crash
<1>2. \A j \in Jobs : owner'[j] = owner[j] \/ owner'[j] = None
  BY <1>0 DEF Other, BranchMoves, LeaseExpires, ReleaseEnvironment, Crash, TypeOK
<1>3. \A j \in Jobs : released'[j] = released[j] \/ (job[j] \in Terminal /\ released'[j])
  BY <1>0 DEF Other, BranchMoves, LeaseExpires, ReleaseEnvironment, Crash, TypeOK
<1>4. ASSUME NEW r \in Requests PROVE OfRequest(r)'
  <2>1. OfRequest(r) /\ JobOf[r] \in Jobs
    BY RequestsAssumption DEF IInv
  <2>2. Cached(r)'
    BY <1>1, <2>1 DEF OfRequest, Cached, Making
  <2>3. ReadStill(r)' /\ (faults' = 0 /\ Ensures(r)' => ~Active(JobOf[r])')
    BY <1>1, <2>1 DEF OfRequest, ReadStill, Ensures, Active, Making, InCache
  <2>4. Removing(r)'
    BY <1>1, <1>3, <2>1 DEF OfRequest, Removing, Active, Removal
  <2>5. Executing(r)'
    BY <1>1, <2>1 DEF OfRequest, Executing, Active
  <2>6. Leased(r)'
    <3> SUFFICES ASSUME owner'[JobOf[r]] = r PROVE Leased(r)'
      BY DEF Leased, Owns
    <3>1. Owns(r)
      BY <1>2, <2>1, NoneAssumption DEF Owns
    <3> QED BY <1>1, <1>3, <2>1, <3>1 DEF OfRequest, Leased, Active, Terminal
  <2> QED BY <2>2, <2>3, <2>4, <2>5, <2>6 DEF OfRequest
<1>5. ASSUME NEW j \in Jobs PROVE OfJob(j)'
  <2>1. OfJob(j)
    BY DEF IInv
  <2>2. MadeFromCache(j)' /\ Resulting(j)' /\ Based(j)'
    BY <1>1, <2>1 DEF OfJob, MadeFromCache, Resulting, Based, Active
  <2>3. Running(j)'
    BY <1>1, <1>3, <2>1 DEF OfJob, Running, Active, Terminal
  <2>4. faults' = 0 => Faultless(j)'
    BY <1>1, <2>1 DEF OfJob, Faultless, Active
  <2> QED BY <2>2, <2>3, <2>4 DEF OfJob
<1> QED BY <1>4, <1>5

-----------------------------------------------------------------------------
(* The theorems.                                                           *)

\* Nothing has arrived, and there is nothing yet.
LEMMA InitInv == Init => IInv
<1> SUFFICES ASSUME Init PROVE IInv
  OBVIOUS
<1>0. MaxRevision \in Nat \ {0} /\ MaxFaults \in Nat
  BY RequestsAssumption DEF Init, MaxRevision, MaxFaults
<1>1. TypeOK
  BY <1>0 DEF Init, TypeOK, Revisions, Mirror
<1>2. Held /\ Exclusive
  BY DEF Init, Held, HeldBy, Exclusive, Outside, InCache, Removal
<1>3. mirror.rev <= upstream
  BY DEF Init
<1>4. ASSUME NEW r \in Requests PROVE OfRequest(r)
  <2>1. ~Owns(r)
    BY RequestsAssumption, NoneAssumption DEF Init, Owns
  <2> QED BY <2>1 DEF Init, OfRequest, Cached, ReadStill, Removing, Executing, Leased, Ensures, Making, InCache,
         Removal
<1>5. ASSUME NEW j \in Jobs PROVE OfJob(j)
  BY DEF Init, OfJob, MadeFromCache, Running, Resulting, Based, Faultless, Active
<1> QED BY <1>1, <1>2, <1>3, <1>4, <1>5 DEF IInv

\* The inductive invariant holds throughout.
THEOREM Invariant == Spec => []IInv
<1>1. ASSUME IInv, Next PROVE IInv'
  <2>1. TypeOK' /\ Held' /\ Exclusive' /\ (mirror.rev <= upstream)'
    BY <1>1, NextTyped, NextHeld, NextExclusive, CacheGrows
  <2>2. (\A r \in Requests : OfRequest(r)') /\ (\A j \in Jobs : OfJob(j)')
    <3>1. ASSUME NEW r \in Requests, Act(r)
          PROVE  (\A q \in Requests : OfRequest(q)') /\ (\A j \in Jobs : OfJob(j)')
      BY <1>1, <3>1, OwnRequest, OtherRequests, OwnJob, OtherJobs
    <3> QED BY <1>1, <3>1, OtherKeeps DEF Next, Act, Other
  <2> QED BY <2>1, <2>2 DEF IInv
<1>2. ASSUME IInv, UNCHANGED vars PROVE IInv'
  BY <1>2 DEF IInv, vars, TypeOK, Held, HeldBy, Exclusive, OfRequest, OfJob, Cached, ReadStill,
     Removing, Executing, Leased, Owns, Ensures, MadeFromCache, Running, Resulting, Based, Faultless, Active,
     DaemonOf, MaxRevision, MaxFaults, Revisions, Heads, Records, Mirror
<1> QED BY InitInv, <1>1, <1>2, PTL DEF Spec

\* Inside the gate of its process a request finds a second connection: the
\* others hold one each, and none of them two.
LEMMA Headroom == IInv => HeadroomSuffices
<1> SUFFICES ASSUME IInv, NEW r \in Requests, At(r, "locks"), "conn2" \notin held[r], Kind[r] = "ensure",
                    Cardinality({q \in Requests : DaemonOf[q] = DaemonOf[r] /\ InProgress(q)}) < Connections[DaemonOf[r]]
             PROVE  Available(r, "conn2")
  BY DEF HeadroomSuffices
<1> DEFINE d == DaemonOf[r]
           busy == {q \in Requests : DaemonOf[q] = d /\ InProgress(q)}
           one == {q \in Holders("conn") : DaemonOf[q] = d}
           two == {q \in Holders("conn2") : DaemonOf[q] = d}
<1>1. Held /\ Exclusive /\ TypeOK
  BY DEF IInv
<1>2. two = {}
  <2> SUFFICES ASSUME NEW q \in two PROVE FALSE
    OBVIOUS
  <2>1. HeldBy(q) /\ HeldBy(r) /\ q \in Requests /\ "conn2" \in held[q] /\ DaemonOf[q] = d
    BY <1>1 DEF Held, Holders
  <2>2. "gate" \in held[q]
    BY <1>1, <2>1 DEF HeldBy, Base, More, TypeOK, Outside, Ended, InCache, Removal, GitSteps
  <2>3. "gate" \in held[r]
    BY <2>1 DEF HeldBy, Base, At
  <2> QED BY <1>1, <2>1, <2>2, <2>3 DEF Exclusive
<1>3. one \subseteq busy /\ IsFiniteSet(busy)
  <2>1. busy \subseteq Requests
    OBVIOUS
  <2>2. IsFiniteSet(busy)
    BY <2>1, RequestsAssumption, FS_Subset
  <2> QED BY <1>1, <2>2 DEF Held, HeldBy, Holders, InProgress, Outside
<1>4. Cardinality(one) <= Cardinality(busy) /\ Cardinality(two) = 0 /\ Cardinality(one) \in Nat
  <2>1. IsFiniteSet(one) /\ Cardinality(one) <= Cardinality(busy)
    BY <1>3, FS_Subset
  <2>2. Cardinality(one) \in Nat
    BY <2>1, FS_CardinalityType
  <2>3. Cardinality(two) = 0
    BY <1>2, FS_EmptySet
  <2> QED BY <2>1, <2>2, <2>3
<1>5. Cardinality(busy) \in Nat /\ Connections[d] \in Nat
  <2>1. d \in Daemons
    BY <1>1, RequestsAssumption DEF TypeOK, DaemonOf
  <2> QED BY <1>3, <2>1, FS_CardinalityType, RequestsAssumption
<1>6. Used(d) < Connections[d]
  <2>1. Used(d) = Cardinality(one) + Cardinality(two)
    BY DEF Used
  <2> HIDE DEF one, two, busy, d
  <2>2. Cardinality(busy) < Connections[d]
    BY DEF busy, d
  <2> QED BY <1>4, <1>5, <2>1, <2>2
<1> QED BY <1>6 DEF Available

\* Whatever requests meet at a worktree, and wherever one of them dies or loses
\* its lease, the worktree is at the base that its row has recorded, or at a
\* commit of the agent; without faults a continuation has its worktree; the gate
\* leaves a connection for whoever is inside (ensure, remove, restore and
\* continue_job under the locks of workspace_locks.rs).
THEOREM RequestsAgree == Spec => []RequestInv
<1>1. IInv => RequestInv
  <2> SUFFICES ASSUME IInv PROVE RequestInv
    OBVIOUS
  <2>1. RebuiltAtBase
    BY DEF IInv, OfJob, Based, RebuiltAtBase
  <2>2. ContinuationHasWorktree
    <3> SUFFICES ASSUME faults = 0, NEW j \in Jobs, job[j] = "continued" PROVE Active(j) /\ dir[j] # None
      BY DEF ContinuationHasWorktree
    <3>1. OfJob(j) /\ Active(j) /\ ~released[j]
      BY DEF IInv, OfJob, Running
    <3>2. ~\E r \in Requests : JobOf[r] = j /\ pc[r] = "unrecord"
      BY <3>1 DEF IInv, OfRequest, Removing, Removal
    <3> QED BY <3>1, <3>2 DEF OfJob, Faultless
  <2> QED BY <2>1, <2>2, Headroom DEF IInv, RequestInv
<1> QED BY Invariant, <1>1, PTL

\* No request, of whatever process, moves a published cache away: the decision
\* to replace it and the replacement are under the lock of the repository
\* (ensure_mirror).
THEOREM CachesAreKept == Spec => PublishedCacheKept
<1>1. IInv /\ [Next]_vars => [mirror.state = "valid" => mirror'.state = "valid"]_vars
  BY CacheGrows DEF vars
<1> QED BY Invariant, <1>1, PTL DEF Spec, PublishedCacheKept

\* A result is destroyed by the removal of its worktree, or by the unfenced
\* reset of a Plan that has lost its lease while it waited for the locks
\* (prepare_plan_workspace); the execution that has the lease destroys none, nor
\* does a repeated ensure.
THEOREM ResultsAreKept == Spec => ResultKept
<1> DEFINE Kept == \A j \in Jobs :
               dir[j] # None /\ dir[j].work /\ (dir'[j] = None \/ ~dir'[j].work) =>
                   \E r \in Requests :
                       /\ JobOf[r] = j
                       /\ \/ Kind[r] = "remove" /\ At(r, "drop")
                          \/ seen[r].op = "plan" /\ At(r, "restore") /\ ~Owns(r)
<1>1. ASSUME IInv, Next PROVE Kept
  <2>1. ASSUME NEW r \in Requests, Act(r), NEW j \in Jobs,
               dir[j] # None, dir[j].work, dir'[j] = None \/ ~dir'[j].work
        PROVE  /\ JobOf[r] = j
               /\ \/ Kind[r] = "remove" /\ At(r, "drop")
                  \/ seen[r].op = "plan" /\ At(r, "restore") /\ ~Owns(r)
    <3>0. OfRequest(r) /\ OfJob(j) /\ HeldBy(r) /\ None \notin Trees
      BY <1>1, TreesAreNotNone DEF IInv, Held
    <3>1. JobOf[r] = j
      BY <1>1, <2>1, Effects
    <3>2. Active(j) /\ job[j] # "queued"
      BY <2>1, <3>0 DEF OfJob, Resulting
    <3>3. CASE pc[r] = "clean"
      BY <2>1, <3>0, <3>1, <3>2, <3>3 DEF OfRequest, ReadStill, Ensures, HeldBy, InCache
    <3>4. CASE pc[r] = "add"
      BY <2>1, <3>0, <3>1, <3>4 DEF OfRequest, ReadStill
    <3>5. CASE pc[r] = "drop"
      BY <3>0, <3>1, <3>5 DEF At, HeldBy, Removal
    <3>6. CASE pc[r] = "restore"
      <4>1. seen[r].op = "plan"
        BY <3>0, <3>6 DEF HeldBy, OfRequest, Executing
      <4>2. ~Owns(r)
        BY <3>0, <3>1, <3>2, <4>1 DEF OfRequest, Leased
      <4> QED BY <3>1, <3>6, <4>1, <4>2 DEF At
    <3> QED BY <1>1, <2>1, <3>0, <3>1, <3>3, <3>4, <3>5, <3>6, DirSteps
  <2>2. ASSUME Other PROVE dir' = dir
    BY <2>2 DEF Other, BranchMoves, LeaseExpires, ReleaseEnvironment, Crash
  <2> QED BY <1>1, <2>1, <2>2 DEF Next, Act, Other
<1>2. IInv /\ [Next]_vars => [Kept]_vars
  BY <1>1
<1> QED BY Invariant, <1>2, PTL DEF Spec, ResultKept

=============================================================================
