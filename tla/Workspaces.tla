----------------------------- MODULE Workspaces -----------------------------
(***************************************************************************)
(* The managed worktrees of the jobs of one repository (workspace.rs), the *)
(* bare Git cache they share, and the locks that the requests for them     *)
(* take: connections of the bounded lock pool of a process, the advisory   *)
(* lock of a job, the mutation gate of a process and the advisory lock of  *)
(* the repository (store.rs, store/workspace_locks.rs).                    *)
(*                                                                         *)
(* - A request is one call of ensure, remove, refresh_revision,            *)
(*   export_result or continue_job, or one attempt of a worker at the      *)
(*   operation of the job that is next: its Plan, which restores the       *)
(*   worktree, or what comes later, which stands for all the rest.         *)
(* - An attempt is made under a lease that may be lost at any time, also   *)
(*   while the worker waits for the locks.                                 *)
(* - Revisions are numbers; the upstream branch only moves forward, and a  *)
(*   cache that was fetched holds everything up to its revision.  A commit *)
(*   that an agent makes in the worktree is 0: it is in the cache as long  *)
(*   as the cache is there.                                                *)
(* - All jobs name one repository identity with one locator.               *)
(* - A behaviour is one workload's: the requests that arrive and the       *)
(*   processes they arrive at.                                             *)
(***************************************************************************)
EXTENDS Integers, Sequences, FiniteSets, FiniteSetsExt

CONSTANTS
    Requests, Jobs, Daemons,    \* daemons are processes: factoryd or workers
    Kind, JobOf,                \* what each request is
    Workloads,                  \* arriving: the requests that arrive
                                \* daemonOf: the process each request arrives at
                                \* maxRevision, maxFaults: bounds
    Connections,                \* size of the lock pool of a daemon
    None

ASSUME RequestsAssumption ==
    /\ IsFiniteSet(Requests)
    /\ Kind \in [Requests -> {"ensure", "remove", "refresh", "export", "continue", "execute"}]
    /\ JobOf \in [Requests -> Jobs]
    /\ Connections \in [Daemons -> Nat \ {0}]
    /\ \A w \in Workloads :
          /\ w.arriving \subseteq Requests /\ w.daemonOf \in [Requests -> Daemons]
          /\ w.maxRevision \in Nat \ {0} /\ w.maxFaults \in Nat

\* The marker for a worktree, a row or an owner that is not there.
ASSUME NoneAssumption ==
    /\ None \notin [state: {"active", "removed"}, base: Nat, revision: Nat]
    /\ None \notin [rev: Nat, work: BOOLEAN]
    /\ None \notin Requests

VARIABLES
    workload,   \* the requests of this behaviour
    pc,         \* where each request is
    held,       \* the locks and connections it holds
    seen,       \* what it has read: the binding, a revision and the operation
    record,     \* the rows of factory_workspaces
    dir,        \* the worktree directories
    mirror,     \* the bare cache at its published path
    upstream,   \* head of the base branch
    job,        \* state of the jobs: what is next, or how they ended
    owner,      \* the execution whose lease is current
    released,   \* is the environment of the job absent or released?
    faults

vars == <<workload, pc, held, seen, record, dir, mirror, upstream, job, owner, released, faults>>

DaemonOf == workload.daemonOf
MaxRevision == workload.maxRevision
MaxFaults == workload.maxFaults

Revisions == 1 .. MaxRevision
Commit == 0
Heads == Revisions \cup {Commit}
Records == [state: {"active", "removed"}, base: Revisions, revision: Heads]
Operations == {"plan", "later"}
Mirror == [state: {"none", "invalid", "valid"}, rev: 0 .. MaxRevision]
Resources == {"conn", "job", "gate", "conn2", "repo"}
GitSteps == {"check", "quarantine", "publish", "clean", "add", "drop", "restore"}
Ended == {"done", "refused", "dead"}
Terminal == {"succeeded", "failed"}

TypeOK ==
    /\ workload \in Workloads
    /\ pc \in [Requests -> GitSteps \cup Ended \cup
                           {"new", "claimed", "entry", "load", "locks", "record", "unrecord",
                            "provision", "work", "settle"}]
    /\ held \in [Requests -> SUBSET Resources]
    /\ seen \in [Requests -> [record: Records \cup {None}, rev: 0 .. MaxRevision,
                              op: Operations \cup {"none"}]]
    /\ record \in [Jobs -> Records \cup {None}]
    /\ dir \in [Jobs -> [rev: Heads, work: BOOLEAN] \cup {None}]
    /\ mirror \in Mirror
    /\ upstream \in Revisions
    /\ job \in [Jobs -> {"queued", "planned", "continued"} \cup Terminal]
    /\ owner \in [Jobs -> Requests \cup {None}]
    /\ released \in [Jobs -> BOOLEAN]
    /\ faults \in 0 .. MaxFaults

\* A cache may be left over from an earlier, interrupted version of Factory.
Init ==
    /\ workload \in Workloads
    /\ pc = [r \in Requests |-> "new"]
    /\ held = [r \in Requests |-> {}]
    /\ seen = [r \in Requests |-> [record |-> None, rev |-> 0, op |-> "none"]]
    /\ record = [j \in Jobs |-> None]
    /\ dir = [j \in Jobs |-> None]
    /\ mirror \in [state: {"none", "invalid"}, rev: {0}]
    /\ upstream = 1
    /\ job = [j \in Jobs |-> "queued"]
    /\ owner = [j \in Jobs |-> None]
    /\ released = [j \in Jobs |-> TRUE]
    /\ faults = 0

-----------------------------------------------------------------------------

At(r, p) == pc[r] = p
Goto(r, p) == pc' = [pc EXCEPT ![r] = p]
Active(j) == record[j] # None /\ record[j].state = "active"
InProgress(r) == pc[r] \notin Ended \cup {"new"}

\* Does the execution pass the fence of the store?
Owns(r) == owner[JobOf[r]] = r

\* The guards are dropped when the call returns.
End(r, outcome) == Goto(r, outcome) /\ held' = [held EXCEPT ![r] = {}]

Holders(resource) == {r \in Requests : resource \in held[r]}

\* Connections of the lock pool of a process that are in use.
Used(d) ==
    Cardinality({r \in Holders("conn") : DaemonOf[r] = d})
        + Cardinality({r \in Holders("conn2") : DaemonOf[r] = d})

Available(r, resource) ==
    CASE resource \in {"conn", "conn2"} -> Used(DaemonOf[r]) < Connections[DaemonOf[r]]
      [] resource = "job" -> \A q \in Holders("job") : JobOf[q] # JobOf[r]
      [] resource = "gate" -> \A q \in Holders("gate") : DaemonOf[q] # DaemonOf[r]
      [] resource = "repo" -> Holders("repo") = {}

\* Mutant: the gate of the process is entered before the job is locked.
EntryGateFirst(kind) ==
    IF kind \in {"ensure", "refresh", "export"} THEN <<"conn", "job", "gate">>
    ELSE IF kind = "remove" THEN <<"conn", "gate", "job">>
    ELSE <<"conn", "job">>

\* Mutant: a continuation is a transaction of its own, without the lock.
EntryUnlockedContinuation(kind) ==
    CASE kind \in {"ensure", "remove", "refresh", "export"} -> <<"conn", "job", "gate">>
      [] kind = "continue" -> <<"conn">>
      [] OTHER -> <<"conn", "job">>

\* What a call acquires at its beginning, in this order.
Entry(kind) ==
    IF kind \in {"ensure", "remove", "refresh", "export"} THEN <<"conn", "job", "gate">>
    ELSE <<"conn", "job">>

\* Mutant: the cache is only protected by the gate of the process.
FurtherUnshared(kind) == IF kind = "ensure" THEN <<"conn2">> ELSE <<"gate">>

\* What it acquires once it knows that it has to change something.
Further(kind) == IF kind = "ensure" THEN <<"conn2", "repo">> ELSE <<"gate">>

\* What the request still lacks of the step it is at, and what comes next.
Order(r) == IF At(r, "entry") THEN Entry(Kind[r]) ELSE Further(Kind[r])
Missing(r) == {i \in DOMAIN Order(r) : Order(r)[i] \notin held[r]}
Wanted(r) == Order(r)[Min(Missing(r))]

Waiting(r) == pc[r] \in {"entry", "locks"}

-----------------------------------------------------------------------------
(* Locks.                                                                  *)

\* A client's request arrives.
Arrive(r) ==
    /\ At(r, "new") /\ r \in workload.arriving /\ Kind[r] # "execute"
    /\ Goto(r, "entry")
    /\ UNCHANGED <<workload, held, seen, record, dir, mirror, upstream, job, owner, released, faults>>

Acquire(r) ==
    /\ Waiting(r)
    /\ Available(r, Wanted(r))
    /\ held' = [held EXCEPT ![r] = @ \cup {Wanted(r)}]
    /\ Goto(r, IF Missing(r) # {Min(Missing(r))} THEN pc[r]
               ELSE IF At(r, "entry") THEN "load"
               ELSE IF Kind[r] = "ensure" THEN "check" ELSE "restore")
    /\ UNCHANGED <<workload, seen, record, dir, mirror, upstream, job, owner, released, faults>>

\* pool.acquire gives up after its timeout; the locks themselves never do.
PoolTimesOut(r) ==
    /\ Waiting(r)
    /\ Wanted(r) \in {"conn", "conn2"}
    /\ ~Available(r, Wanted(r))
    /\ End(r, "refused")
    /\ UNCHANGED <<workload, seen, record, dir, mirror, upstream, job, owner, released, faults>>

-----------------------------------------------------------------------------
(* ensure                                                                  *)

\* The binding is loaded under the locks; a worktree that is active and linked
\* to the cache is left alone.
LoadEnsure(r) ==
    /\ At(r, "load") /\ Kind[r] = "ensure"
    /\ IF Active(JobOf[r]) /\ dir[JobOf[r]] # None /\ mirror.state = "valid"
       THEN End(r, "done") /\ UNCHANGED seen
       ELSE Goto(r, "locks") /\ seen' = [seen EXCEPT ![r].record = record[JobOf[r]]]
                             /\ UNCHANGED held
    /\ UNCHANGED <<workload, record, dir, mirror, upstream, job, owner, released, faults>>

\* The revision of the worktree: the recorded one, or the head of the branch.
BaseOf(r, fetched) ==
    IF seen[r].record = None THEN fetched ELSE seen[r].record.base

\* ensure_mirror: a cache that matches the repository is refreshed.
CheckMirror(r) ==
    /\ At(r, "check")
    /\ IF mirror.state = "valid"
       THEN /\ mirror' = [mirror EXCEPT !.rev = upstream]
            /\ seen' = [seen EXCEPT ![r].rev = BaseOf(r, upstream)]
            /\ Goto(r, "clean")
       ELSE /\ Goto(r, IF mirror.state = "none" THEN "publish" ELSE "quarantine")
            /\ UNCHANGED <<mirror, seen>>
    /\ UNCHANGED <<workload, held, record, dir, upstream, job, owner, released, faults>>

\* Whatever is at the path of the cache by now is moved away.
Quarantine(r) ==
    /\ At(r, "quarantine")
    /\ mirror' = [state |-> "none", rev |-> 0]
    /\ Goto(r, "publish")
    /\ UNCHANGED <<workload, held, seen, record, dir, upstream, job, owner, released, faults>>

\* A complete cache is made under a partial name and renamed; a directory that
\* somebody else has published makes the renaming fail.
Publish(r) ==
    /\ At(r, "publish")
    /\ IF mirror.state = "none"
       THEN /\ mirror' = [state |-> "valid", rev |-> upstream]
            /\ seen' = [seen EXCEPT ![r].rev = BaseOf(r, upstream)]
            /\ Goto(r, "clean") /\ UNCHANGED held
       ELSE End(r, "refused") /\ UNCHANGED <<mirror, seen>>
    /\ UNCHANGED <<workload, record, dir, upstream, job, owner, released, faults>>

\* worktree prune and remove
CleanWorktree(r) ==
    /\ At(r, "clean")
    /\ dir' = [dir EXCEPT ![JobOf[r]] = None]
    /\ Goto(r, "add")
    /\ UNCHANGED <<workload, held, seen, record, mirror, upstream, job, owner, released, faults>>

\* ensure_mirror_has_revision and worktree add
AddWorktree(r) ==
    /\ At(r, "add")
    /\ IF mirror.state = "valid" /\ seen[r].rev <= mirror.rev
       THEN /\ dir' = [dir EXCEPT ![JobOf[r]] = [rev |-> seen[r].rev, work |-> FALSE]]
            /\ Goto(r, "record") /\ UNCHANGED held
       ELSE End(r, "refused") /\ UNCHANGED dir
    /\ UNCHANGED <<workload, seen, record, mirror, upstream, job, owner, released, faults>>

\* put_workspace: the base of a row that exists is not updated.
PutWorkspace(r) ==
    LET j == JobOf[r]
    IN  /\ At(r, "record")
        /\ record' = [record EXCEPT ![j] =
               [state |-> "active", base |-> IF @ = None THEN dir[j].rev ELSE @.base,
                revision |-> dir[j].rev]]
        /\ End(r, "done")
        /\ UNCHANGED <<workload, seen, dir, mirror, upstream, job, owner, released, faults>>

-----------------------------------------------------------------------------
(* remove, refresh_revision, export_result, continue_job                   *)

LoadRemove(r) ==
    /\ At(r, "load") /\ Kind[r] = "remove"
    /\ IF Active(JobOf[r]) /\ released[JobOf[r]]
       THEN Goto(r, "drop") /\ UNCHANGED held
       ELSE End(r, IF record[JobOf[r]] = None \/ Active(JobOf[r]) THEN "refused" ELSE "done")
    /\ UNCHANGED <<workload, seen, record, dir, mirror, upstream, job, owner, released, faults>>

DropWorktree(r) ==
    /\ At(r, "drop")
    /\ dir' = [dir EXCEPT ![JobOf[r]] = None]
    /\ Goto(r, "unrecord")
    /\ UNCHANGED <<workload, held, seen, record, mirror, upstream, job, owner, released, faults>>

MarkRemoved(r) ==
    /\ At(r, "unrecord")
    /\ record' = [record EXCEPT ![JobOf[r]].state = "removed"]
    /\ End(r, "done")
    /\ UNCHANGED <<workload, seen, dir, mirror, upstream, job, owner, released, faults>>

\* refresh_revision: the row follows the head of the worktree.
Refresh(r) ==
    LET j == JobOf[r]
    IN  /\ At(r, "load") /\ Kind[r] = "refresh"
        /\ IF Active(j) /\ dir[j] # None
           THEN End(r, "done") /\ record' = [record EXCEPT ![j].revision = dir[j].rev]
           ELSE End(r, "refused") /\ UNCHANGED record
        /\ UNCHANGED <<workload, seen, dir, mirror, upstream, job, owner, released, faults>>

\* export_result reads the worktree of a job that has succeeded.
Export(r) ==
    LET j == JobOf[r]
    IN  /\ At(r, "load") /\ Kind[r] = "export"
        /\ End(r, IF job[j] = "succeeded" /\ Active(j) /\ dir[j] # None THEN "done" ELSE "refused")
        /\ UNCHANGED <<workload, seen, record, dir, mirror, upstream, job, owner, released, faults>>

\* One transaction: the row of the worktree is read in it, the directory is not
\* looked at.  The environment row is reactivated.
Continue(r) ==
    LET j == JobOf[r]
    IN  /\ At(r, "load") /\ Kind[r] = "continue"
        /\ IF job[j] = "succeeded" /\ Active(j) /\ released[j]
           THEN /\ job' = [job EXCEPT ![j] = "continued"]
                /\ released' = [released EXCEPT ![j] = FALSE]
                /\ End(r, "done")
           ELSE End(r, "refused") /\ UNCHANGED <<job, released>>
        /\ UNCHANGED <<workload, seen, record, dir, mirror, upstream, owner, faults>>

-----------------------------------------------------------------------------
(* Execution of an operation by a worker.                                  *)

\* The operation that is next is claimed: nobody has its lease, and the row of
\* the worktree is active.
Claim(r) ==
    LET j == JobOf[r]
    IN  /\ At(r, "new") /\ r \in workload.arriving /\ Kind[r] = "execute"
        /\ job[j] \notin Terminal /\ Active(j) /\ owner[j] = None
        /\ owner' = [owner EXCEPT ![j] = r]
        /\ seen' = [seen EXCEPT ![r].op = IF job[j] = "queued" THEN "plan" ELSE "later"]
        /\ Goto(r, "claimed")
        /\ UNCHANGED <<workload, held, record, dir, mirror, upstream, job, released, faults>>

\* A lease runs out, or the attempt that has it is given back.
LeaseExpires(j) ==
    /\ owner[j] # None
    /\ owner' = [owner EXCEPT ![j] = None]
    /\ UNCHANGED <<workload, pc, held, seen, record, dir, mirror, upstream, job, released, faults>>

\* The runner renews the lease and loads the row, before it waits for a lock.
LoadContext(r) ==
    LET j == JobOf[r]
    IN  /\ At(r, "claimed")
        /\ IF Owns(r) /\ Active(j)
           THEN Goto(r, "entry") /\ seen' = [seen EXCEPT ![r].record = record[j]]
           ELSE Goto(r, "refused") /\ UNCHANGED seen
        /\ UNCHANGED <<workload, held, record, dir, mirror, upstream, job, owner, released, faults>>

\* Mutant: every operation begins with a clean worktree.
StartExecutionClean(r) ==
    /\ At(r, "load") /\ Kind[r] = "execute"
    /\ Goto(r, "locks")
    /\ UNCHANGED <<workload, held, seen, record, dir, mirror, upstream, job, owner, released, faults>>

\* Only a Plan restores the worktree: the operation claimed says so, whatever
\* has happened to the job or to the lease since.
StartExecution(r) ==
    /\ At(r, "load") /\ Kind[r] = "execute"
    /\ Goto(r, IF seen[r].op = "plan" THEN "locks" ELSE "provision")
    /\ UNCHANGED <<workload, held, seen, record, dir, mirror, upstream, job, owner, released, faults>>

\* restore resets the worktree in place; recreate makes a missing one again,
\* from the cache as it is and without the lock of the repository.  Both follow
\* the row that was loaded before the locks.
Restore(r) ==
    LET revision == seen[r].record.revision
    IN  /\ At(r, "restore")
        /\ IF mirror.state = "valid" /\ revision <= mirror.rev
           THEN /\ dir' = [dir EXCEPT ![JobOf[r]] = [rev |-> revision, work |-> FALSE]]
                /\ Goto(r, "provision")
                /\ held' = [held EXCEPT ![r] = @ \ {"gate"}]
           ELSE End(r, "refused") /\ UNCHANGED dir
        /\ UNCHANGED <<workload, seen, record, mirror, upstream, job, owner, released, faults>>

\* The fence is checked when the row of the environment is made sure of.
Provision(r) ==
    /\ At(r, "provision")
    /\ IF Owns(r)
       THEN Goto(r, "work") /\ released' = [released EXCEPT ![JobOf[r]] = FALSE] /\ UNCHANGED held
       ELSE End(r, "refused") /\ UNCHANGED released
    /\ UNCHANGED <<workload, seen, record, dir, mirror, upstream, job, owner, faults>>

\* The stages end; the lock is released before the attempt is settled.  What
\* comes after the Plan leaves its result in the worktree, finished or not, and
\* the agent may have made commits.  A Plan leaves no trace if it succeeds.
Work(r) ==
    LET j == JobOf[r]
    IN  /\ At(r, "work")
        /\ IF dir[j] = None
           THEN End(r, "refused") /\ UNCHANGED dir
           ELSE \E head \in {dir[j].rev, Commit} :
                   /\ dir' = [dir EXCEPT ![j] = [rev |-> head, work |-> @.work \/ seen[r].op = "later"]]
                   /\ \/ End(r, "refused")
                      \/ (seen[r].op = "plan" => head = dir[j].rev) /\ End(r, "settle")
        /\ UNCHANGED <<workload, seen, record, mirror, upstream, job, owner, released, faults>>

\* A success is settled behind the fence.
Settle(r) ==
    LET j == JobOf[r]
    IN  /\ At(r, "settle")
        /\ IF Owns(r)
           THEN /\ job' = [job EXCEPT ![j] = IF @ = "queued" THEN "planned" ELSE "succeeded"]
                /\ owner' = [owner EXCEPT ![j] = None]
                /\ Goto(r, "done")
           ELSE Goto(r, "refused") /\ UNCHANGED <<job, owner>>
        /\ UNCHANGED <<workload, held, seen, record, dir, mirror, upstream, released, faults>>

\* So is a failure: the operation is retried, or the job has failed.
SettleFailure(r) ==
    LET j == JobOf[r]
    IN  /\ At(r, "refused") /\ Owns(r)
        /\ \E state \in {job[j], "failed"} : job' = [job EXCEPT ![j] = state]
        /\ owner' = [owner EXCEPT ![j] = None]
        /\ UNCHANGED <<workload, pc, held, seen, record, dir, mirror, upstream, released, faults>>

\* The heartbeat of a runner that has lost its lease cancels the execution,
\* which listens while it waits for the lock of the job and during the stages.
GiveUp(r) ==
    /\ Kind[r] = "execute" /\ pc[r] \in {"entry", "work"} /\ ~Owns(r)
    /\ End(r, "refused")
    /\ UNCHANGED <<workload, seen, record, dir, mirror, upstream, job, owner, released, faults>>

\* A reconciler completes the release that the end of the job has requested.
ReleaseEnvironment(j) ==
    /\ job[j] \in Terminal /\ ~released[j]
    /\ released' = [released EXCEPT ![j] = TRUE]
    /\ UNCHANGED <<workload, pc, held, seen, record, dir, mirror, upstream, job, owner, faults>>

-----------------------------------------------------------------------------
(* The outside world.                                                      *)

BranchMoves ==
    /\ upstream < MaxRevision
    /\ upstream' = upstream + 1
    /\ UNCHANGED <<workload, pc, held, seen, record, dir, mirror, job, owner, released, faults>>

\* A process dies with all its requests.
Crash(d) ==
    /\ faults < MaxFaults
    /\ faults' = faults + 1
    /\ \E r \in Requests : DaemonOf[r] = d /\ InProgress(r)
    /\ pc' = [r \in Requests |-> IF DaemonOf[r] = d /\ InProgress(r) THEN "dead" ELSE pc[r]]
    /\ held' = [r \in Requests |-> IF DaemonOf[r] = d THEN {} ELSE held[r]]
    /\ UNCHANGED <<workload, seen, record, dir, mirror, upstream, job, owner, released>>

\* A Git command or a query fails.
CallFails(r) ==
    /\ faults < MaxFaults
    /\ faults' = faults + 1
    /\ pc[r] \in GitSteps \cup {"record", "unrecord"}
    /\ End(r, "refused")
    /\ UNCHANGED <<workload, seen, record, dir, mirror, upstream, job, owner, released>>

-----------------------------------------------------------------------------

Step(r) ==
    \/ Acquire(r) \/ PoolTimesOut(r)
    \/ LoadEnsure(r) \/ CheckMirror(r) \/ Quarantine(r) \/ Publish(r)
    \/ CleanWorktree(r) \/ AddWorktree(r) \/ PutWorkspace(r)
    \/ LoadRemove(r) \/ DropWorktree(r) \/ MarkRemoved(r)
    \/ Refresh(r) \/ Export(r) \/ Continue(r)
    \/ LoadContext(r) \/ StartExecution(r) \/ Restore(r) \/ Provision(r) \/ Work(r) \/ Settle(r)

Next ==
    \/ \E r \in Requests : Arrive(r) \/ Claim(r) \/ Step(r) \/ SettleFailure(r) \/ GiveUp(r) \/ CallFails(r)
    \/ \E j \in Jobs : LeaseExpires(j) \/ ReleaseEnvironment(j)
    \/ \E d \in Daemons : Crash(d)
    \/ BranchMoves

Spec == Init /\ [][Next]_vars

\* A request that was received is worked on, Git commands and stages end, locks
\* and connections are granted in order, and the pool's timeout runs out.
LiveSpec == Spec /\ \A r \in Requests : WF_vars(Step(r))

-----------------------------------------------------------------------------
(* Properties.                                                             *)

\* The cache that worktrees are linked to is never moved away: of two requests,
\* even of different processes, that find it missing or invalid, only the first
\* replaces it.
PublishedCacheKept == [][mirror.state = "valid" => mirror'.state = "valid"]_vars

\* However often a worktree was removed, lost or half made, and wherever the
\* branch has moved meanwhile, it is at the base its row has recorded, or at a
\* commit of the agent on it: also when an execution restores it from a row that
\* was loaded before a removal, a new ensure or a refresh_revision.
RebuiltAtBase ==
    \A j \in Jobs :
        Active(j) /\ dir[j] # None => dir[j].rev \in {record[j].base, Commit}

\* Whatever is requested meanwhile, a repeated ensure, a refresh, a retry or a
\* continuation, the result that is in a worktree is destroyed by an explicit
\* removal only, or by a Plan that has waited for the locks and lost its lease
\* meanwhile.  The execution that has the lease never does it.
ResultKept ==
    [][\A j \in Jobs :
        dir[j] # None /\ dir[j].work /\ (dir'[j] = None \/ ~dir'[j].work) =>
            \E r \in Requests :
                /\ JobOf[r] = j
                /\ \/ Kind[r] = "remove" /\ At(r, "drop")
                   \/ seen[r].op = "plan" /\ At(r, "restore") /\ ~Owns(r)]_vars

\* A continuation is never committed against a worktree that was removed.  A
\* removal that dies between its two steps can leave such a job behind, so this
\* is stated without faults.
ContinuationHasWorktree ==
    faults = 0 => \A j \in Jobs : job[j] = "continued" => Active(j) /\ dir[j] # None

\* A request that is inside the gate finds the second connection it needs as
\* long as fewer requests than connections are in progress in its process: the
\* gate admits one such request at a time.
HeadroomSuffices ==
    \A r \in Requests :
        LET d == DaemonOf[r]
        IN  /\ At(r, "locks") /\ "conn2" \notin held[r] /\ Kind[r] = "ensure"
            /\ Cardinality({q \in Requests : DaemonOf[q] = d /\ InProgress(q)}) < Connections[d]
            => Available(r, "conn2")

\* Together: worktree, row and connections agree at every point of every request.
RequestInv == TypeOK /\ RebuiltAtBase /\ ContinuationHasWorktree /\ HeadroomSuffices

\* No combination of requests waits for itself: in the end none is in progress,
\* every one that arrived has ended, if need be by the timeout of the pool.
RequestsEnd == <>[](\A r \in Requests : ~InProgress(r))

=============================================================================
