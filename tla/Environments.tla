---------------------------- MODULE Environments ----------------------------
(***************************************************************************)
(* The execution environment of one job: its row in the store              *)
(* (store/environments.rs), the backend object behind it (a Docker         *)
(* container or a Kubernetes Pod), the executors that ensure it under the  *)
(* lease and the advisory lock of the job, and the reconcilers that tear   *)
(* it down (executor/mod.rs, execution_environment.rs,                     *)
(* kubernetes_execution_environment.rs).                                   *)
(*                                                                         *)
(* - Every call of the backend is an action, so a process may be overtaken *)
(*   between looking at an object and acting on it.                        *)
(* - The job is reduced to what the environment depends on: whether an     *)
(*   attempt runs, who holds its lease, and how the job ended.             *)
(* - A request that was sent when its process died has either taken effect *)
(*   by then or never does.                                                *)
(* - A behaviour is one deployment's: the backend, the processes that take *)
(*   part in it, and how each of them is configured.                       *)
(* - Faults happen as often in all as the deployment says.                 *)
(***************************************************************************)
EXTENDS Integers, FiniteSets, FiniteSetsExt

CONSTANTS
    Slots,          \* executors, one per attempt slot
    Reconcilers,    \* polling loops that complete releases
    Deployments,    \* running: the processes that take part
                    \* kubernetes: is the backend Kubernetes, or Docker?
                    \* image: the image (and the rest of the specification) of a slot's worker
                    \* namespace: the namespace a process is configured with
                    \* maxFaults: a bound on the faults that happen
    None,
    TheLock,         \* stands for the advisory lock among what was lost
    \* bounds
    MaxGen,         \* environment generations: continuations + 1
    MaxObjects      \* identities of backend objects

Processes == Slots \cup Reconcilers

ASSUME ProcessesAssumption ==
    /\ Slots \cap Reconcilers = {} /\ None \notin Processes /\ Deployments # {}
    /\ \A d \in Deployments :
          /\ d.running \subseteq Processes /\ d.kubernetes \in BOOLEAN
          /\ DOMAIN d.image = Slots /\ DOMAIN d.namespace = Processes
          /\ d.maxFaults \in Nat
    /\ MaxGen \in Nat \ {0} /\ MaxObjects \in Nat

\* The markers are none of the values they stand beside; Docker deployments have
\* one engine.
ASSUME DeploymentsAssumption ==
    /\ None \notin 1 .. MaxObjects /\ TheLock \notin 1 .. MaxObjects
    /\ \A d \in Deployments :
          /\ None \notin [ns: {d.namespace[p] : p \in Processes}, id: (1 .. MaxObjects) \cup {None}]
          /\ d.kubernetes \/ \A p, q \in Processes : d.namespace[p] = d.namespace[q]

VARIABLES
    deployment, \* how the installation is configured
    job,        \* status of the job
    attempt,    \* does an attempt run?
    owner,      \* the slot that holds its lease, None if it has expired
    lock,       \* the slot that holds the advisory lock of the worktree
    row,        \* the row of factory_execution_environments
    objects,    \* the containers or Pods that exist
    proc,       \* where each process is, and what it has read
    lost,       \* objects that were stopped or removed from outside, and a lock that was lost
    faults      \* faults so far

vars == <<deployment, job, attempt, owner, lock, row, objects, proc, lost, faults>>

Kubernetes == deployment.kubernetes
Image == deployment.image
Namespace == deployment.namespace
MaxFaults == deployment.maxFaults

Ids == 1 .. MaxObjects
Namespaces == {Namespace[p] : p \in Processes}
Reference == [ns: Namespaces, id: Ids \cup {None}]
Row == [gen: 0 .. MaxGen, desired: {"active", "released"},
        status: {"absent", "provisioning", "ready", "failed", "releasing", "released"},
        ref: Reference \cup {None}]
Object == [id: Ids, ns: Namespaces, gen: 1 .. MaxGen,
           image: {Image[s] : s \in Slots},
           phase: {"created", "running", "stopped", "terminating"}]
Ensuring == {"inspect", "create", "observe", "start", "check"}
Deleting == {"find", "stop", "remove", "gone"}
Pcs == Ensuring \cup Deleting \cup
    {"idle", "waiting", "prepare", "ensure", "reserve", "ready", "failed", "working",
     "settle", "settleFailure", "cleanup", "cleaning", "cleaned", "release", "mark", "ack"}

AbsentRow == [gen |-> 0, desired |-> "active", status |-> "absent", ref |-> None]

\* rec is the row as the process read it, obj the object it looks at, first
\* whether it may still adopt (or replace) one it did not expect, and then
\* where it goes after a deletion.
Idle == [pc |-> "idle", rec |-> AbsentRow, obj |-> None, first |-> FALSE, then |-> "idle"]

TypeOK ==
    /\ deployment \in Deployments
    /\ job \in {"active", "cancelling", "succeeded", "failed", "cancelled"}
    /\ attempt \in BOOLEAN
    /\ owner \in Slots \cup {None} /\ lock \in Slots \cup {None}
    /\ row \in Row
    /\ objects \subseteq Object
    /\ \A o, q \in objects : o.id = q.id => o = q
    /\ faults \in 0 .. MaxFaults
    /\ proc \in [Processes -> [pc: Pcs, rec: Row, obj: Ids \cup {None}, first: BOOLEAN,
                               then: {"idle", "inspect", "ensure", "cleaned", "mark"}]]
    /\ lost \subseteq Ids \cup {TheLock}

Init ==
    /\ deployment \in Deployments
    /\ job = "active" /\ attempt = FALSE
    /\ owner = None /\ lock = None
    /\ row = AbsentRow
    /\ objects = {}
    /\ proc = [p \in Processes |-> Idle]
    /\ lost = {} /\ faults = 0

-----------------------------------------------------------------------------

At(p, pc) == proc[p].pc = pc
Goto(p, pc) == proc' = [proc EXCEPT ![p].pc = pc]
Unlocked(s) == lock' = IF lock = s THEN None ELSE lock

\* lock_attempt_context
Fenced(s) == owner = s

\* The fenced writes that a cancelling job refuses.
MayWrite(s) == Fenced(s) /\ job = "active"

\* The writes to the row that also name the generation they are for.
MayWriteRow(s) ==
    /\ MayWrite(s)
    /\ row.desired = "active"
    /\ At(s, "ensure") \/ row.gen = proc[s].rec.gen

\* request_release_in_transaction
ReleaseRequested ==
    IF row.status = "absent" THEN row
    ELSE [row EXCEPT !.desired = "released",
                     !.status = IF @ = "released" THEN @ ELSE "releasing"]

-----------------------------------------------------------------------------
(* The job, as far as the environment sees it.                             *)

Claim(s) ==
    /\ At(s, "idle") /\ s \in deployment.running
    /\ owner = None
    /\ job = "active" \/ (job = "cancelling" /\ attempt)
    /\ owner' = s /\ attempt' = TRUE
    /\ Goto(s, IF job = "cancelling" THEN "cleanup" ELSE "waiting")
    /\ UNCHANGED <<deployment, job, lock, row, objects, lost, faults>>

Cancel ==
    /\ job = "active"
    /\ IF attempt
       THEN job' = "cancelling" /\ UNCHANGED row
       ELSE job' = "cancelled" /\ row' = ReleaseRequested
    /\ UNCHANGED <<deployment, attempt, owner, lock, objects, proc, lost, faults>>

\* A stage ends and more follow, it is retried, or the job ends.
Settle(s, status) ==
    /\ \/ At(s, "settle") /\ status \in {"active", "succeeded"}
       \/ At(s, "settleFailure") /\ status \in {"active", "failed"}
    /\ MayWrite(s)
    /\ job' = status
    /\ row' = IF status = "active" THEN row ELSE ReleaseRequested
    /\ attempt' = FALSE /\ owner' = None
    /\ proc' = [proc EXCEPT ![s] = Idle]
    /\ UNCHANGED <<deployment, lock, objects, lost, faults>>

\* JobCancellationRequested leads to the cleanup, a lost lease to the end.
SettleRefused(s) ==
    /\ proc[s].pc \in {"settle", "settleFailure"}
    /\ ~MayWrite(s)
    /\ proc' = [proc EXCEPT ![s] = IF Fenced(s) THEN [Idle EXCEPT !.pc = "cleanup"] ELSE Idle]
    /\ UNCHANGED <<deployment, job, attempt, owner, lock, row, objects, lost, faults>>

\* reactivate_in_transaction, under the advisory lock.
ContinueJob ==
    /\ job = "succeeded"
    /\ lock = None
    /\ row.desired = "released" /\ row.status = "released"
    /\ row.gen < MaxGen
    /\ job' = "active"
    /\ row' = [gen |-> row.gen + 1, desired |-> "active", status |-> "provisioning", ref |-> None]
    /\ UNCHANGED <<deployment, attempt, owner, lock, objects, proc, lost, faults>>

-----------------------------------------------------------------------------
(* ensure_execution_environment, under the advisory lock.                  *)

Lock(s) ==
    /\ At(s, "waiting")
    /\ lock = None
    /\ lock' = s
    /\ Goto(s, "prepare")
    /\ UNCHANGED <<deployment, job, attempt, owner, row, objects, lost, faults>>

\* The wait for the lock listens to cancellation and to a lost lease.
NotStarted(s) ==
    /\ At(s, "waiting")
    /\ ~MayWrite(s)
    /\ Goto(s, "settleFailure")
    /\ UNCHANGED <<deployment, job, attempt, owner, lock, row, objects, lost, faults>>

Prepare(s) ==
    /\ At(s, "prepare")
    /\ Goto(s, "ensure")
    /\ UNCHANGED <<deployment, job, attempt, owner, lock, row, objects, lost, faults>>

\* prepare_plan_workspace, at the start of an attempt or in the cleanup of a
\* cancelled one, finds the worktree missing or corrupt: whatever the lease
\* says, the backend object of the loaded row is removed first.
Rebind(s) ==
    /\ faults < MaxFaults
    /\ proc[s].pc \in {"prepare", "cleaning"}
    /\ row.status # "absent"
    /\ proc' = [proc EXCEPT ![s].pc = "find", ![s].rec = row,
                            ![s].then = IF At(s, "prepare") THEN "ensure" ELSE "cleaned"]
    /\ faults' = faults + 1
    /\ UNCHANGED <<deployment, job, attempt, owner, lock, row, objects, lost>>

\* The row that is inserted unless there is one.
FirstRow == [gen |-> 1, desired |-> "active", status |-> "provisioning", ref |-> None]

EnsureRow(s) ==
    LET found == IF row.status = "absent" THEN FirstRow ELSE row
    IN  /\ At(s, "ensure")
        /\ MayWriteRow(s)
        /\ row' = found
        /\ proc' = [proc EXCEPT ![s] = [pc |-> IF Kubernetes THEN "reserve" ELSE "inspect",
                                        rec |-> found, obj |-> None, first |-> TRUE,
                                        then |-> "inspect"]]
        /\ UNCHANGED <<deployment, job, attempt, owner, lock, objects, lost, faults>>

\* Mutant: the locator is never written to the row.
LocatorForgotten(s) == [row EXCEPT !.ref = None]

\* reserve_execution_environment_locator: the first locator of a generation wins.
Located(s) ==
    IF row.ref = None THEN [row EXCEPT !.ref = [ns |-> Namespace[s], id |-> None]] ELSE row

\* Mutant: the Pod that the row names is the only one that may be found.
ReserveWithoutAdoption(s) ==
    /\ At(s, "reserve")
    /\ MayWriteRow(s)
    /\ row' = Located(s)
    /\ proc' = [proc EXCEPT ![s].pc = "inspect", ![s].rec = Located(s),
                            ![s].obj = IF row.ref = None THEN None ELSE row.ref.id,
                            ![s].first = FALSE]
    /\ UNCHANGED <<deployment, job, attempt, owner, lock, objects, lost, faults>>

Reserve(s) ==
    /\ At(s, "reserve")
    /\ MayWriteRow(s)
    /\ row' = Located(s)
    /\ proc' = [proc EXCEPT ![s].pc = "inspect", ![s].rec = Located(s),
                            ![s].obj = IF row.ref = None THEN None ELSE row.ref.id]
    /\ UNCHANGED <<deployment, job, attempt, owner, lock, objects, lost, faults>>

\* The namespace a process looks in for the object of its record.
Target(p) == IF proc[p].rec.ref = None THEN Namespace[p] ELSE proc[p].rec.ref.ns

\* The object with the deterministic name of an environment and generation.
Named(ns, gen) == {o \in objects : o.ns = ns /\ o.gen = gen}

NamedFor(p) == Named(Target(p), proc[p].rec.gen)

\* How the removal of an object begins.
Deletion(o) ==
    IF o.phase = "terminating" THEN "gone"
    ELSE IF Kubernetes \/ o.phase = "running" THEN "stop"
    ELSE "remove"

\* existing_container_disposition and what ensure_container does about it.
DockerDisposition(s, o) ==
    CASE o.image = Image[s] -> IF o.phase = "running" THEN "check" ELSE "start"
      [] o.image # Image[s] /\ proc[s].first
            /\ (proc[s].rec.ref = None \/ proc[s].rec.ref.id = o.id) -> Deletion(o)
      [] OTHER -> "failed"

\* OwnedPod::disposition and the branches of the loop in ensure_pod.
PodDisposition(s, o) ==
    IF o.image = Image[s] /\ ~(proc[s].first \/ proc[s].obj \in {None, o.id}) THEN "failed"
    ELSE IF o.image # Image[s] \/ o.phase \in {"stopped", "terminating"} THEN Deletion(o)
    ELSE "ready"

\* What a process does about the object it found.
Dispose(s, o) ==
    LET next == IF Kubernetes THEN PodDisposition(s, o) ELSE DockerDisposition(s, o)
    IN  proc' = [proc EXCEPT ![s].pc = next, ![s].obj = o.id,
                             ![s].first = @ /\ ~Kubernetes /\ next \notin Deleting]

Inspect(s) ==
    /\ At(s, "inspect")
    /\ IF NamedFor(s) = {}
       THEN proc' = [proc EXCEPT ![s].pc = "create", ![s].first = @ /\ ~Kubernetes]
       ELSE \E o \in NamedFor(s) : Dispose(s, o)
    /\ UNCHANGED <<deployment, job, attempt, owner, lock, row, objects, lost, faults>>

\* An id is used again only once nothing refers to it any more.
RefIds(record) == IF record.ref = None THEN {} ELSE {record.ref.id}

Unused ==
    Ids \ ({o.id : o \in objects} \cup RefIds(row)
             \cup UNION {{proc[p].obj} \cup RefIds(proc[p].rec) : p \in Processes})

\* Creation under the deterministic name.
Create(s) ==
    /\ At(s, "create")
    /\ NamedFor(s) = {}
    /\ Unused # {}
    /\ objects' = objects \cup {[id |-> Min(Unused), ns |-> Target(s), gen |-> proc[s].rec.gen,
                                 image |-> Image[s],
                                 phase |-> IF Kubernetes THEN "running" ELSE "created"]}
    /\ proc' = [proc EXCEPT ![s].pc = IF Kubernetes THEN "inspect" ELSE "observe",
                            ![s].obj = Min(Unused)]
    /\ lost' = lost \ {Min(Unused)}
    /\ UNCHANGED <<deployment, job, attempt, owner, lock, row, faults>>

\* 409: somebody else created it in between.
CreateConflict(s) ==
    /\ At(s, "create")
    /\ NamedFor(s) # {}
    /\ Goto(s, "observe")
    /\ UNCHANGED <<deployment, job, attempt, owner, lock, row, objects, lost, faults>>

\* The object is inspected after its creation, by whoever it was.
Observe(s) ==
    /\ At(s, "observe")
    /\ IF NamedFor(s) = {} THEN Goto(s, "failed")
       ELSE \E o \in NamedFor(s) :
              IF Kubernetes
              THEN proc' = [proc EXCEPT ![s].pc = IF o.image = Image[s] THEN "inspect" ELSE "failed",
                                        ![s].obj = o.id]
              ELSE Dispose(s, o)
    /\ UNCHANGED <<deployment, job, attempt, owner, lock, row, objects, lost, faults>>

\* start_container by name
Start(s) ==
    /\ At(s, "start")
    /\ objects' = {IF o \in NamedFor(s) THEN [o EXCEPT !.phase = "running"] ELSE o : o \in objects}
    /\ Goto(s, IF NamedFor(s) = {} THEN "failed" ELSE "check")
    /\ UNCHANGED <<deployment, job, attempt, owner, lock, row, lost, faults>>

\* wait_until_ready and the last inspection
Check(s) ==
    LET fit == {o \in NamedFor(s) : o.image = Image[s] /\ o.phase = "running"}
    IN  /\ At(s, "check")
        /\ IF fit = {} THEN Goto(s, "failed")
           ELSE \E o \in fit : proc' = [proc EXCEPT ![s].pc = "ready", ![s].obj = o.id]
        /\ UNCHANGED <<deployment, job, attempt, owner, lock, row, objects, lost, faults>>

MarkReady(s) ==
    /\ At(s, "ready")
    /\ MayWriteRow(s)
    /\ row' = [row EXCEPT !.status = "ready", !.ref = [ns |-> Target(s), id |-> proc[s].obj]]
    /\ Goto(s, "working")
    /\ UNCHANGED <<deployment, job, attempt, owner, lock, objects, lost, faults>>

MarkFailed(s) ==
    /\ At(s, "failed")
    /\ MayWriteRow(s)
    /\ row' = [row EXCEPT !.status = "failed"]
    /\ Unlocked(s)
    /\ Goto(s, "settleFailure")
    /\ UNCHANGED <<deployment, job, attempt, owner, objects, lost, faults>>

\* A fenced write is refused: the operation ends where it is.
EnsureRefused(s) ==
    /\ proc[s].pc \in {"ensure", "reserve", "ready", "failed"}
    /\ ~MayWriteRow(s)
    /\ Unlocked(s)
    /\ Goto(s, "settleFailure")
    /\ UNCHANGED <<deployment, job, attempt, owner, row, objects, lost, faults>>

\* The stage ends, on its own or because it was told to stop.
Finish(s) ==
    /\ At(s, "working")
    /\ Unlocked(s)
    /\ Goto(s, "settle") \/ Goto(s, "settleFailure")
    /\ UNCHANGED <<deployment, job, attempt, owner, row, objects, lost, faults>>

-----------------------------------------------------------------------------
(* Release: a cancelling owner or a reconciler.                            *)

\* cleanup_cancelled_operation, between taking the lock and giving it back.
Cleanup(s) ==
    /\ At(s, "cleanup")
    /\ lock = None
    /\ lock' = s
    /\ Goto(s, "cleaning")
    /\ UNCHANGED <<deployment, job, attempt, owner, row, objects, lost, faults>>

Cleaned(s) ==
    /\ proc[s].pc \in {"cleaning", "cleaned"}
    /\ Unlocked(s)
    /\ Goto(s, "release")
    /\ UNCHANGED <<deployment, job, attempt, owner, row, objects, lost, faults>>

\* request_cancelling_execution_environment_release
RequestRelease(s) ==
    /\ At(s, "release")
    /\ Fenced(s) /\ job = "cancelling"
    /\ row' = ReleaseRequested
    /\ proc' = [proc EXCEPT ![s].pc = IF row.status = "absent" THEN "ack" ELSE "find",
                            ![s].rec = ReleaseRequested, ![s].then = "mark"]
    /\ UNCHANGED <<deployment, job, attempt, owner, lock, objects, lost, faults>>

\* acknowledge_job_cancellation
Acknowledge(s) ==
    /\ At(s, "ack")
    /\ Fenced(s) /\ job = "cancelling"
    /\ row.status \in {"absent", "released"}
    /\ job' = "cancelled"
    /\ attempt' = FALSE /\ owner' = None
    /\ proc' = [proc EXCEPT ![s] = Idle]
    /\ UNCHANGED <<deployment, lock, row, objects, lost, faults>>

\* The lease was lost on the way; relinquish_attempt then changes nothing.
CancellationRefused(s) ==
    /\ proc[s].pc \in {"release", "ack"}
    /\ ~Fenced(s)
    /\ proc' = [proc EXCEPT ![s] = Idle]
    /\ UNCHANGED <<deployment, job, attempt, owner, lock, row, objects, lost, faults>>

\* Mutant: rows whose object was never published are not listed.
ListedIfPublished ==
    row.desired = "released" /\ row.status = "releasing" /\ row.ref # None /\ row.ref.id # None

\* list_releasing_execution_environments
Listed == row.desired = "released" /\ row.status = "releasing"

List(r) ==
    /\ At(r, "idle") /\ r \in deployment.running
    /\ Listed
    /\ proc' = [proc EXCEPT ![r].pc = "find", ![r].rec = row, ![r].then = "mark"]
    /\ UNCHANGED <<deployment, job, attempt, owner, lock, row, objects, lost, faults>>

\* Mutant: the container is looked up by its persisted id only.
ReleaseTargetById(p) ==
    IF Kubernetes \/ proc[p].rec.ref = None
    THEN NamedFor(p)
    ELSE {o \in objects : o.id = proc[p].rec.ref.id}

\* Mutant: the name of an object does not tell generations apart.
ReleaseTargetOfJob(p) == {o \in objects : o.ns = Target(p)}

\* release_container looks for the persisted id and then for the name,
\* release_pod for the name in the persisted namespace.
ReleaseTarget(p) ==
    LET byId == {o \in objects : proc[p].rec.ref # None /\ o.id = proc[p].rec.ref.id}
    IN  IF Kubernetes \/ byId = {} THEN NamedFor(p) ELSE byId

Find(p) ==
    /\ At(p, "find")
    /\ IF ReleaseTarget(p) = {} THEN Goto(p, proc[p].then)
       ELSE \E o \in ReleaseTarget(p) :
              proc' = [proc EXCEPT ![p].pc = Deletion(o), ![p].obj = o.id]
    /\ UNCHANGED <<deployment, job, attempt, owner, lock, row, objects, lost, faults>>

\* Where a failed backend call leaves its caller.  A failed release is left to
\* the next poll, or to the next owner of the cancelling attempt.
FailedCall(p) ==
    IF p \in Reconcilers
    THEN proc' = [proc EXCEPT ![p] = Idle] /\ UNCHANGED <<owner, lock>>
    ELSE CASE proc[p].then \in {"cleaned", "mark"} ->
                /\ proc' = [proc EXCEPT ![p] = Idle]
                /\ owner' = IF Fenced(p) THEN None ELSE owner
                /\ Unlocked(p)
           [] proc[p].then = "ensure" -> Goto(p, "settleFailure") /\ Unlocked(p) /\ UNCHANGED owner
           [] OTHER -> Goto(p, "failed") /\ UNCHANGED <<deployment, owner, lock>>

\* The object a process is about to delete.
Chosen(p) == {o \in objects : o.id = proc[p].obj}

\* stop_container, or delete with the uid as a precondition.
Stop(p) ==
    /\ At(p, "stop")
    /\ IF Kubernetes /\ Chosen(p) = {} /\ NamedFor(p) # {}
       THEN FailedCall(p) /\ UNCHANGED objects
       ELSE /\ objects' = {IF o \notin Chosen(p) THEN o
                          ELSE IF Kubernetes THEN [o EXCEPT !.phase = "terminating"]
                          ELSE IF o.phase = "running" THEN [o EXCEPT !.phase = "stopped"]
                          ELSE o : o \in objects}
            /\ Goto(p, IF Kubernetes THEN "gone" ELSE "remove")
            /\ UNCHANGED <<owner, lock>>
    /\ UNCHANGED <<deployment, job, attempt, row, lost, faults>>

\* remove_container without force: refused for a container that runs again.
Remove(p) ==
    /\ At(p, "remove")
    /\ IF \E o \in Chosen(p) : o.phase = "running"
       THEN FailedCall(p) /\ UNCHANGED objects
       ELSE objects' = objects \ Chosen(p) /\ Goto(p, proc[p].then) /\ UNCHANGED <<owner, lock>>
    /\ UNCHANGED <<deployment, job, attempt, row, lost, faults>>

\* wait_for_uid_gone; ensure_pod then expects no particular Pod.
Gone(p) ==
    /\ At(p, "gone")
    /\ Chosen(p) = {}
    /\ proc' = [proc EXCEPT ![p].pc = proc[p].then, ![p].obj = None]
    /\ UNCHANGED <<deployment, job, attempt, owner, lock, row, objects, lost, faults>>

\* The kubelet has ended a Pod that is being deleted.
Reap(o) ==
    /\ o.phase = "terminating"
    /\ objects' = objects \ {o}
    /\ UNCHANGED <<deployment, job, attempt, owner, lock, row, proc, lost, faults>>

\* mark_execution_environment_released; a stale generation is none of ours.
MarkReleased(p) ==
    /\ At(p, "mark")
    /\ row' = IF row.gen = proc[p].rec.gen /\ row.desired = "released"
              THEN [row EXCEPT !.status = "released"] ELSE row
    /\ IF p \in Slots THEN Goto(p, "ack") ELSE proc' = [proc EXCEPT ![p] = Idle]
    /\ UNCHANGED <<deployment, job, attempt, owner, lock, objects, lost, faults>>

-----------------------------------------------------------------------------
(* Faults.                                                                 *)

Fault ==
    /\ faults < MaxFaults
    /\ faults' = faults + 1
    /\ UNCHANGED <<deployment, job, attempt, row>>

\* The owner was paused for longer than its lease.
LeaseExpires ==
    /\ Fault
    /\ owner # None
    /\ owner' = None
    /\ UNCHANGED <<lock, objects, proc, lost>>

\* The process dies: its database session ends and its lease runs out.
Crash(p) ==
    /\ Fault
    /\ ~At(p, "idle")
    /\ proc' = [proc EXCEPT ![p] = Idle]
    /\ Unlocked(p)
    /\ owner' = IF owner = p THEN None ELSE owner
    /\ UNCHANGED <<objects, lost>>

\* An object stops, or is removed, without Factory's doing.
ObjectFails(o) ==
    /\ Fault
    /\ \/ objects' = objects \ {o}
       \/ o.phase = "running" /\ objects' = (objects \ {o}) \cup {[o EXCEPT !.phase = "stopped"]}
    /\ lost' = lost \cup {o.id}
    /\ UNCHANGED <<owner, lock, proc>>

\* A call of the backend fails or times out.
CallFails(p) ==
    /\ Fault
    /\ proc[p].pc \in Ensuring \cup Deleting
    /\ FailedCall(p)
    /\ UNCHANGED <<objects, lost>>

\* The database session that holds the advisory lock breaks.
LockBreaks ==
    /\ Fault
    /\ lock # None
    /\ lock' = None
    /\ lost' = lost \cup {TheLock}
    /\ UNCHANGED <<owner, objects, proc>>

-----------------------------------------------------------------------------

DeleteStep(p) == Find(p) \/ Stop(p) \/ Remove(p) \/ Gone(p) \/ MarkReleased(p)

EnsureStep(s) ==
    \/ Lock(s) \/ NotStarted(s) \/ Prepare(s) \/ EnsureRow(s) \/ Reserve(s)
    \/ Inspect(s) \/ Create(s) \/ CreateConflict(s) \/ Observe(s) \/ Start(s) \/ Check(s)
    \/ MarkReady(s) \/ MarkFailed(s) \/ EnsureRefused(s) \/ Finish(s)

EndStep(s) ==
    \/ \E status \in {"active", "succeeded", "failed"} : Settle(s, status)
    \/ SettleRefused(s) \/ Cleanup(s) \/ Cleaned(s) \/ RequestRelease(s) \/ Acknowledge(s)
    \/ CancellationRefused(s)

FaultStep ==
    \/ LeaseExpires \/ LockBreaks
    \/ \E p \in Processes : Crash(p) \/ CallFails(p)
    \/ \E o \in objects : ObjectFails(o)
    \/ \E s \in Slots : Rebind(s)

Next ==
    \/ \E s \in Slots : Claim(s) \/ EnsureStep(s) \/ EndStep(s)
    \/ \E r \in Reconcilers : List(r)
    \/ \E p \in Processes : DeleteStep(p)
    \/ \E o \in objects : Reap(o)
    \/ Cancel \/ ContinueJob
    \/ FaultStep

Spec == Init /\ [][Next]_vars

\* Workers poll for work and for releases, calls are answered, stages end and
\* deleted Pods go away.
Fairness ==
    /\ WF_vars(\E s \in Slots : Claim(s))
    /\ \A s \in Slots : WF_vars(EnsureStep(s)) /\ WF_vars(EndStep(s))
    /\ \A r \in Reconcilers : WF_vars(List(r))
    /\ \A p \in Processes : WF_vars(DeleteStep(p))
    /\ WF_vars(\E o \in objects : Reap(o))

LiveSpec == Spec /\ Fairness

-----------------------------------------------------------------------------
(* Properties.                                                             *)

\* An environment that is recorded as released, which is what lets a job be
\* continued, its worktree be removed and its cancellation be acknowledged, has
\* left nothing behind: no object of any generation still mounts the worktree,
\* whoever was interrupted while creating, replacing or removing one.  An
\* executor whose lock is lost can still create one, so this and the
\* others that name LockKept are stated for a lock that is kept.
LockKept == TheLock \notin lost
ReleasedIsGone == LockKept /\ row.status \in {"absent", "released"} => objects = {}

\* A job never has two execution environments at a time, of different
\* generations or in different namespaces.
OneObject == LockKept => Cardinality(objects) <= 1

\* The owner of the lease keeps the environment it works in: nobody else stops,
\* replaces or removes it, neither an earlier owner nor a late reconciler.
OwnerKeepsObject ==
    \A s \in Slots :
        LockKept /\ Fenced(s) /\ At(s, "working") /\ proc[s].obj \notin lost =>
            \E o \in objects : o.id = proc[s].obj /\ o.phase = "running"

\* Together: in every state the one object of a job is its owner's.
ObjectInv == TypeOK /\ OneObject /\ OwnerKeepsObject

\* A reconciler that was overtaken by a continuation never touches the object
\* of the new generation, even if the advisory lock has failed meanwhile.
ActiveIsSpared ==
    [][\A r \in Reconcilers :
        proc'[r] # proc[r] =>
            \A o \in objects : o.gen = row.gen /\ row.desired = "active" => o \in objects']_vars

\* A job that is active gets an environment, whatever was lost, left half
\* created or created by a worker with another image before.  Docker workers of
\* different images may refuse each other's containers, so those must agree.
ImagesAgree == Kubernetes \/ \A s, t \in Slots : Image[s] = Image[t]
Provisioned ==
    job = "active" /\ ImagesAgree ~> (job # "active" \/ ~LockKept \/ \E s \in Slots : At(s, "working"))

\* The backend object of a job that has ended is removed in the end.
EventuallyGone ==
    job \in {"succeeded", "failed", "cancelled"} ~> (objects = {} \/ job = "active" \/ ~LockKept)

=============================================================================
