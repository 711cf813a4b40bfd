---------------------------- MODULE Coordinator ----------------------------
(***************************************************************************)
(* The durable store of the Factory coordinator: the job, operation,       *)
(* attempt, checkpoint, workspace and execution-environment tables and the *)
(* PostgreSQL transactions of coordinator/src/store/*.rs over them, called *)
(* by worker slots that hold (possibly stale) lease handles and by users   *)
(* through the HTTP API.                                                   *)
(*                                                                         *)
(* - Every transaction is one action.  All of them lock the job row (claim *)
(*   and lock_attempt_context with FOR UPDATE) or are a single UPDATE      *)
(*   whose WHERE clause is the guard (renew, relinquish, mark released).   *)
(*   A transaction that returns an error changes nothing, so an error path *)
(*   is the action not being enabled.                                      *)
(* - Time is a countdown: lease is how many ticks are left before          *)
(*   lease_expires_at <= clock_timestamp(), wait how many before           *)
(*   next_eligible_at <= clock_timestamp().                                *)
(* - A claim may return any claimable job: the SQL orders by created_at,   *)
(*   but SKIP LOCKED skips rows another transaction holds at that moment.  *)
(* - Payloads, correlations, thread state and the event log are left out.  *)
(***************************************************************************)
EXTENDS Integers, Sequences, FiniteSets

CONSTANTS
    Jobs,           \* job identifiers
    TaskJobs,       \* the jobs whose kind is "factory.task"
    Slots,          \* concurrent attempt slots of all worker processes
    Owners,         \* worker instance ids (owner_instance_id)
    OwnerOf,        \* the worker process a slot belongs to
    Eligible,       \* the jobs whose execution profile a slot's worker has
    BaseStages,     \* operations of a new job (4 for a factory.task)
    RoundStages,    \* operations a continuation appends (3)
    MaxAttempts,    \* max_attempts of every operation
    NoClaim,        \* the slot holds no lease handle
    \* bounds
    MaxRounds,      \* continuation rounds of a job
    AttemptLimit,   \* the largest max_attempts
    LeaseTerm,      \* ticks of a lease
    BackoffTerm,    \* ticks of a retry delay
    MaxEpoch,       \* lease generations of one attempt
    MaxCheckpoints  \* checkpoints of one attempt

\* Operations of a job after the last continuation the bound allows.
Stages == BaseStages + RoundStages * MaxRounds

Ordinals == 0 .. (Stages - 1)

Numbers == 1 .. AttemptLimit

OperationIds == Jobs \X Ordinals

AttemptIds == Jobs \X Ordinals \X Numbers

ASSUME StagesAssumption ==
    /\ BaseStages \in Nat \ {0}
    /\ RoundStages \in Nat \ {0}
    /\ MaxRounds \in Nat

ASSUME BoundsAssumption ==
    /\ AttemptLimit \in Nat \ {0}
    /\ LeaseTerm \in Nat \ {0}
    /\ BackoffTerm \in Nat
    /\ MaxEpoch \in Nat \ {0}
    /\ MaxCheckpoints \in Nat

ASSUME WorkersAssumption ==
    /\ TaskJobs \subseteq Jobs
    /\ OwnerOf \in [Slots -> Owners]
    /\ Eligible \in [Slots -> SUBSET Jobs]

\* validate_job_definition rejects an operation without an attempt.
ASSUME BudgetAssumption ==
    MaxAttempts \in [OperationIds -> Numbers]

VARIABLES
    jobStatus,  \* factory_jobs.status, "none" before create_job
    opCount,    \* how many operations the job has: MAX(ordinal) + 1
    op,         \* factory_operations: status, attempts made, next_eligible_at
    att,        \* factory_attempts: status, owner, lease_epoch, lease left
    ckpts,      \* factory_checkpoints: per attempt, the epochs that wrote them
    env,        \* factory_execution_environments
    ws,         \* factory_workspaces.status, "none" without a row
    claim       \* the lease handle (RecoveryLease) each slot holds

vars == <<jobStatus, opCount, op, att, ckpts, env, ws, claim>>

JobStatuses ==
    {"none", "queued", "running", "cancelling", "succeeded", "failed", "cancelled"}
Terminal == {"succeeded", "failed", "cancelled"}
Unfinished == {"ready", "running", "retry_wait"}
OpStatuses == Unfinished \cup {"absent", "succeeded", "failed", "cancelled"}
AttStatuses == {"absent", "running", "succeeded", "failed", "abandoned"}
EnvStatuses ==
    {"absent", "provisioning", "ready", "releasing", "released", "failed"}

OpRow == [status: OpStatuses, made: 0 .. AttemptLimit,
          wait: 0 .. BackoffTerm]
AttRow == [status: AttStatuses, owner: Owners \cup {NoClaim},
           epoch: 0 .. MaxEpoch, lease: 0 .. LeaseTerm]
EnvRow == [gen: Nat, desired: {"active", "released"},
           status: EnvStatuses]
Position == [ord: Ordinals \cup {-1}, num: 0 .. AttemptLimit,
             seq: 0 .. MaxCheckpoints]
Handle == [job: Jobs, ord: Ordinals, num: Numbers, epoch: 1 .. MaxEpoch,
           resume: Position]

ASSUME NoClaimAssumption == NoClaim \notin Handle /\ NoClaim \notin Owners

AbsentOp == [status |-> "absent", made |-> 0, wait |-> 0]
ReadyOp == [status |-> "ready", made |-> 0, wait |-> 0]
AbsentAtt == [status |-> "absent", owner |-> NoClaim, epoch |-> 0, lease |-> 0]
AbsentEnv == [gen |-> 0, desired |-> "active", status |-> "absent"]
Fresh == [ord |-> -1, num |-> 0, seq |-> 0]

TypeOK ==
    /\ jobStatus \in [Jobs -> JobStatuses]
    /\ opCount \in [Jobs -> 0 .. Stages]
    /\ op \in [OperationIds -> OpRow]
    /\ att \in [AttemptIds -> AttRow]
    /\ ckpts \in [AttemptIds -> Seq(1 .. MaxEpoch)]
    /\ env \in [Jobs -> EnvRow]
    /\ ws \in [Jobs -> {"none", "active", "removed"}]
    /\ claim \in [Slots -> Handle \cup {NoClaim}]

Init ==
    /\ jobStatus = [j \in Jobs |-> "none"]
    /\ opCount = [j \in Jobs |-> 0]
    /\ op = [p \in OperationIds |-> AbsentOp]
    /\ att = [k \in AttemptIds |-> AbsentAtt]
    /\ ckpts = [k \in AttemptIds |-> << >>]
    /\ env = [j \in Jobs |-> AbsentEnv]
    /\ ws = [j \in Jobs |-> "none"]
    /\ claim = [s \in Slots |-> NoClaim]

-----------------------------------------------------------------------------
(* Users: create, bind a workspace, cancel, continue.                      *)

\* The operations a job has after n stages were appended at its end.
Appended(j, n) ==
    [p \in OperationIds |->
        IF p[1] = j /\ p[2] \in opCount[j] .. (opCount[j] + n - 1)
        THEN ReadyOp ELSE op[p]]

CreateJob(j) ==
    /\ jobStatus[j] = "none"
    /\ jobStatus' = [jobStatus EXCEPT ![j] = "queued"]
    /\ op' = Appended(j, BaseStages)
    /\ opCount' = [opCount EXCEPT ![j] = BaseStages]
    /\ UNCHANGED <<att, ckpts, env, ws, claim>>

\* WorkspaceManager::ensure ends in put_workspace, in any state of the job.
EnsureWorkspace(j) ==
    /\ jobStatus[j] # "none"
    /\ ws[j] # "active"
    /\ ws' = [ws EXCEPT ![j] = "active"]
    /\ UNCHANGED <<jobStatus, opCount, op, att, ckpts, env, claim>>

EnvReleased(j) == env[j].status \in {"absent", "released"}

\* WorkspaceManager::remove looks at the environment, not at the job.
RemoveWorkspace(j) ==
    /\ ws[j] = "active"
    /\ EnvReleased(j)
    /\ ws' = [ws EXCEPT ![j] = "removed"]
    /\ UNCHANGED <<jobStatus, opCount, op, att, ckpts, env, claim>>

\* request_release_in_transaction: the environments after j's is requested.
ReleaseRequested(j) ==
    IF env[j].status = "absent"
    THEN env
    ELSE [env EXCEPT ![j].desired = "released",
                     ![j].status = IF env[j].status = "released"
                                   THEN "released" ELSE "releasing"]

\* cancel_unfinished_operations
Cancelled(j) ==
    [p \in OperationIds |->
        IF p[1] = j /\ op[p].status \in Unfinished
        THEN [op[p] EXCEPT !.status = "cancelled"] ELSE op[p]]

HasRunningAttempt(j) ==
    \E o \in Ordinals, n \in Numbers : att[<<j, o, n>>].status = "running"

\* cancel_job while an attempt runs: only its owner may finish the cancel.
RequestCancellation(j) ==
    /\ jobStatus[j] \in {"queued", "running"}
    /\ HasRunningAttempt(j)
    /\ jobStatus' = [jobStatus EXCEPT ![j] = "cancelling"]
    /\ UNCHANGED <<opCount, op, att, ckpts, env, ws, claim>>

\* cancel_job of a job nobody is working on.
CancelIdle(j) ==
    /\ jobStatus[j] \in {"queued", "running"}
    /\ ~HasRunningAttempt(j)
    /\ jobStatus' = [jobStatus EXCEPT ![j] = "cancelled"]
    /\ op' = Cancelled(j)
    /\ env' = ReleaseRequested(j)
    /\ UNCHANGED <<opCount, att, ckpts, ws, claim>>

\* continuation_round accepts only a complete lifecycle.
CompleteRounds(n) ==
    /\ n >= BaseStages
    /\ (n - BaseStages) % RoundStages = 0

ContinueJob(j) ==
    /\ j \in TaskJobs
    /\ jobStatus[j] = "succeeded"
    /\ ws[j] = "active"
    /\ \/ env[j].status = "absent"
       \/ env[j].status = "released" /\ env[j].desired = "released"
    /\ CompleteRounds(opCount[j])
    /\ opCount[j] + RoundStages <= Stages
    /\ jobStatus' = [jobStatus EXCEPT ![j] = "queued"]
    /\ op' = Appended(j, RoundStages)
    /\ opCount' = [opCount EXCEPT ![j] = @ + RoundStages]
    /\ env' = IF env[j].status = "absent"
              THEN env
              ELSE [env EXCEPT ![j] = [gen |-> @.gen + 1, desired |-> "active",
                                       status |-> "provisioning"]]
    /\ UNCHANGED <<att, ckpts, ws, claim>>

-----------------------------------------------------------------------------
(* Time.                                                                   *)

LeaseRuns(j, o, n) ==
    /\ att[<<j, o, n>>].status = "running"
    /\ att[<<j, o, n>>].lease > 0
    /\ att' = [att EXCEPT ![<<j, o, n>>].lease = @ - 1]
    /\ UNCHANGED <<jobStatus, opCount, op, ckpts, env, ws, claim>>

BackoffRuns(j, o) ==
    /\ op[<<j, o>>].status = "retry_wait"
    /\ op[<<j, o>>].wait > 0
    /\ op' = [op EXCEPT ![<<j, o>>].wait = @ - 1]
    /\ UNCHANGED <<jobStatus, opCount, att, ckpts, env, ws, claim>>

-----------------------------------------------------------------------------
(* Recovery: which operation a worker may claim, and from which checkpoint.*)

PredecessorsSucceeded(j, o) ==
    \A p \in Ordinals : p < o => op[<<j, p>>].status = "succeeded"

\* Mutant: recovery leaves cancelling jobs to their owner.
RecoverableUnlessCancelling(s, j, o) ==
    /\ jobStatus[j] \in {"queued", "running"}
    /\ j \in TaskJobs => ws[j] = "active" /\ j \in Eligible[s]
    /\ PredecessorsSucceeded(j, o)

\* The part of the recovery queries that a new attempt and a lease transfer share.
Recoverable(s, j, o) ==
    /\ jobStatus[j] \in {"queued", "running", "cancelling"}
    /\ j \in TaskJobs => ws[j] = "active" /\ j \in Eligible[s]
    /\ PredecessorsSucceeded(j, o)

\* "ready", or "retry_wait" whose time has come, with attempts left.
Startable(j, o) ==
    /\ jobStatus[j] \in {"queued", "running"}
    /\ op[<<j, o>>].made < MaxAttempts[<<j, o>>]
    /\ \/ op[<<j, o>>].status = "ready"
       \/ op[<<j, o>>].status = "retry_wait" /\ op[<<j, o>>].wait = 0

\* The latest attempt still runs under an expired lease.
Expired(j, o) ==
    LET k == <<j, o, op[<<j, o>>].made>>
    IN  /\ op[<<j, o>>].status = "running"
        /\ op[<<j, o>>].made > 0
        /\ att[k].status = "running"
        /\ att[k].lease = 0

\* Checkpoint positions of the job at ordinals up to o.
Positions(j, o) ==
    {q \in Position :
        /\ q.ord \in Ordinals /\ q.ord <= o
        /\ q.num \in Numbers
        /\ q.seq \in 1 .. Len(ckpts[<<j, q.ord, q.num>>])}

Newer(q, r) ==
    \/ q.ord > r.ord
    \/ q.ord = r.ord /\ q.num > r.num
    \/ q.ord = r.ord /\ q.num = r.num /\ q.seq > r.seq

\* Mutant: attempt_number sorted ascending.
ResumePointOfFirstAttempt(j, o) ==
    LET found == Positions(j, o)
        first(q) == \A r \in found : q.num < r.num \/ (q.num = r.num /\ ~Newer(r, q))
    IN  IF \E q \in found : first(q)
        THEN CHOOSE q \in found : first(q)
        ELSE Fresh

\* ORDER BY ordinal DESC, attempt_number DESC, sequence DESC LIMIT 1
ResumePoint(j, o) ==
    LET found == Positions(j, o)
        newest(q) == \A r \in found \ {q} : Newer(q, r)
    IN  IF \E q \in found : newest(q)
        THEN CHOOSE q \in found : newest(q)
        ELSE Fresh

\* Mutant: a claim marks every job running, a cancelling one too.
ClaimedJobRuns(j) == [jobStatus EXCEPT ![j] = "running"]

ClaimedJob(j) ==
    [jobStatus EXCEPT ![j] = IF @ = "cancelling" THEN @ ELSE "running"]

\* claim_recovery of a ready operation or a due retry: a new attempt.
ClaimNew(s, j, o) ==
    LET n == op[<<j, o>>].made + 1
    IN  /\ claim[s] = NoClaim
        /\ Recoverable(s, j, o)
        /\ Startable(j, o)
        /\ jobStatus' = ClaimedJob(j)
        /\ op' = [op EXCEPT ![<<j, o>>] =
                    [status |-> "running", made |-> n, wait |-> 0]]
        /\ att' = [att EXCEPT ![<<j, o, n>>] =
                    [status |-> "running", owner |-> OwnerOf[s],
                     epoch |-> 1, lease |-> LeaseTerm]]
        /\ claim' = [claim EXCEPT ![s] =
                    [job |-> j, ord |-> o, num |-> n, epoch |-> 1,
                     resume |-> ResumePoint(j, o)]]
        /\ UNCHANGED <<opCount, ckpts, env, ws>>

\* Mutant: a transferred lease keeps its epoch.
ClaimExpiredSameEpoch(s, j, o) ==
    LET n == op[<<j, o>>].made
        k == <<j, o, n>>
    IN  /\ claim[s] = NoClaim
        /\ Recoverable(s, j, o)
        /\ Expired(j, o)
        /\ jobStatus' = ClaimedJob(j)
        /\ att' = [att EXCEPT ![k].owner = OwnerOf[s], ![k].lease = LeaseTerm]
        /\ claim' = [claim EXCEPT ![s] =
                    [job |-> j, ord |-> o, num |-> n, epoch |-> att[k].epoch,
                     resume |-> ResumePoint(j, o)]]
        /\ UNCHANGED <<opCount, op, ckpts, env, ws>>

\* claim_recovery of an expired lease: the same attempt, the next epoch.
ClaimExpired(s, j, o) ==
    LET n == op[<<j, o>>].made
        k == <<j, o, n>>
    IN  /\ claim[s] = NoClaim
        /\ Recoverable(s, j, o)
        /\ Expired(j, o)
        /\ att[k].epoch < MaxEpoch
        /\ jobStatus' = ClaimedJob(j)
        /\ att' = [att EXCEPT ![k] =
                    [status |-> "running", owner |-> OwnerOf[s],
                     epoch |-> att[k].epoch + 1, lease |-> LeaseTerm]]
        /\ claim' = [claim EXCEPT ![s] =
                    [job |-> j, ord |-> o, num |-> n, epoch |-> att[k].epoch + 1,
                     resume |-> ResumePoint(j, o)]]
        /\ UNCHANGED <<opCount, op, ckpts, env, ws>>

-----------------------------------------------------------------------------
(* Calls a slot makes with the handle it holds.                            *)

\* The attempt a slot's handle names.
Attempt(s) == <<claim[s].job, claim[s].ord, claim[s].num>>

\* Mutant: the fence compares the owner but not the lease generation.
FencedByOwner(s) ==
    /\ claim[s] # NoClaim
    /\ att[Attempt(s)].status = "running"
    /\ att[Attempt(s)].owner = OwnerOf[s]
    /\ att[Attempt(s)].lease > 0

\* lock_attempt_context: the handle is the current generation of a live lease.
Fenced(s) ==
    /\ claim[s] # NoClaim
    /\ att[Attempt(s)].status = "running"
    /\ att[Attempt(s)].owner = OwnerOf[s]
    /\ att[Attempt(s)].epoch = claim[s].epoch
    /\ att[Attempt(s)].lease > 0

RenewAttempt(s) ==
    /\ Fenced(s)
    /\ att' = [att EXCEPT ![Attempt(s)].lease = LeaseTerm]
    /\ UNCHANGED <<jobStatus, opCount, op, ckpts, env, ws, claim>>

RelinquishAttempt(s) ==
    /\ Fenced(s)
    /\ att' = [att EXCEPT ![Attempt(s)].lease = 0]
    /\ UNCHANGED <<jobStatus, opCount, op, ckpts, env, ws, claim>>

\* insert_checkpoint: the next sequence number of the attempt.
Checkpointed(s) == [ckpts EXCEPT ![Attempt(s)] = Append(@, claim[s].epoch)]

SaveCheckpoint(s) ==
    /\ Fenced(s)
    /\ Len(ckpts[Attempt(s)]) < MaxCheckpoints
    /\ ckpts' = Checkpointed(s)
    /\ UNCHANGED <<jobStatus, opCount, op, att, env, ws, claim>>

\* Mutant: a settlement that races a cancellation wins.
MaySettleAnyway(s) == Fenced(s)

\* Settlement is refused while cancellation is requested.
MaySettle(s) ==
    /\ Fenced(s)
    /\ jobStatus[claim[s].job] # "cancelling"

\* An optional final checkpoint is written in the settling transaction.
FinalCheckpoint(s) ==
    \/ UNCHANGED ckpts
    \/ Len(ckpts[Attempt(s)]) < MaxCheckpoints /\ ckpts' = Checkpointed(s)

SettleSucceeded(s) ==
    LET j == claim[s].job
        o == claim[s].ord
        done == \A p \in 0 .. (opCount[j] - 1) :
                    p # o => op[<<j, p>>].status = "succeeded"
    IN  /\ MaySettle(s)
        /\ FinalCheckpoint(s)
        /\ att' = [att EXCEPT ![Attempt(s)].status = "succeeded"]
        /\ op' = [op EXCEPT ![<<j, o>>].status = "succeeded"]
        /\ jobStatus' = IF done THEN [jobStatus EXCEPT ![j] = "succeeded"]
                        ELSE jobStatus
        /\ env' = IF done THEN ReleaseRequested(j) ELSE env
        /\ UNCHANGED <<opCount, ws, claim>>

\* Mutant: a retry is granted after the last attempt.
SettleRetryAlways(s, delay) ==
    /\ MaySettle(s)
    /\ FinalCheckpoint(s)
    /\ att' = [att EXCEPT ![Attempt(s)].status = "failed"]
    /\ op' = [op EXCEPT ![<<claim[s].job, claim[s].ord>>].status = "retry_wait",
                        ![<<claim[s].job, claim[s].ord>>].wait = delay]
    /\ UNCHANGED <<jobStatus, opCount, env, ws, claim>>

\* settle_failure with RetryAt and an attempt left: wait out the delay.
SettleRetry(s, delay) ==
    /\ MaySettle(s)
    /\ claim[s].num < MaxAttempts[<<claim[s].job, claim[s].ord>>]
    /\ FinalCheckpoint(s)
    /\ att' = [att EXCEPT ![Attempt(s)].status = "failed"]
    /\ op' = [op EXCEPT ![<<claim[s].job, claim[s].ord>>].status = "retry_wait",
                        ![<<claim[s].job, claim[s].ord>>].wait = delay]
    /\ UNCHANGED <<jobStatus, opCount, env, ws, claim>>

\* settle_failure that is terminal, or has used the last attempt.
SettleFailed(s) ==
    LET j == claim[s].job
    IN  /\ MaySettle(s)
        /\ FinalCheckpoint(s)
        /\ att' = [att EXCEPT ![Attempt(s)].status = "failed"]
        /\ op' = [op EXCEPT ![<<j, claim[s].ord>>].status = "failed"]
        /\ jobStatus' = [jobStatus EXCEPT ![j] = "failed"]
        /\ env' = ReleaseRequested(j)
        /\ UNCHANGED <<opCount, ws, claim>>

AcknowledgeCancellation(s) ==
    LET j == claim[s].job
    IN  /\ Fenced(s)
        /\ jobStatus[j] = "cancelling"
        /\ EnvReleased(j)
        /\ att' = [att EXCEPT ![Attempt(s)].status = "abandoned"]
        /\ op' = Cancelled(j)
        /\ jobStatus' = [jobStatus EXCEPT ![j] = "cancelled"]
        /\ UNCHANGED <<opCount, ckpts, env, ws, claim>>

\* The handle is gone: run_attempt returned, or the process died.
Drop(s) ==
    /\ claim[s] # NoClaim
    /\ claim' = [claim EXCEPT ![s] = NoClaim]
    /\ UNCHANGED <<jobStatus, opCount, op, att, ckpts, env, ws>>

-----------------------------------------------------------------------------
(* The environment row (store/environments.rs).                            *)

EnsureEnvironment(s) ==
    LET j == claim[s].job
    IN  /\ Fenced(s)
        /\ jobStatus[j] # "cancelling"
        /\ env[j].status = "absent"
        /\ env' = [env EXCEPT ![j] = [gen |-> 1, desired |-> "active",
                                      status |-> "provisioning"]]
        /\ UNCHANGED <<jobStatus, opCount, op, att, ckpts, ws, claim>>

\* mark_execution_environment_ready and _failed
MarkEnvironment(s, status) ==
    LET j == claim[s].job
    IN  /\ Fenced(s)
        /\ jobStatus[j] # "cancelling"
        /\ env[j].status # "absent"
        /\ env[j].desired = "active"
        /\ env' = [env EXCEPT ![j].status = status]
        /\ UNCHANGED <<jobStatus, opCount, op, att, ckpts, ws, claim>>

RequestCancellingRelease(s) ==
    LET j == claim[s].job
    IN  /\ Fenced(s)
        /\ jobStatus[j] = "cancelling"
        /\ env' = ReleaseRequested(j)
        /\ UNCHANGED <<jobStatus, opCount, op, att, ckpts, ws, claim>>

\* mark_execution_environment_released: any process, no lease; the backend
\* object of this generation is gone.
MarkReleased(j) ==
    /\ env[j].status = "releasing"
    /\ env[j].desired = "released"
    /\ env' = [env EXCEPT ![j].status = "released"]
    /\ UNCHANGED <<jobStatus, opCount, op, att, ckpts, ws, claim>>

-----------------------------------------------------------------------------

UserStep(j) ==
    \/ CreateJob(j)
    \/ EnsureWorkspace(j)
    \/ RemoveWorkspace(j)
    \/ RequestCancellation(j)
    \/ CancelIdle(j)
    \/ ContinueJob(j)

ClaimStep(s) ==
    \E j \in Jobs, o \in Ordinals : ClaimNew(s, j, o) \/ ClaimExpired(s, j, o)

HandleStep(s) ==
    \/ RenewAttempt(s)
    \/ RelinquishAttempt(s)
    \/ SaveCheckpoint(s)
    \/ SettleSucceeded(s)
    \/ \E delay \in 0 .. BackoffTerm : SettleRetry(s, delay)
    \/ SettleFailed(s)
    \/ AcknowledgeCancellation(s)
    \/ Drop(s)
    \/ EnsureEnvironment(s)
    \/ \E status \in {"ready", "failed"} : MarkEnvironment(s, status)
    \/ RequestCancellingRelease(s)

TimeStep ==
    \/ \E j \in Jobs, o \in Ordinals, n \in Numbers : LeaseRuns(j, o, n)
    \/ \E j \in Jobs, o \in Ordinals : BackoffRuns(j, o)

Next ==
    \/ \E j \in Jobs : UserStep(j) \/ MarkReleased(j)
    \/ \E s \in Slots : ClaimStep(s) \/ HandleStep(s)
    \/ TimeStep

Spec == Init /\ [][Next]_vars

-----------------------------------------------------------------------------
(* Properties.                                                             *)

\* Two slots never both pass lock_attempt_context for the same job, whatever
\* leases expired, were transferred or were relinquished in between, and also
\* when both belong to one worker process: only one can write or settle.
FenceExclusive ==
    \A s, t \in Slots :
        s # t /\ Fenced(s) /\ Fenced(t) => claim[s].job # claim[t].job

\* Every operation of j that was ever attempted has only succeeded predecessors.
StartedInOrder(j) ==
    \A o \in Ordinals : op[<<j, o>>].made > 0 => PredecessorsSucceeded(j, o)

\* An operation that was ever attempted has only succeeded predecessors: no
\* retry, lease transfer, cancellation or continuation starts a stage early.
StagesInOrder == \A j \in Jobs : StartedInOrder(j)

\* A terminal job is quiet: no attempt runs, so no old handle can write for it,
\* and its environment, if it has one, is on its way out.
TerminalIsQuiet ==
    \A j \in Jobs :
        jobStatus[j] \in Terminal =>
            /\ ~HasRunningAttempt(j)
            /\ env[j].status # "absent" => env[j].desired = "released"

\* Operation o is what the job waits for, and somebody can work on it.
HasWork(j, o) ==
    /\ PredecessorsSucceeded(j, o)
    /\ \/ /\ op[<<j, o>>].status \in {"ready", "retry_wait"}
          /\ op[<<j, o>>].made < MaxAttempts[<<j, o>>]
          /\ jobStatus[j] # "cancelling"
       \/ /\ op[<<j, o>>].status = "running"
          /\ att[<<j, o, op[<<j, o>>].made>>].status = "running"

WorkIfActive(j) ==
    jobStatus[j] \in {"queued", "running", "cancelling"} =>
        \E o \in 0 .. (opCount[j] - 1) : HasWork(j, o)

\* A job that is not terminal can always move on: its first operation that has
\* not succeeded is ready, waits with an attempt left, or has a running attempt
\* that some worker owns or can recover; while cancelling, the latter.
ActiveJobHasWork == \A j \in Jobs : WorkIfActive(j)

\* Progress never forks: every checkpoint newer than the one the live owner
\* resumed from was written by that owner under its own lease generation.
ProgressNotForked ==
    \A s \in Slots : Fenced(s) =>
        \A q \in Positions(claim[s].job, claim[s].ord) :
            Newer(q, claim[s].resume) =>
                /\ q.ord = claim[s].ord
                /\ q.num = claim[s].num
                /\ ckpts[Attempt(s)][q.seq] = claim[s].epoch

\* A requested cancellation is never lost: from "cancelling" the job can only
\* become "cancelled", whatever the worker was about to settle, and it stays so.
CancellationSticks ==
    [][\A j \in Jobs :
        /\ jobStatus[j] = "cancelling" => jobStatus'[j] \in {"cancelling", "cancelled"}
        /\ jobStatus[j] = "cancelled" => jobStatus'[j] = "cancelled"]_vars

\* What a settled attempt left behind is history: its outcome, its owner and
\* its checkpoints never change again, not even by its own late calls.
SettledIsFinal ==
    [][\A k \in AttemptIds :
        att[k].status \notin {"absent", "running"} =>
            att'[k] = att[k] /\ ckpts'[k] = ckpts[k]]_vars

\* A stage that succeeded stays succeeded, and a job ends as succeeded only
\* with all of its stages: a continuation appends and never redoes.
SucceededStagesKept ==
    [][/\ \A p \in OperationIds :
            op[p].status = "succeeded" => op'[p].status = "succeeded"
       /\ \A j \in Jobs :
            jobStatus'[j] = "succeeded" =>
                \A o \in 0 .. (opCount'[j] - 1) : op'[<<j, o>>].status = "succeeded"]_vars

\* An environment is torn down only for a job that will not use it: no step
\* asks for or completes a release while an attempt may still settle.
ReleaseOnlyAtEnd ==
    \A j \in Jobs :
        env[j].status \in {"releasing", "released"} =>
            jobStatus[j] \in Terminal \cup {"cancelling"}

-----------------------------------------------------------------------------
(* The inductive invariant behind the properties above.  All of it but the *)
(* last part speaks about one job at a time.                               *)

\* Operation rows are exactly the ordinals below opCount.
OperationsInRange(j) ==
    \A o \in Ordinals :
        /\ op[<<j, o>>].status = "absent" <=> o >= opCount[j]
        /\ op[<<j, o>>].status \in {"absent", "ready"} => op[<<j, o>>].made = 0
        /\ op[<<j, o>>].status \in {"running", "retry_wait", "succeeded", "failed"}
              => op[<<j, o>>].made > 0
        /\ op[<<j, o>>].status = "retry_wait"
              => op[<<j, o>>].made < MaxAttempts[<<j, o>>]

\* Attempt rows are exactly the numbers up to made; one runs if and only if
\* its operation does, and then it is the latest.
AttemptsMatchOperations(j) ==
    \A o \in Ordinals, n \in Numbers :
        /\ att[<<j, o, n>>].status = "absent" <=> n > op[<<j, o>>].made
        /\ att[<<j, o, n>>].status = "running" <=>
              op[<<j, o>>].status = "running" /\ n = op[<<j, o>>].made

\* What an operation's status says about its job's.
OperationsMatchJob(j) ==
    /\ jobStatus[j] = "none" => opCount[j] = 0
    /\ \A o \in Ordinals :
          /\ op[<<j, o>>].status = "running" =>
                jobStatus[j] \in {"running", "cancelling"}
          /\ op[<<j, o>>].status = "failed" => jobStatus[j] = "failed"
          /\ op[<<j, o>>].status = "cancelled" => jobStatus[j] = "cancelled"
          /\ jobStatus[j] = "succeeded" /\ o < opCount[j] =>
                op[<<j, o>>].status = "succeeded"

\* The environment row follows the job.
EnvironmentMatchesJob(j) ==
    /\ env[j].desired = "released" <=>
          env[j].status \in {"releasing", "released"}
    /\ env[j].desired = "released" =>
          jobStatus[j] \in Terminal \cup {"cancelling"}
    /\ jobStatus[j] \in Terminal /\ env[j].status # "absent" =>
          env[j].desired = "released"

\* A handle names an attempt that exists, is never ahead of it, and no two
\* slots hold the same lease generation of the same attempt.
HandlesAreGenerations ==
    /\ \A s \in Slots : claim[s] # NoClaim =>
          /\ att[Attempt(s)].status # "absent"
          /\ claim[s].epoch <= att[Attempt(s)].epoch
    /\ \A s, t \in Slots :
          /\ s # t /\ claim[s] # NoClaim /\ claim[t] # NoClaim
          /\ claim[s].epoch = claim[t].epoch
          => Attempt(s) # Attempt(t)

JobInv(j) ==
    /\ OperationsInRange(j)
    /\ AttemptsMatchOperations(j)
    /\ StartedInOrder(j)
    /\ OperationsMatchJob(j)
    /\ WorkIfActive(j)
    /\ EnvironmentMatchesJob(j)

\* The rows of a job, of its operations, attempts and environment agree, and
\* no lease generation is held twice: what every transaction relies on.
Inv ==
    /\ TypeOK
    /\ \A j \in Jobs : JobInv(j)
    /\ HandlesAreGenerations

\* The handle is the current generation of a running attempt; its lease may
\* have run out.
Current(s) ==
    /\ claim[s] # NoClaim
    /\ att[Attempt(s)].status = "running"
    /\ att[Attempt(s)].epoch = claim[s].epoch

\* What ProgressNotForked says of every current handle: a lease that expires
\* and is renewed in time by nobody else loses nothing.
ResumeInv ==
    \A s \in Slots : Current(s) =>
        \A q \in Positions(claim[s].job, claim[s].ord) :
            Newer(q, claim[s].resume) =>
                /\ q.ord = claim[s].ord
                /\ q.num = claim[s].num
                /\ ckpts[Attempt(s)][q.seq] = claim[s].epoch

=============================================================================
