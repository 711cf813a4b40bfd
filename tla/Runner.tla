------------------------------- MODULE Runner -------------------------------
(***************************************************************************)
(* The worker process over the durable store: every slot runs the          *)
(* run_attempt loop of coordinator/src/runner.rs beside the executor task  *)
(* of runtime/src/executor/mod.rs, and both use the worktree of the job    *)
(* under its advisory lock (store/workspace_locks.rs).                     *)
(*                                                                         *)
(* - Every step is an action of Coordinator or leaves the store alone.     *)
(* - A process may be paused between any two steps: its lease then runs    *)
(*   out and another slot takes the attempt over while the first one still *)
(*   believes that it owns it.                                             *)
(* - tree is what a worktree holds beyond the revision of the job: the     *)
(*   ordinals of the stages whose files are in it.                         *)
(* - Faults (a crash, a shutdown, a database error, a failed cleanup) and  *)
(*   lease expirations are bounded by the lease generations of an attempt: *)
(*   the last generation MaxEpoch allows meets none of them.               *)
(***************************************************************************)
EXTENDS Coordinator

CONSTANT Removals       \* the statuses of a job in which its users delete its workspace

ASSUME RemovalsAssumption == Removals \subseteq JobStatuses

ASSUME SlotsAssumption == NoClaim \notin Slots

\* Every completed stage has a final checkpoint.
ASSUME RoomAssumption == MaxCheckpoints > 0

VARIABLES
    run,        \* where run_attempt is in each slot
    exec,       \* where the executor task is, or how it ended
    lock,       \* the slot that holds the advisory lock of a job's worktree
    tree        \* the stages whose work is in the worktree

runnerVars == <<run, exec, lock, tree>>
allVars == <<jobStatus, opCount, op, att, ckpts, env, ws, claim, run, exec, lock, tree>>

Draining == {"drainCancel", "drainShutdown", "drainLost"}
RunStates == Draining \cup
    {"idle", "claimed", "renewed", "seenActive", "seenCancelling", "loop",
     "settle", "cleanCancel", "cleanShutdown", "release", "releasing", "ack",
     "relinquish", "ending"}
Outcomes == {"complete", "retry", "terminal", "error"}
InWorktree == {"locked", "prepared", "provisioning", "working"}
ExecStates == Outcomes \cup InWorktree \cup {"none", "waiting"}

RunnerTypeOK ==
    /\ run \in [Slots -> RunStates]
    /\ exec \in [Slots -> ExecStates]
    /\ lock \in [Jobs -> Slots \cup {NoClaim}]
    /\ tree \in [Jobs -> SUBSET Ordinals]

RunnerInit ==
    /\ Init
    /\ run = [s \in Slots |-> "idle"]
    /\ exec = [s \in Slots |-> "none"]
    /\ lock = [j \in Jobs |-> NoClaim]
    /\ tree = [j \in Jobs |-> {}]

-----------------------------------------------------------------------------

Goto(s, state) == run' = [run EXCEPT ![s] = state]

\* The executor task ends or moves on; a task that ends gives the lock back.
ExecGoto(s, state) == exec' = [exec EXCEPT ![s] = state]

Unlocked(s) == lock' = [j \in Jobs |-> IF lock[j] = s THEN NoClaim ELSE lock[j]]

\* OperationKind::at_ordinal: only the first stage of a job is Plan.
IsPlan(s) == claim[s].ord = 0

\* The bound leaves another owner for the attempt if this one fails.
Spare(s) == Fenced(s) => att[Attempt(s)].epoch < MaxEpoch

-----------------------------------------------------------------------------
(* run_attempt up to the loop.                                             *)

Claim(s) ==
    /\ run[s] = "idle"
    /\ ClaimStep(s)
    /\ Goto(s, "claimed")
    /\ UNCHANGED <<exec, lock, tree>>

\* The two renewals around load_job and load_workspace.
FirstRenewal(s) ==
    /\ run[s] = "claimed"
    /\ RenewAttempt(s)
    /\ Goto(s, "renewed")
    /\ UNCHANGED <<exec, lock, tree>>

\* What the slot has seen of the job decides what it does, however old it is.
\* execute_operation fails terminally on a job that is not a factory.task, and
\* on a workspace that was not active.
LoadContext(s) ==
    /\ run[s] = "renewed"
    /\ Goto(s, CASE jobStatus[claim[s].job] \in Terminal -> "ending"
                 [] jobStatus[claim[s].job] = "cancelling" -> "seenCancelling"
                 [] OTHER -> "seenActive")
    /\ ExecGoto(s, IF claim[s].job \in TaskJobs /\ ws[claim[s].job] = "active"
                   THEN "waiting" ELSE "terminal")
    /\ UNCHANGED <<lock, tree>>
    /\ UNCHANGED vars

SecondRenewal(s) ==
    /\ run[s] \in {"seenActive", "seenCancelling"}
    /\ RenewAttempt(s)
    /\ IF run[s] = "seenActive"
       THEN Goto(s, "loop") /\ UNCHANGED exec
       ELSE Goto(s, "cleanCancel") /\ ExecGoto(s, "none")
    /\ UNCHANGED <<lock, tree>>

\* A renewal before the loop fails: run_attempt returns the error.
RenewalRefused(s) ==
    /\ run[s] \in {"claimed", "seenActive", "seenCancelling"}
    /\ ~Fenced(s)
    /\ Goto(s, "ending")
    /\ ExecGoto(s, "none")
    /\ UNCHANGED <<lock, tree>>
    /\ UNCHANGED vars

-----------------------------------------------------------------------------
(* The loop: heartbeat, job control, shutdown, and the executor's result.  *)

\* Mutant: the lease is renewed by the attempt's id alone.
HeartbeatUnfenced(s) ==
    /\ run[s] = "loop"
    /\ att' = [att EXCEPT ![Attempt(s)].lease = LeaseTerm]
    /\ UNCHANGED <<jobStatus, opCount, op, ckpts, env, ws, claim>>
    /\ UNCHANGED runnerVars

Heartbeat(s) ==
    /\ run[s] = "loop"
    /\ RenewAttempt(s)
    /\ UNCHANGED runnerVars

\* The renewal is refused, times out or meets a database error.
HeartbeatFails(s) ==
    /\ run[s] = "loop"
    /\ Spare(s)
    /\ Goto(s, "drainLost")
    /\ UNCHANGED <<exec, lock, tree>>
    /\ UNCHANGED vars

\* Mutant: the cancellation is acknowledged without waiting for the executor.
JobControlWithoutDrain(s) ==
    /\ run[s] = "loop"
    /\ \/ jobStatus[claim[s].job] = "cancelling" /\ Goto(s, "release")
       \/ jobStatus[claim[s].job] \in Terminal /\ Goto(s, "drainLost")
    /\ UNCHANGED <<exec, lock, tree>>
    /\ UNCHANGED vars

JobControl(s) ==
    /\ run[s] = "loop"
    /\ \/ jobStatus[claim[s].job] = "cancelling" /\ Goto(s, "drainCancel")
       \/ jobStatus[claim[s].job] \in Terminal /\ Goto(s, "drainLost")
    /\ UNCHANGED <<exec, lock, tree>>
    /\ UNCHANGED vars

Shutdown(s) ==
    /\ run[s] = "loop"
    /\ Spare(s)
    /\ Goto(s, "drainShutdown")
    /\ UNCHANGED <<exec, lock, tree>>
    /\ UNCHANGED vars

\* cancel_and_drain returns: the task has ended, its result is not used.
Drained(s) ==
    /\ run[s] \in Draining
    /\ exec[s] \in Outcomes \cup {"none"}
    /\ Goto(s, CASE run[s] = "drainCancel" -> "cleanCancel"
                 [] run[s] = "drainShutdown" -> "cleanShutdown"
                 [] OTHER -> "ending")
    /\ ExecGoto(s, "none")
    /\ UNCHANGED <<lock, tree>>
    /\ UNCHANGED vars

\* The executor joined: a lease or database error ends the attempt's task and
\* leaves the attempt to recovery, any other result is settled.
Joined(s) ==
    /\ run[s] = "loop"
    /\ exec[s] \in Outcomes
    /\ Goto(s, IF exec[s] = "error" THEN "ending" ELSE "settle")
    /\ IF exec[s] = "error" THEN ExecGoto(s, "none") ELSE UNCHANGED exec
    /\ UNCHANGED <<lock, tree>>
    /\ UNCHANGED vars

\* settle_outcome: only a completed stage has a final checkpoint, and a retry
\* after the last attempt is a failure.
Settle(s) ==
    /\ run[s] = "settle"
    /\ \/ /\ exec[s] = "complete"
          /\ SettleSucceeded(s)
          /\ ckpts' = Checkpointed(s)
       \/ /\ exec[s] = "retry"
          /\ \/ SettleRetry(s, BackoffTerm)
             \/ /\ claim[s].num = MaxAttempts[<<claim[s].job, claim[s].ord>>]
                /\ SettleFailed(s)
          /\ UNCHANGED ckpts
       \/ /\ exec[s] = "terminal"
          /\ SettleFailed(s)
          /\ UNCHANGED ckpts
    /\ Goto(s, "ending")
    /\ ExecGoto(s, "none")
    /\ UNCHANGED <<lock, tree>>

\* JobCancellationRequested leads to the cleanup, a lost lease to the end.
SettleRefused(s) ==
    /\ run[s] = "settle"
    /\ \/ ~Fenced(s) /\ Goto(s, "ending")
       \/ Fenced(s) /\ ~MaySettle(s) /\ Goto(s, "cleanCancel")
    /\ ExecGoto(s, "none")
    /\ UNCHANGED <<lock, tree>>
    /\ UNCHANGED vars

\* run_attempt returns.
End(s) ==
    /\ run[s] = "ending"
    /\ Drop(s)
    /\ Goto(s, "idle")
    /\ ExecGoto(s, "none")
    /\ UNCHANGED <<lock, tree>>

\* The process dies: the handle, the task and its database session are gone.
Crash(s) ==
    /\ run[s] \notin {"idle", "ending"}
    /\ Spare(s)
    /\ Drop(s)
    /\ Goto(s, "idle")
    /\ ExecGoto(s, "none")
    /\ Unlocked(s)
    /\ UNCHANGED tree

-----------------------------------------------------------------------------
(* Cleanup: cleanup_cancelled, the release of the environment, and the     *)
(* acknowledgement.  The lease is not renewed during any of it.            *)

Cleaning == {"cleanCancel", "cleanShutdown"}

\* Mutant: the cleanup does not wait for the worktree.
CleanupLockAtOnce(s) ==
    /\ run[s] \in Cleaning
    /\ lock' = [lock EXCEPT ![claim[s].job] = s]
    /\ UNCHANGED <<run, exec, tree>>
    /\ UNCHANGED vars

CleanupLock(s) ==
    /\ run[s] \in Cleaning
    /\ lock[claim[s].job] = NoClaim
    /\ lock' = [lock EXCEPT ![claim[s].job] = s]
    /\ UNCHANGED <<run, exec, tree>>
    /\ UNCHANGED vars

\* An attempt that resumed from a checkpoint first records a correlation, and a
\* Plan its cleared state, both under the fence; a fresh one asks for neither.
CleanupAllowed(s) == claim[s].resume # Fresh => Fenced(s)

\* A cancelled Plan is rolled back to the recorded revision.
Cleanup(s) ==
    LET j == claim[s].job
    IN  /\ run[s] \in Cleaning
        /\ lock[j] = s
        /\ CleanupAllowed(s)
        /\ tree' = IF IsPlan(s) THEN [tree EXCEPT ![j] = {}] ELSE tree
        /\ Unlocked(s)
        /\ Goto(s, IF run[s] = "cleanCancel" THEN "release" ELSE "relinquish")
        /\ UNCHANGED exec
        /\ UNCHANGED vars

CleanupRefused(s) ==
    /\ run[s] \in Cleaning
    /\ lock[claim[s].job] = s
    /\ ~CleanupAllowed(s)
    /\ Unlocked(s)
    /\ Goto(s, "relinquish")
    /\ UNCHANGED <<exec, tree>>
    /\ UNCHANGED vars

\* Also the release of the environment or the acknowledgement may fail.
CleanupFails(s) ==
    /\ \/ run[s] \in Cleaning /\ lock[claim[s].job] = s
       \/ run[s] \in {"release", "releasing", "ack"}
    /\ Spare(s)
    /\ Unlocked(s)
    /\ Goto(s, "relinquish")
    /\ UNCHANGED <<exec, tree>>
    /\ UNCHANGED vars

\* request_cancelling_execution_environment_release
ReleaseEnvironment(s) ==
    /\ run[s] = "release"
    /\ RequestCancellingRelease(s)
    /\ Goto(s, IF env[claim[s].job].status = "absent" THEN "ack" ELSE "releasing")
    /\ UNCHANGED <<exec, lock, tree>>

\* The backend object is gone; a reconciler may have recorded it already.
EnvironmentReleased(s) ==
    LET j == claim[s].job
    IN  /\ run[s] = "releasing"
        /\ \/ MarkReleased(j)
           \/ env[j].status = "released" /\ UNCHANGED vars
        /\ Goto(s, "ack")
        /\ UNCHANGED <<exec, lock, tree>>

Acknowledge(s) ==
    /\ run[s] = "ack"
    /\ AcknowledgeCancellation(s)
    /\ Goto(s, "ending")
    /\ UNCHANGED <<exec, lock, tree>>

\* The lease was lost on the way.
CancellationRefused(s) ==
    /\ run[s] \in {"release", "ack"}
    /\ ~Fenced(s)
    /\ Goto(s, "relinquish")
    /\ UNCHANGED <<exec, lock, tree>>
    /\ UNCHANGED vars

\* relinquish_attempt, whose own error is ignored.
Relinquish(s) ==
    /\ run[s] = "relinquish"
    /\ IF Fenced(s) THEN RelinquishAttempt(s) ELSE UNCHANGED vars
    /\ Goto(s, "ending")
    /\ UNCHANGED <<exec, lock, tree>>

-----------------------------------------------------------------------------
(* The executor task: execute_operation.                                   *)

Running(s) == run[s] \in {"loop"} \cup Draining

\* acquire_workspace_execution
ExecLock(s) ==
    /\ Running(s)
    /\ exec[s] = "waiting"
    /\ lock[claim[s].job] = NoClaim
    /\ lock' = [lock EXCEPT ![claim[s].job] = s]
    /\ ExecGoto(s, "locked")
    /\ UNCHANGED <<run, tree>>
    /\ UNCHANGED vars

\* The wait for the lock is the first place that listens to cancellation.
ExecNotStarted(s) ==
    /\ run[s] \in Draining
    /\ exec[s] = "waiting"
    /\ ExecGoto(s, "none")
    /\ UNCHANGED <<run, lock, tree>>
    /\ UNCHANGED vars

\* prepare_plan_workspace: a Plan starts from the recorded revision.  Nothing
\* is asked of the store before the worktree is reset.
ExecPrepare(s) ==
    /\ exec[s] = "locked"
    /\ tree' = IF IsPlan(s) THEN [tree EXCEPT ![claim[s].job] = {}] ELSE tree
    /\ ExecGoto(s, "prepared")
    /\ UNCHANGED <<run, lock>>
    /\ UNCHANGED vars

\* ensure_execution_environment: create or find the row, then record the
\* backend's answer; all of it is fenced and refused while cancelling.
ExecEnsure(s) ==
    LET j == claim[s].job
    IN  /\ exec[s] = "prepared"
        /\ \/ EnsureEnvironment(s)
           \/ /\ MaySettle(s)
              /\ env[j].status # "absent" /\ env[j].desired = "active"
              /\ UNCHANGED vars
        /\ ExecGoto(s, "provisioning")
        /\ UNCHANGED <<run, lock, tree>>

ExecReady(s) ==
    /\ exec[s] = "provisioning"
    /\ MarkEnvironment(s, "ready")
    /\ ExecGoto(s, "working")
    /\ UNCHANGED <<run, lock, tree>>

ExecProvisionFails(s) ==
    /\ exec[s] = "provisioning"
    /\ MarkEnvironment(s, "failed")
    /\ ExecGoto(s, "retry")
    /\ Unlocked(s)
    /\ UNCHANGED <<run, tree>>

\* The fence is lost (an error that is not settled) or the job is cancelling
\* (one that is).
ExecRefused(s) ==
    /\ exec[s] \in {"prepared", "provisioning"}
    /\ ~MaySettle(s)
    /\ ExecGoto(s, IF Fenced(s) THEN "retry" ELSE "error")
    /\ Unlocked(s)
    /\ UNCHANGED <<run, tree>>
    /\ UNCHANGED vars

\* A checkpoint of the running stage; the bound keeps room for the final one.
ExecCheckpoint(s) ==
    /\ exec[s] = "working"
    /\ Len(ckpts[Attempt(s)]) + 1 < MaxCheckpoints
    /\ SaveCheckpoint(s)
    /\ UNCHANGED runnerVars

\* The stage ends and its files are in the worktree.  A Plan writes none, and
\* one that fails is rolled back if its thread state can still be saved.
ExecFinish(s, outcome) ==
    LET j == claim[s].job
    IN  /\ exec[s] = "working"
        /\ run[s] = "loop"
        /\ IF IsPlan(s)
           THEN tree' = IF outcome # "complete" /\ Fenced(s)
                        THEN [tree EXCEPT ![j] = {}] ELSE tree
           ELSE tree' = [tree EXCEPT ![j] = @ \cup {claim[s].ord}]
        /\ ExecGoto(s, outcome)
        /\ Unlocked(s)
        /\ UNCHANGED run
        /\ UNCHANGED vars

\* A stage that is cancelled stops where it is.
ExecCancelled(s) ==
    LET j == claim[s].job
    IN  /\ exec[s] = "working"
        /\ run[s] \in Draining
        /\ IF IsPlan(s)
           THEN tree' = IF Fenced(s) THEN [tree EXCEPT ![j] = {}] ELSE tree
           ELSE \/ UNCHANGED tree
                \/ tree' = [tree EXCEPT ![j] = @ \cup {claim[s].ord}]
        /\ ExecGoto(s, "none")
        /\ Unlocked(s)
        /\ UNCHANGED run
        /\ UNCHANGED vars

-----------------------------------------------------------------------------
(* Users and time.                                                         *)

\* ensure, remove and continue_job hold the advisory lock while they work.
UserLocked(j) ==
    /\ lock[j] = NoClaim
    /\ \/ EnsureWorkspace(j) /\ tree' = [tree EXCEPT ![j] = {}]
       \/ jobStatus[j] \in Removals /\ RemoveWorkspace(j) /\ tree' = [tree EXCEPT ![j] = {}]
       \/ ContinueJob(j) /\ UNCHANGED tree
    /\ UNCHANGED <<run, exec, lock>>

UserUnlocked(j) ==
    /\ CreateJob(j) \/ RequestCancellation(j) \/ CancelIdle(j)
    /\ UNCHANGED runnerVars

\* reconcile_releasing_environments, at startup, on every poll and after every
\* settlement of any worker.
Reconcile(j) ==
    /\ MarkReleased(j)
    /\ UNCHANGED runnerVars

\* A lease of the last generation the bound allows does not run out.
LeaseTick(j, o, n) ==
    /\ att[<<j, o, n>>].lease > 1 \/ att[<<j, o, n>>].epoch < MaxEpoch
    /\ LeaseRuns(j, o, n)
    /\ UNCHANGED runnerVars

BackoffTick(j, o) ==
    /\ BackoffRuns(j, o)
    /\ UNCHANGED runnerVars

-----------------------------------------------------------------------------

\* What a slot does when nothing goes wrong around it.
RunProgress(s) ==
    \/ FirstRenewal(s) \/ LoadContext(s) \/ SecondRenewal(s) \/ RenewalRefused(s)
    \/ JobControl(s) \/ Drained(s) \/ Joined(s) \/ Settle(s) \/ SettleRefused(s)
    \/ CleanupLock(s) \/ Cleanup(s) \/ CleanupRefused(s) \/ ReleaseEnvironment(s)
    \/ EnvironmentReleased(s) \/ Acknowledge(s) \/ CancellationRefused(s)
    \/ Relinquish(s) \/ End(s)

RunFault(s) == HeartbeatFails(s) \/ Shutdown(s) \/ CleanupFails(s) \/ Crash(s)

ExecProgress(s) ==
    \/ ExecLock(s) \/ ExecNotStarted(s) \/ ExecPrepare(s) \/ ExecEnsure(s)
    \/ ExecReady(s) \/ ExecProvisionFails(s) \/ ExecRefused(s) \/ ExecCheckpoint(s)
    \/ \E outcome \in {"complete", "retry", "terminal"} : ExecFinish(s, outcome)
    \/ ExecCancelled(s)

RunnerNext ==
    \/ \E s \in Slots :
          \/ Claim(s) \/ Heartbeat(s) \/ RunProgress(s) \/ RunFault(s)
          \/ ExecProgress(s)
    \/ \E j \in Jobs : UserLocked(j) \/ UserUnlocked(j) \/ Reconcile(j)
    \/ \E j \in Jobs, o \in Ordinals, n \in Numbers : LeaseTick(j, o, n)
    \/ \E j \in Jobs, o \in Ordinals : BackoffTick(j, o)

\* Some worker keeps polling for work and for releases, tasks are scheduled,
\* requests are answered, a turn of the agent ends, and time passes.
RunnerFairness ==
    /\ WF_allVars(\E s \in Slots : Claim(s))
    /\ \A s \in Slots : WF_allVars(RunProgress(s)) /\ WF_allVars(ExecProgress(s))
    /\ \A j \in Jobs : WF_allVars(Reconcile(j))
    /\ \A j \in Jobs : WF_allVars(\E o \in Ordinals : BackoffTick(j, o) \/ \E n \in Numbers : LeaseTick(j, o, n))

RunnerSafety == RunnerInit /\ [][RunnerNext]_allVars

RunnerSpec == RunnerSafety /\ RunnerFairness

-----------------------------------------------------------------------------
(* Properties.                                                             *)

\* Every step of every worker is a transaction of the store, so what holds for
\* any callers of the store holds for these.
StoreSpec == Spec

\* Once a job is terminal nobody works in its worktree: a cancellation is
\* acknowledged, and a job failed or completed, only after the executor of
\* every earlier owner has stopped, although an owner that lost its lease is
\* told only by its next heartbeat.
TerminalIsDrained ==
    \A s \in Slots : exec[s] = "working" =>
        jobStatus[claim[s].job] \notin Terminal

\* Two slots never use one worktree at a time, whichever of them believes that
\* it owns the attempt.
WorktreeExclusive ==
    \A s, t \in Slots :
        /\ s # t
        /\ exec[s] \in InWorktree /\ exec[t] \in InWorktree
        => claim[s].job # claim[t].job

\* A cancellation that was requested is carried out: some owner stops the
\* executor, cleans up, releases the environment and acknowledges.
CancellationCompletes ==
    \A j \in Jobs : jobStatus[j] = "cancelling" ~> jobStatus[j] = "cancelled"

\* A job with a workspace ends, whatever its workers went through.
JobEnds ==
    \A j \in Jobs :
        jobStatus[j] \in {"queued", "running"} /\ ws[j] = "active"
            ~> jobStatus[j] \in Terminal

\* The worktree keeps what a succeeded stage left in it: a lease handle that
\* was taken over is "permanently stale" and can no longer undo later work.
SucceededWorkKept ==
    \A j \in Jobs, o \in Ordinals :
        o > 0 /\ op[<<j, o>>].status = "succeeded" /\ ws[j] = "active" =>
            o \in tree[j]

-----------------------------------------------------------------------------
(* The inductive invariant behind WorktreeExclusive.                       *)

\* A slot holds a handle exactly while run_attempt runs in it.
SlotsBusy == \A s \in Slots : run[s] = "idle" <=> claim[s] = NoClaim

\* An executor that is in the worktree of a job belongs to a loop that is still
\* there to drain it, and its slot holds the lock of that job.
WorktreeLocked ==
    \A s \in Slots : exec[s] \in InWorktree =>
        Running(s) /\ lock[claim[s].job] = s

RunnerInv ==
    /\ TypeOK
    /\ RunnerTypeOK
    /\ SlotsBusy
    /\ WorktreeLocked

-----------------------------------------------------------------------------
(* The inductive invariant behind TerminalIsDrained.                       *)

\* Where the present owner of an attempt may be while an earlier one works: not
\* beyond the lock of the worktree, so not near a settlement either.
BehindLock == {"claimed", "renewed", "seenActive", "seenCancelling", "loop", "ending"}
                  \cup Draining \cup Cleaning

\* A slot that loads its context has no executor yet.
NoEarlyExecutor ==
    \A s \in Slots : run[s] \in {"idle", "claimed", "renewed"} => exec[s] = "none"

\* Only a factory.task gets as far as the worktree.
WorktreesOfTasks ==
    \A s \in Slots : exec[s] \in {"waiting"} \cup InWorktree => claim[s].job \in TaskJobs

\* An executor works for an attempt that runs, its own lease or another's.
WorksForRunning ==
    \A s \in Slots : exec[s] = "working" => att[Attempt(s)].status = "running"

\* While it works, a slot that took the attempt over is held up by the lock.
SuccessorHeldUp ==
    \A s, t \in Slots :
        /\ s # t /\ exec[s] = "working"
        /\ Current(t) /\ claim[t].job = claim[s].job
        => /\ ws[claim[t].job] = "active"
           /\ run[t] \in BehindLock
           /\ exec[t] \in {"none", "waiting"}

DrainInv ==
    /\ NoEarlyExecutor
    /\ WorktreesOfTasks
    /\ WorksForRunning
    /\ SuccessorHeldUp

=============================================================================
