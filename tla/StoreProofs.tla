----------------------------- MODULE StoreProofs -----------------------------
(***************************************************************************)
(* Proofs about the store and the workers on top of it, for every set of   *)
(* jobs, slots and workers and every value of the bounds, in three parts:  *)
(*                                                                         *)
(* - Coordinator: facts about the constants, type correctness, the         *)
(*   inductive invariant one action at a time, and the properties that     *)
(*   follow from it;                                                       *)
(* - CoordinatorRefinement: the coordinator implements the job lifecycle.  *)
(*   Six transactions change what a client sees of a job; each of them     *)
(*   maps to the lifecycle action of the same meaning and every other step *)
(*   to a stutter;                                                         *)
(* - Runner: the workers refine the store, so its theorems hold for them,  *)
(*   and they share worktrees without meeting in one.                      *)
(***************************************************************************)
EXTENDS Runner, CoordinatorRefinement, TLAPS, WellFoundedInduction

USE DEF OperationIds, AttemptIds

-----------------------------------------------------------------------------
(* Constants.                                                              *)

\* A new job's stages fit in the ordinals, whatever bound is chosen.
LEMMA StagesType == Stages \in Nat \ {0} /\ BaseStages <= Stages
<1>1. RoundStages * MaxRounds \in Nat
  BY StagesAssumption
<1>2. QED
  BY <1>1, StagesAssumption DEF Stages

\* The row constants are rows.
LEMMA RowTypes ==
    /\ AbsentOp \in OpRow
    /\ ReadyOp \in OpRow
    /\ AbsentAtt \in AttRow
    /\ AbsentEnv \in EnvRow
    /\ Fresh \in Position
BY BoundsAssumption
DEF AbsentOp, ReadyOp, AbsentAtt, AbsentEnv, Fresh, OpRow, AttRow, EnvRow,
    Position, OpStatuses, Unfinished, AttStatuses, EnvStatuses

-----------------------------------------------------------------------------
(* Type correctness.                                                       *)

LEMMA InitTypeOK == Init => TypeOK
<1> SUFFICES ASSUME Init PROVE TypeOK
  OBVIOUS
<1>1. ckpts \in [AttemptIds -> Seq(1 .. MaxEpoch)]
  BY DEF Init
<1>2. QED
  BY <1>1, RowTypes, StagesType DEF Init, TypeOK, JobStatuses

\* Appending stages keeps the operation table well typed.
LEMMA AppendedType ==
    ASSUME TypeOK, NEW j \in Jobs, NEW n \in Nat
    PROVE  Appended(j, n) \in [OperationIds -> OpRow]
BY RowTypes DEF Appended, TypeOK

LEMMA CancelledType ==
    ASSUME TypeOK, NEW j \in Jobs
    PROVE  Cancelled(j) \in [OperationIds -> OpRow]
<1>1. ASSUME NEW r \in OpRow
      PROVE  [r EXCEPT !.status = "cancelled"] \in OpRow
  BY DEF OpRow, OpStatuses
<1>2. ASSUME NEW p \in OperationIds PROVE op[p] \in OpRow
  BY DEF TypeOK
<1>3. QED
  BY <1>1, <1>2 DEF Cancelled

LEMMA ReleaseRequestedType ==
    ASSUME TypeOK, NEW j \in Jobs
    PROVE  ReleaseRequested(j) \in [Jobs -> EnvRow]
<1> DEFINE requested == [env[j] EXCEPT !.desired = "released",
                                       !.status = IF env[j].status = "released"
                                                  THEN "released" ELSE "releasing"]
<1>1. requested \in EnvRow
  BY DEF TypeOK, EnvRow, EnvStatuses
<1>2. ReleaseRequested(j) = IF env[j].status = "absent"
                            THEN env ELSE [env EXCEPT ![j] = requested]
  BY DEF ReleaseRequested, TypeOK
<1>3. QED
  BY <1>1, <1>2 DEF TypeOK

\* A claim resumes from Fresh or from a checkpoint position of the job.
LEMMA ResumePointType ==
    ASSUME NEW j \in Jobs, NEW o \in Ordinals
    PROVE  ResumePoint(j, o) \in Position
BY RowTypes DEF ResumePoint, Positions

\* The fields of the handle a slot holds.
LEMMA HandleType ==
    ASSUME TypeOK, NEW s \in Slots, claim[s] # NoClaim
    PROVE  /\ claim[s] \in Handle
           /\ claim[s].job \in Jobs
           /\ claim[s].ord \in Ordinals
           /\ claim[s].num \in Numbers
           /\ claim[s].epoch \in 1 .. MaxEpoch
           /\ Attempt(s) \in AttemptIds
           /\ Attempt(s) = <<claim[s].job, claim[s].ord, claim[s].num>>
BY DEF TypeOK, Handle, Attempt

LEMMA UserTypeOK ==
    ASSUME TypeOK, NEW j \in Jobs, UserStep(j)
    PROVE  TypeOK'
<1>1. CASE CreateJob(j)
  BY <1>1, AppendedType, StagesType, StagesAssumption DEF CreateJob, TypeOK, JobStatuses
<1>2. CASE EnsureWorkspace(j)
  BY <1>2 DEF EnsureWorkspace, TypeOK
<1>3. CASE RemoveWorkspace(j)
  BY <1>3 DEF RemoveWorkspace, TypeOK
<1>4. CASE RequestCancellation(j)
  BY <1>4 DEF RequestCancellation, TypeOK, JobStatuses
<1>5. CASE CancelIdle(j)
  BY <1>5, CancelledType, ReleaseRequestedType DEF CancelIdle, TypeOK, JobStatuses
<1>6. CASE ContinueJob(j)
  <2>1. op' \in [OperationIds -> OpRow]
    BY <1>6, AppendedType, StagesAssumption DEF ContinueJob
  <2>2. opCount' \in [Jobs -> 0 .. Stages]
    BY <1>6, StagesAssumption, StagesType DEF ContinueJob, TypeOK
  <2>3. env' \in [Jobs -> EnvRow]
    BY <1>6 DEF ContinueJob, TypeOK, EnvRow, EnvStatuses
  <2>4. QED
    BY <1>6, <2>1, <2>2, <2>3 DEF ContinueJob, TypeOK, JobStatuses
<1>7. QED
  BY <1>1, <1>2, <1>3, <1>4, <1>5, <1>6 DEF UserStep

LEMMA ClaimTypeOK ==
    ASSUME TypeOK, NEW s \in Slots, NEW j \in Jobs, NEW o \in Ordinals,
           ClaimNew(s, j, o) \/ ClaimExpired(s, j, o)
    PROVE  TypeOK'
<1>1. jobStatus' \in [Jobs -> JobStatuses]
  BY DEF ClaimNew, ClaimExpired, ClaimedJob, TypeOK, JobStatuses
<1>2. CASE ClaimNew(s, j, o)
  <2> DEFINE n == op[<<j, o>>].made + 1
  <2>1. n \in Numbers
    BY <1>2, BudgetAssumption, BoundsAssumption
    DEF ClaimNew, Startable, TypeOK, OpRow, Numbers
  <2>2. [status |-> "running", made |-> n, wait |-> 0] \in OpRow
    BY <2>1, BoundsAssumption DEF OpRow, OpStatuses, Unfinished, Numbers
  <2>3. [status |-> "running", owner |-> OwnerOf[s], epoch |-> 1,
         lease |-> LeaseTerm] \in AttRow
    BY WorkersAssumption, BoundsAssumption DEF AttRow, AttStatuses
  <2>4. [job |-> j, ord |-> o, num |-> n, epoch |-> 1,
         resume |-> ResumePoint(j, o)] \in Handle
    BY <2>1, ResumePointType, BoundsAssumption DEF Handle
  <2> HIDE DEF n
  <2>5. QED
    BY <1>1, <1>2, <2>1, <2>2, <2>3, <2>4 DEF ClaimNew, TypeOK, n
<1>3. CASE ClaimExpired(s, j, o)
  <2> DEFINE n == op[<<j, o>>].made
             e == att[<<j, o, n>>].epoch + 1
  <2>1. n \in Numbers
    BY <1>3 DEF ClaimExpired, Expired, TypeOK, OpRow, Numbers
  <2>2. e \in 1 .. MaxEpoch
    BY <1>3, <2>1, BoundsAssumption DEF ClaimExpired, TypeOK, AttRow
  <2>3. [status |-> "running", owner |-> OwnerOf[s], epoch |-> e,
         lease |-> LeaseTerm] \in AttRow
    BY <2>2, WorkersAssumption, BoundsAssumption DEF AttRow, AttStatuses
  <2>4. [job |-> j, ord |-> o, num |-> n, epoch |-> e,
         resume |-> ResumePoint(j, o)] \in Handle
    BY <2>1, <2>2, ResumePointType DEF Handle
  <2> HIDE DEF n, e
  <2>5. QED
    BY <1>1, <1>3, <2>1, <2>2, <2>3, <2>4 DEF ClaimExpired, TypeOK, n, e
<1>4. QED
  BY <1>2, <1>3

\* Replacing one row keeps a table well typed.
LEMMA RowUpdates ==
    ASSUME TypeOK
    PROVE  /\ \A k \in AttemptIds, r \in AttRow :
                [att EXCEPT ![k] = r] \in [AttemptIds -> AttRow]
           /\ \A p \in OperationIds, r \in OpRow :
                [op EXCEPT ![p] = r] \in [OperationIds -> OpRow]
           /\ \A j \in Jobs, r \in EnvRow :
                [env EXCEPT ![j] = r] \in [Jobs -> EnvRow]
BY DEF TypeOK

\* Replacing one column keeps a row well typed.
LEMMA AttColumns ==
    ASSUME NEW r \in AttRow
    PROVE  /\ \A x \in AttStatuses : [r EXCEPT !.status = x] \in AttRow
           /\ \A x \in 0 .. LeaseTerm : [r EXCEPT !.lease = x] \in AttRow
BY DEF AttRow

LEMMA OpColumns ==
    ASSUME NEW r \in OpRow
    PROVE  /\ \A x \in OpStatuses : [r EXCEPT !.status = x] \in OpRow
           /\ \A x \in 0 .. BackoffTerm : [r EXCEPT !.wait = x] \in OpRow
           /\ \A x \in OpStatuses, y \in 0 .. BackoffTerm :
                [r EXCEPT !.status = x, !.wait = y] \in OpRow
BY DEF OpRow

LEMMA EnvColumns ==
    ASSUME NEW r \in EnvRow
    PROVE  \A x \in EnvStatuses : [r EXCEPT !.status = x] \in EnvRow
BY DEF EnvRow

LEMMA HandleTypeOK ==
    ASSUME TypeOK, NEW s \in Slots, HandleStep(s)
    PROVE  TypeOK'
<1> claim[s] # NoClaim
  BY DEF HandleStep, RenewAttempt, RelinquishAttempt, SaveCheckpoint, SettleSucceeded,
         SettleRetry, SettleFailed, AcknowledgeCancellation, Drop, EnsureEnvironment,
         MarkEnvironment, RequestCancellingRelease, MaySettle, Fenced
<1> DEFINE j == claim[s].job
           o == claim[s].ord
           k == Attempt(s)
<1> j \in Jobs /\ o \in Ordinals /\ k \in AttemptIds /\ <<j, o>> \in OperationIds
  BY HandleType
<1>0. att[k] \in AttRow /\ op[<<j, o>>] \in OpRow /\ env[j] \in EnvRow
  BY DEF TypeOK
<1>a. ASSUME NEW x \in AttStatuses
      PROVE  [att EXCEPT ![k].status = x] \in [AttemptIds -> AttRow]
  BY <1>0, RowUpdates, AttColumns
<1>b. ASSUME NEW x \in 0 .. LeaseTerm
      PROVE  [att EXCEPT ![k].lease = x] \in [AttemptIds -> AttRow]
  BY <1>0, RowUpdates, AttColumns
<1>c. ASSUME NEW x \in OpStatuses
      PROVE  [op EXCEPT ![<<j, o>>].status = x] \in [OperationIds -> OpRow]
  BY <1>0, RowUpdates, OpColumns
<1>d. ckpts' = Checkpointed(s) => ckpts' \in [AttemptIds -> Seq(1 .. MaxEpoch)]
  <2>1. claim[s].epoch \in 1 .. MaxEpoch
    BY HandleType
  <2>2. ASSUME NEW q \in Seq(1 .. MaxEpoch)
        PROVE  Append(q, claim[s].epoch) \in Seq(1 .. MaxEpoch)
    BY <2>1
  <2>3. ckpts[k] \in Seq(1 .. MaxEpoch)
    BY DEF TypeOK
  <2>4. QED
    BY <2>2, <2>3 DEF Checkpointed, TypeOK
<1>e. FinalCheckpoint(s) => ckpts' \in [AttemptIds -> Seq(1 .. MaxEpoch)]
  BY <1>d DEF FinalCheckpoint, TypeOK
<1>f. ReleaseRequested(j) \in [Jobs -> EnvRow] /\ Cancelled(j) \in [OperationIds -> OpRow]
  BY ReleaseRequestedType, CancelledType
<1> HIDE DEF j, o, k
<1>1. CASE RenewAttempt(s)
  <2>1. LeaseTerm \in 0 .. LeaseTerm
    BY BoundsAssumption
  <2>2. att' = [att EXCEPT ![k].lease = LeaseTerm]
    BY <1>1 DEF RenewAttempt, k
  <2>3. att' \in [AttemptIds -> AttRow]
    BY <2>1, <2>2, <1>b
  <2>4. QED
    BY <1>1, <2>3 DEF RenewAttempt, TypeOK
<1>2. CASE RelinquishAttempt(s)
  <2>1. 0 \in 0 .. LeaseTerm
    BY BoundsAssumption
  <2>2. att' = [att EXCEPT ![k].lease = 0]
    BY <1>2 DEF RelinquishAttempt, k
  <2>3. att' \in [AttemptIds -> AttRow]
    BY <2>1, <2>2, <1>b
  <2>4. QED
    BY <1>2, <2>3 DEF RelinquishAttempt, TypeOK
<1>3. CASE SaveCheckpoint(s)
  BY <1>3, <1>d DEF SaveCheckpoint, TypeOK
<1>4. CASE SettleSucceeded(s)
  BY <1>4, <1>a, <1>c, <1>e, <1>f
  DEF SettleSucceeded, TypeOK, AttStatuses, OpStatuses, JobStatuses, j, o, k
<1>5. ASSUME NEW delay \in 0 .. BackoffTerm, SettleRetry(s, delay)
      PROVE  TypeOK'
  <2> DEFINE row == [op[<<j, o>>] EXCEPT !.status = "retry_wait", !.wait = delay]
  <2>1. row \in OpRow
    BY <1>0, OpColumns DEF OpStatuses, Unfinished
  <2>2. op' = [op EXCEPT ![<<j, o>>] = row]
    BY <1>5 DEF SettleRetry, TypeOK, j, o
  <2>3. op' \in [OperationIds -> OpRow]
    BY <2>1, <2>2, RowUpdates
  <2>4. QED
    BY <1>5, <2>3, <1>a, <1>e DEF SettleRetry, TypeOK, AttStatuses, k
<1>6. CASE SettleFailed(s)
  BY <1>6, <1>a, <1>c, <1>e, <1>f
  DEF SettleFailed, TypeOK, AttStatuses, OpStatuses, JobStatuses, j, o, k
<1>7. CASE AcknowledgeCancellation(s)
  BY <1>7, <1>a, <1>f
  DEF AcknowledgeCancellation, TypeOK, AttStatuses, JobStatuses, j, k
<1>8. CASE Drop(s)
  BY <1>8 DEF Drop, TypeOK
<1>9. CASE EnsureEnvironment(s)
  BY <1>9 DEF EnsureEnvironment, TypeOK, EnvRow, EnvStatuses, j
<1>10. ASSUME NEW x \in {"ready", "failed"}, MarkEnvironment(s, x)
       PROVE  TypeOK'
  <2>1. env' \in [Jobs -> EnvRow]
    BY <1>0, <1>10, RowUpdates, EnvColumns DEF MarkEnvironment, EnvStatuses, j
  <2>2. QED
    BY <1>10, <2>1 DEF MarkEnvironment, TypeOK
<1>11. CASE RequestCancellingRelease(s)
  BY <1>11, <1>f DEF RequestCancellingRelease, TypeOK, j
<1>12. QED
  BY <1>1, <1>2, <1>3, <1>4, <1>5, <1>6, <1>7, <1>8, <1>9, <1>10, <1>11
  DEF HandleStep

LEMMA OtherTypeOK ==
    ASSUME TypeOK, TimeStep \/ \E j \in Jobs : MarkReleased(j)
    PROVE  TypeOK'
<1>1. ASSUME NEW j \in Jobs, NEW o \in Ordinals, NEW n \in Numbers, LeaseRuns(j, o, n)
      PROVE  TypeOK'
  <2>1. att[<<j, o, n>>] \in AttRow /\ att[<<j, o, n>>].lease - 1 \in 0 .. LeaseTerm
    BY <1>1, BoundsAssumption DEF LeaseRuns, TypeOK, AttRow
  <2>2. att' \in [AttemptIds -> AttRow]
    BY <1>1, <2>1, RowUpdates, AttColumns DEF LeaseRuns
  <2>3. QED
    BY <1>1, <2>2 DEF LeaseRuns, TypeOK
<1>2. ASSUME NEW j \in Jobs, NEW o \in Ordinals, BackoffRuns(j, o)
      PROVE  TypeOK'
  <2>1. op[<<j, o>>] \in OpRow /\ op[<<j, o>>].wait - 1 \in 0 .. BackoffTerm
    BY <1>2, BoundsAssumption DEF BackoffRuns, TypeOK, OpRow
  <2>2. op' \in [OperationIds -> OpRow]
    BY <1>2, <2>1, RowUpdates, OpColumns DEF BackoffRuns
  <2>3. QED
    BY <1>2, <2>2 DEF BackoffRuns, TypeOK
<1>3. ASSUME NEW j \in Jobs, MarkReleased(j)
      PROVE  TypeOK'
  <2>1. env' \in [Jobs -> EnvRow]
    BY <1>3, RowUpdates, EnvColumns DEF MarkReleased, TypeOK, EnvStatuses
  <2>2. QED
    BY <1>3, <2>1 DEF MarkReleased, TypeOK
<1>4. QED
  BY <1>1, <1>2, <1>3 DEF TimeStep

LEMMA NextTypeOK == TypeOK /\ [Next]_vars => TypeOK'
<1> SUFFICES ASSUME TypeOK, [Next]_vars PROVE TypeOK'
  OBVIOUS
<1>1. CASE UNCHANGED vars
  BY <1>1 DEF vars, TypeOK
<1>2. CASE Next
  BY <1>2, UserTypeOK, ClaimTypeOK, HandleTypeOK, OtherTypeOK DEF Next, ClaimStep
<1>3. QED
  BY <1>1, <1>2

\* Every reachable state of the store is well typed: every row stays within
\* the statuses the schema's CHECK constraints allow and within the bounds.
THEOREM TypeCorrect == Spec => []TypeOK
BY InitTypeOK, NextTypeOK, PTL DEF Spec

-----------------------------------------------------------------------------
(* The inductive invariant.                                                *)

LEMMA InitInv == Init => Inv
<1> SUFFICES ASSUME Init PROVE Inv
  OBVIOUS
<1>1. TypeOK
  BY InitTypeOK
<1>2. ASSUME NEW j \in Jobs PROVE JobInv(j)
  <2>1. OperationsInRange(j) /\ StartedInOrder(j) /\ OperationsMatchJob(j)
    BY DEF Init, OperationsInRange, StartedInOrder, OperationsMatchJob, AbsentOp, Ordinals
  <2>2. AttemptsMatchOperations(j)
    BY DEF Init, AttemptsMatchOperations, AbsentOp, AbsentAtt, Numbers
  <2>3. WorkIfActive(j) /\ EnvironmentMatchesJob(j)
    BY DEF Init, WorkIfActive, EnvironmentMatchesJob, AbsentEnv, Terminal
  <2>4. QED
    BY <2>1, <2>2, <2>3 DEF JobInv
<1>3. HandlesAreGenerations
  BY DEF Init, HandlesAreGenerations
<1>4. QED
  BY <1>1, <1>2, <1>3 DEF Inv

LEMMA OrdinalsBelowCount ==
    ASSUME TypeOK, NEW j \in Jobs, NEW o \in 0 .. (opCount[j] - 1)
    PROVE  o \in Ordinals
BY StagesType DEF TypeOK, Ordinals

\* The number of a running operation's latest attempt is a number.
LEMMA RunningNumber ==
    ASSUME TypeOK, NEW j \in Jobs, OperationsInRange(j), NEW o \in Ordinals,
           op[<<j, o>>].status = "running"
    PROVE  op[<<j, o>>].made \in Numbers
BY DEF TypeOK, OpRow, OperationsInRange, Numbers

\* The rows of job i keep their statuses, attempt counts and environment.
Untouched(i) ==
    /\ jobStatus'[i] = jobStatus[i]
    /\ opCount'[i] = opCount[i]
    /\ env'[i].status = env[i].status /\ env'[i].desired = env[i].desired
    /\ \A o \in Ordinals :
          /\ op'[<<i, o>>].status = op[<<i, o>>].status
          /\ op'[<<i, o>>].made = op[<<i, o>>].made
    /\ \A o \in Ordinals, n \in Numbers :
          att'[<<i, o, n>>].status = att[<<i, o, n>>].status

\* A step that leaves a job's rows alone keeps that job's invariant.
LEMMA UntouchedJob ==
    ASSUME Inv, NEW i \in Jobs, Untouched(i)
    PROVE  JobInv(i)'
<1>0. TypeOK /\ JobInv(i)
  BY DEF Inv
<1>1. OperationsInRange(i)' /\ StartedInOrder(i)' /\ OperationsMatchJob(i)'
  BY <1>0 DEF Untouched, JobInv, OperationsInRange, StartedInOrder, OperationsMatchJob,
              PredecessorsSucceeded
<1>2. AttemptsMatchOperations(i)'
  BY <1>0 DEF Untouched, JobInv, AttemptsMatchOperations
<1>3. WorkIfActive(i)'
  <2> SUFFICES ASSUME jobStatus[i] \in {"queued", "running", "cancelling"}
               PROVE  \E o \in 0 .. (opCount[i] - 1) : HasWork(i, o)'
    BY DEF Untouched, WorkIfActive
  <2>1. PICK o \in 0 .. (opCount[i] - 1) : HasWork(i, o)
    BY <1>0 DEF JobInv, WorkIfActive
  <2>2. o \in Ordinals
    BY <1>0, OrdinalsBelowCount
  <2>3. op[<<i, o>>].status = "running" => op[<<i, o>>].made \in Numbers
    BY <1>0, <2>2, RunningNumber DEF JobInv
  <2>4. QED
    BY <2>1, <2>2, <2>3 DEF Untouched, HasWork, PredecessorsSucceeded
<1>4. EnvironmentMatchesJob(i)'
  BY <1>0 DEF Untouched, JobInv, EnvironmentMatchesJob
<1>5. QED
  BY <1>1, <1>2, <1>3, <1>4 DEF JobInv

\* A step that keeps every lease generation and hands out no handle keeps the
\* handles distinct.
LEMMA HandlesKept ==
    ASSUME Inv,
           \A s \in Slots : claim'[s] \in {claim[s], NoClaim},
           \A k \in AttemptIds :
              /\ att'[k].epoch = att[k].epoch
              /\ att[k].status # "absent" => att'[k].status # "absent"
    PROVE  HandlesAreGenerations'
<1>1. ASSUME NEW s \in Slots, claim'[s] # NoClaim
      PROVE  claim[s] # NoClaim /\ claim'[s] = claim[s] /\ Attempt(s)' = Attempt(s)
             /\ Attempt(s) \in AttemptIds
  BY <1>1, HandleType DEF Attempt, Inv
<1>2. QED
  BY <1>1 DEF Inv, HandlesAreGenerations

\* A step that touches the rows of one job only.
LEMMA OneJobStep ==
    ASSUME Inv, TypeOK', NEW j \in Jobs,
           \A i \in Jobs : i # j => Untouched(i),
           JobInv(j)', HandlesAreGenerations'
    PROVE  Inv'
BY UntouchedJob DEF Inv

\* The environment row after a release request.
LEMMA ReleaseRequestedRow ==
    ASSUME TypeOK, NEW j \in Jobs
    PROVE  /\ \A i \in Jobs : i # j => ReleaseRequested(j)[i] = env[i]
           /\ env[j].status = "absent" => ReleaseRequested(j)[j] = env[j]
           /\ env[j].status # "absent" =>
                /\ ReleaseRequested(j)[j].desired = "released"
                /\ ReleaseRequested(j)[j].status \in {"releasing", "released"}
BY DEF ReleaseRequested, TypeOK, EnvRow

\* Around a running operation: everything before it has succeeded, nothing
\* after it was started, and its job runs or is being cancelled.
LEMMA RunningFrontier ==
    ASSUME Inv, NEW j \in Jobs, NEW o \in Ordinals, op[<<j, o>>].status = "running"
    PROVE  /\ jobStatus[j] \in {"running", "cancelling"}
           /\ op[<<j, o>>].made \in Numbers
           /\ o < opCount[j]
           /\ \A p \in Ordinals : p < o => op[<<j, p>>].status = "succeeded"
           /\ \A p \in Ordinals : p > o =>
                op[<<j, p>>].status \in {"absent", "ready"} /\ op[<<j, p>>].made = 0
<1>0. TypeOK /\ JobInv(j)
  BY DEF Inv
<1>1. jobStatus[j] \in {"running", "cancelling"}
  BY <1>0 DEF JobInv, OperationsMatchJob
<1>2. op[<<j, o>>].made \in Numbers
  BY <1>0, RunningNumber DEF JobInv
<1>3. op[<<j, o>>].made > 0
  BY <1>2 DEF Numbers
<1>4. \A p \in Ordinals : p < o => op[<<j, p>>].status = "succeeded"
  BY <1>0, <1>3 DEF JobInv, StartedInOrder, PredecessorsSucceeded
<1>5. ASSUME NEW p \in Ordinals, p > o
      PROVE  op[<<j, p>>].status \in {"absent", "ready"} /\ op[<<j, p>>].made = 0
  <2>1. op[<<j, p>>] \in OpRow
    BY <1>0 DEF TypeOK
  <2>2. ~(op[<<j, p>>].made > 0)
    BY <1>0, <1>5 DEF JobInv, StartedInOrder, PredecessorsSucceeded, Ordinals
  <2>3. op[<<j, p>>].made = 0
    BY <2>1, <2>2, BoundsAssumption DEF OpRow
  <2>4. op[<<j, p>>].status \notin {"running", "retry_wait", "succeeded", "failed"}
    BY <1>0, <2>2 DEF JobInv, OperationsInRange
  <2>5. op[<<j, p>>].status # "cancelled"
    BY <1>0, <1>1 DEF JobInv, OperationsMatchJob
  <2>6. QED
    BY <2>1, <2>3, <2>4, <2>5 DEF OpRow, OpStatuses, Unfinished
<1>6. o < opCount[j]
  BY <1>0 DEF JobInv, OperationsInRange, TypeOK, Ordinals
<1>7. QED
  BY <1>1, <1>2, <1>4, <1>5, <1>6

\* A handle that passes the fence is the running attempt of its operation.
LEMMA FencedIsRunning ==
    ASSUME Inv, NEW s \in Slots, Fenced(s)
    PROVE  /\ claim[s] # NoClaim
           /\ claim[s].job \in Jobs /\ claim[s].ord \in Ordinals
           /\ claim[s].num \in Numbers
           /\ Attempt(s) = <<claim[s].job, claim[s].ord, claim[s].num>>
           /\ op[<<claim[s].job, claim[s].ord>>].status = "running"
           /\ op[<<claim[s].job, claim[s].ord>>].made = claim[s].num
           /\ jobStatus[claim[s].job] \in {"running", "cancelling"}
<1>1. claim[s] # NoClaim /\ att[Attempt(s)].status = "running"
  BY DEF Fenced
<1>2. /\ claim[s].job \in Jobs /\ claim[s].ord \in Ordinals /\ claim[s].num \in Numbers
      /\ Attempt(s) = <<claim[s].job, claim[s].ord, claim[s].num>>
  BY <1>1, HandleType DEF Inv
<1>3. /\ op[<<claim[s].job, claim[s].ord>>].status = "running"
      /\ op[<<claim[s].job, claim[s].ord>>].made = claim[s].num
  BY <1>1, <1>2 DEF Inv, JobInv, AttemptsMatchOperations
<1>4. jobStatus[claim[s].job] \in {"running", "cancelling"}
  BY <1>2, <1>3 DEF Inv, JobInv, OperationsMatchJob
<1>5. QED
  BY <1>1, <1>2, <1>3, <1>4

-----------------------------------------------------------------------------
(* Steps that change no status: renewals, time, checkpoints, dropped       *)
(* handles and the workspace row.                                          *)

LEMMA QuietStep ==
    ASSUME Inv, TypeOK',
           UNCHANGED <<jobStatus, opCount, env>>,
           \A p \in OperationIds :
               op'[p].status = op[p].status /\ op'[p].made = op[p].made,
           \A k \in AttemptIds :
               att'[k].status = att[k].status /\ att'[k].epoch = att[k].epoch,
           \A s \in Slots : claim'[s] \in {claim[s], NoClaim}
    PROVE  Inv'
<1>1. ASSUME NEW i \in Jobs PROVE Untouched(i)
  <2>1. \A o \in Ordinals : <<i, o>> \in OperationIds
    OBVIOUS
  <2>2. \A o \in Ordinals, n \in Numbers : <<i, o, n>> \in AttemptIds
    OBVIOUS
  <2>3. QED
    BY <2>1, <2>2 DEF Untouched
<1>2. HandlesAreGenerations'
  BY HandlesKept
<1>3. QED
  BY <1>1, <1>2, UntouchedJob DEF Inv

LEMMA QuietActions ==
    ASSUME Inv, TypeOK',
           \/ \E j \in Jobs : EnsureWorkspace(j) \/ RemoveWorkspace(j)
           \/ \E s \in Slots : \/ RenewAttempt(s) \/ RelinquishAttempt(s)
                                \/ SaveCheckpoint(s) \/ Drop(s)
           \/ TimeStep
    PROVE  Inv'
<1>0. TypeOK
  BY DEF Inv
<1>1. ASSUME NEW j \in Jobs, EnsureWorkspace(j) \/ RemoveWorkspace(j)
      PROVE  Inv'
  BY <1>1, QuietStep DEF EnsureWorkspace, RemoveWorkspace
<1>2. ASSUME NEW s \in Slots, RenewAttempt(s) \/ RelinquishAttempt(s)
      PROVE  Inv'
  <2>1. \A k \in AttemptIds :
            att'[k].status = att[k].status /\ att'[k].epoch = att[k].epoch
    <3>1. PICK x : att' = [att EXCEPT ![Attempt(s)] = [att[Attempt(s)] EXCEPT !.lease = x]]
      BY <1>2 DEF RenewAttempt, RelinquishAttempt
    <3>2. QED
      BY <1>0, <3>1 DEF TypeOK, AttRow
  <2>2. QED
    BY <1>2, <2>1, QuietStep DEF RenewAttempt, RelinquishAttempt
<1>3. ASSUME NEW s \in Slots, SaveCheckpoint(s)
      PROVE  Inv'
  BY <1>3, QuietStep DEF SaveCheckpoint
<1>4. ASSUME NEW s \in Slots, Drop(s)
      PROVE  Inv'
  <2>1. \A t \in Slots : claim'[t] \in {claim[t], NoClaim}
    BY <1>0, <1>4 DEF Drop, TypeOK
  <2>2. QED
    BY <1>4, <2>1, QuietStep DEF Drop
<1>5. ASSUME NEW j \in Jobs, NEW o \in Ordinals, NEW n \in Numbers, LeaseRuns(j, o, n)
      PROVE  Inv'
  <2>1. \A k \in AttemptIds :
            att'[k].status = att[k].status /\ att'[k].epoch = att[k].epoch
    BY <1>0, <1>5 DEF LeaseRuns, TypeOK, AttRow
  <2>2. QED
    BY <1>5, <2>1, QuietStep DEF LeaseRuns
<1>6. ASSUME NEW j \in Jobs, NEW o \in Ordinals, BackoffRuns(j, o)
      PROVE  Inv'
  <2>1. \A p \in OperationIds :
            op'[p].status = op[p].status /\ op'[p].made = op[p].made
    BY <1>0, <1>6 DEF BackoffRuns, TypeOK, OpRow
  <2>2. QED
    BY <1>6, <2>1, QuietStep DEF BackoffRuns
<1>7. QED
  BY <1>1, <1>2, <1>3, <1>4, <1>5, <1>6 DEF TimeStep

-----------------------------------------------------------------------------
(* Steps of the environment row.                                           *)

\* A step that changes only the environment of j keeps the invariant if the
\* row still matches the job.
LEMMA EnvironmentStep ==
    ASSUME Inv, TypeOK', NEW j \in Jobs,
           UNCHANGED <<jobStatus, opCount, op, att, claim>>,
           \A i \in Jobs : i # j => env'[i] = env[i],
           EnvironmentMatchesJob(j)'
    PROVE  Inv'
<1>1. \A i \in Jobs : i # j => Untouched(i)
  BY DEF Untouched
<1>2. JobInv(j)'
  BY DEF Inv, JobInv, OperationsInRange, AttemptsMatchOperations, StartedInOrder,
         OperationsMatchJob, WorkIfActive, HasWork, PredecessorsSucceeded
<1>3. HandlesAreGenerations'
  BY HandlesKept
<1>4. QED
  BY <1>1, <1>2, <1>3, OneJobStep

LEMMA EnvironmentActions ==
    ASSUME Inv, TypeOK',
           \/ \E j \in Jobs : MarkReleased(j)
           \/ \E s \in Slots : \/ EnsureEnvironment(s)
                                \/ \E x \in {"ready", "failed"} : MarkEnvironment(s, x)
                                \/ RequestCancellingRelease(s)
    PROVE  Inv'
<1>0. TypeOK /\ \A i \in Jobs : EnvironmentMatchesJob(i)
  BY DEF Inv, JobInv
<1>1. ASSUME NEW j \in Jobs, MarkReleased(j)
      PROVE  Inv'
  <2>1. EnvironmentMatchesJob(j)' /\ \A i \in Jobs : i # j => env'[i] = env[i]
    BY <1>0, <1>1 DEF MarkReleased, TypeOK, EnvRow, EnvironmentMatchesJob
  <2>2. QED
    BY <1>1, <2>1, EnvironmentStep DEF MarkReleased
<1>2. ASSUME NEW s \in Slots, EnsureEnvironment(s)
      PROVE  Inv'
  <2>1. claim[s].job \in Jobs /\ jobStatus[claim[s].job] = "running"
    BY <1>2, FencedIsRunning DEF EnsureEnvironment
  <2>2. /\ EnvironmentMatchesJob(claim[s].job)'
        /\ \A i \in Jobs : i # claim[s].job => env'[i] = env[i]
    BY <1>0, <1>2, <2>1
    DEF EnsureEnvironment, TypeOK, EnvRow, EnvironmentMatchesJob, Terminal
  <2>3. QED
    BY <1>2, <2>1, <2>2, EnvironmentStep DEF EnsureEnvironment
<1>3. ASSUME NEW s \in Slots, NEW x \in {"ready", "failed"}, MarkEnvironment(s, x)
      PROVE  Inv'
  <2>1. claim[s].job \in Jobs /\ jobStatus[claim[s].job] = "running"
    BY <1>3, FencedIsRunning DEF MarkEnvironment
  <2>2. /\ env'[claim[s].job].desired = "active"
        /\ env'[claim[s].job].status = x
        /\ \A i \in Jobs : i # claim[s].job => env'[i] = env[i]
    BY <1>0, <1>3, <2>1 DEF MarkEnvironment, TypeOK, EnvRow
  <2>3. EnvironmentMatchesJob(claim[s].job)'
    BY <1>3, <2>1, <2>2 DEF MarkEnvironment, EnvironmentMatchesJob, Terminal
  <2>4. QED
    BY <1>3, <2>1, <2>2, <2>3, EnvironmentStep DEF MarkEnvironment
<1>4. ASSUME NEW s \in Slots, RequestCancellingRelease(s)
      PROVE  Inv'
  <2>1. claim[s].job \in Jobs /\ jobStatus[claim[s].job] = "cancelling"
    BY <1>4, FencedIsRunning DEF RequestCancellingRelease
  <2>2. env' = ReleaseRequested(claim[s].job) /\ UNCHANGED <<jobStatus, claim>>
    BY <1>4 DEF RequestCancellingRelease
  <2>3. \A i \in Jobs : i # claim[s].job => env'[i] = env[i]
    BY <1>0, <2>1, <2>2, ReleaseRequestedRow
  <2>4. EnvironmentMatchesJob(claim[s].job)'
    BY <1>0, <2>1, <2>2, ReleaseRequestedRow DEF EnvironmentMatchesJob, Terminal
  <2>5. QED
    BY <1>4, <2>1, <2>3, <2>4, EnvironmentStep DEF RequestCancellingRelease
<1>5. QED
  BY <1>1, <1>2, <1>3, <1>4

-----------------------------------------------------------------------------
(* Cancellation.                                                           *)

LEMMA RequestCancellationInv ==
    ASSUME Inv, TypeOK', NEW j \in Jobs, RequestCancellation(j)
    PROVE  Inv'
<1>0. TypeOK /\ JobInv(j)
  BY DEF Inv
<1>1. PICK o \in Ordinals, n \in Numbers : att[<<j, o, n>>].status = "running"
  BY DEF RequestCancellation, HasRunningAttempt
<1>2. op[<<j, o>>].status = "running" /\ op[<<j, o>>].made = n
  BY <1>0, <1>1 DEF JobInv, AttemptsMatchOperations
<1>3. /\ \A i \in Jobs : i # j => jobStatus'[i] = jobStatus[i]
      /\ jobStatus'[j] = "cancelling"
      /\ jobStatus[j] \in {"queued", "running"}
      /\ UNCHANGED <<opCount, op, att, env, claim>>
  BY <1>0 DEF RequestCancellation, TypeOK
<1>4. \A i \in Jobs : i # j => Untouched(i)
  BY <1>3 DEF Untouched
<1>5. OperationsInRange(j)' /\ AttemptsMatchOperations(j)' /\ StartedInOrder(j)'
  BY <1>0, <1>3 DEF JobInv, OperationsInRange, AttemptsMatchOperations, StartedInOrder,
                    PredecessorsSucceeded
<1>6. OperationsMatchJob(j)' /\ EnvironmentMatchesJob(j)'
  BY <1>0, <1>3 DEF JobInv, OperationsMatchJob, EnvironmentMatchesJob, Terminal
<1>7. WorkIfActive(j)'
  <2>1. o \in 0 .. (opCount[j] - 1)
    BY <1>0, <1>2, RunningFrontier DEF TypeOK, Ordinals
  <2>2. HasWork(j, o)'
    BY <1>1, <1>2, <1>3, RunningFrontier DEF HasWork, PredecessorsSucceeded
  <2>3. QED
    BY <1>3, <2>1, <2>2 DEF WorkIfActive
<1>8. HandlesAreGenerations'
  BY <1>3, HandlesKept
<1>9. QED
  BY <1>4, <1>5, <1>6, <1>7, <1>8, OneJobStep DEF JobInv

\* The operation rows of cancel_unfinished_operations.
LEMMA CancelledRow ==
    ASSUME TypeOK, NEW j \in Jobs
    PROVE  /\ \A i \in Jobs, o \in Ordinals :
                i # j => Cancelled(j)[<<i, o>>] = op[<<i, o>>]
           /\ \A o \in Ordinals :
                /\ Cancelled(j)[<<j, o>>].made = op[<<j, o>>].made
                /\ Cancelled(j)[<<j, o>>].status =
                      IF op[<<j, o>>].status \in Unfinished
                      THEN "cancelled" ELSE op[<<j, o>>].status
<1>1. \A i \in Jobs, o \in Ordinals :
         i # j => Cancelled(j)[<<i, o>>] = op[<<i, o>>]
  BY DEF Cancelled
<1>2. ASSUME NEW o \in Ordinals
      PROVE  /\ Cancelled(j)[<<j, o>>].made = op[<<j, o>>].made
             /\ Cancelled(j)[<<j, o>>].status =
                   IF op[<<j, o>>].status \in Unfinished
                   THEN "cancelled" ELSE op[<<j, o>>].status
  <2>1. op[<<j, o>>] \in OpRow
    BY DEF TypeOK
  <2>2. Cancelled(j)[<<j, o>>] =
            IF op[<<j, o>>].status \in Unfinished
            THEN [op[<<j, o>>] EXCEPT !.status = "cancelled"] ELSE op[<<j, o>>]
    BY DEF Cancelled
  <2>3. QED
    BY <2>1, <2>2 DEF OpRow
<1>3. QED
  BY <1>1, <1>2

\* What an idle cancellation and an acknowledged one have in common.
LEMMA CancelledInv ==
    ASSUME Inv, TypeOK', NEW j \in Jobs,
           jobStatus[j] \in {"queued", "running", "cancelling"},
           jobStatus'[j] = "cancelled",
           \A i \in Jobs : i # j => jobStatus'[i] = jobStatus[i] /\ env'[i] = env[i],
           op' = Cancelled(j),
           UNCHANGED <<opCount, claim>>,
           \A k \in AttemptIds :
              /\ att'[k].epoch = att[k].epoch
              /\ att'[k].status = IF k[1] = j /\ att[k].status = "running"
                                  THEN "abandoned" ELSE att[k].status,
           EnvironmentMatchesJob(j)'
    PROVE  Inv'
<1>0. TypeOK /\ JobInv(j)
  BY DEF Inv
<1>1. \A i \in Jobs, o \in Ordinals, n \in Numbers :
          /\ i # j => att'[<<i, o, n>>].status = att[<<i, o, n>>].status
          /\ att'[<<j, o, n>>].status = IF att[<<j, o, n>>].status = "running"
                                        THEN "abandoned" ELSE att[<<j, o, n>>].status
  <2>1. SUFFICES ASSUME NEW i \in Jobs, NEW o \in Ordinals, NEW n \in Numbers
                 PROVE  att'[<<i, o, n>>].status =
                          IF i = j /\ att[<<i, o, n>>].status = "running"
                          THEN "abandoned" ELSE att[<<i, o, n>>].status
    OBVIOUS
  <2>2. <<i, o, n>> \in AttemptIds /\ <<i, o, n>>[1] = i
    OBVIOUS
  <2>3. QED
    BY <2>2
<1>2. \A i \in Jobs : i # j => Untouched(i)
  BY <1>0, <1>1, CancelledRow DEF Untouched
<1>3. /\ \A o \in Ordinals :
            /\ op'[<<j, o>>].made = op[<<j, o>>].made
            /\ op[<<j, o>>].status = "absent" <=> op'[<<j, o>>].status = "absent"
            /\ op'[<<j, o>>].status \in {"absent", "succeeded", "failed", "cancelled"}
            /\ op'[<<j, o>>].status # "cancelled" =>
                  op'[<<j, o>>].status = op[<<j, o>>].status
            /\ op[<<j, o>>].status = "succeeded" => op'[<<j, o>>].status = "succeeded"
  <2>1. \A o \in Ordinals : op[<<j, o>>].status \in OpStatuses
    BY <1>0 DEF TypeOK, OpRow
  <2>2. QED
    BY <1>0, <2>1, CancelledRow DEF OpStatuses, Unfinished
<1>4. OperationsInRange(j)'
  BY <1>0, <1>3 DEF JobInv, OperationsInRange
<1>5. AttemptsMatchOperations(j)'
  BY <1>0, <1>1, <1>3 DEF JobInv, AttemptsMatchOperations
<1>6. StartedInOrder(j)'
  BY <1>0, <1>3 DEF JobInv, StartedInOrder, PredecessorsSucceeded
<1>7. OperationsMatchJob(j)'
  <2>1. \A o \in Ordinals : op[<<j, o>>].status # "failed"
    BY <1>0 DEF JobInv, OperationsMatchJob
  <2>2. QED
    BY <1>3, <2>1 DEF OperationsMatchJob
<1>8. WorkIfActive(j)'
  BY DEF WorkIfActive
<1>9. HandlesAreGenerations'
  BY HandlesKept
<1>10. QED
  BY <1>2, <1>4, <1>5, <1>6, <1>7, <1>8, <1>9, OneJobStep DEF JobInv

LEMMA CancelIdleInv ==
    ASSUME Inv, TypeOK', NEW j \in Jobs, CancelIdle(j)
    PROVE  Inv'
<1>0. TypeOK /\ JobInv(j)
  BY DEF Inv
<1>1. /\ \A i \in Jobs : i # j => jobStatus'[i] = jobStatus[i]
      /\ jobStatus'[j] = "cancelled"
      /\ jobStatus[j] \in {"queued", "running"}
      /\ UNCHANGED <<opCount, att, claim>>
      /\ op' = Cancelled(j)
      /\ env' = ReleaseRequested(j)
  BY <1>0 DEF CancelIdle, TypeOK
<1>2. ASSUME NEW k \in AttemptIds, k[1] = j
      PROVE  att[k].status # "running"
  <2>1. PICK o \in Ordinals, n \in Numbers : k = <<j, o, n>>
    BY <1>2
  <2>2. QED
    BY <2>1 DEF CancelIdle, HasRunningAttempt
<1>3. /\ EnvironmentMatchesJob(j)'
      /\ \A i \in Jobs : i # j => env'[i] = env[i]
  BY <1>0, <1>1, ReleaseRequestedRow DEF JobInv, EnvironmentMatchesJob, Terminal
<1>4. QED
  BY <1>1, <1>2, <1>3, CancelledInv

LEMMA AcknowledgeCancellationInv ==
    ASSUME Inv, TypeOK', NEW s \in Slots, AcknowledgeCancellation(s)
    PROVE  Inv'
<1>1. PICK j \in Jobs, o \in Ordinals, n \in Numbers :
          /\ claim[s].job = j /\ claim[s].ord = o /\ claim[s].num = n
          /\ Attempt(s) = <<j, o, n>>
          /\ op[<<j, o>>].status = "running" /\ op[<<j, o>>].made = n
          /\ Fenced(s)
  BY FencedIsRunning DEF AcknowledgeCancellation
<1>0. TypeOK /\ JobInv(j)
  BY DEF Inv
<1>2. /\ jobStatus[j] = "cancelling"
      /\ jobStatus'[j] = "cancelled"
      /\ \A i \in Jobs : i # j => jobStatus'[i] = jobStatus[i]
      /\ op' = Cancelled(j)
      /\ UNCHANGED <<opCount, env, claim>>
      /\ env[j].status \in {"absent", "released"}
  BY <1>0, <1>1 DEF AcknowledgeCancellation, TypeOK, EnvReleased
<1>3. ASSUME NEW k \in AttemptIds
      PROVE  /\ att'[k].epoch = att[k].epoch
             /\ att'[k].status = IF k[1] = j /\ att[k].status = "running"
                                 THEN "abandoned" ELSE att[k].status
  <2>1. att' = [att EXCEPT ![<<j, o, n>>].status = "abandoned"]
    BY <1>1 DEF AcknowledgeCancellation
  <2>2. att[k] \in AttRow /\ att[<<j, o, n>>] \in AttRow
    BY <1>0 DEF TypeOK
  <2>3. att[<<j, o, n>>].status = "running"
    BY <1>1 DEF Fenced
  <2>4. k[1] = j /\ att[k].status = "running" => k = <<j, o, n>>
    <3>1. PICK i \in Jobs, p \in Ordinals, m \in Numbers : k = <<i, p, m>>
      OBVIOUS
    <3>2. SUFFICES ASSUME i = j, att[<<j, p, m>>].status = "running"
                   PROVE  p = o /\ m = n
      BY <3>1
    <3>3. op[<<j, p>>].status = "running" /\ m = op[<<j, p>>].made
      BY <1>0, <3>2 DEF JobInv, AttemptsMatchOperations
    <3>4. p = o
      BY <1>1, <3>3, RunningFrontier DEF Ordinals
    <3>5. QED
      BY <1>1, <3>3, <3>4
  <2>5. CASE k = <<j, o, n>>
    BY <2>1, <2>2, <2>3, <2>5, <1>0 DEF AttRow, TypeOK
  <2>6. CASE k # <<j, o, n>>
    BY <2>1, <2>4, <2>6, <1>0 DEF TypeOK
  <2>7. QED
    BY <2>5, <2>6
<1>4. EnvironmentMatchesJob(j)'
  BY <1>0, <1>2 DEF JobInv, EnvironmentMatchesJob, Terminal
<1>5. QED
  BY <1>2, <1>3, <1>4, CancelledInv

-----------------------------------------------------------------------------
(* New jobs and continuations.                                             *)

LEMMA AppendedRow ==
    ASSUME NEW j \in Jobs, NEW n \in Nat
    PROVE  /\ \A i \in Jobs, o \in Ordinals :
                i # j => Appended(j, n)[<<i, o>>] = op[<<i, o>>]
           /\ \A o \in Ordinals :
                Appended(j, n)[<<j, o>>] =
                    IF o \in opCount[j] .. (opCount[j] + n - 1)
                    THEN ReadyOp ELSE op[<<j, o>>]
BY DEF Appended

\* Appending ready stages after succeeded ones gives a queued job with work.
LEMMA AppendInv ==
    ASSUME Inv, TypeOK', NEW j \in Jobs, NEW n \in Nat \ {0},
           jobStatus[j] \in {"none", "succeeded"},
           jobStatus'[j] = "queued",
           opCount'[j] = opCount[j] + n,
           \A i \in Jobs : i # j =>
              jobStatus'[i] = jobStatus[i] /\ opCount'[i] = opCount[i] /\ env'[i] = env[i],
           op' = Appended(j, n),
           UNCHANGED <<att, claim>>,
           EnvironmentMatchesJob(j)'
    PROVE  Inv'
<1>0. TypeOK /\ JobInv(j)
  BY DEF Inv
<1>1. \A i \in Jobs : i # j => Untouched(i)
  BY AppendedRow DEF Untouched
<1>2. opCount[j] \in Nat /\ opCount[j] + n <= Stages /\ Stages \in Nat
  BY <1>0, StagesType DEF TypeOK
<1>3. ASSUME NEW o \in Ordinals
      PROVE  /\ o < opCount[j] =>
                  op'[<<j, o>>] = op[<<j, o>>] /\ op[<<j, o>>].status = "succeeded"
             /\ o >= opCount[j] /\ o < opCount[j] + n =>
                  op'[<<j, o>>].status = "ready" /\ op'[<<j, o>>].made = 0
             /\ o >= opCount[j] + n =>
                  op'[<<j, o>>] = op[<<j, o>>]
             /\ o >= opCount[j] =>
                  op[<<j, o>>].status = "absent" /\ op[<<j, o>>].made = 0
  <2>1. o \in Nat
    BY DEF Ordinals
  <2>2. o < opCount[j] => op[<<j, o>>].status = "succeeded"
    BY <1>0, <1>2, <2>1 DEF JobInv, OperationsMatchJob
  <2>3. o >= opCount[j] => op[<<j, o>>].status = "absent" /\ op[<<j, o>>].made = 0
    BY <1>0 DEF JobInv, OperationsInRange
  <2>4. QED
    BY <1>2, <2>1, <2>2, <2>3, AppendedRow DEF ReadyOp
<1>4. OperationsInRange(j)'
  BY <1>0, <1>2, <1>3 DEF JobInv, OperationsInRange, Ordinals
<1>5. AttemptsMatchOperations(j)'
  <2> SUFFICES ASSUME NEW o \in Ordinals, NEW m \in Numbers
               PROVE  /\ att[<<j, o, m>>].status = "absent" <=> m > op'[<<j, o>>].made
                      /\ att[<<j, o, m>>].status = "running" <=>
                           op'[<<j, o>>].status = "running" /\ m = op'[<<j, o>>].made
    BY DEF AttemptsMatchOperations
  <2>1. /\ att[<<j, o, m>>].status = "absent" <=> m > op[<<j, o>>].made
        /\ att[<<j, o, m>>].status = "running" <=>
              op[<<j, o>>].status = "running" /\ m = op[<<j, o>>].made
    BY <1>0 DEF JobInv, AttemptsMatchOperations
  <2>2. o \in Nat
    BY DEF Ordinals
  <2>3. QED
    BY <1>2, <1>3, <2>1, <2>2
<1>6. StartedInOrder(j)'
  <2> SUFFICES ASSUME NEW o \in Ordinals, op'[<<j, o>>].made > 0,
                      NEW p \in Ordinals, p < o
               PROVE  op'[<<j, p>>].status = "succeeded"
    BY DEF StartedInOrder, PredecessorsSucceeded
  <2>1. o < opCount[j]
    BY <1>2, <1>3 DEF Ordinals
  <2>2. QED
    BY <1>2, <1>3, <2>1 DEF Ordinals
<1>7. OperationsMatchJob(j)'
  BY <1>2, <1>3 DEF OperationsMatchJob, Ordinals
<1>8. WorkIfActive(j)'
  <2>1. opCount[j] \in Ordinals /\ opCount[j] \in 0 .. (opCount'[j] - 1)
    BY <1>2 DEF Ordinals
  <2>2. MaxAttempts[<<j, opCount[j]>>] > 0
    BY <2>1, BudgetAssumption DEF Numbers
  <2>3. \A p \in Ordinals : p < opCount[j] => op'[<<j, p>>].status = "succeeded"
    BY <1>3
  <2>4. \E o \in 0 .. (opCount'[j] - 1) : HasWork(j, o)'
    <3>1. PICK o \in Ordinals : o = opCount[j]
      BY <2>1
    <3>2. HasWork(j, o)'
      BY <1>2, <1>3, <2>2, <2>3, <3>1 DEF HasWork, PredecessorsSucceeded
    <3>3. QED
      BY <2>1, <3>1, <3>2
  <2>5. QED
    BY <2>4 DEF WorkIfActive
<1>9. HandlesAreGenerations'
  BY HandlesKept
<1>10. QED
  BY <1>1, <1>4, <1>5, <1>6, <1>7, <1>8, <1>9, OneJobStep DEF JobInv

LEMMA CreateJobInv ==
    ASSUME Inv, TypeOK', NEW j \in Jobs, CreateJob(j)
    PROVE  Inv'
<1>0. TypeOK /\ JobInv(j)
  BY DEF Inv
<1>1. opCount[j] = 0
  BY <1>0 DEF CreateJob, JobInv, OperationsMatchJob
<1>2. EnvironmentMatchesJob(j)'
  BY <1>0 DEF CreateJob, TypeOK, JobInv, EnvironmentMatchesJob, Terminal
<1>3. /\ jobStatus[j] = "none" /\ jobStatus'[j] = "queued"
      /\ opCount'[j] = opCount[j] + BaseStages
      /\ \A i \in Jobs : i # j =>
            jobStatus'[i] = jobStatus[i] /\ opCount'[i] = opCount[i] /\ env'[i] = env[i]
      /\ op' = Appended(j, BaseStages)
      /\ UNCHANGED <<att, claim>>
  BY <1>0, <1>1, StagesAssumption DEF CreateJob, TypeOK
<1>4. BaseStages \in Nat \ {0}
  BY StagesAssumption
<1>5. QED
  BY <1>2, <1>3, <1>4, AppendInv

LEMMA ContinueJobInv ==
    ASSUME Inv, TypeOK', NEW j \in Jobs, ContinueJob(j)
    PROVE  Inv'
<1>0. TypeOK /\ JobInv(j)
  BY DEF Inv
<1>1. /\ env'[j].desired = "active"
      /\ env'[j].status \in {"absent", "provisioning"}
      /\ \A i \in Jobs : i # j => env'[i] = env[i]
  <2>1. CASE env[j].status = "absent"
    BY <1>0, <2>1 DEF ContinueJob, TypeOK, EnvRow, JobInv, EnvironmentMatchesJob
  <2>2. CASE env[j].status # "absent"
    BY <1>0, <2>2 DEF ContinueJob, TypeOK
  <2>3. QED
    BY <2>1, <2>2
<1>2. jobStatus'[j] = "queued"
  BY <1>0 DEF ContinueJob, TypeOK
<1>3. EnvironmentMatchesJob(j)'
  BY <1>1, <1>2 DEF EnvironmentMatchesJob, Terminal
<1>4. /\ jobStatus[j] = "succeeded"
      /\ opCount'[j] = opCount[j] + RoundStages
      /\ \A i \in Jobs : i # j =>
            jobStatus'[i] = jobStatus[i] /\ opCount'[i] = opCount[i]
      /\ op' = Appended(j, RoundStages)
      /\ UNCHANGED <<att, claim>>
  BY <1>0 DEF ContinueJob, TypeOK
<1>5. RoundStages \in Nat \ {0}
  BY StagesAssumption
<1>6. QED
  BY <1>1, <1>2, <1>3, <1>4, <1>5, AppendInv

-----------------------------------------------------------------------------
(* Claims.                                                                 *)

LEMMA ClaimNewInv ==
    ASSUME Inv, TypeOK', NEW s \in Slots, NEW j \in Jobs, NEW o \in Ordinals,
           ClaimNew(s, j, o)
    PROVE  Inv'
<1>0. TypeOK /\ JobInv(j)
  BY DEF Inv
<1>1. PICK n \in Numbers : n = op[<<j, o>>].made + 1
  <2>1. op[<<j, o>>].made \in Nat /\ MaxAttempts[<<j, o>>] \in Numbers
    BY <1>0, BudgetAssumption DEF TypeOK, OpRow
  <2>2. op[<<j, o>>].made < MaxAttempts[<<j, o>>]
    BY DEF ClaimNew, Startable
  <2>3. op[<<j, o>>].made + 1 \in Numbers
    BY <2>1, <2>2, BoundsAssumption DEF Numbers
  <2>4. QED
    BY <2>3
<1>2. /\ jobStatus[j] \in {"queued", "running"}
      /\ op[<<j, o>>].status \in {"ready", "retry_wait"}
      /\ PredecessorsSucceeded(j, o)
      /\ UNCHANGED <<opCount, env>>
      /\ claim[s] = NoClaim
  BY DEF ClaimNew, Startable, Recoverable
<1>3. jobStatus'[j] = "running" /\ \A i \in Jobs : i # j => jobStatus'[i] = jobStatus[i]
  BY <1>0, <1>2 DEF ClaimNew, ClaimedJob, TypeOK
<1>4. /\ op'[<<j, o>>].status = "running" /\ op'[<<j, o>>].made = n
      /\ \A i \in Jobs, p \in Ordinals :
            i # j \/ p # o => op'[<<i, p>>] = op[<<i, p>>]
  BY <1>0, <1>1 DEF ClaimNew, TypeOK
<1>5. /\ att'[<<j, o, n>>].status = "running" /\ att'[<<j, o, n>>].epoch = 1
      /\ \A i \in Jobs, p \in Ordinals, m \in Numbers :
            i # j \/ p # o \/ m # n => att'[<<i, p, m>>] = att[<<i, p, m>>]
  <2>1. att' = [att EXCEPT ![<<j, o, n>>] = [status |-> "running", owner |-> OwnerOf[s],
                                            epoch |-> 1, lease |-> LeaseTerm]]
    BY <1>1 DEF ClaimNew
  <2>2. QED
    BY <1>0, <2>1 DEF TypeOK
<1>6. att[<<j, o, n>>].status = "absent"
  <2>1. op[<<j, o>>].made \in Nat
    BY <1>0 DEF TypeOK, OpRow
  <2>2. QED
    BY <1>0, <1>1, <2>1 DEF JobInv, AttemptsMatchOperations
<1>7. \A i \in Jobs : i # j => Untouched(i)
  BY <1>2, <1>3, <1>4, <1>5 DEF Untouched
<1>8. OperationsInRange(j)'
  BY <1>0, <1>1, <1>2, <1>4 DEF JobInv, OperationsInRange, Numbers
<1>9. AttemptsMatchOperations(j)'
  <2> SUFFICES ASSUME NEW p \in Ordinals, NEW m \in Numbers
               PROVE  /\ att'[<<j, p, m>>].status = "absent" <=> m > op'[<<j, p>>].made
                      /\ att'[<<j, p, m>>].status = "running" <=>
                           op'[<<j, p>>].status = "running" /\ m = op'[<<j, p>>].made
    BY DEF AttemptsMatchOperations
  <2>1. /\ att[<<j, p, m>>].status = "absent" <=> m > op[<<j, p>>].made
        /\ att[<<j, p, m>>].status = "running" <=>
              op[<<j, p>>].status = "running" /\ m = op[<<j, p>>].made
    BY <1>0 DEF JobInv, AttemptsMatchOperations
  <2>2. CASE p # o
    BY <1>4, <1>5, <2>1, <2>2
  <2>3. CASE p = o /\ m = n
    BY <1>4, <1>5, <2>3 DEF Numbers
  <2>4. CASE p = o /\ m # n
    <3>1. op[<<j, o>>].made \in Nat /\ m \in Nat
      BY <1>0 DEF TypeOK, OpRow, Numbers
    <3>2. QED
      BY <1>1, <1>2, <1>4, <1>5, <2>1, <2>4, <3>1
  <2>5. QED
    BY <2>2, <2>3, <2>4
<1>10. StartedInOrder(j)'
  <2> SUFFICES ASSUME NEW p \in Ordinals, op'[<<j, p>>].made > 0,
                      NEW q \in Ordinals, q < p
               PROVE  op'[<<j, q>>].status = "succeeded"
    BY DEF StartedInOrder, PredecessorsSucceeded
  <2>1. op[<<j, q>>].status = "succeeded"
    <3>1. CASE p = o
      BY <1>2, <3>1 DEF PredecessorsSucceeded
    <3>2. CASE p # o
      BY <1>0, <1>4, <3>2 DEF JobInv, StartedInOrder, PredecessorsSucceeded
    <3>3. QED
      BY <3>1, <3>2
  <2>2. QED
    BY <1>2, <1>4, <2>1
<1>11. OperationsMatchJob(j)'
  BY <1>0, <1>2, <1>3, <1>4 DEF JobInv, OperationsMatchJob
<1>12. WorkIfActive(j)'
  <2>1. o \in 0 .. (opCount[j] - 1)
    BY <1>0, <1>2 DEF JobInv, OperationsInRange, TypeOK, Ordinals
  <2>2. HasWork(j, o)'
    BY <1>2, <1>4, <1>5 DEF HasWork, PredecessorsSucceeded, Ordinals
  <2>3. QED
    BY <1>2, <2>1, <2>2 DEF WorkIfActive
<1>13. EnvironmentMatchesJob(j)'
  BY <1>0, <1>2, <1>3 DEF JobInv, EnvironmentMatchesJob, Terminal
<1>14. HandlesAreGenerations'
  <2>1. claim'[s].epoch = 1 /\ claim'[s] # NoClaim /\ Attempt(s)' = <<j, o, n>>
    <3>1. claim'[s] = [job |-> j, ord |-> o, num |-> n, epoch |-> 1,
                       resume |-> ResumePoint(j, o)]
      BY <1>0, <1>1 DEF ClaimNew, TypeOK
    <3>2. claim'[s] \in Handle
      BY <3>1, ResumePointType, BoundsAssumption DEF Handle
    <3>3. QED
      BY <3>1, <3>2, NoClaimAssumption DEF Attempt
  <2>2. ASSUME NEW t \in Slots, t # s, claim'[t] # NoClaim
        PROVE  /\ claim[t] # NoClaim /\ claim'[t] = claim[t]
               /\ Attempt(t)' = Attempt(t) /\ Attempt(t) # <<j, o, n>>
               /\ att'[Attempt(t)] = att[Attempt(t)]
    <3>1. claim'[t] = claim[t] /\ Attempt(t)' = Attempt(t)
      BY <1>0, <2>2 DEF ClaimNew, TypeOK, Attempt
    <3>2. Attempt(t) # <<j, o, n>>
      BY <1>6, <2>2, <3>1 DEF Inv, HandlesAreGenerations
    <3>3. Attempt(t) = <<claim[t].job, claim[t].ord, claim[t].num>>
          /\ claim[t].job \in Jobs /\ claim[t].ord \in Ordinals /\ claim[t].num \in Numbers
      BY <1>0, <2>2, <3>1, HandleType
    <3>4. QED
      BY <1>5, <2>2, <3>1, <3>2, <3>3
  <2>3. QED
    BY <1>5, <2>1, <2>2 DEF Inv, HandlesAreGenerations
<1>15. QED
  BY <1>7, <1>8, <1>9, <1>10, <1>11, <1>12, <1>13, <1>14, OneJobStep DEF JobInv

LEMMA ClaimExpiredInv ==
    ASSUME Inv, TypeOK', NEW s \in Slots, NEW j \in Jobs, NEW o \in Ordinals,
           ClaimExpired(s, j, o)
    PROVE  Inv'
<1>0. TypeOK /\ JobInv(j)
  BY DEF Inv
<1>1. PICK n \in Numbers : n = op[<<j, o>>].made
  BY <1>0 DEF ClaimExpired, Expired, TypeOK, OpRow, Numbers
<1> DEFINE k == <<j, o, n>>
<1>2. k \in AttemptIds /\ att[k].status = "running" /\ att[k].epoch \in Nat
  BY <1>0, <1>1 DEF ClaimExpired, Expired, TypeOK, AttRow
<1>3. jobStatus' = jobStatus
  BY <1>0 DEF ClaimExpired, Expired, ClaimedJob, TypeOK, JobInv, OperationsMatchJob
<1>4. /\ att'[k].status = "running" /\ att'[k].epoch = att[k].epoch + 1
      /\ \A i \in AttemptIds : i # k => att'[i] = att[i]
  <2>1. att' = [att EXCEPT ![k] = [status |-> "running", owner |-> OwnerOf[s],
                                  epoch |-> att[k].epoch + 1, lease |-> LeaseTerm]]
    BY <1>1 DEF ClaimExpired
  <2>2. QED
    BY <1>0, <1>2, <2>1 DEF TypeOK
<1>5. claim' = [claim EXCEPT ![s] = [job |-> j, ord |-> o, num |-> n,
                                   epoch |-> att[k].epoch + 1,
                                   resume |-> ResumePoint(j, o)]]
  BY <1>1 DEF ClaimExpired
<1>6. UNCHANGED <<opCount, op, env>>
  BY DEF ClaimExpired
<1> HIDE DEF k
<1>7. \A i \in Jobs : Untouched(i)
  <2>1. \A i \in AttemptIds : att'[i].status = att[i].status
    BY <1>2, <1>4
  <2>2. \A i \in Jobs, p \in Ordinals, m \in Numbers : <<i, p, m>> \in AttemptIds
    OBVIOUS
  <2>3. QED
    BY <1>3, <1>6, <2>1, <2>2 DEF Untouched
<1>8. HandlesAreGenerations'
  <2>1. claim'[s].epoch = att[k].epoch + 1 /\ Attempt(s)' = k
    BY <1>0, <1>5 DEF TypeOK, Attempt, k
  <2>2. ASSUME NEW t \in Slots, t # s, claim'[t] # NoClaim
        PROVE  /\ claim[t] # NoClaim /\ claim'[t] = claim[t] /\ Attempt(t)' = Attempt(t)
               /\ Attempt(t) \in AttemptIds /\ claim[t].epoch \in Nat
    <3>1. claim'[t] = claim[t] /\ Attempt(t)' = Attempt(t)
      BY <1>0, <1>5, <2>2 DEF TypeOK, Attempt
    <3>2. QED
      BY <1>0, <2>2, <3>1, HandleType
  <2>3. ASSUME NEW t \in Slots, t # s, claim'[t] # NoClaim, Attempt(t) = k
        PROVE  claim[t].epoch <= att[k].epoch
    BY <2>2, <2>3 DEF Inv, HandlesAreGenerations
  <2>4. ASSUME NEW t \in Slots, claim'[t] # NoClaim
        PROVE  att'[Attempt(t)'].status # "absent"
               /\ claim'[t].epoch <= att'[Attempt(t)'].epoch
    <3>1. CASE t = s
      BY <1>2, <1>4, <2>1, <3>1
    <3>2. CASE t # s /\ Attempt(t) = k
      BY <1>2, <1>4, <2>2, <2>3, <2>4, <3>2
    <3>3. CASE t # s /\ Attempt(t) # k
      BY <1>4, <2>2, <2>4, <3>3 DEF Inv, HandlesAreGenerations
    <3>4. QED
      BY <3>1, <3>2, <3>3
  <2>5. ASSUME NEW t \in Slots, NEW u \in Slots, t # u,
               claim'[t] # NoClaim, claim'[u] # NoClaim, claim'[t].epoch = claim'[u].epoch
        PROVE  Attempt(t)' # Attempt(u)'
    <3>1. CASE t = s
      BY <1>2, <2>1, <2>2, <2>3, <2>5, <3>1
    <3>2. CASE u = s
      BY <1>2, <2>1, <2>2, <2>3, <2>5, <3>2
    <3>3. CASE t # s /\ u # s
      BY <2>2, <2>5, <3>3 DEF Inv, HandlesAreGenerations
    <3>4. QED
      BY <3>1, <3>2, <3>3
  <2>6. QED
    BY <2>4, <2>5 DEF HandlesAreGenerations
<1>9. QED
  BY <1>7, <1>8, UntouchedJob DEF Inv

-----------------------------------------------------------------------------
(* Settlement.                                                             *)

\* The handle's attempt ends with status x and its operation with status y.
Settles(s, j, o, n, x, y) ==
    /\ claim[s].job = j /\ claim[s].ord = o /\ claim[s].num = n
    /\ op[<<j, o>>].status = "running" /\ op[<<j, o>>].made = n
    /\ jobStatus[j] = "running"
    /\ op'[<<j, o>>].status = y /\ op'[<<j, o>>].made = n
    /\ \A i \in Jobs, p \in Ordinals :
          i # j \/ p # o => op'[<<i, p>>] = op[<<i, p>>]
    /\ att[<<j, o, n>>].status = "running"
    /\ att'[<<j, o, n>>].status = x
    /\ \A k \in AttemptIds : att'[k].epoch = att[k].epoch
    /\ \A i \in Jobs, p \in Ordinals, m \in Numbers :
          i # j \/ p # o \/ m # n => att'[<<i, p, m>>] = att[<<i, p, m>>]

\* Every settling transaction has that shape.
LEMMA SettleShape ==
    ASSUME Inv, NEW s \in Slots, MaySettle(s), NEW x, NEW y, NEW d \in 0 .. BackoffTerm,
           att' = [att EXCEPT ![Attempt(s)].status = x],
           \/ op' = [op EXCEPT ![<<claim[s].job, claim[s].ord>>].status = y]
           \/ op' = [op EXCEPT ![<<claim[s].job, claim[s].ord>>].status = y,
                               ![<<claim[s].job, claim[s].ord>>].wait = d]
    PROVE  \E j \in Jobs, o \in Ordinals, n \in Numbers : Settles(s, j, o, n, x, y)
<1>1. PICK j \in Jobs, o \in Ordinals, n \in Numbers :
          /\ claim[s].job = j /\ claim[s].ord = o /\ claim[s].num = n
          /\ Attempt(s) = <<j, o, n>>
          /\ op[<<j, o>>].status = "running" /\ op[<<j, o>>].made = n
          /\ jobStatus[j] = "running"
  BY FencedIsRunning DEF MaySettle
<1>2. TypeOK
  BY DEF Inv
<1>3. att[<<j, o, n>>] \in AttRow /\ att[<<j, o, n>>].status = "running"
  BY <1>2, <1>1 DEF MaySettle, Fenced, TypeOK
<1> DEFINE row == [att[<<j, o, n>>] EXCEPT !.status = x]
<1>4. att' = [att EXCEPT ![<<j, o, n>>] = row]
  BY <1>1
<1>5. /\ att'[<<j, o, n>>].status = x
      /\ att'[<<j, o, n>>].epoch = att[<<j, o, n>>].epoch
      /\ \A k \in AttemptIds : k # <<j, o, n>> => att'[k] = att[k]
  <2>1. row.status = x /\ row.epoch = att[<<j, o, n>>].epoch
    BY <1>3 DEF AttRow
  <2> HIDE DEF row
  <2>2. att'[<<j, o, n>>] = row /\ \A k \in AttemptIds : k # <<j, o, n>> => att'[k] = att[k]
    BY <1>2, <1>4 DEF TypeOK
  <2>3. QED
    BY <2>1, <2>2
<1> HIDE DEF row
<1>6. \A k \in AttemptIds : att'[k].epoch = att[k].epoch
  BY <1>5
<1>7. \A i \in Jobs, p \in Ordinals, m \in Numbers :
          i # j \/ p # o \/ m # n => att'[<<i, p, m>>] = att[<<i, p, m>>]
  BY <1>5
<1>8. op[<<j, o>>] \in OpRow
  BY <1>2 DEF TypeOK
<1>9. /\ op'[<<j, o>>].status = y /\ op'[<<j, o>>].made = n
      /\ \A i \in Jobs, p \in Ordinals :
            i # j \/ p # o => op'[<<i, p>>] = op[<<i, p>>]
  <2>1. CASE op' = [op EXCEPT ![<<claim[s].job, claim[s].ord>>].status = y]
    <3>1. op' = [op EXCEPT ![<<j, o>>] = [op[<<j, o>>] EXCEPT !.status = y]]
      BY <1>1, <2>1
    <3>2. QED
      BY <1>2, <1>1, <1>8, <3>1 DEF TypeOK, OpRow
  <2>2. CASE op' = [op EXCEPT ![<<claim[s].job, claim[s].ord>>].status = y,
                             ![<<claim[s].job, claim[s].ord>>].wait = d]
    <3>1. op' = [op EXCEPT ![<<j, o>>] = [op[<<j, o>>] EXCEPT !.status = y, !.wait = d]]
      BY <1>2, <1>1, <2>2 DEF TypeOK
    <3>2. QED
      BY <1>2, <1>1, <1>8, <3>1 DEF TypeOK, OpRow
  <2>3. QED
    BY <2>1, <2>2
<1>10. Settles(s, j, o, n, x, y)
  BY ONLY <1>1, <1>3, <1>5, <1>7, <1>9, <1>6, Zenon DEF Settles
<1>11. QED
  BY <1>10

\* What all settlements keep, whatever they do to the job.
LEMMA SettledParts ==
    ASSUME Inv, NEW s \in Slots, NEW j \in Jobs, NEW o \in Ordinals, NEW n \in Numbers,
           NEW x \in {"succeeded", "failed"}, NEW y \in {"succeeded", "failed", "retry_wait"},
           Settles(s, j, o, n, x, y), UNCHANGED <<opCount, claim>>,
           y = "retry_wait" => n < MaxAttempts[<<j, o>>]
    PROVE  /\ OperationsInRange(j)'
           /\ AttemptsMatchOperations(j)'
           /\ StartedInOrder(j)'
           /\ HandlesAreGenerations'
           /\ \A i \in Jobs : i # j /\ jobStatus'[i] = jobStatus[i] /\ env'[i] = env[i]
                               => Untouched(i)
<1>0. TypeOK /\ JobInv(j)
  BY DEF Inv
<1>1. OperationsInRange(j)'
  BY <1>0 DEF Settles, JobInv, OperationsInRange
<1>2. AttemptsMatchOperations(j)'
  <2> SUFFICES ASSUME NEW p \in Ordinals, NEW m \in Numbers
               PROVE  /\ att'[<<j, p, m>>].status = "absent" <=> m > op'[<<j, p>>].made
                      /\ att'[<<j, p, m>>].status = "running" <=>
                           op'[<<j, p>>].status = "running" /\ m = op'[<<j, p>>].made
    BY DEF AttemptsMatchOperations
  <2>1. /\ att[<<j, p, m>>].status = "absent" <=> m > op[<<j, p>>].made
        /\ att[<<j, p, m>>].status = "running" <=>
              op[<<j, p>>].status = "running" /\ m = op[<<j, p>>].made
    BY <1>0 DEF JobInv, AttemptsMatchOperations
  <2>2. CASE p # o
    BY <2>1, <2>2 DEF Settles
  <2>3. CASE p = o /\ m = n
    BY <2>1, <2>3 DEF Settles, Numbers
  <2>4. CASE p = o /\ m # n
    BY <2>1, <2>4 DEF Settles
  <2>5. QED
    BY <2>2, <2>3, <2>4
<1>3. StartedInOrder(j)'
  <2> SUFFICES ASSUME NEW p \in Ordinals, op'[<<j, p>>].made > 0,
                      NEW q \in Ordinals, q < p
               PROVE  op'[<<j, q>>].status = "succeeded"
    BY DEF StartedInOrder, PredecessorsSucceeded
  <2>1. op[<<j, p>>].made = op'[<<j, p>>].made
    BY DEF Settles
  <2>2. op[<<j, q>>].status = "succeeded"
    BY <1>0, <2>1 DEF JobInv, StartedInOrder, PredecessorsSucceeded
  <2>3. QED
    BY <2>2 DEF Settles
<1>4. HandlesAreGenerations'
  <2>1. ASSUME NEW k \in AttemptIds, att[k].status # "absent"
        PROVE  att'[k].status # "absent"
    <3>1. PICK i \in Jobs, p \in Ordinals, m \in Numbers : k = <<i, p, m>>
      OBVIOUS
    <3>2. QED
      BY <2>1, <3>1 DEF Settles
  <2>2. QED
    BY <2>1, HandlesKept DEF Settles
<1>5. ASSUME NEW i \in Jobs, i # j, jobStatus'[i] = jobStatus[i], env'[i] = env[i]
      PROVE  Untouched(i)
  BY <1>5 DEF Settles, Untouched
<1>6. QED
  BY <1>1, <1>2, <1>3, <1>4, <1>5

LEMMA SettleSucceededInv ==
    ASSUME Inv, TypeOK', NEW s \in Slots, SettleSucceeded(s)
    PROVE  Inv'
<1>1. PICK j \in Jobs, o \in Ordinals, n \in Numbers :
          Settles(s, j, o, n, "succeeded", "succeeded")
  <2>1. 0 \in 0 .. BackoffTerm
    BY BoundsAssumption
  <2>2. QED
    BY <2>1, SettleShape DEF SettleSucceeded
<1> DEFINE done == \A p \in 0 .. (opCount[j] - 1) :
                       p # o => op[<<j, p>>].status = "succeeded"
<1>0. TypeOK /\ JobInv(j)
  BY DEF Inv
<1>2. /\ UNCHANGED <<opCount, claim>>
      /\ jobStatus' = IF done THEN [jobStatus EXCEPT ![j] = "succeeded"] ELSE jobStatus
      /\ env' = IF done THEN ReleaseRequested(j) ELSE env
  BY <1>1 DEF SettleSucceeded, Settles
<1>3. /\ \A i \in Jobs : i # j => jobStatus'[i] = jobStatus[i] /\ env'[i] = env[i]
      /\ jobStatus'[j] = IF done THEN "succeeded" ELSE "running"
  BY <1>0, <1>1, <1>2, ReleaseRequestedRow DEF TypeOK, Settles
<1>4. /\ OperationsInRange(j)' /\ AttemptsMatchOperations(j)' /\ StartedInOrder(j)'
      /\ HandlesAreGenerations'
      /\ \A i \in Jobs : i # j => Untouched(i)
  BY <1>1, <1>2, <1>3, SettledParts
<1>5. /\ o < opCount[j] /\ opCount[j] \in Nat /\ opCount[j] <= Stages /\ Stages \in Nat
      /\ \A p \in Ordinals : p < o => op[<<j, p>>].status = "succeeded"
      /\ \A p \in Ordinals : p > o =>
            op[<<j, p>>].status \in {"absent", "ready"} /\ op[<<j, p>>].made = 0
  BY <1>0, <1>1, RunningFrontier, StagesType DEF Settles, TypeOK
<1>6. \A p \in Ordinals : p # o => op'[<<j, p>>] = op[<<j, p>>]
  BY <1>1 DEF Settles
<1>7. OperationsMatchJob(j)'
  <2>1. ASSUME NEW p \in Ordinals
        PROVE  /\ op'[<<j, p>>].status \in {"succeeded", "absent", "ready"}
               /\ done /\ p < opCount[j] => op'[<<j, p>>].status = "succeeded"
    <3>1. p = o \/ p < o \/ p > o
      BY DEF Ordinals
    <3>2. op'[<<j, p>>].status \in {"succeeded", "absent", "ready"}
      BY <1>1, <1>5, <1>6, <3>1 DEF Settles
    <3>3. ASSUME done, p < opCount[j] PROVE op'[<<j, p>>].status = "succeeded"
      BY <1>1, <1>5, <1>6, <3>3 DEF Settles, Ordinals
    <3>4. QED
      BY <3>2, <3>3
  <2>2. QED
    BY <1>2, <1>3, <2>1 DEF OperationsMatchJob
<1>8. WorkIfActive(j)'
  <2> SUFFICES ASSUME ~done
               PROVE  \E p \in 0 .. (opCount'[j] - 1) : HasWork(j, p)'
    BY <1>3 DEF WorkIfActive
  <2>1. PICK p \in 0 .. (opCount[j] - 1) : p # o /\ op[<<j, p>>].status # "succeeded"
    OBVIOUS
  <2>2. p \in Ordinals /\ p > o
    BY <1>5, <2>1 DEF Ordinals
  <2>3. PICK q \in Ordinals : q = o + 1
    BY <1>5, <2>2 DEF Ordinals
  <2>4. q \in 0 .. (opCount[j] - 1)
    BY <1>5, <2>1, <2>2, <2>3 DEF Ordinals
  <2>5. op'[<<j, q>>].status = "ready" /\ op'[<<j, q>>].made = 0
    <3>1. op[<<j, q>>].status # "absent"
      BY <1>0, <2>4, <1>5 DEF JobInv, OperationsInRange
    <3>2. q > o /\ q # o
      BY <2>3 DEF Ordinals
    <3>3. QED
      BY <1>5, <1>6, <3>1, <3>2
  <2>6. \A r \in Ordinals : r < q => op'[<<j, r>>].status = "succeeded"
    <3>1. ASSUME NEW r \in Ordinals, r < q PROVE r = o \/ r < o
      BY <2>3, <3>1 DEF Ordinals
    <3>2. QED
      BY <1>1, <1>5, <1>6, <3>1 DEF Settles
  <2>7. MaxAttempts[<<j, q>>] > 0
    BY BudgetAssumption DEF Numbers
  <2>8. HasWork(j, q)'
    BY <1>3, <2>5, <2>6, <2>7 DEF HasWork, PredecessorsSucceeded
  <2>9. QED
    BY <1>2, <2>4, <2>8
<1>9. EnvironmentMatchesJob(j)'
  <2>1. CASE done
    BY <1>0, <1>1, <1>2, <1>3, <2>1, ReleaseRequestedRow
    DEF Settles, JobInv, EnvironmentMatchesJob, Terminal
  <2>2. CASE ~done
    BY <1>0, <1>1, <1>2, <1>3, <2>2 DEF Settles, JobInv, EnvironmentMatchesJob, Terminal
  <2>3. QED
    BY <2>1, <2>2
<1>10. QED
  BY <1>4, <1>7, <1>8, <1>9, OneJobStep DEF JobInv

LEMMA SettleRetryInv ==
    ASSUME Inv, TypeOK', NEW s \in Slots, NEW delay \in 0 .. BackoffTerm,
           SettleRetry(s, delay)
    PROVE  Inv'
<1>1. PICK j \in Jobs, o \in Ordinals, n \in Numbers :
          Settles(s, j, o, n, "failed", "retry_wait")
  BY SettleShape DEF SettleRetry
<1>0. TypeOK /\ JobInv(j)
  BY DEF Inv
<1>2. UNCHANGED <<jobStatus, opCount, env, claim>> /\ n < MaxAttempts[<<j, o>>]
  BY <1>1 DEF SettleRetry, Settles
<1>3. /\ OperationsInRange(j)' /\ AttemptsMatchOperations(j)' /\ StartedInOrder(j)'
      /\ HandlesAreGenerations'
      /\ \A i \in Jobs : i # j => Untouched(i)
  BY <1>1, <1>2, SettledParts
<1>4. OperationsMatchJob(j)' /\ EnvironmentMatchesJob(j)'
  BY <1>0, <1>1, <1>2 DEF Settles, JobInv, OperationsMatchJob, EnvironmentMatchesJob
<1>5. WorkIfActive(j)'
  <2>1. /\ o < opCount[j]
        /\ \A p \in Ordinals : p < o => op[<<j, p>>].status = "succeeded"
    BY <1>1, RunningFrontier DEF Settles
  <2>2. o \in 0 .. (opCount'[j] - 1)
    BY <1>0, <1>2, <2>1 DEF TypeOK, Ordinals
  <2>3. HasWork(j, o)'
    BY <1>1, <1>2, <2>1 DEF Settles, HasWork, PredecessorsSucceeded, Ordinals
  <2>4. QED
    BY <2>2, <2>3 DEF WorkIfActive
<1>6. QED
  BY <1>3, <1>4, <1>5, OneJobStep DEF JobInv

LEMMA SettleFailedInv ==
    ASSUME Inv, TypeOK', NEW s \in Slots, SettleFailed(s)
    PROVE  Inv'
<1>1. PICK j \in Jobs, o \in Ordinals, n \in Numbers :
          Settles(s, j, o, n, "failed", "failed")
  <2>1. 0 \in 0 .. BackoffTerm
    BY BoundsAssumption
  <2>2. QED
    BY <2>1, SettleShape DEF SettleFailed
<1>0. TypeOK /\ JobInv(j)
  BY DEF Inv
<1>2. /\ UNCHANGED <<opCount, claim>>
      /\ jobStatus'[j] = "failed"
      /\ env' = ReleaseRequested(j)
      /\ \A i \in Jobs : i # j => jobStatus'[i] = jobStatus[i] /\ env'[i] = env[i]
  BY <1>0, <1>1, ReleaseRequestedRow DEF SettleFailed, Settles, TypeOK
<1>3. /\ OperationsInRange(j)' /\ AttemptsMatchOperations(j)' /\ StartedInOrder(j)'
      /\ HandlesAreGenerations'
      /\ \A i \in Jobs : i # j => Untouched(i)
  BY <1>1, <1>2, SettledParts
<1>4. OperationsMatchJob(j)'
  <2>1. ASSUME NEW p \in Ordinals
        PROVE  op'[<<j, p>>].status \in {"succeeded", "absent", "ready", "failed"}
    <3>1. p = o \/ p < o \/ p > o
      BY DEF Ordinals
    <3>2. QED
      BY <1>1, <3>1, RunningFrontier DEF Settles
  <2>2. QED
    BY <1>2, <2>1 DEF OperationsMatchJob
<1>5. WorkIfActive(j)'
  BY <1>2 DEF WorkIfActive
<1>6. EnvironmentMatchesJob(j)'
  BY <1>0, <1>2, ReleaseRequestedRow DEF JobInv, EnvironmentMatchesJob, Terminal
<1>7. QED
  BY <1>3, <1>4, <1>5, <1>6, OneJobStep DEF JobInv

-----------------------------------------------------------------------------
(* The invariant and what follows from it.                                 *)

LEMMA NextInv == Inv /\ [Next]_vars => Inv'
<1> SUFFICES ASSUME Inv, [Next]_vars PROVE Inv'
  OBVIOUS
<1>0. TypeOK'
  BY NextTypeOK DEF Inv
<1>1. CASE UNCHANGED vars
  BY <1>0, <1>1, QuietStep DEF vars
<1>2. ASSUME NEW j \in Jobs, UserStep(j) \/ MarkReleased(j) PROVE Inv'
  BY <1>0, <1>2, CreateJobInv, QuietActions, RequestCancellationInv, CancelIdleInv,
     ContinueJobInv, EnvironmentActions DEF UserStep
<1>3. ASSUME NEW s \in Slots, ClaimStep(s) PROVE Inv'
  BY <1>0, <1>3, ClaimNewInv, ClaimExpiredInv DEF ClaimStep
<1>4. ASSUME NEW s \in Slots, HandleStep(s) PROVE Inv'
  BY <1>0, <1>4, QuietActions, EnvironmentActions, SettleSucceededInv, SettleRetryInv,
     SettleFailedInv, AcknowledgeCancellationInv DEF HandleStep
<1>5. CASE TimeStep
  BY <1>0, <1>5, QuietActions
<1>6. QED
  BY <1>1, <1>2, <1>3, <1>4, <1>5 DEF Next

\* Inv holds in every reachable state: the job, operation, attempt and
\* environment rows agree after every transaction, and no lease generation is
\* held twice.
THEOREM Invariant == Spec => []Inv
BY InitInv, NextInv, PTL DEF Spec

\* No stage starts before its predecessors succeeded (the NOT EXISTS clause of
\* the recovery query is enough, whatever else happens to the job).
THEOREM StartsInOrder == Spec => []StagesInOrder
<1>1. Inv => StagesInOrder
  BY DEF Inv, JobInv, StagesInOrder
<1>2. QED
  BY <1>1, Invariant, PTL

\* A job that has not ended always has an operation somebody can work on.
THEOREM NoJobIsStranded == Spec => []ActiveJobHasWork
<1>1. Inv => ActiveJobHasWork
  BY DEF Inv, JobInv, ActiveJobHasWork
<1>2. QED
  BY <1>1, Invariant, PTL

\* The environment of a job that may still settle an attempt is not torn down.
THEOREM ReleaseWaitsForEnd == Spec => []ReleaseOnlyAtEnd
<1>1. Inv => ReleaseOnlyAtEnd
  BY DEF Inv, JobInv, EnvironmentMatchesJob, ReleaseOnlyAtEnd
<1>2. QED
  BY <1>1, Invariant, PTL

\* A terminal job has no running attempt, and its environment is leaving.
THEOREM TerminalJobsAreQuiet == Spec => []TerminalIsQuiet
<1>1. Inv => TerminalIsQuiet
  <2> SUFFICES ASSUME Inv, NEW j \in Jobs, jobStatus[j] \in Terminal
               PROVE  /\ ~HasRunningAttempt(j)
                      /\ env[j].status # "absent" => env[j].desired = "released"
    BY DEF TerminalIsQuiet
  <2>1. ASSUME NEW o \in Ordinals, NEW n \in Numbers, att[<<j, o, n>>].status = "running"
        PROVE  FALSE
    BY <2>1 DEF Inv, JobInv, AttemptsMatchOperations, OperationsMatchJob, Terminal
  <2>2. QED
    BY <2>1 DEF Inv, JobInv, EnvironmentMatchesJob, HasRunningAttempt
<1>2. QED
  BY <1>1, Invariant, PTL

\* The lease fence: at most one slot passes lock_attempt_context for a job.
\* Two that did would both hold the running attempt of the job's one running
\* operation, at its current epoch, and a generation is handed out once.
THEOREM FenceIsExclusive == Spec => []FenceExclusive
<1>1. Inv => FenceExclusive
  <2> SUFFICES ASSUME Inv, NEW s \in Slots, NEW t \in Slots, s # t,
                      Fenced(s), Fenced(t), claim[s].job = claim[t].job
               PROVE  FALSE
    BY DEF FenceExclusive
  <2>1. PICK j \in Jobs, o \in Ordinals, n \in Numbers :
            /\ claim[s].job = j /\ claim[s].ord = o /\ claim[s].num = n
            /\ Attempt(s) = <<j, o, n>>
            /\ op[<<j, o>>].status = "running" /\ op[<<j, o>>].made = n
    BY FencedIsRunning
  <2>2. PICK p \in Ordinals, m \in Numbers :
            /\ claim[t].ord = p /\ claim[t].num = m
            /\ Attempt(t) = <<j, p, m>>
            /\ op[<<j, p>>].status = "running" /\ op[<<j, p>>].made = m
    BY <2>1, FencedIsRunning
  <2>3. p = o
    BY <2>1, <2>2, RunningFrontier DEF Ordinals
  <2>4. Attempt(s) = Attempt(t) /\ claim[s].epoch = claim[t].epoch
    BY <2>1, <2>2, <2>3 DEF Fenced
  <2>5. QED
    BY <2>4 DEF Inv, HandlesAreGenerations, Fenced
<1>2. QED
  BY <1>1, Invariant, PTL

-----------------------------------------------------------------------------
(* What no step does.                                                      *)

\* A handle that may act names an attempt whose job runs or is cancelling.
LEMMA CancellationStep ==
    ASSUME Inv, Next, NEW j \in Jobs
    PROVE  /\ jobStatus[j] = "cancelling" => jobStatus'[j] \in {"cancelling", "cancelled"}
           /\ jobStatus[j] = "cancelled" => jobStatus'[j] = "cancelled"
<1> DEFINE Sticks == /\ jobStatus[j] = "cancelling" =>
                           jobStatus'[j] \in {"cancelling", "cancelled"}
                     /\ jobStatus[j] = "cancelled" => jobStatus'[j] = "cancelled"
<1>0. TypeOK
  BY DEF Inv
<1>1. ASSUME NEW i \in Jobs, UserStep(i) \/ MarkReleased(i) PROVE Sticks
  BY <1>0, <1>1 DEF UserStep, CreateJob, EnsureWorkspace, RemoveWorkspace, RequestCancellation,
                    CancelIdle, ContinueJob, MarkReleased, TypeOK
<1>2. ASSUME NEW s \in Slots, ClaimStep(s) PROVE Sticks
  <2>1. PICK i \in Jobs : /\ jobStatus[i] \in {"queued", "running", "cancelling"}
                          /\ jobStatus' = ClaimedJob(i)
    BY <1>2 DEF ClaimStep, ClaimNew, ClaimExpired, Recoverable
  <2>2. QED
    BY <1>0, <2>1 DEF ClaimedJob, TypeOK
<1>3. ASSUME NEW s \in Slots, HandleStep(s) PROVE Sticks
  <2>1. CASE UNCHANGED jobStatus
    BY <2>1
  <2>2. CASE SettleSucceeded(s) \/ SettleFailed(s)
    <3>1. claim[s].job \in Jobs /\ jobStatus[claim[s].job] = "running"
      BY <2>2, FencedIsRunning DEF SettleSucceeded, SettleFailed, MaySettle
    <3>2. \A i \in Jobs : i # claim[s].job => jobStatus'[i] = jobStatus[i]
      BY <1>0, <2>2, <3>1 DEF SettleSucceeded, SettleFailed, TypeOK
    <3>3. QED
      BY <3>1, <3>2
  <2>3. CASE AcknowledgeCancellation(s)
    <3>1. claim[s].job \in Jobs
      BY <2>3, FencedIsRunning DEF AcknowledgeCancellation
    <3>2. QED
      BY <1>0, <2>3, <3>1 DEF AcknowledgeCancellation, TypeOK
  <2>4. QED
    BY <1>3, <2>1, <2>2, <2>3
    DEF HandleStep, RenewAttempt, RelinquishAttempt, SaveCheckpoint, SettleRetry, Drop,
        EnsureEnvironment, MarkEnvironment, RequestCancellingRelease
<1>4. CASE TimeStep
  BY <1>4 DEF TimeStep, LeaseRuns, BackoffRuns
<1>5. QED
  BY <1>1, <1>2, <1>3, <1>4 DEF Next

\* A requested cancellation is never lost to a settlement, a claim or a
\* continuation, and a cancelled job stays cancelled.
THEOREM CancellationIsSticky == Spec => CancellationSticks
<1>1. Inv /\ [Next]_vars =>
        [\A j \in Jobs :
            /\ jobStatus[j] = "cancelling" => jobStatus'[j] \in {"cancelling", "cancelled"}
            /\ jobStatus[j] = "cancelled" => jobStatus'[j] = "cancelled"]_vars
  BY CancellationStep
<1>2. QED
  BY <1>1, Invariant, PTL DEF Spec, CancellationSticks

LEMMA SettledStep ==
    ASSUME Inv, Next, NEW k \in AttemptIds, att[k].status \notin {"absent", "running"}
    PROVE  att'[k] = att[k] /\ ckpts'[k] = ckpts[k]
<1> DEFINE Kept == att'[k] = att[k] /\ ckpts'[k] = ckpts[k]
<1>0. TypeOK
  BY DEF Inv
<1>1. ASSUME NEW i \in Jobs, UserStep(i) \/ MarkReleased(i) PROVE Kept
  BY <1>1 DEF UserStep, CreateJob, EnsureWorkspace, RemoveWorkspace, RequestCancellation,
              CancelIdle, ContinueJob, MarkReleased
<1>2. ASSUME NEW s \in Slots, NEW j \in Jobs, NEW o \in Ordinals, ClaimNew(s, j, o)
      PROVE  Kept
  <2>1. op[<<j, o>>].made \in Nat /\ op[<<j, o>>].made < AttemptLimit
    <3>1. op[<<j, o>>].made \in Nat /\ MaxAttempts[<<j, o>>] \in Numbers
      BY <1>0, BudgetAssumption DEF TypeOK, OpRow
    <3>2. QED
      BY <1>2, <3>1, BoundsAssumption DEF ClaimNew, Startable, Numbers
  <2>2. PICK n \in Numbers : n = op[<<j, o>>].made + 1
    BY <2>1, BoundsAssumption DEF Numbers
  <2>3. att[<<j, o, n>>].status = "absent"
    BY <2>1, <2>2 DEF Inv, JobInv, AttemptsMatchOperations
  <2>4. k # <<j, o, n>>
    BY <2>3
  <2>5. att' = [att EXCEPT ![<<j, o, n>>] = [status |-> "running", owner |-> OwnerOf[s],
                                            epoch |-> 1, lease |-> LeaseTerm]]
    BY <1>2, <2>2 DEF ClaimNew
  <2>6. QED
    BY <1>0, <1>2, <2>4, <2>5 DEF ClaimNew, TypeOK
<1>3. ASSUME NEW s \in Slots, NEW j \in Jobs, NEW o \in Ordinals, ClaimExpired(s, j, o)
      PROVE  Kept
  <2>1. k # <<j, o, op[<<j, o>>].made>>
    BY <1>3 DEF ClaimExpired, Expired
  <2>2. QED
    BY <1>0, <1>3, <2>1 DEF ClaimExpired, TypeOK
<1>4. ASSUME NEW s \in Slots, HandleStep(s) PROVE Kept
  <2>1. CASE UNCHANGED <<att, ckpts>>
    BY <2>1
  <2>2. CASE Fenced(s)
    <3>1. k # Attempt(s)
      BY <2>2 DEF Fenced
    <3>2. att'[k] = att[k]
      BY <1>0, <1>4, <3>1
      DEF HandleStep, RenewAttempt, RelinquishAttempt, SaveCheckpoint, SettleSucceeded,
          SettleRetry, SettleFailed, AcknowledgeCancellation, Drop, EnsureEnvironment,
          MarkEnvironment, RequestCancellingRelease, TypeOK
    <3>3. ckpts' = ckpts \/ ckpts' = Checkpointed(s)
      BY <1>4
      DEF HandleStep, RenewAttempt, RelinquishAttempt, SaveCheckpoint, SettleSucceeded,
          SettleRetry, SettleFailed, AcknowledgeCancellation, Drop, EnsureEnvironment,
          MarkEnvironment, RequestCancellingRelease, FinalCheckpoint
    <3>4. ckpts'[k] = ckpts[k]
      BY <1>0, <3>1, <3>3 DEF Checkpointed, TypeOK
    <3>5. QED
      BY <3>2, <3>4
  <2>3. QED
    BY <1>4, <2>1, <2>2
    DEF HandleStep, RenewAttempt, RelinquishAttempt, SaveCheckpoint, SettleSucceeded,
        SettleRetry, SettleFailed, AcknowledgeCancellation, Drop, EnsureEnvironment,
        MarkEnvironment, RequestCancellingRelease, MaySettle
<1>5. CASE TimeStep
  <2>1. ckpts' = ckpts
    BY <1>5 DEF TimeStep, LeaseRuns, BackoffRuns
  <2>2. ASSUME NEW j \in Jobs, NEW o \in Ordinals, NEW n \in Numbers, LeaseRuns(j, o, n)
        PROVE  att'[k] = att[k]
    <3>1. k # <<j, o, n>>
      BY <2>2 DEF LeaseRuns
    <3>2. QED
      BY <1>0, <2>2, <3>1 DEF LeaseRuns, TypeOK
  <2>3. QED
    BY <1>5, <2>1, <2>2 DEF TimeStep, BackoffRuns
<1>6. QED
  BY <1>1, <1>2, <1>3, <1>4, <1>5 DEF Next, ClaimStep

\* A settled attempt, its owner, lease generation and checkpoints never change.
THEOREM SettledAttemptsAreFinal == Spec => SettledIsFinal
<1>1. Inv /\ [Next]_vars =>
        [\A k \in AttemptIds :
            att[k].status \notin {"absent", "running"} =>
                att'[k] = att[k] /\ ckpts'[k] = ckpts[k]]_vars
  BY SettledStep
<1>2. QED
  BY <1>1, Invariant, PTL DEF Spec, SettledIsFinal

LEMMA SucceededStep ==
    ASSUME Inv, Next, NEW j \in Jobs, NEW o \in Ordinals, op[<<j, o>>].status = "succeeded"
    PROVE  op'[<<j, o>>].status = "succeeded"
<1>0. TypeOK /\ JobInv(j)
  BY DEF Inv
<1>1. ASSUME NEW i \in Jobs, CreateJob(i) \/ ContinueJob(i)
      PROVE  op'[<<j, o>>] = op[<<j, o>>]
  <2>1. PICK n \in Nat : op' = Appended(i, n)
    BY <1>1, StagesAssumption DEF CreateJob, ContinueJob
  <2>2. o < opCount[j]
    BY <1>0 DEF JobInv, OperationsInRange, TypeOK, Ordinals
  <2>3. QED
    BY <1>0, <2>1, <2>2, AppendedRow DEF TypeOK, Ordinals
<1>2. ASSUME NEW i \in Jobs, op' = Cancelled(i)
      PROVE  op'[<<j, o>>].status = "succeeded"
  BY <1>0, <1>2, CancelledRow DEF Unfinished
<1>3. ASSUME NEW s \in Slots, ClaimStep(s)
      PROVE  op'[<<j, o>>] = op[<<j, o>>]
  <2>1. ASSUME NEW i \in Jobs, NEW p \in Ordinals, ClaimNew(s, i, p)
        PROVE  op'[<<j, o>>] = op[<<j, o>>]
    <3>1. <<i, p>> # <<j, o>>
      BY <2>1 DEF ClaimNew, Startable
    <3>2. QED
      BY <1>0, <2>1, <3>1 DEF ClaimNew, TypeOK
  <2>2. QED
    BY <1>3, <2>1 DEF ClaimStep, ClaimExpired
<1>4. ASSUME NEW s \in Slots, HandleStep(s)
      PROVE  op'[<<j, o>>].status = "succeeded"
  <2>1. CASE UNCHANGED op
    BY <2>1
  <2>2. CASE AcknowledgeCancellation(s)
    <3>1. claim[s].job \in Jobs
      BY <2>2, FencedIsRunning DEF AcknowledgeCancellation
    <3>2. QED
      BY <1>2, <2>2, <3>1 DEF AcknowledgeCancellation
  <2>3. CASE MaySettle(s)
    <3>1. <<claim[s].job, claim[s].ord>> # <<j, o>>
      BY <2>3, FencedIsRunning DEF MaySettle
    <3>2. CASE \/ SettleSucceeded(s) \/ SettleFailed(s)
               \/ \E delay \in 0 .. BackoffTerm : SettleRetry(s, delay)
      BY <1>0, <3>1, <3>2 DEF SettleSucceeded, SettleFailed, SettleRetry, TypeOK
    <3>3. QED
      BY <1>4, <2>1, <2>2, <3>2
      DEF HandleStep, RenewAttempt, RelinquishAttempt, SaveCheckpoint, Drop,
          EnsureEnvironment, MarkEnvironment, RequestCancellingRelease
  <2>4. QED
    BY <1>4, <2>1, <2>2, <2>3
    DEF HandleStep, RenewAttempt, RelinquishAttempt, SaveCheckpoint, SettleSucceeded,
        SettleRetry, SettleFailed, Drop, EnsureEnvironment, MarkEnvironment,
        RequestCancellingRelease
<1>5. ASSUME NEW i \in Jobs, NEW p \in Ordinals, BackoffRuns(i, p)
      PROVE  op'[<<j, o>>] = op[<<j, o>>]
  <2>1. <<i, p>> # <<j, o>>
    BY <1>5 DEF BackoffRuns
  <2>2. QED
    BY <1>0, <1>5, <2>1 DEF BackoffRuns, TypeOK
<1>6. QED
  BY <1>1, <1>2, <1>3, <1>4, <1>5
  DEF Next, UserStep, TimeStep, EnsureWorkspace, RemoveWorkspace, RequestCancellation,
      CancelIdle, MarkReleased, LeaseRuns

\* A succeeded stage stays succeeded, and a job succeeds only as a whole.
THEOREM SucceededStagesAreKept == Spec => SucceededStagesKept
<1>1. Inv /\ Inv' /\ [Next]_vars =>
        [/\ \A p \in OperationIds :
              op[p].status = "succeeded" => op'[p].status = "succeeded"
         /\ \A j \in Jobs :
              jobStatus'[j] = "succeeded" =>
                \A o \in 0 .. (opCount'[j] - 1) : op'[<<j, o>>].status = "succeeded"]_vars
  <2> SUFFICES ASSUME Inv, Inv', Next
               PROVE  /\ \A p \in OperationIds :
                           op[p].status = "succeeded" => op'[p].status = "succeeded"
                      /\ \A j \in Jobs :
                           jobStatus'[j] = "succeeded" =>
                             \A o \in 0 .. (opCount'[j] - 1) :
                               op'[<<j, o>>].status = "succeeded"
    OBVIOUS
  <2>1. ASSUME NEW p \in OperationIds, op[p].status = "succeeded"
        PROVE  op'[p].status = "succeeded"
    <3>1. PICK j \in Jobs, o \in Ordinals : p = <<j, o>>
      OBVIOUS
    <3>2. QED
      BY <2>1, <3>1, SucceededStep
  <2>2. ASSUME NEW j \in Jobs, jobStatus'[j] = "succeeded",
               NEW o \in 0 .. (opCount'[j] - 1)
        PROVE  op'[<<j, o>>].status = "succeeded"
    <3>1. o \in Ordinals /\ o < opCount'[j]
      BY StagesType DEF Inv, TypeOK, Ordinals
    <3>2. QED
      BY <2>2, <3>1 DEF Inv, JobInv, OperationsMatchJob
  <2>3. QED
    BY <2>1, <2>2
<1>2. QED
  BY <1>1, Invariant, PTL DEF Spec, SucceededStagesKept

-----------------------------------------------------------------------------
(* Resumption: what a claim resumes from, and who wrote what came after.   *)

\* A nonempty set of numbers with an upper bound has a largest member.
LEMMA LargestBelow ==
    ASSUME NEW b \in Nat, NEW S, S \subseteq 0 .. b, S # {}
    PROVE  \E m \in S : \A n \in S : n <= m
<1> DEFINE R == OpToRel(<, Nat)
           T == {b - n : n \in S}
<1>1. T \subseteq Nat /\ T # {}
  <2>1. \A n \in S : b - n \in Nat
    OBVIOUS
  <2>2. QED
    BY <2>1, Zenon
<1>2. \A x, y \in Nat : y < x => <<y, x>> \in R
  BY DEF OpToRel
<1>3. IsWellFoundedOn(R, Nat)
  BY NatLessThanWellFounded
<1> HIDE DEF R
<1>4. PICK x \in T : \A y \in T : ~ (<<y, x>> \in R)
  <2> HIDE DEF T
  <2>1. QED
    BY <1>1, <1>3, WFMin
<1>5. PICK m \in S : x = b - m
  OBVIOUS
<1>6. ASSUME NEW n \in S PROVE n <= m
  <2>1. b - n \in T /\ ~(b - n < x)
    BY <1>1, <1>2, <1>4
  <2>2. QED
    BY <2>1, <1>5
<1>7. QED
  BY <1>6

\* The fields of a checkpoint position.
LEMMA PositionType ==
    ASSUME NEW j \in Jobs, NEW o \in Ordinals, NEW q \in Positions(j, o)
    PROVE  /\ q \in Position
           /\ q.ord \in 0 .. (Stages - 1) /\ q.num \in 0 .. AttemptLimit
           /\ q.seq \in 0 .. MaxCheckpoints
           /\ q = [ord |-> q.ord, num |-> q.num, seq |-> q.seq]
BY DEF Positions, Position, Ordinals

\* The newest checkpoint exists whenever there is a checkpoint: the ORDER BY of
\* the recovery query is a total order with a largest row.
LEMMA NewestExists ==
    ASSUME NEW j \in Jobs, NEW o \in Ordinals, Positions(j, o) # {}
    PROVE  \E q \in Positions(j, o) : \A r \in Positions(j, o) \ {q} : Newer(q, r)
<1> DEFINE P == Positions(j, o)
           Ords == {q.ord : q \in P}
<1>0. /\ Stages - 1 \in Nat /\ AttemptLimit \in Nat /\ MaxCheckpoints \in Nat
      /\ \A q \in P : /\ q.ord \in 0 .. (Stages - 1)
                      /\ q.num \in 0 .. AttemptLimit
                      /\ q.seq \in 0 .. MaxCheckpoints
                      /\ q = [ord |-> q.ord, num |-> q.num, seq |-> q.seq]
  BY PositionType, StagesType, BoundsAssumption
<1> HIDE DEF P
<1>1. PICK a \in Ords : \A b \in Ords : b <= a
  <2>1. Ords \subseteq 0 .. (Stages - 1) /\ Ords # {}
    BY <1>0, Zenon DEF P
  <2> HIDE DEF Ords
  <2>2. QED
    BY <1>0, <2>1, LargestBelow
<1> DEFINE Nums == {q.num : q \in {r \in P : r.ord = a}}
<1>2. PICK m \in Nums : \A b \in Nums : b <= m
  <2>1. Nums \subseteq 0 .. AttemptLimit /\ Nums # {}
    BY <1>0, <1>1, Zenon
  <2> HIDE DEF Nums
  <2>2. QED
    BY <1>0, <2>1, LargestBelow
<1> DEFINE Seqs == {q.seq : q \in {r \in P : r.ord = a /\ r.num = m}}
<1>3. PICK c \in Seqs : \A b \in Seqs : b <= c
  <2>1. Seqs \subseteq 0 .. MaxCheckpoints /\ Seqs # {}
    BY <1>0, <1>2, Zenon
  <2> HIDE DEF Seqs
  <2>2. QED
    BY <1>0, <2>1, LargestBelow
<1>4. PICK q \in P : q.ord = a /\ q.num = m /\ q.seq = c
  BY <1>3, Zenon
<1>5. ASSUME NEW r \in P, r # q PROVE Newer(q, r)
  <2>1. r.ord \in Ords
    OBVIOUS
  <2>2. r.ord = a => r.num \in Nums
    OBVIOUS
  <2>3. r.ord = a /\ r.num = m => r.seq \in Seqs
    OBVIOUS
  <2>4. r.ord # a \/ r.num # m \/ r.seq # c
    BY <1>0, <1>4, <1>5
  <2>5. r.ord <= a /\ (r.ord = a => r.num <= m)
        /\ (r.ord = a /\ r.num = m => r.seq <= c)
    BY <1>1, <1>2, <1>3, <2>1, <2>2, <2>3, Zenon
  <2> HIDE DEF Ords, Nums, Seqs
  <2>6. QED
    BY <1>0, <1>4, <2>4, <2>5 DEF Newer
<1>6. QED
  BY <1>4, <1>5 DEF P

\* Nothing the job has saved is newer than the point a claim resumes from.
LEMMA ResumesFromNewest ==
    ASSUME NEW j \in Jobs, NEW o \in Ordinals, NEW r \in Positions(j, o)
    PROVE  ~Newer(r, ResumePoint(j, o))
<1> DEFINE P == Positions(j, o)
           newest(q) == \A x \in P \ {q} : Newer(q, x)
<1>1. PICK q \in P : newest(q) /\ q = ResumePoint(j, o)
  <2>1. \E q \in P : newest(q)
    BY NewestExists
  <2>2. ResumePoint(j, o) = CHOOSE q \in P : newest(q)
    BY <2>1 DEF ResumePoint
  <2>3. QED
    BY <2>1, <2>2
<1>2. /\ q.ord \in Int /\ q.num \in Int /\ q.seq \in Int
      /\ r.ord \in Int /\ r.num \in Int /\ r.seq \in Int
  BY <1>1, PositionType, StagesType
<1>3. r = q \/ Newer(q, r)
  BY <1>1
<1>4. QED
  BY <1>1, <1>2, <1>3 DEF Newer
\* The steps that are not a claim hand out no handle, keep every lease
\* generation, and write at most one checkpoint, through the fence.
LEMMA UnclaimedStep ==
    ASSUME Inv, Next, ~ \E t \in Slots : ClaimStep(t)
    PROVE  /\ \A t \in Slots : claim'[t] \in {claim[t], NoClaim}
           /\ \A k \in AttemptIds : att'[k].epoch = att[k].epoch
           /\ \/ ckpts' = ckpts
              \/ \E t \in Slots : Fenced(t) /\ ckpts' = Checkpointed(t)
<1> DEFINE Quiet == /\ \A t \in Slots : claim'[t] \in {claim[t], NoClaim}
                    /\ \A k \in AttemptIds : att'[k].epoch = att[k].epoch
                    /\ \/ ckpts' = ckpts
                       \/ \E t \in Slots : Fenced(t) /\ ckpts' = Checkpointed(t)
<1>0. TypeOK
  BY DEF Inv
<1>1. ASSUME NEW i \in Jobs, UserStep(i) \/ MarkReleased(i) PROVE Quiet
  BY <1>1 DEF UserStep, CreateJob, EnsureWorkspace, RemoveWorkspace, RequestCancellation,
              CancelIdle, ContinueJob, MarkReleased
<1>2. ASSUME NEW s \in Slots, HandleStep(s) PROVE Quiet
  <2>1. claim' = claim \/ claim' = [claim EXCEPT ![s] = NoClaim]
    BY <1>2
    DEF HandleStep, RenewAttempt, RelinquishAttempt, SaveCheckpoint, SettleSucceeded,
        SettleRetry, SettleFailed, AcknowledgeCancellation, Drop, EnsureEnvironment,
        MarkEnvironment, RequestCancellingRelease
  <2>2. \/ att' = att
        \/ \E x : att' = [att EXCEPT ![Attempt(s)].lease = x]
        \/ \E x : att' = [att EXCEPT ![Attempt(s)].status = x]
    BY <1>2
    DEF HandleStep, RenewAttempt, RelinquishAttempt, SaveCheckpoint, SettleSucceeded,
        SettleRetry, SettleFailed, AcknowledgeCancellation, Drop, EnsureEnvironment,
        MarkEnvironment, RequestCancellingRelease
  <2>3. ckpts' = ckpts \/ (Fenced(s) /\ ckpts' = Checkpointed(s))
    <3>1. ckpts' = ckpts \/ ckpts' = Checkpointed(s)
      BY <1>2
      DEF HandleStep, RenewAttempt, RelinquishAttempt, SaveCheckpoint, SettleSucceeded,
          SettleRetry, SettleFailed, AcknowledgeCancellation, Drop, EnsureEnvironment,
          MarkEnvironment, RequestCancellingRelease, FinalCheckpoint
    <3>2. ckpts' = ckpts \/ Fenced(s)
      BY <1>2
      DEF HandleStep, RenewAttempt, RelinquishAttempt, SaveCheckpoint, SettleSucceeded,
          SettleRetry, SettleFailed, AcknowledgeCancellation, Drop, EnsureEnvironment,
          MarkEnvironment, RequestCancellingRelease, MaySettle
    <3>3. QED
      BY <3>1, <3>2
  <2>4. \A k \in AttemptIds : att'[k].epoch = att[k].epoch
    <3>1. ASSUME NEW x, att' = [att EXCEPT ![Attempt(s)].lease = x]
          PROVE  \A k \in AttemptIds : att'[k].epoch = att[k].epoch
      BY <1>0, <3>1 DEF TypeOK, AttRow
    <3>2. ASSUME NEW x, att' = [att EXCEPT ![Attempt(s)].status = x]
          PROVE  \A k \in AttemptIds : att'[k].epoch = att[k].epoch
      BY <1>0, <3>2 DEF TypeOK, AttRow
    <3>3. QED
      BY <2>2, <3>1, <3>2
  <2>5. \A t \in Slots : claim'[t] \in {claim[t], NoClaim}
    BY <1>0, <2>1 DEF TypeOK
  <2>6. QED
    BY <2>3, <2>4, <2>5
<1>3. CASE TimeStep
  <2>1. \A k \in AttemptIds : att'[k].epoch = att[k].epoch
    <3>1. ASSUME NEW j \in Jobs, NEW o \in Ordinals, NEW n \in Numbers, LeaseRuns(j, o, n)
          PROVE  \A k \in AttemptIds : att'[k].epoch = att[k].epoch
      BY <1>0, <3>1 DEF LeaseRuns, TypeOK, AttRow
    <3>2. QED
      BY <1>3, <3>1 DEF TimeStep, BackoffRuns
  <2>2. QED
    BY <1>3, <2>1 DEF TimeStep, LeaseRuns, BackoffRuns
<1>4. QED
  BY <1>1, <1>2, <1>3 DEF Next

\* A handle that is current and was held before the step was current before it:
\* no step but the claim that hands a generation out makes a handle current.
LEMMA CurrentBefore ==
    ASSUME Inv, [Next]_vars, NEW s \in Slots, claim'[s] = claim[s], Current(s)'
    PROVE  Current(s)
<1>1. /\ claim[s] # NoClaim /\ Attempt(s)' = Attempt(s) /\ Attempt(s) \in AttemptIds
      /\ att[Attempt(s)].status # "absent"
      /\ claim[s].epoch <= att[Attempt(s)].epoch
      /\ claim[s].epoch \in Int /\ att[Attempt(s)].epoch \in Int
  <2>1. claim[s] # NoClaim
    BY DEF Current
  <2>2. claim[s].epoch \in 1 .. MaxEpoch /\ Attempt(s) \in AttemptIds
    BY <2>1, HandleType DEF Inv
  <2>3. att[Attempt(s)].epoch \in Int
    BY <2>2, BoundsAssumption DEF Inv, TypeOK, AttRow
  <2>4. QED
    BY <2>1, <2>2, <2>3 DEF Inv, HandlesAreGenerations, Attempt
<1>2. att'[Attempt(s)].status = "running" /\ att'[Attempt(s)].epoch = claim[s].epoch
  BY <1>1 DEF Current
<1>3. CASE UNCHANGED vars
  BY <1>1, <1>2, <1>3 DEF vars, Current
<1>4. ASSUME NEW t \in Slots, NEW j \in Jobs, NEW o \in Ordinals,
             ClaimNew(t, j, o) \/ ClaimExpired(t, j, o)
      PROVE  Current(s)
  <2>1. PICK k \in AttemptIds : \E g :
            /\ att' = [att EXCEPT ![k] = [status |-> "running", owner |-> OwnerOf[t],
                                         epoch |-> g, lease |-> LeaseTerm]]
            /\ att[k].status = "absent" \/ g = att[k].epoch + 1
    <3>1. CASE ClaimNew(t, j, o)
      <4>1. op[<<j, o>>].made \in Nat /\ MaxAttempts[<<j, o>>] \in Numbers
        <5>1. op[<<j, o>>] \in OpRow /\ <<j, o>> \in OperationIds
          BY DEF Inv, TypeOK
        <5>2. QED
          BY <5>1, BudgetAssumption, BoundsAssumption DEF OpRow
      <4>2. PICK n \in Numbers : n = op[<<j, o>>].made + 1
        BY <3>1, <4>1, BoundsAssumption DEF ClaimNew, Startable, Numbers
      <4>3. att[<<j, o, n>>].status = "absent"
        BY <4>1, <4>2 DEF Inv, JobInv, AttemptsMatchOperations
      <4>4. /\ <<j, o, n>> \in AttemptIds
            /\ att' = [att EXCEPT ![<<j, o, n>>] =
                          [status |-> "running", owner |-> OwnerOf[t],
                           epoch |-> 1, lease |-> LeaseTerm]]
        BY <3>1, <4>2 DEF ClaimNew
      <4>5. QED
        BY <4>3, <4>4
    <3>2. CASE ClaimExpired(t, j, o)
      <4> DEFINE k == <<j, o, op[<<j, o>>].made>>
      <4>1. op[<<j, o>>].made \in Numbers
        BY <3>2, RunningNumber DEF ClaimExpired, Expired, Inv, JobInv
      <4>2. /\ k \in AttemptIds
            /\ att' = [att EXCEPT ![k] =
                          [status |-> "running", owner |-> OwnerOf[t],
                           epoch |-> att[k].epoch + 1, lease |-> LeaseTerm]]
        BY <3>2, <4>1 DEF ClaimExpired
      <4> HIDE DEF k
      <4>3. QED
        BY <4>2
    <3>3. QED
      BY <1>4, <3>1, <3>2
  <2>2. Attempt(s) # k
    BY <1>1, <1>2, <2>1 DEF Inv, TypeOK
  <2>3. QED
    BY <1>1, <1>2, <2>1, <2>2 DEF Inv, TypeOK, Current
<1>5. CASE Next /\ ~ \E t \in Slots : ClaimStep(t)
  <2>1. att[Attempt(s)].status = "running"
    BY <1>1, <1>2, <1>5, SettledStep
  <2>2. att[Attempt(s)].epoch = claim[s].epoch
    BY <1>1, <1>2, <1>5, UnclaimedStep
  <2>3. QED
    BY <1>1, <2>1, <2>2 DEF Current
<1>6. QED
  BY <1>3, <1>4, <1>5 DEF ClaimStep

\* A job has at most one current handle.
LEMMA CurrentIsUnique ==
    ASSUME Inv, NEW s \in Slots, NEW t \in Slots, Current(s), Current(t),
           claim[s].job = claim[t].job
    PROVE  s = t
<1>1. PICK j \in Jobs, o \in Ordinals, n \in Numbers :
          /\ claim[s].job = j /\ Attempt(s) = <<j, o, n>>
          /\ op[<<j, o>>].status = "running" /\ op[<<j, o>>].made = n
  BY HandleType DEF Current, Inv, JobInv, AttemptsMatchOperations
<1>2. PICK p \in Ordinals, m \in Numbers :
          /\ Attempt(t) = <<j, p, m>>
          /\ op[<<j, p>>].status = "running" /\ op[<<j, p>>].made = m
  <2>1. /\ claim[t].ord \in Ordinals /\ claim[t].num \in Numbers
        /\ Attempt(t) = <<j, claim[t].ord, claim[t].num>>
        /\ att[Attempt(t)].status = "running"
    BY <1>1, HandleType DEF Current, Inv
  <2>2. QED
    BY <2>1 DEF Inv, JobInv, AttemptsMatchOperations
<1>3. p = o
  BY <1>1, <1>2, RunningFrontier DEF Ordinals
<1>4. Attempt(s) = Attempt(t) /\ claim[s].epoch = claim[t].epoch
  BY <1>1, <1>2, <1>3 DEF Current
<1>5. QED
  BY <1>4 DEF Inv, HandlesAreGenerations, Current

\* What ResumeInv says of one slot.
ResumeOK(s) ==
    Current(s) =>
        \A q \in Positions(claim[s].job, claim[s].ord) :
            Newer(q, claim[s].resume) =>
                /\ q.ord = claim[s].ord
                /\ q.num = claim[s].num
                /\ ckpts[Attempt(s)][q.seq] = claim[s].epoch

\* A slot whose handle and whose job's checkpoints a step leaves alone.
LEMMA ResumeKept ==
    ASSUME Inv, NEW s \in Slots, ResumeOK(s), Current(s), claim'[s] = claim[s],
           \A o \in Ordinals, n \in Numbers :
              ckpts'[<<claim[s].job, o, n>>] = ckpts[<<claim[s].job, o, n>>]
    PROVE  ResumeOK(s)'
<1>1. /\ claim[s].job \in Jobs /\ claim[s].ord \in Ordinals /\ claim[s].num \in Numbers
      /\ Attempt(s) = <<claim[s].job, claim[s].ord, claim[s].num>>
      /\ Attempt(s)' = Attempt(s)
  BY HandleType DEF Inv, Current, Attempt
<1>2. Positions(claim[s].job, claim[s].ord)' = Positions(claim[s].job, claim[s].ord)
  BY <1>1 DEF Positions
<1>3. ckpts'[Attempt(s)] = ckpts[Attempt(s)]
  BY <1>1
<1>4. QED
  BY <1>1, <1>2, <1>3 DEF ResumeOK, Newer

\* The owner's own checkpoint carries its lease generation.
LEMMA ResumeCheckpointed ==
    ASSUME Inv, NEW s \in Slots, ResumeOK(s), Current(s), claim'[s] = claim[s],
           ckpts' = Checkpointed(s)
    PROVE  ResumeOK(s)'
<1>1. /\ claim[s].job \in Jobs /\ claim[s].ord \in Ordinals /\ claim[s].num \in Numbers
      /\ Attempt(s) = <<claim[s].job, claim[s].ord, claim[s].num>>
      /\ Attempt(s)' = Attempt(s) /\ Attempt(s) \in AttemptIds
      /\ claim[s].epoch \in 1 .. MaxEpoch
  BY HandleType DEF Inv, Current, Attempt
<1> DEFINE j == claim[s].job
           o == claim[s].ord
           k == Attempt(s)
           old == ckpts[k]
<1>2. old \in Seq(1 .. MaxEpoch)
  BY <1>1 DEF Inv, TypeOK
<1>3. /\ ckpts'[k] = Append(old, claim[s].epoch)
      /\ \A i \in AttemptIds : i # k => ckpts'[i] = ckpts[i]
  BY <1>1 DEF Checkpointed, Inv, TypeOK
<1>4. /\ Len(ckpts'[k]) = Len(old) + 1
      /\ \A i \in 1 .. Len(old) : ckpts'[k][i] = old[i]
      /\ ckpts'[k][Len(old) + 1] = claim[s].epoch
      /\ Len(old) \in Nat
  BY <1>2, <1>3
<1>5. ASSUME NEW q \in Positions(j, o)', Newer(q, claim[s].resume)
      PROVE  q.ord = o /\ q.num = claim[s].num /\ ckpts'[k][q.seq] = claim[s].epoch
  <2>1. /\ q \in Position /\ q.ord \in Ordinals /\ q.ord <= o /\ q.num \in Numbers
        /\ q.seq \in 1 .. Len(ckpts'[<<j, q.ord, q.num>>])
    BY <1>5 DEF Positions
  <2>2. CASE q \in Positions(j, o)
    <3>1. q.ord = o /\ q.num = claim[s].num /\ old[q.seq] = claim[s].epoch
      BY <1>5, <2>2 DEF ResumeOK
    <3>2. q.seq \in 1 .. Len(old)
      BY <1>1, <2>2, <3>1 DEF Positions
    <3>3. QED
      BY <1>4, <3>1, <3>2
  <2>3. CASE q \notin Positions(j, o)
    <3>1. <<j, q.ord, q.num>> = k
      <4>1. ckpts'[<<j, q.ord, q.num>>] # ckpts[<<j, q.ord, q.num>>]
        BY <2>1, <2>3 DEF Positions
      <4>2. <<j, q.ord, q.num>> \in AttemptIds
        BY <1>1, <2>1
      <4>3. QED
        BY <1>3, <4>1, <4>2
    <3>2. q.ord = o /\ q.num = claim[s].num
      BY <1>1, <3>1
    <3>3. q.seq \notin 1 .. Len(old)
      BY <1>1, <2>1, <2>3, <3>1 DEF Positions
    <3>4. q.seq = Len(old) + 1
      <4>1. q.seq \in 1 .. Len(ckpts'[k])
        BY <2>1, <3>1
      <4> HIDE DEF old, k
      <4>2. QED
        BY <1>4, <3>3, <4>1
    <3>5. QED
      BY <1>4, <3>2, <3>4
  <2>4. QED
    BY <2>2, <2>3
<1>6. QED
  BY <1>1, <1>5 DEF ResumeOK, Newer

LEMMA ResumeUnclaimed ==
    ASSUME Inv, Next, ~ \E t \in Slots : ClaimStep(t),
           NEW s \in Slots, ResumeOK(s)
    PROVE  ResumeOK(s)'
<1> SUFFICES ASSUME Current(s)' PROVE ResumeOK(s)'
  BY DEF ResumeOK
<1>1. claim'[s] = claim[s] /\ claim[s] # NoClaim
  BY UnclaimedStep DEF Current
<1>2. /\ Attempt(s)' = Attempt(s) /\ Attempt(s) \in AttemptIds
      /\ claim[s].job \in Jobs
  BY <1>1, HandleType DEF Attempt, Inv
<1>3. Current(s)
  BY <1>1, CurrentBefore
<1>4. CASE ckpts' = ckpts
  BY <1>1, <1>3, <1>4, ResumeKept
<1>5. ASSUME NEW t \in Slots, Fenced(t), ckpts' = Checkpointed(t)
      PROVE  ResumeOK(s)'
  <2>1. CASE t = s
    BY <1>1, <1>3, <1>5, <2>1, ResumeCheckpointed
  <2>2. CASE t # s
    <3>1. Current(t)
      BY <1>5 DEF Fenced, Current
    <3>2. claim[t].job # claim[s].job
      BY <1>3, <2>2, <3>1, CurrentIsUnique
    <3>3. Attempt(t) = <<claim[t].job, claim[t].ord, claim[t].num>> /\ Attempt(t) \in AttemptIds
      BY <3>1, HandleType DEF Inv, Current
    <3>4. \A o \in Ordinals, n \in Numbers :
              ckpts'[<<claim[s].job, o, n>>] = ckpts[<<claim[s].job, o, n>>]
      BY <1>2, <1>5, <3>2, <3>3 DEF Checkpointed, Inv, TypeOK
    <3>5. QED
      BY <1>1, <1>3, <3>4, ResumeKept
  <2>3. QED
    BY <2>1, <2>2
<1>6. QED
  BY <1>4, <1>5, UnclaimedStep

\* A claim resumes from the newest checkpoint; every other handle is either
\* unaffected or, on the claimed attempt, no longer current.
LEMMA ResumeClaimed ==
    ASSUME Inv, NEW t \in Slots, NEW j \in Jobs, NEW o \in Ordinals,
           ClaimNew(t, j, o) \/ ClaimExpired(t, j, o),
           NEW s \in Slots, ResumeOK(s)
    PROVE  ResumeOK(s)'
<1>0. /\ ckpts' = ckpts
      /\ claim[t] = NoClaim
  BY DEF ClaimNew, ClaimExpired
<1>1. PICK m, e : claim' = [claim EXCEPT ![t] =
                              [job |-> j, ord |-> o, num |-> m, epoch |-> e,
                               resume |-> ResumePoint(j, o)]]
  BY DEF ClaimNew, ClaimExpired
<1>2. CASE s = t
  <2>1. claim'[s].job = j /\ claim'[s].ord = o /\ claim'[s].resume = ResumePoint(j, o)
    BY <1>1, <1>2 DEF Inv, TypeOK
  <2>2. Positions(j, o)' = Positions(j, o)
    BY <1>0 DEF Positions
  <2>3. \A q \in Positions(j, o)' : ~Newer(q, ResumePoint(j, o))
    BY <2>2, ResumesFromNewest
  <2>4. QED
    BY <2>1, <2>3 DEF ResumeOK, Newer
<1>3. CASE s # t
  <2>1. claim'[s] = claim[s]
    BY <1>1, <1>3 DEF Inv, TypeOK
  <2> SUFFICES ASSUME Current(s)' PROVE ResumeOK(s)'
    BY DEF ResumeOK
  <2>2. Next
    BY DEF Next, ClaimStep
  <2>3. Current(s)
    BY <2>1, <2>2, CurrentBefore
  <2>4. QED
    BY <1>0, <2>1, <2>3, ResumeKept
<1>4. QED
  BY <1>2, <1>3

LEMMA NextResume ==
    ASSUME Inv, ResumeInv, [Next]_vars
    PROVE  ResumeInv'
<1> SUFFICES ASSUME NEW s \in Slots PROVE ResumeOK(s)'
  BY DEF ResumeInv, ResumeOK
<1>1. ResumeOK(s)
  BY DEF ResumeInv, ResumeOK
<1>2. CASE UNCHANGED vars
  BY <1>1, <1>2 DEF vars, ResumeOK, Current, Attempt, Positions, Newer
<1>3. ASSUME NEW t \in Slots, ClaimStep(t) PROVE ResumeOK(s)'
  BY <1>1, <1>3, ResumeClaimed DEF ClaimStep
<1>4. QED
  BY <1>1, <1>2, <1>3, ResumeUnclaimed

\* Work is never forked: what the owner of a live lease did not write itself is
\* at or before the checkpoint it resumed from, so no finished turn of an
\* earlier owner is redone or lost.  The ORDER BY of the recovery query and the
\* fence in insert_checkpoint are what it takes.
THEOREM ProgressIsNotForked == Spec => []ProgressNotForked
<1>1. Init => ResumeInv
  BY DEF Init, ResumeInv, Current
<1>2. ResumeInv => ProgressNotForked
  BY DEF ResumeInv, ProgressNotForked, Current, Fenced
<1>3. QED
  BY <1>1, <1>2, NextResume, Invariant, PTL DEF Spec

-----------------------------------------------------------------------------
(* Lifecycle steps, from what changed in the tables.                       *)

\* No stage passed and none was undone.
SameStages ==
    \A j \in Jobs, o \in Ordinals :
        op'[<<j, o>>].status = "succeeded" <=> op[<<j, o>>].status = "succeeded"

\* Only the status of j changed.
OnlyStatusOf(j) == \A i \in Jobs : i # j => jobStatus'[i] = jobStatus[i]

LEMMA PhasesType == \A x \in JobStatuses : Phase(x) \in
    {"none", "open", "stopping", "succeeded", "failed", "cancelled"}
BY DEF JobStatuses, Phase

LEMMA SamePassed ==
    ASSUME SameStages
    PROVE  [j \in Jobs |-> PassedStages(j)]' = [j \in Jobs |-> PassedStages(j)]
<1>1. ASSUME NEW j \in Jobs PROVE PassedStages(j)' = PassedStages(j)
  BY DEF SameStages, PassedStages
<1>2. QED
  BY <1>1

\* The phase function after the status of one job changed.
LEMMA OnePhase ==
    ASSUME TypeOK, NEW j \in Jobs, OnlyStatusOf(j)
    PROVE  [i \in Jobs |-> Phase(jobStatus[i])]' =
             [[i \in Jobs |-> Phase(jobStatus[i])] EXCEPT ![j] = Phase(jobStatus'[j])]
BY DEF OnlyStatusOf

LEMMA StutterStep ==
    ASSUME SameStages, opCount' = opCount,
           \A j \in Jobs : Phase(jobStatus'[j]) = Phase(jobStatus[j])
    PROVE  UNCHANGED Lifecycle!vars
<1>1. [j \in Jobs |-> Phase(jobStatus[j])]' = [j \in Jobs |-> Phase(jobStatus[j])]
  OBVIOUS
<1>2. QED
  BY <1>1, SamePassed DEF Lifecycle!vars

LEMMA EndStep ==
    ASSUME TypeOK, NEW j \in Jobs, SameStages, opCount' = opCount, OnlyStatusOf(j),
           \/ /\ jobStatus[j] \in {"queued", "running"}
              /\ jobStatus'[j] \in {"failed", "cancelling", "cancelled"}
           \/ jobStatus[j] = "cancelling" /\ jobStatus'[j] = "cancelled"
    PROVE  Lifecycle!End(j)
<1> DEFINE ph == [i \in Jobs |-> Phase(jobStatus[i])]
<1>1. ph' = [ph EXCEPT ![j] = Phase(jobStatus'[j])]
  BY OnePhase
<1>2. ph[j] = Phase(jobStatus[j])
  OBVIOUS
<1>3. UNCHANGED <<opCount, [i \in Jobs |-> PassedStages(i)]>>
  BY SamePassed
<1>4. \/ /\ Phase(jobStatus[j]) = "open"
         /\ Phase(jobStatus'[j]) \in {"failed", "stopping", "cancelled"}
      \/ Phase(jobStatus[j]) = "stopping" /\ Phase(jobStatus'[j]) = "cancelled"
  BY DEF Phase
<1> HIDE DEF ph
<1>5. \/ ph[j] = "open" /\ \E p \in {"failed", "stopping", "cancelled"} : ph' = [ph EXCEPT ![j] = p]
      \/ ph[j] = "stopping" /\ ph' = [ph EXCEPT ![j] = "cancelled"]
  BY <1>1, <1>2, <1>4
<1>6. QED
  BY <1>3, <1>5 DEF Lifecycle!End, ph

\* The two actions that open a job: op grows by ready stages, which have not
\* passed.
LEMMA OpenStep ==
    ASSUME TypeOK, NEW j \in Jobs, SameStages, OnlyStatusOf(j),
           jobStatus[j] \in {"none", "succeeded"}, jobStatus'[j] = "queued",
           opCount' = [opCount EXCEPT ![j] = IF jobStatus[j] = "none"
                                             THEN BaseStages ELSE @ + RoundStages]
    PROVE  Lifecycle!Create(j) \/ Lifecycle!Continue(j)
<1> DEFINE ph == [i \in Jobs |-> Phase(jobStatus[i])]
<1>1. ph' = [ph EXCEPT ![j] = Phase(jobStatus'[j])]
  BY OnePhase
<1>2. ph[j] = Phase(jobStatus[j])
  OBVIOUS
<1>3. UNCHANGED [i \in Jobs |-> PassedStages(i)]
  BY SamePassed
<1>4. Phase("none") = "none" /\ Phase("succeeded") = "succeeded" /\ Phase("queued") = "open"
  BY DEF Phase
<1> HIDE DEF ph
<1>5. CASE jobStatus[j] = "none"
  <2>1. /\ ph[j] = "none" /\ ph' = [ph EXCEPT ![j] = "open"]
        /\ opCount' = [opCount EXCEPT ![j] = BaseStages]
    BY <1>1, <1>2, <1>4, <1>5
  <2>2. QED
    BY <1>3, <2>1 DEF Lifecycle!Create, ph
<1>6. CASE jobStatus[j] = "succeeded"
  <2>1. /\ ph[j] = "succeeded" /\ ph' = [ph EXCEPT ![j] = "open"]
        /\ opCount' = [opCount EXCEPT ![j] = @ + RoundStages]
    BY <1>1, <1>2, <1>4, <1>6
  <2>2. QED
    BY <1>3, <2>1 DEF Lifecycle!Continue, ph
<1>7. QED
  BY <1>5, <1>6

\* Stage o passes: the stages before it have, no later one has.
LEMMA PassStep ==
    ASSUME TypeOK, NEW j \in Jobs, NEW o \in Ordinals, OnlyStatusOf(j), opCount' = opCount,
           o < opCount[j], jobStatus[j] = "running",
           jobStatus'[j] = (IF o + 1 = opCount[j] THEN "succeeded" ELSE "running"),
           \A p \in Ordinals : op[<<j, p>>].status = "succeeded" <=> p < o,
           \A p \in Ordinals : op'[<<j, p>>].status = "succeeded" <=> p <= o,
           \A i \in Jobs, p \in Ordinals : i # j => op'[<<i, p>>] = op[<<i, p>>]
    PROVE  Lifecycle!Pass(j, o)
<1> DEFINE ph == [i \in Jobs |-> Phase(jobStatus[i])]
           ps == [i \in Jobs |-> PassedStages(i)]
<1>1. ph' = [ph EXCEPT ![j] = Phase(jobStatus'[j])]
  BY OnePhase
<1>2. ph[j] = Phase(jobStatus[j])
  OBVIOUS
<1>3. Phase("running") = "open" /\ Phase("succeeded") = "succeeded"
  BY DEF Phase
<1>4. o \in Nat /\ \A p \in 0 .. o : p \in Ordinals
  BY StagesType DEF Ordinals
<1>5. ps[j] = 0 .. (o - 1)
  <2>1. ps[j] = {p \in Ordinals : p < o}
    BY DEF PassedStages
  <2>2. {p \in Ordinals : p < o} = 0 .. (o - 1)
    BY <1>4, StagesType DEF Ordinals
  <2>3. QED
    BY <2>1, <2>2
<1>6. ps' = [ps EXCEPT ![j] = 0 .. o]
  <2>1. ps' = [i \in Jobs |-> PassedStages(i)']
    OBVIOUS
  <2>2. PassedStages(j)' = 0 .. o
    <3>1. PassedStages(j)' = {p \in Ordinals : p <= o}
      BY DEF PassedStages
    <3>2. QED
      BY <1>4, <3>1, StagesType DEF Ordinals
  <2>3. ASSUME NEW i \in Jobs, i # j PROVE PassedStages(i)' = PassedStages(i)
    BY <2>3 DEF PassedStages
  <2>4. QED
    BY <2>1, <2>2, <2>3
<1> HIDE DEF ph, ps
<1>7. ph[j] = "open"
      /\ ph' = [ph EXCEPT ![j] = IF o + 1 = opCount[j] THEN "succeeded" ELSE "open"]
  <2>1. Phase(jobStatus'[j]) = IF o + 1 = opCount[j] THEN "succeeded" ELSE "open"
    BY <1>3
  <2>2. QED
    BY <1>1, <1>2, <1>3, <2>1
<1>8. QED
  BY <1>5, <1>6, <1>7 DEF Lifecycle!Pass, ph, ps

-----------------------------------------------------------------------------
(* The transactions.                                                       *)

LEMMA UserMaps ==
    ASSUME Inv, NEW j \in Jobs, UserStep(j) \/ MarkReleased(j)
    PROVE  \/ Lifecycle!Create(j) \/ Lifecycle!Continue(j) \/ Lifecycle!End(j)
           \/ UNCHANGED Lifecycle!vars
<1>0. TypeOK /\ JobInv(j)
  BY DEF Inv
<1>1. CASE CreateJob(j) \/ ContinueJob(j)
  <2>1. PICK n \in Nat : op' = Appended(j, n)
    BY <1>1, StagesAssumption DEF CreateJob, ContinueJob
  <2>2. SameStages
    <3> SUFFICES ASSUME NEW i \in Jobs, NEW o \in Ordinals
                 PROVE  op'[<<i, o>>].status = "succeeded" <=> op[<<i, o>>].status = "succeeded"
      BY DEF SameStages
    <3>1. op[<<j, o>>].status = "succeeded" => o < opCount[j]
      BY <1>0 DEF JobInv, OperationsInRange, TypeOK, Ordinals
    <3>2. ReadyOp.status # "succeeded"
      BY DEF ReadyOp
    <3>3. opCount[j] \in Nat /\ o \in Nat
      BY <1>0, StagesType DEF TypeOK, Ordinals
    <3>4. CASE i # j
      BY <2>1, <3>4, AppendedRow
    <3>5. CASE i = j
      <4>1. op'[<<j, o>>] = IF o \in opCount[j] .. (opCount[j] + n - 1)
                            THEN ReadyOp ELSE op[<<j, o>>]
        BY <2>1, AppendedRow
      <4>2. QED
        BY <3>1, <3>2, <3>3, <3>5, <4>1
    <3>6. QED
      BY <3>4, <3>5
  <2>3. OnlyStatusOf(j)
    BY <1>0, <1>1 DEF CreateJob, ContinueJob, OnlyStatusOf, TypeOK
  <2>4. /\ jobStatus[j] \in {"none", "succeeded"} /\ jobStatus'[j] = "queued"
        /\ opCount' = [opCount EXCEPT ![j] = IF jobStatus[j] = "none"
                                             THEN BaseStages ELSE @ + RoundStages]
    BY <1>0, <1>1 DEF CreateJob, ContinueJob, TypeOK
  <2>5. QED
    BY <1>0, <2>2, <2>3, <2>4, OpenStep
<1>2. CASE RequestCancellation(j)
  <2>1. SameStages
    BY <1>2 DEF RequestCancellation, SameStages
  <2>2. /\ OnlyStatusOf(j) /\ opCount' = opCount
        /\ jobStatus[j] \in {"queued", "running"} /\ jobStatus'[j] = "cancelling"
    BY <1>0, <1>2 DEF RequestCancellation, OnlyStatusOf, TypeOK
  <2>3. QED
    BY <1>0, <2>1, <2>2, EndStep
<1>3. CASE CancelIdle(j)
  <2>1. SameStages
    BY <1>0, <1>3, CancelledRow DEF CancelIdle, SameStages, Unfinished
  <2>2. /\ OnlyStatusOf(j) /\ opCount' = opCount
        /\ jobStatus[j] \in {"queued", "running"} /\ jobStatus'[j] = "cancelled"
    BY <1>0, <1>3 DEF CancelIdle, OnlyStatusOf, TypeOK
  <2>3. QED
    BY <1>0, <2>1, <2>2, EndStep
<1>4. CASE UNCHANGED <<jobStatus, opCount, op>>
  BY <1>4, StutterStep DEF SameStages
<1>5. QED
  BY <1>1, <1>2, <1>3, <1>4 DEF UserStep, EnsureWorkspace, RemoveWorkspace, MarkReleased

LEMMA ClaimMaps ==
    ASSUME Inv, NEW s \in Slots, ClaimStep(s)
    PROVE  UNCHANGED Lifecycle!vars
<1>0. TypeOK
  BY DEF Inv
<1>1. PICK i \in Jobs, o \in Ordinals : ClaimNew(s, i, o) \/ ClaimExpired(s, i, o)
  BY DEF ClaimStep
<1>2. ASSUME NEW j \in Jobs PROVE Phase(jobStatus'[j]) = Phase(jobStatus[j])
  <2>1. jobStatus[i] \in {"queued", "running", "cancelling"} /\ jobStatus' = ClaimedJob(i)
    BY <1>1 DEF ClaimNew, ClaimExpired, Recoverable
  <2>2. \/ jobStatus'[j] = jobStatus[j]
        \/ jobStatus[j] \in {"queued", "running"} /\ jobStatus'[j] = "running"
    BY <1>0, <2>1 DEF ClaimedJob, TypeOK
  <2>3. QED
    BY <2>2 DEF Phase
<1>3. SameStages
  <2>1. CASE ClaimExpired(s, i, o)
    BY <2>1 DEF ClaimExpired, SameStages
  <2>2. CASE ClaimNew(s, i, o)
    <3>1. op[<<i, o>>].status # "succeeded"
      BY <2>2 DEF ClaimNew, Startable
    <3>2. PICK row : row.status = "running" /\ op' = [op EXCEPT ![<<i, o>>] = row]
      BY <2>2 DEF ClaimNew
    <3>3. /\ op'[<<i, o>>] = row
          /\ \A j \in Jobs, p \in Ordinals : j # i \/ p # o => op'[<<j, p>>] = op[<<j, p>>]
      BY <1>0, <3>2 DEF TypeOK, OperationIds
    <3>4. QED
      BY <3>1, <3>2, <3>3 DEF SameStages
  <2>3. QED
    BY <1>1, <2>1, <2>2
<1>4. opCount' = opCount
  BY <1>1 DEF ClaimNew, ClaimExpired
<1>5. QED
  BY <1>2, <1>3, <1>4, StutterStep

LEMMA SettleSucceededMaps ==
    ASSUME Inv, NEW s \in Slots, SettleSucceeded(s)
    PROVE  \E j \in Jobs, o \in Ordinals : o < opCount[j] /\ Lifecycle!Pass(j, o)
<1>0. TypeOK /\ MaySettle(s)
  BY DEF Inv, SettleSucceeded
<1>1. PICK j \in Jobs, o \in Ordinals, n \in Numbers : Settles(s, j, o, n, "succeeded", "succeeded")
  <2>1. 0 \in 0 .. BackoffTerm
    BY BoundsAssumption
  <2>2. QED
    BY <1>0, <2>1, SettleShape DEF SettleSucceeded
<1>2. /\ claim[s].job = j /\ claim[s].ord = o
      /\ op[<<j, o>>].status = "running" /\ jobStatus[j] = "running"
      /\ op'[<<j, o>>].status = "succeeded"
      /\ \A i \in Jobs, p \in Ordinals : i # j \/ p # o => op'[<<i, p>>] = op[<<i, p>>]
  BY <1>1 DEF Settles
<1>3. /\ o < opCount[j]
      /\ \A p \in Ordinals : p < o => op[<<j, p>>].status = "succeeded"
      /\ \A p \in Ordinals : p > o => op[<<j, p>>].status \in {"absent", "ready"}
  BY <1>2, RunningFrontier
<1>4. \A p \in Ordinals : op[<<j, p>>].status = "succeeded" <=> p < o
  BY <1>2, <1>3 DEF Ordinals
<1>5. \A p \in Ordinals : op'[<<j, p>>].status = "succeeded" <=> p <= o
  BY <1>2, <1>4 DEF Ordinals
<1> DEFINE done == \A p \in 0 .. (opCount[j] - 1) : p # o => op[<<j, p>>].status = "succeeded"
<1>6. done <=> o + 1 = opCount[j]
  <2>1. opCount[j] \in 0 .. Stages
    BY <1>0 DEF TypeOK
  <2>2. \A p \in 0 .. (opCount[j] - 1) : p \in Ordinals
    BY <2>1, StagesType DEF Ordinals
  <2>3. CASE o + 1 = opCount[j]
    BY <1>4, <2>1, <2>2, <2>3 DEF Ordinals
  <2>4. CASE o + 1 # opCount[j]
    <3>1. o + 1 \in 0 .. (opCount[j] - 1) /\ o + 1 # o /\ ~(o + 1 < o)
      BY <1>3, <2>1, <2>4 DEF Ordinals
    <3>2. op[<<j, o + 1>>].status # "succeeded"
      BY <1>4, <2>2, <3>1
    <3>3. QED
      BY <2>4, <3>1, <3>2
  <2>5. QED
    BY <2>3, <2>4
<1>7. jobStatus' = (IF done THEN [jobStatus EXCEPT ![j] = "succeeded"] ELSE jobStatus)
      /\ opCount' = opCount
  BY <1>2 DEF SettleSucceeded
<1> HIDE DEF done
<1>8. OnlyStatusOf(j) /\ jobStatus'[j] = IF o + 1 = opCount[j] THEN "succeeded" ELSE "running"
  BY <1>0, <1>2, <1>6, <1>7 DEF TypeOK, OnlyStatusOf
<1>9. Lifecycle!Pass(j, o)
  BY <1>0, <1>2, <1>3, <1>4, <1>5, <1>7, <1>8, PassStep
<1>10. QED
  BY <1>3, <1>9

LEMMA SettleFailureMaps ==
    ASSUME Inv, NEW s \in Slots,
           SettleFailed(s) \/ \E delay \in 0 .. BackoffTerm : SettleRetry(s, delay)
    PROVE  (\E j \in Jobs : Lifecycle!End(j)) \/ UNCHANGED Lifecycle!vars
<1>0. TypeOK /\ MaySettle(s)
  BY DEF Inv, SettleFailed, SettleRetry
<1>1. PICK j \in Jobs, o \in Ordinals, n \in Numbers, y \in {"failed", "retry_wait"} :
          Settles(s, j, o, n, "failed", y)
  <2>1. 0 \in 0 .. BackoffTerm
    BY BoundsAssumption
  <2>2. CASE SettleFailed(s)
    BY <1>0, <2>1, <2>2, SettleShape DEF SettleFailed
  <2>3. ASSUME NEW delay \in 0 .. BackoffTerm, SettleRetry(s, delay)
        PROVE  \E j \in Jobs, o \in Ordinals, n \in Numbers :
                   Settles(s, j, o, n, "failed", "retry_wait")
    BY <1>0, <2>3, SettleShape DEF SettleRetry
  <2>4. QED
    BY <2>2, <2>3
<1>2. /\ claim[s].job = j /\ jobStatus[j] = "running"
      /\ op[<<j, o>>].status = "running" /\ op'[<<j, o>>].status = y
      /\ \A i \in Jobs, p \in Ordinals : i # j \/ p # o => op'[<<i, p>>] = op[<<i, p>>]
  BY <1>1 DEF Settles
<1>3. SameStages
  BY <1>2 DEF SameStages
<1>4. CASE SettleFailed(s)
  <2>1. jobStatus' = [jobStatus EXCEPT ![j] = "failed"] /\ opCount' = opCount
    BY <1>2, <1>4 DEF SettleFailed
  <2>2. OnlyStatusOf(j) /\ jobStatus'[j] = "failed"
    BY <1>0, <2>1 DEF TypeOK, OnlyStatusOf
  <2>3. QED
    BY <1>0, <1>2, <1>3, <2>1, <2>2, EndStep
<1>5. CASE \E delay \in 0 .. BackoffTerm : SettleRetry(s, delay)
  <2>1. UNCHANGED <<jobStatus, opCount>>
    BY <1>5 DEF SettleRetry
  <2>2. QED
    BY <1>3, <2>1, StutterStep
<1>6. QED
  BY <1>4, <1>5

LEMMA AcknowledgeCancellationMaps ==
    ASSUME Inv, NEW s \in Slots, AcknowledgeCancellation(s)
    PROVE  \E j \in Jobs : Lifecycle!End(j)
<1>0. TypeOK
  BY DEF Inv
<1>1. PICK j \in Jobs : j = claim[s].job
  BY FencedIsRunning DEF AcknowledgeCancellation
<1>2. /\ jobStatus[j] = "cancelling" /\ op' = Cancelled(j) /\ opCount' = opCount
      /\ jobStatus' = [jobStatus EXCEPT ![j] = "cancelled"]
  BY <1>1 DEF AcknowledgeCancellation
<1>3. SameStages
  BY <1>0, <1>2, CancelledRow DEF SameStages, Unfinished
<1>4. OnlyStatusOf(j) /\ jobStatus'[j] = "cancelled"
  BY <1>0, <1>2 DEF TypeOK, OnlyStatusOf
<1>5. QED
  BY <1>0, <1>2, <1>3, <1>4, EndStep

LEMMA TimeMaps ==
    ASSUME Inv, TimeStep
    PROVE  UNCHANGED Lifecycle!vars
<1>0. TypeOK
  BY DEF Inv
<1>1. UNCHANGED <<jobStatus, opCount>>
  BY DEF TimeStep, LeaseRuns, BackoffRuns
<1>2. ASSUME NEW i \in Jobs, NEW p \in Ordinals, BackoffRuns(i, p) PROVE SameStages
  <2>0. op[<<i, p>>] \in OpRow
    BY <1>0 DEF TypeOK, OperationIds
  <2>1. op[<<i, p>>].status = "retry_wait"
    BY <1>2 DEF BackoffRuns
  <2>2. PICK row : row.status = "retry_wait" /\ op' = [op EXCEPT ![<<i, p>>] = row]
    BY <1>2, <2>0, <2>1 DEF BackoffRuns, OpRow
  <2>3. /\ op'[<<i, p>>] = row
        /\ \A j \in Jobs, o \in Ordinals : j # i \/ o # p => op'[<<j, o>>] = op[<<j, o>>]
    BY <1>0, <2>2 DEF TypeOK, OperationIds
  <2>4. QED
    BY <2>1, <2>2, <2>3 DEF SameStages
<1>3. SameStages
  BY <1>2 DEF TimeStep, LeaseRuns, SameStages
<1>4. QED
  BY <1>1, <1>3, StutterStep

LEMMA NextMaps ==
    ASSUME Inv, [Next]_vars
    PROVE  [Lifecycle!Next]_Lifecycle!vars
<1>1. CASE UNCHANGED vars
  BY <1>1, StutterStep DEF vars, SameStages
<1>2. ASSUME NEW j \in Jobs, UserStep(j) \/ MarkReleased(j)
      PROVE  [Lifecycle!Next]_Lifecycle!vars
  BY <1>2, UserMaps DEF Lifecycle!Next
<1>3. ASSUME NEW s \in Slots, HandleStep(s)
      PROVE  [Lifecycle!Next]_Lifecycle!vars
  <2>1. CASE SettleSucceeded(s)
    <3>1. PICK j \in Jobs, o \in Ordinals : o < opCount[j] /\ Lifecycle!Pass(j, o)
      BY <2>1, SettleSucceededMaps
    <3>2. o \in 0 .. opCount[j]
      BY <3>1, StagesType DEF Inv, TypeOK, Ordinals
    <3>3. QED
      BY <3>1, <3>2 DEF Lifecycle!Next
  <2>2. CASE SettleFailed(s) \/ \E delay \in 0 .. BackoffTerm : SettleRetry(s, delay)
    BY <2>2, SettleFailureMaps DEF Lifecycle!Next
  <2>3. CASE AcknowledgeCancellation(s)
    BY <2>3, AcknowledgeCancellationMaps DEF Lifecycle!Next
  <2>4. CASE UNCHANGED <<jobStatus, opCount, op>>
    BY <2>4, StutterStep DEF SameStages
  <2>5. QED
    BY <1>3, <2>1, <2>2, <2>3, <2>4
    DEF HandleStep, RenewAttempt, RelinquishAttempt, SaveCheckpoint, Drop,
        EnsureEnvironment, MarkEnvironment, RequestCancellingRelease
<1>4. QED
  BY <1>1, <1>2, <1>3, ClaimMaps, TimeMaps DEF Next

LEMMA InitMaps == Init => Lifecycle!Init
<1> SUFFICES ASSUME Init PROVE Lifecycle!Init
  OBVIOUS
<1>1. Phase("none") = "none"
  BY DEF Phase
<1>2. [j \in Jobs |-> Phase(jobStatus[j])] = [j \in Jobs |-> "none"]
  BY <1>1 DEF Init
<1>3. ASSUME NEW j \in Jobs PROVE PassedStages(j) = {}
  BY DEF Init, PassedStages, AbsentOp, OperationIds
<1>4. QED
  BY <1>2, <1>3 DEF Init, Lifecycle!Init

\* However attempts are claimed, lost, retried, recovered or settled late, a
\* client sees the stages of a job pass one after the other, each of them once,
\* and one end of the job: the coordinator implements the lifecycle.
THEOREM CoordinatorImplementsLifecycle == Spec => ImplementsLifecycle
BY InitMaps, NextMaps, Invariant, PTL DEF Spec, ImplementsLifecycle, Lifecycle!Spec

-----------------------------------------------------------------------------
(* Every step of a worker is a step of the store or leaves it alone.       *)

\* A slot that runs an attempt holds a well-formed handle.
LEMMA BusyHandle ==
    ASSUME TypeOK, SlotsBusy, NEW s \in Slots, run[s] # "idle"
    PROVE  /\ claim[s] # NoClaim
           /\ claim[s].job \in Jobs
BY HandleType DEF SlotsBusy

LEMMA RunRefines ==
    ASSUME TypeOK, SlotsBusy, NEW s \in Slots, RunProgress(s)
    PROVE  HandleStep(s) \/ (\E j \in Jobs : MarkReleased(j)) \/ UNCHANGED vars
<1>1. CASE FirstRenewal(s) \/ SecondRenewal(s)
  BY <1>1 DEF FirstRenewal, SecondRenewal, HandleStep
<1>2. CASE LoadContext(s) \/ RenewalRefused(s) \/ JobControl(s) \/ Drained(s) \/ Joined(s)
           \/ SettleRefused(s) \/ CleanupLock(s) \/ Cleanup(s) \/ CleanupRefused(s)
           \/ CancellationRefused(s)
  BY <1>2 DEF LoadContext, RenewalRefused, JobControl, Drained, Joined, SettleRefused,
              CleanupLock, Cleanup, CleanupRefused, CancellationRefused
<1>3. CASE Settle(s)
  <2>1. BackoffTerm \in 0 .. BackoffTerm
    BY BoundsAssumption
  <2> QED
    BY <1>3, <2>1 DEF Settle, HandleStep
<1>4. CASE ReleaseEnvironment(s) \/ Acknowledge(s) \/ Relinquish(s) \/ End(s)
  BY <1>4 DEF ReleaseEnvironment, Acknowledge, Relinquish, End, HandleStep
<1>5. CASE EnvironmentReleased(s)
  <2>1. claim[s].job \in Jobs
    BY <1>5, BusyHandle DEF EnvironmentReleased
  <2> QED
    BY <1>5, <2>1 DEF EnvironmentReleased
<1> QED
  BY <1>1, <1>2, <1>3, <1>4, <1>5 DEF RunProgress

LEMMA FaultRefines ==
    ASSUME NEW s \in Slots, RunFault(s)
    PROVE  HandleStep(s) \/ UNCHANGED vars
BY DEF RunFault, HeartbeatFails, Shutdown, CleanupFails, Crash, HandleStep

LEMMA ExecRefines ==
    ASSUME NEW s \in Slots, ExecProgress(s)
    PROVE  HandleStep(s) \/ UNCHANGED vars
<1>1. CASE ExecLock(s) \/ ExecNotStarted(s) \/ ExecPrepare(s) \/ ExecRefused(s)
           \/ ExecCancelled(s)
  BY <1>1 DEF ExecLock, ExecNotStarted, ExecPrepare, ExecRefused, ExecCancelled
<1>2. CASE \E outcome \in {"complete", "retry", "terminal"} : ExecFinish(s, outcome)
  BY <1>2 DEF ExecFinish
<1>3. CASE ExecEnsure(s) \/ ExecReady(s) \/ ExecProvisionFails(s) \/ ExecCheckpoint(s)
  BY <1>3 DEF ExecEnsure, ExecReady, ExecProvisionFails, ExecCheckpoint, HandleStep
<1> QED
  BY <1>1, <1>2, <1>3 DEF ExecProgress

LEMMA StepRefines ==
    ASSUME TypeOK, SlotsBusy, [RunnerNext]_allVars
    PROVE  [Next]_vars
<1>1. CASE UNCHANGED allVars
  BY <1>1 DEF allVars, vars
<1>2. ASSUME NEW s \in Slots, Claim(s) \/ Heartbeat(s)
      PROVE  Next
  BY <1>2 DEF Claim, Heartbeat, HandleStep, Next
<1>3. ASSUME NEW s \in Slots, RunProgress(s) \/ RunFault(s) \/ ExecProgress(s)
      PROVE  [Next]_vars
  BY <1>3, RunRefines, FaultRefines, ExecRefines DEF Next
<1>4. ASSUME NEW j \in Jobs, UserLocked(j) \/ UserUnlocked(j) \/ Reconcile(j)
      PROVE  Next
  BY <1>4 DEF UserLocked, UserUnlocked, Reconcile, UserStep, Next
<1>5. ASSUME NEW j \in Jobs, NEW o \in Ordinals, NEW n \in Numbers, LeaseTick(j, o, n)
      PROVE  Next
  BY <1>5 DEF LeaseTick, TimeStep, Next
<1>6. ASSUME NEW j \in Jobs, NEW o \in Ordinals, BackoffTick(j, o)
      PROVE  Next
  BY <1>6 DEF BackoffTick, TimeStep, Next
<1> QED
  BY <1>1, <1>2, <1>3, <1>4, <1>5, <1>6 DEF RunnerNext

-----------------------------------------------------------------------------
(* Who may use a worktree.                                                 *)

\* A step of s touches neither the other slots nor the locks they hold, and
\* leaves s in a worktree only with its lock.
SlotStep(s) ==
    /\ \A t \in Slots : t # s =>
          claim'[t] = claim[t] /\ run'[t] = run[t] /\ exec'[t] = exec[t]
    /\ \A j \in Jobs : lock[j] \notin {s, NoClaim} => lock'[j] = lock[j]
    /\ run'[s] = "idle" <=> claim'[s] = NoClaim
    /\ exec'[s] \in InWorktree =>
          run'[s] \in {"loop"} \cup Draining /\ lock'[claim'[s].job] = s

LEMMA SlotStepInv ==
    ASSUME RunnerInv, TypeOK', RunnerTypeOK', NEW s \in Slots, SlotStep(s)
    PROVE  RunnerInv'
<1>1. SlotsBusy'
  BY DEF RunnerInv, SlotsBusy, SlotStep
<1>2. ASSUME NEW t \in Slots, (exec[t] \in InWorktree)'
      PROVE  (Running(t) /\ lock[claim[t].job] = t)'
  <2>1. CASE t = s
    BY <1>2, <2>1 DEF SlotStep, Running
  <2>2. CASE t # s
    <3>1. Running(t) /\ lock[claim[t].job] = t
      BY <1>2, <2>2 DEF SlotStep, RunnerInv, WorktreeLocked
    <3>2. claim[t].job \in Jobs
      BY <3>1, BusyHandle DEF RunnerInv, Running, Draining
    <3>3. lock'[claim[t].job] = t
      BY <3>1, <3>2, <2>2, SlotsAssumption DEF SlotStep
    <3> QED
      BY <3>1, <3>3, <2>2 DEF SlotStep, Running
  <2> QED
    BY <2>1, <2>2
<1> QED
  BY <1>1, <1>2 DEF RunnerInv, WorktreeLocked

\* While the handle stays, a step that leaves the executor outside the worktree
\* and the locks of others alone is a slot step.
LEMMA OutsideStep ==
    ASSUME RunnerInv, NEW s \in Slots, NEW r \in RunStates \ {"idle"}, NEW e \in ExecStates \ InWorktree,
           run[s] # "idle", claim' = claim,
           run' = [run EXCEPT ![s] = r], exec' = [exec EXCEPT ![s] = e],
           tree' \in [Jobs -> SUBSET Ordinals],
           \/ UNCHANGED lock
           \/ lock' = [lock EXCEPT ![claim[s].job] = s] /\ lock[claim[s].job] = NoClaim
           \/ Unlocked(s)
    PROVE  SlotStep(s) /\ RunnerTypeOK'
<1>1. claim[s] # NoClaim /\ claim[s].job \in Jobs
  BY BusyHandle DEF RunnerInv
<1>2. RunnerTypeOK'
  BY <1>1 DEF RunnerInv, RunnerTypeOK, Unlocked
<1>3. SlotStep(s)
  BY <1>1 DEF RunnerInv, RunnerTypeOK, Unlocked, SlotStep, SlotsBusy
<1> QED
  BY <1>2, <1>3

\* The same for a step that keeps or puts the executor in the worktree.
LEMMA InsideStep ==
    ASSUME RunnerInv, NEW s \in Slots, NEW e \in ExecStates,
           Running(s), claim' = claim,
           UNCHANGED run, exec' = [exec EXCEPT ![s] = e],
           tree' \in [Jobs -> SUBSET Ordinals],
           \/ UNCHANGED lock /\ lock[claim[s].job] = s
           \/ lock' = [lock EXCEPT ![claim[s].job] = s] /\ lock[claim[s].job] = NoClaim
    PROVE  SlotStep(s) /\ RunnerTypeOK'
<1>1. run[s] # "idle"
  BY DEF Running, Draining
<1>2. claim[s] # NoClaim /\ claim[s].job \in Jobs
  BY <1>1, BusyHandle DEF RunnerInv
<1>3. RunnerTypeOK'
  BY <1>2 DEF RunnerInv, RunnerTypeOK
<1>4. SlotStep(s)
  BY <1>1, <1>2 DEF RunnerInv, RunnerTypeOK, SlotStep, Running
<1> QED
  BY <1>3, <1>4

\* The same for a step of run_attempt beside an executor that goes on: inside the
\* worktree only a loop or a drain may watch it.
LEMMA BesideStep ==
    ASSUME RunnerInv, NEW s \in Slots, NEW r \in RunStates \ {"idle"},
           run[s] # "idle", claim' = claim,
           run' = [run EXCEPT ![s] = r],
           Running(s) => r \in {"loop"} \cup Draining,
           UNCHANGED <<exec, lock, tree>>
    PROVE  SlotStep(s) /\ RunnerTypeOK'
<1>1. claim[s] # NoClaim /\ claim[s].job \in Jobs
  BY BusyHandle DEF RunnerInv
<1>2. RunnerTypeOK'
  BY DEF RunnerInv, RunnerTypeOK
<1>3. exec[s] \in InWorktree => Running(s) /\ lock[claim[s].job] = s
  BY DEF RunnerInv, WorktreeLocked
<1>4. SlotStep(s)
  BY <1>1, <1>3 DEF RunnerInv, RunnerTypeOK, SlotStep
<1> QED
  BY <1>2, <1>4

LEMMA RunStep ==
    ASSUME RunnerInv, NEW s \in Slots, RunProgress(s) \/ RunFault(s) \/ Heartbeat(s)
    PROVE  SlotStep(s) /\ RunnerTypeOK'
<1>0. TypeOK /\ SlotsBusy /\ RunnerTypeOK /\ WorktreeLocked
  BY DEF RunnerInv
<1>3. tree \in [Jobs -> SUBSET Ordinals] /\ exec \in [Slots -> ExecStates]
  BY <1>0 DEF RunnerTypeOK
<1>4. exec[s] \in InWorktree => Running(s)
  BY <1>0 DEF WorktreeLocked
<1>5. CASE End(s) \/ Crash(s)
  <2>1. exec' = [exec EXCEPT ![s] = "none"] /\ run' = [run EXCEPT ![s] = "idle"]
        /\ UNCHANGED tree /\ (UNCHANGED lock \/ Unlocked(s))
        /\ claim' = [claim EXCEPT ![s] = NoClaim]
    BY <1>5 DEF End, Crash, Drop, Goto, ExecGoto
  <2>2. RunnerTypeOK'
    BY <1>0, <2>1 DEF RunnerTypeOK, Unlocked, RunStates, ExecStates
  <2>3. claim \in [Slots -> Handle \cup {NoClaim}]
    BY <1>0 DEF TypeOK
  <2>4. SlotStep(s)
    BY <1>0, <2>1, <2>3 DEF RunnerTypeOK, Unlocked, SlotStep, InWorktree
  <2> QED
    BY <2>2, <2>4
<1> CASE ~(End(s) \/ Crash(s))
  <2>1. CASE FirstRenewal(s) \/ ReleaseEnvironment(s) \/ EnvironmentReleased(s)
             \/ Acknowledge(s) \/ CancellationRefused(s) \/ Relinquish(s)
    <3>1. claim' = claim
      BY <2>1 DEF FirstRenewal, ReleaseEnvironment, EnvironmentReleased, Acknowledge,
           CancellationRefused, Relinquish, RenewAttempt, RequestCancellingRelease,
           MarkReleased, AcknowledgeCancellation, RelinquishAttempt, vars
    <3>2. PICK r \in RunStates \ {"idle"} : run' = [run EXCEPT ![s] = r]
      BY <2>1 DEF FirstRenewal, ReleaseEnvironment, EnvironmentReleased, Acknowledge,
           CancellationRefused, Relinquish, Goto, RunStates
    <3>3. run[s] \in {"claimed", "release", "releasing", "ack", "relinquish"}
          /\ UNCHANGED <<exec, lock, tree>>
      BY <2>1 DEF FirstRenewal, ReleaseEnvironment, EnvironmentReleased, Acknowledge,
           CancellationRefused, Relinquish
    <3> QED
      BY <3>1, <3>2, <3>3, BesideStep DEF Running, Draining
  <2>2. CASE HeartbeatFails(s) \/ JobControl(s) \/ Shutdown(s)
    <3>1. claim' = claim
      BY <2>2 DEF HeartbeatFails, JobControl, Shutdown, vars
    <3>2. PICK r \in Draining : run' = [run EXCEPT ![s] = r]
      BY <2>2 DEF HeartbeatFails, JobControl, Shutdown, Goto, Draining
    <3>3. run[s] = "loop" /\ UNCHANGED <<exec, lock, tree>>
      BY <2>2 DEF HeartbeatFails, JobControl, Shutdown
    <3>4. r \in RunStates \ {"idle"}
      BY <3>2 DEF RunStates, Draining
    <3> QED
      BY <3>1, <3>2, <3>3, <3>4, BesideStep
  <2>3. CASE Heartbeat(s)
    <3>1. claim' = claim /\ run[s] = "loop" /\ UNCHANGED runnerVars
      BY <2>3 DEF Heartbeat, RenewAttempt
    <3>2. run' = [run EXCEPT ![s] = "loop"]
      BY <3>1, <1>0 DEF RunnerTypeOK, runnerVars
    <3> QED
      BY <3>1, <3>2, BesideStep DEF RunStates, runnerVars
  <2>4. CASE CleanupLock(s) \/ Cleanup(s) \/ CleanupRefused(s) \/ CleanupFails(s)
    <3>1. claim' = claim /\ UNCHANGED exec
      BY <2>4 DEF CleanupLock, Cleanup, CleanupRefused, CleanupFails, vars
    <3>2. run[s] \in {"cleanCancel", "cleanShutdown", "release", "releasing", "ack"}
      BY <2>4 DEF CleanupLock, Cleanup, CleanupRefused, CleanupFails, Cleaning
    <3>3. exec[s] \in ExecStates \ InWorktree /\ exec' = [exec EXCEPT ![s] = exec[s]]
      BY <1>3, <1>4, <3>1, <3>2 DEF Running, Draining
    <3>4. PICK r \in RunStates \ {"idle"} : run' = [run EXCEPT ![s] = r]
      <4>1. CASE CleanupLock(s)
        BY <4>1, <3>2, <1>0 DEF CleanupLock, RunnerTypeOK, RunStates
      <4>2. CASE Cleanup(s) \/ CleanupRefused(s) \/ CleanupFails(s)
        BY <4>2 DEF Cleanup, CleanupRefused, CleanupFails, Goto, RunStates
      <4> QED
        BY <2>4, <4>1, <4>2
    <3>5. tree' \in [Jobs -> SUBSET Ordinals]
      BY <2>4, <1>3 DEF CleanupLock, Cleanup, CleanupRefused, CleanupFails
    <3>6. \/ lock' = [lock EXCEPT ![claim[s].job] = s] /\ lock[claim[s].job] = NoClaim
          \/ Unlocked(s)
      BY <2>4 DEF CleanupLock, Cleanup, CleanupRefused, CleanupFails
    <3> QED
      BY <3>1, <3>2, <3>3, <3>4, <3>5, <3>6, OutsideStep
  <2>5. CASE LoadContext(s) \/ SecondRenewal(s) \/ RenewalRefused(s) \/ Drained(s)
             \/ Joined(s) \/ Settle(s) \/ SettleRefused(s)
    <3>1. claim' = claim
      BY <2>5 DEF LoadContext, SecondRenewal, RenewalRefused, Drained, Joined, Settle,
           SettleRefused, RenewAttempt, SettleSucceeded, SettleRetry, SettleFailed, vars
    <3>2. run[s] # "idle"
      BY <2>5 DEF LoadContext, SecondRenewal, RenewalRefused, Drained, Joined, Settle,
           SettleRefused, Draining
    <3>3. PICK r \in RunStates \ {"idle"} : run' = [run EXCEPT ![s] = r]
      BY <2>5 DEF LoadContext, SecondRenewal, RenewalRefused, Drained, Joined, Settle,
           SettleRefused, Goto, RunStates
    <3>4. PICK e \in ExecStates \ InWorktree : exec' = [exec EXCEPT ![s] = e]
      <4>1. CASE SecondRenewal(s) /\ UNCHANGED exec
        <5>1. exec[s] \in ExecStates \ InWorktree
          BY <4>1, <1>3, <1>4 DEF SecondRenewal, Running, Draining
        <5> QED
          BY <4>1, <5>1, <1>3
      <4>2. CASE Joined(s) /\ UNCHANGED exec
        <5>1. exec[s] \in ExecStates \ InWorktree
          BY <4>2 DEF Joined, Outcomes, ExecStates, InWorktree
        <5> QED
          BY <4>2, <5>1, <1>3
      <4>3. CASE ~UNCHANGED exec \/ ~(SecondRenewal(s) \/ Joined(s))
        <5>1. \E e \in {"none", "waiting", "terminal"} : exec' = [exec EXCEPT ![s] = e]
          BY <4>3, <2>5 DEF LoadContext, SecondRenewal, RenewalRefused, Drained, Joined,
               Settle, SettleRefused, ExecGoto
        <5> QED
          BY <5>1 DEF ExecStates, InWorktree, Outcomes
      <4> QED
        BY <4>1, <4>2, <4>3
    <3>5. UNCHANGED <<lock, tree>>
      BY <2>5 DEF LoadContext, SecondRenewal, RenewalRefused, Drained, Joined, Settle,
           SettleRefused
    <3> QED
      BY <3>1, <3>2, <3>3, <3>4, <3>5, <1>3, OutsideStep
  <2> QED
    BY <2>1, <2>2, <2>3, <2>4, <2>5 DEF RunProgress, RunFault
<1> QED
  BY <1>5

LEMMA ExecStep ==
    ASSUME RunnerInv, NEW s \in Slots, ExecProgress(s)
    PROVE  SlotStep(s) /\ RunnerTypeOK'
<1>0. TypeOK /\ SlotsBusy /\ RunnerTypeOK /\ WorktreeLocked
  BY DEF RunnerInv
<1>1. tree \in [Jobs -> SUBSET Ordinals] /\ run \in [Slots -> RunStates]
  BY <1>0 DEF RunnerTypeOK
<1>2. exec[s] \in InWorktree => Running(s) /\ lock[claim[s].job] = s
  BY <1>0 DEF WorktreeLocked
<1>3. claim' = claim
  BY DEF ExecProgress, ExecLock, ExecNotStarted, ExecPrepare, ExecEnsure, ExecReady,
         ExecProvisionFails, ExecRefused, ExecCheckpoint, ExecFinish, ExecCancelled,
         EnsureEnvironment, MarkEnvironment, SaveCheckpoint, vars
<1>4. Running(s)
  BY <1>2 DEF ExecProgress, ExecLock, ExecNotStarted, ExecPrepare, ExecEnsure, ExecReady,
         ExecProvisionFails, ExecRefused, ExecCheckpoint, ExecFinish, ExecCancelled,
         Running, InWorktree
<1>5. run[s] \in RunStates \ {"idle"} /\ claim[s].job \in Jobs
  BY <1>0, <1>1, <1>4, BusyHandle DEF Running, Draining
<1>6. CASE ExecLock(s) \/ ExecPrepare(s) \/ ExecEnsure(s) \/ ExecReady(s)
  <2>1. PICK e \in ExecStates : exec' = [exec EXCEPT ![s] = e]
    BY <1>6 DEF ExecLock, ExecPrepare, ExecEnsure, ExecReady, ExecGoto, ExecStates, InWorktree
  <2>2. UNCHANGED run /\ tree' \in [Jobs -> SUBSET Ordinals]
    BY <1>6, <1>1 DEF ExecLock, ExecPrepare, ExecEnsure, ExecReady
  <2>3. \/ UNCHANGED lock /\ lock[claim[s].job] = s
        \/ lock' = [lock EXCEPT ![claim[s].job] = s] /\ lock[claim[s].job] = NoClaim
    BY <1>6, <1>2 DEF ExecLock, ExecPrepare, ExecEnsure, ExecReady, InWorktree
  <2> QED
    BY <2>1, <2>2, <2>3, <1>3, <1>4, InsideStep
<1>7. CASE ExecCheckpoint(s)
  <2>1. UNCHANGED <<run, exec, lock, tree>>
    BY <1>7 DEF ExecCheckpoint, runnerVars
  <2>2. run' = [run EXCEPT ![s] = run[s]]
    BY <2>1, <1>1
  <2> QED
    BY <2>1, <2>2, <1>3, <1>4, <1>5, BesideStep DEF Running
<1>8. CASE \/ ExecNotStarted(s) \/ ExecProvisionFails(s) \/ ExecRefused(s) \/ ExecCancelled(s)
           \/ \E outcome \in {"complete", "retry", "terminal"} : ExecFinish(s, outcome)
  <2>1. PICK e \in ExecStates \ InWorktree : exec' = [exec EXCEPT ![s] = e]
    BY <1>8 DEF ExecNotStarted, ExecProvisionFails, ExecRefused, ExecCancelled, ExecFinish,
         ExecGoto, ExecStates, InWorktree, Outcomes
  <2>2. run' = [run EXCEPT ![s] = run[s]] /\ (UNCHANGED lock \/ Unlocked(s))
    BY <1>8, <1>1 DEF ExecNotStarted, ExecProvisionFails, ExecRefused, ExecCancelled,
         ExecFinish
  <2>3. tree' \in [Jobs -> SUBSET Ordinals]
    <3>1. claim[s].ord \in Ordinals
      BY <1>0, <1>5, HandleType DEF SlotsBusy
    <3> QED
      BY <1>8, <1>1, <3>1, <1>5 DEF ExecNotStarted, ExecProvisionFails, ExecRefused,
           ExecCancelled, ExecFinish
  <2> QED
    BY <2>1, <2>2, <2>3, <1>3, <1>5, OutsideStep
<1> QED
  BY <1>6, <1>7, <1>8 DEF ExecProgress

LEMMA ClaimedHandle ==
    ASSUME TypeOK, NEW s \in Slots, NEW j \in Jobs, NEW o \in Ordinals,
           ClaimNew(s, j, o) \/ ClaimExpired(s, j, o)
    PROVE  \E h \in Handle : claim' = [claim EXCEPT ![s] = h]
<1>1. CASE ClaimNew(s, j, o)
  <2> DEFINE n == op[<<j, o>>].made + 1
  <2>1. n \in Numbers
    BY <1>1, BudgetAssumption, BoundsAssumption
    DEF ClaimNew, Startable, TypeOK, OpRow, Numbers, OperationIds
  <2>2. [job |-> j, ord |-> o, num |-> n, epoch |-> 1,
         resume |-> ResumePoint(j, o)] \in Handle
    BY <2>1, ResumePointType, BoundsAssumption DEF Handle
  <2> QED
    BY <1>1, <2>2 DEF ClaimNew
<1>2. CASE ClaimExpired(s, j, o)
  <2> DEFINE n == op[<<j, o>>].made
             e == att[<<j, o, n>>].epoch + 1
  <2>1. n \in Numbers
    BY <1>2 DEF ClaimExpired, Expired, TypeOK, OpRow, Numbers, OperationIds
  <2>2. e \in 1 .. MaxEpoch
    BY <1>2, <2>1, BoundsAssumption DEF ClaimExpired, TypeOK, AttRow, AttemptIds
  <2>3. [job |-> j, ord |-> o, num |-> n, epoch |-> e,
         resume |-> ResumePoint(j, o)] \in Handle
    BY <2>1, <2>2, ResumePointType DEF Handle
  <2> QED
    BY <1>2, <2>3 DEF ClaimExpired
<1> QED
  BY <1>1, <1>2

LEMMA ClaimSlotStep ==
    ASSUME RunnerInv, NEW s \in Slots, Claim(s)
    PROVE  SlotStep(s) /\ RunnerTypeOK'
<1>0. TypeOK /\ SlotsBusy /\ RunnerTypeOK /\ WorktreeLocked
  BY DEF RunnerInv
<1>1. run' = [run EXCEPT ![s] = "claimed"] /\ UNCHANGED <<exec, lock, tree>> /\ run[s] = "idle"
  BY DEF Claim, Goto
<1>2. RunnerTypeOK'
  BY <1>0, <1>1 DEF RunnerTypeOK, RunStates
<1>3. PICK h \in Handle : claim' = [claim EXCEPT ![s] = h]
  BY <1>0, ClaimedHandle DEF Claim, ClaimStep
<1>4. exec[s] \notin InWorktree
  BY <1>0, <1>1 DEF WorktreeLocked, Running, Draining
<1>5. claim \in [Slots -> Handle \cup {NoClaim}]
  BY <1>0 DEF TypeOK
<1>6. SlotStep(s)
  BY <1>0, <1>1, <1>3, <1>4, <1>5, NoClaimAssumption DEF SlotStep, RunnerTypeOK
<1> QED
  BY <1>2, <1>6

\* Steps of users and of time leave the slots and the locks alone.
LEMMA OtherStep ==
    ASSUME RunnerInv, TypeOK',
           \/ UNCHANGED allVars
           \/ \E j \in Jobs : UserLocked(j) \/ UserUnlocked(j) \/ Reconcile(j)
           \/ \E j \in Jobs, o \in Ordinals, n \in Numbers : LeaseTick(j, o, n)
           \/ \E j \in Jobs, o \in Ordinals : BackoffTick(j, o)
    PROVE  RunnerInv'
<1>1. UNCHANGED <<claim, run, exec, lock>>
  BY DEF allVars, UserLocked, UserUnlocked, Reconcile, LeaseTick, BackoffTick, runnerVars,
         EnsureWorkspace, RemoveWorkspace, ContinueJob, CreateJob, RequestCancellation,
         CancelIdle, MarkReleased, LeaseRuns, BackoffRuns
<1>2. tree' \in [Jobs -> SUBSET Ordinals]
  BY DEF RunnerInv, RunnerTypeOK, allVars, UserLocked, UserUnlocked, Reconcile, LeaseTick,
         BackoffTick, runnerVars
<1> QED
  BY <1>1, <1>2 DEF RunnerInv, RunnerTypeOK, SlotsBusy, WorktreeLocked, Running

LEMMA RunnerNextInv == RunnerInv /\ [RunnerNext]_allVars => RunnerInv' /\ [Next]_vars
<1> SUFFICES ASSUME RunnerInv, [RunnerNext]_allVars PROVE RunnerInv' /\ [Next]_vars
  OBVIOUS
<1>1. [Next]_vars
  BY StepRefines DEF RunnerInv
<1>2. TypeOK'
  BY <1>1, NextTypeOK DEF RunnerInv
<1>3. ASSUME NEW s \in Slots,
             Claim(s) \/ Heartbeat(s) \/ RunProgress(s) \/ RunFault(s) \/ ExecProgress(s)
      PROVE  RunnerInv'
  BY <1>2, <1>3, ClaimSlotStep, RunStep, ExecStep, SlotStepInv
<1>4. RunnerInv'
  BY <1>2, <1>3, OtherStep DEF RunnerNext
<1> QED
  BY <1>1, <1>4

LEMMA RunnerInitInv == RunnerInit => RunnerInv
BY InitTypeOK
DEF RunnerInit, Init, RunnerInv, RunnerTypeOK, SlotsBusy, WorktreeLocked, RunStates,
    ExecStates, InWorktree

-----------------------------------------------------------------------------

\* Whatever the workers do, the store sees only its own transactions: every
\* behaviour of the runner and the executor refines the store's specification.
THEOREM RunnersRefineStore == RunnerSafety => StoreSpec
<1>1. RunnerInit => Init
  BY DEF RunnerInit
<1> QED
  BY <1>1, RunnerInitInv, RunnerNextInv, PTL DEF RunnerSafety, StoreSpec, Spec

\* Two executors never share a worktree, for any number of workers and jobs:
\* the advisory lock covers the executor from its first to its last access.
THEOREM WorktreesAreExclusive == RunnerSafety => []WorktreeExclusive
<1>1. RunnerInv => WorktreeExclusive
  BY DEF RunnerInv, WorktreeLocked, WorktreeExclusive
<1> QED
  BY <1>1, RunnerInitInv, RunnerNextInv, PTL DEF RunnerSafety

\* Of the workers of a job at most one passes the lease fence, although each of
\* those that lost the lease goes on until its next heartbeat.
THEOREM RunnersAreFenced == RunnerSafety => []FenceExclusive
BY RunnersRefineStore, FenceIsExclusive, PTL DEF StoreSpec

-----------------------------------------------------------------------------
(* A terminal job is drained.                                              *)

\* A step of a slot; the others are users and time.
Acts(s) == Claim(s) \/ Heartbeat(s) \/ RunProgress(s) \/ RunFault(s) \/ ExecProgress(s)

\* What the rest of the system does: no handle, executor or lock changes, a
\* running attempt stays so, and a workspace changes only under its lock.
LEMMA OutsidersStep ==
    ASSUME RunnerInv, [RunnerNext]_allVars, \A s \in Slots : ~Acts(s)
    PROVE  /\ UNCHANGED <<claim, run, exec, lock>>
           /\ \A k \in AttemptIds : att'[k].status = att[k].status
           /\ \A j \in Jobs : lock[j] # NoClaim => ws'[j] = ws[j]
<1>0. TypeOK
  BY DEF RunnerInv
<1>1. ASSUME NEW j \in Jobs, UserLocked(j)
      PROVE  /\ UNCHANGED <<claim, run, exec, lock, att>>
             /\ \A i \in Jobs : lock[i] # NoClaim => ws'[i] = ws[i]
  BY <1>0, <1>1 DEF UserLocked, EnsureWorkspace, RemoveWorkspace, ContinueJob, TypeOK
<1>2. ASSUME NEW j \in Jobs, UserUnlocked(j) \/ Reconcile(j)
      PROVE  UNCHANGED <<claim, run, exec, lock, att, ws>>
  BY <1>2 DEF UserUnlocked, Reconcile, CreateJob, RequestCancellation, CancelIdle,
              MarkReleased, runnerVars
<1>3. ASSUME NEW j \in Jobs, NEW o \in Ordinals, NEW n \in Numbers, LeaseTick(j, o, n)
      PROVE  /\ UNCHANGED <<claim, run, exec, lock, ws>>
             /\ \A k \in AttemptIds : att'[k].status = att[k].status
  BY <1>0, <1>3 DEF LeaseTick, LeaseRuns, TypeOK, AttRow, runnerVars
<1>4. ASSUME NEW j \in Jobs, NEW o \in Ordinals, BackoffTick(j, o)
      PROVE  UNCHANGED <<claim, run, exec, lock, att, ws>>
  BY <1>4 DEF BackoffTick, BackoffRuns, runnerVars
<1>5. CASE UNCHANGED allVars
  BY <1>5 DEF allVars
<1>6. QED
  BY <1>1, <1>2, <1>3, <1>4, <1>5 DEF RunnerNext, Acts

\* No slot changes a workspace row.
LEMMA SlotsKeepWorkspaces ==
    ASSUME RunnerInv, NEW s \in Slots, Acts(s)
    PROVE  ws' = ws
<1>1. CASE Claim(s)
  BY <1>1 DEF Claim, ClaimStep, ClaimNew, ClaimExpired
<1>2. CASE HandleStep(s)
  BY <1>2
  DEF HandleStep, RenewAttempt, RelinquishAttempt, SaveCheckpoint, SettleSucceeded,
      SettleRetry, SettleFailed, AcknowledgeCancellation, Drop, EnsureEnvironment,
      MarkEnvironment, RequestCancellingRelease
<1>3. CASE UNCHANGED vars
  BY <1>3 DEF vars
<1>4. CASE \E j \in Jobs : MarkReleased(j)
  BY <1>4 DEF MarkReleased
<1>5. Heartbeat(s) => HandleStep(s)
  BY DEF Heartbeat, HandleStep
<1>6. QED
  BY <1>1, <1>2, <1>3, <1>4, <1>5, RunRefines, FaultRefines, ExecRefines
  DEF Acts, RunnerInv

\* A running attempt stops running only by the settlement or acknowledgement of
\* a slot that passes the fence with its handle.
LEMMA EndsBySettlement ==
    ASSUME RunnerInv, NEW s \in Slots, Acts(s),
           NEW k \in AttemptIds, att[k].status = "running", att'[k].status # "running"
    PROVE  Fenced(s) /\ Attempt(s) = k /\ run[s] \in {"settle", "ack"}
<1>0. TypeOK
  BY DEF RunnerInv
<1>1. ~(RenewAttempt(s) \/ RelinquishAttempt(s))
  <2> SUFFICES ASSUME RenewAttempt(s) \/ RelinquishAttempt(s) PROVE FALSE
    OBVIOUS
  <2>1. PICK x : att' = [att EXCEPT ![Attempt(s)].lease = x]
    BY DEF RenewAttempt, RelinquishAttempt
  <2>2. QED
    BY <1>0, <2>1 DEF TypeOK, AttRow
<1>2. ~ClaimStep(s)
  <2> SUFFICES ASSUME ClaimStep(s) PROVE FALSE
    OBVIOUS
  <2>1. PICK i, g : att' = [att EXCEPT ![i] = [status |-> "running", owner |-> OwnerOf[s],
                                               epoch |-> g, lease |-> LeaseTerm]]
    BY DEF ClaimStep, ClaimNew, ClaimExpired
  <2>2. QED
    BY <1>0, <2>1 DEF TypeOK
<1>3. att' # att
  OBVIOUS
<1>4. ~ExecProgress(s)
  BY <1>3 DEF ExecProgress, ExecLock, ExecNotStarted, ExecPrepare, ExecEnsure, ExecReady,
       ExecProvisionFails, ExecRefused, ExecCheckpoint, ExecFinish, ExecCancelled,
       EnsureEnvironment, MarkEnvironment, SaveCheckpoint, vars
<1>5. ~RunFault(s) /\ ~Heartbeat(s)
  BY <1>1, <1>3 DEF RunFault, HeartbeatFails, Shutdown, CleanupFails, Crash, Drop, Heartbeat, vars
<1>6. Settle(s) \/ Acknowledge(s)
  BY <1>1, <1>2, <1>3, <1>4, <1>5
  DEF Acts, Claim, RunProgress, FirstRenewal, LoadContext, SecondRenewal, RenewalRefused,
      JobControl, Drained, Joined, SettleRefused, CleanupLock, Cleanup, CleanupRefused,
      ReleaseEnvironment, EnvironmentReleased, CancellationRefused, Relinquish, End,
      RequestCancellingRelease, MarkReleased, Drop, vars
<1>7. Fenced(s) /\ run[s] \in {"settle", "ack"}
  BY <1>6 DEF Settle, Acknowledge, SettleSucceeded, SettleRetry, SettleFailed, MaySettle,
              AcknowledgeCancellation
<1>8. PICK x : att' = [att EXCEPT ![Attempt(s)].status = x]
  BY <1>6 DEF Settle, Acknowledge, SettleSucceeded, SettleRetry, SettleFailed,
              AcknowledgeCancellation
<1>9. Attempt(s) = k
  BY <1>0, <1>3, <1>8 DEF TypeOK
<1>10. QED
  BY <1>7, <1>9

\* An executor that works either went on or just found its environment ready.
LEMMA StartsWorking ==
    ASSUME RunnerInv, NEW s \in Slots, Acts(s), exec'[s] = "working"
    PROVE  claim'[s] = claim[s] /\ (exec[s] = "working" \/ ExecReady(s))
<1>0. RunnerTypeOK /\ WorktreeLocked /\ exec \in [Slots -> ExecStates]
  BY DEF RunnerInv, RunnerTypeOK
<1>1. CASE ExecProgress(s)
  <2>1. claim' = claim
    BY <1>1 DEF ExecProgress, ExecLock, ExecNotStarted, ExecPrepare, ExecEnsure, ExecReady,
         ExecProvisionFails, ExecRefused, ExecCheckpoint, ExecFinish, ExecCancelled,
         EnsureEnvironment, MarkEnvironment, SaveCheckpoint, vars
  <2>2. exec[s] = "working" \/ ExecReady(s)
    BY <1>0, <1>1 DEF ExecProgress, ExecLock, ExecNotStarted, ExecPrepare, ExecEnsure,
         ExecProvisionFails, ExecRefused, ExecCheckpoint, ExecFinish, ExecCancelled,
         ExecGoto, runnerVars
  <2>3. QED
    BY <2>1, <2>2
<1>2. CASE Claim(s)
  <2>1. exec[s] = "working" /\ run[s] = "idle"
    BY <1>2 DEF Claim
  <2>2. QED
    BY <1>0, <2>1 DEF WorktreeLocked, InWorktree, Running, Draining
<1>3. CASE Heartbeat(s) \/ RunProgress(s) \/ RunFault(s)
  <2>1. exec' = exec \/ \E e \in {"none", "waiting", "terminal"} : exec' = [exec EXCEPT ![s] = e]
    BY <1>3
    DEF Heartbeat, RunProgress, FirstRenewal, LoadContext, SecondRenewal, RenewalRefused,
        JobControl, Drained, Joined, Settle, SettleRefused, CleanupLock, Cleanup,
        CleanupRefused, ReleaseEnvironment, EnvironmentReleased, Acknowledge,
        CancellationRefused, Relinquish, End, RunFault, HeartbeatFails, Shutdown,
        CleanupFails, Crash, ExecGoto, runnerVars
  <2>2. exec' = exec
    BY <1>0, <2>1
  <2>3. ~(End(s) \/ Crash(s))
    BY <1>0, <2>2 DEF End, Crash, ExecGoto
  <2>4. claim' = claim
    BY <1>3, <2>3
    DEF Heartbeat, RunProgress, FirstRenewal, LoadContext, SecondRenewal, RenewalRefused,
        JobControl, Drained, Joined, Settle, SettleRefused, CleanupLock, Cleanup,
        CleanupRefused, ReleaseEnvironment, EnvironmentReleased, Acknowledge,
        CancellationRefused, Relinquish, RunFault, HeartbeatFails, Shutdown,
        CleanupFails, RenewAttempt, RequestCancellingRelease, MarkReleased,
        SettleSucceeded, SettleRetry, SettleFailed, AcknowledgeCancellation,
        RelinquishAttempt, vars
  <2>5. QED
    BY <2>2, <2>4
<1>4. QED
  BY <1>1, <1>2, <1>3 DEF Acts

\* While another slot holds the lock of its job, a slot that has not passed the
\* lock stays before it, whatever it does.
LEMMA StaysBehindLock ==
    ASSUME RunnerInv, NEW t \in Slots, Acts(t), ~Claim(t), claim'[t] # NoClaim,
           claim[t].job \in TaskJobs, ws[claim[t].job] = "active",
           lock[claim[t].job] \notin {t, NoClaim},
           run[t] \in BehindLock, exec[t] \in {"none", "waiting"}
    PROVE  run'[t] \in BehindLock /\ exec'[t] \in {"none", "waiting"}
<1>0. RunnerTypeOK /\ run \in [Slots -> RunStates] /\ exec \in [Slots -> ExecStates]
  BY DEF RunnerInv, RunnerTypeOK
<1>1. CASE ExecProgress(t)
  <2>1. ExecNotStarted(t)
    BY <1>1 DEF ExecProgress, ExecLock, ExecPrepare, ExecEnsure, ExecReady,
         ExecProvisionFails, ExecRefused, ExecCheckpoint, ExecFinish, ExecCancelled
  <2>2. QED
    BY <1>0, <2>1 DEF ExecNotStarted, ExecGoto
<1>2. ~(End(t) \/ Crash(t))
  <2>1. claim \in [Slots -> Handle \cup {NoClaim}]
    BY DEF RunnerInv, TypeOK
  <2>2. QED
    BY <2>1 DEF End, Crash, Drop
<1>3. CASE Heartbeat(t) \/ HeartbeatFails(t) \/ Shutdown(t) \/ JobControl(t)
  BY <1>0, <1>3 DEF Heartbeat, HeartbeatFails, Shutdown, JobControl, Goto, runnerVars,
                    BehindLock, Draining
<1>4. CASE FirstRenewal(t) \/ LoadContext(t)
  BY <1>0, <1>4 DEF FirstRenewal, LoadContext, Goto, ExecGoto, BehindLock
<1>5. CASE SecondRenewal(t) \/ RenewalRefused(t)
  BY <1>0, <1>5 DEF SecondRenewal, RenewalRefused, Goto, ExecGoto, BehindLock, Cleaning
<1>6. CASE Drained(t)
  BY <1>0, <1>6 DEF Drained, Goto, ExecGoto, BehindLock, Cleaning
<1>7. ~(Joined(t) \/ Settle(t) \/ SettleRefused(t) \/ CleanupLock(t) \/ Cleanup(t)
        \/ CleanupRefused(t) \/ CleanupFails(t) \/ ReleaseEnvironment(t)
        \/ EnvironmentReleased(t) \/ Acknowledge(t) \/ CancellationRefused(t)
        \/ Relinquish(t))
  BY DEF Joined, Settle, SettleRefused, CleanupLock, Cleanup, CleanupRefused, CleanupFails,
         ReleaseEnvironment, EnvironmentReleased, Acknowledge, CancellationRefused,
         Relinquish, BehindLock, Draining, Cleaning, Outcomes
<1>8. QED
  BY <1>1, <1>2, <1>3, <1>4, <1>5, <1>6, <1>7 DEF Acts, RunProgress, RunFault

\* What a step makes of its own slot.
LEMMA OwnExecutor ==
    ASSUME RunnerInv, DrainInv, NEW s \in Slots, Acts(s)
    PROVE  /\ run'[s] \in {"idle", "claimed", "renewed"} => exec'[s] = "none"
           /\ exec'[s] \in {"waiting"} \cup InWorktree => claim'[s].job \in TaskJobs
<1>0. /\ RunnerTypeOK /\ run \in [Slots -> RunStates] /\ exec \in [Slots -> ExecStates]
      /\ NoEarlyExecutor /\ WorktreesOfTasks
  BY DEF RunnerInv, RunnerTypeOK, DrainInv
<1>1. CASE Claim(s)
  BY <1>0, <1>1 DEF Claim, Goto, NoEarlyExecutor, InWorktree
<1>2. CASE End(s) \/ Crash(s)
  BY <1>0, <1>2 DEF End, Crash, Goto, ExecGoto, InWorktree
<1>3. CASE FirstRenewal(s)
  BY <1>0, <1>3 DEF FirstRenewal, Goto, NoEarlyExecutor, InWorktree
<1>4. CASE LoadContext(s)
  BY <1>0, <1>4 DEF LoadContext, Goto, ExecGoto, InWorktree, vars
<1>5. CASE /\ ExecProgress(s) \/ Heartbeat(s) \/ RunProgress(s) \/ RunFault(s)
           /\ ~(End(s) \/ Crash(s) \/ FirstRenewal(s) \/ LoadContext(s))
  <2>1. claim' = claim
    BY <1>5
    DEF ExecProgress, ExecLock, ExecNotStarted, ExecPrepare, ExecEnsure, ExecReady,
        ExecProvisionFails, ExecRefused, ExecCheckpoint, ExecFinish, ExecCancelled,
        EnsureEnvironment, MarkEnvironment, SaveCheckpoint,
        Heartbeat, RunProgress, SecondRenewal, RenewalRefused,
        JobControl, Drained, Joined, Settle, SettleRefused, CleanupLock, Cleanup,
        CleanupRefused, ReleaseEnvironment, EnvironmentReleased, Acknowledge,
        CancellationRefused, Relinquish, RunFault, HeartbeatFails, Shutdown,
        CleanupFails, RenewAttempt, RequestCancellingRelease, MarkReleased,
        SettleSucceeded, SettleRetry, SettleFailed, AcknowledgeCancellation,
        RelinquishAttempt, vars
  <2>2. CASE ExecProgress(s)
    <3>1. run' = run /\ exec[s] \in {"waiting"} \cup InWorktree
      BY <2>2
      DEF ExecProgress, ExecLock, ExecNotStarted, ExecPrepare, ExecEnsure, ExecReady,
          ExecProvisionFails, ExecRefused, ExecCheckpoint, ExecFinish, ExecCancelled,
          InWorktree, runnerVars
    <3>2. QED
      BY <1>0, <2>1, <3>1 DEF NoEarlyExecutor, WorktreesOfTasks, InWorktree
  <2>3. CASE ~ExecProgress(s)
    <3>1. \/ exec' = exec /\ run' = run
          \/ exec' = exec /\ \E r \in RunStates \ {"idle", "claimed", "renewed"} :
                                run' = [run EXCEPT ![s] = r]
          \/ exec' = [exec EXCEPT ![s] = "none"]
      BY <1>5, <2>3
      DEF Heartbeat, RunProgress, SecondRenewal, RenewalRefused,
          JobControl, Drained, Joined, Settle, SettleRefused, CleanupLock, Cleanup,
          CleanupRefused, ReleaseEnvironment, EnvironmentReleased, Acknowledge,
          CancellationRefused, Relinquish, RunFault, HeartbeatFails, Shutdown,
          CleanupFails, Goto, ExecGoto, runnerVars, RunStates, Draining
    <3>2. QED
      BY <1>0, <2>1, <3>1 DEF NoEarlyExecutor, WorktreesOfTasks, InWorktree
  <2>4. QED
    BY <2>2, <2>3
<1>6. QED
  BY <1>1, <1>2, <1>3, <1>4, <1>5 DEF Acts

\* A slot step changes the slot's own handle, program counter and executor only.
LEMMA ActsAlone ==
    ASSUME RunnerInv, NEW s \in Slots, Acts(s)
    PROVE  SlotStep(s)
BY ClaimSlotStep, RunStep, ExecStep DEF Acts

\* The executors that work after a step of s, and why.
LEMMA WorkersAfter ==
    ASSUME RunnerInv, NEW a \in Slots, Acts(a), NEW s \in Slots, exec'[s] = "working"
    PROVE  claim'[s] = claim[s] /\ (exec[s] = "working" \/ (s = a /\ ExecReady(s)))
<1>1. CASE s = a
  BY <1>1, StartsWorking
<1>2. CASE s # a
  BY <1>2, ActsAlone DEF SlotStep
<1>3. QED
  BY <1>1, <1>2

\* The handle of an executor that works.
LEMMA WorkingHandle ==
    ASSUME RunnerInv, NEW s \in Slots, exec[s] = "working"
    PROVE  /\ claim[s] # NoClaim /\ claim[s].job \in Jobs /\ Attempt(s) \in AttemptIds
           /\ Running(s) /\ lock[claim[s].job] = s
<1>1. Running(s) /\ lock[claim[s].job] = s
  BY DEF RunnerInv, WorktreeLocked, InWorktree
<1>2. claim[s] # NoClaim /\ claim[s].job \in Jobs
  BY <1>1, BusyHandle DEF RunnerInv, Running, Draining
<1>3. QED
  BY <1>1, <1>2, HandleType DEF RunnerInv

\* Nobody settles the attempt an executor works for: the executor's own slot is
\* in the loop or drains it, and a successor waits for the lock.
LEMMA WorksForRunningStep ==
    ASSUME Inv, RunnerInv, DrainInv, NEW a \in Slots, Acts(a)
    PROVE  WorksForRunning'
<1> SUFFICES ASSUME NEW s \in Slots, exec'[s] = "working"
             PROVE  att'[Attempt(s)'].status = "running"
  BY DEF WorksForRunning
<1>1. claim'[s] = claim[s] /\ (exec[s] = "working" \/ (s = a /\ ExecReady(s)))
  BY WorkersAfter
<1>2. Attempt(s)' = Attempt(s)
  BY <1>1 DEF Attempt
<1>3. CASE ExecReady(s)
  BY <1>2, <1>3 DEF ExecReady, MarkEnvironment, Fenced
<1>4. CASE exec[s] = "working"
  <2>1. Attempt(s) \in AttemptIds /\ Running(s) /\ att[Attempt(s)].status = "running"
    BY <1>4, WorkingHandle DEF DrainInv, WorksForRunning
  <2>2. ASSUME att'[Attempt(s)].status # "running" PROVE FALSE
    <3>1. Fenced(a) /\ Attempt(a) = Attempt(s) /\ run[a] \in {"settle", "ack"}
      BY <2>1, <2>2, EndsBySettlement
    <3>2. a # s
      BY <2>1, <3>1 DEF Running, Draining
    <3>3. Current(a) /\ claim[a].job = claim[s].job
      BY <3>1 DEF Fenced, Current, Attempt
    <3>4. run[a] \in BehindLock
      BY <1>4, <3>2, <3>3 DEF DrainInv, SuccessorHeldUp
    <3>5. QED
      BY <3>1, <3>4 DEF BehindLock, Draining, Cleaning
  <2>3. QED
    BY <1>2, <2>1, <2>2
<1>5. QED
  BY <1>1, <1>3, <1>4

LEMMA SuccessorStep ==
    ASSUME Inv, RunnerInv, DrainInv, [Next]_vars, NEW a \in Slots, Acts(a)
    PROVE  SuccessorHeldUp'
<1> SUFFICES ASSUME NEW s \in Slots, NEW t \in Slots, s # t, exec'[s] = "working",
                    Current(t)', claim'[t].job = claim'[s].job
             PROVE  /\ ws'[claim'[t].job] = "active"
                    /\ run'[t] \in BehindLock
                    /\ exec'[t] \in {"none", "waiting"}
  BY DEF SuccessorHeldUp
<1>1. claim'[s] = claim[s] /\ (exec[s] = "working" \/ (s = a /\ ExecReady(s)))
  BY WorkersAfter
<1>2. ws' = ws /\ SlotStep(a)
  BY SlotsKeepWorkspaces, ActsAlone
<1>3. ASSUME claim'[t] = claim[t] PROVE Current(t) /\ exec[s] = "working"
  <2>1. Current(t)
    BY <1>3, CurrentBefore
  <2>2. ~ExecReady(s)
    <3> SUFFICES ASSUME ExecReady(s) PROVE FALSE
      OBVIOUS
    <3>1. Current(s)
      BY DEF ExecReady, MarkEnvironment, Fenced, Current
    <3>2. QED
      BY <1>1, <1>3, <2>1, <3>1, CurrentIsUnique
  <2>3. QED
    BY <1>1, <2>1, <2>2
<1>4. CASE t # a
  <2>1. claim'[t] = claim[t] /\ run'[t] = run[t] /\ exec'[t] = exec[t]
    BY <1>2, <1>4 DEF SlotStep
  <2>2. QED
    BY <1>1, <1>2, <1>3, <2>1 DEF DrainInv, SuccessorHeldUp
<1>5. CASE t = a /\ Claim(t)
  <2>1. exec[s] = "working"
    BY <1>1, <1>5
  <2>2. PICK j \in Jobs, o \in Ordinals : ClaimNew(t, j, o) \/ ClaimExpired(t, j, o)
    BY <1>5 DEF Claim, ClaimStep
  <2>3. claim'[t].job = j /\ (j \in TaskJobs => ws[j] = "active")
    BY <2>2 DEF ClaimNew, ClaimExpired, Recoverable, Inv, TypeOK
  <2>4. claim[s].job \in TaskJobs
    BY <2>1 DEF DrainInv, WorktreesOfTasks, InWorktree
  <2>5. run'[t] = "claimed" /\ exec'[t] = "none"
    BY <1>5 DEF Claim, Goto, RunnerInv, RunnerTypeOK, DrainInv, NoEarlyExecutor
  <2>6. QED
    BY <1>1, <1>2, <2>3, <2>4, <2>5 DEF BehindLock
<1>6. CASE t = a /\ ~Claim(t)
  <2>1. claim'[t] # NoClaim
    BY DEF Current
  <2>2. claim'[t] = claim[t]
    <3>1. HandleStep(t) \/ (\E j \in Jobs : MarkReleased(j)) \/ UNCHANGED vars
      BY <1>6, RunRefines, FaultRefines, ExecRefines
      DEF Acts, Heartbeat, HandleStep, RunnerInv
    <3>2. claim' = claim \/ claim' = [claim EXCEPT ![t] = NoClaim]
      BY <3>1
      DEF HandleStep, RenewAttempt, RelinquishAttempt, SaveCheckpoint, SettleSucceeded,
          SettleRetry, SettleFailed, AcknowledgeCancellation, Drop, EnsureEnvironment,
          MarkEnvironment, RequestCancellingRelease, MarkReleased, vars
    <3>3. QED
      BY <2>1, <3>2 DEF Inv, TypeOK
  <2>3. Current(t) /\ exec[s] = "working"
    BY <1>3, <2>2
  <2>4. /\ ws[claim[t].job] = "active" /\ run[t] \in BehindLock
        /\ exec[t] \in {"none", "waiting"}
    BY <1>1, <2>2, <2>3 DEF DrainInv, SuccessorHeldUp
  <2>5. claim[t].job \in TaskJobs
    BY <1>1, <2>2, <2>3 DEF DrainInv, WorktreesOfTasks, InWorktree
  <2>6. lock[claim[t].job] \notin {t, NoClaim}
    BY <1>1, <2>2, <2>3, WorkingHandle, SlotsAssumption
  <2>7. QED
    BY <1>2, <1>6, <2>1, <2>2, <2>4, <2>5, <2>6, StaysBehindLock
<1>7. QED
  BY <1>4, <1>5, <1>6

LEMMA DrainStep ==
    ASSUME Inv, RunnerInv, DrainInv, [RunnerNext]_allVars
    PROVE  DrainInv'
<1>0. [Next]_vars
  BY StepRefines DEF RunnerInv
<1>1. ASSUME NEW a \in Slots, Acts(a) PROVE DrainInv'
  <2>1. NoEarlyExecutor' /\ WorktreesOfTasks'
    <3>1. ASSUME NEW s \in Slots
          PROVE  /\ run'[s] \in {"idle", "claimed", "renewed"} => exec'[s] = "none"
                 /\ exec'[s] \in {"waiting"} \cup InWorktree => claim'[s].job \in TaskJobs
      <4>1. CASE s = a
        BY <1>1, <4>1, OwnExecutor
      <4>2. CASE s # a
        BY <1>1, <4>2, ActsAlone DEF SlotStep, DrainInv, NoEarlyExecutor, WorktreesOfTasks
      <4>3. QED
        BY <4>1, <4>2
    <3>2. QED
      BY <3>1 DEF NoEarlyExecutor, WorktreesOfTasks
  <2>2. QED
    BY <1>0, <1>1, <2>1, WorksForRunningStep, SuccessorStep DEF DrainInv
<1>2. CASE \A a \in Slots : ~Acts(a)
  <2>1. /\ UNCHANGED <<claim, run, exec, lock>>
        /\ \A k \in AttemptIds : att'[k].status = att[k].status
        /\ \A j \in Jobs : lock[j] # NoClaim => ws'[j] = ws[j]
    BY <1>2, OutsidersStep
  <2>2. NoEarlyExecutor' /\ WorktreesOfTasks'
    BY <2>1 DEF DrainInv, NoEarlyExecutor, WorktreesOfTasks
  <2>3. WorksForRunning'
    BY <2>1, WorkingHandle DEF DrainInv, WorksForRunning, Attempt
  <2>4. ASSUME NEW s \in Slots, NEW t \in Slots, s # t, exec[s] = "working",
               Current(t)', claim[t].job = claim[s].job
        PROVE  ws'[claim[t].job] = "active" /\ run[t] \in BehindLock
               /\ exec[t] \in {"none", "waiting"}
    <3>1. Current(t)
      BY <1>0, <2>1, <2>4, CurrentBefore
    <3>2. ws[claim[t].job] = "active" /\ run[t] \in BehindLock
          /\ exec[t] \in {"none", "waiting"}
      BY <2>4, <3>1 DEF DrainInv, SuccessorHeldUp
    <3>3. lock[claim[s].job] # NoClaim /\ claim[s].job \in Jobs
      BY <2>4, WorkingHandle, SlotsAssumption
    <3>4. QED
      BY <2>1, <2>4, <3>2, <3>3
  <2>5. SuccessorHeldUp'
    BY <2>1, <2>4 DEF SuccessorHeldUp
  <2>6. QED
    BY <2>2, <2>3, <2>5 DEF DrainInv
<1>3. QED
  BY <1>1, <1>2

\* A terminal job is drained: nobody works in its worktree, although a slot that
\* lost its lease works on until a heartbeat tells it.  Its successor cannot get
\* past the lock it holds, and whoever settles has stopped its own executor.
THEOREM TerminalJobsAreDrained == RunnerSafety => []TerminalIsDrained
<1>1. RunnerInit => DrainInv
  BY DEF RunnerInit, Init, DrainInv, NoEarlyExecutor, WorktreesOfTasks, WorksForRunning,
         SuccessorHeldUp, InWorktree
<1>2. Inv /\ RunnerInv /\ DrainInv => TerminalIsDrained
  <2> SUFFICES ASSUME Inv, RunnerInv, DrainInv, NEW s \in Slots, exec[s] = "working"
               PROVE  jobStatus[claim[s].job] \notin Terminal
    BY DEF TerminalIsDrained
  <2>1. att[Attempt(s)].status = "running" /\ claim[s] # NoClaim
    BY WorkingHandle DEF DrainInv, WorksForRunning
  <2>2. PICK j \in Jobs, o \in Ordinals, n \in Numbers :
            claim[s].job = j /\ att[<<j, o, n>>].status = "running"
    BY <2>1, HandleType DEF Inv
  <2>3. QED
    BY <2>2 DEF Inv, JobInv, AttemptsMatchOperations, OperationsMatchJob, Terminal
<1>3. RunnerSafety => []Inv
  BY RunnersRefineStore, Invariant, PTL DEF StoreSpec
<1>4. Inv /\ RunnerInv /\ DrainInv /\ [RunnerNext]_allVars => DrainInv'
  BY DrainStep
<1>5. QED
  BY <1>1, <1>2, <1>3, <1>4, RunnerInitInv, RunnerNextInv, PTL DEF RunnerSafety

=============================================================================
