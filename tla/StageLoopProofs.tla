-------------------------- MODULE StageLoopProofs ---------------------------
(***************************************************************************)
(* Proofs about the stage loop, for every number of stages, attempts,      *)
(* faults, tool calls and review cycles.                                   *)
(*                                                                         *)
(* IInv is the inductive invariant.  Reached: what a step reads is there.  *)
(* Kept: a snapshot holds the implementation and is gone wherever the      *)
(* attempt goes on without one.  Restoring: how far a restoration has got. *)
(* ReviewInv follows from it.  The other theorems add one invariant each:  *)
(* Unmarked (rollback points) for CancelledIsClean, Planned for PlanIsPure,*)
(* Ordered (the checkpoint and the turn that runs) for CyclesInOrder,      *)
(* First (the report, its turn and its snapshot) for FirstReviewSound,     *)
(* Ships (while nothing fails, which approvals the document, the copy of   *)
(* the session and their rollback points may hold) for                     *)
(* ApprovedIsWhatShips.                                                    *)
(***************************************************************************)
EXTENDS StageLoop, TLAPS

-----------------------------------------------------------------------------
(* The inductive invariant.                                                *)

\* Places where no snapshot of a review may be left, of the snapshot, of a turn.
Settled == {"enter", "resetState", "resetTree", "prepare", "capture", "evaluate", "commit", "decide", "complete"}
Reviewing == {"restore", "reset", "refill", "drop", "rollback", "prepare", "capture", "save"}
InTurn == {"start", "await", "turn", "finished"}

\* What a step reads is there: a checkpoint once a turn has run, a cached
\* document while one runs, an attempt left while the job runs.
Reached ==
    /\ ord > 0 \/ run.pc \in {"turn", "finished", "evaluate", "commit", "decide", "complete"} => cp # None
    /\ run.pc \in {"await", "turn", "finished"} => turns > 0
    /\ run.pc \in {"await", "turn"} => cache # None
    /\ status = "running" => attempts < MaxAttempts[ord]
    /\ status # "running" => run.pc = "idle"

\* A snapshot is of the implementation, belongs to a review or a remediation,
\* and is gone wherever the attempt goes on without one.
Kept ==
    /\ snap = None => tree = work
    /\ snap # None => snap.tree = work /\ Detached(Kind(ord))
    /\ run.pc \in Settled \/ status \in {"succeeded", "cancelled"} => snap = None
    /\ run.pc \in InTurn /\ run.role # "review" => snap = None
    /\ run.role = "review" \/ run.pc \in Reviewing => Detached(Kind(ord))
    /\ run.pc \in {"resetState", "resetTree"} => Kind(ord) = "plan"
    /\ run.pc \in {"prepare", "capture", "save"} \/ (run.pc \in {"restore", "drop"} /\ run.caller = "capture") =>
           run.role = "review"
    /\ cp # None /\ cp.role = "review" => Detached(Kind(cp.ord))

\* Inside the restoration: what it has done so far, and for whom.
Restoring ==
    /\ run.pc \in {"reset", "refill", "drop", "save"} \/ (run.pc \in InTurn /\ run.role = "review") =>
           snap # None
    /\ run.pc = "drop" => tree = work
    /\ run.pc = "rollback" /\ run.changed => snap # None /\ tree = work
    /\ run.pc = "rollback" \/ (run.pc = "drop" /\ run.changed) => run.caller \in {"start", "turn", "cleanup"}
    /\ run.pc = "rollback" /\ ~run.changed =>
           run.caller # "start" /\ (run.caller = "cleanup" /\ run.ok => snap = None)
    /\ run.pc = "ended" /\ run.ok => snap = None

IInv == TypeOK /\ Reached /\ Kept /\ Restoring

-----------------------------------------------------------------------------
(* The operations on the document.                                         *)

\* The empty decomposition has no units.
LEMMA UnitsOf ==
  ASSUME NEW d \in Documents, NEW u \in DOMAIN d.units
  PROVE  d.units \in [Units -> {"pending", "completed"}] /\ u \in Units
<1>1. d.units \in Decompositions
  BY DEF Documents
<1>2. d.units # <<>>
  <2> SUFFICES ASSUME d.units = <<>> PROVE FALSE
    OBVIOUS
  <2>1. DOMAIN <<>> = {}
    OBVIOUS
  <2> QED BY <2>1
<1> QED BY <1>1, <1>2 DEF Decompositions

\* The empty document is a document.
LEMMA DefaultTyped == DefaultState \in Documents
BY DEF DefaultState, Documents, Decompositions

\* Each operation on a rollback point leaves a document.
LEMMA RollbackTyped ==
  ASSUME NEW d \in Documents
  PROVE  RollbackReview(d) \in Documents
BY DEF RollbackReview, Documents, Baselines

\* A rollback point is taken from the document it is put into.
LEMMA PrepareTyped ==
  ASSUME NEW d \in Documents
  PROVE  PrepareReview(d) \in Documents
<1> DEFINE b == RollbackReview(d)
<1>1. b \in Documents
  BY RollbackTyped
<1>2. [revision |-> b.revision, review |-> b.review, remediations |-> b.remediations, history |-> b.history]
        \in Baselines
  BY <1>1 DEF Documents, Baselines
<1> HIDE DEF b
<1>3. [b EXCEPT !.recovery = [revision |-> b.revision, review |-> b.review,
                            remediations |-> b.remediations, history |-> b.history]] \in Documents
  BY <1>1, <1>2 DEF Documents
<1> QED BY <1>3 DEF b, PrepareReview

\* So does its removal.
LEMMA CommitTyped ==
  ASSUME NEW d \in Documents
  PROVE  CommitReview(d) \in Documents
BY DEF CommitReview, Documents

\* Each tool leaves a document.  Counting a revision:
LEMMA UpdatedTyped ==
  ASSUME NEW d \in Documents
  PROVE  Updated(d) \in Documents
BY DEF Updated, Documents

\* The decomposition of a plan:
LEMMA DecomposeTyped ==
  ASSUME NEW d \in Documents
  PROVE  Decompose(d) \in Documents
<1> DEFINE units == [u \in Units |-> "pending"]
<1>1. units \in Decompositions
  BY DEF Decompositions
<1>2. Decompose(d) = [d EXCEPT !.units = units, !.review = None, !.remediations = {}, !.history = <<>>]
  BY DEF Decompose
<1> HIDE DEF units
<1>3. <<>> \in Seq(Nat)
  OBVIOUS
<1> DEFINE empty == <<>>
<1> HIDE DEF empty
<1>4. [d EXCEPT !.units = units, !.review = None, !.remediations = {}, !.history = empty] \in Documents
  BY <1>1, <1>3 DEF empty, Documents
<1> QED BY <1>2, <1>4 DEF empty

\* The progress of a unit:
LEMMA ProgressTyped ==
  ASSUME NEW d \in Documents, NEW u, MayProgress(d, u)
  PROVE  Progress(d, u) \in Documents
<1>1. d.units \in [Units -> {"pending", "completed"}] /\ u \in Units
  BY UnitsOf DEF MayProgress
<1>2. [d.units EXCEPT ![u] = "completed"] \in Decompositions
  BY <1>1 DEF Decompositions
<1> QED BY <1>2 DEF Progress, Documents

\* The generation of a report is a number, archived or not.
LEMMA GenerationTyped ==
  ASSUME NEW d \in Documents
  PROVE  CurrentGeneration(d) \in Nat
<1>1. CASE d.review # None
  BY <1>1 DEF CurrentGeneration, Documents, Reports
<1>2. CASE d.review = None /\ d.history # <<>>
  <2>1. d.history \in Seq(Nat) /\ Len(d.history) \in 1..Len(d.history)
    BY <1>2 DEF Documents
  <2> QED BY <1>2, <2>1 DEF CurrentGeneration
<1>3. CASE d.review = None /\ d.history = <<>>
  BY <1>3 DEF CurrentGeneration
<1> QED BY <1>1, <1>2, <1>3

\* A report, which replaces or archives the last one:
LEMMA RecordTyped ==
  ASSUME NEW d \in Documents, NEW turn \in Nat, NEW parent \in Nat,
         NEW verdict \in Verdicts, NEW findings \in SUBSET Findings
  PROVE  RecordReview(d, turn, parent, verdict, findings) \in Documents
<1> DEFINE report(g) == [generation |-> g, turn |-> turn, parent |-> parent,
                         verdict |-> verdict, findings |-> findings]
           archived == d.review # None /\ d.remediations # {}
           archive == IF archived THEN Append(d.history, d.review.generation) ELSE d.history
<1>1. \A g \in Nat : report(g) \in Reports
  BY DEF Reports
<1>2. archive \in Seq(Nat)
  BY DEF Documents, Reports
<1>3. CASE SameTurn(d, turn)
  <2>1. d.review.generation \in Nat
    BY <1>3 DEF SameTurn, Documents, Reports
  <2>2. RecordReview(d, turn, parent, verdict, findings) =
          [d EXCEPT !.review = report(IF d.review.generation = 0 THEN 1 ELSE d.review.generation)]
    BY <1>3 DEF RecordReview
  <2>3. report(IF d.review.generation = 0 THEN 1 ELSE d.review.generation) \in Reports
    BY <1>1, <2>1
  <2> HIDE DEF report
  <2> QED BY <2>2, <2>3 DEF Documents
<1>4. CASE ~SameTurn(d, turn)
  <2>1. report(CurrentGeneration(d) + 1) \in Reports
    BY <1>1, GenerationTyped
  <2>2. RecordReview(d, turn, parent, verdict, findings) =
          [d EXCEPT !.review = report(CurrentGeneration(d) + 1), !.remediations = {}, !.history = archive]
    BY <1>4 DEF RecordReview
  <2> HIDE DEF report, archive
  <2> QED BY <2>1, <2>2, <1>2 DEF Documents
<1> QED BY <1>3, <1>4

\* The dispositions of findings:
LEMMA RemediateTyped ==
  ASSUME NEW d \in Documents, NEW findings \in SUBSET Findings
  PROVE  Remediate(d, findings) \in Documents
BY DEF Remediate, Documents

\* Every call of a tool leaves a document, the same in the session and in the
\* store.
LEMMA ToolTyped ==
  ASSUME cache \in Documents, turns \in Nat, run.base.parent \in Nat, Tool
  PROVE  cache' \in Documents /\ doc' = cache'
<1>0. ASSUME NEW d, d \in Documents, SaveCached(d) PROVE cache' \in Documents /\ doc' = cache'
  BY <1>0, UpdatedTyped DEF SaveCached
<1>1. ASSUME SaveCached(Decompose(cache)) PROVE cache' \in Documents /\ doc' = cache'
  BY <1>0, <1>1, DecomposeTyped
<1>2. ASSUME NEW u \in Units, MayProgress(cache, u), SaveCached(Progress(cache, u))
      PROVE  cache' \in Documents /\ doc' = cache'
  BY <1>0, <1>2, ProgressTyped
<1>3. ASSUME NEW v \in Verdicts, NEW fs \in SUBSET Findings,
             SaveCached(RecordReview(cache, turns, run.base.parent, v, fs))
      PROVE  cache' \in Documents /\ doc' = cache'
  BY <1>0, <1>3, RecordTyped
<1>4. ASSUME NEW fs \in SUBSET Findings, SaveCached(Remediate(cache, fs))
      PROVE  cache' \in Documents /\ doc' = cache'
  BY <1>0, <1>4, RemediateTyped
<1>5. ASSUME SaveCached(cache) PROVE cache' \in Documents /\ doc' = cache'
  BY <1>0, <1>5
<1> QED BY <1>1, <1>2, <1>3, <1>4, <1>5 DEF Tool

Runs == [pc : Places, caller : Callers, changed : BOOLEAN, ok : BOOLEAN, mayRerun : BOOLEAN, role : Roles,
         cycle : Nat, base : Base, calls : Nat, terminal : BOOLEAN, drain : BOOLEAN]

\* What the ordinal of a stage says of its kind.
LEMMA KindOf ==
  ASSUME NEW n \in Nat
  PROVE  /\ Kind(n) \in Kinds
         /\ Kind(n) = "plan" <=> n = 0
         /\ Kind(n) \in {"review", "remediate"} => n > 1
BY DEF Kind, Kinds

\* The attempt at rest.
LEMMA IdleTyped == Idle \in Runs /\ NoBase \in Base
BY DEF Idle, Runs, NoBase, Base, Places, Callers, Roles

\* The base of a turn is taken from a document and a checkpoint that exist.
LEMMA BasesTyped ==
  ASSUME TypeOK
  PROVE  RevisionBase \in Base /\ (cp # None => ReviewBase \in Base)
BY IdleTyped DEF RevisionBase, ReviewBase, NoBase, Base, TypeOK, Documents, Reports, Checkpoints

\* Where a turn begins, and where a restoration goes on.
LEMMA FirstStepTyped ==
  ASSUME NEW role
  PROVE  FirstStep(role) \in {"resetState", "prepare", "start"}
BY DEF FirstStep

\* A restored worktree leads on with the attempt or to its cleanup.
LEMMA AfterRestoreTyped ==
  ASSUME run \in Runs, NEW changed \in BOOLEAN
  PROVE  AfterRestore(changed) \in {"enter", "rollback", "cleanup", "capture", "evaluate"}
BY DEF AfterRestore, Runs, Callers

\* So does a rolled back document.
LEMMA AfterRollbackTyped ==
  ASSUME run.caller \in {"start", "turn", "cleanup"}
  PROVE  AfterRollback \in {"enter", "cleanup", "ended"}
BY DEF AfterRollback

\* And a removed snapshot, after either.
LEMMA DropGoesOn ==
  ASSUME run \in Runs, Restoring, At("drop")
  PROVE  (IF run.changed THEN AfterRollback ELSE AfterRestore(FALSE)) \in Places
BY AfterRestoreTyped, AfterRollbackTyped DEF Runs, Restoring, At, Places

\* Every step leaves the record of the attempt a record of an attempt.
LEMMA ReviewRun ==
  ASSUME IInv, Review
  PROVE  run' \in Runs
<1> USE DEF Goto, Restore, At
<1>0. run \in Runs
  BY DEF IInv, TypeOK, Runs
<1>1. CASE RestoreNothing \/ RestoreRefills
  <2>1. PICK c \in BOOLEAN : run' = [run EXCEPT !.pc = AfterRestore(c), !.changed = c]
    BY <1>1 DEF RestoreNothing, RestoreRefills
  <2>2. AfterRestore(c) \in Places
    BY <1>0, AfterRestoreTyped DEF Places
  <2> QED BY <1>0, <2>1, <2>2 DEF Runs
<1>2. CASE RestoreImpossible \/ RestoreFails
  BY <1>0, <1>2 DEF RestoreImpossible, RestoreFails, RestoreError, Runs, Places
<1>3. CASE RestoreMarks \/ RestoreResets \/ RestoreUnchanged \/ DropIndex
  BY <1>0, <1>3 DEF RestoreMarks, RestoreResets, RestoreUnchanged, DropIndex, Runs, Places
<1>4. CASE DropMetadata
  <2>1. (IF run.changed THEN AfterRollback ELSE AfterRestore(FALSE)) \in Places
    BY <1>0, <1>4, DropGoesOn DEF DropMetadata, IInv
  <2> QED BY <1>0, <1>4, <2>1 DEF DropMetadata, Runs
<1>5. CASE Rollback
  <2>1. (IF run.changed THEN "drop" ELSE AfterRollback) \in Places
    BY <1>0, <1>5, AfterRollbackTyped DEF Rollback, Places, IInv, Restoring, Runs
  <2> QED BY <1>0, <1>5, <2>1 DEF Rollback, Runs
<1>6. CASE Prepare \/ Capture \/ Save \/ SaveFails
  BY <1>0, <1>6 DEF Prepare, Capture, Save, SaveFails, Runs, Places, Callers
<1> QED BY <1>1, <1>2, <1>3, <1>4, <1>5, <1>6 DEF Review

\* The end of a turn, however it went:
LEMMA AfterTurnRun ==
  ASSUME run \in Runs, NEW ok \in BOOLEAN, AfterTurn(ok)
  PROVE  run' \in Runs
BY DEF AfterTurn, Runs, Places, Callers

\* The steps of a turn:
LEMMA TurnRun ==
  ASSUME IInv, Turn
  PROVE  run' \in Runs
<1> USE DEF Goto, At
<1>0. run \in Runs
  BY DEF IInv, TypeOK, Runs
<1>1. CASE StartTurn \/ WriteAwaiting \/ FinishTurn
  <2>1. CASE StartTurn
    BY <1>0, <2>1 DEF StartTurn, Runs, Places
  <2>2. CASE WriteAwaiting \/ FinishTurn
    BY <1>0, <2>2 DEF WriteAwaiting, FinishTurn, Runs, Places
  <2> QED BY <1>1, <2>1, <2>2
<1>2. CASE CallTool
  BY <1>0, <1>2 DEF CallTool, Runs
<1>3. CASE ChangeTree
  BY <1>0, <1>3 DEF ChangeTree
<1>4. CASE WriteTurnCompleted \/ TurnFails
  BY <1>0, <1>4, AfterTurnRun DEF WriteTurnCompleted, TurnFails
<1> QED BY <1>1, <1>2, <1>3, <1>4 DEF Turn

\* The beginning of one:
LEMMA BeginRun ==
  ASSUME run \in Runs, NEW role \in Roles, NEW cycle \in Nat, NEW base \in Base, Begin(role, cycle, base)
  PROVE  run' \in Runs
<1>1. FirstStep(role) \in Places
  BY FirstStepTyped DEF Places
<1> QED BY <1>1 DEF Begin, Runs, Callers

\* The steps of the stage around it:
LEMMA StageRun ==
  ASSUME IInv, Stage
  PROVE  run' \in Runs
<1> USE DEF Goto, At
<1>0. /\ run \in Runs /\ RevisionBase \in Base /\ ord \in Nat
      /\ cp # None => ReviewBase \in Base /\ cp \in Checkpoints
  BY BasesTyped DEF IInv, TypeOK, Runs
<1>1. CASE StartAttempt
  BY <1>1, IdleTyped DEF StartAttempt, Runs, Places, Idle
<1>2. CASE EnterCurrent
  <2>1. cp \in Checkpoints /\ NoBase \in Base
    BY <1>0, <1>2, IdleTyped DEF EnterCurrent, Current
  <2>2. cp.role \in Roles /\ cp.cycle \in Nat /\ cp.base \in Base
    BY <2>1 DEF Checkpoints
  <2> QED BY <1>0, <1>2, <2>1, <2>2 DEF EnterCurrent, Runs, Places
<1>3. CASE EnterFresh
  <2>1. Kind(ord) = "review" => cp # None
    BY <1>0, KindOf DEF IInv, Reached
  <2> QED BY <1>0, <1>3, <2>1, IdleTyped, BeginRun DEF EnterFresh, Roles
<1>4. CASE EnterRemediate
  <2>1. cp \in Checkpoints
    BY <1>0, <1>4, KindOf DEF IInv, Reached, EnterRemediate
  <2>2. cp.base \in Base
    BY <2>1 DEF Checkpoints
  <2>3. CASE ValidateRemediation(doc) /\ Approved(doc)
    <3>1. PICK t \in BOOLEAN, p \in {"complete", "cleanup"} :
              run' = [run EXCEPT !.pc = p, !.terminal = t, !.role = "review", !.cycle = 1, !.base = cp.base]
      BY <1>4, <2>3 DEF EnterRemediate
    <3> QED BY <1>0, <2>2, <3>1 DEF Runs, Places, Roles
  <2>4. CASE ~(ValidateRemediation(doc) /\ Approved(doc))
    BY <1>0, <1>4, <2>4, BeginRun DEF EnterRemediate, Roles
  <2> QED BY <2>3, <2>4
<1>5. CASE ResetState \/ ResetTree \/ EvaluateValid \/ Commit \/ DecideStage
  BY <1>0, <1>5 DEF ResetState, ResetTree, EvaluateValid, Commit, DecideStage, Runs, Places
<1>6. CASE EvaluateInvalid
  <2>1. FirstStep(run.role) \in Places
    BY FirstStepTyped DEF Places
  <2>2. (cp.phase = "completed") \in BOOLEAN
    OBVIOUS
  <2>3. CASE run.mayRerun
    BY <1>0, <1>6, <2>1, <2>3 DEF EvaluateInvalid, Runs, Callers
  <2>4. CASE ~run.mayRerun
    BY <1>0, <1>6, <2>2, <2>4 DEF EvaluateInvalid, Runs, Places
  <2> QED BY <2>3, <2>4
<1>7. CASE DecideRemediate
  <2>1. cp # None
    BY <1>7 DEF DecideRemediate, IInv, Reached
  <2>2. run.cycle \in Nat
    BY <1>0 DEF Runs
  <2>3. \/ run' = [run EXCEPT !.pc = "complete"]
        \/ run' = [run EXCEPT !.pc = "cleanup", !.terminal = TRUE]
        \/ Begin("review", run.cycle, ReviewBase)
        \/ Begin("remediation", run.cycle + 1, RevisionBase)
    BY <1>7 DEF DecideRemediate
  <2>4. run' \in Runs \/ Begin("review", run.cycle, ReviewBase)
          \/ Begin("remediation", run.cycle + 1, RevisionBase)
    BY <1>0, <2>3 DEF Runs, Places
  <2> QED BY <1>0, <2>1, <2>2, <2>4, BeginRun DEF Roles
<1>8. CASE Complete \/ CompleteRefused \/ EndAttempt
  BY <1>8, IdleTyped DEF Complete, CompleteRefused, EndAttempt
<1>9. CASE NoticeCancel
  BY <1>0, <1>9, AfterTurnRun DEF NoticeCancel, Runs, Places
<1>10. CASE StepFails \/ Cleanup
  <2>1. CASE StepFails
    <3>1. PICK p \in {"ended", "cleanup"} : run' = [run EXCEPT !.pc = p, !.ok = FALSE, !.terminal = FALSE]
      BY <2>1 DEF StepFails
    <3> QED BY <1>0, <3>1 DEF Runs, Places
  <2>2. CASE Cleanup
    <3>1. \/ run' = [run EXCEPT !.pc = "resetState", !.caller = "cleanup"]
          \/ run' = [run EXCEPT !.pc = "resetTree", !.caller = "cleanup"]
          \/ run' = [run EXCEPT !.pc = "restore", !.caller = "cleanup"]
          \/ run' = [run EXCEPT !.pc = "ended"]
      BY <2>2 DEF Cleanup
    <3> QED BY <1>0, <3>1 DEF Runs, Places, Callers
  <2> QED BY <1>10, <2>1, <2>2
<1> QED BY <1>1, <1>2, <1>3, <1>4, <1>5, <1>6, <1>7, <1>8, <1>9, <1>10 DEF Stage

\* Together:
LEMMA NextRun ==
  ASSUME IInv, Next
  PROVE  run' \in Runs
<1>1. CASE RequestCancel
  BY <1>1 DEF RequestCancel, IInv, TypeOK, Runs
<1>2. CASE Crash
  BY <1>2, IdleTyped DEF Crash
<1> QED BY <1>1, <1>2, ReviewRun, TurnRun, StageRun DEF Next

\* Which steps write what: the document and its copy, the checkpoint, the
\* snapshot, the worktree and its history, the job, the counters, the decisions.
LEMMA Writers ==
  ASSUME Next
  PROVE  /\ \/ doc' = doc /\ cache' \in {cache, None, doc}
            \/ /\ doc' \in {RollbackReview(doc), DefaultState, CommitReview(doc)}
               /\ cache' = cache
            \/ Save \/ CallTool
         /\ cp' = cp \/ WriteAwaiting \/ WriteTurnCompleted \/ Complete
         /\ snap' = snap \/ RestoreMarks \/ DropIndex \/ DropMetadata \/ Capture
         /\ \/ UNCHANGED <<tree, work, mutators>>
            \/ StartAttempt \/ RestoreResets \/ RestoreRefills \/ ResetTree \/ ChangeTree
         /\ UNCHANGED <<ord, status, attempts>> \/ Complete \/ EndAttempt
         /\ cancelling' = cancelling \/ RequestCancel
         /\ UNCHANGED <<turns, done>> \/ StartTurn \/ FinishTurn
         /\ faults' = faults \/ Failure
         /\ accepted' = accepted \/ Commit
<1> USE DEF durable, job, counters, history
<1>1. CASE Review
  BY <1>1 DEF Review, RestoreNothing, RestoreImpossible, RestoreFails, RestoreMarks,
              RestoreResets, RestoreRefills, RestoreUnchanged, DropIndex, DropMetadata,
              Rollback, Prepare, Capture, Save, SaveFails
<1>2. CASE Turn
  BY <1>2 DEF Turn, StartTurn, WriteAwaiting, CallTool, ChangeTree, FinishTurn,
              WriteTurnCompleted, TurnFails
<1>3. CASE Stage
  BY <1>3 DEF Stage, StartAttempt, EnterCurrent, EnterFresh, EnterRemediate, ResetState,
              ResetTree, EvaluateValid, EvaluateInvalid, Commit, DecideStage,
              DecideRemediate, Complete, CompleteRefused, NoticeCancel, StepFails, Cleanup,
              EndAttempt
<1>4. CASE RequestCancel \/ Crash
  BY <1>4 DEF RequestCancel, Crash
<1> QED BY <1>1, <1>2, <1>3, <1>4 DEF Next

\* The document and the copy of the session stay documents.
LEMMA DocTyped ==
  ASSUME IInv, Next
  PROVE  doc' \in Documents /\ cache' \in Documents \cup {None}
<1>0. doc \in Documents /\ cache \in Documents \cup {None} /\ turns \in Nat /\ run \in Runs
  BY DEF IInv, TypeOK, Runs
<1>1. CASE doc' = doc /\ cache' \in {cache, None, doc}
  BY <1>0, <1>1
<1>2. CASE /\ doc' \in {RollbackReview(doc), DefaultState, CommitReview(doc)}
           /\ cache' = cache
  BY <1>0, <1>2, RollbackTyped, DefaultTyped, CommitTyped
<1>3. CASE CallTool
  <2>1. cache \in Documents /\ run.base.parent \in Nat
    BY <1>0, <1>3 DEF IInv, Reached, CallTool, Runs, Base
  <2> QED BY <1>0, <1>3, <2>1, ToolTyped DEF CallTool
<1>4. CASE Save
  BY <1>0, <1>4, PrepareTyped DEF Save
<1> QED BY <1>1, <1>2, <1>3, <1>4, Writers

\* A checkpoint is only written of a turn that has started.
LEMMA CheckpointTyped ==
  ASSUME IInv, Next
  PROVE  cp' \in Checkpoints \cup {None}
<1>0. /\ cp \in Checkpoints \cup {None} /\ turns \in Nat /\ ord \in Nat
      /\ run.role \in Roles /\ run.cycle \in Nat /\ run.base \in Base
  BY DEF IInv, TypeOK
<1>1. CASE WriteAwaiting
  BY <1>0, <1>1 DEF WriteAwaiting, Checkpoints, Phases
<1>2. CASE WriteTurnCompleted \/ Complete
  <2>1. cp \in Checkpoints
    BY <1>0, <1>2 DEF IInv, Reached, WriteTurnCompleted, Complete, At
  <2> QED BY <1>0, <1>2, <2>1 DEF WriteTurnCompleted, Complete, Checkpoints, Phases
<1> QED BY <1>0, <1>1, <1>2, Writers

\* A checkpoint, once there, stays.
LEMMA CheckpointStays ==
  ASSUME IInv, Next, cp # None \/ WriteAwaiting
  PROVE  cp' # None
<1>0. /\ cp \in Checkpoints \cup {None} /\ turns \in Nat /\ ord \in Nat
      /\ run.role \in Roles /\ run.cycle \in Nat /\ run.base \in Base
  BY DEF IInv, TypeOK
<1>1. CASE WriteAwaiting
  <2>1. cp' \in Checkpoints
    BY <1>0, <1>1 DEF WriteAwaiting, Checkpoints, Phases
  <2> QED BY <2>1, NoneIsNoRecord
<1>2. CASE cp # None /\ (WriteTurnCompleted \/ Complete)
  <2>1. cp' \in Checkpoints
    BY <1>0, <1>2 DEF WriteTurnCompleted, Complete, Checkpoints, Phases
  <2> QED BY <2>1, NoneIsNoRecord
<1>3. CASE cp # None /\ cp' = cp
  BY <1>3
<1> QED BY <1>1, <1>2, <1>3, Writers

\* A snapshot and the worktree it is of keep their types.
LEMMA SnapshotTyped ==
  ASSUME IInv, Next
  PROVE  snap' \in Snapshots \cup {None} /\ tree' \in Nat \cup {None}
<1>0. /\ snap \in Snapshots \cup {None} /\ tree \in Nat \cup {None} /\ turns \in Nat
  BY DEF IInv, TypeOK
<1>1. snap' \in Snapshots \cup {None}
  <2>1. CASE RestoreMarks \/ DropIndex
    <3>1. snap \in Snapshots
      BY <1>0, <2>1 DEF RestoreMarks, DropIndex, IInv, Restoring, At
    <3> QED BY <2>1, <3>1 DEF RestoreMarks, DropIndex, Snapshots
  <2>2. CASE DropMetadata
    BY <2>2 DEF DropMetadata
  <2>3. CASE Capture
    BY <1>0, <2>3 DEF Capture, Snapshots
  <2> QED BY <1>0, <2>1, <2>2, <2>3, Writers
<1>2. tree' \in Nat \cup {None}
  <2>1. CASE StartAttempt \/ RestoreResets \/ ResetTree \/ ChangeTree
    BY <1>0, <2>1 DEF StartAttempt, RestoreResets, ResetTree, ChangeTree
  <2>2. CASE RestoreRefills
    <3>1. snap \in Snapshots
      BY <1>0, <2>2 DEF RestoreRefills, IInv, Restoring, At
    <3> QED BY <2>2, <3>1 DEF RestoreRefills, Snapshots
  <2> QED BY <1>0, <2>1, <2>2, Writers
<1> QED BY <1>1, <1>2

\* The stages end with the last one, the attempts with the bound of their stage.
LEMMA JobTyped ==
  ASSUME IInv, Next
  PROVE  /\ ord' \in 0..LastOrdinal /\ attempts' \in 0..MaxAttempts[ord']
         /\ status' \in {"running", "succeeded", "failed", "cancelled"}
         /\ status' = "running" => attempts' < MaxAttempts[ord']
<1>0. /\ ord \in 0..LastOrdinal /\ attempts \in 0..MaxAttempts[ord] /\ LastOrdinal \in Nat
      /\ status \in {"running", "succeeded", "failed", "cancelled"}
      /\ status = "running" => attempts < MaxAttempts[ord]
      /\ \A n \in 0..LastOrdinal : MaxAttempts[n] \in Nat \ {0}
  BY StageLoopAssumption DEF IInv, TypeOK, Reached
<1>1. CASE Complete
  BY <1>0, <1>1 DEF Complete, IInv, Reached, At
<1>2. CASE EndAttempt
  <2>1. status = "running"
    BY <1>2 DEF EndAttempt, IInv, Reached, At
  <2>2. ord' = ord /\ (attempts' = attempts \/ (attempts' = attempts + 1 /\ ~cancelling))
    BY <1>2 DEF EndAttempt
  <2>3. status' \in {"running", "failed", "cancelled"}
    BY <1>2, <2>1 DEF EndAttempt
  <2>4. status' = "running" /\ attempts' = attempts + 1 => attempts + 1 # MaxAttempts[ord]
    BY <1>0, <1>2, <2>1 DEF EndAttempt
  <2> QED BY <1>0, <2>1, <2>2, <2>3, <2>4
<1> QED BY <1>0, <1>1, <1>2, Writers

\* A cancellation is requested or not.
LEMMA CancellingTyped ==
  ASSUME IInv, Next
  PROVE  cancelling' \in BOOLEAN
<1>0. cancelling \in BOOLEAN
  BY DEF IInv, TypeOK
<1>1. cancelling' = cancelling \/ RequestCancel
  BY Writers
<1> QED BY <1>0, <1>1 DEF RequestCancel

\* Turns only get more; what has run, implemented or mutated is one of them.
LEMMA CountersTyped ==
  ASSUME IInv, Next
  PROVE  /\ turns' \in Nat /\ turns <= turns' /\ done' \subseteq 1..turns'
         /\ mutators' \subseteq 1..turns' /\ work' \in 0..turns'
<1>0. /\ turns \in Nat /\ done \subseteq 1..turns /\ mutators \subseteq 1..turns /\ work \in 0..turns
      /\ run.pc \in {"await", "turn"} => turns > 0
  BY DEF IInv, TypeOK, Reached
<1>1. /\ turns' \in Nat /\ turns <= turns' /\ done' \subseteq 1..turns'
  <2>1. CASE StartTurn
    BY <1>0, <2>1 DEF StartTurn, durable
  <2>2. CASE FinishTurn
    BY <1>0, <2>2 DEF FinishTurn, counters, At
  <2>3. CASE UNCHANGED <<turns, done>>
    BY <1>0, <2>3
  <2> QED BY <2>1, <2>2, <2>3, Writers
<1>2. mutators' \subseteq 1..turns /\ work' \in 0..turns
  <2>1. CASE StartAttempt \/ RestoreResets \/ RestoreRefills \/ ResetTree
    BY <1>0, <2>1 DEF StartAttempt, RestoreResets, RestoreRefills, ResetTree, history
  <2>2. CASE ChangeTree
    <3>1. turns \in 1..turns
      BY <1>0, <2>2 DEF ChangeTree
    <3>2. mutators' \in {mutators, mutators \cup {turns}} /\ work' \in {work, turns}
      BY <2>2 DEF ChangeTree
    <3> QED BY <1>0, <3>1, <3>2
  <2> QED BY <1>0, <2>1, <2>2, Writers
<1> QED BY <1>0, <1>1, <1>2

\* Faults stay within their bound.
LEMMA FaultsTyped ==
  ASSUME IInv, Next
  PROVE  faults' \in 0..MaxFaults
<1>0. faults \in 0..MaxFaults /\ MaxFaults \in Nat
  BY StageLoopAssumption DEF IInv, TypeOK
<1>1. faults' = faults \/ Failure
  BY Writers
<1> QED BY <1>0, <1>1 DEF Failure

\* What a decision was taken on is a report.
LEMMA AcceptedTyped ==
  ASSUME IInv, Next
  PROVE  accepted' \in Reports \cup {None}
<1>0. accepted \in Reports \cup {None} /\ doc.review \in Reports \cup {None}
  BY DEF IInv, TypeOK, Documents
<1>1. accepted' = accepted \/ Commit
  BY Writers
<1> QED BY <1>0, <1>1 DEF Commit

\* Every step keeps the types.
LEMMA NextTyped ==
  ASSUME IInv, Next
  PROVE  TypeOK'
BY NextRun, DocTyped, CheckpointTyped, SnapshotTyped, JobTyped, CancellingTyped, CountersTyped,
   FaultsTyped, AcceptedTyped DEF TypeOK, Runs

\* The facts that most steps need.
LEMMA Facts ==
  ASSUME IInv
  PROVE  /\ run \in Runs /\ snap \in Snapshots \cup {None} /\ cp \in Checkpoints \cup {None}
         /\ ord \in Nat /\ (Kind(ord) = "plan" <=> ord = 0)
         /\ Detached(Kind(ord)) => ord > 1 /\ cp # None
BY KindOf DEF IInv, TypeOK, Runs, Detached, Reached

\* A job that has ended takes no step.
LEMMA OnlyRunning ==
  ASSUME IInv, Next
  PROVE  status = "running"
<1> SUFFICES ASSUME run.pc = "idle" PROVE status = "running"
  BY DEF IInv, Reached
<1> USE DEF At
<1>1. ~Review
  BY DEF Review, RestoreNothing, RestoreImpossible, RestoreFails, RestoreMarks, RestoreResets,
         RestoreRefills, RestoreUnchanged, DropIndex, DropMetadata, Rollback, Prepare, Capture, Save,
         SaveFails
<1>2. ~Turn
  BY DEF Turn, StartTurn, WriteAwaiting, CallTool, ChangeTree, FinishTurn, WriteTurnCompleted, TurnFails
<1>3. CASE Stage
  BY <1>3 DEF Stage, StartAttempt, EnterCurrent, EnterFresh, EnterRemediate, ResetState, ResetTree,
              EvaluateValid, EvaluateInvalid, Commit, DecideStage, DecideRemediate, Complete,
              CompleteRefused, NoticeCancel, StepFails, Cleanup, EndAttempt
<1>4. CASE RequestCancel \/ Crash
  BY <1>4 DEF RequestCancel, Crash
<1> QED BY <1>1, <1>2, <1>3, <1>4 DEF Next

\* A turn begins, or is left for the cleanup, where no snapshot is left.
LEMMA Onward ==
  ASSUME IInv, Next, snap = None, run.pc \in Settled,
         UNCHANGED <<cp, snap, tree, work, ord, status, attempts>>,
         run'.pc \in {"resetState", "prepare", "start", "cleanup", "complete"},
         run'.pc = "prepare" => run'.role = "review",
         run'.pc = "start" => run'.role # "review",
         run'.pc = "resetState" => Kind(ord) = "plan",
         run'.role = "review" => Detached(Kind(ord)),
         run'.pc = "complete" => cp # None
  PROVE  Reached' /\ Kept' /\ Restoring'
<1>1. Reached'
  BY OnlyRunning DEF IInv, Reached, Settled
<1>2. Kept'
  BY OnlyRunning DEF IInv, Kept, Settled, InTurn, Reviewing
<1>3. Restoring'
  BY DEF Restoring, InTurn
<1> QED BY <1>1, <1>2, <1>3

\* The four steps that may begin a turn.
LEMMA OnwardSteps ==
  ASSUME IInv, Next, EnterFresh \/ EnterRemediate \/ EvaluateInvalid \/ DecideRemediate
  PROVE  Reached' /\ Kept' /\ Restoring'
<1> USE Facts DEF Goto, At, durable, job, history
<1>1. /\ UNCHANGED <<cp, snap, tree, work, ord, status, attempts>>
      /\ run.pc \in {"enter", "evaluate", "decide"}
  BY DEF EnterFresh, EnterRemediate, EvaluateInvalid, DecideRemediate
<1>2. snap = None /\ run.pc \in Settled
  BY <1>1 DEF IInv, Kept, Settled
<1>3. ASSUME NEW role, NEW cycle, NEW base, Begin(role, cycle, base), role = "review" => Detached(Kind(ord))
      PROVE  /\ run'.pc \in {"resetState", "prepare", "start"}
             /\ run'.pc = "prepare" => run'.role = "review"
             /\ run'.pc = "start" => run'.role # "review"
             /\ run'.pc = "resetState" => Kind(ord) = "plan"
             /\ run'.role = "review" => Detached(Kind(ord))
  BY <1>3 DEF Begin, FirstStep, Runs
<1>4. CASE EnterFresh
  BY <1>1, <1>2, <1>3, <1>4, Onward DEF EnterFresh, Detached
<1>5. CASE EnterRemediate
  <2>1. CASE ValidateRemediation(doc) /\ Approved(doc)
    BY <1>1, <1>2, <1>5, <2>1, Onward DEF EnterRemediate, Detached, Runs
  <2>2. CASE ~(ValidateRemediation(doc) /\ Approved(doc))
    BY <1>1, <1>2, <1>3, <1>5, <2>2, Onward DEF EnterRemediate, Detached
  <2> QED BY <2>1, <2>2
<1>6. CASE EvaluateInvalid
  <2>1. run'.role = run.role
    BY <1>6 DEF EvaluateInvalid, Runs
  <2>2. run'.pc \in {FirstStep(run.role), "cleanup"}
    BY <1>6 DEF EvaluateInvalid, Runs
  <2> QED BY <1>1, <1>2, <2>1, <2>2, Onward DEF FirstStep, IInv, Kept
<1>7. CASE DecideRemediate
  <2>1. \/ run' = [run EXCEPT !.pc = "complete"]
        \/ run' = [run EXCEPT !.pc = "cleanup", !.terminal = TRUE]
        \/ Begin("review", run.cycle, ReviewBase)
        \/ Begin("remediation", run.cycle + 1, RevisionBase)
    BY <1>7 DEF DecideRemediate
  <2>2. Detached(Kind(ord))
    BY <1>7 DEF DecideRemediate, Detached
  <2>3. CASE \/ run' = [run EXCEPT !.pc = "complete"]
             \/ run' = [run EXCEPT !.pc = "cleanup", !.terminal = TRUE]
    <3>1. run'.pc \in {"complete", "cleanup"}
      BY <2>3 DEF Runs
    <3> QED BY <1>1, <1>2, <2>2, <3>1, Onward
  <2> QED BY <1>1, <1>2, <1>3, <2>1, <2>2, <2>3, Onward
<1> QED BY <1>4, <1>5, <1>6, <1>7

\* What the next step reads is there.
LEMMA NextReached ==
  ASSUME IInv, Next
  PROVE  Reached'
<1> USE Facts, CheckpointStays, OnlyRunning DEF IInv, Reached, Kept, Restoring, Runs, Snapshots, Checkpoints, Goto,
      Restore, At, Settled, InTurn, Reviewing, Callers, Idle, AfterRestore, AfterRollback,
      RestoreError, AfterTurn, Detached, Current, durable, job, counters, history
<1>1. CASE RestoreNothing
  BY <1>1 DEF RestoreNothing
<1>2. CASE RestoreImpossible \/ RestoreFails
  BY <1>2 DEF RestoreImpossible, RestoreFails
<1>3. CASE RestoreMarks
  BY <1>3 DEF RestoreMarks
<1>4. CASE RestoreResets
  BY <1>4 DEF RestoreResets
<1>5. CASE RestoreRefills
  BY <1>5 DEF RestoreRefills
<1>6. CASE RestoreUnchanged
  BY <1>6 DEF RestoreUnchanged
<1>7. CASE DropIndex
  BY <1>7 DEF DropIndex
<1>8. CASE DropMetadata
  BY <1>8 DEF DropMetadata
<1>9. CASE Rollback
  BY <1>9 DEF Rollback
<1>10. CASE Prepare
  BY <1>10 DEF Prepare
<1>11. CASE Capture
  BY <1>11 DEF Capture
<1>12. CASE Save \/ SaveFails
  BY <1>12 DEF Save, SaveFails
<1>13. CASE StartTurn
  <2>1. run'.pc = "await" /\ UNCHANGED <<cp, ord, status, attempts>> /\ run.pc = "start"
    BY <1>13 DEF StartTurn
  <2>2. turns' > 0
    BY <1>13 DEF StartTurn, TypeOK
  <2>3. cache' # None
    BY <1>13, NoneAssumption DEF StartTurn, TypeOK
  <2> QED BY <2>1, <2>2, <2>3
<1>14. CASE WriteAwaiting
  BY <1>14 DEF WriteAwaiting
<1>15. CASE CallTool
  <2>1. run'.pc = run.pc /\ UNCHANGED <<cp, ord, status, attempts, turns>> /\ run.pc \in {"await", "turn"}
    BY <1>15 DEF CallTool
  <2>2. cache' # None
    <3>1. cache \in Documents /\ turns \in Nat /\ run.base.parent \in Nat
      BY <2>1 DEF TypeOK, Base
    <3> QED BY <1>15, <3>1, ToolTyped, NoneAssumption DEF CallTool
  <2> QED BY <2>1, <2>2
<1>16. CASE ChangeTree
  BY <1>16 DEF ChangeTree
<1>17. CASE FinishTurn
  BY <1>17 DEF FinishTurn
<1>18. CASE WriteTurnCompleted
  BY <1>18 DEF WriteTurnCompleted
<1>19. CASE TurnFails
  BY <1>19 DEF TurnFails
<1>20. CASE StartAttempt
  BY <1>20 DEF StartAttempt
<1>21. CASE EnterCurrent
  BY <1>21 DEF EnterCurrent
<1>22. CASE ResetState \/ ResetTree
  BY <1>22 DEF ResetState, ResetTree
<1>23. CASE EvaluateValid \/ Commit \/ DecideStage
  BY <1>23 DEF EvaluateValid, Commit, DecideStage
<1>24. CASE Complete
  <2>1. run' = Idle /\ cp # None
    BY <1>24 DEF Complete
  <2>2. cp' # None
    BY <2>1, CheckpointStays
  <2> QED BY <2>1, <2>2, JobTyped
<1>25. CASE CompleteRefused
  BY <1>25 DEF CompleteRefused
<1>26. CASE NoticeCancel
  <2>1. CASE run.pc = "turn" /\ AfterTurn(FALSE)
    BY <1>26, <2>1 DEF NoticeCancel
  <2>2. CASE /\ run.pc \in {"prepare", "complete", "start", "evaluate"}
             /\ run' = [run EXCEPT !.pc = "cleanup"]
    BY <1>26, <2>2 DEF NoticeCancel
  <2> QED BY <1>26, <2>1, <2>2 DEF NoticeCancel
<1>27. CASE StepFails
  BY <1>27 DEF StepFails
<1>28. CASE Cleanup
  BY <1>28 DEF Cleanup
<1>29. CASE EndAttempt
  <2>1. run' = Idle /\ cp' = cp /\ ord' = ord
    BY <1>29 DEF EndAttempt
  <2> QED BY <2>1, JobTyped
<1>30. CASE RequestCancel \/ Crash
  BY <1>30 DEF RequestCancel, Crash
<1>31. CASE EnterFresh \/ EnterRemediate \/ EvaluateInvalid \/ DecideRemediate
  BY <1>31, OnwardSteps
<1> QED BY <1>1, <1>2, <1>3, <1>4, <1>5, <1>6, <1>7, <1>8, <1>9, <1>10, <1>11, <1>12, <1>13, <1>14, <1>15, <1>16, <1>17, <1>18, <1>19, <1>20, <1>21, <1>22, <1>23, <1>24, <1>25, <1>26, <1>27, <1>28, <1>29, <1>30, <1>31
  DEF Next, Review, Turn, Stage

\* The implementation is kept, and a snapshot is gone where it must be.
LEMMA NextKept ==
  ASSUME IInv, Next
  PROVE  Kept'
<1> USE Facts, OnlyRunning DEF IInv, Reached, Kept, Restoring, Runs, Snapshots, Checkpoints, Goto,
      Restore, At, Settled, InTurn, Reviewing, Callers, Idle, AfterRestore, AfterRollback,
      RestoreError, AfterTurn, Detached, Current, durable, job, counters, history
<1>1. CASE RestoreNothing
  BY <1>1 DEF RestoreNothing
<1>2. CASE RestoreImpossible \/ RestoreFails
  <2>1. CASE RestoreImpossible
    BY <2>1 DEF RestoreImpossible
  <2>2. CASE RestoreFails
    BY <2>2 DEF RestoreFails
  <2> QED BY <1>2, <2>1, <2>2
<1>3. CASE RestoreMarks
  <2>1. snap' \in Snapshots /\ snap'.tree = snap.tree
    BY <1>3 DEF RestoreMarks
  <2> QED BY <1>3, <2>1, NoneIsNoRecord DEF RestoreMarks
<1>4. CASE RestoreResets
  BY <1>4 DEF RestoreResets
<1>5. CASE RestoreRefills
  BY <1>5 DEF RestoreRefills
<1>6. CASE RestoreUnchanged
  BY <1>6 DEF RestoreUnchanged
<1>7. CASE DropIndex
  BY <1>7 DEF DropIndex
<1>8. CASE DropMetadata
  BY <1>8 DEF DropMetadata
<1>9. CASE Rollback
  BY <1>9 DEF Rollback
<1>10. CASE Prepare
  BY <1>10 DEF Prepare
<1>11. CASE Capture
  BY <1>11 DEF Capture
<1>12. CASE Save \/ SaveFails
  BY <1>12 DEF Save, SaveFails
<1>13. CASE StartTurn
  BY <1>13 DEF StartTurn
<1>14. CASE WriteAwaiting
  BY <1>14 DEF WriteAwaiting
<1>15. CASE CallTool
  BY <1>15 DEF CallTool
<1>16. CASE ChangeTree
  <2>1. UNCHANGED <<snap, run, cp, ord, status>> /\ tree' = turns /\ run.pc \in {"await", "turn"}
    BY <1>16 DEF ChangeTree
  <2>2. CASE run.role = "review"
    <3>1. work' = work
      BY <1>16, <2>2 DEF ChangeTree
    <3> QED BY <2>1, <2>2, <3>1
  <2>3. CASE run.role # "review"
    <3>1. work' = turns /\ snap = None
      BY <1>16, <2>1, <2>3 DEF ChangeTree
    <3> QED BY <2>1, <2>3, <3>1
  <2> QED BY <2>2, <2>3
<1>17. CASE FinishTurn
  BY <1>17 DEF FinishTurn
<1>18. CASE WriteTurnCompleted
  BY <1>18 DEF WriteTurnCompleted
<1>19. CASE TurnFails
  BY <1>19 DEF TurnFails
<1>20. CASE StartAttempt
  BY <1>20 DEF StartAttempt
<1>21. CASE EnterCurrent
  BY <1>21 DEF EnterCurrent
<1>22. CASE ResetState \/ ResetTree
  BY <1>22 DEF ResetState, ResetTree
<1>23. CASE EvaluateValid \/ Commit \/ DecideStage
  BY <1>23 DEF EvaluateValid, Commit, DecideStage
<1>24. CASE Complete
  BY <1>24 DEF Complete
<1>25. CASE CompleteRefused
  BY <1>25 DEF CompleteRefused
<1>26. CASE NoticeCancel
  <2>1. CASE run.pc = "turn" /\ AfterTurn(FALSE)
    BY <1>26, <2>1 DEF NoticeCancel
  <2>2. CASE /\ run.pc \in {"prepare", "complete", "start", "evaluate"}
             /\ run' = [run EXCEPT !.pc = "cleanup"]
    BY <1>26, <2>2 DEF NoticeCancel
  <2> QED BY <1>26, <2>1, <2>2 DEF NoticeCancel
<1>27. CASE StepFails
  BY <1>27 DEF StepFails
<1>28. CASE Cleanup
  BY <1>28 DEF Cleanup
<1>29. CASE EndAttempt
  BY <1>29 DEF EndAttempt
<1>30. CASE RequestCancel \/ Crash
  BY <1>30 DEF RequestCancel, Crash
<1>31. CASE EnterFresh \/ EnterRemediate \/ EvaluateInvalid \/ DecideRemediate
  BY <1>31, OnwardSteps
<1> QED BY <1>1, <1>2, <1>3, <1>4, <1>5, <1>6, <1>7, <1>8, <1>9, <1>10, <1>11, <1>12, <1>13, <1>14, <1>15, <1>16, <1>17, <1>18, <1>19, <1>20, <1>21, <1>22, <1>23, <1>24, <1>25, <1>26, <1>27, <1>28, <1>29, <1>30, <1>31
  DEF Next, Review, Turn, Stage

\* A restoration knows what it has done.
LEMMA NextRestoring ==
  ASSUME IInv, Next
  PROVE  Restoring'
<1> USE Facts, OnlyRunning DEF IInv, Reached, Kept, Restoring, Runs, Snapshots, Checkpoints, Goto,
      Restore, At, Settled, InTurn, Reviewing, Callers, Idle, AfterRestore, AfterRollback,
      RestoreError, AfterTurn, Detached, Current, durable, job, counters, history
<1>1. CASE RestoreNothing
  BY <1>1 DEF RestoreNothing
<1>2. CASE RestoreImpossible \/ RestoreFails
  BY <1>2 DEF RestoreImpossible, RestoreFails
<1>3. CASE RestoreMarks
  <2>1. snap' \in Snapshots /\ run'.pc = "reset"
    BY <1>3 DEF RestoreMarks
  <2> QED BY <2>1, NoneIsNoRecord
<1>4. CASE RestoreResets
  BY <1>4 DEF RestoreResets
<1>5. CASE RestoreRefills
  BY <1>5 DEF RestoreRefills
<1>6. CASE RestoreUnchanged
  <2>1. /\ run'.pc = "drop" /\ ~run'.changed /\ UNCHANGED <<snap, tree, work>> /\ snap # None
        /\ tree = snap.tree
    BY <1>6 DEF RestoreUnchanged, SnapshotChanged
  <2> QED BY <2>1
<1>7. CASE DropIndex
  <2>1. snap' \in Snapshots
    BY <1>7 DEF DropIndex
  <2> QED BY <1>7, <2>1, NoneIsNoRecord DEF DropIndex
<1>8. CASE DropMetadata
  BY <1>8 DEF DropMetadata
<1>9. CASE Rollback
  BY <1>9 DEF Rollback
<1>10. CASE Prepare
  BY <1>10 DEF Prepare
<1>11. CASE Capture
  <2>1. snap' \in Snapshots /\ run'.pc = "save" 
    BY <1>11 DEF Capture, TypeOK
  <2> QED BY <2>1, NoneIsNoRecord
<1>12. CASE Save \/ SaveFails
  BY <1>12 DEF Save, SaveFails
<1>13. CASE StartTurn
  BY <1>13 DEF StartTurn
<1>14. CASE WriteAwaiting
  BY <1>14 DEF WriteAwaiting
<1>15. CASE CallTool
  BY <1>15 DEF CallTool
<1>16. CASE ChangeTree
  BY <1>16 DEF ChangeTree
<1>17. CASE FinishTurn
  BY <1>17 DEF FinishTurn
<1>18. CASE WriteTurnCompleted
  BY <1>18 DEF WriteTurnCompleted
<1>19. CASE TurnFails
  BY <1>19 DEF TurnFails
<1>20. CASE StartAttempt
  BY <1>20 DEF StartAttempt
<1>21. CASE EnterCurrent
  BY <1>21 DEF EnterCurrent
<1>22. CASE ResetState \/ ResetTree
  BY <1>22 DEF ResetState, ResetTree
<1>23. CASE EvaluateValid \/ Commit \/ DecideStage
  BY <1>23 DEF EvaluateValid, Commit, DecideStage
<1>24. CASE Complete
  BY <1>24 DEF Complete
<1>25. CASE CompleteRefused
  BY <1>25 DEF CompleteRefused
<1>26. CASE NoticeCancel
  <2>1. CASE run.pc = "turn" /\ AfterTurn(FALSE)
    BY <1>26, <2>1 DEF NoticeCancel
  <2>2. CASE /\ run.pc \in {"prepare", "complete", "start", "evaluate"}
             /\ run' = [run EXCEPT !.pc = "cleanup"]
    BY <1>26, <2>2 DEF NoticeCancel
  <2> QED BY <1>26, <2>1, <2>2 DEF NoticeCancel
<1>27. CASE StepFails
  BY <1>27 DEF StepFails
<1>28. CASE Cleanup
  BY <1>28 DEF Cleanup
<1>29. CASE EndAttempt
  BY <1>29 DEF EndAttempt
<1>30. CASE RequestCancel \/ Crash
  BY <1>30 DEF RequestCancel, Crash
<1>31. CASE EnterFresh \/ EnterRemediate \/ EvaluateInvalid \/ DecideRemediate
  BY <1>31, OnwardSteps
<1> QED BY <1>1, <1>2, <1>3, <1>4, <1>5, <1>6, <1>7, <1>8, <1>9, <1>10, <1>11, <1>12, <1>13, <1>14, <1>15, <1>16, <1>17, <1>18, <1>19, <1>20, <1>21, <1>22, <1>23, <1>24, <1>25, <1>26, <1>27, <1>28, <1>29, <1>30, <1>31
  DEF Next, Review, Turn, Stage

\* The job begins with an empty document and the base revision.
LEMMA InitInv == Init => IInv
<1> SUFFICES ASSUME Init PROVE IInv
  OBVIOUS
<1>1. TypeOK
  <2>1. run \in Runs /\ doc \in Documents
    BY IdleTyped, DefaultTyped DEF Init
  <2>2. 0 \in 0..LastOrdinal /\ MaxAttempts[0] \in Nat \ {0} /\ MaxFaults \in Nat
    BY StageLoopAssumption
  <2>3. /\ ord \in 0..LastOrdinal /\ attempts \in 0..MaxAttempts[ord] /\ faults \in 0..MaxFaults
        /\ done \subseteq 1..turns /\ mutators \subseteq 1..turns /\ work \in 0..turns
    BY <2>2 DEF Init
  <2> QED BY <2>1, <2>3 DEF Init, TypeOK, Runs
<1>2. Reached
  BY StageLoopAssumption DEF Init, Reached, Idle
<1>3. Kept /\ Restoring
  BY DEF Init, Kept, Restoring, Idle, Settled, InTurn, Reviewing
<1> QED BY <1>1, <1>2, <1>3 DEF IInv

\* The inductive invariant holds throughout.
THEOREM Invariant == Spec => []IInv
<1>1. IInv /\ UNCHANGED vars => IInv'
  BY DEF IInv, TypeOK, Reached, Kept, Restoring, vars
<1>2. IInv /\ Next => IInv'
  BY NextTyped, NextReached, NextKept, NextRestoring DEF IInv
<1> QED BY InitInv, <1>1, <1>2, PTL DEF Spec

\* At every point of a detached review and of its recovery, whatever fails and
\* wherever the process dies, what was implemented is in the worktree or in the
\* snapshot, and a report is judged only in the worktree that was reviewed.
THEOREM ReviewInvariant == Spec => []ReviewInv
<1>1. IInv => ReviewInv
  BY DEF IInv, Kept, InTurn, Settled, ReviewInv, WorkIsNeverLost, NoSnapshotWhileImplementing,
         JudgedInCleanTree
<1> QED BY Invariant, <1>1, PTL

-----------------------------------------------------------------------------
(* Cancellation.                                                           *)

\* The first two stages know no rollback point, a finished restoration leaves
\* none, and no stage but an iteration is cancelled with one.
Unmarked ==
    /\ ord < 2 => doc.recovery = None /\ (cache # None => cache.recovery = None)
    /\ run.pc = "drop" /\ run.changed => doc.recovery = None
    /\ Kind(ord) # "iterate" /\ (status = "cancelled" \/ (run.pc = "ended" /\ run.ok)) => doc.recovery = None

\* No tool touches the rollback point.
LEMMA ToolKeepsRecovery ==
  ASSUME cache \in Documents, Tool
  PROVE  cache'.recovery = cache.recovery /\ doc'.recovery = cache.recovery
BY DEF Tool, SaveCached, Updated, Decompose, Progress, RecordReview, Remediate, Documents

\* A rolled back document has none.
LEMMA RolledBack ==
  ASSUME NEW d \in Documents
  PROVE  RollbackReview(d).recovery = None
BY DEF RollbackReview, Documents

\* No step of the first two stages makes a rollback point.
LEMMA EarlyUnmarked ==
  ASSUME IInv, Next, Unmarked, ord' < 2
  PROVE  doc'.recovery = None /\ (cache' # None => cache'.recovery = None)
<1>0. ord < 2 /\ doc \in Documents /\ cache \in Documents \cup {None} /\ ord \in Nat
  <2>1. ord < 2
    BY Writers DEF Complete, EndAttempt, IInv, TypeOK
  <2> QED BY <2>1 DEF IInv, TypeOK
<1>1. ~Detached(Kind(ord))
  BY <1>0, KindOf DEF Detached
<1>2. CASE doc' = doc /\ cache' \in {cache, None, doc}
  BY <1>0, <1>2 DEF Unmarked
<1>3. CASE /\ doc' \in {RollbackReview(doc), DefaultState, CommitReview(doc)}
           /\ cache' = cache
  BY <1>0, <1>3, RolledBack DEF Unmarked, DefaultState, CommitReview, Documents
<1>4. CASE CallTool
  <2>1. cache \in Documents
    BY <1>0, <1>4 DEF CallTool, IInv, Reached
  <2> QED BY <1>0, <1>4, <2>1, ToolKeepsRecovery DEF CallTool, Unmarked, IInv, Reached
<1>5. ~Save
  BY <1>1 DEF Save, At, IInv, Kept, Reviewing
<1> QED BY <1>2, <1>3, <1>4, <1>5, Writers

\* The places that only a few steps lead to: the removal of a snapshot, the end
\* of the attempt, and what follows a judgement.
Late == {"drop", "ended", "commit", "decide", "complete"}

\* Which steps those are.
LEMMA Enters ==
  ASSUME IInv, Next
  PROVE  /\ run'.pc = "drop" => RequestCancel \/ DropIndex \/ RestoreUnchanged \/ Rollback
         /\ run'.pc = "ended" =>
                RequestCancel \/ DropMetadata \/ Rollback \/ ResetTree \/ Cleanup \/ StepFails
         /\ run'.pc = "commit" => RequestCancel \/ EvaluateValid
         /\ run'.pc = "decide" => RequestCancel \/ Commit
         /\ run'.pc = "complete" => RequestCancel \/ DecideStage \/ DecideRemediate \/ EnterRemediate
<1> USE Facts DEF At, Goto, Restore, AfterTurn, Runs, Late
<1>1. CASE Review
  <2>1. CASE RestoreNothing \/ RestoreRefills
    <3>1. AfterRestore(TRUE) \notin Late /\ AfterRestore(FALSE) \notin Late
      BY AfterRestoreTyped
    <3> QED BY <2>1, <3>1 DEF RestoreNothing, RestoreRefills
  <2>2. CASE RestoreImpossible \/ RestoreFails
    BY <2>2 DEF RestoreImpossible, RestoreFails, RestoreError
  <2>3. CASE RestoreMarks \/ RestoreResets \/ Prepare \/ Capture \/ Save \/ SaveFails
    BY <2>3 DEF RestoreMarks, RestoreResets, Prepare, Capture, Save, SaveFails
  <2>4. CASE RestoreUnchanged \/ DropIndex \/ DropMetadata \/ Rollback
    <3>1. CASE DropMetadata
      <4>1. run.changed => AfterRollback \in {"enter", "cleanup", "ended"}
        BY <3>1, AfterRollbackTyped DEF DropMetadata, IInv, Restoring
      <4>2. AfterRestore(FALSE) \notin Late
        BY AfterRestoreTyped
      <4> QED BY <3>1, <4>1, <4>2 DEF DropMetadata
    <3>2. CASE RestoreUnchanged \/ DropIndex
      BY <3>2 DEF RestoreUnchanged, DropIndex
    <3>3. CASE Rollback
      <4>1. AfterRollback \in {"enter", "cleanup", "ended"}
        BY <3>3, AfterRollbackTyped DEF Rollback, IInv, Restoring
      <4> QED BY <3>3, <4>1 DEF Rollback
    <3> QED BY <2>4, <3>1, <3>2, <3>3
  <2> QED BY <1>1, <2>1, <2>2, <2>3, <2>4 DEF Review
<1>2. CASE Turn
  BY <1>2 DEF Turn, StartTurn, WriteAwaiting, CallTool, ChangeTree, FinishTurn, WriteTurnCompleted, TurnFails
<1>3. CASE Stage
  <2>1. CASE EnterFresh \/ EnterRemediate \/ EvaluateInvalid \/ DecideRemediate
    <3>1. \A role, cycle, base : Begin(role, cycle, base) => run'.pc \notin Late
      BY FirstStepTyped DEF Begin
    <3>2. CASE EnterFresh
      BY <3>1, <3>2 DEF EnterFresh
    <3>3. CASE EnterRemediate
      BY <3>1, <3>3 DEF EnterRemediate
    <3>4. CASE EvaluateInvalid
      <4>1. run'.pc \in {FirstStep(run.role), "cleanup"}
        BY <3>4 DEF EvaluateInvalid
      <4> QED BY <4>1, FirstStepTyped
    <3>5. CASE DecideRemediate
      BY <3>1, <3>5 DEF DecideRemediate
    <3> QED BY <2>1, <3>2, <3>3, <3>4, <3>5
  <2>2. CASE StartAttempt \/ EnterCurrent \/ ResetState \/ EvaluateValid \/ Commit \/ DecideStage
    BY <2>2 DEF StartAttempt, EnterCurrent, ResetState, EvaluateValid, Commit, DecideStage, Idle
  <2>3. CASE Complete \/ CompleteRefused \/ NoticeCancel \/ EndAttempt
    <3>1. CASE NoticeCancel
      BY <3>1 DEF NoticeCancel
    <3>2. CASE Complete \/ CompleteRefused \/ EndAttempt
      BY <3>2 DEF Complete, CompleteRefused, EndAttempt, Idle
    <3> QED BY <2>3, <3>1, <3>2
  <2>4. CASE ResetTree \/ Cleanup \/ StepFails
    BY <2>4 DEF ResetTree, Cleanup, StepFails
  <2> QED BY <1>3, <2>1, <2>2, <2>3, <2>4 DEF Stage
<1>4. CASE RequestCancel \/ Crash
  BY <1>4 DEF RequestCancel, Crash, Idle
<1> QED BY <1>1, <1>2, <1>3, <1>4 DEF Next

\* A rollback point goes with the restoration of the worktree.
LEMMA NextUnmarked ==
  ASSUME IInv, Next, Unmarked
  PROVE  Unmarked'
<1> USE DEF At, Goto, durable, job
<1>0. run \in Runs /\ doc \in Documents /\ ord \in Nat /\ status = "running"
  BY OnlyRunning DEF IInv, TypeOK, Runs
<1>1. ord' < 2 => doc'.recovery = None /\ (cache' # None => cache'.recovery = None)
  BY EarlyUnmarked
<1>2. CASE run' = Idle
  <2>1. status' = "cancelled" => EndAttempt /\ run.ok
    BY <1>0, Writers DEF Complete, EndAttempt
  <2>2. EndAttempt => doc' = doc /\ ord' = ord
    BY DEF EndAttempt
  <2> QED BY <1>0, <1>1, <1>2, <2>1, <2>2 DEF Unmarked, Idle, EndAttempt
<1>3. CASE run' # Idle
  <2>1. UNCHANGED <<ord, status>>
    BY <1>3, Writers DEF Complete, EndAttempt
  <2>2. run'.pc = "drop" /\ run'.changed => doc'.recovery = None
    <3> SUFFICES ASSUME run'.pc = "drop", run'.changed PROVE doc'.recovery = None
      OBVIOUS
    <3>1. CASE RequestCancel \/ DropIndex
      BY <3>1 DEF RequestCancel, DropIndex, Unmarked
    <3>2. CASE RestoreUnchanged
      BY <1>0, <3>2 DEF RestoreUnchanged, Runs
    <3>3. CASE Rollback
      BY <1>0, <3>3, RolledBack DEF Rollback
    <3> QED BY <3>1, <3>2, <3>3, Enters
  <2>3. Kind(ord) # "iterate" /\ run'.pc = "ended" /\ run'.ok => doc'.recovery = None
    <3> SUFFICES ASSUME Kind(ord) # "iterate", run'.pc = "ended", run'.ok PROVE doc'.recovery = None
      OBVIOUS
    <3>1. CASE RequestCancel
      BY <3>1 DEF RequestCancel, Unmarked
    <3>2. CASE DropMetadata
      <4>1. run.changed
        BY <1>0, <3>2, AfterRestoreTyped DEF DropMetadata, Runs
      <4> QED BY <3>2, <4>1 DEF DropMetadata, Unmarked
    <3>3. CASE Rollback
      BY <1>0, <3>3, RolledBack DEF Rollback
    <3>4. CASE ResetTree
      BY <1>0, <3>4, KindOf DEF ResetTree, IInv, Kept, Unmarked
    <3>5. CASE Cleanup
      <4>1. ~Detached(Kind(ord)) /\ Kind(ord) # "plan" /\ doc' = doc
        BY <1>0, <3>5 DEF Cleanup, Detached, Runs
      <4>2. Kind(ord) = "execute"
        BY <1>0, <4>1, KindOf DEF Detached, Kinds
      <4>3. ord < 2
        BY <1>0, <4>2 DEF Kind
      <4> QED BY <4>1, <4>3 DEF Unmarked
    <3>6. CASE StepFails
      BY <1>0, <3>6 DEF StepFails, Runs
    <3> QED BY <3>1, <3>2, <3>3, <3>4, <3>5, <3>6, Enters
  <2> QED BY <1>0, <1>1, <2>1, <2>2, <2>3 DEF Unmarked
<1> QED BY <1>2, <1>3

\* A job is cancelled with the worktree as its turns left it, no snapshot, and
\* except in an iteration no rollback point, whatever was running when the
\* cancellation came (cleanup_cancelled_operation).
THEOREM CancelledJobsAreClean == Spec => []CancelledIsClean
<1>1. Init => Unmarked
  BY DEF Init, Unmarked, DefaultState, Idle
<1>2. Unmarked /\ UNCHANGED vars => Unmarked'
  BY DEF Unmarked, vars
<1>3. IInv /\ Unmarked => CancelledIsClean
  BY DEF IInv, Kept, Unmarked, CancelledIsClean
<1> QED BY <1>1, <1>2, <1>3, NextUnmarked, Invariant, PTL DEF Spec

-----------------------------------------------------------------------------
(* The plan.                                                               *)

\* While a job plans, its turns are those of a stage, what was judged valid is
\* a plan, and what completes is one in the base revision.
Planned ==
    ord = 0 =>
        /\ run.role = "stage"
        /\ cp # None => cp.ord = 0 /\ cp.role = "stage"
        /\ run.pc \in {"commit", "decide", "complete"} => ValidatePlan(doc)
        /\ run.pc = "complete" => tree = 0

\* The stages only go up.
LEMMA StagesGoUp ==
  ASSUME IInv, Next
  PROVE  ord' = ord \/ (ord' = ord + 1 /\ Complete)
BY Writers DEF Complete, EndAttempt

\* Who a turn is run for changes only where a turn begins.
LEMMA RoleSteps ==
  ASSUME IInv, Next
  PROVE  \/ run'.role = run.role
         \/ run'.role = "stage"
         \/ EnterCurrent \/ EnterFresh \/ EnterRemediate \/ DecideRemediate
<1> USE Facts DEF At, Goto, Restore, AfterTurn, Runs
<1>1. CASE Review
  BY <1>1 DEF Review, RestoreNothing, RestoreImpossible, RestoreFails, RestoreMarks, RestoreResets,
       RestoreRefills, RestoreUnchanged, DropIndex, DropMetadata, Rollback, Prepare, Capture, Save,
       SaveFails, RestoreError
<1>2. CASE Turn
  BY <1>2 DEF Turn, StartTurn, WriteAwaiting, CallTool, ChangeTree, FinishTurn, WriteTurnCompleted, TurnFails
<1>3. CASE Stage
  <2>1. CASE EvaluateInvalid \/ NoticeCancel \/ StepFails \/ Cleanup
    <3>1. CASE EvaluateInvalid
      BY <3>1 DEF EvaluateInvalid
    <3>2. CASE NoticeCancel
      BY <3>2 DEF NoticeCancel
    <3>3. CASE StepFails \/ Cleanup
      BY <3>3 DEF StepFails, Cleanup
    <3> QED BY <2>1, <3>1, <3>2, <3>3
  <2>2. CASE StartAttempt \/ ResetState \/ ResetTree \/ EvaluateValid \/ Commit \/ DecideStage
    BY <2>2 DEF StartAttempt, ResetState, ResetTree, EvaluateValid, Commit, DecideStage, Idle
  <2>3. CASE Complete \/ CompleteRefused \/ EndAttempt
    BY <2>3 DEF Complete, CompleteRefused, EndAttempt, Idle
  <2> QED BY <1>3, <2>1, <2>2, <2>3 DEF Stage
<1>4. CASE RequestCancel \/ Crash
  BY <1>4 DEF RequestCancel, Crash, Idle
<1> QED BY <1>1, <1>2, <1>3, <1>4 DEF Next

\* A plan stays one until it completes.
LEMMA NextPlanned ==
  ASSUME IInv, Next, Planned
  PROVE  Planned'
<1> USE DEF At, Goto, durable, job
<1> SUFFICES ASSUME ord' = 0
             PROVE  /\ run'.role = "stage"
                    /\ cp' # None => cp'.ord = 0 /\ cp'.role = "stage"
                    /\ run'.pc \in {"commit", "decide", "complete"} => ValidatePlan(doc)'
                    /\ run'.pc = "complete" => tree' = 0
  BY DEF Planned
<1>0. ord = 0 /\ Kind(ord) = "plan" /\ run \in Runs /\ cp \in Checkpoints \cup {None}
  <2>1. ord = 0
    BY StagesGoUp, Facts
  <2> QED BY <2>1, Facts
<1>1. run'.role = "stage"
  BY <1>0, RoleSteps DEF Planned, EnterCurrent, Current, EnterFresh, EnterRemediate, DecideRemediate, Begin, Runs
<1>2. cp' # None => cp'.ord = 0 /\ cp'.role = "stage"
  <2>1. CASE WriteAwaiting
    BY <1>0, <2>1 DEF WriteAwaiting, Planned
  <2>2. CASE WriteTurnCompleted \/ Complete
    <3>1. cp \in Checkpoints /\ cp.ord = 0 /\ cp.role = "stage" /\ run.role = "stage"
      BY <1>0, <2>2 DEF WriteTurnCompleted, Complete, Planned, IInv, Reached
    <3>2. CASE WriteTurnCompleted
      BY <3>1, <3>2 DEF WriteTurnCompleted, Checkpoints
    <3>3. CASE Complete
      BY <1>0, <3>1, <3>3 DEF Complete, Checkpoints
    <3> QED BY <2>2, <3>2, <3>3
  <2>3. CASE cp' = cp
    BY <1>0, <2>3 DEF Planned
  <2> QED BY <2>1, <2>2, <2>3, Writers
<1>3. run'.pc = "commit" => ValidatePlan(doc)'
  <2>1. EvaluateValid => ValidatePlan(doc)'
    BY <1>0 DEF EvaluateValid, Judged, ValidCheckpoint, Planned, ValidatePlan, IInv, Reached
  <2> QED BY <1>0, <2>1, Enters DEF RequestCancel, Planned, ValidatePlan
<1>4. run'.pc = "decide" => ValidatePlan(doc)'
  <2>1. Commit => doc' = doc /\ ValidatePlan(doc)
    BY <1>0 DEF Commit, Planned
  <2> QED BY <1>0, <2>1, Enters DEF RequestCancel, Planned, ValidatePlan
<1>5. run'.pc = "complete" => ValidatePlan(doc)' /\ tree' = 0
  <2>1. DecideStage /\ run'.pc = "complete" => doc' = doc /\ tree' = tree /\ ValidatePlan(doc) /\ tree = 0
    BY <1>0 DEF DecideStage, Planned, Runs
  <2> QED BY <1>0, <2>1, Enters DEF RequestCancel, Planned, ValidatePlan, DecideRemediate, EnterRemediate
<1> QED BY <1>1, <1>2, <1>3, <1>4, <1>5

\* A plan that completes has changed nothing but the document: execution begins
\* in the base revision with every unit pending.
THEOREM PlansArePure == Spec => PlanIsPure
<1>1. Init => Planned
  BY DEF Init, Planned, Idle
<1>2. Planned /\ UNCHANGED vars => Planned'
  BY DEF Planned, ValidatePlan, vars
<1>3. IInv /\ Planned /\ [Next]_vars =>
        [ord = 0 /\ ord' = 1 => tree = 0 /\ ValidatePlan(doc) /\ doc' = doc]_vars
  <2> SUFFICES ASSUME IInv, Planned, Next, ord = 0, ord' = 1
               PROVE  tree = 0 /\ ValidatePlan(doc) /\ doc' = doc
    BY DEF vars
  <2>1. Complete
    BY StagesGoUp
  <2> QED BY <2>1 DEF Complete, At, Planned
<1> QED BY <1>1, <1>2, <1>3, NextPlanned, Invariant, PTL DEF Spec, PlanIsPure

-----------------------------------------------------------------------------
(* The order of the turns of a stage.                                      *)

\* The attempt is at the turn that the checkpoint records, or about to begin it
\* again or the one after it.
Matches == cp.ord = ord /\ cp.role = run.role /\ cp.cycle = run.cycle
Follows == cp # None /\ cp.ord = ord => Position(run) \in {Position(cp), Position(cp) + 1}
Beginning ==
    \/ run.pc \in {"prepare", "capture", "save", "start", "await"}
    \/ run.pc \in {"resetState", "resetTree"} /\ run.caller # "cleanup"
    \/ run.pc \in {"restore", "drop"} /\ run.caller = "capture"

Ordered ==
    /\ run.cycle <= MaxReviewCycles
    /\ cp # None => /\ cp.cycle <= MaxReviewCycles /\ cp.ord <= ord
                    /\ Kind(cp.ord) = "remediate" => cp.role # "stage"
    /\ run.pc \in {"turn", "finished", "evaluate", "commit", "decide"} => Matches
    /\ (run.pc = "restore" \/ (run.pc = "drop" /\ ~run.changed)) /\ run.caller = "turn" /\ run.ok => Matches
    /\ run.pc = "complete" /\ cp.ord = ord => Matches
    /\ Beginning => Follows /\ (Kind(ord) = "remediate" => run.role # "stage")
    /\ run.pc = "complete" /\ Kind(ord) = "remediate" => run.role # "stage"

\* Where a turn begins, it is the one after the checkpoint's or that one again.
LEMMA BeginOrdered ==
  ASSUME IInv, Ordered, NEW role, NEW cycle \in Nat, NEW base, Begin(role, cycle, base),
         UNCHANGED <<cp, ord>>, cycle <= MaxReviewCycles,
         Kind(ord) = "remediate" => role # "stage",
         cp # None /\ cp.ord = ord =>
             2 * cycle + (IF role = "review" THEN 1 ELSE 0) \in {Position(cp), Position(cp) + 1}
  PROVE  Ordered'
<1>1. /\ run'.pc \in {"resetState", "prepare", "start"}
      /\ run'.role = role /\ run'.cycle = cycle
  BY Facts, FirstStepTyped DEF Begin, Runs
<1>2. Position(run') = 2 * cycle + (IF role = "review" THEN 1 ELSE 0)
  BY <1>1 DEF Position
<1>3. Follows'
  BY <1>2 DEF Follows, Position
<1> QED BY <1>1, <1>3 DEF Ordered, Beginning

\* The checkpoint and the turn that runs stay in step.
LEMMA NextOrdered ==
  ASSUME IInv, Next, Ordered
  PROVE  Ordered'
<1> USE Facts DEF IInv, Reached, Restoring, Runs, Checkpoints, Ordered, Matches, Follows, Beginning, Position,
      Goto, Restore, At, Callers, Idle, AfterRestore, AfterRollback, RestoreError, AfterTurn, Current,
      durable, job, counters, history
<1>1. CASE RestoreNothing
  BY <1>1 DEF RestoreNothing
<1>2. CASE RestoreImpossible \/ RestoreFails
  BY <1>2 DEF RestoreImpossible, RestoreFails
<1>3. CASE RestoreMarks \/ RestoreResets
  BY <1>3 DEF RestoreMarks, RestoreResets
<1>4. CASE RestoreRefills
  BY <1>4 DEF RestoreRefills
<1>5. CASE RestoreUnchanged \/ DropIndex
  <2>1. CASE RestoreUnchanged
    BY <2>1 DEF RestoreUnchanged
  <2>2. CASE DropIndex
    BY <2>2 DEF DropIndex
  <2> QED BY <1>5, <2>1, <2>2
<1>6. CASE DropMetadata
  BY <1>6 DEF DropMetadata
<1>7. CASE Rollback
  BY <1>7 DEF Rollback
<1>8. CASE Prepare \/ Capture \/ Save \/ SaveFails
  <2>1. /\ run'.pc \in {"restore", "save", "start"} /\ run'.role = run.role /\ run'.cycle = run.cycle
        /\ run'.pc = "restore" => run'.caller \in {"capture", "save"}
        /\ UNCHANGED <<cp, ord>>
    BY <1>8 DEF Prepare, Capture, Save, SaveFails
  <2>2. Follows /\ (Kind(ord) = "remediate" => run.role # "stage")
    BY <1>8 DEF Prepare, Capture, Save, SaveFails
  <2> QED BY <2>1, <2>2
<1>9. CASE StartTurn
  BY <1>9 DEF StartTurn
<1>10. CASE WriteAwaiting
  BY <1>10 DEF WriteAwaiting
<1>11. CASE CallTool \/ ChangeTree \/ FinishTurn
  BY <1>11 DEF CallTool, ChangeTree, FinishTurn
<1>12. CASE WriteTurnCompleted
  BY <1>12 DEF WriteTurnCompleted
<1>13. CASE TurnFails
  BY <1>13 DEF TurnFails
<1>14. CASE StartAttempt
  <2>1. /\ run'.cycle = 0 /\ run'.caller = "start" /\ run'.pc \in {"cleanup", "restore", "enter"}
        /\ UNCHANGED <<cp, ord>>
    BY <1>14 DEF StartAttempt
  <2> QED BY <2>1, StageLoopAssumption
<1>15. CASE EnterCurrent
  BY <1>15 DEF EnterCurrent
<1>16. CASE EnterFresh
  <2>1. ~(cp # None /\ cp.ord = ord) /\ UNCHANGED <<cp, ord>> /\ Kind(ord) # "remediate"
    BY <1>16 DEF EnterFresh
  <2>2. PICK role, base : Begin(role, 0, base)
    BY <1>16 DEF EnterFresh
  <2> QED BY <2>1, <2>2, StageLoopAssumption, BeginOrdered
<1>17. CASE EnterRemediate
  <2>1. ~(cp # None /\ cp.ord = ord) /\ UNCHANGED <<cp, ord>>
    BY <1>17 DEF EnterRemediate
  <2>2. CASE Begin("remediation", 1, RevisionBase)
    BY <2>1, <2>2, StageLoopAssumption, BeginOrdered
  <2>3. CASE run'.pc \in {"complete", "cleanup"} /\ run'.role = "review" /\ run'.cycle = 1
    BY <1>17, <2>1, <2>3, StageLoopAssumption DEF EnterRemediate
  <2> QED BY <1>17, <2>2, <2>3 DEF EnterRemediate
<1>18. CASE ResetState \/ ResetTree
  BY <1>18 DEF ResetState, ResetTree
<1>19. CASE EvaluateValid \/ Commit \/ DecideStage
  BY <1>19 DEF EvaluateValid, Commit, DecideStage
<1>20. CASE EvaluateInvalid
  <2>1. Matches /\ cp # None /\ cp.cycle \in Nat /\ UNCHANGED <<cp, ord>>
    BY <1>20 DEF EvaluateInvalid
  <2>2. /\ run'.role = run.role /\ run'.cycle = run.cycle
        /\ run'.pc \in {"resetState", "prepare", "start", "cleanup"}
    <3>1. CASE run.mayRerun
      <4>1. FirstStep(run.role) \in {"resetState", "prepare", "start"}
        BY FirstStepTyped
      <4> QED BY <1>20, <3>1, <4>1 DEF EvaluateInvalid
    <3>2. CASE ~run.mayRerun
      BY <1>20, <3>2 DEF EvaluateInvalid
    <3> QED BY <3>1, <3>2
  <2> QED BY <2>1, <2>2
<1>21. CASE DecideRemediate
  <2>1. Matches /\ run.role \in {"review", "remediation"} /\ cp # None /\ cp.cycle \in Nat /\ UNCHANGED <<cp, ord>>
    BY <1>21 DEF DecideRemediate, Roles
  <2>2. CASE run' = [run EXCEPT !.pc = "complete"]
    BY <1>21, <2>1, <2>2
  <2>3. CASE run' = [run EXCEPT !.pc = "cleanup", !.terminal = TRUE]
    BY <2>1, <2>3
  <2>4. CASE run.role = "remediation" /\ Begin("review", run.cycle, ReviewBase)
    BY <2>1, <2>4, BeginOrdered
  <2>5. CASE run.role = "review" /\ run.cycle < MaxReviewCycles /\ Begin("remediation", run.cycle + 1, RevisionBase)
    <3>1. run.cycle + 1 \in Nat /\ run.cycle + 1 <= MaxReviewCycles
      BY <2>5, StageLoopAssumption
    <3>2. 2 * (run.cycle + 1) = Position(cp) + 1
      BY <2>1, <2>5
    <3> QED BY <2>1, <2>5, <3>1, <3>2, BeginOrdered
  <2> QED BY <1>21, <2>1, <2>2, <2>3, <2>4, <2>5, StageLoopAssumption DEF DecideRemediate
<1>22. CASE Complete
  <2>1. cp \in Checkpoints /\ run' = Idle /\ ord \in Nat /\ ord' \in {ord, ord + 1}
    BY <1>22 DEF Complete
  <2>2. cp'.ord = ord /\ cp'.role = run.role /\ cp'.cycle = run.cycle
    BY <1>22, <2>1 DEF Complete
  <2>3. run.role # "stage" \/ Kind(ord) # "remediate"
    BY <1>22 DEF Complete
  <2> QED BY <2>1, <2>2, <2>3, StageLoopAssumption
<1>23. CASE CompleteRefused \/ EndAttempt \/ Crash
  BY <1>23, StageLoopAssumption DEF CompleteRefused, EndAttempt, Crash
<1>24. CASE NoticeCancel
  <2>1. CASE run.pc = "turn" /\ AfterTurn(FALSE)
    BY <1>24, <2>1 DEF NoticeCancel
  <2>2. CASE run' = [run EXCEPT !.pc = "cleanup"]
    BY <1>24, <2>2 DEF NoticeCancel
  <2> QED BY <1>24, <2>1, <2>2 DEF NoticeCancel
<1>25. CASE StepFails
  BY <1>25 DEF StepFails
<1>26. CASE Cleanup
  BY <1>26 DEF Cleanup
<1>27. CASE RequestCancel
  BY <1>27 DEF RequestCancel
<1> QED BY <1>1, <1>2, <1>3, <1>4, <1>5, <1>6, <1>7, <1>8, <1>9, <1>10, <1>11, <1>12, <1>13, <1>14, <1>15, <1>16, <1>17, <1>18, <1>19, <1>20, <1>21, <1>22, <1>23, <1>24, <1>25, <1>26, <1>27
  DEF Next, Review, Turn, Stage

\* The checkpoints of a stage only alternate repair and review, over all its
\* attempts and recoveries, in no more than max_review_cycles cycles.
THEOREM CyclesAreInOrder == Spec => CyclesInOrder
<1>1. Init => Ordered
  BY StageLoopAssumption DEF Init, Ordered, Beginning, Idle
<1>2. Ordered /\ UNCHANGED vars => Ordered'
  BY DEF Ordered, Beginning, Matches, Follows, Position, vars
<1>3. IInv /\ Ordered /\ [Next]_vars =>
        [cp' # None /\ cp' # cp =>
           /\ cp'.cycle <= MaxReviewCycles
           /\ cp # None /\ cp'.ord = cp.ord =>
                  Position(cp') \in {Position(cp), Position(cp) + 1}]_vars
  <2> SUFFICES ASSUME IInv, Ordered, Next, cp' # None, cp' # cp
               PROVE  /\ cp'.cycle <= MaxReviewCycles
                      /\ cp # None /\ cp'.ord = cp.ord =>
                             Position(cp') \in {Position(cp), Position(cp) + 1}
    BY DEF vars
  <2>1. CASE WriteAwaiting
    <3>1. cp'.ord = ord /\ cp'.role = run.role /\ cp'.cycle = run.cycle
      BY <2>1 DEF WriteAwaiting
    <3>2. Follows
      BY <2>1 DEF WriteAwaiting, At, Ordered, Beginning
    <3> QED BY <3>1, <3>2 DEF Ordered, Follows, Position
  <2>2. CASE WriteTurnCompleted
    <3>1. cp \in Checkpoints
      BY <2>2, Facts DEF WriteTurnCompleted, At, IInv, Reached
    <3>2. cp'.role = cp.role /\ cp'.cycle = cp.cycle
      BY <2>2, <3>1 DEF WriteTurnCompleted, Checkpoints
    <3> QED BY <3>1, <3>2, NoneIsNoRecord DEF Ordered, Position, Checkpoints
  <2>3. CASE Complete
    <3>1. cp \in Checkpoints
      BY <2>3, Facts DEF Complete, At, IInv, Reached
    <3>2. cp'.ord = ord /\ cp'.role = run.role /\ cp'.cycle = run.cycle
      BY <2>3, <3>1 DEF Complete, Checkpoints
    <3>3. cp.ord = ord => Matches
      BY <2>3 DEF Complete, At, Ordered
    <3> QED BY <3>1, <3>2, <3>3 DEF Ordered, Matches, Position, Checkpoints
  <2> QED BY <2>1, <2>2, <2>3, Writers
<1> QED BY <1>1, <1>2, <1>3, NextOrdered, Invariant, PTL DEF Spec, CyclesInOrder

-----------------------------------------------------------------------------
(* Whose turn it is.                                                       *)

\* Every turn of a review stage is a review.
Roled ==
    /\ cp # None /\ Kind(cp.ord) = "review" => cp.role = "review"
    /\ Kind(ord) = "review" /\ run.pc \in InTurn \cup {"evaluate", "commit", "decide", "complete"} => run.role = "review"

\* Every step leaves the turns of a review stage reviews.
LEMMA ReviewRole ==
  ASSUME IInv, Next, Ordered, Roled, Kind(ord) = "review", ord' = ord,
         run'.pc \in InTurn \cup {"evaluate", "commit", "decide", "complete"}
  PROVE  run'.role = "review"
<1>0. Kind(ord) = "review" /\ run \in Runs /\ cp \in Checkpoints
  BY Facts DEF Detached
<1>1. Matches => run.role = "review"
  BY <1>0, NoneIsNoRecord DEF Matches, Roled
<1>2. run.pc \in InTurn \cup {"evaluate", "commit", "decide", "complete", "prepare", "capture", "save"} =>
        run.role = "review"
  BY DEF Roled, IInv, Kept
<1> USE <1>0 DEF At, Goto, Restore, AfterTurn, Runs, InTurn
<1>3. CASE Review
  <2>1. CASE RestoreNothing
    <3>1. run'.pc = AfterRestore(FALSE) /\ run'.role = run.role
      BY <2>1 DEF RestoreNothing
    <3>2. run.pc = "restore" /\ run.caller = "turn" /\ run.ok
      BY <2>1, <3>1 DEF AfterRestore, Callers, RestoreNothing
    <3> QED BY <1>1, <3>1, <3>2 DEF Ordered
  <2>2. CASE DropMetadata
    <3>1. run'.role = run.role /\ run.pc = "drop"
      BY <2>2 DEF DropMetadata
    <3>2. ~run.changed
      <4>1. run.changed => AfterRollback \in {"enter", "cleanup", "ended"}
        BY <2>2, AfterRollbackTyped DEF DropMetadata, IInv, Restoring
      <4> QED BY <2>2, <4>1 DEF DropMetadata
    <3>3. run.caller = "turn" /\ run.ok
      BY <2>2, <3>2 DEF DropMetadata, AfterRestore, Callers
    <3> QED BY <1>1, <3>1, <3>2, <3>3 DEF Ordered
  <2>3. CASE Save
    BY <1>2, <2>3 DEF Save
  <2>4. ~RestoreRefills
    BY DEF RestoreRefills, AfterRestore, Callers
  <2>5. ~Rollback
    <3>1. At("rollback") => AfterRollback \in {"enter", "cleanup", "ended"}
      BY AfterRollbackTyped DEF IInv, Restoring
    <3> QED BY <3>1 DEF Rollback
  <2>6. ~RestoreImpossible /\ ~RestoreFails /\ ~RestoreMarks /\ ~RestoreResets /\ ~RestoreUnchanged
        /\ ~DropIndex /\ ~Prepare /\ ~Capture /\ ~SaveFails
    BY DEF RestoreImpossible, RestoreFails, RestoreMarks, RestoreResets, RestoreUnchanged, DropIndex, Prepare,
           Capture, SaveFails, RestoreError
  <2> QED BY <1>3, <2>1, <2>2, <2>3, <2>4, <2>5, <2>6 DEF Review
<1>4. CASE Turn
  BY <1>2, <1>4 DEF Turn, StartTurn, WriteAwaiting, CallTool, ChangeTree, FinishTurn, WriteTurnCompleted, TurnFails
<1>5. CASE Stage
  <2>1. CASE EnterCurrent
    BY <2>1 DEF EnterCurrent, Roled, Current
  <2>2. CASE EnterFresh
    BY <2>2 DEF EnterFresh, Begin
  <2>3. CASE EvaluateValid \/ Commit \/ DecideStage
    BY <1>2, <2>3 DEF EvaluateValid, Commit, DecideStage
  <2>4. CASE EvaluateInvalid
    BY <1>2, <2>4 DEF EvaluateInvalid
  <2>5. ~EnterRemediate /\ ~DecideRemediate /\ ~ResetTree /\ ~ResetState
    BY DEF EnterRemediate, DecideRemediate, ResetTree, ResetState, IInv, Kept
  <2>6. ~StartAttempt /\ ~Complete /\ ~CompleteRefused /\ ~EndAttempt
    <3>1. ~StartAttempt
      BY DEF StartAttempt, Idle
    <3>2. ~Complete /\ ~CompleteRefused /\ ~EndAttempt
      BY DEF Complete, CompleteRefused, EndAttempt, Idle
    <3> QED BY <3>1, <3>2
  <2>7. ~NoticeCancel
    BY <1>2 DEF NoticeCancel
  <2>8. ~StepFails /\ ~Cleanup
    BY DEF StepFails, Cleanup
  <2> QED BY <1>5, <2>1, <2>2, <2>3, <2>4, <2>5, <2>6, <2>7, <2>8 DEF Stage
<1>6. CASE RequestCancel \/ Crash
  BY <1>2, <1>6 DEF RequestCancel, Crash, Idle
<1> QED BY <1>3, <1>4, <1>5, <1>6 DEF Next

\* Every step keeps the roles.
LEMMA NextRoled ==
  ASSUME IInv, Next, Ordered, Roled
  PROVE  Roled'
<1>1. cp' # None /\ Kind(cp'.ord) = "review" => cp'.role = "review"
  <2>1. CASE WriteAwaiting
    BY <2>1 DEF WriteAwaiting, At, InTurn, Roled
  <2>2. CASE WriteTurnCompleted
    <3>1. cp \in Checkpoints
      BY <2>2, Facts DEF WriteTurnCompleted, At, IInv, Reached
    <3>2. cp # None /\ cp'.ord = cp.ord /\ cp'.role = cp.role
      BY <2>2, <3>1, NoneIsNoRecord DEF WriteTurnCompleted, Checkpoints
    <3> QED BY <3>2 DEF Roled
  <2>3. CASE Complete
    <3>1. cp \in Checkpoints
      BY <2>3, Facts DEF Complete, At, IInv, Reached
    <3>2. cp'.ord = ord /\ cp'.role = run.role /\ run.pc = "complete"
      BY <2>3, <3>1 DEF Complete, At, Checkpoints
    <3> QED BY <3>2 DEF Roled
  <2>4. CASE cp' = cp
    BY <2>4 DEF Roled
  <2> QED BY <2>1, <2>2, <2>3, <2>4, Writers
<1>2. ord' = ord \/ run'.pc = "idle"
  BY StagesGoUp DEF Complete, Idle
<1> QED BY <1>1, <1>2, ReviewRole DEF Roled, InTurn

-----------------------------------------------------------------------------
(* The first review.                                                       *)

\* One session runs at most one turn of it: what the session has cached is
\* what that turn began with and wrote.
OneTurn ==
    cache # None =>
        /\ ~run.mayRerun
        /\ \/ run.pc \in {"await", "turn", "finished", "evaluate", "commit", "cleanup", "ended"}
           \/ run.pc \in {"restore", "reset", "refill", "drop", "rollback"} /\ run.caller \in {"turn", "cleanup"}

\* Only what an earlier attempt left is judged with a second chance.
SecondChance ==
    run.mayRerun =>
        \/ run.pc \in {"evaluate", "commit", "cleanup", "ended"}
        \/ run.pc \in {"restore", "reset", "refill", "drop", "rollback"} /\ run.caller = "cleanup"

\* Until a report is accepted, one can only be there together with its rollback
\* point, and one of a turn that changed the worktree only while the snapshot
\* shows the change.
Undecided ==
    /\ IF doc.recovery = None THEN doc.review = None ELSE doc.recovery.review = None
    /\ OneTurn /\ SecondChance
    /\ run.pc = "start" => cache = None /\ doc.review = None /\ doc.recovery # None
    /\ run.pc \in {"await", "turn"} =>
           /\ cache.recovery # None /\ cache.recovery.review = None
           /\ cache.review # None => cache.review.turn = turns
           /\ work < turns
           /\ turns \in mutators => tree # snap.tree
    /\ doc.review # None /\ doc.review.turn \in mutators => snap # None /\ SnapshotChanged
    /\ run.pc \in {"reset", "refill"} => snap.mutated
    /\ run.pc = "drop" => IF run.changed THEN doc.review = None ELSE ~SnapshotChanged
    /\ run.pc = "commit" => Judged
    /\ run.pc \notin {"decide", "complete"}

\* Once one is accepted it is judged the same by every later attempt, and
\* nothing is run or rolled back.
Decided ==
    /\ accepted = doc.review /\ doc.recovery = None /\ accepted.turn \notin mutators
    /\ snap = None /\ (status = "running" => cp.ord = ord /\ Judged)
    /\ \/ run.pc \in {"idle", "enter", "evaluate", "commit", "decide", "complete", "cleanup", "ended"}
       \/ run.pc = "restore" /\ run.caller \in {"start", "cleanup"}
       \/ run.pc = "rollback" /\ run.caller = "cleanup" /\ ~run.changed

First ==
    /\ ord < 2 => accepted = None /\ doc.review = None /\ (cache # None => cache.review = None)
    /\ ord = 2 => IF accepted = None THEN Undecided ELSE Decided

\* What that says of the first review.
LEMMA RoledFirst ==
  ASSUME IInv, Roled, ord = 2
  PROVE  /\ Kind(ord) = "review" /\ cp # None
         /\ cp.ord = 2 => cp.role = "review"
         /\ run.pc \in InTurn \cup {"evaluate", "commit", "decide", "complete"} => run.role = "review"
<1>1. Kind(ord) = "review" /\ cp # None
  BY DEF Kind, IInv, Reached
<1> QED BY <1>1 DEF Roled

\* What the operations on a rollback point do to the report.
LEMMA RollbackKeeps ==
  ASSUME NEW d \in Documents
  PROVE  /\ d.recovery = None => RollbackReview(d) = d
         /\ d.recovery # None => RollbackReview(d).review = d.recovery.review
         /\ PrepareReview(d).review = RollbackReview(d).review
         /\ PrepareReview(d).recovery # None
         /\ PrepareReview(d).recovery.review = RollbackReview(d).review
         /\ CommitReview(d).review = d.review /\ CommitReview(d).recovery = None
<1>1. RollbackReview(d) \in Documents
  BY RollbackTyped
<1> DEFINE b == RollbackReview(d)
           base == [revision |-> b.revision, review |-> b.review, remediations |-> b.remediations, history |-> b.history]
<1>2. base \in Baselines /\ base.review = b.review
  BY <1>1 DEF Documents, Baselines
<1>3. PrepareReview(d) = [b EXCEPT !.recovery = base]
  BY DEF PrepareReview
<1>4. PrepareReview(d).recovery = base /\ PrepareReview(d).review = b.review
  <2> HIDE DEF b, base
  <2>1. b \in Documents
    BY <1>1 DEF b
  <2> QED BY <1>3, <2>1 DEF Documents
<1>5. /\ d.recovery = None => RollbackReview(d) = d
      /\ d.recovery # None => RollbackReview(d).review = d.recovery.review
      /\ CommitReview(d).review = d.review /\ CommitReview(d).recovery = None
  BY DEF RollbackReview, CommitReview, Documents
<1> QED BY <1>2, <1>4, <1>5, NoneAssumption

\* A decision taken a second time changes nothing.
LEMMA CommitKeeps ==
  ASSUME NEW d \in Documents, d.recovery = None
  PROVE  CommitReview(d) = d
BY DEF CommitReview, Documents

\* A tool of a review keeps the report or writes one of its own turn.
LEMMA ReviewTool ==
  ASSUME cache \in Documents, Tool, run.role = "review"
  PROVE  /\ doc' = cache' /\ cache'.recovery = cache.recovery
         /\ cache'.review = cache.review \/ cache'.review.turn = turns
<1>1. doc' = cache'
  BY DEF Tool, SaveCached
<1>2. cache'.recovery = cache.recovery
  BY ToolKeepsRecovery
<1>3. cache'.review = cache.review \/ cache'.review.turn = turns
  <2>1. \/ \E v \in Verdicts, fs \in SUBSET Findings :
                cache' = Updated(RecordReview(cache, turns, run.base.parent, v, fs))
        \/ cache' = Updated(cache)
    BY DEF Tool, SaveCached
  <2>2. CASE cache' = Updated(cache)
    BY <2>2 DEF Updated, Documents
  <2>3. ASSUME NEW v, NEW fs, cache' = Updated(RecordReview(cache, turns, run.base.parent, v, fs))
        PROVE  cache'.review.turn = turns
    BY <2>3 DEF Updated, RecordReview, Documents
  <2> QED BY <2>1, <2>2, <2>3
<1> QED BY <1>1, <1>2, <1>3

\* Before the decision: a report of a turn that changed the worktree does not
\* outlive the snapshot that shows it.
LEMMA UndecidedStep ==
  ASSUME IInv, Next, Ordered, Roled, First, ord = 2, ord' = 2, accepted = None, Undecided, ~Commit
  PROVE  Undecided'
<1>0. Kind(ord) = "review" /\ doc \in Documents /\ cache \in Documents \cup {None}
  BY DEF Kind, IInv, TypeOK
<1> USE <1>0, Facts, RoledFirst, RollbackKeeps DEF IInv, Reached, Kept, Restoring, Settled, InTurn, Reviewing, Runs, Snapshots, Checkpoints,
      First, Undecided, OneTurn, SecondChance, SnapshotChanged,
      Goto, Restore, At, Callers, Idle, AfterRestore, AfterRollback, RestoreError, AfterTurn, Current, Judged,
      durable, job, counters, history
<1>1. CASE RestoreNothing
  BY <1>1 DEF RestoreNothing
<1>2. CASE RestoreImpossible \/ RestoreFails
  <2>1. CASE RestoreImpossible
    BY <2>1 DEF RestoreImpossible
  <2>2. CASE RestoreFails
    BY <2>2 DEF RestoreFails
  <2> QED BY <1>2, <2>1, <2>2
<1>3. CASE RestoreMarks
  <2>1. snap' \in Snapshots /\ snap'.mutated /\ snap' # None
    <3>1. snap \in Snapshots /\ snap' = [snap EXCEPT !.mutated = TRUE]
      BY <1>3 DEF RestoreMarks
    <3> QED BY <3>1, NoneIsNoRecord
  <2> QED BY <1>3, <2>1 DEF RestoreMarks
<1>4. CASE RestoreResets
  BY <1>4 DEF RestoreResets
<1>5. CASE RestoreRefills
  BY <1>5 DEF RestoreRefills
<1>6. CASE RestoreUnchanged
  BY <1>6 DEF RestoreUnchanged
<1>7. CASE DropIndex
  BY <1>7 DEF DropIndex
<1>8. CASE DropMetadata
  BY <1>8 DEF DropMetadata
<1>9. CASE Rollback
  <2>1. doc'.recovery = None /\ doc'.review = None
    BY <1>9, RolledBack DEF Rollback
  <2> QED BY <1>9, <2>1 DEF Rollback
<1>10. CASE Prepare
  <2>1. doc'.recovery = None /\ doc'.review = None
    BY <1>10, RolledBack DEF Prepare
  <2> QED BY <1>10, <2>1 DEF Prepare
<1>11. CASE Capture
  BY <1>11 DEF Capture
<1>12. CASE Save
  BY <1>12 DEF Save
<1>13. CASE SaveFails
  BY <1>13 DEF SaveFails
<1>14. CASE StartTurn
  <2>1. /\ cache' = doc /\ doc.review = None /\ doc.recovery # None /\ turns' = turns + 1
        /\ UNCHANGED <<doc, snap, tree, work, mutators>> /\ run'.pc = "await" /\ run'.mayRerun = run.mayRerun
    BY <1>14 DEF StartTurn
  <2>2. turns' \notin mutators /\ work < turns'
    BY <2>1 DEF TypeOK
  <2> QED BY <1>14, <2>1, <2>2 DEF StartTurn
<1>15. CASE WriteAwaiting
  BY <1>15 DEF WriteAwaiting
<1>16. CASE CallTool
  <2>1. /\ run.role = "review" /\ UNCHANGED <<snap, tree, work, mutators, turns>>
        /\ run'.pc = run.pc /\ run'.mayRerun = run.mayRerun /\ run.pc \in {"await", "turn"}
    BY <1>16 DEF CallTool
  <2>2. /\ doc' = cache' /\ cache'.recovery = cache.recovery /\ cache # None
        /\ cache'.review = cache.review \/ cache'.review.turn = turns
    BY <1>16, <2>1, ReviewTool DEF CallTool
  <2>3. doc'.review # None => doc'.review.turn = turns
    BY <2>1, <2>2
  <2>4. snap # None
    BY <2>1
  <2> QED BY <2>1, <2>2, <2>3, <2>4
<1>17. CASE ChangeTree
  <2>1. /\ run.role = "review" /\ run' = run /\ UNCHANGED <<doc, snap, cache, work, turns>>
        /\ tree' = turns /\ mutators' = mutators \cup {turns} /\ run.pc \in {"await", "turn"}
    BY <1>17 DEF ChangeTree
  <2>2. snap # None /\ snap.tree = work /\ work < turns /\ work \in Nat /\ turns \in Nat
    BY <2>1 DEF TypeOK
  <2>3. tree' # snap'.tree
    BY <2>1, <2>2
  <2> QED BY <2>1, <2>2, <2>3
<1>18. CASE FinishTurn
  BY <1>18 DEF FinishTurn
<1>19. CASE WriteTurnCompleted
  BY <1>19 DEF WriteTurnCompleted
<1>20. CASE TurnFails
  BY <1>20 DEF TurnFails
<1>21. CASE StartAttempt
  BY <1>21 DEF StartAttempt
<1>22. CASE EnterCurrent
  BY <1>22 DEF EnterCurrent
<1>23. CASE EnterFresh
  <2>1. Begin("review", 0, ReviewBase) /\ cache = None /\ UNCHANGED <<doc, snap, tree, mutators, cache>>
    BY <1>23 DEF EnterFresh
  <2>2. run'.pc = "prepare" /\ ~run'.mayRerun
    BY <1>23, <2>1 DEF EnterFresh, Begin, FirstStep
  <2> QED BY <2>1, <2>2
<1>24. CASE EnterRemediate
  BY <1>24 DEF EnterRemediate
<1>25. CASE ResetState \/ ResetTree
  BY <1>25 DEF ResetState, ResetTree
<1>26. CASE EvaluateValid
  BY <1>26 DEF EvaluateValid
<1>27. CASE EvaluateInvalid
  <2>1. doc' = RollbackReview(doc) /\ UNCHANGED <<snap, tree, mutators, cache, accepted>> /\ run.pc = "evaluate"
    BY <1>27 DEF EvaluateInvalid
  <2>2. doc'.recovery = None /\ doc'.review = None
    BY <2>1, RolledBack
  <2>3. CASE run.mayRerun
    <3>1. run'.pc = "prepare" /\ ~run'.mayRerun /\ cache = None
      BY <1>27, <2>1, <2>3 DEF EvaluateInvalid, FirstStep
    <3> QED BY <2>1, <2>2, <3>1
  <2>4. CASE ~run.mayRerun
    <3>1. run'.pc = "cleanup" /\ ~run'.mayRerun
      BY <1>27, <2>4 DEF EvaluateInvalid
    <3> QED BY <2>1, <2>2, <3>1
  <2> QED BY <2>3, <2>4
<1>28. CASE DecideStage \/ DecideRemediate \/ Complete
  BY <1>28 DEF DecideStage, DecideRemediate, Complete
<1>29. CASE CompleteRefused \/ EndAttempt \/ Crash
  BY <1>29 DEF CompleteRefused, EndAttempt, Crash
<1>30. CASE NoticeCancel
  <2>1. CASE run.pc = "turn" /\ AfterTurn(FALSE)
    BY <1>30, <2>1 DEF NoticeCancel
  <2>2. CASE run.pc # "idle" /\ run' = [run EXCEPT !.pc = "cleanup"]
    BY <1>30, <2>2 DEF NoticeCancel
  <2> QED BY <1>30, <2>1, <2>2 DEF NoticeCancel
<1>31. CASE StepFails
  BY <1>31 DEF StepFails
<1>32. CASE Cleanup
  BY <1>32 DEF Cleanup
<1>33. CASE RequestCancel
  BY <1>33 DEF RequestCancel
<1> QED BY <1>1, <1>2, <1>3, <1>4, <1>5, <1>6, <1>7, <1>8, <1>9, <1>10, <1>11, <1>12, <1>13, <1>14, <1>15, <1>16, <1>17, <1>18, <1>19, <1>20, <1>21, <1>22, <1>23, <1>24, <1>25, <1>26, <1>27, <1>28, <1>29, <1>30, <1>31, <1>32, <1>33
  DEF Next, Review, Turn, Stage

\* An accepted report is of a turn that left the worktree alone.
LEMMA CommitDecides ==
  ASSUME IInv, Next, Ordered, Roled, First, ord = 2, ord' = 2, accepted = None, Undecided, Commit
  PROVE  accepted' # None /\ Decided'
<1>0. run \in Runs /\ doc \in Documents /\ cp \in Checkpoints /\ Matches /\ status = "running"
  BY Facts, OnlyRunning DEF Commit, At, IInv, TypeOK, Reached, Ordered
<1>1. /\ accepted' = doc.review /\ doc' = CommitReview(doc) /\ run' = [run EXCEPT !.pc = "decide"]
      /\ UNCHANGED <<cp, snap, tree, done, mutators, ord, status>>
  BY RoledFirst DEF Commit, At, Goto, InTurn, job
<1>2. Judged /\ cp.role = "review" /\ snap = None
  BY <1>0, RoledFirst DEF Commit, At, Undecided, Matches, IInv, Kept, Settled
<1>3. ValidCheckpoint(doc, cp)
  BY <1>2 DEF Judged
<1>4. doc.review # None
  BY <1>2, <1>3 DEF ValidCheckpoint, ValidateReview, ValidateReport
<1>5. doc.review.turn \notin mutators
  BY <1>2, <1>4 DEF Undecided
<1>6. doc'.review = doc.review /\ doc'.recovery = None /\ doc'.units = doc.units
  BY <1>0, <1>1 DEF CommitReview, Documents
<1>7. Judged'
  BY <1>1, <1>2, <1>3, <1>6 DEF Judged, ValidCheckpoint, ValidateReview, ValidateReport, ValidateExecute
<1>8. run'.pc = "decide"
  BY <1>0, <1>1 DEF Runs
<1> QED BY <1>0, <1>1, <1>2, <1>4, <1>5, <1>6, <1>7, <1>8 DEF Decided, Matches

\* Nothing is run or undone after that.
LEMMA DecidedStep ==
  ASSUME IInv, Next, Ordered, Roled, First, ord = 2, ord' = 2, accepted # None, Decided
  PROVE  accepted' # None /\ Decided'
<1>0. /\ Kind(ord) = "review" /\ doc \in Documents /\ status = "running" /\ run \in Runs /\ snap = None
      /\ cp.ord = ord /\ Judged
  BY OnlyRunning, Facts DEF Kind, IInv, TypeOK, Decided
<1>1. ASSUME UNCHANGED <<cp, snap, done, mutators, ord, accepted>>, doc' = doc,
             \/ run'.pc \in {"idle", "enter", "evaluate", "commit", "decide", "complete", "cleanup", "ended"}
             \/ run'.pc = "restore" /\ run'.caller \in {"start", "cleanup"}
             \/ run'.pc = "rollback" /\ run'.caller = "cleanup" /\ ~run'.changed
      PROVE  accepted' # None /\ Decided'
  BY <1>0, <1>1 DEF Decided, Judged, ValidCheckpoint, ValidateReview, ValidateReport, ValidateExecute,
                    ValidatePlan, ValidateRemediation
<1> USE <1>0 DEF Decided, Runs, Goto, Restore, At, Idle, AfterRestore, AfterRollback, Current, Callers,
      durable, job, history, counters
<1>2. CASE RestoreNothing
  BY <1>1, <1>2 DEF RestoreNothing
<1>3. CASE StartAttempt
  BY <1>1, <1>3 DEF StartAttempt
<1>4. CASE EnterCurrent
  BY <1>1, <1>4 DEF EnterCurrent
<1>5. CASE EvaluateValid \/ DecideStage
  BY <1>1, <1>5 DEF EvaluateValid, DecideStage
<1>6. CASE CompleteRefused \/ EndAttempt \/ Crash
  BY <1>1, <1>6 DEF CompleteRefused, EndAttempt, Crash
<1>7. CASE NoticeCancel
  BY <1>1, <1>7 DEF NoticeCancel
<1>8. CASE StepFails
  BY <1>1, <1>8 DEF StepFails
<1>9. CASE Cleanup
  BY <1>1, <1>9 DEF Cleanup
<1>10. CASE RequestCancel
  BY <1>1, <1>10 DEF RequestCancel
<1>11. CASE Rollback
  <2>1. doc' = doc
    BY <1>11, RollbackKeeps DEF Rollback
  <2> QED BY <1>1, <1>11, <2>1 DEF Rollback
<1>12. CASE Commit
  <2>1. doc' = doc
    BY <1>12, CommitKeeps DEF Commit
  <2>2. accepted' = accepted
    BY <1>12, RoledFirst DEF Commit
  <2> QED BY <1>1, <1>12, <2>1, <2>2 DEF Commit
<1>13. CASE Complete
  <2>1. status' = "succeeded" /\ run' = Idle /\ UNCHANGED <<doc, snap, mutators, accepted>>
    BY <1>13 DEF Complete
  <2> QED BY <2>1
<1>14. Review => RestoreNothing \/ Rollback
  BY DEF Review, RestoreImpossible, RestoreFails, RestoreMarks, RestoreResets, RestoreRefills,
         RestoreUnchanged, DropIndex, DropMetadata, Prepare, Capture, Save, SaveFails
<1>15. ~Turn
  BY DEF Turn, StartTurn, WriteAwaiting, CallTool, ChangeTree, FinishTurn, WriteTurnCompleted, TurnFails
<1>16. ~EnterFresh /\ ~EnterRemediate /\ ~ResetState /\ ~ResetTree /\ ~EvaluateInvalid /\ ~DecideRemediate
  <2>1. cp # None
    BY Facts DEF Detached
  <2>2. ~EnterFresh /\ ~EnterRemediate
    BY <2>1 DEF EnterFresh, EnterRemediate
  <2>3. ~ResetState /\ ~ResetTree
    BY DEF ResetState, ResetTree
  <2>4. ~EvaluateInvalid
    BY DEF EvaluateInvalid
  <2>5. ~DecideRemediate
    BY DEF DecideRemediate
  <2> QED BY <2>2, <2>3, <2>4, <2>5
<1> QED BY <1>2, <1>3, <1>4, <1>5, <1>6, <1>7, <1>8, <1>9, <1>10, <1>11, <1>12, <1>13, <1>14, <1>15, <1>16
  DEF Next, Stage

\* Before the review there is no report.
LEMMA EarlyUnreviewed ==
  ASSUME IInv, Next, Unmarked, First, ord' < 2
  PROVE  accepted' = None /\ doc'.review = None /\ (cache' # None => cache'.review = None)
<1>0. /\ ord < 2 /\ doc \in Documents /\ cache \in Documents \cup {None}
      /\ doc.review = None /\ doc.recovery = None /\ accepted = None
      /\ cache # None => cache.review = None
  <2>1. ord < 2
    BY StagesGoUp, Facts
  <2> QED BY <2>1 DEF IInv, TypeOK, First, Unmarked
<1>1. run.role # "review" /\ run.pc # "save"
  BY <1>0, Facts DEF IInv, Kept, Reviewing
<1>2. accepted' = None
  BY <1>0, <1>1, Writers DEF Commit
<1>3. CASE doc' = doc /\ cache' \in {cache, None, doc}
  BY <1>0, <1>2, <1>3
<1>4. CASE /\ doc' \in {RollbackReview(doc), DefaultState, CommitReview(doc)}
           /\ cache' = cache
  BY <1>0, <1>2, <1>4, RollbackKeeps DEF DefaultState
<1>5. CASE CallTool
  <2>1. cache \in Documents /\ cache.review = None
    BY <1>0, <1>5 DEF CallTool, IInv, Reached
  <2>2. doc' = cache' /\ cache'.review = None
    BY <1>1, <1>5, <2>1 DEF CallTool, Tool, SaveCached, Updated, Decompose, Progress, Remediate, Documents
  <2> QED BY <1>2, <2>2
<1> QED BY <1>1, <1>3, <1>4, <1>5, Writers DEF Save, At

\* Every step keeps what is known of the first review.
LEMMA NextFirst ==
  ASSUME IInv, Next, Unmarked, Ordered, Roled, First
  PROVE  First'
<1>1. CASE ord' < 2
  BY <1>1, EarlyUnreviewed DEF First
<1>2. CASE ord' = 2 /\ ord = 2
  <2>2. IF accepted' = None THEN Undecided' ELSE Decided'
    <3>1. CASE accepted = None /\ ~Commit
      <4>1. Undecided'
        BY <1>2, <3>1, UndecidedStep DEF First
      <4>2. accepted' = None
        BY <3>1, Writers
      <4> QED BY <4>1, <4>2
    <3>2. CASE accepted = None /\ Commit
      BY <1>2, <3>2, CommitDecides DEF First
    <3>3. CASE accepted # None
      BY <1>2, <3>3, DecidedStep DEF First
    <3> QED BY <3>1, <3>2, <3>3
  <2> QED BY <1>2, <2>2 DEF First
<1>3. CASE ord' = 2 /\ ord # 2
  <2>1. ord = 1 /\ Complete
    BY <1>3, StagesGoUp, Facts
  <2>2. /\ doc' = doc /\ accepted' = None /\ cache' = None /\ run' = Idle
        /\ doc.recovery = None /\ doc.review = None
    BY <2>1 DEF Complete, history, First, Unmarked
  <2>4. Undecided'
    BY <2>2 DEF Undecided, OneTurn, SecondChance, Idle
  <2> QED BY <1>3, <2>2, <2>4 DEF First
<1>4. CASE ord' \notin 0..2
  BY <1>4, StagesGoUp, Facts DEF First
<1> QED BY <1>1, <1>2, <1>3, <1>4, StagesGoUp, Facts DEF First

\* No decision of the first review is taken on the report of a turn that
\* changed the worktree, whatever crashes between the turn, the restoration of
\* the snapshot and the judgement; and the report is not undone afterwards.
THEOREM FirstReviewIsSound == Spec => []FirstReviewSound
<1>1. Init => Unmarked /\ Ordered /\ Roled /\ First
  BY StageLoopAssumption DEF Init, Unmarked, Ordered, Beginning, Roled, First, InTurn, DefaultState, Idle
<1>2. (Unmarked /\ Ordered /\ Roled /\ First) /\ UNCHANGED vars => (Unmarked /\ Ordered /\ Roled /\ First)'
  <2>1. Unmarked /\ UNCHANGED vars => Unmarked'
    BY DEF Unmarked, vars
  <2>2. Ordered /\ UNCHANGED vars => Ordered'
    BY DEF Ordered, Beginning, Matches, Follows, Position, vars
  <2>3. First /\ UNCHANGED vars => First'
    BY DEF First, Undecided, Decided, OneTurn, SecondChance, SnapshotChanged, Judged, vars
  <2>4. Roled /\ UNCHANGED vars => Roled'
    BY DEF Roled, vars
  <2> QED BY <2>1, <2>2, <2>3, <2>4
<1>3. IInv /\ First => FirstReviewSound
  <2> SUFFICES ASSUME IInv, First, ord = 2, accepted # None
               PROVE  /\ accepted.turn \notin mutators
                      /\ doc.review # None /\ doc.review.generation >= accepted.generation
    BY DEF FirstReviewSound
  <2>1. accepted = doc.review /\ accepted.turn \notin mutators /\ accepted \in Reports
    BY DEF First, Decided, IInv, TypeOK
  <2> QED BY <2>1 DEF Reports
<1> QED BY <1>1, <1>2, <1>3, NextUnmarked, NextOrdered, NextRoled, NextFirst, Invariant, PTL DEF Spec

-----------------------------------------------------------------------------
(* What an approved job ships.                                             *)

\* A report is of a turn that has run, has findings exactly when it does not
\* approve, and an approval has nothing to remediate.
Sound(r, m, t) ==
    r # None =>
        /\ r.generation > 0 /\ r.turn <= t
        /\ (r.verdict = "approve") = (r.findings = {})
        /\ r.verdict = "approve" => m = {}
SoundDoc(d, t) ==
    /\ Sound(d.review, d.remediations, t)
    /\ d.recovery # None => Sound(d.recovery.review, d.recovery.remediations, t)
Sane ==
    /\ SoundDoc(doc, turns) /\ (cache # None => SoundDoc(cache, turns))
    /\ run.pc \in {"await", "turn"} /\ cache.review # None /\ cache.review.turn = turns =>
           run.role = "review" /\ cache.remediations = {}

\* The operations on a rollback point keep that.
LEMMA RollbackSound ==
  ASSUME NEW d \in Documents, NEW t \in Nat, SoundDoc(d, t)
  PROVE  SoundDoc(RollbackReview(d), t) /\ SoundDoc(PrepareReview(d), t) /\ SoundDoc(CommitReview(d), t)
<1> DEFINE b == RollbackReview(d)
           base == [revision |-> b.revision, review |-> b.review, remediations |-> b.remediations, history |-> b.history]
<1>1. b \in Documents /\ b.recovery = None /\ Sound(b.review, b.remediations, t)
  BY RollbackTyped, RolledBack DEF SoundDoc, RollbackReview, Documents
<1>2. PrepareReview(d) = [b EXCEPT !.recovery = base]
  BY DEF PrepareReview
<1>3. base.review = b.review /\ base.remediations = b.remediations
  OBVIOUS
<1>4. /\ PrepareReview(d).recovery.review = b.review /\ PrepareReview(d).recovery.remediations = b.remediations
      /\ PrepareReview(d).review = b.review /\ PrepareReview(d).remediations = b.remediations
  <2> HIDE DEF b, base
  <2> QED BY <1>1, <1>2, <1>3 DEF Documents
<1>5. SoundDoc(CommitReview(d), t)
  BY DEF SoundDoc, CommitReview, Documents
<1> QED BY <1>1, <1>4, <1>5 DEF SoundDoc

\* A report of a turn is newer than what it replaces.
LEMMA Recorded ==
  ASSUME NEW d \in Documents, NEW turn \in Nat, NEW parent \in Nat, NEW v \in Verdicts, NEW fs \in SUBSET Findings
  PROVE  LET e == Updated(RecordReview(d, turn, parent, v, fs)) IN
         /\ e.review # None /\ e.review.turn = turn /\ e.review.parent = parent
         /\ e.review.verdict = v /\ e.review.findings = fs /\ e.review.generation > 0
         /\ e.recovery = d.recovery /\ e.units = d.units
         /\ SameTurn(d, turn) => e.remediations = d.remediations /\ e.review.generation >= d.review.generation
         /\ ~SameTurn(d, turn) => e.remediations = {} /\ e.review.generation = CurrentGeneration(d) + 1
<1> DEFINE report(g) == [generation |-> g, turn |-> turn, parent |-> parent, verdict |-> v, findings |-> fs]
           r == RecordReview(d, turn, parent, v, fs)
<1>1. CurrentGeneration(d) \in Nat
  BY GenerationTyped
<1>2. \A g \in Nat : report(g) \in Reports /\ report(g) # None
  BY NoneAssumption DEF Reports
<1>3. CASE SameTurn(d, turn)
  <2> DEFINE g == IF d.review.generation = 0 THEN 1 ELSE d.review.generation
  <2>1. d.review \in Reports
    BY <1>3 DEF SameTurn, Documents
  <2>2. g \in Nat /\ g > 0 /\ g >= d.review.generation
    BY <2>1 DEF Reports
  <2>3. r = [d EXCEPT !.review = report(g)]
    BY <1>3 DEF RecordReview
  <2>4. /\ Updated(r).review = report(g) /\ Updated(r).recovery = d.recovery
        /\ Updated(r).units = d.units /\ Updated(r).remediations = d.remediations
    <3> HIDE DEF r, g, report
    <3> QED BY <2>3 DEF Documents, Updated
  <2>5. report(g) # None
    BY <1>2, <2>2
  <2> QED BY <1>3, <2>2, <2>4, <2>5
<1>4. CASE ~SameTurn(d, turn)
  <2> DEFINE g == CurrentGeneration(d) + 1
             h == IF d.review # None /\ d.remediations # {} THEN Append(d.history, d.review.generation) ELSE d.history
  <2>1. g \in Nat /\ g > 0
    BY <1>1
  <2>2. r = [d EXCEPT !.review = report(g), !.remediations = {}, !.history = h]
    BY <1>4 DEF RecordReview
  <2>3. /\ Updated(r).review = report(g) /\ Updated(r).recovery = d.recovery
        /\ Updated(r).units = d.units /\ Updated(r).remediations = {}
    <3> HIDE DEF r, g, report, h
    <3> QED BY <2>2 DEF Documents, Updated
  <2>4. report(g) # None
    BY <1>2, <2>1
  <2> QED BY <1>4, <2>1, <2>3, <2>4
<1> QED BY <1>3, <1>4

\* No tool breaks it.
LEMMA ToolSound ==
  ASSUME IInv, CallTool, Sane
  PROVE  /\ doc' = cache' /\ SoundDoc(cache', turns)
         /\ cache'.review # None /\ cache'.review.turn = turns => run.role = "review" /\ cache'.remediations = {}
<1>0. cache \in Documents /\ cache # None /\ turns \in Nat /\ run.base.parent \in Nat /\ run.pc \in {"await", "turn"}
  BY Facts DEF CallTool, IInv, TypeOK, Reached, Runs, Base
<1>1. cache'.recovery = cache.recovery
  BY <1>0, ToolKeepsRecovery DEF CallTool
<1>2. SoundDoc(cache, turns)
  BY <1>0 DEF Sane
<1> SUFFICES /\ doc' = cache' /\ Sound(cache'.review, cache'.remediations, turns)
             /\ cache'.review # None /\ cache'.review.turn = turns => run.role = "review" /\ cache'.remediations = {}
  BY <1>1, <1>2 DEF SoundDoc
<1>3. CASE SaveCached(Decompose(cache))
  BY <1>0, <1>3 DEF SaveCached, Updated, Decompose, Documents, Sound
<1>4. ASSUME NEW u \in Units, SaveCached(Progress(cache, u))
      PROVE  doc' = cache' /\ cache'.review = cache.review /\ cache'.remediations = cache.remediations
  BY <1>0, <1>4 DEF SaveCached, Updated, Progress, Documents
<1>5. ASSUME run.role = "review", NEW v \in Verdicts, NEW fs \in SUBSET Findings,
             MayReview(cache, v, fs), SaveCached(RecordReview(cache, turns, run.base.parent, v, fs))
      PROVE  /\ doc' = cache' /\ Sound(cache'.review, cache'.remediations, turns)
             /\ cache'.review # None /\ cache'.review.turn = turns => run.role = "review" /\ cache'.remediations = {}
  <2>1. cache' = Updated(RecordReview(cache, turns, run.base.parent, v, fs)) /\ doc' = cache'
    BY <1>5 DEF SaveCached
  <2>2. /\ cache'.review # None /\ cache'.review.turn = turns
        /\ cache'.review.verdict = v /\ cache'.review.findings = fs /\ cache'.review.generation > 0
        /\ SameTurn(cache, turns) => cache'.remediations = cache.remediations
        /\ ~SameTurn(cache, turns) => cache'.remediations = {}
    BY <1>0, <2>1, Recorded
  <2>3. cache'.remediations = {}
    BY <1>0, <2>2 DEF SameTurn, Sane
  <2> QED BY <1>0, <1>5, <2>1, <2>2, <2>3 DEF Sound, MayReview
<1>6. ASSUME run.role = "remediation", NEW fs \in SUBSET Findings,
             MayRemediate(cache, fs), SaveCached(Remediate(cache, fs))
      PROVE  /\ doc' = cache' /\ Sound(cache'.review, cache'.remediations, turns)
             /\ cache'.review # None /\ cache'.review.turn = turns => run.role = "review" /\ cache'.remediations = {}
  <2>1. doc' = cache' /\ cache'.review = cache.review
    BY <1>0, <1>6 DEF SaveCached, Updated, Remediate, Documents
  <2>2. cache.review # None /\ cache.review.findings # {}
    BY <1>6 DEF MayRemediate
  <2>3. cache.review.turn # turns
    BY <1>0, <1>6, <2>2 DEF Sane
  <2> QED BY <1>2, <2>1, <2>2, <2>3 DEF Sound, SoundDoc
<1>7. CASE SaveCached(cache)
  <2>1. doc' = cache' /\ cache'.review = cache.review /\ cache'.remediations = cache.remediations
    BY <1>0, <1>7 DEF SaveCached, Updated, Documents
  <2> QED BY <1>0, <1>2, <2>1 DEF SoundDoc, Sane
<1>8. CASE \E u \in Units : SaveCached(Progress(cache, u))
  BY <1>0, <1>2, <1>4, <1>8 DEF SoundDoc, Sane
<1> QED BY <1>3, <1>5, <1>6, <1>7, <1>8 DEF CallTool, Tool

\* The steps during which a turn runs.
LEMMA TurnSteps ==
  ASSUME IInv, Next, run'.pc \in {"await", "turn"}
  PROVE  StartTurn \/ WriteAwaiting \/ CallTool \/ ChangeTree \/ RequestCancel
<1> USE Facts DEF At, Goto, Restore, AfterTurn, Runs
<1>1. CASE Review
  <2>1. ~RestoreNothing /\ ~RestoreRefills
    <3>1. AfterRestore(TRUE) \notin {"await", "turn"} /\ AfterRestore(FALSE) \notin {"await", "turn"}
      BY AfterRestoreTyped
    <3> QED BY <3>1 DEF RestoreNothing, RestoreRefills
  <2>2. ~RestoreImpossible /\ ~RestoreFails
    BY DEF RestoreImpossible, RestoreFails, RestoreError
  <2>3. ~RestoreMarks /\ ~RestoreResets /\ ~Prepare /\ ~Capture /\ ~Save /\ ~SaveFails /\ ~RestoreUnchanged /\ ~DropIndex
    BY DEF RestoreMarks, RestoreResets, Prepare, Capture, Save, SaveFails, RestoreUnchanged, DropIndex
  <2>4. ~DropMetadata
    <3>1. At("drop") /\ run.changed => AfterRollback \in {"enter", "cleanup", "ended"}
      BY AfterRollbackTyped DEF IInv, Restoring
    <3>2. AfterRestore(FALSE) \notin {"await", "turn"}
      BY AfterRestoreTyped
    <3> QED BY <3>1, <3>2 DEF DropMetadata
  <2>5. ~Rollback
    <3>1. At("rollback") => AfterRollback \in {"enter", "cleanup", "ended"}
      BY AfterRollbackTyped DEF IInv, Restoring
    <3> QED BY <3>1 DEF Rollback
  <2> QED BY <1>1, <2>1, <2>2, <2>3, <2>4, <2>5 DEF Review
<1>2. CASE Turn
  BY <1>2 DEF Turn, FinishTurn, WriteTurnCompleted, TurnFails
<1>3. CASE Stage
  <2>1. \A role, cycle, base : Begin(role, cycle, base) => run'.pc \notin {"await", "turn"}
    BY FirstStepTyped DEF Begin
  <2>2. ~EnterFresh
    BY <2>1 DEF EnterFresh
  <2>3. ~EnterRemediate
    BY <2>1 DEF EnterRemediate
  <2>4. ~EvaluateInvalid
    <3>1. EvaluateInvalid => run'.pc \in {FirstStep(run.role), "cleanup"}
      BY DEF EvaluateInvalid
    <3> QED BY <3>1, FirstStepTyped
  <2>5. ~DecideRemediate
    BY <2>1 DEF DecideRemediate
  <2>6. ~StartAttempt /\ ~EnterCurrent /\ ~ResetState /\ ~EvaluateValid /\ ~Commit /\ ~DecideStage
    BY DEF StartAttempt, EnterCurrent, ResetState, EvaluateValid, Commit, DecideStage, Idle
  <2>7. ~Complete /\ ~CompleteRefused /\ ~EndAttempt
    BY DEF Complete, CompleteRefused, EndAttempt, Idle
  <2>8. ~NoticeCancel
    BY DEF NoticeCancel
  <2>9. ~ResetTree /\ ~Cleanup /\ ~StepFails
    BY DEF ResetTree, Cleanup, StepFails
  <2> QED BY <1>3, <2>2, <2>3, <2>4, <2>5, <2>6, <2>7, <2>8, <2>9 DEF Stage
<1>4. CASE RequestCancel \/ Crash
  BY <1>4 DEF Crash, Idle
<1> QED BY <1>1, <1>2, <1>3, <1>4 DEF Next

\* Every step keeps the reports sound.
LEMMA NextSane ==
  ASSUME IInv, Next, Sane
  PROVE  Sane'
<1>0. /\ doc \in Documents /\ cache \in Documents \cup {None} /\ turns \in Nat /\ turns' \in Nat /\ turns' >= turns
      /\ SoundDoc(doc, turns) /\ (cache # None => SoundDoc(cache, turns))
  <2>1. turns' = turns \/ turns' = turns + 1
    BY Writers DEF StartTurn, FinishTurn, counters
  <2> QED BY <2>1 DEF IInv, TypeOK, Sane
<1>1. ASSUME NEW d \in Documents, SoundDoc(d, turns) PROVE SoundDoc(d, turns')
  <2>1. \A m : \A r \in Reports \cup {None} : Sound(r, m, turns) => Sound(r, m, turns')
    BY <1>0, NoneAssumption DEF Sound, Reports
  <2>2. d.review \in Reports \cup {None} /\ (d.recovery # None => d.recovery.review \in Reports \cup {None})
    BY DEF Documents, Baselines
  <2> QED BY <1>1, <2>1, <2>2 DEF SoundDoc
<1>2. SoundDoc(DefaultState, turns)
  BY DEF SoundDoc, Sound, DefaultState
<1>3. CASE CallTool
  <2>1. turns' = turns /\ run'.role = run.role
    BY <1>3, Facts DEF CallTool, counters, Runs
  <2> QED BY <1>3, <2>1, ToolSound DEF Sane
<1>4. CASE ~CallTool
  <2>1. SoundDoc(doc, turns)' /\ (cache' # None => SoundDoc(cache, turns)')
    <3>1. CASE doc' = doc /\ cache' \in {cache, None, doc}
      BY <1>0, <1>1, <3>1
    <3>2. CASE /\ doc' \in {RollbackReview(doc), DefaultState, CommitReview(doc)}
               /\ cache' = cache
      <4>1. doc' \in Documents /\ SoundDoc(doc', turns)
        BY <1>0, <1>2, <3>2, RollbackSound, RollbackTyped, DefaultTyped, CommitTyped
      <4> QED BY <1>0, <1>1, <3>2, <4>1
    <3>3. CASE Save
      <4>1. doc' = PrepareReview(doc) /\ cache' = cache
        BY <3>3 DEF Save
      <4>2. doc' \in Documents /\ SoundDoc(doc', turns)
        BY <1>0, <4>1, RollbackSound, PrepareTyped
      <4> QED BY <1>0, <1>1, <4>1, <4>2
    <3> QED BY <1>4, <3>1, <3>2, <3>3, Writers
  <2>2. run'.pc \in {"await", "turn"} /\ cache'.review # None /\ cache'.review.turn = turns' =>
            run'.role = "review" /\ cache'.remediations = {}
    <3>1. CASE StartTurn
      <4>1. cache' \in Documents /\ SoundDoc(cache', turns) /\ turns' = turns + 1
        BY <1>0, <3>1 DEF StartTurn
      <4>2. cache'.review # None => cache'.review \in Reports /\ cache'.review.turn <= turns
        BY <4>1 DEF SoundDoc, Sound, Documents
      <4> QED BY <1>0, <4>1, <4>2 DEF Reports
    <3>2. CASE WriteAwaiting \/ ChangeTree \/ RequestCancel
      <4>1. \/ run.pc \in {"await", "turn"} /\ cache' = cache /\ turns' = turns /\ run'.role = run.role
            \/ RequestCancel
        BY <3>2, Facts DEF WriteAwaiting, ChangeTree, At, Goto, counters, Runs
      <4> QED BY <4>1 DEF Sane, RequestCancel, counters
    <3> QED BY <1>4, <3>1, <3>2, TurnSteps
  <2> QED BY <2>1, <2>2 DEF Sane
<1> QED BY <1>3, <1>4

\* Nothing has failed and nobody cancels.
Calm == faults = 0 /\ ~cancelling /\ status = "running"

\* Then an attempt ends only after its turn has: the checkpoint is of the turn
\* that was judged last, and no turn has implemented anything since it began,
\* if it was a review.
Dated ==
    /\ cp # None /\ run.pc \notin {"turn", "finished"} => cp.phase # "awaiting"
    /\ cp # None /\ cp.role = "review" /\ ~(run.pc = "await" /\ run.role # "review") => work < cp.turn
    /\ run.pc = "await" /\ run.role = "review" => work < turns
    /\ \/ run.pc \in {"turn", "finished"}
       \/ run.caller = "turn" /\ (run.pc = "restore" \/ (run.pc = "drop" /\ ~run.changed))
       \/ run.pc = "evaluate" /\ cache # None
       => cp.turn = turns /\ cp.base = run.base
    /\ run.pc \in {"commit", "decide"} => ValidCheckpoint(doc, cp)
    /\ run.pc = "complete" /\ Kind(ord) # "remediate" => cp.ord = ord /\ ValidCheckpoint(doc, cp)
    /\ run.pc \in {"decide", "complete"} /\ run.role = "review" => doc.recovery = None
    /\ run.pc = "enter" \/ (run.pc \in {"restore", "reset", "refill", "drop", "rollback"} /\ run.caller = "start") =>
           cache = None
    /\ run.pc \in {"restore", "reset", "refill", "drop", "rollback"} /\ run.caller = "turn" => run.role = "review"

\* A remediation that has not begun finds the review as it was completed.
Entry ==
    Kind(ord) = "remediate" /\ ~Current =>
        /\ cp.role = "review" /\ doc.recovery = None /\ doc.review # None
        /\ cache # None => cache = doc
        /\ snap = None
        /\ run.pc \in {"idle", "restore", "enter", "start", "await", "rollback", "complete", "cleanup", "ended"}
        /\ run.pc \in {"start", "await"} => run.role = "remediation"
        /\ run.pc = "restore" => run.caller \in {"start", "cleanup"}
        /\ run.pc = "rollback" => run.caller = "cleanup" /\ ~run.changed

\* What is calm has been.
LEMMA CalmStep ==
  ASSUME IInv, Next, Calm'
  PROVE  /\ Calm
         /\ ~RestoreFails /\ ~SaveFails /\ ~TurnFails /\ ~StepFails /\ ~Crash
         /\ ~NoticeCancel /\ ~RequestCancel /\ ~CompleteRefused
<1>1. faults \in Nat /\ cancelling \in BOOLEAN /\ faults' = 0 /\ cancelling' = FALSE
  BY DEF IInv, TypeOK, Calm
<1>2. ~Failure
  BY <1>1 DEF Failure
<1>3. faults = 0 /\ ~cancelling /\ ~RequestCancel
  BY <1>1, <1>2, Writers DEF RequestCancel
<1> QED BY <1>2, <1>3, OnlyRunning
  DEF Calm, RestoreFails, SaveFails, TurnFails, StepFails, Crash, NoticeCancel, CompleteRefused

\* A judgement does not depend on the rollback point.
LEMMA CommitValid ==
  ASSUME NEW d \in Documents, NEW c
  PROVE  ValidCheckpoint(CommitReview(d), c) = ValidCheckpoint(d, c)
<1> DEFINE e == CommitReview(d)
<1>1. /\ e.units = d.units /\ e.review = d.review /\ e.remediations = d.remediations
      /\ e.history = d.history /\ e.revision = d.revision
  BY DEF CommitReview, Documents
<1> HIDE DEF e
<1> QED BY <1>1 DEF ValidCheckpoint, ValidatePlan, ValidateExecute, ValidateReview, ValidateReport, ValidateRemediation, e

\* A calm step keeps checkpoint, judgement and report together.
LEMMA NextDated ==
  ASSUME IInv, Next, Ordered, Roled, Calm', Dated, Entry
  PROVE  Dated'
<1>0. /\ doc \in Documents /\ cache \in Documents \cup {None} /\ turns \in Nat /\ work \in 0..turns
  BY DEF IInv, TypeOK
<1>b. ASSUME NEW role, NEW cycle, NEW base, Begin(role, cycle, base), run.pc \in {"enter", "decide"},
             UNCHANGED <<durable, cache, job, counters, history>>
      PROVE  Dated'
  <2>1. run'.pc \in {"resetState", "prepare", "start"}
    BY <1>b, FirstStepTyped, Facts DEF Begin, Runs
  <2> QED BY <1>b, <2>1 DEF Dated, durable, job, counters, history
<1> USE <1>0, Facts, CalmStep DEF IInv, Reached, Kept, Restoring, Settled, InTurn, Reviewing, Runs, Snapshots, Checkpoints,
      Dated, Goto, Restore, At, Callers, Idle, AfterRestore, AfterRollback, RestoreError, AfterTurn, Current, Judged,
      durable, job, counters, history
<1>1. CASE RestoreNothing
  BY <1>1 DEF RestoreNothing
<1>2. CASE RestoreImpossible
  BY <1>2 DEF RestoreImpossible
<1>3. CASE RestoreMarks \/ RestoreResets
  BY <1>3 DEF RestoreMarks, RestoreResets
<1>5. CASE RestoreRefills
  BY <1>5 DEF RestoreRefills
<1>6. CASE RestoreUnchanged
  BY <1>6 DEF RestoreUnchanged
<1>7. CASE DropIndex
  BY <1>7 DEF DropIndex
<1>8. CASE DropMetadata
  BY <1>8 DEF DropMetadata
<1>9. CASE Rollback
  BY <1>9 DEF Rollback
<1>10. CASE Prepare
  BY <1>10 DEF Prepare
<1>11. CASE Capture
  BY <1>11 DEF Capture
<1>12. CASE Save
  BY <1>12 DEF Save
<1>14. CASE StartTurn
  BY <1>14 DEF StartTurn
<1>15. CASE WriteAwaiting
  BY <1>15, NoneIsNoRecord DEF WriteAwaiting
<1>16. CASE CallTool
  BY <1>16 DEF CallTool
<1>17. CASE ChangeTree
  BY <1>17 DEF ChangeTree, Ordered, Matches
<1>18. CASE FinishTurn
  BY <1>18 DEF FinishTurn
<1>19. CASE WriteTurnCompleted
  BY <1>19 DEF WriteTurnCompleted
<1>21. CASE StartAttempt
  BY <1>21 DEF StartAttempt
<1>22. CASE EnterCurrent
  BY <1>22 DEF EnterCurrent
<1>23. CASE EnterFresh
  <2>1. \E role, cycle, base : Begin(role, cycle, base)
    BY <1>23 DEF EnterFresh
  <2> QED BY <1>23, <2>1, <1>b DEF EnterFresh
<1>24. CASE EnterRemediate
  <2>1. CASE ValidateRemediation(doc) /\ Approved(doc)
    <3>1. /\ run'.pc \in {"complete", "cleanup"} /\ Kind(ord) = "remediate" /\ doc.recovery = None
          /\ UNCHANGED <<doc, cp, work, turns, ord>> /\ run.pc = "enter"
      BY <1>24, <2>1 DEF EnterRemediate, Entry
    <3> QED BY <3>1
  <2>2. CASE ~(ValidateRemediation(doc) /\ Approved(doc))
    BY <1>24, <2>2, <1>b DEF EnterRemediate
  <2> QED BY <2>1, <2>2
<1>25. CASE ResetState \/ ResetTree
  BY <1>25 DEF ResetState, ResetTree
<1>26. CASE EvaluateValid
  BY <1>26 DEF EvaluateValid
<1>27. CASE EvaluateInvalid
  <2>1. /\ run'.pc \in {FirstStep(run.role), "cleanup"} /\ run.pc = "evaluate"
        /\ UNCHANGED <<cp, work, turns, ord, cache>>
    BY <1>27 DEF EvaluateInvalid
  <2>2. run'.pc \in {"resetState", "prepare", "start", "cleanup"}
    BY <2>1, FirstStepTyped
  <2> QED BY <2>1, <2>2
<1>28. CASE Commit
  BY <1>28, CommitValid, RollbackKeeps DEF Commit
<1>29. CASE DecideStage
  BY <1>29 DEF DecideStage, Ordered, Matches
<1>30. CASE DecideRemediate
  <2>1. CASE \E role, cycle, base : Begin(role, cycle, base)
    BY <1>30, <2>1, <1>b DEF DecideRemediate
  <2>2. CASE Goto("complete")
    BY <1>30, <2>2 DEF DecideRemediate
  <2>3. CASE run' = [run EXCEPT !.pc = "cleanup", !.terminal = TRUE]
    BY <1>30, <2>3 DEF DecideRemediate
  <2> QED BY <1>30, <2>1, <2>2, <2>3 DEF DecideRemediate
<1>31. CASE Complete
  BY <1>31 DEF Complete, Ordered, Matches, Entry
<1>32. CASE EndAttempt
  BY <1>32 DEF EndAttempt
<1>33. CASE Cleanup
  BY <1>33 DEF Cleanup
<1> QED BY <1>1, <1>2, <1>3, <1>5, <1>6, <1>7, <1>8, <1>9, <1>10, <1>11, <1>12, <1>14, <1>15, <1>16, <1>17, <1>18, <1>19, <1>21, <1>22, <1>23, <1>24, <1>25, <1>26, <1>27, <1>28, <1>29, <1>30, <1>31, <1>32, <1>33
  DEF Next, Review, Turn, Stage

\* A remediation follows a review.
LEMMA ReviewFirst ==
  ASSUME NEW n \in Nat, Kind(n + 1) = "remediate"
  PROVE  Kind(n) = "review"
<1>1. CASE n < 4
  BY <1>1 DEF Kind
<1>2. CASE n >= 4
  <2>1. (n + 1 - 4) % 3 = 2
    BY <1>2 DEF Kind
  <2>2. (n - 4) % 3 = 1
    BY <1>2, <2>1
  <2> QED BY <1>2, <2>2 DEF Kind
<1> QED BY <1>1, <1>2

\* A completed review is valid and has no rollback point.
LEMMA ReviewCompleted ==
  ASSUME IInv, Ordered, Roled, Dated, Complete, Kind(ord) = "review"
  PROVE  /\ cp \in Checkpoints /\ cp'.role = "review" /\ doc' = doc /\ doc.recovery = None
         /\ ValidateExecute(doc) /\ ValidateReport(doc) /\ snap' = None /\ run' = Idle /\ cache' = None
<1>1. cp \in Checkpoints /\ run.role = "review" /\ run.pc = "complete"
  BY Facts DEF Complete, At, Detached, Roled
<1>2. cp.ord = ord /\ ValidCheckpoint(doc, cp) /\ doc.recovery = None /\ snap = None
  BY <1>1 DEF Dated, IInv, Kept, Settled
<1>3. cp.role = "review"
  BY <1>1, <1>2, NoneIsNoRecord DEF Roled
<1>4. ValidateExecute(doc) /\ ValidateReport(doc)
  BY <1>2, <1>3 DEF ValidCheckpoint, ValidateReview
<1>5. cp'.role = "review"
  BY <1>1 DEF Complete, Checkpoints
<1> QED BY <1>1, <1>2, <1>4, <1>5 DEF Complete

\* And a remediation that has not begun as it was.
LEMMA NextEntry ==
  ASSUME IInv, Next, Ordered, Roled, Calm', Dated, Entry
  PROVE  Entry'
<1> SUFFICES ASSUME Kind(ord') = "remediate", ~Current'
             PROVE  Entry'
  BY DEF Entry
<1>0. /\ doc \in Documents /\ cache \in Documents \cup {None} /\ cp' # None
      /\ cp \in Checkpoints \cup {None} /\ run \in Runs
  <2>1. ord' \in Nat /\ ord' > 1 /\ ord \in Nat
    <3>1. ord' \in Nat
      BY StagesGoUp, Facts
    <3> QED BY <3>1, KindOf, Facts
  <2>2. ord > 0
    BY <2>1, StagesGoUp
  <2>3. cp # None
    BY <2>2 DEF IInv, Reached
  <2>4. cp' # None
    BY <2>2, NextReached, StagesGoUp, <2>1 DEF Reached
  <2> QED BY <2>4, Facts DEF IInv, TypeOK
<1>1. CASE ord' = ord + 1 /\ Complete
  <2>1. Kind(ord) = "review"
    BY <1>1, ReviewFirst, Facts
  <2>2. /\ cp'.role = "review" /\ doc' = doc /\ doc.recovery = None /\ doc.review # None
        /\ snap' = None /\ run' = Idle /\ cache' = None
    BY <1>1, <2>1, ReviewCompleted DEF ValidateReport
  <2> QED BY <2>2 DEF Entry, Idle
<1>2. CASE ord' = ord
  <2>1. cp' = cp
    <3>1. ~Complete
      BY <1>2 DEF Complete, Calm, IInv, TypeOK
    <3>2. ~WriteAwaiting
      BY <1>0, <1>2 DEF WriteAwaiting, Current
    <3>3. ~WriteTurnCompleted
      <4>1. WriteTurnCompleted => cp \in Checkpoints /\ cp.ord = ord /\ cp' = [cp EXCEPT !.phase = "turnCompleted"]
        BY Facts DEF WriteTurnCompleted, At, Ordered, Matches, IInv, Reached
      <4>2. WriteTurnCompleted => cp'.ord = ord
        BY <4>1 DEF Checkpoints
      <4> QED BY <1>0, <1>2, <4>2 DEF Current
    <3> QED BY <3>1, <3>2, <3>3, Writers
  <2>2. /\ Kind(ord) = "remediate" /\ ~Current /\ cp # None /\ snap = None
        /\ run.pc \in {"idle", "restore", "enter", "start", "await", "rollback", "complete", "cleanup", "ended"}
        /\ doc.recovery = None /\ doc.review # None
    BY <1>0, <1>2, <2>1 DEF Current, Entry
  <2> USE <1>0, <1>2, <2>1, <2>2, CalmStep DEF Entry, Goto, Restore, At, Runs, durable, job, counters, history
  <2>3. CASE Review
    <3>1. CASE RestoreNothing
      BY <3>1 DEF RestoreNothing, AfterRestore
    <3>2. CASE Rollback
      BY <3>2, RollbackKeeps DEF Rollback, AfterRollback
    <3>3. ~RestoreImpossible /\ ~RestoreMarks /\ ~RestoreResets /\ ~RestoreRefills /\ ~RestoreUnchanged
          /\ ~DropIndex /\ ~DropMetadata /\ ~Prepare /\ ~Capture /\ ~Save
      BY DEF RestoreImpossible, RestoreMarks, RestoreResets, RestoreRefills, RestoreUnchanged, DropIndex,
             DropMetadata, Prepare, Capture, Save
    <3> QED BY <2>3, <3>1, <3>2, <3>3 DEF Review
  <2>4. CASE Turn
    <3>1. CASE StartTurn
      BY <3>1 DEF StartTurn
    <3>2. CASE CallTool
      <4>1. cache \in Documents /\ cache = doc /\ run.role = "remediation" /\ run.pc = "await"
        BY <3>2 DEF CallTool, IInv, Reached
      <4>2. doc' = cache' /\ cache'.recovery = cache.recovery /\ cache'.review = cache.review
        BY <3>2, <4>1, ToolKeepsRecovery DEF CallTool, Tool, SaveCached, Updated, Remediate, Documents
      <4>3. run'.pc = "await" /\ run'.role = "remediation" /\ snap' = snap
        BY <3>2, <4>1 DEF CallTool
      <4> QED BY <4>1, <4>2, <4>3
    <3>3. CASE ChangeTree
      BY <3>3 DEF ChangeTree
    <3>4. ~FinishTurn /\ ~WriteTurnCompleted /\ ~WriteAwaiting
      <4>1. ~WriteAwaiting
        BY DEF WriteAwaiting, Current
      <4> QED BY <4>1 DEF FinishTurn, WriteTurnCompleted
    <3> QED BY <2>4, <3>1, <3>2, <3>3, <3>4 DEF Turn
  <2>5. CASE Stage
    <3>1. CASE StartAttempt
      BY <3>1 DEF StartAttempt, Idle, Detached
    <3>2. CASE EnterRemediate
      <4>1. CASE ValidateRemediation(doc) /\ Approved(doc)
        BY <3>2, <4>1 DEF EnterRemediate
      <4>2. CASE ~(ValidateRemediation(doc) /\ Approved(doc))
        <5>1. run'.pc = "start" /\ run'.role = "remediation"
          BY <3>2, <4>2 DEF EnterRemediate, Begin, FirstStep
        <5> QED BY <3>2, <5>1 DEF EnterRemediate
      <4> QED BY <4>1, <4>2
    <3>3. CASE Cleanup
      BY <3>3 DEF Cleanup, Detached
    <3>4. CASE EndAttempt
      BY <3>4 DEF EndAttempt, Idle
    <3>5. ~EnterCurrent /\ ~EnterFresh /\ ~ResetState /\ ~ResetTree /\ ~EvaluateValid /\ ~EvaluateInvalid
          /\ ~Commit /\ ~DecideStage /\ ~DecideRemediate
      BY DEF EnterCurrent, EnterFresh, ResetState, ResetTree, EvaluateValid, EvaluateInvalid, Commit, DecideStage,
             DecideRemediate
    <3>6. ~Complete
      BY DEF Complete, Calm, IInv, TypeOK
    <3> QED BY <2>5, <3>1, <3>2, <3>3, <3>4, <3>5, <3>6 DEF Stage
  <2> QED BY <2>3, <2>4, <2>5 DEF Next
<1> QED BY <1>1, <1>2, StagesGoUp

\* No approval; nor in the rollback point; of that turn; and not newer than that.
Rejected(r) == r = None \/ r.verdict # "approve"
Tame(d) == d.recovery # None => Rejected(d.recovery.review)
Of(r, t) == r # None /\ r.turn = t
Older(d, g) == Rejected(d.review) /\ CurrentGeneration(d) >= g

\* A review is being prepared; or it runs, or what it left is about to be judged.
Preparing ==
    \/ run.pc \in {"prepare", "capture", "save"}
    \/ run.pc = "start" /\ run.role = "review"
    \/ run.pc \in {"restore", "drop"} /\ run.caller = "capture"
Reporting ==
    /\ run.role = "review"
    /\ \/ run.pc \in {"await", "turn", "finished", "evaluate"}
       \/ run.caller = "turn" /\ (run.pc = "restore" \/ (run.pc = "drop" /\ ~run.changed))

\* A remediation has an approval only from the review that its checkpoint is of,
\* or together with a rollback point that takes it back; the copy of the session
\* never brings back an older one.
Loop ==
    Kind(ord) = "remediate" =>
        /\ ValidateExecute(doc) /\ Tame(doc)
        /\ cache # None => ValidateExecute(cache) /\ Tame(cache)
        /\ Current /\ Approved(doc) /\ doc.recovery = None /\ ~(run.pc = "await" /\ run.role = "review") =>
               cp.role = "review" /\ ValidCheckpoint(doc, cp)
        /\ run.role = "remediation" /\ run.pc \in InTurn \cup {"evaluate", "commit", "decide"} =>
               Rejected(doc.review) /\ (cache # None => cache.review = doc.review)
        /\ Preparing => Rejected(doc.review) /\ (cache # None /\ cache.recovery = None => Older(cache, run.base.generation))
        /\ run.pc = "start" /\ run.role = "review" => doc.recovery # None
        /\ Reporting /\ cache # None =>
               /\ \/ doc = cache
                  \/ doc.recovery # None /\ Rejected(doc.review) /\ ~Of(doc.review, turns) /\ ~Of(cache.review, turns)
               /\ cache.recovery = None =>
                      IF Of(cache.review, turns)
                      THEN cache.review.generation > run.base.generation /\ cache.review.parent = run.base.parent
                      ELSE Older(cache, run.base.generation)
        /\ run.role = "review" /\ run.pc \in {"commit", "decide"} /\ cache # None => cache.review = doc.review
        /\ \/ run.pc \in {"idle", "ended", "enter"}
           \/ run.pc \in {"restore", "reset", "refill", "drop", "rollback"} /\ run.caller = "start"
           => doc.recovery = None
        /\ run.pc = "complete" => Approved(doc) /\ work < doc.review.turn

\* The operations on a rollback point, the units and an approval.
LEMMA RollbackTame ==
  ASSUME NEW d \in Documents, Tame(d)
  PROVE  /\ ValidateExecute(RollbackReview(d)) = ValidateExecute(d)
         /\ ValidateExecute(PrepareReview(d)) = ValidateExecute(d)
         /\ ValidateExecute(CommitReview(d)) = ValidateExecute(d)
         /\ RollbackReview(d).recovery = None /\ CommitReview(d).recovery = None
         /\ Rejected(d.review) \/ d.recovery # None => Rejected(RollbackReview(d).review)
         /\ Rejected(d.review) => Tame(PrepareReview(d)) /\ Rejected(PrepareReview(d).review)
<1>1. /\ RollbackReview(d).units = d.units /\ CommitReview(d).units = d.units
  BY DEF RollbackReview, CommitReview, Documents
<1>2. PrepareReview(d).units = d.units
  <2> DEFINE b == RollbackReview(d)
             base == [revision |-> b.revision, review |-> b.review, remediations |-> b.remediations, history |-> b.history]
  <2>1. b \in Documents /\ PrepareReview(d) = [b EXCEPT !.recovery = base] /\ b.units = d.units
    BY <1>1, RollbackTyped DEF PrepareReview
  <2> HIDE DEF b, base
  <2> QED BY <2>1 DEF Documents
<1>3. Rejected(d.review) \/ d.recovery # None => Rejected(RollbackReview(d).review)
  BY RollbackKeeps DEF Tame
<1>4. Rejected(d.review) => Tame(PrepareReview(d)) /\ Rejected(PrepareReview(d).review)
  BY <1>3, RollbackKeeps DEF Tame
<1> QED BY <1>1, <1>2, <1>3, <1>4, RollbackKeeps, RolledBack DEF ValidateExecute

\* What the tools of the loop do to the copy of the session.
LEMMA LoopTool ==
  ASSUME IInv, CallTool, run.role # "stage"
  PROVE  /\ doc' = cache' /\ cache \in Documents /\ cache # None
         /\ cache'.recovery = cache.recovery /\ ValidateExecute(cache') = ValidateExecute(cache)
         /\ \/ cache'.review = cache.review /\ CurrentGeneration(cache') = CurrentGeneration(cache)
            \/ /\ run.role = "review" /\ Of(cache'.review, turns) /\ cache'.review.parent = run.base.parent
               /\ Of(cache.review, turns) => cache'.review.generation >= cache.review.generation
               /\ ~Of(cache.review, turns) => cache'.review.generation = CurrentGeneration(cache) + 1
<1>0. cache \in Documents /\ cache # None /\ turns \in Nat /\ run.base.parent \in Nat /\ run.role \in Roles
  BY Facts DEF CallTool, IInv, TypeOK, Reached, Runs, Base
<1>1. cache'.recovery = cache.recovery
  BY <1>0, ToolKeepsRecovery DEF CallTool
<1>2. CASE SaveCached(cache)
  <2>1. doc' = cache' /\ cache'.units = cache.units /\ cache'.review = cache.review /\ cache'.history = cache.history
    BY <1>0, <1>2 DEF SaveCached, Updated, Documents
  <2> QED BY <1>0, <1>1, <2>1 DEF ValidateExecute, CurrentGeneration
<1>3. ASSUME NEW fs, SaveCached(Remediate(cache, fs))
      PROVE  doc' = cache' /\ cache'.units = cache.units /\ cache'.review = cache.review /\ cache'.history = cache.history
  BY <1>0, <1>3 DEF SaveCached, Updated, Remediate, Documents
<1>4. CASE \E fs \in SUBSET Findings : MayRemediate(cache, fs) /\ SaveCached(Remediate(cache, fs))
  BY <1>0, <1>1, <1>3, <1>4 DEF ValidateExecute, CurrentGeneration
<1>5. ASSUME run.role = "review", NEW v \in Verdicts, NEW fs \in SUBSET Findings,
             SaveCached(RecordReview(cache, turns, run.base.parent, v, fs))
      PROVE  /\ doc' = cache' /\ cache'.units = cache.units
             /\ Of(cache'.review, turns) /\ cache'.review.parent = run.base.parent
             /\ Of(cache.review, turns) => cache'.review.generation >= cache.review.generation
             /\ ~Of(cache.review, turns) => cache'.review.generation = CurrentGeneration(cache) + 1
  <2>1. cache' = Updated(RecordReview(cache, turns, run.base.parent, v, fs)) /\ doc' = cache'
    BY <1>5 DEF SaveCached
  <2> QED BY <1>0, <2>1, Recorded DEF Of, SameTurn
<1>6. CASE /\ run.role = "review"
           /\ \E v \in Verdicts, fs \in SUBSET Findings :
                MayReview(cache, v, fs) /\ SaveCached(RecordReview(cache, turns, run.base.parent, v, fs))
  BY <1>0, <1>1, <1>5, <1>6 DEF ValidateExecute
<1> QED BY <1>2, <1>4, <1>6 DEF CallTool, Tool

\* The report of the turn that ran, if it is newer than its base, is valid.
LEMMA ReportValid ==
  ASSUME NEW d, NEW c, ValidateExecute(d), Of(d.review, c.turn), SoundDoc(d, turns), c.role = "review",
         d.review.generation > c.base.generation, d.review.parent = c.base.parent
  PROVE  ValidCheckpoint(d, c)
BY DEF ValidCheckpoint, ValidateReview, ValidateReport, SoundDoc, Sound, Of

\* A calm step of a remediation, action by action.
LEMMA LoopStep ==
  ASSUME IInv, Next, Ordered, Roled, Unmarked, Sane, Sane', Calm', Dated, Entry, Loop,
         Kind(ord) = "remediate", ord' = ord, Kind(ord') = "remediate"
  PROVE  Loop'
<1>0. /\ doc \in Documents /\ cache \in Documents \cup {None} /\ turns \in Nat /\ work \in 0..turns
      /\ run \in Runs /\ cp \in Checkpoints /\ cp # None /\ run.base.generation \in Nat
      /\ ValidateExecute(doc) /\ Tame(doc) /\ (cache # None => ValidateExecute(cache) /\ Tame(cache))
  BY Facts DEF Detached, IInv, TypeOK, Runs, Base, Loop
<1>1. /\ ValidateExecute(RollbackReview(doc)) /\ ValidateExecute(PrepareReview(doc))
      /\ ValidateExecute(CommitReview(doc))
      /\ Tame(RollbackReview(doc)) /\ Tame(CommitReview(doc))
      /\ RollbackReview(doc).recovery = None /\ CommitReview(doc).recovery = None
      /\ CommitReview(doc).review = doc.review
      /\ doc.recovery = None => RollbackReview(doc) = doc
      /\ Rejected(doc.review) \/ doc.recovery # None => Rejected(RollbackReview(doc).review)
      /\ Rejected(doc.review) => Tame(PrepareReview(doc)) /\ Rejected(PrepareReview(doc).review)
      /\ PrepareReview(doc).recovery # None
  BY <1>0, RollbackTame, RollbackKeeps DEF Tame
<1>2. \A d : Approved(d) <=> ~Rejected(d.review)
  BY DEF Approved, Rejected
<1> USE <1>0, <1>1, <1>2, CalmStep DEF IInv, Reached, Kept, Restoring, Settled, InTurn, Reviewing, Runs,
      Loop, Preparing, Reporting, Goto, Restore, At, Callers, Idle, AfterRestore, AfterRollback, RestoreError, AfterTurn,
      durable, job, counters, history
<1>3. CASE RestoreNothing
  BY <1>3 DEF RestoreNothing, Current, Dated
<1>4. CASE RestoreImpossible
  BY <1>4 DEF RestoreImpossible, Current
<1>5. CASE RestoreMarks \/ RestoreResets
  BY <1>5 DEF RestoreMarks, RestoreResets, Current
<1>6. CASE RestoreRefills
  BY <1>6 DEF RestoreRefills, Current
<1>7. CASE RestoreUnchanged
  BY <1>7 DEF RestoreUnchanged, Current
<1>8. CASE DropIndex
  BY <1>8 DEF DropIndex, Current
<1>9. CASE DropMetadata
  <2>1. UNCHANGED <<doc, cp, cache, turns, work>> /\ run' = [run EXCEPT !.pc = run'.pc] /\ run.pc = "drop"
    BY <1>9 DEF DropMetadata
  <2>2. CASE run.changed
    <3>1. run'.pc \in {"enter", "cleanup", "ended"} /\ doc.recovery = None
      BY <1>9, <2>2, AfterRollbackTyped DEF DropMetadata, Unmarked
    <3> QED BY <2>1, <3>1 DEF Current
  <2>3. CASE ~run.changed
    <3>1. run'.pc = AfterRestore(FALSE)
      BY <1>9, <2>3 DEF DropMetadata
    <3> QED BY <2>1, <2>3, <3>1 DEF Current, Dated
  <2> QED BY <2>2, <2>3
<1>10. CASE Rollback
  BY <1>10 DEF Rollback, Current
<1>11. CASE Prepare
  BY <1>11 DEF Prepare, Current
<1>12. CASE Capture
  BY <1>12 DEF Capture, Current
<1>13. CASE Save
  BY <1>13 DEF Save, Current
<1>14. CASE StartTurn
  <2>1. /\ run'.pc = "await" /\ run'.role = run.role /\ run'.base = run.base /\ run.pc = "start" /\ run.role # "stage"
        /\ turns' = turns + 1 /\ cache' = (IF cache = None THEN doc ELSE cache) /\ UNCHANGED <<doc, cp, ord>>
    BY <1>14 DEF StartTurn, Ordered, Beginning
  <2>2. \A r \in Reports : r.turn <= turns => ~Of(r, turns')
    BY <2>1 DEF Of, Reports
  <2>3. /\ doc.review \in Reports \cup {None} /\ (cache # None => cache.review \in Reports \cup {None})
        /\ doc.review # None => doc.review.turn <= turns
        /\ cache # None /\ cache.review # None => cache.review.turn <= turns
    BY DEF Sane, SoundDoc, Sound, Documents
  <2>4. ~Of(doc.review, turns') /\ (cache # None => ~Of(cache.review, turns'))
    BY <2>2, <2>3 DEF Of
  <2> QED BY <2>1, <2>4 DEF Current
<1>15. CASE WriteAwaiting
  <2>1. /\ run'.pc = "turn" /\ run'.role = run.role /\ run'.base = run.base /\ run.pc = "await" /\ run.role # "stage"
        /\ UNCHANGED <<doc, cache, turns, work>> /\ cache # None
        /\ cp'.turn = turns /\ cp'.role = run.role /\ cp'.base = run.base
    BY <1>15 DEF WriteAwaiting, Ordered, Beginning
  <2>2. CASE run.role = "review"
    <3>1. Approved(doc) /\ doc.recovery = None => ValidCheckpoint(doc, cp')
      <4> SUFFICES ASSUME Approved(doc), doc.recovery = None PROVE ValidCheckpoint(doc, cp')
        OBVIOUS
      <4>1. doc = cache
        BY <2>1, <2>2
      <4>2. Of(doc.review, turns) /\ doc.review.generation > run.base.generation /\ doc.review.parent = run.base.parent
        BY <2>1, <2>2, <4>1 DEF Older
      <4> QED BY <2>1, <2>2, <4>2, ReportValid DEF Sane
    <3> QED BY <2>1, <2>2, <3>1
  <2>3. CASE run.role = "remediation"
    BY <2>1, <2>3
  <2> QED BY <2>2, <2>3, <2>1 DEF Roles
<1>16. CASE CallTool
  <2>1. /\ run'.pc = run.pc /\ run'.role = run.role /\ run'.base = run.base /\ run'.caller = run.caller
        /\ run'.changed = run.changed /\ run.pc \in {"await", "turn"}
        /\ UNCHANGED <<cp, turns, work>>
    BY <1>16 DEF CallTool
  <2>2. run.role \in {"review", "remediation"}
    BY <2>1 DEF Ordered, Beginning, Matches, Roles
  <2>3. /\ doc' = cache' /\ cache # None
        /\ cache'.recovery = cache.recovery /\ ValidateExecute(cache')
        /\ \/ cache'.review = cache.review /\ CurrentGeneration(cache') = CurrentGeneration(cache)
           \/ /\ run.role = "review" /\ Of(cache'.review, turns) /\ cache'.review.parent = run.base.parent
              /\ Of(cache.review, turns) => cache'.review.generation >= cache.review.generation
              /\ ~Of(cache.review, turns) => cache'.review.generation = CurrentGeneration(cache) + 1
    BY <1>16, <2>2, LoopTool
  <2>4. Tame(cache') /\ cache' # None
    <3>1. cache' \in Documents
      BY <1>16, <2>3, ToolTyped DEF CallTool, Base
    <3> QED BY <2>3, <3>1, NoneAssumption DEF Tame
  <2>5. CASE run.role = "remediation"
    BY <2>1, <2>3, <2>4, <2>5 DEF Current
  <2>6. CASE run.role = "review"
    <3>1. cache.recovery = None =>
              IF Of(cache'.review, turns)
              THEN cache'.review.generation > run.base.generation /\ cache'.review.parent = run.base.parent
              ELSE Older(cache', run.base.generation)
      <4>1. CurrentGeneration(cache) \in Nat
        BY <2>3, GenerationTyped
      <4>2. cache'.review # None => cache'.review.generation \in Nat
        BY <2>4, NextTyped DEF TypeOK, Documents, Reports
      <4>3. cache.review # None => cache.review.generation \in Nat
        BY <2>3 DEF Documents, Reports
      <4> QED BY <2>1, <2>3, <2>6, <4>1, <4>2, <4>3 DEF Of, Older
    <3>2. run.pc = "turn" /\ Approved(doc') /\ doc'.recovery = None => cp.role = "review" /\ ValidCheckpoint(doc', cp)
      <4> SUFFICES ASSUME run.pc = "turn", Approved(doc'), doc'.recovery = None
                   PROVE  cp.role = "review" /\ ValidCheckpoint(doc', cp)
        OBVIOUS
      <4>1. cp.turn = turns /\ cp.base = run.base /\ cp.role = "review"
        BY <2>6 DEF Dated, Ordered, Matches
      <4>2. Of(doc'.review, turns) /\ doc'.review.generation > run.base.generation /\ doc'.review.parent = run.base.parent
        BY <2>3, <3>1 DEF Older
      <4>3. SoundDoc(doc', turns)
        BY <2>1 DEF Sane
      <4> QED BY <2>3, <4>1, <4>2, <4>3, ReportValid
    <3> QED BY <2>1, <2>3, <2>4, <2>6, <3>1, <3>2 DEF Current
  <2> QED BY <2>2, <2>5, <2>6
<1>17. CASE ChangeTree
  BY <1>17 DEF ChangeTree, Current
<1>18. CASE FinishTurn
  BY <1>18 DEF FinishTurn, Current
<1>19. CASE WriteTurnCompleted
  <2>1. /\ run.pc = "finished" /\ run.role = cp.role /\ cp.role # "stage" /\ Current
        /\ UNCHANGED <<doc, cache, turns, work>>
        /\ run'.role = run.role /\ run'.base = run.base
    BY <1>19 DEF WriteTurnCompleted, Ordered, Matches, Current
  <2>2. cp'.role = cp.role /\ cp'.turn = cp.turn /\ cp'.base = cp.base /\ cp'.ord = cp.ord
    BY <1>19 DEF WriteTurnCompleted, Checkpoints
  <2>3. ValidCheckpoint(doc, cp') = ValidCheckpoint(doc, cp)
    BY <2>2 DEF ValidCheckpoint
  <2>4. CASE run.role = "review"
    <3>1. run'.pc = "restore" /\ run'.caller = "turn"
      BY <1>19, <2>4 DEF WriteTurnCompleted
    <3> QED BY <2>1, <2>2, <2>3, <2>4, <3>1
  <2>5. CASE run.role # "review"
    <3>1. run'.pc = "evaluate" /\ run.role = "remediation"
      BY <1>19, <2>1, <2>5 DEF WriteTurnCompleted, Roles
    <3> QED BY <2>1, <2>2, <2>3, <2>5, <3>1
  <2> QED BY <2>4, <2>5
<1>20. CASE StartAttempt
  BY <1>20 DEF StartAttempt, Current
<1>21. CASE EnterCurrent
  <2>1. /\ run'.pc = "evaluate" /\ run'.role = cp.role /\ run.pc = "enter" /\ cache = None /\ doc.recovery = None
        /\ UNCHANGED <<doc, cp, cache, turns, work>> /\ Current
    BY <1>21 DEF EnterCurrent, Dated
  <2>2. cp.role # "review" => Rejected(doc.review)
    BY <2>1
  <2> QED BY <2>1, <2>2 DEF Current
<1>22. CASE EnterRemediate
  <2>1. /\ run.pc = "enter" /\ cache = None /\ doc.recovery = None /\ doc.review # None /\ cp.role = "review"
        /\ UNCHANGED <<doc, cp, cache, turns, work>> /\ ~Current /\ ~Current'
    BY <1>22 DEF EnterRemediate, Dated, Entry, Current
  <2>2. CASE ValidateRemediation(doc) /\ Approved(doc)
    <3>1. /\ run'.pc = (IF ValidCheckpoint(doc, Shortcut) THEN "complete" ELSE "cleanup") /\ run'.role = "review"
      BY <1>22, <2>2 DEF EnterRemediate
    <3>2. ValidCheckpoint(doc, Shortcut) => doc.review.turn = cp.turn
      <4>1. Shortcut.role = "review" /\ Shortcut.turn = cp.turn
        BY DEF Shortcut, Checkpoints
      <4> QED BY <4>1 DEF ValidCheckpoint
    <3>3. work < cp.turn
      BY <2>1 DEF Dated
    <3> QED BY <2>1, <2>2, <3>1, <3>2, <3>3
  <2>3. CASE ~(ValidateRemediation(doc) /\ Approved(doc))
    <3>1. run'.pc = "start" /\ run'.role = "remediation"
      BY <1>22, <2>3 DEF EnterRemediate, Begin, FirstStep
    <3>2. Rejected(doc.review)
      <4>1. Approved(doc) => ValidateRemediation(doc)
        BY DEF Approved, ValidateRemediation, ValidateReport, Sane, SoundDoc, Sound
      <4> QED BY <2>3, <4>1
    <3> QED BY <2>1, <3>1, <3>2
  <2> QED BY <2>2, <2>3
<1>23. ~EnterFresh /\ ~ResetState /\ ~ResetTree /\ ~DecideStage /\ ~Complete
  BY DEF EnterFresh, ResetState, ResetTree, DecideStage, Complete, Calm, TypeOK
<1>24. CASE EvaluateValid
  <2>1. /\ run'.pc = "commit" /\ run'.role = run.role /\ run.pc = "evaluate" /\ run.role = cp.role /\ Judged
        /\ UNCHANGED <<doc, cp, cache, turns, work>>
    BY <1>24 DEF EvaluateValid, Ordered, Matches
  <2>2. run.role = "review" /\ cache # None => cache.review = doc.review
    <3> SUFFICES ASSUME run.role = "review", cache # None PROVE cache.review = doc.review
      OBVIOUS
    <3>1. cp.turn = turns /\ ValidCheckpoint(doc, cp)
      BY <2>1 DEF Dated, Judged
    <3>2. Of(doc.review, turns)
      BY <2>1, <3>1 DEF ValidCheckpoint, ValidateReview, ValidateReport, Of
    <3> QED BY <2>1, <3>2
  <2> QED BY <2>1, <2>2 DEF Current
<1>25. CASE EvaluateInvalid
  <2>1. /\ run.pc = "evaluate" /\ ~ValidCheckpoint(doc, cp) /\ Current /\ run.role = cp.role /\ run.role # "stage"
        /\ UNCHANGED <<cp, cache, turns, work>> /\ run'.role = run.role /\ run'.base = run.base
    BY <1>25 DEF EvaluateInvalid, Judged, Dated, Ordered, Matches, Current
  <2>2. Rejected(doc.review) \/ doc.recovery # None
    BY <2>1
  <2>3. CASE run.role = "review"
    <3>1. doc' = RollbackReview(doc) /\ Rejected(doc'.review) /\ doc'.recovery = None
      BY <1>25, <2>2, <2>3 DEF EvaluateInvalid
    <3>2. run'.pc \in {"prepare", "cleanup"}
      BY <1>25, <2>3 DEF EvaluateInvalid, FirstStep
    <3>3. cache # None /\ cache.recovery = None => Older(cache, run.base.generation)
      <4> SUFFICES ASSUME cache # None, cache.recovery = None, Of(cache.review, turns) PROVE FALSE
        BY <2>1, <2>3
      <4>1. doc = cache
        BY <2>1, <2>3
      <4>2. cp.turn = turns /\ cp.base = run.base
        BY <2>1 DEF Dated
      <4>3. doc.review.generation > run.base.generation /\ doc.review.parent = run.base.parent
        BY <2>1, <2>3, <4>1
      <4>4. Of(doc.review, cp.turn) /\ SoundDoc(doc, turns) /\ cp.role = "review"
        BY <2>1, <2>3, <4>1, <4>2 DEF Sane
      <4>5. ValidCheckpoint(doc, cp)
        BY <4>2, <4>3, <4>4, ReportValid
      <4> QED BY <2>1, <4>5
    <3> QED BY <2>1, <2>3, <3>1, <3>2, <3>3 DEF Current
  <2>4. CASE run.role = "remediation"
    <3>1. doc' = doc /\ run'.pc \in {"start", "cleanup"}
      BY <1>25, <2>4 DEF EvaluateInvalid, FirstStep
    <3> QED BY <2>1, <2>4, <3>1 DEF Current
  <2> QED BY <2>1, <2>3, <2>4 DEF Roles
<1>26. CASE Commit
  <2>1. /\ run.pc = "commit" /\ run'.pc = "decide" /\ run'.role = run.role /\ run.role = cp.role
        /\ UNCHANGED <<cp, cache, turns, work>> /\ ValidCheckpoint(doc, cp)
    BY <1>26 DEF Commit, Dated, Ordered, Matches
  <2>2. CASE run.role = "review"
    <3>1. doc' = CommitReview(doc) /\ ValidCheckpoint(doc', cp)
      BY <1>26, <2>1, <2>2, CommitValid DEF Commit
    <3> QED BY <2>1, <2>2, <3>1 DEF Current
  <2>3. CASE run.role # "review"
    <3>1. doc' = doc
      BY <1>26, <2>3 DEF Commit
    <3> QED BY <2>1, <2>3, <3>1 DEF Current
  <2> QED BY <2>2, <2>3
<1>27. CASE DecideRemediate
  <2>1. /\ run.pc = "decide" /\ run.role = cp.role /\ cp.role # "stage" /\ Current
        /\ UNCHANGED <<doc, cp, cache, turns, work>>
        /\ ValidCheckpoint(doc, cp)
    BY <1>27 DEF DecideRemediate, Dated, Ordered, Matches, Current
  <2>2. CASE Approved(doc)
    <3>1. run'.pc = "complete" /\ run'.role = run.role
      BY <1>27, <2>2 DEF DecideRemediate
    <3>2. cp.role = "review"
      BY <2>1, <2>2 DEF Roles
    <3>3. doc.review.turn = cp.turn /\ work < cp.turn
      BY <2>1, <3>2 DEF ValidCheckpoint, Dated
    <3> QED BY <2>1, <2>2, <3>1, <3>2, <3>3 DEF Current
  <2>3. CASE ~Approved(doc) /\ run.role = "remediation"
    <3>1. Begin("review", run.cycle, ReviewBase)
      BY <1>27, <2>3 DEF DecideRemediate
    <3>2. run'.pc = "prepare" /\ run'.role = "review" /\ run'.base = ReviewBase
      BY <3>1 DEF Begin, FirstStep
    <3>3. cache # None => Older(cache, ReviewBase.generation)
      <4> SUFFICES ASSUME cache # None PROVE Older(cache, ReviewBase.generation)
        OBVIOUS
      <4>1. cache.review = doc.review /\ Rejected(cache.review)
        BY <2>1, <2>3
      <4>2. CurrentGeneration(cache) \in Nat
        BY GenerationTyped
      <4>3. ReviewBase.generation = IF doc.review = None THEN 0 ELSE doc.review.generation
        BY DEF ReviewBase
      <4>4. doc.review # None => doc.review.generation \in Nat /\ CurrentGeneration(cache) = doc.review.generation
        BY <4>1 DEF CurrentGeneration, Documents, Reports
      <4> QED BY <4>1, <4>2, <4>3, <4>4 DEF Older
    <3> QED BY <2>1, <2>3, <3>2, <3>3 DEF Current
  <2>4. CASE ~Approved(doc) /\ run.role = "review"
    <3>1. CASE run' = [run EXCEPT !.pc = "cleanup", !.terminal = TRUE]
      BY <2>1, <2>4, <3>1 DEF Current
    <3>2. CASE Begin("remediation", run.cycle + 1, RevisionBase)
      <4>1. run'.pc = "start" /\ run'.role = "remediation"
        BY <3>2 DEF Begin, FirstStep
      <4> QED BY <2>1, <2>4, <4>1 DEF Current
    <3> QED BY <1>27, <2>4, <3>1, <3>2 DEF DecideRemediate
  <2> QED BY <2>1, <2>2, <2>3, <2>4 DEF Roles
<1>28. CASE EndAttempt
  BY <1>28 DEF EndAttempt, Current
<1>29. CASE Cleanup
  <2>1. run'.pc = "restore" /\ run'.caller = "cleanup" /\ UNCHANGED <<doc, cp, cache, turns, work>> /\ run.pc = "cleanup"
    BY <1>29 DEF Cleanup, Detached
  <2> QED BY <2>1 DEF Current
<1> QED BY <1>3, <1>4, <1>5, <1>6, <1>7, <1>8, <1>9, <1>10, <1>11, <1>12, <1>13, <1>14, <1>15, <1>16, <1>17, <1>18, <1>19, <1>20, <1>21, <1>22, <1>23, <1>24, <1>25, <1>26, <1>27, <1>28, <1>29
  DEF Next, Review, Turn, Stage

\* A remediation also begins that way.
LEMMA NextLoop ==
  ASSUME IInv, Next, Ordered, Roled, Unmarked, Sane, Sane', Calm', Dated, Entry, Loop
  PROVE  Loop'
<1> SUFFICES ASSUME Kind(ord') = "remediate" PROVE Loop'
  BY DEF Loop
<1>1. CASE ord' = ord
  BY <1>1, LoopStep
<1>2. CASE ord' = ord + 1 /\ Complete
  <2>1. Kind(ord) = "review"
    BY <1>2, ReviewFirst, Facts
  <2>2. /\ doc' = doc /\ doc.recovery = None /\ ValidateExecute(doc) /\ run' = Idle /\ cache' = None /\ cp \in Checkpoints
    BY <1>2, <2>1, ReviewCompleted
  <2>3. cp'.ord = ord /\ ord \in Nat
    BY <1>2, <2>2, Facts DEF Complete, Checkpoints
  <2>4. ~Current'
    BY <1>2, <2>3 DEF Current
  <2> QED BY <2>2, <2>4 DEF Loop, Tame, Idle, Preparing, Reporting, InTurn
<1> QED BY <1>1, <1>2, StagesGoUp

\* What the job shipped, if nothing failed.
Ships == Sane /\ (Calm => Dated /\ Entry /\ Loop) /\ ApprovedIsWhatShips

\* Together with the last step of the job:
LEMMA NextShips ==
  ASSUME IInv, Next, Ordered, Roled, Unmarked, Ships
  PROVE  Ships'
<1>1. Sane'
  BY NextSane DEF Ships
<1>2. Calm' => Dated' /\ Entry' /\ Loop'
  BY <1>1, CalmStep, NextDated, NextEntry, NextLoop DEF Ships
<1>3. ApprovedIsWhatShips'
  <2> SUFFICES ASSUME faults' = 0, status' = "succeeded", Kind(LastOrdinal) = "remediate"
               PROVE  Approved(doc') /\ tree' = work' /\ work' < doc'.review.turn
    BY DEF ApprovedIsWhatShips
  <2>1. status = "running"
    BY OnlyRunning
  <2>2. Complete
    BY <2>1, Writers DEF EndAttempt
  <2>3. /\ Calm /\ ord = LastOrdinal /\ run.pc = "complete" /\ UNCHANGED <<doc, tree, work>>
    BY <2>1, <2>2, StageLoopAssumption DEF Complete, At, Calm, counters, history, IInv, TypeOK
  <2>4. Approved(doc) /\ work < doc.review.turn
    BY <2>3 DEF Ships, Loop
  <2>5. tree = work
    BY <2>3 DEF IInv, Kept, Settled
  <2> QED BY <2>3, <2>4, <2>5
<1> QED BY <1>1, <1>2, <1>3 DEF Ships

\* A job that nothing failed in and that ends with a remediation ships what was
\* approved: its report approves, and no turn has implemented anything since the
\* turn of that report began, whatever its reviews wrote and however often its
\* attempts were resumed (run_remediation_loop).
THEOREM ShipsWhatWasApproved == Spec => []ApprovedIsWhatShips
<1>1. Init => Ordered /\ Roled /\ Unmarked /\ Ships
  <2>1. Init => Ordered /\ Roled /\ Unmarked
    BY StageLoopAssumption DEF Init, Unmarked, Ordered, Beginning, Roled, InTurn, DefaultState, Idle
  <2>2. Init => Sane /\ ApprovedIsWhatShips
    BY DEF Init, Sane, SoundDoc, Sound, DefaultState, Idle, ApprovedIsWhatShips
  <2>3. Init => Dated
    BY DEF Init, Dated, Idle
  <2>4. Init => Kind(ord) = "plan"
    BY DEF Init, Kind
  <2> QED BY <2>1, <2>2, <2>3, <2>4 DEF Ships, Entry, Loop
<1>2. (Ordered /\ Roled /\ Unmarked /\ Ships) /\ UNCHANGED vars => (Ordered /\ Roled /\ Unmarked /\ Ships)'
  <2>1. Unmarked /\ UNCHANGED vars => Unmarked'
    BY DEF Unmarked, vars
  <2>2. Ordered /\ UNCHANGED vars => Ordered'
    BY DEF Ordered, Beginning, Matches, Follows, Position, vars
  <2>3. Roled /\ UNCHANGED vars => Roled'
    BY DEF Roled, vars
  <2>4. Ships /\ UNCHANGED vars => Ships'
    BY DEF Ships, Sane, Calm, Dated, Entry, Loop, ApprovedIsWhatShips, Current, Preparing, Reporting, vars
  <2> QED BY <2>1, <2>2, <2>3, <2>4
<1>3. (Ordered /\ Roled /\ Unmarked /\ Ships) => ApprovedIsWhatShips
  BY DEF Ships
<1> QED BY <1>1, <1>2, <1>3, NextUnmarked, NextOrdered, NextRoled, NextShips, Invariant, PTL DEF Spec

=============================================================================
