----------------------------- MODULE StageLoop ------------------------------
(***************************************************************************)
(* What an attempt does inside a stage of a factory.task job: resume from  *)
(* the newest checkpoint, run a turn of the embedded agent, judge what it  *)
(* left behind, and for a remediation alternate repair and review          *)
(* (runtime/src/executor/{mod,stage_loop,resume}.rs).  A detached review   *)
(* runs between a snapshot of the worktree (coordinator/src/workspace.rs)  *)
(* and a rollback point in the Factory state document.                     *)
(*                                                                         *)
(* - One attempt runs at a time: the lease fences the document and the     *)
(*   checkpoints, the advisory lock the worktree (modules Coordinator and  *)
(*   Runner).  It may crash between any two durable writes.                *)
(* - doc is the document in the store.  cache is the copy the extension    *)
(*   keeps for one session: its tools work on the copy and save it whole,  *)
(*   the executor reads and writes the store.                              *)
(* - Turns are numbered as they start.  tree is the turn that last changed *)
(*   the worktree, 0 the base revision, None a half restored tree.         *)
(* - mutators, work and accepted are history variables: the reviews that   *)
(*   changed the worktree, the implementing turn that last did, and the    *)
(*   last report a decision was taken on.                                  *)
(* - Bounds: MaxFaults crashes and failures (an agent, HTTP or git call    *)
(*   that fails), MaxCalls of Factory tools in a turn.                     *)
(***************************************************************************)
EXTENDS FactoryState

CONSTANTS
    LastOrdinal,        \* the stages of the job are 0..LastOrdinal
    MaxReviewCycles,    \* max_review_cycles of the executor
    MaxAttempts,        \* max_attempts of each stage
    MaxFaults, MaxCalls

ASSUME StageLoopAssumption ==
    /\ LastOrdinal \in Nat /\ MaxReviewCycles \in Nat \ {0}
    /\ MaxAttempts \in [0..LastOrdinal -> Nat \ {0}] /\ MaxFaults \in Nat /\ MaxCalls \in Nat

VARIABLES
    doc, cp, snap, tree, done,          \* durable: document, newest checkpoint, snapshot, worktree, finished turns
    cache, run,                         \* of the session and of the attempt that runs
    ord, status, attempts, cancelling,  \* the job: current stage, state, used attempts, cancellation requested
    turns, faults,                      \* counters
    mutators, work, accepted            \* history

durable == <<doc, cp, snap, tree, done>>
job == <<ord, status, attempts, cancelling>>
counters == <<turns, faults>>
history == <<mutators, work, accepted>>
vars == <<doc, cp, snap, tree, done, cache, run, ord, status, attempts, cancelling,
          turns, faults, mutators, work, accepted>>

Kinds == {"plan", "execute", "review", "remediate", "iterate"}
Roles == {"stage", "remediation", "review"}
Phases == {"awaiting", "turnCompleted", "completed"}

\* OperationKind::at_ordinal: four base stages, then rounds of three.
Kind(n) ==
    CASE n = 0 -> "plan"
      [] n = 1 -> "execute"
      [] n = 2 -> "review"
      [] n = 3 -> "remediate"
      [] n > 3 /\ (n - 4) % 3 = 0 -> "iterate"
      [] n > 3 /\ (n - 4) % 3 = 1 -> "review"
      [] OTHER -> "remediate"

Places ==
    {"idle", "restore", "reset", "refill", "drop", "rollback", "enter", "resetState", "resetTree", "prepare",
     "capture", "save", "start", "await", "turn", "finished", "evaluate", "commit", "decide", "complete", "cleanup", "ended"}

\* What the attempt goes on with once a snapshot has been dealt with.
Callers == {"start", "capture", "save", "turn", "cleanup"}

Base == [revision : Nat, generation : Nat, parent : Nat]
Checkpoints ==
    [ord : Nat, phase : Phases, role : Roles, cycle : Nat, turn : Nat, base : Base]
Snapshots == [tree : Nat \cup {None}, mutated : BOOLEAN, index : BOOLEAN]

ASSUME NoneIsNoRecord == None \notin Checkpoints /\ None \notin Snapshots

NoBase == [revision |-> 0, generation |-> 0, parent |-> 0]
Idle == [pc |-> "idle", caller |-> "start", changed |-> FALSE, ok |-> TRUE, mayRerun |-> FALSE,
         role |-> "stage", cycle |-> 0, base |-> NoBase, calls |-> 0, terminal |-> FALSE, drain |-> FALSE]

Detached(kind) == kind \in {"review", "remediate"}
Current == cp # None /\ cp.ord = ord

TypeOK ==
    /\ doc \in Documents
    /\ cache \in Documents \cup {None}
    /\ cp \in Checkpoints \cup {None}
    /\ snap \in Snapshots \cup {None}
    /\ tree \in Nat \cup {None}
    /\ done \subseteq 1..turns
    /\ run \in [pc : Places, caller : Callers, changed : BOOLEAN, ok : BOOLEAN, mayRerun : BOOLEAN, role : Roles,
                cycle : Nat, base : Base, calls : Nat, terminal : BOOLEAN, drain : BOOLEAN]
    /\ ord \in 0..LastOrdinal /\ attempts \in 0..MaxAttempts[ord]
    /\ status \in {"running", "succeeded", "failed", "cancelled"}
    /\ cancelling \in BOOLEAN
    /\ turns \in Nat /\ faults \in 0..MaxFaults
    /\ mutators \subseteq 1..turns /\ work \in 0..turns
    /\ accepted \in Reports \cup {None}

Init ==
    /\ doc = DefaultState /\ cp = None /\ snap = None /\ tree = 0 /\ done = {}
    /\ cache = None /\ run = Idle
    /\ ord = 0 /\ status = "running" /\ attempts = 0 /\ cancelling = FALSE
    /\ turns = 0 /\ faults = 0
    /\ mutators = {} /\ work = 0 /\ accepted = None

At(place) == run.pc = place
Goto(place) == run' = [run EXCEPT !.pc = place]
Restore(caller) == run' = [run EXCEPT !.pc = "restore", !.caller = caller]

\* An agent, HTTP, git or database call of the attempt fails.
Failure == faults < MaxFaults /\ faults' = faults + 1

-----------------------------------------------------------------------------
(* An attempt begins.                                                      *)

\* execute_operation up to the new session; a cancelling job only gets
\* cleanup_cancelled_operation, which starts none.
StartAttempt ==
    /\ At("idle") /\ status = "running"
    /\ cache' = None
    /\ LET fresh == ~cancelling /\ Kind(ord) = "plan" IN
       /\ tree' = IF fresh THEN 0 ELSE tree
       /\ work' = IF fresh THEN 0 ELSE work
    /\ run' = IF cancelling
              THEN [Idle EXCEPT !.pc = "cleanup", !.drain = TRUE]
              ELSE [Idle EXCEPT !.pc = IF Detached(Kind(ord)) THEN "restore" ELSE "enter"]
    /\ UNCHANGED <<doc, cp, snap, done, job, counters, mutators, accepted>>

\* POST /jobs/{jobId}/cancel.
RequestCancel ==
    /\ status = "running" /\ ~cancelling
    /\ cancelling' = TRUE
    /\ UNCHANGED <<durable, cache, run, ord, status, attempts, counters, history>>

-----------------------------------------------------------------------------
(* Dealing with the snapshot of a review: recover_review_snapshot,         *)
(* restore_review_snapshot and acknowledge_review_mutation.                *)

\* Where the attempt goes when the worktree is as it was before the review.
AfterRestore(changed) ==
    CASE run.caller = "start" -> IF changed THEN "rollback" ELSE "enter"
      [] run.caller = "capture" -> IF changed THEN "cleanup" ELSE "capture"
      [] run.caller = "save" -> "cleanup"
      [] run.caller = "turn" -> IF changed \/ ~run.ok THEN "rollback" ELSE "evaluate"
      [] run.caller = "cleanup" -> "rollback"

\* Where it goes when the document is rolled back and the marker is gone.
AfterRollback ==
    CASE run.caller = "start" -> "enter"
      [] run.caller = "turn" -> "cleanup"
      [] run.caller = "cleanup" -> "ended"

SnapshotChanged == snap.mutated \/ tree # snap.tree

\* No metadata: there is nothing to restore.
RestoreNothing ==
    /\ At("restore") /\ snap = None
    /\ run' = [run EXCEPT !.pc = AfterRestore(FALSE), !.changed = FALSE]
    /\ UNCHANGED <<durable, cache, job, counters, history>>

\* Metadata without the saved index is an error.  Only the cleanup of an
\* attempt goes on after it: it still rolls the document back.
RestoreError ==
    run' = [run EXCEPT !.pc = IF run.caller = "cleanup" THEN "rollback" ELSE "cleanup",
                       !.changed = FALSE, !.ok = FALSE, !.terminal = FALSE]

RestoreImpossible ==
    /\ At("restore") /\ snap # None /\ ~snap.index
    /\ RestoreError
    /\ UNCHANGED <<durable, cache, job, counters, history>>

\* A git command fails.
RestoreFails ==
    /\ run.pc \in {"restore", "reset", "refill"} /\ snap # None
    /\ Failure
    /\ RestoreError
    /\ UNCHANGED <<durable, cache, job, turns, history>>

\* Mutant: the marker is not written before the worktree is touched.
RestoreWithoutMarker ==
    /\ At("restore") /\ snap # None /\ snap.index /\ SnapshotChanged
    /\ Goto("reset")
    /\ UNCHANGED <<durable, cache, job, counters, history>>

\* The marker is durable before the first git command.
RestoreMarks ==
    /\ At("restore") /\ snap # None /\ snap.index /\ SnapshotChanged
    /\ snap' = [snap EXCEPT !.mutated = TRUE]
    /\ Goto("reset")
    /\ UNCHANGED <<doc, cp, tree, done, cache, job, counters, history>>

\* Mutant: the snapshot is removed before the worktree is filled again.
RestoreForgets ==
    /\ At("reset")
    /\ tree' = None /\ snap' = None
    /\ Goto("refill")
    /\ UNCHANGED <<doc, cp, done, cache, job, counters, history>>

\* checkout, reset and clean; then read-tree and the saved index.
RestoreResets ==
    /\ At("reset")
    /\ tree' = None
    /\ Goto("refill")
    /\ UNCHANGED <<doc, cp, snap, done, cache, job, counters, history>>

RestoreRefills ==
    /\ At("refill")
    /\ tree' = snap.tree
    /\ run' = [run EXCEPT !.pc = AfterRestore(TRUE), !.changed = TRUE]
    /\ UNCHANGED <<doc, cp, snap, done, cache, job, counters, history>>

RestoreUnchanged ==
    /\ At("restore") /\ snap # None /\ snap.index /\ ~SnapshotChanged
    /\ run' = [run EXCEPT !.pc = "drop", !.changed = FALSE]
    /\ UNCHANGED <<durable, cache, job, counters, history>>

\* remove_dir_all deletes the files in the order the directory lists them.
DropIndex ==
    /\ At("drop") /\ snap.index
    /\ snap' = [snap EXCEPT !.index = FALSE]
    /\ UNCHANGED <<doc, cp, tree, done, cache, run, job, counters, history>>

DropMetadata ==
    /\ At("drop")
    /\ snap' = None
    /\ Goto(IF run.changed THEN AfterRollback ELSE AfterRestore(FALSE))
    /\ UNCHANGED <<doc, cp, tree, done, cache, job, counters, history>>

\* rollback_detached_review, before the marker is acknowledged.
Rollback ==
    /\ At("rollback")
    /\ doc' = RollbackReview(doc)
    /\ Goto(IF run.changed THEN "drop" ELSE AfterRollback)
    /\ UNCHANGED <<cp, snap, tree, done, cache, job, counters, history>>

-----------------------------------------------------------------------------
(* Where the stage goes on.                                                *)

ValidCheckpoint(d, c) ==
    CASE c.role = "stage" ->
            IF Kind(c.ord) = "plan"
            THEN ValidatePlan(d) /\ d.revision > c.base.revision
            ELSE ValidateExecute(d) /\ (Kind(c.ord) = "iterate" \/ d.revision > c.base.revision)
      [] c.role = "remediation" ->
            ValidateRemediation(d) /\ (d.review.verdict = "approve" \/ d.revision > c.base.revision)
      [] c.role = "review" ->
            ValidateReview(d, c.base.generation, c.base.parent) /\ d.review.turn = c.turn

\* The base of a turn that starts now; a review also names what it reviews.
RevisionBase == [NoBase EXCEPT !.revision = doc.revision]
ReviewBase ==
    [revision |-> doc.revision, parent |-> cp.turn,
     generation |-> IF doc.review = None THEN 0 ELSE doc.review.generation]

\* The first step of a turn of the given role.
FirstStep(role) ==
    CASE Kind(ord) = "plan" -> "resetState"
      [] role = "review" -> "prepare"
      [] OTHER -> "start"

Begin(role, cycle, base) ==
    run' = [run EXCEPT !.pc = FirstStep(role), !.caller = "start", !.role = role, !.cycle = cycle, !.base = base]

Approved(d) == d.review # None /\ d.review.verdict = "approve"

\* Mutant: a recovered loop counts its cycles from one.
EnterForgetsCycle ==
    /\ At("enter") /\ Current
    /\ run' = [run EXCEPT !.pc = "evaluate", !.mayRerun = cp.phase # "completed",
                          !.role = cp.role, !.cycle = IF cp.cycle > 1 THEN 1 ELSE cp.cycle,
                          !.base = IF Kind(ord) = "plan" THEN NoBase ELSE cp.base]
    /\ UNCHANGED <<durable, cache, job, counters, history>>

\* A stage that has a checkpoint is judged by it first.
EnterCurrent ==
    /\ At("enter") /\ Current
    /\ run' = [run EXCEPT !.pc = "evaluate", !.mayRerun = cp.phase # "completed",
                          !.role = cp.role, !.cycle = cp.cycle,
                          !.base = IF Kind(ord) = "plan" THEN NoBase ELSE cp.base]
    /\ UNCHANGED <<durable, cache, job, counters, history>>

\* A stage without one starts its first turn.
EnterFresh ==
    /\ At("enter") /\ ~Current /\ Kind(ord) # "remediate"
    /\ CASE Kind(ord) = "plan" -> Begin("stage", 0, NoBase)
         [] Kind(ord) = "review" -> Begin("review", 0, ReviewBase)
         [] OTHER -> Begin("stage", 0, RevisionBase)
    /\ UNCHANGED <<durable, cache, job, counters, history>>

\* A remediation has nothing to do after an approval: it completes from the
\* checkpoint of the review.
Shortcut == [cp EXCEPT !.ord = ord, !.phase = "completed", !.role = "review", !.cycle = 1]

EnterRemediate ==
    /\ At("enter") /\ ~Current /\ Kind(ord) = "remediate"
    /\ IF ValidateRemediation(doc) /\ Approved(doc)
       THEN run' = [run EXCEPT !.pc = IF ValidCheckpoint(doc, Shortcut) THEN "complete" ELSE "cleanup",
                               !.terminal = ~ValidCheckpoint(doc, Shortcut),
                               !.role = "review", !.cycle = 1, !.base = cp.base]
       ELSE Begin("remediation", 1, RevisionBase)
    /\ UNCHANGED <<durable, cache, job, counters, history>>

\* restore_plan_baseline, before a planning turn and after a failed one.
ResetState ==
    /\ At("resetState")
    /\ doc' = DefaultState
    /\ Goto("resetTree")
    /\ UNCHANGED <<cp, snap, tree, done, cache, job, counters, history>>

ResetTree ==
    /\ At("resetTree")
    /\ tree' = 0 /\ work' = 0
    /\ Goto(IF run.caller = "cleanup" THEN "ended" ELSE "start")
    /\ UNCHANGED <<doc, cp, snap, done, cache, job, counters, mutators, accepted>>

-----------------------------------------------------------------------------
(* A detached review is prepared: prepare_detached_review.                 *)

Prepare ==
    /\ At("prepare")
    /\ doc' = RollbackReview(doc)
    /\ Restore("capture")
    /\ UNCHANGED <<cp, snap, tree, done, cache, job, counters, history>>

\* capture_review_snapshot; the metadata is the last file it writes.
Capture ==
    /\ At("capture")
    /\ snap' = [tree |-> tree, mutated |-> FALSE, index |-> TRUE]
    /\ Goto("save")
    /\ UNCHANGED <<doc, cp, tree, done, cache, job, counters, history>>

Save ==
    /\ At("save")
    /\ doc' = PrepareReview(doc)
    /\ Goto("start")
    /\ UNCHANGED <<cp, snap, tree, done, cache, job, counters, history>>

SaveFails ==
    /\ At("save") /\ Failure
    /\ Restore("save")
    /\ UNCHANGED <<durable, cache, job, turns, history>>

-----------------------------------------------------------------------------
(* A turn: run_turn from start_review or start_text_turn on.               *)

\* The extension reads the document when the first turn of a session starts.
StartTurn ==
    /\ At("start")
    /\ turns' = turns + 1
    /\ cache' = IF cache = None THEN doc ELSE cache
    /\ run' = [run EXCEPT !.pc = "await", !.calls = 0]
    /\ UNCHANGED <<durable, job, faults, history>>

WriteAwaiting ==
    /\ At("await")
    /\ cp' = [ord |-> ord, phase |-> "awaiting", role |-> run.role, cycle |-> run.cycle,
              turn |-> turns, base |-> run.base]
    /\ Goto("turn")
    /\ UNCHANGED <<doc, snap, tree, done, cache, job, counters, history>>

\* FactoryThreadState::update: the cached document is changed and saved whole.
SaveCached(d) ==
    /\ cache' = Updated(d)
    /\ doc' = Updated(d)

\* The tools a turn may call, by its stage; activity of subagents is also
\* recorded.  The turn runs from its start, before its checkpoint is written.
Tool ==
    \/ /\ run.role = "stage" /\ Kind(ord) = "plan" /\ MayDecompose(cache)
       /\ SaveCached(Decompose(cache))
    \/ /\ run.role = "stage" /\ Kind(ord) = "execute"
       /\ \E u \in Units : MayProgress(cache, u) /\ SaveCached(Progress(cache, u))
    \/ /\ run.role = "review"
       /\ \E v \in Verdicts, fs \in SUBSET Findings :
              MayReview(cache, v, fs) /\ SaveCached(RecordReview(cache, turns, run.base.parent, v, fs))
    \/ /\ run.role = "remediation"
       /\ \E fs \in SUBSET Findings : MayRemediate(cache, fs) /\ SaveCached(Remediate(cache, fs))
    \/ SaveCached(cache)

CallTool ==
    /\ run.pc \in {"await", "turn"} /\ run.calls < MaxCalls
    /\ Tool
    /\ run' = [run EXCEPT !.calls = @ + 1]
    /\ UNCHANGED <<cp, snap, tree, done, job, counters, history>>

\* A command of the turn changes the worktree; nothing but the snapshot keeps
\* a plan or a review from it.
ChangeTree ==
    /\ run.pc \in {"await", "turn"} /\ tree # turns
    /\ tree' = turns
    /\ IF run.role = "review"
       THEN mutators' = mutators \cup {turns} /\ UNCHANGED work
       ELSE work' = turns /\ UNCHANGED mutators
    /\ UNCHANGED <<doc, cp, snap, done, cache, run, job, counters, accepted>>

FinishTurn ==
    /\ At("turn")
    /\ done' = done \cup {turns}
    /\ Goto("finished")
    /\ UNCHANGED <<doc, cp, snap, tree, cache, job, counters, history>>

\* A review goes on with its snapshot whatever became of the turn.
AfterTurn(ok) ==
    run' = IF run.role = "review"
           THEN [run EXCEPT !.pc = "restore", !.caller = "turn", !.ok = ok]
           ELSE [run EXCEPT !.pc = IF ok THEN "evaluate" ELSE "cleanup", !.ok = ok]

WriteTurnCompleted ==
    /\ At("finished")
    /\ cp' = [cp EXCEPT !.phase = "turnCompleted"]
    /\ AfterTurn(TRUE)
    /\ UNCHANGED <<doc, snap, tree, done, cache, job, counters, history>>

TurnFails ==
    /\ run.pc \in {"start", "await", "turn", "finished"} /\ Failure
    /\ AfterTurn(FALSE)
    /\ UNCHANGED <<durable, cache, job, turns, history>>

-----------------------------------------------------------------------------
(* The result is judged.                                                   *)

Judged == (cp.phase # "awaiting" \/ cp.turn \in done) /\ ValidCheckpoint(doc, cp)

EvaluateValid ==
    /\ At("evaluate") /\ Judged
    /\ Goto("commit")
    /\ UNCHANGED <<durable, cache, job, counters, history>>

\* A review without a valid report is rolled back; a recovered turn is run
\* again with the base it had.
EvaluateInvalid ==
    /\ At("evaluate") /\ ~Judged
    /\ doc' = IF run.role = "review" THEN RollbackReview(doc) ELSE doc
    /\ IF run.mayRerun
       THEN run' = [run EXCEPT !.pc = FirstStep(run.role), !.caller = "start", !.mayRerun = FALSE]
       ELSE run' = [run EXCEPT !.pc = "cleanup", !.terminal = cp.phase = "completed"]
    /\ UNCHANGED <<cp, snap, tree, done, cache, job, counters, history>>

\* commit_detached_review.
Commit ==
    /\ At("commit")
    /\ doc' = IF run.role = "review" THEN CommitReview(doc) ELSE doc
    /\ accepted' = IF run.role = "review" THEN doc.review ELSE accepted
    /\ Goto("decide")
    /\ UNCHANGED <<cp, snap, tree, done, cache, job, counters, mutators, work>>

\* Mutant: a plan is not checked against its worktree.
DecideStageUnchecked ==
    /\ At("decide") /\ Kind(ord) # "remediate"
    /\ Goto("complete")
    /\ UNCHANGED <<durable, cache, job, counters, history>>

\* A plan must have left the worktree as it found it.
DecideStage ==
    /\ At("decide") /\ Kind(ord) # "remediate"
    /\ Goto(IF Kind(ord) = "plan" /\ tree # 0 THEN "cleanup" ELSE "complete")
    /\ UNCHANGED <<durable, cache, job, counters, history>>

\* Mutant: a repair completes the stage without a review.
DecideUnreviewed ==
    /\ At("decide") /\ Kind(ord) = "remediate"
    /\ CASE Approved(doc) \/ run.role = "remediation" -> Goto("complete")
         [] ~Approved(doc) /\ run.role = "review" /\ run.cycle >= MaxReviewCycles ->
                run' = [run EXCEPT !.pc = "cleanup", !.terminal = TRUE]
         [] OTHER -> Begin("remediation", run.cycle + 1, RevisionBase)
    /\ UNCHANGED <<durable, cache, job, counters, history>>

\* A repair is reviewed, a rejected repair is repaired again, up to the bound.
DecideRemediate ==
    /\ At("decide") /\ Kind(ord) = "remediate"
    /\ CASE Approved(doc) -> Goto("complete")
         [] ~Approved(doc) /\ run.role = "remediation" -> Begin("review", run.cycle, ReviewBase)
         [] ~Approved(doc) /\ run.role = "review" /\ run.cycle >= MaxReviewCycles ->
                run' = [run EXCEPT !.pc = "cleanup", !.terminal = TRUE]
         [] OTHER -> Begin("remediation", run.cycle + 1, RevisionBase)
    /\ UNCHANGED <<durable, cache, job, counters, history>>

-----------------------------------------------------------------------------
(* The attempt ends.                                                       *)

\* The settlement writes the final checkpoint and opens the next stage.
Complete ==
    /\ At("complete") /\ ~cancelling
    /\ cp' = [cp EXCEPT !.ord = ord, !.phase = "completed", !.role = run.role,
                        !.cycle = run.cycle, !.base = run.base]
    /\ IF ord < LastOrdinal
       THEN ord' = ord + 1 /\ attempts' = 0 /\ UNCHANGED status
       ELSE status' = "succeeded" /\ UNCHANGED <<ord, attempts>>
    /\ run' = Idle /\ cache' = None
    /\ UNCHANGED <<doc, snap, tree, done, cancelling, counters, history>>

\* The store refuses it once cancellation is requested; the attempt may not
\* have noticed before.
CompleteRefused ==
    /\ At("complete") /\ cancelling
    /\ run' = Idle /\ cache' = None
    /\ UNCHANGED <<durable, job, counters, history>>

\* Before a turn or a step of the remediation loop, during a turn, and when the
\* session has been shut down, the attempt looks for the cancellation.
NoticeCancel ==
    /\ cancelling /\ ~run.drain
    /\ \/ run.pc = "turn" /\ AfterTurn(FALSE)
       \/ /\ \/ run.pc \in {"prepare", "complete"}
             \/ run.pc = "start" /\ run.role # "review"
             \/ run.pc = "evaluate" /\ Kind(ord) = "remediate"
          /\ Goto("cleanup")
    /\ UNCHANGED <<durable, cache, job, counters, history>>

\* Any other call of the attempt fails; in its cleanup that is the end of it.
StepFails ==
    /\ run.pc \in {"enter", "resetState", "resetTree", "prepare", "capture", "evaluate", "commit", "decide",
                   "complete", "rollback", "drop"}
    /\ Failure
    /\ run' = [run EXCEPT !.pc = IF run.caller = "cleanup" THEN "ended" ELSE "cleanup",
                          !.ok = FALSE, !.terminal = FALSE]
    /\ UNCHANGED <<durable, cache, job, turns, history>>

\* Mutant: the cleanup leaves the snapshot of the review alone.
CleanupStateOnly ==
    /\ At("cleanup")
    /\ run' = CASE Kind(ord) = "plan" /\ (run.drain => cp # None) -> [run EXCEPT !.pc = "resetState", !.caller = "cleanup"]
                [] Kind(ord) = "plan" /\ run.drain /\ cp = None -> [run EXCEPT !.pc = "resetTree", !.caller = "cleanup"]
                [] Detached(Kind(ord)) -> [run EXCEPT !.pc = "rollback", !.caller = "cleanup", !.changed = FALSE]
                [] OTHER -> [run EXCEPT !.pc = "ended"]
    /\ UNCHANGED <<durable, cache, job, counters, history>>

\* A plan goes back to its baseline, a review or remediation restores the
\* worktree and rolls the document back.  Without a checkpoint the drain of a
\* plan knows no document.
Cleanup ==
    /\ At("cleanup")
    /\ run' = CASE Kind(ord) = "plan" /\ (run.drain => cp # None) -> [run EXCEPT !.pc = "resetState", !.caller = "cleanup"]
                [] Kind(ord) = "plan" /\ run.drain /\ cp = None -> [run EXCEPT !.pc = "resetTree", !.caller = "cleanup"]
                [] Detached(Kind(ord)) -> [run EXCEPT !.pc = "restore", !.caller = "cleanup"]
                [] OTHER -> [run EXCEPT !.pc = "ended"]
    /\ UNCHANGED <<durable, cache, job, counters, history>>

\* Mutant: a drain ends like the attempt that was cancelled.
EndDrainUnacknowledged ==
    /\ At("ended")
    /\ run' = Idle /\ cache' = None
    /\ IF cancelling
       THEN UNCHANGED <<status, attempts>>
       ELSE /\ attempts' = attempts + 1
            /\ status' = IF run.terminal \/ attempts + 1 = MaxAttempts[ord] THEN "failed" ELSE status
    /\ UNCHANGED <<durable, ord, cancelling, counters, history>>

\* A failure uses up an attempt; a cancellation is drained, until a drain
\* succeeds.
EndAttempt ==
    /\ At("ended")
    /\ run' = Idle /\ cache' = None
    /\ IF cancelling
       THEN /\ status' = IF run.drain /\ run.ok THEN "cancelled" ELSE status
            /\ UNCHANGED attempts
       ELSE /\ attempts' = attempts + 1
            /\ status' = IF run.terminal \/ attempts + 1 = MaxAttempts[ord] THEN "failed" ELSE status
    /\ UNCHANGED <<durable, ord, cancelling, counters, history>>

\* The process dies; its lease runs out and another one takes the attempt.
Crash ==
    /\ ~At("idle") /\ Failure
    /\ run' = Idle /\ cache' = None
    /\ UNCHANGED <<durable, job, turns, history>>

-----------------------------------------------------------------------------

Review ==
    \/ RestoreNothing \/ RestoreImpossible \/ RestoreFails \/ RestoreMarks \/ RestoreResets \/ RestoreRefills
    \/ RestoreUnchanged \/ DropIndex \/ DropMetadata \/ Rollback
    \/ Prepare \/ Capture \/ Save \/ SaveFails

Turn ==
    \/ StartTurn \/ WriteAwaiting \/ CallTool \/ ChangeTree \/ FinishTurn \/ WriteTurnCompleted \/ TurnFails

Stage ==
    \/ StartAttempt \/ EnterCurrent \/ EnterFresh \/ EnterRemediate \/ ResetState \/ ResetTree
    \/ EvaluateValid \/ EvaluateInvalid \/ Commit \/ DecideStage \/ DecideRemediate
    \/ Complete \/ CompleteRefused \/ NoticeCancel \/ StepFails \/ Cleanup \/ EndAttempt

Next == Review \/ Turn \/ Stage \/ RequestCancel \/ Crash

Spec == Init /\ [][Next]_vars

\* An attempt that runs goes on, and an expired one is taken over; every turn
\* of the agent ends.
Fairness == WF_vars(Review \/ Turn \/ Stage)

LiveSpec == Spec /\ Fairness

-----------------------------------------------------------------------------
(* Properties.                                                             *)

\* What implementing turns left in the worktree is never lost: it is in the
\* worktree, or in the snapshot from which every path restores it, whatever a
\* review writes and wherever the process dies (capture_review_snapshot,
\* restore_review_snapshot_metadata).
WorkIsNeverLost == tree = work \/ (snap # None /\ snap.tree = work)

\* A snapshot is never left behind for a turn that implements: its recovery
\* would undo that turn.
NoSnapshotWhileImplementing ==
    run.pc \in {"start", "await", "turn", "finished"} /\ run.role # "review" => snap = None

\* A report is judged, and a stage completed, only in the worktree that was
\* reviewed.
JudgedInCleanTree ==
    run.pc \in {"evaluate", "commit", "decide", "complete"} \/ status \in {"succeeded", "cancelled"} =>
        snap = None /\ tree = work

\* Together: at every point of a detached review, and of the recovery of one,
\* worktree and snapshot are where the next owner expects them.
ReviewInv == TypeOK /\ WorkIsNeverLost /\ NoSnapshotWhileImplementing /\ JudgedInCleanTree

\* No decision of the first review of a job is taken on the report of a turn
\* that changed the worktree, and once one is taken the report is not undone:
\* later reports only replace it, whatever is rolled back on the way
\* (restore_review_snapshot, commit_detached_review).
FirstReviewSound ==
    ord = 2 /\ accepted # None =>
        /\ accepted.turn \notin mutators
        /\ doc.review # None /\ doc.review.generation >= accepted.generation

\* A job that ends with a remediation ships what was approved: its report
\* approves, and no turn has implemented anything since that review began.  An
\* attempt that dies in the loop can break this, so it is stated without faults.
ApprovedIsWhatShips ==
    faults = 0 /\ status = "succeeded" /\ Kind(LastOrdinal) = "remediate" =>
        Approved(doc) /\ tree = work /\ work < doc.review.turn

\* A recovered loop neither skips a review nor repeats a cycle: the checkpoints
\* of one stage only alternate repair and review, and over all its attempts and
\* recoveries it has no more than max_review_cycles (run_remediation_loop).
Position(c) == 2 * c.cycle + (IF c.role = "review" THEN 1 ELSE 0)
CyclesInOrder ==
    [][cp' # None /\ cp' # cp =>
           /\ cp'.cycle <= MaxReviewCycles
           /\ cp # None /\ cp'.ord = cp.ord =>
                  Position(cp') \in {Position(cp), Position(cp) + 1}]_vars

\* A plan that completes has changed nothing but the document: execution starts
\* in the base revision with every unit pending.
PlanIsPure == [][ord = 0 /\ ord' = 1 => tree = 0 /\ ValidatePlan(doc) /\ doc' = doc]_vars

\* A cancelled job leaves no trace of a review its stage has not finished.  An
\* iteration alone may keep a rollback point, of the remediation before it: one
\* that is resumed after a crash in its review completes on the report it finds,
\* and cleanup_cancelled_operation rolls back reviews and remediations only.
CancelledIsClean ==
    status = "cancelled" =>
        snap = None /\ tree = work /\ (Kind(ord) # "iterate" => doc.recovery = None)

\* Every job ends, whatever fails or crashes on the way.  The one thing that
\* can keep it from ending is a snapshot half removed by a crash, metadata
\* without index: recover_review_snapshot refuses it in every later attempt.
HalfRemoved == snap # None /\ ~snap.index
Settles == []<>~HalfRemoved => <>(status # "running")

=============================================================================
