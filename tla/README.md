# Software Factory: a TLA+ verification project

Factory takes a task, plans it, implements it, reviews it and remediates it with
coding agents. This directory holds TLA+ modules for the parts of Factory that
decide *who may do what, when*, the TLC configurations that check them, and
proofs of the main safety properties. `PROJECT.json` maps every definition to the
source lines it models and lists runs, mutants, hazards, findings and theorems.

Paths below are relative to `src/factory-harness/factory/` unless they start with
`src/`. Nearly everything else under `src/factory-harness/` is the vendored
upstream Codex workspace (`codex-rs`, over nine tenths of the repository's lines);
of it only the client task that Factory waits on is modelled.

## 1. Inventory

| Component | State it keeps | Operations that change it | Hard behaviour |
|---|---|---|---|
| **Durable store** `coordinator/src/store/{jobs,attempts,recovery}.rs` | PostgreSQL rows: jobs, operations (stages), attempts with owner, lease epoch and expiry, checkpoints, thread state, correlations | create, continue, cancel, claim/recover, renew, relinquish, checkpoint, settle, acknowledge cancellation | leases that expire under a live owner, transfer under a new epoch, cancellation racing settlement, retry budgets, several processes |
| **Environment rows** `coordinator/src/store/environments.rs` | one row per job: generation, desired state, status, backend locator | ensure, reserve locator, mark ready/failed, request release, mark released, reactivate | a release in flight against a reactivation; unfenced reconcilers |
| **Environment backends** `runtime/src/execution_environment.rs`, `kubernetes_*.rs` | Docker containers, pods | inspect, adopt, replace, create, start, stop, delete | objects that outlive the process that made them; deletion that takes time |
| **Event log** `coordinator/src/store/events.rs`, `cli/src/main.rs` | append-only rows numbered by an identity column; a follower's cursor | append attempt/job event, list page, follow | numbering order is not commit order; paging at the end; retried appends |
| **Attempt runner** `coordinator/src/runner.rs`, `store/workspace_locks.rs` | per slot: a lease handle, an executor task, a point in the loop | claim, heartbeat, job control, shutdown, drain, settle, cleanup | heartbeat, cancellation, shutdown and executor result race; paused processes |
| **Executor and stage loop** `runtime/src/executor/*`, `runtime/src/{stages,checkpoint}.rs` | the resume point, the embedded session, the review cycle | execute a stage, remediate in cycles, restore a Plan, detached review commit/rollback | crash between checkpoint and effect; cycle bounds |
| **Workspace manager** `coordinator/src/workspace.rs` | git mirrors, linked worktrees, review snapshots on disk, the workspace row | ensure, restore, recreate, remove, capture/recover/acknowledge snapshot | filesystem and database are not one transaction; locks on a bounded pool |
| **Session bridge** `runtime/src/{session,events,bootstrap}.rs`, `bin/factory_worker.rs` | an embedded Codex thread, its turns, text still to be written | start, resume, wait for a turn, answer, interrupt, shut down | a full channel, a flapping link, lag, late writes |
| **Factory extension** `extension/src/*` | a revisioned state document, memory, the record of subagents | tool calls that move plan, work and review state; archive and projection of activities | a cached document beside the stored one; side-by-side calls |
| **CLI** `cli/src/*` | configuration, the transcript, a profile lock | run, attach, continue, cancel, apply | following a job that changes underneath |
| **Providers** `providers/src/*` | a stream being assembled | translate requests and streamed responses | partial stream items |
| **Artifacts** `coordinator/src/{artifacts,stage_output}.rs` | none of its own (derived files) | render, publish | best effort only |

How they interact. Users call `factoryd` over HTTP (`coordinator/src/http.rs`),
which runs transactions of the store. Each worker process polls
`claim_next_recovery`, and every claim starts a `run_attempt` task that spawns an
executor task and then listens, in one `select!`, to the executor's result, the
lease heartbeat, the job's status and the shutdown signal. The executor holds a
PostgreSQL advisory lock on the job's worktree from before it touches it until
its session has ended, brings the execution environment up through fenced calls,
resumes from the newest checkpoint, and lets an embedded Codex session run turns,
whose tools change the job's state document. A review turn runs between a
snapshot of the worktree and a rollback point in that document. Release of an
environment is asked for in the transaction that ends the job and carried out by
any worker's reconciler. All coordination is through the database, the advisory
locks and the worktree: workers never talk to each other.

What makes each part correct:

* store: one live owner per job; no stage early, none redone; a cancellation is
  never overwritten; a settled attempt is history; a job that is not over can
  move; an heir resumes from everything its predecessors saved;
* environment: never taken down under an attempt that may still settle, one
  object at a time, nothing left behind once the row says released;
* runner: the executor has stopped before anybody declares the job over; one
  user per worktree; cancellation and retries come to an end;
* event log: a follower sees every event of an attempt once, and ends;
* stage loop: no crash loses implemented work or lets a review change it; a report
  is judged only on the tree that was reviewed; cycles are bounded and in order;
* workspaces: base and result survive repeated requests; a published cache stays;
  requests never wait for each other in a circle;
* session: a wait ends for the reason it reports, and it ends;
* extension: accepted plans can be worked off; nothing leaves the document that
  is not archived.

## 2. Modules

| Module | Models | Built on |
|---|---|---|
| `Coordinator` | the durable store and its view of the environment row: every transaction an action | - |
| `JobLifecycle` | abstract: what a client is promised about a job | - |
| `CoordinatorRefinement` | the mapping under which `Coordinator` implements `JobLifecycle` | `Coordinator` |
| `EventStream` | event log of one job, its writers, one follower | - |
| `Runner` | `run_attempt` and the executor of every slot, the worktree and its lock | `Coordinator` |
| `FactoryState` | the state document, the tools and the validation of stages, as operators | - |
| `StageLoop` | one job's stages from inside: resume, turns, review snapshot, rollback, remediation cycles | `FactoryState` |
| `WorkUnits` | acceptance and working off of a decomposition | - |
| `Environments` | environment row, backend objects, executors and reconcilers call by call | - |
| `Workspaces` | worktrees, the git cache, locks, gate and connection pool | - |
| `Session` | `wait_for_completion` between app server, client task, link and attempt | - |
| `TurnEvents` | persistence of streamed text and notifications | - |
| `Subagents` | archive and projection of subagent activities | - |
| `StoreProofs` | theorems about `Coordinator`, its refinement of `JobLifecycle`, and `Runner` | `Runner`, `CoordinatorRefinement`, TLAPS |
| `SessionProofs` | theorems about `Session` and about its event writer, `TurnEvents` | `Session`, `TurnEvents`, TLAPS |
| `EventStreamProofs`, `StageLoopProofs`, `WorkUnitsProofs`, `SubagentsProofs`, `WorkspacesProofs`, `EnvironmentsProofs` | theorems about the module of that name | the module, TLAPS |
| `MC*` | the instances TLC checks | the module |

Operators whose comment begins with *Mutant* are used by no specification. Each
is the operator below it with one plausible mistake; put in its place it makes the
property named in `PROJECT.json` fail.

**Coordinator.** One variable per table, plus `claim`: the `RecoveryLease` each slot
of each worker holds, which may be stale. A transaction is one action. That is
what the code gives: claims and `lock_attempt_context` take the rows `FOR UPDATE`,
and renew, relinquish and mark-released are single updates whose `WHERE` is the
guard. A transaction that returns an error changes nothing, so an error path is
the action not being enabled (what the caller then does is `Runner`'s subject).
`Fenced(s)` is the check every write of a worker starts with: attempt running,
same owner, same epoch, lease not expired. Time is a countdown per lease and per
retry delay, so an order of expirations is not fixed. A claim may take any
claimable job, since `SKIP LOCKED` makes the creation order a preference only.
`ResumePoint` is the `ORDER BY ... LIMIT 1` of the recovery query. A checkpoint is
the lease epoch that wrote it, which is all that the properties tell apart.

**JobLifecycle** has three variables per job: a phase, how many stages there are
and which have passed. Leases, attempts, retries and environments are hidden;
`CoordinatorRefinement` maps `queued` and `running` to open, `cancelling` to stopping.

**EventStream.** Inserting a row numbers it; committing makes it visible. An attempt
inserts under the job row's `FOR UPDATE` lock. `append_job_event` takes none, but the
foreign key of `factory_job_events` makes it wait, *after* it was numbered, while an
attempt holds that lock. The follower is the CLI's loop: drain pages after an
exclusive cursor, load the job, and drain once more if it is terminal. A
continuation makes a terminal job active again, and the follower may detach and
attach anew.

**Runner.** `run[s]` is where `run_attempt` is, `exec[s]` where the executor task is or
how it ended, `lock[j]` who holds the advisory lock, and `tree[j]` which stages' files
the worktree holds beyond the recorded revision. Every action that reaches the
store *is* the corresponding action of `Coordinator`, conjoined with the local step,
so a refused call is a separate action guarded by the negated fence
(`RenewalRefused`, `SettleRefused`, `ExecRefused`, `CancellationRefused`). A slot may pause
anywhere: its lease then expires, another slot takes over, and both go on. Every
arm of the `select!` but the executor's own result cancels the executor and waits
for it (`Drained`) before it proceeds. An executor that finds its workspace removed, or a
job that is not a Factory task, fails for good before it touches the worktree. Cleanup takes the worktree lock, is fenced
only if there was a checkpoint to resume from (`CleanupAllowed`), and does not renew
the lease.

**FactoryState and StageLoop.** The document is a record of revision, units, report,
remediations, history and rollback point; `Decompose`, `Progress`, `RecordReview`,
`Remediate`, `PrepareReview`, `RollbackReview`, `CommitReview` are the functions of
`extension/src/{tools,model}.rs`, the `Validate...` operators those of
`runtime/src/stages.rs`. In `StageLoop` the durable state is the stored document, the
newest checkpoint, the snapshot, the worktree and the finished turns; volatile are
the attempt's program counter and the copy of the document the extension keeps
for a session, which its tools change and save whole (`SaveCached`) while the
executor works on the store. One action per durable write: a crash may come
between any two, including the steps of a restore (mark, reset, refill) and of the
removal of a snapshot (index, then metadata). Turns are numbered; the worktree is
the number of the turn that last changed it. `mutators`, `work` and `accepted` are
history variables. One attempt at a time: that is what `Coordinator` and `Runner` show.

**WorkUnits** runs the loop of `validate_acyclic`, batch by batch and with the units
of a batch in any order (they come from a hash map), on every graph over `Ids`, and
then the progress tool on an accepted one.

**Environments.** Every call of a backend is an action, so a process may be overtaken
between inspecting an object and acting on it. Objects have an identity, a
namespace, a generation, an image and a phase; a pod that is deleted terminates
first. A behaviour belongs to one of the `Deployments`: backend, who takes part, the
image and namespace each process is configured with, the number of faults. Faults
are crashes, expired leases, dying objects, failing calls and the loss of the lock's
database session.

**Workspaces.** A request (`ensure`, `remove`, `refresh`, `export`, `continue`, or an attempt,
`execute`) acquires, in the order its code does, a connection of its process's lock pool,
the job's advisory lock, the mutation gate, a second connection and the repository's
advisory lock (`Entry`, `Further`), then does its git and database steps one at a time. An
attempt claims the operation that is next (`Claim`) and loads its row (`LoadContext`) before
it waits for the locks; which operation that was, and what the row said then, decides
what it does once it has them (`StartExecution`, `Restore`). Its lease may be lost at any
point, also during that wait, and another attempt may then claim the job (`LeaseExpires`,
`Claim`): the restoration of a Plan goes on regardless, provisioning and settling are
fenced. Revisions are numbers; a commit that the agent makes is revision 0, which
`refresh` records like any other head. How a job is cancelled is left to `Runner`. A
behaviour belongs to one of the `Workloads`: the requests that arrive and where.

**Session.** The server emits events, the client's worker task forwards them through
a channel of `Capacity` slots (lossless ones wait, the others are dropped and
counted), the session's biased `select!` takes cancellation, the recovery deadline,
the link and the server, in this order. The link is a watch that keeps only its last
value. What the log says of the link (`notice`) is what *this* wait has said: a wait
that starts connected emits nothing, whatever an earlier one said last. Time is
counted in ticks up to the recovery deadline. `Rollback` and `Close` are
what `run_turn` and `execute` do after the wait of a review turn.

**TurnEvents** models `TextCoalescer` and the event writer: pending text, cutting at
the byte limit between characters, flushing before every other event, and
completions that carry only text that was not streamed, as `compact` leaves it
(`Compact`: no white space at the end of a line, at most one empty line, none at either
end). A character is the time it was sent, its width and whether it is ink, space or
the end of a line, so order and loss show. The store may
refuse any event, the last one too (`End`); what the executor then still reports is
`ReportError`. The loop of `push` is the recursive
function `Cut`. **Subagents** models a contribution as three steps (read, archive one by
one, update under the document's lock) of calls that run side by side. The loop of
`bounded_projection` that walks back over the activities is the recursive function
`Walk`, its body `Visit`.

## 3. Runs

| Run | Expect | Distinct states | Instance |
|---|---|---|---|
| `stages` | pass | 853k | two slots of *one* process, 2 stages and a continuation of one, the first stage with 2 attempts, 2 lease generations |
| `event_log` | pass | 865k | 2 attempts, 2 concurrent job-event writers, one key, pages of 2, a follower, a continuation |
| `worktree` | pass | 474k | 2 workers, 2 stages and a continuation, every fault, workspace removal in any status |
| `progress` | pass | 274k | 2 workers, one stage of 2 attempts, each of 2 checkpoints and 2 lease generations, no removal |
| `stale_plan` | violation | - | 2 workers, Plan and Execute, one attempt each (finding, section 5) |
| `stage` | pass | 872k | four stages, 2 review cycles, 2 attempts of a review, one fault at any step, one tool call per turn |
| `release` | pass | 391k | five deployments: pods or containers, 2 executors and a reconciler or 1 and 2, one or two images and namespaces, 1 or 2 faults, 2 generations |
| `meetings` | pass | 375k | seven workloads of 4 to 6 requests for 2 jobs in up to 4 processes (2 daemons, 2 workers), up to 3 attempts at a job, 3 connections each, at most one fault |
| `wait` | pass | 328k | channel of 1, window of 1 tick, 3 events of any kind, 2 changes of the link, every fault |
| `text` | pass | 411k | a message, a reasoning of 2 parts, a command; a character of 3 bytes and an end of line of 1, limit 2, 3 characters or events (1.3M states with a wide space besides, with the same result) |
| `archive` | pass | 11k | 3 calls with 2 contributions each, a projection of 3, an old document of 3, one failure |
| `graphs` | pass | 17k | all 4096 graphs over 4 units, and those over fewer |

What they show, by property:

* `stages`: the rows of job, stages, attempts and environment agree (`Inv`; from it the
  proofs derive that stages start in order, that a terminal job is quiet and an open
  one has work, and that no environment is released early), at most one slot passes
  the fence (`FenceExclusive`), every claim resumes from the newest checkpoint of the
  job (`ProgressNotForked`), a requested cancellation sticks (`CancellationSticks`), and
  a client sees a job lifecycle (`ImplementsLifecycle`).
* `event_log`: no cursor passes an attempt event that was not printed
  (`AttemptEventsDelivered`), a follower that ends has printed all of them
  (`FinalReplayComplete`), keyed events are unique (`KeyedEventsOnce`), the follower ends
  (`FollowerEnds`).
* `worktree`: runners do only what the store allows (`StoreSpec`, a refinement), nobody
  still works when a job is terminal (`TerminalIsDrained`), and no worktree has two
  users (`WorktreeExclusive`).
* `progress`: a cancellation is acknowledged (`CancellationCompletes`) and a job ends
  (`JobEnds`).
* `stage`: `ReviewInv` says that implemented work survives every crash
  (`WorkIsNeverLost`), that no snapshot lies under an implementing turn and that reports
  are judged in the tree that was reviewed. The first review's decision is sound
  (`FirstReviewSound`), cycles are bounded and in order across resumes (`CyclesInOrder`),
  plans are pure (`PlanIsPure`), a cancelled job leaves no trace of a review
  (`CancelledIsClean`, with an exception for iterations, section 5), what ships is what was approved (`ApprovedIsWhatShips`, without
  faults), every job ends (`Settles`).
* `release`: nothing is left when the row says released (`ReleasedIsGone`); `ObjectInv`
  says that there is one object at a time and that the owner keeps it; a reconciler
  overtaken by a continuation spares the new object even if the lock is lost
  (`ActiveIsSpared`); a job is provisioned and its object goes away (`Provisioned`,
  `EventuallyGone`).
* `meetings`: `RequestInv` says that a worktree is always at its recorded base or at a
  commit of the agent (`RebuiltAtBase`), that a continuation has a worktree and that the
  pool's headroom suffices (`HeadroomSuffices`). A result is destroyed only by a removal or by
  a Plan that lost its lease while it waited for the locks, never by the attempt that has
  the lease (`ResultKept`; that such a Plan does it is the finding of section 5), a
  published cache stays (`PublishedCacheKept`), and no requests wait for each other for
  ever (`RequestsEnd`).
* `wait`: `WaitInv` says that a turn expires only while the link is down and after the
  full window, and that the notices of one wait match the link. Only the own turn's completion
  counts (`OwnTurnDecides`), a review leaves no trace (`ReviewLeavesNoTrace`), and
  `NothingHangs`: ended, cancelled and disconnected turns are reported, requests are
  answered.
* `text`: the log shows everything once and in order (`LogInArrivalOrder`); no text is
  lost, whole where it was streamed and compacted where it came with its completion
  only, and chunks are cut between characters and within the limit (`TextInv`). The second
  says which characters of a stream the log has, the first in which order: together, that
  it has exactly the text.
* `archive`: what the document drops is archived (`DroppedIsArchived`), and the newest
  activity about every child stays, unless a later activity of the same call no longer
  names it (`ProjectionInv`).
* `graphs`: only acyclic graphs are accepted, they are worked off in the order of their
  dependencies and never get stuck (`PlanInv`), and only cyclic graphs are refused by the
  search, in whatever order it visits them (`RefusedIsCyclic`). Whether the agent goes on to
  complete its units is its own choice, and nothing is claimed about it.

A `...Inv` is the conjunction of a module's type invariant and of the named
invariants stated above it in the module; each part can be put into the `.cfg` by
itself.

**Bounds.** Two slots are enough for the properties of the store and the runner,
because each relates at most two holders of the same job (old owner and heir), and
the theorems lift it to any number. Two lease generations give a stale handle
beside a live one. Jobs never touch each other's rows (`UntouchedJob` in the proofs),
so these runs use one job; `Workspaces` has two, because they share a cache. One tick
of lease, backoff or window distinguishes "not yet" from "over", which is all a
guard asks. Two review cycles give a first, a middle and a last turn of the
remediation loop. One fault can come at every step, and recovery from it runs
through the whole of the code's recovery path; with containers, two. The other
bounds (`MaxEpoch`, `AttemptLimit`, `MaxCheckpoints`, `MaxRounds`, `MaxSeq`, `MaxGen`,
`MaxObjects`, `MaxCalls`, `MaxEvents`, `MaxFlaps`, `MaxSent`) cut off counters only.

**Symmetry** permutes slots, in `stages` and `worktree` only, where every property is
an invariant or a safety property.

**Deadlock** is not checked: a finished job with no continuation left, a wait that has
returned, or a bound reached is a proper end. That nobody is stuck before that is
what the liveness properties say.

**Fairness.** Weak unless said otherwise, and never on users, faults, heartbeats or
the agent's choices.

* `EventStream`: the follower's requests are answered (`FetchPage`, `LoadJob`).
* `Runner`: some worker keeps polling (`DurableRunner::run` claims and reconciles on
  every `poll_interval`), the tasks of a slot are scheduled and their requests
  answered, a turn of the agent ends, clocks advance. Faults and expirations are
  allowed only while the bound leaves another lease generation (`Spare`, `LeaseTick`):
  liveness is claimed for finitely many faults, which is all it can be claimed for,
  since a lease transfer does not use up an attempt.
* `StageLoop`: the attempt that runs takes its next step, and a worker starts the next
  attempt.
* `Environments`: somebody claims, an executor and whoever deletes take their next
  step, reconcilers list, the cluster ends a deleted pod.
* `Workspaces`: each request takes its next step; a request that waits for a
  connection for too long times out (`acquire_timeout`).
* `Session`: the client's task and the session are scheduled and time passes. Serving
  an answer is strongly fair: the client's `select!` picks at random among the
  branches that are ready, so a command that is ready again and again is taken.

## 4. Proofs

All theorems hold for every value of the constants that satisfies the named
assumptions. Store and runner: `StagesAssumption`, `BoundsAssumption`,
`WorkersAssumption`, `BudgetAssumption`, `NoClaimAssumption`, `RemovalsAssumption`,
`SlotsAssumption`, `RoomAssumption` (at least one stage, one attempt and room for one
checkpoint, markers for "nobody" that are not values). Event log: `PageAssumption`,
`WritersAssumption`, `LimitsAssumption`, `NobodyAssumption`. Work units:
`IdsAssumption` (finitely many identifiers), `LimitsAssumption`. Session:
`GraceAssumption`, `CapacityAssumption`, `BoundsAssumption`, `SentAssumption`,
`FaultsAssumption`. Stage loop: `StageLoopAssumption` (at least one attempt of every stage
and one review cycle), `UnitsAssumption`, `FindingsAssumption`, and `NoneAssumption`,
`NoneIsNoRecord` (the marker for "nothing" is no document, report, checkpoint or
snapshot). Event writer: `LimitAssumption`, `GlyphsAssumption` (a limit of at least one
byte, characters of one to four), `PartsAssumption`, `WriterBoundsAssumption`,
`StoreAssumption`. Subagents: `AgentsAssumption` (finitely many), `MaxKeptAssumption`,
`MaxFailuresAssumption`, `ScriptAssumption`, and `LegacyAssumption` (an older document has
one activity of a call, as `apply_activity` leaves it, and none of the present turn,
since `same_logical_activity` compares turns). Workspaces: `RequestsAssumption` (finitely many requests, a lock pool of at
least one connection in every process), `NoneAssumption` (the marker for "not there" is
neither a row nor a worktree nor a request). Environments: `ProcessesAssumption` (executors and
reconcilers are different tasks, room for one generation) and `DeploymentsAssumption`
(markers that are no ids; the workers of a Docker deployment share one engine, as
`execution_environment.rs` looks containers up by name on the local engine only).

**Store.** None of the properties is inductive alone: for example, that at most
one slot is fenced per job rests on there being one running attempt per job, which
rests on stages starting in order, which rests on what a succeeded, failed or
cancelled operation says about its job. `Inv` is that web: per job (`JobInv`)
operation rows are exactly the ordinals below `opCount`, attempt rows the numbers up
to `made`, one attempt runs iff its operation does, statuses of operations, job and
environment agree, and an active job has work; across slots
(`HandlesAreGenerations`) no handle is ahead of its attempt and no two slots hold
the same generation. A step changes one job (`UntouchedJob`, `OneJobStep`), and a
fenced slot stands at the frontier operation of its job (`RunningFrontier`,
`FencedIsRunning`). From `Inv` follow `StartsInOrder`, `NoJobIsStranded`,
`ReleaseWaitsForEnd`, `TerminalJobsAreQuiet`, `FenceIsExclusive` and the action
properties `CancellationIsSticky`, `SettledAttemptsAreFinal`, `SucceededStagesAreKept`.
`ProgressIsNotForked` needs `ResumeInv` besides: the checkpoints of a job lie in one
order, by stage, attempt and lease generation, every one at or before the attempt that
runs; a handle that is current (`Current`) was given the last of those that precede its
generation, and whatever is newer was written under that handle. That a newest
checkpoint exists at all is a well-founded argument over the finitely many rows.

**Lifecycle.** `CoordinatorImplementsLifecycle`: six transactions change what a client
sees (create, continue, cancel, settle as succeeded or failed, acknowledge); each is a
step of `JobLifecycle` because of `Inv`, all others are stutters.

**Event log.** The strengthening says that an uncommitted attempt row belongs to
the lock holder and is ahead of every committed attempt row and of the cursor. A
job event can commit only when no attempt holds the lock, so a cursor never passes
an attempt row that is still to be committed.

**Runner.** `RunnersRefineStore` shows step by step that a worker's step is a step
of `Coordinator` or leaves its variables alone; all store theorems then hold for
the composed system (`RunnersAreFenced` spells one out). `WorktreesAreExclusive` rests
on `WorktreeLocked`: an executor inside a worktree holds the lock of exactly that
job, and its loop is still there to drain it. `TerminalJobsAreDrained` adds `DrainInv`: a
job becomes terminal only by its fenced owner, after that owner drained its own
executor; an executor of an older generation that is still at work holds the worktree
lock, and so keeps every later generation from reaching the point where it could
settle or clean up.

**Work units.** The counts of the search are the dependencies not yet visited, and no
unit of a circular set is ever visited. Hence an accepted decomposition has no cycle
(`AcceptanceIsSound`), a refused one has (`RefusalIsSound`), and while units are open one
of them may progress (`NeverBlocked`); `PlanIsExecutable` is their conjunction.

**Session.** The invariant relates the copies of each fact: the server's verdict, the
completion on its way through task and channel, and the outcome (`SuccessIsGenuine`);
the link, the clock and the last notice of this wait (`NoticesAreTrue`, `ExpiryIsHonest`). `WindowIsFull`
adds that what is left on the clock and the age of the outage make up the whole window.
`WaitInvariant` puts the parts together. `ReviewsLeaveNoTrace` adds `Stilled`: once the wait
of a review has returned with one of the outcomes that interrupt or complete the turn,
the server has no turn left that could write.

**Stage loop.** All safety properties of `StageLoop` are proved; each theorem adds one
layer to the inductive invariant `IInv`.
`IInv` says where the snapshot is at each program point: it holds the implemented tree,
belongs to a review, and is gone wherever the attempt goes on without one (`Kept`); a
restoration has undone what it has passed, for the caller it will return to
(`Restoring`). A crash forgets the program point and not the snapshot, which is why
`Kept` speaks of both. `ReviewInvariant` follows.
`CancelledJobsAreClean` adds where rollback points may be (`Unmarked`); `PlansArePure`, what a
plan may leave (`Planned`); `CyclesAreInOrder`, that the attempt is at the turn of the newest
checkpoint or the one after it (`Ordered`).
`FirstReviewIsSound` splits the first review in two. Before its report is accepted
(`Undecided`) a report is there only together with its rollback point, and one of a turn
that changed the tree only while the snapshot still shows the change; afterwards
(`Decided`) every later attempt comes to the same judgement and rolls nothing back.
`ShipsWhatWasApproved` follows approvals while nothing fails (`Ships`): a remediation has
one only from the review its checkpoint is of, or together with a rollback point that
takes it back, and the session's copy of the document never brings back an older one
(`Loop`); no turn has implemented anything since that review began (`Dated`).

**Subagents.** As long as the document has no history nothing was ever dropped; once it
has one, everything it was ever given is archived, and a contribution on its way
carries whatever is not (`NothingIsLost`). For `AgentsStay` the document is seen as an
ordered part of everything it was given (`Embeds`), in which the newest activity about an
agent stays unless its own call replaces it (`Shows`); a replacement names the agent again and
is newer (`Steady`, `Scripted`). What remains is the projection: walking back, the newest
activity about an agent is met before any other about it, and each activity is taken for
another agent than those taken before, so as long as there is room for one of each the
walk has not stopped when it gets there and takes it, for this agent or for another one
that it names.

**Event writer.** `WriterIInv` says that while the turn is open the text of a stream is
what the log has of it and what is pending, that what is pending is newer than the whole
log, and that the writer knows of which streams the log has text: a completion then
carries exactly the texts that are not there, compacted, (`TextIsComplete`) and repeats none
(`ArrivalOrderIsKept`). Once an item is done its text is told, and stays so whatever
follows (`ToldStays`). Under it lies what the loop of `push` computes: the chunks and the
remainder are consecutive pieces of the text, each within the limit or a single
character, and the remainder is below it (`CutPieces`).

The loops of `TextCoalescer::push` and `bounded_projection` are recursive functions. That
such a function exists at all is a lemma (`RecursionWorks`, `WalkWorks`), proved from the
functions on ever longer parts of the domain; what it computes follows by induction over
*sets* of places (`Counting`, `CountingDown`, which rest on `WFMin`), since an induction
rule that takes a predicate cannot be used.

**Workspaces.** The invariant says which locks and connections a request holds at
each of its program points, and that nobody else holds the same. Under the lock of
the repository, what a request has decided about the cache stays true until it acts on
it: hence `CachesAreKept`. Under the lock of the job, what it has read of the row stays
true, a row and its directory are written by one request at a time, and a directory is
made at the base of the row that will be written or is there already. The row that an
attempt has loaded before the locks may be overtaken, but the base of a job never
changes, so a worktree restored from it is at the right place: this gives `RebuiltAtBase`.
`ResultsAreKept` needs that a worktree with a result belongs to a job whose Plan has
settled, and that the owner of a lease claimed the operation that is next: a Plan that
finds a result under the lock is therefore not the owner any more. That
a continuation has its worktree also needs that its environment is not released, so
that nobody begins a removal, and that without faults row and directory come and go
together. The headroom is a counting argument: only the request inside the gate holds
two connections, so with fewer requests than connections one is left.

**Environments.** Some facts hold whether the advisory lock is kept or not: the row fits
the job; the row that a process has read is overtaken only by a later generation, and
only by a continuation; an id that a process knows is of the generation it knows it
from. `ActiveObjectsAreSpared` follows from these alone. While the lock is kept (`UnderLock`)
the executor that holds it is the only one past it, and with the environment in
hand (`Alone`) nobody else ends the attempt, cleans up or releases: a later owner of
the lease can only wait for the lock or give up. Then there is one object, it has the
row's generation and is where the row's locator says (`Placement`), the executor works in
that one (`Served`), and a release of the present generation has found it
before it says that nothing is left (`Clearing`). `ObjectsAreExclusive` and
`ReleasedEnvironmentsAreGone` follow.

In `Workspaces` and `Environments` the proofs first failed on `CASE` expressions whose arms
overlapped: TLC takes the first arm that applies, TLA+ leaves the choice open. They are
written as `IF ... THEN ... ELSE IF` now, which is the order the code tests in.

**Only model-checked.** Every invariant and every action property that a passing run
checks, and both refinements, are stated by a theorem. What is live is not: the prover
covers neither fairness nor `ENABLED`. These are `FollowerEnds`, `CancellationCompletes`,
`JobEnds`, `Settles`, `Provisioned`, `EventuallyGone`, `RequestsEnd` and `NothingHangs`.

## 5. Findings and observations

**Finding, `stale_plan`.** "Incrementing `lease_epoch` makes every handle held by the
previous worker permanently stale" (`coordinator/src/domain.rs:427`), but the first
thing a Plan does with the worktree lock is an unfenced reset of the worktree
(`runtime/src/executor/mod.rs:156`). An owner that waited for the lock while its lease
was taken over undoes the files of an Execute stage that has succeeded meanwhile.
`ResultKept` of `Workspaces` shows the reverse: no other request but a removal does.

Several properties carry a condition, because without it the code does not have
them. Each condition marks a place where the code and its documentation part; to see
the behaviour, drop the condition and run TLC.

1. *Cached document* (`extension/src/state.rs:101`; drop `ord = 2` in `FirstReviewSound`).
   A session loads the state document once. A rollback point that
   `prepare_detached_review` writes past that cache is lost when the session's review
   tool saves its copy, so a mutating review can survive a crash
   (compare `runtime/README.md:87`, "A review mutation is restored and rejected"); a
   point removed by a commit comes back with the next save, and a later rollback
   undoes a committed review (compare `extension/src/model.rs:64`). The first review of a
   job has a fresh session and is not affected.
2. *Unreviewed change after a crash* (`runtime/src/executor/mod.rs:553`; drop `faults = 0`
   in `ApprovedIsWhatShips`). An approval saved without its rollback point outlives the
   crash of its review; the resumed remediation stage finds it and completes, although
   `src/PRODUCT.md:53` promises "a fresh independent re-review".
3. *Torn snapshot* (`coordinator/src/workspace.rs:562`; drop `HalfRemoved` in `Settles`). A
   snapshot is removed file by file; a crash after the index and before the metadata
   leaves one that every later attempt refuses ("review snapshot index is missing"),
   while line 437 says a replacement process can restore it.
4. *Lost lock session* (`coordinator/src/store/workspace_locks.rs:57`; drop `LockKept`).
   Nothing tells an executor that the database session of its advisory lock broke;
   another worker may clean up and release, and the first then creates a container no
   row names (compare `src/RUST_CUTOVER.md:136`).
5. *Mixed images* (`runtime/src/execution_environment.rs:755`; drop `ImagesAgree` in
   `Provisioned`). Docker workers with different images refuse each other's container.
6. *Half a removal* (`coordinator/src/workspace.rs:760`; drop `faults = 0` in
   `ContinuationHasWorktree`). `remove` deletes the directory and then marks the row; a
   process that dies in between lets a continuation be queued on a worktree that is
   gone (compare `src/RUST_CUTOVER.md:131`).
7. *Shared window* (`runtime/src/session.rs:911`; drop `~merged` in `GraceIsFull`). A reconnect
   and a disconnect between two polls are one change of the watch; the second outage
   keeps the first one's deadline (compare `src/RUST_CUTOVER.md:243`, "full 30-second
   recovery window").
8. *Late review* (`runtime/src/session.rs:570`; drop the outcomes in `ReviewLeavesNoTrace`). A
   wait that ends on lag, or on a refused event, does not interrupt the turn;
   `run_turn` restores the worktree at once and the session is closed only afterwards
   (compare `runtime/README.md:84`). What the reviewer writes in between stays.
9. *Answer against event* (`runtime/src/session.rs:513`; drop `Blocked`). The session awaits
   the client's acceptance of an answer inside the loop that drains the channel; a
   client blocked on the full channel cannot take it (compare line 370, "every server
   request is answered"). The channel must be full of undroppable events for this.
10. *Forgotten child* (`extension/src/subagents.rs:254`; drop `Steady` in `AgentsKept` and
    let the wait of `WaitFinished` end with `<< >>`). A wait that times out completes without receivers, and
    replaces the activity that was the newest of its children (compare
    `extension/README.md:41`, "latest-per-child").
11. *Late job event* (`coordinator/src/store/events.rs:20`; let `AttemptEventsDelivered` speak of
    all rows). `append_job_event` numbers its row and then waits for the job row; an
    attempt event with a larger number commits first, and the follower's cursor passes
    the job event for good (compare line 52).
12. *Removal of a live workspace* (`coordinator/src/store/recovery.rs:124`; put `"cancelling"`
    into `Removals` of `progress`). Recovery wants an active workspace, removal does not
    look at the job: a cancelling job without an owner stays so (compare
    `coordinator/src/store/jobs.rs:335`). Binding the workspace again lets it be recovered.
13. *Iteration cancelled with a rollback point* (`runtime/src/executor/mod.rs:482`; drop
    `Kind(ord) # "iterate"` in `CancelledIsClean`, with five stages and two faults). When a
    re-review crashes after its report and rollback point were both saved by the session,
    the resumed remediation completes on that report and leaves the point; an iteration
    that is then cancelled has no snapshot to restore, so its cleanup leaves the point in
    the document. The attempt to prove the property without the condition showed it.

## 6. Plan

Done: the store, its abstract lifecycle and the refinement; the event log; the
runner as a refinement of the store; the stage loop with review snapshots and the
state document; work units; environments and both backends; workspaces; the session
bridge and its event writer; subagents; every safety property of every passing run as a
theorem. Left: thread state and correlations in `Coordinator`, once a guard depends on
them, and the liveness properties, once a prover can reason about fairness.

Composition today: `Runner` is built on `Coordinator` and refines it; `StageLoop`,
`Environments` and `Workspaces` open up steps that `Runner` takes at once
(`ExecFinish`/`Cleanup`, `ExecEnsure`/`Reconcile`, `UserLocked`), and rely on what `Runner` shows:
one executor per worktree at a time.

## 7. What is not modelled, and why

* Payloads, prompts, correlations and thread state: no guard of the modelled
  transactions reads them.
* Subagents that go on writing after the turn of their stage has completed: the turn
  is taken to end with everything it started. The app server's shutdown is taken to
  be effective when it returns.
* A backend without an event log for subagent activities: it archives nothing and
  drops nothing.
* Git's registration of worktrees after its cache was replaced: a removal that fails
  there is the failed call that `Workspaces` has.
* Aborting an executor: the code never aborts one, it waits without a deadline;
  the process being killed is `Crash`.
* Two workers with different clocks: expiry is decided by the database's
  `clock_timestamp()` alone. The worker's own deadline (`lease_bounded`) only makes it
  give up earlier, which `HeartbeatFails` covers at any time.
* Start-up of the embedded app server, worker configuration and artifact rendering:
  sequential set-up and derived files without shared state.
* CLI presentation, the provider translators and the vector memory: format
  translation and I/O, which tests of inputs and outputs reach better than a model
  of interleavings.
* The vendored Codex workspace (apart from the client task in `Session`), benchmarks,
  deployment files and the shell launcher `src/factory`. Measured against all lines of
  the repository the mapped share is therefore small; of the coordinator and of the
  runtime's executor, session and environment code it is the greater part.
