------------------------------- MODULE Session -------------------------------
(***************************************************************************)
(* One Codex turn as an attempt waits for it: AutonomousSession's          *)
(* wait_for_completion and cancel (runtime/src/session.rs), the in-process *)
(* client it reads from (codex-rs/app-server-client/src/lib.rs), and what  *)
(* run_turn and execute do around a review turn (executor/stage_loop.rs,   *)
(* executor/mod.rs).                                                       *)
(*                                                                         *)
(* Four parties move: the app-server that runs the turn, the client's      *)
(* worker task that forwards its events through a bounded channel and      *)
(* serves commands, the session's biased select loop, and the connection   *)
(* to the remote execution environment, watched through a channel that     *)
(* keeps only its last value.  Time is counted in ticks, relative to the   *)
(* recovery deadline.                                                      *)
(***************************************************************************)
EXTENDS Naturals, Sequences

CONSTANTS
  Grace,        \* ticks of REMOTE_RECOVERY_GRACE
  Capacity,     \* slots of the client's event channel
  MaxEvents,    \* bound: events the server sends
  MaxFlaps,     \* bound: changes of the connection
  Sent,         \* the kinds of event the server sends
  Faults        \* which of "cancel", "lease", "monitor", "server" may happen

ASSUME GraceAssumption == Grace \in Nat \ {0}
ASSUME CapacityAssumption == Capacity \in Nat \ {0}
ASSUME BoundsAssumption == MaxEvents \in Nat /\ MaxFlaps \in Nat
ASSUME SentAssumption ==
  Sent \subseteq {"note", "request", "error", "item", "completed", "failed", "foreign"}
ASSUME FaultsAssumption == Faults \subseteq {"cancel", "lease", "monitor", "server"}

VARIABLES
  turn,       \* the server's turn: running, failing (its error is out), ended, stopped
  verdict,    \* how the server ended it
  tree,       \* the worktree the turn works in, against the review's snapshot
  asked,      \* a server request waits for its answer
  held,       \* the event the worker is forwarding
  queue,      \* the event channel
  skipped,    \* events were dropped since the last lag marker
  sent,       \* events sent so far
  link,       \* the connection state the watch channel holds
  unseen,     \* the watch holds a change the loop has not read
  merged,     \* it has replaced a change that was never read
  monitor,    \* the watch has a sender
  flaps,      \* changes so far
  left,       \* ticks to the recovery deadline, or Off
  age,        \* ticks since the link last went down, up to Grace
  notice,     \* the last environment event this wait has emitted
  cancelled,  \* the attempt's cancellation handle
  lease,      \* the attempt's fence still admits writes
  active,     \* active_turn is set
  snapshot,   \* the review snapshot exists
  pc,         \* where the executor is
  outcome     \* what the wait returned

server == <<turn, verdict, sent>>
client == <<held, queue, skipped>>
watch == <<link, unseen, merged, monitor, flaps, age>>
session == <<active, pc, outcome>>
vars == <<turn, verdict, tree, asked, held, queue, skipped, sent, link, unseen,
          merged, monitor, flaps, left, age, notice, cancelled, lease, active, snapshot,
          pc, outcome>>

Off == Grace + 1
None == "none"

BestEffort == {"note", "request", "error"}
Lossless == {"item", "completed", "failed", "foreign"}
Kinds == BestEffort \cup Lossless
Verdicts == {"completed", "failed"}

TypeOK ==
  /\ turn \in {"running", "failing", "ended", "stopped"}
  /\ verdict \in Verdicts \cup {None}
  /\ tree \in {"kept", "changed"}
  /\ held \in Kinds \cup {None}
  /\ queue \in Seq(Kinds \cup {"lagged"}) /\ Len(queue) <= Capacity
  /\ asked \in BOOLEAN /\ skipped \in BOOLEAN /\ unseen \in BOOLEAN
  /\ merged \in BOOLEAN /\ monitor \in BOOLEAN /\ cancelled \in BOOLEAN /\ lease \in BOOLEAN
  /\ active \in BOOLEAN /\ snapshot \in BOOLEAN
  /\ sent \in 0..MaxEvents /\ flaps \in 0..MaxFlaps
  /\ link \in {"connected", "disconnected"} /\ notice \in {"connected", "disconnected", None}
  /\ left \in 0..Off /\ age \in 0..Grace
  /\ pc \in {"waiting", "answering", "rollback", "closing", "done"}
  /\ outcome \in {None, "completed", "failed", "expired", "cancelled", "lagged", "lost", "rejected"}

(***************************************************************************)
(* The wait begins: a link that is already down starts the recovery clock  *)
(* and is reported; one that is up is not, whatever an earlier wait of the *)
(* session has reported last.                                              *)
(***************************************************************************)
Init ==
  /\ turn = "running" /\ verdict = None /\ tree = "kept" /\ asked = FALSE
  /\ held = None /\ queue = << >> /\ skipped = FALSE /\ sent = 0
  /\ link \in {"connected", "disconnected"} /\ unseen \in BOOLEAN /\ merged = FALSE /\ monitor = TRUE
  /\ flaps = 0 /\ age = 0
  /\ notice = IF link = "disconnected" THEN link ELSE None
  /\ left = IF link = "disconnected" THEN Grace ELSE Off
  /\ cancelled = FALSE /\ lease = TRUE /\ active = TRUE /\ snapshot = TRUE
  /\ pc = "waiting" /\ outcome = None

(***************************************************************************)
(* The app-server.                                                         *)
(***************************************************************************)
MayEmit(kind) ==
  CASE kind = "foreign" -> turn # "stopped"
    [] kind \in {"note", "item", "completed"} -> turn = "running"
    [] kind = "request" -> turn = "running" /\ ~asked
    [] kind = "error" -> turn = "running"
    [] kind = "failed" -> turn = "failing"

\* The worker takes one event from the runtime when its loop is free.
Emit(kind) ==
  /\ held = None /\ sent < MaxEvents /\ pc # "done" /\ MayEmit(kind)
  /\ held' = kind /\ sent' = sent + 1
  /\ asked' = (asked \/ kind = "request")
  /\ turn' = CASE kind \in Verdicts -> "ended" [] kind = "error" -> "failing" [] OTHER -> turn
  /\ verdict' = IF kind \in Verdicts THEN kind ELSE verdict
  /\ UNCHANGED <<tree, queue, skipped, watch, left, notice, cancelled, lease,
                 snapshot, session>>

\* A tool call of the turn changes a file of the worktree.
Mutate ==
  /\ turn = "running" /\ tree = "kept" /\ tree' = "changed"
  /\ UNCHANGED <<server, asked, client, watch, left, notice, cancelled, lease,
                 snapshot, session>>

(***************************************************************************)
(* The client's worker: lossless events wait for a slot, the others are    *)
(* dropped and counted, a dropped request is refused on the spot.          *)
(***************************************************************************)
Full == Len(queue) >= Capacity

ForwardMarker ==
  /\ held # None /\ skipped /\ ~Full
  /\ queue' = Append(queue, "lagged") /\ skipped' = FALSE
  /\ UNCHANGED <<server, tree, asked, held, watch, left, notice, cancelled, lease,
                 snapshot, session>>

Forward ==
  /\ held # None /\ ~skipped /\ ~Full
  /\ queue' = Append(queue, held) /\ held' = None
  /\ UNCHANGED <<server, tree, asked, skipped, watch, left, notice, cancelled, lease,
                 snapshot, session>>

Drop ==
  /\ held \in BestEffort /\ Full
  /\ held' = None /\ skipped' = TRUE
  /\ asked' = (asked /\ held # "request")
  /\ UNCHANGED <<server, tree, queue, watch, left, notice, cancelled, lease,
                 snapshot, session>>

\* The worker serves the session's resolve or reject command, and the
\* session's call returns.  It can do so only between two events.
ServeAnswer ==
  /\ pc = "answering" /\ held = None /\ turn # "stopped"
  /\ asked' = FALSE /\ pc' = "waiting"
  /\ UNCHANGED <<server, tree, client, watch, left, notice, cancelled, lease,
                 snapshot, active, outcome>>

(***************************************************************************)
(* The connection to the environment, the clock and the attempt.           *)
(***************************************************************************)
Waiting == pc \in {"waiting", "answering"}

Flap ==
  /\ Waiting /\ monitor /\ flaps < MaxFlaps
  /\ link' = IF link = "connected" THEN "disconnected" ELSE "connected"
  /\ unseen' = TRUE /\ merged' = (merged \/ unseen) /\ age' = 0 /\ flaps' = flaps + 1
  /\ UNCHANGED <<server, tree, asked, client, monitor, left, notice, cancelled, lease,
                 snapshot, session>>

Tick ==
  /\ Waiting
  /\ left \in 1..Grace \/ (link = "disconnected" /\ age < Grace)
  /\ left' = IF left \in 1..Grace THEN left - 1 ELSE left
  /\ age' = IF link = "disconnected" /\ age < Grace THEN age + 1 ELSE age
  /\ UNCHANGED <<server, tree, asked, client, link, unseen, merged, monitor, flaps, notice,
                 cancelled, lease, snapshot, session>>

CancelAttempt ==
  /\ "cancel" \in Faults /\ ~cancelled /\ cancelled' = TRUE
  /\ UNCHANGED <<server, tree, asked, client, watch, left, notice, lease, snapshot, session>>

LoseLease ==
  /\ "lease" \in Faults /\ Waiting /\ lease /\ lease' = FALSE
  /\ UNCHANGED <<server, tree, asked, client, watch, left, notice, cancelled, snapshot,
                 session>>

DropMonitor ==
  /\ "monitor" \in Faults /\ Waiting /\ monitor /\ monitor' = FALSE
  /\ UNCHANGED <<server, tree, asked, client, link, unseen, merged, flaps, age, left, notice,
                 cancelled, lease, snapshot, session>>

ServerDies ==
  /\ "server" \in Faults /\ Waiting /\ turn # "stopped" /\ held = None
  /\ turn' = "stopped" /\ asked' = FALSE
  /\ UNCHANGED <<verdict, sent, tree, client, watch, left, notice, cancelled, lease,
                 snapshot, session>>

(***************************************************************************)
(* The session's loop.  select! is biased: cancellation, the recovery      *)
(* deadline, the environment, then the server.                             *)
(***************************************************************************)

\* The wait returns an error or the turn: run_turn goes on to roll back.
Return(result) == pc' = "rollback" /\ outcome' = result

\* Mutant: the turn is abandoned, neither interrupted nor shut down.
InterruptAbandons(result) ==
  /\ Return(result) /\ active' = FALSE
  /\ UNCHANGED <<server, client, asked>>

\* cancel(): interrupt, then shut the client down; both are bounded by a
\* timeout, and shutting down drops the receiver a blocked worker waits on.
Interrupt(result) ==
  /\ Return(result) /\ active' = FALSE
  /\ turn' = IF turn = "ended" THEN turn ELSE "stopped"
  /\ held' = None /\ queue' = << >> /\ skipped' = FALSE /\ asked' = FALSE
  /\ UNCHANGED <<verdict, sent>>

\* An event that cannot be persisted ends the wait as it stands: `?` returns
\* with the turn still active.
Fail == Return("lost") /\ UNCHANGED <<active, server, client, asked>>

LoopCancelled ==
  /\ pc = "waiting" /\ cancelled
  /\ Interrupt("cancelled")
  /\ UNCHANGED <<tree, watch, left, notice, cancelled, lease, snapshot>>

\* The deadline has passed; the link's current state decides.
Recovered == link = "connected"

LoopExpired ==
  /\ pc = "waiting" /\ ~cancelled /\ left = 0
  /\ \/ /\ Recovered
        /\ left' = Off
        /\ IF lease
             THEN notice' = "connected" /\ UNCHANGED <<server, client, asked, session>>
             ELSE Fail /\ UNCHANGED notice
     \/ /\ ~Recovered
        /\ left' = Off /\ UNCHANGED notice
        /\ IF lease THEN Interrupt("expired") ELSE Fail
  /\ UNCHANGED <<tree, watch, cancelled, lease, snapshot>>

\* Mutant: a reconnect leaves the clock running.
UpdateRecoveryKeeps(s) == IF s = "disconnected" /\ left = Off THEN Grace ELSE left

\* update_remote_recovery: the clock after the loop saw the link in state s.
UpdateRecovery(s) ==
  CASE s = "disconnected" /\ left = Off -> Grace
    [] s = "connected" -> Off
    [] OTHER -> left

LoopEnvironment ==
  /\ pc = "waiting" /\ ~cancelled /\ left # 0 /\ unseen
  /\ unseen' = FALSE
  /\ left' = UpdateRecovery(link)
  /\ IF (left = Off) # (left' = Off) /\ ~lease
       THEN Fail /\ UNCHANGED notice
       ELSE /\ notice' = IF (left = Off) # (left' = Off) THEN link ELSE notice
            /\ UNCHANGED <<server, client, asked, session>>
  /\ UNCHANGED <<tree, link, merged, monitor, flaps, age, cancelled, lease, snapshot>>

LoopMonitorClosed ==
  /\ pc = "waiting" /\ ~cancelled /\ left # 0 /\ ~unseen /\ ~monitor
  /\ IF lease THEN Interrupt("failed") ELSE Fail
  /\ UNCHANGED <<tree, watch, left, notice, cancelled, lease, snapshot>>

\* The server branch is polled last.
ServerTurn == pc = "waiting" /\ ~cancelled /\ left # 0 /\ ~unseen /\ monitor

\* Which events the active turn's wait persists, and which end it.
Targets(event) == event # "foreign"

\* Mutant: any turn's completion is taken for the active one's.
TerminalAnyTurn(event) == event \in {"error", "completed", "failed", "foreign"}

Terminal(event) == event \in {"error", "completed", "failed"}

Result(event) == IF event \in {"completed", "foreign"} THEN "completed" ELSE "failed"

\* Mutant: a server request is drained like a notification and not answered.
LoopServerSilent ==
  /\ ServerTurn /\ queue # << >>
  /\ queue' = Tail(queue)
  /\ LET event == Head(queue) IN
       /\ active' = ~(Terminal(event) \/ event = "lagged")
       /\ IF Terminal(event) THEN Return(Result(event))
          ELSE IF event = "lagged" THEN Return("lagged")
          ELSE UNCHANGED <<pc, outcome>>
  /\ UNCHANGED <<server, tree, asked, held, skipped, watch, left, notice, cancelled,
                 lease, snapshot>>

LoopServer ==
  /\ ServerTurn /\ queue # << >>
  /\ queue' = Tail(queue)
  /\ LET event == Head(queue) IN
       CASE event = "request" -> pc' = "answering" /\ UNCHANGED <<active, outcome>>
         [] event = "lagged" -> /\ active' = FALSE
                          /\ Return(IF lease THEN "lagged" ELSE "lost")
         [] OTHER ->
              /\ active' = ~Terminal(event)
              /\ IF Targets(event) /\ ~lease THEN Return("lost")
                 ELSE IF Terminal(event) THEN Return(Result(event))
                 ELSE UNCHANGED <<pc, outcome>>
  /\ UNCHANGED <<server, tree, asked, held, skipped, watch, left, notice, cancelled,
                 lease, snapshot>>

LoopStreamClosed ==
  /\ ServerTurn /\ queue = << >> /\ held = None /\ turn = "stopped"
  /\ active' = FALSE
  /\ Return(IF lease THEN "failed" ELSE "lost")
  /\ UNCHANGED <<server, tree, asked, client, watch, left, notice, cancelled, lease,
                 snapshot>>

\* The worker has gone: the session's answer fails and so does the wait.
AnswerFails ==
  /\ pc = "answering" /\ held = None /\ turn = "stopped"
  /\ Return("failed")
  /\ UNCHANGED <<server, tree, asked, client, watch, left, notice, cancelled, lease,
                 snapshot, active>>

Loop == LoopCancelled \/ LoopExpired \/ LoopEnvironment \/ LoopMonitorClosed
          \/ LoopServer \/ LoopStreamClosed \/ AnswerFails

(***************************************************************************)
(* After the wait of a review turn: run_turn restores the snapshot, and    *)
(* execute then shuts the session down and cleans up.                      *)
(***************************************************************************)
Rollback ==
  /\ pc = "rollback" /\ pc' = "closing"
  /\ outcome' = IF outcome = "completed" /\ tree = "changed" THEN "rejected" ELSE outcome
  /\ tree' = "kept" /\ snapshot' = FALSE
  /\ UNCHANGED <<server, asked, client, watch, left, notice, cancelled, lease, active>>

Close ==
  /\ pc = "closing" /\ pc' = "done"
  /\ turn' = IF turn = "ended" THEN turn ELSE "stopped"
  /\ held' = None /\ queue' = << >> /\ skipped' = FALSE /\ asked' = FALSE
  /\ tree' = IF snapshot /\ outcome # "completed" THEN "kept" ELSE tree
  /\ snapshot' = (snapshot /\ outcome = "completed")
  /\ UNCHANGED <<verdict, sent, watch, left, notice, cancelled, lease, active, outcome>>

Next ==
  \/ \E kind \in Sent : Emit(kind)
  \/ Mutate
  \/ ForwardMarker \/ Forward \/ Drop \/ ServeAnswer
  \/ Flap \/ Tick \/ CancelAttempt \/ LoseLease \/ DropMonitor \/ ServerDies
  \/ Loop \/ Rollback \/ Close

Spec == Init /\ [][Next]_vars

(***************************************************************************)
(* The worker and the session are tasks of a running runtime and time      *)
(* passes; the server owes its turn no end, and the link no return.        *)
(***************************************************************************)
Fairness ==
  /\ WF_vars(ForwardMarker) /\ WF_vars(Forward) /\ WF_vars(Drop) /\ SF_vars(ServeAnswer)
  /\ WF_vars(Tick) /\ WF_vars(Loop) /\ WF_vars(Rollback) /\ WF_vars(Close)

LiveSpec == Spec /\ Fairness

(***************************************************************************)
(* Properties.                                                             *)
(***************************************************************************)

\* A turn is given up for a lost environment only while the link is down: a
\* reconnect the loop has not read yet still saves it (the recheck of
\* current_state after the deadline).
ExpiresOnlyWhileDown == outcome = "expired" => link = "disconnected"

\* A disconnect gets the whole recovery window before the turn is given up.  A
\* watch keeps only its last value, so a reconnect that is over before the loop
\* reads it does not count.
GraceIsFull == outcome = "expired" /\ ~merged => age = Grace

\* Whenever the loop has read every change, what this wait has last reported of
\* the environment is what the link is; a wait that has reported nothing has not
\* missed a disconnect.
NoticesMatch ==
  pc = "waiting" /\ ~unseen => notice = link \/ (notice = None /\ link = "connected")

\* Together: what the wait believes and does about the environment is true of
\* the link, whatever the loop has or has not read of it yet.
WaitInv == TypeOK /\ ExpiresOnlyWhileDown /\ GraceIsFull /\ NoticesMatch

\* Only the completion of the turn waited for, reported by the server, makes
\* the wait succeed; other turns of the session run through the same stream.
OwnTurnDecides == outcome \in {"completed", "rejected"} => verdict = "completed"

\* A review leaves the worktree as it found it: nothing its turn wrote is still
\* there when the attempt is over.  A wait that ends on lag or on a lost lease
\* leaves the turn running while the snapshot is restored.
ReviewLeavesNoTrace == pc = "done" /\ outcome \notin {"lagged", "lost"} => tree = "kept"

\* The one way to stop for good: the session's answer waits for the worker, and
\* the worker for room in the channel that only the session empties.
Blocked == pc = "answering" /\ held \in Lossless /\ Full

\* A turn the server has ended is reported to the stage loop, however full
\* the stream was (completions are never dropped, and lag ends the wait).
EndedTurnReported == (verdict # None) ~> (pc = "done" \/ Blocked)

\* A cancelled attempt stops.
CancelEnds == cancelled ~> (pc = "done" \/ Blocked)

\* A turn whose environment never comes back does not wait for ever.
DownTurnEnds == <>[](link = "disconnected") => <>(~Waiting \/ Blocked)

\* The app-server never waits for ever on an approval or an elicitation that
\* nobody will give.
RequestsAnswered == asked ~> (~asked \/ Blocked)

\* Together: nothing that the worker, the server or the agent waits for is left
\* hanging, unless the two tasks block each other.
NothingHangs == EndedTurnReported /\ CancelEnds /\ DownTurnEnds /\ RequestsAnswered
=============================================================================
