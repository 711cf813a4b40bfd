---------------------------- MODULE EventStream ----------------------------
(***************************************************************************)
(* The event log of one job and a client that follows it.                  *)
(*                                                                         *)
(* Writers (coordinator/src/store/events.rs) number a row when they insert *)
(* it and make it visible when they commit:                                *)
(* - an attempt first locks the job row FOR UPDATE (lock_attempt_context), *)
(*   then inserts, then commits; settlement commits its completion event   *)
(*   together with the job's terminal status;                              *)
(* - append_job_event takes no lock of its own, but the foreign key of     *)
(*   factory_job_events makes its INSERT wait, after the row is numbered,  *)
(*   for the share lock on the job row that FOR UPDATE excludes.           *)
(* The follower (cli/src/main.rs) pages through the log with an exclusive  *)
(* cursor, polls the job, and drains once more when the job is terminal.   *)
(*                                                                         *)
(* Which attempt may write is the fence of Coordinator: here any attempt   *)
(* may, until the job is terminal.  Kinds and payloads are left out.       *)
(***************************************************************************)
EXTENDS Integers, FiniteSets

CONSTANTS
    Attempts,   \* executions that append attempt events
    Reporters,  \* concurrent callers of append_job_event
    Keys,       \* deduplication keys
    NoKey,      \* the event has no deduplication key
    Nobody,     \* no lock holder, no open row
    PageSize,   \* events per page
    \* bounds
    MaxSeq,     \* sequence numbers the identity column hands out
    MaxRounds   \* continuations of the job

ASSUME PageAssumption == PageSize \in Nat \ {0}

ASSUME WritersAssumption ==
    /\ Attempts \cap Reporters = {}
    /\ Nobody \notin Attempts \cup Reporters

ASSUME LimitsAssumption == MaxSeq \in Nat /\ MaxRounds \in Nat

VARIABLES
    lastSeq,    \* the last number of the identity column
    lock,       \* the attempt whose transaction holds the job row FOR UPDATE
    open,       \* the inserted, uncommitted row of each writer
    log,        \* the committed rows of factory_job_events
    job,        \* "active", "succeeded", or "failed" (a cancelled job too)
    rounds,     \* continuations so far
    pc,         \* the follower: where it is in monitor_job
    cursor,     \* the follower: the largest number it has read
    seen,       \* the follower: the rows it has printed
    due         \* the attempt rows committed when it saw the job terminal

store == <<lastSeq, lock, open, log, job, rounds>>
follower == <<pc, cursor, seen, due>>
vars == <<lastSeq, lock, open, log, job, rounds, pc, cursor, seen, due>>

Writers == Attempts \cup Reporters

Row == [seq: Nat \ {0}, by: Writers, key: Keys \cup {NoKey}]

ASSUME NobodyAssumption == Nobody \notin Row

Terminal == {"succeeded", "failed"}

TypeOK ==
    /\ lastSeq \in Nat
    /\ lock \in Attempts \cup {Nobody}
    /\ open \in [Writers -> Row \cup {Nobody}]
    /\ log \in SUBSET Row
    /\ job \in {"active"} \cup Terminal
    /\ rounds \in Nat
    /\ pc \in {"off", "drain", "load", "final", "done"}
    /\ cursor \in Nat
    /\ seen \in SUBSET Row
    /\ due \in SUBSET Row

Init ==
    /\ lastSeq = 0
    /\ lock = Nobody
    /\ open = [w \in Writers |-> Nobody]
    /\ log = {}
    /\ job = "active"
    /\ rounds = 0
    /\ pc = "off"
    /\ cursor = 0
    /\ seen = {}
    /\ due = {}

-----------------------------------------------------------------------------
(* Attempts.                                                               *)

\* lock_attempt_context
LockJob(a) ==
    /\ job = "active"
    /\ lock = Nobody
    /\ lock' = a
    /\ UNCHANGED <<lastSeq, open, log, job, rounds>>
    /\ UNCHANGED follower

NewRow(w, k) == [seq |-> lastSeq + 1, by |-> w, key |-> k]

Conflicts(k) == {r \in log : k # NoKey /\ r.key = k}

\* Mutant: an event is inserted whether or not its key was used.
InsertWithoutConflict(a, k) ==
    /\ lock = a
    /\ open[a] = Nobody
    /\ lastSeq < MaxSeq
    /\ lastSeq' = lastSeq + 1
    /\ open' = [open EXCEPT ![a] = NewRow(a, k)]
    /\ UNCHANGED <<lock, log, job, rounds>>
    /\ UNCHANGED follower

\* insert_attempt_event of a key that is new in the job.
InsertAttemptEvent(a, k) ==
    /\ lock = a
    /\ open[a] = Nobody
    /\ Conflicts(k) = {}
    /\ lastSeq < MaxSeq
    /\ lastSeq' = lastSeq + 1
    /\ open' = [open EXCEPT ![a] = NewRow(a, k)]
    /\ UNCHANGED <<lock, log, job, rounds>>
    /\ UNCHANGED follower

\* insert_attempt_event of a used key: ON CONFLICT DO NOTHING uses up a number,
\* and the transaction ends without a row, in Ok for the same content and in an
\* error for another.
RepeatAttemptEvent(a, k) ==
    /\ lock = a
    /\ open[a] = Nobody
    /\ Conflicts(k) # {}
    /\ lastSeq < MaxSeq
    /\ lastSeq' = lastSeq + 1
    /\ lock' = Nobody
    /\ UNCHANGED <<open, log, job, rounds>>
    /\ UNCHANGED follower

\* append_attempt_event commits; with status "succeeded" it is the settlement
\* that ends the job, whose completion event has no deduplication key.
CommitAttemptEvent(a, status) ==
    /\ open[a] # Nobody
    /\ status = "succeeded" => open[a].key = NoKey
    /\ log' = log \cup {open[a]}
    /\ open' = [open EXCEPT ![a] = Nobody]
    /\ lock' = Nobody
    /\ job' = status
    /\ UNCHANGED <<lastSeq, rounds>>
    /\ UNCHANGED follower

\* A job that fails or is cancelled ends without a completion event.
EndWithoutEvent(a) ==
    /\ lock = a
    /\ open[a] = Nobody
    /\ job' = "failed"
    /\ lock' = Nobody
    /\ UNCHANGED <<lastSeq, open, log, rounds>>
    /\ UNCHANGED follower

\* The transaction is dropped: an error, a lost connection, a dead worker.
Rollback(a) ==
    /\ lock = a
    /\ lock' = Nobody
    /\ open' = [open EXCEPT ![a] = Nobody]
    /\ UNCHANGED <<lastSeq, log, job, rounds>>
    /\ UNCHANGED follower

-----------------------------------------------------------------------------
(* Callers of append_job_event.                                            *)

\* The INSERT has numbered its row; job.continued and artifact.warning may be
\* appended in any state of the job.
InsertJobEvent(w) ==
    /\ open[w] = Nobody
    /\ lastSeq < MaxSeq
    /\ lastSeq' = lastSeq + 1
    /\ open' = [open EXCEPT ![w] = NewRow(w, NoKey)]
    /\ UNCHANGED <<lock, log, job, rounds>>
    /\ UNCHANGED follower

\* Mutant: no foreign key, so nothing waits for the lock on the job row.
CommitJobEventAtOnce(w) ==
    /\ open[w] # Nobody
    /\ log' = log \cup {open[w]}
    /\ open' = [open EXCEPT ![w] = Nobody]
    /\ UNCHANGED <<lastSeq, lock, job, rounds>>
    /\ UNCHANGED follower

\* The foreign key has its share lock, and the statement commits.
CommitJobEvent(w) ==
    /\ open[w] # Nobody
    /\ lock = Nobody
    /\ log' = log \cup {open[w]}
    /\ open' = [open EXCEPT ![w] = Nobody]
    /\ UNCHANGED <<lastSeq, lock, job, rounds>>
    /\ UNCHANGED follower

\* Every caller ignores the error.
AbortJobEvent(w) ==
    /\ open[w] # Nobody
    /\ open' = [open EXCEPT ![w] = Nobody]
    /\ UNCHANGED <<lastSeq, lock, log, job, rounds>>
    /\ UNCHANGED follower

\* continue_job commits; its job.continued event is an InsertJobEvent after it.
ContinueJob ==
    /\ job = "succeeded"
    /\ lock = Nobody
    /\ rounds < MaxRounds
    /\ job' = "active"
    /\ rounds' = rounds + 1
    /\ UNCHANGED <<lastSeq, lock, open, log>>
    /\ UNCHANGED follower

-----------------------------------------------------------------------------
(* The follower.                                                           *)

\* run, attach and logs start at cursor 0, whatever was read before.
Attach ==
    /\ pc = "off"
    /\ pc' = "drain"
    /\ cursor' = 0
    /\ seen' = {}
    /\ due' = {}
    /\ UNCHANGED store

\* Ctrl-C, a detach, or a request that failed.
Detach ==
    /\ pc \in {"drain", "load", "final"}
    /\ pc' = "off"
    /\ UNCHANGED <<cursor, seen, due>>
    /\ UNCHANGED store

\* list_job_events: the first PageSize rows after the cursor.
IsPage(page) ==
    LET later == {r \in log : r.seq > cursor}
    IN  /\ page \subseteq later
        /\ \A r \in page, x \in later \ page : r.seq < x.seq
        /\ Cardinality(page) <= PageSize
        /\ Cardinality(page) < PageSize => page = later

\* next_cursor: the last number of the page, or the cursor itself.
NextCursor(page, next) ==
    \/ page = {} /\ next = cursor
    \/ \E r \in page : next = r.seq /\ \A x \in page : x.seq <= r.seq

\* Mutant: one page is taken for the whole log.
StopAfterFullPage(page) == TRUE

\* drain_events stops at the first page that is not full.
LastPage(page) == Cardinality(page) < PageSize

\* One request of drain_events and what it prints.
FetchPage ==
    /\ pc \in {"drain", "final"}
    /\ \E page \in SUBSET log :
        /\ IsPage(page)
        /\ \E next \in {cursor} \cup {r.seq : r \in page} :
              NextCursor(page, next) /\ cursor' = next
        /\ seen' = seen \cup page
        /\ pc' = IF ~LastPage(page) THEN pc
                 ELSE IF pc = "drain" THEN "load" ELSE "done"
    /\ UNCHANGED due
    /\ UNCHANGED store

\* Mutant: a terminal job is polled like any other.
LoadJobForever ==
    /\ pc = "load"
    /\ pc' = "drain"
    /\ UNCHANGED <<cursor, seen, due>>
    /\ UNCHANGED store

\* load_job: a terminal job is drained once more, another one is polled again.
LoadJob ==
    /\ pc = "load"
    /\ IF job \in Terminal
       THEN /\ pc' = "final"
            /\ due' = {r \in log : r.by \in Attempts}
       ELSE /\ pc' = "drain"
            /\ UNCHANGED due
    /\ UNCHANGED <<cursor, seen>>
    /\ UNCHANGED store

-----------------------------------------------------------------------------

AttemptStep(a) ==
    \/ LockJob(a)
    \/ \E k \in Keys \cup {NoKey} : InsertAttemptEvent(a, k)
    \/ \E k \in Keys : RepeatAttemptEvent(a, k)
    \/ \E status \in {"active", "succeeded"} : CommitAttemptEvent(a, status)
    \/ EndWithoutEvent(a)
    \/ Rollback(a)

ReporterStep(w) ==
    \/ InsertJobEvent(w)
    \/ CommitJobEvent(w)
    \/ AbortJobEvent(w)

Next ==
    \/ \E a \in Attempts : AttemptStep(a)
    \/ \E w \in Reporters : ReporterStep(w)
    \/ ContinueJob
    \/ Attach
    \/ Detach
    \/ FetchPage
    \/ LoadJob

\* The follower is one task that always has its next request to make.
Fairness == WF_vars(FetchPage) /\ WF_vars(LoadJob)

Spec == Init /\ [][Next]_vars /\ Fairness

-----------------------------------------------------------------------------
(* Properties.                                                             *)

\* The cursor never passes an attempt event that the follower has not printed,
\* although numbers are given out before rows become visible: an attempt event
\* that commits late is still ahead of every cursor, also when job events are
\* inserted at the same time.
AttemptEventsDelivered ==
    \A r \in log : r.by \in Attempts /\ r.seq <= cursor => r \in seen

\* "Drain once more ... so that final event is not omitted": a follower that
\* ends has printed every attempt event up to the one that ended the job, also
\* when a page is full at the end of the log and when the job was continued
\* between its two requests.
FinalReplayComplete == pc = "done" => due \subseteq seen

\* A retried append leaves one row: no two rows of the job share a key, with
\* whichever attempts wrote and repeated it.
KeyedEventsOnce ==
    \A r, q \in log : r.key # NoKey /\ r.key = q.key => r = q

\* A follower of a job that stays terminal ends, unless it is detached.
FollowerEnds ==
    job \in Terminal /\ pc # "off" ~> job = "active" \/ pc \in {"off", "done"}

-----------------------------------------------------------------------------
(* The inductive invariant behind the safety properties.                   *)

\* An uncommitted attempt row belongs to the holder of the job row's lock, has
\* a free key and is numbered after everything visible: what is numbered later
\* cannot commit before it.
OpenRowIsAhead ==
    \A a \in Attempts : open[a] # Nobody =>
        /\ lock = a
        /\ open[a].by = a
        /\ open[a].seq <= lastSeq
        /\ Conflicts(open[a].key) = {}
        /\ \A r \in log : r.seq < open[a].seq

\* Rows have numbers that were handed out, and job events have no key.
RowsAreNumbered ==
    /\ \A r \in log : r.seq <= lastSeq
    /\ \A w \in Reporters : open[w] # Nobody =>
          /\ open[w].by = w
          /\ open[w].key = NoKey
          /\ open[w].seq <= lastSeq

\* The cursor is the number of a visible row, and what is due is visible.
FollowerReadsLog ==
    /\ cursor = 0 \/ \E r \in log : r.seq = cursor
    /\ \A r \in due : r \in log /\ r.by \in Attempts

\* No writer can still add an attempt event behind what the follower has read.
Inv ==
    /\ TypeOK
    /\ OpenRowIsAhead
    /\ RowsAreNumbered
    /\ FollowerReadsLog
    /\ AttemptEventsDelivered
    /\ FinalReplayComplete
    /\ KeyedEventsOnce

=============================================================================
