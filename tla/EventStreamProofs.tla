------------------------- MODULE EventStreamProofs -------------------------
(***************************************************************************)
(* Proofs about the event log for every number of writers, page size and   *)
(* length of the log.                                                      *)
(***************************************************************************)
EXTENDS EventStream, TLAPS

\* The empty log of a new job satisfies the invariant.
LEMMA InitInv == Init => Inv
<1> SUFFICES ASSUME Init PROVE Inv
  OBVIOUS
<1>1. TypeOK
  BY DEF Init, TypeOK, Writers
<1>2. \A w \in Writers : open[w] = Nobody
  BY DEF Init
<1>3. OpenRowIsAhead /\ RowsAreNumbered
  BY <1>2 DEF Init, OpenRowIsAhead, RowsAreNumbered, Writers
<1>4. FollowerReadsLog /\ AttemptEventsDelivered /\ FinalReplayComplete /\ KeyedEventsOnce
  BY DEF Init, FollowerReadsLog, AttemptEventsDelivered, FinalReplayComplete, KeyedEventsOnce
<1> QED
  BY <1>1, <1>3, <1>4 DEF Inv

\* A row that a writer inserts is well formed and numbered after all others.
LEMMA NewRowFacts ==
    ASSUME TypeOK, NEW w \in Writers, NEW k \in Keys \cup {NoKey}
    PROVE  /\ NewRow(w, k) \in Row
           /\ NewRow(w, k) # Nobody
           /\ NewRow(w, k).by = w
           /\ NewRow(w, k).key = k
           /\ NewRow(w, k).seq = lastSeq + 1
<1>1. NewRow(w, k) \in Row
  BY DEF TypeOK, NewRow, Row
<1> QED
  BY <1>1, NobodyAssumption DEF NewRow

\* lock_attempt_context, or the end of a transaction without a row, adds and
\* removes no row.
LEMMA LockSteps ==
    ASSUME Inv, NEW a \in Attempts,
           \/ LockJob(a)
           \/ \E k \in Keys : RepeatAttemptEvent(a, k)
           \/ EndWithoutEvent(a)
           \/ Rollback(a)
    PROVE  Inv'
<1> USE DEF follower
<1>1. UNCHANGED <<log, pc, cursor, seen, due>>
  BY DEF LockJob, RepeatAttemptEvent, EndWithoutEvent, Rollback
<1>2. lastSeq \in Nat /\ lastSeq' \in Nat /\ lastSeq' >= lastSeq
  BY DEF Inv, TypeOK, LockJob, RepeatAttemptEvent, EndWithoutEvent, Rollback
<1>3. \A w \in Writers : open'[w] = open[w] \/ open'[w] = Nobody
  BY DEF Inv, TypeOK, LockJob, RepeatAttemptEvent, EndWithoutEvent, Rollback
<1>4. TypeOK'
  BY <1>1, <1>2 DEF Terminal, Inv, TypeOK, LockJob, RepeatAttemptEvent, EndWithoutEvent, Rollback
<1>5. \A b \in Attempts : open'[b] # Nobody => open[b] = open'[b] /\ lock' = lock
  <2> SUFFICES ASSUME NEW b \in Attempts, open'[b] # Nobody
               PROVE  open[b] = open'[b] /\ lock' = lock
    OBVIOUS
  <2>1. open[b] = open'[b] /\ lock = b /\ lock # Nobody
    BY <1>3, WritersAssumption DEF Inv, OpenRowIsAhead, Writers
  <2>2. b # a
    BY <2>1 DEF Inv, TypeOK, Writers, LockJob, RepeatAttemptEvent, EndWithoutEvent, Rollback
  <2> QED
    BY <2>1, <2>2 DEF LockJob, RepeatAttemptEvent, EndWithoutEvent, Rollback
<1>6. OpenRowIsAhead'
  <2> SUFFICES ASSUME NEW b \in Attempts, open'[b] # Nobody
               PROVE  /\ lock' = b
                      /\ open'[b].by = b
                      /\ open'[b].seq <= lastSeq'
                      /\ (Conflicts(open[b].key) = {})'
                      /\ \A r \in log' : r.seq < open'[b].seq
    BY DEF OpenRowIsAhead
  <2>1. open[b] \in Row
    BY <1>5 DEF Inv, TypeOK, Writers
  <2> QED
    BY <1>1, <1>2, <1>5, <2>1 DEF Inv, OpenRowIsAhead, Row, Conflicts
<1>7. RowsAreNumbered'
  <2>1. \A r \in log : r.seq \in Nat /\ r.seq <= lastSeq
    BY DEF Inv, TypeOK, Row, RowsAreNumbered
  <2>2. \A w \in Reporters : open'[w] # Nobody => open[w] = open'[w] /\ open[w].seq \in Nat
    BY <1>3 DEF Inv, TypeOK, Row, Writers
  <2> QED
    BY <1>1, <1>2, <2>1, <2>2 DEF Inv, RowsAreNumbered
<1>8. (FollowerReadsLog /\ AttemptEventsDelivered /\ FinalReplayComplete /\ KeyedEventsOnce)'
  BY <1>1 DEF Inv, FollowerReadsLog, AttemptEventsDelivered, FinalReplayComplete, KeyedEventsOnce
<1> QED
  BY <1>4, <1>6, <1>7, <1>8 DEF Inv

\* An INSERT, of an attempt under its lock or of append_job_event without one,
\* takes the next number.
LEMMA InsertSteps ==
    ASSUME Inv, NEW w \in Writers,
           \/ /\ w \in Attempts
              /\ \E k \in Keys \cup {NoKey} : InsertAttemptEvent(w, k)
           \/ w \in Reporters /\ InsertJobEvent(w)
    PROVE  Inv'
<1> USE DEF follower
<1>1. UNCHANGED <<lock, log, job, rounds, pc, cursor, seen, due>>
  BY DEF InsertAttemptEvent, InsertJobEvent
<1>2. lastSeq \in Nat /\ lastSeq' = lastSeq + 1
  BY DEF Inv, TypeOK, InsertAttemptEvent, InsertJobEvent
<1>3. PICK k \in Keys \cup {NoKey} :
        /\ open' = [open EXCEPT ![w] = NewRow(w, k)]
        /\ w \in Attempts => lock = w /\ Conflicts(k) = {}
        /\ w \in Reporters => k = NoKey
  BY WritersAssumption DEF InsertAttemptEvent, InsertJobEvent
<1>4. /\ NewRow(w, k) \in Row
      /\ NewRow(w, k).by = w
      /\ NewRow(w, k).key = k
      /\ NewRow(w, k).seq = lastSeq + 1
  BY NewRowFacts DEF Inv
<1>5. open'[w] = NewRow(w, k) /\ \A x \in Writers \ {w} : open'[x] = open[x]
  BY <1>3 DEF Inv, TypeOK
<1>6. TypeOK'
  BY <1>1, <1>2, <1>3, <1>4 DEF Inv, TypeOK
<1>7. \A r \in log : r.seq \in Nat /\ r.seq <= lastSeq
  BY DEF Inv, TypeOK, Row, RowsAreNumbered
<1>8. OpenRowIsAhead'
  <2> SUFFICES ASSUME NEW b \in Attempts, open'[b] # Nobody
               PROVE  /\ lock' = b
                      /\ open'[b].by = b
                      /\ open'[b].seq <= lastSeq'
                      /\ (Conflicts(open[b].key) = {})'
                      /\ \A r \in log' : r.seq < open'[b].seq
    BY DEF OpenRowIsAhead
  <2>1. CASE b = w
    BY <1>1, <1>2, <1>3, <1>4, <1>5, <1>7, <2>1 DEF Conflicts
  <2>2. CASE b # w
    <3>1. open'[b] = open[b] /\ open[b] \in Row
      BY <1>5, <2>2 DEF Inv, TypeOK, Writers
    <3> QED
      BY <1>1, <1>2, <3>1 DEF Inv, OpenRowIsAhead, Row, Conflicts
  <2> QED
    BY <2>1, <2>2
<1>9. RowsAreNumbered'
  <2> SUFFICES ASSUME NEW x \in Reporters, open'[x] # Nobody
               PROVE  open'[x].by = x /\ open'[x].key = NoKey /\ open'[x].seq <= lastSeq'
    BY <1>1, <1>2, <1>7 DEF RowsAreNumbered
  <2>1. CASE x = w
    BY <1>2, <1>3, <1>4, <1>5, <2>1
  <2>2. CASE x # w
    <3>1. open'[x] = open[x] /\ open[x] \in Row
      BY <1>5, <2>2 DEF Inv, TypeOK, Writers
    <3> QED
      BY <1>2, <3>1 DEF Inv, RowsAreNumbered, Row
  <2> QED
    BY <2>1, <2>2
<1>10. (FollowerReadsLog /\ AttemptEventsDelivered /\ FinalReplayComplete /\ KeyedEventsOnce)'
  BY <1>1 DEF Inv, FollowerReadsLog, AttemptEventsDelivered, FinalReplayComplete, KeyedEventsOnce
<1> QED
  BY <1>6, <1>8, <1>9, <1>10 DEF Inv

\* A commit makes a row visible.  The row of an attempt is ahead of the log and
\* so of the cursor; the row of a job event is committed only while no attempt
\* row is open, so no open row falls behind it.
LEMMA CommitSteps ==
    ASSUME Inv, NEW w \in Writers,
           \/ /\ w \in Attempts
              /\ \E status \in {"active", "succeeded"} : CommitAttemptEvent(w, status)
           \/ w \in Reporters /\ CommitJobEvent(w)
    PROVE  Inv'
<1> USE DEF follower
<1>1. UNCHANGED <<lastSeq, rounds, pc, cursor, seen, due>>
  BY DEF CommitAttemptEvent, CommitJobEvent
<1>2. /\ open[w] # Nobody
      /\ open' = [open EXCEPT ![w] = Nobody]
      /\ log' = log \cup {open[w]}
      /\ lock' = Nobody
  BY DEF CommitAttemptEvent, CommitJobEvent
<1>3. /\ open[w] \in Row
      /\ open[w].by = w
      /\ open[w].seq <= lastSeq
  BY <1>2 DEF Inv, TypeOK, OpenRowIsAhead, RowsAreNumbered, Writers
<1>4. TypeOK'
  BY <1>1, <1>2, <1>3 DEF Terminal, Inv, TypeOK, CommitAttemptEvent, CommitJobEvent
<1>5. \A b \in Attempts : open'[b] = Nobody
  <2> SUFFICES ASSUME NEW b \in Attempts, b # w PROVE open[b] = Nobody
    BY <1>2 DEF Inv, TypeOK, Writers
  <2>1. CASE w \in Attempts
    BY <1>2, <2>1 DEF Inv, OpenRowIsAhead
  <2>2. CASE w \in Reporters
    <3>1. lock = Nobody
      BY <2>2, WritersAssumption DEF CommitJobEvent
    <3> QED
      BY <3>1, WritersAssumption DEF Inv, OpenRowIsAhead
  <2> QED
    BY <2>1, <2>2 DEF Writers
<1>6. OpenRowIsAhead'
  BY <1>5 DEF OpenRowIsAhead
<1>7. RowsAreNumbered'
  BY <1>1, <1>2, <1>3 DEF Inv, TypeOK, RowsAreNumbered, Writers
<1>8. w \in Attempts => \A r \in log : r.seq < open[w].seq
  BY <1>2 DEF Inv, OpenRowIsAhead
<1>9. FollowerReadsLog'
  BY <1>1, <1>2 DEF Inv, FollowerReadsLog
<1>10. AttemptEventsDelivered'
  <2>1. w \in Attempts => ~(open[w].seq <= cursor)
    <3>1. open[w].seq \in Nat \ {0} /\ \A r \in log : r.seq \in Nat
      BY <1>3 DEF Inv, TypeOK, Row
    <3> QED
      BY <1>8, <3>1 DEF Inv, FollowerReadsLog
  <2> QED
    BY <1>1, <1>2, <1>3, <2>1, WritersAssumption DEF Inv, AttemptEventsDelivered, Writers
<1>11. FinalReplayComplete'
  BY <1>1 DEF Inv, FinalReplayComplete
<1>12. KeyedEventsOnce'
  <2>1. open[w].key = NoKey \/ \A r \in log : r.key # open[w].key
    BY <1>2 DEF Inv, OpenRowIsAhead, RowsAreNumbered, Conflicts, Writers
  <2> QED
    BY <1>2, <2>1 DEF Inv, KeyedEventsOnce
<1> QED
  BY <1>4, <1>6, <1>7, <1>9, <1>10, <1>11, <1>12 DEF Inv

\* A page holds everything between the old and the new cursor.
LEMMA PageIsGapless ==
    ASSUME TypeOK, NEW page, IsPage(page), NEW next, NextCursor(page, next)
    PROVE  /\ next \in Nat
           /\ next = cursor \/ \E r \in log : r.seq = next
           /\ \A r \in log : r.seq <= next => r.seq <= cursor \/ r \in page
           /\ LastPage(page) => \A r \in log : r.seq <= cursor \/ r \in page
<1>1. cursor \in Nat /\ \A r \in log : r.seq \in Nat
  BY DEF TypeOK, Row
<1>2. /\ page \subseteq log
      /\ \A r \in page, x \in log : x.seq > cursor /\ x \notin page => r.seq < x.seq
      /\ LastPage(page) => page = {r \in log : r.seq > cursor}
  BY DEF IsPage, LastPage
<1>3. CASE page = {}
  BY <1>1, <1>2, <1>3 DEF NextCursor
<1>4. CASE page # {}
  <2>1. PICK r \in page : next = r.seq
    BY <1>4 DEF NextCursor
  <2> QED
    BY <1>1, <1>2, <2>1
<1> QED
  BY <1>3, <1>4

\* The follower's requests change nothing but what it has read.
LEMMA FollowerSteps ==
    ASSUME Inv, Attach \/ Detach \/ FetchPage \/ LoadJob
    PROVE  Inv'
<1> USE DEF store
<1>1. UNCHANGED <<lastSeq, lock, open, log, job, rounds>>
  BY DEF Attach, Detach, FetchPage, LoadJob
<1>2. (OpenRowIsAhead /\ RowsAreNumbered /\ KeyedEventsOnce)'
  BY <1>1 DEF Inv, OpenRowIsAhead, RowsAreNumbered, KeyedEventsOnce, Conflicts
<1>3. CASE Attach
  <2>1. TypeOK' /\ FollowerReadsLog' /\ FinalReplayComplete'
    BY <1>1, <1>3 DEF Inv, TypeOK, FollowerReadsLog, FinalReplayComplete, Attach
  <2>2. AttemptEventsDelivered'
    BY <1>1, <1>3 DEF Inv, TypeOK, Row, AttemptEventsDelivered, Attach
  <2> QED
    BY <1>2, <2>1, <2>2 DEF Inv
<1>4. CASE Detach
  <2>1. TypeOK' /\ FollowerReadsLog' /\ FinalReplayComplete' /\ AttemptEventsDelivered'
    BY <1>1, <1>4 DEF Inv, TypeOK, FollowerReadsLog, FinalReplayComplete,
                      AttemptEventsDelivered, Detach
  <2> QED
    BY <1>2, <2>1 DEF Inv
<1>5. CASE LoadJob
  <2>1. TypeOK'
    BY <1>1, <1>5 DEF Inv, TypeOK, LoadJob
  <2>2. FollowerReadsLog' /\ FinalReplayComplete' /\ AttemptEventsDelivered'
    BY <1>1, <1>5 DEF Inv, FollowerReadsLog, FinalReplayComplete, AttemptEventsDelivered, LoadJob
  <2> QED
    BY <1>2, <2>1, <2>2 DEF Inv
<1>6. CASE FetchPage
  <2>1. PICK page \in SUBSET log :
          /\ IsPage(page)
          /\ NextCursor(page, cursor')
          /\ seen' = seen \cup page
          /\ pc' = IF ~LastPage(page) THEN pc ELSE IF pc = "drain" THEN "load" ELSE "done"
    BY <1>6 DEF FetchPage
  <2>2. pc \in {"drain", "final"} /\ UNCHANGED due
    BY <1>6 DEF FetchPage
  <2>3. /\ cursor' \in Nat
        /\ cursor' = cursor \/ \E r \in log : r.seq = cursor'
        /\ \A r \in log : r.seq <= cursor' => r.seq <= cursor \/ r \in page
        /\ LastPage(page) => \A r \in log : r.seq <= cursor \/ r \in page
    BY <2>1, PageIsGapless DEF Inv
  <2>4. TypeOK'
    BY <1>1, <2>1, <2>2, <2>3 DEF Inv, TypeOK
  <2>5. FollowerReadsLog'
    BY <1>1, <2>2, <2>3 DEF Inv, FollowerReadsLog
  <2>6. AttemptEventsDelivered'
    BY <1>1, <2>1, <2>3 DEF Inv, AttemptEventsDelivered
  <2>7. FinalReplayComplete'
    BY <2>1, <2>2, <2>3 DEF Inv, AttemptEventsDelivered, FollowerReadsLog, FinalReplayComplete
  <2> QED
    BY <1>2, <2>4, <2>5, <2>6, <2>7 DEF Inv
<1> QED
  BY <1>3, <1>4, <1>5, <1>6

\* Every step of a writer, of the job or of the follower keeps the invariant.
LEMMA NextInv == Inv /\ [Next]_vars => Inv'
<1> SUFFICES ASSUME Inv, [Next]_vars PROVE Inv'
  OBVIOUS
<1>1. ASSUME NEW a \in Attempts, AttemptStep(a) PROVE Inv'
  <2> a \in Writers
    BY DEF Writers
  <2> QED
    BY <1>1, LockSteps, InsertSteps, CommitSteps DEF AttemptStep
<1>2. ASSUME NEW w \in Reporters, ReporterStep(w) PROVE Inv'
  <2> w \in Writers
    BY DEF Writers
  <2>1. CASE InsertJobEvent(w) \/ CommitJobEvent(w)
    BY <2>1, InsertSteps, CommitSteps
  <2>2. CASE AbortJobEvent(w)
    <3>1. UNCHANGED <<lastSeq, lock, log, job, rounds, pc, cursor, seen, due>>
      BY <2>2 DEF AbortJobEvent, follower
    <3>2. /\ open' = [open EXCEPT ![w] = Nobody]
          /\ \A x \in Writers : open'[x] = open[x] \/ open'[x] = Nobody
      BY <2>2 DEF AbortJobEvent, Inv, TypeOK
    <3>3. TypeOK'
      BY <3>1, <3>2 DEF Inv, TypeOK
    <3>4. OpenRowIsAhead'
      BY <3>1, <3>2 DEF Inv, OpenRowIsAhead, Writers, Conflicts
    <3>5. RowsAreNumbered'
      BY <3>1, <3>2 DEF Inv, RowsAreNumbered, Writers
    <3>6. (FollowerReadsLog /\ AttemptEventsDelivered /\ FinalReplayComplete /\ KeyedEventsOnce)'
      BY <3>1 DEF Inv, FollowerReadsLog, AttemptEventsDelivered, FinalReplayComplete,
                  KeyedEventsOnce
    <3> QED
      BY <3>3, <3>4, <3>5, <3>6 DEF Inv
  <2> QED
    BY <1>2, <2>1, <2>2 DEF ReporterStep
<1>3. CASE ContinueJob
  <2>1. /\ UNCHANGED <<lastSeq, lock, open, log, pc, cursor, seen, due>>
        /\ job' = "active" /\ rounds' = rounds + 1
    BY <1>3 DEF ContinueJob, follower
  <2> QED
    BY <2>1 DEF Inv, TypeOK, OpenRowIsAhead, RowsAreNumbered, FollowerReadsLog, Conflicts,
                AttemptEventsDelivered, FinalReplayComplete, KeyedEventsOnce
<1>4. CASE Attach \/ Detach \/ FetchPage \/ LoadJob
  BY <1>4, FollowerSteps
<1>5. CASE UNCHANGED vars
  BY <1>5 DEF vars, Inv, TypeOK, OpenRowIsAhead, RowsAreNumbered, FollowerReadsLog, Conflicts,
              AttemptEventsDelivered, FinalReplayComplete, KeyedEventsOnce
<1> QED
  BY <1>1, <1>2, <1>3, <1>4, <1>5 DEF Next

\* The log, the open transactions and the follower agree in every state.
THEOREM LogInvariant == Spec => []Inv
BY InitInv, NextInv, PTL DEF Spec

\* Rows get their numbers (the identity column) before they become visible (the
\* commit), yet no follower's cursor ever passes an unread attempt event.
THEOREM AttemptEventsAreDelivered == Spec => []AttemptEventsDelivered
<1>1. Inv => AttemptEventsDelivered
  BY DEF Inv
<1> QED
  BY LogInvariant, <1>1, PTL

\* monitor_job ends with every attempt event up to the terminal one printed.
THEOREM FinalReplayIsComplete == Spec => []FinalReplayComplete
<1>1. Inv => FinalReplayComplete
  BY DEF Inv
<1> QED
  BY LogInvariant, <1>1, PTL

\* A repeated insert_attempt_event never leaves a second row with its key.
THEOREM KeyedEventsAreUnique == Spec => []KeyedEventsOnce
<1>1. Inv => KeyedEventsOnce
  BY DEF Inv
<1> QED
  BY LogInvariant, <1>1, PTL

=============================================================================
