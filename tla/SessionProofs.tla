---------------------------- MODULE SessionProofs ----------------------------
(***************************************************************************)
(* The wait for a turn, for every recovery window, channel capacity and    *)
(* bound, under every fault: its state has its type, it fails a turn for a *)
(* lost environment only while the link is down, what it logged of the     *)
(* environment is what the link is, it succeeds only on the turn's own     *)
(* completion, and a review whose wait it saw through leaves no trace.     *)
(* The inductive invariant relates the three copies of each fact: the      *)
(* server's verdict, the completion on its way through the worker and the  *)
(* channel, and the outcome; the link, the clock and the last notice.      *)
(*                                                                         *)
(* And the event writer of the wait, for every limit of a chunk, width of  *)
(* a character and set of streams: the log has the turn's texts whole and  *)
(* in the order of their arrival.  The inductive invariant is that a       *)
(* stream's text is in the log or pending, the pending part being newer    *)
(* than all of the log, and that the writer knows of which streams the log *)
(* has text.  The loop that cuts chunks is a recursive function; that it   *)
(* exists, and that its chunks are consecutive pieces of the text, is      *)
(* shown by induction over sets of places.                                 *)
(***************************************************************************)
EXTENDS Session, TurnEvents, WellFoundedInduction, TLAPS

\* A completion on its way is the server's; the server ends a turn once.
Genuine ==
  /\ turn \in {"running", "failing"} => verdict = None
  /\ held = "completed" => verdict = "completed"
  /\ \A i \in 1..Len(queue) : queue[i] = "completed" => verdict = "completed"
  /\ outcome \in {"completed", "rejected"} => verdict = "completed"

\* The clock runs exactly while the last notice of the wait is that the
\* environment is gone, and for a loop that has read every change, while it is.
Clocked ==
  pc \in {"waiting", "answering"} =>
    /\ outcome = None
    /\ (left = Off) = (notice # "disconnected")
    /\ ~unseen => notice = link \/ (notice = None /\ link = "connected")

\* The types, apart: truth values, the channel, and the rest.
Truths ==
  /\ asked \in BOOLEAN /\ skipped \in BOOLEAN /\ unseen \in BOOLEAN
  /\ merged \in BOOLEAN /\ monitor \in BOOLEAN /\ cancelled \in BOOLEAN /\ lease \in BOOLEAN
  /\ active \in BOOLEAN /\ snapshot \in BOOLEAN

Channel == queue \in Seq(Kinds \cup {"lagged"}) /\ Len(queue) <= Capacity

Values ==
  /\ turn \in {"running", "failing", "ended", "stopped"}
  /\ verdict \in Verdicts \cup {None}
  /\ tree \in {"kept", "changed"}
  /\ held \in Kinds \cup {None}
  /\ sent \in 0..MaxEvents /\ flaps \in 0..MaxFlaps
  /\ link \in {"connected", "disconnected"} /\ notice \in {"connected", "disconnected", None}
  /\ left \in 0..Off /\ age \in 0..Grace
  /\ pc \in {"waiting", "answering", "rollback", "closing", "done"}
  /\ outcome \in {None, "completed", "failed", "expired", "cancelled", "lagged", "lost", "rejected"}

\* Together they are the type invariant.
LEMMA Types == TypeOK <=> Truths /\ Channel /\ Values
BY DEF TypeOK, Truths, Channel, Values

\* And so after a step.
LEMMA TypesNext == TypeOK' <=> Truths' /\ Channel' /\ Values'
BY DEF TypeOK, Truths, Channel, Values

IInv == TypeOK /\ Genuine /\ Clocked /\ ExpiresOnlyWhileDown

\* Off is no time on the clock.
LEMMA OffIsLater == Off \in Nat /\ Off = Grace + 1 /\ Grace \in Nat \ {0}
BY GraceAssumption DEF Off

\* The wait begins with the link's state in the log and the clock to match.
LEMMA InitInv == Init => IInv
<1> SUFFICES ASSUME Init PROVE IInv
  OBVIOUS
<1>a. Truths
  BY DEF Init, Truths
<1>b. Channel
  BY CapacityAssumption DEF Init, Channel
<1>c. Values
  BY OffIsLater, BoundsAssumption DEF Init, Values, None, Verdicts
<1>1. TypeOK
  BY <1>a, <1>b, <1>c, Types
<1>2. Genuine /\ Clocked /\ ExpiresOnlyWhileDown
  BY OffIsLater DEF Init, Genuine, Clocked, ExpiresOnlyWhileDown, None
<1> QED BY <1>1, <1>2 DEF IInv

\* The server ends its turn at most once, and says so truly.
LEMMA EmitInv ==
  ASSUME IInv, NEW kind \in Sent, Emit(kind)
  PROVE  IInv'
<1> USE OffIsLater DEF Emit, MayEmit, server, client, watch, session, None
<1>a. Truths'
  BY DEF IInv, TypeOK, Truths
<1>b. Channel'
  BY CapacityAssumption, SentAssumption
  DEF IInv, TypeOK, Channel, Kinds, BestEffort, Lossless
<1>c. Values'
  BY BoundsAssumption, SentAssumption
  DEF IInv, TypeOK, Values, Kinds, BestEffort, Lossless, Verdicts
<1>1. TypeOK'
  BY <1>a, <1>b, <1>c, TypesNext
<1>2. Genuine'
  BY DEF IInv, TypeOK, Genuine, Kinds, BestEffort, Lossless, Verdicts
<1>3. Clocked'
  BY DEF IInv, TypeOK, Clocked
<1>4. ExpiresOnlyWhileDown'
  BY DEF IInv, TypeOK, Clocked, ExpiresOnlyWhileDown
<1> QED BY <1>1, <1>2, <1>3, <1>4 DEF IInv

\* A write of the turn is to the tree alone.
LEMMA MutateInv ==
  ASSUME IInv, Mutate
  PROVE  IInv'
<1> USE OffIsLater DEF Mutate, server, client, watch, session, None
<1>a. Truths'
  BY DEF IInv, TypeOK, Truths
<1>b. Channel'
  BY CapacityAssumption, SentAssumption
  DEF IInv, TypeOK, Channel, Kinds, BestEffort, Lossless
<1>c. Values'
  BY BoundsAssumption, SentAssumption
  DEF IInv, TypeOK, Values, Kinds, BestEffort, Lossless, Verdicts
<1>1. TypeOK'
  BY <1>a, <1>b, <1>c, TypesNext
<1>2. Genuine'
  BY DEF IInv, TypeOK, Genuine, Kinds, BestEffort, Lossless, Verdicts
<1>3. Clocked'
  BY DEF IInv, TypeOK, Clocked
<1>4. ExpiresOnlyWhileDown'
  BY DEF IInv, TypeOK, Clocked, ExpiresOnlyWhileDown
<1> QED BY <1>1, <1>2, <1>3, <1>4 DEF IInv

\* A lag marker is no completion.
LEMMA ForwardMarkerInv ==
  ASSUME IInv, ForwardMarker
  PROVE  IInv'
<1> USE OffIsLater DEF ForwardMarker, Full, server, client, watch, session, None
<1>a. Truths'
  BY DEF IInv, TypeOK, Truths
<1>b. Channel'
  BY CapacityAssumption, SentAssumption
  DEF IInv, TypeOK, Channel, Kinds, BestEffort, Lossless
<1>c. Values'
  BY BoundsAssumption, SentAssumption
  DEF IInv, TypeOK, Values, Kinds, BestEffort, Lossless, Verdicts
<1>1. TypeOK'
  BY <1>a, <1>b, <1>c, TypesNext
<1>2. Genuine'
  BY DEF IInv, TypeOK, Genuine, Kinds, BestEffort, Lossless, Verdicts
<1>3. Clocked'
  BY DEF IInv, TypeOK, Clocked
<1>4. ExpiresOnlyWhileDown'
  BY DEF IInv, TypeOK, Clocked, ExpiresOnlyWhileDown
<1> QED BY <1>1, <1>2, <1>3, <1>4 DEF IInv

\* A forwarded event is the one the worker held.
LEMMA ForwardInv ==
  ASSUME IInv, Forward
  PROVE  IInv'
<1> USE OffIsLater DEF Forward, Full, server, client, watch, session, None
<1>a. Truths'
  BY DEF IInv, TypeOK, Truths
<1>b. Channel'
  BY CapacityAssumption, SentAssumption
  DEF IInv, TypeOK, Channel, Kinds, BestEffort, Lossless
<1>c. Values'
  BY BoundsAssumption, SentAssumption
  DEF IInv, TypeOK, Values, Kinds, BestEffort, Lossless, Verdicts
<1>1. TypeOK'
  BY <1>a, <1>b, <1>c, TypesNext
<1>2. Genuine'
  BY DEF IInv, TypeOK, Genuine, Kinds, BestEffort, Lossless, Verdicts
<1>3. Clocked'
  BY DEF IInv, TypeOK, Clocked
<1>4. ExpiresOnlyWhileDown'
  BY DEF IInv, TypeOK, Clocked, ExpiresOnlyWhileDown
<1> QED BY <1>1, <1>2, <1>3, <1>4 DEF IInv

\* A dropped event is never a completion.
LEMMA DropInv ==
  ASSUME IInv, Drop
  PROVE  IInv'
<1> USE OffIsLater DEF Drop, Full, server, client, watch, session, None
<1>a. Truths'
  BY DEF IInv, TypeOK, Truths
<1>b. Channel'
  BY CapacityAssumption, SentAssumption
  DEF IInv, TypeOK, Channel, Kinds, BestEffort, Lossless
<1>c. Values'
  BY BoundsAssumption, SentAssumption
  DEF IInv, TypeOK, Values, Kinds, BestEffort, Lossless, Verdicts
<1>1. TypeOK'
  BY <1>a, <1>b, <1>c, TypesNext
<1>2. Genuine'
  BY DEF IInv, TypeOK, Genuine, Kinds, BestEffort, Lossless, Verdicts
<1>3. Clocked'
  BY DEF IInv, TypeOK, Clocked
<1>4. ExpiresOnlyWhileDown'
  BY DEF IInv, TypeOK, Clocked, ExpiresOnlyWhileDown
<1> QED BY <1>1, <1>2, <1>3, <1>4 DEF IInv

\* An answered session is back in its loop.
LEMMA ServeAnswerInv ==
  ASSUME IInv, ServeAnswer
  PROVE  IInv'
<1> USE OffIsLater DEF ServeAnswer, server, client, watch, session, None
<1>a. Truths'
  BY DEF IInv, TypeOK, Truths
<1>b. Channel'
  BY CapacityAssumption, SentAssumption
  DEF IInv, TypeOK, Channel, Kinds, BestEffort, Lossless
<1>c. Values'
  BY BoundsAssumption, SentAssumption
  DEF IInv, TypeOK, Values, Kinds, BestEffort, Lossless, Verdicts
<1>1. TypeOK'
  BY <1>a, <1>b, <1>c, TypesNext
<1>2. Genuine'
  BY DEF IInv, TypeOK, Genuine, Kinds, BestEffort, Lossless, Verdicts
<1>3. Clocked'
  BY DEF IInv, TypeOK, Clocked
<1>4. ExpiresOnlyWhileDown'
  BY DEF IInv, TypeOK, Clocked, ExpiresOnlyWhileDown
<1> QED BY <1>1, <1>2, <1>3, <1>4 DEF IInv

\* A change of the link is unread.
LEMMA FlapInv ==
  ASSUME IInv, Flap
  PROVE  IInv'
<1> USE OffIsLater DEF Flap, Waiting, server, client, watch, session, None
<1>a. Truths'
  BY DEF IInv, TypeOK, Truths
<1>b. Channel'
  BY CapacityAssumption, SentAssumption
  DEF IInv, TypeOK, Channel, Kinds, BestEffort, Lossless
<1>c. Values'
  BY BoundsAssumption, SentAssumption
  DEF IInv, TypeOK, Values, Kinds, BestEffort, Lossless, Verdicts
<1>1. TypeOK'
  BY <1>a, <1>b, <1>c, TypesNext
<1>2. Genuine'
  BY DEF IInv, TypeOK, Genuine, Kinds, BestEffort, Lossless, Verdicts
<1>3. Clocked'
  BY DEF IInv, TypeOK, Clocked
<1>4. ExpiresOnlyWhileDown'
  BY DEF IInv, TypeOK, Clocked, ExpiresOnlyWhileDown
<1> QED BY <1>1, <1>2, <1>3, <1>4 DEF IInv

\* The clock runs down and does not stop.
LEMMA TickInv ==
  ASSUME IInv, Tick
  PROVE  IInv'
<1> USE OffIsLater DEF Tick, Waiting, server, client, watch, session, None
<1>a. Truths'
  BY DEF IInv, TypeOK, Truths
<1>b. Channel'
  BY CapacityAssumption, SentAssumption
  DEF IInv, TypeOK, Channel, Kinds, BestEffort, Lossless
<1>c. Values'
  BY BoundsAssumption, SentAssumption
  DEF IInv, TypeOK, Values, Kinds, BestEffort, Lossless, Verdicts
<1>1. TypeOK'
  BY <1>a, <1>b, <1>c, TypesNext
<1>2. Genuine'
  BY DEF IInv, TypeOK, Genuine, Kinds, BestEffort, Lossless, Verdicts
<1>3. Clocked'
  BY DEF IInv, TypeOK, Clocked
<1>4. ExpiresOnlyWhileDown'
  BY DEF IInv, TypeOK, Clocked, ExpiresOnlyWhileDown
<1> QED BY <1>1, <1>2, <1>3, <1>4 DEF IInv

\* Cancelling sets the handle.
LEMMA CancelAttemptInv ==
  ASSUME IInv, CancelAttempt
  PROVE  IInv'
<1> USE OffIsLater DEF CancelAttempt, server, client, watch, session, None
<1>a. Truths'
  BY DEF IInv, TypeOK, Truths
<1>b. Channel'
  BY CapacityAssumption, SentAssumption
  DEF IInv, TypeOK, Channel, Kinds, BestEffort, Lossless
<1>c. Values'
  BY BoundsAssumption, SentAssumption
  DEF IInv, TypeOK, Values, Kinds, BestEffort, Lossless, Verdicts
<1>1. TypeOK'
  BY <1>a, <1>b, <1>c, TypesNext
<1>2. Genuine'
  BY DEF IInv, TypeOK, Genuine, Kinds, BestEffort, Lossless, Verdicts
<1>3. Clocked'
  BY DEF IInv, TypeOK, Clocked
<1>4. ExpiresOnlyWhileDown'
  BY DEF IInv, TypeOK, Clocked, ExpiresOnlyWhileDown
<1> QED BY <1>1, <1>2, <1>3, <1>4 DEF IInv

\* A lost lease shows at the next event.
LEMMA LoseLeaseInv ==
  ASSUME IInv, LoseLease
  PROVE  IInv'
<1> USE OffIsLater DEF LoseLease, Waiting, server, client, watch, session, None
<1>a. Truths'
  BY DEF IInv, TypeOK, Truths
<1>b. Channel'
  BY CapacityAssumption, SentAssumption
  DEF IInv, TypeOK, Channel, Kinds, BestEffort, Lossless
<1>c. Values'
  BY BoundsAssumption, SentAssumption
  DEF IInv, TypeOK, Values, Kinds, BestEffort, Lossless, Verdicts
<1>1. TypeOK'
  BY <1>a, <1>b, <1>c, TypesNext
<1>2. Genuine'
  BY DEF IInv, TypeOK, Genuine, Kinds, BestEffort, Lossless, Verdicts
<1>3. Clocked'
  BY DEF IInv, TypeOK, Clocked
<1>4. ExpiresOnlyWhileDown'
  BY DEF IInv, TypeOK, Clocked, ExpiresOnlyWhileDown
<1> QED BY <1>1, <1>2, <1>3, <1>4 DEF IInv

\* A dropped monitor shows at the next poll.
LEMMA DropMonitorInv ==
  ASSUME IInv, DropMonitor
  PROVE  IInv'
<1> USE OffIsLater DEF DropMonitor, Waiting, server, client, watch, session, None
<1>a. Truths'
  BY DEF IInv, TypeOK, Truths
<1>b. Channel'
  BY CapacityAssumption, SentAssumption
  DEF IInv, TypeOK, Channel, Kinds, BestEffort, Lossless
<1>c. Values'
  BY BoundsAssumption, SentAssumption
  DEF IInv, TypeOK, Values, Kinds, BestEffort, Lossless, Verdicts
<1>1. TypeOK'
  BY <1>a, <1>b, <1>c, TypesNext
<1>2. Genuine'
  BY DEF IInv, TypeOK, Genuine, Kinds, BestEffort, Lossless, Verdicts
<1>3. Clocked'
  BY DEF IInv, TypeOK, Clocked
<1>4. ExpiresOnlyWhileDown'
  BY DEF IInv, TypeOK, Clocked, ExpiresOnlyWhileDown
<1> QED BY <1>1, <1>2, <1>3, <1>4 DEF IInv

\* A server that dies leaves the events already sent.
LEMMA ServerDiesInv ==
  ASSUME IInv, ServerDies
  PROVE  IInv'
<1> USE OffIsLater DEF ServerDies, Waiting, server, client, watch, session, None
<1>a. Truths'
  BY DEF IInv, TypeOK, Truths
<1>b. Channel'
  BY CapacityAssumption, SentAssumption
  DEF IInv, TypeOK, Channel, Kinds, BestEffort, Lossless
<1>c. Values'
  BY BoundsAssumption, SentAssumption
  DEF IInv, TypeOK, Values, Kinds, BestEffort, Lossless, Verdicts
<1>1. TypeOK'
  BY <1>a, <1>b, <1>c, TypesNext
<1>2. Genuine'
  BY DEF IInv, TypeOK, Genuine, Kinds, BestEffort, Lossless, Verdicts
<1>3. Clocked'
  BY DEF IInv, TypeOK, Clocked
<1>4. ExpiresOnlyWhileDown'
  BY DEF IInv, TypeOK, Clocked, ExpiresOnlyWhileDown
<1> QED BY <1>1, <1>2, <1>3, <1>4 DEF IInv

\* A cancelled wait empties the channel.
LEMMA LoopCancelledInv ==
  ASSUME IInv, LoopCancelled
  PROVE  IInv'
<1> USE OffIsLater DEF LoopCancelled, Interrupt, Return, server, client, watch, session, None
<1>a. Truths'
  BY DEF IInv, TypeOK, Truths
<1>b. Channel'
  BY CapacityAssumption, SentAssumption
  DEF IInv, TypeOK, Channel, Kinds, BestEffort, Lossless
<1>c. Values'
  BY BoundsAssumption, SentAssumption
  DEF IInv, TypeOK, Values, Kinds, BestEffort, Lossless, Verdicts
<1>1. TypeOK'
  BY <1>a, <1>b, <1>c, TypesNext
<1>2. Genuine'
  BY DEF IInv, TypeOK, Genuine, Kinds, BestEffort, Lossless, Verdicts
<1>3. Clocked'
  BY DEF IInv, TypeOK, Clocked
<1>4. ExpiresOnlyWhileDown'
  BY DEF IInv, TypeOK, Clocked, ExpiresOnlyWhileDown
<1> QED BY <1>1, <1>2, <1>3, <1>4 DEF IInv

\* An expired clock ends the wait only if the link is down.
LEMMA LoopExpiredInv ==
  ASSUME IInv, LoopExpired
  PROVE  IInv'
<1> USE OffIsLater DEF LoopExpired, Recovered, Interrupt, Fail, Return, server, client, watch, session, None
<1>a. Truths'
  BY DEF IInv, TypeOK, Truths
<1>b. Channel'
  <2>1. queue' = << >> \/ queue' = queue
    OBVIOUS
  <2>2. CASE queue' = << >>
    BY <2>2, CapacityAssumption DEF Channel
  <2>3. CASE queue' = queue
    BY <2>3 DEF IInv, TypeOK, Channel
  <2> QED BY <2>1, <2>2, <2>3
<1>c. Values'
  BY BoundsAssumption, SentAssumption
  DEF IInv, TypeOK, Values, Kinds, BestEffort, Lossless, Verdicts
<1>1. TypeOK'
  BY <1>a, <1>b, <1>c, TypesNext
<1>2. Genuine'
  BY DEF IInv, TypeOK, Genuine, Kinds, BestEffort, Lossless, Verdicts
<1>3. Clocked'
  BY DEF IInv, TypeOK, Clocked
<1>4. ExpiresOnlyWhileDown'
  BY DEF IInv, TypeOK, Clocked, ExpiresOnlyWhileDown
<1> QED BY <1>1, <1>2, <1>3, <1>4 DEF IInv

\* Reading the watch brings clock and log in line with the link.
LEMMA LoopEnvironmentInv ==
  ASSUME IInv, LoopEnvironment
  PROVE  IInv'
<1> USE OffIsLater DEF LoopEnvironment, UpdateRecovery, Fail, Return, server, client, watch, session, None
<1>a. Truths'
  BY DEF IInv, TypeOK, Truths
<1>b. Channel'
  BY CapacityAssumption, SentAssumption
  DEF IInv, TypeOK, Channel, Kinds, BestEffort, Lossless
<1>c. Values'
  BY BoundsAssumption, SentAssumption
  DEF IInv, TypeOK, Values, Kinds, BestEffort, Lossless, Verdicts
<1>1. TypeOK'
  BY <1>a, <1>b, <1>c, TypesNext
<1>2. Genuine'
  BY DEF IInv, TypeOK, Genuine, Kinds, BestEffort, Lossless, Verdicts
<1>3. Clocked'
  BY DEF IInv, TypeOK, Clocked
<1>4. ExpiresOnlyWhileDown'
  BY DEF IInv, TypeOK, Clocked, ExpiresOnlyWhileDown
<1> QED BY <1>1, <1>2, <1>3, <1>4 DEF IInv

\* A closed monitor fails the wait, or the fence does.
LEMMA LoopMonitorClosedInv ==
  ASSUME IInv, LoopMonitorClosed
  PROVE  IInv'
<1> USE OffIsLater DEF LoopMonitorClosed, Interrupt, Fail, Return, server, client, watch, session, None
<1>a. Truths'
  BY DEF IInv, TypeOK, Truths
<1>b. Channel'
  <2>1. queue' = << >> \/ queue' = queue
    OBVIOUS
  <2>2. CASE queue' = << >>
    BY <2>2, CapacityAssumption DEF Channel
  <2>3. CASE queue' = queue
    BY <2>3 DEF IInv, TypeOK, Channel
  <2> QED BY <2>1, <2>2, <2>3
<1>c. Values'
  BY BoundsAssumption, SentAssumption
  DEF IInv, TypeOK, Values, Kinds, BestEffort, Lossless, Verdicts
<1>1. TypeOK'
  BY <1>a, <1>b, <1>c, TypesNext
<1>2. Genuine'
  BY DEF IInv, TypeOK, Genuine, Kinds, BestEffort, Lossless, Verdicts
<1>3. Clocked'
  BY DEF IInv, TypeOK, Clocked
<1>4. ExpiresOnlyWhileDown'
  BY DEF IInv, TypeOK, Clocked, ExpiresOnlyWhileDown
<1> QED BY <1>1, <1>2, <1>3, <1>4 DEF IInv

\* Only a completion taken from the channel makes the wait succeed.
LEMMA LoopServerInv ==
  ASSUME IInv, LoopServer
  PROVE  IInv'
<1> USE OffIsLater DEF LoopServer, ServerTurn, Terminal, Targets, Result, Return, server, client, watch, session, None
<1>a. Truths'
  BY DEF IInv, TypeOK, Truths
<1>b. Channel'
  BY CapacityAssumption, SentAssumption
  DEF IInv, TypeOK, Channel, Kinds, BestEffort, Lossless
<1>c. Values'
  BY BoundsAssumption, SentAssumption
  DEF IInv, TypeOK, Values, Kinds, BestEffort, Lossless, Verdicts
<1>1. TypeOK'
  BY <1>a, <1>b, <1>c, TypesNext
<1>2. Genuine'
  <2>1. queue \in Seq(Kinds \cup {"lagged"}) /\ queue # << >> /\ queue' = Tail(queue)
    BY DEF IInv, TypeOK
  <2>2. /\ Len(queue) \in Nat \ {0} /\ Len(Tail(queue)) = Len(queue) - 1
        /\ Head(queue) = queue[1]
        /\ \A i \in 1..Len(Tail(queue)) : Tail(queue)[i] = queue[i + 1]
    BY <2>1
  <2>3. \A i \in 1..Len(queue') : queue'[i] = "completed" => verdict = "completed"
    BY <2>1, <2>2 DEF IInv, Genuine
  <2>4. Head(queue) = "completed" => verdict = "completed"
    BY <2>2 DEF IInv, Genuine
  <2>5. outcome' \in {"completed", "rejected"} => verdict = "completed"
    <3>1. CASE outcome' = outcome
      BY <3>1 DEF IInv, Genuine
    <3>2. CASE outcome' # outcome
      BY <2>4, <3>2
    <3> QED BY <3>1, <3>2
  <2> QED BY <2>3, <2>5 DEF IInv, Genuine
<1>3. Clocked'
  BY DEF IInv, TypeOK, Clocked
<1>4. ExpiresOnlyWhileDown'
  BY DEF IInv, TypeOK, Clocked, ExpiresOnlyWhileDown
<1> QED BY <1>1, <1>2, <1>3, <1>4 DEF IInv

\* A closed stream fails the wait.
LEMMA LoopStreamClosedInv ==
  ASSUME IInv, LoopStreamClosed
  PROVE  IInv'
<1> USE OffIsLater DEF LoopStreamClosed, ServerTurn, Return, server, client, watch, session, None
<1>a. Truths'
  BY DEF IInv, TypeOK, Truths
<1>b. Channel'
  BY CapacityAssumption, SentAssumption
  DEF IInv, TypeOK, Channel, Kinds, BestEffort, Lossless
<1>c. Values'
  BY BoundsAssumption, SentAssumption
  DEF IInv, TypeOK, Values, Kinds, BestEffort, Lossless, Verdicts
<1>1. TypeOK'
  BY <1>a, <1>b, <1>c, TypesNext
<1>2. Genuine'
  BY DEF IInv, TypeOK, Genuine, Kinds, BestEffort, Lossless, Verdicts
<1>3. Clocked'
  BY DEF IInv, TypeOK, Clocked
<1>4. ExpiresOnlyWhileDown'
  BY DEF IInv, TypeOK, Clocked, ExpiresOnlyWhileDown
<1> QED BY <1>1, <1>2, <1>3, <1>4 DEF IInv

\* An answer nobody takes fails the wait.
LEMMA AnswerFailsInv ==
  ASSUME IInv, AnswerFails
  PROVE  IInv'
<1> USE OffIsLater DEF AnswerFails, Return, server, client, watch, session, None
<1>a. Truths'
  BY DEF IInv, TypeOK, Truths
<1>b. Channel'
  BY CapacityAssumption, SentAssumption
  DEF IInv, TypeOK, Channel, Kinds, BestEffort, Lossless
<1>c. Values'
  BY BoundsAssumption, SentAssumption
  DEF IInv, TypeOK, Values, Kinds, BestEffort, Lossless, Verdicts
<1>1. TypeOK'
  BY <1>a, <1>b, <1>c, TypesNext
<1>2. Genuine'
  BY DEF IInv, TypeOK, Genuine, Kinds, BestEffort, Lossless, Verdicts
<1>3. Clocked'
  BY DEF IInv, TypeOK, Clocked
<1>4. ExpiresOnlyWhileDown'
  BY DEF IInv, TypeOK, Clocked, ExpiresOnlyWhileDown
<1> QED BY <1>1, <1>2, <1>3, <1>4 DEF IInv

\* A review that changed the tree was completed and is rejected.
LEMMA RollbackInv ==
  ASSUME IInv, Rollback
  PROVE  IInv'
<1> USE OffIsLater DEF Rollback, server, client, watch, session, None
<1>a. Truths'
  BY DEF IInv, TypeOK, Truths
<1>b. Channel'
  BY CapacityAssumption, SentAssumption
  DEF IInv, TypeOK, Channel, Kinds, BestEffort, Lossless
<1>c. Values'
  BY BoundsAssumption, SentAssumption
  DEF IInv, TypeOK, Values, Kinds, BestEffort, Lossless, Verdicts
<1>1. TypeOK'
  BY <1>a, <1>b, <1>c, TypesNext
<1>2. Genuine'
  BY DEF IInv, TypeOK, Genuine, Kinds, BestEffort, Lossless, Verdicts
<1>3. Clocked'
  BY DEF IInv, TypeOK, Clocked
<1>4. ExpiresOnlyWhileDown'
  BY DEF IInv, TypeOK, Clocked, ExpiresOnlyWhileDown
<1> QED BY <1>1, <1>2, <1>3, <1>4 DEF IInv

\* Closing the session empties the channel.
LEMMA CloseInv ==
  ASSUME IInv, Close
  PROVE  IInv'
<1> USE OffIsLater DEF Close, server, client, watch, session, None
<1>a. Truths'
  BY DEF IInv, TypeOK, Truths
<1>b. Channel'
  BY CapacityAssumption, SentAssumption
  DEF IInv, TypeOK, Channel, Kinds, BestEffort, Lossless
<1>c. Values'
  BY BoundsAssumption, SentAssumption
  DEF IInv, TypeOK, Values, Kinds, BestEffort, Lossless, Verdicts
<1>1. TypeOK'
  BY <1>a, <1>b, <1>c, TypesNext
<1>2. Genuine'
  BY DEF IInv, TypeOK, Genuine, Kinds, BestEffort, Lossless, Verdicts
<1>3. Clocked'
  BY DEF IInv, TypeOK, Clocked
<1>4. ExpiresOnlyWhileDown'
  BY DEF IInv, TypeOK, Clocked, ExpiresOnlyWhileDown
<1> QED BY <1>1, <1>2, <1>3, <1>4 DEF IInv

\* The inductive invariant holds throughout.
THEOREM Invariant == Spec => []IInv
<1>1. IInv /\ UNCHANGED vars => IInv'
  BY DEF IInv, TypeOK, Genuine, Clocked, ExpiresOnlyWhileDown, vars
<1>2. IInv /\ Next => IInv'
  BY EmitInv, MutateInv, ForwardMarkerInv, ForwardInv, DropInv, ServeAnswerInv,
     FlapInv, TickInv, CancelAttemptInv, LoseLeaseInv, DropMonitorInv,
     ServerDiesInv, LoopCancelledInv, LoopExpiredInv, LoopEnvironmentInv,
     LoopMonitorClosedInv, LoopServerInv, LoopStreamClosedInv, AnswerFailsInv,
     RollbackInv, CloseInv
  DEF Next, Loop
<1> QED BY InitInv, <1>1, <1>2, PTL DEF Spec

\* The state of the wait, the client and the watch has its type; the channel
\* never holds more than its capacity.
THEOREM TypeCorrect == Spec => []TypeOK
<1>1. IInv => TypeOK
  BY DEF IInv
<1> QED BY Invariant, <1>1, PTL

\* wait_for_completion gives a turn up for its environment only while the
\* link is down, however late it reads the watch.
THEOREM ExpiryIsHonest == Spec => []ExpiresOnlyWhileDown
<1>1. IInv => ExpiresOnlyWhileDown
  BY DEF IInv
<1> QED BY Invariant, <1>1, PTL

\* The environment events that wait_for_completion emits are true of every change
\* the loop has read, and it emits one for every disconnect it has read.
THEOREM NoticesAreTrue == Spec => []NoticesMatch
<1>1. IInv => NoticesMatch
  BY DEF IInv, Clocked, NoticesMatch
<1> QED BY Invariant, <1>1, PTL

\* A wait succeeds only when the server completed the turn waited for.
THEOREM SuccessIsGenuine == Spec => []OwnTurnDecides
<1>1. IInv => OwnTurnDecides
  BY DEF IInv, Genuine, OwnTurnDecides
<1> QED BY Invariant, <1>1, PTL

\* While the clock runs it shows no more time gone than the link is down: what
\* is left of the window and the age of the outage make up the whole window,
\* unless a change of the link was replaced in the watch before it was read.
Windowed ==
  /\ Waiting /\ left # Off /\ link = "disconnected" /\ ~merged => left + age >= Grace
  /\ GraceIsFull

\* The wait begins with the whole window.
LEMMA InitWindowed == Init => Windowed
BY OffIsLater DEF Init, Windowed, GraceIsFull, Waiting, None

\* A step that leaves the watch and the clock alone, and neither resumes a wait
\* nor ends one for its environment, leaves the window as it is.
LEMMA OutsideWindow ==
  ASSUME IInv, Windowed, UNCHANGED <<watch, left>>,
         Waiting' => Waiting, outcome' = "expired" => outcome = "expired"
  PROVE  Windowed'
BY DEF IInv, Windowed, GraceIsFull, Waiting, watch

\* A link that goes down under a running clock replaces an unread reconnect.
LEMMA FlapWindowed ==
  ASSUME IInv, Windowed, Flap
  PROVE  Windowed'
<1> USE OffIsLater DEF Flap, IInv, TypeOK, Clocked, Waiting, session, None
<1>1. outcome' = None
  OBVIOUS
<1>2. CASE link = "disconnected"
  BY <1>1, <1>2 DEF Windowed, GraceIsFull
<1>3. CASE link = "connected" /\ unseen
  BY <1>1, <1>3 DEF Windowed, GraceIsFull
<1>4. CASE link = "connected" /\ ~unseen
  <2>1. left = Off /\ left' = left
    BY <1>4
  <2> QED BY <1>1, <2>1 DEF Windowed, GraceIsFull
<1> QED BY <1>2, <1>3, <1>4

\* The clock and the outage age together.
LEMMA TickWindowed ==
  ASSUME IInv, Windowed, Tick
  PROVE  Windowed'
<1> USE OffIsLater DEF Tick, IInv, TypeOK, Clocked, Waiting, session, None
<1>1. outcome' = None
  OBVIOUS
<1>2. Grace \in Nat /\ left \in Nat /\ age \in 0..Grace
  OBVIOUS
<1> QED BY <1>1, <1>2 DEF Windowed, GraceIsFull

\* A clock that has run down on an outage has run for the whole window.
LEMMA LoopExpiredWindowed ==
  ASSUME IInv, Windowed, LoopExpired
  PROVE  Windowed'
<1> USE OffIsLater DEF LoopExpired, Recovered, IInv, TypeOK, Clocked, Waiting, watch, session, None
<1>1. left' = Off /\ age' = age /\ merged' = merged /\ link' = link
  OBVIOUS
<1>2. ~Recovered /\ ~merged => age = Grace
  BY DEF Windowed
<1>3. outcome' = "expired" => ~Recovered
  BY DEF Fail, Return
<1> QED BY <1>1, <1>2, <1>3 DEF Windowed, GraceIsFull

\* The clock is started with the whole window.
LEMMA LoopEnvironmentWindowed ==
  ASSUME IInv, Windowed, LoopEnvironment
  PROVE  Windowed'
<1> USE OffIsLater DEF LoopEnvironment, IInv, TypeOK, Clocked, Waiting, session, None
<1>1. outcome' \in {None, "lost"}
  BY DEF Fail, Return
<1>2. left' = Off \/ left' = Grace \/ (left' = left /\ left # Off)
  BY DEF UpdateRecovery
<1> QED BY <1>1, <1>2 DEF Windowed, GraceIsFull

\* The window is kept by every step.
LEMMA NextWindowed ==
  ASSUME IInv, Windowed, Next
  PROVE  Windowed'
<1> USE DEF server, client, watch, session, Waiting, None
<1>1. CASE Flap
  BY <1>1, FlapWindowed
<1>2. CASE Tick
  BY <1>2, TickWindowed
<1>3. CASE LoopExpired
  BY <1>3, LoopExpiredWindowed
<1>4. CASE LoopEnvironment
  BY <1>4, LoopEnvironmentWindowed
<1>5. ASSUME NEW kind \in Sent, Emit(kind) PROVE Windowed'
  BY <1>5, OutsideWindow DEF Emit
<1>6. CASE Mutate \/ CancelAttempt \/ LoseLease \/ ServerDies
  BY <1>6, OutsideWindow DEF Mutate, CancelAttempt, LoseLease, ServerDies
<1>7. CASE DropMonitor
  BY <1>7 DEF DropMonitor, Windowed, GraceIsFull
<1>8. CASE ForwardMarker \/ Forward \/ Drop \/ ServeAnswer
  BY <1>8, OutsideWindow DEF ForwardMarker, Forward, Drop, ServeAnswer
<1>9. CASE LoopCancelled \/ LoopMonitorClosed
  BY <1>9, OutsideWindow DEF LoopCancelled, LoopMonitorClosed, Interrupt, Fail, Return
<1>10. CASE LoopServer
  BY <1>10, OutsideWindow DEF LoopServer, ServerTurn, Result, Return
<1>11. CASE LoopStreamClosed \/ AnswerFails
  BY <1>11, OutsideWindow DEF LoopStreamClosed, ServerTurn, AnswerFails, Return
<1>12. CASE Rollback \/ Close
  BY <1>12, OutsideWindow DEF Rollback, Close
<1> QED BY <1>1, <1>2, <1>3, <1>4, <1>5, <1>6, <1>7, <1>8, <1>9, <1>10, <1>11, <1>12
  DEF Next, Loop

\* An outage the loop can tell from the one before gets the whole recovery
\* window before wait_for_completion gives the turn up.
THEOREM WindowIsFull == Spec => []GraceIsFull
<1>1. Windowed /\ UNCHANGED vars => Windowed'
  BY DEF Windowed, GraceIsFull, Waiting, vars
<1>2. Windowed => GraceIsFull
  BY DEF Windowed
<1> QED BY InitWindowed, NextWindowed, Invariant, <1>1, <1>2, PTL DEF Spec

\* What wait_for_completion believes and does about the environment is true of
\* the link in every reachable state.
THEOREM WaitInvariant == Spec => []WaitInv
<1>1. TypeOK /\ ExpiresOnlyWhileDown /\ GraceIsFull /\ NoticesMatch => WaitInv
  BY DEF WaitInv
<1> QED BY <1>1, TypeCorrect, ExpiryIsHonest, WindowIsFull, NoticesAreTrue, PTL

\* Once the wait has an outcome other than lag or a lost write, the turn no
\* longer works in the tree: the event that ends a wait is out only when the
\* turn has stopped working, and the other ways out interrupt it.  What is
\* rolled back then stays rolled back.
Stilled ==
  /\ held \in {"error", "completed", "failed"} => turn # "running"
  /\ \A i \in 1..Len(queue) :
       queue[i] \in {"error", "completed", "failed"} => turn # "running"
  /\ ~Waiting /\ outcome \notin {"lagged", "lost"} => turn # "running"
  /\ pc \in {"closing", "done"} /\ outcome \notin {"lagged", "lost"} => tree = "kept"

\* The wait begins with nothing on its way.
LEMMA InitStilled == Init => Stilled
BY DEF Init, Stilled, Waiting, None

\* A step that sends the turn nothing back to work, puts nothing new on the
\* way and neither ends a wait nor writes to the tree changes none of it.
LEMMA OutsideStilled ==
  ASSUME IInv, Stilled, turn' = "running" => turn = "running",
         held' = held \/ held' = None, queue' = queue, tree' = tree,
         pc' = pc \/ (Waiting /\ Waiting'), outcome' = outcome
  PROVE  Stilled'
BY DEF Stilled, Waiting, None

\* The event of a turn's end is sent by a turn that has stopped working.
LEMMA EmitStilled ==
  ASSUME IInv, Stilled, NEW kind \in Sent, Emit(kind)
  PROVE  Stilled'
<1> USE DEF Emit, MayEmit, session, Verdicts
<1>1. kind \in {"error", "completed", "failed"} => turn' # "running"
  OBVIOUS
<1>2. turn' = "running" => turn = "running"
  BY SentAssumption
<1>3. held' = kind /\ queue' = queue /\ tree' = tree /\ pc' = pc /\ outcome' = outcome
  OBVIOUS
<1> QED BY <1>1, <1>2, <1>3 DEF Stilled, Waiting

\* Only a turn at work writes, and it is at work only where a trace is allowed.
LEMMA MutateStilled ==
  ASSUME IInv, Stilled, Mutate
  PROVE  Stilled'
<1>1. /\ turn = "running" /\ turn' = turn /\ held' = held /\ queue' = queue
      /\ pc' = pc /\ outcome' = outcome
  BY DEF Mutate, server, client, session
<1>2. pc \in {"closing", "done"} => outcome \in {"lagged", "lost"}
  BY <1>1 DEF Stilled, Waiting
<1> QED BY <1>1, <1>2 DEF Stilled, Waiting

\* What is appended to the channel is the event held, or a marker.
LEMMA ForwardStilled ==
  ASSUME IInv, Stilled, ForwardMarker \/ Forward
  PROVE  Stilled'
<1> USE DEF server, client, session, None
<1>1. PICK event \in {held, "lagged"} : queue' = Append(queue, event)
  BY DEF ForwardMarker, Forward
<1>2. /\ turn' = turn /\ tree' = tree /\ pc' = pc /\ outcome' = outcome
      /\ held' = held \/ held' = None
  BY DEF ForwardMarker, Forward
<1>3. queue \in Seq(Kinds \cup {"lagged"}) /\ event \in Kinds \cup {None, "lagged"}
  BY <1>1 DEF IInv, TypeOK
<1>4. /\ Len(queue') = Len(queue) + 1 /\ queue'[Len(queue) + 1] = event
      /\ \A i \in 1..Len(queue) : queue'[i] = queue[i]
  BY <1>1, <1>3
<1>5. \A i \in 1..Len(queue') :
        queue'[i] \in {"error", "completed", "failed"} => turn # "running"
  <2> SUFFICES ASSUME NEW i \in 1..Len(queue'),
                      queue'[i] \in {"error", "completed", "failed"}
               PROVE  turn # "running"
    OBVIOUS
  <2>1. CASE i \in 1..Len(queue)
    BY <1>4, <2>1 DEF Stilled
  <2>2. CASE i = Len(queue) + 1
    BY <1>1, <1>4, <2>2 DEF Stilled
  <2> QED BY <1>3, <1>4, <2>1, <2>2
<1> QED BY <1>2, <1>5 DEF Stilled, Waiting

\* The client that is shut down has interrupted the turn first.
LEMMA InterruptStilled ==
  ASSUME IInv, Stilled, NEW result, Interrupt(result), tree' = tree
  PROVE  Stilled'
BY DEF Stilled, Interrupt, Return, Waiting, None

\* A wait that an event cannot be persisted for leaves a trace.
LEMMA FailStilled ==
  ASSUME IInv, Stilled, Fail, tree' = tree
  PROVE  Stilled'
BY DEF Stilled, Fail, Return, Waiting, server, client

\* The event that ends the wait comes from a turn that has stopped working.
LEMMA LoopServerStilled ==
  ASSUME IInv, Stilled, LoopServer
  PROVE  Stilled'
<1> USE DEF LoopServer, ServerTurn, server, session
<1>1. queue \in Seq(Kinds \cup {"lagged"}) /\ queue # << >> /\ queue' = Tail(queue)
  BY DEF IInv, TypeOK
<1>2. /\ Len(queue) \in Nat \ {0} /\ Len(Tail(queue)) = Len(queue) - 1
      /\ Head(queue) = queue[1]
      /\ \A i \in 1..Len(Tail(queue)) : Tail(queue)[i] = queue[i + 1]
  BY <1>1
<1>3. \A i \in 1..Len(queue') :
        queue'[i] \in {"error", "completed", "failed"} => turn # "running"
  BY <1>1, <1>2 DEF Stilled
<1>4. Terminal(Head(queue)) => turn # "running"
  BY <1>2 DEF Stilled, Terminal
<1>5. turn' = turn /\ held' = held /\ tree' = tree /\ pc' \in {"waiting", "answering", "rollback"}
  BY DEF Return
<1>6. pc' = "rollback" /\ outcome' \notin {"lagged", "lost"} => turn # "running"
  BY <1>4 DEF Return
<1> QED BY <1>3, <1>5, <1>6 DEF Stilled, Waiting

\* Restoring the snapshot ends the trace, and no turn is left to make another.
LEMMA EndStilled ==
  ASSUME IInv, Stilled, Rollback \/ Close
  PROVE  Stilled'
<1>1. CASE Rollback
  BY <1>1 DEF Rollback, Stilled, Waiting, server, client
<1>2. CASE Close
  BY <1>2 DEF Close, Stilled, Waiting, None
<1> QED BY <1>1, <1>2

\* Every step keeps it so.
LEMMA NextStilled ==
  ASSUME IInv, Stilled, Next
  PROVE  Stilled'
<1> USE DEF server, client, watch, session
<1>1. ASSUME NEW kind \in Sent, Emit(kind) PROVE Stilled'
  BY <1>1, EmitStilled
<1>2. CASE Mutate
  BY <1>2, MutateStilled
<1>3. CASE ForwardMarker \/ Forward
  BY <1>3, ForwardStilled
<1>4. CASE Drop \/ ServeAnswer
  BY <1>4, OutsideStilled DEF Drop, ServeAnswer, Waiting
<1>5. CASE Flap \/ Tick \/ CancelAttempt \/ LoseLease \/ DropMonitor
  BY <1>5, OutsideStilled DEF Flap, Tick, CancelAttempt, LoseLease, DropMonitor
<1>6. CASE ServerDies
  BY <1>6, OutsideStilled DEF ServerDies
<1>7. CASE LoopCancelled
  BY <1>7, InterruptStilled DEF LoopCancelled
<1>8. CASE LoopExpired
  BY <1>8, InterruptStilled, FailStilled, OutsideStilled DEF LoopExpired
<1>9. CASE LoopEnvironment
  BY <1>9, FailStilled, OutsideStilled DEF LoopEnvironment
<1>10. CASE LoopMonitorClosed
  BY <1>10, InterruptStilled, FailStilled DEF LoopMonitorClosed
<1>11. CASE LoopServer
  BY <1>11, LoopServerStilled
<1>12. CASE LoopStreamClosed \/ AnswerFails
  BY <1>12 DEF LoopStreamClosed, AnswerFails, ServerTurn, Return, Stilled, Waiting
<1>13. CASE Rollback \/ Close
  BY <1>13, EndStilled
<1> QED BY <1>1, <1>2, <1>3, <1>4, <1>5, <1>6, <1>7, <1>8, <1>9, <1>10, <1>11, <1>12, <1>13
  DEF Next, Loop

\* Nothing a review turn wrote is in the worktree when the attempt is over,
\* whatever the turn was doing when its wait was ended, unless the wait ended
\* on lag or on a lost write.
THEOREM ReviewsLeaveNoTrace == Spec => []ReviewLeavesNoTrace
<1>1. Stilled /\ UNCHANGED vars => Stilled'
  BY DEF Stilled, Waiting, vars
<1>2. Stilled => ReviewLeavesNoTrace
  BY DEF Stilled, ReviewLeavesNoTrace
<1> QED BY InitStilled, NextStilled, Invariant, <1>1, <1>2, PTL DEF Spec

-----------------------------------------------------------------------------
(* The event writer.  Induction over numbers first, as a fact about sets   *)
(* of them.                                                                *)

\* A nonempty set of numbers has a smallest member.
LEMMA Smallest ==
  ASSUME NEW S, S \subseteq Nat, S # {}
  PROVE  \E m \in S : \A n \in S : m <= n
<1> DEFINE R == OpToRel(<, Nat)
<1>1. \A x, y \in Nat : y < x => <<y, x>> \in R
  BY DEF OpToRel
<1>2. IsWellFoundedOn(R, Nat)
  BY NatLessThanWellFounded
<1> HIDE DEF R
<1>3. PICK m \in S : \A n \in S : ~ (<<n, m>> \in R)
  BY <1>2, WFMin
<1>4. ASSUME NEW n \in S PROVE m <= n
  <2>1. m \in Nat /\ n \in Nat /\ ~ (<<n, m>> \in R)
    BY <1>3
  <2>2. ~(n < m)
    BY <1>1, <2>1
  <2> QED BY <2>1, <2>2
<1> QED BY <1>4

\* Induction: a set that has 0 and every successor has all numbers.
LEMMA Counting ==
  ASSUME NEW S, 0 \in S, \A n \in Nat : n \in S => n + 1 \in S
  PROVE  Nat \subseteq S
<1> DEFINE Out == Nat \ S
<1> SUFFICES ASSUME Out # {} PROVE FALSE
  OBVIOUS
<1>1. PICK m \in Out : \A n \in Out : m <= n
  BY Smallest
<1>2. m \in Nat /\ m # 0
  OBVIOUS
<1>3. m - 1 \in Nat /\ m - 1 \notin Out
  BY <1>1, <1>2
<1>4. m - 1 \in S /\ (m - 1) + 1 = m
  BY <1>2, <1>3
<1> QED BY <1>3, <1>4

\* Induction from the end of an interval to its beginning.
LEMMA CountingDown ==
  ASSUME NEW L \in Nat, NEW S, L + 1 \in S, \A i \in 1..L : i + 1 \in S => i \in S
  PROVE  1..(L + 1) \subseteq S
<1> DEFINE T == {n \in Nat : n > L \/ L + 1 - n \in S}
<1>1. 0 \in T
  OBVIOUS
<1>2. ASSUME NEW n \in Nat, n \in T PROVE n + 1 \in T
  <2>1. CASE n >= L
    BY <2>1
  <2>2. CASE n < L
    <3>1. L - n \in 1..L /\ (L - n) + 1 = L + 1 - n /\ L + 1 - (n + 1) = L - n
      BY <2>2
    <3>2. L + 1 - n \in S
      BY <1>2, <2>2
    <3> QED BY <3>1, <3>2
  <2> QED BY <2>1, <2>2
<1> HIDE DEF T
<1>3. Nat \subseteq T
  BY <1>1, <1>2, Counting
<1> USE DEF T
<1>4. ASSUME NEW i \in 1..(L + 1) PROVE i \in S
  <2>1. L + 1 - i \in Nat /\ ~(L + 1 - i > L) /\ L + 1 - (L + 1 - i) = i
    OBVIOUS
  <2>2. L + 1 - i \in T
    BY <1>3, <2>1
  <2> QED BY <2>1, <2>2
<1> QED BY <1>4

\* A recursion that goes to a later place, or ends, at each place: the value
\* there is base, or step applied to the value at the place it goes to.
Recursion(to, base, step, L, T) ==
  /\ to \in [1..(L + 1) -> Nat] /\ base \in [1..(L + 1) -> T] /\ step \in [1..(L + 1) -> [T -> T]]
  /\ \A i \in 1..(L + 1) : to[i] = 0 \/ (i < to[i] /\ to[i] <= L + 1)

ValueAt(f, i, to, base, step) == IF to[i] = 0 THEN base[i] ELSE step[i][f[to[i]]]

Follows(f, to, base, step, L, T) ==
  f \in [1..(L + 1) -> T] /\ \A i \in 1..(L + 1) : f[i] = ValueAt(f, i, to, base, step)

\* It defines a function.
LEMMA RecursionWorks ==
  ASSUME NEW L \in Nat, NEW T, NEW to, NEW base, NEW step, Recursion(to, base, step, L, T)
  PROVE  \E f : Follows(f, to, base, step, L, T)
<1> USE DEF Recursion
<1> DEFINE Val(f, i) == ValueAt(f, i, to, base, step)
           Good(k, f) == \A i \in k..(L + 1) : f[i] = Val(f, i)
           S == {k \in 1..(L + 1) : \E f \in [k..(L + 1) -> T] : Good(k, f)}
<1>1. L + 1 \in S
  <2> DEFINE f == [i \in (L + 1)..(L + 1) |-> base[L + 1]]
  <2>1. L + 1 \in 1..(L + 1) /\ to[L + 1] = 0 /\ base[L + 1] \in T
    OBVIOUS
  <2>2. f \in [(L + 1)..(L + 1) -> T]
    BY <2>1
  <2>3. Good(L + 1, f)
    BY <2>1 DEF ValueAt
  <2> QED BY <2>1, <2>2, <2>3
<1>2. ASSUME NEW k \in 1..L, k + 1 \in S PROVE k \in S
  <2>1. PICK f \in [(k + 1)..(L + 1) -> T] : Good(k + 1, f)
    BY <1>2
  <2> DEFINE g == [i \in k..(L + 1) |-> IF i = k THEN Val(f, k) ELSE f[i]]
  <2>2. k \in 1..(L + 1) /\ base[k] \in T /\ step[k] \in [T -> T]
    OBVIOUS
  <2>3. Val(f, k) \in T
    <3>1. CASE to[k] = 0
      BY <2>2, <3>1 DEF ValueAt
    <3>2. CASE to[k] # 0
      <4>1. to[k] \in (k + 1)..(L + 1)
        BY <2>2, <3>2
      <4>2. f[to[k]] \in T
        BY <4>1
      <4> QED BY <2>2, <3>2, <4>2 DEF ValueAt
    <3> QED BY <3>1, <3>2
  <2>4. g \in [k..(L + 1) -> T]
    <3>1. ASSUME NEW i \in k..(L + 1) PROVE (IF i = k THEN Val(f, k) ELSE f[i]) \in T
      BY <2>3
    <3> HIDE DEF Val
    <3> QED BY <3>1
  <2>5. ASSUME NEW i \in k..(L + 1) PROVE g[i] = Val(g, i)
    <3>1. i \in 1..(L + 1) /\ (to[i] # 0 => to[i] \in (k + 1)..(L + 1))
      OBVIOUS
    <3>2. to[i] # 0 => g[to[i]] = f[to[i]]
      BY <3>1
    <3>3. Val(g, i) = Val(f, i)
      <4> HIDE DEF g
      <4> QED BY <3>2 DEF ValueAt
    <3>4. CASE i = k
      <4>1. g[k] = Val(f, k)
        OBVIOUS
      <4> HIDE DEF g, Val
      <4> QED BY <3>3, <3>4, <4>1
    <3>5. CASE i # k
      <4>1. i \in (k + 1)..(L + 1) /\ g[i] = f[i]
        BY <3>5
      <4> HIDE DEF g, Val
      <4> QED BY <2>1, <3>3, <4>1
    <3> QED BY <3>4, <3>5
  <2>6. Good(k, g)
    <3> HIDE DEF g, Val
    <3> QED BY <2>5
  <2> HIDE DEF Good, g
  <2> QED BY <2>2, <2>4, <2>6
<1> HIDE DEF S, Recursion
<1>3. 1..(L + 1) \subseteq S
  BY <1>1, <1>2, CountingDown, Zenon
<1>4. 1 \in S
  BY <1>3
<1> QED BY <1>4 DEF S, Follows

\* Whatever satisfies the equations has its values in T.
LEMMA RecursionTyped ==
  ASSUME NEW L \in Nat, NEW T, NEW to, NEW base, NEW step, Recursion(to, base, step, L, T),
         NEW w, \A i \in 1..(L + 1) : to[i] = 0 \/ w[to[i]] \in T => w[i] = ValueAt(w, i, to, base, step)
  PROVE  \A i \in 1..(L + 1) : w[i] \in T
<1> DEFINE S == {k \in 1..(L + 1) : \A i \in k..(L + 1) : w[i] \in T}
<1>1. ASSUME NEW k \in 1..(L + 1), \A i \in (k + 1)..(L + 1) : w[i] \in T PROVE w[k] \in T
  <2>1. base[k] \in T /\ step[k] \in [T -> T]
    BY DEF Recursion
  <2>2. to[k] # 0 => to[k] \in (k + 1)..(L + 1)
    BY DEF Recursion
  <2>3. to[k] = 0 \/ w[to[k]] \in T
    BY <1>1, <2>2
  <2>4. w[k] = ValueAt(w, k, to, base, step)
    BY <2>3
  <2> QED BY <2>1, <2>3, <2>4 DEF ValueAt
<1>2. L + 1 \in S
  BY <1>1
<1>3. ASSUME NEW k \in 1..L, k + 1 \in S PROVE k \in S
  <2>1. w[k] \in T
    BY <1>1, <1>3
  <2> QED BY <1>3, <2>1
<1> HIDE DEF S
<1>4. 1..(L + 1) \subseteq S
  BY <1>2, <1>3, CountingDown, Zenon
<1>5. 1 \in S
  BY <1>4
<1> QED BY <1>5 DEF S

\* A nonempty set of places has a last one.
LEMMA LastPlace ==
  ASSUME NEW L \in Nat, NEW S, S \subseteq 1..L, S # {}
  PROVE  \E m \in S : \A n \in S : n <= m
<1> DEFINE R == {L - n : n \in S}
<1>1. R \subseteq Nat
  <2>1. \A n \in S : n \in 1..L
    OBVIOUS
  <2>2. \A n \in S : L - n \in Nat
    BY <2>1
  <2> QED BY <2>2
<1>2. R # {}
  OBVIOUS
<1> HIDE DEF R
<1>3. PICK r \in R : \A q \in R : r <= q
  BY <1>1, <1>2, Smallest
<1>4. PICK m \in S : r = L - m
  BY DEF R
<1>5. ASSUME NEW n \in S PROVE n <= m
  <2>1. L - n \in R
    BY DEF R
  <2>2. L - m <= L - n
    BY <1>3, <1>4, <2>1
  <2> QED BY <2>2
<1> QED BY <1>5

-----------------------------------------------------------------------------
(* The bytes of a text.                                                    *)

\* The sum over a text's characters is a number, and 0 for an empty text.
LEMMA BytesWorks ==
  ASSUME NEW s \in Seq(Chars)
  PROVE  Bytes(s) \in Nat /\ (s = << >> => Bytes(s) = 0)
<1> DEFINE L == Len(s)
           Def(w) == [i \in 1..(L + 1) |-> IF i = L + 1 THEN 0 ELSE s[i].width + w[i + 1]]
           to == [i \in 1..(L + 1) |-> IF i = L + 1 THEN 0 ELSE i + 1]
           base == [i \in 1..(L + 1) |-> 0]
           step == [i \in 1..(L + 1) |-> [v \in Nat |-> IF i = L + 1 THEN v ELSE s[i].width + v]]
<1>1. L \in Nat /\ \A i \in 1..L : s[i].width \in Nat
  <2>1. ASSUME NEW i \in 1..L PROVE s[i].width \in Nat
    <3>1. s[i] \in Chars
      OBVIOUS
    <3>2. s[i].width \in 1..4
      BY <3>1 DEF Chars
    <3> QED BY <3>2
  <2> QED BY <2>1
<1>2. Recursion(to, base, step, L, Nat)
  <2>1. to \in [1..(L + 1) -> Nat] /\ base \in [1..(L + 1) -> Nat]
    BY <1>1
  <2>2. ASSUME NEW i \in 1..(L + 1), NEW v \in Nat PROVE (IF i = L + 1 THEN v ELSE s[i].width + v) \in Nat
    <3>1. i # L + 1 => i \in 1..L
      BY <1>1
    <3> QED BY <1>1, <3>1
  <2>3. step \in [1..(L + 1) -> [Nat -> Nat]]
    <3> HIDE DEF L
    <3> QED BY <2>2
  <2>4. \A i \in 1..(L + 1) : to[i] = 0 \/ (i < to[i] /\ to[i] <= L + 1)
    BY <1>1
  <2> HIDE DEF to, base, step, L
  <2> QED BY <2>1, <2>3, <2>4 DEF Recursion
<1>3. ASSUME NEW w, NEW i \in 1..(L + 1), to[i] = 0 \/ w[to[i]] \in Nat
      PROVE  ValueAt(w, i, to, base, step) = IF i = L + 1 THEN 0 ELSE s[i].width + w[i + 1]
  <2>1. CASE i = L + 1
    BY <2>1 DEF ValueAt
  <2>2. CASE i # L + 1
    <3>1. to[i] = i + 1 /\ i + 1 # 0
      BY <1>1, <2>2
    <3>2. w[i + 1] \in Nat
      BY <1>3, <3>1
    <3>3. step[i][w[i + 1]] = s[i].width + w[i + 1]
      BY <2>2, <3>2
    <3> HIDE DEF to, step
    <3> QED BY <2>2, <3>1, <3>3 DEF ValueAt
  <2> QED BY <2>1, <2>2
<1>4. PICK f : Follows(f, to, base, step, L, Nat)
  <2> HIDE DEF to, base, step, L
  <2> QED BY <1>1, <1>2, RecursionWorks
<1>5. f = Def(f)
  <2>1. f \in [1..(L + 1) -> Nat] /\ \A i \in 1..(L + 1) : f[i] = ValueAt(f, i, to, base, step)
    BY <1>4 DEF Follows
  <2>2. \A i \in 1..(L + 1) : to[i] = 0 \/ to[i] \in 1..(L + 1)
    BY <1>1
  <2> HIDE DEF to, base, step, L
  <2>3. \A i \in 1..(L + 1) : f[i] = IF i = L + 1 THEN 0 ELSE s[i].width + f[i + 1]
    BY <1>3, <2>1, <2>2
  <2> QED BY <2>1, <2>3
<1> DEFINE w == CHOOSE g : g = Def(g)
<1>6. Bytes(s) = w[1]
  BY DEF Bytes
<1> HIDE DEF Def
<1>7. w = Def(w)
  BY <1>5, Zenon
<1> HIDE DEF w
<1>8. \A i \in 1..(L + 1) : w[i] = IF i = L + 1 THEN 0 ELSE s[i].width + w[i + 1]
  BY <1>7 DEF Def
<1>9. \A i \in 1..(L + 1) : w[i] \in Nat
  <2> HIDE DEF to, base, step, L
  <2>1. \A i \in 1..(L + 1) : to[i] = 0 \/ w[to[i]] \in Nat => w[i] = ValueAt(w, i, to, base, step)
    BY <1>3, <1>8
  <2> QED BY <1>1, <1>2, <2>1, RecursionTyped
<1>10. s = << >> => w[1] = 0
  BY <1>1, <1>8
<1>11. 1 \in 1..(L + 1)
  BY <1>1
<1> QED BY <1>6, <1>9, <1>10, <1>11

\* utf8_prefix cuts off at least one character, and no more than fit unless it
\* is one.
LEMMA PrefixWorks ==
  ASSUME NEW s \in Seq(Chars), s # << >>
  PROVE  /\ Utf8Prefix(s) \in 1..Len(s)
         /\ Utf8Prefix(s) = 1 \/ Bytes(SubSeq(s, 1, Utf8Prefix(s))) <= Limit
<1> DEFINE fitting == {n \in 1..Len(s) : n = 1 \/ Bytes(SubSeq(s, 1, n)) <= Limit}
<1>1. Len(s) \in Nat /\ fitting \subseteq 1..Len(s) /\ 1 \in fitting
  OBVIOUS
<1>2. Utf8Prefix(s) = CHOOSE n \in fitting : \A m \in fitting : m <= n
  BY DEF Utf8Prefix
<1>3. \E n \in fitting : \A m \in fitting : m <= n
  <2> HIDE DEF fitting
  <2> QED BY <1>1, LastPlace
<1>4. Utf8Prefix(s) \in fitting
  <2> HIDE DEF fitting
  <2> QED BY <1>2, <1>3
<1> QED BY <1>4

-----------------------------------------------------------------------------
(* Cutting a text into chunks.                                             *)

Cuts == [ready: Seq(Seq(Chars)), rest: Seq(Chars)]
RestOf(s, i) == SubSeq(s, i, Len(s))
Small(s, i) == Bytes(RestOf(s, i)) < Limit
Taken(s, i) == Utf8Prefix(RestOf(s, i))
CutOff(s, i, v) == [ready |-> <<SubSeq(RestOf(s, i), 1, Taken(s, i))>> \o v.ready, rest |-> v.rest]

\* What is left of a text from a place on, and the place after the next chunk.
LEMMA RestWorks ==
  ASSUME NEW s \in Seq(Chars), NEW i \in 1..(Len(s) + 1)
  PROVE  /\ RestOf(s, i) \in Seq(Chars) /\ Len(RestOf(s, i)) = Len(s) + 1 - i
         /\ \A n \in 1..Len(RestOf(s, i)) : RestOf(s, i)[n] = s[i + n - 1]
         /\ i = Len(s) + 1 => Small(s, i)
         /\ ~Small(s, i) => /\ Taken(s, i) \in Nat /\ i < i + Taken(s, i) /\ i + Taken(s, i) <= Len(s) + 1
                            /\ SubSeq(RestOf(s, i), 1, Taken(s, i)) = SubSeq(s, i, i + Taken(s, i) - 1)
                            /\ SubSeq(s, i, i + Taken(s, i) - 1) \in Seq(Chars)
                            /\ Fits(SubSeq(s, i, i + Taken(s, i) - 1))
<1> DEFINE rest == RestOf(s, i)
           n == Taken(s, i)
<1>1. /\ rest \in Seq(Chars) /\ Len(rest) = Len(s) + 1 - i
      /\ \A k \in 1..Len(rest) : rest[k] = s[i + k - 1]
  BY DEF RestOf
<1>2. ASSUME rest = << >> PROVE Small(s, i)
  <2>1. Bytes(rest) = 0
    BY <1>1, <1>2, BytesWorks
  <2> QED BY <2>1, LimitAssumption DEF Small
<1>3. i = Len(s) + 1 => rest = << >>
  <2>1. ASSUME NEW t \in Seq(Chars), t # << >> PROVE Len(t) # 0
    BY <2>1
  <2>2. i = Len(s) + 1 => Len(rest) = 0
    BY <1>1
  <2> QED BY <1>1, <2>1, <2>2, Zenon
<1>4. ASSUME ~Small(s, i)
      PROVE  /\ n \in Nat /\ i < i + n /\ i + n <= Len(s) + 1
             /\ SubSeq(rest, 1, n) = SubSeq(s, i, i + n - 1)
             /\ SubSeq(s, i, i + n - 1) \in Seq(Chars)
             /\ Fits(SubSeq(s, i, i + n - 1))
  <2>1. rest # << >>
    BY <1>2, <1>4
  <2>2. n \in 1..Len(rest) /\ (n = 1 \/ Bytes(SubSeq(rest, 1, n)) <= Limit)
    BY <1>1, <2>1, PrefixWorks DEF Taken
  <2>3. n \in Nat /\ i < i + n /\ i + n <= Len(s) + 1
    BY <1>1, <2>2
  <2> HIDE DEF n, rest
  <2> DEFINE piece == SubSeq(s, i, i + n - 1)
  <2>4. piece \in Seq(Chars) /\ Len(piece) = n /\ \A k \in 1..n : piece[k] = s[i + k - 1]
    BY <2>3
  <2>5. /\ SubSeq(rest, 1, n) \in Seq(Chars) /\ Len(SubSeq(rest, 1, n)) = n
        /\ \A k \in 1..n : SubSeq(rest, 1, n)[k] = s[i + k - 1]
    <3>1. /\ SubSeq(rest, 1, n) \in Seq(Chars) /\ Len(SubSeq(rest, 1, n)) = n
          /\ \A k \in 1..n : SubSeq(rest, 1, n)[k] = rest[k]
      BY <1>1, <2>2
    <3>2. \A k \in 1..n : k \in 1..Len(rest)
      BY <1>1, <2>2
    <3> QED BY <1>1, <3>1, <3>2
  <2>6. SubSeq(rest, 1, n) = piece
    <3> HIDE DEF piece
    <3> QED BY <2>3, <2>4, <2>5
  <2>7. Fits(piece)
    <3>1. piece # << >>
      <4>1. Len(<< >>) = 0
        OBVIOUS
      <4>2. Len(piece) # 0
        BY <2>2, <2>4
      <4> HIDE DEF piece
      <4> QED BY <4>1, <4>2, Zenon
    <3> QED BY <2>2, <2>4, <2>6, <3>1 DEF Fits
  <2> QED BY <2>3, <2>4, <2>6, <2>7
<1> QED BY <1>1, <1>2, <1>3, <1>4

\* The loop of push, as a function of the place it has reached.
LEMMA CutWorks ==
  ASSUME NEW s \in Seq(Chars)
  PROVE  \E w : /\ w \in [1..(Len(s) + 1) -> Cuts] /\ Cut(s) = w[1]
                /\ \A i \in 1..(Len(s) + 1) :
                     /\ Small(s, i) => w[i] = [ready |-> << >>, rest |-> RestOf(s, i)]
                     /\ ~Small(s, i) => w[i] = CutOff(s, i, w[i + Taken(s, i)])
<1> DEFINE L == Len(s)
           End0(i) == [ready |-> << >>, rest |-> RestOf(s, i)]
           Val(w, i) == IF Small(s, i) THEN End0(i) ELSE CutOff(s, i, w[i + Taken(s, i)])
           Def(w) == [i \in 1..(L + 1) |-> Val(w, i)]
           to == [i \in 1..(L + 1) |-> IF Small(s, i) THEN 0 ELSE i + Taken(s, i)]
           base == [i \in 1..(L + 1) |-> End0(i)]
           step == [i \in 1..(L + 1) |-> [v \in Cuts |-> IF Small(s, i) THEN v ELSE CutOff(s, i, v)]]
<1>1. L \in Nat
  OBVIOUS
<1>2. ASSUME NEW i \in 1..(L + 1), NEW v \in Cuts
      PROVE  End0(i) \in Cuts /\ (~Small(s, i) => CutOff(s, i, v) \in Cuts)
  <2>1. RestOf(s, i) \in Seq(Chars) /\ << >> \in Seq(Seq(Chars))
    BY RestWorks
  <2>2. End0(i) \in Cuts
    BY <2>1 DEF Cuts
  <2>3. ASSUME ~Small(s, i) PROVE CutOff(s, i, v) \in Cuts
    <3> DEFINE piece == SubSeq(RestOf(s, i), 1, Taken(s, i))
    <3>1. piece \in Seq(Chars)
      BY <2>3, RestWorks
    <3> HIDE DEF piece
    <3>2. v.ready \in Seq(Seq(Chars)) /\ v.rest \in Seq(Chars)
      BY DEF Cuts
    <3>3. <<piece>> \o v.ready \in Seq(Seq(Chars))
      BY <3>1, <3>2
    <3>4. CutOff(s, i, v) = [ready |-> <<piece>> \o v.ready, rest |-> v.rest]
      BY DEF CutOff, piece
    <3> QED BY <3>2, <3>3, <3>4 DEF Cuts
  <2> QED BY <2>2, <2>3
<1>3. ASSUME NEW i \in 1..(L + 1), ~Small(s, i)
      PROVE  Taken(s, i) \in Nat /\ i < i + Taken(s, i) /\ i + Taken(s, i) \in 1..(L + 1) /\ i + Taken(s, i) # 0
  BY <1>3, RestWorks
<1>4. Recursion(to, base, step, L, Cuts)
  <2>1. ASSUME NEW i \in 1..(L + 1) PROVE (IF Small(s, i) THEN 0 ELSE i + Taken(s, i)) \in Nat
    BY <1>1, <1>3
  <2>2. to \in [1..(L + 1) -> Nat]
    <3> HIDE DEF L
    <3> QED BY <2>1
  <2>3. \A i \in 1..(L + 1) : to[i] = 0 \/ (i < to[i] /\ to[i] <= L + 1)
    BY <1>1, <1>3
  <2>4. \E v : v \in Cuts
    <3>1. [ready |-> << >>, rest |-> << >>] \in Cuts
      BY DEF Cuts
    <3> QED BY <3>1
  <2>5. base \in [1..(L + 1) -> Cuts]
    <3> HIDE DEF L, End0
    <3> QED BY <1>2, <2>4
  <2>6. step \in [1..(L + 1) -> [Cuts -> Cuts]]
    <3> HIDE DEF L, End0
    <3> QED BY <1>2
  <2> HIDE DEF to, base, step, L
  <2> QED BY <2>2, <2>3, <2>5, <2>6 DEF Recursion
<1>5. ASSUME NEW w, NEW i \in 1..(L + 1), to[i] = 0 \/ w[to[i]] \in Cuts
      PROVE  ValueAt(w, i, to, base, step) = Val(w, i)
  <2>1. CASE Small(s, i)
    <3>1. to[i] = 0 /\ base[i] = End0(i)
      BY <2>1
    <3> HIDE DEF to, base, step, End0
    <3> QED BY <2>1, <3>1 DEF ValueAt
  <2>2. CASE ~Small(s, i)
    <3>1. to[i] = i + Taken(s, i) /\ to[i] # 0
      BY <1>3, <2>2
    <3>2. w[i + Taken(s, i)] \in Cuts
      <4> HIDE DEF to
      <4> QED BY <1>5, <3>1
    <3>3. step[i][w[i + Taken(s, i)]] = CutOff(s, i, w[i + Taken(s, i)])
      BY <2>2, <3>2
    <3> HIDE DEF to, step, base, End0
    <3> QED BY <2>2, <3>1, <3>3 DEF ValueAt
  <2> QED BY <2>1, <2>2
<1>6. PICK f : Follows(f, to, base, step, L, Cuts)
  <2> HIDE DEF to, base, step, L
  <2> QED BY <1>1, <1>4, RecursionWorks
<1>7. f = Def(f)
  <2>1. f \in [1..(L + 1) -> Cuts] /\ \A i \in 1..(L + 1) : f[i] = ValueAt(f, i, to, base, step)
    BY <1>6 DEF Follows
  <2>2. \A i \in 1..(L + 1) : to[i] = 0 \/ to[i] \in 1..(L + 1)
    BY <1>1, <1>3
  <2> HIDE DEF to, base, step, L, Val
  <2>3. \A i \in 1..(L + 1) : f[i] = Val(f, i)
    BY <1>5, <2>1, <2>2
  <2> QED BY <2>1, <2>3
<1> DEFINE w == CHOOSE g : g = Def(g)
<1>8. Cut(s) = w[1]
  BY DEF Cut, Small, RestOf, CutOff, Taken
<1> HIDE DEF Def
<1>9. w = Def(w)
  BY <1>7, Zenon
<1> HIDE DEF w
<1>10. DOMAIN w = 1..(L + 1) /\ \A i \in 1..(L + 1) : w[i] = Val(w, i)
  <2> HIDE DEF Val, L
  <2>1. w = [i \in 1..(L + 1) |-> Val(w, i)]
    BY <1>9 DEF Def
  <2> QED BY <2>1, Zenon
<1>11. \A i \in 1..(L + 1) : w[i] \in Cuts
  <2> HIDE DEF to, base, step, L, Val
  <2>1. \A i \in 1..(L + 1) : to[i] = 0 \/ w[to[i]] \in Cuts => w[i] = ValueAt(w, i, to, base, step)
    BY <1>5, <1>10
  <2> QED BY <1>1, <1>4, <2>1, RecursionTyped
<1>12. w \in [1..(L + 1) -> Cuts]
  <2>1. w = [i \in 1..(L + 1) |-> w[i]]
    <3> HIDE DEF Val, L
    <3>1. w = [i \in 1..(L + 1) |-> Val(w, i)]
      BY <1>9 DEF Def
    <3> QED BY <1>10, <3>1
  <2> HIDE DEF L
  <2> QED BY <1>11, <2>1
<1> QED BY <1>8, <1>10, <1>12

\* The chunks and the rest are consecutive pieces of the text from i on: b has
\* the place where each begins.
Pieces(s, i, r, b) ==
  /\ b \in [1..(Len(r.ready) + 1) -> i..(Len(s) + 1)] /\ b[1] = i
  /\ \A m, n \in 1..(Len(r.ready) + 1) : m < n => b[m] < b[n]
  /\ \A j \in 1..Len(r.ready) : r.ready[j] = SubSeq(s, b[j], b[j + 1] - 1) /\ Fits(r.ready[j])
  /\ \A p \in i..Len(s) : p >= b[Len(r.ready) + 1] \/ \E j \in 1..Len(r.ready) : b[j] <= p /\ p < b[j + 1]
  /\ r.rest = SubSeq(s, b[Len(r.ready) + 1], Len(s)) /\ Bytes(r.rest) < Limit

\* One more chunk in front.
LEMMA PieceInFront ==
  ASSUME NEW s \in Seq(Chars), NEW i \in 1..(Len(s) + 1), ~Small(s, i),
         NEW v \in Cuts, NEW b, Pieces(s, i + Taken(s, i), v, b)
  PROVE  \E c : Pieces(s, i, CutOff(s, i, v), c)
<1> DEFINE n == Taken(s, i)
           M == Len(v.ready)
           piece == SubSeq(s, i, i + n - 1)
           r == CutOff(s, i, v)
           c == [j \in 1..(M + 2) |-> IF j = 1 THEN i ELSE b[j - 1]]
<1>1. n \in Nat /\ i < i + n /\ i + n <= Len(s) + 1 /\ piece \in Seq(Chars) /\ Fits(piece) /\ Len(s) \in Nat
  BY RestWorks
<1>2. M \in Nat /\ v.ready \in Seq(Seq(Chars))
  BY DEF Cuts
<1>3. r = [ready |-> <<piece>> \o v.ready, rest |-> v.rest]
  <2>1. piece = SubSeq(RestOf(s, i), 1, Taken(s, i))
    BY RestWorks
  <2> HIDE DEF piece
  <2> QED BY <2>1 DEF CutOff
<1> HIDE DEF piece, r
<1>4. /\ Len(r.ready) = M + 1 /\ r.ready[1] = piece /\ r.rest = v.rest
      /\ \A j \in 1..M : r.ready[j + 1] = v.ready[j]
  BY <1>1, <1>2, <1>3
<1> HIDE DEF M, n
<1>5. /\ b \in [1..(M + 1) -> (i + n)..(Len(s) + 1)] /\ b[1] = i + n
      /\ \A k, m \in 1..(M + 1) : k < m => b[k] < b[m]
      /\ \A j \in 1..M : v.ready[j] = SubSeq(s, b[j], b[j + 1] - 1) /\ Fits(v.ready[j])
      /\ \A p \in (i + n)..Len(s) : p >= b[M + 1] \/ \E j \in 1..M : b[j] <= p /\ p < b[j + 1]
      /\ v.rest = SubSeq(s, b[M + 1], Len(s)) /\ Bytes(v.rest) < Limit
  BY DEF Pieces, M, n
<1>6. /\ c[1] = i /\ c[2] = b[1] /\ c[M + 2] = b[M + 1]
      /\ \A j \in 1..(M + 1) : c[j + 1] = b[j]
  BY <1>2
<1>7. c \in [1..(M + 2) -> i..(Len(s) + 1)]
  <2>1. ASSUME NEW j \in 1..(M + 2) PROVE (IF j = 1 THEN i ELSE b[j - 1]) \in i..(Len(s) + 1)
    <3>1. CASE j = 1
      BY <3>1, <1>1
    <3>2. CASE j # 1
      <4>1. j - 1 \in 1..(M + 1)
        BY <1>2, <3>2
      <4>2. b[j - 1] \in (i + n)..(Len(s) + 1)
        BY <1>5, <4>1
      <4> QED BY <1>1, <3>2, <4>2
    <3> QED BY <3>1, <3>2
  <2> QED BY <2>1
<1>8. ASSUME NEW k \in 1..(M + 2), NEW m \in 1..(M + 2), k < m PROVE c[k] < c[m]
  <2>1. m - 1 \in 1..(M + 1) /\ c[m] = b[m - 1]
    BY <1>2, <1>8
  <2>2. b[m - 1] \in (i + n)..(Len(s) + 1)
    BY <1>5, <2>1
  <2>3. CASE k = 1
    BY <1>1, <1>6, <2>1, <2>2, <2>3
  <2>4. CASE k # 1
    <3>1. k - 1 \in 1..(M + 1) /\ c[k] = b[k - 1] /\ k - 1 < m - 1
      BY <1>2, <1>8, <2>4
    <3> HIDE DEF c
    <3> QED BY <1>5, <2>1, <3>1
  <2> QED BY <2>3, <2>4
<1> HIDE DEF c
<1>9. ASSUME NEW j \in 1..(M + 1)
      PROVE  r.ready[j] = SubSeq(s, c[j], c[j + 1] - 1) /\ Fits(r.ready[j])
  <2>1. CASE j = 1
    <3>1. c[1] = i /\ c[1 + 1] - 1 = i + n - 1
      BY <1>1, <1>5, <1>6
    <3>2. piece = SubSeq(s, c[1], c[1 + 1] - 1)
      BY <3>1 DEF piece
    <3> QED BY <1>1, <1>4, <2>1, <3>2
  <2>2. CASE j # 1
    <3>1. j - 1 \in 1..M /\ (j - 1) + 1 = j /\ j - 1 \in 1..(M + 1)
      BY <1>2, <2>2
    <3>2. r.ready[j] = v.ready[j - 1] /\ c[j] = b[j - 1] /\ c[j + 1] = b[j]
      BY <1>4, <1>6, <3>1
    <3> QED BY <1>5, <3>1, <3>2
  <2> QED BY <2>1, <2>2
<1>10. ASSUME NEW p \in i..Len(s)
       PROVE  p >= c[M + 2] \/ \E j \in 1..(M + 1) : c[j] <= p /\ p < c[j + 1]
  <2>1. CASE p < i + n
    <3>1. 1 \in 1..(M + 1) /\ c[1] <= p /\ p < c[1 + 1]
      BY <1>2, <1>5, <1>6, <2>1
    <3> QED BY <3>1
  <2>2. CASE ~(p < i + n)
    <3>1. p \in (i + n)..Len(s)
      BY <1>1, <2>2
    <3>2. CASE p >= b[M + 1]
      BY <1>6, <3>2
    <3>3. CASE \E j \in 1..M : b[j] <= p /\ p < b[j + 1]
      <4>1. PICK j \in 1..M : b[j] <= p /\ p < b[j + 1]
        BY <3>3
      <4>2. j + 1 \in 1..(M + 1) /\ c[j + 1] = b[j] /\ c[(j + 1) + 1] = b[j + 1]
        BY <1>2, <1>6
      <4> QED BY <4>1, <4>2
    <3> QED BY <1>5, <3>1, <3>2, <3>3
  <2> QED BY <2>1, <2>2
<1>11. (M + 1) + 1 = M + 2
  BY <1>2
<1>12. Pieces(s, i, r, c)
  BY <1>4, <1>5, <1>6, <1>7, <1>8, <1>9, <1>10, <1>11 DEF Pieces
<1> QED BY <1>12 DEF r

\* The loop cuts the whole text.
LEMMA CutPieces ==
  ASSUME NEW s \in Seq(Chars)
  PROVE  Cut(s) \in Cuts /\ \E b : Pieces(s, 1, Cut(s), b)
<1> DEFINE L == Len(s)
<1>1. PICK w : /\ w \in [1..(L + 1) -> Cuts] /\ Cut(s) = w[1]
               /\ \A i \in 1..(L + 1) :
                    /\ Small(s, i) => w[i] = [ready |-> << >>, rest |-> RestOf(s, i)]
                    /\ ~Small(s, i) => w[i] = CutOff(s, i, w[i + Taken(s, i)])
  BY CutWorks
<1>2. L \in Nat
  OBVIOUS
<1> DEFINE S == {k \in 1..(L + 1) : \A i \in k..(L + 1) : \E b : Pieces(s, i, w[i], b)}
<1>3. ASSUME NEW k \in 1..(L + 1), \A i \in (k + 1)..(L + 1) : \E b : Pieces(s, i, w[i], b)
      PROVE  \E b : Pieces(s, k, w[k], b)
  <2>1. CASE Small(s, k)
    <3> DEFINE r == [ready |-> << >>, rest |-> RestOf(s, k)]
               b == [j \in 1..1 |-> k]
    <3>1. w[k] = r
      BY <1>1, <2>1
    <3>2. Len(r.ready) = 0 /\ r.rest = SubSeq(s, k, Len(s)) /\ Bytes(r.rest) < Limit
      BY <2>1 DEF Small, RestOf
    <3>3. b \in [1..(0 + 1) -> k..(Len(s) + 1)] /\ b[1] = k /\ b[0 + 1] = k
      BY <1>2
    <3> HIDE DEF r, b
    <3>4. Pieces(s, k, r, b)
      BY <1>2, <3>2, <3>3 DEF Pieces
    <3> QED BY <3>1, <3>4
  <2>2. CASE ~Small(s, k)
    <3>1. k + Taken(s, k) \in (k + 1)..(L + 1) /\ k + Taken(s, k) \in 1..(L + 1)
      BY <2>2, RestWorks
    <3>2. PICK b : Pieces(s, k + Taken(s, k), w[k + Taken(s, k)], b)
      BY <1>3, <3>1
    <3>3. w[k + Taken(s, k)] \in Cuts
      BY <1>1, <3>1
    <3>4. w[k] = CutOff(s, k, w[k + Taken(s, k)])
      BY <1>1, <2>2
    <3> QED BY <2>2, <3>2, <3>3, <3>4, PieceInFront
  <2> QED BY <2>1, <2>2
<1>4. L + 1 \in S
  <2>1. L + 1 \in 1..(L + 1) /\ \A i \in (L + 1)..(L + 1) : i = L + 1
    BY <1>2
  <2>2. \A i \in ((L + 1) + 1)..(L + 1) : FALSE
    BY <1>2
  <2> HIDE DEF L
  <2>3. \E b : Pieces(s, L + 1, w[L + 1], b)
    BY <1>3, <2>1, <2>2
  <2> QED BY <2>1, <2>3
<1>5. ASSUME NEW k \in 1..L, k + 1 \in S PROVE k \in S
  <2>1. k \in 1..(L + 1) /\ \A i \in k..(L + 1) : i = k \/ i \in (k + 1)..(L + 1)
    BY <1>2
  <2> HIDE DEF L
  <2>2. \A i \in (k + 1)..(L + 1) : \E b : Pieces(s, i, w[i], b)
    BY <1>5
  <2>3. \E b : Pieces(s, k, w[k], b)
    BY <1>3, <2>1, <2>2
  <2> QED BY <2>1, <2>2, <2>3
<1> HIDE DEF S, L
<1>6. 1..(L + 1) \subseteq S
  BY <1>2, <1>4, <1>5, CountingDown, Zenon
<1>7. 1 \in S /\ 1 \in 1..(L + 1)
  BY <1>2, <1>6
<1>8. 1 \in 1..(L + 1) /\ \E b : Pieces(s, 1, w[1], b)
  BY <1>2, <1>7 DEF S
<1> QED BY <1>1, <1>8

-----------------------------------------------------------------------------
(* Events, and sequences of them.                                          *)

Marks == {"event", "end", "stage.error"}
ChunkEvents == [kind: {"chunk"}, key: Keys, text: Seq(Chars)]
\* Texts that may have gaps.
Gapped == UNION {[D -> Chars] : D \in SUBSET Nat}
Completions == [kind: {"completed"}, item: Items, text: UNION {[K -> Gapped] : K \in SUBSET Keys}]
MarkEvents == [kind: Marks, at: Nat]
Events == ChunkEvents \cup Completions \cup MarkEvents

Ats(s) == {c.at : c \in Range(s)}
ShownIn(events) == UNION {Shown(events[i]) : i \in DOMAIN events}
AllFit(events) == \A i \in DOMAIN events : events[i].kind = "chunk" => Fits(events[i].text)
Sound(events) == events \in Seq(Events) /\ InArrivalOrder(events) /\ AllFit(events)

\* An empty text has no characters.
LEMMA EmptyText == Range(<< >>) = {} /\ Ats(<< >>) = {} /\ InOrder(<< >>)
<1>1. Range(<< >>) = {}
  BY DEF Range
<1> QED BY <1>1 DEF Ats, InOrder

\* What a chunk tells.
LEMMA ChunkTells ==
  ASSUME NEW key \in Keys, NEW s \in Seq(Chars)
  PROVE  /\ Chunk(key, s) \in Events /\ Shown(Chunk(key, s)) = Ats(s)
         /\ TextOf(Chunk(key, s), key) = s /\ \A k : k # key => TextOf(Chunk(key, s), k) = << >>
         /\ Recorded(Chunk(key, s)) = IF key[1] \notin Commands THEN {key} ELSE {}
         /\ Chunk(key, s).kind = "chunk" /\ Chunk(key, s).text = s
<1> DEFINE e == Chunk(key, s)
<1>1. e.kind = "chunk" /\ e.key = key /\ e.text = s /\ e \in ChunkEvents
  BY DEF Chunk, ChunkEvents
<1> HIDE DEF e
<1>2. TextOf(e, key) = s /\ \A k : k # key => TextOf(e, k) = << >>
  BY <1>1 DEF TextOf
<1>3. Shown(e) = {c.at : c \in UNION {Range(TextOf(e, k)) : k \in Keys}}
  BY <1>1 DEF Shown
<1>4. UNION {Range(TextOf(e, k)) : k \in Keys} = Range(s)
  <2>1. ASSUME NEW c, NEW k \in Keys, c \in Range(TextOf(e, k)) PROVE c \in Range(s)
    BY <1>2, <2>1, EmptyText
  <2>2. ASSUME NEW c \in Range(s) PROVE \E k \in Keys : c \in Range(TextOf(e, k))
    BY <1>2
  <2> QED BY <2>1, <2>2
<1>5. Recorded(e) = IF key[1] \notin Commands THEN {key} ELSE {}
  BY <1>1 DEF Recorded
<1> QED BY <1>1, <1>2, <1>3, <1>4, <1>5 DEF e, Ats, Events

\* What any other event tells.
LEMMA MarkTells ==
  ASSUME NEW kind \in Marks, NEW at \in Nat
  PROVE  /\ Event(kind, at) \in Events /\ Shown(Event(kind, at)) = {at}
         /\ \A k : TextOf(Event(kind, at), k) = << >>
         /\ Recorded(Event(kind, at)) = {} /\ Event(kind, at).kind # "chunk"
<1> DEFINE e == Event(kind, at)
<1>1. e.kind = kind /\ e.at = at /\ e \in MarkEvents /\ kind # "chunk" /\ kind # "completed"
  BY DEF Event, MarkEvents, Marks
<1> HIDE DEF e
<1>2. Shown(e) = {at}
  BY <1>1 DEF Shown
<1>3. \A k : TextOf(e, k) = << >>
  BY <1>1 DEF TextOf
<1>4. Recorded(e) = {}
  BY <1>1 DEF Recorded
<1> QED BY <1>1, <1>2, <1>3, <1>4 DEF e, Events

TextsFor(f, K) == K \in SUBSET Keys /\ f \in [K -> Gapped]

\* What a completion tells.
LEMMA CompletionTells ==
  ASSUME NEW item \in Items, NEW K, NEW f, TextsFor(f, K), NEW e,
         e = [kind |-> "completed", item |-> item, text |-> f]
  PROVE  /\ e \in Events /\ e.kind # "chunk" /\ Recorded(e) = {}
         /\ Shown(e) = UNION {Ats(f[k]) : k \in K}
         /\ \A k \in K : TextOf(e, k) = f[k]
         /\ \A k : k \notin K => TextOf(e, k) = << >>
<1> USE DEF TextsFor
<1>1. e.kind = "completed" /\ e.item = item /\ e.text = f /\ DOMAIN f = K
  OBVIOUS
<1>2. e \in Completions
  BY DEF Completions
<1>3. (\A k \in K : TextOf(e, k) = f[k]) /\ (\A k : k \notin K => TextOf(e, k) = << >>)
  BY <1>1 DEF TextOf
<1>4. Shown(e) = {c.at : c \in UNION {Range(TextOf(e, k)) : k \in Keys}}
  BY <1>1 DEF Shown
<1>5. UNION {Range(TextOf(e, k)) : k \in Keys} = UNION {Range(f[k]) : k \in K}
  <2>1. ASSUME NEW c, NEW k \in Keys, c \in Range(TextOf(e, k)) PROVE k \in K /\ c \in Range(f[k])
    BY <1>3, <2>1, EmptyText
  <2>2. ASSUME NEW c, NEW k \in K, c \in Range(f[k]) PROVE k \in Keys /\ c \in Range(TextOf(e, k))
    BY <1>3, <2>2
  <2> QED BY <2>1, <2>2
<1>6. Shown(e) = UNION {Ats(f[k]) : k \in K}
  BY <1>4, <1>5 DEF Ats
<1>7. Recorded(e) = {}
  BY <1>1 DEF Recorded
<1> QED BY <1>1, <1>2, <1>3, <1>6, <1>7 DEF Events

\* Nothing said.
LEMMA NothingTells ==
  /\ Sound(<< >>) /\ ShownIn(<< >>) = {} /\ RecordedIn(<< >>) = {}
  /\ \A k : TextIn(<< >>, k) = {}
<1>1. << >> \in Seq(Events) /\ DOMAIN << >> = {}
  OBVIOUS
<1> QED BY <1>1 DEF Sound, InArrivalOrder, AllFit, ShownIn, RecordedIn, TextIn

\* One event.
LEMMA OneTells ==
  ASSUME NEW e \in Events, \A k \in Keys : InOrder(TextOf(e, k)), e.kind = "chunk" => Fits(e.text)
  PROVE  /\ Sound(<<e>>) /\ ShownIn(<<e>>) = Shown(e) /\ RecordedIn(<<e>>) = Recorded(e)
         /\ \A k : TextIn(<<e>>, k) = Range(TextOf(e, k))
<1> DEFINE l == <<e>>
<1>1. l \in Seq(Events) /\ DOMAIN l = {1} /\ l[1] = e
  OBVIOUS
<1> HIDE DEF l
<1>2. InArrivalOrder(l)
  BY <1>1 DEF InArrivalOrder
<1>3. AllFit(l)
  BY <1>1 DEF AllFit
<1>4. ShownIn(l) = Shown(e) /\ RecordedIn(l) = Recorded(e)
  BY <1>1 DEF ShownIn, RecordedIn
<1>5. \A k : TextIn(l, k) = Range(TextOf(e, k))
  BY <1>1 DEF TextIn
<1> QED BY <1>1, <1>2, <1>3, <1>4, <1>5 DEF l, Sound

\* The events of a concatenation are those of its parts.
LEMMA ConcatParts ==
  ASSUME NEW l \in Seq(Events), NEW es \in Seq(Events)
  PROVE  /\ l \o es \in Seq(Events) /\ Len(l \o es) = Len(l) + Len(es)
         /\ \A i \in DOMAIN l : i \in DOMAIN (l \o es) /\ (l \o es)[i] = l[i]
         /\ \A i \in DOMAIN es : Len(l) + i \in DOMAIN (l \o es) /\ (l \o es)[Len(l) + i] = es[i]
         /\ \A i \in DOMAIN (l \o es) : \/ i \in DOMAIN l
                                        \/ i > Len(l) /\ i - Len(l) \in DOMAIN es
  OBVIOUS

\* One after the other.
LEMMA ConcatTells ==
  ASSUME NEW l, NEW es, Sound(l), Sound(es), \A p \in ShownIn(l), q \in ShownIn(es) : p < q
  PROVE  /\ Sound(l \o es) /\ ShownIn(l \o es) = ShownIn(l) \cup ShownIn(es)
         /\ RecordedIn(l \o es) = RecordedIn(l) \cup RecordedIn(es)
         /\ \A k : TextIn(l \o es, k) = TextIn(l, k) \cup TextIn(es, k)
<1> DEFINE j == l \o es
<1>1. l \in Seq(Events) /\ es \in Seq(Events) /\ InArrivalOrder(l) /\ InArrivalOrder(es) /\ AllFit(l) /\ AllFit(es)
  BY DEF Sound
<1>2. /\ j \in Seq(Events)
      /\ \A i \in DOMAIN l : i \in DOMAIN j /\ j[i] = l[i]
      /\ \A i \in DOMAIN es : Len(l) + i \in DOMAIN j /\ j[Len(l) + i] = es[i]
      /\ \A i \in DOMAIN j : i \in DOMAIN l \/ (i > Len(l) /\ i - Len(l) \in DOMAIN es)
  BY <1>1, ConcatParts
<1>3. DOMAIN l = 1..Len(l) /\ Len(l) \in Nat /\ DOMAIN es = 1..Len(es) /\ Len(es) \in Nat /\ DOMAIN j = 1..Len(j) /\ Len(j) \in Nat
  BY <1>1, <1>2
<1> HIDE DEF j
<1>4. \A i \in DOMAIN j : i \notin DOMAIN l => i > Len(l) /\ i - Len(l) \in DOMAIN es /\ j[i] = es[i - Len(l)]
  <2> SUFFICES ASSUME NEW i \in DOMAIN j, i \notin DOMAIN l
               PROVE  i > Len(l) /\ i - Len(l) \in DOMAIN es /\ j[i] = es[i - Len(l)]
    OBVIOUS
  <2>1. i > Len(l) /\ i - Len(l) \in DOMAIN es
    BY <1>2
  <2>2. Len(l) + (i - Len(l)) = i
    BY <1>3
  <2> QED BY <1>2, <2>1, <2>2
<1>5. ShownIn(j) = ShownIn(l) \cup ShownIn(es)
  <2>1. ASSUME NEW i \in DOMAIN j PROVE (\E m \in DOMAIN l : j[i] = l[m]) \/ (\E m \in DOMAIN es : j[i] = es[m])
    BY <1>2, <1>4
  <2> QED BY <1>2, <2>1 DEF ShownIn
<1>6. RecordedIn(j) = RecordedIn(l) \cup RecordedIn(es)
  <2>1. ASSUME NEW i \in DOMAIN j PROVE (\E m \in DOMAIN l : j[i] = l[m]) \/ (\E m \in DOMAIN es : j[i] = es[m])
    BY <1>2, <1>4
  <2> QED BY <1>2, <2>1 DEF RecordedIn
<1>7. ASSUME NEW k PROVE TextIn(j, k) = TextIn(l, k) \cup TextIn(es, k)
  <2>1. ASSUME NEW i \in DOMAIN j PROVE (\E m \in DOMAIN l : j[i] = l[m]) \/ (\E m \in DOMAIN es : j[i] = es[m])
    BY <1>2, <1>4
  <2> QED BY <1>2, <2>1 DEF TextIn
<1>8. AllFit(j)
  BY <1>1, <1>2, <1>4 DEF AllFit
<1>9. ASSUME NEW i \in DOMAIN j, NEW k \in Keys PROVE InOrder(TextOf(j[i], k))
  BY <1>1, <1>2, <1>4 DEF InArrivalOrder
<1>10. ASSUME NEW m \in DOMAIN j, NEW n \in DOMAIN j, m < n, NEW p \in Shown(j[m]), NEW q \in Shown(j[n])
       PROVE  p < q
  <2>1. CASE n \in DOMAIN l
    <3>1. m \in DOMAIN l
      BY <1>3, <1>10, <2>1
    <3> QED BY <1>1, <1>2, <1>10, <2>1, <3>1 DEF InArrivalOrder
  <2>2. CASE n \notin DOMAIN l /\ m \in DOMAIN l
    <3>1. p \in ShownIn(l)
      BY <1>2, <2>2 DEF ShownIn
    <3>2. q \in ShownIn(es)
      BY <1>4, <2>2 DEF ShownIn
    <3> QED BY <3>1, <3>2
  <2>3. CASE n \notin DOMAIN l /\ m \notin DOMAIN l
    <3>1. /\ n - Len(l) \in DOMAIN es /\ j[n] = es[n - Len(l)]
          /\ m - Len(l) \in DOMAIN es /\ j[m] = es[m - Len(l)]
      BY <1>4, <2>3
    <3>2. m - Len(l) < n - Len(l)
      BY <1>3, <1>10
    <3> QED BY <1>1, <1>10, <3>1, <3>2 DEF InArrivalOrder
  <2> QED BY <2>1, <2>2, <2>3
<1>11. InArrivalOrder(j)
  BY <1>9, <1>10 DEF InArrivalOrder
<1> QED BY <1>2, <1>5, <1>6, <1>7, <1>8, <1>11 DEF j, Sound

\* The first of some events.
LEMMA PrefixTells ==
  ASSUME NEW es, Sound(es), NEW n \in 0..Len(es)
  PROVE  /\ Sound(SubSeq(es, 1, n)) /\ ShownIn(SubSeq(es, 1, n)) \subseteq ShownIn(es)
         /\ RecordedIn(SubSeq(es, 1, n)) \subseteq RecordedIn(es)
         /\ n = Len(es) => SubSeq(es, 1, n) = es
<1> DEFINE p == SubSeq(es, 1, n)
<1>1. es \in Seq(Events) /\ InArrivalOrder(es) /\ AllFit(es)
  BY DEF Sound
<1>2. p \in Seq(Events) /\ Len(p) = n /\ (\A i \in DOMAIN p : i \in DOMAIN es /\ p[i] = es[i])
  BY <1>1
<1>3. n = Len(es) => p = es
  <2>1. ASSUME n = Len(es) PROVE p = es
    <3>1. Len(p) = Len(es) /\ \A i \in 1..Len(es) : p[i] = es[i]
      BY <1>1, <1>2, <2>1
    <3> HIDE DEF p
    <3> QED BY <1>1, <1>2, <3>1
  <2> QED BY <2>1
<1> HIDE DEF p
<1>4. InArrivalOrder(p)
  BY <1>1, <1>2 DEF InArrivalOrder
<1>5. AllFit(p)
  BY <1>1, <1>2 DEF AllFit
<1>6. ShownIn(p) \subseteq ShownIn(es) /\ RecordedIn(p) \subseteq RecordedIn(es)
  BY <1>2 DEF ShownIn, RecordedIn
<1> QED BY <1>2, <1>3, <1>4, <1>5, <1>6 DEF p, Sound

\* A piece of a text.
LEMMA PieceOf ==
  ASSUME NEW s \in Seq(Chars), NEW a \in 1..(Len(s) + 1), NEW z \in Nat, z <= Len(s), a <= z + 1
  PROVE  /\ SubSeq(s, a, z) \in Seq(Chars)
         /\ \A x : x \in Range(SubSeq(s, a, z)) <=> \E p \in a..z : x = s[p]
         /\ InOrder(s) => InOrder(SubSeq(s, a, z))
<1> DEFINE t == SubSeq(s, a, z)
<1>1. t \in Seq(Chars) /\ Len(t) = z - a + 1 /\ DOMAIN t = 1..Len(t) /\ \A n \in 1..Len(t) : t[n] = s[a + n - 1]
  OBVIOUS
<1> HIDE DEF t
<1>2. ASSUME NEW x \in Range(t) PROVE \E p \in a..z : x = s[p]
  <2>1. PICK n \in 1..Len(t) : x = t[n]
    BY <1>1, <1>2 DEF Range
  <2>2. a + n - 1 \in a..z /\ x = s[a + n - 1]
    BY <1>1, <2>1
  <2> QED BY <2>2
<1>3. ASSUME NEW p \in a..z PROVE s[p] \in Range(t)
  <2>1. p - a + 1 \in 1..Len(t) /\ a + (p - a + 1) - 1 = p
    BY <1>1
  <2>2. t[p - a + 1] = s[p]
    BY <1>1, <2>1
  <2> QED BY <1>1, <2>1, <2>2 DEF Range
<1>4. ASSUME InOrder(s), NEW m \in DOMAIN t, NEW n \in DOMAIN t, m < n PROVE t[m].at < t[n].at
  <2>1. /\ a + m - 1 \in DOMAIN s /\ a + n - 1 \in DOMAIN s /\ a + m - 1 < a + n - 1
        /\ t[m] = s[a + m - 1] /\ t[n] = s[a + n - 1]
    BY <1>1, <1>4
  <2> QED BY <1>4, <2>1 DEF InOrder
<1> QED BY <1>1, <1>2, <1>3, <1>4 DEF t, InOrder

ChunksOf(key, ready) == [i \in DOMAIN ready |-> Chunk(key, ready[i])]

\* The chunks R and what stays pending are the text s, in order.
CutUp(key, s, R, rest) ==
  /\ Sound(R) /\ rest \in Seq(Chars) /\ InOrder(rest) /\ Bytes(rest) < Limit
  /\ TextIn(R, key) \cup Range(rest) = Range(s)
  /\ \A k : k # key => TextIn(R, k) = {}
  /\ ShownIn(R) \subseteq Ats(s)
  /\ \A p \in ShownIn(R), c \in Range(rest) : p < c.at
  /\ RecordedIn(R) \subseteq {k \in {key} : k[1] \notin Commands}
  /\ s # << >> /\ key[1] \notin Commands => key \in RecordedIn(R) \/ rest # << >>

\* That is what the loop of push makes of a text.
LEMMA CutTells ==
  ASSUME NEW key \in Keys, NEW s \in Seq(Chars), InOrder(s), NEW r, r = Cut(s),
         NEW R, R = ChunksOf(key, r.ready)
  PROVE  CutUp(key, s, R, r.rest)
<1> DEFINE M == Len(r.ready)
<1>1. r \in Cuts /\ \E b : Pieces(s, 1, r, b)
  BY CutPieces
<1>2. r.ready \in Seq(Seq(Chars)) /\ r.rest \in Seq(Chars) /\ M \in Nat /\ DOMAIN r.ready = 1..M /\ Len(s) \in Nat
  BY <1>1 DEF Cuts
<1>3. PICK b : Pieces(s, 1, r, b)
  BY <1>1
<1> HIDE DEF M
<1>4. /\ b \in [1..(M + 1) -> 1..(Len(s) + 1)] /\ b[1] = 1
      /\ \A m, n \in 1..(M + 1) : m < n => b[m] < b[n]
      /\ \A j \in 1..M : r.ready[j] = SubSeq(s, b[j], b[j + 1] - 1) /\ Fits(r.ready[j])
      /\ \A p \in 1..Len(s) : p >= b[M + 1] \/ \E j \in 1..M : b[j] <= p /\ p < b[j + 1]
      /\ r.rest = SubSeq(s, b[M + 1], Len(s)) /\ Bytes(r.rest) < Limit
  BY <1>3 DEF Pieces, M
<1>5. ASSUME NEW j \in 1..M
      PROVE  /\ r.ready[j] \in Seq(Chars) /\ InOrder(r.ready[j])
             /\ \A x : x \in Range(r.ready[j]) <=> \E p \in b[j]..(b[j + 1] - 1) : x = s[p]
  <2>1. j \in 1..(M + 1) /\ j + 1 \in 1..(M + 1) /\ j < j + 1
    BY <1>2
  <2>2. b[j] \in 1..(Len(s) + 1) /\ b[j + 1] \in 1..(Len(s) + 1) /\ b[j] < b[j + 1]
    BY <1>4, <2>1
  <2>3. b[j + 1] - 1 \in Nat /\ b[j + 1] - 1 <= Len(s) /\ b[j] <= (b[j + 1] - 1) + 1
    BY <1>2, <2>2
  <2>4. r.ready[j] = SubSeq(s, b[j], b[j + 1] - 1)
    BY <1>4
  <2> DEFINE a == b[j]
             z == b[j + 1] - 1
  <2> HIDE DEF a, z
  <2>5. /\ SubSeq(s, a, z) \in Seq(Chars) /\ InOrder(SubSeq(s, a, z))
        /\ \A x : x \in Range(SubSeq(s, a, z)) <=> \E p \in a..z : x = s[p]
    <3>1. a \in 1..(Len(s) + 1) /\ z \in Nat /\ z <= Len(s) /\ a <= z + 1
      BY <2>2, <2>3 DEF a, z
    <3> QED BY <3>1, PieceOf
  <2>6. r.ready[j] = SubSeq(s, a, z)
    BY <2>4 DEF a, z
  <2>7. /\ r.ready[j] \in Seq(Chars) /\ InOrder(r.ready[j])
        /\ \A x : x \in Range(r.ready[j]) <=> \E p \in a..z : x = s[p]
    BY <2>5, <2>6, Zenon
  <2> QED BY <2>7 DEF a, z
<1>6. M + 1 \in 1..(M + 1) /\ b[M + 1] \in 1..(Len(s) + 1)
  BY <1>2, <1>4
<1>7. InOrder(r.rest) /\ \A x : x \in Range(r.rest) <=> \E p \in b[M + 1]..Len(s) : x = s[p]
  <2>1. b[M + 1] <= Len(s) + 1 /\ Len(s) <= Len(s)
    BY <1>2, <1>6
  <2> DEFINE a == b[M + 1]
             z == Len(s)
  <2>2. a \in 1..(Len(s) + 1) /\ z \in Nat /\ z <= Len(s) /\ a <= z + 1 /\ r.rest = SubSeq(s, a, z)
    BY <1>2, <1>4, <1>6, <2>1
  <2> HIDE DEF a, z
  <2>3. /\ InOrder(SubSeq(s, a, z))
        /\ \A x : x \in Range(SubSeq(s, a, z)) <=> \E p \in a..z : x = s[p]
    BY <2>2, PieceOf
  <2>4. InOrder(r.rest) /\ \A x : x \in Range(r.rest) <=> \E p \in a..z : x = s[p]
    BY <2>2, <2>3, Zenon
  <2> QED BY <2>4 DEF a, z
<1>8. /\ DOMAIN R = 1..M
      /\ \A j \in 1..M : R[j] = Chunk(key, r.ready[j])
  BY <1>2 DEF ChunksOf
<1>9. ASSUME NEW j \in 1..M
      PROVE  /\ R[j] \in Events /\ Shown(R[j]) = Ats(r.ready[j])
             /\ TextOf(R[j], key) = r.ready[j] /\ \A k : k # key => TextOf(R[j], k) = << >>
             /\ Recorded(R[j]) = IF key[1] \notin Commands THEN {key} ELSE {}
             /\ R[j].kind = "chunk" /\ R[j].text = r.ready[j]
  <2> DEFINE t == r.ready[j]
  <2>1. t \in Seq(Chars) /\ R[j] = Chunk(key, t)
    BY <1>5, <1>8
  <2> HIDE DEF t
  <2>2. /\ Chunk(key, t) \in Events /\ Shown(Chunk(key, t)) = Ats(t)
        /\ TextOf(Chunk(key, t), key) = t /\ \A k : k # key => TextOf(Chunk(key, t), k) = << >>
        /\ Recorded(Chunk(key, t)) = IF key[1] \notin Commands THEN {key} ELSE {}
        /\ Chunk(key, t).kind = "chunk" /\ Chunk(key, t).text = t
    BY <2>1, ChunkTells
  <2> QED BY <2>1, <2>2, Zenon DEF t
<1>10. R \in Seq(Events)
  <2>1. R = [j \in 1..M |-> R[j]]
    BY <1>2 DEF ChunksOf
  <2>2. R \in [1..M -> Events]
    BY <1>9, <2>1
  <2> QED BY <1>2, <2>2
<1>11. AllFit(R)
  BY <1>4, <1>8, <1>9 DEF AllFit
<1>12. ASSUME NEW p \in 1..Len(s), NEW q \in 1..Len(s), p < q PROVE s[p].at < s[q].at
  BY <1>12 DEF InOrder
<1>13. ASSUME NEW j \in 1..M, NEW x \in Shown(R[j])
       PROVE  \E p \in 1..Len(s) : p < b[j + 1] /\ b[j] <= p /\ x = s[p].at
  <2>1. PICK c \in Range(r.ready[j]) : x = c.at
    <3>1. x \in Ats(r.ready[j])
      BY <1>9, <1>13
    <3> QED BY <3>1 DEF Ats
  <2>2. PICK p \in b[j]..(b[j + 1] - 1) : c = s[p]
    BY <1>5, <2>1
  <2>3. j \in 1..(M + 1) /\ j + 1 \in 1..(M + 1)
    BY <1>2
  <2>4. b[j] \in 1..(Len(s) + 1) /\ b[j + 1] \in 1..(Len(s) + 1)
    BY <1>4, <2>3
  <2>5. p \in 1..Len(s) /\ p < b[j + 1] /\ b[j] <= p
    BY <1>2, <2>2, <2>4
  <2> QED BY <2>1, <2>2, <2>5
<1>14. ASSUME NEW i \in 1..M, NEW n \in 1..(M + 1), i < n PROVE b[i + 1] <= b[n] /\ b[n] \in Nat /\ b[i + 1] \in Nat
  <2>1. i + 1 \in 1..(M + 1) /\ (i + 1 = n \/ i + 1 < n)
    BY <1>2, <1>14
  <2>2. b[n] \in 1..(Len(s) + 1) /\ b[i + 1] \in 1..(Len(s) + 1)
    BY <1>4, <2>1
  <2>3. i + 1 < n => b[i + 1] < b[n]
    BY <1>4, <2>1
  <2> QED BY <2>1, <2>2, <2>3
<1>15. InArrivalOrder(R)
  <2>1. ASSUME NEW i \in 1..M, NEW n \in 1..M, i < n, NEW x \in Shown(R[i]), NEW y \in Shown(R[n])
        PROVE  x < y
    <3>1. PICK p \in 1..Len(s) : p < b[i + 1] /\ x = s[p].at
      BY <1>13, <2>1
    <3>2. PICK q \in 1..Len(s) : b[n] <= q /\ y = s[q].at
      BY <1>13, <2>1
    <3>3. n \in 1..(M + 1)
      BY <1>2
    <3>4. b[i + 1] <= b[n] /\ b[n] \in Nat /\ b[i + 1] \in Nat
      BY <1>14, <2>1, <3>3
    <3>5. p < q
      BY <3>1, <3>2, <3>4
    <3> QED BY <1>12, <3>1, <3>2, <3>5
  <2>2. ASSUME NEW i \in 1..M, NEW k \in Keys PROVE InOrder(TextOf(R[i], k))
    <3>1. CASE k = key
      BY <1>5, <1>9, <3>1
    <3>2. CASE k # key
      BY <1>9, <3>2, EmptyText
    <3> QED BY <3>1, <3>2
  <2> QED BY <1>8, <2>1, <2>2 DEF InArrivalOrder
<1>16. ASSUME NEW x \in ShownIn(R), NEW c \in Range(r.rest) PROVE x < c.at
  <2>1. PICK j \in 1..M : x \in Shown(R[j])
    BY <1>8 DEF ShownIn
  <2>2. PICK p \in 1..Len(s) : p < b[j + 1] /\ x = s[p].at
    BY <1>13, <2>1
  <2>3. PICK q \in b[M + 1]..Len(s) : c = s[q]
    BY <1>7
  <2>4. b[j + 1] <= b[M + 1] /\ b[M + 1] \in Nat /\ b[j + 1] \in Nat
    BY <1>2, <1>6, <1>14
  <2>5. q \in 1..Len(s) /\ p < q
    BY <1>2, <1>6, <2>2, <2>3, <2>4
  <2> QED BY <1>12, <2>2, <2>3, <2>5
<1>17. ShownIn(R) \subseteq Ats(s)
  <2>1. ASSUME NEW x \in ShownIn(R) PROVE x \in Ats(s)
    <3>1. PICK j \in 1..M : x \in Shown(R[j])
      BY <1>8 DEF ShownIn
    <3>2. PICK p \in 1..Len(s) : x = s[p].at
      BY <1>13, <3>1
    <3>3. s[p] \in Range(s)
      BY DEF Range
    <3> QED BY <3>2, <3>3 DEF Ats
  <2> QED BY <2>1
<1>18. TextIn(R, key) \cup Range(r.rest) = Range(s)
  <2>1. ASSUME NEW p \in 1..Len(s) PROVE s[p] \in TextIn(R, key) \cup Range(r.rest)
    <3>1. CASE p >= b[M + 1]
      BY <1>6, <1>7, <3>1
    <3>2. CASE \E j \in 1..M : b[j] <= p /\ p < b[j + 1]
      <4>1. PICK j \in 1..M : b[j] <= p /\ p < b[j + 1]
        BY <3>2
      <4>2. j \in 1..(M + 1) /\ j + 1 \in 1..(M + 1)
        BY <1>2
      <4>3. b[j] \in Nat /\ b[j + 1] \in Nat
        BY <1>4, <4>2
      <4>4. p \in b[j]..(b[j + 1] - 1)
        BY <4>1, <4>3
      <4>5. s[p] \in Range(TextOf(R[j], key))
        BY <1>5, <1>9, <4>4
      <4> QED BY <1>8, <4>5 DEF TextIn
    <3> QED BY <1>4, <3>1, <3>2
  <2>2. ASSUME NEW x \in TextIn(R, key) PROVE x \in Range(s)
    <3>1. PICK j \in 1..M : x \in Range(TextOf(R[j], key))
      BY <1>8, <2>2 DEF TextIn
    <3>2. PICK p \in b[j]..(b[j + 1] - 1) : x = s[p]
      BY <1>5, <1>9, <3>1
    <3>3. j \in 1..(M + 1) /\ j + 1 \in 1..(M + 1)
      BY <1>2
    <3>4. b[j] \in 1..(Len(s) + 1) /\ b[j + 1] \in 1..(Len(s) + 1)
      BY <1>4, <3>3
    <3>5. p \in DOMAIN s
      BY <1>2, <3>2, <3>4
    <3> QED BY <3>2, <3>5 DEF Range
  <2>3. ASSUME NEW x \in Range(r.rest) PROVE x \in Range(s)
    <3>1. PICK p \in b[M + 1]..Len(s) : x = s[p]
      BY <1>7, <2>3
    <3>2. p \in DOMAIN s
      BY <1>2, <1>6, <3>1
    <3> QED BY <3>1, <3>2 DEF Range
  <2>4. ASSUME NEW x \in Range(s) PROVE \E p \in 1..Len(s) : x = s[p]
    BY <2>4 DEF Range
  <2> QED BY <2>1, <2>2, <2>3, <2>4
<1>19. ASSUME NEW k, k # key PROVE TextIn(R, k) = {}
  <2>1. ASSUME NEW x \in TextIn(R, k) PROVE FALSE
    <3>1. PICK j \in 1..M : x \in Range(TextOf(R[j], k))
      BY <1>8, <2>1 DEF TextIn
    <3> QED BY <1>9, <1>19, <3>1, EmptyText
  <2> QED BY <2>1
<1>20. RecordedIn(R) \subseteq {k \in {key} : k[1] \notin Commands}
  BY <1>8, <1>9 DEF RecordedIn
<1>21. ASSUME s # << >>, key[1] \notin Commands, r.rest = << >> PROVE key \in RecordedIn(R)
  <2>1. CASE M = 0
    <3>1. r.rest = SubSeq(s, 1, Len(s))
      BY <1>4, <2>1
    <3>2. Len(r.rest) = Len(s)
      BY <3>1
    <3>3. Len(<< >>) = 0 /\ Len(s) # 0
      BY <1>21
    <3> QED BY <1>21, <3>2, <3>3
  <2>2. CASE M # 0
    <3>1. 1 \in 1..M
      BY <1>2, <2>2
    <3>2. key \in Recorded(R[1])
      BY <1>9, <1>21, <3>1
    <3> QED BY <1>8, <3>1, <3>2 DEF RecordedIn
  <2> QED BY <2>1, <2>2
<1>22. Sound(R)
  BY <1>10, <1>11, <1>15 DEF Sound
<1> QED BY <1>2, <1>4, <1>7, <1>16, <1>17, <1>18, <1>19, <1>20, <1>21, <1>22 DEF CutUp

-----------------------------------------------------------------------------
(* The inductive invariant of the writer.                                  *)

PendingOf(k) == IF pending.key = k THEN Range(pending.text) ELSE {}

WriterShape ==
  /\ text \in [Keys -> Seq(Chars)] /\ done \subseteq Items
  /\ clock \in Nat /\ clock <= MaxSent + 2
  /\ (status = "open" => clock <= MaxSent) /\ (status # "reported" => clock <= MaxSent + 1)
  /\ pending.key \in Keys \cup {<< >>} /\ pending.text \in Seq(Chars)
  /\ pending = NoText \/ (pending.key \in Keys /\ Bytes(pending.text) < Limit)
  /\ streamed \subseteq {k \in Keys : k[1] \notin Commands}
  /\ status \in {"open", "ended", "failed", "reported"}

\* What is pending is newer than what is in the log, and nothing is newer than
\* the clock.
ToldInOrder ==
  /\ Sound(log) /\ \A p \in ShownIn(log) : p \in Nat /\ p <= clock
  /\ InOrder(pending.text)
  /\ \A c \in Range(pending.text) : c.at <= clock /\ \A p \in ShownIn(log) : p < c.at
  /\ \A k \in Keys : InOrder(text[k]) /\ \A c \in Range(text[k]) : c.at <= clock

\* While the turn is open, a stream's text is in the log or pending, a completed
\* item's is told, and the writer knows of which streams the log has text.
NothingMissing ==
  status = "open" =>
    /\ \A k \in Keys : k[1] \notin done => TextIn(log, k) \cup PendingOf(k) = Range(text[k])
    /\ \A k \in Keys : k[1] \in done => Told(k)
    /\ pending.key \in Keys => pending.key[1] \notin done
    /\ \A k \in streamed : TextIn(log, k) # {}
    /\ \A k \in Keys : k[1] \notin Commands /\ k[1] \notin done /\ text[k] # << >> =>
                         k \in streamed \/ (pending.key = k /\ pending.text # << >>)

EndIsComplete == status = "ended" => \A k \in Keys : Told(k)

WriterIInv == WriterShape /\ ToldInOrder /\ NothingMissing /\ EndIsComplete

\* No stream has the key of an absent text.
LEMMA NoTextKey == << >> \notin Keys /\ NoText.key = << >> /\ NoText.text = << >>
<1>1. NoText.key = << >> /\ NoText.text = << >>
  BY DEF NoText
<1>2. << >> \notin Items \X Parts
  OBVIOUS
<1> QED BY <1>1, <1>2 DEF Keys

\* One text after another.
LEMMA TextConcat ==
  ASSUME NEW a \in Seq(Chars), NEW d \in Seq(Chars), InOrder(a), InOrder(d),
         \A x \in Range(a), y \in Range(d) : x.at < y.at
  PROVE  /\ a \o d \in Seq(Chars) /\ InOrder(a \o d) /\ Range(a \o d) = Range(a) \cup Range(d)
         /\ (a = << >> => a \o d = d) /\ (d = << >> => a \o d = a)
         /\ (a # << >> \/ d # << >> => a \o d # << >>)
<1> DEFINE j == a \o d
<1>1. /\ j \in Seq(Chars) /\ Len(j) = Len(a) + Len(d)
      /\ \A i \in 1..Len(a) : i \in 1..Len(j) /\ j[i] = a[i]
      /\ \A i \in 1..Len(d) : Len(a) + i \in 1..Len(j) /\ j[Len(a) + i] = d[i]
  OBVIOUS
<1>2. /\ DOMAIN a = 1..Len(a) /\ Len(a) \in Nat /\ DOMAIN d = 1..Len(d) /\ Len(d) \in Nat
      /\ DOMAIN j = 1..Len(j) /\ Len(j) \in Nat
  BY <1>1
<1>3. a = << >> => j = d
  OBVIOUS
<1>4. d = << >> => j = a
  OBVIOUS
<1>5. a # << >> \/ d # << >> => j # << >>
  <2>1. Len(<< >>) = 0
    OBVIOUS
  <2>2. (a # << >> => Len(a) # 0) /\ (d # << >> => Len(d) # 0)
    OBVIOUS
  <2>3. a # << >> \/ d # << >> => Len(j) # 0
    BY <1>1, <1>2, <2>2
  <2> HIDE DEF j
  <2> QED BY <2>1, <2>3, Zenon
<1> HIDE DEF j
<1>6. ASSUME NEW i \in 1..Len(j), i \notin 1..Len(a)
      PROVE  i - Len(a) \in 1..Len(d) /\ j[i] = d[i - Len(a)]
  <2>1. i - Len(a) \in 1..Len(d) /\ Len(a) + (i - Len(a)) = i
    BY <1>1, <1>2, <1>6
  <2>2. j[Len(a) + (i - Len(a))] = d[i - Len(a)]
    BY <1>1, <2>1
  <2> QED BY <2>1, <2>2
<1>7. Range(j) = Range(a) \cup Range(d)
  <2>1. ASSUME NEW i \in 1..Len(j) PROVE (\E m \in 1..Len(a) : j[i] = a[m]) \/ (\E m \in 1..Len(d) : j[i] = d[m])
    BY <1>1, <1>6
  <2>2. ASSUME NEW x \in Range(j) PROVE x \in Range(a) \cup Range(d)
    <3>1. PICK i \in 1..Len(j) : x = j[i]
      BY <1>2, <2>2 DEF Range
    <3> QED BY <1>2, <2>1, <3>1 DEF Range
  <2>3. ASSUME NEW x \in Range(a) PROVE x \in Range(j)
    <3>1. PICK i \in 1..Len(a) : x = a[i]
      BY <1>2, <2>3 DEF Range
    <3>2. i \in DOMAIN j /\ x = j[i]
      BY <1>1, <1>2, <3>1
    <3> QED BY <3>2 DEF Range
  <2>4. ASSUME NEW x \in Range(d) PROVE x \in Range(j)
    <3>1. PICK i \in 1..Len(d) : x = d[i]
      BY <1>2, <2>4 DEF Range
    <3>2. Len(a) + i \in DOMAIN j /\ x = j[Len(a) + i]
      BY <1>1, <1>2, <3>1
    <3> QED BY <3>2 DEF Range
  <2> QED BY <2>2, <2>3, <2>4
<1>8. ASSUME NEW m \in 1..Len(j), NEW n \in 1..Len(j), m < n PROVE j[m].at < j[n].at
  <2>1. CASE n \in 1..Len(a)
    <3>1. m \in 1..Len(a)
      BY <1>2, <1>8, <2>1
    <3> QED BY <1>1, <1>2, <1>8, <2>1, <3>1 DEF InOrder
  <2>2. CASE n \notin 1..Len(a) /\ m \in 1..Len(a)
    <3>1. j[m] \in Range(a)
      BY <1>1, <1>2, <2>2 DEF Range
    <3>2. j[n] \in Range(d)
      BY <1>2, <1>6, <2>2 DEF Range
    <3> QED BY <3>1, <3>2
  <2>3. CASE n \notin 1..Len(a) /\ m \notin 1..Len(a)
    <3>1. /\ n - Len(a) \in DOMAIN d /\ j[n] = d[n - Len(a)]
          /\ m - Len(a) \in DOMAIN d /\ j[m] = d[m - Len(a)]
      BY <1>2, <1>6, <2>3
    <3>2. m - Len(a) < n - Len(a)
      BY <1>2, <1>8
    <3> QED BY <3>1, <3>2 DEF InOrder
  <2> QED BY <2>1, <2>2, <2>3
<1>9. InOrder(j)
  BY <1>2, <1>8 DEF InOrder
<1> QED BY <1>1, <1>3, <1>4, <1>5, <1>7, <1>9 DEF j

\* New text is newer than everything before it.
LEMMA TextsAreNew ==
  ASSUME clock \in Nat, NEW d \in Texts, clock + Len(d) <= MaxSent
  PROVE  /\ d \in Seq(Chars) /\ InOrder(d) /\ Len(d) \in Nat
         /\ \A c \in Range(d) : c.at \in Nat /\ clock < c.at /\ c.at <= clock + Len(d)
<1>1. PICK n \in 0..MaxDelta : \E g \in [1..n -> Glyphs] :
        d = [i \in 1..n |-> [at |-> clock + i, width |-> g[i].width, form |-> g[i].form]]
  BY DEF Texts
<1>2. n \in Nat
  BY WriterBoundsAssumption
<1>3. PICK g \in [1..n -> Glyphs] :
        d = [i \in 1..n |-> [at |-> clock + i, width |-> g[i].width, form |-> g[i].form]]
  BY <1>1
<1>4. Len(d) = n /\ DOMAIN d = 1..n
  BY <1>2, <1>3
<1>5. ASSUME NEW i \in 1..n
      PROVE  d[i] \in Chars /\ d[i].at = clock + i /\ clock + i \in Nat /\ clock < clock + i /\ clock + i <= clock + n
  <2>1. d[i] = [at |-> clock + i, width |-> g[i].width, form |-> g[i].form] /\ g[i] \in Glyphs
    BY <1>3
  <2>3. g[i] \in [width : 1..4, form : {"ink", "space", "newline"}]
    BY <2>1, GlyphsAssumption
  <2>2. clock + i \in 1..MaxSent
    BY <1>2, <1>4, WriterBoundsAssumption
  <2> QED BY <1>2, <2>1, <2>2, <2>3 DEF Chars
<1>6. d \in Seq(Chars)
  <2>1. d = [i \in 1..n |-> d[i]]
    BY <1>3
  <2>2. d \in [1..n -> Chars]
    BY <1>5, <2>1
  <2> QED BY <1>2, <2>2
<1>7. InOrder(d)
  BY <1>2, <1>4, <1>5 DEF InOrder
<1>8. ASSUME NEW c \in Range(d) PROVE c.at \in Nat /\ clock < c.at /\ c.at <= clock + Len(d)
  <2>1. PICK i \in 1..n : c = d[i]
    BY <1>4, <1>8 DEF Range
  <2> QED BY <1>4, <1>5, <2>1
<1> QED BY <1>2, <1>4, <1>6, <1>7, <1>8

\* A character's place is a number.
LEMMA PlacesAreNumbers ==
  ASSUME NEW s \in Seq(Chars), NEW c \in Range(s)
  PROVE  c \in Chars /\ c.at \in Nat
<1>1. PICK i \in 1..Len(s) : c = s[i]
  BY DEF Range
<1>2. c \in Chars
  BY <1>1
<1> QED BY <1>2, WriterBoundsAssumption DEF Chars

\* A recorded stream has text among the events.
LEMMA RecordedHasText ==
  ASSUME NEW es, Sound(es), NEW k \in RecordedIn(es)
  PROVE  TextIn(es, k) # {}
<1>1. PICK i \in DOMAIN es : k \in Recorded(es[i])
  BY DEF RecordedIn
<1>2. es[i].kind = "chunk" /\ es[i].key = k
  BY <1>1 DEF Recorded
<1>3. es[i] \in Events
  BY DEF Sound
<1>4. es[i].text \in Seq(Chars) /\ es[i].text # << >> /\ TextOf(es[i], k) = es[i].text
  <2>1. es[i].text # << >>
    BY <1>2 DEF Sound, AllFit, Fits
  <2>2. es[i] \in ChunkEvents
    BY <1>2, <1>3 DEF Events, Completions, MarkEvents, Marks
  <2> QED BY <1>2, <2>1, <2>2 DEF ChunkEvents, TextOf
<1>5. 1 \in DOMAIN es[i].text
  BY <1>4
<1>6. es[i].text[1] \in Range(TextOf(es[i], k))
  BY <1>4, <1>5 DEF Range
<1> QED BY <1>6 DEF TextIn

\* What the pending chunk tells when it is flushed.
LEMMA FlushedTells ==
  ASSUME WriterIInv
  PROVE  /\ Sound(Flushed) /\ ShownIn(Flushed) = Ats(pending.text)
         /\ \A k \in Keys : TextIn(Flushed, k) = PendingOf(k)
         /\ RecordedIn(Flushed) \subseteq {k \in Keys : k[1] \notin Commands}
         /\ \A k \in Keys : k \in RecordedIn(Flushed) <=>
                              pending.key = k /\ pending.text # << >> /\ k[1] \notin Commands
<1>1. pending.text \in Seq(Chars) /\ InOrder(pending.text)
  BY DEF WriterIInv, WriterShape, ToldInOrder
<1>2. CASE pending.text = << >>
  <2>1. Flushed = << >>
    BY <1>2 DEF Flushed
  <2>2. Range(pending.text) = {} /\ Ats(pending.text) = {}
    BY <1>2, EmptyText
  <2> QED BY <1>2, <2>1, <2>2, NothingTells DEF PendingOf
<1>3. CASE pending.text # << >>
  <2> DEFINE e == Chunk(pending.key, pending.text)
  <2>1. Flushed = <<e>>
    BY <1>3 DEF Flushed
  <2>2. pending.key \in Keys /\ Bytes(pending.text) < Limit
    BY <1>3, NoTextKey DEF WriterIInv, WriterShape
  <2>3. Fits(pending.text)
    <3>1. Bytes(pending.text) \in Nat
      BY <1>1, BytesWorks
    <3>2. Bytes(pending.text) <= Limit
      BY <2>2, <3>1, LimitAssumption
    <3> QED BY <1>3, <3>2 DEF Fits
  <2>4. /\ e \in Events /\ Shown(e) = Ats(pending.text)
        /\ TextOf(e, pending.key) = pending.text /\ \A k : k # pending.key => TextOf(e, k) = << >>
        /\ Recorded(e) = IF pending.key[1] \notin Commands THEN {pending.key} ELSE {}
        /\ e.kind = "chunk" /\ e.text = pending.text
    BY <1>1, <2>2, ChunkTells
  <2> HIDE DEF e
  <2>5. \A k \in Keys : InOrder(TextOf(e, k))
    BY <1>1, <2>4, EmptyText
  <2>6. /\ Sound(<<e>>) /\ ShownIn(<<e>>) = Shown(e) /\ RecordedIn(<<e>>) = Recorded(e)
        /\ \A k : TextIn(<<e>>, k) = Range(TextOf(e, k))
    BY <2>3, <2>4, <2>5, OneTells
  <2>7. ASSUME NEW k \in Keys PROVE TextIn(<<e>>, k) = PendingOf(k)
    BY <2>4, <2>6, EmptyText DEF PendingOf
  <2>8. RecordedIn(<<e>>) = IF pending.key[1] \notin Commands THEN {pending.key} ELSE {}
    BY <2>4, <2>6
  <2> QED BY <1>3, <2>1, <2>2, <2>4, <2>6, <2>7, <2>8
<1> QED BY <1>2, <1>3

\* What persisting events does to the log, all of them or some.
LEMMA PersistTells ==
  ASSUME Sound(log), NEW es, Sound(es), \A p \in ShownIn(log), q \in ShownIn(es) : p < q,
         NEW F, NEW c, NEW f, Persist(es, F, c, f)
  PROVE  /\ Sound(log') /\ ShownIn(log') \subseteq ShownIn(log) \cup ShownIn(es)
         /\ status' \in {c, f} /\ streamed' \subseteq streamed \cup RecordedIn(es)
         /\ c # f /\ status' = c => /\ streamed' = (streamed \cup RecordedIn(es)) \ F
                                   /\ log' = log \o es
                                   /\ \A k : TextIn(log', k) = TextIn(log, k) \cup TextIn(es, k)
<1>1. PICK n \in 0..Len(es) :
        /\ log' = log \o SubSeq(es, 1, n)
        /\ status' = IF n < Len(es) THEN f ELSE c
        /\ streamed' = (streamed \cup RecordedIn(SubSeq(es, 1, n))) \ F
  BY DEF Persist
<1> DEFINE p == SubSeq(es, 1, n)
<1>2. Sound(p) /\ ShownIn(p) \subseteq ShownIn(es) /\ RecordedIn(p) \subseteq RecordedIn(es) /\ (n = Len(es) => p = es)
  BY PrefixTells
<1>3. Len(es) \in Nat
  BY DEF Sound
<1> HIDE DEF p
<1>4. \A x \in ShownIn(log), y \in ShownIn(p) : x < y
  BY <1>2
<1>5. /\ Sound(log \o p) /\ ShownIn(log \o p) = ShownIn(log) \cup ShownIn(p)
      /\ \A k : TextIn(log \o p, k) = TextIn(log, k) \cup TextIn(p, k)
  BY <1>2, <1>4, ConcatTells
<1>6. log' = log \o p /\ streamed' = (streamed \cup RecordedIn(p)) \ F
  BY <1>1 DEF p
<1>7. c # f /\ status' = c => n = Len(es)
  BY <1>1, <1>3
<1>8. status' \in {c, f}
  BY <1>1
<1> QED BY <1>2, <1>5, <1>6, <1>7, <1>8

\* Events that have no text of a stream have no chunk of it.
LEMMA WithoutText ==
  ASSUME NEW es, Sound(es), NEW k, TextIn(es, k) = {}
  PROVE  NeverStreamed(es, k)
<1>1. ASSUME NEW i \in DOMAIN es, es[i].kind = "chunk", es[i].key = k PROVE FALSE
  <2>1. es[i] \in Events
    BY DEF Sound
  <2>2. es[i].text \in Seq(Chars) /\ es[i].text # << >> /\ TextOf(es[i], k) = es[i].text
    <3>1. es[i].text # << >>
      BY <1>1 DEF Sound, AllFit, Fits
    <3>2. es[i] \in ChunkEvents
      BY <1>1, <2>1 DEF Events, Completions, MarkEvents, Marks
    <3> QED BY <1>1, <3>1, <3>2 DEF ChunkEvents, TextOf
  <2>3. es[i].text[1] \in Range(TextOf(es[i], k))
    BY <2>2 DEF Range
  <2> QED BY <2>3 DEF TextIn
<1> QED BY <1>1 DEF NeverStreamed

\* Nor has one sequence after another without chunks of the stream.
LEMMA NeverStreamedConcat ==
  ASSUME NEW l, Sound(l), NEW es, Sound(es), NEW k, NeverStreamed(l, k), NeverStreamed(es, k)
  PROVE  NeverStreamed(l \o es, k)
<1>1. l \in Seq(Events) /\ es \in Seq(Events)
  BY DEF Sound
<1>2. ASSUME NEW i \in DOMAIN (l \o es), (l \o es)[i].kind = "chunk" PROVE (l \o es)[i].key # k
  <2>1. CASE i \in DOMAIN l
    <3>1. (l \o es)[i] = l[i]
      BY <1>1, <2>1
    <3> QED BY <1>2, <2>1, <3>1 DEF NeverStreamed
  <2>2. CASE i > Len(l) /\ i - Len(l) \in DOMAIN es
    <3>1. (l \o es)[i] = es[i - Len(l)]
      BY <1>1, <2>2
    <3> QED BY <1>2, <2>2, <3>1 DEF NeverStreamed
  <2> QED BY <1>1, <2>1, <2>2, ConcatParts
<1> QED BY <1>2 DEF NeverStreamed

\* What is told stays told when events without text of the stream follow.
LEMMA ToldStays ==
  ASSUME Sound(log), NEW es, Sound(es), NEW k \in Keys, Told(k), TextIn(es, k) = {},
         log' = log \o es, TextIn(log', k) = TextIn(log, k) \cup TextIn(es, k), text'[k] = text[k]
  PROVE  Told(k)'
<1>1. NeverStreamed(log, k) => NeverStreamed(log', k)
  BY WithoutText, NeverStreamedConcat
<1>2. TextIn(log', k) = TextIn(log, k)
  OBVIOUS
<1> QED BY <1>1, <1>2 DEF Told

\* What compact leaves of a text.
LEMMA CompactWorks ==
  ASSUME NEW s \in Seq(Chars)
  PROVE  /\ Compact(s) \in Gapped /\ Range(Compact(s)) \subseteq Range(s)
         /\ InOrder(s) => InOrder(Compact(s))
         /\ s = << >> => Range(Compact(s)) = {} /\ DOMAIN Compact(s) = {}
         /\ DOMAIN Compact(s) = {} => Range(Compact(s)) = {}
<1> DEFINE D == {i \in DOMAIN s : Kept(s, i)}
<1>1. D \subseteq DOMAIN s /\ DOMAIN s = 1..Len(s) /\ D \in SUBSET Nat
  OBVIOUS
<1> HIDE DEF D
<1>2. Compact(s) = [i \in D |-> s[i]]
  BY DEF Compact, Restrict, D
<1>3. Compact(s) \in [D -> Chars]
  BY <1>1, <1>2
<1>4. Range(Compact(s)) \subseteq Range(s)
  BY <1>1, <1>2 DEF Range
<1>5. InOrder(s) => InOrder(Compact(s))
  BY <1>1, <1>2 DEF InOrder
<1>6. DOMAIN Compact(s) = D /\ (s = << >> => D = {})
  BY <1>1, <1>2
<1>7. D = {} => Range(Compact(s)) = {}
  BY <1>6 DEF Range
<1> QED BY <1>1, <1>3, <1>4, <1>5, <1>6, <1>7 DEF Gapped

\* What a delta adds to the log and leaves pending.
LEMMA PushTells ==
  ASSUME WriterIInv, NEW key \in Keys, NEW d \in Texts, clock + Len(d) <= MaxSent,
         NEW es, es = Push(key, d).ready, NEW pd, pd = Push(key, d).pending
  PROVE  /\ Sound(es) /\ ShownIn(es) \subseteq Ats(pending.text) \cup Ats(d)
         /\ pd.key = key /\ pd.text \in Seq(Chars) /\ InOrder(pd.text) /\ Bytes(pd.text) < Limit
         /\ Range(pd.text) \subseteq Range(pending.text) \cup Range(d)
         /\ \A p \in ShownIn(es), c \in Range(pd.text) : p < c.at
         /\ \A k \in Keys : TextIn(es, k) \cup (IF k = key THEN Range(pd.text) ELSE {})
                              = PendingOf(k) \cup (IF k = key THEN Range(d) ELSE {})
         /\ RecordedIn(es) \subseteq {k \in Keys : k[1] \notin Commands}
         /\ \A k \in Keys : /\ k[1] \notin Commands
                            /\ (pending.key = k /\ pending.text # << >>) \/ (k = key /\ d # << >>)
                            => k \in RecordedIn(es) \/ (k = key /\ pd.text # << >>)
<1> DEFINE old == IF pending.key = key THEN pending.text ELSE << >>
           s == old \o d
           r == Cut(s)
           R == ChunksOf(key, r.ready)
           F == IF pending.key = key THEN << >> ELSE Flushed
<1>1. es = F \o R /\ pd.key = key /\ pd.text = r.rest
  BY DEF Push, ChunksOf
<1>2. /\ clock \in Nat /\ pending.text \in Seq(Chars) /\ InOrder(pending.text)
      /\ \A c \in Range(pending.text) : c.at <= clock
  BY DEF WriterIInv, WriterShape, ToldInOrder
<1>3. /\ d \in Seq(Chars) /\ InOrder(d)
      /\ \A c \in Range(d) : c.at \in Nat /\ clock < c.at
  BY <1>2, TextsAreNew
<1>4. old \in Seq(Chars) /\ InOrder(old) /\ Range(old) \subseteq Range(pending.text)
  BY <1>2, EmptyText
<1>5. \A x \in Range(pending.text), y \in Range(d) : x.at < y.at
  <2>1. \A x \in Range(pending.text) : x.at \in Nat
    BY <1>2, PlacesAreNumbers
  <2> QED BY <1>2, <1>3, <2>1
<1> HIDE DEF old
<1>6. /\ s \in Seq(Chars) /\ InOrder(s) /\ Range(s) = Range(old) \cup Range(d)
      /\ (old # << >> \/ d # << >> => s # << >>)
  BY <1>3, <1>4, <1>5, TextConcat
<1> HIDE DEF s
<1>7. /\ Sound(R) /\ r.rest \in Seq(Chars) /\ InOrder(r.rest) /\ Bytes(r.rest) < Limit
      /\ TextIn(R, key) \cup Range(r.rest) = Range(s)
      /\ \A k : k # key => TextIn(R, k) = {}
      /\ ShownIn(R) \subseteq Ats(s)
      /\ \A p \in ShownIn(R), c \in Range(r.rest) : p < c.at
      /\ RecordedIn(R) \subseteq {k \in {key} : k[1] \notin Commands}
      /\ s # << >> /\ key[1] \notin Commands => key \in RecordedIn(R) \/ r.rest # << >>
  <2>1. r = Cut(s) /\ R = ChunksOf(key, r.ready)
    OBVIOUS
  <2> HIDE DEF r, R
  <2>2. CutUp(key, s, R, r.rest)
    BY <1>6, <2>1, CutTells
  <2> QED BY <2>2 DEF CutUp
<1> HIDE DEF r, R
<1>8. ShownIn(R) \subseteq Ats(old) \cup Ats(d) /\ Range(r.rest) \subseteq Range(old) \cup Range(d)
  BY <1>6, <1>7 DEF Ats
<1>9. CASE pending.key = key
  <2>1. F = << >> /\ old = pending.text
    BY <1>9 DEF old
  <2>2. es = R
    <3>1. R \in Seq(Events)
      BY <1>7 DEF Sound
    <3> QED BY <1>1, <2>1, <3>1
  <2>3. ASSUME NEW k \in Keys
        PROVE  /\ TextIn(R, k) \cup (IF k = key THEN Range(r.rest) ELSE {})
                    = PendingOf(k) \cup (IF k = key THEN Range(d) ELSE {})
               /\ k[1] \notin Commands /\ ((pending.key = k /\ pending.text # << >>) \/ (k = key /\ d # << >>))
                    => k \in RecordedIn(R) \/ (k = key /\ r.rest # << >>)
    BY <1>6, <1>7, <1>9, <2>1 DEF PendingOf
  <2> QED BY <1>1, <1>7, <1>8, <2>1, <2>2, <2>3
<1>10. CASE pending.key # key
  <2>1. F = Flushed /\ old = << >> /\ Range(old) = {} /\ Ats(old) = {}
    BY <1>10, EmptyText DEF old
  <2>2. /\ Sound(Flushed) /\ ShownIn(Flushed) = Ats(pending.text)
        /\ \A k \in Keys : TextIn(Flushed, k) = PendingOf(k)
        /\ RecordedIn(Flushed) \subseteq {k \in Keys : k[1] \notin Commands}
        /\ \A k \in Keys : k \in RecordedIn(Flushed) <=>
                             pending.key = k /\ pending.text # << >> /\ k[1] \notin Commands
    BY FlushedTells
  <2>3. \A p \in ShownIn(Flushed), q \in Ats(d) : p < q
    BY <1>5, <2>2 DEF Ats
  <2>4. \A p \in ShownIn(Flushed), q \in ShownIn(R) : p < q
    BY <1>8, <2>1, <2>3
  <2>5. /\ Sound(es) /\ ShownIn(es) = ShownIn(Flushed) \cup ShownIn(R)
        /\ RecordedIn(es) = RecordedIn(Flushed) \cup RecordedIn(R)
        /\ \A k : TextIn(es, k) = TextIn(Flushed, k) \cup TextIn(R, k)
    BY <1>1, <1>7, <2>1, <2>2, <2>4, ConcatTells
  <2>6. ASSUME NEW p \in ShownIn(es), NEW c \in Range(r.rest) PROVE p < c.at
    <3>1. c \in Range(d) /\ c.at \in Ats(d)
      BY <1>8, <2>1, <2>6 DEF Ats
    <3> QED BY <1>7, <2>3, <2>5, <2>6, <3>1
  <2>7. ASSUME NEW k \in Keys
        PROVE  TextIn(es, k) \cup (IF k = key THEN Range(r.rest) ELSE {})
                 = PendingOf(k) \cup (IF k = key THEN Range(d) ELSE {})
    BY <1>6, <1>7, <1>10, <2>1, <2>2, <2>5 DEF PendingOf
  <2>8. ASSUME NEW k \in Keys, k[1] \notin Commands,
               (pending.key = k /\ pending.text # << >>) \/ (k = key /\ d # << >>)
        PROVE  k \in RecordedIn(es) \/ (k = key /\ r.rest # << >>)
    BY <1>6, <1>7, <2>2, <2>5, <2>8
  <2> QED BY <1>1, <1>7, <1>8, <2>1, <2>2, <2>5, <2>6, <2>7, <2>8
<1> QED BY <1>9, <1>10

\* A text that grows at its end.
LEMMA TextGrows ==
  ASSUME WriterIInv, NEW key \in Keys, NEW d \in Texts, clock + Len(d) <= MaxSent,
         clock' = clock + Len(d), text' = [text EXCEPT ![key] = @ \o d]
  PROVE  /\ text' \in [Keys -> Seq(Chars)] /\ clock' \in Nat /\ clock <= clock' /\ clock' <= MaxSent
         /\ \A k \in Keys : k # key => text'[k] = text[k]
         /\ Range(text'[key]) = Range(text[key]) \cup Range(d)
         /\ (text[key] = << >> => text'[key] = d) /\ (d = << >> => text'[key] = text[key])
         /\ \A k \in Keys : InOrder(text'[k]) /\ \A c \in Range(text'[k]) : c.at <= clock'
         /\ \A c \in Range(d) : c.at \in Nat /\ clock < c.at /\ c.at <= clock'
<1>1. /\ text \in [Keys -> Seq(Chars)] /\ clock \in Nat
      /\ \A k \in Keys : InOrder(text[k]) /\ \A c \in Range(text[k]) : c.at <= clock
  BY DEF WriterIInv, WriterShape, ToldInOrder
<1>2. /\ d \in Seq(Chars) /\ InOrder(d) /\ Len(d) \in Nat
      /\ \A c \in Range(d) : c.at \in Nat /\ clock < c.at /\ c.at <= clock + Len(d)
  BY <1>1, TextsAreNew
<1> DEFINE t == text[key]
<1>3. t \in Seq(Chars) /\ InOrder(t) /\ \A c \in Range(t) : c.at <= clock
  BY <1>1
<1> HIDE DEF t
<1>4. \A k \in Keys : \A c \in Range(text[k]) : c.at \in Nat
  BY <1>1, PlacesAreNumbers
<1>5. \A x \in Range(t), y \in Range(d) : x.at < y.at
  BY <1>1, <1>2, <1>3, <1>4 DEF t
<1>6. /\ t \o d \in Seq(Chars) /\ InOrder(t \o d) /\ Range(t \o d) = Range(t) \cup Range(d)
      /\ (t = << >> => t \o d = d) /\ (d = << >> => t \o d = t)
  BY <1>2, <1>3, <1>5, TextConcat
<1>7. /\ text'[key] = t \o d /\ (\A k \in Keys : k # key => text'[k] = text[k])
      /\ text' \in [Keys -> Seq(Chars)]
  BY <1>1, <1>6 DEF t
<1>8. clock' \in Nat /\ clock <= clock' /\ clock' <= MaxSent
  BY <1>1, <1>2, WriterBoundsAssumption
<1>9. ASSUME NEW k \in Keys PROVE InOrder(text'[k]) /\ \A c \in Range(text'[k]) : c.at <= clock'
  <2>1. CASE k = key
    <3>1. \A c \in Range(t) : c.at \in Nat /\ c.at <= clock
      BY <1>3, <1>4 DEF t
    <3>2. \A c \in Range(t) \cup Range(d) : c.at <= clock'
      BY <1>1, <1>2, <1>8, <3>1
    <3> QED BY <1>6, <1>7, <2>1, <3>2
  <2>2. CASE k # key
    BY <1>1, <1>4, <1>7, <1>8, <2>2
  <2> QED BY <2>1, <2>2
<1> QED BY <1>2, <1>6, <1>7, <1>8, <1>9 DEF t

\* A delta is pushed (AttemptEventWriter::observe).
LEMMA DeltaInv ==
  ASSUME WriterIInv, NEW key \in Keys, NEW d \in Texts, Delta(key, d)
  PROVE  WriterIInv'
<1> DEFINE es == Push(key, d).ready
           pd == Push(key, d).pending
<1>1. /\ status = "open" /\ key[1] \notin done /\ clock + Len(d) <= MaxSent
      /\ text' = [text EXCEPT ![key] = @ \o d] /\ clock' = clock + Len(d)
      /\ pending' = pd /\ Persist(es, {}, "open", "failed") /\ done' = done
  BY DEF Delta
<1>2. /\ Sound(es) /\ ShownIn(es) \subseteq Ats(pending.text) \cup Ats(d)
      /\ pd.key = key /\ pd.text \in Seq(Chars) /\ InOrder(pd.text) /\ Bytes(pd.text) < Limit
      /\ Range(pd.text) \subseteq Range(pending.text) \cup Range(d)
      /\ \A p \in ShownIn(es), c \in Range(pd.text) : p < c.at
      /\ \A k \in Keys : TextIn(es, k) \cup (IF k = key THEN Range(pd.text) ELSE {})
                           = PendingOf(k) \cup (IF k = key THEN Range(d) ELSE {})
      /\ RecordedIn(es) \subseteq {k \in Keys : k[1] \notin Commands}
      /\ \A k \in Keys : /\ k[1] \notin Commands
                         /\ (pending.key = k /\ pending.text # << >>) \/ (k = key /\ d # << >>)
                         => k \in RecordedIn(es) \/ (k = key /\ pd.text # << >>)
  BY <1>1, PushTells
<1>3. /\ text' \in [Keys -> Seq(Chars)] /\ clock' \in Nat /\ clock <= clock' /\ clock' <= MaxSent
      /\ \A k \in Keys : k # key => text'[k] = text[k]
      /\ Range(text'[key]) = Range(text[key]) \cup Range(d)
      /\ (d = << >> => text'[key] = text[key])
      /\ \A k \in Keys : InOrder(text'[k]) /\ \A c \in Range(text'[k]) : c.at <= clock'
      /\ \A c \in Range(d) : c.at \in Nat /\ clock < c.at /\ c.at <= clock'
  BY <1>1, TextGrows
<1> HIDE DEF es, pd
<1>4. /\ Sound(log) /\ (\A p \in ShownIn(log) : p \in Nat /\ p <= clock) /\ clock \in Nat
      /\ \A c \in Range(pending.text) : c.at <= clock /\ \A p \in ShownIn(log) : p < c.at
      /\ pending.text \in Seq(Chars)
  BY DEF WriterIInv, WriterShape, ToldInOrder
<1>5. \A c \in Range(pending.text) : c.at \in Nat
  BY <1>4, PlacesAreNumbers
<1>6. ASSUME NEW c \in Range(pending.text) \cup Range(d)
      PROVE  c.at \in Nat /\ c.at <= clock' /\ \A p \in ShownIn(log) : p < c.at
  BY <1>3, <1>4, <1>5
<1>7. \A q \in ShownIn(es) : q \in Nat /\ q <= clock' /\ \A p \in ShownIn(log) : p < q
  BY <1>2, <1>6 DEF Ats
<1>8. /\ Sound(log') /\ ShownIn(log') \subseteq ShownIn(log) \cup ShownIn(es)
      /\ status' \in {"open", "failed"} /\ streamed' \subseteq streamed \cup RecordedIn(es)
      /\ status' = "open" => /\ streamed' = (streamed \cup RecordedIn(es)) \ {}
                             /\ log' = log \o es
                             /\ \A k : TextIn(log', k) = TextIn(log, k) \cup TextIn(es, k)
  BY <1>1, <1>2, <1>4, <1>7, PersistTells
<1>9. pending'.key = key /\ pending'.text = pd.text
  BY <1>1, <1>2
<1>10. WriterShape'
  BY <1>1, <1>2, <1>3, <1>8, <1>9, WriterBoundsAssumption DEF WriterIInv, WriterShape
<1>11. ToldInOrder'
  <2>1. \A p \in ShownIn(log') : p \in Nat /\ p <= clock'
    BY <1>3, <1>4, <1>7, <1>8
  <2>2. ASSUME NEW c \in Range(pd.text), NEW p \in ShownIn(log') PROVE p < c.at
    BY <1>2, <1>6, <1>8
  <2>3. \A c \in Range(pd.text) : c.at <= clock'
    BY <1>2, <1>6
  <2> QED BY <1>2, <1>3, <1>8, <1>9, <2>1, <2>2, <2>3 DEF ToldInOrder
<1>12. NothingMissing'
  <2> SUFFICES ASSUME status' = "open" PROVE NothingMissing'
    BY DEF NothingMissing
  <2>1. /\ \A k \in Keys : k[1] \notin done => TextIn(log, k) \cup PendingOf(k) = Range(text[k])
        /\ \A k \in Keys : k[1] \in done => Told(k)
        /\ pending.key \in Keys => pending.key[1] \notin done
        /\ \A k \in streamed : TextIn(log, k) # {}
        /\ \A k \in Keys : k[1] \notin Commands /\ k[1] \notin done /\ text[k] # << >> =>
                             k \in streamed \/ (pending.key = k /\ pending.text # << >>)
    BY <1>1 DEF WriterIInv, NothingMissing
  <2>2. /\ streamed' = streamed \cup RecordedIn(es)
        /\ \A k : TextIn(log', k) = TextIn(log, k) \cup TextIn(es, k)
    BY <1>8
  <2>3. ASSUME NEW k \in Keys, k[1] \notin done PROVE TextIn(log', k) \cup PendingOf(k)' = Range(text'[k])
    <3>1. PendingOf(k)' = IF k = key THEN Range(pd.text) ELSE {}
      BY <1>9 DEF PendingOf
    <3>2. CASE k = key
      BY <1>2, <1>3, <2>1, <2>2, <2>3, <3>1, <3>2
    <3>3. CASE k # key
      BY <1>2, <1>3, <2>1, <2>2, <2>3, <3>1, <3>3
    <3> QED BY <3>2, <3>3
  <2>4. \A k \in streamed' : TextIn(log', k) # {}
    BY <1>2, <2>1, <2>2, RecordedHasText
  <2>5. ASSUME NEW k \in Keys, k[1] \notin Commands, k[1] \notin done, text'[k] # << >>
        PROVE  k \in streamed' \/ (pending'.key = k /\ pending'.text # << >>)
    BY <1>2, <1>3, <1>9, <2>1, <2>2, <2>5
  <2>6. ASSUME NEW k \in Keys, k[1] \in done PROVE Told(k)'
    <3>1. k # key /\ PendingOf(k) = {}
      BY <1>1, <2>1, <2>6 DEF PendingOf
    <3>2. TextIn(es, k) = {} /\ text'[k] = text[k]
      BY <1>2, <1>3, <3>1
    <3>3. Told(k) /\ log' = log \o es /\ TextIn(log', k) = TextIn(log, k) \cup TextIn(es, k)
      BY <1>8, <2>1, <2>6
    <3> QED BY <1>2, <1>4, <3>2, <3>3, ToldStays
  <2> QED BY <1>1, <1>9, <2>3, <2>4, <2>5, <2>6 DEF NothingMissing
<1>13. EndIsComplete'
  BY <1>8 DEF EndIsComplete
<1> QED BY <1>10, <1>11, <1>12, <1>13 DEF WriterIInv

\* An absent text is pending after a flush.
LEMMA AfterFlush ==
  ASSUME pending' = NoText
  PROVE  /\ pending'.key = << >> /\ pending'.text = << >> /\ pending'.key \notin Keys
         /\ pending'.text \in Seq(Chars) /\ InOrder(pending'.text) /\ Range(pending'.text) = {}
         /\ \A k \in Keys : PendingOf(k)' = {}
<1>1. pending'.key = << >> /\ pending'.text = << >> /\ pending'.key \notin Keys
  BY NoTextKey
<1>2. pending'.text \in Seq(Chars) /\ InOrder(pending'.text) /\ Range(pending'.text) = {}
  BY <1>1, EmptyText
<1>3. \A k \in Keys : PendingOf(k)' = {}
  BY <1>2 DEF PendingOf
<1> QED BY <1>1, <1>2, <1>3

\* The completion of an item tells the text that came with it, if any.
LEMMA CompletionWorks ==
  ASSUME WriterIInv, status = "open", NEW item \in Items, item \notin done,
         NEW part \in KeysOf(item), NEW s \in Texts, part \in SilentParts(item) \/ s = << >>,
         clock' = clock + Len(s), clock' <= MaxSent, text' = [text EXCEPT ![part] = @ \o s],
         NEW es, es = Completion(item, text')
  PROVE  /\ Sound(es) /\ ShownIn(es) \subseteq Ats(s) /\ RecordedIn(es) = {}
         /\ \A k \in Keys : TextIn(es, k) = IF k = part THEN Range(Compact(s)) ELSE {}
         /\ \A k : NeverStreamed(es, k)
<1> DEFINE K == Unstreamed(item, text')
           f == [k \in K |-> Compact(text'[k])]
           e == [kind |-> "completed", item |-> item, text |-> f]
<1>1. part \in Keys /\ part[1] = item
  BY DEF KeysOf
<1>2. /\ text' \in [Keys -> Seq(Chars)] /\ (\A k \in Keys : k # part => text'[k] = text[k])
      /\ (text[part] = << >> => text'[part] = s) /\ (s = << >> => text'[part] = text[part])
      /\ \A k \in Keys : InOrder(text'[k])
  BY <1>1, TextGrows
<1>3. /\ \A k \in Keys : k[1] \notin done => TextIn(log, k) \cup PendingOf(k) = Range(text[k])
      /\ \A k \in streamed : TextIn(log, k) # {}
      /\ \A k \in Keys : k[1] \notin Commands /\ k[1] \notin done /\ text[k] # << >> =>
                           k \in streamed \/ (pending.key = k /\ pending.text # << >>)
      /\ text \in [Keys -> Seq(Chars)] /\ streamed \subseteq Keys
  BY DEF WriterIInv, NothingMissing, WriterShape
<1>4. /\ \A k \in Keys : TextIn(Flushed, k) = PendingOf(k)
      /\ Sound(Flushed)
      /\ \A k \in Keys : k \in RecordedIn(Flushed) <=>
                           pending.key = k /\ pending.text # << >> /\ k[1] \notin Commands
  BY FlushedTells
<1>5. ASSUME NEW k \in KeysOf(item), item \notin Commands PROVE k \in Known <=> text[k] # << >>
  <2>1. k \in Keys /\ k[1] = item
    BY DEF KeysOf
  <2>2. text[k] # << >> => k \in Known
    BY <1>3, <1>4, <1>5, <2>1 DEF Known
  <2>3. ASSUME k \in Known PROVE text[k] # << >>
    <3>1. k \in streamed => TextIn(log, k) # {}
      BY <1>3
    <3>2. k \in RecordedIn(Flushed) => TextIn(Flushed, k) # {}
      BY <1>4, RecordedHasText
    <3>3. Range(text[k]) # {}
      BY <1>3, <1>4, <2>1, <2>3, <3>1, <3>2 DEF Known
    <3> QED BY <3>3, EmptyText
  <2> QED BY <2>2, <2>3
<1>6. K \subseteq KeysOf(item) /\ KeysOf(item) \subseteq Keys
  BY DEF Unstreamed, KeysOf
<1>7. ASSUME NEW k \in K PROVE k = part /\ text'[part] = s
  <2>1. k \in KeysOf(item) /\ item \notin Commands /\ DOMAIN Compact(text'[k]) # {} /\ k \notin Known
    BY DEF Unstreamed
  <2>2. text[k] = << >> /\ k \in Keys
    BY <1>5, <1>6, <2>1
  <2>3. text'[k] \in Seq(Chars) /\ text'[k] # << >>
    BY <1>2, <2>1, <2>2, CompactWorks
  <2>4. k = part
    BY <1>2, <2>2, <2>3
  <2> QED BY <1>2, <2>2, <2>4
<1>8. /\ s \in Seq(Chars) /\ InOrder(s)
      /\ Compact(s) \in Gapped /\ Range(Compact(s)) \subseteq Range(s) /\ InOrder(Compact(s))
  <2>1. clock \in Nat /\ clock + Len(s) <= MaxSent
    BY DEF WriterIInv, WriterShape
  <2>2. s \in Seq(Chars) /\ InOrder(s)
    BY <2>1, TextsAreNew
  <2> QED BY <2>2, CompactWorks
<1>9. ASSUME part \notin K PROVE Range(Compact(s)) = {}
  <2>1. CASE s = << >>
    BY <1>8, <2>1, CompactWorks
  <2>2. CASE s # << >>
    <3>1. item \notin Commands /\ text[part] = << >>
      BY <2>2 DEF SilentParts
    <3>2. part \notin Known /\ text'[part] = s
      BY <1>2, <1>5, <3>1
    <3>3. DOMAIN Compact(s) = {}
      BY <1>9, <3>1, <3>2 DEF Unstreamed
    <3> QED BY <1>8, <3>3, CompactWorks
  <2> QED BY <2>1, <2>2
<1>10. es = <<e>> \/ (es = << >> /\ K = {})
  BY DEF Completion
<1>11. CASE es = << >> /\ K = {}
  <2>1. Range(Compact(s)) = {}
    BY <1>11, <1>9
  <2>2. \A k : NeverStreamed(es, k)
    BY <1>11 DEF NeverStreamed
  <2> QED BY <1>11, <2>1, <2>2, NothingTells
<1>12. CASE es = <<e>>
  <2>1. K \in SUBSET Keys /\ f \in [K -> Gapped] /\ \A k \in K : f[k] = Compact(s)
    BY <1>6, <1>7, <1>8
  <2>2. e = [kind |-> "completed", item |-> item, text |-> f]
    OBVIOUS
  <2> HIDE DEF e, f, K
  <2>3. /\ e \in Events /\ e.kind # "chunk" /\ Recorded(e) = {}
        /\ Shown(e) = UNION {Ats(f[k]) : k \in K}
        /\ \A k \in K : TextOf(e, k) = f[k]
        /\ \A k : k \notin K => TextOf(e, k) = << >>
    <3>1. TextsFor(f, K)
      BY <2>1 DEF TextsFor
    <3> QED BY <2>2, <3>1, CompletionTells
  <2>4. \A k : NeverStreamed(<<e>>, k)
    BY <2>3 DEF NeverStreamed
  <2>5. \A k \in Keys : InOrder(TextOf(e, k))
    BY <1>8, <2>1, <2>3, EmptyText
  <2>6. /\ Sound(<<e>>) /\ ShownIn(<<e>>) = Shown(e) /\ RecordedIn(<<e>>) = Recorded(e)
        /\ \A k : TextIn(<<e>>, k) = Range(TextOf(e, k))
    BY <2>3, <2>5, OneTells
  <2>7. Shown(e) \subseteq Ats(s)
    BY <1>8, <2>1, <2>3 DEF Ats
  <2>8. ASSUME NEW k \in Keys PROVE Range(TextOf(e, k)) = IF k = part THEN Range(Compact(s)) ELSE {}
    <3>1. CASE k \in K
      BY <1>7, <2>1, <2>3, <3>1
    <3>2. CASE k \notin K
      <4>1. k = part => Range(Compact(s)) = {}
        BY <1>9, <3>2
      <4> QED BY <2>3, <3>2, <4>1, EmptyText
    <3> QED BY <3>1, <3>2
  <2> QED BY <1>12, <2>3, <2>4, <2>6, <2>7, <2>8
<1> QED BY <1>10, <1>11, <1>12

\* An item completes (AttemptEventWriter::observe).
LEMMA ItemCompletedInv ==
  ASSUME WriterIInv, NEW item \in Items, NEW part \in KeysOf(item), NEW s \in Texts,
         ItemCompleted(item, part, s)
  PROVE  WriterIInv'
<1> DEFINE own == Completion(item, text')
           es == Flushed \o own
<1>1. /\ status = "open" /\ item \notin done /\ (part \in SilentParts(item) \/ s = << >>)
      /\ clock' = clock + Len(s) /\ clock' <= MaxSent /\ text' = [text EXCEPT ![part] = @ \o s]
      /\ Persist(es, KeysOf(item), "open", "failed") /\ pending' = NoText /\ done' = done \cup {item}
  BY DEF ItemCompleted
<1>2. part \in Keys /\ KeysOf(item) \subseteq Keys /\ \A k \in Keys : k \in KeysOf(item) <=> k[1] = item
  BY DEF KeysOf
<1>3. /\ Sound(own) /\ ShownIn(own) \subseteq Ats(s) /\ RecordedIn(own) = {}
      /\ \A k \in Keys : TextIn(own, k) = IF k = part THEN Range(Compact(s)) ELSE {}
      /\ \A k : NeverStreamed(own, k)
  BY <1>1, CompletionWorks
<1>4. /\ text' \in [Keys -> Seq(Chars)] /\ clock' \in Nat /\ clock <= clock'
      /\ \A k \in Keys : k # part => text'[k] = text[k]
      /\ Range(text'[part]) = Range(text[part]) \cup Range(s)
      /\ (text[part] = << >> => text'[part] = s) /\ (s = << >> => text'[part] = text[part])
      /\ \A k \in Keys : InOrder(text'[k]) /\ \A c \in Range(text'[k]) : c.at <= clock'
      /\ \A c \in Range(s) : c.at \in Nat /\ clock < c.at /\ c.at <= clock'
  BY <1>1, <1>2, TextGrows
<1> HIDE DEF own
<1>5. /\ Sound(Flushed) /\ ShownIn(Flushed) = Ats(pending.text)
      /\ \A k \in Keys : TextIn(Flushed, k) = PendingOf(k)
      /\ RecordedIn(Flushed) \subseteq {k \in Keys : k[1] \notin Commands}
      /\ \A k \in Keys : k \in RecordedIn(Flushed) <=>
                           pending.key = k /\ pending.text # << >> /\ k[1] \notin Commands
  BY FlushedTells
<1>6. /\ Sound(log) /\ (\A p \in ShownIn(log) : p \in Nat /\ p <= clock) /\ clock \in Nat
      /\ \A c \in Range(pending.text) : c.at <= clock /\ \A p \in ShownIn(log) : p < c.at
      /\ pending.text \in Seq(Chars)
  BY DEF WriterIInv, WriterShape, ToldInOrder
<1>7. \A c \in Range(pending.text) : c.at \in Nat
  BY <1>6, PlacesAreNumbers
<1>8. \A p \in ShownIn(Flushed), q \in ShownIn(own) : p < q
  <2>1. \A x \in Range(pending.text), y \in Range(s) : x.at < y.at
    BY <1>4, <1>6, <1>7
  <2> QED BY <1>3, <1>5, <2>1 DEF Ats
<1>9. /\ Sound(es) /\ ShownIn(es) = ShownIn(Flushed) \cup ShownIn(own)
      /\ RecordedIn(es) = RecordedIn(Flushed) \cup RecordedIn(own)
      /\ \A k : TextIn(es, k) = TextIn(Flushed, k) \cup TextIn(own, k)
  BY <1>3, <1>5, <1>8, ConcatTells
<1> HIDE DEF es
<1>10. ASSUME NEW c \in Range(pending.text) \cup Range(s)
       PROVE  c.at \in Nat /\ c.at <= clock' /\ \A p \in ShownIn(log) : p < c.at
  BY <1>4, <1>6, <1>7
<1>11. \A q \in ShownIn(es) : q \in Nat /\ q <= clock' /\ \A p \in ShownIn(log) : p < q
  BY <1>3, <1>5, <1>9, <1>10 DEF Ats
<1>12. /\ Sound(log') /\ ShownIn(log') \subseteq ShownIn(log) \cup ShownIn(es)
       /\ status' \in {"open", "failed"} /\ streamed' \subseteq streamed \cup RecordedIn(es)
       /\ status' = "open" => /\ streamed' = (streamed \cup RecordedIn(es)) \ KeysOf(item)
                              /\ log' = log \o es
                              /\ \A k : TextIn(log', k) = TextIn(log, k) \cup TextIn(es, k)
  BY <1>1, <1>6, <1>9, <1>11, PersistTells
<1>13. /\ pending'.key = << >> /\ pending'.text = << >> /\ pending'.key \notin Keys
       /\ pending'.text \in Seq(Chars) /\ InOrder(pending'.text) /\ Range(pending'.text) = {}
       /\ \A k \in Keys : PendingOf(k)' = {}
  BY <1>1, AfterFlush
<1>14. WriterShape'
  BY <1>1, <1>3, <1>4, <1>5, <1>9, <1>12, <1>13, WriterBoundsAssumption DEF WriterIInv, WriterShape, NoText
<1>15. ToldInOrder'
  <2>1. \A p \in ShownIn(log') : p \in Nat /\ p <= clock'
    BY <1>4, <1>6, <1>11, <1>12
  <2> QED BY <1>4, <1>12, <1>13, <2>1 DEF ToldInOrder
<1>16. NothingMissing'
  <2> SUFFICES ASSUME status' = "open" PROVE NothingMissing'
    BY DEF NothingMissing
  <2>1. /\ \A k \in Keys : k[1] \notin done => TextIn(log, k) \cup PendingOf(k) = Range(text[k])
        /\ \A k \in Keys : k[1] \in done => Told(k)
        /\ pending.key \in Keys => pending.key[1] \notin done
        /\ \A k \in streamed : TextIn(log, k) # {}
        /\ \A k \in Keys : k[1] \notin Commands /\ k[1] \notin done /\ text[k] # << >> =>
                             k \in streamed \/ (pending.key = k /\ pending.text # << >>)
    BY <1>1 DEF WriterIInv, NothingMissing
  <2>2. /\ streamed' = (streamed \cup RecordedIn(es)) \ KeysOf(item)
        /\ \A k : TextIn(log', k) = TextIn(log, k) \cup TextIn(es, k)
    BY <1>12
  <2>3. ASSUME NEW k \in Keys
        PROVE  TextIn(log', k) = TextIn(log, k) \cup PendingOf(k) \cup (IF k = part THEN Range(Compact(s)) ELSE {})
    BY <1>3, <1>5, <1>9, <2>2
  <2>4. ASSUME NEW k \in Keys, k[1] \notin done, k # part \/ s = << >>
        PROVE  TextIn(log', k) = Range(text'[k])
    <3>1. Range(Compact(<< >>)) = {}
      <4>1. << >> \in Seq(Chars)
        OBVIOUS
      <4> QED BY <4>1, CompactWorks
    <3>2. text'[k] = text[k]
      BY <1>4, <2>4
    <3> QED BY <2>1, <2>3, <2>4, <3>1, <3>2
  <2>5. ASSUME s # << >> PROVE Told(part)'
    <3>1. part[1] = item /\ text[part] = << >> /\ text'[part] = s
      BY <1>1, <1>2, <1>4, <2>5 DEF SilentParts
    <3>2. TextIn(log, part) = {} /\ PendingOf(part) = {}
      BY <1>1, <1>2, <2>1, <3>1, EmptyText
    <3>3. TextIn(log', part) = Range(Compact(text'[part]))
      BY <1>2, <2>3, <3>1, <3>2
    <3>4. NeverStreamed(log, part) /\ NeverStreamed(Flushed, part) /\ NeverStreamed(own, part)
      BY <1>2, <1>3, <1>5, <1>6, <3>2, WithoutText
    <3>5. NeverStreamed(es, part)
      BY <1>3, <1>5, <3>4, NeverStreamedConcat DEF es
    <3>6. log' = log \o es
      BY <1>12
    <3>7. NeverStreamed(log \o es, part)
      BY <1>6, <1>9, <3>4, <3>5, NeverStreamedConcat, Zenon
    <3> QED BY <3>3, <3>6, <3>7 DEF Told
  <2>6. ASSUME NEW k \in Keys, k[1] \in done' PROVE Told(k)'
    <3>1. CASE k[1] \in done
      <4>1. k # part /\ PendingOf(k) = {} /\ text'[k] = text[k] /\ Told(k)
        BY <1>1, <1>2, <1>4, <2>1, <3>1 DEF PendingOf
      <4>2. TextIn(es, k) = {}
        BY <1>3, <1>5, <1>9, <4>1
      <4> QED BY <1>6, <1>9, <1>12, <4>1, <4>2, ToldStays
    <3>2. CASE k[1] \notin done /\ (k # part \/ s = << >>)
      BY <2>4, <3>2 DEF Told
    <3>3. CASE k = part /\ s # << >>
      BY <2>5, <3>3
    <3> QED BY <3>1, <3>2, <3>3
  <2>7. ASSUME NEW k \in Keys, k[1] \notin done' PROVE TextIn(log', k) \cup PendingOf(k)' = Range(text'[k])
    <3>1. k[1] \notin done /\ k # part
      BY <1>1, <1>2, <2>7
    <3> QED BY <1>13, <2>4, <3>1
  <2>8. \A k \in streamed' : TextIn(log', k) # {}
    BY <1>9, <2>1, <2>2, RecordedHasText
  <2>9. ASSUME NEW k \in Keys, k[1] \notin Commands, k[1] \notin done', text'[k] # << >>
        PROVE  k \in streamed'
    <3>1. k[1] # item /\ k[1] \notin done /\ k # part
      BY <1>1, <1>2, <2>9
    <3>2. text[k] # << >>
      BY <1>4, <2>9, <3>1
    <3>3. k \in streamed \cup RecordedIn(es)
      BY <1>5, <1>9, <2>1, <2>9, <3>1, <3>2
    <3> QED BY <1>2, <2>2, <3>1, <3>3
  <2> QED BY <1>13, <2>8, <2>9, <2>6, <2>7 DEF NothingMissing
<1>17. EndIsComplete'
  BY <1>12 DEF EndIsComplete
<1> QED BY <1>14, <1>15, <1>16, <1>17 DEF WriterIInv

\* Any other event, with the pending text before it.
LEMMA EmittedTells ==
  ASSUME WriterIInv, NEW kind \in Marks, clock' = clock + 1,
         NEW es, es = Emitted(kind)
  PROVE  /\ Sound(es) /\ clock' \in Nat /\ clock <= clock'
         /\ \A q \in ShownIn(es) : q \in Nat /\ q <= clock' /\ \A p \in ShownIn(log) : p < q
         /\ \A k \in Keys : TextIn(es, k) = PendingOf(k)
         /\ RecordedIn(es) = RecordedIn(Flushed)
<1> DEFINE e == Event(kind, clock')
<1>1. /\ Sound(log) /\ (\A p \in ShownIn(log) : p \in Nat /\ p <= clock) /\ clock \in Nat
      /\ \A c \in Range(pending.text) : c.at <= clock /\ \A p \in ShownIn(log) : p < c.at
      /\ pending.text \in Seq(Chars)
  BY DEF WriterIInv, WriterShape, ToldInOrder
<1>2. clock' \in Nat /\ clock < clock' /\ clock <= clock'
  BY <1>1
<1>3. /\ e \in Events /\ Shown(e) = {clock'}
      /\ \A k : TextOf(e, k) = << >>
      /\ Recorded(e) = {} /\ e.kind # "chunk"
  BY <1>2, MarkTells
<1>4. es = Flushed \o <<e>>
  BY DEF Emitted
<1> HIDE DEF e
<1>5. /\ Sound(<<e>>) /\ ShownIn(<<e>>) = Shown(e) /\ RecordedIn(<<e>>) = Recorded(e)
      /\ \A k : TextIn(<<e>>, k) = Range(TextOf(e, k))
  BY <1>3, EmptyText, OneTells
<1>6. /\ Sound(Flushed) /\ ShownIn(Flushed) = Ats(pending.text)
      /\ \A k \in Keys : TextIn(Flushed, k) = PendingOf(k)
  BY FlushedTells
<1>7. \A c \in Range(pending.text) : c.at \in Nat /\ c.at < clock'
  <2>1. \A c \in Range(pending.text) : c.at \in Nat
    BY <1>1, PlacesAreNumbers
  <2> QED BY <1>1, <1>2, <2>1
<1>8. \A p \in ShownIn(Flushed), q \in ShownIn(<<e>>) : p < q
  BY <1>3, <1>5, <1>6, <1>7 DEF Ats
<1>9. /\ Sound(es) /\ ShownIn(es) = ShownIn(Flushed) \cup ShownIn(<<e>>)
      /\ RecordedIn(es) = RecordedIn(Flushed) \cup RecordedIn(<<e>>)
      /\ \A k : TextIn(es, k) = TextIn(Flushed, k) \cup TextIn(<<e>>, k)
  BY <1>4, <1>5, <1>6, <1>8, ConcatTells
<1>10. ASSUME NEW q \in ShownIn(es) PROVE q \in Nat /\ q <= clock' /\ \A p \in ShownIn(log) : p < q
  <2>1. CASE q = clock'
    BY <1>1, <1>2, <2>1
  <2>2. CASE q \in Ats(pending.text)
    BY <1>1, <1>2, <1>7, <2>2 DEF Ats
  <2> QED BY <1>3, <1>5, <1>6, <1>9, <2>1, <2>2
<1>11. \A k \in Keys : TextIn(es, k) = PendingOf(k)
  <2>1. \A k : TextIn(<<e>>, k) = {}
    BY <1>3, <1>5, EmptyText
  <2> QED BY <1>6, <1>9, <2>1
<1> QED BY <1>2, <1>3, <1>5, <1>9, <1>10, <1>11

\* An event that is not text (AttemptEventWriter::emit), the last event of a
\* turn, and the report of a failed wait.
LEMMA MarkInv ==
  ASSUME WriterIInv, NEW kind \in Marks, NEW c, NEW f, Persist(Emitted(kind), {}, c, f),
         clock' = clock + 1, pending' = NoText, text' = text, done' = done,
         \/ status = "open" /\ clock < MaxSent /\ c = "open" /\ f = "failed"
         \/ status = "open" /\ c = "ended" /\ f = "failed"
         \/ status \in {"ended", "failed"} /\ c = "reported" /\ f = "reported"
  PROVE  WriterIInv'
<1> DEFINE es == Emitted(kind)
<1>1. /\ Sound(es) /\ clock' \in Nat /\ clock <= clock'
      /\ \A q \in ShownIn(es) : q \in Nat /\ q <= clock' /\ \A p \in ShownIn(log) : p < q
      /\ \A k \in Keys : TextIn(es, k) = PendingOf(k)
      /\ RecordedIn(es) = RecordedIn(Flushed)
  BY EmittedTells
<1>2. Persist(es, {}, c, f)
  OBVIOUS
<1> HIDE DEF es
<1>3. /\ Sound(log) /\ (\A p \in ShownIn(log) : p \in Nat /\ p <= clock) /\ clock \in Nat
      /\ text \in [Keys -> Seq(Chars)]
      /\ \A k \in Keys : InOrder(text[k]) /\ \A x \in Range(text[k]) : x.at <= clock
  BY DEF WriterIInv, WriterShape, ToldInOrder
<1>4. /\ Sound(log') /\ ShownIn(log') \subseteq ShownIn(log) \cup ShownIn(es)
      /\ status' \in {c, f} /\ streamed' \subseteq streamed \cup RecordedIn(es)
      /\ c # f /\ status' = c => /\ streamed' = (streamed \cup RecordedIn(es)) \ {}
                                /\ log' = log \o es
                                /\ \A k : TextIn(log', k) = TextIn(log, k) \cup TextIn(es, k)
  BY <1>1, <1>2, <1>3, PersistTells
<1>5. /\ pending'.key = << >> /\ pending'.text = << >> /\ pending'.key \notin Keys
      /\ pending'.text \in Seq(Chars) /\ InOrder(pending'.text) /\ Range(pending'.text) = {}
      /\ \A k \in Keys : PendingOf(k)' = {}
  BY AfterFlush
<1>6. /\ RecordedIn(Flushed) \subseteq {k \in Keys : k[1] \notin Commands}
      /\ \A k \in Keys : k \in RecordedIn(Flushed) <=>
                           pending.key = k /\ pending.text # << >> /\ k[1] \notin Commands
  BY FlushedTells
<1>7. WriterShape'
  <2>1. /\ clock' <= MaxSent + 2 /\ (status' = "open" => clock' <= MaxSent)
        /\ (status' # "reported" => clock' <= MaxSent + 1)
        /\ status' \in {"open", "ended", "failed", "reported"}
    BY <1>3, <1>4, WriterBoundsAssumption DEF WriterIInv, WriterShape
  <2> QED BY <1>1, <1>3, <1>4, <1>5, <1>6, <2>1 DEF WriterIInv, WriterShape, NoText
<1>8. ToldInOrder'
  <2>1. \A k \in Keys : \A x \in Range(text[k]) : x.at \in Nat /\ x.at <= clock
    BY <1>3, PlacesAreNumbers
  <2>2. \A p \in ShownIn(log') : p \in Nat /\ p <= clock'
    BY <1>1, <1>3, <1>4
  <2>3. \A k \in Keys : InOrder(text'[k]) /\ \A x \in Range(text'[k]) : x.at <= clock'
    BY <1>1, <1>3, <2>1
  <2> QED BY <1>4, <1>5, <2>2, <2>3 DEF ToldInOrder
<1>9. ASSUME status' \in {"open", "ended"}
      PROVE  /\ streamed' = streamed \cup RecordedIn(es)
             /\ \A k \in Keys : k[1] \notin done => TextIn(log', k) = Range(text'[k])
             /\ \A k \in Keys : k[1] \in done => Told(k)'
  <2>1. status = "open" /\ c # f /\ status' = c
    BY <1>4, <1>9
  <2>2. /\ \A k \in Keys : k[1] \notin done => TextIn(log, k) \cup PendingOf(k) = Range(text[k])
        /\ \A k \in Keys : k[1] \in done => Told(k)
        /\ pending.key \in Keys => pending.key[1] \notin done
    BY <2>1 DEF WriterIInv, NothingMissing
  <2>3. ASSUME NEW k \in Keys, k[1] \in done PROVE Told(k)'
    <3>1. TextIn(es, k) = {}
      BY <1>1, <2>2, <2>3 DEF PendingOf
    <3> QED BY <1>1, <1>3, <1>4, <2>1, <2>2, <2>3, <3>1, ToldStays
  <2>4. ASSUME NEW k \in Keys, k[1] \notin done PROVE TextIn(log', k) = Range(text'[k])
    BY <1>1, <1>4, <2>1, <2>2, <2>4
  <2> QED BY <1>4, <2>1, <2>3, <2>4
<1>10. NothingMissing'
  <2> SUFFICES ASSUME status' = "open" PROVE NothingMissing'
    BY DEF NothingMissing
  <2>1. /\ \A k \in streamed : TextIn(log, k) # {}
        /\ \A k \in Keys : k[1] \notin Commands /\ k[1] \notin done /\ text[k] # << >> =>
                             k \in streamed \/ (pending.key = k /\ pending.text # << >>)
        /\ \A k : TextIn(log', k) = TextIn(log, k) \cup TextIn(es, k)
    BY <1>4 DEF WriterIInv, NothingMissing
  <2>2. \A k \in streamed' : TextIn(log', k) # {}
    BY <1>1, <1>9, <2>1, RecordedHasText
  <2>3. ASSUME NEW k \in Keys, k[1] \notin Commands, k[1] \notin done', text'[k] # << >>
        PROVE  k \in streamed'
    BY <1>1, <1>6, <1>9, <2>1, <2>3
  <2> QED BY <1>5, <1>9, <2>2, <2>3 DEF NothingMissing
<1>11. EndIsComplete'
  <2> SUFFICES ASSUME status' = "ended", NEW k \in Keys PROVE Told(k)'
    BY DEF EndIsComplete
  <2> QED BY <1>9 DEF Told
<1> QED BY <1>7, <1>8, <1>10, <1>11 DEF WriterIInv

\* The writer starts with nothing sent and nothing told.
LEMMA WriterInitInv == WriterInit => WriterIInv
<1> SUFFICES ASSUME WriterInit PROVE WriterIInv
  OBVIOUS
<1>1. << >> \in Seq(Chars)
  OBVIOUS
<1>2. pending.key = << >> /\ pending.text = << >> /\ pending = NoText
  BY NoTextKey DEF WriterInit
<1>3. WriterShape
  BY <1>1, <1>2, WriterBoundsAssumption DEF WriterInit, WriterShape
<1>4. /\ Sound(log) /\ ShownIn(log) = {} /\ \A k : TextIn(log, k) = {}
  BY NothingTells DEF WriterInit
<1>5. \A k \in Keys : text[k] = << >>
  BY DEF WriterInit
<1>6. ToldInOrder
  BY <1>2, <1>4, <1>5, EmptyText DEF ToldInOrder
<1>7. NothingMissing
  <2>1. \A k \in Keys : PendingOf(k) = {}
    BY <1>2, EmptyText DEF PendingOf
  <2> QED BY <1>2, <1>4, <1>5, <2>1, EmptyText, NoTextKey DEF WriterInit, NothingMissing
<1>8. EndIsComplete
  BY DEF WriterInit, EndIsComplete
<1> QED BY <1>3, <1>6, <1>7, <1>8 DEF WriterIInv

-----------------------------------------------------------------------------

\* Whatever the server sends and whichever event fails to persist, what the
\* writer holds and what is in the log are the turn's texts
\* (AttemptEventWriter from its activation to the end of the wait).
THEOREM WriterInvariant == WriterSpec => []WriterIInv
<1>1. WriterIInv /\ UNCHANGED writerVars => WriterIInv'
  BY DEF WriterIInv, WriterShape, ToldInOrder, NothingMissing, EndIsComplete, PendingOf, Told, writerVars
<1>2. ASSUME WriterIInv, WriterNext PROVE WriterIInv'
  <2>1. CASE End
    BY <1>2, <2>1, MarkInv DEF End, Marks
  <2>2. CASE ReportError
    BY <1>2, <2>2, MarkInv DEF ReportError, Marks
  <2>3. CASE Notify
    BY <1>2, <2>3, MarkInv DEF Notify, Marks
  <2>4. CASE \E key \in Keys, delta \in Texts : Delta(key, delta)
    BY <1>2, <2>4, DeltaInv
  <2>5. CASE \E item \in Items : \E part \in KeysOf(item), s \in Texts : ItemCompleted(item, part, s)
    BY <1>2, <2>5, ItemCompletedInv
  <2> QED BY <1>2, <2>1, <2>2, <2>3, <2>4, <2>5 DEF WriterNext
<1> QED BY WriterInitInv, <1>1, <1>2, PTL DEF WriterSpec

\* The log has a turn's notifications in the order of their arrival and none
\* twice, for any limit of a chunk and any interleaving of streams
\* (TextCoalescer::push and flush, completed_item_event).
THEOREM ArrivalOrderIsKept == WriterSpec => []LogInArrivalOrder
<1>1. WriterIInv => LogInArrivalOrder
  BY DEF WriterIInv, ToldInOrder, Sound, LogInArrivalOrder
<1> QED BY WriterInvariant, <1>1, PTL

\* Cutting streams into chunks loses no text and exceeds no limit, for any
\* texts, widths of characters and limit (utf8_prefix, push, completed_item_event).
THEOREM TextIsComplete == WriterSpec => []TextInv
<1>1. ASSUME WriterIInv PROVE WriterTypeOK
  <2>1. /\ \A k \in Keys : text[k] \in Seq(Chars) /\ InOrder(text[k])
        /\ clock \in 0..(MaxSent + 2)
    BY <1>1, WriterBoundsAssumption DEF WriterIInv, WriterShape, ToldInOrder
  <2>2. ASSUME NEW i \in DOMAIN log, log[i].kind = "chunk" PROVE log[i].key \in Keys
    <3>1. log[i] \in Events
      BY <1>1 DEF WriterIInv, ToldInOrder, Sound
    <3>2. log[i] \in ChunkEvents
      BY <2>2, <3>1 DEF Events, Completions, MarkEvents, Marks
    <3> QED BY <3>2 DEF ChunkEvents
  <2> QED BY <1>1, <2>1, <2>2 DEF WriterIInv, WriterShape, WriterTypeOK
<1>2. ASSUME WriterIInv PROVE TextIsKept
  <2>1. ASSUME NEW k \in Keys, status = "open", k[1] \in done PROVE Told(k)
    BY <1>2, <2>1 DEF WriterIInv, NothingMissing
  <2>2. ASSUME NEW k \in Keys, status = "ended" PROVE Told(k)
    BY <1>2, <2>2 DEF WriterIInv, EndIsComplete
  <2> QED BY <2>1, <2>2 DEF TextIsKept
<1>3. ASSUME WriterIInv PROVE ChunksBounded
  BY <1>3 DEF WriterIInv, ToldInOrder, Sound, AllFit, ChunksBounded
<1>4. WriterIInv => TextInv
  BY <1>1, <1>2, <1>3 DEF TextInv
<1> QED BY WriterInvariant, <1>4, PTL
=============================================================================
