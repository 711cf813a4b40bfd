------------------------------ MODULE Subagents ------------------------------
(***************************************************************************)
(* The record the Factory extension keeps of a thread's subagents          *)
(* (extension/src/subagents.rs): an unbounded history in the job's event   *)
(* log, and a bounded projection of it in the thread's state document.     *)
(*                                                                         *)
(* A collaboration call contributes an activity when it begins and again   *)
(* when it ends.  Each contribution reads the document, archives, and      *)
(* then updates the document under its lock; contributions of calls that   *)
(* run side by side interleave between those steps.  A document written    *)
(* before there was an archive holds activities the log has never seen.    *)
(* The backend has an event log; without one nothing is archived and       *)
(* nothing is dropped.                                                     *)
(***************************************************************************)
EXTENDS Naturals, Sequences, FiniteSets, SequencesExt

CONSTANTS
  Agents,      \* threads of the subagents
  Calls,       \* calls of the turn
  Script,      \* the receiver threads each call's contributions name, in order
  Legacy,      \* activities of the document before the archive
  MaxKept,     \* MAX_PROJECTED_SUBAGENT_ACTIVITIES
  MaxFailures  \* bound: contributions that fail half way

Activity(call, version, receivers) ==
  [call |-> call, version |-> version, receivers |-> receivers]

ASSUME MaxKeptAssumption == MaxKept \in Nat \ {0}
ASSUME MaxFailuresAssumption == MaxFailures \in Nat
ASSUME AgentsAssumption == IsFiniteSet(Agents)
ASSUME ScriptAssumption == \A c \in Calls : Script[c] \in Seq(Seq(Agents))

\* An older document has one activity of a call, as upsert_activity leaves it,
\* and none of this turn: an activity is identified by its turn, too.
ASSUME LegacyAssumption ==
  /\ Legacy \in Seq([call: {Legacy[i].call : i \in DOMAIN Legacy}, version: Nat, receivers: Seq(Agents)])
  /\ \A i, j \in DOMAIN Legacy : Legacy[i].call = Legacy[j].call => i = j
  /\ \A i \in DOMAIN Legacy : Legacy[i].call \notin Calls

VARIABLES
  kept,      \* FactoryState.subagents
  history,   \* FactoryState.subagent_history is set
  archive,   \* activities in the event log
  applied,   \* every activity the document was ever given, oldest first
  made,      \* contributions each call has made
  todo,      \* what a contribution has still to archive, its own activity last
  pc,        \* idle, archiving, updating
  failures

vars == <<kept, history, archive, applied, made, todo, pc, failures>>

Receivers(a) == Range(a.receivers)
Current(c) == Activity(c, made[c] + 1, Script[c][made[c] + 1])

Init ==
  /\ kept = Legacy /\ history = FALSE /\ archive = {} /\ applied = Legacy
  /\ made = [c \in Calls |-> 0] /\ todo = [c \in Calls |-> << >>]
  /\ pc = [c \in Calls |-> "idle"] /\ failures = 0

(***************************************************************************)
(* bounded_projection.                                                     *)
(***************************************************************************)

\* Mutant: only the newest activities count.
LatestNone(acts) == {}

\* An activity is taken for the first of its receivers that no newer one was
\* taken for.
Visit(acts, i, newer) ==
  LET fresh == {n \in DOMAIN acts[i].receivers : acts[i].receivers[n] \notin newer.seen} IN
  IF fresh = {} \/ Cardinality(newer.taken) = MaxKept THEN newer
  ELSE [seen  |-> newer.seen \cup {acts[i].receivers[Min(fresh)]},
        taken |-> newer.taken \cup {i}]

\* Walking back from the newest.
Walk(acts) ==
  LET walk[i \in 1..(Len(acts) + 1)] ==
        IF i = Len(acts) + 1 THEN [seen |-> {}, taken |-> {}] ELSE Visit(acts, i, walk[i + 1])
  IN walk

Latest(acts) == Walk(acts)[1].taken

\* The newest of the others fill the room that is left.
Filling(acts, taken) ==
  LET others == (1..Len(acts)) \ taken
  IN {i \in others : Cardinality({j \in others : j > i}) < MaxKept - Cardinality(taken)}

\* sort_unstable of indices.
Sorted(S) ==
  CHOOSE order \in [1..Cardinality(S) -> S] :
    \A m, n \in 1..Cardinality(S) : m < n => order[m] < order[n]

BoundedProjection(acts) ==
  IF Len(acts) <= MaxKept THEN acts
  ELSE LET taken == Latest(acts)
           order == Sorted(taken \cup Filling(acts, taken))
       IN [n \in DOMAIN order |-> acts[order[n]]]

(***************************************************************************)
(* upsert_activity, in its three steps.                                    *)
(***************************************************************************)

\* Mutant: the activities of an older document are not archived first.
BackfillNone == << >>

\* archive_activities: a document without a history is archived whole.
Backfill == IF history THEN << >> ELSE kept

Snapshot(c) ==
  /\ pc[c] = "idle" /\ made[c] < Len(Script[c])
  /\ todo' = [todo EXCEPT ![c] = Backfill \o <<Current(c)>>]
  /\ pc' = [pc EXCEPT ![c] = "archiving"]
  /\ UNCHANGED <<kept, history, archive, applied, made, failures>>

\* append_event: the key makes a repeated activity one event.
Append1(c) ==
  /\ pc[c] = "archiving"
  /\ archive' = archive \cup {Head(todo[c])}
  /\ todo' = [todo EXCEPT ![c] = Tail(@)]
  /\ pc' = [pc EXCEPT ![c] = IF Len(todo[c]) = 1 THEN "updating" ELSE "archiving"]
  /\ UNCHANGED <<kept, history, applied, made, failures>>

\* apply_activity: an activity replaces the one of the same call, as newest.
Push(acts, a) == Append(RemoveFirstMatch(acts, LAMBDA b : b.call = a.call), a)

Update(c) ==
  /\ pc[c] = "updating"
  /\ kept' = BoundedProjection(Push(kept, Current(c))) /\ history' = TRUE
  /\ applied' = Append(applied, Current(c))
  /\ made' = [made EXCEPT ![c] = @ + 1]
  /\ pc' = [pc EXCEPT ![c] = "idle"]
  /\ UNCHANGED <<archive, todo, failures>>

\* A query of the backend fails, or the process dies: the contribution is
\* given up where it stands.
Fail(c) ==
  /\ pc[c] # "idle" /\ failures < MaxFailures
  /\ failures' = failures + 1
  /\ made' = [made EXCEPT ![c] = @ + 1]
  /\ todo' = [todo EXCEPT ![c] = << >>]
  /\ pc' = [pc EXCEPT ![c] = "idle"]
  /\ UNCHANGED <<kept, history, archive, applied>>

Next == \E c \in Calls : Snapshot(c) \/ Append1(c) \/ Update(c) \/ Fail(c)

Spec == Init /\ [][Next]_vars

(***************************************************************************)
(* Properties.                                                             *)
(***************************************************************************)
Given == Range(applied)

TypeOK ==
  /\ Range(kept) \subseteq Given /\ (history => Len(kept) <= MaxKept)
  /\ history \in BOOLEAN /\ failures \in 0..MaxFailures
  /\ \A c \in Calls : /\ made[c] \in 0..Len(Script[c])
                      /\ pc[c] \in {"idle", "archiving", "updating"}
                      /\ (todo[c] # << >>) = (pc[c] = "archiving")

\* The document drops nothing the event log does not have: whatever the
\* projection left out, and whatever a later activity replaced, can be read
\* from the history, those of an older document included.
DroppedIsArchived == Given \ Range(kept) \subseteq archive

\* The activities about an agent that no later activity of the same call has
\* replaced, by their places, and the newest of them.
About(agent) ==
  {i \in DOMAIN applied : /\ agent \in Receivers(applied[i])
                          /\ ~\E j \in DOMAIN applied : j > i /\ applied[j].call = applied[i].call}

NewestAbout(agent) ==
  {applied[i] : i \in {k \in About(agent) : \A j \in About(agent) : j <= k}}

\* A call that names the agent names it to the end.  A wait that times out ends
\* without receivers and takes its earlier activity with it.
Steady(agent) ==
  \A c \in Calls : \A v, w \in DOMAIN Script[c] :
    v <= w /\ agent \in Range(Script[c][v]) => agent \in Range(Script[c][w])

\* While there is room for one activity of every agent, the projection keeps
\* the last one of each: the model is never left without an agent it started,
\* unless a later activity of the same call no longer names it.
AgentsKept ==
  Cardinality(Agents) <= MaxKept =>
    \A agent \in Agents : Steady(agent) => NewestAbout(agent) \subseteq Range(kept)

\* The projection stays within its length and still knows every agent.
ProjectionInv == TypeOK /\ AgentsKept
=============================================================================
