------------------------ MODULE EnvironmentsProofs -------------------------
(***************************************************************************)
(* Proofs about the execution environments, for any number of executors,   *)
(* reconcilers and generations, on either backend, however the workers are *)
(* configured and whatever fails.                                          *)
(*                                                                         *)
(* IInv is the inductive invariant.  Lock or no lock, the row fits the     *)
(* job, a release is overtaken only by a new generation, and an id that a  *)
(* process or the row knows is of its own generation (OfProcess).  While   *)
(* the advisory lock is kept (UnderLock), whoever acts as its holder is    *)
(* it; with the environment in hand nobody else ends the attempt, cleans   *)
(* up or releases; the one object has the generation and the namespace of  *)
(* the row; and the release of the present generation has found it.        *)
(***************************************************************************)
EXTENDS Environments, FiniteSetTheorems, WellFoundedInduction, TLAPS

-----------------------------------------------------------------------------
(* The inductive invariant.                                                *)

\* Where a slot has the environment of its job in hand: between the row it has
\* ensured and the end of its stage.
Holds(s) ==
    \/ proc[s].pc \in Ensuring \cup {"reserve", "ready", "failed", "working"}
    \/ proc[s].pc \in Deleting /\ proc[s].then = "inspect"

\* Where a slot believes to hold the advisory lock.
Locked(s) ==
    \/ Holds(s)
    \/ proc[s].pc \in {"prepare", "ensure", "cleaning", "cleaned"}
    \/ proc[s].pc \in Deleting /\ proc[s].then \in {"ensure", "cleaned"}

\* Where a process completes a release.
Releases(p) == proc[p].pc = "mark" \/ (proc[p].pc \in Deleting /\ proc[p].then = "mark")

\* Where a slot cleans up after a cancelled job, the lock taken.
CleansUp(s) ==
    \/ proc[s].pc \in {"cleaning", "cleaned", "release", "ack"}
    \/ proc[s].pc \in Deleting /\ proc[s].then = "cleaned"
    \/ Releases(s)

\* The job and its attempt.
JobInv ==
    /\ owner # None => attempt
    /\ attempt => job \in {"active", "cancelling"}
    /\ job = "cancelling" => attempt

\* The row, and what it has to do with the job.
RowInv ==
    /\ row.desired = "released" <=> row.status \in {"releasing", "released"}
    /\ row.status = "absent" => row.gen = 0 /\ row.ref = None
    /\ row.gen = 0 => row.status = "absent"
    /\ job = "active" => row.desired = "active"

\* Where a process may be, and where it goes after a deletion.
Placed(p) ==
    /\ p \in Reconcilers => proc[p].pc = "idle" \/ Releases(p)
    /\ proc[p].pc \in Ensuring \cup {"reserve", "ready", "failed", "working"} => proc[p].then = "inspect"
    /\ proc[p].pc \in Deleting => proc[p].then # "idle"
    /\ p \in Slots /\ Holds(p) => proc[p].rec.gen >= 1
    /\ p \in Slots /\ (proc[p].pc = "cleanup" \/ CleansUp(p)) => job \in {"cancelling", "cancelled"}

\* A release is of an earlier generation, or of the present one, which is then
\* being released and keeps its locator.
Outdated(p) ==
    Releases(p) =>
        /\ proc[p].rec.gen <= row.gen
        /\ proc[p].rec.gen = row.gen => row.desired = "released" /\ proc[p].rec.ref = row.ref

\* The ids a process and the row know are of objects of the generation they are
\* of, however old they are.
Known(p) ==
    \A o \in objects :
        /\ proc[p].pc \in {"stop", "remove", "gone", "ready"} /\ o.id = proc[p].obj => o.gen = proc[p].rec.gen
        /\ o.id \in RefIds(proc[p].rec) => o.gen = proc[p].rec.gen
RowKnown == \A o \in objects : o.id \in RefIds(row) => o.gen = row.gen

\* A slot with the environment in hand: nobody ends the attempt or cleans up,
\* whoever has the lease; the row is of its generation.
Alone(s) ==
    /\ attempt /\ row.desired = "active" /\ row.gen = proc[s].rec.gen
    /\ \A t \in Slots : ~CleansUp(t)
    /\ owner \in Slots \ {s} =>
          \/ proc[owner].pc \in {"waiting", "cleanup"}
          \/ proc[owner].pc = "settleFailure" /\ job # "active"
    /\ Kubernetes /\ proc[s].pc # "reserve" =>
          proc[s].rec.ref # None /\ row.ref # None /\ proc[s].rec.ref.ns = row.ref.ns

\* The object of the job.
Placement ==
    \A o \in objects :
        /\ row.status \notin {"absent", "released"} /\ o.gen = row.gen
        /\ Kubernetes => o.phase # "created" /\ row.ref # None /\ o.ns = row.ref.ns
        /\ \A q \in objects : q = o

\* A stage finds its object running, unless that failed.
Served(s) ==
    proc[s].pc \in {"ready", "working"} /\ proc[s].obj \notin lost =>
        \E o \in objects : o.id = proc[s].obj /\ o.phase = "running"

\* What the release of the present generation has got to.
Clearing(p) ==
    Releases(p) /\ proc[p].rec.gen = row.gen =>
        /\ proc[p].pc = "mark" => objects = {}
        /\ proc[p].pc \in {"stop", "remove", "gone"} => \A o \in objects : o.id = proc[p].obj

OfSlot(s) == (Locked(s) => lock = s) /\ (Holds(s) => Alone(s)) /\ Served(s)

UnderLock ==
    /\ Placement
    /\ \A s \in Slots : OfSlot(s)
    /\ \A p \in Processes : Clearing(p)

OfProcess(p) == Placed(p) /\ Outdated(p) /\ Known(p)

IInv ==
    /\ TypeOK /\ JobInv /\ RowInv /\ RowKnown
    /\ \A p \in Processes : OfProcess(p)
    /\ LockKept => UnderLock

-----------------------------------------------------------------------------
(* Types.                                                                  *)

Thens == {"idle", "inspect", "ensure", "cleaned", "mark"}
Program == [pc: Pcs, rec: Row, obj: Ids \cup {None}, first: BOOLEAN, then: Thens]

\* The constants, as the types use them.
LEMMA Constants ==
  ASSUME TypeOK
  PROVE  /\ Kubernetes \in BOOLEAN /\ MaxFaults \in Nat
         /\ None \notin Reference /\ None \notin Ids /\ TheLock \notin Ids
         /\ \A p \in Processes : Namespace[p] \in Namespaces
         /\ Kubernetes \/ \A m, n \in Namespaces : m = n
         /\ Slots \subseteq Processes /\ Reconcilers \subseteq Processes /\ Slots \cap Reconcilers = {}
         /\ \A p \in Processes : p # None
BY ProcessesAssumption, DeploymentsAssumption
DEF TypeOK, Kubernetes, MaxFaults, Namespace, Namespaces, Reference, Ids, Processes

\* An id for a new object.
LEMMA UnusedIds ==
  ASSUME Unused # {}
  PROVE  Min(Unused) \in Unused
<1> DEFINE R == OpToRel(<, Nat)
<1>1. Unused \subseteq Nat
  BY ProcessesAssumption DEF Unused, Ids
<1>2. PICK x \in Unused : \A y \in Unused : ~(<<y, x>> \in R)
  BY <1>1, NatLessThanWellFounded, WFMin
<1>3. ASSUME NEW y \in Unused PROVE x <= y
  <2>1. x \in Nat /\ y \in Nat /\ ~(y < x)
    BY <1>1, <1>2 DEF OpToRel
  <2> QED BY <2>1
<1> QED BY <1>3 DEF Min

\* A deployment stays as it is, and so do the types that depend on it.
LEMMA SameTypes ==
  ASSUME Next
  PROVE  /\ deployment' = deployment /\ Kubernetes' = Kubernetes /\ Namespace' = Namespace /\ Image' = Image
         /\ MaxFaults' = MaxFaults /\ Row' = Row /\ Object' = Object /\ Program' = Program
<1>1. deployment' = deployment
  BY DEF Next, EnsureStep, EndStep, DeleteStep, FaultStep, Fault, Claim, Lock, NotStarted, Prepare,
         EnsureRow, Reserve, Inspect, Create, CreateConflict, Observe, Start, Check, MarkReady,
         MarkFailed, EnsureRefused, Finish, Settle, SettleRefused, Cleanup, Cleaned, RequestRelease,
         Acknowledge, CancellationRefused, Rebind, List, Find, Stop, Remove, Gone, MarkReleased,
         Crash, CallFails, Reap, ObjectFails, Cancel, ContinueJob, LeaseExpires, LockBreaks
<1> QED BY <1>1 DEF Kubernetes, Namespace, Image, MaxFaults, Row, Object, Program, Reference, Namespaces

\* How a process goes on with an object.
LEMMA Dispositions ==
  ASSUME TypeOK, NEW s \in Slots, NEW o \in objects
  PROVE  /\ Deletion(o) \in {"stop", "remove", "gone"}
         /\ PodDisposition(s, o) \in {"failed", "ready", "stop", "remove", "gone"}
         /\ DockerDisposition(s, o) \in {"failed", "check", "start", "stop", "remove", "gone"}
BY DEF Deletion, PodDisposition, DockerDisposition

\* An object that a process disposes of is the one it looks at from then on.
LEMMA Disposed ==
  ASSUME TypeOK, NEW s \in Slots, NEW o \in objects, Dispose(s, o)
  PROVE  /\ proc' \in [Processes -> Program]
         /\ proc'[s].pc = IF Kubernetes THEN PodDisposition(s, o) ELSE DockerDisposition(s, o)
         /\ proc'[s].obj = o.id /\ proc'[s].rec = proc[s].rec /\ proc'[s].then = proc[s].then
         /\ \A q \in Processes : q # s => proc'[q] = proc[q]
<1> DEFINE next == IF Kubernetes THEN PodDisposition(s, o) ELSE DockerDisposition(s, o)
           first == proc[s].first /\ ~Kubernetes /\ next \notin Deleting
<1>1. next \in Pcs
  BY Dispositions DEF Pcs, Ensuring, Deleting
<1>2. first \in BOOLEAN
  OBVIOUS
<1>3. proc' = [proc EXCEPT ![s].pc = next, ![s].obj = o.id, ![s].first = first]
  BY DEF Dispose
<1>4. proc \in [Processes -> Program] /\ s \in Processes /\ o.id \in Ids
  BY Constants DEF TypeOK, Program, Thens, Object
<1> HIDE DEF next, first
<1>5. /\ proc' \in [Processes -> Program]
      /\ proc'[s].pc = next
      /\ proc'[s].obj = o.id /\ proc'[s].rec = proc[s].rec /\ proc'[s].then = proc[s].then
      /\ \A q \in Processes : q # s => proc'[q] = proc[q]
  BY <1>1, <1>2, <1>3, <1>4 DEF Program
<1> QED BY <1>5 DEF next

\* What happens to an object of which only the phase may change.
Same(n, o) == n.id = o.id /\ n.ns = o.ns /\ n.gen = o.gen /\ n.image = o.image

\* Processes keep their types.
LEMMA NextProgram ==
  ASSUME TypeOK, Next
  PROVE  proc' \in [Processes -> Program]
<1>a. proc \in [Processes -> Program] /\ row \in Row /\ objects \subseteq Object
      /\ Slots \subseteq Processes /\ Reconcilers \subseteq Processes
  BY Constants DEF TypeOK, Program, Thens
<1>b. Idle \in Program /\ AbsentRow \in Row
  BY ProcessesAssumption DEF Idle, AbsentRow, Program, Row, Pcs, Thens
<1>c. FirstRow \in Row
  BY ProcessesAssumption DEF FirstRow, Row
<1>1. ASSUME NEW s \in Slots, EnsureRow(s) PROVE proc' \in [Processes -> Program]
  <2> DEFINE found == IF row.status = "absent" THEN FirstRow ELSE row
             to == IF Kubernetes THEN "reserve" ELSE "inspect"
  <2>1. found \in Row /\ to \in Pcs
    BY <1>a, <1>c DEF Pcs, Ensuring
  <2>2. proc' = [proc EXCEPT ![s] = [pc |-> to, rec |-> found, obj |-> None, first |-> TRUE, then |-> "inspect"]]
    BY <1>1 DEF EnsureRow
  <2> HIDE DEF found, to
  <2> QED BY <1>a, <2>1, <2>2 DEF Program, Thens
<1>2. ASSUME NEW s \in Slots, Inspect(s) PROVE proc' \in [Processes -> Program]
  <2>1. CASE NamedFor(s) = {}
    <3> DEFINE first == proc[s].first /\ ~Kubernetes
    <3>1. proc' = [proc EXCEPT ![s].pc = "create", ![s].first = first] /\ first \in BOOLEAN
      BY <1>2, <2>1 DEF Inspect
    <3> HIDE DEF first
    <3> QED BY <1>a, <3>1 DEF Program, Pcs, Ensuring
  <2>2. CASE NamedFor(s) # {}
    BY <1>2, <2>2, Disposed DEF Inspect, NamedFor, Named
  <2> QED BY <2>1, <2>2
<1>3. ASSUME NEW s \in Slots, Observe(s) PROVE proc' \in [Processes -> Program]
  <2>1. CASE NamedFor(s) = {}
    BY <1>3, <2>1, <1>a DEF Observe, Goto, Program, Pcs
  <2>2. CASE NamedFor(s) # {} /\ Kubernetes
    <3>1. PICK o \in objects :
             proc' = [proc EXCEPT ![s].pc = IF o.image = Image[s] THEN "inspect" ELSE "failed", ![s].obj = o.id]
      BY <1>3, <2>2 DEF Observe, NamedFor, Named
    <3> QED BY <1>a, <3>1 DEF Program, Pcs, Ensuring, Object
  <2>3. CASE NamedFor(s) # {} /\ ~Kubernetes
    BY <1>3, <2>3, Disposed DEF Observe, NamedFor, Named
  <2> QED BY <2>1, <2>2, <2>3
<1>4. ASSUME NEW p \in Processes, Find(p) PROVE proc' \in [Processes -> Program]
  <2>1. CASE ReleaseTarget(p) = {}
    BY <1>4, <2>1, <1>a DEF Find, Goto, Program, Pcs, Thens, Ensuring
  <2>2. CASE ReleaseTarget(p) # {}
    <3>1. PICK o \in objects : proc' = [proc EXCEPT ![p].pc = Deletion(o), ![p].obj = o.id]
      BY <1>4, <2>2 DEF Find, ReleaseTarget, NamedFor, Named
    <3>2. Deletion(o) \in Pcs /\ o.id \in Ids
      BY <1>a DEF Deletion, Pcs, Deleting, Object
    <3> QED BY <1>a, <3>1, <3>2 DEF Program
  <2> QED BY <2>1, <2>2
<1>5. ASSUME NEW p \in Processes, Gone(p) PROVE proc' \in [Processes -> Program]
  <2>1. proc[p].then \in Pcs /\ proc' = [proc EXCEPT ![p].pc = proc[p].then, ![p].obj = None]
    BY <1>5, <1>a DEF Gone, Program, Pcs, Thens, Ensuring
  <2> QED BY <1>a, <2>1 DEF Program
<1> USE <1>a, <1>b DEF Program, Pcs, Thens, Ensuring, Deleting
<1>6. ASSUME NEW s \in Slots, Claim(s) PROVE proc' \in [Processes -> Program]
  BY <1>6 DEF Claim, Goto, At
<1>7. ASSUME NEW s \in Slots, Lock(s) PROVE proc' \in [Processes -> Program]
  BY <1>7 DEF Lock, Goto, At
<1>8. ASSUME NEW s \in Slots, NotStarted(s) PROVE proc' \in [Processes -> Program]
  BY <1>8 DEF NotStarted, Goto, At
<1>9. ASSUME NEW s \in Slots, Prepare(s) PROVE proc' \in [Processes -> Program]
  BY <1>9 DEF Prepare, Goto, At
<1>10. ASSUME NEW s \in Slots, Reserve(s) PROVE proc' \in [Processes -> Program]
  BY <1>10 DEF Reserve, At
<1>11. ASSUME NEW s \in Slots, Create(s) PROVE proc' \in [Processes -> Program]
  BY <1>11 DEF Create, At, NamedFor, Named
<1>12. ASSUME NEW s \in Slots, CreateConflict(s) PROVE proc' \in [Processes -> Program]
  BY <1>12 DEF CreateConflict, At, Goto
<1>13. ASSUME NEW s \in Slots, Start(s) PROVE proc' \in [Processes -> Program]
  BY <1>13 DEF Start, At, Goto
<1>14. ASSUME NEW s \in Slots, Check(s) PROVE proc' \in [Processes -> Program]
  BY <1>14 DEF Check, At, Goto, NamedFor, Named
<1>15. ASSUME NEW s \in Slots, MarkReady(s) PROVE proc' \in [Processes -> Program]
  BY <1>15 DEF MarkReady, At, Goto
<1>16. ASSUME NEW s \in Slots, MarkFailed(s) PROVE proc' \in [Processes -> Program]
  BY <1>16 DEF MarkFailed, At, Goto, Unlocked
<1>17. ASSUME NEW s \in Slots, EnsureRefused(s) PROVE proc' \in [Processes -> Program]
  BY <1>17 DEF EnsureRefused, Goto, Unlocked
<1>18. ASSUME NEW s \in Slots, Finish(s) PROVE proc' \in [Processes -> Program]
  BY <1>18 DEF Finish, At, Goto, Unlocked
<1>19. ASSUME NEW s \in Slots, NEW status \in {"active", "succeeded", "failed"}, Settle(s, status)
       PROVE  proc' \in [Processes -> Program]
  BY <1>19 DEF Settle, At
<1>20. ASSUME NEW s \in Slots, SettleRefused(s) PROVE proc' \in [Processes -> Program]
  BY <1>20 DEF SettleRefused
<1>21. ASSUME NEW s \in Slots, Cleanup(s) PROVE proc' \in [Processes -> Program]
  BY <1>21 DEF Cleanup, At, Goto
<1>22. ASSUME NEW s \in Slots, Cleaned(s) PROVE proc' \in [Processes -> Program]
  BY <1>22 DEF Cleaned, Goto, Unlocked
<1>23. ASSUME NEW s \in Slots, RequestRelease(s) PROVE proc' \in [Processes -> Program]
  BY <1>23 DEF RequestRelease, At
<1>24. ASSUME NEW s \in Slots, Acknowledge(s) PROVE proc' \in [Processes -> Program]
  BY <1>24 DEF Acknowledge, At
<1>25. ASSUME NEW s \in Slots, CancellationRefused(s) PROVE proc' \in [Processes -> Program]
  BY <1>25 DEF CancellationRefused
<1>26. ASSUME NEW s \in Slots, Rebind(s) PROVE proc' \in [Processes -> Program]
  BY <1>26 DEF Rebind, At
<1>27. ASSUME NEW p \in Reconcilers, List(p) PROVE proc' \in [Processes -> Program]
  BY <1>27 DEF List, At, Listed
<1>28. ASSUME NEW p \in Processes, Stop(p) PROVE proc' \in [Processes -> Program]
  BY <1>28 DEF Stop, At, Goto, FailedCall, Unlocked
<1>29. ASSUME NEW p \in Processes, Remove(p) PROVE proc' \in [Processes -> Program]
  BY <1>29 DEF Remove, At, Goto, FailedCall, Unlocked
<1>30. ASSUME NEW p \in Processes, MarkReleased(p) PROVE proc' \in [Processes -> Program]
  BY <1>30 DEF MarkReleased, At, Goto
<1>31. ASSUME NEW p \in Processes, Crash(p) PROVE proc' \in [Processes -> Program]
  BY <1>31 DEF Crash, Fault, Unlocked
<1>32. ASSUME NEW p \in Processes, CallFails(p) PROVE proc' \in [Processes -> Program]
  BY <1>32 DEF CallFails, Fault, FailedCall, Goto, Unlocked
<1>33. ASSUME NEW o \in objects, Reap(o) PROVE proc' \in [Processes -> Program]
  BY <1>33 DEF Reap
<1>34. ASSUME NEW o \in objects, ObjectFails(o) PROVE proc' \in [Processes -> Program]
  BY <1>34 DEF ObjectFails, Fault
<1>35. ASSUME Cancel PROVE proc' \in [Processes -> Program]
  BY <1>35 DEF Cancel
<1>36. ASSUME ContinueJob PROVE proc' \in [Processes -> Program]
  BY <1>36 DEF ContinueJob
<1>37. ASSUME LeaseExpires PROVE proc' \in [Processes -> Program]
  BY <1>37 DEF LeaseExpires, Fault
<1>38. ASSUME LockBreaks PROVE proc' \in [Processes -> Program]
  BY <1>38 DEF LockBreaks, Fault
<1> QED BY <1>1, <1>2, <1>3, <1>4, <1>5, <1>6, <1>7, <1>8, <1>9, <1>10, <1>11, <1>12, <1>13, <1>14, <1>15,
    <1>16, <1>17, <1>18, <1>19, <1>20, <1>21, <1>22, <1>23, <1>24, <1>25, <1>26, <1>27, <1>28, <1>29, <1>30,
    <1>31, <1>32, <1>33, <1>34, <1>35, <1>36, <1>37, <1>38 DEF Next, EnsureStep, EndStep, DeleteStep, FaultStep

\* The row keeps its type.
LEMMA NextRow ==
  ASSUME TypeOK, Next
  PROVE  row' \in Row
<1>a. /\ proc \in [Processes -> Program] /\ row \in Row /\ objects \subseteq Object
      /\ Slots \subseteq Processes /\ Reconcilers \subseteq Processes
  BY Constants DEF TypeOK, Program, Thens
<1>b. \A m \in Namespaces, i \in Ids \cup {None} : [ns |-> m, id |-> i] \in Reference
  BY DEF Reference
<1>c. \A p \in Processes : Target(p) \in Namespaces /\ proc[p].obj \in Ids \cup {None} /\ Namespace[p] \in Namespaces
  BY <1>a, Constants DEF Target, Program, Row, Reference
<1>1. CASE UNCHANGED row
  BY <1>1, <1>a DEF Row
<1> USE <1>a DEF Row
<1>2. ASSUME NEW s \in Slots, EnsureRow(s) PROVE row' \in Row
  BY <1>2, ProcessesAssumption DEF EnsureRow, At, FirstRow
<1>3. ASSUME NEW s \in Slots, Reserve(s) PROVE row' \in Row
  BY <1>3, <1>b, <1>c DEF Reserve, At, Located
<1>4. ASSUME NEW s \in Slots, MarkReady(s) PROVE row' \in Row
  BY <1>4, <1>b, <1>c DEF MarkReady, At, Goto
<1>5. ASSUME NEW s \in Slots, MarkFailed(s) PROVE row' \in Row
  BY <1>5 DEF MarkFailed, At, Goto, Unlocked
<1>6. ASSUME NEW s \in Slots, NEW status \in {"active", "succeeded", "failed"}, Settle(s, status)
      PROVE  row' \in Row
  BY <1>6 DEF Settle, At, ReleaseRequested
<1>7. ASSUME NEW s \in Slots, RequestRelease(s) PROVE row' \in Row
  BY <1>7 DEF RequestRelease, At, ReleaseRequested
<1>8. ASSUME NEW p \in Processes, MarkReleased(p) PROVE row' \in Row
  BY <1>8 DEF MarkReleased, At, Goto
<1>9. ASSUME Cancel PROVE row' \in Row
  BY <1>9 DEF Cancel, ReleaseRequested
<1>10. ASSUME ContinueJob PROVE row' \in Row
  BY <1>10, ProcessesAssumption DEF ContinueJob
<1> QED BY <1>1, <1>2, <1>3, <1>4, <1>5, <1>6, <1>7, <1>8, <1>9, <1>10 DEF Next, EnsureStep, EndStep,
    DeleteStep, FaultStep, Fault, Claim, Lock, NotStarted, Prepare, Inspect, Create, CreateConflict, Observe,
    Start, Check, EnsureRefused, Finish, SettleRefused, Cleanup, Cleaned, Acknowledge, CancellationRefused,
    Rebind, List, Find, Stop, Remove, Gone, Crash, CallFails, Reap, ObjectFails, LeaseExpires, LockBreaks

\* So do the others.
LEMMA NextScalars ==
  ASSUME TypeOK, Next
  PROVE  /\ job' \in {"active", "cancelling", "succeeded", "failed", "cancelled"} /\ attempt' \in BOOLEAN
         /\ owner' \in Slots \cup {None} /\ lock' \in Slots \cup {None}
         /\ faults' \in 0 .. MaxFaults /\ lost' \subseteq Ids \cup {TheLock}
<1>a. /\ proc \in [Processes -> Program] /\ row \in Row /\ objects \subseteq Object
      /\ Slots \subseteq Processes /\ Reconcilers \subseteq Processes
  BY Constants DEF TypeOK, Program, Thens
<1>b. /\ job \in {"active", "cancelling", "succeeded", "failed", "cancelled"} /\ attempt \in BOOLEAN
      /\ owner \in Slots \cup {None}
      /\ lock \in Slots \cup {None} /\ faults \in 0 .. MaxFaults /\ lost \subseteq Ids \cup {TheLock}
      /\ MaxFaults \in Nat
      /\ \A o \in objects : o.id \in Ids
  BY Constants DEF TypeOK, Object
<1> DEFINE G ==
         /\ job' \in {"active", "cancelling", "succeeded", "failed", "cancelled"} /\ attempt' \in BOOLEAN
         /\ owner' \in Slots \cup {None} /\ lock' \in Slots \cup {None}
         /\ faults' \in 0 .. MaxFaults /\ lost' \subseteq Ids \cup {TheLock}
<1> USE <1>b
<1>1. ASSUME NEW s \in Slots, Claim(s) PROVE G
  BY <1>1 DEF Claim, Goto, At
<1>2. ASSUME NEW s \in Slots, Lock(s) PROVE G
  BY <1>2 DEF Lock, Goto, At
<1>3. ASSUME NEW s \in Slots, NotStarted(s) PROVE G
  BY <1>3 DEF NotStarted, Goto, At
<1>4. ASSUME NEW s \in Slots, Prepare(s) PROVE G
  BY <1>4 DEF Prepare, Goto, At
<1>5. ASSUME NEW s \in Slots, EnsureRow(s) PROVE G
  BY <1>5 DEF EnsureRow, At
<1>6. ASSUME NEW s \in Slots, Reserve(s) PROVE G
  BY <1>6 DEF Reserve, At
<1>7. ASSUME NEW s \in Slots, Inspect(s) PROVE G
  BY <1>7 DEF Inspect, At, Dispose, PodDisposition, DockerDisposition, Deletion, NamedFor, Named
<1>8. ASSUME NEW s \in Slots, Create(s) PROVE G
  BY <1>8 DEF Create, At, NamedFor, Named
<1>9. ASSUME NEW s \in Slots, CreateConflict(s) PROVE G
  BY <1>9 DEF CreateConflict, At, Goto
<1>10. ASSUME NEW s \in Slots, Observe(s) PROVE G
  BY <1>10 DEF Observe, At, Goto, Dispose, PodDisposition, DockerDisposition, Deletion, NamedFor, Named
<1>11. ASSUME NEW s \in Slots, Start(s) PROVE G
  BY <1>11 DEF Start, At, Goto
<1>12. ASSUME NEW s \in Slots, Check(s) PROVE G
  BY <1>12 DEF Check, At, Goto, NamedFor, Named
<1>13. ASSUME NEW s \in Slots, MarkReady(s) PROVE G
  BY <1>13 DEF MarkReady, At, Goto
<1>14. ASSUME NEW s \in Slots, MarkFailed(s) PROVE G
  BY <1>14 DEF MarkFailed, At, Goto, Unlocked
<1>15. ASSUME NEW s \in Slots, EnsureRefused(s) PROVE G
  BY <1>15 DEF EnsureRefused, Goto, Unlocked
<1>16. ASSUME NEW s \in Slots, Finish(s) PROVE G
  BY <1>16 DEF Finish, At, Goto, Unlocked
<1>17. ASSUME NEW s \in Slots, NEW status \in {"active", "succeeded", "failed"}, Settle(s, status)
       PROVE  G
  BY <1>17 DEF Settle, At
<1>18. ASSUME NEW s \in Slots, SettleRefused(s) PROVE G
  BY <1>18 DEF SettleRefused
<1>19. ASSUME NEW s \in Slots, Cleanup(s) PROVE G
  BY <1>19 DEF Cleanup, At, Goto
<1>20. ASSUME NEW s \in Slots, Cleaned(s) PROVE G
  BY <1>20 DEF Cleaned, Goto, Unlocked
<1>21. ASSUME NEW s \in Slots, RequestRelease(s) PROVE G
  BY <1>21 DEF RequestRelease, At
<1>22. ASSUME NEW s \in Slots, Acknowledge(s) PROVE G
  BY <1>22 DEF Acknowledge, At
<1>23. ASSUME NEW s \in Slots, CancellationRefused(s) PROVE G
  BY <1>23 DEF CancellationRefused
<1>24. ASSUME NEW s \in Slots, Rebind(s) PROVE G
  BY <1>24 DEF Rebind, At
<1>25. ASSUME NEW p \in Reconcilers, List(p) PROVE G
  BY <1>25 DEF List, At, Listed
<1>26. ASSUME NEW p \in Processes, Find(p) PROVE G
  BY <1>26 DEF Find, At, Goto, Deletion
<1>27. ASSUME NEW p \in Processes, Stop(p) PROVE G
  BY <1>27 DEF Stop, At, Goto, FailedCall, Unlocked
<1>28. ASSUME NEW p \in Processes, Remove(p) PROVE G
  BY <1>28 DEF Remove, At, Goto, FailedCall, Unlocked
<1>29. ASSUME NEW p \in Processes, Gone(p) PROVE G
  BY <1>29 DEF Gone, At
<1>30. ASSUME NEW p \in Processes, MarkReleased(p) PROVE G
  BY <1>30 DEF MarkReleased, At, Goto
<1>31. ASSUME NEW p \in Processes, Crash(p) PROVE G
  BY <1>31 DEF Crash, Fault, Unlocked
<1>32. ASSUME NEW p \in Processes, CallFails(p) PROVE G
  BY <1>32 DEF CallFails, Fault, FailedCall, Goto, Unlocked
<1>33. ASSUME NEW o \in objects, Reap(o) PROVE G
  BY <1>33 DEF Reap
<1>34. ASSUME NEW o \in objects, ObjectFails(o) PROVE G
  BY <1>34 DEF ObjectFails, Fault
<1>35. ASSUME Cancel PROVE G
  BY <1>35 DEF Cancel
<1>36. ASSUME ContinueJob PROVE G
  BY <1>36 DEF ContinueJob
<1>37. ASSUME LeaseExpires PROVE G
  BY <1>37 DEF LeaseExpires, Fault
<1>38. ASSUME LockBreaks PROVE G
  BY <1>38 DEF LockBreaks, Fault
<1> QED BY <1>1, <1>2, <1>3, <1>4, <1>5, <1>6, <1>7, <1>8, <1>9, <1>10, <1>11, <1>12, <1>13, <1>14, <1>15,
    <1>16, <1>17, <1>18, <1>19, <1>20, <1>21, <1>22, <1>23, <1>24, <1>25, <1>26, <1>27, <1>28, <1>29, <1>30,
    <1>31, <1>32, <1>33, <1>34, <1>35, <1>36, <1>37, <1>38 DEF Next, EnsureStep, EndStep, DeleteStep, FaultStep

\* The objects after a step: one that is new, or those that were there.
LEMMA NextObjects ==
  ASSUME IInv, Next
  PROVE  /\ objects' \subseteq Object
         /\ \A n, m \in objects' : n.id = m.id => n = m
         /\ \/ \E s \in Slots : Create(s)
            \/ \A n \in objects' : \E o \in objects : Same(n, o) /\ (Kubernetes /\ n.phase = "created" => n = o)
<1> DEFINE Typed == objects' \subseteq Object
           Distinct == \A n, m \in objects' : n.id = m.id => n = m
           Old == \A n \in objects' : \E o \in objects : Same(n, o) /\ (Kubernetes /\ n.phase = "created" => n = o)
<1>0. TypeOK
  BY DEF IInv
<1>a. /\ proc \in [Processes -> Program] /\ objects \subseteq Object /\ Slots \subseteq Processes
      /\ \A o, q \in objects : o.id = q.id => o = q
  BY <1>0, Constants DEF TypeOK, Program, Thens
<1>1. ASSUME objects' \subseteq objects PROVE Typed /\ Distinct /\ Old
  BY <1>1, <1>a DEF Same
<1>2. ASSUME NEW s \in Slots, Create(s) PROVE Typed /\ Distinct
  <2> DEFINE new == [id |-> Min(Unused), ns |-> Target(s), gen |-> proc[s].rec.gen, image |-> Image[s],
                     phase |-> IF Kubernetes THEN "running" ELSE "created"]
  <2>1. Unused # {} /\ objects' = objects \cup {new}
    BY <1>2 DEF Create
  <2>2. Min(Unused) \in Ids /\ \A o \in objects : o.id # Min(Unused)
    BY <2>1, UnusedIds DEF Unused
  <2>3. Target(s) \in Namespaces /\ proc[s].rec.gen \in 1 .. MaxGen
    <3>1. Placed(s) /\ s \in Processes /\ proc[s].pc = "create"
      BY <1>2, <1>a DEF Create, At, IInv, OfProcess
    <3>2. proc[s].rec \in Row /\ Namespace[s] \in Namespaces
      BY <1>0, <3>1, <1>a, Constants DEF Program
    <3>3. Holds(s)
      BY <3>1 DEF Holds, Ensuring
    <3> QED BY <3>1, <3>2, <3>3, ProcessesAssumption DEF Placed, Row, Reference, Target
  <2>4. new \in Object
    BY <2>2, <2>3 DEF Object
  <2>5. new.id = Min(Unused)
    OBVIOUS
  <2> HIDE DEF new
  <2> QED BY <1>a, <2>1, <2>2, <2>4, <2>5
<1>3. ASSUME NEW f, DOMAIN f = objects, objects' = {f[o] : o \in objects},
             \A o \in objects : f[o] \in Object /\ Same(f[o], o) /\ (Kubernetes /\ f[o].phase = "created" => f[o] = o)
      PROVE  Typed /\ Distinct /\ Old
  BY <1>3, <1>a DEF Same
<1>4. ASSUME NEW s \in Slots, Start(s) PROVE Typed /\ Distinct /\ Old
  <2> DEFINE f == [o \in objects |-> IF o \in NamedFor(s) THEN [o EXCEPT !.phase = "running"] ELSE o]
  <2>1. \A o \in objects : f[o] \in Object /\ Same(f[o], o) /\ (Kubernetes /\ f[o].phase = "created" => f[o] = o)
    BY <1>a DEF Object, Same
  <2>2. DOMAIN f = objects /\ objects' = {f[o] : o \in objects}
    BY <1>4 DEF Start
  <2> HIDE DEF f
  <2> QED BY <1>3, <2>1, <2>2
<1>5. ASSUME NEW p \in Processes, Stop(p) PROVE Typed /\ Distinct /\ Old
  <2> DEFINE f == [o \in objects |-> IF o \notin Chosen(p) THEN o
                                     ELSE IF Kubernetes THEN [o EXCEPT !.phase = "terminating"]
                                     ELSE IF o.phase = "running" THEN [o EXCEPT !.phase = "stopped"]
                                     ELSE o]
  <2>1. \A o \in objects : f[o] \in Object /\ Same(f[o], o) /\ (Kubernetes /\ f[o].phase = "created" => f[o] = o)
    BY <1>a DEF Object, Same
  <2>2. DOMAIN f = objects /\ (objects' = objects \/ objects' = {f[o] : o \in objects})
    BY <1>5 DEF Stop
  <2> HIDE DEF f
  <2>3. CASE objects' = {f[o] : o \in objects}
    BY <1>3, <2>1, <2>2, <2>3
  <2> QED BY <1>1, <2>2, <2>3
<1>6. ASSUME NEW o \in objects, ObjectFails(o) PROVE Typed /\ Distinct /\ Old
  <2> DEFINE n == [o EXCEPT !.phase = "stopped"]
  <2>1. n \in Object /\ Same(n, o) /\ n.phase = "stopped"
    BY <1>a DEF Object, Same
  <2>2. objects' \subseteq objects \/ objects' = (objects \ {o}) \cup {n}
    BY <1>6 DEF ObjectFails
  <2> HIDE DEF n
  <2> QED BY <1>1, <1>a, <2>1, <2>2 DEF Same
<1> QED
  BY <1>1, <1>2, <1>4, <1>5, <1>6
  DEF Next, EnsureStep, EndStep, DeleteStep, FaultStep, Fault, Claim, Lock, NotStarted, Prepare,
      EnsureRow, Reserve, Inspect, CreateConflict, Observe, Check, MarkReady, MarkFailed, EnsureRefused,
      Finish, Settle, SettleRefused, Cleanup, Cleaned, RequestRelease, Acknowledge, CancellationRefused,
      Rebind, List, Find, Remove, Gone, MarkReleased, Crash, CallFails, Reap, Cancel, ContinueJob,
      LeaseExpires, LockBreaks

\* Together: type correctness.
LEMMA NextTyped ==
  ASSUME IInv, Next
  PROVE  TypeOK'
<1>0. TypeOK
  BY DEF IInv
<1>1. Ids' = Ids /\ MaxFaults' = MaxFaults /\ Row' = Row /\ Object' = Object /\ Program' = Program
      /\ deployment' = deployment
  BY SameTypes DEF Ids
<1> QED
  BY <1>0, <1>1, NextProgram, NextRow, NextScalars, NextObjects DEF TypeOK, Program, Thens

-----------------------------------------------------------------------------
(* What a step does to the program of a process.                           *)

\* Only p moves, and keeps what it has read of the row and where it goes next.
Moves(p) ==
    /\ proc'[p].rec = proc[p].rec /\ proc'[p].then = proc[p].then
    /\ \A q \in Processes : q # p => proc'[q] = proc[q]

\* What EnsureRow does to the process and to the row.
LEMMA EnsureRowMoves ==
  ASSUME TypeOK, RowInv, NEW s \in Slots, EnsureRow(s)
  PROVE  /\ proc'[s].pc = (IF Kubernetes THEN "reserve" ELSE "inspect") /\ proc'[s].then = "inspect"
         /\ proc'[s].rec = row' /\ proc'[s].obj = None
         /\ row'.gen >= 1 /\ row'.desired = "active" /\ row'.status # "absent"
         /\ (row' = row \/ (row.status = "absent" /\ row'.ref = None /\ row'.status = "provisioning"))
         /\ \A q \in Processes : q # s => proc'[q] = proc[q]
<1> DEFINE found == IF row.status = "absent" THEN FirstRow ELSE row
           to == IF Kubernetes THEN "reserve" ELSE "inspect"
<1>1. /\ found.gen >= 1 /\ found.desired = "active" /\ found.status # "absent"
      /\ (found = row \/ (row.status = "absent" /\ found.ref = None /\ found.status = "provisioning"))
  BY DEF EnsureRow, MayWriteRow, FirstRow, RowInv, TypeOK, Row
<1>2. /\ row' = found
      /\ proc' = [proc EXCEPT ![s] = [pc |-> to, rec |-> found, obj |-> None, first |-> TRUE, then |-> "inspect"]]
  BY DEF EnsureRow
<1>3. s \in Processes /\ proc \in [Processes -> Program]
  BY Constants DEF TypeOK, Program, Thens
<1> HIDE DEF found
<1> QED BY <1>1, <1>2, <1>3

\* What Inspect does: there is nothing, or an object to go on with.
LEMMA InspectMoves ==
  ASSUME TypeOK, NEW s \in Slots, Inspect(s)
  PROVE  /\ Moves(s)
         /\ \/ NamedFor(s) = {} /\ proc'[s].pc = "create" /\ proc'[s].obj = proc[s].obj
            \/ \E o \in NamedFor(s) :
                  /\ proc'[s].obj = o.id
                  /\ proc'[s].pc = IF Kubernetes THEN PodDisposition(s, o) ELSE DockerDisposition(s, o)
<1>1. s \in Processes /\ proc \in [Processes -> Program]
  BY Constants DEF TypeOK, Program, Thens
<1>2. CASE NamedFor(s) = {}
  BY <1>1, <1>2 DEF Inspect, Moves, Program
<1>3. CASE NamedFor(s) # {}
  BY <1>1, <1>3, Disposed DEF Inspect, Moves, NamedFor, Named
<1> QED BY <1>2, <1>3

\* What Observe does, likewise.
LEMMA ObserveMoves ==
  ASSUME TypeOK, NEW s \in Slots, Observe(s)
  PROVE  /\ Moves(s)
         /\ \/ NamedFor(s) = {} /\ proc'[s].pc = "failed" /\ proc'[s].obj = proc[s].obj
            \/ \E o \in NamedFor(s) :
                  /\ proc'[s].obj = o.id
                  /\ IF Kubernetes THEN proc'[s].pc \in {"inspect", "failed"}
                                   ELSE proc'[s].pc = DockerDisposition(s, o)
<1>1. s \in Processes /\ proc \in [Processes -> Program]
  BY Constants DEF TypeOK, Program, Thens
<1>2. CASE NamedFor(s) = {}
  BY <1>1, <1>2 DEF Observe, Goto, Moves, Program
<1>3. CASE NamedFor(s) # {} /\ Kubernetes
  <2>1. PICK o \in NamedFor(s) :
           proc' = [proc EXCEPT ![s].pc = IF o.image = Image[s] THEN "inspect" ELSE "failed", ![s].obj = o.id]
    BY <1>3 DEF Observe
  <2> QED BY <1>1, <1>3, <2>1 DEF Moves, Program
<1>4. CASE NamedFor(s) # {} /\ ~Kubernetes
  BY <1>1, <1>4, Disposed DEF Observe, Moves, NamedFor, Named
<1> QED BY <1>2, <1>3, <1>4

\* What Find does: nothing is left, or there is something to delete.
LEMMA FindMoves ==
  ASSUME TypeOK, NEW p \in Processes, Find(p)
  PROVE  /\ Moves(p)
         /\ \/ ReleaseTarget(p) = {} /\ proc'[p].pc = proc[p].then /\ proc'[p].obj = proc[p].obj
            \/ \E o \in ReleaseTarget(p) : proc'[p].obj = o.id /\ proc'[p].pc = Deletion(o)
<1>1. proc \in [Processes -> Program]
  BY DEF TypeOK, Program, Thens
<1>2. CASE ReleaseTarget(p) = {}
  BY <1>1, <1>2 DEF Find, Goto, Moves, Program
<1>3. CASE ReleaseTarget(p) # {}
  <2>1. PICK o \in ReleaseTarget(p) : proc' = [proc EXCEPT ![p].pc = Deletion(o), ![p].obj = o.id]
    BY <1>3 DEF Find
  <2> QED BY <1>1, <2>1 DEF Moves, Program
<1> QED BY <1>2, <1>3

-----------------------------------------------------------------------------
(* What holds whether the lock is kept or not.                             *)

\* Leases are of running attempts, which end with their jobs.
LEMMA NextJob ==
  ASSUME IInv, Next
  PROVE  JobInv'
<1>0. TypeOK /\ JobInv
  BY DEF IInv
<1>a. \A s \in Slots : s # None
  BY <1>0, Constants
<1>1. CASE UNCHANGED <<job, attempt, owner>>
  BY <1>1, <1>0, <1>a DEF JobInv, MayWrite, Fenced
<1> USE <1>0, <1>a DEF JobInv, MayWrite, Fenced
<1>2. ASSUME NEW s \in Slots, Claim(s) PROVE JobInv'
  BY <1>2 DEF Claim, Goto, At
<1>3. ASSUME NEW s \in Slots, NEW status \in {"active", "succeeded", "failed"}, Settle(s, status)
      PROVE  JobInv'
  BY <1>3 DEF Settle, At
<1>4. ASSUME NEW s \in Slots, Acknowledge(s) PROVE JobInv'
  BY <1>4 DEF Acknowledge, At
<1>5. ASSUME NEW p \in Processes, Stop(p) PROVE JobInv'
  BY <1>5 DEF Stop, At, Goto, FailedCall, Unlocked
<1>6. ASSUME NEW p \in Processes, Remove(p) PROVE JobInv'
  BY <1>6 DEF Remove, At, Goto, FailedCall, Unlocked
<1>7. ASSUME NEW p \in Processes, Crash(p) PROVE JobInv'
  BY <1>7 DEF Crash, Fault, Unlocked
<1>8. ASSUME NEW p \in Processes, CallFails(p) PROVE JobInv'
  BY <1>8 DEF CallFails, Fault, FailedCall, Goto, Unlocked
<1>9. ASSUME Cancel PROVE JobInv'
  BY <1>9 DEF Cancel
<1>10. ASSUME ContinueJob PROVE JobInv'
  BY <1>10 DEF ContinueJob
<1>11. ASSUME LeaseExpires PROVE JobInv'
  BY <1>11 DEF LeaseExpires, Fault
<1> QED BY <1>1, <1>2, <1>3, <1>4, <1>5, <1>6, <1>7, <1>8, <1>9, <1>10, <1>11 DEF Next, EnsureStep, EndStep,
    DeleteStep, FaultStep, Fault, Lock, NotStarted, Prepare, EnsureRow, Reserve, Inspect, Create,
    CreateConflict, Observe, Start, Check, MarkReady, MarkFailed, EnsureRefused, Finish,
    SettleRefused, Cleanup,
    Cleaned, RequestRelease, CancellationRefused, Rebind, List, Find, Gone, MarkReleased, Reap, ObjectFails,
    LockBreaks

\* What the row says fits together and to the job.
LEMMA NextRowInv ==
  ASSUME IInv, Next
  PROVE  RowInv'
<1>0. TypeOK /\ JobInv /\ RowInv /\ row \in Row /\ \A p \in Processes : Placed(p)
  BY DEF IInv, TypeOK, OfProcess
<1>a. \A s \in Slots : s \in Processes
  BY <1>0, Constants
<1>1. CASE UNCHANGED <<job, row>>
  BY <1>1, <1>0, <1>a DEF RowInv, Row, MayWriteRow, MayWrite, Fenced
<1> USE <1>0, <1>a DEF RowInv, Row, MayWriteRow, MayWrite, Fenced
<1>2. ASSUME NEW s \in Slots, EnsureRow(s) PROVE RowInv'
  BY <1>2 DEF EnsureRow, At, FirstRow
<1>3. ASSUME NEW s \in Slots, Reserve(s) PROVE RowInv'
  BY <1>3 DEF Reserve, At, Located, Placed, Holds, JobInv
<1>4. ASSUME NEW s \in Slots, MarkReady(s) PROVE RowInv'
  BY <1>4 DEF MarkReady, At, Goto, Placed, Holds, JobInv
<1>5. ASSUME NEW s \in Slots, MarkFailed(s) PROVE RowInv'
  BY <1>5 DEF MarkFailed, At, Goto, Unlocked, Placed, Holds, JobInv
<1>6. ASSUME NEW s \in Slots, NEW status \in {"active", "succeeded", "failed"}, Settle(s, status)
      PROVE  RowInv'
  BY <1>6 DEF Settle, At, ReleaseRequested
<1>7. ASSUME NEW s \in Slots, RequestRelease(s) PROVE RowInv'
  BY <1>7 DEF RequestRelease, At, ReleaseRequested
<1>8. ASSUME NEW s \in Slots, Acknowledge(s) PROVE RowInv'
  BY <1>8 DEF Acknowledge, At
<1>9. ASSUME NEW p \in Processes, MarkReleased(p) PROVE RowInv'
  BY <1>9 DEF MarkReleased, At, Goto
<1>10. ASSUME Cancel PROVE RowInv'
  BY <1>10 DEF Cancel, ReleaseRequested
<1>11. ASSUME ContinueJob PROVE RowInv'
  BY <1>11 DEF ContinueJob, JobInv
<1> QED BY <1>1, <1>2, <1>3, <1>4, <1>5, <1>6, <1>7, <1>8, <1>9, <1>10, <1>11 DEF Next, EnsureStep, EndStep,
    DeleteStep, FaultStep, Fault, Claim, Lock, NotStarted, Prepare, Inspect, Create, CreateConflict, Observe,
    Start, Check, EnsureRefused, Finish, SettleRefused, Cleanup, Cleaned, CancellationRefused, Rebind, List,
    Find, Stop, Remove, Gone, Crash, CallFails, Reap, ObjectFails, LeaseExpires, LockBreaks

\* Where processes are.
LEMMA NextPlaced ==
  ASSUME IInv, NEW q \in Processes, Next
  PROVE  Placed(q)'
<1>0. /\ TypeOK /\ JobInv /\ RowInv /\ Placed(q) /\ proc \in [Processes -> Program] /\ row \in Row
      /\ Slots \subseteq Processes /\ Reconcilers \subseteq Processes /\ Slots \cap Reconcilers = {}
      /\ \A s \in Slots : s # None
  BY Constants DEF IInv, TypeOK, OfProcess, Program, Thens
<1>1. ASSUME NEW s \in Slots, EnsureRow(s) PROVE Placed(q)'
  BY <1>1, <1>0, EnsureRowMoves DEF EnsureRow, At, Placed, Holds, Releases, CleansUp, Ensuring, Deleting
<1>2. ASSUME NEW s \in Slots, Inspect(s) PROVE Placed(q)'
  <2>1. proc'[s].pc \in {"create", "failed", "ready", "check", "start", "stop", "remove", "gone"}
    BY <1>2, <1>0, InspectMoves, Dispositions DEF NamedFor, Named
  <2>2. Moves(s) /\ proc[s].pc = "inspect" /\ job' = job
    BY <1>2, <1>0, InspectMoves DEF Inspect, At
  <2> QED BY <1>0, <2>1, <2>2 DEF Moves, Placed, Holds, Releases, CleansUp, Ensuring, Deleting
<1>3. ASSUME NEW s \in Slots, Observe(s) PROVE Placed(q)'
  <2>1. proc'[s].pc \in {"inspect", "failed", "ready", "check", "start", "stop", "remove", "gone"}
    BY <1>3, <1>0, ObserveMoves, Dispositions DEF NamedFor, Named
  <2>2. Moves(s) /\ proc[s].pc = "observe" /\ job' = job
    BY <1>3, <1>0, ObserveMoves DEF Observe, At
  <2> QED BY <1>0, <2>1, <2>2 DEF Moves, Placed, Holds, Releases, CleansUp, Ensuring, Deleting
<1>4. ASSUME NEW p \in Processes, Find(p) PROVE Placed(q)'
  <2>1. proc'[p].pc \in {"stop", "remove", "gone", proc[p].then} /\ Moves(p) /\ proc[p].pc = "find" /\ job' = job
    BY <1>4, <1>0, FindMoves DEF Find, At, Deletion, Program
  <2>2. CASE q # p
    BY <1>0, <2>1, <2>2 DEF Moves, Placed, Holds, Releases, CleansUp, Ensuring, Deleting
  <2>3. CASE q = p /\ proc'[p].pc = proc[p].then
    <3>1. proc[p].then \in {"inspect", "ensure", "cleaned", "mark"} /\ Placed(p)
      <4>1. Placed(p) /\ proc[p].pc = "find" /\ proc[p].then \in Thens
        BY <1>0, <2>1, <2>3 DEF Program, Placed, Holds, Releases, CleansUp, Ensuring, Deleting
      <4> QED BY <4>1 DEF Placed, Thens, Deleting
    <3>2. proc'[p].rec = proc[p].rec /\ proc'[p].then = proc[p].then
      BY <2>1 DEF Moves
    <3>3. Placed(p)'
      BY <1>0, <2>1, <2>3, <3>1, <3>2 DEF Placed, Holds, Releases, CleansUp, Ensuring, Deleting
    <3> QED BY <2>3, <3>3
  <2>4. CASE q = p /\ proc'[p].pc \in {"stop", "remove", "gone"}
    BY <1>0, <2>1, <2>4 DEF Moves, Placed, Holds, Releases, CleansUp, Ensuring, Deleting
  <2> QED BY <2>1, <2>2, <2>3, <2>4
<1> USE <1>0 DEF Placed, Holds, Releases, CleansUp, JobInv, Ensuring, Deleting, Program, Thens, Row,
    MayWriteRow, MayWrite, Fenced, Idle, At
<1>5. ASSUME NEW s \in Slots, Claim(s) PROVE Placed(q)'
  BY <1>5 DEF Claim, Goto
<1>6. ASSUME NEW s \in Slots, Lock(s) PROVE Placed(q)'
  BY <1>6 DEF Lock, Goto
<1>7. ASSUME NEW s \in Slots, NotStarted(s) PROVE Placed(q)'
  BY <1>7 DEF NotStarted, Goto
<1>8. ASSUME NEW s \in Slots, Prepare(s) PROVE Placed(q)'
  BY <1>8 DEF Prepare, Goto
<1>9. ASSUME NEW s \in Slots, Reserve(s) PROVE Placed(q)'
  BY <1>9 DEF Reserve
<1>10. ASSUME NEW s \in Slots, Create(s) PROVE Placed(q)'
  BY <1>10 DEF Create, NamedFor, Named
<1>11. ASSUME NEW s \in Slots, CreateConflict(s) PROVE Placed(q)'
  BY <1>11 DEF CreateConflict, Goto
<1>12. ASSUME NEW s \in Slots, Start(s) PROVE Placed(q)'
  BY <1>12 DEF Start, Goto
<1>13. ASSUME NEW s \in Slots, Check(s) PROVE Placed(q)'
  BY <1>13 DEF Check, Goto, NamedFor, Named
<1>14. ASSUME NEW s \in Slots, MarkReady(s) PROVE Placed(q)'
  BY <1>14 DEF MarkReady, Goto
<1>15. ASSUME NEW s \in Slots, MarkFailed(s) PROVE Placed(q)'
  BY <1>15 DEF MarkFailed, Goto, Unlocked
<1>16. ASSUME NEW s \in Slots, EnsureRefused(s) PROVE Placed(q)'
  BY <1>16 DEF EnsureRefused, Goto, Unlocked
<1>17. ASSUME NEW s \in Slots, Finish(s) PROVE Placed(q)'
  BY <1>17 DEF Finish, Goto, Unlocked
<1>18. ASSUME NEW s \in Slots, NEW status \in {"active", "succeeded", "failed"}, Settle(s, status)
       PROVE  Placed(q)'
  BY <1>18 DEF Settle
<1>19. ASSUME NEW s \in Slots, SettleRefused(s) PROVE Placed(q)'
  BY <1>19 DEF SettleRefused
<1>20. ASSUME NEW s \in Slots, Cleanup(s) PROVE Placed(q)'
  BY <1>20 DEF Cleanup, Goto
<1>21. ASSUME NEW s \in Slots, Cleaned(s) PROVE Placed(q)'
  BY <1>21 DEF Cleaned, Goto, Unlocked
<1>22. ASSUME NEW s \in Slots, RequestRelease(s) PROVE Placed(q)'
  BY <1>22 DEF RequestRelease, ReleaseRequested
<1>23. ASSUME NEW s \in Slots, Acknowledge(s) PROVE Placed(q)'
  BY <1>23 DEF Acknowledge
<1>24. ASSUME NEW s \in Slots, CancellationRefused(s) PROVE Placed(q)'
  BY <1>24 DEF CancellationRefused
<1>25. ASSUME NEW s \in Slots, Rebind(s) PROVE Placed(q)'
  BY <1>25 DEF Rebind
<1>26. ASSUME NEW p \in Reconcilers, List(p) PROVE Placed(q)'
  BY <1>26 DEF List, Listed
<1>27. ASSUME NEW p \in Processes, Stop(p) PROVE Placed(q)'
  BY <1>27 DEF Stop, Goto, FailedCall, Unlocked
<1>28. ASSUME NEW p \in Processes, Remove(p) PROVE Placed(q)'
  BY <1>28 DEF Remove, Goto, FailedCall, Unlocked
<1>29. ASSUME NEW p \in Processes, Gone(p) PROVE Placed(q)'
  BY <1>29 DEF Gone
<1>30. ASSUME NEW p \in Processes, MarkReleased(p) PROVE Placed(q)'
  BY <1>30 DEF MarkReleased, Goto
<1>31. ASSUME NEW p \in Processes, Crash(p) PROVE Placed(q)'
  BY <1>31 DEF Crash, Fault, Unlocked
<1>32. ASSUME NEW p \in Processes, CallFails(p) PROVE Placed(q)'
  BY <1>32 DEF CallFails, Fault, FailedCall, Goto, Unlocked
<1>33. ASSUME NEW o \in objects, Reap(o) PROVE Placed(q)'
  BY <1>33 DEF Reap
<1>34. ASSUME NEW o \in objects, ObjectFails(o) PROVE Placed(q)'
  BY <1>34 DEF ObjectFails, Fault
<1>35. ASSUME Cancel PROVE Placed(q)'
  BY <1>35 DEF Cancel
<1>36. ASSUME ContinueJob PROVE Placed(q)'
  BY <1>36 DEF ContinueJob
<1>37. ASSUME LeaseExpires PROVE Placed(q)'
  BY <1>37 DEF LeaseExpires, Fault
<1>38. ASSUME LockBreaks PROVE Placed(q)'
  BY <1>38 DEF LockBreaks, Fault
<1> QED BY <1>1, <1>2, <1>3, <1>4, <1>5, <1>6, <1>7, <1>8, <1>9, <1>10, <1>11, <1>12, <1>13, <1>14, <1>15,
    <1>16, <1>17, <1>18, <1>19, <1>20, <1>21, <1>22, <1>23, <1>24, <1>25, <1>26, <1>27, <1>28, <1>29, <1>30,
    <1>31, <1>32, <1>33, <1>34, <1>35, <1>36, <1>37, <1>38 DEF Next, EnsureStep, EndStep, DeleteStep, FaultStep

\* A release is overtaken only by a new generation.
LEMMA NextOutdated ==
  ASSUME IInv, NEW q \in Processes, Next
  PROVE  Outdated(q)'
<1>0. /\ TypeOK /\ JobInv /\ RowInv /\ Placed(q) /\ Outdated(q) /\ proc \in [Processes -> Program]
      /\ row \in Row
      /\ Slots \subseteq Processes /\ Reconcilers \subseteq Processes /\ Slots \cap Reconcilers = {}
      /\ \A s \in Slots : s # None
  BY Constants DEF IInv, TypeOK, OfProcess, Program, Thens
<1>1. ASSUME NEW s \in Slots, EnsureRow(s) PROVE Outdated(q)'
  BY <1>1, <1>0, EnsureRowMoves DEF EnsureRow, At, RowInv, Program, Row, Outdated, Releases, Deleting, Ensuring
<1>2. ASSUME NEW s \in Slots, Inspect(s) PROVE Outdated(q)'
  <2>1. proc'[s].pc \in {"create", "failed", "ready", "check", "start", "stop", "remove", "gone"}
    BY <1>2, <1>0, InspectMoves, Dispositions DEF NamedFor, Named
  <2>2. Moves(s) /\ proc[s].pc = "inspect" /\ row' = row
    BY <1>2, <1>0, InspectMoves DEF Inspect, At
  <2> QED BY <1>0, <2>1, <2>2 DEF Placed, Moves, Outdated, Releases, Deleting, Ensuring
<1>3. ASSUME NEW s \in Slots, Observe(s) PROVE Outdated(q)'
  <2>1. proc'[s].pc \in {"inspect", "failed", "ready", "check", "start", "stop", "remove", "gone"}
    BY <1>3, <1>0, ObserveMoves, Dispositions DEF NamedFor, Named
  <2>2. Moves(s) /\ proc[s].pc = "observe" /\ row' = row
    BY <1>3, <1>0, ObserveMoves DEF Observe, At
  <2> QED BY <1>0, <2>1, <2>2 DEF Placed, Moves, Outdated, Releases, Deleting, Ensuring
<1>4. ASSUME NEW p \in Processes, Find(p) PROVE Outdated(q)'
  <2>1. proc'[p].pc \in {"stop", "remove", "gone", proc[p].then} /\ Moves(p) /\ proc[p].pc = "find" /\ row' = row
    BY <1>4, <1>0, FindMoves DEF Find, At, Deletion
  <2> QED BY <1>0, <2>1 DEF Program, Placed, Thens, Moves, Outdated, Releases, Deleting, Ensuring
<1> USE <1>0 DEF Outdated, Releases, Ensuring, Deleting, Program, Row, RowInv, MayWriteRow, MayWrite,
    Fenced, Idle, At
<1>5. ASSUME NEW s \in Slots, Claim(s) PROVE Outdated(q)'
  BY <1>5 DEF Claim, Goto
<1>6. ASSUME NEW s \in Slots, Lock(s) PROVE Outdated(q)'
  BY <1>6 DEF Lock, Goto
<1>7. ASSUME NEW s \in Slots, NotStarted(s) PROVE Outdated(q)'
  BY <1>7 DEF NotStarted, Goto
<1>8. ASSUME NEW s \in Slots, Prepare(s) PROVE Outdated(q)'
  BY <1>8 DEF Prepare, Goto
<1>9. ASSUME NEW s \in Slots, Reserve(s) PROVE Outdated(q)'
  BY <1>9 DEF Reserve, Located
<1>10. ASSUME NEW s \in Slots, Create(s) PROVE Outdated(q)'
  BY <1>10 DEF Create, NamedFor, Named
<1>11. ASSUME NEW s \in Slots, CreateConflict(s) PROVE Outdated(q)'
  BY <1>11 DEF CreateConflict, Goto
<1>12. ASSUME NEW s \in Slots, Start(s) PROVE Outdated(q)'
  BY <1>12 DEF Start, Goto
<1>13. ASSUME NEW s \in Slots, Check(s) PROVE Outdated(q)'
  BY <1>13 DEF Check, Goto, NamedFor, Named
<1>14. ASSUME NEW s \in Slots, MarkReady(s) PROVE Outdated(q)'
  BY <1>14 DEF MarkReady, Goto
<1>15. ASSUME NEW s \in Slots, MarkFailed(s) PROVE Outdated(q)'
  BY <1>15 DEF MarkFailed, Goto, Unlocked
<1>16. ASSUME NEW s \in Slots, EnsureRefused(s) PROVE Outdated(q)'
  BY <1>16 DEF EnsureRefused, Goto, Unlocked
<1>17. ASSUME NEW s \in Slots, Finish(s) PROVE Outdated(q)'
  BY <1>17 DEF Finish, Goto, Unlocked
<1>18. ASSUME NEW s \in Slots, NEW status \in {"active", "succeeded", "failed"}, Settle(s, status)
       PROVE  Outdated(q)'
  BY <1>18 DEF Settle, ReleaseRequested
<1>19. ASSUME NEW s \in Slots, SettleRefused(s) PROVE Outdated(q)'
  BY <1>19 DEF SettleRefused
<1>20. ASSUME NEW s \in Slots, Cleanup(s) PROVE Outdated(q)'
  BY <1>20 DEF Cleanup, Goto
<1>21. ASSUME NEW s \in Slots, Cleaned(s) PROVE Outdated(q)'
  BY <1>21 DEF Cleaned, Goto, Unlocked
<1>22. ASSUME NEW s \in Slots, RequestRelease(s) PROVE Outdated(q)'
  BY <1>22 DEF RequestRelease, ReleaseRequested
<1>23. ASSUME NEW s \in Slots, Acknowledge(s) PROVE Outdated(q)'
  BY <1>23 DEF Acknowledge
<1>24. ASSUME NEW s \in Slots, CancellationRefused(s) PROVE Outdated(q)'
  BY <1>24 DEF CancellationRefused
<1>25. ASSUME NEW s \in Slots, Rebind(s) PROVE Outdated(q)'
  BY <1>25 DEF Rebind
<1>26. ASSUME NEW p \in Reconcilers, List(p) PROVE Outdated(q)'
  BY <1>26 DEF List, Listed
<1>27. ASSUME NEW p \in Processes, Stop(p) PROVE Outdated(q)'
  BY <1>27 DEF Stop, Goto, FailedCall, Unlocked, Placed, Thens
<1>28. ASSUME NEW p \in Processes, Remove(p) PROVE Outdated(q)'
  BY <1>28 DEF Remove, Goto, FailedCall, Unlocked, Placed, Thens
<1>29. ASSUME NEW p \in Processes, Gone(p) PROVE Outdated(q)'
  BY <1>29 DEF Gone, Placed, Thens
<1>30. ASSUME NEW p \in Processes, MarkReleased(p) PROVE Outdated(q)'
  BY <1>30 DEF MarkReleased, Goto
<1>31. ASSUME NEW p \in Processes, Crash(p) PROVE Outdated(q)'
  BY <1>31 DEF Crash, Fault, Unlocked
<1>32. ASSUME NEW p \in Processes, CallFails(p) PROVE Outdated(q)'
  BY <1>32 DEF CallFails, Fault, FailedCall, Goto, Unlocked
<1>33. ASSUME NEW o \in objects, Reap(o) PROVE Outdated(q)'
  BY <1>33 DEF Reap
<1>34. ASSUME NEW o \in objects, ObjectFails(o) PROVE Outdated(q)'
  BY <1>34 DEF ObjectFails, Fault
<1>35. ASSUME Cancel PROVE Outdated(q)'
  BY <1>35 DEF Cancel, ReleaseRequested
<1>36. ASSUME ContinueJob PROVE Outdated(q)'
  BY <1>36 DEF ContinueJob
<1>37. ASSUME LeaseExpires PROVE Outdated(q)'
  BY <1>37 DEF LeaseExpires, Fault
<1>38. ASSUME LockBreaks PROVE Outdated(q)'
  BY <1>38 DEF LockBreaks, Fault
<1> QED BY <1>1, <1>2, <1>3, <1>4, <1>5, <1>6, <1>7, <1>8, <1>9, <1>10, <1>11, <1>12, <1>13, <1>14, <1>15,
    <1>16, <1>17, <1>18, <1>19, <1>20, <1>21, <1>22, <1>23, <1>24, <1>25, <1>26, <1>27, <1>28, <1>29, <1>30,
    <1>31, <1>32, <1>33, <1>34, <1>35, <1>36, <1>37, <1>38 DEF Next, EnsureStep, EndStep, DeleteStep, FaultStep

\* Of the objects before a step, a process knows those of its generation.
LEMMA KnownBefore ==
  ASSUME IInv, NEW q \in Processes, Next
  PROVE  \A x \in objects :
            /\ proc'[q].pc \in {"stop", "remove", "gone", "ready"} /\ x.id = proc'[q].obj => x.gen = proc'[q].rec.gen
            /\ x.id \in RefIds(proc'[q].rec) => x.gen = proc'[q].rec.gen
<1>0. /\ TypeOK /\ RowInv /\ Placed(q) /\ Known(q) /\ RowKnown /\ proc \in [Processes -> Program]
      /\ row \in Row
      /\ Slots \subseteq Processes /\ Reconcilers \subseteq Processes /\ None \notin Ids
  BY Constants DEF IInv, TypeOK, OfProcess, Program, Thens
<1>a. \A o \in objects : o.id \in Ids /\ o.id # None
  BY <1>0 DEF TypeOK, Object
<1> DEFINE K == \A x \in objects :
            /\ proc'[q].pc \in {"stop", "remove", "gone", "ready"} /\ x.id = proc'[q].obj => x.gen = proc'[q].rec.gen
            /\ x.id \in RefIds(proc'[q].rec) => x.gen = proc'[q].rec.gen
<1>1. ASSUME NEW s \in Slots, EnsureRow(s) PROVE K
  BY <1>1, <1>0, <1>a, EnsureRowMoves DEF Known, RowKnown, RefIds
<1>2. ASSUME NEW s \in Slots, Inspect(s) PROVE K
  <2>1. Moves(s)
    BY <1>2, <1>0, InspectMoves
  <2>2. CASE proc'[s].pc = "create"
    BY <1>0, <2>1, <2>2 DEF Moves, Known, RefIds
  <2>3. ASSUME NEW o \in NamedFor(s), proc'[s].obj = o.id PROVE K
    <3>1. o \in objects /\ o.gen = proc[s].rec.gen /\ \A n \in objects : n.id = o.id => n = o
      BY <1>0 DEF NamedFor, Named, TypeOK
    <3> QED BY <1>0, <2>1, <2>3, <3>1 DEF Moves, Known, RefIds
  <2> QED BY <1>2, <1>0, <2>2, <2>3, InspectMoves
<1>3. ASSUME NEW s \in Slots, Observe(s) PROVE K
  <2>1. Moves(s)
    BY <1>3, <1>0, ObserveMoves
  <2>2. CASE proc'[s].pc = "failed" /\ proc'[s].obj = proc[s].obj
    BY <1>0, <2>1, <2>2 DEF Moves, Known, RefIds
  <2>3. ASSUME NEW o \in NamedFor(s), proc'[s].obj = o.id PROVE K
    <3>1. o \in objects /\ o.gen = proc[s].rec.gen /\ \A n \in objects : n.id = o.id => n = o
      BY <1>0 DEF NamedFor, Named, TypeOK
    <3> QED BY <1>0, <2>1, <2>3, <3>1 DEF Moves, Known, RefIds
  <2> QED BY <1>3, <1>0, <2>2, <2>3, ObserveMoves
<1>4. ASSUME NEW s \in Slots, Check(s) PROVE K
  <2>1. CASE proc' = [proc EXCEPT ![s].pc = "failed"]
    BY <1>0, <2>1 DEF Known, RefIds, Program
  <2>2. ASSUME NEW o \in NamedFor(s), proc' = [proc EXCEPT ![s].pc = "ready", ![s].obj = o.id] PROVE K
    <3>1. o \in objects /\ o.gen = proc[s].rec.gen /\ \A n \in objects : n.id = o.id => n = o
      BY <1>0 DEF NamedFor, Named, TypeOK
    <3> QED BY <1>0, <2>2, <3>1 DEF Known, RefIds, Program
  <2> QED BY <1>4, <2>1, <2>2 DEF Check, Goto
<1>5. ASSUME NEW p \in Processes, Find(p) PROVE K
  <2>1. Moves(p) /\ proc[p].pc = "find"
    BY <1>5, <1>0, FindMoves DEF Find, At
  <2>2. CASE proc'[p].pc = proc[p].then
    BY <1>0, <2>1, <2>2 DEF Moves, Known, RefIds, Program, Thens
  <2>3. ASSUME NEW o \in ReleaseTarget(p), proc'[p].obj = o.id PROVE K
    <3>1. q = p => o.gen = proc[p].rec.gen
      BY <1>0 DEF ReleaseTarget, NamedFor, Named, Known, RefIds
    <3>2. o \in objects /\ \A n \in objects : n.id = o.id => n = o
      BY <1>0 DEF ReleaseTarget, NamedFor, Named, TypeOK
    <3> QED BY <1>0, <2>1, <2>3, <3>1, <3>2 DEF Moves, Known, RefIds
  <2> QED BY <1>5, <1>0, <2>2, <2>3, FindMoves
<1> USE <1>0, <1>a DEF Known, RowKnown, RefIds, Program, Idle, AbsentRow, At
<1>6. ASSUME NEW s \in Slots, Claim(s) PROVE K
  BY <1>6 DEF Claim, Goto
<1>7. ASSUME NEW s \in Slots, Lock(s) PROVE K
  BY <1>7 DEF Lock, Goto
<1>8. ASSUME NEW s \in Slots, NotStarted(s) PROVE K
  BY <1>8 DEF NotStarted, Goto
<1>9. ASSUME NEW s \in Slots, Prepare(s) PROVE K
  BY <1>9 DEF Prepare, Goto
<1>10. ASSUME NEW s \in Slots, Reserve(s) PROVE K
  BY <1>10 DEF Reserve, Located, MayWriteRow
<1>11. ASSUME NEW s \in Slots, Create(s) PROVE K
  BY <1>11 DEF Create, NamedFor, Named
<1>12. ASSUME NEW s \in Slots, CreateConflict(s) PROVE K
  BY <1>12 DEF CreateConflict, Goto
<1>13. ASSUME NEW s \in Slots, Start(s) PROVE K
  BY <1>13 DEF Start, Goto
<1>14. ASSUME NEW s \in Slots, MarkReady(s) PROVE K
  BY <1>14 DEF MarkReady, Goto
<1>15. ASSUME NEW s \in Slots, MarkFailed(s) PROVE K
  BY <1>15 DEF MarkFailed, Goto, Unlocked
<1>16. ASSUME NEW s \in Slots, EnsureRefused(s) PROVE K
  BY <1>16 DEF EnsureRefused, Goto, Unlocked
<1>17. ASSUME NEW s \in Slots, Finish(s) PROVE K
  BY <1>17 DEF Finish, Goto, Unlocked
<1>18. ASSUME NEW s \in Slots, NEW status \in {"active", "succeeded", "failed"}, Settle(s, status)
       PROVE  K
  BY <1>18 DEF Settle
<1>19. ASSUME NEW s \in Slots, SettleRefused(s) PROVE K
  BY <1>19 DEF SettleRefused
<1>20. ASSUME NEW s \in Slots, Cleanup(s) PROVE K
  BY <1>20 DEF Cleanup, Goto
<1>21. ASSUME NEW s \in Slots, Cleaned(s) PROVE K
  BY <1>21 DEF Cleaned, Goto, Unlocked
<1>22. ASSUME NEW s \in Slots, RequestRelease(s) PROVE K
  BY <1>22 DEF RequestRelease, ReleaseRequested, Row
<1>23. ASSUME NEW s \in Slots, Acknowledge(s) PROVE K
  BY <1>23 DEF Acknowledge
<1>24. ASSUME NEW s \in Slots, CancellationRefused(s) PROVE K
  BY <1>24 DEF CancellationRefused
<1>25. ASSUME NEW s \in Slots, Rebind(s) PROVE K
  BY <1>25 DEF Rebind
<1>26. ASSUME NEW p \in Reconcilers, List(p) PROVE K
  BY <1>26 DEF List, Listed
<1>27. ASSUME NEW p \in Processes, Stop(p) PROVE K
  BY <1>27 DEF Stop, Goto, FailedCall, Unlocked, Placed, Thens, Holds, Releases, Deleting, Ensuring
<1>28. ASSUME NEW p \in Processes, Remove(p) PROVE K
  BY <1>28 DEF Remove, Goto, FailedCall, Unlocked, Placed, Thens, Holds, Releases, Deleting, Ensuring
<1>29. ASSUME NEW p \in Processes, Gone(p) PROVE K
  BY <1>29, <1>a DEF Gone, Placed, Thens, Deleting, Ensuring
<1>30. ASSUME NEW p \in Processes, MarkReleased(p) PROVE K
  BY <1>30 DEF MarkReleased, Goto
<1>31. ASSUME NEW p \in Processes, Crash(p) PROVE K
  BY <1>31 DEF Crash, Fault, Unlocked
<1>32. ASSUME NEW p \in Processes, CallFails(p) PROVE K
  BY <1>32 DEF CallFails, Fault, FailedCall, Goto, Unlocked
<1>33. ASSUME NEW o \in objects, Reap(o) PROVE K
  BY <1>33 DEF Reap
<1>34. ASSUME NEW o \in objects, ObjectFails(o) PROVE K
  BY <1>34 DEF ObjectFails, Fault
<1>35. ASSUME Cancel PROVE K
  BY <1>35 DEF Cancel
<1>36. ASSUME ContinueJob PROVE K
  BY <1>36 DEF ContinueJob
<1>37. ASSUME LeaseExpires PROVE K
  BY <1>37 DEF LeaseExpires, Fault
<1>38. ASSUME LockBreaks PROVE K
  BY <1>38 DEF LockBreaks, Fault
<1> QED BY <1>1, <1>2, <1>3, <1>4, <1>5, <1>6, <1>7, <1>8, <1>9, <1>10, <1>11, <1>12, <1>13, <1>14, <1>15,
    <1>16, <1>17, <1>18, <1>19, <1>20, <1>21, <1>22, <1>23, <1>24, <1>25, <1>26, <1>27, <1>28, <1>29, <1>30,
    <1>31, <1>32, <1>33, <1>34, <1>35, <1>36, <1>37, <1>38 DEF Next, EnsureStep, EndStep, DeleteStep, FaultStep

\* And so does the row.
LEMMA RowKnownBefore ==
  ASSUME IInv, Next
  PROVE  \A x \in objects : x.id \in RefIds(row') => x.gen = row'.gen
<1>0. /\ TypeOK /\ RowInv /\ RowKnown /\ (\A p \in Processes : Placed(p) /\ Known(p))
      /\ proc \in [Processes -> Program] /\ row \in Row
      /\ Slots \subseteq Processes /\ None \notin Ids
  BY Constants DEF IInv, TypeOK, OfProcess, Program, Thens
<1>a. \A o \in objects : o.id \in Ids /\ o.id # None
  BY <1>0 DEF TypeOK, Object
<1>1. CASE UNCHANGED row
  BY <1>1, <1>0, <1>a DEF RowKnown, RefIds, Row
<1>2. ASSUME NEW s \in Slots, EnsureRow(s)
      PROVE  \A x \in objects : x.id \in RefIds(row') => x.gen = row'.gen
  BY <1>2, <1>0, <1>a, EnsureRowMoves DEF RowKnown, RefIds
<1>3. ASSUME NEW s \in Slots, MarkReady(s)
      PROVE  \A x \in objects : x.id \in RefIds(row') => x.gen = row'.gen
  <2>1. row'.gen = row.gen /\ row'.ref = [ns |-> Target(s), id |-> proc[s].obj]
    BY <1>3, <1>0 DEF MarkReady, Row
  <2>2. RefIds(row') \subseteq {proc[s].obj}
    BY <2>1 DEF RefIds
  <2>3. Known(s) /\ proc[s].pc = "ready" /\ row.gen = proc[s].rec.gen
    BY <1>3, <1>0 DEF MarkReady, MayWriteRow, At
  <2> QED BY <2>1, <2>2, <2>3 DEF Known
<1> USE <1>0, <1>a DEF RowKnown, RefIds, Row
<1>4. ASSUME NEW s \in Slots, Reserve(s)
      PROVE  \A x \in objects : x.id \in RefIds(row') => x.gen = row'.gen
  BY <1>4 DEF Reserve, Located
<1>5. ASSUME NEW s \in Slots, MarkFailed(s)
      PROVE  \A x \in objects : x.id \in RefIds(row') => x.gen = row'.gen
  BY <1>5 DEF MarkFailed, Goto, Unlocked
<1>6. ASSUME NEW s \in Slots, NEW status \in {"active", "succeeded", "failed"}, Settle(s, status)
      PROVE  \A x \in objects : x.id \in RefIds(row') => x.gen = row'.gen
  BY <1>6 DEF Settle, ReleaseRequested
<1>7. ASSUME NEW s \in Slots, RequestRelease(s)
      PROVE  \A x \in objects : x.id \in RefIds(row') => x.gen = row'.gen
  BY <1>7 DEF RequestRelease, ReleaseRequested
<1>8. ASSUME NEW p \in Processes, MarkReleased(p)
      PROVE  \A x \in objects : x.id \in RefIds(row') => x.gen = row'.gen
  BY <1>8 DEF MarkReleased, Goto
<1>9. ASSUME Cancel PROVE \A x \in objects : x.id \in RefIds(row') => x.gen = row'.gen
  BY <1>9 DEF Cancel, ReleaseRequested
<1>10. ASSUME ContinueJob PROVE \A x \in objects : x.id \in RefIds(row') => x.gen = row'.gen
  BY <1>10 DEF ContinueJob
<1> QED BY <1>1, <1>2, <1>3, <1>4, <1>5, <1>6, <1>7, <1>8, <1>9, <1>10 DEF Next, EnsureStep, EndStep,
    DeleteStep, FaultStep, Fault, Claim, Lock, NotStarted, Prepare, Inspect, Create, CreateConflict, Observe,
    Start, Check, EnsureRefused, Finish, SettleRefused, Cleanup, Cleaned, Acknowledge, CancellationRefused,
    Rebind, List, Find, Stop, Remove, Gone, Crash, CallFails, Reap, ObjectFails, LeaseExpires, LockBreaks

\* The new object is known to nobody.
LEMMA CreatedIsNew ==
  ASSUME IInv, NEW s \in Slots, Create(s)
  PROVE  \E new \in Object :
            /\ objects' = objects \cup {new} /\ new.ns = Target(s) /\ new.gen = proc[s].rec.gen
            /\ new.phase = (IF Kubernetes THEN "running" ELSE "created")
            /\ new.id \notin RefIds(row)
            /\ \A p \in Processes : new.id # proc[p].obj /\ new.id \notin RefIds(proc[p].rec)
            /\ \A o \in objects : o.id # new.id
            /\ proc'[s].pc = (IF Kubernetes THEN "inspect" ELSE "observe") /\ Moves(s)
            /\ lost' = lost \ {new.id} /\ proc'[s].obj = new.id
<1>0. PICK i \in Unused : i = Min(Unused)
  BY UnusedIds DEF Create
<1> DEFINE new == [id |-> i, ns |-> Target(s), gen |-> proc[s].rec.gen, image |-> Image[s],
                   phase |-> IF Kubernetes THEN "running" ELSE "created"]
<1>1. objects' = objects \cup {new} /\ lost' = lost \ {i}
  BY <1>0 DEF Create
<1>2. /\ i \notin RefIds(row)
      /\ \A p \in Processes : i # proc[p].obj /\ i \notin RefIds(proc[p].rec)
      /\ \A o \in objects : o.id # i
  BY DEF Unused
<1>3. new \in Object
  <2>1. Next
    BY DEF Next, EnsureStep
  <2>2. objects' \subseteq Object
    BY <2>1, NextObjects
  <2> QED BY <1>1, <2>2
<1>4. proc'[s].pc = (IF Kubernetes THEN "inspect" ELSE "observe") /\ Moves(s) /\ proc'[s].obj = i
  BY <1>0, Constants DEF Create, Moves, IInv, TypeOK
<1> WITNESS new \in Object
<1> QED BY <1>1, <1>2, <1>4

\* Ids are known for their own generation after a step, too.
LEMMA NextKnown ==
  ASSUME IInv, Next
  PROVE  RowKnown' /\ \A q \in Processes : Known(q)'
<1>1. CASE \A n \in objects' : \E o \in objects : Same(n, o)
  <2>1. RowKnown'
    BY <1>1, RowKnownBefore DEF RowKnown, Same
  <2>2. ASSUME NEW q \in Processes PROVE Known(q)'
    BY <1>1, KnownBefore DEF Known, Same
  <2> QED BY <2>1, <2>2
<1>2. ASSUME NEW s \in Slots, Create(s) PROVE RowKnown' /\ \A q \in Processes : Known(q)'
  <2>1. PICK new \in Object :
            /\ objects' = objects \cup {new} /\ new.id \notin RefIds(row)
            /\ \A p \in Processes : new.id # proc[p].obj /\ new.id \notin RefIds(proc[p].rec)
            /\ proc'[s].pc = (IF Kubernetes THEN "inspect" ELSE "observe") /\ Moves(s)
    BY <1>2, CreatedIsNew
  <2>2. RowKnown'
    BY <1>2, <2>1 DEF IInv, RowKnown, Create
  <2>3. ASSUME NEW q \in Processes PROVE Known(q)'
    <3>1. CASE q = s
      BY <2>1, <3>1, KnownBefore DEF Known, Moves
    <3>2. CASE q # s
      BY <2>1, <3>2, KnownBefore DEF Known, Moves
    <3> QED BY <3>1, <3>2
  <2> QED BY <2>2, <2>3
<1> QED BY <1>1, <1>2, NextObjects

-----------------------------------------------------------------------------
(* What holds while the lock is kept.                                      *)

\* A lock that was lost stays lost.
LEMMA LockWasKept ==
  ASSUME TypeOK, LockKept', Next
  PROVE  LockKept
<1>a. TheLock \notin Ids
  BY Constants
<1>1. CASE UNCHANGED lost
  BY <1>1 DEF LockKept
<1>2. ASSUME NEW s \in Slots, Create(s) PROVE LockKept
  <2>1. lost \subseteq lost' \cup {Min(Unused)} /\ Min(Unused) \in Unused
    BY <1>2, UnusedIds DEF Create
  <2>2. Unused \subseteq Ids
    BY DEF Unused
  <2>3. Min(Unused) # TheLock
    BY <1>a, <2>1, <2>2
  <2> QED BY <2>1, <2>3 DEF LockKept
<1> USE  DEF LockKept
<1>3. ASSUME NEW o \in objects, ObjectFails(o) PROVE LockKept
  BY <1>3 DEF ObjectFails, Fault
<1>4. ASSUME LockBreaks PROVE LockKept
  BY <1>4 DEF LockBreaks, Fault
<1> QED BY <1>1, <1>2, <1>3, <1>4 DEF Next, EnsureStep, EndStep, DeleteStep, FaultStep, Fault, Claim, Lock,
    NotStarted, Prepare, EnsureRow, Reserve, Inspect, CreateConflict, Observe, Start, Check, MarkReady,
    MarkFailed, EnsureRefused, Finish, Settle, SettleRefused, Cleanup, Cleaned, RequestRelease, Acknowledge,
    CancellationRefused, Rebind, List, Find, Stop, Remove, Gone, MarkReleased, Crash, CallFails, Reap, Cancel,
    ContinueJob, LeaseExpires

\* Whoever acts as the holder of the lock is it.
LEMMA NextLocked ==
  ASSUME IInv, LockKept, LockKept', UnderLock, NEW q \in Slots, Next
  PROVE  (Locked(q) => lock = q)'
<1>0. /\ TypeOK /\ Placed(q) /\ (Locked(q) => lock = q) /\ proc \in [Processes -> Program]
      /\ Slots \subseteq Processes /\ Reconcilers \subseteq Processes /\ Slots \cap Reconcilers = {}
      /\ \A s \in Slots : s # None
  BY Constants DEF IInv, TypeOK, OfProcess, Program, Thens, UnderLock, OfSlot
<1>1. ASSUME NEW s \in Slots, EnsureRow(s) PROVE (Locked(q) => lock = q)'
  <2>1. RowInv
    BY DEF IInv
  <2> QED BY <1>1, <1>0, <2>1, EnsureRowMoves DEF EnsureRow, At, Locked, Holds, Ensuring, Deleting
<1>2. ASSUME NEW s \in Slots, Inspect(s) PROVE (Locked(q) => lock = q)'
  <2>1. proc'[s].pc \in {"create", "failed", "ready", "check", "start", "stop", "remove", "gone"}
    BY <1>2, <1>0, InspectMoves, Dispositions DEF NamedFor, Named
  <2>2. Moves(s) /\ proc[s].pc = "inspect" /\ lock' = lock
    BY <1>2, <1>0, InspectMoves DEF Inspect, At
  <2> QED BY <1>0, <2>1, <2>2 DEF Placed, Moves, Locked, Holds, Ensuring, Deleting
<1>3. ASSUME NEW s \in Slots, Observe(s) PROVE (Locked(q) => lock = q)'
  <2>1. proc'[s].pc \in {"inspect", "failed", "ready", "check", "start", "stop", "remove", "gone"}
    BY <1>3, <1>0, ObserveMoves, Dispositions DEF NamedFor, Named
  <2>2. Moves(s) /\ proc[s].pc = "observe" /\ lock' = lock
    BY <1>3, <1>0, ObserveMoves DEF Observe, At
  <2> QED BY <1>0, <2>1, <2>2 DEF Placed, Moves, Locked, Holds, Ensuring, Deleting
<1>4. ASSUME NEW p \in Processes, Find(p) PROVE (Locked(q) => lock = q)'
  <2>1. proc'[p].pc \in {"stop", "remove", "gone", proc[p].then} /\ Moves(p) /\ proc[p].pc = "find" /\ lock' = lock
    BY <1>4, <1>0, FindMoves DEF Find, At, Deletion
  <2> QED BY <1>0, <2>1 DEF Program, Placed, Thens, Moves, Locked, Holds, Ensuring, Deleting
<1> USE <1>0 DEF Locked, Holds, Ensuring, Deleting, Program, Thens, Idle, At
<1>5. ASSUME NEW s \in Slots, Claim(s) PROVE (Locked(q) => lock = q)'
  BY <1>5 DEF Claim, Goto
<1>6. ASSUME NEW s \in Slots, Lock(s) PROVE (Locked(q) => lock = q)'
  BY <1>6 DEF Lock, Goto
<1>7. ASSUME NEW s \in Slots, NotStarted(s) PROVE (Locked(q) => lock = q)'
  BY <1>7 DEF NotStarted, Goto
<1>8. ASSUME NEW s \in Slots, Prepare(s) PROVE (Locked(q) => lock = q)'
  BY <1>8 DEF Prepare, Goto
<1>9. ASSUME NEW s \in Slots, Reserve(s) PROVE (Locked(q) => lock = q)'
  BY <1>9 DEF Reserve
<1>10. ASSUME NEW s \in Slots, Create(s) PROVE (Locked(q) => lock = q)'
  BY <1>10 DEF Create, NamedFor, Named
<1>11. ASSUME NEW s \in Slots, CreateConflict(s) PROVE (Locked(q) => lock = q)'
  BY <1>11 DEF CreateConflict, Goto
<1>12. ASSUME NEW s \in Slots, Start(s) PROVE (Locked(q) => lock = q)'
  BY <1>12 DEF Start, Goto
<1>13. ASSUME NEW s \in Slots, Check(s) PROVE (Locked(q) => lock = q)'
  BY <1>13 DEF Check, Goto, NamedFor, Named
<1>14. ASSUME NEW s \in Slots, MarkReady(s) PROVE (Locked(q) => lock = q)'
  BY <1>14 DEF MarkReady, Goto
<1>15. ASSUME NEW s \in Slots, MarkFailed(s) PROVE (Locked(q) => lock = q)'
  BY <1>15 DEF MarkFailed, Goto, Unlocked
<1>16. ASSUME NEW s \in Slots, EnsureRefused(s) PROVE (Locked(q) => lock = q)'
  BY <1>16 DEF EnsureRefused, Goto, Unlocked
<1>17. ASSUME NEW s \in Slots, Finish(s) PROVE (Locked(q) => lock = q)'
  BY <1>17 DEF Finish, Goto, Unlocked
<1>18. ASSUME NEW s \in Slots, NEW status \in {"active", "succeeded", "failed"}, Settle(s, status)
       PROVE  (Locked(q) => lock = q)'
  BY <1>18 DEF Settle
<1>19. ASSUME NEW s \in Slots, SettleRefused(s) PROVE (Locked(q) => lock = q)'
  BY <1>19 DEF SettleRefused
<1>20. ASSUME NEW s \in Slots, Cleanup(s) PROVE (Locked(q) => lock = q)'
  BY <1>20 DEF Cleanup, Goto
<1>21. ASSUME NEW s \in Slots, Cleaned(s) PROVE (Locked(q) => lock = q)'
  BY <1>21 DEF Cleaned, Goto, Unlocked
<1>22. ASSUME NEW s \in Slots, RequestRelease(s) PROVE (Locked(q) => lock = q)'
  BY <1>22 DEF RequestRelease
<1>23. ASSUME NEW s \in Slots, Acknowledge(s) PROVE (Locked(q) => lock = q)'
  BY <1>23 DEF Acknowledge
<1>24. ASSUME NEW s \in Slots, CancellationRefused(s) PROVE (Locked(q) => lock = q)'
  BY <1>24 DEF CancellationRefused
<1>25. ASSUME NEW s \in Slots, Rebind(s) PROVE (Locked(q) => lock = q)'
  BY <1>25 DEF Rebind
<1>26. ASSUME NEW p \in Reconcilers, List(p) PROVE (Locked(q) => lock = q)'
  BY <1>26 DEF List, Listed
<1>27. ASSUME NEW p \in Processes, Stop(p) PROVE (Locked(q) => lock = q)'
  BY <1>27 DEF Stop, Goto, FailedCall, Unlocked, Placed, Releases
<1>28. ASSUME NEW p \in Processes, Remove(p) PROVE (Locked(q) => lock = q)'
  BY <1>28 DEF Remove, Goto, FailedCall, Unlocked, Placed, Releases
<1>29. ASSUME NEW p \in Processes, Gone(p) PROVE (Locked(q) => lock = q)'
  BY <1>29 DEF Gone, Placed, Releases
<1>30. ASSUME NEW p \in Processes, MarkReleased(p) PROVE (Locked(q) => lock = q)'
  BY <1>30 DEF MarkReleased, Goto
<1>31. ASSUME NEW p \in Processes, Crash(p) PROVE (Locked(q) => lock = q)'
  BY <1>31 DEF Crash, Fault, Unlocked
<1>32. ASSUME NEW p \in Processes, CallFails(p) PROVE (Locked(q) => lock = q)'
  BY <1>32 DEF CallFails, Fault, FailedCall, Goto, Unlocked, Placed, Releases
<1>33. ASSUME NEW o \in objects, Reap(o) PROVE (Locked(q) => lock = q)'
  BY <1>33 DEF Reap
<1>34. ASSUME NEW o \in objects, ObjectFails(o) PROVE (Locked(q) => lock = q)'
  BY <1>34 DEF ObjectFails, Fault
<1>35. ASSUME Cancel PROVE (Locked(q) => lock = q)'
  BY <1>35 DEF Cancel
<1>36. ASSUME ContinueJob PROVE (Locked(q) => lock = q)'
  BY <1>36 DEF ContinueJob
<1>37. ASSUME LeaseExpires PROVE (Locked(q) => lock = q)'
  BY <1>37 DEF LeaseExpires, Fault
<1>38. ASSUME LockBreaks PROVE (Locked(q) => lock = q)'
  BY <1>38 DEF LockBreaks, Fault, LockKept
<1> QED BY <1>1, <1>2, <1>3, <1>4, <1>5, <1>6, <1>7, <1>8, <1>9, <1>10, <1>11, <1>12, <1>13, <1>14, <1>15,
    <1>16, <1>17, <1>18, <1>19, <1>20, <1>21, <1>22, <1>23, <1>24, <1>25, <1>26, <1>27, <1>28, <1>29, <1>30,
    <1>31, <1>32, <1>33, <1>34, <1>35, <1>36, <1>37, <1>38 DEF Next, EnsureStep, EndStep, DeleteStep, FaultStep

\* The environment is in hand once the row was ensured.
LEMMA HeldBefore ==
  ASSUME IInv, NEW q \in Slots, Holds(q)', Next
  PROVE  Holds(q) \/ EnsureRow(q)
<1>0. TypeOK /\ Placed(q) /\ proc \in [Processes -> Program] /\ Slots \subseteq Processes
      /\ Reconcilers \subseteq Processes /\ Slots \cap Reconcilers = {}
  BY Constants DEF IInv, TypeOK, OfProcess, Program, Thens
<1>1. ASSUME NEW s \in Slots, EnsureRow(s) PROVE Holds(q) \/ EnsureRow(q)
  <2>1. CASE s # q
    <3>1. RowInv
      BY DEF IInv
    <3> QED BY <1>1, <1>0, <2>1, <3>1, EnsureRowMoves DEF Holds
  <2> QED BY <1>1, <2>1
<1>2. ASSUME NEW s \in Slots, Inspect(s) PROVE Holds(q) \/ EnsureRow(q)
  <2>1. proc'[s].pc \in {"create", "failed", "ready", "check", "start", "stop", "remove", "gone"}
    BY <1>2, <1>0, InspectMoves, Dispositions DEF NamedFor, Named
  <2>2. Moves(s) /\ proc[s].pc = "inspect" /\ TRUE
    BY <1>2, <1>0, InspectMoves DEF Inspect, At
  <2> QED BY <1>0, <2>1, <2>2 DEF Placed, Moves, Holds, Ensuring, Deleting
<1>3. ASSUME NEW s \in Slots, Observe(s) PROVE Holds(q) \/ EnsureRow(q)
  <2>1. proc'[s].pc \in {"inspect", "failed", "ready", "check", "start", "stop", "remove", "gone"}
    BY <1>3, <1>0, ObserveMoves, Dispositions DEF NamedFor, Named
  <2>2. Moves(s) /\ proc[s].pc = "observe" /\ TRUE
    BY <1>3, <1>0, ObserveMoves DEF Observe, At
  <2> QED BY <1>0, <2>1, <2>2 DEF Placed, Moves, Holds, Ensuring, Deleting
<1>4. ASSUME NEW p \in Processes, Find(p) PROVE Holds(q) \/ EnsureRow(q)
  <2>1. proc'[p].pc \in {"stop", "remove", "gone", proc[p].then} /\ Moves(p) /\ proc[p].pc = "find" /\ TRUE
    BY <1>4, <1>0, FindMoves DEF Find, At, Deletion
  <2> QED BY <1>0, <2>1 DEF Program, Placed, Thens, Moves, Holds, Ensuring, Deleting
<1> USE <1>0 DEF Holds, Ensuring, Deleting, Program, Thens, Idle, At
<1>5. ASSUME NEW s \in Slots, Claim(s) PROVE Holds(q) \/ EnsureRow(q)
  BY <1>5 DEF Claim, Goto
<1>6. ASSUME NEW s \in Slots, Lock(s) PROVE Holds(q) \/ EnsureRow(q)
  BY <1>6 DEF Lock, Goto
<1>7. ASSUME NEW s \in Slots, NotStarted(s) PROVE Holds(q) \/ EnsureRow(q)
  BY <1>7 DEF NotStarted, Goto
<1>8. ASSUME NEW s \in Slots, Prepare(s) PROVE Holds(q) \/ EnsureRow(q)
  BY <1>8 DEF Prepare, Goto
<1>9. ASSUME NEW s \in Slots, Reserve(s) PROVE Holds(q) \/ EnsureRow(q)
  BY <1>9 DEF Reserve
<1>10. ASSUME NEW s \in Slots, Create(s) PROVE Holds(q) \/ EnsureRow(q)
  BY <1>10 DEF Create, NamedFor, Named
<1>11. ASSUME NEW s \in Slots, CreateConflict(s) PROVE Holds(q) \/ EnsureRow(q)
  BY <1>11 DEF CreateConflict, Goto
<1>12. ASSUME NEW s \in Slots, Start(s) PROVE Holds(q) \/ EnsureRow(q)
  BY <1>12 DEF Start, Goto
<1>13. ASSUME NEW s \in Slots, Check(s) PROVE Holds(q) \/ EnsureRow(q)
  BY <1>13 DEF Check, Goto, NamedFor, Named
<1>14. ASSUME NEW s \in Slots, MarkReady(s) PROVE Holds(q) \/ EnsureRow(q)
  BY <1>14 DEF MarkReady, Goto
<1>15. ASSUME NEW s \in Slots, MarkFailed(s) PROVE Holds(q) \/ EnsureRow(q)
  BY <1>15 DEF MarkFailed, Goto, Unlocked
<1>16. ASSUME NEW s \in Slots, EnsureRefused(s) PROVE Holds(q) \/ EnsureRow(q)
  BY <1>16 DEF EnsureRefused, Goto, Unlocked
<1>17. ASSUME NEW s \in Slots, Finish(s) PROVE Holds(q) \/ EnsureRow(q)
  BY <1>17 DEF Finish, Goto, Unlocked
<1>18. ASSUME NEW s \in Slots, NEW status \in {"active", "succeeded", "failed"}, Settle(s, status)
       PROVE  Holds(q) \/ EnsureRow(q)
  BY <1>18 DEF Settle
<1>19. ASSUME NEW s \in Slots, SettleRefused(s) PROVE Holds(q) \/ EnsureRow(q)
  BY <1>19 DEF SettleRefused
<1>20. ASSUME NEW s \in Slots, Cleanup(s) PROVE Holds(q) \/ EnsureRow(q)
  BY <1>20 DEF Cleanup, Goto
<1>21. ASSUME NEW s \in Slots, Cleaned(s) PROVE Holds(q) \/ EnsureRow(q)
  BY <1>21 DEF Cleaned, Goto, Unlocked
<1>22. ASSUME NEW s \in Slots, RequestRelease(s) PROVE Holds(q) \/ EnsureRow(q)
  BY <1>22 DEF RequestRelease
<1>23. ASSUME NEW s \in Slots, Acknowledge(s) PROVE Holds(q) \/ EnsureRow(q)
  BY <1>23 DEF Acknowledge
<1>24. ASSUME NEW s \in Slots, CancellationRefused(s) PROVE Holds(q) \/ EnsureRow(q)
  BY <1>24 DEF CancellationRefused
<1>25. ASSUME NEW s \in Slots, Rebind(s) PROVE Holds(q) \/ EnsureRow(q)
  BY <1>25 DEF Rebind
<1>26. ASSUME NEW p \in Reconcilers, List(p) PROVE Holds(q) \/ EnsureRow(q)
  BY <1>26 DEF List, Listed
<1>27. ASSUME NEW p \in Processes, Stop(p) PROVE Holds(q) \/ EnsureRow(q)
  BY <1>27 DEF Stop, Goto, FailedCall, Unlocked, Placed, Releases
<1>28. ASSUME NEW p \in Processes, Remove(p) PROVE Holds(q) \/ EnsureRow(q)
  BY <1>28 DEF Remove, Goto, FailedCall, Unlocked, Placed, Releases
<1>29. ASSUME NEW p \in Processes, Gone(p) PROVE Holds(q) \/ EnsureRow(q)
  BY <1>29 DEF Gone, Placed, Releases
<1>30. ASSUME NEW p \in Processes, MarkReleased(p) PROVE Holds(q) \/ EnsureRow(q)
  BY <1>30 DEF MarkReleased, Goto
<1>31. ASSUME NEW p \in Processes, Crash(p) PROVE Holds(q) \/ EnsureRow(q)
  BY <1>31 DEF Crash, Fault, Unlocked
<1>32. ASSUME NEW p \in Processes, CallFails(p) PROVE Holds(q) \/ EnsureRow(q)
  BY <1>32 DEF CallFails, Fault, FailedCall, Goto, Unlocked, Placed, Releases
<1>33. ASSUME NEW o \in objects, Reap(o) PROVE Holds(q) \/ EnsureRow(q)
  BY <1>33 DEF Reap
<1>34. ASSUME NEW o \in objects, ObjectFails(o) PROVE Holds(q) \/ EnsureRow(q)
  BY <1>34 DEF ObjectFails, Fault
<1>35. ASSUME Cancel PROVE Holds(q) \/ EnsureRow(q)
  BY <1>35 DEF Cancel
<1>36. ASSUME ContinueJob PROVE Holds(q) \/ EnsureRow(q)
  BY <1>36 DEF ContinueJob
<1>37. ASSUME LeaseExpires PROVE Holds(q) \/ EnsureRow(q)
  BY <1>37 DEF LeaseExpires, Fault
<1>38. ASSUME LockBreaks PROVE Holds(q) \/ EnsureRow(q)
  BY <1>38 DEF LockBreaks, Fault
<1> QED BY <1>1, <1>2, <1>3, <1>4, <1>5, <1>6, <1>7, <1>8, <1>9, <1>10, <1>11, <1>12, <1>13, <1>14, <1>15,
    <1>16, <1>17, <1>18, <1>19, <1>20, <1>21, <1>22, <1>23, <1>24, <1>25, <1>26, <1>27, <1>28, <1>29, <1>30,
    <1>31, <1>32, <1>33, <1>34, <1>35, <1>36, <1>37, <1>38 DEF Next, EnsureStep, EndStep, DeleteStep, FaultStep

\* Nobody ends the attempt of a job whose environment is in hand.
LEMMA StillOpen ==
  ASSUME IInv, LockKept, UnderLock, NEW q \in Slots, Holds(q), Holds(q)', Next
  PROVE  attempt' /\ row'.desired = "active" /\ row'.gen = proc'[q].rec.gen
<1>0. /\ TypeOK /\ JobInv /\ RowInv /\ (\A u \in Slots : Placed(u)) /\ Alone(q)
      /\ (\A u \in Slots : Locked(u) => lock = u) /\ lock = q
      /\ proc \in [Processes -> Program] /\ row \in Row
      /\ Slots \subseteq Processes /\ Reconcilers \subseteq Processes /\ Slots \cap Reconcilers = {}
      /\ \A s \in Slots : s # None
  BY Constants DEF IInv, TypeOK, OfProcess, Program, Thens, UnderLock, OfSlot, Locked
<1>1. ASSUME NEW s \in Slots, EnsureRow(s)
      PROVE  attempt' /\ row'.desired = "active" /\ row'.gen = proc'[q].rec.gen
  BY <1>1, <1>0, EnsureRowMoves DEF EnsureRow, Alone, At, Holds, Locked, Ensuring, Deleting
<1>2. ASSUME NEW s \in Slots, Inspect(s)
      PROVE  attempt' /\ row'.desired = "active" /\ row'.gen = proc'[q].rec.gen
  BY <1>2, <1>0, InspectMoves DEF Inspect, Moves, Alone
<1>3. ASSUME NEW s \in Slots, Observe(s)
      PROVE  attempt' /\ row'.desired = "active" /\ row'.gen = proc'[q].rec.gen
  BY <1>3, <1>0, ObserveMoves DEF Observe, Moves, Alone
<1>4. ASSUME NEW p \in Processes, Find(p)
      PROVE  attempt' /\ row'.desired = "active" /\ row'.gen = proc'[q].rec.gen
  BY <1>4, <1>0, FindMoves DEF Find, Moves, Alone
<1> USE <1>0 DEF Alone, Holds, Locked, CleansUp, Releases, Ensuring, Deleting, Program, JobInv, RowInv, Row,
    MayWriteRow, MayWrite, Fenced, Idle, At
<1>5. ASSUME NEW s \in Slots, Claim(s)
      PROVE  attempt' /\ row'.desired = "active" /\ row'.gen = proc'[q].rec.gen
  BY <1>5 DEF Claim, Goto
<1>6. ASSUME NEW s \in Slots, Lock(s)
      PROVE  attempt' /\ row'.desired = "active" /\ row'.gen = proc'[q].rec.gen
  BY <1>6 DEF Lock, Goto
<1>7. ASSUME NEW s \in Slots, NotStarted(s)
      PROVE  attempt' /\ row'.desired = "active" /\ row'.gen = proc'[q].rec.gen
  BY <1>7 DEF NotStarted, Goto
<1>8. ASSUME NEW s \in Slots, Prepare(s)
      PROVE  attempt' /\ row'.desired = "active" /\ row'.gen = proc'[q].rec.gen
  BY <1>8 DEF Prepare, Goto
<1>9. ASSUME NEW s \in Slots, Reserve(s)
      PROVE  attempt' /\ row'.desired = "active" /\ row'.gen = proc'[q].rec.gen
  BY <1>9 DEF Reserve, Located
<1>10. ASSUME NEW s \in Slots, Create(s)
       PROVE  attempt' /\ row'.desired = "active" /\ row'.gen = proc'[q].rec.gen
  BY <1>10 DEF Create, NamedFor, Named
<1>11. ASSUME NEW s \in Slots, CreateConflict(s)
       PROVE  attempt' /\ row'.desired = "active" /\ row'.gen = proc'[q].rec.gen
  BY <1>11 DEF CreateConflict, Goto
<1>12. ASSUME NEW s \in Slots, Start(s)
       PROVE  attempt' /\ row'.desired = "active" /\ row'.gen = proc'[q].rec.gen
  BY <1>12 DEF Start, Goto
<1>13. ASSUME NEW s \in Slots, Check(s)
       PROVE  attempt' /\ row'.desired = "active" /\ row'.gen = proc'[q].rec.gen
  BY <1>13 DEF Check, Goto, NamedFor, Named
<1>14. ASSUME NEW s \in Slots, MarkReady(s)
       PROVE  attempt' /\ row'.desired = "active" /\ row'.gen = proc'[q].rec.gen
  BY <1>14 DEF MarkReady, Goto
<1>15. ASSUME NEW s \in Slots, MarkFailed(s)
       PROVE  attempt' /\ row'.desired = "active" /\ row'.gen = proc'[q].rec.gen
  BY <1>15 DEF MarkFailed, Goto, Unlocked
<1>16. ASSUME NEW s \in Slots, EnsureRefused(s)
       PROVE  attempt' /\ row'.desired = "active" /\ row'.gen = proc'[q].rec.gen
  BY <1>16 DEF EnsureRefused, Goto, Unlocked
<1>17. ASSUME NEW s \in Slots, Finish(s)
       PROVE  attempt' /\ row'.desired = "active" /\ row'.gen = proc'[q].rec.gen
  BY <1>17 DEF Finish, Goto, Unlocked
<1>18. ASSUME NEW s \in Slots, NEW status \in {"active", "succeeded", "failed"}, Settle(s, status)
       PROVE  attempt' /\ row'.desired = "active" /\ row'.gen = proc'[q].rec.gen
  BY <1>18 DEF Settle, ReleaseRequested
<1>19. ASSUME NEW s \in Slots, SettleRefused(s)
       PROVE  attempt' /\ row'.desired = "active" /\ row'.gen = proc'[q].rec.gen
  BY <1>19 DEF SettleRefused
<1>20. ASSUME NEW s \in Slots, Cleanup(s)
       PROVE  attempt' /\ row'.desired = "active" /\ row'.gen = proc'[q].rec.gen
  BY <1>20 DEF Cleanup, Goto
<1>21. ASSUME NEW s \in Slots, Cleaned(s)
       PROVE  attempt' /\ row'.desired = "active" /\ row'.gen = proc'[q].rec.gen
  BY <1>21 DEF Cleaned, Goto, Unlocked
<1>22. ASSUME NEW s \in Slots, RequestRelease(s)
       PROVE  attempt' /\ row'.desired = "active" /\ row'.gen = proc'[q].rec.gen
  BY <1>22 DEF RequestRelease, ReleaseRequested
<1>23. ASSUME NEW s \in Slots, Acknowledge(s)
       PROVE  attempt' /\ row'.desired = "active" /\ row'.gen = proc'[q].rec.gen
  BY <1>23 DEF Acknowledge
<1>24. ASSUME NEW s \in Slots, CancellationRefused(s)
       PROVE  attempt' /\ row'.desired = "active" /\ row'.gen = proc'[q].rec.gen
  BY <1>24 DEF CancellationRefused
<1>25. ASSUME NEW s \in Slots, Rebind(s)
       PROVE  attempt' /\ row'.desired = "active" /\ row'.gen = proc'[q].rec.gen
  BY <1>25 DEF Rebind
<1>26. ASSUME NEW p \in Reconcilers, List(p)
       PROVE  attempt' /\ row'.desired = "active" /\ row'.gen = proc'[q].rec.gen
  BY <1>26 DEF List, Listed
<1>27. ASSUME NEW p \in Processes, Stop(p)
       PROVE  attempt' /\ row'.desired = "active" /\ row'.gen = proc'[q].rec.gen
  BY <1>27 DEF Stop, Goto, FailedCall, Unlocked
<1>28. ASSUME NEW p \in Processes, Remove(p)
       PROVE  attempt' /\ row'.desired = "active" /\ row'.gen = proc'[q].rec.gen
  BY <1>28 DEF Remove, Goto, FailedCall, Unlocked
<1>29. ASSUME NEW p \in Processes, Gone(p)
       PROVE  attempt' /\ row'.desired = "active" /\ row'.gen = proc'[q].rec.gen
  BY <1>29 DEF Gone
<1>30. ASSUME NEW p \in Processes, MarkReleased(p)
       PROVE  attempt' /\ row'.desired = "active" /\ row'.gen = proc'[q].rec.gen
  BY <1>30 DEF MarkReleased, Goto
<1>31. ASSUME NEW p \in Processes, Crash(p)
       PROVE  attempt' /\ row'.desired = "active" /\ row'.gen = proc'[q].rec.gen
  BY <1>31 DEF Crash, Fault, Unlocked
<1>32. ASSUME NEW p \in Processes, CallFails(p)
       PROVE  attempt' /\ row'.desired = "active" /\ row'.gen = proc'[q].rec.gen
  BY <1>32 DEF CallFails, Fault, FailedCall, Goto, Unlocked
<1>33. ASSUME NEW o \in objects, Reap(o)
       PROVE  attempt' /\ row'.desired = "active" /\ row'.gen = proc'[q].rec.gen
  BY <1>33 DEF Reap
<1>34. ASSUME NEW o \in objects, ObjectFails(o)
       PROVE  attempt' /\ row'.desired = "active" /\ row'.gen = proc'[q].rec.gen
  BY <1>34 DEF ObjectFails, Fault
<1>35. ASSUME Cancel PROVE attempt' /\ row'.desired = "active" /\ row'.gen = proc'[q].rec.gen
  BY <1>35 DEF Cancel, ReleaseRequested
<1>36. ASSUME ContinueJob PROVE attempt' /\ row'.desired = "active" /\ row'.gen = proc'[q].rec.gen
  BY <1>36 DEF ContinueJob
<1>37. ASSUME LeaseExpires PROVE attempt' /\ row'.desired = "active" /\ row'.gen = proc'[q].rec.gen
  BY <1>37 DEF LeaseExpires, Fault
<1>38. ASSUME LockBreaks PROVE attempt' /\ row'.desired = "active" /\ row'.gen = proc'[q].rec.gen
  BY <1>38 DEF LockBreaks, Fault
<1> QED BY <1>1, <1>2, <1>3, <1>4, <1>5, <1>6, <1>7, <1>8, <1>9, <1>10, <1>11, <1>12, <1>13, <1>14, <1>15,
    <1>16, <1>17, <1>18, <1>19, <1>20, <1>21, <1>22, <1>23, <1>24, <1>25, <1>26, <1>27, <1>28, <1>29, <1>30,
    <1>31, <1>32, <1>33, <1>34, <1>35, <1>36, <1>37, <1>38 DEF Next, EnsureStep, EndStep, DeleteStep, FaultStep

\* Nor does anybody begin to clean up.
LEMMA StillUncleaned ==
  ASSUME IInv, LockKept, UnderLock, NEW q \in Slots, Holds(q), Holds(q)', NEW t \in Slots, Next
  PROVE  ~CleansUp(t)'
<1>0. /\ TypeOK /\ JobInv /\ RowInv /\ (\A u \in Slots : Placed(u)) /\ Alone(q)
      /\ (\A u \in Slots : Locked(u) => lock = u) /\ lock = q
      /\ proc \in [Processes -> Program] /\ row \in Row
      /\ Slots \subseteq Processes /\ Reconcilers \subseteq Processes /\ Slots \cap Reconcilers = {}
      /\ \A s \in Slots : s # None
  BY Constants DEF IInv, TypeOK, OfProcess, Program, Thens, UnderLock, OfSlot, Locked
<1>1. ASSUME NEW s \in Slots, EnsureRow(s) PROVE ~CleansUp(t)'
  BY <1>1, <1>0, EnsureRowMoves DEF EnsureRow, Moves, At, Alone, CleansUp, Releases, Holds, Ensuring, Deleting
<1>2. ASSUME NEW s \in Slots, Inspect(s) PROVE ~CleansUp(t)'
  <2>1. Moves(s) /\ s = q
    BY <1>2, <1>0, InspectMoves DEF Inspect, At, Locked, Holds, Ensuring
  <2> QED BY <1>0, <2>1 DEF Moves, Alone, CleansUp, Releases, Holds, Ensuring, Deleting
<1>3. ASSUME NEW s \in Slots, Observe(s) PROVE ~CleansUp(t)'
  <2>1. Moves(s) /\ s = q
    BY <1>3, <1>0, ObserveMoves DEF Observe, At, Locked, Holds, Ensuring
  <2> QED BY <1>0, <2>1 DEF Moves, Alone, CleansUp, Releases, Holds, Ensuring, Deleting
<1>4. ASSUME NEW p \in Processes, Find(p) PROVE ~CleansUp(t)'
  <2>1. proc'[p].pc \in {"stop", "remove", "gone", proc[p].then} /\ Moves(p) /\ proc[p].pc = "find"
    BY <1>4, <1>0, FindMoves DEF Find, At, Deletion
  <2>2. ~CleansUp(t) /\ Placed(t)
    BY <1>0 DEF Alone
  <2>3. CASE t = p
    BY <1>0, <2>1, <2>2, <2>3 DEF Program, Placed, Thens, Moves, CleansUp, Releases, Ensuring, Deleting
  <2>4. CASE t # p
    BY <1>0, <2>1, <2>2, <2>4 DEF Moves, CleansUp, Releases
  <2> QED BY <2>3, <2>4
<1>5. ASSUME NEW p \in Processes, Stop(p) PROVE ~CleansUp(t)'
  <2>0. ~CleansUp(t) /\ Placed(t) /\ proc[p].pc = "stop"
    BY <1>5, <1>0 DEF Alone, Stop, At
  <2>1. CASE proc' = [proc EXCEPT ![p].pc = IF Kubernetes THEN "gone" ELSE "remove"]
    BY <1>0, <2>0, <2>1 DEF CleansUp, Releases, Deleting, Program
  <2>2. CASE FailedCall(p)
    BY <1>0, <2>0, <2>2 DEF FailedCall, Goto, Idle, CleansUp, Releases, Deleting, Placed, Program
  <2> QED BY <1>5, <2>1, <2>2 DEF Stop, Goto
<1>6. ASSUME NEW p \in Processes, CallFails(p) PROVE ~CleansUp(t)'
  <2>0. ~CleansUp(t) /\ Placed(t) /\ proc[p].pc \in Ensuring \cup Deleting /\ FailedCall(p)
    BY <1>6, <1>0 DEF Alone, CallFails
  <2>1. CASE t # p
    BY <1>0, <2>0, <2>1 DEF FailedCall, Goto, CleansUp, Releases, Program
  <2>2. CASE t = p
    BY <1>0, <2>0, <2>2 DEF FailedCall, Goto, Idle, CleansUp, Releases, Deleting, Program
  <2> QED BY <2>1, <2>2
<1> USE <1>0 DEF Alone, Holds, Locked, CleansUp, Releases, Ensuring, Deleting, Program, JobInv, RowInv, Row,
    MayWriteRow, MayWrite, Fenced, Idle, At
<1>7. ASSUME NEW s \in Slots, Claim(s) PROVE ~CleansUp(t)'
  BY <1>7 DEF Claim, Goto
<1>8. ASSUME NEW s \in Slots, Lock(s) PROVE ~CleansUp(t)'
  BY <1>8 DEF Lock, Goto
<1>9. ASSUME NEW s \in Slots, NotStarted(s) PROVE ~CleansUp(t)'
  BY <1>9 DEF NotStarted, Goto
<1>10. ASSUME NEW s \in Slots, Prepare(s) PROVE ~CleansUp(t)'
  BY <1>10 DEF Prepare, Goto
<1>11. ASSUME NEW s \in Slots, Reserve(s) PROVE ~CleansUp(t)'
  BY <1>11 DEF Reserve
<1>12. ASSUME NEW s \in Slots, Create(s) PROVE ~CleansUp(t)'
  BY <1>12 DEF Create, NamedFor, Named
<1>13. ASSUME NEW s \in Slots, CreateConflict(s) PROVE ~CleansUp(t)'
  BY <1>13 DEF CreateConflict, Goto
<1>14. ASSUME NEW s \in Slots, Start(s) PROVE ~CleansUp(t)'
  BY <1>14 DEF Start, Goto
<1>15. ASSUME NEW s \in Slots, Check(s) PROVE ~CleansUp(t)'
  BY <1>15 DEF Check, Goto, NamedFor, Named
<1>16. ASSUME NEW s \in Slots, MarkReady(s) PROVE ~CleansUp(t)'
  BY <1>16 DEF MarkReady, Goto
<1>17. ASSUME NEW s \in Slots, MarkFailed(s) PROVE ~CleansUp(t)'
  BY <1>17 DEF MarkFailed, Goto, Unlocked
<1>18. ASSUME NEW s \in Slots, EnsureRefused(s) PROVE ~CleansUp(t)'
  BY <1>18 DEF EnsureRefused, Goto, Unlocked
<1>19. ASSUME NEW s \in Slots, Finish(s) PROVE ~CleansUp(t)'
  BY <1>19 DEF Finish, Goto, Unlocked
<1>20. ASSUME NEW s \in Slots, NEW status \in {"active", "succeeded", "failed"}, Settle(s, status)
       PROVE  ~CleansUp(t)'
  BY <1>20 DEF Settle
<1>21. ASSUME NEW s \in Slots, SettleRefused(s) PROVE ~CleansUp(t)'
  BY <1>21 DEF SettleRefused
<1>22. ASSUME NEW s \in Slots, Cleanup(s) PROVE ~CleansUp(t)'
  BY <1>22 DEF Cleanup, Goto
<1>23. ASSUME NEW s \in Slots, Cleaned(s) PROVE ~CleansUp(t)'
  BY <1>23 DEF Cleaned, Goto, Unlocked
<1>24. ASSUME NEW s \in Slots, RequestRelease(s) PROVE ~CleansUp(t)'
  BY <1>24 DEF RequestRelease
<1>25. ASSUME NEW s \in Slots, Acknowledge(s) PROVE ~CleansUp(t)'
  BY <1>25 DEF Acknowledge
<1>26. ASSUME NEW s \in Slots, CancellationRefused(s) PROVE ~CleansUp(t)'
  BY <1>26 DEF CancellationRefused
<1>27. ASSUME NEW s \in Slots, Rebind(s) PROVE ~CleansUp(t)'
  BY <1>27 DEF Rebind
<1>28. ASSUME NEW p \in Reconcilers, List(p) PROVE ~CleansUp(t)'
  BY <1>28 DEF List, Listed
<1>29. ASSUME NEW p \in Processes, Remove(p) PROVE ~CleansUp(t)'
  BY <1>29 DEF Remove, Goto, FailedCall, Unlocked, Placed, Thens
<1>30. ASSUME NEW p \in Processes, Gone(p) PROVE ~CleansUp(t)'
  BY <1>30 DEF Gone, Placed, Thens
<1>31. ASSUME NEW p \in Processes, MarkReleased(p) PROVE ~CleansUp(t)'
  BY <1>31 DEF MarkReleased, Goto
<1>32. ASSUME NEW p \in Processes, Crash(p) PROVE ~CleansUp(t)'
  BY <1>32 DEF Crash, Fault, Unlocked
<1>33. ASSUME NEW o \in objects, Reap(o) PROVE ~CleansUp(t)'
  BY <1>33 DEF Reap
<1>34. ASSUME NEW o \in objects, ObjectFails(o) PROVE ~CleansUp(t)'
  BY <1>34 DEF ObjectFails, Fault
<1>35. ASSUME Cancel PROVE ~CleansUp(t)'
  BY <1>35 DEF Cancel
<1>36. ASSUME ContinueJob PROVE ~CleansUp(t)'
  BY <1>36 DEF ContinueJob
<1>37. ASSUME LeaseExpires PROVE ~CleansUp(t)'
  BY <1>37 DEF LeaseExpires, Fault
<1>38. ASSUME LockBreaks PROVE ~CleansUp(t)'
  BY <1>38 DEF LockBreaks, Fault
<1> QED BY <1>1, <1>2, <1>3, <1>4, <1>5, <1>6, <1>7, <1>8, <1>9, <1>10, <1>11, <1>12, <1>13, <1>14, <1>15,
    <1>16, <1>17, <1>18, <1>19, <1>20, <1>21, <1>22, <1>23, <1>24, <1>25, <1>26, <1>27, <1>28, <1>29, <1>30,
    <1>31, <1>32, <1>33, <1>34, <1>35, <1>36, <1>37, <1>38 DEF Next, EnsureStep, EndStep, DeleteStep, FaultStep

\* A later owner of the lease waits, or gives up.
LEMMA OthersWait ==
  ASSUME IInv, LockKept, UnderLock, NEW q \in Slots, Holds(q), Holds(q)', Next
  PROVE  (owner \in Slots \ {q} =>
              \/ proc[owner].pc \in {"waiting", "cleanup"}
              \/ proc[owner].pc = "settleFailure" /\ job # "active")'
<1>0. /\ TypeOK /\ JobInv /\ RowInv /\ (\A u \in Slots : Placed(u)) /\ Alone(q)
      /\ (\A u \in Slots : Locked(u) => lock = u) /\ lock = q
      /\ proc \in [Processes -> Program] /\ row \in Row
      /\ Slots \subseteq Processes /\ Reconcilers \subseteq Processes /\ Slots \cap Reconcilers = {}
      /\ \A s \in Slots : s # None
  BY Constants DEF IInv, TypeOK, OfProcess, Program, Thens, UnderLock, OfSlot, Locked
<1> DEFINE G == (owner \in Slots \ {q} =>
              \/ proc[owner].pc \in {"waiting", "cleanup"}
              \/ proc[owner].pc = "settleFailure" /\ job # "active")'
<1>1. ASSUME NEW s \in Slots, EnsureRow(s) PROVE G
  BY <1>1, <1>0, EnsureRowMoves DEF EnsureRow, Moves, At, Alone, Locked
<1>2. ASSUME NEW s \in Slots, Inspect(s) PROVE G
  BY <1>2, <1>0, InspectMoves DEF Inspect, Moves, At, Alone
<1>3. ASSUME NEW s \in Slots, Observe(s) PROVE G
  BY <1>3, <1>0, ObserveMoves DEF Observe, Moves, At, Alone
<1>4. ASSUME NEW p \in Processes, Find(p) PROVE G
  BY <1>4, <1>0, FindMoves DEF Find, Moves, At, Alone, Deleting
<1> USE <1>0 DEF Alone, Holds, Locked, CleansUp, Releases, Ensuring, Deleting, Program, JobInv, RowInv, Row,
    MayWriteRow, MayWrite, Fenced, Idle, At
<1>5. ASSUME NEW s \in Slots, Claim(s) PROVE G
  BY <1>5 DEF Claim, Goto
<1>6. ASSUME NEW s \in Slots, Lock(s) PROVE G
  BY <1>6 DEF Lock, Goto
<1>7. ASSUME NEW s \in Slots, NotStarted(s) PROVE G
  BY <1>7 DEF NotStarted, Goto
<1>8. ASSUME NEW s \in Slots, Prepare(s) PROVE G
  BY <1>8 DEF Prepare, Goto
<1>9. ASSUME NEW s \in Slots, Reserve(s) PROVE G
  BY <1>9 DEF Reserve
<1>10. ASSUME NEW s \in Slots, Create(s) PROVE G
  BY <1>10 DEF Create, NamedFor, Named
<1>11. ASSUME NEW s \in Slots, CreateConflict(s) PROVE G
  BY <1>11 DEF CreateConflict, Goto
<1>12. ASSUME NEW s \in Slots, Start(s) PROVE G
  BY <1>12 DEF Start, Goto
<1>13. ASSUME NEW s \in Slots, Check(s) PROVE G
  BY <1>13 DEF Check, Goto, NamedFor, Named
<1>14. ASSUME NEW s \in Slots, MarkReady(s) PROVE G
  BY <1>14 DEF MarkReady, Goto
<1>15. ASSUME NEW s \in Slots, MarkFailed(s) PROVE G
  BY <1>15 DEF MarkFailed, Goto, Unlocked
<1>16. ASSUME NEW s \in Slots, EnsureRefused(s) PROVE G
  BY <1>16 DEF EnsureRefused, Goto, Unlocked
<1>17. ASSUME NEW s \in Slots, Finish(s) PROVE G
  BY <1>17 DEF Finish, Goto, Unlocked
<1>18. ASSUME NEW s \in Slots, NEW status \in {"active", "succeeded", "failed"}, Settle(s, status)
       PROVE  G
  BY <1>18 DEF Settle
<1>19. ASSUME NEW s \in Slots, SettleRefused(s) PROVE G
  BY <1>19 DEF SettleRefused
<1>20. ASSUME NEW s \in Slots, Cleanup(s) PROVE G
  BY <1>20 DEF Cleanup, Goto
<1>21. ASSUME NEW s \in Slots, Cleaned(s) PROVE G
  BY <1>21 DEF Cleaned, Goto, Unlocked
<1>22. ASSUME NEW s \in Slots, RequestRelease(s) PROVE G
  BY <1>22 DEF RequestRelease
<1>23. ASSUME NEW s \in Slots, Acknowledge(s) PROVE G
  BY <1>23 DEF Acknowledge
<1>24. ASSUME NEW s \in Slots, CancellationRefused(s) PROVE G
  BY <1>24 DEF CancellationRefused
<1>25. ASSUME NEW s \in Slots, Rebind(s) PROVE G
  BY <1>25 DEF Rebind
<1>26. ASSUME NEW p \in Reconcilers, List(p) PROVE G
  BY <1>26 DEF List, Listed
<1>27. ASSUME NEW p \in Processes, Stop(p) PROVE G
  BY <1>27 DEF Stop, Goto, FailedCall, Unlocked, Placed, Thens
<1>28. ASSUME NEW p \in Processes, Remove(p) PROVE G
  BY <1>28 DEF Remove, Goto, FailedCall, Unlocked, Placed, Thens
<1>29. ASSUME NEW p \in Processes, Gone(p) PROVE G
  BY <1>29 DEF Gone, Placed, Thens
<1>30. ASSUME NEW p \in Processes, MarkReleased(p) PROVE G
  BY <1>30 DEF MarkReleased, Goto
<1>31. ASSUME NEW p \in Processes, Crash(p) PROVE G
  BY <1>31 DEF Crash, Fault, Unlocked
<1>32. ASSUME NEW p \in Processes, CallFails(p) PROVE G
  BY <1>32 DEF CallFails, Fault, FailedCall, Goto, Unlocked, Placed, Thens
<1>33. ASSUME NEW o \in objects, Reap(o) PROVE G
  BY <1>33 DEF Reap
<1>34. ASSUME NEW o \in objects, ObjectFails(o) PROVE G
  BY <1>34 DEF ObjectFails, Fault
<1>35. ASSUME Cancel PROVE G
  BY <1>35 DEF Cancel
<1>36. ASSUME ContinueJob PROVE G
  BY <1>36 DEF ContinueJob
<1>37. ASSUME LeaseExpires PROVE G
  BY <1>37 DEF LeaseExpires, Fault
<1>38. ASSUME LockBreaks PROVE G
  BY <1>38 DEF LockBreaks, Fault
<1> QED BY <1>1, <1>2, <1>3, <1>4, <1>5, <1>6, <1>7, <1>8, <1>9, <1>10, <1>11, <1>12, <1>13, <1>14, <1>15,
    <1>16, <1>17, <1>18, <1>19, <1>20, <1>21, <1>22, <1>23, <1>24, <1>25, <1>26, <1>27, <1>28, <1>29, <1>30,
    <1>31, <1>32, <1>33, <1>34, <1>35, <1>36, <1>37, <1>38 DEF Next, EnsureStep, EndStep, DeleteStep, FaultStep

\* A Pod keeps its namespace.
LEMMA StillLocated ==
  ASSUME IInv, LockKept, UnderLock, NEW q \in Slots, Holds(q), Holds(q)', Next
  PROVE  (Kubernetes /\ proc[q].pc # "reserve" =>
              proc[q].rec.ref # None /\ row.ref # None /\ proc[q].rec.ref.ns = row.ref.ns)'
<1>0. /\ TypeOK /\ JobInv /\ RowInv /\ (\A u \in Slots : Placed(u)) /\ Alone(q)
      /\ (\A u \in Slots : Locked(u) => lock = u) /\ lock = q
      /\ proc \in [Processes -> Program] /\ row \in Row
      /\ Slots \subseteq Processes /\ Reconcilers \subseteq Processes /\ Slots \cap Reconcilers = {}
      /\ \A s \in Slots : s # None
  BY Constants DEF IInv, TypeOK, OfProcess, Program, Thens, UnderLock, OfSlot, Locked
<1>k. Kubernetes' = Kubernetes
  BY SameTypes
<1> DEFINE G == (Kubernetes /\ proc[q].pc # "reserve" =>
              proc[q].rec.ref # None /\ row.ref # None /\ proc[q].rec.ref.ns = row.ref.ns)'
<1>1. ASSUME NEW s \in Slots, EnsureRow(s) PROVE G
  BY <1>1, <1>0, <1>k, EnsureRowMoves DEF EnsureRow, Moves, At, Alone, Locked, Holds, Ensuring, Deleting
<1>2. ASSUME NEW s \in Slots, Reserve(s) PROVE G
  <2>1. s = q
    BY <1>2, <1>0 DEF Reserve, At, Locked, Holds
  <2>2. row' = Located(s) /\ proc'[q].rec = Located(s)
    BY <1>2, <1>0, <2>1 DEF Reserve, Program
  <2>3. CASE row.ref = None
    <3>1. [ns |-> Namespace[s], id |-> None] \in Reference
      BY <1>0, Constants DEF Reference
    <3>2. Located(s).ref = [ns |-> Namespace[s], id |-> None]
      BY <1>0, <2>3 DEF Located, Row
    <3> QED BY <1>0, <2>2, <3>1, <3>2, Constants
  <2>4. CASE row.ref # None
    BY <2>2, <2>4 DEF Located
  <2> QED BY <2>3, <2>4
<1>3. ASSUME NEW s \in Slots, Inspect(s) PROVE G
  BY <1>3, <1>0, <1>k, InspectMoves DEF Inspect, Moves, At, Alone
<1>4. ASSUME NEW s \in Slots, Observe(s) PROVE G
  BY <1>4, <1>0, <1>k, ObserveMoves DEF Observe, Moves, At, Alone
<1>5. ASSUME NEW s \in Slots, MarkReady(s) PROVE G
  <2>1. s = q /\ proc[q].pc = "ready" /\ proc'[q].rec = proc[q].rec
    BY <1>5, <1>0 DEF MarkReady, Goto, Program, At, Locked, Holds
  <2>2. row'.ref = [ns |-> Target(s), id |-> proc[s].obj]
    BY <1>5, <1>0 DEF MarkReady, Row
  <2>3. ASSUME Kubernetes PROVE proc[q].rec.ref # None /\ Target(s) = proc[q].rec.ref.ns
    BY <1>0, <2>1, <2>3 DEF Alone, Target
  <2>4. row' \in Row /\ row'.ref \in Reference \cup {None}
    <3>1. Next
      BY <1>5 DEF Next, EnsureStep
    <3>2. row' \in Row
      BY <1>0, <3>1, NextRow
    <3> QED BY <3>2 DEF Row
  <2>5. ASSUME Kubernetes PROVE row'.ref # None
    <3>1. row'.ref \in Reference
      <4>1. Target(s) \in Namespaces /\ proc[s].obj \in Ids \cup {None}
        BY <1>0, <2>3, <2>5, <2>1 DEF Program, Row, Reference
      <4> QED BY <2>2, <4>1 DEF Reference
    <3> QED BY <1>0, <3>1, Constants
  <2>6. Kubernetes' = Kubernetes
    BY <1>5 DEF MarkReady, Kubernetes
  <2> QED BY <2>1, <2>2, <2>3, <2>5, <2>6
<1>6. ASSUME NEW p \in Processes, Find(p) PROVE G
  BY <1>6, <1>0, <1>k, FindMoves DEF Find, Moves, At, Alone
<1> USE <1>0, <1>k DEF Alone, Holds, Locked, Ensuring, Deleting, Program, Row, Idle, At
<1>7. ASSUME NEW s \in Slots, Claim(s) PROVE G
  BY <1>7 DEF Claim, Goto
<1>8. ASSUME NEW s \in Slots, Lock(s) PROVE G
  BY <1>8 DEF Lock, Goto
<1>9. ASSUME NEW s \in Slots, NotStarted(s) PROVE G
  BY <1>9 DEF NotStarted, Goto
<1>10. ASSUME NEW s \in Slots, Prepare(s) PROVE G
  BY <1>10 DEF Prepare, Goto
<1>11. ASSUME NEW s \in Slots, Create(s) PROVE G
  BY <1>11 DEF Create, NamedFor, Named
<1>12. ASSUME NEW s \in Slots, CreateConflict(s) PROVE G
  BY <1>12 DEF CreateConflict, Goto
<1>13. ASSUME NEW s \in Slots, Start(s) PROVE G
  BY <1>13 DEF Start, Goto
<1>14. ASSUME NEW s \in Slots, Check(s) PROVE G
  BY <1>14 DEF Check, Goto, NamedFor, Named
<1>15. ASSUME NEW s \in Slots, MarkFailed(s) PROVE G
  BY <1>15 DEF MarkFailed, Goto, Unlocked
<1>16. ASSUME NEW s \in Slots, EnsureRefused(s) PROVE G
  BY <1>16 DEF EnsureRefused, Goto, Unlocked
<1>17. ASSUME NEW s \in Slots, Finish(s) PROVE G
  BY <1>17 DEF Finish, Goto, Unlocked
<1>18. ASSUME NEW s \in Slots, NEW status \in {"active", "succeeded", "failed"}, Settle(s, status)
       PROVE  G
  BY <1>18 DEF Settle, ReleaseRequested
<1>19. ASSUME NEW s \in Slots, SettleRefused(s) PROVE G
  BY <1>19 DEF SettleRefused
<1>20. ASSUME NEW s \in Slots, Cleanup(s) PROVE G
  BY <1>20 DEF Cleanup, Goto
<1>21. ASSUME NEW s \in Slots, Cleaned(s) PROVE G
  BY <1>21 DEF Cleaned, Goto, Unlocked
<1>22. ASSUME NEW s \in Slots, RequestRelease(s) PROVE G
  BY <1>22 DEF RequestRelease, ReleaseRequested, CleansUp
<1>23. ASSUME NEW s \in Slots, Acknowledge(s) PROVE G
  BY <1>23 DEF Acknowledge
<1>24. ASSUME NEW s \in Slots, CancellationRefused(s) PROVE G
  BY <1>24 DEF CancellationRefused
<1>25. ASSUME NEW s \in Slots, Rebind(s) PROVE G
  BY <1>25 DEF Rebind
<1>26. ASSUME NEW p \in Reconcilers, List(p) PROVE G
  BY <1>26 DEF List, Listed
<1>27. ASSUME NEW p \in Processes, Stop(p) PROVE G
  BY <1>27 DEF Stop, Goto, FailedCall, Unlocked
<1>28. ASSUME NEW p \in Processes, Remove(p) PROVE G
  BY <1>28 DEF Remove, Goto, FailedCall, Unlocked
<1>29. ASSUME NEW p \in Processes, Gone(p) PROVE G
  BY <1>29 DEF Gone
<1>30. ASSUME NEW p \in Processes, MarkReleased(p) PROVE G
  BY <1>30 DEF MarkReleased, Goto
<1>31. ASSUME NEW p \in Processes, Crash(p) PROVE G
  BY <1>31 DEF Crash, Fault, Unlocked
<1>32. ASSUME NEW p \in Processes, CallFails(p) PROVE G
  BY <1>32 DEF CallFails, Fault, FailedCall, Goto, Unlocked, Placed
<1>33. ASSUME NEW o \in objects, Reap(o) PROVE G
  BY <1>33 DEF Reap
<1>34. ASSUME NEW o \in objects, ObjectFails(o) PROVE G
  BY <1>34 DEF ObjectFails, Fault
<1>35. ASSUME Cancel PROVE G
  BY <1>35 DEF Cancel, ReleaseRequested, JobInv
<1>36. ASSUME ContinueJob PROVE G
  BY <1>36 DEF ContinueJob
<1>37. ASSUME LeaseExpires PROVE G
  BY <1>37 DEF LeaseExpires, Fault
<1>38. ASSUME LockBreaks PROVE G
  BY <1>38 DEF LockBreaks, Fault
<1> QED BY <1>1, <1>2, <1>3, <1>4, <1>5, <1>6, <1>7, <1>8, <1>9, <1>10, <1>11, <1>12, <1>13, <1>14, <1>15,
    <1>16, <1>17, <1>18, <1>19, <1>20, <1>21, <1>22, <1>23, <1>24, <1>25, <1>26, <1>27, <1>28, <1>29, <1>30,
    <1>31, <1>32, <1>33, <1>34, <1>35, <1>36, <1>37, <1>38 DEF Next, EnsureStep, EndStep, DeleteStep, FaultStep

\* With the environment in hand, nobody interferes.
LEMMA NextAlone ==
  ASSUME IInv, LockKept, UnderLock, Next, NEW q \in Slots, Holds(q)'
  PROVE  Alone(q)'
<1>1. CASE Holds(q)
  <2>1. ASSUME NEW t \in Slots PROVE ~CleansUp(t)'
    BY <1>1, StillUncleaned
  <2> QED BY <1>1, <2>1, StillOpen, OthersWait, StillLocated DEF Alone
<1>2. CASE EnsureRow(q)
  <2>1. /\ TypeOK /\ JobInv /\ RowInv /\ (\A t \in Slots : Placed(t)) /\ Slots \subseteq Processes
        /\ q # None
    BY Constants DEF IInv, OfProcess
  <2>2. /\ proc'[q].pc \in {"reserve", "inspect"} /\ proc'[q].then = "inspect" /\ proc'[q].rec = row'
        /\ row'.desired = "active" /\ (Kubernetes => proc'[q].pc = "reserve")
        /\ \A t \in Processes : t # q => proc'[t] = proc[t]
    BY <1>2, <2>1, EnsureRowMoves
  <2>3. owner = q /\ owner' = owner /\ job = "active" /\ attempt' = attempt /\ Kubernetes' = Kubernetes
    BY <1>2 DEF EnsureRow, MayWriteRow, MayWrite, Fenced, Kubernetes
  <2>4. ASSUME NEW t \in Slots PROVE ~CleansUp(t)'
    BY <2>1, <2>2, <2>3 DEF Placed, CleansUp, Releases, Deleting
  <2> QED BY <2>1, <2>2, <2>3, <2>4 DEF Alone, JobInv
<1> QED BY <1>1, <1>2, HeldBefore

\* Whoever looks for the object of the present generation in the namespace of the
\* row finds it.
LEMMA NamedIsAll ==
  ASSUME TypeOK, Placement, NEW p \in Processes, proc[p].rec.gen = row.gen,
         Kubernetes /\ row.ref # None => proc[p].rec.ref # None /\ proc[p].rec.ref.ns = row.ref.ns
  PROVE  NamedFor(p) = objects
<1>1. \A o \in objects : o.ns \in Namespaces /\ o.gen = row.gen
  BY DEF TypeOK, Object, Placement
<1>2. proc[p].rec \in Row /\ Target(p) \in Namespaces
  BY Constants DEF TypeOK, Row, Reference, Target
<1>3. CASE Kubernetes
  BY <1>1, <1>3 DEF NamedFor, Named, Target, Placement
<1>4. CASE ~Kubernetes
  BY <1>1, <1>2, <1>4, Constants DEF NamedFor, Named
<1> QED BY <1>3, <1>4

\* The object keeps to the row, whatever is written to it.
LEMMA PlacedBefore ==
  ASSUME IInv, LockKept, UnderLock, Next
  PROVE  \A x \in objects :
            /\ row'.status \notin {"absent", "released"} /\ x.gen = row'.gen
            /\ Kubernetes => row'.ref # None /\ x.ns = row'.ref.ns
<1>0. /\ TypeOK /\ RowInv /\ Placement /\ row \in Row /\ proc \in [Processes -> Program]
      /\ Slots \subseteq Processes /\ Reconcilers \subseteq Processes
      /\ (\A s \in Slots : Holds(s) => Alone(s)) /\ (\A p \in Processes : Placed(p) /\ Clearing(p))
  BY Constants DEF IInv, TypeOK, OfProcess, Program, Thens, UnderLock, OfSlot
<1> DEFINE G == \A x \in objects :
            /\ row'.status \notin {"absent", "released"} /\ x.gen = row'.gen
            /\ Kubernetes => row'.ref # None /\ x.ns = row'.ref.ns
<1>1. CASE UNCHANGED row
  BY <1>1, <1>0 DEF Placement, Row
<1>2. ASSUME NEW s \in Slots, EnsureRow(s) PROVE G
  BY <1>2, <1>0, EnsureRowMoves DEF Placement, Row
<1>3. ASSUME NEW s \in Slots, MarkReady(s) PROVE G
  <2>1. Alone(s) /\ proc[s].pc = "ready"
    BY <1>3, <1>0 DEF MarkReady, At, Holds
  <2>2. row'.ref = [ns |-> Target(s), id |-> proc[s].obj] /\ row'.gen = row.gen /\ row'.status = "ready"
    BY <1>3, <1>0 DEF MarkReady, Row
  <2>3. ASSUME Kubernetes PROVE proc[s].rec.ref # None /\ Target(s) = row.ref.ns
    BY <1>0, <2>1, <2>3 DEF Alone, Target
  <2>4. row'.ref # None
    <3>1. Target(s) \in Namespaces /\ proc[s].obj \in Ids \cup {None}
      BY <1>0, Constants DEF Target, Program, Row, Reference
    <3>2. row'.ref \in Reference
      BY <2>2, <3>1 DEF Reference
    <3> QED BY <1>0, <3>2, Constants
  <2> QED BY <1>0, <2>2, <2>3, <2>4 DEF Placement
<1> USE <1>0 DEF Placement, Row
<1>4. ASSUME NEW s \in Slots, Reserve(s) PROVE G
  BY <1>4 DEF Reserve, Located, MayWriteRow, Alone, Holds, At
<1>5. ASSUME NEW s \in Slots, MarkFailed(s) PROVE G
  BY <1>5 DEF MarkFailed, Goto, Unlocked
<1>6. ASSUME NEW s \in Slots, NEW status \in {"active", "succeeded", "failed"}, Settle(s, status)
      PROVE  G
  BY <1>6 DEF Settle, ReleaseRequested
<1>7. ASSUME NEW s \in Slots, RequestRelease(s) PROVE G
  BY <1>7 DEF RequestRelease, ReleaseRequested
<1>8. ASSUME NEW p \in Processes, MarkReleased(p) PROVE G
  BY <1>8 DEF MarkReleased, Goto, Clearing, Releases, At
<1>9. ASSUME Cancel PROVE G
  BY <1>9 DEF Cancel, ReleaseRequested
<1>10. ASSUME ContinueJob PROVE G
  BY <1>10 DEF ContinueJob
<1> QED BY <1>1, <1>2, <1>3, <1>4, <1>5, <1>6, <1>7, <1>8, <1>9, <1>10 DEF Next, EnsureStep, EndStep,
    DeleteStep, FaultStep, Fault, Claim, Lock, NotStarted, Prepare, Inspect, Create, CreateConflict, Observe,
    Start, Check, EnsureRefused, Finish, SettleRefused, Cleanup, Cleaned, Acknowledge, CancellationRefused,
    Rebind, List, Find, Stop, Remove, Gone, Crash, CallFails, Reap, ObjectFails, LeaseExpires, LockBreaks

\* There is one object, where the row says.
LEMMA NextPlacement ==
  ASSUME IInv, LockKept, UnderLock, Next
  PROVE  Placement'
<1>0. TypeOK /\ RowInv /\ Placement /\ Kubernetes' = Kubernetes
  BY SameTypes DEF IInv, UnderLock
<1>1. CASE \A n \in objects' : \E o \in objects : Same(n, o) /\ (Kubernetes /\ n.phase = "created" => n = o)
  <2>1. \A n, m \in objects' : n = m
    BY <1>0, <1>1, NextObjects DEF Placement, Same
  <2>2. ASSUME NEW n \in objects'
        PROVE  /\ row'.status \notin {"absent", "released"} /\ n.gen = row'.gen
               /\ Kubernetes => n.phase # "created" /\ row'.ref # None /\ n.ns = row'.ref.ns
    <3>1. PICK o \in objects : Same(n, o) /\ (Kubernetes /\ n.phase = "created" => n = o)
      BY <1>1
    <3> QED BY <1>0, <3>1, PlacedBefore DEF Same, Placement
  <2> QED BY <1>0, <2>1, <2>2 DEF Placement
<1>2. ASSUME NEW s \in Slots, Create(s) PROVE Placement'
  <2>1. PICK new \in Object :
            /\ objects' = objects \cup {new} /\ new.ns = Target(s) /\ new.gen = proc[s].rec.gen
            /\ new.phase = (IF Kubernetes THEN "running" ELSE "created")
    BY <1>2, CreatedIsNew
  <2>2. proc[s].pc = "create" /\ NamedFor(s) = {} /\ row' = row
    BY <1>2 DEF Create, At
  <2>3. Holds(s) /\ Alone(s) /\ Placed(s) /\ s \in Processes
    BY <1>0, <2>2, Constants DEF IInv, UnderLock, OfSlot, OfProcess, Holds, Ensuring
  <2>4. objects = {}
    BY <1>0, <2>2, <2>3, NamedIsAll DEF Alone
  <2>5. row.status \notin {"absent", "released"} /\ row.gen = proc[s].rec.gen
    BY <1>0, <2>3 DEF Alone, Placed, RowInv
  <2>6. ASSUME Kubernetes PROVE row.ref # None /\ Target(s) = row.ref.ns
    BY <2>2, <2>3, <2>6 DEF Alone, Target
  <2> QED BY <1>0, <2>1, <2>2, <2>4, <2>5, <2>6 DEF Placement
<1> QED BY <1>1, <1>2, NextObjects

\* Nobody else is about to delete the object that a slot has in hand.
LEMMA Spared ==
  ASSUME IInv, LockKept, UnderLock, NEW q \in Slots, Holds(q),
         NEW p \in Processes, p # q, proc[p].pc \in {"stop", "remove", "gone"}
  PROVE  \A o \in objects : o.id # proc[p].obj
<1>1. /\ Alone(q) /\ lock = q /\ Placement /\ Placed(p) /\ Outdated(p) /\ Known(p)
      /\ (p \in Slots /\ Locked(p) => lock = p) /\ proc[p].then \in Thens
  BY DEF IInv, TypeOK, Thens, UnderLock, OfSlot, OfProcess, Locked
<1>2. Releases(p)
  <2>1. CASE p \in Slots
    BY <1>1, <2>1 DEF Placed, Locked, Holds, Releases, Deleting, Thens
  <2>2. CASE p \in Reconcilers
    BY <1>1, <2>2 DEF Placed
  <2> QED BY <2>1, <2>2 DEF Processes
<1>3. proc[p].rec.gen # row.gen
  BY <1>1, <1>2 DEF Outdated, Alone
<1> QED BY <1>1, <1>3 DEF Known, Placement

\* A stage keeps its object.
LEMMA NextServed ==
  ASSUME IInv, LockKept, UnderLock, NEW q \in Slots, Next
  PROVE  Served(q)'
<1>0. /\ TypeOK /\ Placement /\ Placed(q) /\ Served(q) /\ proc \in [Processes -> Program]
      /\ Slots \subseteq Processes /\ Reconcilers \subseteq Processes /\ Slots \cap Reconcilers = {}
      /\ \A o \in objects : o.id \in Ids /\ o.phase \in {"created", "running", "stopped", "terminating"}
  BY Constants DEF IInv, TypeOK, OfProcess, Program, Thens, UnderLock, OfSlot, Object
<1>1. ASSUME NEW s \in Slots, EnsureRow(s) PROVE Served(q)'
  <2>1. RowInv
    BY DEF IInv
  <2> QED BY <1>1, <1>0, <2>1, EnsureRowMoves DEF EnsureRow, Served
<1>2. ASSUME NEW s \in Slots, Inspect(s) PROVE Served(q)'
  <2>0. Moves(s) /\ objects' = objects /\ lost' = lost
    BY <1>2, <1>0, InspectMoves DEF Inspect
  <2>1. CASE s # q
    BY <1>0, <2>0, <2>1 DEF Moves, Served
  <2>2. ASSUME NEW o \in NamedFor(s), proc'[s].obj = o.id, proc'[s].pc = "ready", o \in objects,
               proc'[s].pc = IF Kubernetes THEN PodDisposition(s, o) ELSE DockerDisposition(s, o)
        PROVE  o.phase = "running"
    <3>1. Kubernetes
      BY <2>2, Dispositions, <1>0
    <3>2. o.phase \notin {"stopped", "terminating"} /\ o.phase # "created"
      BY <1>0, <2>2, <3>1 DEF PodDisposition, Deletion, Placement
    <3> QED BY <1>0, <2>2, <3>2
  <2>3. CASE s = q
    <3>1. CASE proc'[s].pc = "create"
      BY <2>3, <3>1 DEF Served
    <3>2. ASSUME NEW o \in NamedFor(s), proc'[s].obj = o.id,
                 proc'[s].pc = IF Kubernetes THEN PodDisposition(s, o) ELSE DockerDisposition(s, o)
          PROVE  Served(q)'
      <4>1. o \in objects /\ proc'[s].pc # "working"
        BY <1>0, <3>2, Dispositions DEF NamedFor, Named
      <4> QED BY <2>0, <2>2, <2>3, <3>2, <4>1 DEF Served
    <3> QED BY <1>2, <1>0, <3>1, <3>2, InspectMoves
  <2> QED BY <2>1, <2>3
<1>3. ASSUME NEW s \in Slots, Create(s) PROVE Served(q)'
  <2>1. PICK new \in Object :
            /\ objects' = objects \cup {new} /\ lost' = lost \ {new.id} /\ Moves(s)
            /\ \A p \in Processes : new.id # proc[p].obj
            /\ proc'[s].pc = (IF Kubernetes THEN "inspect" ELSE "observe")
    BY <1>3, CreatedIsNew
  <2> QED BY <1>0, <2>1 DEF Moves, Served
<1>4. ASSUME NEW s \in Slots, Observe(s) PROVE Served(q)'
  <2>0. Moves(s) /\ objects' = objects /\ lost' = lost
    BY <1>4, <1>0, ObserveMoves DEF Observe
  <2>1. proc'[s].pc \notin {"ready", "working"}
    BY <1>4, <1>0, ObserveMoves, Dispositions DEF NamedFor, Named
  <2> QED BY <1>0, <2>0, <2>1 DEF Moves, Served
<1>5. ASSUME NEW s \in Slots, Start(s) PROVE Served(q)'
  <2> DEFINE f == [o \in objects |-> IF o \in NamedFor(s) THEN [o EXCEPT !.phase = "running"] ELSE o]
  <2>1. objects' = {f[o] : o \in objects}
    BY <1>5 DEF Start
  <2>2. \A o \in objects : f[o].id = o.id /\ (o.phase = "running" => f[o].phase = "running")
    BY <1>0 DEF TypeOK, Object
  <2>3. lost' = lost /\ (s # q => proc'[q] = proc[q]) /\ proc'[s].pc \in {"failed", "check"}
    BY <1>5, <1>0 DEF Start, Goto, Program
  <2> HIDE DEF f
  <2> QED BY <1>0, <2>1, <2>2, <2>3 DEF Served
<1>6. ASSUME NEW p \in Processes, Find(p) PROVE Served(q)'
  <2>1. proc'[p].pc \in {"stop", "remove", "gone", proc[p].then} /\ Moves(p) /\ proc[p].then \in Thens
    BY <1>6, <1>0, FindMoves DEF Deletion, Program
  <2> QED BY <1>6, <1>0, <2>1 DEF Find, Moves, Thens, Served
<1>7. ASSUME NEW p \in Processes, Stop(p) PROVE Served(q)'
  <2>1. CASE p = q
    BY <1>7, <1>0, <2>1 DEF Stop, Goto, FailedCall, Idle, At, Program, Served, Placed, Releases, Deleting, Thens
  <2>2. CASE p # q /\ proc[q].pc \in {"ready", "working"}
    <3>1. \A o \in objects : o.id # proc[p].obj
      BY <1>7, <1>0, <2>2, Spared DEF Stop, At, Holds
    <3>2. proc'[q] = proc[q] /\ lost' = lost /\ objects \subseteq objects'
      BY <1>7, <1>0, <2>2, <3>1 DEF Stop, Chosen, Goto, FailedCall, Program
    <3> QED BY <1>0, <3>2 DEF Served
  <2>3. CASE p # q /\ proc[q].pc \notin {"ready", "working"}
    BY <1>7, <1>0, <2>3 DEF Stop, Goto, FailedCall, Program, Served
  <2> QED BY <2>1, <2>2, <2>3
<1>8. ASSUME NEW p \in Processes, Remove(p) PROVE Served(q)'
  <2>1. CASE p = q
    BY <1>8, <1>0, <2>1 DEF Remove, Goto, FailedCall, Idle, At, Program, Served, Placed, Releases, Deleting, Thens
  <2>2. CASE p # q /\ proc[q].pc \in {"ready", "working"}
    <3>1. \A o \in objects : o.id # proc[p].obj
      BY <1>8, <1>0, <2>2, Spared DEF Remove, At, Holds
    <3>2. proc'[q] = proc[q] /\ lost' = lost /\ objects \subseteq objects'
      BY <1>8, <1>0, <2>2, <3>1 DEF Remove, Chosen, Goto, FailedCall, Program
    <3> QED BY <1>0, <3>2 DEF Served
  <2>3. CASE p # q /\ proc[q].pc \notin {"ready", "working"}
    BY <1>8, <1>0, <2>3 DEF Remove, Goto, FailedCall, Program, Served
  <2> QED BY <2>1, <2>2, <2>3
<1> USE <1>0 DEF Served, Program, Idle, At
<1>9. ASSUME NEW s \in Slots, Claim(s) PROVE Served(q)'
  BY <1>9 DEF Claim, Goto
<1>10. ASSUME NEW s \in Slots, Lock(s) PROVE Served(q)'
  BY <1>10 DEF Lock, Goto
<1>11. ASSUME NEW s \in Slots, NotStarted(s) PROVE Served(q)'
  BY <1>11 DEF NotStarted, Goto
<1>12. ASSUME NEW s \in Slots, Prepare(s) PROVE Served(q)'
  BY <1>12 DEF Prepare, Goto
<1>13. ASSUME NEW s \in Slots, Reserve(s) PROVE Served(q)'
  BY <1>13 DEF Reserve
<1>14. ASSUME NEW s \in Slots, CreateConflict(s) PROVE Served(q)'
  BY <1>14 DEF CreateConflict, Goto
<1>15. ASSUME NEW s \in Slots, Check(s) PROVE Served(q)'
  BY <1>15 DEF Check, Goto, NamedFor, Named
<1>16. ASSUME NEW s \in Slots, MarkReady(s) PROVE Served(q)'
  BY <1>16 DEF MarkReady, Goto
<1>17. ASSUME NEW s \in Slots, MarkFailed(s) PROVE Served(q)'
  BY <1>17 DEF MarkFailed, Goto, Unlocked
<1>18. ASSUME NEW s \in Slots, EnsureRefused(s) PROVE Served(q)'
  BY <1>18 DEF EnsureRefused, Goto, Unlocked
<1>19. ASSUME NEW s \in Slots, Finish(s) PROVE Served(q)'
  BY <1>19 DEF Finish, Goto, Unlocked
<1>20. ASSUME NEW s \in Slots, NEW status \in {"active", "succeeded", "failed"}, Settle(s, status)
       PROVE  Served(q)'
  BY <1>20 DEF Settle
<1>21. ASSUME NEW s \in Slots, SettleRefused(s) PROVE Served(q)'
  BY <1>21 DEF SettleRefused
<1>22. ASSUME NEW s \in Slots, Cleanup(s) PROVE Served(q)'
  BY <1>22 DEF Cleanup, Goto
<1>23. ASSUME NEW s \in Slots, Cleaned(s) PROVE Served(q)'
  BY <1>23 DEF Cleaned, Goto, Unlocked
<1>24. ASSUME NEW s \in Slots, RequestRelease(s) PROVE Served(q)'
  BY <1>24 DEF RequestRelease
<1>25. ASSUME NEW s \in Slots, Acknowledge(s) PROVE Served(q)'
  BY <1>25 DEF Acknowledge
<1>26. ASSUME NEW s \in Slots, CancellationRefused(s) PROVE Served(q)'
  BY <1>26 DEF CancellationRefused
<1>27. ASSUME NEW s \in Slots, Rebind(s) PROVE Served(q)'
  BY <1>27 DEF Rebind
<1>28. ASSUME NEW p \in Reconcilers, List(p) PROVE Served(q)'
  BY <1>28 DEF List, Listed
<1>29. ASSUME NEW p \in Processes, Gone(p) PROVE Served(q)'
  BY <1>29 DEF Gone, Thens
<1>30. ASSUME NEW p \in Processes, MarkReleased(p) PROVE Served(q)'
  BY <1>30 DEF MarkReleased, Goto
<1>31. ASSUME NEW p \in Processes, Crash(p) PROVE Served(q)'
  BY <1>31 DEF Crash, Fault, Unlocked
<1>32. ASSUME NEW p \in Processes, CallFails(p) PROVE Served(q)'
  BY <1>32 DEF CallFails, Fault, FailedCall, Goto, Unlocked, Placed, Deleting, Ensuring, Releases
<1>33. ASSUME NEW o \in objects, Reap(o) PROVE Served(q)'
  BY <1>33 DEF Reap
<1>34. ASSUME NEW o \in objects, ObjectFails(o) PROVE Served(q)'
  BY <1>34 DEF ObjectFails, Fault
<1>35. ASSUME Cancel PROVE Served(q)'
  BY <1>35 DEF Cancel
<1>36. ASSUME ContinueJob PROVE Served(q)'
  BY <1>36 DEF ContinueJob
<1>37. ASSUME LeaseExpires PROVE Served(q)'
  BY <1>37 DEF LeaseExpires, Fault
<1>38. ASSUME LockBreaks PROVE Served(q)'
  BY <1>38 DEF LockBreaks, Fault
<1> QED BY <1>1, <1>2, <1>3, <1>4, <1>5, <1>6, <1>7, <1>8, <1>9, <1>10, <1>11, <1>12, <1>13, <1>14, <1>15,
    <1>16, <1>17, <1>18, <1>19, <1>20, <1>21, <1>22, <1>23, <1>24, <1>25, <1>26, <1>27, <1>28, <1>29, <1>30,
    <1>31, <1>32, <1>33, <1>34, <1>35, <1>36, <1>37, <1>38 DEF Next, EnsureStep, EndStep, DeleteStep, FaultStep

\* Generations only grow.
LEMMA GenerationsGrow ==
  ASSUME IInv, Next
  PROVE  row'.gen \in Int /\ row'.gen >= row.gen
<1>0. /\ TypeOK /\ RowInv /\ proc \in [Processes -> Program] /\ row \in Row
      /\ Slots \subseteq Processes /\ Reconcilers \subseteq Processes
  BY Constants DEF IInv, TypeOK, Program, Thens
<1>a. row.gen \in Int /\ row.gen >= 0
  BY <1>0, ProcessesAssumption DEF Row
<1>1. CASE UNCHANGED row
  BY <1>1, <1>0, <1>a DEF Row
<1>2. ASSUME Cancel PROVE row'.gen \in Int /\ row'.gen >= row.gen
  <2>1. ReleaseRequested.gen = row.gen
    BY <1>0 DEF ReleaseRequested, Row
  <2> QED BY <1>2, <1>a, <2>1 DEF Cancel
<1> USE <1>0, <1>a DEF Row
<1>3. ASSUME NEW s \in Slots, EnsureRow(s) PROVE row'.gen \in Int /\ row'.gen >= row.gen
  BY <1>3 DEF EnsureRow, FirstRow, RowInv
<1>4. ASSUME NEW s \in Slots, Reserve(s) PROVE row'.gen \in Int /\ row'.gen >= row.gen
  BY <1>4 DEF Reserve, Located
<1>5. ASSUME NEW s \in Slots, MarkReady(s) PROVE row'.gen \in Int /\ row'.gen >= row.gen
  BY <1>5 DEF MarkReady, Goto
<1>6. ASSUME NEW s \in Slots, MarkFailed(s) PROVE row'.gen \in Int /\ row'.gen >= row.gen
  BY <1>6 DEF MarkFailed, Goto, Unlocked
<1>7. ASSUME NEW s \in Slots, NEW status \in {"active", "succeeded", "failed"}, Settle(s, status)
      PROVE  row'.gen \in Int /\ row'.gen >= row.gen
  BY <1>7 DEF Settle, ReleaseRequested
<1>8. ASSUME NEW s \in Slots, RequestRelease(s) PROVE row'.gen \in Int /\ row'.gen >= row.gen
  BY <1>8 DEF RequestRelease, ReleaseRequested
<1>9. ASSUME NEW p \in Processes, MarkReleased(p) PROVE row'.gen \in Int /\ row'.gen >= row.gen
  BY <1>9 DEF MarkReleased, Goto
<1>10. ASSUME ContinueJob PROVE row'.gen \in Int /\ row'.gen >= row.gen
  BY <1>10, ProcessesAssumption DEF ContinueJob
<1> QED BY <1>1, <1>2, <1>3, <1>4, <1>5, <1>6, <1>7, <1>8, <1>9, <1>10 DEF Next, EnsureStep, EndStep,
    DeleteStep, FaultStep, Fault, Claim, Lock, NotStarted, Prepare, Inspect, Create, CreateConflict, Observe,
    Start, Check, EnsureRefused, Finish, SettleRefused, Cleanup, Cleaned, Acknowledge, CancellationRefused,
    Rebind, List, Find, Stop, Remove, Gone, Crash, CallFails, Reap, ObjectFails, LeaseExpires, LockBreaks

\* How a release goes on.
LEMMA ReleaseMoves ==
  ASSUME IInv, NEW q \in Processes, Releases(q)', Next
  PROVE  proc'[q] = proc[q] \/ proc'[q].pc = "find" \/ Find(q) \/ Stop(q) \/ Remove(q) \/ Gone(q)
<1>0. /\ TypeOK /\ RowInv /\ Placed(q) /\ proc \in [Processes -> Program] /\ Slots \subseteq Processes
      /\ Reconcilers \subseteq Processes /\ Slots \cap Reconcilers = {}
  BY Constants DEF IInv, TypeOK, Program, Thens, OfProcess
<1>1. ASSUME NEW s \in Slots, EnsureRow(s)
      PROVE  proc'[q] = proc[q] \/ proc'[q].pc = "find" \/ Find(q) \/ Stop(q) \/ Remove(q) \/ Gone(q)
  BY <1>1, <1>0, EnsureRowMoves DEF Releases, Deleting
<1>2. ASSUME NEW s \in Slots, Inspect(s)
      PROVE  proc'[q] = proc[q] \/ proc'[q].pc = "find" \/ Find(q) \/ Stop(q) \/ Remove(q) \/ Gone(q)
  <2>1. CASE s # q
    BY <1>2, <1>0, <2>1, InspectMoves DEF Moves
  <2>2. CASE s = q
    <3>1. proc[q].then = "inspect" /\ Moves(s)
      BY <1>2, <1>0, <2>2, InspectMoves DEF Inspect, At, Placed, Ensuring
    <3>2. proc'[s].pc # "mark"
      BY <1>2, <1>0, InspectMoves, Dispositions DEF NamedFor, Named
    <3> QED BY <2>2, <3>1, <3>2 DEF Moves, Releases
  <2> QED BY <2>1, <2>2
<1>3. ASSUME NEW s \in Slots, Observe(s)
      PROVE  proc'[q] = proc[q] \/ proc'[q].pc = "find" \/ Find(q) \/ Stop(q) \/ Remove(q) \/ Gone(q)
  <2>1. CASE s # q
    BY <1>3, <1>0, <2>1, ObserveMoves DEF Moves
  <2>2. CASE s = q
    <3>1. proc[q].then = "inspect" /\ Moves(s)
      BY <1>3, <1>0, <2>2, ObserveMoves DEF Observe, At, Placed, Ensuring
    <3>2. proc'[s].pc # "mark"
      BY <1>3, <1>0, ObserveMoves, Dispositions DEF NamedFor, Named
    <3> QED BY <2>2, <3>1, <3>2 DEF Moves, Releases
  <2> QED BY <2>1, <2>2
<1>4. ASSUME NEW p \in Processes, Find(p)
      PROVE  proc'[q] = proc[q] \/ proc'[q].pc = "find" \/ Find(q) \/ Stop(q) \/ Remove(q) \/ Gone(q)
  <2>1. CASE p # q
    BY <1>4, <1>0, <2>1, FindMoves DEF Moves
  <2> QED BY <1>4, <2>1
<1>5. ASSUME NEW p \in Processes, Stop(p)
      PROVE  proc'[q] = proc[q] \/ proc'[q].pc = "find" \/ Find(q) \/ Stop(q) \/ Remove(q) \/ Gone(q)
  <2>1. CASE p # q
    BY <1>5, <1>0, <2>1 DEF Stop, Goto, FailedCall, Program
  <2> QED BY <1>5, <2>1
<1>6. ASSUME NEW p \in Processes, Remove(p)
      PROVE  proc'[q] = proc[q] \/ proc'[q].pc = "find" \/ Find(q) \/ Stop(q) \/ Remove(q) \/ Gone(q)
  <2>1. CASE p # q
    BY <1>6, <1>0, <2>1 DEF Remove, Goto, FailedCall, Program
  <2> QED BY <1>6, <2>1
<1>7. ASSUME NEW p \in Processes, Gone(p)
      PROVE  proc'[q] = proc[q] \/ proc'[q].pc = "find" \/ Find(q) \/ Stop(q) \/ Remove(q) \/ Gone(q)
  <2>1. CASE p # q
    BY <1>7, <1>0, <2>1 DEF Gone, Goto, FailedCall, Program
  <2> QED BY <1>7, <2>1
<1> USE <1>0 DEF Releases, Deleting, Ensuring, Program, Idle, At
<1>8. ASSUME NEW s \in Slots, Claim(s)
      PROVE  proc'[q] = proc[q] \/ proc'[q].pc = "find" \/ Find(q) \/ Stop(q) \/ Remove(q) \/ Gone(q)
  BY <1>8 DEF Claim, Goto
<1>9. ASSUME NEW s \in Slots, Lock(s)
      PROVE  proc'[q] = proc[q] \/ proc'[q].pc = "find" \/ Find(q) \/ Stop(q) \/ Remove(q) \/ Gone(q)
  BY <1>9 DEF Lock, Goto
<1>10. ASSUME NEW s \in Slots, NotStarted(s)
       PROVE  proc'[q] = proc[q] \/ proc'[q].pc = "find" \/ Find(q) \/ Stop(q) \/ Remove(q) \/ Gone(q)
  BY <1>10 DEF NotStarted, Goto
<1>11. ASSUME NEW s \in Slots, Prepare(s)
       PROVE  proc'[q] = proc[q] \/ proc'[q].pc = "find" \/ Find(q) \/ Stop(q) \/ Remove(q) \/ Gone(q)
  BY <1>11 DEF Prepare, Goto
<1>12. ASSUME NEW s \in Slots, Reserve(s)
       PROVE  proc'[q] = proc[q] \/ proc'[q].pc = "find" \/ Find(q) \/ Stop(q) \/ Remove(q) \/ Gone(q)
  BY <1>12 DEF Reserve
<1>13. ASSUME NEW s \in Slots, Create(s)
       PROVE  proc'[q] = proc[q] \/ proc'[q].pc = "find" \/ Find(q) \/ Stop(q) \/ Remove(q) \/ Gone(q)
  BY <1>13 DEF Create, NamedFor, Named, Placed
<1>14. ASSUME NEW s \in Slots, CreateConflict(s)
       PROVE  proc'[q] = proc[q] \/ proc'[q].pc = "find" \/ Find(q) \/ Stop(q) \/ Remove(q) \/ Gone(q)
  BY <1>14 DEF CreateConflict, Goto, Placed
<1>15. ASSUME NEW s \in Slots, Start(s)
       PROVE  proc'[q] = proc[q] \/ proc'[q].pc = "find" \/ Find(q) \/ Stop(q) \/ Remove(q) \/ Gone(q)
  BY <1>15 DEF Start, Goto, Placed
<1>16. ASSUME NEW s \in Slots, Check(s)
       PROVE  proc'[q] = proc[q] \/ proc'[q].pc = "find" \/ Find(q) \/ Stop(q) \/ Remove(q) \/ Gone(q)
  BY <1>16 DEF Check, Goto, NamedFor, Named, Placed
<1>17. ASSUME NEW s \in Slots, MarkReady(s)
       PROVE  proc'[q] = proc[q] \/ proc'[q].pc = "find" \/ Find(q) \/ Stop(q) \/ Remove(q) \/ Gone(q)
  BY <1>17 DEF MarkReady, Goto
<1>18. ASSUME NEW s \in Slots, MarkFailed(s)
       PROVE  proc'[q] = proc[q] \/ proc'[q].pc = "find" \/ Find(q) \/ Stop(q) \/ Remove(q) \/ Gone(q)
  BY <1>18 DEF MarkFailed, Goto, Unlocked
<1>19. ASSUME NEW s \in Slots, EnsureRefused(s)
       PROVE  proc'[q] = proc[q] \/ proc'[q].pc = "find" \/ Find(q) \/ Stop(q) \/ Remove(q) \/ Gone(q)
  BY <1>19 DEF EnsureRefused, Goto, Unlocked
<1>20. ASSUME NEW s \in Slots, Finish(s)
       PROVE  proc'[q] = proc[q] \/ proc'[q].pc = "find" \/ Find(q) \/ Stop(q) \/ Remove(q) \/ Gone(q)
  BY <1>20 DEF Finish, Goto, Unlocked
<1>21. ASSUME NEW s \in Slots, NEW status \in {"active", "succeeded", "failed"}, Settle(s, status)
       PROVE  proc'[q] = proc[q] \/ proc'[q].pc = "find" \/ Find(q) \/ Stop(q) \/ Remove(q) \/ Gone(q)
  BY <1>21 DEF Settle
<1>22. ASSUME NEW s \in Slots, SettleRefused(s)
       PROVE  proc'[q] = proc[q] \/ proc'[q].pc = "find" \/ Find(q) \/ Stop(q) \/ Remove(q) \/ Gone(q)
  BY <1>22 DEF SettleRefused
<1>23. ASSUME NEW s \in Slots, Cleanup(s)
       PROVE  proc'[q] = proc[q] \/ proc'[q].pc = "find" \/ Find(q) \/ Stop(q) \/ Remove(q) \/ Gone(q)
  BY <1>23 DEF Cleanup, Goto
<1>24. ASSUME NEW s \in Slots, Cleaned(s)
       PROVE  proc'[q] = proc[q] \/ proc'[q].pc = "find" \/ Find(q) \/ Stop(q) \/ Remove(q) \/ Gone(q)
  BY <1>24 DEF Cleaned, Goto, Unlocked
<1>25. ASSUME NEW s \in Slots, RequestRelease(s)
       PROVE  proc'[q] = proc[q] \/ proc'[q].pc = "find" \/ Find(q) \/ Stop(q) \/ Remove(q) \/ Gone(q)
  BY <1>25 DEF RequestRelease
<1>26. ASSUME NEW s \in Slots, Acknowledge(s)
       PROVE  proc'[q] = proc[q] \/ proc'[q].pc = "find" \/ Find(q) \/ Stop(q) \/ Remove(q) \/ Gone(q)
  BY <1>26 DEF Acknowledge
<1>27. ASSUME NEW s \in Slots, CancellationRefused(s)
       PROVE  proc'[q] = proc[q] \/ proc'[q].pc = "find" \/ Find(q) \/ Stop(q) \/ Remove(q) \/ Gone(q)
  BY <1>27 DEF CancellationRefused
<1>28. ASSUME NEW s \in Slots, Rebind(s)
       PROVE  proc'[q] = proc[q] \/ proc'[q].pc = "find" \/ Find(q) \/ Stop(q) \/ Remove(q) \/ Gone(q)
  BY <1>28 DEF Rebind
<1>29. ASSUME NEW p \in Reconcilers, List(p)
       PROVE  proc'[q] = proc[q] \/ proc'[q].pc = "find" \/ Find(q) \/ Stop(q) \/ Remove(q) \/ Gone(q)
  BY <1>29 DEF List, Listed
<1>30. ASSUME NEW p \in Processes, MarkReleased(p)
       PROVE  proc'[q] = proc[q] \/ proc'[q].pc = "find" \/ Find(q) \/ Stop(q) \/ Remove(q) \/ Gone(q)
  BY <1>30 DEF MarkReleased, Goto
<1>31. ASSUME NEW p \in Processes, Crash(p)
       PROVE  proc'[q] = proc[q] \/ proc'[q].pc = "find" \/ Find(q) \/ Stop(q) \/ Remove(q) \/ Gone(q)
  BY <1>31 DEF Crash, Fault, Unlocked
<1>32. ASSUME NEW p \in Processes, CallFails(p)
       PROVE  proc'[q] = proc[q] \/ proc'[q].pc = "find" \/ Find(q) \/ Stop(q) \/ Remove(q) \/ Gone(q)
  BY <1>32 DEF CallFails, Fault, FailedCall, Goto, Unlocked, Placed
<1>33. ASSUME NEW o \in objects, Reap(o)
       PROVE  proc'[q] = proc[q] \/ proc'[q].pc = "find" \/ Find(q) \/ Stop(q) \/ Remove(q) \/ Gone(q)
  BY <1>33 DEF Reap
<1>34. ASSUME NEW o \in objects, ObjectFails(o)
       PROVE  proc'[q] = proc[q] \/ proc'[q].pc = "find" \/ Find(q) \/ Stop(q) \/ Remove(q) \/ Gone(q)
  BY <1>34 DEF ObjectFails, Fault
<1>35. ASSUME Cancel
       PROVE  proc'[q] = proc[q] \/ proc'[q].pc = "find" \/ Find(q) \/ Stop(q) \/ Remove(q) \/ Gone(q)
  BY <1>35 DEF Cancel
<1>36. ASSUME ContinueJob
       PROVE  proc'[q] = proc[q] \/ proc'[q].pc = "find" \/ Find(q) \/ Stop(q) \/ Remove(q) \/ Gone(q)
  BY <1>36 DEF ContinueJob
<1>37. ASSUME LeaseExpires
       PROVE  proc'[q] = proc[q] \/ proc'[q].pc = "find" \/ Find(q) \/ Stop(q) \/ Remove(q) \/ Gone(q)
  BY <1>37 DEF LeaseExpires, Fault
<1>38. ASSUME LockBreaks
       PROVE  proc'[q] = proc[q] \/ proc'[q].pc = "find" \/ Find(q) \/ Stop(q) \/ Remove(q) \/ Gone(q)
  BY <1>38 DEF LockBreaks, Fault
<1> QED BY <1>1, <1>2, <1>3, <1>4, <1>5, <1>6, <1>7, <1>8, <1>9, <1>10, <1>11, <1>12, <1>13, <1>14, <1>15,
    <1>16, <1>17, <1>18, <1>19, <1>20, <1>21, <1>22, <1>23, <1>24, <1>25, <1>26, <1>27, <1>28, <1>29, <1>30,
    <1>31, <1>32, <1>33, <1>34, <1>35, <1>36, <1>37, <1>38 DEF Next, EnsureStep, EndStep, DeleteStep, FaultStep

\* The release of the present generation ends when nothing is left.
LEMMA NextClearing ==
  ASSUME IInv, LockKept, UnderLock, Next, NEW q \in Processes
  PROVE  Clearing(q)'
<1> SUFFICES ASSUME Releases(q)', proc'[q].rec.gen = row'.gen
             PROVE  /\ proc'[q].pc = "mark" => objects' = {}
                    /\ proc'[q].pc \in {"stop", "remove", "gone"} => \A n \in objects' : n.id = proc'[q].obj
  BY DEF Clearing
<1>0. /\ TypeOK /\ RowInv /\ Placement /\ Placed(q) /\ Outdated(q) /\ Clearing(q) /\ row \in Row
      /\ proc \in [Processes -> Program] /\ Slots \subseteq Processes
  BY Constants DEF IInv, TypeOK, Program, Thens, OfProcess, UnderLock
<1>1. ASSUME Releases(q), proc'[q].rec = proc[q].rec
      PROVE  proc[q].rec.gen = row.gen /\ row.desired = "released" /\ proc[q].rec.ref = row.ref
             /\ \A n \in objects' : \E o \in objects : Same(n, o)
  <2>1. proc[q].rec.gen = row.gen
    <3>1. proc[q].rec.gen <= row.gen /\ proc[q].rec.gen \in Nat /\ row.gen \in Nat
      BY <1>0, <1>1, ProcessesAssumption DEF Outdated, Program, Row
    <3> QED BY <1>1, <3>1, GenerationsGrow
  <2>2. row.desired = "released" /\ proc[q].rec.ref = row.ref
    BY <1>0, <1>1, <2>1 DEF Outdated
  <2>3. ASSUME NEW s \in Slots, Create(s) PROVE FALSE
    <3>1. Holds(s)
      BY <2>3 DEF Create, At, Holds, Ensuring
    <3> QED BY <2>2, <3>1 DEF UnderLock, OfSlot, Alone
  <2> QED BY <2>1, <2>2, <2>3, NextObjects
<1>2. CASE proc'[q] = proc[q]
  <2>1. Releases(q)
    BY <1>2 DEF Releases
  <2> QED BY <1>0, <1>1, <1>2, <2>1 DEF Clearing, Same
<1>3. CASE proc'[q].pc = "find"
  BY <1>3
<1>4. CASE Find(q)
  <2>1. Moves(q) /\ proc[q].pc = "find" /\ objects' = objects
    BY <1>0, <1>4, FindMoves DEF Find, At
  <2>2. Releases(q)
    <3>1. proc'[q].pc = proc[q].then \/ proc'[q].pc \in {"stop", "remove", "gone"}
      BY <1>0, <1>4, FindMoves DEF Deletion
    <3>2. proc'[q].then = proc[q].then
      BY <2>1 DEF Moves
    <3> QED BY <2>1, <3>1, <3>2 DEF Releases, Deleting
  <2>3. NamedFor(q) = objects
    BY <1>0, <1>1, <2>1, <2>2, NamedIsAll DEF Moves
  <2>4. CASE ReleaseTarget(q) = {}
    BY <1>0, <1>4, <2>1, <2>3, <2>4, FindMoves DEF ReleaseTarget
  <2>5. ASSUME NEW o \in ReleaseTarget(q), proc'[q].obj = o.id, proc'[q].pc = Deletion(o)
        PROVE  proc'[q].pc # "mark" /\ \A n \in objects' : n.id = proc'[q].obj
    <3>1. o \in objects /\ Deletion(o) # "mark"
      BY DEF ReleaseTarget, NamedFor, Named, Deletion
    <3> QED BY <1>0, <2>1, <2>5, <3>1 DEF Placement
  <2> QED BY <1>0, <1>4, <2>4, <2>5, FindMoves
<1>5. CASE Stop(q)
  <2>1. proc[q].pc = "stop" /\ proc[q].then \in Thens
    BY <1>0, <1>5 DEF Stop, At, Program
  <2>2. CASE FailedCall(q)
    <3>1. proc'[q].pc \in {"idle", "settleFailure", "failed"}
      BY <1>0, <2>2 DEF FailedCall, Goto, Idle, Program
    <3> QED BY <3>1 DEF Releases, Deleting
  <2>3. CASE proc' = [proc EXCEPT ![q].pc = IF Kubernetes THEN "gone" ELSE "remove"]
    <3>1. /\ proc'[q].rec = proc[q].rec /\ proc'[q].obj = proc[q].obj /\ proc'[q].then = proc[q].then
          /\ proc'[q].pc \in {"gone", "remove"}
      BY <1>0, <2>3 DEF Program
    <3>2. Releases(q)
      BY <2>1, <3>1 DEF Releases, Deleting
    <3> QED BY <1>0, <1>1, <2>1, <3>1, <3>2 DEF Clearing, Same
  <2> QED BY <1>5, <2>2, <2>3 DEF Stop, Goto
<1>6. CASE Remove(q)
  <2>1. proc[q].pc = "remove"
    BY <1>6 DEF Remove, At
  <2>2. CASE FailedCall(q)
    <3>1. proc'[q].pc \in {"idle", "settleFailure", "failed"}
      BY <1>0, <2>2 DEF FailedCall, Goto, Idle, Program
    <3> QED BY <3>1 DEF Releases, Deleting
  <2>3. CASE objects' = objects \ Chosen(q) /\ proc' = [proc EXCEPT ![q].pc = proc[q].then]
    <3>1. proc'[q].rec = proc[q].rec /\ proc'[q].then = proc[q].then /\ proc'[q].pc = proc[q].then
      BY <1>0, <2>3 DEF Program
    <3>2. proc[q].then = "mark" /\ Releases(q)
      BY <1>0, <2>1, <3>1 DEF Releases, Deleting, Program, Thens
    <3> QED BY <1>0, <1>1, <2>1, <2>3, <3>1, <3>2 DEF Clearing, Chosen
  <2> QED BY <1>6, <2>2, <2>3 DEF Remove, Goto
<1>7. CASE Gone(q)
  <2>1. /\ proc[q].pc = "gone" /\ Chosen(q) = {} /\ objects' = objects
        /\ proc'[q].rec = proc[q].rec /\ proc'[q].then = proc[q].then /\ proc'[q].pc = proc[q].then
    BY <1>0, <1>7 DEF Gone, At, Program
  <2>2. proc[q].then = "mark" /\ Releases(q)
    BY <1>0, <2>1 DEF Releases, Deleting, Program, Thens
  <2> QED BY <1>0, <1>1, <2>1, <2>2 DEF Clearing, Chosen
<1> QED BY <1>2, <1>3, <1>4, <1>5, <1>6, <1>7, ReleaseMoves

-----------------------------------------------------------------------------
(* The theorems.                                                           *)

\* It holds at first.
LEMMA InitInv == Init => IInv
<1> SUFFICES ASSUME Init PROVE IInv
  OBVIOUS
<1>1. AbsentRow \in Row /\ Idle \in Program
  BY ProcessesAssumption DEF AbsentRow, Row, Idle, Program, Pcs, Thens
<1>2. \A p \in Processes : proc[p] = Idle
  BY DEF Init
<1>3. TypeOK
  <2>1. MaxFaults \in Nat
    BY ProcessesAssumption DEF Init, MaxFaults
  <2>2. proc \in [Processes -> Program]
    BY <1>1 DEF Init
  <2>3. row \in Row /\ objects \subseteq Object /\ \A o, q \in objects : o.id = q.id => o = q
    BY <1>1 DEF Init
  <2>4. deployment \in Deployments /\ attempt \in BOOLEAN /\ lost \subseteq Ids \cup {TheLock}
    BY DEF Init
  <2>5. /\ job \in {"active", "cancelling", "succeeded", "failed", "cancelled"}
        /\ owner \in Slots \cup {None} /\ lock \in Slots \cup {None}
    BY DEF Init
  <2>6. faults \in 0 .. MaxFaults
    BY <2>1 DEF Init
  <2> QED BY <2>2, <2>3, <2>4, <2>5, <2>6 DEF TypeOK, Program, Thens
<1>4. JobInv /\ RowInv /\ RowKnown /\ Placement
  BY DEF Init, JobInv, RowInv, RowKnown, Placement, AbsentRow
<1>5. ASSUME NEW p \in Processes
      PROVE  OfProcess(p) /\ Clearing(p) /\ ~Locked(p) /\ ~Holds(p) /\ Served(p)
  <2>1. objects = {} /\ proc[p].pc = "idle"
    BY <1>2 DEF Init, Idle
  <2>2. ~Releases(p) /\ ~Holds(p) /\ ~Locked(p) /\ ~CleansUp(p)
    BY <2>1 DEF Releases, Holds, Locked, CleansUp, Deleting, Ensuring
  <2> QED BY <2>1, <2>2 DEF OfProcess, Placed, Outdated, Known, Clearing, Served, Deleting, Ensuring
<1>6. UnderLock
  BY <1>3, <1>4, <1>5, Constants DEF UnderLock, OfSlot
<1> QED BY <1>3, <1>4, <1>5, <1>6 DEF IInv

\* It is kept by every step.
LEMMA NextInv ==
  ASSUME IInv, Next
  PROVE  IInv'
<1>1. TypeOK' /\ JobInv' /\ RowInv' /\ RowKnown'
  BY NextTyped, NextJob, NextRowInv, NextKnown
<1>2. ASSUME NEW p \in Processes PROVE OfProcess(p)'
  BY NextPlaced, NextOutdated, NextKnown DEF OfProcess
<1>3. ASSUME LockKept' PROVE UnderLock'
  <2>1. LockKept /\ UnderLock
    BY <1>3, LockWasKept DEF IInv
  <2>2. Placement'
    BY <2>1, NextPlacement
  <2>3. ASSUME NEW s \in Slots PROVE OfSlot(s)'
    BY <1>3, <2>1, NextLocked, NextAlone, NextServed DEF OfSlot
  <2>4. ASSUME NEW p \in Processes PROVE Clearing(p)'
    BY <2>1, NextClearing
  <2> QED BY <2>2, <2>3, <2>4 DEF UnderLock
<1> QED BY <1>1, <1>2, <1>3 DEF IInv

\* A stutter changes nothing.
LEMMA SameInv ==
  ASSUME IInv, UNCHANGED vars
  PROVE  IInv'
<1> USE DEF vars
<1>1. TypeOK' /\ JobInv' /\ RowInv' /\ RowKnown'
  BY DEF IInv, TypeOK, JobInv, RowInv, RowKnown, RefIds, Row, Object, Reference, Namespaces,
         Namespace, Image,
         MaxFaults
<1>2. ASSUME NEW p \in Processes PROVE OfProcess(p)'
  BY DEF IInv, OfProcess, Placed, Outdated, Known, Releases, Holds, CleansUp, RefIds
<1>3. ASSUME LockKept' PROVE UnderLock'
  <2>1. UnderLock
    BY <1>3 DEF LockKept, IInv
  <2>2. Placement'
    BY <2>1 DEF UnderLock, Placement, Kubernetes
  <2>3. ASSUME NEW s \in Slots PROVE OfSlot(s)'
    BY <2>1 DEF UnderLock, OfSlot, Locked, Holds, Alone, Served, CleansUp, Releases, Kubernetes
  <2>4. ASSUME NEW p \in Processes PROVE Clearing(p)'
    BY <2>1 DEF UnderLock, Clearing, Releases
  <2> QED BY <2>2, <2>3, <2>4 DEF UnderLock
<1> QED BY <1>1, <1>2, <1>3 DEF IInv

\* The inductive invariant holds throughout.
THEOREM Invariant == Spec => []IInv
<1>1. IInv /\ [Next]_vars => IInv'
  BY NextInv, SameInv
<1> QED BY <1>1, InitInv, PTL DEF Spec

\* Whoever was interrupted, replaced or overtaken at whatever call, a job never
\* has two containers or Pods, and the owner of its lease keeps the one it works
\* in (ensure_container and ensure_pod under the advisory lock).
THEOREM ObjectsAreExclusive == Spec => []ObjectInv
<1>1. ASSUME IInv PROVE ObjectInv
  <2>1. ASSUME LockKept PROVE Cardinality(objects) <= 1
    <3>1. \A o, q \in objects : o = q
      BY <1>1, <2>1 DEF IInv, UnderLock, Placement
    <3>2. objects = {} \/ \E o : objects = {o}
      BY <3>1
    <3>3. CASE objects = {}
      BY <3>3, FS_EmptySet
    <3>4. ASSUME NEW o, objects = {o} PROVE Cardinality(objects) <= 1
      <4>1. Cardinality({o}) = 1
        BY FS_Singleton
      <4> QED BY <3>4, <4>1
    <3> QED BY <3>2, <3>3, <3>4
  <2>2. OwnerKeepsObject
    BY <1>1 DEF IInv, UnderLock, OfSlot, Served, OwnerKeepsObject, At
  <2> QED BY <1>1, <2>1, <2>2 DEF IInv, ObjectInv, OneObject
<1> QED BY <1>1, Invariant, PTL

\* An environment that is recorded as released has left no object behind, of any
\* generation and in any namespace (mark_execution_environment_released).
THEOREM ReleasedEnvironmentsAreGone == Spec => []ReleasedIsGone
<1>1. IInv => ReleasedIsGone
  BY DEF IInv, UnderLock, Placement, ReleasedIsGone
<1> QED BY <1>1, Invariant, PTL

\* A reconciler that comes late, with or without the advisory lock, leaves the
\* object of an active generation alone (release_container, release_pod).
THEOREM ActiveObjectsAreSpared == Spec => ActiveIsSpared
<1> DEFINE A == \A r \in Reconcilers :
        proc'[r] # proc[r] =>
            \A o \in objects : o.gen = row.gen /\ row.desired = "active" => o \in objects'
<1>1. ASSUME IInv, Next PROVE A
  <2> SUFFICES ASSUME NEW r \in Reconcilers, proc'[r] # proc[r], NEW o \in objects,
                      o.gen = row.gen, row.desired = "active"
               PROVE  o \in objects'
    OBVIOUS
  <2>0. /\ TypeOK /\ proc \in [Processes -> Program] /\ Outdated(r) /\ Known(r) /\ Placed(r)
        /\ r \in Processes /\ r \notin Slots /\ Slots \subseteq Processes
    BY <1>1, Constants DEF IInv, OfProcess, TypeOK, Program, Thens
  <2>1. ASSUME proc[r].pc \in {"stop", "remove"} PROVE o.id # proc[r].obj
    BY <2>0, <2>1 DEF Placed, Outdated, Known
  <2>2. CASE Stop(r)
    BY <2>1, <2>2 DEF Stop, At, Chosen
  <2>3. CASE Remove(r)
    BY <2>1, <2>3 DEF Remove, At, Chosen
  <2>4. CASE objects' = objects
    BY <2>4
  <2>5. ASSUME NEW p \in Processes, p # r, Stop(p) \/ Remove(p) PROVE FALSE
    BY <2>0, <2>5 DEF Stop, Remove, Goto, FailedCall
  <2>6. ASSUME NEW s \in Slots, Start(s) \/ Create(s) PROVE FALSE
    BY <2>0, <2>6 DEF Start, Create, Goto
  <2>7. ASSUME NEW x \in objects, Reap(x) \/ ObjectFails(x) PROVE FALSE
    BY <2>7 DEF Reap, ObjectFails
  <2> QED
    BY <1>1, <2>2, <2>3, <2>4, <2>5, <2>6, <2>7
    DEF Next, EnsureStep, EndStep, DeleteStep, FaultStep, Fault, Claim, Lock, NotStarted, Prepare,
        EnsureRow, Reserve, Inspect, CreateConflict, Observe, Check, MarkReady, MarkFailed,
        EnsureRefused, Finish, Settle, SettleRefused, Cleanup, Cleaned, RequestRelease, Acknowledge,
        CancellationRefused, Rebind, List, Find, Gone, MarkReleased, Crash, CallFails, Cancel,
        ContinueJob, LeaseExpires, LockBreaks
<1>2. IInv /\ [Next]_vars => [A]_vars
  BY <1>1
<1> QED BY <1>2, Invariant, PTL DEF Spec, ActiveIsSpared

=============================================================================
