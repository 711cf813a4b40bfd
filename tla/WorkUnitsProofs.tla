-------------------------- MODULE WorkUnitsProofs ---------------------------
(***************************************************************************)
(* Proofs about WorkUnits: the removal of units without dependencies       *)
(* decides whether a decomposition has a cycle, in whatever order the      *)
(* batches are visited, and a decomposition it accepts never blocks.       *)
(***************************************************************************)
EXTENDS WorkUnits, FiniteSetTheorems, TLAPS

-----------------------------------------------------------------------------
(* The inductive invariant.                                                *)

\* Each count is the number of dependencies that the loop has not visited.
CountsUnvisited == \A u \in units : phase = "validate" => remaining[u] = Cardinality(deps[u] \ visited)

\* The units of the current batch are new, and everything they need is visited.
ReadyIsFree == \A u \in ready : u \notin visited /\ deps[u] \subseteq visited

\* No unit of a cycle is ever visited.
VisitedIsAcyclic == \A S \in SUBSET units : Circular(S) => S \cap visited = {}

\* Only a completely visited decomposition is stored, and only its units are
\* completed.
StoredIsVisited ==
    /\ phase = "accepted" => visited = units
    /\ phase # "accepted" => finished = {}

IInv == TypeOK /\ CountsUnvisited /\ ReadyIsFree /\ VisitedIsAcyclic /\ StoredIsVisited /\ DependenciesFirst

-----------------------------------------------------------------------------

\* Every set of units is finite.
LEMMA UnitsFinite == ASSUME TypeOK, NEW S \in SUBSET units PROVE IsFiniteSet(S)
<1>1. units \in SUBSET Ids BY DEF TypeOK
<1>2. S \subseteq Ids BY <1>1
<1> QED BY <1>2, IdsAssumption, FS_Subset

\* A unit whose count is zero has only visited dependencies.
LEMMA ZeroIsFree ==
    ASSUME TypeOK, CountsUnvisited, phase = "validate", NEW u \in units, remaining[u] = 0
    PROVE  deps[u] \subseteq visited
<1>1. deps[u] \in SUBSET units BY DEF TypeOK
<1>2. IsFiniteSet(deps[u] \ visited) BY <1>1, UnitsFinite
<1>3. Cardinality(deps[u] \ visited) = 0 BY DEF CountsUnvisited
<1>4. deps[u] \ visited = {} BY <1>2, <1>3, FS_EmptySet
<1> QED BY <1>4

\* The counts stay right when a unit of the batch is visited.
LEMMA VisitCounts ==
    ASSUME IInv, NEW id \in ready, Visit(id), NEW u \in units
    PROVE  remaining'[u] = Cardinality(deps[u] \ (visited \cup {id})) /\ remaining'[u] \in Nat
<1> DEFINE open == deps[u] \ visited
<1>1. deps[u] \in SUBSET units /\ remaining[u] \in Nat BY DEF IInv, TypeOK
<1>2. IsFiniteSet(open) BY <1>1, UnitsFinite DEF IInv
<1>3. remaining[u] = Cardinality(open) BY DEF IInv, CountsUnvisited, Visit
<1>4. id \notin visited BY DEF IInv, ReadyIsFree
<1>5. remaining'[u] = IF id \in deps[u] /\ remaining[u] > 0 THEN remaining[u] - 1 ELSE remaining[u] BY DEF Visit
<1>6. deps[u] \ (visited \cup {id}) = open \ {id} OBVIOUS
<1>7. CASE id \in deps[u]
  <2>1. id \in open BY <1>4, <1>7
  <2>2. Cardinality(open \ {id}) = Cardinality(open) - 1 BY <1>2, <2>1, FS_RemoveElement
  <2>3. Cardinality(open) # 0 BY <1>2, <2>1, FS_EmptySet
  <2> HIDE DEF open
  <2>4. remaining[u] > 0 BY <1>1, <1>3, <2>3
  <2> QED BY <1>1, <1>3, <1>5, <1>6, <1>7, <2>2, <2>4
<1>8. CASE id \notin deps[u]
  <2>1. open \ {id} = open BY <1>8
  <2> HIDE DEF open
  <2> QED BY <1>1, <1>3, <1>5, <1>6, <1>8, <2>1
<1> QED BY <1>7, <1>8

-----------------------------------------------------------------------------

LEMMA InitInv == Init => IInv
<1> SUFFICES ASSUME Init PROVE IInv OBVIOUS
<1>1. units = {} /\ ready = {} /\ visited = {} /\ finished = {} /\ phase = "plan" BY DEF Init
<1>2. deps \in [units -> SUBSET units] BY <1>1 DEF Init, NoDeps
<1>3. remaining \in [units -> Nat] BY <1>1 DEF Init, NoDeps
<1> QED BY <1>1, <1>2, <1>3 DEF IInv, TypeOK, CountsUnvisited, ReadyIsFree, VisitedIsAcyclic, StoredIsVisited,
        DependenciesFirst

LEMMA DecomposeInv ==
    ASSUME IInv, NEW us \in SUBSET Ids, NEW ds \in [us -> SUBSET us], Decompose(us, ds)
    PROVE  IInv'
<1> USE DEF IInv, Decompose
<1>1. finished' = {} BY DEF StoredIsVisited
<1>2. \A u \in us : IsFiniteSet(ds[u])
  <2> TAKE u \in us
  <2>1. ds[u] \subseteq Ids OBVIOUS
  <2> QED BY <2>1, IdsAssumption, FS_Subset
<1>3. \A u \in us : Cardinality(ds[u]) \in Nat BY <1>2, FS_CardinalityType
<1>4. TypeOK' BY <1>1, <1>3 DEF TypeOK
<1>5. CountsUnvisited'
  <2>1. \A u \in us : ds[u] \ {} = ds[u] OBVIOUS
  <2> QED BY <2>1 DEF CountsUnvisited
<1>6. ReadyIsFree' /\ VisitedIsAcyclic' BY DEF ReadyIsFree, VisitedIsAcyclic
<1>7. StoredIsVisited' /\ DependenciesFirst' BY <1>1 DEF StoredIsVisited, DependenciesFirst
<1> QED BY <1>4, <1>5, <1>6, <1>7

LEMMA CollectInv == ASSUME IInv, Collect PROVE IInv'
<1> USE DEF IInv, Collect
<1>1. TypeOK' BY DEF TypeOK, NextBatch
<1>2. CountsUnvisited' BY DEF CountsUnvisited
<1>3. ReadyIsFree'
  <2> SUFFICES ASSUME NEW u \in ready' PROVE u \notin visited /\ deps[u] \subseteq visited BY DEF ReadyIsFree
  <2>1. u \in units \ visited /\ remaining[u] = 0 BY DEF NextBatch
  <2> QED BY <2>1, ZeroIsFree
<1>4. VisitedIsAcyclic' BY DEF VisitedIsAcyclic, Circular
<1>5. StoredIsVisited' /\ DependenciesFirst' BY DEF StoredIsVisited, DependenciesFirst
<1> QED BY <1>1, <1>2, <1>3, <1>4, <1>5

LEMMA VisitInv == ASSUME IInv, NEW id \in ready, Visit(id) PROVE IInv'
<1>1. /\ units' = units /\ deps' = deps /\ phase' = phase /\ finished' = finished /\ phase = "validate"
      /\ ready' = ready \ {id} /\ visited' = visited \cup {id}
  BY DEF Visit
<1>2. id \in units BY DEF IInv, TypeOK
<1>3. \A u \in units : remaining'[u] = Cardinality(deps[u] \ (visited \cup {id})) /\ remaining'[u] \in Nat
  BY VisitCounts
<1>4. TypeOK'
  <2>1. remaining' \in [units -> Nat]
    <3>1. DOMAIN remaining' = units BY DEF Visit
    <3>2. remaining' = [u \in units |-> remaining'[u]] BY <3>1 DEF Visit
    <3> QED BY <1>3, <3>2
  <2> QED BY <1>1, <1>2, <2>1 DEF IInv, TypeOK
<1>5. CountsUnvisited' BY <1>1, <1>3 DEF CountsUnvisited
<1>6. ReadyIsFree' BY <1>1 DEF IInv, ReadyIsFree
<1>7. VisitedIsAcyclic'
  <2> SUFFICES ASSUME NEW S \in SUBSET units, Circular(S), id \in S PROVE FALSE
    BY <1>1 DEF IInv, VisitedIsAcyclic, Circular
  <2>1. S \cap visited = {} BY DEF IInv, VisitedIsAcyclic
  <2>2. deps[id] \cap S # {} BY DEF Circular
  <2>3. deps[id] \subseteq visited BY DEF IInv, ReadyIsFree
  <2> QED BY <2>1, <2>2, <2>3
<1>8. StoredIsVisited' /\ DependenciesFirst' BY <1>1 DEF IInv, StoredIsVisited, DependenciesFirst
<1> QED BY <1>4, <1>5, <1>6, <1>7, <1>8 DEF IInv

LEMMA AcceptInv == ASSUME IInv, Accept PROVE IInv'
<1> USE DEF IInv, Accept
<1>1. TypeOK' BY DEF TypeOK
<1>2. CountsUnvisited' /\ ReadyIsFree' /\ StoredIsVisited' BY DEF CountsUnvisited, ReadyIsFree, StoredIsVisited
<1>3. VisitedIsAcyclic' BY DEF VisitedIsAcyclic, Circular
<1>4. DependenciesFirst' BY DEF DependenciesFirst
<1> QED BY <1>1, <1>2, <1>3, <1>4

LEMMA RefuseInv == ASSUME IInv, Refuse PROVE IInv'
<1> USE DEF IInv, Refuse
<1>1. finished' = {} BY DEF StoredIsVisited
<1>2. units' = {} /\ ready' = {} /\ visited' = {} /\ phase' = "plan" OBVIOUS
<1>3. deps' \in [{} -> SUBSET {}] /\ remaining' \in [{} -> Nat] BY DEF NoDeps
<1>4. TypeOK' BY <1>1, <1>2, <1>3 DEF TypeOK
<1>5. CountsUnvisited' /\ ReadyIsFree' /\ VisitedIsAcyclic' BY <1>2 DEF CountsUnvisited, ReadyIsFree, VisitedIsAcyclic
<1>6. StoredIsVisited' /\ DependenciesFirst' BY <1>1, <1>2 DEF StoredIsVisited, DependenciesFirst
<1> QED BY <1>4, <1>5, <1>6

LEMMA ProgressInv == ASSUME IInv, NEW u \in units, Progress(u) PROVE IInv'
<1> USE DEF IInv, Progress
<1>1. TypeOK' BY DEF TypeOK
<1>2. CountsUnvisited' /\ ReadyIsFree' BY DEF CountsUnvisited, ReadyIsFree
<1>3. VisitedIsAcyclic' BY DEF VisitedIsAcyclic, Circular
<1>4. StoredIsVisited' BY DEF StoredIsVisited
<1>5. DependenciesFirst' BY DEF DependenciesFirst, CanProgress
<1> QED BY <1>1, <1>2, <1>3, <1>4, <1>5

LEMMA StepInv == IInv /\ [Next]_vars => IInv'
<1> SUFFICES ASSUME IInv, [Next]_vars PROVE IInv' OBVIOUS
<1>1. ASSUME NEW us \in SUBSET Ids, NEW ds \in [us -> SUBSET us], Decompose(us, ds) PROVE IInv' BY <1>1, DecomposeInv
<1>2. CASE Collect BY <1>2, CollectInv
<1>3. ASSUME NEW id \in ready, Visit(id) PROVE IInv' BY <1>3, VisitInv
<1>4. CASE Accept BY <1>4, AcceptInv
<1>5. CASE Refuse BY <1>5, RefuseInv
<1>6. ASSUME NEW u \in units, Progress(u) PROVE IInv' BY <1>6, ProgressInv
<1>7. CASE UNCHANGED vars
  BY <1>7 DEF vars, IInv, TypeOK, CountsUnvisited, ReadyIsFree, VisitedIsAcyclic, StoredIsVisited, DependenciesFirst, Circular
<1> QED BY <1>1, <1>2, <1>3, <1>4, <1>5, <1>6, <1>7 DEF Next

\* The invariant holds in every reachable state.
THEOREM Invariant == Spec => []IInv
<1> QED BY InitInv, StepInv, PTL DEF Spec

\* The types of the state of decomposition and progress.
THEOREM TypeCorrect == Spec => []TypeOK
<1>1. IInv => TypeOK BY DEF IInv
<1> QED BY <1>1, Invariant, PTL

\* Whatever the order of the hash map, a decomposition that the loop accepts
\* has no cycle.
THEOREM AcceptanceIsSound == Spec => []AcceptedIsAcyclic
<1>1. IInv => AcceptedIsAcyclic
  <2> SUFFICES ASSUME IInv, phase = "accepted", NEW S \in SUBSET units, Circular(S) PROVE FALSE
    BY DEF AcceptedIsAcyclic, Acyclic
  <2>1. S \cap units = {} BY DEF IInv, VisitedIsAcyclic, StoredIsVisited
  <2> QED BY <2>1 DEF Circular
<1> QED BY <1>1, Invariant, PTL

\* and one that it refuses has one.
THEOREM RefusalIsSound == Spec => RefusedIsCyclic
<1>1. IInv /\ [Next]_vars => (phase = "validate" /\ phase' = "plan" => ~Acyclic)
  <2> SUFFICES ASSUME IInv, [Next]_vars, phase = "validate", phase' = "plan" PROVE ~Acyclic OBVIOUS
  <2>1. Refuse BY DEF Next, vars, Decompose, Collect, Visit, Accept, Progress
  <2>2. \A u \in units \ visited : deps[u] \ visited # {}
    <3> SUFFICES ASSUME NEW u \in units \ visited, deps[u] \ visited = {} PROVE FALSE OBVIOUS
    <3>1. Cardinality(deps[u] \ visited) = 0 BY FS_EmptySet
    <3>2. remaining[u] = 0 BY <3>1 DEF IInv, CountsUnvisited
    <3> QED BY <2>1, <3>2 DEF Refuse, NextBatch
  <2>3. \A u \in units : deps[u] \subseteq units BY DEF IInv, TypeOK
  <2>4. units \ visited # {} BY <2>1 DEF Refuse, IInv, TypeOK
  <2>5. Circular(units \ visited) BY <2>2, <2>3, <2>4 DEF Circular
  <2> QED BY <2>5 DEF Acyclic
<1> QED BY <1>1, Invariant, PTL DEF Spec, RefusedIsCyclic

\* Units are completed in the order of their dependencies.
THEOREM ProgressIsOrdered == Spec => []DependenciesFirst
<1>1. IInv => DependenciesFirst BY DEF IInv
<1> QED BY <1>1, Invariant, PTL

\* While units are open, one of them can be completed: if every open unit
\* waited for another open one, the open units would be a cycle.
THEOREM NeverBlocked == Spec => []SomeUnitReady
<1>1. IInv => SomeUnitReady
  <2> SUFFICES ASSUME IInv, phase = "accepted", finished # units, \A u \in units : ~CanProgress(u) PROVE FALSE
    BY DEF SomeUnitReady
  <2> DEFINE open == units \ finished
  <2>1. open # {} /\ open \in SUBSET units BY DEF IInv, TypeOK
  <2>2. \A u \in open : deps[u] \cap open # {} BY DEF CanProgress, IInv, TypeOK
  <2>3. Circular(open) BY <2>1, <2>2 DEF Circular
  <2>4. open \cap units = {} BY <2>1, <2>3 DEF IInv, VisitedIsAcyclic, StoredIsVisited
  <2> QED BY <2>1, <2>4
<1> QED BY <1>1, Invariant, PTL

\* Together: a decomposition that validate_acyclic accepted has no cycle, is
\* worked off in the order of its dependencies and never gets stuck.
THEOREM PlanIsExecutable == Spec => []PlanInv
<1>1. TypeOK /\ AcceptedIsAcyclic /\ DependenciesFirst /\ SomeUnitReady => PlanInv
  BY DEF PlanInv
<1> QED BY <1>1, TypeCorrect, AcceptanceIsSound, ProgressIsOrdered, NeverBlocked, PTL

=============================================================================
