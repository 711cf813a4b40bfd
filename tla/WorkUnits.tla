----------------------------- MODULE WorkUnits ------------------------------
(***************************************************************************)
(* The dependencies of work units: factory_decompose accepts a             *)
(* decomposition only when its graph has no cycle, decided by removing     *)
(* units without dependencies batch by batch (validate_acyclic in          *)
(* extension/src/tools.rs, and again in runtime/src/stages.rs when the     *)
(* stage is judged), and factory_update_progress completes a unit only     *)
(* after its dependencies.                                                 *)
(*                                                                         *)
(* - A unit is its identifier; titles, texts and their limits are left     *)
(*   out.  Self dependencies, unknown and repeated ones are refused before *)
(*   the graph is looked at, so they are no inputs of it.                  *)
(* - Batches come from a hash map: their units are visited in any order.   *)
(***************************************************************************)
EXTENDS Naturals, FiniteSets

CONSTANTS
    Ids,            \* the identifiers a plan may use
    MaxWorkUnits,   \* MAX_WORK_UNITS of a decomposition
    MaxDependencies \* MAX_DEPENDENCIES of a unit

ASSUME IdsAssumption == IsFiniteSet(Ids)
ASSUME LimitsAssumption == MaxWorkUnits \in Nat \ {0} /\ MaxDependencies \in Nat

VARIABLES
    phase,      \* "plan", "validate" while the loop runs, "accepted"
    units,      \* the identifiers of the decomposition
    deps,       \* depends_on of each unit
    remaining,  \* the loop's count of dependencies not yet visited
    ready,      \* what is left of the loop's current batch
    visited,    \* the loop's completed set
    finished    \* the units that are completed

vars == <<phase, units, deps, remaining, ready, visited, finished>>

TypeOK ==
    /\ phase \in {"plan", "validate", "accepted"}
    /\ units \in SUBSET Ids
    /\ deps \in [units -> SUBSET units]
    /\ remaining \in [units -> Nat]
    /\ ready \in SUBSET units
    /\ visited \in SUBSET units
    /\ finished \in SUBSET units

NoDeps == [u \in {} |-> 0]

Init ==
    /\ phase = "plan"
    /\ units = {} /\ deps = NoDeps /\ remaining = NoDeps
    /\ ready = {} /\ visited = {} /\ finished = {}

\* factory_decompose is called: the checks before validate_acyclic, and its
\* initial counts.
Decompose(us, ds) ==
    /\ phase = "plan"
    /\ us # {} /\ Cardinality(us) <= MaxWorkUnits
    /\ \A u \in us : u \notin ds[u] /\ Cardinality(ds[u]) <= MaxDependencies
    /\ phase' = "validate"
    /\ units' = us /\ deps' = ds
    /\ remaining' = [u \in us |-> Cardinality(ds[u])]
    /\ ready' = {} /\ visited' = {}
    /\ UNCHANGED finished

\* Mutant: a unit that had dependencies is not looked at again.
NextBatchFirst == {u \in units \ visited : deps[u] = {}}

NextBatch == {u \in units \ visited : remaining[u] = 0}

Collect ==
    /\ phase = "validate" /\ ready = {} /\ NextBatch # {}
    /\ ready' = NextBatch
    /\ UNCHANGED <<phase, units, deps, remaining, visited, finished>>

\* Mutant: every unit loses a dependency, not only those that have this one.
VisitEverywhere(id) ==
    /\ phase = "validate" /\ id \in ready
    /\ ready' = ready \ {id}
    /\ visited' = visited \cup {id}
    /\ remaining' = [u \in units |-> IF remaining[u] > 0 THEN remaining[u] - 1 ELSE 0]
    /\ UNCHANGED <<phase, units, deps, finished>>

\* One unit of the batch; its dependents have one dependency less to wait for
\* (saturating_sub).
Visit(id) ==
    /\ phase = "validate" /\ id \in ready
    /\ ready' = ready \ {id}
    /\ visited' = visited \cup {id}
    /\ remaining' = [u \in units |-> IF id \in deps[u] /\ remaining[u] > 0 THEN remaining[u] - 1 ELSE remaining[u]]
    /\ UNCHANGED <<phase, units, deps, finished>>

\* The loop ends: every unit was visited and the decomposition is stored, or
\* the call is refused and the document stays as it was.
Accept ==
    /\ phase = "validate" /\ ready = {} /\ NextBatch = {}
    /\ visited = units
    /\ phase' = "accepted"
    /\ UNCHANGED <<units, deps, remaining, ready, visited, finished>>

Refuse ==
    /\ phase = "validate" /\ ready = {} /\ NextBatch = {}
    /\ visited # units
    /\ phase' = "plan"
    /\ units' = {} /\ deps' = NoDeps /\ remaining' = NoDeps /\ visited' = {}
    /\ UNCHANGED <<ready, finished>>

\* factory_update_progress.
CanProgress(u) == u \in units \ finished /\ deps[u] \subseteq finished

Progress(u) ==
    /\ phase = "accepted" /\ CanProgress(u)
    /\ finished' = finished \cup {u}
    /\ UNCHANGED <<phase, units, deps, remaining, ready, visited>>

Next ==
    \/ \E us \in SUBSET Ids : \E ds \in [us -> SUBSET us] : Decompose(us, ds)
    \/ Collect
    \/ \E id \in ready : Visit(id)
    \/ Accept
    \/ Refuse
    \/ \E u \in units : Progress(u)

Spec == Init /\ [][Next]_vars

-----------------------------------------------------------------------------
(* Properties.                                                             *)

\* A set of units that wait for each other: none of them can be the first.
Circular(S) == S # {} /\ \A u \in S : deps[u] \cap S # {}
Acyclic == \A S \in SUBSET units : ~Circular(S)

\* The loop accepts acyclic graphs only, in whatever order it visits them
\* (validate_acyclic): a stored decomposition has no cycle.
AcceptedIsAcyclic == phase = "accepted" => Acyclic

\* and it refuses no other graph than a cyclic one, however its batches fall
\* (validate_acyclic): an agent can always decompose what can be worked off.
RefusedIsCyclic == [][phase = "validate" /\ phase' = "plan" => ~Acyclic]_vars

\* A unit is never completed before what it depends on.
DependenciesFirst == \A u \in finished : deps[u] \subseteq finished

\* The agent never gets stuck: while units of a stored decomposition are open,
\* the tool accepts the completion of one of them.
SomeUnitReady == phase = "accepted" /\ finished # units => \E u \in units : CanProgress(u)

\* Together: what is stored can be worked off, and is, in the order of its
\* dependencies.
PlanInv == TypeOK /\ AcceptedIsAcyclic /\ DependenciesFirst /\ SomeUnitReady

=============================================================================
