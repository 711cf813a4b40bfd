---------------------------- MODULE FactoryState ----------------------------
(***************************************************************************)
(* The Factory state document of a job and the operations on it: the tools *)
(* of the extension (extension/src/tools.rs), the rollback point of a      *)
(* detached review (extension/src/model.rs) and what a stage must have     *)
(* left behind before it counts (runtime/src/stages.rs).                   *)
(*                                                                         *)
(* - A report keeps its generation, the turns it names, its verdict and    *)
(*   its findings; texts, severities and threads are left out (a detached  *)
(*   review has a thread of its own, so its turn identifies it).           *)
(* - "request_changes" also stands for "blocked": no code tells them apart.*)
(* - The dependencies of work units are in module WorkUnits.               *)
(***************************************************************************)
EXTENDS Naturals, Sequences

CONSTANTS
    Units,      \* the work units a decomposition creates
    Findings,   \* the findings a review may report
    None        \* no review, no rollback point, no checkpoint, nothing cached

ASSUME UnitsAssumption == Units # {}
ASSUME FindingsAssumption == Findings # {}

Verdicts == {"approve", "request_changes"}
Decompositions == {<<>>} \cup [Units -> {"pending", "completed"}]
Reports == [generation : Nat, turn : Nat, parent : Nat, verdict : Verdicts, findings : SUBSET Findings]
Baselines == [revision : Nat, review : Reports \cup {None}, remediations : SUBSET Findings, history : Seq(Nat)]
Documents ==
    [revision : Nat, units : Decompositions, review : Reports \cup {None}, remediations : SUBSET Findings,
     history : Seq(Nat), recovery : Baselines \cup {None}]

ASSUME NoneAssumption == None \notin Reports /\ None \notin Baselines /\ None \notin Documents

\* FactoryState::default: no work units, no review.
DefaultState ==
    [revision |-> 0, units |-> <<>>, review |-> None, remediations |-> {}, history |-> <<>>, recovery |-> None]

-----------------------------------------------------------------------------
(* The rollback point of a detached review.                                *)

RollbackReview(d) ==
    IF d.recovery = None
    THEN d
    ELSE [d EXCEPT !.revision = d.recovery.revision, !.review = d.recovery.review,
                   !.remediations = d.recovery.remediations, !.history = d.recovery.history,
                   !.recovery = None]

PrepareReview(d) ==
    LET b == RollbackReview(d) IN
    [b EXCEPT !.recovery = [revision |-> b.revision, review |-> b.review,
                            remediations |-> b.remediations, history |-> b.history]]

CommitReview(d) == [d EXCEPT !.recovery = None]

-----------------------------------------------------------------------------
(* The tools.  Each one is the mutation that FactoryThreadState::update    *)
(* applies; update itself then counts the revision (Updated).              *)

Updated(d) == [d EXCEPT !.revision = @ + 1]

MayDecompose(d) == d.units = <<>>
Decompose(d) ==
    [d EXCEPT !.units = [u \in Units |-> "pending"], !.review = None, !.remediations = {}, !.history = <<>>]

MayProgress(d, u) == u \in DOMAIN d.units /\ d.units[u] # "completed"
Progress(d, u) == [d EXCEPT !.units[u] = "completed"]

\* An approval has no findings and everything else has some, each of a known unit.
MayReview(d, verdict, findings) ==
    /\ (verdict = "approve") = (findings = {})
    /\ findings # {} => d.units # <<>>

CurrentGeneration(d) ==
    CASE d.review # None -> d.review.generation
      [] d.review = None /\ d.history # <<>> -> d.history[Len(d.history)]
      [] OTHER -> 0

SameTurn(d, turn) == d.review # None /\ d.review.turn = turn

\* record_review: a second report of one turn replaces the first, any other
\* report archives a remediated predecessor and opens a generation.
RecordReview(d, turn, parent, verdict, findings) ==
    LET report(g) == [generation |-> g, turn |-> turn, parent |-> parent, verdict |-> verdict, findings |-> findings]
        archived == d.review # None /\ d.remediations # {}
    IN  IF SameTurn(d, turn)
        THEN [d EXCEPT !.review = report(IF d.review.generation = 0 THEN 1 ELSE d.review.generation)]
        ELSE [d EXCEPT !.review = report(CurrentGeneration(d) + 1),
                       !.remediations = {},
                       !.history = IF archived THEN Append(@, d.review.generation) ELSE @]

MayRemediate(d, findings) == d.review # None /\ findings # {} /\ findings \subseteq d.review.findings
Remediate(d, findings) == [d EXCEPT !.remediations = findings]

-----------------------------------------------------------------------------
(* What a finished stage must have left in the document.                   *)

ValidatePlan(d) ==
    /\ d.units # <<>>
    /\ \A u \in DOMAIN d.units : d.units[u] = "pending"
    /\ d.review = None /\ d.remediations = {} /\ d.history = <<>>

ValidateExecute(d) ==
    /\ d.units # <<>>
    /\ \A u \in DOMAIN d.units : d.units[u] = "completed"

\* A positive generation, and findings exactly when the report does not approve.
ValidateReport(d) ==
    /\ d.review # None
    /\ d.review.generation > 0
    /\ (d.review.verdict = "approve") = (d.review.findings = {})

\* The report is newer than the baseline and is about the turn under review.
ValidateReview(d, generation, parent) ==
    /\ ValidateExecute(d)
    /\ ValidateReport(d)
    /\ d.review.generation > generation
    /\ d.review.parent = parent

\* Every finding has its disposition, and an approval has none.
ValidateRemediation(d) ==
    /\ ValidateExecute(d)
    /\ ValidateReport(d)
    /\ d.remediations = d.review.findings

=============================================================================
