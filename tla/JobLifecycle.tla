---------------------------- MODULE JobLifecycle ----------------------------
(***************************************************************************)
(* What factoryd promises its clients about a job, without workers,        *)
(* leases, attempts or retries: the stages of a job pass one after the     *)
(* other and each of them once, the job ends once, as succeeded only when  *)
(* all of them have passed, and only a succeeded job is continued.         *)
(***************************************************************************)
EXTENDS Integers

CONSTANTS
    Jobs,
    BaseStages,     \* stages of a new job
    RoundStages     \* stages a continuation appends

VARIABLES
    phase,  \* "none", "open", "stopping" or how the job ended
    total,  \* how many stages it has
    passed  \* the ordinals of the stages that have passed

vars == <<phase, total, passed>>

Init ==
    /\ phase = [j \in Jobs |-> "none"]
    /\ total = [j \in Jobs |-> 0]
    /\ passed = [j \in Jobs |-> {}]

Create(j) ==
    /\ phase[j] = "none"
    /\ phase' = [phase EXCEPT ![j] = "open"]
    /\ total' = [total EXCEPT ![j] = BaseStages]
    /\ UNCHANGED passed

\* Stage k passes when exactly the stages before it have.
Pass(j, k) ==
    /\ phase[j] = "open"
    /\ k < total[j] /\ passed[j] = 0 .. (k - 1)
    /\ passed' = [passed EXCEPT ![j] = 0 .. k]
    /\ phase' = [phase EXCEPT ![j] = IF k + 1 = total[j] THEN "succeeded" ELSE "open"]
    /\ UNCHANGED total

\* The job ends early, or is about to: nothing passes any more.
End(j) ==
    /\ \/ phase[j] = "open" /\ \E p \in {"failed", "stopping", "cancelled"} : phase' = [phase EXCEPT ![j] = p]
       \/ phase[j] = "stopping" /\ phase' = [phase EXCEPT ![j] = "cancelled"]
    /\ UNCHANGED <<total, passed>>

Continue(j) ==
    /\ phase[j] = "succeeded"
    /\ phase' = [phase EXCEPT ![j] = "open"]
    /\ total' = [total EXCEPT ![j] = @ + RoundStages]
    /\ UNCHANGED passed

Next == \E j \in Jobs : Create(j) \/ (\E k \in 0 .. total[j] : Pass(j, k)) \/ End(j) \/ Continue(j)

Spec == Init /\ [][Next]_vars

=============================================================================
