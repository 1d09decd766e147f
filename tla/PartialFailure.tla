--------------------------- MODULE PartialFailure ---------------------------
(***************************************************************************)
(* What Executor.execute promises its caller (executor.py: "Returns a list *)
(* of StepResults - one per step. Failed steps are recorded but do not     *)
(* abort subsequent steps"): once a plan is known, exactly one outcome per *)
(* step, in the order of the plan and numbered by it, nothing after a      *)
(* failure skipped, and no return before the last one.                     *)
(***************************************************************************)
EXTENDS Integers, Sequences

VARIABLES
    planned,    \* the number of steps of the plan, -1 before there is one
    outcomes,   \* the step results so far
    returned    \* execute has returned

vars == <<planned, outcomes, returned>>

Init == planned = -1 /\ outcomes = <<>> /\ returned = FALSE

Plan ==
    /\ planned = -1
    /\ planned' \in Nat
    /\ UNCHANGED <<outcomes, returned>>

\* The next step of the plan succeeds or fails.
Step ==
    /\ planned # -1 /\ ~returned
    /\ Len(outcomes) < planned
    /\ \E status \in {"success", "failed"} :
           outcomes' = Append(outcomes, [index |-> Len(outcomes), status |-> status])
    /\ UNCHANGED <<planned, returned>>

Return ==
    /\ planned # -1 /\ ~returned
    /\ Len(outcomes) = planned
    /\ returned' = TRUE
    /\ UNCHANGED <<planned, outcomes>>

Next == Plan \/ Step \/ Return

Spec == Init /\ [][Next]_vars
=============================================================================
