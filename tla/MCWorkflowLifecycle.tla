------------------------- MODULE MCWorkflowLifecycle -------------------------
(***************************************************************************)
(* TLC instances of WorkflowLifecycle.                                     *)
(***************************************************************************)
EXTENDS WorkflowLifecycle, TLC

CONSTANTS a, b, c, d

\* One run of a workflow whose first group has two parallel tasks and may
\* branch; each of the groups may ask for an approval.
PlanMain == <<{a, b}, {c}>>
PlanBranch == <<{d}>>
PlanMainControl == <<{"next", "branch", "approval"}, {"next", "approval"}>>
PlanBranchControl == <<{"next", "skip", "approval"}>>
PlanPolicy == [t \in Tasks |->
    CASE t = b -> "skip" [] t = c -> "rollback" [] t = d -> "fail_fast" [] OTHER -> "retry"]

\* Two runs of a workflow of two single-task groups.
TwoMain == <<{a}, {c}>>
TwoBranch == <<>>
TwoMainControl == <<{"next"}, {"next", "approval"}>>
TwoBranchControl == <<>>
TwoPolicy == [t \in Tasks |-> IF t = c THEN "rollback" ELSE "fail_fast"]

\* The executors of a pool are interchangeable.
ExecutorSymmetry == Permutations(Executors)

=============================================================================
