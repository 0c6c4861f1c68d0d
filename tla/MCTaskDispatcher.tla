-------------------------- MODULE MCTaskDispatcher --------------------------
(***************************************************************************)
(* TLC instances of TaskDispatcher: two workflows, A of higher priority.   *)
(***************************************************************************)
EXTENDS TaskDispatcher, TLC

CONSTANTS A, B, a1, a2, a3, b1

MCWf == [t \in Tasks |-> IF t \in {a1, a2, a3} THEN A ELSE B]
MCPriority == [w \in Workflows |-> IF w = A THEN 1 ELSE 0]

\* Three tasks that may fail, of workflows that may end and with failing
\* writes, and four tasks that only compete for the slots.
MCEnvironments ==
    {[pushed |-> {a1, a2, b1}, failing |-> {a1, a2, b1},
      ending |-> {A}, faults |-> {"lost"}],
     [pushed |-> {a1, a2, a3, b1}, failing |-> {}, ending |-> {}, faults |-> {}]}

\* One task of each workflow, and nothing that goes wrong.
TwoTasks == {[pushed |-> {a1, b1}, failing |-> {}, ending |-> {}, faults |-> {}]}

=============================================================================
