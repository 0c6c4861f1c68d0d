--------------------------- MODULE MCGroupExecutor ---------------------------
(***************************************************************************)
(* TLC instances of GroupExecutor.                                         *)
(***************************************************************************)
EXTENDS GroupExecutor

CONSTANTS a, b, f, i1, i2

MCName == [x \in Calls |-> IF x \in {i1, i2} THEN f ELSE x]

Plain == [normal |-> {a, b}, items |-> {}, list |-> "none", parallel |-> 1, sub |-> "none",
          iterations |-> 1, policy |-> "fail_fast", retries |-> 1, faults |-> {}]

\* Two parallel tasks whose run is cleaned up, or that may fail; the failure of
\* a task that is skipped; failures that are retried, of two tasks and in a
\* loop; a fan-out with a limit of one beside a sub-workflow, and one without a
\* limit; three iterations of a loop; and the nodes that fail at once.
MCEnvironments ==
    {[Plain EXCEPT !.faults = {"mysql", "shutdown"}],
     [Plain EXCEPT !.faults = {"fails", "etcd", "cancel"}],
     [Plain EXCEPT !.normal = {a}, !.policy = "skip", !.faults = {"fails"}],
     [Plain EXCEPT !.policy = "retry", !.faults = {"fails"}],
     [Plain EXCEPT !.normal = {a}, !.iterations = 2, !.policy = "retry", !.retries = 2,
                   !.faults = {"fails", "etcd", "shutdown"}],
     [Plain EXCEPT !.normal = {}, !.items = {i1, i2}, !.list = "found", !.sub = "tracked"],
     [Plain EXCEPT !.normal = {}, !.items = {i1, i2}, !.list = "found", !.parallel = 0],
     [Plain EXCEPT !.normal = {a}, !.iterations = 3, !.faults = {"cancel", "shutdown"}],
     [Plain EXCEPT !.normal = {a}, !.list = "missing"],
     [Plain EXCEPT !.normal = {a}, !.sub = "unregistered"]}

=============================================================================
