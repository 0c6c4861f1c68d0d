----------------------------- MODULE MCRecovery -----------------------------
(***************************************************************************)
(* TLC instances of Recovery.                                              *)
(***************************************************************************)
EXTENDS Recovery

CONSTANTS u1, u2

\* m submissions of u1 and n of u2.
Counts(m, n) == [u \in UUIDs |-> IF u = u1 THEN m ELSE n]

\* A workflow of two groups whose tasks may fail, with a fault; with two faults; and
\* with a goroutine that waits for the entry when it ends.
Failing == [groups |-> Counts(2, 2), submits |-> Counts(1, 0), faults |-> 1,
            failing |-> TRUE, window |-> FALSE]
TwoFaults == [Failing EXCEPT !.faults = 2, !.failing = FALSE]
Waited == [TwoFaults EXCEPT !.faults = 1, !.window = TRUE]

\* The same UUID submitted twice.
TwoRuns == [TwoFaults EXCEPT !.groups = Counts(1, 1), !.submits = Counts(2, 0), !.faults = 1]

\* And one that is still at its first group when the executor of the other is not.
TwoLongRuns == [TwoRuns EXCEPT !.groups = Counts(2, 2), !.faults = 0]

\* Two workflows that share the history.
TwoUUIDs == [TwoRuns EXCEPT !.submits = Counts(1, 1), !.faults = 0]

MCEnvironments == {Failing, TwoFaults, Waited, TwoRuns, TwoLongRuns, TwoUUIDs}
=============================================================================
