----------------------------- MODULE MCTaskClaim -----------------------------
(***************************************************************************)
(* TLC instances of TaskClaim: two workers, one with two goroutines.       *)
(***************************************************************************)
EXTENDS TaskClaim, TLC

CONSTANTS w1, w2, s1, s2, s3

MCWorkers == {w1, w2}
MCSlots == {s1, s2, s3}
MCOwner == (s1 :> w1) @@ (s2 :> w1) @@ (s3 :> w2)

Environment(m, f, c) == [mode |-> m, faults |-> f, crashing |-> c]

AllFaults == {"lost", "applied", "lease", "ignored"}

\* Both modes with everything that can go wrong and a crashing worker; CAS with
\* only a lease that may run out, and with only a master that may ignore the
\* result; and Mutex with nothing going wrong.
MCEnvironments ==
    {Environment("CAS", AllFaults, {w1}),
     Environment("CAS", {"lease"}, {}),
     Environment("CAS", {"ignored"}, {}),
     Environment("Mutex", {"lost", "applied"}, {w1}),
     Environment("Mutex", {}, {})}

QuietMutex == {Environment("Mutex", {}, {})}

=============================================================================
