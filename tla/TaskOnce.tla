------------------------------ MODULE TaskOnce -------------------------------
(***************************************************************************)
(* What the claim of a task promises to the rest of the system: a task is  *)
(* put once, its business code is started once at most, by a start that    *)
(* turns PENDING into RUNNING, and only a started task gets a result.  A   *)
(* claim whose answer is lost may strand the task in RUNNING, and a task   *)
(* that nobody started may expire; a result may be written again but is    *)
(* never taken back.  TaskClaim implements this in CAS mode.               *)
(***************************************************************************)
EXTENDS Naturals

VARIABLES
    put,        \* 1 once the master has put the task
    status,     \* the task's status, "none" when its key does not exist
    started     \* times its business code was started

vars == <<put, status, started>>

Results == {"COMPLETED", "FAILED"}

Init == put = 0 /\ status = "none" /\ started = 0

\* The master publishes the task.
Publish ==
    /\ put = 0
    /\ put' = 1 /\ status' = "PENDING" /\ UNCHANGED started

\* A goroutine claims the task and starts its business code.
Start ==
    /\ status = "PENDING" /\ started = 0
    /\ status' = "RUNNING" /\ started' = 1 /\ UNCHANGED put

\* A claim takes effect although the claimant is told that it failed.
Strand ==
    /\ status = "PENDING" /\ started = 0
    /\ status' = "RUNNING" /\ UNCHANGED <<put, started>>

\* The goroutine that ran the task writes its result, perhaps repeatedly.
Finish ==
    /\ started = 1
    /\ status' \in Results /\ UNCHANGED <<put, started>>

\* The key expires before the task is claimed, or is deleted after its result
\* was written.
Remove ==
    /\ status \in {"PENDING"} \cup Results
    /\ status' = "none" /\ UNCHANGED <<put, started>>

Next == Publish \/ Start \/ Strand \/ Finish \/ Remove

Spec == Init /\ [][Next]_vars

=============================================================================
