------------------------------- MODULE Breaker -------------------------------
(***************************************************************************)
(* The circuit breaker of infra/circuit/circuit.go, together with the      *)
(* protocol its callers follow around it.                                  *)
(*                                                                         *)
(* Every call goes Allow(), then the store operation, then (usually) one   *)
(* report, Success() or Failure().  Allow, Success and Failure each hold   *)
(* the breaker's mutex for their whole body, so each is one atomic step;   *)
(* the store operation between them is where callers interleave.           *)
(*                                                                         *)
(* Three kinds of callers use a breaker:                                   *)
(*   Recorders  - saveTaskRecord: one store operation, always one report;  *)
(*   Persisters - persistToMySQLInternal: two store operations, a report   *)
(*                after the first one only when it failed, and a report    *)
(*                after the second one in any case;                        *)
(*   Reporters  - StatusReporter.Report, HeartbeatSender.report and        *)
(*                snapshotRunningWorkflow: one report, or none when the    *)
(*                call returns early (its context ended while retrying,    *)
(*                the workflow entry is gone, the payload does not         *)
(*                serialise).                                              *)
(* Tickers are the reporters driven by a timer: the heartbeat loop.        *)
(* The master's breaker (mysql-persist) is used by saveTaskRecord, the     *)
(* persisters and the snapshots, a worker's (worker-etcd) by its status    *)
(* reports and its heartbeat: each is an instance with the kinds it has.   *)
(***************************************************************************)
EXTENDS Naturals

CONSTANTS
    MaxFailures,    \* maxFailures: failures in a row that open the breaker
    FailureBound,   \* bound: failures in a row that are reported
    Recorders, Persisters, Reporters,
    Tickers

Callers == Recorders \cup Persisters \cup Reporters

ASSUME MaxFailuresAssumption == MaxFailures \in Nat \ {0}
ASSUME FailureBoundAssumption == FailureBound \in Nat
ASSUME TickersAssumption == Tickers \subseteq Reporters
ASSUME PersistersAssumption == Persisters \cap Reporters = {}

VARIABLES
    state,              \* Breaker.state
    consecutiveFails,   \* Breaker.consecutiveFails
    cooldown,           \* "over" when now.Sub(lastStateChange) >= cooldownInterval
    pc,                 \* where each caller is
    probes              \* history: calls let through since the breaker last
                        \* left the closed state or was opened again

breakerVars == <<state, consecutiveFails, cooldown>>
vars == <<breakerVars, pc, probes>>

State == {"Closed", "Open", "HalfOpen"}

TypeOK ==
    /\ state \in State
    /\ consecutiveFails \in Nat
    /\ cooldown \in {"running", "over"}
    /\ pc \in [Callers -> {"idle", "calling", "second"}]
    /\ probes \subseteq Callers

\* NewBreaker.
Init ==
    /\ state = "Closed"
    /\ consecutiveFails = 0
    /\ cooldown = "running"
    /\ pc = [c \in Callers |-> "idle"]
    /\ probes = {}

Goto(c, l) == pc' = [pc EXCEPT ![c] = l]

SetState(s) == state' = s /\ cooldown' = "running"

(***************************************************************************)
(* Mutants: plausible slips in circuit.go and its callers.                 *)
(***************************************************************************)

\* Failure() with the threshold compared before the increment.
FailureOffByOne ==
    /\ consecutiveFails' = consecutiveFails + 1
    /\ IF state = "HalfOpen" \/ (state = "Closed" /\ consecutiveFails >= MaxFailures)
       THEN SetState("Open")
       ELSE UNCHANGED <<state, cooldown>>

\* Failure() that forgets the half-open state.
FailureForgetsProbe ==
    /\ consecutiveFails' = consecutiveFails + 1
    /\ IF state = "Closed" /\ consecutiveFails' >= MaxFailures
       THEN SetState("Open")
       ELSE UNCHANGED <<state, cooldown>>

\* Allow() that never leaves the open state.
AllowNeverProbes == state = "Closed" /\ UNCHANGED <<state, cooldown>>

\* Allow() that lets every call through while the breaker is half-open.
AllowInHalfOpen ==
    \/ state \in {"Closed", "HalfOpen"} /\ UNCHANGED <<state, cooldown>>
    \/ state = "Open" /\ cooldown = "over" /\ SetState("HalfOpen")

(***************************************************************************)
(* The three methods.                                                      *)
(***************************************************************************)

\* Allow() returning true.
Allow ==
    \/ state = "Closed" /\ UNCHANGED <<state, cooldown>>
    \/ state = "Open" /\ cooldown = "over" /\ SetState("HalfOpen")

\* Allow() returning false.
Reject == state = "HalfOpen" \/ (state = "Open" /\ cooldown = "running")

Success ==
    /\ consecutiveFails' = 0
    /\ IF state # "Closed" THEN SetState("Closed") ELSE UNCHANGED <<state, cooldown>>

Failure ==
    /\ consecutiveFails' = consecutiveFails + 1
    /\ IF state = "HalfOpen" \/ (state = "Closed" /\ consecutiveFails' >= MaxFailures)
       THEN SetState("Open")
       ELSE UNCHANGED <<state, cooldown>>

\* The cooldown after the last state change runs out; Allow is its only reader,
\* and reads it only in the Open state.
CoolDown ==
    /\ state = "Open" /\ cooldown = "running"
    /\ cooldown' = "over"
    /\ UNCHANGED <<state, consecutiveFails, pc, probes>>

(***************************************************************************)
(* The callers.                                                            *)
(***************************************************************************)

Begin(c) ==
    /\ pc[c] = "idle"
    /\ Allow
    /\ Goto(c, "calling")
    /\ probes' = IF state = "Closed" THEN {} ELSE probes \cup {c}
    /\ UNCHANGED consecutiveFails

\* A call that is refused returns at once and leaves everything as it is.
Refused(c) ==
    /\ pc[c] = "idle"
    /\ Reject
    /\ UNCHANGED vars

\* A report that changes the breaker's state ends the count of its probes.
Reopened == probes' = IF state' = state THEN probes ELSE {}

\* UpdateWorkflowStatus ended: only a failure is reported here, and the call
\* goes on to UpdateExecution either way.
FirstSucceeded(c) ==
    /\ c \in Persisters /\ pc[c] = "calling"
    /\ Goto(c, "second")
    /\ UNCHANGED <<breakerVars, probes>>

FirstFailed(c) ==
    /\ c \in Persisters /\ pc[c] = "calling"
    /\ consecutiveFails < FailureBound
    /\ Failure /\ Reopened
    /\ Goto(c, "second")

\* The (last) store operation of the call ended.
LastOperation(c) == pc[c] = IF c \in Persisters THEN "second" ELSE "calling"

Succeeded(c) ==
    /\ LastOperation(c)
    /\ Success /\ Reopened
    /\ Goto(c, "idle")

Failed(c) ==
    /\ LastOperation(c)
    /\ consecutiveFails < FailureBound
    /\ Failure /\ Reopened
    /\ Goto(c, "idle")

\* The call returns between Allow and its report: nobody tells the breaker.
Abandon(c) ==
    /\ c \in Reporters /\ pc[c] = "calling"
    /\ Goto(c, "idle")
    /\ UNCHANGED <<breakerVars, probes>>

End(c) ==
    \/ FirstSucceeded(c)
    \/ FirstFailed(c)
    \/ Succeeded(c)
    \/ Failed(c)
    \/ Abandon(c)

Next ==
    \/ CoolDown
    \/ \E c \in Callers : Begin(c) \/ Refused(c) \/ End(c)

(***************************************************************************)
(* Store operations carry a timeout, so a call that began ends; time       *)
(* passes; the heartbeat loop keeps calling.  Nothing forces the other     *)
(* callers to call.                                                        *)
(***************************************************************************)
Fairness ==
    /\ WF_vars(CoolDown)
    /\ \A c \in Callers : WF_vars(End(c))
    /\ \A c \in Tickers : WF_vars(Begin(c))

Spec == Init /\ [][Next]_vars /\ Fairness

(***************************************************************************)
(* Properties.                                                             *)
(***************************************************************************)

\* The breaker lets calls through freely exactly while fewer than maxFailures
\* failures have been reported since the last success.  The counter and the
\* state are updated by different methods, in any order the callers' late
\* reports arrive in, and must never disagree: a Closed breaker that already
\* counts maxFailures would only open on the next failure, an Open one with
\* fewer would refuse calls without cause (Success, Failure).
ClosedBelowThreshold == (state = "Closed") <=> (consecutiveFails < MaxFailures)

\* A half-open breaker is waiting for the one call it let through since it was
\* opened, and this call, unless it is one that may return without a report, is
\* still at work: no late report of a call from before, and no mix of first and
\* second reports of a persister, leaves the breaker half-open with its probe
\* gone ("半开状态只允许一个探测请求"; Allow, Failure, persistToMySQLInternal).
ProbeUnderWay ==
    state = "HalfOpen" =>
        \E c \in Callers : probes = {c} /\ (pc[c] # "idle" \/ c \in Reporters)

\* A half-open breaker refuses everybody, so it depends on a report to move.
\* It gets out of that state whenever a task or workflow write is under way,
\* whichever call was the probe and whatever else reports in the meantime: only
\* status, heartbeat and snapshot calls that return without reporting can leave
\* it there (Failure, Success; saveTaskRecord, persistToMySQLInternal).
ProbeResolves ==
    (state = "HalfOpen" /\ \E c \in Recorders \cup Persisters : pc[c] # "idle")
        ~> (state # "HalfOpen")

\* As long as the heartbeat loop runs, an open breaker does not refuse calls
\* for ever: it is closed by a late success or probed after its cooldown.
OpenIsLeft == (state = "Open") ~> (state # "Open")

=============================================================================
