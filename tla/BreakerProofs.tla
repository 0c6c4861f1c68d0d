---------------------------- MODULE BreakerProofs ----------------------------
(***************************************************************************)
(* Proofs about the circuit breaker, for any threshold and any set of      *)
(* callers.  The inductive invariant is TypeOK with ClosedBelowThreshold,  *)
(* ProbeUnderWay and the fact that nothing was let through since a breaker *)
(* that is not half-open changed its state.                                *)
(***************************************************************************)
EXTENDS Breaker, TLAPS

NoProbeOutside == state # "HalfOpen" => probes = {}

BreakerInv == TypeOK /\ ClosedBelowThreshold /\ NoProbeOutside /\ ProbeUnderWay

\* A call that goes through leaves the counter alone; out of the open state it is
\* the only probe.
LEMMA BeginPreserves ==
  ASSUME BreakerInv, NEW c \in Callers, Begin(c)
  PROVE  BreakerInv'
  <1>1. TypeOK'
    BY DEF BreakerInv, Begin, Allow, SetState, Goto, TypeOK, State
  <1>2. CASE state = "Closed"
    <2>1. UNCHANGED <<state, consecutiveFails>> /\ probes' = {}
      BY <1>2 DEF Begin, Allow
    <2>2. QED
      BY <1>1, <1>2, <2>1
      DEF BreakerInv, ClosedBelowThreshold, NoProbeOutside, ProbeUnderWay
  <1>3. CASE state = "Open"
    <2>1. state' = "HalfOpen" /\ consecutiveFails' = consecutiveFails
      BY <1>3 DEF Begin, Allow, SetState
    <2>2. probes' = {c} /\ pc'[c] = "calling"
      BY <1>3 DEF BreakerInv, NoProbeOutside, TypeOK, Begin, Goto
    <2>3. QED
      BY <1>1, <1>3, <2>1, <2>2
      DEF BreakerInv, ClosedBelowThreshold, NoProbeOutside, ProbeUnderWay
  <1>4. QED
    BY <1>2, <1>3 DEF Begin, Allow

\* What one report does to the breaker, whoever makes it: a half-open breaker is
\* always left, so nothing is asked of the caller's new place.
LEMMA ReportPreserves ==
  ASSUME BreakerInv, Success \/ Failure, Reopened,
         pc' \in [Callers -> {"idle", "calling", "second"}]
  PROVE  BreakerInv'
  <1>1. /\ state' \in {"Closed", "Open"}
        /\ consecutiveFails' \in Nat
        /\ cooldown' \in {"running", "over"}
        /\ ClosedBelowThreshold'
    <2>1. CASE Success
      BY <2>1, MaxFailuresAssumption
      DEF BreakerInv, Success, SetState, TypeOK, State, ClosedBelowThreshold
    <2>2. CASE Failure
      BY <2>2, MaxFailuresAssumption
      DEF BreakerInv, Failure, SetState, TypeOK, State, ClosedBelowThreshold
    <2>3. QED
      BY <2>1, <2>2
  <1>2. probes' = {}
    BY <1>1 DEF BreakerInv, NoProbeOutside, Reopened
  <1>3. TypeOK'
    BY <1>1, <1>2 DEF TypeOK, State
  <1>4. QED
    BY <1>1, <1>2, <1>3 DEF BreakerInv, NoProbeOutside, ProbeUnderWay

\* A persister on its way to its second operation, and a call that returns
\* without a report: neither is a probe that ends unnoticed.
LEMMA SilentPreserves ==
  ASSUME BreakerInv, NEW c \in Callers, FirstSucceeded(c) \/ Abandon(c)
  PROVE  BreakerInv'
  <1>1. UNCHANGED <<state, consecutiveFails, cooldown, probes>>
    BY DEF FirstSucceeded, Abandon, breakerVars
  <1>2. TypeOK'
    BY <1>1 DEF BreakerInv, FirstSucceeded, Abandon, Goto, TypeOK
  <1>3. ASSUME NEW d \in Callers, pc[d] # "idle" \/ d \in Reporters
        PROVE  pc'[d] # "idle" \/ d \in Reporters
    BY <1>3 DEF BreakerInv, FirstSucceeded, Abandon, Goto, TypeOK
  <1>4. ProbeUnderWay'
    BY <1>1, <1>3 DEF BreakerInv, ProbeUnderWay
  <1>5. QED
    BY <1>1, <1>2, <1>4 DEF BreakerInv, ClosedBelowThreshold, NoProbeOutside

LEMMA StepPreserves ==
  ASSUME BreakerInv, [Next]_vars
  PROVE  BreakerInv'
  <1>1. CASE CoolDown
    BY <1>1
    DEF CoolDown, BreakerInv, TypeOK, ClosedBelowThreshold, NoProbeOutside, ProbeUnderWay
  <1>2. ASSUME NEW c \in Callers, Begin(c)
        PROVE  BreakerInv'
    BY <1>2, BeginPreserves
  <1>3. ASSUME NEW c \in Callers, FirstSucceeded(c) \/ Abandon(c)
        PROVE  BreakerInv'
    BY <1>3, SilentPreserves
  <1>4. ASSUME NEW c \in Callers, FirstFailed(c) \/ Succeeded(c) \/ Failed(c)
        PROVE  BreakerInv'
    <2>1. (Success \/ Failure) /\ Reopened
      BY <1>4 DEF FirstFailed, Succeeded, Failed
    <2>2. pc' \in [Callers -> {"idle", "calling", "second"}]
      BY <1>4 DEF FirstFailed, Succeeded, Failed, Goto, BreakerInv, TypeOK
    <2>3. QED
      BY <2>1, <2>2, ReportPreserves
  <1>5. CASE UNCHANGED vars
    BY <1>5
    DEF vars, breakerVars, BreakerInv, TypeOK, ClosedBelowThreshold, NoProbeOutside, ProbeUnderWay
  <1>6. QED
    BY <1>1, <1>2, <1>3, <1>4, <1>5 DEF Next, End, Refused

LEMMA BreakerInvariant == Spec => []BreakerInv
  <1>1. Init => BreakerInv
    BY MaxFailuresAssumption
    DEF Init, BreakerInv, TypeOK, State, ClosedBelowThreshold, NoProbeOutside, ProbeUnderWay
  <1>2. BreakerInv /\ [Next]_vars => BreakerInv'
    BY StepPreserves
  <1>3. QED
    BY <1>1, <1>2, PTL DEF Spec

\* Allow, Success and Failure keep the state and the failure counter in
\* agreement for every threshold and every set of callers.
THEOREM BreakerClosedBelowThreshold == Spec => []ClosedBelowThreshold
  <1>1. BreakerInv => ClosedBelowThreshold
    BY DEF BreakerInv
  <1>2. QED
    BY <1>1, BreakerInvariant, PTL

\* A half-open breaker has let exactly one call through, and this call is at
\* work unless it is one of those that may return without a report.
THEOREM BreakerProbeUnderWay == Spec => []ProbeUnderWay
  <1>1. BreakerInv => ProbeUnderWay
    BY DEF BreakerInv
  <1>2. QED
    BY <1>1, BreakerInvariant, PTL

=============================================================================
