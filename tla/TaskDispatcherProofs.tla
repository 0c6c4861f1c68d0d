------------------------ MODULE TaskDispatcherProofs ------------------------
(***************************************************************************)
(* Proofs about TaskDispatcher, for any tasks, workflows and limits: the   *)
(* global counter is exact and never negative, the global limit is         *)
(* exceeded by at most one task, no workflow's counter counts a slot that  *)
(* nobody holds, and the queue keeps the order within a workflow.          *)
(***************************************************************************)
EXTENDS TaskDispatcher, FiniteSetTheorems, TLAPS

(***************************************************************************)
(* The inductive invariant.                                                *)
(***************************************************************************)

\* TypeOK without the claim that the counter is not negative.
Typed ==
    /\ globalActive \in Int
    /\ perWf \in [Workflows -> Int]
    /\ pc \in [Tasks -> TaskLabels]
    /\ after \in [Tasks -> {"enqueue", "refused", "dropped"}]
    /\ prio \in [Tasks -> Int]
    /\ ahead \in [Tasks -> SUBSET Tasks]
    /\ late \subseteq Tasks
    /\ retries \in [Tasks -> 0..MaxRetries]
    /\ ended \subseteq Workflows
    /\ pqMu \in Dispatchers \cup {Free}
    /\ dpc \in [Dispatchers -> DispatcherLabels]
    /\ deferred \subseteq Tasks
    /\ batch \in [Dispatchers -> SUBSET Tasks]

\* A task in backoff has an attempt left; one that RetryTask pushes counts it.
RetryRoom ==
    \A t \in Tasks :
        /\ pc[t] = "backoff" => retries[t] < MaxRetries
        /\ pc[t] \in {"retryWf", "retryPut"} => retries[t] > 0

\* Only the holder of pqMu scans the queue, and a task is popped for it alone.
MutexInv ==
    /\ \A d \in Dispatchers : dpc[d] \in {"scan", "grab"} => pqMu = d
    /\ \A t \in Tasks : pc[t] \in {"picked", "grabWf"} =>
           pqMu \in Dispatchers /\ dpc[pqMu] = "grab"
    /\ \A t, u \in Tasks : pc[t] \in {"picked", "grabWf"} /\ pc[u] \in {"picked", "grabWf"} => t = u

\* What the tasks of a batch do while their dispatcher is busy with it.
BatchInv ==
    \A d \in Dispatchers :
        /\ dpc[d] \in {"idle", "relGlobal", "relWf", "relDel", "lock"} => batch[d] = {}
        /\ \A t \in batch[d] :
              /\ dpc[d] # "giveback" => pc[t] = "batched"
              /\ dpc[d] = "giveback" =>
                    \/ pc[t] \in {"undoGlobal", "undoWf", "undoDel"} /\ after[t] = "dropped"
                    \/ pc[t] = "dropped"
              /\ \A e \in Dispatchers : t \in batch[e] => e = d

\* Between the look at the global counter and the increment, at most
\* GlobalMax tasks are out: the increment then exceeds the limit by one.
BoundInv ==
    /\ Cardinality(Out) <= GlobalMax + 1
    /\ (\E t \in Tasks : pc[t] = "picked") => Cardinality(Out) <= GlobalMax

Inv == Typed /\ RetryRoom /\ MutexInv /\ BatchInv /\ SlotAccounting /\ BoundInv

(***************************************************************************)
(* Types.                                                                  *)
(***************************************************************************)

LEMMA WfOfTyped ==
    ASSUME NEW d \in Dispatchers
    PROVE  WfOf(d) \in Workflows
BY WfAssumption DEF WfOf, Dispatchers

LEMMA TypedInit == Init => Typed
BY RetryAssumption DEF Init, Typed, TaskLabels, DispatcherLabels, Outcomes

LEMMA TypedTask ==
    ASSUME Typed, RetryRoom, NEW t \in Tasks, TaskStep(t)
    PROVE  Typed'
<1> USE WfAssumption DEF Typed
<1> Wf[t] \in Workflows /\ t \in Dispatchers /\ Wf[t] \in Dispatchers
  BY DEF Dispatchers
<1>1. CASE CheckWf(t)
  BY <1>1, PriorityAssumption DEF CheckWf, Goto, TaskLabels, Outcomes, counters, queueVars, dispVars
<1>2. CASE CheckGlobal(t)
  BY <1>2 DEF CheckGlobal, Goto, TaskLabels, Outcomes, counters, queueVars, dispVars
<1>3. CASE IncWf(t)
  BY <1>3 DEF IncWf, AddWf, Goto, TaskLabels, Outcomes, queueVars, dispVars
<1>4. CASE IncGlobal(t)
  BY <1>4 DEF IncGlobal, AddGlobal, Goto, TaskLabels, Outcomes, queueVars, dispVars
<1>5. CASE PushOk(t)
  BY <1>5 DEF PushOk, Goto, TaskLabels, Outcomes, counters, queueVars, dispVars
<1>6. CASE PushError(t)
  BY <1>6 DEF PushError, Goto, TaskLabels, Outcomes, counters, queueVars, dispVars
<1>7. CASE UndoGlobal(t)
  BY <1>7 DEF UndoGlobal, AddGlobal, Goto, TaskLabels, Outcomes, queueVars, dispVars
<1>8. CASE UndoWf(t)
  BY <1>8 DEF UndoWf, AddWf, Goto, TaskLabels, Outcomes, queueVars, dispVars
<1>9. CASE UndoDel(t)
  BY <1>9 DEF UndoDel, Deleted, Goto, TaskLabels, Outcomes, queueVars, dispVars
<1>10. CASE Enqueue(t)
  BY <1>10 DEF Enqueue, Queued, Goto, TaskLabels, Outcomes, counters, dispVars
<1>11. CASE Report(t)
  BY <1>11 DEF Report, Goto, DGoto, TaskLabels, DispatcherLabels, Outcomes, counters, queueVars
<1>12. CASE RetryGlobal(t)
  <2>1. retries[t] + 1 \in 0..MaxRetries
    BY <1>12, RetryAssumption DEF RetryGlobal, RetryRoom
  <2>2. retries' \in [Tasks -> 0..MaxRetries]
    BY <2>1, <1>12 DEF RetryGlobal
  <2> QED BY <2>2, <1>12 DEF RetryGlobal, AddGlobal, Goto, TaskLabels, Outcomes, queueVars, dispVars
<1>13. CASE RetryCancelled(t)
  BY <1>13 DEF RetryCancelled, Goto, TaskLabels, Outcomes, counters, queueVars, dispVars
<1>14. CASE RetryWf(t)
  BY <1>14 DEF RetryWf, AddWf, Goto, TaskLabels, Outcomes, queueVars, dispVars
<1>15. CASE RetryOk(t)
  BY <1>15 DEF RetryOk, Goto, TaskLabels, Outcomes, counters, queueVars, dispVars
<1>16. CASE RetryError(t)
  BY <1>16 DEF RetryError, Deleted, Goto, DGoto, TaskLabels, DispatcherLabels, Outcomes, queueVars
<1> QED BY <1>1, <1>2, <1>3, <1>4, <1>5, <1>6, <1>7, <1>8, <1>9, <1>10, <1>11,
           <1>12, <1>13, <1>14, <1>15, <1>16 DEF TaskStep

LEMMA TypedDispatch ==
    ASSUME Typed, NEW d \in Dispatchers, DispatchStep(d)
    PROVE  Typed'
<1> USE WfAssumption DEF Typed
<1> WfOf(d) \in Workflows
  BY WfOfTyped
<1>1. CASE ReleaseGlobal(d)
  BY <1>1 DEF ReleaseGlobal, AddGlobal, DGoto, DispatcherLabels, taskVars, queueVars
<1>2. CASE ReleaseWf(d)
  BY <1>2 DEF ReleaseWf, AddWf, DGoto, DispatcherLabels, taskVars, queueVars
<1>3. CASE ReleaseDel(d)
  BY <1>3 DEF ReleaseDel, Deleted, DGoto, DispatcherLabels, taskVars, queueVars
<1>4. CASE LockAndEvict(d)
  BY <1>4 DEF LockAndEvict, Deleted, Popped, Evicted, Queued, DGoto, DispatcherLabels,
              TaskLabels, Outcomes
<1>5. CASE ScanEnd(d)
  BY <1>5 DEF ScanEnd, DGoto, DispatcherLabels, counters, taskVars
<1>6. ASSUME NEW t \in Tasks, Defer(d, t)
      PROVE  Typed'
  BY <1>6 DEF Defer, counters, taskVars, dispVars
<1>7. ASSUME NEW t \in Tasks, Pick(d, t)
      PROVE  Typed'
  BY <1>7 DEF Pick, Popped, Goto, DGoto, DispatcherLabels, TaskLabels, counters
<1>8. ASSUME NEW t \in Tasks, GrabGlobal(d, t)
      PROVE  Typed'
  BY <1>8 DEF GrabGlobal, AddGlobal, Goto, TaskLabels, queueVars, dispVars
<1>9. ASSUME NEW t \in Tasks, GrabWf(d, t)
      PROVE  Typed'
  BY <1>9 DEF GrabWf, AddWf, Goto, DGoto, DispatcherLabels, TaskLabels, queueVars
<1>10. CASE Collect(d)
  BY <1>10 DEF Collect, DGoto, DispatcherLabels, TaskLabels, Outcomes, counters, queueVars
<1>11. CASE PutOk(d)
  BY <1>11 DEF PutOk, DGoto, DispatcherLabels, TaskLabels, counters, queueVars
<1>12. CASE PutError(d)
  BY <1>12 DEF PutError, DGoto, DispatcherLabels, TaskLabels, counters, queueVars
<1>13. CASE GiveBackEnd(d)
  BY <1>13 DEF GiveBackEnd, DGoto, DispatcherLabels, counters, taskVars, queueVars
<1> QED BY <1>1, <1>2, <1>3, <1>4, <1>5, <1>6, <1>7, <1>8, <1>9, <1>10, <1>11,
           <1>12, <1>13 DEF DispatchStep

LEMMA TypedNext == Typed /\ RetryRoom /\ [Next]_vars => Typed'
<1> SUFFICES ASSUME Typed, RetryRoom, [Next]_vars PROVE Typed'
  OBVIOUS
<1>1. ASSUME NEW t \in Tasks, TaskStep(t) PROVE Typed'
  BY <1>1, TypedTask
<1>2. ASSUME NEW t \in Tasks, Age(t) PROVE Typed'
  BY <1>2 DEF Typed, Age, Queued, counters, taskVars, dispVars
<1>3. ASSUME NEW d \in Dispatchers, DispatchStep(d) PROVE Typed'
  BY <1>3, TypedDispatch
<1>4. ASSUME NEW w \in Workflows, EndWorkflow(w) PROVE Typed'
  BY <1>4 DEF Typed, EndWorkflow, Deleted, taskVars, queueVars, dispVars
<1>5. CASE UNCHANGED vars
  BY <1>5 DEF Typed, vars, counters, taskVars, queueVars, dispVars
<1> QED BY <1>1, <1>2, <1>3, <1>4, <1>5 DEF Next

LEMMA RetryRoomNext == Typed /\ RetryRoom /\ [Next]_vars => RetryRoom'
<1> SUFFICES ASSUME Typed, RetryRoom, [Next]_vars PROVE RetryRoom'
  OBVIOUS
<1> USE RetryAssumption DEF Typed, RetryRoom
<1>1. ASSUME NEW t \in Tasks, TaskStep(t) PROVE RetryRoom'
  <2>1. CASE RetryGlobal(t)
    BY <1>1, <2>1 DEF RetryGlobal, Goto
  <2>2. CASE ~RetryGlobal(t)
    <3>1. retries' = retries
      BY <1>1, <2>2 DEF TaskStep, CheckWf, CheckGlobal, IncWf, IncGlobal, PushOk, PushError,
                UndoGlobal, UndoWf, UndoDel, Enqueue, Report, RetryCancelled, RetryWf, RetryOk,
                RetryError
    <3> QED
      BY <1>1, <2>2, <3>1 DEF TaskStep, CheckWf, CheckGlobal, IncWf, IncGlobal, PushOk, PushError,
                UndoGlobal, UndoWf, UndoDel, Enqueue, Report, RetryCancelled, RetryWf, RetryOk,
                RetryError, Goto
  <2> QED BY <2>1, <2>2
<1>2. ASSUME NEW t \in Tasks, Age(t) PROVE RetryRoom'
  BY <1>2 DEF Age, taskVars
<1>3. ASSUME NEW d \in Dispatchers, DispatchStep(d) PROVE RetryRoom'
  BY <1>3 DEF DispatchStep, ReleaseGlobal, ReleaseWf, ReleaseDel, LockAndEvict, ScanEnd, Defer,
              Pick, GrabGlobal, GrabWf, Collect, PutOk, PutError, GiveBackEnd, Goto, taskVars
<1>4. ASSUME NEW w \in Workflows, EndWorkflow(w) PROVE RetryRoom'
  BY <1>4 DEF EndWorkflow, taskVars
<1>5. CASE UNCHANGED vars
  BY <1>5 DEF vars, taskVars
<1> QED BY <1>1, <1>2, <1>3, <1>4, <1>5 DEF Next

(***************************************************************************)
(* The mutex and the batches.                                              *)
(***************************************************************************)

LEMMA MutexNext == Typed /\ MutexInv /\ [Next]_vars => MutexInv'
<1> SUFFICES ASSUME Typed, MutexInv, [Next]_vars PROVE MutexInv'
  OBVIOUS
<1> USE WfAssumption, DisjointAssumption DEF Typed, MutexInv
<1>1. ASSUME NEW t \in Tasks, TaskStep(t) PROVE MutexInv'
  <2> Wf[t] \in Workflows /\ t \in Dispatchers /\ Wf[t] \in Dispatchers
    BY DEF Dispatchers
  <2>1. /\ pqMu' = pqMu
        /\ \A d \in Dispatchers : dpc'[d] # dpc[d] => dpc[d] = "idle" /\ dpc'[d] = "relGlobal"
    BY <1>1 DEF TaskStep, CheckWf, CheckGlobal, IncWf, IncGlobal, PushOk, PushError, UndoGlobal,
                UndoWf, UndoDel, Enqueue, Report, RetryGlobal, RetryCancelled, RetryWf, RetryOk,
                RetryError, DGoto, queueVars, dispVars
  <2>2. \A u \in Tasks : pc'[u] \in {"picked", "grabWf"} => pc'[u] = pc[u]
    BY <1>1 DEF TaskStep, CheckWf, CheckGlobal, IncWf, IncGlobal, PushOk, PushError, UndoGlobal,
                UndoWf, UndoDel, Enqueue, Report, RetryGlobal, RetryCancelled, RetryWf, RetryOk,
                RetryError, Goto
  <2> QED BY <2>1, <2>2
<1>2. ASSUME NEW t \in Tasks, Age(t) PROVE MutexInv'
  BY <1>2 DEF Age, taskVars, dispVars
<1>3. ASSUME NEW d \in Dispatchers, DispatchStep(d) PROVE MutexInv'
  <2>1. CASE ReleaseGlobal(d) \/ ReleaseWf(d) \/ ReleaseDel(d)
    BY <2>1 DEF ReleaseGlobal, ReleaseWf, ReleaseDel, DGoto, taskVars, queueVars
  <2>2. CASE LockAndEvict(d)
    BY <2>2 DEF LockAndEvict, DGoto
  <2>3. CASE ScanEnd(d)
    BY <2>3 DEF ScanEnd, DGoto, taskVars
  <2>4. ASSUME NEW t \in Tasks, Defer(d, t) PROVE MutexInv'
    BY <2>4 DEF Defer, taskVars, dispVars
  <2>5. ASSUME NEW t \in Tasks, Pick(d, t) PROVE MutexInv'
    BY <2>5 DEF Pick, Goto, DGoto
  <2>6. ASSUME NEW t \in Tasks, GrabGlobal(d, t) PROVE MutexInv'
    BY <2>6 DEF GrabGlobal, Goto, queueVars, dispVars
  <2>7. ASSUME NEW t \in Tasks, GrabWf(d, t) PROVE MutexInv'
    BY <2>7 DEF GrabWf, Goto, DGoto, queueVars
  <2>8. CASE Collect(d) \/ PutOk(d) \/ PutError(d) \/ GiveBackEnd(d)
    BY <2>8 DEF Collect, PutOk, PutError, GiveBackEnd, DGoto, queueVars, taskVars
  <2> QED BY <1>3, <2>1, <2>2, <2>3, <2>4, <2>5, <2>6, <2>7, <2>8 DEF DispatchStep
<1>4. ASSUME NEW w \in Workflows, EndWorkflow(w) PROVE MutexInv'
  BY <1>4 DEF EndWorkflow, taskVars, queueVars, dispVars
<1>5. CASE UNCHANGED vars
  BY <1>5 DEF vars, taskVars, queueVars, dispVars
<1> QED BY <1>1, <1>2, <1>3, <1>4, <1>5 DEF Next

LEMMA BatchNext == Typed /\ MutexInv /\ BatchInv /\ [Next]_vars => BatchInv'
<1> SUFFICES ASSUME Typed, MutexInv, BatchInv, [Next]_vars PROVE BatchInv'
  OBVIOUS
<1> USE WfAssumption, DisjointAssumption DEF Typed
<1>1. ASSUME NEW t \in Tasks, TaskStep(t) PROVE BatchInv'
  <2> Wf[t] \in Workflows /\ t \in Dispatchers /\ Wf[t] \in Dispatchers
    BY DEF Dispatchers
  <2>1. /\ batch' = batch
        /\ \A d \in Dispatchers : dpc'[d] # dpc[d] => dpc[d] = "idle" /\ dpc'[d] = "relGlobal"
    BY <1>1 DEF TaskStep, CheckWf, CheckGlobal, IncWf, IncGlobal, PushOk, PushError, UndoGlobal,
                UndoWf, UndoDel, Enqueue, Report, RetryGlobal, RetryCancelled, RetryWf, RetryOk,
                RetryError, DGoto, queueVars, dispVars
  <2>2. \A u \in Tasks : pc[u] \in {"batched", "dropped"} => pc'[u] = pc[u]
    BY <1>1 DEF TaskStep, CheckWf, CheckGlobal, IncWf, IncGlobal, PushOk, PushError, UndoGlobal,
                UndoWf, UndoDel, Enqueue, Report, RetryGlobal, RetryCancelled, RetryWf, RetryOk,
                RetryError, Goto
  <2>3. \A u \in Tasks : pc[u] \in {"undoGlobal", "undoWf", "undoDel"} =>
            /\ after'[u] = after[u]
            /\ pc'[u] \in {"undoGlobal", "undoWf", "undoDel", after[u]}
    BY <1>1 DEF TaskStep, CheckWf, CheckGlobal, IncWf, IncGlobal, PushOk, PushError, UndoGlobal,
                UndoWf, UndoDel, Enqueue, Report, RetryGlobal, RetryCancelled, RetryWf, RetryOk,
                RetryError, Goto
  <2> QED BY <2>1, <2>2, <2>3 DEF BatchInv
<1>2. ASSUME NEW t \in Tasks, Age(t) PROVE BatchInv'
  BY <1>2 DEF BatchInv, Age, taskVars, dispVars
<1>3. ASSUME NEW d \in Dispatchers, DispatchStep(d) PROVE BatchInv'
  <2> USE DEF BatchInv
  <2>1. CASE ReleaseGlobal(d) \/ ReleaseWf(d) \/ ReleaseDel(d)
    BY <2>1 DEF ReleaseGlobal, ReleaseWf, ReleaseDel, DGoto, taskVars
  <2>2. CASE LockAndEvict(d)
    BY <2>2 DEF LockAndEvict, Evicted, Queued, DGoto
  <2>3. CASE ScanEnd(d)
    BY <2>3 DEF ScanEnd, DGoto, taskVars
  <2>4. ASSUME NEW t \in Tasks, Defer(d, t) PROVE BatchInv'
    BY <2>4 DEF Defer, taskVars, dispVars
  <2>5. ASSUME NEW t \in Tasks, Pick(d, t) PROVE BatchInv'
    BY <2>5 DEF Pick, Top, InHeap, Queued, Goto, DGoto
  <2>6. ASSUME NEW t \in Tasks, GrabGlobal(d, t) PROVE BatchInv'
    BY <2>6 DEF GrabGlobal, Goto, dispVars
  <2>7. ASSUME NEW t \in Tasks, GrabWf(d, t) PROVE BatchInv'
    BY <2>7 DEF GrabWf, Goto, DGoto
  <2>8. CASE Collect(d)
    BY <2>8 DEF Collect, DGoto
  <2>9. CASE PutOk(d)
    BY <2>9 DEF PutOk, DGoto
  <2>10. CASE PutError(d)
    BY <2>10 DEF PutError, DGoto
  <2>11. CASE GiveBackEnd(d)
    BY <2>11 DEF GiveBackEnd, DGoto, taskVars
  <2> QED BY <1>3, <2>1, <2>2, <2>3, <2>4, <2>5, <2>6, <2>7, <2>8, <2>9, <2>10, <2>11
          DEF DispatchStep
<1>4. ASSUME NEW w \in Workflows, EndWorkflow(w) PROVE BatchInv'
  BY <1>4 DEF BatchInv, EndWorkflow, taskVars, dispVars
<1>5. CASE UNCHANGED vars
  BY <1>5 DEF BatchInv, vars, taskVars, dispVars
<1> QED BY <1>1, <1>2, <1>3, <1>4, <1>5 DEF Next

(***************************************************************************)
(* Counting.                                                               *)
(***************************************************************************)

One(b) == IF b THEN 1 ELSE 0

LEMMA DispatchersFinite == IsFiniteSet(Dispatchers)
BY FiniteAssumption, FS_Union DEF Dispatchers

\* Moving one element in or out changes a cardinality by what it says.
LEMMA MoveOne ==
    ASSUME NEW S, IsFiniteSet(S), NEW T, NEW x, T \ {x} = S \ {x}
    PROVE  /\ IsFiniteSet(T)
           /\ Cardinality(S) \in Nat /\ Cardinality(T) \in Nat
           /\ Cardinality(T) = Cardinality(S) + One(x \in T) - One(x \in S)
<1> DEFINE R == S \ {x}
<1>1. /\ IsFiniteSet(R) /\ Cardinality(S) \in Nat /\ Cardinality(R) \in Nat
      /\ Cardinality(R) = IF x \in S THEN Cardinality(S) - 1 ELSE Cardinality(S)
  BY FS_RemoveElement, FS_CardinalityType
<1>2. CASE x \in T
  <2>1. T = R \cup {x} /\ x \notin R
    BY <1>2
  <2> HIDE DEF R
  <2>2. IsFiniteSet(T) /\ Cardinality(T) = Cardinality(R) + 1
    BY <1>1, <2>1, FS_AddElement
  <2> QED BY <1>1, <1>2, <2>2 DEF One
<1>3. CASE x \notin T
  <2>1. T = R
    BY <1>3
  <2> HIDE DEF R
  <2> QED BY <1>1, <1>3, <2>1 DEF One
<1> QED BY <1>2, <1>3

LEMMA HoldersMove ==
    ASSUME Typed, NEW t \in Tasks, NEW l, Goto(t, l)
    PROVE  /\ Cardinality(GlobalHolders) \in Nat
           /\ Cardinality(GlobalHolders)' = Cardinality(GlobalHolders)
                  + One(l \in HoldLabels) - One(pc[t] \in HoldLabels)
<1>1. IsFiniteSet(GlobalHolders)
  BY FiniteAssumption, FS_Subset DEF GlobalHolders
<1>2. GlobalHolders' \ {t} = GlobalHolders \ {t}
  BY DEF Typed, Goto, GlobalHolders
<1>3. /\ t \in GlobalHolders' <=> l \in HoldLabels
      /\ t \in GlobalHolders <=> pc[t] \in HoldLabels
  BY DEF Typed, Goto, GlobalHolders
<1> HIDE DEF GlobalHolders
<1>4. /\ Cardinality(GlobalHolders) \in Nat
      /\ Cardinality(GlobalHolders') = Cardinality(GlobalHolders)
             + One(t \in GlobalHolders') - One(t \in GlobalHolders)
  BY <1>1, <1>2, MoveOne
<1> QED BY <1>3, <1>4 DEF One

LEMMA ReleasingMove ==
    ASSUME Typed, NEW d \in Dispatchers, NEW l, DGoto(d, l)
    PROVE  /\ Cardinality(Releasing) \in Nat
           /\ Cardinality(Releasing)' = Cardinality(Releasing)
                  + One(l = "relGlobal") - One(dpc[d] = "relGlobal")
<1>1. IsFiniteSet(Releasing)
  BY DispatchersFinite, FS_Subset DEF Releasing
<1>2. Releasing' \ {d} = Releasing \ {d}
  BY DEF Typed, DGoto, Releasing
<1>3. /\ d \in Releasing' <=> l = "relGlobal"
      /\ d \in Releasing <=> dpc[d] = "relGlobal"
  BY DEF Typed, DGoto, Releasing
<1>4. /\ Cardinality(Releasing) \in Nat
      /\ Cardinality(Releasing') = Cardinality(Releasing)
             + One(d \in Releasing') - One(d \in Releasing)
  BY <1>1, <1>2, MoveOne
<1> QED BY <1>3, <1>4 DEF One

LEMMA CardTypes ==
    /\ Cardinality(GlobalHolders) \in Nat
    /\ Cardinality(Releasing) \in Nat
    /\ IsFiniteSet(Out) /\ Cardinality(Out) \in Nat
    /\ Cardinality(Out) <= Cardinality(GlobalHolders)
<1>1. IsFiniteSet(GlobalHolders) /\ Cardinality(GlobalHolders) \in Nat
  BY FiniteAssumption, FS_Subset, FS_CardinalityType DEF GlobalHolders
<1>2. Cardinality(Releasing) \in Nat
  BY DispatchersFinite, FS_Subset, FS_CardinalityType DEF Releasing
<1>3. Out \subseteq GlobalHolders
  BY DEF Out, OutLabels, GlobalHolders, HoldLabels
<1> QED BY <1>1, <1>2, <1>3, FS_Subset, FS_CardinalityType

\* A step of one task that changes the counter by what the move is worth.
LEMMA AccountMove ==
    ASSUME Typed, SlotAccounting, NEW t \in Tasks, NEW l, Goto(t, l), dpc' = dpc,
           globalActive' = globalActive + One(l \in HoldLabels) - One(pc[t] \in HoldLabels)
    PROVE  SlotAccounting'
<1>1. Cardinality(Releasing)' = Cardinality(Releasing)
  BY DEF Releasing
<1>2. One(l \in HoldLabels) \in Int /\ One(pc[t] \in HoldLabels) \in Int
  BY DEF One
<1> QED BY <1>1, <1>2, HoldersMove, CardTypes DEF SlotAccounting

LEMMA AccountTask ==
    ASSUME Typed, SlotAccounting, NEW t \in Tasks, TaskStep(t)
    PROVE  SlotAccounting'
<1> USE DEF Typed, One, HoldLabels
<1> Wf[t] \in Dispatchers /\ t \in Dispatchers
  BY WfAssumption DEF Dispatchers
<1>1. CASE CheckWf(t)
  <2>1. PICK l \in {"enqueue", "chkGlobal"} : Goto(t, l)
    BY <1>1 DEF CheckWf
  <2> QED BY <1>1, <2>1, AccountMove DEF CheckWf, counters, dispVars
<1>2. CASE CheckGlobal(t)
  <2>1. PICK l \in {"enqueue", "incWf"} : Goto(t, l)
    BY <1>2 DEF CheckGlobal
  <2> QED BY <1>2, <2>1, AccountMove DEF CheckGlobal, counters, dispVars
<1>3. CASE IncWf(t)
  <2>1. PICK l \in {"undoWf", "incGlobal"} : Goto(t, l)
    BY <1>3 DEF IncWf
  <2> QED BY <1>3, <2>1, AccountMove DEF IncWf, dispVars
<1>4. CASE IncGlobal(t)
  <2>1. PICK l \in {"undoGlobal", "push"} : Goto(t, l)
    BY <1>4 DEF IncGlobal
  <2> QED BY <1>4, <2>1, AccountMove DEF IncGlobal, AddGlobal, dispVars
<1>5. CASE PushOk(t)
  BY <1>5, AccountMove DEF PushOk, counters, dispVars
<1>6. CASE PushError(t)
  BY <1>6, AccountMove DEF PushError, counters, dispVars
<1>7. CASE UndoGlobal(t)
  BY <1>7, AccountMove DEF UndoGlobal, AddGlobal, dispVars
<1>8. CASE UndoWf(t)
  <2>1. PICK l \in {"undoDel", "enqueue", "refused", "dropped"} : Goto(t, l)
    BY <1>8 DEF UndoWf
  <2> QED BY <1>8, <2>1, AccountMove DEF UndoWf, dispVars
<1>9. CASE UndoDel(t)
  <2>1. PICK l \in {"enqueue", "refused", "dropped"} : Goto(t, l)
    BY <1>9 DEF UndoDel
  <2> QED BY <1>9, <2>1, AccountMove DEF UndoDel, dispVars
<1>10. CASE Enqueue(t)
  BY <1>10, AccountMove DEF Enqueue, counters, dispVars
<1>11. CASE Report(t)
  <2>1. PICK l \in {"done", "backoff"} : Goto(t, l)
    BY <1>11 DEF Report
  <2>2. Cardinality(GlobalHolders)' = Cardinality(GlobalHolders) - 1
    BY <1>11, <2>1, HoldersMove DEF Report
  <2>3. Cardinality(Releasing)' = Cardinality(Releasing) + 1
    BY <1>11, ReleasingMove DEF Report
  <2> QED BY <1>11, <2>2, <2>3, CardTypes DEF Report, SlotAccounting, counters
<1>12. CASE RetryGlobal(t)
  BY <1>12, AccountMove DEF RetryGlobal, AddGlobal, dispVars
<1>13. CASE RetryCancelled(t)
  BY <1>13, AccountMove DEF RetryCancelled, counters, dispVars
<1>14. CASE RetryWf(t)
  BY <1>14, AccountMove DEF RetryWf, dispVars
<1>15. CASE RetryOk(t)
  BY <1>15, AccountMove DEF RetryOk, counters, dispVars
<1>16. CASE RetryError(t)
  <2>2. Cardinality(GlobalHolders)' = Cardinality(GlobalHolders) - 1
    BY <1>16, HoldersMove DEF RetryError
  <2>3. Cardinality(Releasing)' = Cardinality(Releasing) + 1
    BY <1>16, ReleasingMove DEF RetryError
  <2> QED BY <1>16, <2>2, <2>3, CardTypes DEF RetryError, SlotAccounting
<1> QED BY <1>1, <1>2, <1>3, <1>4, <1>5, <1>6, <1>7, <1>8, <1>9, <1>10, <1>11,
           <1>12, <1>13, <1>14, <1>15, <1>16 DEF TaskStep

\* A step that moves no task and no dispatcher across the counter's border.
LEMMA AccountQuiet ==
    ASSUME SlotAccounting, globalActive' = globalActive,
           GlobalHolders' = GlobalHolders, Releasing' = Releasing
    PROVE  SlotAccounting'
BY DEF SlotAccounting

LEMMA AccountDispatch ==
    ASSUME Typed, BatchInv, SlotAccounting, NEW d \in Dispatchers, DispatchStep(d)
    PROVE  SlotAccounting'
<1> USE DEF Typed, HoldLabels
<1>1. CASE ReleaseGlobal(d)
  <2>1. GlobalHolders' = GlobalHolders
    BY <1>1 DEF ReleaseGlobal, taskVars, GlobalHolders
  <2>2. Cardinality(Releasing)' = Cardinality(Releasing) - 1
    BY <1>1, ReleasingMove DEF ReleaseGlobal, One
  <2> QED BY <1>1, <2>1, <2>2, CardTypes DEF ReleaseGlobal, AddGlobal, SlotAccounting
<1>2. CASE ReleaseWf(d) \/ ReleaseDel(d) \/ ScanEnd(d) \/ GiveBackEnd(d)
  BY <1>2, AccountQuiet DEF ReleaseWf, ReleaseDel, ScanEnd, GiveBackEnd, DGoto, taskVars,
         counters, GlobalHolders, Releasing
<1>3. CASE LockAndEvict(d)
  BY <1>3, AccountQuiet DEF LockAndEvict, Evicted, Queued, DGoto, GlobalHolders, Releasing
<1>4. ASSUME NEW t \in Tasks, Defer(d, t) PROVE SlotAccounting'
  BY <1>4, AccountQuiet DEF Defer, taskVars, dispVars, counters, GlobalHolders, Releasing
<1>5. ASSUME NEW t \in Tasks, Pick(d, t) PROVE SlotAccounting'
  BY <1>5, AccountQuiet DEF Pick, Top, InHeap, Queued, Goto, DGoto, counters, GlobalHolders,
         Releasing
<1>6. ASSUME NEW t \in Tasks, GrabGlobal(d, t) PROVE SlotAccounting'
  BY <1>6, AccountMove DEF GrabGlobal, AddGlobal, dispVars, One
<1>7. ASSUME NEW t \in Tasks, GrabWf(d, t) PROVE SlotAccounting'
  BY <1>7, AccountQuiet DEF GrabWf, Goto, DGoto, GlobalHolders, Releasing
<1>8. CASE Collect(d)
  BY <1>8, AccountQuiet DEF Collect, BatchInv, DGoto, counters, GlobalHolders, Releasing
<1>9. CASE PutOk(d)
  BY <1>9, AccountQuiet DEF PutOk, BatchInv, DGoto, counters, GlobalHolders, Releasing
<1>10. CASE PutError(d)
  BY <1>10, AccountQuiet DEF PutError, BatchInv, DGoto, counters, GlobalHolders, Releasing
<1> QED BY <1>1, <1>2, <1>3, <1>4, <1>5, <1>6, <1>7, <1>8, <1>9, <1>10 DEF DispatchStep

LEMMA AccountNext == Typed /\ BatchInv /\ SlotAccounting /\ [Next]_vars => SlotAccounting'
<1> SUFFICES ASSUME Typed, BatchInv, SlotAccounting, [Next]_vars PROVE SlotAccounting'
  OBVIOUS
<1>1. ASSUME NEW t \in Tasks, Age(t) PROVE SlotAccounting'
  BY <1>1, AccountQuiet DEF Age, counters, taskVars, dispVars, GlobalHolders, Releasing
<1>2. ASSUME NEW w \in Workflows, EndWorkflow(w) PROVE SlotAccounting'
  BY <1>2, AccountQuiet DEF EndWorkflow, taskVars, dispVars, GlobalHolders, Releasing
<1>3. CASE UNCHANGED vars
  BY <1>3, AccountQuiet DEF vars, counters, taskVars, dispVars, GlobalHolders, Releasing
<1> QED BY <1>1, <1>2, <1>3, AccountTask, AccountDispatch DEF Next

(***************************************************************************)
(* The bound.                                                              *)
(***************************************************************************)

\* A step that lets no task through and picks none.
LEMMA BoundQuiet ==
    ASSUME BoundInv,
           \A u \in Tasks : pc'[u] \in OutLabels /\ retries'[u] = 0 =>
                               pc[u] \in OutLabels /\ retries[u] = 0,
           \A u \in Tasks : pc'[u] = "picked" => pc[u] = "picked"
    PROVE  BoundInv'
<1>1. Out' \subseteq Out
  BY DEF Out
<1>2. Cardinality(Out') <= Cardinality(Out) /\ Cardinality(Out) \in Nat /\ Cardinality(Out') \in Nat
  BY <1>1, CardTypes, FS_Subset, FS_CardinalityType
<1>3. GlobalMax \in Nat
  BY LimitAssumption
<1> QED BY <1>2, <1>3 DEF BoundInv

\* The tasks that are out are counted.
LEMMA OutCounted == SlotAccounting => Cardinality(Out) <= globalActive
BY CardTypes DEF SlotAccounting

LEMMA BoundNext ==
    Typed /\ RetryRoom /\ MutexInv /\ BatchInv /\ SlotAccounting /\ BoundInv /\ [Next]_vars
        => BoundInv'
<1> SUFFICES ASSUME Typed, RetryRoom, MutexInv, BatchInv, SlotAccounting, BoundInv, [Next]_vars
             PROVE  BoundInv'
  OBVIOUS
<1> USE LimitAssumption DEF Typed, OutLabels
<1>1. SlotAccounting' /\ (SlotAccounting' => Cardinality(Out)' <= globalActive')
  <2>1. SlotAccounting'
    BY AccountNext
  <2>2. (SlotAccounting => Cardinality(Out) <= globalActive)'
    BY OutCounted, PTL
  <2> QED BY <2>1, <2>2
<1>2. globalActive' \in Int /\ Cardinality(Out)' \in Nat
  <2>1. Typed'
    BY TypedNext
  <2>2. (Cardinality(Out) \in Nat)'
    BY CardTypes, PTL
  <2> QED BY <2>1, <2>2
<1>3. ASSUME NEW t \in Tasks, TaskStep(t) PROVE BoundInv'
  <2>1. CASE IncGlobal(t)
    <3>1. CASE globalActive' > GlobalMax
      BY <2>1, <3>1, BoundQuiet DEF IncGlobal, Goto
    <3>2. CASE ~(globalActive' > GlobalMax)
      BY <1>1, <1>2, <3>2 DEF BoundInv
    <3> QED BY <3>1, <3>2
  <2>2. CASE RetryGlobal(t)
    BY <2>2, BoundQuiet, RetryAssumption DEF RetryGlobal, Goto
  <2>3. CASE ~IncGlobal(t) /\ ~RetryGlobal(t)
    <3>1. retries' = retries
      BY <1>3, <2>3 DEF TaskStep, CheckWf, CheckGlobal, IncWf, PushOk, PushError,
                UndoGlobal, UndoWf, UndoDel, Enqueue, Report, RetryCancelled, RetryWf, RetryOk,
                RetryError
    <3>2. \A u \in Tasks : pc'[u] = "picked" => pc[u] = "picked"
      BY <1>3, <2>3 DEF TaskStep, CheckWf, CheckGlobal, IncWf, PushOk, PushError,
                UndoGlobal, UndoWf, UndoDel, Enqueue, Report, RetryCancelled, RetryWf, RetryOk,
                RetryError, Goto
    <3>3. \A u \in Tasks : pc'[u] \in OutLabels => pc[u] \in OutLabels \/ retries[u] > 0
      BY <1>3, <2>3 DEF TaskStep, CheckWf, CheckGlobal, IncWf, PushOk, PushError,
                UndoGlobal, UndoWf, UndoDel, Enqueue, Report, RetryCancelled, RetryWf, RetryOk,
                RetryError, Goto, RetryRoom
    <3> QED BY <3>1, <3>2, <3>3, BoundQuiet, RetryAssumption
  <2> QED BY <2>1, <2>2, <2>3
<1>4. ASSUME NEW t \in Tasks, Age(t) PROVE BoundInv'
  BY <1>4, BoundQuiet DEF Age, taskVars
<1>5. ASSUME NEW d \in Dispatchers, DispatchStep(d) PROVE BoundInv'
  <2>1. ASSUME NEW t \in Tasks, Pick(d, t) PROVE BoundInv'
    <3>1. globalActive' < GlobalMax
      BY <2>1 DEF Pick, FullGlobal, counters
    <3> QED BY <1>1, <1>2, <3>1 DEF BoundInv
  <2>2. ASSUME NEW t \in Tasks, GrabGlobal(d, t) PROVE BoundInv'
    <3>1. Cardinality(Out) <= GlobalMax
      BY <2>2 DEF GrabGlobal, BoundInv
    <3>2. Out' \subseteq Out \cup {t}
      BY <2>2 DEF GrabGlobal, Goto, Out
    <3>3. IsFiniteSet(Out \cup {t}) /\ Cardinality(Out \cup {t}) <= Cardinality(Out) + 1
      <4>1. IsFiniteSet(Out) /\ Cardinality(Out) \in Nat
        BY CardTypes
      <4>2. /\ IsFiniteSet(Out \cup {t})
            /\ Cardinality(Out \cup {t}) = IF t \in Out THEN Cardinality(Out)
                                           ELSE Cardinality(Out) + 1
        BY <4>1, FS_AddElement
      <4> QED BY <4>1, <4>2
    <3>4. Cardinality(Out') <= Cardinality(Out) + 1
      <4>1. Cardinality(Out') <= Cardinality(Out \cup {t})
        BY <3>2, <3>3, FS_Subset
      <4>2. Cardinality(Out \cup {t}) \in Nat
        BY <3>3, FS_CardinalityType
      <4> QED BY <1>2, <3>3, <4>1, <4>2, CardTypes
    <3>5. \A u \in Tasks : pc'[u] # "picked"
      BY <2>2 DEF GrabGlobal, Goto, MutexInv
    <3> QED BY <1>2, <3>1, <3>4, <3>5, CardTypes DEF BoundInv
  <2>3. CASE \A t \in Tasks : ~Pick(d, t) /\ ~GrabGlobal(d, t)
    <3>1. retries' = retries
      BY <1>5, <2>3 DEF DispatchStep, ReleaseGlobal, ReleaseWf, ReleaseDel, LockAndEvict, ScanEnd,
                Defer, GrabWf, Collect, PutOk, PutError, GiveBackEnd, taskVars
    <3>2. \A u \in Tasks : pc'[u] = "picked" => pc[u] = "picked"
      BY <1>5, <2>3 DEF DispatchStep, ReleaseGlobal, ReleaseWf, ReleaseDel, LockAndEvict, ScanEnd,
                Defer, GrabWf, Collect, PutOk, PutError, GiveBackEnd, taskVars, Goto
    <3>3. \A u \in Tasks : pc'[u] \in OutLabels => pc[u] \in OutLabels
      BY <1>5, <2>3 DEF DispatchStep, ReleaseGlobal, ReleaseWf, ReleaseDel, LockAndEvict, ScanEnd,
                Defer, GrabWf, Collect, PutOk, PutError, GiveBackEnd, taskVars, Goto, BatchInv
    <3> QED BY <3>1, <3>2, <3>3, BoundQuiet
  <2> QED BY <2>1, <2>2, <2>3
<1>6. ASSUME NEW w \in Workflows, EndWorkflow(w) PROVE BoundInv'
  BY <1>6, BoundQuiet DEF EndWorkflow, taskVars
<1>7. CASE UNCHANGED vars
  BY <1>7, BoundQuiet DEF vars, taskVars
<1> QED BY <1>3, <1>4, <1>5, <1>6, <1>7 DEF Next

(***************************************************************************)
(* The theorems.                                                           *)
(***************************************************************************)

LEMMA InitInv == Init => Inv
<1> SUFFICES ASSUME Init PROVE Inv
  OBVIOUS
<1>1. GlobalHolders = {} /\ Releasing = {} /\ Out = {}
  BY DEF Init, GlobalHolders, HoldLabels, Releasing, Out, OutLabels
<1>2. SlotAccounting /\ BoundInv
  BY <1>1, FS_EmptySet, LimitAssumption DEF Init, SlotAccounting, BoundInv
<1> QED BY <1>2, TypedInit DEF Init, Inv, RetryRoom, MutexInv, BatchInv

LEMMA Invariant == Spec => []Inv
<1>1. Inv /\ [Next]_vars => Inv'
  BY TypedNext, RetryRoomNext, MutexNext, BatchNext, AccountNext, BoundNext DEF Inv
<1> QED BY InitInv, <1>1, PTL DEF Spec

\* The dispatcher's state keeps its types; in particular the global counter
\* never becomes negative, whatever races and failures occur.
THEOREM DispatcherTyped == Spec => []TypeOK
<1>1. Inv => TypeOK
  BY CardTypes DEF Inv, Typed, SlotAccounting, TypeOK
<1> QED BY Invariant, <1>1, PTL

\* The global counter equals the number of tasks and releases that hold one
\* of its increments, for any number of tasks and workflows: no path through
\* PushTask, tryDispatchPending, batchPush, RetryTask or
\* ReleaseSlotForWorkflow loses or doubles an update of globalActive.
THEOREM DispatcherSlotAccounting == Spec => []SlotAccounting
<1>1. Inv => SlotAccounting
  BY DEF Inv
<1> QED BY Invariant, <1>1, PTL

\* The race between tryDispatchPending and PushTask exceeds the global limit
\* by at most one task, whatever the limit and the number of goroutines.
THEOREM DispatcherGlobalBound == Spec => []GlobalBound
<1>1. Inv => GlobalBound
  BY DEF Inv, BoundInv, GlobalBound
<1> QED BY Invariant, <1>1, PTL

(***************************************************************************)
(* The counters of the workflows.  Each increment has a task or a release  *)
(* that will take it back; deleting a counter only loses increments.       *)
(***************************************************************************)

\* A task releases its own slot once, when its retry has failed for good.
RetryOver == \A t \in Tasks : dpc[t] # "idle" => pc[t] = "refused"

LEMMA RetryOverNext == Typed /\ BatchInv /\ RetryOver /\ [Next]_vars => RetryOver'
<1> SUFFICES ASSUME Typed, BatchInv, RetryOver, [Next]_vars PROVE RetryOver'
  OBVIOUS
<1> USE WfAssumption, DisjointAssumption DEF Typed, RetryOver
<1> Tasks \subseteq Dispatchers /\ Workflows \subseteq Dispatchers
  BY DEF Dispatchers
<1>1. ASSUME NEW t \in Tasks, TaskStep(t) PROVE RetryOver'
  <2>1. CASE RetryError(t)
    BY <2>1 DEF RetryError, Goto, DGoto
  <2>2. CASE Report(t)
    <3>1. Wf[t] \notin Tasks
      OBVIOUS
    <3> QED BY <2>2, <3>1 DEF Report, Goto, DGoto
  <2>3. CASE ~RetryError(t) /\ ~Report(t)
    <3>1. dpc' = dpc
      BY <1>1, <2>3 DEF TaskStep, CheckWf, CheckGlobal, IncWf, IncGlobal, PushOk, PushError,
                UndoGlobal, UndoWf, UndoDel, Enqueue, RetryGlobal, RetryCancelled, RetryWf,
                RetryOk, dispVars
    <3>2. \A u \in Tasks : pc[u] = "refused" => pc'[u] = "refused"
      BY <1>1, <2>3 DEF TaskStep, CheckWf, CheckGlobal, IncWf, IncGlobal, PushOk, PushError,
                UndoGlobal, UndoWf, UndoDel, Enqueue, RetryGlobal, RetryCancelled, RetryWf,
                RetryOk, Goto
    <3> QED BY <3>1, <3>2
  <2> QED BY <2>1, <2>2, <2>3
<1>2. ASSUME NEW t \in Tasks, Age(t) PROVE RetryOver'
  BY <1>2 DEF Age, taskVars, dispVars
<1>3. ASSUME NEW d \in Dispatchers, DispatchStep(d) PROVE RetryOver'
  <2>1. \A e \in Dispatchers : dpc[e] = "idle" => dpc'[e] = "idle"
    BY <1>3 DEF DispatchStep, ReleaseGlobal, ReleaseWf, ReleaseDel, LockAndEvict, ScanEnd,
                Defer, Pick, GrabGlobal, GrabWf, Collect, PutOk, PutError, GiveBackEnd, DGoto,
                dispVars
  <2>2. \A t \in batch[d] : dpc[d] \in {"collect", "put"} => pc[t] = "batched"
    BY DEF BatchInv
  <2>3. \A t \in Tasks : pc[t] = "refused" => pc'[t] = "refused"
    <3>1. CASE LockAndEvict(d)
      BY <3>1 DEF LockAndEvict, Evicted, Queued
    <3>2. CASE Collect(d) \/ PutOk(d) \/ PutError(d)
      BY <2>2, <3>2 DEF Collect, PutOk, PutError
    <3>3. ASSUME NEW t \in Tasks, Pick(d, t) \/ GrabGlobal(d, t) \/ GrabWf(d, t)
          PROVE  \A u \in Tasks : pc[u] = "refused" => pc'[u] = "refused"
      BY <3>3 DEF Pick, GrabGlobal, GrabWf, Goto, Top, InHeap, Queued
    <3>4. CASE ReleaseGlobal(d) \/ ReleaseWf(d) \/ ReleaseDel(d) \/ ScanEnd(d) \/ GiveBackEnd(d)
      BY <3>4 DEF ReleaseGlobal, ReleaseWf, ReleaseDel, ScanEnd, GiveBackEnd, taskVars
    <3>5. ASSUME NEW t \in Tasks, Defer(d, t) PROVE pc' = pc
      BY <3>5 DEF Defer, taskVars
    <3> QED BY <1>3, <3>1, <3>2, <3>3, <3>4, <3>5 DEF DispatchStep
  <2> QED BY <2>1, <2>3
<1>4. ASSUME NEW w \in Workflows, EndWorkflow(w) PROVE RetryOver'
  BY <1>4 DEF EndWorkflow, taskVars, dispVars
<1>5. CASE UNCHANGED vars
  BY <1>5 DEF vars, taskVars, dispVars
<1> QED BY <1>1, <1>2, <1>3, <1>4, <1>5 DEF Next

\* Everybody who holds an increment of w's counter: those who will give it back,
\* and the tasks that batchPush skipped.
WfLabels == ReleaseLabels \cup {"leaked"}
WfHolders(w) ==
    {t \in Tasks : Wf[t] = w /\ pc[t] \in WfLabels}
    \cup {d \in Dispatchers : WfOf(d) = w /\ dpc[d] \in {"relGlobal", "relWf"}}

CountedHeld == \A w \in Workflows : perWf[w] <= Cardinality(WfHolders(w))

\* The counter of w is not ahead of its holders.
Covered(w) == perWf[w] <= Cardinality(WfHolders(w))

LEMMA WfHoldersFinite == \A w : IsFiniteSet(WfHolders(w)) /\ Cardinality(WfHolders(w)) \in Nat
<1>1. \A w : WfHolders(w) \subseteq Dispatchers
  BY DEF WfHolders, Dispatchers
<1> QED BY <1>1, DispatchersFinite, FS_Subset, FS_CardinalityType

\* What x does to the holders makes up for what it does to the counter.
LEMMA CoveredMove ==
    ASSUME Typed, Typed', NEW w \in Workflows, Covered(w), NEW x,
           WfHolders(w)' \ {x} = WfHolders(w) \ {x},
           \/ perWf'[w] <= 0
           \/ perWf'[w] <= perWf[w] /\ (x \in WfHolders(w) => x \in WfHolders(w)')
           \/ perWf'[w] <= perWf[w] - 1
           \/ perWf'[w] <= perWf[w] + 1 /\ x \in WfHolders(w)' /\ x \notin WfHolders(w)
    PROVE  Covered(w)'
<1> DEFINE S == WfHolders(w)
           T == WfHolders(w)'
<1>1. /\ IsFiniteSet(S) /\ Cardinality(S) \in Nat
  BY WfHoldersFinite
<1>2. T \ {x} = S \ {x}
  OBVIOUS
<1> HIDE DEF S, T
<1>3. /\ Cardinality(T) \in Nat
      /\ Cardinality(T) = Cardinality(S) + One(x \in T) - One(x \in S)
  BY <1>1, <1>2, MoveOne
<1>4. perWf[w] \in Int /\ perWf'[w] \in Int
  BY DEF Typed
<1>5. perWf[w] <= Cardinality(S)
  BY DEF Covered, S
<1>6. \/ perWf'[w] <= 0
      \/ perWf'[w] <= perWf[w] /\ (x \in S => x \in T)
      \/ perWf'[w] <= perWf[w] - 1
      \/ perWf'[w] <= perWf[w] + 1 /\ x \in T /\ x \notin S
  BY DEF S, T
<1>7. perWf'[w] <= Cardinality(T)
  BY <1>1, <1>3, <1>4, <1>5, <1>6 DEF One
<1> QED BY <1>7 DEF Covered, T

\* A step of one task: by moving, t may become or cease to be a holder of its
\* own workflow's counter.
LEMMA CoveredTask ==
    ASSUME Typed, Typed', RetryOver, CountedHeld, NEW t \in Tasks, NEW l, Goto(t, l),
           dpc' = dpc, \A v \in Workflows \ {Wf[t]} : perWf'[v] \in {0, perWf[v]},
           \/ perWf'[Wf[t]] = 0
           \/ perWf'[Wf[t]] = perWf[Wf[t]] /\ (pc[t] \in WfLabels => l \in WfLabels)
           \/ perWf'[Wf[t]] = perWf[Wf[t]] - 1
           \/ /\ perWf'[Wf[t]] = perWf[Wf[t]] + 1
              /\ pc[t] \notin WfLabels /\ pc[t] # "refused" /\ l \in WfLabels
    PROVE  CountedHeld'
<1> SUFFICES ASSUME NEW w \in Workflows PROVE Covered(w)'
  BY DEF CountedHeld, Covered
<1>1. Covered(w)
  BY DEF CountedHeld, Covered
<1>2. WfHolders(w)' \ {t} = WfHolders(w) \ {t}
  BY DEF Typed, Goto, WfHolders
<1>3. perWf[w] \in Int /\ perWf'[w] \in Int
  BY DEF Typed
<1>4. CASE w # Wf[t]
  <2>1. WfHolders(w)' = WfHolders(w)
    BY <1>4 DEF Typed, Goto, WfHolders
  <2>2. perWf'[w] <= 0 \/ perWf'[w] <= perWf[w]
    BY <1>3, <1>4
  <2> QED BY <1>1, <1>2, <2>1, <2>2, CoveredMove
<1>5. CASE w = Wf[t]
  <2>1. t \in WfHolders(w)' <=> l \in WfLabels \/ dpc[t] \in {"relGlobal", "relWf"}
    BY <1>5, DisjointAssumption DEF Typed, Goto, WfHolders, WfOf, Dispatchers
  <2>2. t \in WfHolders(w) <=> pc[t] \in WfLabels \/ dpc[t] \in {"relGlobal", "relWf"}
    BY <1>5, DisjointAssumption DEF Typed, WfHolders, WfOf, Dispatchers
  <2>3. pc[t] # "refused" => dpc[t] = "idle"
    BY DEF RetryOver
  <2>4. \/ perWf'[w] <= 0
        \/ perWf'[w] <= perWf[w] /\ (t \in WfHolders(w) => t \in WfHolders(w)')
        \/ perWf'[w] <= perWf[w] - 1
        \/ perWf'[w] <= perWf[w] + 1 /\ t \in WfHolders(w)' /\ t \notin WfHolders(w)
    BY <1>3, <1>5, <2>1, <2>2, <2>3
  <2> QED BY <1>1, <1>2, <2>4, CoveredMove
<1> QED BY <1>4, <1>5

\* A step after which everybody who held an increment still does.
LEMMA CoveredQuiet ==
    ASSUME Typed, Typed', CountedHeld,
           \A w \in Workflows : WfHolders(w)' = WfHolders(w),
           \A w \in Workflows : perWf'[w] \in {0, perWf[w]}
    PROVE  CountedHeld'
<1> SUFFICES ASSUME NEW w \in Workflows PROVE Covered(w)'
  BY DEF CountedHeld, Covered
<1>1. Covered(w)
  BY DEF CountedHeld, Covered
<1>2. perWf[w] \in Int /\ perWf'[w] \in Int
  BY DEF Typed
<1>3. WfHolders(w)' = WfHolders(w)
  OBVIOUS
<1>4. Cardinality(WfHolders(w)) \in Nat
  BY WfHoldersFinite
<1> QED BY <1>1, <1>2, <1>3, <1>4 DEF Covered

LEMMA PhantomTask ==
    ASSUME Typed, Typed', RetryOver, CountedHeld, NEW t \in Tasks, TaskStep(t)
    PROVE  CountedHeld'
<1>0. /\ Wf[t] \in Workflows /\ Wf[t] \in Dispatchers /\ t \in Dispatchers
      /\ Wf[t] # t /\ \A v \in Workflows : WfOf(v) = v
      /\ WfOf(t) = Wf[t]
  BY WfAssumption, DisjointAssumption DEF Dispatchers, WfOf
<1> USE DEF WfLabels, ReleaseLabels
<1>1. CASE CheckWf(t)
  <2>1. PICK l \in {"enqueue", "chkGlobal"} : Goto(t, l)
    BY <1>1 DEF CheckWf
  <2> QED BY <1>1, <2>1, CoveredTask DEF CheckWf, counters, dispVars
<1>2. CASE CheckGlobal(t)
  <2>1. PICK l \in {"enqueue", "incWf"} : Goto(t, l)
    BY <1>2 DEF CheckGlobal
  <2> QED BY <1>2, <2>1, CoveredTask DEF CheckGlobal, counters, dispVars
<1>3. CASE IncWf(t)
  <2>1. PICK l \in {"undoWf", "incGlobal"} : Goto(t, l)
    BY <1>3 DEF IncWf
  <2>2. /\ perWf'[Wf[t]] = perWf[Wf[t]] + 1
        /\ \A v \in Workflows \ {Wf[t]} : perWf'[v] = perWf[v]
    BY <1>0, <1>3 DEF IncWf, AddWf, Typed
  <2> QED BY <1>3, <2>1, <2>2, CoveredTask DEF IncWf, dispVars
<1>4. CASE IncGlobal(t)
  <2>1. PICK l \in {"undoGlobal", "push"} : Goto(t, l)
    BY <1>4 DEF IncGlobal
  <2> QED BY <1>4, <2>1, CoveredTask DEF IncGlobal, dispVars
<1>5. CASE PushOk(t)
  BY <1>5, CoveredTask DEF PushOk, counters, dispVars
<1>6. CASE PushError(t)
  BY <1>6, CoveredTask DEF PushError, counters, dispVars
<1>7. CASE UndoGlobal(t)
  BY <1>7, CoveredTask DEF UndoGlobal, dispVars
<1>8. CASE UndoWf(t)
  <2>1. PICK l \in {"undoDel", "enqueue", "refused", "dropped"} : Goto(t, l)
    BY <1>8 DEF UndoWf, Typed
  <2>2. /\ perWf'[Wf[t]] = perWf[Wf[t]] - 1
        /\ \A v \in Workflows \ {Wf[t]} : perWf'[v] = perWf[v]
    BY <1>0, <1>8 DEF UndoWf, AddWf, Typed
  <2> QED BY <1>8, <2>1, <2>2, CoveredTask DEF UndoWf, dispVars
<1>9. CASE UndoDel(t)
  <2>1. PICK l \in {"enqueue", "refused", "dropped"} : Goto(t, l)
    BY <1>9 DEF UndoDel, Typed
  <2>2. \A v \in Workflows : perWf'[v] \in {0, perWf[v]}
    BY <1>9 DEF UndoDel, Deleted
  <2> QED BY <1>0, <1>9, <2>1, <2>2, CoveredTask DEF UndoDel, dispVars
<1>10. CASE Enqueue(t)
  BY <1>10, CoveredTask DEF Enqueue, counters, dispVars
<1>11. CASE Report(t)
  <2>1. PICK l \in {"done", "backoff"} : Goto(t, l)
    BY <1>11 DEF Report
  <2>2. pc[t] = "live" /\ dpc[Wf[t]] = "idle" /\ DGoto(Wf[t], "relGlobal") /\ perWf' = perWf
    BY <1>11 DEF Report, counters
  <2> SUFFICES ASSUME NEW w \in Workflows PROVE Covered(w)'
    BY DEF CountedHeld, Covered
  <2>3. Covered(w)
    BY DEF CountedHeld, Covered
  <2>4. perWf[w] \in Int
    BY DEF Typed
  <2>5. CASE w # Wf[t]
    <3>1. WfHolders(w)' = WfHolders(w)
      BY <1>0, <2>1, <2>2, <2>5 DEF Typed, Goto, DGoto, WfHolders
    <3> QED BY <2>2, <2>3, <3>1 DEF Covered
  <2>6. CASE w = Wf[t]
    <3> DEFINE S == WfHolders(w)
               R == S \ {t}
               T == WfHolders(w)'
    <3>1. t \in S /\ w \notin S
      <4>1. w \notin Tasks
        BY DisjointAssumption
      <4> QED BY <2>2, <2>6, <4>1 DEF WfHolders
    <3>2. T = R \cup {w}
      <4>1. dpc[t] = "idle"
        BY <2>2 DEF RetryOver
      <4> QED BY <1>0, <2>1, <2>2, <2>6, <3>1, <4>1 DEF Typed, Goto, DGoto, WfHolders
    <3>3. IsFiniteSet(S) /\ Cardinality(S) \in Nat
      BY WfHoldersFinite
    <3>4. w \notin R
      BY <3>1
    <3> HIDE DEF S, T
    <3>5. IsFiniteSet(R) /\ Cardinality(R) = Cardinality(S) - 1 /\ Cardinality(R) \in Nat
      BY <3>1, <3>3, FS_RemoveElement, FS_CardinalityType
    <3> HIDE DEF R
    <3>6. Cardinality(T) = Cardinality(R) + 1
      BY <3>2, <3>4, <3>5, FS_AddElement
    <3>7. Cardinality(T) = Cardinality(S)
      BY <3>3, <3>5, <3>6
    <3> QED BY <2>2, <2>3, <3>7 DEF Covered, S, T
  <2> QED BY <2>5, <2>6
<1>12. CASE RetryGlobal(t)
  BY <1>12, CoveredTask DEF RetryGlobal, dispVars
<1>13. CASE RetryCancelled(t)
  BY <1>13, CoveredTask DEF RetryCancelled, counters, dispVars
<1>14. CASE RetryWf(t)
  <2>2. /\ perWf'[Wf[t]] = perWf[Wf[t]] + 1
        /\ \A v \in Workflows \ {Wf[t]} : perWf'[v] = perWf[v]
    BY <1>0, <1>14 DEF RetryWf, AddWf, Typed
  <2> QED BY <1>14, <2>2, CoveredTask DEF RetryWf, dispVars
<1>15. CASE RetryOk(t)
  BY <1>15, CoveredTask DEF RetryOk, counters, dispVars
<1>16. CASE RetryError(t)
  <2>1. \A w \in Workflows : WfHolders(w)' = WfHolders(w)
    BY <1>0, <1>16 DEF RetryError, Typed, Goto, DGoto, WfHolders
  <2>2. \A w \in Workflows : perWf'[w] \in {0, perWf[w]}
    BY <1>16 DEF RetryError, Deleted
  <2> QED BY <2>1, <2>2, CoveredQuiet
<1> QED BY <1>1, <1>2, <1>3, <1>4, <1>5, <1>6, <1>7, <1>8, <1>9, <1>10, <1>11,
           <1>12, <1>13, <1>14, <1>15, <1>16, TaskStep(t) DEF TaskStep

LEMMA PhantomDispatch ==
    ASSUME Typed, Typed', BatchInv, RetryOver, CountedHeld,
           NEW d \in Dispatchers, DispatchStep(d)
    PROVE  CountedHeld'
<1>0. WfOf(d) \in Workflows
  BY WfOfTyped
<1>1. CASE ReleaseWf(d)
  <2>1. PICK l \in {"relDel", "lock"} : DGoto(d, l)
    BY <1>1 DEF ReleaseWf
  <2>2. /\ perWf'[WfOf(d)] = perWf[WfOf(d)] - 1 /\ pc' = pc
        /\ \A v \in Workflows \ {WfOf(d)} : perWf'[v] = perWf[v]
    BY <1>0, <1>1 DEF ReleaseWf, AddWf, Typed, taskVars
  <2> SUFFICES ASSUME NEW w \in Workflows PROVE Covered(w)'
    BY DEF CountedHeld, Covered
  <2>3. Covered(w)
    BY DEF CountedHeld, Covered
  <2>4. WfHolders(w)' \ {d} = WfHolders(w) \ {d}
    BY <2>1, <2>2 DEF Typed, DGoto, WfHolders
  <2>5. CASE w = WfOf(d)
    <3>1. perWf'[w] <= perWf[w] - 1
      BY <2>2, <2>5 DEF Typed
    <3> QED BY <2>3, <2>4, <3>1, CoveredMove
  <2>6. CASE w # WfOf(d)
    <3>1. WfHolders(w)' = WfHolders(w)
      BY <2>1, <2>2, <2>6 DEF Typed, DGoto, WfHolders
    <3> QED BY <2>2, <2>3, <2>6, <3>1 DEF Covered
  <2> QED BY <2>5, <2>6
<1>2. ASSUME NEW t \in Tasks, GrabWf(d, t) PROVE CountedHeld'
  <2>0. Wf[t] \in Workflows /\ t \in Dispatchers /\ WfOf(t) = Wf[t]
    BY WfAssumption, DisjointAssumption DEF Dispatchers, WfOf
  <2>1. /\ perWf'[Wf[t]] = perWf[Wf[t]] + 1
        /\ \A v \in Workflows \ {Wf[t]} : perWf'[v] = perWf[v]
        /\ pc[t] = "grabWf" /\ Goto(t, "batched") /\ DGoto(d, "scan") /\ dpc[d] = "grab"
    BY <1>2, <2>0 DEF GrabWf, AddWf, Typed
  <2> SUFFICES ASSUME NEW w \in Workflows PROVE Covered(w)'
    BY DEF CountedHeld, Covered
  <2>2. Covered(w)
    BY DEF CountedHeld, Covered
  <2>3. WfHolders(w)' \ {t} = WfHolders(w) \ {t}
    BY <2>1 DEF Typed, Goto, DGoto, WfHolders
  <2>4. CASE w = Wf[t]
    <3>1. t \in WfHolders(w)'
      BY <2>1, <2>4 DEF Typed, Goto, WfHolders, WfLabels, ReleaseLabels
    <3>2. t \notin WfHolders(w)
      BY <2>1 DEF RetryOver, WfHolders, WfLabels, ReleaseLabels
    <3>3. perWf'[w] <= perWf[w] + 1
      BY <2>1, <2>4 DEF Typed
    <3> QED BY <2>2, <2>3, <3>1, <3>2, <3>3, CoveredMove
  <2>5. CASE w # Wf[t]
    <3>1. WfHolders(w)' = WfHolders(w)
      BY <2>1, <2>5 DEF Typed, Goto, DGoto, WfHolders
    <3> QED BY <2>1, <2>2, <2>5, <3>1 DEF Covered
  <2> QED BY <2>4, <2>5
<1>3. ASSUME UNCHANGED pc, NEW l, DGoto(d, l),
             dpc[d] \in {"relGlobal", "relWf"} <=> l \in {"relGlobal", "relWf"}
      PROVE  \A w \in Workflows : WfHolders(w)' = WfHolders(w)
  BY <1>3 DEF Typed, DGoto, WfHolders
<1>4. CASE ReleaseGlobal(d) \/ ReleaseDel(d) \/ ScanEnd(d) \/ GiveBackEnd(d)
  <2>1. \A w \in Workflows : WfHolders(w)' = WfHolders(w)
    BY <1>3, <1>4 DEF ReleaseGlobal, ReleaseDel, ScanEnd, GiveBackEnd, taskVars
  <2>2. \A w \in Workflows : perWf'[w] \in {0, perWf[w]}
    BY <1>4 DEF ReleaseGlobal, ReleaseDel, ScanEnd, GiveBackEnd, Deleted, counters
  <2> QED BY <2>1, <2>2, CoveredQuiet
<1>5. CASE LockAndEvict(d)
  <2>1. \A t \in Tasks : pc'[t] \in WfLabels <=> pc[t] \in WfLabels
    BY <1>5 DEF LockAndEvict, Evicted, Queued, WfLabels, ReleaseLabels
  <2>2. \A w \in Workflows : WfHolders(w)' = WfHolders(w)
    BY <1>5, <2>1 DEF LockAndEvict, DGoto, Typed, WfHolders
  <2>3. \A w \in Workflows : perWf'[w] \in {0, perWf[w]}
    BY <1>5 DEF LockAndEvict, Deleted
  <2> QED BY <2>2, <2>3, CoveredQuiet
<1>6. ASSUME NEW t \in Tasks, Defer(d, t) PROVE CountedHeld'
  BY <1>6, CoveredQuiet DEF Defer, counters, taskVars, dispVars, WfHolders
<1>7. ASSUME NEW t \in Tasks, Pick(d, t) \/ GrabGlobal(d, t) PROVE CountedHeld'
  <2>1. perWf' = perWf /\ \A u \in Tasks : pc'[u] \in WfLabels <=> pc[u] \in WfLabels
    BY <1>7 DEF Pick, GrabGlobal, Top, InHeap, Queued, Goto, Typed, WfLabels, ReleaseLabels, counters
  <2>2. \A e \in Dispatchers : dpc'[e] \in {"relGlobal", "relWf"} <=> dpc[e] \in {"relGlobal", "relWf"}
    BY <1>7 DEF Pick, GrabGlobal, DGoto, Typed, dispVars
  <2>3. \A w \in Workflows : WfHolders(w)' = WfHolders(w)
    BY <2>1, <2>2 DEF WfHolders
  <2> QED BY <2>1, <2>3, CoveredQuiet
<1>8. CASE Collect(d) \/ PutOk(d) \/ PutError(d)
  <2>1. \A t \in batch[d] : pc[t] = "batched"
    BY <1>8 DEF BatchInv, Collect, PutOk, PutError
  <2>2. perWf' = perWf /\ \A u \in Tasks : pc'[u] \in WfLabels <=> pc[u] \in WfLabels
    BY <1>8, <2>1 DEF Collect, PutOk, PutError, Typed, WfLabels, ReleaseLabels, counters
  <2>3. \A e \in Dispatchers : dpc'[e] \in {"relGlobal", "relWf"} <=> dpc[e] \in {"relGlobal", "relWf"}
    BY <1>8 DEF Collect, PutOk, PutError, DGoto, Typed
  <2>4. \A w \in Workflows : WfHolders(w)' = WfHolders(w)
    BY <2>2, <2>3 DEF WfHolders
  <2> QED BY <2>2, <2>4, CoveredQuiet
<1> QED BY <1>1, <1>2, <1>4, <1>5, <1>6, <1>7, <1>8, DispatchStep(d) DEF DispatchStep

LEMMA PhantomNext ==
    Typed /\ Typed' /\ BatchInv /\ RetryOver /\ CountedHeld /\ [Next]_vars => CountedHeld'
<1> SUFFICES ASSUME Typed, Typed', BatchInv, RetryOver, CountedHeld, [Next]_vars
             PROVE  CountedHeld'
  OBVIOUS
<1>1. ASSUME NEW t \in Tasks, Age(t) PROVE CountedHeld'
  BY <1>1, CoveredQuiet DEF Age, counters, taskVars, dispVars, WfHolders
<1>2. ASSUME NEW w \in Workflows, EndWorkflow(w) PROVE CountedHeld'
  BY <1>2, CoveredQuiet DEF EndWorkflow, Deleted, taskVars, dispVars, WfHolders
<1>3. CASE UNCHANGED vars
  BY <1>3, CoveredQuiet DEF vars, counters, taskVars, dispVars, WfHolders
<1> QED BY <1>1, <1>2, <1>3, PhantomTask, PhantomDispatch DEF Next

\* batchPush skips a task only when its workflow has ended, for good.
LeakedEnded == \A t \in Tasks : pc[t] = "leaked" => Wf[t] \in ended

LEMMA LeakedEndedNext == Typed /\ BatchInv /\ LeakedEnded /\ [Next]_vars => LeakedEnded'
<1> SUFFICES ASSUME Typed, BatchInv, LeakedEnded, [Next]_vars
             PROVE  LeakedEnded'
  OBVIOUS
<1> USE DEF LeakedEnded
<1>1. ASSUME NEW t \in Tasks, TaskStep(t) PROVE LeakedEnded'
  <2>1. ended \subseteq ended'
    BY <1>1 DEF TaskStep, CheckWf, CheckGlobal, IncWf, IncGlobal, PushOk, PushError,
                UndoGlobal, UndoWf, UndoDel, Enqueue, Report, RetryGlobal,
                RetryCancelled, RetryWf, RetryOk, RetryError
  <2>2. \A u \in Tasks : pc'[u] = "leaked" => pc[u] = "leaked"
    BY <1>1 DEF TaskStep, CheckWf, CheckGlobal, IncWf, IncGlobal, PushOk, PushError,
                UndoGlobal, UndoWf, UndoDel, Enqueue, Report, RetryGlobal,
                RetryCancelled, RetryWf, RetryOk, RetryError, Goto, Typed
  <2> QED BY <2>1, <2>2
<1>2. ASSUME NEW d \in Dispatchers, DispatchStep(d) PROVE LeakedEnded'
  <2>1. ended \subseteq ended'
    BY <1>2 DEF DispatchStep, ReleaseGlobal, ReleaseWf, ReleaseDel, LockAndEvict, ScanEnd,
                Defer, Pick, GrabGlobal, GrabWf, Collect, PutOk, PutError, GiveBackEnd
  <2>2. CASE Collect(d)
    BY <2>2 DEF Collect
  <2>3. CASE ~Collect(d)
    <3>1. \A u \in Tasks : pc'[u] = "leaked" => pc[u] = "leaked"
      BY <1>2, <2>3
      DEF DispatchStep, ReleaseGlobal, ReleaseWf, ReleaseDel, LockAndEvict, ScanEnd,
          Defer, Pick, GrabGlobal, GrabWf, PutOk, PutError, GiveBackEnd, Goto, Typed,
          taskVars
    <3> QED BY <2>1, <3>1
  <2> QED BY <2>2, <2>3
<1>3. ASSUME NEW t \in Tasks, Age(t) PROVE LeakedEnded'
  BY <1>3 DEF Age, taskVars
<1>4. ASSUME NEW w \in Workflows, EndWorkflow(w) PROVE LeakedEnded'
  BY <1>4 DEF EndWorkflow, taskVars
<1>5. CASE UNCHANGED vars
  BY <1>5 DEF vars, taskVars
<1> QED BY <1>1, <1>2, <1>3, <1>4, <1>5 DEF Next

\* Every slot that a running workflow's counter counts has somebody who will give
\* it back: although its entry is deleted under concurrent increments, by a
\* release that saw zero, by CleanupPerWfCounter and by evictions, deleting only
\* ever loses increments, and only the tasks of a workflow that ended are skipped
\* by batchPush; for any number of tasks and workflows.
THEOREM DispatcherNoPhantomSlot == Spec => []NoPhantomSlot
<1> DEFINE J == RetryOver /\ CountedHeld /\ LeakedEnded
<1>1. Init => J
  <2> SUFFICES ASSUME Init PROVE J
    OBVIOUS
  <2>1. RetryOver
    BY DEF Init, RetryOver, Dispatchers
  <2>2. \A w \in Workflows : perWf[w] <= Cardinality(WfHolders(w))
    BY WfHoldersFinite DEF Init
  <2>3. LeakedEnded
    BY DEF Init, LeakedEnded
  <2> QED BY <2>1, <2>2, <2>3 DEF CountedHeld
<1>2. J /\ Inv /\ Inv' /\ [Next]_vars => J'
  BY RetryOverNext, PhantomNext, LeakedEndedNext DEF Inv
<1>3. J => NoPhantomSlot
  <2> SUFFICES ASSUME J, NEW w \in Workflows \ ended
               PROVE  perWf[w] <= Cardinality(Releasers(w))
    BY DEF NoPhantomSlot
  <2>1. WfHolders(w) = Releasers(w)
    BY DEF LeakedEnded, WfHolders, Releasers, WfLabels
  <2> QED BY <2>1 DEF CountedHeld
<1> HIDE DEF J
<1> QED BY Invariant, <1>1, <1>2, <1>3, PTL DEF Spec

(***************************************************************************)
(* The order of the queue.                                                 *)
(***************************************************************************)

\* The tasks ahead of a queued one are queued, and an earlier arrival is ahead
\* of a later one, not behind.
ArrivalInv ==
    /\ \A t, u \in Tasks : u \in ahead[t] => pc[u] = "queued" /\ pc[t] = "queued"
    /\ \A t, u \in Tasks : u \in ahead[t] => t \notin ahead[u]

\* The tasks of a running workflow were all given the workflow's priority.
PrioInv ==
    \A t \in Tasks : pc[t] # "new" /\ Wf[t] \notin ended => prio[t] = Priority[Wf[t]]

\* A step that adds nothing to the queue and takes out nobody who is ahead.
LEMMA ArrivalQuiet ==
    ASSUME ArrivalInv, \A t \in Tasks : ahead'[t] \subseteq ahead[t],
           \A t, u \in Tasks : u \in ahead'[t] => pc'[u] = pc[u] /\ pc'[t] = pc[t]
    PROVE  ArrivalInv'
BY DEF ArrivalInv

LEMMA ArrivalNext == Typed /\ BatchInv /\ ArrivalInv /\ [Next]_vars => ArrivalInv'
<1> SUFFICES ASSUME Typed, BatchInv, ArrivalInv, [Next]_vars PROVE ArrivalInv'
  OBVIOUS
<1>1. ASSUME NEW t \in Tasks, TaskStep(t) PROVE ArrivalInv'
  <2>1. CASE Enqueue(t)
    <3>1. pc[t] = "enqueue" /\ pc' = [pc EXCEPT ![t] = "queued"] /\ ahead' = [ahead EXCEPT ![t] = Queued]
      BY <2>1 DEF Enqueue, Goto
    <3>2. t \notin Queued /\ \A u \in Tasks : t \notin ahead[u]
      BY <3>1 DEF Queued, ArrivalInv
    <3> QED BY <3>1, <3>2 DEF Typed, ArrivalInv, Queued
  <2>2. CASE ~Enqueue(t)
    <3>1. ahead' = ahead
      BY <1>1, <2>2 DEF TaskStep, CheckWf, CheckGlobal, IncWf, IncGlobal, PushOk, PushError,
                UndoGlobal, UndoWf, UndoDel, Report, RetryGlobal, RetryCancelled, RetryWf,
                RetryOk, RetryError, queueVars
    <3>2. \A u \in Tasks : pc[u] = "queued" => pc'[u] = "queued"
      BY <1>1, <2>2 DEF TaskStep, CheckWf, CheckGlobal, IncWf, IncGlobal, PushOk, PushError,
                UndoGlobal, UndoWf, UndoDel, Report, RetryGlobal, RetryCancelled, RetryWf,
                RetryOk, RetryError, Goto, Typed
    <3> QED BY <3>1, <3>2 DEF ArrivalInv
  <2> QED BY <2>1, <2>2
<1>2. ASSUME NEW t \in Tasks, Age(t) PROVE ArrivalInv'
  BY <1>2, ArrivalQuiet DEF Age, taskVars
<1>3. ASSUME NEW d \in Dispatchers, DispatchStep(d) PROVE ArrivalInv'
  <2>1. CASE LockAndEvict(d)
    <3>1. /\ ahead' = Popped(Evicted)
          /\ pc' = [t \in Tasks |-> IF t \in Evicted THEN "evicted" ELSE pc[t]]
      BY <2>1 DEF LockAndEvict
    <3>2. \A t \in Tasks : /\ ahead'[t] \subseteq ahead[t] \ Evicted
                           /\ t \in Evicted => ahead'[t] = {}
      BY <3>1 DEF Popped
    <3> QED BY <3>1, <3>2, ArrivalQuiet
  <2>2. ASSUME NEW t \in Tasks, Pick(d, t) PROVE ArrivalInv'
    <3>1. ahead' = Popped({t}) /\ pc' = [pc EXCEPT ![t] = "picked"]
      BY <2>2 DEF Pick, Goto
    <3>2. \A u \in Tasks : ahead'[u] \subseteq ahead[u] \ {t} /\ (u = t => ahead'[u] = {})
      BY <3>1 DEF Popped
    <3> QED BY <3>1, <3>2, ArrivalQuiet DEF Typed
  <2>3. ASSUME NEW t \in Tasks, GrabGlobal(d, t) \/ GrabWf(d, t) \/ Defer(d, t) PROVE ArrivalInv'
    <3>1. ahead' = ahead /\ \A u \in Tasks : pc[u] = "queued" => pc'[u] = pc[u]
      BY <2>3 DEF GrabGlobal, GrabWf, Defer, Goto, queueVars, taskVars, Typed
    <3> QED BY <3>1 DEF ArrivalInv
  <2>4. CASE ReleaseGlobal(d) \/ ReleaseWf(d) \/ ReleaseDel(d) \/ ScanEnd(d) \/ GiveBackEnd(d)
    BY <2>4, ArrivalQuiet DEF ReleaseGlobal, ReleaseWf, ReleaseDel, ScanEnd, GiveBackEnd,
                              taskVars, queueVars
  <2>5. CASE Collect(d) \/ PutOk(d) \/ PutError(d)
    <3>1. \A t \in batch[d] : pc[t] = "batched"
      BY <2>5 DEF BatchInv, Collect, PutOk, PutError
    <3>2. ahead' = ahead /\ \A u \in Tasks : pc[u] = "queued" => pc'[u] = pc[u]
      BY <2>5, <3>1 DEF Collect, PutOk, PutError, queueVars
    <3> QED BY <3>2 DEF ArrivalInv
  <2> QED BY <1>3, <2>1, <2>2, <2>3, <2>4, <2>5 DEF DispatchStep
<1>4. ASSUME NEW w \in Workflows, EndWorkflow(w) PROVE ArrivalInv'
  BY <1>4, ArrivalQuiet DEF EndWorkflow, taskVars, queueVars
<1>5. CASE UNCHANGED vars
  BY <1>5, ArrivalQuiet DEF vars, taskVars, queueVars
<1> QED BY <1>1, <1>2, <1>3, <1>4, <1>5 DEF Next

LEMMA PrioNext == Typed /\ BatchInv /\ PrioInv /\ [Next]_vars => PrioInv'
<1> SUFFICES ASSUME Typed, BatchInv, PrioInv, [Next]_vars PROVE PrioInv'
  OBVIOUS
<1>0. ASSUME prio' = prio, ended \subseteq ended',
             \A t \in Tasks : pc[t] = "new" => pc'[t] = "new"
      PROVE  PrioInv'
  BY <1>0 DEF PrioInv
<1>1. ASSUME NEW t \in Tasks, TaskStep(t) PROVE PrioInv'
  <2>1. CASE CheckWf(t)
    <3>1. /\ prio' = [prio EXCEPT ![t] = IF Wf[t] \in ended THEN 0 ELSE Priority[Wf[t]]]
          /\ ended' = ended /\ \A u \in Tasks : u # t => pc'[u] = pc[u]
      BY <2>1 DEF CheckWf, Goto, Typed
    <3>2. \A u \in Tasks : u # t => prio'[u] = prio[u]
      BY <3>1 DEF Typed
    <3>3. Wf[t] \notin ended => prio'[t] = Priority[Wf[t]]
      BY <3>1 DEF Typed
    <3> QED BY <3>1, <3>2, <3>3 DEF PrioInv
  <2>2. CASE ~CheckWf(t)
    <3>1. prio' = prio /\ ended \subseteq ended'
      BY <1>1, <2>2 DEF TaskStep, CheckGlobal, IncWf, IncGlobal, PushOk, PushError,
                UndoGlobal, UndoWf, UndoDel, Enqueue, Report, RetryGlobal, RetryCancelled,
                RetryWf, RetryOk, RetryError
    <3>2. \A u \in Tasks : pc[u] = "new" => pc'[u] = "new"
      BY <1>1, <2>2 DEF TaskStep, CheckGlobal, IncWf, IncGlobal, PushOk, PushError,
                UndoGlobal, UndoWf, UndoDel, Enqueue, Report, RetryGlobal, RetryCancelled,
                RetryWf, RetryOk, RetryError, Goto, Typed
    <3> QED BY <1>0, <3>1, <3>2
  <2> QED BY <2>1, <2>2
<1>2. ASSUME NEW t \in Tasks, Age(t) PROVE PrioInv'
  BY <1>0, <1>2 DEF Age, taskVars
<1>3. ASSUME NEW d \in Dispatchers, DispatchStep(d) PROVE PrioInv'
  <2>1. prio' = prio /\ ended \subseteq ended'
    BY <1>3 DEF DispatchStep, ReleaseGlobal, ReleaseWf, ReleaseDel, LockAndEvict, ScanEnd,
                Defer, Pick, GrabGlobal, GrabWf, Collect, PutOk, PutError, GiveBackEnd, taskVars
  <2>2. \A t \in Tasks : pc[t] = "new" => pc'[t] = "new"
    <3>1. CASE LockAndEvict(d)
      BY <3>1 DEF LockAndEvict, Evicted, Queued
    <3>2. CASE Collect(d) \/ PutOk(d) \/ PutError(d)
      <4>1. \A t \in batch[d] : pc[t] = "batched"
        BY <3>2 DEF BatchInv, Collect, PutOk, PutError
      <4> QED BY <3>2, <4>1 DEF Collect, PutOk, PutError
    <3>3. ASSUME NEW t \in Tasks, Pick(d, t) \/ GrabGlobal(d, t) \/ GrabWf(d, t)
          PROVE  \A u \in Tasks : pc[u] = "new" => pc'[u] = "new"
      BY <3>3 DEF Pick, GrabGlobal, GrabWf, Goto, Top, InHeap, Queued, Typed
    <3>4. CASE ReleaseGlobal(d) \/ ReleaseWf(d) \/ ReleaseDel(d) \/ ScanEnd(d) \/ GiveBackEnd(d)
      BY <3>4 DEF ReleaseGlobal, ReleaseWf, ReleaseDel, ScanEnd, GiveBackEnd, taskVars
    <3>5. ASSUME NEW t \in Tasks, Defer(d, t) PROVE pc' = pc
      BY <3>5 DEF Defer, taskVars
    <3> QED BY <1>3, <3>1, <3>2, <3>3, <3>4, <3>5 DEF DispatchStep
  <2> QED BY <1>0, <2>1, <2>2
<1>4. ASSUME NEW w \in Workflows, EndWorkflow(w) PROVE PrioInv'
  BY <1>0, <1>4 DEF EndWorkflow, taskVars
<1>5. CASE UNCHANGED vars
  BY <1>0, <1>5 DEF vars, taskVars
<1> QED BY <1>1, <1>2, <1>3, <1>4, <1>5 DEF Next

\* Who is picked: the task on top, when no task of its workflow was set aside.
LEMMA PickedIsTop ==
    ASSUME Typed, BatchInv, Next, NEW t \in Tasks, pc[t] = "queued", pc'[t] = "picked"
    PROVE  Top(t) /\ ~Blocked(t)
<1>1. ASSUME NEW u \in Tasks, TaskStep(u) PROVE pc'[t] # "picked"
  BY <1>1 DEF TaskStep, CheckWf, CheckGlobal, IncWf, IncGlobal, PushOk, PushError,
              UndoGlobal, UndoWf, UndoDel, Enqueue, Report, RetryGlobal, RetryCancelled,
              RetryWf, RetryOk, RetryError, Goto, Typed
<1>2. ASSUME NEW u \in Tasks, Age(u) PROVE pc'[t] # "picked"
  BY <1>2 DEF Age, taskVars
<1>3. ASSUME NEW w \in Workflows, EndWorkflow(w) PROVE pc'[t] # "picked"
  BY <1>3 DEF EndWorkflow, taskVars
<1>4. ASSUME NEW d \in Dispatchers, DispatchStep(d) PROVE Top(t) /\ ~Blocked(t)
  <2>1. ASSUME NEW u \in Tasks, Pick(d, u) PROVE Top(t) /\ ~Blocked(t)
    <3>1. u = t
      BY <2>1 DEF Pick, Goto, Typed
    <3> QED BY <2>1, <3>1 DEF Pick
  <2>2. CASE LockAndEvict(d)
    BY <2>2 DEF LockAndEvict
  <2>3. CASE Collect(d) \/ PutOk(d) \/ PutError(d)
    BY <2>3 DEF Collect, PutOk, PutError
  <2>4. ASSUME NEW u \in Tasks, GrabGlobal(d, u) \/ GrabWf(d, u) \/ Defer(d, u) PROVE FALSE
    BY <2>4 DEF GrabGlobal, GrabWf, Defer, Goto, Typed, taskVars
  <2>5. CASE ReleaseGlobal(d) \/ ReleaseWf(d) \/ ReleaseDel(d) \/ ScanEnd(d) \/ GiveBackEnd(d)
    BY <2>5 DEF ReleaseGlobal, ReleaseWf, ReleaseDel, ScanEnd, GiveBackEnd, taskVars
  <2> QED BY <1>4, <2>1, <2>2, <2>3, <2>4, <2>5 DEF DispatchStep
<1> QED BY <1>1, <1>2, <1>3, <1>4 DEF Next

\* The queue is first-in first-out within a running workflow: a task is never
\* picked while an older one of its workflow waits, also when slots are released
\* and limits change in the middle of a dispatch, for any number of tasks,
\* workflows and dispatchers.
THEOREM DispatcherFifo == Spec => FifoWithinWorkflow
<1> DEFINE Overtakes(t, u) ==
             /\ pc[t] = "queued" /\ pc'[t] = "picked"
             /\ pc[u] = "queued" /\ Wf[u] = Wf[t] /\ Wf[t] \notin ended
           Fifo == \A t, u \in Tasks : Overtakes(t, u) => u \notin ahead[t]
           J == ArrivalInv /\ PrioInv
<1>1. Init => J
  BY DEF Init, ArrivalInv, PrioInv
<1>2. J /\ Inv /\ [Next]_vars => J'
  BY ArrivalNext, PrioNext DEF Inv
<1>3. J /\ Inv /\ [Next]_vars => [Fifo]_vars
  <2> SUFFICES ASSUME J, Inv, Next, NEW t \in Tasks, NEW u \in Tasks, Overtakes(t, u),
                      u \in ahead[t]
               PROVE  FALSE
    OBVIOUS
  <2>1. Top(t) /\ ~Blocked(t)
    BY PickedIsTop DEF Inv
  <2>2. u \in InHeap /\ u # t
    BY <2>1 DEF Blocked, InHeap, Queued, ArrivalInv
  <2>3. Less(t, u)
    BY <2>1, <2>2 DEF Top
  <2>4. prio[t] = prio[u]
    BY DEF PrioInv
  <2>5. t \notin ahead[u]
    BY DEF ArrivalInv
  <2> QED BY <2>3, <2>4, <2>5 DEF Less, Inv, Typed
<1>4. FifoWithinWorkflow <=> [][Fifo]_vars
  BY DEF FifoWithinWorkflow
<1> HIDE DEF J, Fifo
<1> QED BY Invariant, <1>1, <1>2, <1>3, <1>4, PTL DEF Spec

=============================================================================
