--------------------------- MODULE TaskDispatcher ---------------------------
(***************************************************************************)
(* The master's task dispatcher (infra/engine/scheduler/task_dispatcher.go *)
(* with pendingQueue of types.go): a global counter and one counter per    *)
(* workflow bound the tasks that are out at the workers, and what finds no *)
(* room waits in a priority queue.                                         *)
(*                                                                         *)
(* The counters are atomics, changed without a lock; pqMu guards only the  *)
(* queue.  Every step below is one atomic operation on a counter, one      *)
(* critical section of pqMu or a part of one, or one call of the store.    *)
(*                                                                         *)
(* Processes: for each task the executor goroutine in PushTask, and later  *)
(* the goroutine of RetryTask; for each workflow its watchWorkflowStatus   *)
(* goroutine, which handles terminal events one at a time and releases     *)
(* their slots.  Watchers and retrying tasks run tryDispatchPending: they  *)
(* are the Dispatchers.                                                    *)
(*                                                                         *)
(* A task's terminal status reaches the master at most once (ReportedOnce  *)
(* of TaskClaim), and a workflow is not submitted again after it ended.    *)
(* Looking up a workflow's counter and adding to it is one step.           *)
(*                                                                         *)
(* A behaviour takes place in one of the Environments: the tasks that are  *)
(* pushed, the ones among them that may fail and be retried, the workflows *)
(* that may end at any time (cancelled, timed out, failed, or finished     *)
(* once a listener was notified), and whether writes to etcd may fail      *)
(* ("lost").                                                               *)
(***************************************************************************)
EXTENDS Integers, FiniteSets

CONSTANTS
    Tasks,
    Workflows,
    Wf,             \* the workflow of each task
    Priority,       \* Workflow.Priority
    GlobalMax,      \* max_concurrent_tasks
    PerWfMax,       \* per_workflow_max_concurrency, 0 for no limit
    MaxRetries,     \* TaskPayload.MaxRetries
    Environments,
    Free

Dispatchers == Workflows \cup Tasks

ASSUME FiniteAssumption == IsFiniteSet(Tasks) /\ IsFiniteSet(Workflows)
ASSUME WfAssumption == Wf \in [Tasks -> Workflows]
ASSUME PriorityAssumption == Priority \in [Workflows -> Int]
ASSUME LimitAssumption == GlobalMax \in Nat \ {0} /\ PerWfMax \in Nat
ASSUME RetryAssumption == MaxRetries \in Nat
ASSUME EnvironmentsAssumption ==
    Environments \subseteq [pushed : SUBSET Tasks, failing : SUBSET Tasks,
                            ending : SUBSET Workflows, faults : SUBSET {"lost"}]
ASSUME DisjointAssumption == Workflows \cap Tasks = {} /\ Free \notin Dispatchers

VARIABLES
    env,            \* the environment of this behaviour
    globalActive,   \* TaskDispatcher.globalActive
    perWf,          \* perWfActive; 0 also when the entry is absent
    pc,             \* where each task is
    after,          \* where a task goes when its slots are given back
    prio,           \* pendingTask.priority
    ahead,          \* per queued task, the queued tasks enqueued before it
    late,           \* queued tasks that have waited longer than the timeout
    retries,        \* TaskPayload.RetryCount
    ended,          \* workflows gone from runningEntries, contexts cancelled
    pqMu,           \* the dispatcher that holds pqMu
    dpc,            \* where each dispatcher is
    deferred,       \* tasks popped and set aside by the current dispatch
    batch           \* per dispatcher, the tasks of toPush

Pushed == env.pushed
Failing == env.failing
Ending == env.ending
Faults == env.faults

counters == <<globalActive, perWf>>
taskVars == <<pc, after, prio, retries>>
queueVars == <<ahead, late, pqMu, deferred>>
dispVars == <<dpc, batch>>
vars == <<env, counters, taskVars, queueVars, dispVars, ended>>

Outcomes == {"done", "refused", "dropped", "evicted", "leaked"}
TaskLabels == Outcomes \cup
    {"new", "chkGlobal", "incWf", "incGlobal", "push", "enqueue", "queued",
     "undoGlobal", "undoWf", "undoDel", "picked", "grabWf", "batched",
     "live", "backoff", "retryWf", "retryPut"}
DispatcherLabels ==
    {"idle", "relGlobal", "relWf", "relDel", "lock", "scan", "grab",
     "collect", "put", "giveback"}

\* globalActive never goes below zero.
TypeOK ==
    /\ globalActive \in Nat
    /\ perWf \in [Workflows -> Int]
    /\ pc \in [Tasks -> TaskLabels]
    /\ after \in [Tasks -> {"enqueue", "refused", "dropped"}]
    /\ prio \in [Tasks -> Int]
    /\ ahead \in [Tasks -> SUBSET Tasks]
    /\ late \subseteq Tasks
    /\ retries \in [Tasks -> 0..MaxRetries]
    /\ ended \subseteq Workflows
    /\ pqMu \in Dispatchers \cup {Free}
    /\ dpc \in [Dispatchers -> DispatcherLabels]
    /\ deferred \subseteq Tasks
    /\ batch \in [Dispatchers -> SUBSET Tasks]

Init ==
    /\ env \in Environments
    /\ globalActive = 0
    /\ perWf = [w \in Workflows |-> 0]
    /\ pc = [t \in Tasks |-> "new"]
    /\ after = [t \in Tasks |-> "enqueue"]
    /\ prio = [t \in Tasks |-> 0]
    /\ ahead = [t \in Tasks |-> {}]
    /\ late = {}
    /\ retries = [t \in Tasks |-> 0]
    /\ ended = {}
    /\ pqMu = Free
    /\ dpc = [d \in Dispatchers |-> "idle"]
    /\ deferred = {}
    /\ batch = [d \in Dispatchers |-> {}]

Goto(t, l) == pc' = [pc EXCEPT ![t] = l]
DGoto(d, l) == dpc' = [dpc EXCEPT ![d] = l]

AddGlobal(n) == globalActive' = globalActive + n
AddWf(w, n) == perWf' = [perWf EXCEPT ![w] = @ + n]

\* The counters with a workflow's entry deleted from the sync.Map.
Deleted(ws) == [w \in Workflows |-> IF w \in ws THEN 0 ELSE perWf[w]]

FullWf(w) == PerWfMax > 0 /\ perWf[w] >= PerWfMax
FullGlobal == globalActive >= GlobalMax

(***************************************************************************)
(* Mutants: plausible slips in task_dispatcher.go.                         *)
(***************************************************************************)

\* PushTask without the second look at the global counter.
IncGlobalUnchecked(t) ==
    /\ pc[t] = "incGlobal"
    /\ AddGlobal(1)
    /\ Goto(t, "push")
    /\ UNCHANGED <<perWf, after, prio, retries, queueVars, dispVars, ended>>

\* PushTask that enqueues without giving the workflow's slot back.
IncWfKeeps(t) ==
    /\ pc[t] = "incWf"
    /\ AddWf(Wf[t], 1)
    /\ Goto(t, IF PerWfMax > 0 /\ perWf'[Wf[t]] > PerWfMax
               THEN "enqueue" ELSE "incGlobal")
    /\ UNCHANGED <<globalActive, after, prio, retries, queueVars, dispVars, ended>>

\* A failed doPush that gives the global slot back twice.
UndoGlobalTwice(t) ==
    /\ pc[t] = "undoGlobal"
    /\ AddGlobal(-2)
    /\ Goto(t, "undoWf")
    /\ UNCHANGED <<perWf, after, prio, retries, queueVars, dispVars, ended>>

\* batchPush that drops the tasks of a failed batch with their slots.
PutErrorKeepsSlots(d) ==
    /\ dpc[d] = "put"
    /\ "lost" \in Faults
    /\ pc' = [t \in Tasks |-> IF t \in batch[d] THEN "dropped" ELSE pc[t]]
    /\ batch' = [batch EXCEPT ![d] = {}]
    /\ DGoto(d, "idle")
    /\ UNCHANGED <<counters, after, prio, retries, queueVars, ended>>

\* tryDispatchPending without blockedWf.
BlockedIfFull(t) == FullWf(Wf[t])

(***************************************************************************)
(* PushTask.                                                               *)
(***************************************************************************)

\* getWorkflowPriority, then the first look at the workflow's counter.
CheckWf(t) ==
    /\ pc[t] = "new" /\ t \in Pushed
    /\ prio' = [prio EXCEPT ![t] = IF Wf[t] \in ended THEN 0 ELSE Priority[Wf[t]]]
    /\ Goto(t, IF FullWf(Wf[t]) THEN "enqueue" ELSE "chkGlobal")
    /\ UNCHANGED <<counters, after, retries, queueVars, dispVars, ended>>

CheckGlobal(t) ==
    /\ pc[t] = "chkGlobal"
    /\ Goto(t, IF FullGlobal THEN "enqueue" ELSE "incWf")
    /\ UNCHANGED <<counters, after, prio, retries, queueVars, dispVars, ended>>

\* incPerWfActive, and back out if another goroutine was faster.
IncWf(t) ==
    /\ pc[t] = "incWf"
    /\ AddWf(Wf[t], 1)
    /\ Goto(t, IF PerWfMax > 0 /\ perWf'[Wf[t]] > PerWfMax
               THEN "undoWf" ELSE "incGlobal")
    /\ after' = [after EXCEPT ![t] = "enqueue"]
    /\ UNCHANGED <<globalActive, prio, retries, queueVars, dispVars, ended>>

IncGlobal(t) ==
    /\ pc[t] = "incGlobal"
    /\ AddGlobal(1)
    /\ Goto(t, IF globalActive' > GlobalMax THEN "undoGlobal" ELSE "push")
    /\ UNCHANGED <<perWf, after, prio, retries, queueVars, dispVars, ended>>

\* doPush: the workflow must still be running and the Put must succeed.  Its
\* context is the root context, which the end of a workflow does not cancel.
PushOk(t) ==
    /\ pc[t] = "push" /\ Wf[t] \notin ended
    /\ Goto(t, "live")
    /\ UNCHANGED <<counters, after, prio, retries, queueVars, dispVars, ended>>

PushError(t) ==
    /\ pc[t] = "push"
    /\ Wf[t] \in ended \/ "lost" \in Faults
    /\ Goto(t, "undoGlobal")
    /\ after' = [after EXCEPT ![t] = "refused"]
    /\ UNCHANGED <<counters, prio, retries, queueVars, dispVars, ended>>

UndoGlobal(t) ==
    /\ pc[t] = "undoGlobal"
    /\ AddGlobal(-1)
    /\ Goto(t, "undoWf")
    /\ UNCHANGED <<perWf, after, prio, retries, queueVars, dispVars, ended>>

\* decPerWfActive: Add(-1), and a counter seen at zero is deleted by a step
\* of its own, whatever was added to it meanwhile.
UndoWf(t) ==
    /\ pc[t] = "undoWf"
    /\ AddWf(Wf[t], -1)
    /\ Goto(t, IF perWf'[Wf[t]] = 0 THEN "undoDel" ELSE after[t])
    /\ UNCHANGED <<globalActive, after, prio, retries, queueVars, dispVars, ended>>

UndoDel(t) ==
    /\ pc[t] = "undoDel"
    /\ perWf' = Deleted({Wf[t]})
    /\ Goto(t, after[t])
    /\ UNCHANGED <<globalActive, after, prio, retries, queueVars, dispVars, ended>>

Queued == {t \in Tasks : pc[t] = "queued"}

\* enqueuePending, a critical section of pqMu.
Enqueue(t) ==
    /\ pc[t] = "enqueue" /\ pqMu = Free
    /\ Goto(t, "queued")
    /\ ahead' = [ahead EXCEPT ![t] = Queued]
    /\ UNCHANGED <<counters, after, prio, retries, late, pqMu, deferred,
                   dispVars, ended>>

(***************************************************************************)
(* A task that is out: its terminal event, and retries.                    *)
(***************************************************************************)

\* watchWorkflowStatus takes the terminal event of a task, if the workflow
\* still runs; handleTaskFailed may leave the task to a retry.
Report(t) ==
    /\ pc[t] = "live"
    /\ Wf[t] \notin ended /\ dpc[Wf[t]] = "idle"
    /\ DGoto(Wf[t], "relGlobal")
    /\ \/ Goto(t, "done")
       \/ t \in Failing /\ retries[t] < MaxRetries /\ Goto(t, "backoff")
    /\ UNCHANGED <<counters, after, prio, retries, queueVars, batch, ended>>

\* RetryTask starts when handleTaskFailed has released the slot.  It takes a
\* slot whatever the limits say.
RetryGlobal(t) ==
    /\ pc[t] = "backoff" /\ dpc[Wf[t]] = "idle"
    /\ AddGlobal(1)
    /\ retries' = [retries EXCEPT ![t] = @ + 1]
    /\ Goto(t, "retryWf")
    /\ UNCHANGED <<perWf, after, prio, queueVars, dispVars, ended>>

\* The workflow's context ends the backoff.
RetryCancelled(t) ==
    /\ pc[t] = "backoff" /\ dpc[Wf[t]] = "idle" /\ Wf[t] \in ended
    /\ Goto(t, "refused")
    /\ UNCHANGED <<counters, after, prio, retries, queueVars, dispVars, ended>>

RetryWf(t) ==
    /\ pc[t] = "retryWf"
    /\ AddWf(Wf[t], 1)
    /\ Goto(t, "retryPut")
    /\ UNCHANGED <<globalActive, after, prio, retries, queueVars, dispVars, ended>>

RetryOk(t) ==
    /\ pc[t] = "retryPut" /\ Wf[t] \notin ended
    /\ Goto(t, "live")
    /\ UNCHANGED <<counters, after, prio, retries, queueVars, dispVars, ended>>

\* The Put fails, for certain when the workflow's context is cancelled:
\* markWorkflowFailed, then release the slot and dispatch.
RetryError(t) ==
    /\ pc[t] = "retryPut" /\ dpc[t] = "idle"
    /\ Wf[t] \in ended \/ "lost" \in Faults
    /\ ended' = ended \cup {Wf[t]}
    /\ perWf' = IF Wf[t] \in ended THEN perWf ELSE Deleted({Wf[t]})
    /\ Goto(t, "refused")
    /\ DGoto(t, "relGlobal")
    /\ UNCHANGED <<globalActive, after, prio, retries, queueVars, batch>>

(***************************************************************************)
(* ReleaseSlotForWorkflow, up to tryDispatchPending.                       *)
(***************************************************************************)

\* The workflow a dispatcher works for: its context is the one used.
WfOf(d) == IF d \in Workflows THEN d ELSE Wf[d]

ReleaseGlobal(d) ==
    /\ dpc[d] = "relGlobal"
    /\ AddGlobal(-1)
    /\ DGoto(d, "relWf")
    /\ UNCHANGED <<perWf, taskVars, queueVars, batch, ended>>

ReleaseWf(d) ==
    /\ dpc[d] = "relWf"
    /\ AddWf(WfOf(d), -1)
    /\ DGoto(d, IF perWf'[WfOf(d)] = 0 THEN "relDel" ELSE "lock")
    /\ UNCHANGED <<globalActive, taskVars, queueVars, batch, ended>>

ReleaseDel(d) ==
    /\ dpc[d] = "relDel"
    /\ perWf' = Deleted({WfOf(d)})
    /\ DGoto(d, "lock")
    /\ UNCHANGED <<globalActive, taskVars, queueVars, batch, ended>>

(***************************************************************************)
(* tryDispatchPending, first phase: under pqMu.                            *)
(***************************************************************************)

\* pendingQueue.Less: higher priority first, then the order of arrival.
Less(t, u) == prio[t] > prio[u] \/ (prio[t] = prio[u] /\ t \in ahead[u])

\* evictTimedOutLocked pops the head of the queue as long as it timed out.
Evicted ==
    {t \in Queued : t \in late /\ \A u \in Queued : Less(u, t) => u \in late}

Popped(ts) == [u \in Tasks |-> IF u \in ts THEN {} ELSE ahead[u] \ ts]

\* Lock pqMu and evict.  The workflow of an evicted task is marked as failed:
\* it leaves runningEntries and its counter is deleted.
LockAndEvict(d) ==
    /\ dpc[d] = "lock" /\ pqMu = Free
    /\ pqMu' = d
    /\ DGoto(d, "scan")
    /\ pc' = [t \in Tasks |-> IF t \in Evicted THEN "evicted" ELSE pc[t]]
    /\ ahead' = Popped(Evicted)
    /\ late' = late \ Evicted
    /\ ended' = ended \cup {Wf[t] : t \in Evicted}
    /\ perWf' = Deleted({Wf[t] : t \in Evicted} \ ended)
    /\ UNCHANGED <<globalActive, after, prio, retries, deferred, batch>>

\* The tasks still in the heap; those set aside go back with their old
\* arrival time at the end of the loop.
InHeap == Queued \ deferred

Top(t) == t \in InHeap /\ \A u \in InHeap \ {t} : Less(t, u)

\* blockedWf: the workflows of the tasks set aside.
Blocked(t) == FullWf(Wf[t]) \/ \E u \in deferred : Wf[u] = Wf[t]

Defer(d, t) ==
    /\ dpc[d] = "scan"
    /\ ~FullGlobal /\ Top(t) /\ Blocked(t)
    /\ deferred' = deferred \cup {t}
    /\ UNCHANGED <<counters, taskVars, ahead, late, pqMu, dispVars, ended>>

Pick(d, t) ==
    /\ dpc[d] = "scan"
    /\ ~FullGlobal /\ Top(t) /\ ~Blocked(t)
    /\ Goto(t, "picked")
    /\ ahead' = Popped({t})
    /\ late' = late \ {t}
    /\ DGoto(d, "grab")
    /\ UNCHANGED <<counters, after, prio, retries, pqMu, deferred, batch, ended>>

\* Occupy the slots: the limits are not looked at again.
GrabGlobal(d, t) ==
    /\ dpc[d] = "grab" /\ pc[t] = "picked"
    /\ AddGlobal(1)
    /\ Goto(t, "grabWf")
    /\ UNCHANGED <<perWf, after, prio, retries, queueVars, dispVars, ended>>

GrabWf(d, t) ==
    /\ dpc[d] = "grab" /\ pc[t] = "grabWf"
    /\ AddWf(Wf[t], 1)
    /\ Goto(t, "batched")
    /\ batch' = [batch EXCEPT ![d] = @ \cup {t}]
    /\ DGoto(d, "scan")
    /\ UNCHANGED <<globalActive, after, prio, retries, queueVars, ended>>

\* tryDispatchPending (mutant) that returns with pqMu locked.
ScanEndLocked(d) ==
    /\ dpc[d] = "scan"
    /\ InHeap = {} \/ FullGlobal
    /\ deferred' = {}
    /\ DGoto(d, "collect")
    /\ UNCHANGED <<counters, taskVars, ahead, late, pqMu, batch, ended>>

\* The loop ends; pqMu is unlocked.
ScanEnd(d) ==
    /\ dpc[d] = "scan"
    /\ InHeap = {} \/ FullGlobal
    /\ deferred' = {}
    /\ pqMu' = Free
    /\ DGoto(d, "collect")
    /\ UNCHANGED <<counters, taskVars, ahead, late, batch, ended>>

(***************************************************************************)
(* tryDispatchPending, second phase: batchPush.                            *)
(***************************************************************************)

\* Tasks whose workflow is gone are skipped, and keep the slots they hold.
Collect(d) ==
    /\ dpc[d] = "collect"
    /\ LET gone == {t \in batch[d] : Wf[t] \in ended}
       IN  /\ pc' = [t \in Tasks |-> IF t \in gone THEN "leaked" ELSE pc[t]]
           /\ batch' = [batch EXCEPT ![d] = @ \ gone]
           /\ DGoto(d, IF batch[d] = gone THEN "idle" ELSE "put")
    /\ UNCHANGED <<counters, after, prio, retries, queueVars, ended>>

\* BatchPutWithTTL runs under the context of the releasing workflow.
PutOk(d) ==
    /\ dpc[d] = "put" /\ WfOf(d) \notin ended
    /\ pc' = [t \in Tasks |-> IF t \in batch[d] THEN "live" ELSE pc[t]]
    /\ batch' = [batch EXCEPT ![d] = {}]
    /\ DGoto(d, "idle")
    /\ UNCHANGED <<counters, after, prio, retries, queueVars, ended>>

\* The slots of the whole batch are given back (in some order) and the tasks
\* are forgotten.
PutError(d) ==
    /\ dpc[d] = "put"
    /\ WfOf(d) \in ended \/ "lost" \in Faults
    /\ pc' = [t \in Tasks |-> IF t \in batch[d] THEN "undoGlobal" ELSE pc[t]]
    /\ after' = [t \in Tasks |-> IF t \in batch[d] THEN "dropped" ELSE after[t]]
    /\ DGoto(d, "giveback")
    /\ UNCHANGED <<counters, prio, retries, queueVars, batch, ended>>

GiveBackEnd(d) ==
    /\ dpc[d] = "giveback"
    /\ \A t \in batch[d] : pc[t] = "dropped"
    /\ batch' = [batch EXCEPT ![d] = {}]
    /\ DGoto(d, "idle")
    /\ UNCHANGED <<counters, taskVars, queueVars, ended>>

(***************************************************************************)
(* The environment.                                                        *)
(***************************************************************************)

\* PersistWorkflowLocked: the entry is removed, CleanupPerWfCounter deletes
\* the counter and the workflow's context is cancelled.
EndWorkflow(w) ==
    /\ w \in Ending \ ended
    /\ ended' = ended \cup {w}
    /\ perWf' = Deleted({w})
    /\ UNCHANGED <<globalActive, taskVars, queueVars, dispVars>>

\* A queued task's wait exceeds pending_task_timeout, after that of the
\* tasks enqueued before it.
Age(t) ==
    /\ t \in Queued \ late /\ ahead[t] \subseteq late
    /\ late' = late \cup {t}
    /\ UNCHANGED <<counters, taskVars, ahead, pqMu, deferred, dispVars, ended>>

TaskStep(t) ==
    \/ CheckWf(t) \/ CheckGlobal(t) \/ IncWf(t) \/ IncGlobal(t)
    \/ PushOk(t) \/ PushError(t) \/ UndoGlobal(t) \/ UndoWf(t) \/ UndoDel(t)
    \/ Enqueue(t) \/ Report(t)
    \/ RetryGlobal(t) \/ RetryCancelled(t) \/ RetryWf(t) \/ RetryOk(t) \/ RetryError(t)

DispatchStep(d) ==
    \/ ReleaseGlobal(d) \/ ReleaseWf(d) \/ ReleaseDel(d)
    \/ LockAndEvict(d) \/ ScanEnd(d)
    \/ \E t \in Tasks : Defer(d, t) \/ Pick(d, t) \/ GrabGlobal(d, t) \/ GrabWf(d, t)
    \/ Collect(d) \/ PutOk(d) \/ PutError(d) \/ GiveBackEnd(d)

Next ==
    /\ \/ \E t \in Tasks : TaskStep(t) \/ Age(t)
       \/ \E d \in Dispatchers : DispatchStep(d)
       \/ \E w \in Workflows : EndWorkflow(w)
    /\ UNCHANGED env

(***************************************************************************)
(* Every goroutine keeps running, workers report the tasks they get, time  *)
(* passes.  pqMu is handed over fairly (Go's mutex does not starve).       *)
(***************************************************************************)
Fairness ==
    /\ \A t \in Tasks : /\ SF_vars(TaskStep(t) /\ UNCHANGED env)
                         /\ WF_vars(Age(t) /\ UNCHANGED env)
    /\ \A d \in Dispatchers : SF_vars(DispatchStep(d) /\ UNCHANGED env)

Spec == Init /\ [][Next]_vars /\ Fairness

\* The weakest fairness under which a dispatch must end: the goroutine that
\* holds pqMu is scheduled, nothing is assumed of the others.
ScanSpec ==
    /\ Init /\ [][Next]_vars
    /\ WF_vars((\E d \in Dispatchers : pqMu = d /\ DispatchStep(d)) /\ UNCHANGED env)

(***************************************************************************)
(* Properties.                                                             *)
(***************************************************************************)

\* Tasks, and releases, that hold an increment of globalActive.  The tasks that
\* batchPush skipped hold theirs for ever, like those of a workflow that ended
\* before their result came in.
HoldLabels == {"push", "undoGlobal", "grabWf", "batched", "live", "leaked",
               "retryWf", "retryPut"}
GlobalHolders == {t \in Tasks : pc[t] \in HoldLabels}
Releasing == {d \in Dispatchers : dpc[d] = "relGlobal"}

\* The global counter is exact: it counts every task between taking a global
\* slot (PushTask, tryDispatchPending, RetryTask) and giving it back
\* (ReleaseSlotForWorkflow, the back-outs, a failed batch), at every moment.
SlotAccounting == globalActive = Cardinality(GlobalHolders) + Cardinality(Releasing)

\* Tasks that were let through and are, or are about to be, at the workers.
OutLabels == {"push", "grabWf", "batched", "live"}
Out == {t \in Tasks : pc[t] \in OutLabels /\ retries[t] = 0}

\* Racing with PushTask, tryDispatchPending can exceed the global limit by
\* one task and never by more, however many goroutines take part (retries,
\* which ignore the limit, aside).
GlobalBound == Cardinality(Out) <= GlobalMax + 1

\* Tasks and releases of w that will give an increment of w's counter back, as
\* long as w runs.  A task that batchPush skipped is not among them: it keeps its
\* slots for good.
ReleaseLabels == {"incGlobal", "push", "undoGlobal", "undoWf", "batched", "live",
                  "retryPut"}
Releasers(w) ==
    {t \in Tasks : Wf[t] = w /\ pc[t] \in ReleaseLabels}
    \cup {d \in Dispatchers : WfOf(d) = w /\ dpc[d] \in {"relGlobal", "relWf"}}

\* The counter of a running workflow may miss holders (entries are deleted under
\* concurrent increments), but every slot it counts has somebody who will give
\* it back, so no task of the workflow waits for a slot that is never released
\* (incPerWfActive, decPerWfActive, CleanupPerWfCounter).  Of a workflow that
\* ended this is not said: batchPush skips its tasks without releasing them and
\* its watcher is gone.
NoPhantomSlot ==
    \A w \in Workflows \ ended : perWf[w] <= Cardinality(Releasers(w))

\* The queue never lets a task of a running workflow overtake an older one of
\* the same workflow, also when a slot of that workflow is released in
\* the middle of a dispatch (blockedWf in tryDispatchPending).
FifoWithinWorkflow ==
    [][\A t, u \in Tasks :
          /\ pc[t] = "queued" /\ pc'[t] = "picked"
          /\ pc[u] = "queued" /\ Wf[u] = Wf[t] /\ Wf[t] \notin ended
          => u \notin ahead[t]]_vars

\* A dispatch that took pqMu gives it back (tryDispatchPending's loop ends).
DispatchEnds == []<>(pqMu = Free)

(***************************************************************************)
(* What the documentation says, and the code does not do.                  *)
(***************************************************************************)

\* docs/configuration.md: a queued task that is not pushed within the timeout
\* is evicted and marked as failed.  So it does not stay in the queue
\* (enqueuePending, evictTimedOutLocked).
QueuedLeaves == \A t \in Tasks : pc[t] = "queued" ~> pc[t] # "queued"

=============================================================================
