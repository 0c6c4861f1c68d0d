-------------------------- MODULE WorkflowLifecycle --------------------------
(***************************************************************************)
(* The life of one workflow (one UUID) in the master: WorkflowManager,     *)
(* SerialExecutor and ParallelExecutor, watchWorkflowStatus with the error *)
(* policies, and the saga rollback of watch.go.                            *)
(*                                                                         *)
(* A run is one call of SubmitWorkflow: a workflowEntry of its own.  The   *)
(* UUID maps to at most one entry, and every goroutine looks the entry up  *)
(* by UUID each time it needs it.  LockEntry reads the map under wm.mu and *)
(* then locks the entry: another goroutine may persist or replace the      *)
(* entry in between.  So a change made through LockEntry is two steps, a   *)
(* Look that fetches the entry into got and the critical section of its    *)
(* mutex.  A read through RLockEntry or GetWorkflowState has the same      *)
(* window; only the rollback poll, which waits for a change of the entry   *)
(* it fetched, needs it, and the other reads are one step.                 *)
(*                                                                         *)
(* Goroutines: per run the watcher (watchWorkflowStatus), the timer        *)
(* (timeoutAfter), the MySQL initialiser (asyncInitMySQL) and one retrier  *)
(* per task (RetryTask); a pool of executors (Execute, started by          *)
(* SubmitWorkflow and ApproveWorkflow); per task a rollback goroutine; the *)
(* operators that call CancelWorkflow, ApproveWorkflow and RejectWorkflow; *)
(* and the dispatcher's eviction of queued tasks.                          *)
(***************************************************************************)
EXTENDS Naturals, Sequences, FiniteSets

CONSTANTS
    MaxRuns,        \* bound: submissions of the UUID
    Executors,      \* bound: executor goroutines at a time
    Operators,      \* concurrent API callers
    Tasks,
    Main, Branch,   \* TaskGroups, and the groups of a branch of some node
    MainControl, BranchControl,  \* per group, what its tasks' outputs may ask for
    Policy,         \* ErrorPolicy.GetTaskErrorPolicy, skip only if skippable
    TimeoutPolicy,  \* "rollback", "fail", or "none" for a workflow without timeout
    MaxRetries,     \* Workflow.MaxRetries
    Faults,         \* what may go wrong: a write to etcd ("etcd") or MySQL
                    \* ("mysql"), a task or its event lost ("lost"), a
                    \* queued task evicted ("evicted")
    None

Runs == 1..MaxRuns
Paths == {"main", "branch"}
Groups(p) == IF p = "main" THEN Main ELSE Branch
Control(p) == IF p = "main" THEN MainControl ELSE BranchControl

ASSUME RunsAssumption == MaxRuns \in Nat /\ None \notin Nat
ASSUME TasksAssumption == None \notin Tasks /\ None \notin Executors
ASSUME PlanAssumption ==
    /\ Main \in Seq(SUBSET Tasks) /\ Len(Main) > 0
    /\ Branch \in Seq(SUBSET Tasks)
    /\ Len(MainControl) = Len(Main) /\ Len(BranchControl) = Len(Branch)
ASSUME PolicyAssumption ==
    /\ Policy \in [Tasks -> {"retry", "rollback", "skip", "fail_fast"}]
    /\ TimeoutPolicy \in {"rollback", "fail", "none"}
    /\ MaxRetries \in Nat
ASSUME FaultsAssumption == Faults \subseteq {"etcd", "mysql", "lost", "evicted"}

\* The goroutines.
Watcher(r) == <<"watch", r>>
Timer(r) == <<"timer", r>>
Initialiser(r) == <<"init", r>>
Retrier(r, t) == <<"retry", r, t>>
Executor(e) == <<"exec", e>>
Operator(o) == <<"op", o>>
Rollbacker(t) == <<"rollback", t>>
Evictor == <<"evict">>

Watchers == {Watcher(r) : r \in Runs}
Procs ==
    Watchers \cup {Timer(r) : r \in Runs} \cup {Initialiser(r) : r \in Runs}
    \cup {Retrier(r, t) : r \in Runs, t \in Tasks}
    \cup {Executor(e) : e \in Executors} \cup {Operator(o) : o \in Operators}
    \cup {Rollbacker(t) : t \in Tasks} \cup {Evictor}

VARIABLES
    submitted,      \* runs submitted so far: 1..submitted
    running,        \* runningEntries[uuid]
    status,         \* WorkflowState.Status
    completed,      \* WorkflowState.CompletedTasks
    failed,         \* WorkflowState.FailedTasks
    rolledBack,     \* WorkflowState.RolledBack
    pausedIdx,      \* WorkflowState.PausedGroupIdx
    history,        \* runs in workflowHistory
    cancelled,      \* runs whose context is cancelled
    out,            \* task keys <<task, RetryCount>> pushed (or queued) whose
                    \* terminal event is to come
    rbOut,          \* rollback tasks pushed
    listener,       \* taskListeners[uuid]: the executor listening for a task
    watching,       \* wfWatchers.chans[uuid]: the run whose watcher has the channel
    closedWatch,    \* runs whose watcher's channel was closed
    pc,             \* where each goroutine is
    got,            \* the entry a goroutine fetched
    task, attempt,  \* the payload a goroutine deals with: TaskName, RetryCount
    path, idx,      \* the group an executor executes
    res             \* per executor and task, executeSingleTask's progress

entryVars == <<status, completed, failed, rolledBack, pausedIdx>>
mapVars == <<running, history, cancelled>>
taskVars == <<out, rbOut>>
watchVars == <<watching, closedWatch>>
execVars == <<path, idx, res, listener>>
payloadVars == <<task, attempt>>
vars == <<submitted, mapVars, entryVars, taskVars, watchVars, pc, got, payloadVars, execVars>>

Status == {"PENDING", "RUNNING", "PAUSED", "COMPLETED", "FAILED",
           "ROLLING_BACK", "ROLLED_BACK"}
Labels ==
    {"idle", "resubmit", "start", "group", "failLook", "failAct", "pauseLook", "pauseAct",
     "finLook", "finAct", "register", "loop", "recOkLook", "recOkAct",
     "recErrLook", "recErrAct", "notifyOk", "notifyErr", "handle",
     "skipLook", "skipAct", "skipNotify", "mfLook", "mfAct",
     "sgLook", "sgAct", "sgCollect", "rbLook", "rbAct", "hrLook", "hrAct",
     "armed", "tmAct", "saving", "clnWatch", "clnListen", "backoff", "clrLook", "clrAct",
     "cancelAct", "approveAct",
     "apLook", "apAct", "rejectAct", "rbPush", "rbWait", "rbPoll", "rbDeaf", "rtAct"}
Progress == {"idle", "push", "listen", "wait", "gotOk", "gotErr", "closed", "ok", "err"}

TypeOK ==
    /\ submitted \in 0..MaxRuns
    /\ running \in Runs \cup {None}
    /\ status \in [Runs -> Status]
    /\ completed \in [Runs -> SUBSET Tasks]
    /\ failed \in [Runs -> SUBSET (Tasks \cup {None})]
    /\ rolledBack \in [Runs -> SUBSET Tasks]
    /\ pausedIdx \in [Runs -> Nat]
    /\ history \subseteq Runs
    /\ cancelled \subseteq Runs
    /\ out \subseteq Tasks \X (0..MaxRetries)
    /\ rbOut \subseteq Tasks
    /\ listener \in [Tasks -> Executors \cup {None}]
    /\ watching \in Runs \cup {None}
    /\ closedWatch \subseteq Runs
    /\ pc \in [Procs -> Labels]
    /\ got \in [Procs -> Runs \cup {None}]
    /\ task \in [Procs -> Tasks \cup {None}]
    /\ attempt \in [Procs -> 0..MaxRetries]
    /\ path \in [Executors -> Paths]
    /\ idx \in [Executors -> Nat]
    /\ res \in [Executors -> [Tasks -> Progress]]

Init ==
    /\ submitted = 0
    /\ running = None
    /\ status = [r \in Runs |-> "PENDING"]
    /\ completed = [r \in Runs |-> {}]
    /\ failed = [r \in Runs |-> {}]
    /\ rolledBack = [r \in Runs |-> {}]
    /\ pausedIdx = [r \in Runs |-> 0]
    /\ history = {} /\ cancelled = {}
    /\ out = {} /\ rbOut = {}
    /\ listener = [t \in Tasks |-> None]
    /\ watching = None /\ closedWatch = {}
    /\ pc = [p \in Procs |-> "idle"]
    /\ got = [p \in Procs |-> None]
    /\ task = [p \in Procs |-> None]
    /\ attempt = [p \in Procs |-> 0]
    /\ path = [e \in Executors |-> "main"]
    /\ idx = [e \in Executors |-> 0]
    /\ res = [e \in Executors |-> [t \in Tasks |-> "idle"]]

(***************************************************************************)
(* Building blocks.                                                        *)
(***************************************************************************)

Goto(p, l) == pc' = [pc EXCEPT ![p] = l]

\* The end of the critical section: p lets go of the entry.
Unlock(p, l) == Goto(p, l) /\ got' = [got EXCEPT ![p] = None]

\* Where a goroutine goes on after a call: a watcher takes the next event.
Return(p) == IF p \in Watchers THEN "loop" ELSE "idle"
GoReturn(p) == Unlock(p, Return(p))

\* The first half of LockEntry: without an entry p goes on at nil.
Look(p, here, there, nil) ==
    /\ pc[p] = here
    /\ got' = [got EXCEPT ![p] = running]
    /\ Goto(p, IF running = None THEN nil ELSE there)
    /\ UNCHANGED <<submitted, mapVars, entryVars, taskVars, watchVars, payloadVars, execVars>>

SetStatus(r, s) == status' = [status EXCEPT ![r] = s]

\* PersistWorkflowLocked: r enters the history, the UUID's entry, whichever
\* it is by now, is removed, and r's context is cancelled.
Persist(r) ==
    /\ history' = history \cup {r}
    /\ running' = None
    /\ cancelled' = cancelled \cup {r}

\* The listener of t, and with it the channel of its executor.
Unregister(t, rs) ==
    /\ listener' = [listener EXCEPT ![t] = None]
    /\ res' = IF listener[t] # None /\ rs[listener[t]][t] = "wait"
              THEN [rs EXCEPT ![listener[t]][t] = "closed"] ELSE rs

\* notifyTaskListener: the channel holds one payload, a second one is dropped.
Notify(t, payload) ==
    res' = IF listener[t] # None /\ res[listener[t]][t] = "wait"
           THEN [res EXCEPT ![listener[t]][t] = payload] ELSE res

\* TaskGroupIndex: the main group of a task, 0 for every other name.
GroupIndex(t) ==
    IF \E i \in DOMAIN Main : t \in Main[i]
    THEN CHOOSE i \in DOMAIN Main : t \in Main[i] ELSE 0

(***************************************************************************)
(* SubmitWorkflow, called by the API, a cron entry or an event chain: the  *)
(* entry replaces whatever the UUID maps to.  RunWorkflow and              *)
(* RetryWorkflow look first, in a step of their own, whether the UUID      *)
(* runs; what they found may be stale.                                     *)
(***************************************************************************)

\* RetryWorkflow up to SubmitWorkflow: the history record is dropped.
RetryWorkflow(e) ==
    /\ submitted < MaxRuns /\ pc[Executor(e)] = "idle" /\ running = None
    /\ \E r \in history : history' = history \ {r}
    /\ Goto(Executor(e), "resubmit")
    /\ UNCHANGED <<submitted, running, cancelled, entryVars, taskVars, watchVars, got,
                   payloadVars, execVars>>

Submit(e) ==
    /\ submitted < MaxRuns /\ pc[Executor(e)] \in {"idle", "resubmit"}
    /\ LET r == submitted + 1
       IN  /\ submitted' = r
           /\ running' = r
           /\ SetStatus(r, "RUNNING")
           /\ pc' = [pc EXCEPT ![Watcher(r)] = "register",
                               ![Timer(r)] = IF TimeoutPolicy = "none" THEN "idle" ELSE "armed",
                               ![Initialiser(r)] = IF "mysql" \in Faults THEN "saving" ELSE "idle",
                               ![Executor(e)] = "start"]
    /\ path' = [path EXCEPT ![e] = "main"]
    /\ idx' = [idx EXCEPT ![e] = 1]
    /\ UNCHANGED <<history, cancelled, completed, failed, rolledBack, pausedIdx,
                   taskVars, watchVars, got, payloadVars, res, listener>>

\* asyncInitMySQL (of interest only if MySQL may fail): its writes succeed,
\* or fail and cleanupWorkflowState removes the UUID's entry without a
\* history record.
InitOk(r) ==
    /\ pc[Initialiser(r)] = "saving"
    /\ Goto(Initialiser(r), "idle")
    /\ UNCHANGED <<submitted, mapVars, entryVars, taskVars, watchVars, got, payloadVars, execVars>>

InitFailed(r) ==
    /\ pc[Initialiser(r)] = "saving"
    /\ Goto(Initialiser(r), "clnWatch")
    /\ running' = None
    /\ cancelled' = cancelled \cup ({running} \ {None})
    /\ UNCHANGED <<submitted, history, entryVars, taskVars, watchVars, got, payloadVars, execVars>>

\* It goes on to close the watcher's channel and the executors' listeners of the
\* UUID, by then perhaps those of its next run.
CleanupWatcher(r) ==
    /\ pc[Initialiser(r)] = "clnWatch"
    /\ Goto(Initialiser(r), "clnListen")
    /\ watching' = None
    /\ closedWatch' = closedWatch \cup ({watching} \ {None})
    /\ UNCHANGED <<submitted, mapVars, entryVars, taskVars, got, payloadVars, execVars>>

CleanupTaskListeners(r) ==
    /\ pc[Initialiser(r)] = "clnListen"
    /\ Goto(Initialiser(r), "idle")
    /\ listener' = [t \in Tasks |-> None]
    /\ res' = [e \in Executors |-> [t \in Tasks |->
                 IF listener[t] = e /\ res[e][t] = "wait" THEN "closed" ELSE res[e][t]]]
    /\ UNCHANGED <<submitted, mapVars, entryVars, taskVars, watchVars, got, payloadVars, path, idx>>

InitStep(r) == InitOk(r) \/ InitFailed(r) \/ CleanupWatcher(r) \/ CleanupTaskListeners(r)

(***************************************************************************)
(* SerialExecutor and ParallelExecutor.                                    *)
(***************************************************************************)

Current(e) == Groups(path[e])[idx[e]]

\* executeGroups: the group's tasks are pushed in parallel.
Launch(e, p, i) ==
    /\ path' = [path EXCEPT ![e] = p]
    /\ idx' = [idx EXCEPT ![e] = i]
    /\ res' = [res EXCEPT ![e] = [t \in Tasks |-> IF t \in Groups(p)[i] THEN "push" ELSE "idle"]]
    /\ Goto(Executor(e), "group")
    /\ UNCHANGED listener

\* Execute: nothing to do when the workflow is gone.
ExecuteGone(e) ==
    /\ pc[Executor(e)] = "start" /\ running = None
    /\ Goto(Executor(e), "idle")
    /\ UNCHANGED <<submitted, mapVars, entryVars, taskVars, watchVars, got, payloadVars, execVars>>

Execute(e) ==
    /\ pc[Executor(e)] = "start" /\ running # None
    /\ Launch(e, path[e], idx[e])
    /\ UNCHANGED <<submitted, mapVars, entryVars, taskVars, watchVars, got, payloadVars>>

\* executeSingleTask.  The listener is registered after the push: an event
\* that is faster finds none.
PushTask(e, t) ==
    /\ res[e][t] = "push" /\ running # None
    /\ res' = [res EXCEPT ![e][t] = "listen"]
    /\ out' = out \cup {<<t, 0>>}
    /\ UNCHANGED <<submitted, mapVars, entryVars, rbOut, watchVars, pc, got, payloadVars,
                   path, idx, listener>>

PushTaskError(e, t) ==
    /\ res[e][t] = "push"
    /\ running = None \/ "etcd" \in Faults
    /\ res' = [res EXCEPT ![e][t] = "err"]
    /\ UNCHANGED <<submitted, mapVars, entryVars, taskVars, watchVars, pc, got, payloadVars,
                   path, idx, listener>>

RegisterTaskListener(e, t) ==
    /\ res[e][t] = "listen"
    /\ res' = [res EXCEPT ![e][t] = "wait"]
    /\ listener' = [listener EXCEPT ![t] = e]
    /\ UNCHANGED <<submitted, mapVars, entryVars, taskVars, watchVars, pc, got, payloadVars, path, idx>>

\* The select of executeSingleTask, and its deferred UnregisterTaskListener,
\* which closes the channel registered for t by now.
TaskResult(e, t, result) ==
    /\ Unregister(t, [res EXCEPT ![e][t] = result])
    /\ UNCHANGED <<submitted, mapVars, entryVars, taskVars, watchVars, pc, got, payloadVars, path, idx>>

TaskSucceeds(e, t) == res[e][t] = "gotOk" /\ TaskResult(e, t, "ok")

TaskFails(e, t) == res[e][t] \in {"gotErr", "closed"} /\ TaskResult(e, t, "err")

\* Watchdog (mutant): the select has no timeout.
WatchdogMissing(e, t) == FALSE

\* No answer within the master's timeout.
Watchdog(e, t) == res[e][t] = "wait" /\ TaskResult(e, t, "err")

\* Succeeded (mutant) that takes an error for a result.
SucceededAnyhow(e) == \A t \in Current(e) : res[e][t] \in {"ok", "err"}

Ended(e) == \A t \in Current(e) : res[e][t] \in {"ok", "err"}
Succeeded(e) == \A t \in Current(e) : res[e][t] = "ok"

\* The results are collected and the executor does not push another group.
Collected(e, l) ==
    /\ res' = [res EXCEPT ![e] = [t \in Tasks |-> "idle"]]
    /\ Goto(Executor(e), l)
    /\ UNCHANGED <<path, idx, listener>>

\* The group failed.
GroupFailed(e) ==
    /\ pc[Executor(e)] = "group" /\ Ended(e) /\ ~Succeeded(e)
    /\ Collected(e, "failLook")
    /\ UNCHANGED <<submitted, mapVars, entryVars, taskVars, watchVars, got, payloadVars>>

\* The group succeeded, but the workflow is gone.
GroupGone(e) ==
    /\ pc[Executor(e)] = "group" /\ Succeeded(e) /\ running = None
    /\ Collected(e, "idle")
    /\ UNCHANGED <<submitted, mapVars, entryVars, taskVars, watchVars, got, payloadVars>>

ToGroup(e, p, i) ==
    IF i <= Len(Groups(p)) THEN Launch(e, p, i)
    ELSE Collected(e, "finLook")

\* advanceWorkflow: the outputs ask for an approval, a branch, a skipped
\* group or nothing.
Advance(e) ==
    /\ pc[Executor(e)] = "group" /\ Succeeded(e) /\ running # None
    /\ \E c \in Control(path[e])[idx[e]] :
         \/ c = "approval" /\ Collected(e, "pauseLook")
         \/ c = "branch" /\ ToGroup(e, "branch", 1)
         \/ c = "skip" /\ ToGroup(e, path[e], idx[e] + 2)
         \/ c = "next" /\ ToGroup(e, path[e], idx[e] + 1)
    /\ UNCHANGED <<submitted, mapVars, entryVars, taskVars, watchVars, got, payloadVars>>

\* MarkGroupFailed (mutant) that leaves the entry in the map.
MarkGroupFailedKeepsEntry(e) ==
    LET p == Executor(e)
    IN  /\ pc[p] = "failAct"
        /\ SetStatus(got[p], "FAILED")
        /\ history' = history \cup {got[p]} /\ cancelled' = cancelled \cup {got[p]}
        /\ Unlock(p, "idle")
        /\ UNCHANGED <<submitted, running, completed, failed, rolledBack, pausedIdx, taskVars,
                       watchVars, payloadVars, execVars>>

\* The workflow is marked as failed, completed or paused, whatever became of
\* the fetched entry since.
MarkGroupFailed(e) ==
    LET p == Executor(e)
    IN  /\ pc[p] = "failAct"
        /\ SetStatus(got[p], "FAILED") /\ Persist(got[p])
        /\ Unlock(p, "idle")
        /\ UNCHANGED <<submitted, completed, failed, rolledBack, pausedIdx, taskVars,
                       watchVars, payloadVars, execVars>>

FinishWorkflow(e) ==
    LET p == Executor(e)
    IN  /\ pc[p] = "finAct"
        /\ SetStatus(got[p], "COMPLETED") /\ Persist(got[p])
        /\ Unlock(p, "idle")
        /\ UNCHANGED <<submitted, completed, failed, rolledBack, pausedIdx, taskVars,
                       watchVars, payloadVars, execVars>>

PauseForApproval(e) ==
    LET p == Executor(e)
    IN  /\ pc[p] = "pauseAct"
        /\ SetStatus(got[p], "PAUSED")
        /\ pausedIdx' = [pausedIdx EXCEPT ![got[p]] = idx[e]]
        /\ Unlock(p, "idle")
        /\ UNCHANGED <<submitted, mapVars, completed, failed, rolledBack, taskVars,
                       watchVars, payloadVars, execVars>>

ExecutorStep(e) ==
    LET p == Executor(e)
    IN  \/ ExecuteGone(e) \/ Execute(e)
        \/ \E t \in Tasks :
             \/ PushTask(e, t) \/ PushTaskError(e, t) \/ RegisterTaskListener(e, t)
             \/ TaskSucceeds(e, t) \/ TaskFails(e, t) \/ Watchdog(e, t)
        \/ GroupFailed(e) \/ GroupGone(e) \/ Advance(e)
        \/ Look(p, "failLook", "failAct", "idle") \/ MarkGroupFailed(e)
        \/ Look(p, "finLook", "finAct", "idle") \/ FinishWorkflow(e)
        \/ Look(p, "pauseLook", "pauseAct", "idle") \/ PauseForApproval(e)

(***************************************************************************)
(* Failure handling, called by watchers, timers, operators, retriers and   *)
(* the evictor.                                                            *)
(***************************************************************************)

\* markWorkflowFailed.
MarkFailed(p) ==
    /\ pc[p] = "mfAct"
    /\ failed' = [failed EXCEPT ![got[p]] = @ \cup {task[p]}]
    /\ SetStatus(got[p], "FAILED") /\ Persist(got[p])
    /\ GoReturn(p)
    /\ UNCHANGED <<submitted, completed, rolledBack, pausedIdx, taskVars, watchVars,
                   payloadVars, execVars>>

\* startSagaRollback: rolling back, unless the run failed or is rolled back
\* already.  PersistWorkflowLocked removes the entry at this point.
SagaStart(p) ==
    /\ pc[p] = "sgAct"
    /\ IF status[got[p]] \in {"ROLLING_BACK", "ROLLED_BACK", "FAILED"}
       THEN GoReturn(p) /\ UNCHANGED <<status, mapVars>>
       ELSE /\ SetStatus(got[p], "ROLLING_BACK") /\ Persist(got[p])
            /\ Unlock(p, "sgCollect")
    /\ UNCHANGED <<submitted, completed, failed, rolledBack, pausedIdx, taskVars,
                   watchVars, payloadVars, execVars>>

\* The completed tasks of the groups before the failed one, as the UUID's
\* entry of that moment tells.
ToRollBack(t) ==
    IF running = None THEN {}
    ELSE UNION {Main[i] : i \in 1..(GroupIndex(t) - 1)}
         \cap (completed[running] \ rolledBack[running])

SagaCollect(p) ==
    /\ pc[p] = "sgCollect"
    /\ LET ts == IF GroupIndex(task[p]) = 0 THEN {} ELSE ToRollBack(task[p])
       IN  pc' = [q \in Procs |->
                    IF q = p THEN IF ts = {} THEN "rbLook" ELSE Return(p)
                    ELSE IF \E t \in ts : q = Rollbacker(t) THEN "rbPush" ELSE pc[q]]
    /\ UNCHANGED <<submitted, mapVars, entryVars, taskVars, watchVars, got, payloadVars, execVars>>

\* Nothing left to roll back.
MarkRolledBack(p) ==
    /\ pc[p] = "rbAct"
    /\ SetStatus(got[p], "ROLLED_BACK") /\ Persist(got[p])
    /\ GoReturn(p)
    /\ UNCHANGED <<submitted, completed, failed, rolledBack, pausedIdx, taskVars,
                   watchVars, payloadVars, execVars>>

\* handleTaskFailed: the task's policy decides; a task that is not retriable
\* or has no retry left is rolled back.
Handle(p) ==
    /\ pc[p] = "handle"
    /\ LET policy == IF task[p] = None THEN "retry" ELSE Policy[task[p]]
       IN  \/ policy = "fail_fast" /\ Goto(p, "mfLook")
           \/ policy = "skip" /\ Goto(p, "skipLook")
           \/ policy \in {"rollback", "retry"} /\ Goto(p, "sgLook")
    /\ UNCHANGED <<submitted, mapVars, entryVars, taskVars, watchVars, got, payloadVars, execVars>>

\* HandleRetry (mutant) that retries once too often.
HandleRetryOffByOne(r) ==
    LET p == Watcher(r)
    IN  /\ pc[p] = "handle"
        /\ Policy[task[p]] = "retry" /\ attempt[p] <= MaxRetries
        /\ pc' = [pc EXCEPT ![p] = "loop", ![Retrier(r, task[p])] = "backoff"]
        /\ attempt' = [attempt EXCEPT ![Retrier(r, task[p])] = attempt[p] + 1]
        /\ UNCHANGED <<submitted, mapVars, entryVars, taskVars, watchVars, got, task, execVars>>

\* ... or retried, by a goroutine under the run's context.
HandleRetry(r) ==
    LET p == Watcher(r)
    IN  /\ pc[p] = "handle"
        /\ Policy[task[p]] = "retry" /\ attempt[p] < MaxRetries
        /\ pc' = [pc EXCEPT ![p] = "loop", ![Retrier(r, task[p])] = "backoff"]
        /\ attempt' = [attempt EXCEPT ![Retrier(r, task[p])] = attempt[p] + 1]
        /\ UNCHANGED <<submitted, mapVars, entryVars, taskVars, watchVars, got, task, execVars>>

\* The skip policy: the task counts as completed, the workflow is persisted,
\* which removes its entry, and the listener is told so.
SkipTask(p) ==
    /\ pc[p] = "skipAct"
    /\ completed' = [completed EXCEPT ![got[p]] = @ \cup {task[p]}]
    /\ failed' = [failed EXCEPT ![got[p]] = @ \ {task[p]}]
    /\ Persist(got[p])
    /\ Unlock(p, "skipNotify")
    /\ UNCHANGED <<submitted, status, rolledBack, pausedIdx, taskVars, watchVars,
                   payloadVars, execVars>>

SkipNotify(p) ==
    /\ pc[p] = "skipNotify"
    /\ Notify(task[p], "gotOk")
    /\ Goto(p, Return(p))
    /\ UNCHANGED <<submitted, mapVars, entryVars, taskVars, watchVars, got, payloadVars,
                   path, idx, listener>>

FailureStep(p) ==
    \/ Look(p, "mfLook", "mfAct", Return(p)) \/ MarkFailed(p)
    \/ Look(p, "sgLook", "sgAct", Return(p)) \/ SagaStart(p) \/ SagaCollect(p)
    \/ Look(p, "rbLook", "rbAct", Return(p)) \/ MarkRolledBack(p)
    \/ Handle(p)
    \/ Look(p, "skipLook", "skipAct", "skipNotify") \/ SkipTask(p) \/ SkipNotify(p)

\* RetryTask: the push, then clearFailedTask, which the event of the pushed
\* task may overtake.  The run's context may end the backoff, and makes the
\* push fail.
RetryPush(r, t) ==
    LET p == Retrier(r, t)
    IN  /\ pc[p] = "backoff" /\ r \notin cancelled
        /\ out' = out \cup {<<t, attempt[p]>>}
        /\ Goto(p, "clrLook")
        /\ UNCHANGED <<submitted, mapVars, entryVars, rbOut, watchVars, got, payloadVars, execVars>>

RetryCancelled(r, t) ==
    LET p == Retrier(r, t)
    IN  /\ pc[p] = "backoff" /\ r \in cancelled
        /\ Goto(p, "idle")
        /\ UNCHANGED <<submitted, mapVars, entryVars, taskVars, watchVars, got, payloadVars, execVars>>

RetryError(r, t) ==
    LET p == Retrier(r, t)
    IN  /\ pc[p] = "backoff"
        /\ r \in cancelled \/ "etcd" \in Faults
        /\ task' = [task EXCEPT ![p] = t]
        /\ Goto(p, "mfLook")
        /\ UNCHANGED <<submitted, mapVars, entryVars, taskVars, watchVars, got, attempt, execVars>>

ClearFailedTask(r, t) ==
    LET p == Retrier(r, t)
    IN  /\ pc[p] = "clrAct"
        /\ failed' = [failed EXCEPT ![got[p]] = @ \ {t}]
        /\ Unlock(p, "idle")
        /\ UNCHANGED <<submitted, mapVars, status, completed, rolledBack, pausedIdx,
                       taskVars, watchVars, payloadVars, execVars>>

RetryStep(r, t) ==
    \/ RetryPush(r, t) \/ RetryCancelled(r, t) \/ RetryError(r, t)
    \/ Look(Retrier(r, t), "clrLook", "clrAct", "idle") \/ ClearFailedTask(r, t)
    \/ FailureStep(Retrier(r, t))

(***************************************************************************)
(* watchWorkflowStatus.                                                    *)
(***************************************************************************)

RegisterWatcher(r) ==
    /\ pc[Watcher(r)] = "register"
    /\ watching' = r
    /\ Goto(Watcher(r), "loop")
    /\ UNCHANGED <<submitted, mapVars, entryVars, taskVars, closedWatch, got, payloadVars, execVars>>

\* unregister closes the channel that is registered by now.
WatcherExit(r) ==
    /\ watching' = None
    /\ closedWatch' = closedWatch \cup ({watching} \ {None})
    /\ Goto(Watcher(r), "idle")
    /\ UNCHANGED <<submitted, mapVars, entryVars, got, execVars>>

\* The run's context is done, or the channel closed.
WatcherDone(r) ==
    /\ pc[Watcher(r)] = "loop"
    /\ r \in cancelled \cup closedWatch
    /\ WatcherExit(r)
    /\ UNCHANGED <<taskVars, payloadVars>>

\* A terminal event arrives.  Without an entry the watcher returns; an event
\* of a task that counts as failed is ignored.
TakeEvent(r, k, next) ==
    /\ pc[Watcher(r)] = "loop" /\ watching = r /\ k \in out
    /\ out' = out \ {k}
    /\ IF running = None THEN WatcherExit(r) /\ UNCHANGED payloadVars
       ELSE /\ Goto(Watcher(r), IF k[1] \in failed[running] THEN "loop" ELSE next)
            /\ task' = [task EXCEPT ![Watcher(r)] = k[1]]
            /\ attempt' = [attempt EXCEPT ![Watcher(r)] = k[2]]
            /\ UNCHANGED <<submitted, mapVars, entryVars, watchVars, got, execVars>>
    /\ UNCHANGED rbOut

\* TaskCompleted (mutant) that notifies without recording.
TaskCompletedUnrecorded(r, k) == TakeEvent(r, k, "notifyOk")

TaskCompleted(r, k) == TakeEvent(r, k, "recOkLook")

TaskFailed(r, k) == TakeEvent(r, k, "recErrLook")

\* A rollback task ended, well or not.
TakeRollback(r, t) ==
    /\ pc[Watcher(r)] = "loop" /\ watching = r /\ t \in rbOut
    /\ rbOut' = rbOut \ {t}
    /\ IF running = None THEN WatcherExit(r) /\ UNCHANGED task
       ELSE /\ Goto(Watcher(r), "hrLook")
            /\ task' = [task EXCEPT ![Watcher(r)] = t]
            /\ UNCHANGED <<submitted, mapVars, entryVars, watchVars, got, execVars>>
    /\ UNCHANGED <<out, attempt>>

RecordTaskCompleted(r) ==
    LET p == Watcher(r)
    IN  /\ pc[p] = "recOkAct"
        /\ completed' = [completed EXCEPT ![got[p]] = @ \cup {task[p]}]
        /\ Unlock(p, "notifyOk")
        /\ UNCHANGED <<submitted, mapVars, status, failed, rolledBack, pausedIdx,
                       taskVars, watchVars, payloadVars, execVars>>

RecordTaskFailed(r) ==
    LET p == Watcher(r)
    IN  /\ pc[p] = "recErrAct"
        /\ failed' = [failed EXCEPT ![got[p]] = @ \cup {task[p]}]
        /\ Unlock(p, "notifyErr")
        /\ UNCHANGED <<submitted, mapVars, status, completed, rolledBack, pausedIdx,
                       taskVars, watchVars, payloadVars, execVars>>

\* The listener hears of a failure before the failure is handled.
NotifyListener(r) ==
    LET p == Watcher(r)
    IN  /\ \/ pc[p] = "notifyOk" /\ Notify(task[p], "gotOk") /\ Goto(p, "loop")
           \/ pc[p] = "notifyErr" /\ Notify(task[p], "gotErr") /\ Goto(p, "handle")
        /\ UNCHANGED <<submitted, mapVars, entryVars, taskVars, watchVars, got, payloadVars,
                       path, idx, listener>>

\* handleRollbackCompleted, up to the second LockEntry.
RollbackCompleted(r) ==
    LET p == Watcher(r)
        w == got[p]
    IN  /\ pc[p] = "hrAct"
        /\ rolledBack' = [rolledBack EXCEPT ![w] = @ \cup {task[p]}]
        /\ Persist(w)
        /\ Unlock(p, IF \A i \in DOMAIN Main : Main[i] \cap completed[w] \subseteq rolledBack'[w]
                   THEN "rbLook" ELSE "loop")
        /\ UNCHANGED <<submitted, status, completed, failed, pausedIdx, taskVars,
                       watchVars, payloadVars, execVars>>

WatcherStep(r) ==
    LET p == Watcher(r)
    IN  \/ RegisterWatcher(r) \/ WatcherDone(r)
        \/ \E k \in out : TaskCompleted(r, k) \/ TaskFailed(r, k)
        \/ \E t \in rbOut : TakeRollback(r, t)
        \/ Look(p, "recOkLook", "recOkAct", "notifyOk") \/ RecordTaskCompleted(r)
        \/ Look(p, "recErrLook", "recErrAct", "notifyErr") \/ RecordTaskFailed(r)
        \/ NotifyListener(r) \/ HandleRetry(r)
        \/ Look(p, "hrLook", "hrAct", "loop") \/ RollbackCompleted(r)
        \/ FailureStep(p)

(***************************************************************************)
(* timeoutAfter and the API.  Cancelling and timing out persist the run    *)
(* with the status it has.                                                 *)
(***************************************************************************)

Active(r) == status[r] \in {"RUNNING", "PAUSED"}

TimerStops(r) ==
    /\ pc[Timer(r)] = "armed" /\ r \in cancelled
    /\ Goto(Timer(r), "idle")
    /\ UNCHANGED <<submitted, mapVars, entryVars, taskVars, watchVars, got, payloadVars, execVars>>

Timeout(r) ==
    LET p == Timer(r)
    IN  /\ pc[p] = "tmAct"
        /\ IF Active(got[p])
           THEN /\ Persist(got[p])
                /\ Unlock(p, IF TimeoutPolicy = "fail" THEN "mfLook" ELSE "sgLook")
           ELSE Unlock(p, "idle") /\ UNCHANGED mapVars
        /\ UNCHANGED <<submitted, entryVars, taskVars, watchVars, payloadVars, execVars>>

TimerStep(r) ==
    LET p == Timer(r)
    IN  \/ TimerStops(r)
        \/ Look(p, "armed", "tmAct", "idle") \/ Timeout(r)
        \/ FailureStep(p)

\* PausedTaskName: the first task of the main group with the paused index,
\* also when the paused group belongs to a branch.
PausedTasks(r) ==
    IF pausedIdx[r] \in DOMAIN Main /\ Main[pausedIdx[r]] # {} THEN Main[pausedIdx[r]] ELSE {None}

CancelWorkflow(p) ==
    /\ pc[p] = "cancelAct"
    /\ IF Active(got[p])
       THEN /\ Persist(got[p])
            /\ \E t \in IF status[got[p]] = "PAUSED" THEN PausedTasks(got[p]) ELSE {None} :
                 task' = [task EXCEPT ![p] = t]
            /\ Unlock(p, "sgLook")
       ELSE Unlock(p, "idle") /\ UNCHANGED <<mapVars, task>>
    /\ UNCHANGED <<submitted, entryVars, taskVars, watchVars, attempt, execVars>>

\* ApproveWorkflow on a run that is not paused.
ApproveRefused(p) ==
    /\ pc[p] = "approveAct" /\ status[got[p]] # "PAUSED"
    /\ Unlock(p, "idle")
    /\ UNCHANGED <<submitted, mapVars, entryVars, taskVars, watchVars, payloadVars, execVars>>

\* ApproveWorkflow (mutant) that takes the last but one group for the last.
ApproveWorkflowEarly(p, e) ==
    /\ pc[p] = "approveAct" /\ status[got[p]] = "PAUSED"
    /\ pc[Executor(e)] = "idle"
    /\ SetStatus(got[p], "RUNNING")
    /\ LET i == pausedIdx[got[p]]
       IN  IF i + 1 < Len(Main)
           THEN /\ pc' = [pc EXCEPT ![p] = "idle", ![Executor(e)] = "start"]
                /\ path' = [path EXCEPT ![e] = "main"]
                /\ idx' = [idx EXCEPT ![e] = i + 1]
           ELSE Goto(p, "apLook") /\ UNCHANGED <<path, idx>>
    /\ got' = [got EXCEPT ![p] = None]
    /\ UNCHANGED <<submitted, mapVars, completed, failed, rolledBack, pausedIdx,
                   taskVars, watchVars, payloadVars, res, listener>>

\* Otherwise a new goroutine executes the main group after the paused index,
\* if there is one; after the last one the workflow is complete.
ApproveWorkflow(p, e) ==
    /\ pc[p] = "approveAct" /\ status[got[p]] = "PAUSED"
    /\ pc[Executor(e)] = "idle"
    /\ SetStatus(got[p], "RUNNING")
    /\ LET i == pausedIdx[got[p]]
       IN  IF i < Len(Main)
           THEN /\ pc' = [pc EXCEPT ![p] = "idle", ![Executor(e)] = "start"]
                /\ path' = [path EXCEPT ![e] = "main"]
                /\ idx' = [idx EXCEPT ![e] = i + 1]
           ELSE Goto(p, IF i = Len(Main) THEN "apLook" ELSE "idle") /\ UNCHANGED <<path, idx>>
    /\ got' = [got EXCEPT ![p] = None]
    /\ UNCHANGED <<submitted, mapVars, completed, failed, rolledBack, pausedIdx,
                   taskVars, watchVars, payloadVars, res, listener>>

\* The approved group was the last one.
ApproveLast(p) ==
    /\ pc[p] = "apAct"
    /\ SetStatus(got[p], "COMPLETED") /\ Persist(got[p])
    /\ Unlock(p, "idle")
    /\ UNCHANGED <<submitted, completed, failed, rolledBack, pausedIdx, taskVars,
                   watchVars, payloadVars, execVars>>

\* RejectWorkflow: the failure is handled after the entry is unlocked.
RejectWorkflow(p) ==
    /\ pc[p] = "rejectAct"
    /\ IF status[got[p]] = "PAUSED"
       THEN /\ \E t \in PausedTasks(got[p]) : task' = [task EXCEPT ![p] = t]
            /\ Unlock(p, "handle")
       ELSE Unlock(p, "idle") /\ UNCHANGED task
    /\ UNCHANGED <<submitted, mapVars, entryVars, taskVars, watchVars, attempt, execVars>>

Request(p) ==
    \/ Look(p, "idle", "cancelAct", "idle")
    \/ Look(p, "idle", "approveAct", "idle")
    \/ Look(p, "idle", "rejectAct", "idle")

OperatorStep(o) ==
    LET p == Operator(o)
    IN  \/ CancelWorkflow(p) \/ RejectWorkflow(p)
        \/ ApproveRefused(p) \/ \E e \in Executors : ApproveWorkflow(p, e)
        \/ Look(p, "apLook", "apAct", "idle") \/ ApproveLast(p)
        \/ FailureStep(p)

(***************************************************************************)
(* The rollback goroutines and the environment.                            *)
(***************************************************************************)

\* PushRollbackTask; a failed write is only logged.
PushRollbackTask(t) ==
    /\ pc[Rollbacker(t)] = "rbPush"
    /\ rbOut' \in {rbOut \cup {t}} \cup (IF "etcd" \in Faults THEN {rbOut} ELSE {})
    /\ Goto(Rollbacker(t), "rbWait")
    /\ UNCHANGED <<submitted, mapVars, entryVars, out, watchVars, got, payloadVars, execVars>>

\* The poll of RolledBack, through RLockEntry.  It ends for good when the
\* UUID has no entry (rbDeaf): only the timeout is left then.
RollbackSeen(t) ==
    LET p == Rollbacker(t)
    IN  /\ pc[p] = "rbPoll"
        /\ Unlock(p, IF t \in rolledBack[got[p]] THEN "idle" ELSE "rbWait")
        /\ UNCHANGED <<submitted, mapVars, entryVars, taskVars, watchVars, payloadVars, execVars>>

\* rollbackOverallTimeout: the task counts as rolled back.
RollbackTimeout(t) ==
    LET p == Rollbacker(t)
    IN  /\ pc[p] = "rtAct"
        /\ rolledBack' = [rolledBack EXCEPT ![got[p]] = @ \cup {t}]
        /\ Persist(got[p])
        /\ Unlock(p, "idle")
        /\ UNCHANGED <<submitted, status, completed, failed, pausedIdx, taskVars,
                       watchVars, payloadVars, execVars>>

RollbackStep(t) ==
    \/ PushRollbackTask(t)
    \/ Look(Rollbacker(t), "rbWait", "rbPoll", "rbDeaf") \/ RollbackSeen(t)
    \/ \E l \in {"rbWait", "rbPoll", "rbDeaf"} : Look(Rollbacker(t), l, "rtAct", "idle")
    \/ RollbackTimeout(t)

\* evictTimedOutLocked gives up a queued task: markWorkflowFailed.
Evict(k) ==
    /\ "evicted" \in Faults /\ pc[Evictor] = "idle" /\ k \in out
    /\ out' = out \ {k}
    /\ task' = [task EXCEPT ![Evictor] = k[1]]
    /\ Goto(Evictor, "mfLook")
    /\ UNCHANGED <<submitted, mapVars, entryVars, rbOut, watchVars, got, attempt, execVars>>

\* A task or its event is lost: the worker died, or the event was dropped.
Lost(k) ==
    /\ "lost" \in Faults /\ k \in out
    /\ out' = out \ {k}
    /\ UNCHANGED <<submitted, mapVars, entryVars, rbOut, watchVars, pc, got, payloadVars,
                   execVars>>

Next ==
    \/ \E e \in Executors : RetryWorkflow(e) \/ Submit(e) \/ ExecutorStep(e)
    \/ \E r \in Runs : InitStep(r) \/ WatcherStep(r) \/ TimerStep(r)
    \/ \E r \in Runs, t \in Tasks : RetryStep(r, t)
    \/ \E o \in Operators : Request(Operator(o)) \/ OperatorStep(o)
    \/ \E t \in Tasks : RollbackStep(t)
    \/ FailureStep(Evictor)
    \/ \E k \in out : Evict(k) \/ Lost(k)

(***************************************************************************)
(* The master's goroutines keep running; nothing forces an operator to     *)
(* call, a worker to answer or a task to be evicted.                       *)
(***************************************************************************)
Fairness ==
    /\ \A e \in Executors : WF_vars(ExecutorStep(e))
    /\ \A r \in Runs : WF_vars(InitStep(r)) /\ WF_vars(WatcherStep(r)) /\ WF_vars(TimerStep(r))
    /\ \A r \in Runs, t \in Tasks : WF_vars(RetryStep(r, t))
    /\ \A o \in Operators : WF_vars(OperatorStep(o))
    /\ \A t \in Tasks : WF_vars(RollbackStep(t))
    /\ WF_vars(FailureStep(Evictor))

Spec == Init /\ [][Next]_vars /\ Fairness

(***************************************************************************)
(* Properties.                                                             *)
(***************************************************************************)

\* Whatever goroutine persisted, failed, paused or replaced which entry in
\* whichever order, the entry the UUID maps to is one that still runs: not
\* in the history, not cancelled, neither completed, failed nor rolled back
\* (LockEntry's window, PersistWorkflowLocked, SubmitWorkflow).
EntryIsLive ==
    running # None =>
        /\ running \notin history \cup cancelled
        /\ status[running] \in {"RUNNING", "PAUSED"}

\* The groups that may be a workflow's last one.
LastGroups ==
    UNION {{Groups(p)[i] : i \in {i \in DOMAIN Groups(p) :
              \/ i = Len(Groups(p))
              \/ "skip" \in Control(p)[i] /\ i + 2 > Len(Groups(p))}} : p \in Paths}

\* A run counts as completed only when the tasks of a last group are
\* recorded as completed in it, also when failures, timeouts, approvals and
\* the executor race for its entry (finishWorkflow, ApproveWorkflow).
CompletedMeansAll ==
    \A r \in Runs : status[r] = "COMPLETED" => \E g \in LastGroups : g \subseteq completed[r]

\* An executor goes from one group to the next only when every task of the
\* first is recorded as completed in the running workflow (ExecuteWithOptions,
\* recordTaskCompleted before notifyTaskListener).
GroupBarrier ==
    [][\A e \in Executors :
          /\ pc[Executor(e)] = "group" /\ pc'[Executor(e)] = "group"
          /\ <<path[e], idx[e]>> # <<path'[e], idx'[e]>>
          => Current(e) \subseteq completed[running]]_vars

\* Every group that may ask for an approval has an index that ApproveWorkflow
\* finds among the main groups: it resumes there, also when the group was one of
\* a branch (PauseForApproval keeps the index without the path).
ApprovalsInReach ==
    \A i \in DOMAIN Branch : "approval" \in BranchControl[i] => i <= Len(Main)

\* A running workflow comes to an end or waits for an approval, whatever is
\* lost on the way: no event, retry, approval or failure leaves it running
\* with nobody to move it on (executeSingleTask's watchdog).  A branch longer
\* than the main groups is excepted: approved beyond their number, the workflow
\* is RUNNING and neither branch of ApproveWorkflow moves it on.
RunEnds ==
    ApprovalsInReach =>
        \A r \in Runs : running = r ~> (running # r \/ status[r] = "PAUSED")

(***************************************************************************)
(* What the documentation says, and the code does not do.                  *)
(***************************************************************************)

\* docs/core-concepts.md: ROLLING_BACK leads to ROLLED_BACK
\* (startSagaRollback, handleRollbackCompleted).
SagaRollsBack ==
    \A r \in Runs : status[r] = "ROLLING_BACK" ~> status[r] = "ROLLED_BACK"

=============================================================================
