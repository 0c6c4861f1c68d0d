# TLA+ verification of vibeflow

vibeflow is a distributed workflow engine in Go: a master schedules workflows
(groups of tasks), workers run the tasks, etcd carries the tasks and their
statuses between them, MySQL keeps history and snapshots. This directory models
the parts of it that are hard to test, checks them with TLC on small instances,
and proves the most important facts with TLAPS for every instance. Paths below
are relative to `src/`.

## 1. The system

| Part | State it keeps | Operations | Talks to |
|---|---|---|---|
| Workflow manager (`infra/engine/scheduler/workflow_manager.go`) | `runningEntries` (UUID → entry with its own lock and context), `workflowHistory`, counters | Submit, Run, Retry, Cancel, Approve, Reject, PersistWorkflowLocked, asyncInitMySQL | everybody looks entries up by UUID |
| Execution manager (`execution_manager.go`) | none of its own; one goroutine per execution, one per task of a group | Execute, executeGroups, advanceWorkflow, pauseForApproval, finishWorkflow, executeSingleTask | dispatcher (push), listeners (wait), manager (end) |
| Watch, failure handling, saga (`watch.go`, `error_policy.go`) | channel per UUID, backlog | watchWorkflowStatus, record…, handleTaskFailed, markWorkflowFailed, timeoutAfter, startSagaRollback, handleRollbackCompleted | manager, listeners, dispatcher |
| Task listeners (`scheduler.go`) | channel per (UUID, task) | register, notify, unregister, cleanup | watcher → executor |
| Task dispatcher (`task_dispatcher.go`, `types.go`) | `globalActive`, counter per workflow, priority queue under `pqMu` | PushTask, ReleaseSlotForWorkflow, tryDispatchPending, evictTimedOutLocked, batchPush, RetryTask | etcd; called by executors, watchers, retriers |
| Task claim (`infra/engine/runtime/executor.go`, `cas_lock.go`, `reporter.go`) | the task's etcd key, the worker's goroutine | tryAcquire, run, updateStatus, Report; executeWithMutex | etcd; every worker watches the key |
| Worker loop and queue (`worker.go`, `priority_queue.go`) | bounded priority queue, semaphore | Start, Enqueue, Dequeue, Close | claim |
| Circuit breaker (`infra/circuit/circuit.go`) | state, failure count, time of last change | Allow, Success, Failure | status reporter, heartbeat, MySQL writers |
| Repository and recovery (`repository.go`) | persist pool, snapshot deltas | persist, snapshot, recoverRunningWorkflows | MySQL, manager |
| Worker manager (`worker_manager.go`), heartbeat (`runtime/heartbeat.go`) | worker table, alive count | heartbeat events, stale scan | etcd |
| Advanced executor (`advanced_executor.go`) | none | sub-workflow, fan-out, loop | execution manager |
| Event triggers, cron, WebSocket bus, HTTP, stores, plugins, configuration | registration tables, I/O | — | submit workflows, show state |

What is hard in this code:

* goroutines find a workflow by UUID again and again, and act on what they
  found after the map's lock is released (`LockEntry`'s window); a UUID can be
  submitted again while goroutines of its previous run are still at work;
* several goroutines may end the same run: the executor, the watcher, the
  timeout, an operator, an eviction, a failed MySQL write;
* counters are looked at and changed in separate atomic steps;
* every status write to a task's key is delivered to every worker again;
* etcd writes may fail, or be applied although the client sees an error;
  workers crash, locks' sessions expire, events are dropped;
* reports to a circuit breaker arrive late, or not at all;
* the master restarts between any two writes to MySQL, and rebuilds its runs
  and its worker table from what it finds there and in etcd;
* a listener's channel is found, taken out and closed under different locks,
  while the watcher sends on it.

`PROJECT.json` lists these hazards at their lines (`hazards`), with the
properties that would catch each going wrong.

## 2. Modules

| Module | Models | Theorems in | Instances in |
|---|---|---|---|
| `Breaker` | circuit breaker and its callers' protocols | `BreakerProofs` | `MCBreaker` |
| `TaskClaim` | one task's etcd key, the workers' goroutines, both lock modes | `TaskClaimProofs` | `MCTaskClaim` |
| `TaskDispatcher` | counters, queue, batch push, release, retry | `TaskDispatcherProofs` | `MCTaskDispatcher` |
| `TaskOnce` | abstract: a task that is started once at most; `TaskClaim` implements it in CAS mode | `TaskClaimProofs` | — |
| `WorkflowLifecycle` | one UUID: manager, executors, watcher, policies, timeout, saga, API | `WorkflowLifecycleProofs` | `MCWorkflowLifecycle` |
| `GroupExecutor` | one task group: listeners lock by lock, parallel calls, fan-out, loop, sub-workflow | `GroupExecutorProofs` | `MCGroupExecutor` |
| `Recovery` | MySQL rows and snapshots, history cache, restart and recovery | `RecoveryProofs`, `RecoveryHistoryProofs` | `MCRecovery` |
| `WorkerManager` | heartbeat senders, leased keys, watch stream, worker table | `WorkerManagerProofs` | — |

Operators named like a mapped definition with a suffix (`FailureOffByOne`,
`ApproveWorkflowEarly`, …) are mutants: plausible slips in that code, used to
check that each property can fail. `PROJECT.json` pairs them (`mutants`), and
says for every definition which lines it stands for (`map`).

`TaskClaim`, `TaskDispatcher`, `GroupExecutor` and `Recovery` choose an `env`
in `Init` and never change it: the lock mode, the faults, the group's nodes and
so on. One run covers every deployment in `Environments`, and the theorems hold
for all of them.

`WorkflowLifecycle` takes a run's whole life and simplifies what happens below
a task group and behind MySQL. `GroupExecutor` and `Recovery` look at exactly
those two, and simplify the rest of the run in return.

### Breaker

`Allow`, `Success` and `Failure` hold the breaker's mutex and are one step
each; the store operation between `Allow` and the report is where callers
interleave. Callers differ in how many reports they make (`Recorders`,
`Persisters`, `Reporters`). The failure count grows as in the code, up to a
bound on reported failures (`FailureBound`) that TLC needs and the theorems do
not. `probes` remembers the calls that were let through since the breaker was
last opened; `ProbeUnderWay` is about them.

### TaskClaim

One task key, with its revision; workers' inboxes of watch events; slots
(execution goroutines) that go through `tryAcquire`, the business code,
`updateStatus` and the fallback report (CAS mode), or lock, report, run,
report, unlock (mutex mode). Each step is one round trip to etcd. `Faults`
allows writes that fail, writes that are applied but reported as failed, expired
sessions and leases, and a master that leaves a terminal event unhandled
(`IgnoreEvent`), because the run's entry is gone, because the task is marked as
failed already, or because it is a rollback task; `Crashing` workers lose their
goroutines and restart. All
workers use the same mode. In CAS mode `updateStatus`'s branch for a conflict
(`cas_lock.go:132-166`) then has no action: `OwnerUndisturbed` shows that it is
never entered. It could be if CAS and mutex workers served the same task type,
which is not modelled. `TaskOnce` is what the rest of the system may rely on;
the refinement mapping shows a task of CAS mode and hides one of mutex mode.

### TaskDispatcher

Each atomic operation on a counter, each critical section of `pqMu` (or each
pass of its loops) and each store call is one step, for the goroutines of
`PushTask`, `RetryTask`, `ReleaseSlotForWorkflow` and `tryDispatchPending`.
Deleting a workflow's counter is a step apart from seeing it at zero, as in the
code. The queue is a set with, per task, the tasks enqueued before it
(`ahead`); `Less` gives the heap's order. A task that `batchPush` skips keeps its
slots for good (`leaked`): `SlotAccounting` counts them as held, `NoPhantomSlot`
does not, and is therefore about workflows that run.

### WorkflowLifecycle

A run is one `SubmitWorkflow`, with an entry of its own; `running` is what the
UUID maps to. A change made through `LockEntry` is two steps: `Look` fetches
the entry into `got`, then the critical section acts on it, whatever became of
it since. `Persist` is `PersistWorkflowLocked`: the run enters the history and
the UUID's entry is removed, even if it is a newer one.

Goroutines are tuples: watcher, timer, MySQL initialiser and retriers per run,
executors, operators, one rollback goroutine per task, and the dispatcher's
eviction. `FailureStep` is the failure handling that five kinds of goroutines
share. Task outputs are abstracted to what they ask for (`Control`: next group,
branch, skipped group, approval), tasks at workers to a set of keys with their
retry count (`out`), whose result is chosen when the event is taken. Error
policies, the plan and the timeout policy are constants.

Simplifications: a skip skips one group; the channel between the global
watcher and a workflow's watcher has no length, and an event on the way is
still in `out`; a notified listener's channel is filled or closed in one step;
`recovered` entries, delays between groups and the rollback semaphore are left
out; a task group is a set, so "the first task of the paused group" is any of
its tasks; the dispatcher is reduced to "pushed or queued".

### GroupExecutor

One call is one `executeSingleTask`: push, `getOrCreateListeners`, register,
the select, and the four steps of `unregisterTaskListener` (find the set, take
the channel, remove an empty set, close). `notifyTaskListener` is three steps of
the watcher, `cleanupTaskListeners` two of its caller. A listener set is a
number, so that a set taken out of the registry and its successor differ; a
channel is named by its call and the loop's iteration. Every push has an etcd key
of its own (`taskKey`), so payloads are known by the channel of their call. Items
of a fan-out are calls that share a name, and with it the listener. A failed task
ends the run, is skipped, or is retried by a goroutine of its own (`RetryStep`):
push after the backoff, then `clearFailedTask`, until which the watcher ignores
the task's events (`IgnoreEvent`).

Simplifications: one terminal event per payload (CAS mode); whether a condition
key ends a loop early is left open; the executors' context is the root context,
which only `Shutdown` cancels; a sub-workflow UUID that happens to run on its
own is a history record that turns up. A panic stops the master, and the model.

### Recovery

Rows, snapshots and definitions in MySQL, and the master's entries, history and
jobs, over restarts that keep the former and lose the latter. `asyncInitMySQL`
is one step per database call and per look-up of the entry. A submission
overwrites the entry of its UUID. An executor (`execs`) knows only the UUID: it
outlives the entry of its run, and works in, fails or completes whatever run the
UUID has when it looks. `PersistWorkflowLocked` is one step for its first section
and the job for the pool, and one per eviction of its second section (`Evict`);
it leaves the status alone when the run is cancelled, timed out or ended by a
skipped task. `held` is an entry that was persisted while another goroutine
waited for its lock, which then persists it again (`LockEntry`'s window). `done`
remembers per UUID what was completed or skipped in any run, and is what the
properties compare with; `twice` remembers the ids that were put into the history
while they were listed there.

Simplifications: groups have one task each; a database call succeeds or is lost;
one goroutine waits for one entry at a time, and only in the environments with
`window`; statuses are RUNNING, COMPLETED and FAILED (PAUSED counts as RUNNING,
ROLLING_BACK as FAILED); the cap on the list per UUID (`maxHistoryByUUID`, 10
records) is not reached by the bounds and not modelled; `loadHistory` is over
before a recovered run ends; a snapshot is taken in one step.

### WorkerManager

Workers start, report, stop and crash; a key has a lease; an open watch gets
every change in order unless its buffer drops one. The master's goroutine scans
once and then handles one event or stale check at a time. Time is two values
per entry (`fresh`, `old`). A heartbeat is `full` when it carries the type
definitions.

## 3. Runs

| Run | Expect | Checks | Shows |
|---|---|---|---|
| `breaker` | pass | `ProbeUnderWay`, `ClosedBelowThreshold`, `ProbeResolves`, `OpenIsLeft` | counter and state never disagree under late reports; a half-open breaker has one probe, which is at work or may return unreported; an open breaker is left while the heartbeat runs; a half-open one is left as soon as a task or workflow write under way ends |
| `claim` | pass | `TypeOK`, `CASRunOnce`, `OwnerUndisturbed`, `ReportedOnce`, `HoldersExclusive`, `ImplementsTaskOnce`, `PushedIsReported`, `KeyIsRemoved` | CAS mode under faults and crashes implements `TaskOnce` and leaves a running task's key alone; mutex holders exclude each other; without faults a pushed task gets its terminal status, once, and its key goes if the master records the event |
| `claim_mutex_rerun` | violation | `RunOnce` | mutex mode runs a task again on each of its own status writes |
| `dispatch` | pass | `TypeOK`, `SlotAccounting`, `GlobalBound`, `NoPhantomSlot`, `FifoWithinWorkflow`, `DispatchEnds` | exact global counter, limit exceeded by one at most, no counted slot of a running workflow that nobody will release, no overtaking within a workflow, `pqMu` is given back |
| `dispatch_lost_wakeup` | violation | `QueuedLeaves` | a task enqueued after the last release waits for ever |
| `lifecycle` | pass | `CompletedMeansAll`, `GroupBarrier`, `RunEnds` | completion and group order are never ahead of the recorded tasks; a run ends or pauses although events are lost, as long as an approval's index is one of the main groups (`ApprovalsInReach`) |
| `lifecycle_faults` | pass | `TypeOK`, `CompletedMeansAll` | the same under failing stores, evictions and a workflow timeout |
| `lifecycle_resubmit` | pass | `EntryIsLive` | two runs of a UUID: the entry in the map is never an ended one |
| `lifecycle_saga` | violation | `SagaRollsBack` | a saga never reaches `ROLLED_BACK` |
| `groups` | pass | `TypeOK`, `NoListenerLeft`, `ClosedOnce`, `PanicNeedsLateness`, `ResultsOwned`, `GroupIsLeft` | no channel is closed twice and no listener set left behind; a send on a closed channel needs a late event, a skipped failure, a retry whose call was told of the failure, or overlapping items; a group that goes on got its own results; a group ends |
| `recovery` | pass | `TypeOK`, `NeverSkips`, `CompletedInFact`, `MarkedIsSaved`, `HistoryConsistent`, `EndReachesMySQL` | over restarts, lost writes and overlapping runs no executor is ahead of its UUID's work, and COMPLETED is only what was done; the history's structures agree except on ids that were listed twice; a linked run's end reaches its row, with the status it has then |
| `workers` | pass | `TypeOK`, `CountsAgree`, `DepartureNoticed`, `RunningListed` | the counters never promise a worker that is not listed; a worker that has gone is not Alive for ever, one that runs is listed again and again |

The systems may stop (every task done, every run ended), so deadlock is not
checked except where the callers never stop.

### Bounds, and why they are enough

* `breaker`: threshold 3, six failures in a row, five callers of three kinds.
  Three in-flight calls of different kinds are enough for a late success and a
  late failure around one probe.
* `claim`: two workers, one with two goroutines, so that a task is contended
  both within and between workers; two attempts per retry loop; watch inboxes
  of two events, which overflow. CAS mode with every fault and a crashing worker,
  with only a lease that runs out, and with only a master that ignores the result;
  mutex mode with failing writes and a crashing worker, and without either.
* `dispatch`: limits of one. Three tasks of two workflows with failing writes, a
  retry and a workflow that ends; and four tasks without faults, because
  overtaking takes two queued tasks of a workflow, a third that releases its
  slot, and one of another workflow whose release started the dispatch.
* `lifecycle`, `lifecycle_faults`: one run of two main groups (two parallel
  tasks, then one) and a one-group branch, each of which may ask for an approval;
  one task per error policy; one retry, or none under faults; one operator.
* `lifecycle_resubmit`: two runs of two single-task groups, two interchangeable
  executors (symmetry). Rollback goroutines exist only here: the first run's
  saga must find the second run's entry.
* `groups`: two parallel tasks, cleaned up and shut down or failing and
  cancelled; a skipped failure; failures that are retried, once for two tasks and
  twice in a loop of two iterations; a fan-out of two items with a limit of one next
  to a sub-workflow, and one without a limit; a loop of three iterations; nodes
  that fail at once. Two calls are enough for one to register in a set that the
  other is removing.
* `recovery`: a run of two groups with failing tasks and a fault, without failing
  tasks and two faults, and with a fault and a goroutine that waits for the entry
  when it ends; a UUID submitted twice, of one group with a fault and of two
  groups without; two UUIDs that share the history. The history holds one record,
  so that the second evicts it. A fault is a lost call or a restart, so a restart
  during a recovery is covered.
* `workers`: two workers, four faults (starts, failed reports, dropped events,
  delays, disconnections, restarts), a watch channel of two events.

### Fairness

* Goroutines of master and worker keep running: weak fairness of each.
  `pqMu` and the counters' goroutines get strong fairness in `TaskDispatcher`,
  because Go's mutex hands over to waiters and does not starve them.
  `DispatchEnds` needs less (`ScanSpec`): only the holder of `pqMu` is assumed to
  be scheduled.
* Time passes: cooldowns end, leases expire, queued tasks grow old, watchdogs
  fire. Store calls carry timeouts, so calls end.
* `GroupExecutor`: the master's goroutines go on; nothing is asked of the
  workers (`GroupIsLeft` rests on the watchdog). `Recovery`: some executor of each
  UUID and the persist pool go on, and what an executor waits for ends with an
  event or its watchdog. `WorkflowLifecycle`: so do the steps of
  `cleanupWorkflowState`. `WorkerManager`: the master's
  goroutine goes on, an entry without heartbeats grows old, and a running worker
  reports whenever the watch channel has room (strong fairness: the bound on the
  channel, not the code, makes it wait). Leases need not run out.
* Never assumed: that an operator calls, that a workflow is submitted, that a
  fault or crash happens. `TaskDispatcher` assumes that workers report the
  tasks they get; `WorkflowLifecycle` does not (`RunEnds` rests on the
  watchdog).

## 4. Theorems

Proved by TLAPS for every value of the constants that satisfies the named
assumptions.

* `BreakerClosedBelowThreshold`: with the types it is inductive; who is in flight
  plays no part.
* `BreakerProbeUnderWay`: a call is let through outside the closed state only when
  the breaker becomes half-open, and every report that changes the state starts
  the count of probes again; a probe that reports changes the state.
* `ClaimTyped`, `ClaimRunOnce` (CAS mode): a goroutine that read PENDING holds
  revision 1; the first write over PENDING moves the revision past 1 for good,
  so one `tryAcquire` at most wins, and nobody owns the task before revision 2
  (`CASInv`). The strengthening is needed because `RunOnce` says nothing about
  goroutines that read but have not written yet.
* `ClaimOwnerUndisturbed` builds on `CASInv`: as long as the owner has not
  reported, no terminal event is on its way to the master (`NoEarlyCleanup`), so
  nobody deletes or rewrites the key.
* `ClaimImplementsTaskOnce`: from `CASInv` and the fact before, every step of
  CAS mode is a step of `TaskOnce` or leaves its variables alone (`CASEffect`).
* `ClaimReportedOnce`: without etcd errors a terminal status is written by the
  owner only, and once (`OneReport`).
* `ClaimHoldersExclusive`: whoever is between `Lock` and `Unlock` is what the
  lock says (`HolderHasLock`); in CAS mode it follows from `ClaimRunOnce`.
* `DispatcherTyped`, `DispatcherSlotAccounting`, `DispatcherGlobalBound`: the
  invariant adds that `pqMu` has one holder, that batches are disjoint and hold
  exactly the picked tasks, and that a dispatch between looking and taking has
  room for one; counting arguments use cardinality lemmas (`MoveOne`).
* `DispatcherNoPhantomSlot`: the counter of a workflow that runs goes up only with
  somebody who is to take it down again, and a deleted counter only loses
  increments, so the counter is at most the number of releasers at every step. A
  task that releases its own slot has given up for good (`RetryOver`), so it does
  so once. The slots that `batchPush` leaks are those of workflows that ended.
* `DispatcherFifo`: `ahead` orders the queued tasks by arrival (`ArrivalInv`), and
  the tasks of a running workflow all have its priority (`PrioInv`), so that the
  heap's order within a workflow is that of arrival. A workflow a dispatch passed
  over stays blocked for it: a slot released in the middle of the pass helps no
  younger task.
* `EntryAlwaysLive`: `EntryIsLive` for any number of submissions, executors,
  operators and tasks, every plan, policy and fault. Goroutines act on stale
  entries, but whoever ends a run removes the UUID's entry in the same critical
  section, and an entry that comes into the map is new. `LiveInv` adds that
  everything fetched, archived or cancelled is among the runs submitted so far.
* `LifecycleTyped`: whoever is in a critical section holds an entry, and whoever
  records or announces a task has one (`GotHeld`, `TaskHeld`); the rest is
  assignments.
* `CompletedHasAll`, `GroupsInOrder`: as long as the UUID was submitted once there
  is one record, and it only grows. Whatever an executor was told is in it, or
  the entry is gone (`Told`, `Answered`): a watcher that finds no entry announces
  without recording, but then the executor finds none either. So the group an
  executor leaves, the group a run is paused at and the group it ends with are
  recorded (`AtPause`, `AtEnd`, `PausedDone`). Two hypotheses are real limits of
  the code. With a second submission an executor of the first may complete the
  second's run. And a plan must be plain (`PlainPlan`): approvals in main groups
  only, because the paused index is kept without its path, and a branch wherever
  one is asked for. The plan of `lifecycle` and `lifecycle_faults` is not: its
  branch may ask for an approval, so there the runs go beyond the theorem.
* `GroupTyped`, `GroupClosedOnce`: a registered channel is open and registered
  once, the channels calls have taken out are distinct and in no set, and the
  channel of a call before `register` was never used (`ChannelInv`). Without the
  last part an iteration of a loop could register a closed channel again.
* `GroupNoListenerLeft`: the owner of a channel in the registry's set is still
  to take its name out of this very set (`OwnersThere`), and there is always a
  call that is to look at the set (`SomebodyPurges`). The first is what carries
  the second over a purge that finds somebody else's channel.
* `GroupResultsOwned`: a payload carries the channel of its call through key,
  worker, event, watcher and retry. As long as nothing was late or skipped and no
  call was told of a failure that is retried (`Calm`), a payload is in one place at
  a time and its call is under way (`CalmInv`). Unless calls of one name overlap, the calls under way
  have different names (`Exclusive`), so what is at a name belongs to its call, and
  a result that came through its channel is the call's own. A group that goes on
  had no late call and no failed one: both are errors (`LateErred`).
* `GroupPanicNeedsLateness`: from the same invariant (`AnswerInv`). The event the
  watcher sends belongs to a call under way, and the channel of such a call is
  open (`Open`). A retried task breaks this once its call was told of the failure,
  which is the last of the property's exceptions.
* `WorkerTyped`, `WorkerCountsAgree`: each event, stale check and restart changes
  table and counters by the same worker, except that a revived worker is missing
  from the counters. The counters start at zero with an empty table, which stays
  empty until the start-up scan is over (`ScanFirst`); without that fact a scan
  could count a worker twice.
* `RecoveryTyped`, `RecoveryNeverSkips`, `RecoveryCompletedInFact`: a state travels
  from the entry to copies, rows, jobs and waiting goroutines (`held`), and from a
  row to the entry of the next master. The invariant says of each of them that it
  is sound: what it calls completed was done for its UUID, all of it if it is
  COMPLETED, and the row it names is one of its UUID (`Sounds`). Then an executor
  that starts at the first group with a task left (`LeastNatural`) skips none, an
  executor that went past the last group may complete whatever run the UUID has,
  and a row is COMPLETED only in fact.
* `RecoveryHistoryConsistent`: the order and the lists agree with the records on
  every id that was not added while it was listed (`RecordsInv`). That there is no
  such id but 0 without a fault or `LockEntry`'s window needs more: the unique
  index on the UUID lets one `asyncInitMySQL` per UUID past the definition, so a
  row has one entry (`FirstDefines` in `LinksInv`), and an entry that is live is
  not recorded yet (`FreshInv`).
* `RecoveryMarkedIsSaved`: an entry learns its ExecutionID once, when it has marked
  nothing (`LinksInv`), so the snapshots of its marks name the id it has
  (`MarksInv`).

Assumptions: positive limits and thresholds, finite sets of tasks and
workflows where they are counted, distinct names for goroutines and null
values. TLC evaluates them in every run.

Only model-checked: the liveness properties (`ProbeResolves`, `OpenIsLeft`,
`PushedIsReported`, `KeyIsRemoved`, `DispatchEnds`, `RunEnds`, `GroupIsLeft`,
`EndReachesMySQL`, `DepartureNoticed`, `RunningListed`), because fairness and
ENABLED are beyond the prover. Every invariant and every other action property
of a passing run is proved. What recursive definitions compute for every input
could not be proved either; no module has one.

## 5. What the code does against its documentation

Shown by runs (`findings` in `PROJECT.json`):

* `executor.go:186`: in mutex mode every status write is delivered as a new
  task and runs it again (`claim_mutex_rerun`).
* `task_dispatcher.go:161`: a task enqueued on a stale counter after the last
  release is neither pushed nor evicted (`dispatch_lost_wakeup`).
* `watch.go:817`: the saga persists the run, which removes its entry, before it
  collects what to roll back; nothing is rolled back and the run stays
  `ROLLING_BACK` (`lifecycle_saga`).

Met while modelling, and not the subject of a run:

* `circuit.go:101`: a late success closes an open breaker without cooldown or
  probe; `repository.go:247` and the reporters may return between `Allow` and
  their report, which leaves a half-open breaker refusing calls for good.
  (`docs/high-availability.md:10-25`)
* `executor.go:175`: after `updateStatus` gives up, the fallback writes the
  status unconditionally (`cas_lock.go:104`, `docs/high-availability.md:71`).
* `store/etcd/store.go:90`: status writes detach the key from its lease, so the
  24 h clean-up of `docs/high-availability.md:77` does not reach it. The master's
  delete does, unless it ignores the event (`watch.go:428-444`, `514-517`); keys of
  rollback tasks are never deleted (`watch.go:1024`). `KeyIsRemoved` excepts these.
* `task_dispatcher.go:105,359,530`: the per-workflow limit can be exceeded when
  a counter is deleted under an increment, the global one by one task; a task
  skipped by `batchPush`, because its workflow has ended, keeps its slots;
  `watch.go:483` releases slots under a
  context that may be cancelled, and the batch of other workflows' tasks is
  then dropped.
* `watch.go:606`: the skip policy persists, and so ends, the running workflow
  (`docs/core-concepts.md:201-202` says it goes on).
* `workflow_manager.go:393`, `watch.go:606,735`: cancelled and timed-out runs, and
  those the skip policy ends, are persisted with status RUNNING, and a restart
  recovers them.
* `workflow_manager.go:456`: an approval inside a branch goes on in the main
  groups, completes the run when the branch's group has the number of the last
  main one, or stays RUNNING when the branch is longer than the main list
  (`RunEnds` has the premise `ApprovalsInReach`).
* `workflow_manager.go:712`: `RegisterWorkflow` returns with `wm.mu` locked when
  `DeepCopy` fails (on a definition that does not survive JSON).
* `workflow_manager.go:484`: approve and reject check PAUSED and act after
  unlocking, so both can succeed for one pause.
* By UUID, goroutines of an earlier run may fail, persist or close the channel
  of a later one.

Task groups (`GroupExecutor`):

* `scheduler.go:278` says that closing a channel is safe because the sender uses
  a non-blocking select. A send on a closed channel panics in a select as well:
  the watcher may have fetched the channel before it was taken out. It takes an
  event that comes when its call has given up, items of a fan-out that overlap,
  the skip policy, which notifies the listener twice, or a retry: `watch.go:491`
  tells the call of the failure before `handleTaskFailed` retries the task, whose
  next event then meets a listener that is being closed (`PanicNeedsLateness`).
* For the same reason a failure fails the group, and with it the run, though the
  task is retried.
* Items of a fan-out share task name and listener, though each push has its own
  etcd key, so with `MaxParallel` other than 1 one item's channel replaces
  another's and gets its event (`docs/core-concepts.md:85`: "每项独立处理").
  `ResultsOwned` holds for the limit of one.
* A sub-workflow is looked up but never submitted, and `ExecuteSubWorkflow`
  returns at once, so the group goes on without it (`docs/core-concepts.md:104`:
  "子工作流完成后父工作流继续执行").
* `advanced_executor.go:504`: the loop's body gets neither the upstream outputs
  nor `_loop_iteration`, which `runLoop` prepares for it.
* `execution_manager.go:886`: the listener is registered after the push, so an
  event that is faster is lost and the call waits for its watchdog.

Restart and history (`Recovery`):

* `repository.go:257,487`: a snapshot is saved as a `WorkflowSnapshot` object and
  decoded as a list of `TaskDelta`, which yields one delta without an action. No
  snapshot is ever restored, and completed tasks run again
  (`docs/high-availability.md:172`: "基于 state.CompletedTasks 判断恢复进度，从断点继续执行").
* `store/mysql/history.go:18`: the UUID is unique, and `SaveWorkflowDef` inserts.
  It fails for every UUID that was registered, saved or run before, and
  `asyncInitMySQL` then removes the new run (`docs/api-reference.md:95`:
  "重试已结束的工作流").
* A new row's copy is made before the run knows its ExecutionID, so a run that is
  recovered from it has id 0: its end reaches no row, which stays RUNNING and is
  recovered at every restart. So does the row of a run that ends before it is
  linked.
* A recovered run whose tasks are all completed gets no executor and stays.
* A task is marked as snapshotted before the write, so a lost write loses it;
  the map is written under a read lock (`repository.go:294`), and
  `workflow_manager.go:773-776` serialises a shallow copy outside the lock.
* Records with id 0 of different workflows replace each other in the history. An
  id also stands there twice when a restart loads and recovers a row that was left
  RUNNING, and when two goroutines persist one entry (`workflow_manager.go:112`).
* `workflow_manager.go:354`: a submission overwrites a running entry. The executor
  of the earlier run goes on (`execution_manager.go:433`) and may complete the
  later one, so COMPLETED says that the tasks were done for the UUID, not in that
  run (`CompletedInFact`).
* `loadHistory` appends the newest first, so the first eviction after a restart
  removes the newest record (`workflow_manager.go:642`: "移除最旧的条目").

Workers (`WorkerManager`):

* `worker_manager.go:190,209`: the start-up scan holds `wm.mu` and calls
  `RegisterTaskType`, which locks it, as soon as it meets a heartbeat with type
  definitions. The goroutine that should go on watching (`worker_manager.go:67`)
  stops, and with it every reader of the table.
* `worker_manager.go:121`: a worker that comes back to life is taken off
  `deadCount` and not added to `aliveCount`, which the metrics report as the
  workers with a normal heartbeat (`backlog_metrics.go:17`).
* `heartbeat.go:115`: `lastFullHash` is set before the write succeeds, and the
  master skips a hash it knows. Type definitions whose full heartbeat is lost,
  or that were sent before the master restarted, are not registered again.
* The entry of a worker whose delete event was lost stays in the table as Dead.

## 6. Not modelled, and the plan

Pure I/O and wiring are left out for good: HTTP handlers and views, WebSocket
notifications, gorm calls, configuration, logging, tracing, plugins, metrics.
`PROJECT.json` lists every part with its status.

Left of the plan, in this order:

1. The global watcher with its backlog and rescan, and the worker's bounded
   priority queue with its semaphore and re-enqueueing.
2. An abstract status machine of a workflow, implemented by
   `WorkflowLifecycle`.
