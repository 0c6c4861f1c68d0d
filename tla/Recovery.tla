------------------------------ MODULE Recovery ------------------------------
(***************************************************************************)
(* What the master keeps of a run in MySQL, and what it makes of it after  *)
(* a restart: asyncInitMySQL, PersistWorkflowLocked with the in-memory     *)
(* history, and the snapshots, persist pool, loadHistory and               *)
(* recoverRunningWorkflows of infra/engine/scheduler/repository.go, over   *)
(* the tables of infra/store/mysql/history.go.                             *)
(*                                                                         *)
(* A run is one call of SubmitWorkflow.  Its task groups have one task     *)
(* each and are executed in order by an executor, which knows only the     *)
(* UUID: it outlives the entry of its run and goes on with that of a newer *)
(* one.  Branches, skipped groups and approvals are the subject of         *)
(* WorkflowLifecycle.  Retries of failed database calls are not counted: a *)
(* call succeeds or is lost.                                               *)
(***************************************************************************)
EXTENDS Naturals, Sequences, FiniteSets, SequencesExt

CONSTANTS
    UUIDs,         \* workflow UUIDs
    MaxSubmits,    \* bound: submissions of a UUID
    MaxCache,      \* MaxHistoryCache
    MaxFaults,     \* bound: lost database calls and master restarts
    Environments,  \* what a behaviour is about: the groups of each workflow, its
                   \* submissions and faults, whether tasks may fail, and whether
                   \* an entry may end while somebody waits for its lock
    None

ASSUME BoundsAssumption == MaxSubmits \in Nat /\ MaxCache \in Nat \ {0} /\ MaxFaults \in Nat
ASSUME EnvironmentsAssumption ==
    Environments \subseteq [groups : [UUIDs -> Nat \ {0}], submits : [UUIDs -> 0..MaxSubmits],
                           faults : 0..MaxFaults, failing : BOOLEAN, window : BOOLEAN]

VARIABLES
    env,        \* the environment, fixed at the start
    \* MySQL
    defs,       \* UUIDs with a row in vibeflow_workflows (unique on uuid)
    rows,       \* vibeflow_executions by id
    saved,      \* vibeflow_task_deltas: snapshots of executions
    \* the master's memory
    entry,      \* runningEntries
    held,       \* ended states whose entry a goroutine still waits for (LockEntry)
    execs,      \* executors: the group each is at
    init,       \* per run, asyncInitMySQL
    retrying,   \* <<u, t>>: failed tasks that a goroutine retries
    snaps,      \* snapshot writes under way
    jobs,       \* persist jobs in the pool
    hist,       \* workflowHistory: id -> the UUID of the record
    byUUID,     \* workflowHistoryByUUID
    order,      \* historyOrder
    evicting,   \* calls of PersistWorkflowLocked that have yet to evict
    recovering, \* ids recoverRunningWorkflows has yet to recover
    \* what happened
    submits,    \* submissions of each UUID
    done,       \* per UUID, the tasks completed or skipped in any run
    twice,      \* ids put into the history while they were listed there
    faults

mysql == <<defs, rows, saved>>
execVars == <<entry, held, execs, retrying>>
histVars == <<hist, byUUID, order, evicting, twice>>
vars == <<env, mysql, execVars, init, snaps, jobs, histVars, recovering, submits, done, faults>>

Runs == UUIDs \X (1..MaxSubmits)
Groups == env.groups
Tasks == UNION {1..Groups[u] : u \in UUIDs}
All(u) == 1..Groups[u]
Ids == DOMAIN rows

Fault == faults < env.faults /\ faults' = faults + 1

Idle == [pc |-> "idle", id |-> 0, copied |-> None]

Init == /\ env \in Environments
        /\ defs = {} /\ rows = <<>> /\ saved = {}
        /\ entry = [u \in UUIDs |-> None] /\ held = {} /\ execs = {} /\ retrying = {}
        /\ init = [r \in Runs |-> Idle]
        /\ snaps = {} /\ jobs = {}
        /\ hist = <<>> /\ byUUID = [u \in UUIDs |-> <<>>] /\ order = <<>>
        /\ evicting = 0 /\ twice = {}
        /\ recovering = {}
        /\ submits = [u \in UUIDs |-> 0]
        /\ done = [u \in UUIDs |-> {}]
        /\ faults = 0

(***************************************************************************)
(* Submission.  NewScheduler returns, and the API opens, when the recovery *)
(* is over.                                                                *)
(***************************************************************************)

\* The state of a new run: no ExecutionID yet.  (recovered is a field of its entry.)
NewState(u) == [uuid |-> u, exec |-> 0, status |-> "RUNNING", completed |-> {}, failed |-> {},
                marked |-> {}, recovered |-> FALSE]

\* What is serialised of a state: not Snapshotted.
Data(e) == [e EXCEPT !.marked = {}, !.recovered = FALSE]

\* An entry of the UUID is overwritten: nothing is persisted of its run, whose
\* executor goes on.
SubmitWorkflow(u) ==
    /\ submits[u] < env.submits[u]
    /\ LET k == submits[u] + 1
       IN  /\ submits' = [submits EXCEPT ![u] = k]
           /\ entry' = [entry EXCEPT ![u] = NewState(u)]
           /\ execs' = execs \cup {[uuid |-> u, start |-> <<"submit", k>>, at |-> 1]}
           /\ init' = [init EXCEPT ![<<u, k>>].pc = "define"]
           /\ UNCHANGED <<held, retrying>>

\* CreateWorkflow, RunWorkflow, a cron entry, a webhook or an event chain.  Only
\* RunWorkflow looks whether the UUID is running, and without a lock.
Submit(u) == /\ recovering = {}
             /\ SubmitWorkflow(u)
             /\ UNCHANGED <<mysql, snaps, jobs, histVars, recovering, done, faults>>

\* RegisterWorkflow (UpsertWorkflowDef) or SaveWorkflow of a cron definition:
\* the definition has its row before the first run.
Define(u) == /\ recovering = {} /\ u \notin defs /\ env.submits[u] > 0
             /\ defs' = defs \cup {u}
             /\ UNCHANGED <<rows, saved, execVars, init, snaps, jobs, histVars, recovering,
                            submits, done, faults>>

Forget(id) == [i \in DOMAIN hist \ {id} |-> hist[i]]

\* RetryWorkflow: the workflow of the latest record of u is submitted again.
\* The record is found by its id alone.  (A submission between its two sections
\* and its own overwrite each other in one order or the other.)
RetryWorkflow(u) ==
    /\ recovering = {} /\ entry[u] = None
    /\ byUUID[u] # <<>> /\ Last(byUUID[u]) \in DOMAIN hist
    /\ LET id == Last(byUUID[u])
       IN  /\ SubmitWorkflow(hist[id])
           /\ hist' = Forget(id)
           /\ byUUID' = [byUUID EXCEPT ![u] = RemoveFirst(@, id)]
           /\ order' = RemoveFirst(order, id)
    /\ UNCHANGED <<mysql, snaps, jobs, evicting, twice, recovering, done, faults>>

(***************************************************************************)
(* asyncInitMySQL of run r: it looks its entry up by UUID again after each *)
(* database call.                                                          *)
(***************************************************************************)

\* cleanupWorkflowState: the entry goes without a record in the history.
CleanupWorkflowState(u) == entry' = [entry EXCEPT ![u] = None]

InitFrame == UNCHANGED <<saved, held, execs, retrying, snaps, jobs, histVars, recovering,
                         submits, done>>

SaveWorkflowDef(r) ==
    /\ init[r].pc = "define" /\ r[1] \notin defs
    /\ defs' = defs \cup {r[1]}
    /\ init' = [init EXCEPT ![r].pc = "copy"]
    /\ UNCHANGED <<rows, entry, faults>> /\ InitFrame

\* The unique index refuses a second row of the UUID.
SaveWorkflowDefDuplicate(r) ==
    /\ init[r].pc = "define" /\ r[1] \in defs
    /\ init' = [init EXCEPT ![r] = Idle]
    /\ CleanupWorkflowState(r[1])
    /\ UNCHANGED <<defs, rows, faults>> /\ InitFrame

\* SaveWorkflowDef or CreateExecution fails.
InitFails(r) ==
    /\ init[r].pc \in {"define", "create"}
    /\ Fault
    /\ init' = [init EXCEPT ![r] = Idle]
    /\ CleanupWorkflowState(r[1])
    /\ UNCHANGED <<defs, rows>> /\ InitFrame

\* The copy is serialised as it is now, before it has an ExecutionID.
CopyState(r) ==
    /\ init[r].pc = "copy"
    /\ init' = [init EXCEPT ![r] =
                  IF entry[r[1]] = None THEN Idle
                  ELSE [pc |-> "create", id |-> 0, copied |-> Data(entry[r[1]])]]
    /\ UNCHANGED <<defs, rows, entry, faults>> /\ InitFrame

CreateExecution(r) ==
    /\ init[r].pc = "create"
    /\ rows' = Append(rows, [uuid |-> r[1], status |-> "RUNNING", data |-> init[r].copied])
    /\ init' = [init EXCEPT ![r] = [pc |-> "link", id |-> Len(rows) + 1, copied |-> None]]
    /\ UNCHANGED <<defs, entry, faults>> /\ InitFrame

\* The entry learns its ExecutionID, if the UUID still has one.
LinkExecution(r) ==
    /\ init[r].pc = "link"
    /\ entry' = IF entry[r[1]] = None THEN entry
                ELSE [entry EXCEPT ![r[1]].exec = init[r].id]
    /\ init' = [init EXCEPT ![r] = Idle]
    /\ UNCHANGED <<defs, rows, faults>> /\ InitFrame

InitStep(r) == \/ SaveWorkflowDef(r) \/ SaveWorkflowDefDuplicate(r) \/ InitFails(r)
               \/ CopyState(r) \/ CreateExecution(r) \/ LinkExecution(r)

(***************************************************************************)
(* Execution, and the snapshots a recorded task triggers.                  *)
(***************************************************************************)

\* collectTaskDeltasLocked: what is not marked as snapshotted yet.
Deltas(e) == {<<t, "completed">> : t \in e.completed \ e.marked}
             \cup {<<t, "failed">> : t \in e.failed \ e.marked}

\* json.Marshal of a WorkflowSnapshot: an object around its ChangedTasks.
MarshalSnapshot(id, ds) == [exec |-> id, form |-> "object", deltas |-> ds]

\* The tasks are marked before the write is under way.
Marked(e) == [e EXCEPT !.marked = e.marked \cup e.completed \cup e.failed]

\* snapshotRunningWorkflow after the entry has become e.  A snapshot is skipped
\* when it is throttled, refused by the breaker, or without an ExecutionID.
\* (One without changes is written, and means nothing.)
SnapshotRunningWorkflow(u, e) ==
    \/ /\ entry' = [entry EXCEPT ![u] = e]
       /\ UNCHANGED snaps
    \/ /\ e.exec # 0 /\ Deltas(e) # {}
       /\ entry' = [entry EXCEPT ![u] = Marked(e)]
       /\ snaps' = snaps \cup {MarshalSnapshot(e.exec, Deltas(e))}

\* Executor x is at a task of u, and the watcher of an entry of u takes its event: it
\* ignores a task that has failed and, in a recovered run, one that is completed.
Heard(x) == LET u == x.uuid
            IN  /\ x.at <= Groups[u] /\ entry[u] # None
                /\ x.at \notin entry[u].failed
                /\ entry[u].recovered => x.at \notin entry[u].completed

Advance(x) == execs' = (execs \ {x}) \cup {[x EXCEPT !.at = @ + 1]}

ExecFrame == UNCHANGED <<mysql, held, init, jobs, histVars, recovering, submits, faults>>

\* recordTaskCompleted in the entry of the day, and the executor takes the next group.
TaskCompleted(x) ==
    /\ Heard(x)
    /\ SnapshotRunningWorkflow(x.uuid, [entry[x.uuid] EXCEPT !.completed = @ \cup {x.at}])
    /\ done' = [done EXCEPT ![x.uuid] = @ \cup {x.at}]
    /\ Advance(x)
    /\ UNCHANGED retrying /\ ExecFrame

\* recordTaskFailed, and handleTaskFailed starts RetryTask.
TaskFailed(x) ==
    /\ env.failing /\ Heard(x)
    /\ SnapshotRunningWorkflow(x.uuid, [entry[x.uuid] EXCEPT !.failed = @ \cup {x.at}])
    /\ retrying' = retrying \cup {<<x.uuid, x.at>>}
    /\ UNCHANGED <<execs, done>> /\ ExecFrame

\* clearFailedTask (mutant) that keeps the snapshot mark.
ClearFailedKeepsMark(u, t) ==
    /\ <<u, t>> \in retrying
    /\ retrying' = retrying \ {<<u, t>>}
    /\ entry' = IF entry[u] = None THEN entry ELSE [entry EXCEPT ![u].failed = @ \ {t}]
    /\ UNCHANGED <<execs, snaps, done>> /\ ExecFrame

\* clearFailedTask, called by RetryTask when it has pushed the task again: by
\* then the task may have been completed, or the entry be another.
ClearFailedTask(u, t) ==
    /\ <<u, t>> \in retrying
    /\ retrying' = retrying \ {<<u, t>>}
    /\ entry' = IF entry[u] = None THEN entry
                ELSE [entry EXCEPT ![u].failed = @ \ {t}, ![u].marked = @ \ {t}]
    /\ UNCHANGED <<execs, snaps, done>> /\ ExecFrame

(***************************************************************************)
(* PersistWorkflowLocked: a first section puts the state into the history  *)
(* and removes the entry of the UUID, whichever it is; the final state     *)
(* goes to the persist pool; a second section evicts what is over the      *)
(* limit.                                                                  *)
(***************************************************************************)

AddHistory(e) ==
    /\ hist' = [i \in DOMAIN hist \cup {e.exec} |-> IF i = e.exec THEN e.uuid ELSE hist[i]]
    /\ byUUID' = [byUUID EXCEPT ![e.uuid] = Append(@, e.exec)]
    /\ order' = Append(order, e.exec)
    /\ twice' = IF e.exec \in Range(order) THEN twice \cup {e.exec} ELSE twice

\* persistToMySQL: a full pool drops the job.
Enqueue(job) == \/ jobs' = jobs \cup {job} /\ UNCHANGED faults
                \/ UNCHANGED jobs /\ Fault

\* LockEntry: the entry of u, or one that has ended since it was looked up.
Locked(u) == ({entry[u]} \ {None}) \cup {h \in held : h.uuid = u}

\* The locked state e ends as f.  Whoever waits for the entry gets it next (at most
\* one goroutine waits, for one entry at a time).
PersistWorkflowLocked(e, f) ==
    /\ AddHistory(f)
    /\ evicting' = evicting + 1
    /\ entry' = [entry EXCEPT ![e.uuid] = None]
    /\ \/ held' = held \ {e}
       \/ env.window /\ held = {} /\ held' = {f}
    /\ Enqueue([exec |-> f.exec, status |-> f.status, data |-> Data(f)])
    /\ UNCHANGED <<mysql, init, snaps, recovering, submits>>

\* Whichever entry of u is locked, it ends with the status s.
EndAs(u, s) == /\ \E e \in Locked(u) : PersistWorkflowLocked(e, [e EXCEPT !.status = s])
               /\ UNCHANGED <<retrying, done>>

\* EvictOldest (mutant) that leaves the id in the UUID's list.
EvictOldestKeepsUUID == /\ order' = Tail(order)
                        /\ hist' = Forget(Head(order))
                        /\ UNCHANGED byUUID

\* Without the record that is first in the order.
EvictOldest ==
    LET id == Head(order)
    IN  /\ order' = Tail(order)
        /\ hist' = Forget(id)
        /\ byUUID' = IF id \notin DOMAIN hist THEN byUUID
                     ELSE [byUUID EXCEPT ![hist[id]] = RemoveFirst(@, id)]

\* Evict (mutant) that leaves one record too many.
EvictLate ==
    /\ evicting > 0
    /\ IF Len(order) > MaxCache + 1 THEN EvictOldest ELSE UNCHANGED <<hist, byUUID, order>>
    /\ evicting' = IF Len(order') > MaxCache + 1 THEN evicting ELSE evicting - 1
    /\ UNCHANGED <<mysql, execVars, init, snaps, jobs, twice, recovering, submits, done, faults>>

\* One iteration of the loop.  (The code holds wm.mu over the whole loop: fewer
\* interleavings.)
Evict ==
    /\ evicting > 0
    /\ IF Len(order) > MaxCache THEN EvictOldest ELSE UNCHANGED <<hist, byUUID, order>>
    /\ evicting' = IF Len(order') > MaxCache THEN evicting ELSE evicting - 1
    /\ UNCHANGED <<mysql, execVars, init, snaps, jobs, twice, recovering, submits, done, faults>>

\* Finish (mutant) when the last group has begun.
FinishEarly(x) == /\ x.at >= Groups[x.uuid]
                  /\ EndAs(x.uuid, "COMPLETED")
                  /\ execs' = execs \ {x}

\* finishWorkflow, of an executor that has done the last group: for the run the UUID
\* has now.
Finish(x) == /\ x.at > Groups[x.uuid]
             /\ EndAs(x.uuid, "COMPLETED")
             /\ execs' = execs \ {x}

\* The group fails: its task did, or its watchdog fired, or the context of a
\* recovered run was cancelled.
GroupFails(x) == /\ x.at <= Groups[x.uuid]
                 /\ EndAs(x.uuid, "FAILED")
                 /\ execs' = execs \ {x}

\* The UUID has no entry when the executor looks for it.
ExecutorEnds(x) ==
    /\ entry[x.uuid] = None
    /\ execs' = execs \ {x}
    /\ UNCHANGED <<entry, retrying, snaps, done>> /\ ExecFrame

\* handleTaskFailed, policy skip: the status is left as it is, and the executor is
\* told that the task is completed, if it still listens.
TaskSkipped(x) ==
    LET u == x.uuid
        t == x.at
    IN  /\ <<u, t>> \in retrying /\ retrying' = retrying \ {<<u, t>>}
        /\ \E e \in Locked(u) :
              PersistWorkflowLocked(e, [e EXCEPT !.completed = @ \cup {t}, !.failed = @ \ {t}])
        /\ done' = [done EXCEPT ![u] = @ \cup {t}]
        /\ Advance(x) \/ UNCHANGED execs

\* CancelWorkflow or timeoutAfter: the status is left as it is, RUNNING.
CancelWorkflow(u) ==
    /\ \E e \in Locked(u) : e.status = "RUNNING" /\ PersistWorkflowLocked(e, e)
    /\ UNCHANGED <<execs, retrying, done>>

\* markWorkflowFailed or startSagaRollback.  (FAILED stands for ROLLING_BACK too.)
FailWorkflow(u) == env.failing /\ EndAs(u, "FAILED") /\ UNCHANGED execs

(***************************************************************************)
(* The goroutines that write to MySQL, in any order.                       *)
(***************************************************************************)
WriteFrame == UNCHANGED <<defs, execVars, init, histVars, recovering, submits, done>>

\* UpdateExecution (mutant) that leaves the status column alone.
UpdateExecutionDataOnly(job) ==
    /\ rows' = IF job.exec \in Ids THEN [rows EXCEPT ![job.exec].data = job.data] ELSE rows
    /\ jobs' = jobs \ {job}
    /\ UNCHANGED <<saved, snaps, faults>> /\ WriteFrame

\* UpdateExecution: WHERE id = exec.  No row has id 0.
UpdateExecution(job) ==
    /\ rows' = IF job.exec \in Ids
               THEN [rows EXCEPT ![job.exec].status = job.status, ![job.exec].data = job.data]
               ELSE rows
    /\ jobs' = jobs \ {job}
    /\ UNCHANGED <<saved, snaps, faults>> /\ WriteFrame

\* The breaker is open, or the retries are used up.
PersistLost(job) ==
    /\ Fault
    /\ jobs' = jobs \ {job}
    /\ UNCHANGED <<rows, saved, snaps>> /\ WriteFrame

SaveTaskDeltas(s) ==
    /\ saved' = saved \cup {s}
    /\ snaps' = snaps \ {s}
    /\ UNCHANGED <<rows, jobs, faults>> /\ WriteFrame

SnapshotLost(s) ==
    /\ Fault
    /\ snaps' = snaps \ {s}
    /\ UNCHANGED <<rows, saved, jobs>> /\ WriteFrame

WriterStep == \/ \E job \in jobs : UpdateExecution(job) \/ PersistLost(job)
              \/ \E s \in snaps : SaveTaskDeltas(s) \/ SnapshotLost(s)

(***************************************************************************)
(* A restart of the master: NewScheduler loads the history, newest first,  *)
(* and recovers the executions that are RUNNING in MySQL.                  *)
(***************************************************************************)
Newest == [k \in 1..(IF Len(rows) < MaxCache THEN Len(rows) ELSE MaxCache) |-> Len(rows) + 1 - k]

\* s lists the ids in S, newest first.
Lists(s, S) == Range(s) = S /\ \A j, k \in DOMAIN s : j < k => s[j] > s[k]

LoadHistory(ids) ==
    /\ order' = ids /\ evicting' = 0 /\ twice' = {}
    /\ hist' = [i \in Range(ids) |-> rows[i].data.uuid]
    /\ \E b \in [UUIDs -> UNION {[1..n -> Range(ids)] : n \in 0..Len(ids)}] :
          /\ \A u \in UUIDs : Lists(b[u], {i \in Range(ids) : rows[i].uuid = u})
          /\ byUUID' = b

\* Either query may fail; the master then goes on without its result.
Restart ==
    /\ Fault
    /\ entry' = [u \in UUIDs |-> None] /\ held' = {} /\ execs' = {} /\ retrying' = {}
    /\ init' = [r \in Runs |-> Idle]
    /\ snaps' = {} /\ jobs' = {}
    /\ \E ids \in {Newest, <<>>} : LoadHistory(ids)
    /\ recovering' \in {{i \in Ids : rows[i].status = "RUNNING"}, {}}
    /\ UNCHANGED <<mysql, submits, done>>

\* LoadTaskDeltas and BatchLoadTaskDeltas turn a record that is no JSON array
\* into a one-element array; a WorkflowSnapshot decoded as a TaskDelta has no
\* Action, and ApplyDeltas skips it.
Unmarshal(s) == IF s.form = "array" THEN s.deltas ELSE {}

Applied(i) == UNION {Unmarshal(s) : s \in {x \in saved : x.exec = i}}

Names(ds, action) == {d[1] : d \in {x \in ds : x[2] = action}}

\* ApplyDeltas.
Restored(i) == [rows[i].data EXCEPT !.completed = @ \cup Names(Applied(i), "completed"),
                                    !.failed = @ \cup Names(Applied(i), "failed"),
                                    !.status = "RUNNING", !.recovered = TRUE]

\* StartGroup (mutant) that goes on one group too late.
StartOneLate(u, completed) ==
    1 + CHOOSE g \in 1..Groups[u] + 1 : g \notin completed /\ 1..g - 1 \subseteq completed

\* The first group with a task that is not completed.  (Whether the task is
\* PENDING in etcd makes no difference.)
StartGroup(u, completed) ==
    CHOOSE g \in 1..Groups[u] + 1 : g \notin completed /\ 1..g - 1 \subseteq completed

\* recoverSingleWorkflow: a UUID that runs already is left alone; without a
\* group to go on with, no executor is started.
RecoverSingleWorkflow(i) ==
    LET u == rows[i].uuid
        g == StartGroup(u, Restored(i).completed)
    IN  /\ recovering' = recovering \ {i}
        /\ IF entry[u] # None THEN UNCHANGED <<entry, execs>>
           ELSE /\ entry' = [entry EXCEPT ![u] = Restored(i)]
                /\ execs' = IF g > Groups[u] THEN execs
                            ELSE execs \cup {[uuid |-> u, start |-> <<"recover", i>>, at |-> g]}
        /\ UNCHANGED <<mysql, held, retrying, init, snaps, jobs, histVars, submits, done, faults>>

WorkflowStep(u) == \/ Submit(u) \/ Define(u) \/ RetryWorkflow(u)
                   \/ CancelWorkflow(u) \/ FailWorkflow(u)
                   \/ \E t \in Tasks : ClearFailedTask(u, t)

ExecutorStep(x) == TaskCompleted(x) \/ GroupFails(x) \/ Finish(x) \/ ExecutorEnds(x)

Step == \/ \E u \in UUIDs : WorkflowStep(u)
        \/ \E x \in execs : ExecutorStep(x) \/ TaskFailed(x) \/ TaskSkipped(x)
        \/ Evict
        \/ \E r \in Runs : InitStep(r)
        \/ WriterStep
        \/ Restart
        \/ \E i \in recovering : RecoverSingleWorkflow(i)

Next == Step /\ UNCHANGED env

\* The goroutines of the master go on; what an executor waits for ends with an event
\* or with the watchdog.
Fairness == /\ \A u \in UUIDs :
                  WF_vars((\E x \in execs : x.uuid = u /\ ExecutorStep(x)) /\ UNCHANGED env)
            /\ WF_vars((\E job \in jobs : UpdateExecution(job)) /\ UNCHANGED env)

Spec == Init /\ [][Next]_vars /\ Fairness
-----------------------------------------------------------------------------
Statuses == {"RUNNING", "COMPLETED", "FAILED"}
States == [uuid : UUIDs, exec : Nat, status : Statuses, completed : SUBSET Tasks,
           failed : SUBSET Tasks, marked : SUBSET Tasks, recovered : BOOLEAN]
Snapshots == [exec : Nat, form : {"object"}, deltas : SUBSET (Tasks \X {"completed", "failed"})]

TypeOK ==
    /\ defs \subseteq UUIDs
    /\ \A i \in Ids : /\ rows[i].uuid \in UUIDs /\ rows[i].status \in Statuses
                      /\ rows[i].data \in States
    /\ saved \subseteq Snapshots /\ snaps \subseteq Snapshots
    /\ \A u \in UUIDs : entry[u] = None \/ (entry[u] \in States /\ entry[u].uuid = u)
    /\ held \subseteq States
    /\ \A x \in execs : x.uuid \in UUIDs /\ x.at \in 1..Groups[x.uuid] + 1
    /\ retrying \subseteq UUIDs \X Tasks
    /\ \A r \in Runs : init[r].pc \in {"idle", "define", "copy", "create", "link"}
    /\ \A job \in jobs : job.data \in States
    /\ order \in Seq(Nat) /\ evicting \in Nat /\ Len(order) <= MaxCache + evicting
    /\ recovering \subseteq Ids
    /\ submits \in [UUIDs -> 0..MaxSubmits]
    /\ done \in [UUIDs -> SUBSET Tasks]
    /\ faults \in 0..MaxFaults

(* No executor is ahead of the work: every group before the one it is at has been
   completed or skipped in some run of its UUID, wherever the run was resumed
   (recoverSingleWorkflow), whatever was copied into its row meanwhile, and whichever
   runs the executor has outlived (execution_manager.go:433). *)
NeverSkips == \A x \in execs : 1..x.at - 1 \subseteq done[x.uuid]

(* An execution that MySQL calls COMPLETED is one of a workflow all of whose tasks
   were completed or skipped.  (Not all in this run: finishWorkflow of an earlier
   run's executor ends the run that the UUID has now.) *)
CompletedInFact ==
    \A i \in Ids : rows[i].status = "COMPLETED" => done[rows[i].uuid] = All(rows[i].uuid)

(* A task that is marked as snapshotted is in a snapshot that is written or under
   way, with its latest outcome, also when it failed, was snapshotted and then
   retried (clearFailedTask), unless a write was lost: the mark is set before the
   write (collectTaskDeltasLocked). *)
MarkedIsSaved ==
    \A u \in UUIDs :
        entry[u] # None /\ faults = 0 =>
            \A t \in (entry[u].marked \cap entry[u].completed) \ entry[u].failed :
                \E s \in saved \cup snaps :
                    s.exec = entry[u].exec /\ <<t, "completed">> \in s.deltas

(* The three structures of the history agree on every record, through persist, retry,
   eviction and restart, except on an id that was put there while it was listed
   already.  Besides 0, the id of every run without a row, there is such an id only
   after a restart, which loads into the history and also recovers a row that was
   cancelled, timed out or skipped and so is still RUNNING, or when two goroutines
   persist one entry (LockEntry). *)
HistoryConsistent ==
    /\ \A u \in UUIDs : \A id \in Range(byUUID[u]) \ twice : id \in DOMAIN hist /\ hist[id] = u
    /\ DOMAIN hist \subseteq Range(order)
    /\ twice \subseteq {0} \/ faults > 0 \/ env.window

\* The only run of u so far knows the row that was created for it.
Linked(u) == submits[u] = 1 /\ entry[u] # None /\ entry[u].exec # 0

\* A row of u holds the state in which its run was persisted, and the status of that.
Reached(u) == \E i \in Ids : /\ rows[i].uuid = u /\ rows[i].data.exec = i
                             /\ rows[i].status = rows[i].data.status

(* The end of a run that knows its ExecutionID reaches its row: without faults MySQL
   has its final state and status in the end, unless the UUID is submitted again.
   (The status is RUNNING still when the run was cancelled, timed out or ended by a
   skipped task.) *)
EndReachesMySQL ==
    \A u \in UUIDs :
        (faults = 0 /\ Linked(u)) ~> (faults # 0 \/ submits[u] > 1 \/ Reached(u))

=============================================================================
