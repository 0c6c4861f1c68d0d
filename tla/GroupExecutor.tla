---------------------------- MODULE GroupExecutor ----------------------------
(***************************************************************************)
(* One task group of a workflow in the master, at the grain of the task    *)
(* listeners' locks: the listener registry of scheduler.go,                *)
(* executeSingleTask, ExecuteWithOptions, the groups with fan-out,         *)
(* sub-workflow and loop nodes of execution_manager.go and                 *)
(* advanced_executor.go, the watcher that notifies the listeners and the   *)
(* goroutines that retry failed tasks.                                     *)
(*                                                                         *)
(* A call is one executeSingleTask of the group, again in each iteration   *)
(* of a loop.  It makes one channel, named by the call and the iteration.  *)
(* Each push has an etcd key of its own (taskKey), so payloads are known   *)
(* by their channels; the items of a fan-out share only the name of the    *)
(* template, and with it the listener.  A panic stops the master.          *)
(***************************************************************************)
EXTENDS Naturals, FiniteSets

CONSTANTS
    Calls,         \* executeSingleTask calls
    Names,         \* task names
    Name,          \* the task name of each call
    Environments,  \* groups, and what may happen to them; see Init
    None

ASSUME CallsAssumption == Name \in [Calls -> Names]
ASSUME NoneAssumption == None \notin Calls \X Nat
\* normal: calls of ordinary nodes; items: of the fan-out's items;
\* list: whether the upstream outputs have the fan-out's list;
\* parallel: MaxParallel; sub: the group's sub-workflow node;
\* iterations: the loop's MaxIterations, 1 without a loop node;
\* policy: of a failed task; retries: its MaxRetries; faults: what may happen.
ASSUME EnvironmentsAssumption ==
    \A e \in Environments :
        /\ e.normal \subseteq Calls /\ e.items \subseteq Calls \ e.normal
        /\ IsFiniteSet(e.items)
        /\ e.list \in {"none", "missing", "found"}
        /\ e.parallel \in Nat /\ e.iterations \in Nat \ {0}
        /\ e.sub \in {"none", "unregistered", "tracked"}
        /\ e.policy \in {"fail_fast", "skip", "retry"} /\ e.retries \in Nat
        /\ e.faults \subseteq {"fails", "etcd", "cancel", "mysql", "shutdown"}

VARIABLES
    env,        \* the group, chosen once
    registry,   \* taskListeners[uuid]: a listener set, 0 if none
    made,       \* listener sets made so far: 1..made
    chans,      \* chans of all listener sets: <<set, name, channel>>
    closed,     \* closed channels
    box,        \* the payload in the channel of each call
    pc, wl,     \* where each call is, and the listener set it fetched
    took,       \* the channel a call has taken from its listener set
    result,     \* the channel of the task whose output a call returned
    erred,      \* calls that returned an error
    late,       \* calls that left the select without an event
    pending,    \* tasks whose PENDING key no worker has taken, by channel
    working,    \* tasks with a worker, by channel
    events,     \* terminal events on their way: channel and status
    watcher,    \* the watcher's step: pc, event, listener set and channel
    cleaner,    \* cleanupTaskListeners: pc and listener set
    failed,     \* FailedTasks of the entry
    retrying,   \* RetryTask goroutines: channel and step
    attempts,   \* retries so far: channel and number
    live,       \* the UUID has an entry: 1 or 0
    ctxDone,    \* the root context is cancelled: 1 or 0
    subResult,  \* what the sub-workflow's tracker has reported
    iteration,  \* of the loop, from 1
    group,      \* executing, advanced, failed or gone
    panic       \* none, send or close

listenerVars == <<registry, made, chans, closed>>
callVars == <<pc, wl, took, result, erred, late>>
taskVars == <<pending, working, events>>
retryVars == <<failed, retrying, attempts>>
groupVars == <<subResult, iteration, group>>
vars == <<env, listenerVars, box, callVars, taskVars, retryVars, watcher, cleaner, live,
          ctxDone, groupVars, panic>>

Channels == Calls \X Nat
Statuses == {"COMPLETED", "FAILED"}
Locations == {"sem", "push", "lookup", "register", "wait", "unlookup", "take", "purge",
              "close", "done"}

Members(e) == e.normal \cup e.items
Begin(e) == [x \in Calls |-> IF x \in e.normal THEN "push"
                             ELSE IF x \in e.items THEN "sem" ELSE "done"]
Idle == [pc |-> "idle", event |-> None, status |-> "COMPLETED", wl |-> 0, ch |-> None]

Init ==
    /\ env \in Environments
    /\ registry = 0 /\ made = 0 /\ chans = {} /\ closed = {}
    /\ box = [x \in Calls |-> None]
    /\ pc = Begin(env)
    /\ wl = [x \in Calls |-> 0]
    /\ took = [x \in Calls |-> None]
    /\ result = [x \in Calls |-> None]
    /\ erred = {} /\ late = {}
    /\ pending = {} /\ working = {} /\ events = {}
    /\ failed = {} /\ retrying = {} /\ attempts = {}
    /\ watcher = Idle
    /\ cleaner = [pc |-> "idle", wl |-> 0]
    /\ live = 1 /\ ctxDone = 0
    /\ subResult = IF env.sub = "unregistered" THEN "err" ELSE "none"
    /\ iteration = 1 /\ group = "executing" /\ panic = "none"

Goto(x, l) == pc' = [pc EXCEPT ![x] = l]
Channel(x) == <<x, iteration>>
In(w) == {c \in chans : c[1] = w}
At(w, n) == {c \in In(w) : c[2] = n}

(***************************************************************************)
(* executeSingleTask.                                                      *)
(***************************************************************************)
CallFrame == UNCHANGED <<env, retryVars, watcher, cleaner, live, ctxDone, groupVars>>

\* The semaphore of ExecuteFanOut; MaxParallel 0 means no limit.
Inside == {x \in env.items : pc[x] \notin {"sem", "done"}}

\* Acquire (mutant) without the semaphore.
AcquireAtOnce(x) ==
    /\ pc[x] = "sem"
    /\ Goto(x, "push")
    /\ UNCHANGED <<listenerVars, box, wl, took, result, erred, late, taskVars, panic>> /\ CallFrame

Acquire(x) ==
    /\ pc[x] = "sem"
    /\ env.parallel = 0 \/ Cardinality(Inside) < env.parallel
    /\ Goto(x, "push")
    /\ UNCHANGED <<listenerVars, box, wl, took, result, erred, late, taskVars, panic>> /\ CallFrame

PushTask(x) ==
    /\ pc[x] = "push" /\ live = 1
    /\ pending' = pending \cup {Channel(x)}
    /\ Goto(x, "lookup")
    /\ UNCHANGED <<listenerVars, box, wl, took, result, erred, late, working, events, panic>> /\ CallFrame

PushTaskError(x) ==
    /\ pc[x] = "push"
    /\ live = 0 \/ "etcd" \in env.faults
    /\ erred' = erred \cup {x}
    /\ Goto(x, "done")
    /\ UNCHANGED <<listenerVars, box, wl, took, result, late, taskVars, panic>> /\ CallFrame

GetOrCreateListeners(x) ==
    /\ pc[x] = "lookup"
    /\ registry' = IF registry = 0 THEN made + 1 ELSE registry
    /\ made' = IF registry = 0 THEN made + 1 ELSE made
    /\ wl' = [wl EXCEPT ![x] = registry']
    /\ Goto(x, "register")
    /\ UNCHANGED <<chans, closed, box, took, result, erred, late, taskVars, panic>> /\ CallFrame

\* The set may be out of the registry by now, and another call's channel of the
\* same name is replaced.
RegisterTaskListener(x) ==
    /\ pc[x] = "register"
    /\ chans' = (chans \ At(wl[x], Name[x])) \cup {<<wl[x], Name[x], Channel(x)>>}
    /\ Goto(x, "wait")
    /\ UNCHANGED <<registry, made, closed, box, wl, took, result, erred, late, taskVars, panic>> /\ CallFrame

\* The select: an event (a closed channel still gives the one it holds), the
\* closed channel, the watchdog or the root context.
Leave(x) == /\ pc[x] = "wait"
            /\ Goto(x, "unlookup")
            /\ UNCHANGED <<listenerVars, wl, took, taskVars, panic>> /\ CallFrame

Receive(x) ==
    /\ box[x] # None
    /\ Leave(x)
    /\ IF box[x][2] = "COMPLETED"
       THEN result' = [result EXCEPT ![x] = box[x][1]] /\ UNCHANGED erred
       ELSE erred' = erred \cup {x} /\ UNCHANGED result
    /\ box' = [box EXCEPT ![x] = None]
    /\ UNCHANGED late

GiveUp(x) == /\ Leave(x)
             /\ erred' = erred \cup {x} /\ late' = late \cup {x}
             /\ UNCHANGED <<box, result>>

\* Watchdog (mutant): the select has no timeout.
WatchdogMissing(x) == FALSE /\ UNCHANGED vars

Watchdog(x) == GiveUp(x)

Cancelled(x) == /\ ctxDone = 1 \/ (Channel(x) \in closed /\ box[x] = None)
                /\ GiveUp(x)

\* The deferred unregisterTaskListener, by name.
FindListeners(x) ==
    /\ pc[x] = "unlookup"
    /\ wl' = [wl EXCEPT ![x] = registry]
    /\ Goto(x, IF registry = 0 THEN "done" ELSE "take")
    /\ UNCHANGED <<listenerVars, box, took, result, erred, late, taskVars, panic>> /\ CallFrame

Registered(x) == IF At(wl[x], Name[x]) = {} THEN None
                 ELSE (CHOOSE c \in chans : c \in At(wl[x], Name[x]))[3]

\* TakeListener (mutant) that leaves the channel in the set.
TakeAndKeep(x) ==
    /\ pc[x] = "take"
    /\ took' = [took EXCEPT ![x] = Registered(x)]
    /\ Goto(x, "close")
    /\ UNCHANGED <<listenerVars, box, wl, result, erred, late, taskVars, panic>> /\ CallFrame

TakeListener(x) ==
    /\ pc[x] = "take"
    /\ took' = [took EXCEPT ![x] = Registered(x)]
    /\ chans' = chans \ At(wl[x], Name[x])
    /\ Goto(x, IF In(wl[x]) \subseteq At(wl[x], Name[x]) THEN "purge" ELSE "close")
    /\ UNCHANGED <<registry, made, closed, box, wl, result, erred, late, taskVars, panic>> /\ CallFrame

\* Purge (mutant): the listener set is not removed.
PurgeNothing(x) ==
    /\ pc[x] = "purge"
    /\ Goto(x, "close")
    /\ UNCHANGED <<listenerVars, box, wl, took, result, erred, late, taskVars, panic>> /\ CallFrame

\* The registry's set, whichever it is by now, goes if it is empty.
Purge(x) ==
    /\ pc[x] = "purge"
    /\ registry' = IF In(registry) = {} THEN 0 ELSE registry
    /\ Goto(x, "close")
    /\ UNCHANGED <<made, chans, closed, box, wl, took, result, erred, late, taskVars, panic>> /\ CallFrame

\* Closing a closed channel panics.
Close(x) ==
    /\ pc[x] = "close"
    /\ closed' = closed \cup ({took[x]} \ {None})
    /\ panic' = IF took[x] \in closed THEN "close" ELSE panic
    /\ took' = [took EXCEPT ![x] = None]
    /\ Goto(x, "done")
    /\ UNCHANGED <<registry, made, chans, box, wl, result, erred, late, taskVars>> /\ CallFrame

CallStep(x) == \/ Acquire(x) \/ PushTask(x) \/ PushTaskError(x)
               \/ GetOrCreateListeners(x) \/ RegisterTaskListener(x)
               \/ Receive(x) \/ Watchdog(x) \/ Cancelled(x)
               \/ FindListeners(x) \/ TakeListener(x) \/ Purge(x) \/ Close(x)

(***************************************************************************)
(* Workers: one terminal event for each payload a worker finds.            *)
(***************************************************************************)
WorkFrame == UNCHANGED <<env, listenerVars, box, callVars, retryVars, watcher, cleaner, live,
                         ctxDone, groupVars, panic>>

Claim(ch) == /\ ch \in pending
             /\ pending' = pending \ {ch}
             /\ working' = working \cup {ch}
             /\ UNCHANGED events /\ WorkFrame

Report(ch, s) == /\ ch \in working
                 /\ s = "FAILED" => "fails" \in env.faults
                 /\ working' = working \ {ch}
                 /\ events' = events \cup {<<ch, s>>}
                 /\ UNCHANGED pending /\ WorkFrame

(***************************************************************************)
(* watchWorkflowStatus and notifyTaskListener, in one goroutine.           *)
(***************************************************************************)
WatchFrame == UNCHANGED <<env, listenerVars, callVars, pending, working, cleaner, ctxDone, groupVars>>

TaskName(ch) == Name[ch[1]]

\* An event of a task that is marked as failed is ignored.
IgnoreEvent(ev) ==
    /\ watcher.pc = "idle" /\ live = 1 /\ TaskName(ev[1]) \in failed
    /\ events' = events \ {ev}
    /\ UNCHANGED <<box, retryVars, watcher, live, panic>> /\ WatchFrame

\* TakeEvent (mutant) that leaves the event to be taken again.
TakeEventTwice(ev) ==
    /\ watcher.pc = "idle" /\ live = 1
    /\ watcher' = [Idle EXCEPT !.pc = "find", !.event = ev[1], !.status = ev[2]]
    /\ UNCHANGED <<events, box, retryVars, live, panic>> /\ WatchFrame

\* The result is recorded, and the listener is looked for.
TakeEvent(ev) ==
    /\ watcher.pc = "idle" /\ live = 1 /\ TaskName(ev[1]) \notin failed
    /\ events' = events \ {ev}
    /\ failed' = IF ev[2] = "FAILED" THEN failed \cup {TaskName(ev[1])} ELSE failed
    /\ watcher' = [Idle EXCEPT !.pc = "find", !.event = ev[1], !.status = ev[2]]
    /\ UNCHANGED <<box, retrying, attempts, live, panic>> /\ WatchFrame

\* What follows a notification: handleTaskFailed.
AfterNotify == IF watcher.status = "FAILED" THEN [watcher EXCEPT !.pc = "policy", !.ch = None]
               ELSE Idle

NotifyFinds ==
    /\ watcher.pc = "find"
    /\ watcher' = IF registry = 0 THEN AfterNotify
                  ELSE [watcher EXCEPT !.pc = "fetch", !.wl = registry]
    /\ UNCHANGED <<events, box, retryVars, live, panic>> /\ WatchFrame

NotifyFetches ==
    /\ watcher.pc = "fetch"
    /\ LET found == At(watcher.wl, TaskName(watcher.event))
       IN  watcher' = IF found = {} THEN AfterNotify
                      ELSE [watcher EXCEPT !.pc = "send", !.ch = (CHOOSE c \in chans : c \in found)[3]]
    /\ UNCHANGED <<events, box, retryVars, live, panic>> /\ WatchFrame

\* A full channel drops the payload, a closed one panics, and nobody reads
\* that of an earlier iteration.
NotifySends ==
    /\ watcher.pc = "send"
    /\ LET x == watcher.ch[1]
       IN  /\ panic' = IF watcher.ch \in closed THEN "send" ELSE panic
           /\ box' = IF watcher.ch = Channel(x) /\ box[x] = None
                     THEN [box EXCEPT ![x] = <<watcher.event, watcher.status>>] ELSE box
    /\ watcher' = AfterNotify
    /\ UNCHANGED <<events, retryVars, live>> /\ WatchFrame

\* The number of the next retry, if RetryCount < MaxRetries.
NextRetry(ch) ==
    {k \in 1..env.retries : \A j \in 1..env.retries : <<ch, j>> \in attempts <=> j < k}

\* The failure is retried by a goroutine of its own, though the call may have
\* been told of it.
HandleRetry ==
    /\ watcher.pc = "policy" /\ env.policy = "retry"
    /\ \E k \in NextRetry(watcher.event) : attempts' = attempts \cup {<<watcher.event, k>>}
    /\ retrying' = retrying \cup {<<watcher.event, "backoff">>}
    /\ watcher' = Idle
    /\ UNCHANGED <<failed, events, box, live, panic>> /\ WatchFrame

\* A failed task ends the run, also one that is out of retries.  Under the skip
\* policy the listener is then notified again, as if the task had completed.
HandleTaskFailed ==
    /\ watcher.pc = "policy"
    /\ env.policy = "retry" => NextRetry(watcher.event) = {}
    /\ live' = 0
    /\ watcher' = IF env.policy = "skip"
                  THEN [watcher EXCEPT !.pc = "find", !.status = "COMPLETED"] ELSE Idle
    /\ UNCHANGED <<events, box, retryVars, panic>> /\ WatchFrame

WatcherStep == \/ \E ev \in events : IgnoreEvent(ev) \/ TakeEvent(ev)
               \/ NotifyFinds \/ NotifyFetches \/ NotifySends
               \/ HandleRetry \/ HandleTaskFailed

(***************************************************************************)
(* RetryTask, in a goroutine per retry: the push after the backoff, under  *)
(* a key of its own, and then clearFailedTask.                             *)
(***************************************************************************)
RetryFrame == UNCHANGED <<env, listenerVars, box, callVars, working, events, attempts, watcher,
                          cleaner, ctxDone, groupVars, panic>>

RetryTask(ch) ==
    /\ <<ch, "backoff">> \in retrying /\ live = 1 /\ ctxDone = 0
    /\ pending' = pending \cup {ch}
    /\ retrying' = (retrying \ {<<ch, "backoff">>}) \cup {<<ch, "clear">>}
    /\ UNCHANGED <<failed, live>> /\ RetryFrame

\* The end of the run cancels the retry's context.  A push that fails, also
\* because the context is done, ends the run.
RetryStops(ch) ==
    /\ <<ch, "backoff">> \in retrying
    /\ \/ (live = 0 \/ ctxDone = 1) /\ UNCHANGED live
       \/ (ctxDone = 1 \/ "etcd" \in env.faults) /\ live' = 0
    /\ retrying' = retrying \ {<<ch, "backoff">>}
    /\ UNCHANGED <<failed, pending>> /\ RetryFrame

\* Until then the events of the retried task are ignored.
ClearFailedTask(ch) ==
    /\ <<ch, "clear">> \in retrying
    /\ failed' = failed \ {TaskName(ch)}
    /\ retrying' = retrying \ {<<ch, "clear">>}
    /\ UNCHANGED <<pending, live>> /\ RetryFrame

RetryStep == \E t \in retrying : RetryTask(t[1]) \/ RetryStops(t[1]) \/ ClearFailedTask(t[1])

(***************************************************************************)
(* What ends a run from outside: CancelWorkflow or the timeout, a failed   *)
(* asyncInitMySQL with its cleanupTaskListeners, and Shutdown.             *)
(***************************************************************************)
OutsideFrame == UNCHANGED <<env, made, box, callVars, taskVars, retryVars, watcher, groupVars>>

CancelWorkflow ==
    /\ "cancel" \in env.faults /\ live = 1
    /\ live' = 0
    /\ UNCHANGED <<registry, chans, closed, cleaner, ctxDone, panic>> /\ OutsideFrame

CleanupWorkflowState ==
    /\ "mysql" \in env.faults /\ cleaner.pc = "idle"
    /\ live' = 0 /\ registry' = 0
    /\ cleaner' = [pc |-> IF registry = 0 THEN "done" ELSE "close", wl |-> registry]
    /\ UNCHANGED <<chans, closed, ctxDone, panic>> /\ OutsideFrame

CleanupTaskListeners ==
    /\ cleaner.pc = "close"
    /\ LET found == {c[3] : c \in In(cleaner.wl)}
       IN  /\ closed' = closed \cup found
           /\ panic' = IF found \cap closed # {} THEN "close" ELSE panic
    /\ chans' = chans \ In(cleaner.wl)
    /\ cleaner' = [cleaner EXCEPT !.pc = "done"]
    /\ UNCHANGED <<registry, live, ctxDone>> /\ OutsideFrame

Shutdown ==
    /\ "shutdown" \in env.faults /\ ctxDone = 0
    /\ ctxDone' = 1
    /\ UNCHANGED <<registry, chans, closed, cleaner, live, panic>> /\ OutsideFrame

OutsideStep == CancelWorkflow \/ CleanupWorkflowState \/ CleanupTaskListeners \/ Shutdown

(***************************************************************************)
(* The group: executeGroups, executeAdvancedGroup, executeLoopGroup.       *)
(***************************************************************************)
GroupFrame == UNCHANGED <<env, listenerVars, wl, took, erred, late, taskVars, retryVars, watcher,
                          cleaner, ctxDone, panic>>

\* The sub-workflow is never submitted, so its tracker polls until a history
\* record of the UUID turns up or the root context is done.  The group does
\* not wait for it.
TrackSubWorkflow ==
    /\ env.sub = "tracked" /\ subResult = "none"
    /\ subResult' \in {"ok", "err"}
    /\ UNCHANGED <<box, pc, result, live, iteration, group>> /\ GroupFrame

AllDone == \A x \in Members(env) : pc[x] = "done"

GroupError == erred # {} \/ env.list = "missing" \/ subResult = "err"

\* The run is marked as failed, if it is still there.
GroupFails ==
    /\ group = "executing" /\ AllDone /\ GroupError
    /\ group' = "failed" /\ live' = 0
    /\ UNCHANGED <<box, pc, result, subResult, iteration>> /\ GroupFrame

\* runLoop leaves the iteration that is under way.
LoopCancelled ==
    /\ group = "executing" /\ env.iterations > 1 /\ ctxDone = 1
    /\ group' = "failed" /\ live' = 0
    /\ UNCHANGED <<box, pc, result, subResult, iteration>> /\ GroupFrame

\* The next group, or the end of the loop, for whatever reason it ends.
GroupEnds ==
    /\ group = "executing" /\ AllDone /\ ~GroupError
    /\ group' = IF live = 1 THEN "advanced" ELSE "gone"
    /\ UNCHANGED <<box, pc, result, live, subResult, iteration>> /\ GroupFrame

\* ContinueLoop (mutant) with an iteration too many.
ContinueLoopOnceMore == iteration <= env.iterations

\* shouldContinueLoop, whatever the output's condition key says.
ContinueLoop == iteration < env.iterations

\* The body of the next iteration looks for the run first.
NextIteration ==
    /\ group = "executing" /\ AllDone /\ ~GroupError
    /\ ContinueLoop /\ ctxDone = 0
    /\ IF live = 1
       THEN /\ iteration' = iteration + 1
            /\ pc' = Begin(env)
            /\ box' = [x \in Calls |-> None] /\ result' = [x \in Calls |-> None]
            /\ UNCHANGED group
       ELSE group' = "failed" /\ UNCHANGED <<iteration, pc, box, result>>
    /\ UNCHANGED <<live, subResult>> /\ GroupFrame

GroupStep == TrackSubWorkflow \/ GroupFails \/ LoopCancelled \/ GroupEnds \/ NextIteration

MasterStep == \/ \E x \in Calls : CallStep(x)
              \/ WatcherStep \/ RetryStep \/ GroupStep

WorkerStep == \/ \E ch \in pending : Claim(ch)
              \/ \E ch \in working, s \in Statuses : Report(ch, s)

Next == panic = "none" /\ (MasterStep \/ WorkerStep \/ OutsideStep)

\* The goroutines of the master go on.  Nothing is asked of the workers.
Spec == Init /\ [][Next]_vars /\ WF_vars(panic = "none" /\ MasterStep)
-----------------------------------------------------------------------------
TypeOK ==
    /\ env \in Environments
    /\ made \in Nat /\ registry \in 0..made
    /\ chans \subseteq (1..made) \X Names \X Channels
    /\ closed \subseteq Channels
    /\ box \in [Calls -> (Channels \X Statuses) \cup {None}]
    /\ pc \in [Calls -> Locations]
    /\ wl \in [Calls -> 0..made]
    /\ took \in [Calls -> Channels \cup {None}]
    /\ result \in [Calls -> Channels \cup {None}]
    /\ erred \subseteq Calls /\ late \subseteq Calls
    /\ pending \subseteq Channels /\ working \subseteq Channels
    /\ events \subseteq Channels \X Statuses
    /\ failed \subseteq Names /\ retrying \subseteq Channels \X {"backoff", "clear"}
    /\ attempts \subseteq Channels \X (1..env.retries)
    /\ watcher \in [pc : {"idle", "find", "fetch", "send", "policy"},
                    event : Channels \cup {None}, status : Statuses,
                    wl : 0..made, ch : Channels \cup {None}]
    /\ cleaner \in [pc : {"idle", "close", "done"}, wl : 0..made]
    /\ live \in {0, 1} /\ ctxDone \in {0, 1}
    /\ subResult \in {"none", "ok", "err"}
    /\ iteration \in 1..env.iterations
    /\ group \in {"executing", "advanced", "failed", "gone"}
    /\ panic \in {"none", "send", "close"}

Listening == {"lookup", "register", "wait", "unlookup", "take", "purge", "close"}

\* When no call of the group is under way, the registry holds no listener set
\* of the workflow: whatever the order in which calls register, overtake each
\* other's removal of the empty set and are cleaned up, nothing is left behind
\* (unregisterTaskListener, cleanupTaskListeners).
NoListenerLeft == (\A x \in Calls : pc[x] \notin Listening) => registry = 0

\* No channel is closed twice, by two calls of one name or by a call and
\* cleanupTaskListeners: "已清理的 channel 不会被重复关闭".
ClosedOnce == panic # "close"

\* Calls of one name may be under way together: an ordinary node beside another
\* call of its name, or items of a fan-out that do not run one after the other.
Overlapping ==
    \E x, y \in Members(env) :
        x # y /\ Name[x] = Name[y] /\ (env.parallel # 1 \/ x \in env.normal)

\* notifyTaskListener sends on a closed channel, which panics: its select with
\* a default does not make the close of unregisterTaskListener safe, as the
\* comment there says.  It happens only when a call gave up (watchdog, shutdown
\* or a clean-up) while its event was on its way, when calls of one name
\* overlap, when a skipped failure is notified twice, or when a task is retried
\* and a call was told of a failure.
PanicNeedsLateness ==
    panic = "send" =>
        \/ late # {} \/ cleaner.pc = "done"
        \/ Overlapping
        \/ env.policy = "skip" /\ "fails" \in env.faults
        \/ attempts # {} /\ erred # {}

\* A group that goes on was answered task by task: each call, also the items of
\* a fan-out that run one after the other and the iterations of a loop, which
\* share their names and listeners, got the event of its own payload, of the
\* first push or of a retry.
ResultsOwned ==
    group = "advanced" /\ ~Overlapping => \A x \in Members(env) : result[x] = Channel(x)

\* A group ends, whatever becomes of the workers, the run and the events,
\* unless the master panics.
GroupIsLeft == <>(group # "executing" \/ panic # "none")

=============================================================================
