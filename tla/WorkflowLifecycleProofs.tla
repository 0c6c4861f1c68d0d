----------------------- MODULE WorkflowLifecycleProofs -----------------------
(***************************************************************************)
(* Proofs about the life of a UUID, for every number of submissions,       *)
(* executors, operators and tasks, every plan and every fault:             *)
(*   - the entry the UUID maps to is always a live one (EntryIsLive);      *)
(*   - types (TypeOK);                                                     *)
(*   - with one submission, a completed run has the tasks of a last group  *)
(*     recorded (CompletedMeansAll), and an executor goes on only when its *)
(*     group is recorded (GroupBarrier).                                   *)
(*                                                                         *)
(* The argument for the first.  Goroutines act on the entry they fetched,  *)
(* which need not be the UUID's entry any more.  Two facts make that       *)
(* harmless: whoever ends a run also removes the UUID's entry, whichever   *)
(* it is, in the same critical section; and an entry that comes into the   *)
(* map is new, so nothing fetched, cancelled or archived before can be it. *)
(* The invariant therefore records that everything known so far is among   *)
(* the runs submitted so far.  The arguments for the others are where they *)
(* begin.                                                                  *)
(***************************************************************************)
EXTENDS WorkflowLifecycle, TLAPS

Known == 1..submitted \cup {None}

LiveInv ==
    /\ submitted \in 0..MaxRuns
    /\ running \in Known
    /\ history \subseteq Known
    /\ cancelled \subseteq Known
    /\ got \in [Procs -> Known]
    /\ status \in [Runs -> Status]
    /\ EntryIsLive

\* What the steps do to the invariant's variables, up to four shapes.
Kept == UNCHANGED <<submitted, running, history, cancelled, status>>

Ends ==
    /\ UNCHANGED submitted
    /\ running' = None
    /\ history' \subseteq Known /\ cancelled' \subseteq Known
    /\ status' \in [Runs -> Status]

Resumes ==
    /\ UNCHANGED <<submitted, running, history, cancelled>>
    /\ \E r \in Known, s \in {"RUNNING", "PAUSED"} : status' = [status EXCEPT ![r] = s]

\* A goroutine that lets go of its entry, fetches the UUID's, or keeps what
\* it has, holds a known run or none.
LEMMA GotKnown ==
    ASSUME LiveInv, NEW p, UNCHANGED submitted,
           \/ UNCHANGED got
           \/ got' = [got EXCEPT ![p] = None]
           \/ got' = [got EXCEPT ![p] = running]
    PROVE  got' \in [Procs -> Known']
  <1>1. Known' = Known
    BY DEF Known
  <1>2. None \in Known /\ running \in Known
    BY DEF LiveInv, Known
  <1> QED
    BY <1>1, <1>2 DEF LiveInv

\* What a goroutine fetched is known; outside Procs nothing is fetched.
LEMMA Fetched == ASSUME LiveInv, NEW p \in Procs PROVE got[p] \in Known
  BY DEF LiveInv

LEMMA KeptInv ==
    ASSUME LiveInv, Kept, got' \in [Procs -> Known'] PROVE LiveInv'
  BY DEF LiveInv, Kept, Known, EntryIsLive

LEMMA EndsInv ==
    ASSUME LiveInv, Ends, got' \in [Procs -> Known'] PROVE LiveInv'
  <1>1. Known' = Known
    BY DEF Ends, Known
  <1>2. running' \in Known'
    BY DEF Ends, Known
  <1> QED
    BY <1>1, <1>2 DEF LiveInv, Ends, EntryIsLive

LEMMA ResumesInv ==
    ASSUME LiveInv, Resumes, got' \in [Procs -> Known'] PROVE LiveInv'
  <1>1. Known' = Known
    BY DEF Resumes, Known
  <1>2. PICK r \in Known, s \in {"RUNNING", "PAUSED"} : status' = [status EXCEPT ![r] = s]
    BY DEF Resumes
  <1>3. status' \in [Runs -> Status]
    BY <1>2 DEF LiveInv, Status
  <1>4. ASSUME running # None PROVE status'[running] \in {"RUNNING", "PAUSED"}
    BY <1>2, <1>4 DEF LiveInv, EntryIsLive
  <1> QED
    BY <1>1, <1>3, <1>4 DEF LiveInv, Resumes, EntryIsLive

\* Persisting any fetched entry ends the UUID's.
LEMMA PersistEnds ==
    ASSUME LiveInv, NEW r \in Known, Persist(r), UNCHANGED submitted,
           UNCHANGED status \/ \E s \in Status : SetStatus(r, s)
    PROVE  Ends
  <1>1. status' \in [Runs -> Status]
    BY DEF LiveInv, SetStatus
  <1> QED
    BY <1>1 DEF LiveInv, Ends, Persist

\* The first half of LockEntry, and a fetched entry let go of.
LEMMA LookInv ==
    ASSUME LiveInv, NEW p, NEW here, NEW there, NEW nil, Look(p, here, there, nil)
    PROVE  LiveInv'
  <1>1. Kept
    BY DEF Look, Kept, mapVars, entryVars
  <1>2. got' \in [Procs -> Known']
    BY GotKnown DEF Look
  <1> QED
    BY <1>1, <1>2, KeptInv

\* A step that neither touches the UUID's entry nor any status.
LEMMA QuietInv ==
    ASSUME LiveInv, NEW p, UNCHANGED submitted, UNCHANGED mapVars, UNCHANGED status,
           UNCHANGED got \/ got' = [got EXCEPT ![p] = None]
    PROVE  LiveInv'
  <1>1. Kept
    BY DEF Kept, mapVars
  <1>2. got' \in [Procs -> Known']
    BY GotKnown
  <1> QED
    BY <1>1, <1>2, KeptInv

\* A step that persists a fetched entry, whatever status it gives it.
LEMMA PersistInv ==
    ASSUME LiveInv, NEW p \in Procs, Persist(got[p]), UNCHANGED submitted,
           UNCHANGED status \/ \E s \in Status : SetStatus(got[p], s),
           got' = [got EXCEPT ![p] = None]
    PROVE  LiveInv'
  <1>1. got[p] \in Known
    BY Fetched
  <1>2. Ends
    BY <1>1, PersistEnds
  <1>3. got' \in [Procs -> Known']
    BY GotKnown
  <1> QED
    BY <1>2, <1>3, EndsInv

LEMMA FailureInv ==
    ASSUME LiveInv, NEW p \in Procs, FailureStep(p)
    PROVE  LiveInv'
  <1>1. ASSUME NEW a, NEW b, NEW c, Look(p, a, b, c) PROVE LiveInv'
    BY <1>1, LookInv
  <1>2. CASE MarkFailed(p)
    BY <1>2, PersistInv DEF MarkFailed, GoReturn, Unlock, Status
  <1>3. CASE SagaStart(p)
    <2>1. CASE status[got[p]] \in {"ROLLING_BACK", "ROLLED_BACK", "FAILED"}
      BY <1>3, <2>1, QuietInv DEF SagaStart, GoReturn, Unlock
    <2>2. CASE status[got[p]] \notin {"ROLLING_BACK", "ROLLED_BACK", "FAILED"}
      BY <1>3, <2>2, PersistInv DEF SagaStart, Unlock, Status
    <2> QED
      BY <2>1, <2>2
  <1>4. CASE SagaCollect(p)
    BY <1>4, QuietInv DEF SagaCollect, entryVars
  <1>5. CASE MarkRolledBack(p)
    BY <1>5, PersistInv DEF MarkRolledBack, GoReturn, Unlock, Status
  <1>6. CASE Handle(p)
    BY <1>6, QuietInv DEF Handle, entryVars
  <1>7. CASE SkipTask(p)
    BY <1>7, PersistInv DEF SkipTask, Unlock
  <1>8. CASE SkipNotify(p)
    BY <1>8, QuietInv DEF SkipNotify, entryVars
  <1> QED
    BY <1>1, <1>2, <1>3, <1>4, <1>5, <1>6, <1>7, <1>8 DEF FailureStep

LEMMA ExecutorInv ==
    ASSUME LiveInv, NEW e \in Executors, ExecutorStep(e)
    PROVE  LiveInv'
  <1> DEFINE p == Executor(e)
  <1>p. p \in Procs
    BY DEF Procs
  <1>1. ASSUME NEW a, NEW b, NEW c, Look(p, a, b, c) PROVE LiveInv'
    BY <1>1, LookInv
  <1>2. CASE ExecuteGone(e) \/ Execute(e)
    BY <1>2, QuietInv DEF ExecuteGone, Execute, entryVars
  <1>3. ASSUME NEW t \in Tasks,
               PushTask(e, t) \/ PushTaskError(e, t) \/ RegisterTaskListener(e, t)
        PROVE  LiveInv'
    BY <1>3, QuietInv DEF PushTask, PushTaskError, RegisterTaskListener, entryVars
  <1>4. ASSUME NEW t \in Tasks, TaskSucceeds(e, t) \/ TaskFails(e, t) \/ Watchdog(e, t)
        PROVE  LiveInv'
    BY <1>4, QuietInv DEF TaskSucceeds, TaskFails, Watchdog, TaskResult, entryVars
  <1>5. CASE GroupFailed(e) \/ GroupGone(e) \/ Advance(e)
    BY <1>5, QuietInv DEF GroupFailed, GroupGone, Advance, entryVars
  <1>6. CASE MarkGroupFailed(e)
    BY <1>6, <1>p, PersistInv DEF MarkGroupFailed, Unlock, Status
  <1>7. CASE FinishWorkflow(e)
    BY <1>7, <1>p, PersistInv DEF FinishWorkflow, Unlock, Status
  <1>8. CASE PauseForApproval(e)
    <2>1. Resumes
      BY <1>8, <1>p, Fetched DEF PauseForApproval, SetStatus, Resumes, mapVars
    <2>2. got' \in [Procs -> Known']
      BY <1>8, GotKnown DEF PauseForApproval, Unlock
    <2> QED
      BY <2>1, <2>2, ResumesInv
  <1> QED
    BY <1>1, <1>2, <1>3, <1>4, <1>5, <1>6, <1>7, <1>8 DEF ExecutorStep

LEMMA RetryInv ==
    ASSUME LiveInv, NEW r \in Runs, NEW t \in Tasks, RetryStep(r, t)
    PROVE  LiveInv'
  <1> DEFINE p == Retrier(r, t)
  <1>p. p \in Procs
    BY DEF Procs
  <1>1. CASE RetryPush(r, t) \/ RetryCancelled(r, t) \/ RetryError(r, t)
    BY <1>1, QuietInv DEF RetryPush, RetryCancelled, RetryError, entryVars
  <1>2. CASE Look(p, "clrLook", "clrAct", "idle")
    BY <1>2, LookInv
  <1>3. CASE ClearFailedTask(r, t)
    BY <1>3, QuietInv DEF ClearFailedTask, Unlock
  <1>4. CASE FailureStep(p)
    BY <1>4, <1>p, FailureInv
  <1> QED
    BY <1>1, <1>2, <1>3, <1>4 DEF RetryStep

LEMMA WatcherInv ==
    ASSUME LiveInv, NEW r \in Runs, WatcherStep(r)
    PROVE  LiveInv'
  <1> DEFINE p == Watcher(r)
  <1>p. p \in Procs
    BY DEF Procs, Watchers
  <1>1. ASSUME NEW a, NEW b, NEW c, Look(p, a, b, c) PROVE LiveInv'
    BY <1>1, LookInv
  <1>2. CASE RegisterWatcher(r)
    BY <1>2, QuietInv DEF RegisterWatcher, entryVars
  <1>3. ASSUME WatcherExit(r) PROVE LiveInv'
    BY <1>3, QuietInv DEF WatcherExit, entryVars
  <1>4. CASE WatcherDone(r)
    BY <1>3, <1>4 DEF WatcherDone
  <1>5. ASSUME NEW k \in out, TaskCompleted(r, k) \/ TaskFailed(r, k) PROVE LiveInv'
    <2>1. PICK next : TakeEvent(r, k, next)
      BY <1>5 DEF TaskCompleted, TaskFailed
    <2> QED
      BY <1>3, <2>1, QuietInv DEF TakeEvent, entryVars
  <1>6. ASSUME NEW t \in rbOut, TakeRollback(r, t) PROVE LiveInv'
    BY <1>3, <1>6, QuietInv DEF TakeRollback, entryVars
  <1>7. CASE RecordTaskCompleted(r) \/ RecordTaskFailed(r)
    BY <1>7, QuietInv DEF RecordTaskCompleted, RecordTaskFailed, Unlock
  <1>8. CASE NotifyListener(r) \/ HandleRetry(r)
    BY <1>8, QuietInv DEF NotifyListener, HandleRetry, entryVars
  <1>9. CASE RollbackCompleted(r)
    BY <1>9, <1>p, PersistInv DEF RollbackCompleted, Unlock
  <1>10. CASE FailureStep(p)
    BY <1>10, <1>p, FailureInv
  <1> QED
    BY <1>1, <1>2, <1>4, <1>5, <1>6, <1>7, <1>8, <1>9, <1>10 DEF WatcherStep

LEMMA TimerInv ==
    ASSUME LiveInv, NEW r \in Runs, TimerStep(r)
    PROVE  LiveInv'
  <1> DEFINE p == Timer(r)
  <1>p. p \in Procs
    BY DEF Procs
  <1>1. CASE TimerStops(r)
    BY <1>1, QuietInv DEF TimerStops, entryVars
  <1>2. CASE Look(p, "armed", "tmAct", "idle")
    BY <1>2, LookInv
  <1>3. CASE Timeout(r)
    <2>1. CASE Active(got[p])
      BY <1>3, <2>1, <1>p, PersistInv DEF Timeout, Unlock, entryVars
    <2>2. CASE ~Active(got[p])
      BY <1>3, <2>2, QuietInv DEF Timeout, Unlock, entryVars
    <2> QED
      BY <2>1, <2>2
  <1>4. CASE FailureStep(p)
    BY <1>4, <1>p, FailureInv
  <1> QED
    BY <1>1, <1>2, <1>3, <1>4 DEF TimerStep

LEMMA OperatorInv ==
    ASSUME LiveInv, NEW o \in Operators,
           Request(Operator(o)) \/ OperatorStep(o)
    PROVE  LiveInv'
  <1> DEFINE p == Operator(o)
  <1>p. p \in Procs
    BY DEF Procs
  <1>1. ASSUME NEW a, NEW b, NEW c, Look(p, a, b, c) PROVE LiveInv'
    BY <1>1, LookInv
  <1>2. CASE Request(p)
    BY <1>1, <1>2 DEF Request
  <1>3. CASE CancelWorkflow(p)
    <2>1. CASE Active(got[p])
      BY <1>3, <2>1, <1>p, PersistInv DEF CancelWorkflow, Unlock, entryVars
    <2>2. CASE ~Active(got[p])
      BY <1>3, <2>2, QuietInv DEF CancelWorkflow, Unlock, entryVars
    <2> QED
      BY <2>1, <2>2
  <1>4. CASE RejectWorkflow(p)
    BY <1>4, QuietInv DEF RejectWorkflow, Unlock, entryVars
  <1>5. CASE ApproveRefused(p)
    BY <1>5, QuietInv DEF ApproveRefused, Unlock, entryVars
  <1>6. ASSUME NEW e \in Executors, ApproveWorkflow(p, e) PROVE LiveInv'
    <2>1. Resumes
      BY <1>6, <1>p, Fetched DEF ApproveWorkflow, SetStatus, Resumes, mapVars
    <2>2. got' \in [Procs -> Known']
      BY <1>6, GotKnown DEF ApproveWorkflow
    <2> QED
      BY <2>1, <2>2, ResumesInv
  <1>7. CASE ApproveLast(p)
    BY <1>7, <1>p, PersistInv DEF ApproveLast, Unlock, Status
  <1>8. CASE FailureStep(p)
    BY <1>8, <1>p, FailureInv
  <1> QED
    BY <1>1, <1>2, <1>3, <1>4, <1>5, <1>6, <1>7, <1>8 DEF OperatorStep

LEMMA RollbackInv ==
    ASSUME LiveInv, NEW t \in Tasks, RollbackStep(t)
    PROVE  LiveInv'
  <1> DEFINE p == Rollbacker(t)
  <1>p. p \in Procs
    BY DEF Procs
  <1>1. ASSUME NEW a, NEW b, NEW c, Look(p, a, b, c) PROVE LiveInv'
    BY <1>1, LookInv
  <1>2. CASE PushRollbackTask(t)
    BY <1>2, QuietInv DEF PushRollbackTask, entryVars
  <1>3. CASE RollbackSeen(t)
    BY <1>3, QuietInv DEF RollbackSeen, Unlock, entryVars
  <1>4. CASE RollbackTimeout(t)
    BY <1>4, <1>p, PersistInv DEF RollbackTimeout, Unlock
  <1> QED
    BY <1>1, <1>2, <1>3, <1>4 DEF RollbackStep

\* The new entry is none of those known.
LEMMA SubmitInv ==
    ASSUME LiveInv, NEW e \in Executors, Submit(e)
    PROVE  LiveInv'
  <1> DEFINE r == submitted + 1
  <1>1. submitted' = r /\ running' = r /\ r \in Runs /\ r \in Nat
    BY RunsAssumption DEF LiveInv, Submit, Runs
  <1>2. submitted' \in 0..MaxRuns
    BY <1>1, RunsAssumption DEF LiveInv, Runs
  <1>3. Known \subseteq Known' /\ r \in Known' /\ r \notin Known /\ r # None
    BY <1>1, RunsAssumption DEF LiveInv, Known
  <1>4. history' = history /\ cancelled' = cancelled /\ got' = got
        /\ status' = [status EXCEPT ![r] = "RUNNING"]
    BY DEF Submit, SetStatus
  <1>5. history' \subseteq Known' /\ cancelled' \subseteq Known'
    BY <1>3, <1>4 DEF LiveInv
  <1>6. got' \in [Procs -> Known']
    BY <1>3, <1>4 DEF LiveInv
  <1>7. status' \in [Runs -> Status] /\ status'[r] = "RUNNING"
    BY <1>1, <1>4 DEF LiveInv, Status
  <1>8. EntryIsLive'
    BY <1>1, <1>3, <1>4, <1>7 DEF LiveInv, EntryIsLive
  <1> QED
    BY <1>1, <1>2, <1>3, <1>5, <1>6, <1>7, <1>8 DEF LiveInv

\* RetryWorkflow takes a run out of the history.
LEMMA RetryWorkflowInv ==
    ASSUME LiveInv, NEW e \in Executors, RetryWorkflow(e)
    PROVE  LiveInv'
  <1>1. Known' = Known
    BY DEF RetryWorkflow, Known
  <1>2. history' \subseteq history
    BY DEF RetryWorkflow
  <1> QED
    BY <1>1, <1>2 DEF RetryWorkflow, LiveInv, EntryIsLive, entryVars

\* cleanupWorkflowState removes the entry without archiving it.
LEMMA InitialiserInv ==
    ASSUME LiveInv, NEW r \in Runs, InitStep(r)
    PROVE  LiveInv'
  <1>1. CASE InitOk(r) \/ CleanupWatcher(r) \/ CleanupTaskListeners(r)
    BY <1>1, QuietInv DEF InitOk, CleanupWatcher, CleanupTaskListeners, entryVars
  <1>2. CASE InitFailed(r)
    <2>1. Ends
      BY <1>2 DEF InitFailed, LiveInv, Ends, entryVars
    <2>2. got' \in [Procs -> Known']
      BY <1>2, GotKnown DEF InitFailed
    <2> QED
      BY <2>1, <2>2, EndsInv
  <1> QED
    BY <1>1, <1>2 DEF InitStep

LEMMA NextInv == LiveInv /\ [Next]_vars => LiveInv'
  <1> SUFFICES ASSUME LiveInv, [Next]_vars PROVE LiveInv'
    OBVIOUS
  <1>1. ASSUME NEW e \in Executors, RetryWorkflow(e) \/ Submit(e) \/ ExecutorStep(e)
        PROVE  LiveInv'
    BY <1>1, RetryWorkflowInv, SubmitInv, ExecutorInv
  <1>2. ASSUME NEW r \in Runs, InitStep(r) \/ WatcherStep(r) \/ TimerStep(r)
        PROVE  LiveInv'
    BY <1>2, InitialiserInv, WatcherInv, TimerInv
  <1>3. ASSUME NEW r \in Runs, NEW t \in Tasks, RetryStep(r, t) PROVE LiveInv'
    BY <1>3, RetryInv
  <1>4. ASSUME NEW o \in Operators, Request(Operator(o)) \/ OperatorStep(o) PROVE LiveInv'
    BY <1>4, OperatorInv
  <1>5. ASSUME NEW t \in Tasks, RollbackStep(t) PROVE LiveInv'
    BY <1>5, RollbackInv
  <1>6. CASE FailureStep(Evictor)
    <2>1. Evictor \in Procs
      BY DEF Procs
    <2> QED
      BY <1>6, <2>1, FailureInv
  <1>7. ASSUME NEW k \in out, Evict(k) \/ Lost(k) PROVE LiveInv'
    BY <1>7, QuietInv DEF Evict, Lost, entryVars
  <1>8. CASE UNCHANGED vars
    BY <1>8, QuietInv DEF vars, entryVars
  <1> QED
    BY <1>1, <1>2, <1>3, <1>4, <1>5, <1>6, <1>7, <1>8 DEF Next

\* Whatever happens to the UUID's runs in whichever order, the entry it maps
\* to has not been archived, cancelled or ended (LockEntry,
\* PersistWorkflowLocked, SubmitWorkflow, cleanupWorkflowState).
THEOREM EntryAlwaysLive == Spec => []EntryIsLive
  <1>1. Init => LiveInv
    BY RunsAssumption DEF Init, LiveInv, Known, EntryIsLive, Status, Runs
  <1>2. LiveInv => EntryIsLive
    BY DEF LiveInv
  <1> QED
    BY <1>1, <1>2, NextInv, PTL DEF Spec

(***************************************************************************)
(* Types.  A goroutine in a critical section holds an entry it fetched,    *)
(* and one that records or announces a task has one: only with that is     *)
(* what it writes a run and a task of the workflow.                        *)
(***************************************************************************)

\* Where a goroutine holds the entry it fetched.
Holding ==
    {"failAct", "pauseAct", "finAct", "recOkAct", "recErrAct", "skipAct", "mfAct", "sgAct",
     "rbAct", "hrAct", "tmAct", "clrAct", "cancelAct", "approveAct", "apAct", "rejectAct",
     "rbPoll", "rtAct"}

\* Where a goroutine deals with a task of the workflow.
Naming ==
    {"recOkLook", "recOkAct", "recErrLook", "recErrAct", "notifyOk", "notifyErr",
     "skipLook", "skipAct", "skipNotify", "hrLook", "hrAct"}

GotHeld == \A p \in Procs : pc[p] \in Holding => got[p] # None
TaskHeld == \A p \in Procs : pc[p] \in Naming => task[p] # None

EntryTypes ==
    /\ submitted \in 0..MaxRuns
    /\ running \in Runs \cup {None}
    /\ status \in [Runs -> Status]
    /\ completed \in [Runs -> SUBSET Tasks]
    /\ failed \in [Runs -> SUBSET (Tasks \cup {None})]
    /\ rolledBack \in [Runs -> SUBSET Tasks]
    /\ pausedIdx \in [Runs -> Nat]
    /\ history \subseteq Runs
    /\ cancelled \subseteq Runs

WorkTypes ==
    /\ out \subseteq Tasks \X (0..MaxRetries)
    /\ rbOut \subseteq Tasks
    /\ listener \in [Tasks -> Executors \cup {None}]
    /\ watching \in Runs \cup {None}
    /\ closedWatch \subseteq Runs
    /\ path \in [Executors -> Paths]
    /\ idx \in [Executors -> Nat]
    /\ res \in [Executors -> [Tasks -> Progress]]

ProcTypes ==
    /\ pc \in [Procs -> Labels]
    /\ got \in [Procs -> Runs \cup {None}]
    /\ task \in [Procs -> Tasks \cup {None}]
    /\ attempt \in [Procs -> 0..MaxRetries]
    /\ GotHeld
    /\ TaskHeld

TypeInv == EntryTypes /\ WorkTypes /\ ProcTypes

LEMMA TypeInvTypes == TypeInv => TypeOK
  BY DEF TypeInv, EntryTypes, WorkTypes, ProcTypes, TypeOK

LEMMA EntryKept ==
    ASSUME TypeInv, UNCHANGED submitted, UNCHANGED mapVars, UNCHANGED entryVars
    PROVE  EntryTypes'
  BY DEF TypeInv, EntryTypes, mapVars, entryVars

LEMMA WorkKept ==
    ASSUME TypeInv, UNCHANGED taskVars, UNCHANGED watchVars, UNCHANGED execVars
    PROVE  WorkTypes'
  BY DEF TypeInv, WorkTypes, taskVars, watchVars, execVars

\* A goroutine goes to a label outside the critical sections.
LEMMA ProcMoves ==
    ASSUME TypeInv, NEW p \in Procs, NEW l \in Labels \ Holding, Goto(p, l),
           UNCHANGED got \/ got' = [got EXCEPT ![p] = None],
           UNCHANGED payloadVars, l \in Naming => task[p] # None
    PROVE  ProcTypes'
  <1>1. pc' \in [Procs -> Labels] /\ got' \in [Procs -> Runs \cup {None}]
    BY DEF TypeInv, ProcTypes, Goto
  <1>2. GotHeld'
    BY DEF TypeInv, ProcTypes, Goto, GotHeld
  <1>3. TaskHeld'
    BY DEF TypeInv, ProcTypes, Goto, TaskHeld, payloadVars
  <1> QED
    BY <1>1, <1>2, <1>3 DEF TypeInv, ProcTypes, payloadVars

LEMMA ProcKept ==
    ASSUME TypeInv, UNCHANGED pc, UNCHANGED got, UNCHANGED payloadVars
    PROVE  ProcTypes'
  BY DEF TypeInv, ProcTypes, payloadVars, GotHeld, TaskHeld

\* Where a call returns to.
LEMMA ReturnLabel == ASSUME NEW p PROVE Return(p) \in (Labels \ Holding) \ Naming
  BY DEF Return, Labels, Holding, Naming

\* The first half of LockEntry.
LEMMA LookTypes ==
    ASSUME TypeInv, NEW p \in Procs, NEW here \in Labels, NEW there \in Labels,
           NEW nil \in Labels \ Holding, Look(p, here, there, nil),
           there \in Naming \/ nil \in Naming => here \in Naming
    PROVE  TypeInv'
  <1>1. EntryTypes' /\ WorkTypes'
    BY EntryKept, WorkKept DEF Look
  <1>2. pc' \in [Procs -> Labels] /\ got' \in [Procs -> Runs \cup {None}]
    BY DEF TypeInv, ProcTypes, EntryTypes, Look, Goto
  <1>3. GotHeld'
    BY DEF TypeInv, ProcTypes, Look, Goto, GotHeld
  <1>4. TaskHeld'
    BY DEF TypeInv, ProcTypes, Look, Goto, TaskHeld, payloadVars
  <1> QED
    BY <1>1, <1>2, <1>3, <1>4 DEF TypeInv, ProcTypes, Look, payloadVars

\* A step inside a critical section: what is held is a run.
LEMMA HeldRun == ASSUME TypeInv, NEW p \in Procs, pc[p] \in Holding PROVE got[p] \in Runs
  BY DEF TypeInv, ProcTypes, GotHeld

LEMMA NamedTask == ASSUME TypeInv, NEW p \in Procs, pc[p] \in Naming PROVE task[p] \in Tasks
  BY DEF TypeInv, ProcTypes, TaskHeld

LEMMA PersistTypes ==
    ASSUME TypeInv, NEW r \in Runs, Persist(r), UNCHANGED submitted, UNCHANGED pausedIdx,
           UNCHANGED status \/ \E s \in Status : SetStatus(r, s),
           completed' \in [Runs -> SUBSET Tasks],
           failed' \in [Runs -> SUBSET (Tasks \cup {None})],
           rolledBack' \in [Runs -> SUBSET Tasks]
    PROVE  EntryTypes'
  BY DEF TypeInv, EntryTypes, Persist, SetStatus

\* Persisting with a new status, or with the one it has.
LEMMA PersistKept ==
    ASSUME TypeInv, NEW p \in Procs, pc[p] \in Holding, Persist(got[p]), UNCHANGED submitted,
           UNCHANGED status \/ \E s \in Status : SetStatus(got[p], s),
           UNCHANGED <<completed, failed, rolledBack, pausedIdx>>
    PROVE  EntryTypes'
  <1>1. got[p] \in Runs
    BY HeldRun
  <1> QED
    BY <1>1, PersistTypes DEF TypeInv, EntryTypes

\* A listener's channel gets a payload or is closed.
LEMMA NotifyTypes ==
    ASSUME TypeInv, NEW t \in Tasks, NEW s \in Progress, Notify(t, s),
           UNCHANGED <<taskVars, watchVars, path, idx, listener>>
    PROVE  WorkTypes'
  <1>1. res' \in [Executors -> [Tasks -> Progress]]
    BY DEF TypeInv, WorkTypes, Notify
  <1> QED
    BY <1>1 DEF TypeInv, WorkTypes, taskVars, watchVars

LEMMA FailureTypes ==
    ASSUME TypeInv, NEW p \in Procs, FailureStep(p)
    PROVE  TypeInv'
  <1>r. Return(p) \in (Labels \ Holding) \ Naming
    BY ReturnLabel
  <1>1. CASE Look(p, "mfLook", "mfAct", Return(p)) \/ Look(p, "sgLook", "sgAct", Return(p))
             \/ Look(p, "rbLook", "rbAct", Return(p))
    <2>1. PICK a \in Labels, b \in Labels \ Naming : Look(p, a, b, Return(p))
      BY <1>1 DEF Labels, Naming
    <2> QED
      BY <1>r, <2>1, LookTypes
  <1>2. CASE Look(p, "skipLook", "skipAct", "skipNotify")
    <2>1. /\ {"skipLook", "skipAct"} \subseteq Labels
          /\ "skipNotify" \in Labels \ Holding /\ "skipLook" \in Naming
      BY DEF Labels, Holding, Naming
    <2> QED
      BY <1>2, <2>1, LookTypes
  <1>3. CASE MarkFailed(p)
    <2>1. pc[p] \in Holding /\ got[p] \in Runs
      BY <1>3, HeldRun DEF MarkFailed, Holding
    <2>2. failed' \in [Runs -> SUBSET (Tasks \cup {None})]
      BY <1>3 DEF MarkFailed, TypeInv, EntryTypes, ProcTypes
    <2>3. EntryTypes'
      <3>1. SetStatus(got[p], "FAILED") /\ "FAILED" \in Status
        BY <1>3 DEF MarkFailed, Status
      <3> QED
        BY <1>3, <2>1, <2>2, <3>1, PersistTypes DEF MarkFailed, TypeInv, EntryTypes
    <2>4. WorkTypes'
      BY <1>3, WorkKept DEF MarkFailed
    <2>5. ProcTypes'
      BY <1>3, <1>r, ProcMoves DEF MarkFailed, GoReturn, Unlock
    <2> QED
      BY <2>3, <2>4, <2>5 DEF TypeInv
  <1>4. CASE SagaStart(p)
    <2>1. pc[p] \in Holding
      BY <1>4 DEF SagaStart, Holding
    <2>2. WorkTypes'
      BY <1>4, WorkKept DEF SagaStart
    <2>3. CASE status[got[p]] \in {"ROLLING_BACK", "ROLLED_BACK", "FAILED"}
      <3>1. EntryTypes'
        BY <1>4, <2>3, EntryKept DEF SagaStart, entryVars
      <3>2. ProcTypes'
        BY <1>4, <2>3, <1>r, ProcMoves DEF SagaStart, GoReturn, Unlock
      <3> QED
        BY <2>2, <3>1, <3>2 DEF TypeInv
    <2>4. CASE status[got[p]] \notin {"ROLLING_BACK", "ROLLED_BACK", "FAILED"}
      <3>1. EntryTypes'
        BY <1>4, <2>1, <2>4, PersistKept DEF SagaStart, Status
      <3>2. ProcTypes'
        BY <1>4, <2>4, ProcMoves DEF SagaStart, Unlock, Labels, Holding, Naming
      <3> QED
        BY <2>2, <3>1, <3>2 DEF TypeInv
    <2> QED
      BY <2>3, <2>4
  <1>5. CASE SagaCollect(p)
    <2>1. EntryTypes' /\ WorkTypes'
      BY <1>5, EntryKept, WorkKept DEF SagaCollect
    <2>2. \A q \in Procs : pc'[q] = pc[q] \/ pc'[q] \in {"rbLook", "rbPush", Return(p)}
      BY <1>5 DEF SagaCollect
    <2>3. pc' = [q \in Procs |-> pc'[q]]
      BY <1>5 DEF SagaCollect
    <2>4. {"rbLook", "rbPush", Return(p)} \subseteq (Labels \ Holding) \ Naming
      BY <1>r DEF Labels, Holding, Naming
    <2>5. pc' \in [Procs -> Labels]
      BY <2>2, <2>3, <2>4 DEF TypeInv, ProcTypes
    <2>6. GotHeld' /\ TaskHeld'
      BY <1>5, <2>2, <2>4 DEF SagaCollect, TypeInv, ProcTypes, GotHeld, TaskHeld, payloadVars
    <2> QED
      BY <1>5, <2>1, <2>5, <2>6 DEF SagaCollect, TypeInv, ProcTypes, payloadVars
  <1>6. CASE MarkRolledBack(p)
    <2>1. pc[p] \in Holding
      BY <1>6 DEF MarkRolledBack, Holding
    <2>2. EntryTypes'
      BY <1>6, <2>1, PersistKept DEF MarkRolledBack, Status
    <2>3. WorkTypes'
      BY <1>6, WorkKept DEF MarkRolledBack
    <2>4. ProcTypes'
      BY <1>6, <1>r, ProcMoves DEF MarkRolledBack, GoReturn, Unlock
    <2> QED
      BY <2>2, <2>3, <2>4 DEF TypeInv
  <1>7. CASE Handle(p)
    <2>1. EntryTypes' /\ WorkTypes'
      BY <1>7, EntryKept, WorkKept DEF Handle
    <2>2. PICK l \in {"mfLook", "skipLook", "sgLook"} :
             Goto(p, l) /\ (l = "skipLook" => task[p] # None)
      BY <1>7 DEF Handle
    <2>3. l \in Labels \ Holding
      BY <2>2 DEF Labels, Holding
    <2>4. l \in Naming => task[p] # None
      BY <2>2 DEF Naming
    <2>5. ProcTypes'
      BY <1>7, <2>2, <2>3, <2>4, ProcMoves DEF Handle
    <2> QED
      BY <2>1, <2>5 DEF TypeInv
  <1>8. CASE SkipTask(p)
    <2>1. got[p] \in Runs /\ task[p] \in Tasks
      BY <1>8, HeldRun, NamedTask DEF SkipTask, Holding, Naming
    <2>2. completed' \in [Runs -> SUBSET Tasks] /\ failed' \in [Runs -> SUBSET (Tasks \cup {None})]
      BY <1>8, <2>1 DEF SkipTask, TypeInv, EntryTypes
    <2>3. EntryTypes'
      BY <1>8, <2>1, <2>2, PersistTypes DEF SkipTask, TypeInv, EntryTypes
    <2>4. WorkTypes'
      BY <1>8, WorkKept DEF SkipTask
    <2>5. task[p] # None
      BY <2>1, TasksAssumption
    <2>6. ProcTypes'
      BY <1>8, <2>5, ProcMoves DEF SkipTask, Unlock, Labels, Holding
    <2> QED
      BY <2>3, <2>4, <2>6 DEF TypeInv
  <1>9. CASE SkipNotify(p)
    <2>1. task[p] \in Tasks
      BY <1>9, NamedTask DEF SkipNotify, Naming
    <2>2. EntryTypes'
      BY <1>9, EntryKept DEF SkipNotify
    <2>3. WorkTypes'
      BY <1>9, <2>1, NotifyTypes DEF SkipNotify, Progress
    <2>4. ProcTypes'
      BY <1>9, <1>r, ProcMoves DEF SkipNotify
    <2> QED
      BY <2>2, <2>3, <2>4 DEF TypeInv
  <1> QED
    BY <1>1, <1>2, <1>3, <1>4, <1>5, <1>6, <1>7, <1>8, <1>9 DEF FailureStep

\* The channel of a task's listener is closed.
LEMMA UnregisterTypes ==
    ASSUME TypeInv, NEW e \in Executors, NEW t \in Tasks, NEW s \in Progress, TaskResult(e, t, s)
    PROVE  TypeInv'
  <1> DEFINE rs == [res EXCEPT ![e][t] = s]
  <1>1. rs \in [Executors -> [Tasks -> Progress]]
    BY DEF TypeInv, WorkTypes
  <1>2. Unregister(t, rs)
    BY DEF TaskResult
  <1> HIDE DEF rs
  <1>3. res' \in [Executors -> [Tasks -> Progress]]
    BY <1>1, <1>2 DEF Unregister, TypeInv, WorkTypes, Progress
  <1>4. listener' \in [Tasks -> Executors \cup {None}]
    BY <1>2 DEF Unregister, TypeInv, WorkTypes
  <1>5. WorkTypes'
    BY <1>3, <1>4 DEF TaskResult, TypeInv, WorkTypes, taskVars, watchVars
  <1>6. EntryTypes' /\ ProcTypes'
    BY EntryKept, ProcKept DEF TaskResult
  <1> QED
    BY <1>5, <1>6 DEF TypeInv

\* A group is pushed, or its results are collected.
LEMMA LaunchTypes ==
    ASSUME TypeInv, NEW e \in Executors, NEW p \in Paths, NEW i \in Nat, Launch(e, p, i),
           UNCHANGED <<submitted, mapVars, entryVars, taskVars, watchVars, got, payloadVars>>
    PROVE  TypeInv'
  <1>1. EntryTypes'
    BY EntryKept
  <1>2. WorkTypes'
    BY DEF Launch, TypeInv, WorkTypes, taskVars, watchVars, Progress
  <1>3. Executor(e) \in Procs
    BY DEF Procs
  <1>4. ProcTypes'
    BY <1>3, ProcMoves DEF Launch, Labels, Holding, Naming
  <1> QED
    BY <1>1, <1>2, <1>4 DEF TypeInv

LEMMA CollectedTypes ==
    ASSUME TypeInv, NEW e \in Executors, NEW l \in (Labels \ Holding) \ Naming, Collected(e, l),
           UNCHANGED <<submitted, mapVars, entryVars, taskVars, watchVars, got, payloadVars>>
    PROVE  TypeInv'
  <1>1. EntryTypes'
    BY EntryKept
  <1>2. WorkTypes'
    BY DEF Collected, TypeInv, WorkTypes, taskVars, watchVars, Progress
  <1>3. Executor(e) \in Procs
    BY DEF Procs
  <1>4. ProcTypes'
    BY <1>3, ProcMoves DEF Collected
  <1> QED
    BY <1>1, <1>2, <1>4 DEF TypeInv

LEMMA ExecutorTypes ==
    ASSUME TypeInv, NEW e \in Executors, ExecutorStep(e)
    PROVE  TypeInv'
  <1> DEFINE p == Executor(e)
  <1>p. p \in Procs
    BY DEF Procs
  <1>i. path[e] \in Paths /\ idx[e] \in Nat
    BY DEF TypeInv, WorkTypes
  <1>1. CASE ExecuteGone(e)
    <2>1. EntryTypes' /\ WorkTypes'
      BY <1>1, EntryKept, WorkKept DEF ExecuteGone
    <2>2. ProcTypes'
      BY <1>1, <1>p, ProcMoves DEF ExecuteGone, Labels, Holding, Naming
    <2> QED
      BY <2>1, <2>2 DEF TypeInv
  <1>2. CASE Execute(e)
    BY <1>2, <1>i, LaunchTypes DEF Execute
  <1>3. ASSUME NEW t \in Tasks,
               PushTask(e, t) \/ PushTaskError(e, t) \/ RegisterTaskListener(e, t)
        PROVE  TypeInv'
    <2>1. EntryTypes' /\ ProcTypes'
      BY <1>3, EntryKept, ProcKept DEF PushTask, PushTaskError, RegisterTaskListener
    <2>2. WorkTypes'
      <3>1. PICK s \in Progress : res' = [res EXCEPT ![e][t] = s]
        BY <1>3 DEF PushTask, PushTaskError, RegisterTaskListener, Progress
      <3>2. res' \in [Executors -> [Tasks -> Progress]]
        BY <3>1 DEF TypeInv, WorkTypes
      <3>3. out' \subseteq Tasks \X (0..MaxRetries)
        BY <1>3, PolicyAssumption
        DEF PushTask, PushTaskError, RegisterTaskListener, TypeInv, WorkTypes, taskVars
      <3>4. listener' \in [Tasks -> Executors \cup {None}]
        BY <1>3 DEF PushTask, PushTaskError, RegisterTaskListener, TypeInv, WorkTypes
      <3> QED
        BY <1>3, <3>2, <3>3, <3>4
        DEF PushTask, PushTaskError, RegisterTaskListener, TypeInv, WorkTypes, taskVars, watchVars
    <2> QED
      BY <2>1, <2>2 DEF TypeInv
  <1>4. ASSUME NEW t \in Tasks, TaskSucceeds(e, t) \/ TaskFails(e, t) \/ Watchdog(e, t)
        PROVE  TypeInv'
    BY <1>4, UnregisterTypes DEF TaskSucceeds, TaskFails, Watchdog, Progress
  <1>5. CASE GroupFailed(e) \/ GroupGone(e)
    <2>1. PICK l \in {"failLook", "idle"} : Collected(e, l)
      BY <1>5 DEF GroupFailed, GroupGone
    <2>2. l \in (Labels \ Holding) \ Naming
      BY <2>1 DEF Labels, Holding, Naming
    <2> QED
      BY <1>5, <2>1, <2>2, CollectedTypes DEF GroupFailed, GroupGone
  <1>6. CASE Advance(e)
    <2>1. \/ \E l \in {"pauseLook", "finLook"} : Collected(e, l)
          \/ \E q \in Paths, i \in Nat : Launch(e, q, i)
      BY <1>6, <1>i DEF Advance, ToGroup, Paths
    <2>2. {"pauseLook", "finLook"} \subseteq (Labels \ Holding) \ Naming
      BY DEF Labels, Holding, Naming
    <2> QED
      BY <1>6, <2>1, <2>2, CollectedTypes, LaunchTypes DEF Advance
  <1>7. CASE MarkGroupFailed(e) \/ FinishWorkflow(e)
    <2>1. pc[p] \in Holding
      BY <1>7 DEF MarkGroupFailed, FinishWorkflow, Holding
    <2>2. EntryTypes'
      BY <1>7, <1>p, <2>1, PersistKept DEF MarkGroupFailed, FinishWorkflow, Status
    <2>3. WorkTypes'
      BY <1>7, WorkKept DEF MarkGroupFailed, FinishWorkflow
    <2>4. ProcTypes'
      BY <1>7, <1>p, ProcMoves DEF MarkGroupFailed, FinishWorkflow, Unlock, Labels, Holding, Naming
    <2> QED
      BY <2>2, <2>3, <2>4 DEF TypeInv
  <1>8. CASE PauseForApproval(e)
    <2>1. EntryTypes'
      BY <1>8, <1>i DEF PauseForApproval, TypeInv, EntryTypes, SetStatus, Status, mapVars
    <2>2. WorkTypes'
      BY <1>8, WorkKept DEF PauseForApproval
    <2>3. ProcTypes'
      BY <1>8, <1>p, ProcMoves DEF PauseForApproval, Unlock, Labels, Holding, Naming
    <2> QED
      BY <2>1, <2>2, <2>3 DEF TypeInv
  <1>9. CASE Look(p, "failLook", "failAct", "idle") \/ Look(p, "finLook", "finAct", "idle")
             \/ Look(p, "pauseLook", "pauseAct", "idle")
    <2>1. PICK a \in Labels, b \in Labels \ Naming : Look(p, a, b, "idle")
      BY <1>9 DEF Labels, Naming
    <2>2. "idle" \in (Labels \ Holding) \ Naming
      BY DEF Labels, Holding, Naming
    <2> QED
      BY <1>p, <2>1, <2>2, LookTypes
  <1> QED
    BY <1>1, <1>2, <1>3, <1>4, <1>5, <1>6, <1>7, <1>8, <1>9 DEF ExecutorStep

LEMMA RetryTypes ==
    ASSUME TypeInv, NEW r \in Runs, NEW t \in Tasks, RetryStep(r, t)
    PROVE  TypeInv'
  <1> DEFINE p == Retrier(r, t)
  <1>p. p \in Procs
    BY DEF Procs
  <1>1. CASE RetryPush(r, t)
    <2>1. EntryTypes'
      BY <1>1, EntryKept DEF RetryPush
    <2>2. attempt[p] \in 0..MaxRetries
      BY <1>p DEF TypeInv, ProcTypes
    <2>3. WorkTypes'
      BY <1>1, <2>2 DEF RetryPush, TypeInv, WorkTypes, watchVars, execVars
    <2>4. ProcTypes'
      BY <1>1, <1>p, ProcMoves DEF RetryPush, Labels, Holding, Naming
    <2> QED
      BY <2>1, <2>3, <2>4 DEF TypeInv
  <1>2. CASE RetryCancelled(r, t)
    <2>1. EntryTypes' /\ WorkTypes'
      BY <1>2, EntryKept, WorkKept DEF RetryCancelled
    <2>2. ProcTypes'
      BY <1>2, <1>p, ProcMoves DEF RetryCancelled, Labels, Holding, Naming
    <2> QED
      BY <2>1, <2>2 DEF TypeInv
  <1>3. CASE RetryError(r, t)
    <2>1. EntryTypes' /\ WorkTypes'
      BY <1>3, EntryKept, WorkKept DEF RetryError
    <2>2. "mfLook" \in (Labels \ Holding) \ Naming
      BY DEF Labels, Holding, Naming
    <2>3. GotHeld' /\ TaskHeld'
      BY <1>3, <2>2, TasksAssumption
      DEF RetryError, Goto, TypeInv, ProcTypes, GotHeld, TaskHeld
    <2>4. ProcTypes'
      BY <1>3, <2>2, <2>3 DEF RetryError, Goto, TypeInv, ProcTypes
    <2> QED
      BY <2>1, <2>4 DEF TypeInv
  <1>4. CASE Look(p, "clrLook", "clrAct", "idle")
    <2>1. {"clrLook", "clrAct"} \subseteq Labels \ Naming /\ "idle" \in (Labels \ Holding) \ Naming
      BY DEF Labels, Holding, Naming
    <2> QED
      BY <1>4, <1>p, <2>1, LookTypes
  <1>5. CASE ClearFailedTask(r, t)
    <2>1. EntryTypes'
      BY <1>5 DEF ClearFailedTask, TypeInv, EntryTypes, mapVars
    <2>2. WorkTypes'
      BY <1>5, WorkKept DEF ClearFailedTask
    <2>3. ProcTypes'
      BY <1>5, <1>p, ProcMoves DEF ClearFailedTask, Unlock, Labels, Holding, Naming
    <2> QED
      BY <2>1, <2>2, <2>3 DEF TypeInv
  <1>6. CASE FailureStep(p)
    BY <1>6, <1>p, FailureTypes
  <1> QED
    BY <1>1, <1>2, <1>3, <1>4, <1>5, <1>6 DEF RetryStep

\* A watcher leaves: it closes the channel that is registered by then.
LEMMA ExitTypes ==
    ASSUME TypeInv, NEW r \in Runs, WatcherExit(r), UNCHANGED payloadVars,
           out' \subseteq out, rbOut' \subseteq rbOut
    PROVE  TypeInv'
  <1>1. Watcher(r) \in Procs
    BY DEF Procs, Watchers
  <1>2. EntryTypes'
    BY EntryKept DEF WatcherExit
  <1>3. WorkTypes'
    BY DEF WatcherExit, TypeInv, WorkTypes, execVars
  <1>4. ProcTypes'
    BY <1>1, ProcMoves DEF WatcherExit, Labels, Holding, Naming
  <1> QED
    BY <1>2, <1>3, <1>4 DEF TypeInv

\* A watcher takes the event of a task and goes on with it.
LEMMA EventTypes ==
    ASSUME TypeInv, NEW r \in Runs, NEW t \in Tasks, NEW i \in 0..MaxRetries,
           NEW l \in Labels \ Holding, Goto(Watcher(r), l),
           task' = [task EXCEPT ![Watcher(r)] = t],
           attempt' = [attempt EXCEPT ![Watcher(r)] = i] \/ UNCHANGED attempt,
           UNCHANGED <<submitted, mapVars, entryVars, watchVars, got, execVars>>,
           out' \subseteq out, rbOut' \subseteq rbOut
    PROVE  TypeInv'
  <1>1. EntryTypes'
    BY EntryKept
  <1>2. WorkTypes'
    BY DEF TypeInv, WorkTypes, watchVars, execVars
  <1>3. pc' \in [Procs -> Labels] /\ task' \in [Procs -> Tasks \cup {None}]
        /\ attempt' \in [Procs -> 0..MaxRetries] /\ got' \in [Procs -> Runs \cup {None}]
    BY DEF TypeInv, ProcTypes, Goto
  <1>4. GotHeld'
    BY DEF TypeInv, ProcTypes, Goto, GotHeld
  <1>5. TaskHeld'
    BY TasksAssumption DEF TypeInv, ProcTypes, Goto, TaskHeld
  <1> QED
    BY <1>1, <1>2, <1>3, <1>4, <1>5 DEF TypeInv, ProcTypes

LEMMA WatcherTypes ==
    ASSUME TypeInv, NEW r \in Runs, WatcherStep(r)
    PROVE  TypeInv'
  <1> DEFINE p == Watcher(r)
  <1>p. p \in Procs
    BY DEF Procs, Watchers
  <1>1. CASE RegisterWatcher(r)
    <2>1. EntryTypes'
      BY <1>1, EntryKept DEF RegisterWatcher
    <2>2. WorkTypes'
      BY <1>1 DEF RegisterWatcher, TypeInv, WorkTypes, taskVars, execVars
    <2>3. ProcTypes'
      BY <1>1, <1>p, ProcMoves DEF RegisterWatcher, Labels, Holding, Naming
    <2> QED
      BY <2>1, <2>2, <2>3 DEF TypeInv
  <1>2. CASE WatcherDone(r)
    BY <1>2, ExitTypes DEF WatcherDone, taskVars
  <1>3. ASSUME NEW k \in out, TaskCompleted(r, k) \/ TaskFailed(r, k) PROVE TypeInv'
    <2>1. PICK next \in {"recOkLook", "recErrLook"} : TakeEvent(r, k, next)
      BY <1>3 DEF TaskCompleted, TaskFailed
    <2>2. next \in Labels \ Holding /\ "loop" \in Labels \ Holding
      BY <2>1 DEF Labels, Holding
    <2>3. k[1] \in Tasks /\ k[2] \in 0..MaxRetries
      BY DEF TypeInv, WorkTypes
    <2>4. CASE running = None
      BY <2>1, <2>4, ExitTypes DEF TakeEvent
    <2>5. CASE running # None
      <3>1. PICK l \in Labels \ Holding : Goto(p, l)
        BY <2>1, <2>2, <2>5 DEF TakeEvent
      <3> QED
        BY <2>1, <2>3, <2>5, <3>1, EventTypes DEF TakeEvent
    <2> QED
      BY <2>4, <2>5
  <1>4. ASSUME NEW t \in rbOut, TakeRollback(r, t) PROVE TypeInv'
    <2>1. t \in Tasks /\ 0 \in 0..MaxRetries
      BY PolicyAssumption DEF TypeInv, WorkTypes
    <2>2. CASE running = None
      BY <1>4, <2>2, ExitTypes DEF TakeRollback, payloadVars
    <2>3. CASE running # None
      <3>1. "hrLook" \in Labels \ Holding
        BY DEF Labels, Holding
      <3> QED
        BY <1>4, <2>1, <2>3, <3>1, EventTypes DEF TakeRollback
    <2> QED
      BY <2>2, <2>3
  <1>5. CASE Look(p, "recOkLook", "recOkAct", "notifyOk")
             \/ Look(p, "recErrLook", "recErrAct", "notifyErr")
             \/ Look(p, "hrLook", "hrAct", "loop")
    <2>1. PICK a \in Labels \cap Naming, b \in Labels, c \in Labels \ Holding : Look(p, a, b, c)
      BY <1>5 DEF Labels, Holding, Naming
    <2> QED
      BY <1>p, <2>1, LookTypes
  <1>6. CASE RecordTaskCompleted(r) \/ RecordTaskFailed(r)
    <2>1. got[p] \in Runs /\ task[p] \in Tasks
      BY <1>6, <1>p, HeldRun, NamedTask DEF RecordTaskCompleted, RecordTaskFailed, Holding, Naming
    <2>2. completed' \in [Runs -> SUBSET Tasks] /\ failed' \in [Runs -> SUBSET (Tasks \cup {None})]
      BY <1>6, <2>1 DEF RecordTaskCompleted, RecordTaskFailed, TypeInv, EntryTypes
    <2>3. EntryTypes'
      BY <1>6, <2>2 DEF RecordTaskCompleted, RecordTaskFailed, TypeInv, EntryTypes, mapVars
    <2>4. WorkTypes'
      BY <1>6, WorkKept DEF RecordTaskCompleted, RecordTaskFailed
    <2>5. PICK l \in {"notifyOk", "notifyErr"} : Unlock(p, l)
      BY <1>6 DEF RecordTaskCompleted, RecordTaskFailed
    <2>6. l \in Labels \ Holding
      BY <2>5 DEF Labels, Holding
    <2>7. task[p] # None
      BY <2>1, TasksAssumption
    <2>8. ProcTypes'
      BY <1>6, <1>p, <2>5, <2>6, <2>7, ProcMoves DEF RecordTaskCompleted, RecordTaskFailed, Unlock
    <2> QED
      BY <2>3, <2>4, <2>8 DEF TypeInv
  <1>7. CASE NotifyListener(r)
    <2>1. PICK s \in {"gotOk", "gotErr"}, l \in {"loop", "handle"} : Notify(task[p], s) /\ Goto(p, l)
      BY <1>7 DEF NotifyListener
    <2>2. task[p] \in Tasks
      BY <1>7, <1>p, NamedTask DEF NotifyListener, Naming
    <2>3. s \in Progress /\ l \in (Labels \ Holding) \ Naming
      BY <2>1 DEF Progress, Labels, Holding, Naming
    <2>4. EntryTypes'
      BY <1>7, EntryKept DEF NotifyListener
    <2>5. WorkTypes'
      BY <1>7, <2>1, <2>2, <2>3, NotifyTypes DEF NotifyListener
    <2>6. ProcTypes'
      BY <1>7, <1>p, <2>1, <2>3, ProcMoves DEF NotifyListener
    <2> QED
      BY <2>4, <2>5, <2>6 DEF TypeInv
  <1>8. CASE HandleRetry(r)
    <2>1. EntryTypes' /\ WorkTypes'
      BY <1>8, EntryKept, WorkKept DEF HandleRetry
    <2>2. {"loop", "backoff"} \subseteq (Labels \ Holding) \ Naming
      BY DEF Labels, Holding, Naming
    <2>3. pc' = [pc EXCEPT ![p] = "loop", ![Retrier(r, task[p])] = "backoff"]
          /\ UNCHANGED got /\ UNCHANGED task
      BY <1>8 DEF HandleRetry
    <2>4. pc' \in [Procs -> Labels]
      BY <2>2, <2>3 DEF TypeInv, ProcTypes
    <2>5. \A q \in Procs : pc'[q] = pc[q] \/ pc'[q] \in {"loop", "backoff"}
      BY <2>3 DEF TypeInv, ProcTypes
    <2>6. GotHeld' /\ TaskHeld'
      BY <2>2, <2>3, <2>5 DEF TypeInv, ProcTypes, GotHeld, TaskHeld
    <2>7. attempt[p] + 1 \in 0..MaxRetries
      BY <1>8, <1>p, PolicyAssumption DEF HandleRetry, TypeInv, ProcTypes
    <2>8. attempt' \in [Procs -> 0..MaxRetries]
      BY <1>8, <2>7 DEF HandleRetry, TypeInv, ProcTypes
    <2> QED
      BY <2>1, <2>3, <2>4, <2>6, <2>8 DEF TypeInv, ProcTypes
  <1>9. CASE RollbackCompleted(r)
    <2>1. got[p] \in Runs /\ task[p] \in Tasks
      BY <1>9, <1>p, HeldRun, NamedTask DEF RollbackCompleted, Holding, Naming
    <2>2. rolledBack' \in [Runs -> SUBSET Tasks]
      BY <1>9, <2>1 DEF RollbackCompleted, TypeInv, EntryTypes
    <2>3. EntryTypes'
      BY <1>9, <2>1, <2>2, PersistTypes DEF RollbackCompleted, TypeInv, EntryTypes
    <2>4. WorkTypes'
      BY <1>9, WorkKept DEF RollbackCompleted
    <2>5. PICK l \in {"rbLook", "loop"} : Unlock(p, l)
      BY <1>9 DEF RollbackCompleted
    <2>6. l \in (Labels \ Holding) \ Naming
      BY <2>5 DEF Labels, Holding, Naming
    <2>7. ProcTypes'
      BY <1>9, <1>p, <2>5, <2>6, ProcMoves DEF RollbackCompleted, Unlock
    <2> QED
      BY <2>3, <2>4, <2>7 DEF TypeInv
  <1>10. CASE FailureStep(p)
    BY <1>10, <1>p, FailureTypes
  <1> QED
    BY <1>1, <1>2, <1>3, <1>4, <1>5, <1>6, <1>7, <1>8, <1>9, <1>10 DEF WatcherStep

LEMMA TimerTypes ==
    ASSUME TypeInv, NEW r \in Runs, TimerStep(r)
    PROVE  TypeInv'
  <1> DEFINE p == Timer(r)
  <1>p. p \in Procs
    BY DEF Procs
  <1>1. CASE TimerStops(r)
    <2>1. EntryTypes' /\ WorkTypes'
      BY <1>1, EntryKept, WorkKept DEF TimerStops
    <2>2. ProcTypes'
      BY <1>1, <1>p, ProcMoves DEF TimerStops, Labels, Holding, Naming
    <2> QED
      BY <2>1, <2>2 DEF TypeInv
  <1>2. CASE Look(p, "armed", "tmAct", "idle")
    <2>1. {"armed", "tmAct"} \subseteq Labels \ Naming /\ "idle" \in (Labels \ Holding) \ Naming
      BY DEF Labels, Holding, Naming
    <2> QED
      BY <1>2, <1>p, <2>1, LookTypes
  <1>3. CASE Timeout(r)
    <2>1. pc[p] \in Holding
      BY <1>3 DEF Timeout, Holding
    <2>2. WorkTypes'
      BY <1>3, WorkKept DEF Timeout
    <2>3. PICK l \in {"mfLook", "sgLook", "idle"} : Unlock(p, l)
      BY <1>3 DEF Timeout
    <2>4. l \in (Labels \ Holding) \ Naming
      BY <2>3 DEF Labels, Holding, Naming
    <2>5. ProcTypes'
      BY <1>3, <1>p, <2>3, <2>4, ProcMoves DEF Timeout, Unlock
    <2>6. EntryTypes'
      BY <1>3, <1>p, <2>1, PersistKept, EntryKept DEF Timeout, entryVars
    <2> QED
      BY <2>2, <2>5, <2>6 DEF TypeInv
  <1>4. CASE FailureStep(p)
    BY <1>4, <1>p, FailureTypes
  <1> QED
    BY <1>1, <1>2, <1>3, <1>4 DEF TimerStep

\* An operator names a task of the paused group, or none.
LEMMA PausedTaskTypes ==
    ASSUME NEW r, NEW t \in PausedTasks(r)
    PROVE  t \in Tasks \cup {None}
  <1>1. CASE t = None
    BY <1>1
  <1>2. CASE t # None
    <2>1. pausedIdx[r] \in DOMAIN Main /\ t \in Main[pausedIdx[r]]
      BY <1>2 DEF PausedTasks
    <2> QED
      BY <2>1, PlanAssumption
  <1> QED
    BY <1>1, <1>2

LEMMA OperatorMoves ==
    ASSUME TypeInv, NEW p \in Procs, NEW l \in (Labels \ Holding) \ Naming, Unlock(p, l),
           UNCHANGED task \/ \E t \in Tasks \cup {None} : task' = [task EXCEPT ![p] = t],
           UNCHANGED attempt
    PROVE  ProcTypes'
  <1>1. pc' \in [Procs -> Labels] /\ got' \in [Procs -> Runs \cup {None}]
        /\ task' \in [Procs -> Tasks \cup {None}]
    BY DEF TypeInv, ProcTypes, Unlock, Goto
  <1>2. GotHeld'
    BY DEF TypeInv, ProcTypes, Unlock, Goto, GotHeld
  <1>3. TaskHeld'
    BY DEF TypeInv, ProcTypes, Unlock, Goto, TaskHeld
  <1> QED
    BY <1>1, <1>2, <1>3 DEF TypeInv, ProcTypes

LEMMA OperatorTypes ==
    ASSUME TypeInv, NEW o \in Operators, Request(Operator(o)) \/ OperatorStep(o)
    PROVE  TypeInv'
  <1> DEFINE p == Operator(o)
  <1>p. p \in Procs
    BY DEF Procs
  <1>1. CASE Request(p) \/ Look(p, "apLook", "apAct", "idle")
    <2>1. PICK a \in Labels, b \in Labels \ Naming : Look(p, a, b, "idle")
      BY <1>1 DEF Request, Labels, Naming
    <2>2. "idle" \in (Labels \ Holding) \ Naming
      BY DEF Labels, Holding, Naming
    <2> QED
      BY <1>p, <2>1, <2>2, LookTypes
  <1>2. CASE CancelWorkflow(p)
    <2>1. pc[p] \in Holding
      BY <1>2 DEF CancelWorkflow, Holding
    <2>2. WorkTypes'
      BY <1>2, WorkKept DEF CancelWorkflow
    <2>3. PICK l \in {"sgLook", "idle"} : Unlock(p, l)
      BY <1>2 DEF CancelWorkflow
    <2>4. l \in (Labels \ Holding) \ Naming
      BY <2>3 DEF Labels, Holding, Naming
    <2>5. UNCHANGED task \/ \E t \in Tasks \cup {None} : task' = [task EXCEPT ![p] = t]
      BY <1>2, PausedTaskTypes DEF CancelWorkflow
    <2>6. ProcTypes'
      BY <1>2, <1>p, <2>3, <2>4, <2>5, OperatorMoves DEF CancelWorkflow
    <2>7. EntryTypes'
      BY <1>2, <1>p, <2>1, PersistKept, EntryKept DEF CancelWorkflow, entryVars
    <2> QED
      BY <2>2, <2>6, <2>7 DEF TypeInv
  <1>3. CASE RejectWorkflow(p)
    <2>1. EntryTypes' /\ WorkTypes'
      BY <1>3, EntryKept, WorkKept DEF RejectWorkflow
    <2>2. PICK l \in {"handle", "idle"} : Unlock(p, l)
      BY <1>3 DEF RejectWorkflow
    <2>3. l \in (Labels \ Holding) \ Naming
      BY <2>2 DEF Labels, Holding, Naming
    <2>4. UNCHANGED task \/ \E t \in Tasks \cup {None} : task' = [task EXCEPT ![p] = t]
      BY <1>3, PausedTaskTypes DEF RejectWorkflow
    <2>5. ProcTypes'
      BY <1>3, <1>p, <2>2, <2>3, <2>4, OperatorMoves DEF RejectWorkflow
    <2> QED
      BY <2>1, <2>5 DEF TypeInv
  <1>4. CASE ApproveRefused(p)
    <2>1. EntryTypes' /\ WorkTypes'
      BY <1>4, EntryKept, WorkKept DEF ApproveRefused
    <2>2. ProcTypes'
      BY <1>4, <1>p, ProcMoves DEF ApproveRefused, Unlock, Labels, Holding, Naming
    <2> QED
      BY <2>1, <2>2 DEF TypeInv
  <1>5. ASSUME NEW e \in Executors, ApproveWorkflow(p, e) PROVE TypeInv'
    <2>1. got[p] \in Runs
      BY <1>5, <1>p, HeldRun DEF ApproveWorkflow, Holding
    <2>2. pausedIdx[got[p]] \in Nat
      BY <2>1 DEF TypeInv, EntryTypes
    <2>3. EntryTypes'
      BY <1>5 DEF ApproveWorkflow, SetStatus, TypeInv, EntryTypes, Status, mapVars
    <2>4. WorkTypes'
      BY <1>5, <2>2 DEF ApproveWorkflow, TypeInv, WorkTypes, Paths, taskVars, watchVars
    <2>5. {"idle", "start", "apLook"} \subseteq (Labels \ Holding) \ Naming
      BY DEF Labels, Holding, Naming
    <2>6. \/ \E l \in {"idle", "apLook"} : pc' = [pc EXCEPT ![p] = l]
          \/ pc' = [pc EXCEPT ![p] = "idle", ![Executor(e)] = "start"]
      BY <1>5 DEF ApproveWorkflow, Goto
    <2>7. pc' \in [Procs -> Labels]
      BY <2>5, <2>6 DEF TypeInv, ProcTypes
    <2>g. got' \in [Procs -> Runs \cup {None}]
      BY <1>5 DEF ApproveWorkflow, TypeInv, ProcTypes
    <2>8. \A q \in Procs : (pc'[q] = pc[q] /\ q # p) \/ pc'[q] \in {"idle", "start", "apLook"}
      BY <2>6, <2>7 DEF TypeInv, ProcTypes
    <2>9. GotHeld' /\ TaskHeld'
      BY <1>5, <2>5, <2>8 DEF ApproveWorkflow, TypeInv, ProcTypes, GotHeld, TaskHeld, payloadVars
    <2> QED
      BY <1>5, <2>3, <2>4, <2>7, <2>g, <2>9 DEF ApproveWorkflow, TypeInv, ProcTypes, payloadVars
  <1>6. CASE ApproveLast(p)
    <2>1. pc[p] \in Holding
      BY <1>6 DEF ApproveLast, Holding
    <2>2. EntryTypes'
      BY <1>6, <1>p, <2>1, PersistKept DEF ApproveLast, Status
    <2>3. WorkTypes'
      BY <1>6, WorkKept DEF ApproveLast
    <2>4. ProcTypes'
      BY <1>6, <1>p, ProcMoves DEF ApproveLast, Unlock, Labels, Holding, Naming
    <2> QED
      BY <2>2, <2>3, <2>4 DEF TypeInv
  <1>7. CASE FailureStep(p)
    BY <1>7, <1>p, FailureTypes
  <1> QED
    BY <1>1, <1>2, <1>3, <1>4, <1>5, <1>6, <1>7 DEF OperatorStep

LEMMA RollbackTypes ==
    ASSUME TypeInv, NEW t \in Tasks, RollbackStep(t)
    PROVE  TypeInv'
  <1> DEFINE p == Rollbacker(t)
  <1>p. p \in Procs
    BY DEF Procs
  <1>1. CASE PushRollbackTask(t)
    <2>1. EntryTypes'
      BY <1>1, EntryKept DEF PushRollbackTask
    <2>2. WorkTypes'
      BY <1>1 DEF PushRollbackTask, TypeInv, WorkTypes, watchVars, execVars
    <2>3. ProcTypes'
      BY <1>1, <1>p, ProcMoves DEF PushRollbackTask, Labels, Holding, Naming
    <2> QED
      BY <2>1, <2>2, <2>3 DEF TypeInv
  <1>2. CASE Look(p, "rbWait", "rbPoll", "rbDeaf")
             \/ \E l \in {"rbWait", "rbPoll", "rbDeaf"} : Look(p, l, "rtAct", "idle")
    <2>1. /\ {"rbWait", "rbPoll", "rbDeaf", "rtAct", "idle"} \subseteq Labels \ Naming
          /\ {"rbDeaf", "idle"} \cap Holding = {}
      BY DEF Labels, Holding, Naming
    <2>2. CASE Look(p, "rbWait", "rbPoll", "rbDeaf")
      BY <1>p, <2>1, <2>2, LookTypes
    <2>3. ASSUME NEW l \in {"rbWait", "rbPoll", "rbDeaf"}, Look(p, l, "rtAct", "idle")
          PROVE  TypeInv'
      BY <1>p, <2>1, <2>3, LookTypes
    <2> QED
      BY <1>2, <2>2, <2>3
  <1>3. CASE RollbackSeen(t)
    <2>1. EntryTypes' /\ WorkTypes'
      BY <1>3, EntryKept, WorkKept DEF RollbackSeen
    <2>2. PICK l \in {"idle", "rbWait"} : Unlock(p, l)
      BY <1>3 DEF RollbackSeen
    <2>3. l \in (Labels \ Holding) \ Naming
      BY <2>2 DEF Labels, Holding, Naming
    <2>4. ProcTypes'
      BY <1>3, <1>p, <2>2, <2>3, ProcMoves DEF RollbackSeen, Unlock
    <2> QED
      BY <2>1, <2>4 DEF TypeInv
  <1>4. CASE RollbackTimeout(t)
    <2>1. got[p] \in Runs
      BY <1>4, <1>p, HeldRun DEF RollbackTimeout, Holding
    <2>2. rolledBack' \in [Runs -> SUBSET Tasks]
      BY <1>4 DEF RollbackTimeout, TypeInv, EntryTypes
    <2>3. EntryTypes'
      BY <1>4, <2>1, <2>2, PersistTypes DEF RollbackTimeout, TypeInv, EntryTypes
    <2>4. WorkTypes'
      BY <1>4, WorkKept DEF RollbackTimeout
    <2>5. ProcTypes'
      BY <1>4, <1>p, ProcMoves DEF RollbackTimeout, Unlock, Labels, Holding, Naming
    <2> QED
      BY <2>3, <2>4, <2>5 DEF TypeInv
  <1> QED
    BY <1>1, <1>2, <1>3, <1>4 DEF RollbackStep

LEMMA SubmitTypes ==
    ASSUME TypeInv, NEW e \in Executors, RetryWorkflow(e) \/ Submit(e)
    PROVE  TypeInv'
  <1>p. Executor(e) \in Procs
    BY DEF Procs
  <1>1. CASE RetryWorkflow(e)
    <2>1. EntryTypes'
      BY <1>1 DEF RetryWorkflow, TypeInv, EntryTypes, entryVars
    <2>2. WorkTypes'
      BY <1>1, WorkKept DEF RetryWorkflow
    <2>3. ProcTypes'
      BY <1>1, <1>p, ProcMoves DEF RetryWorkflow, Labels, Holding, Naming
    <2> QED
      BY <2>1, <2>2, <2>3 DEF TypeInv
  <1>2. CASE Submit(e)
    <2> DEFINE r == submitted + 1
    <2>1. r \in Runs /\ r \in 0..MaxRuns
      BY <1>2, RunsAssumption DEF Submit, TypeInv, EntryTypes, Runs
    <2>2. EntryTypes'
      BY <1>2, <2>1 DEF Submit, SetStatus, TypeInv, EntryTypes, Status
    <2>3. WorkTypes'
      BY <1>2 DEF Submit, TypeInv, WorkTypes, Paths, taskVars, watchVars
    <2>4. PICK a \in {"idle", "armed"}, b \in {"idle", "saving"} :
             pc' = [pc EXCEPT ![Watcher(r)] = "register", ![Timer(r)] = a,
                              ![Initialiser(r)] = b, ![Executor(e)] = "start"]
      BY <1>2 DEF Submit
    <2>5. {"register", a, b, "start"} \subseteq (Labels \ Holding) \ Naming
      BY <2>4 DEF Labels, Holding, Naming
    <2>6. pc' \in [Procs -> Labels]
      BY <2>4, <2>5 DEF TypeInv, ProcTypes
    <2>7. \A q \in Procs : pc'[q] = pc[q] \/ pc'[q] \in {"register", a, b, "start"}
      BY <2>4 DEF TypeInv, ProcTypes
    <2>8. GotHeld' /\ TaskHeld'
      BY <1>2, <2>5, <2>7 DEF Submit, TypeInv, ProcTypes, GotHeld, TaskHeld, payloadVars
    <2> QED
      BY <1>2, <2>2, <2>3, <2>6, <2>8 DEF Submit, TypeInv, ProcTypes, payloadVars
  <1> QED
    BY <1>1, <1>2

LEMMA InitialiserTypes ==
    ASSUME TypeInv, NEW r \in Runs, InitStep(r)
    PROVE  TypeInv'
  <1>p. Initialiser(r) \in Procs
    BY DEF Procs
  <1>1. ProcTypes'
    BY <1>p, ProcMoves DEF InitStep, InitOk, InitFailed, CleanupWatcher,
       CleanupTaskListeners, Labels, Holding, Naming
  <1>2. CASE InitOk(r)
    BY <1>1, <1>2, EntryKept, WorkKept DEF InitOk, TypeInv
  <1>3. CASE InitFailed(r)
    <2>1. EntryTypes'
      BY <1>3 DEF InitFailed, TypeInv, EntryTypes, entryVars
    <2> QED
      BY <1>1, <1>3, <2>1, WorkKept DEF InitFailed, TypeInv
  <1>4. CASE CleanupWatcher(r)
    <2>1. WorkTypes'
      BY <1>4 DEF CleanupWatcher, TypeInv, WorkTypes, taskVars, execVars
    <2> QED
      BY <1>1, <1>4, <2>1, EntryKept DEF CleanupWatcher, TypeInv
  <1>5. CASE CleanupTaskListeners(r)
    <2>2. res' \in [Executors -> [Tasks -> Progress]]
      BY <1>5 DEF CleanupTaskListeners, TypeInv, WorkTypes, Progress
    <2>3. WorkTypes'
      BY <1>5, <2>2 DEF CleanupTaskListeners, TypeInv, WorkTypes, taskVars, watchVars
    <2> QED
      BY <1>1, <1>5, <2>3, EntryKept DEF CleanupTaskListeners, TypeInv
  <1> QED
    BY <1>2, <1>3, <1>4, <1>5 DEF InitStep

\* A queued task is given up, or an event lost.
LEMMA LossTypes ==
    ASSUME TypeInv, NEW k \in out, Evict(k) \/ Lost(k)
    PROVE  TypeInv'
  <1>1. EntryTypes' /\ WorkTypes'
    BY EntryKept DEF Evict, Lost, TypeInv, WorkTypes, watchVars, execVars
  <1>2. k[1] \in Tasks
    BY DEF TypeInv, WorkTypes
  <1>3. CASE Lost(k)
    BY <1>1, <1>3, ProcKept DEF Lost, TypeInv
  <1>4. CASE Evict(k)
    <2>1. "mfLook" \in (Labels \ Holding) \ Naming
      BY DEF Labels, Holding, Naming
    <2>2. pc' \in [Procs -> Labels] /\ task' \in [Procs -> Tasks \cup {None}]
      BY <1>2, <1>4, <2>1 DEF Evict, Goto, TypeInv, ProcTypes
    <2>3. GotHeld' /\ TaskHeld'
      BY <1>2, <1>4, <2>1, TasksAssumption
      DEF Evict, Goto, TypeInv, ProcTypes, GotHeld, TaskHeld
    <2> QED
      BY <1>1, <1>4, <2>2, <2>3 DEF Evict, TypeInv, ProcTypes
  <1> QED
    BY <1>3, <1>4

LEMMA InitTypes == Init => TypeInv
  <1> SUFFICES ASSUME Init PROVE TypeInv
    OBVIOUS
  <1>1. EntryTypes
    BY RunsAssumption DEF Init, EntryTypes, Status
  <1>2. WorkTypes
    BY DEF Init, WorkTypes, Paths, Progress
  <1>3. "idle" \in (Labels \ Holding) \ Naming
    BY DEF Labels, Holding, Naming
  <1>4. ProcTypes
    BY <1>3, PolicyAssumption DEF Init, ProcTypes, GotHeld, TaskHeld
  <1> QED
    BY <1>1, <1>2, <1>4 DEF TypeInv

LEMMA NextTypes == TypeInv /\ [Next]_vars => TypeInv'
  <1> SUFFICES ASSUME TypeInv, [Next]_vars PROVE TypeInv'
    OBVIOUS
  <1>1. ASSUME NEW e \in Executors, RetryWorkflow(e) \/ Submit(e) \/ ExecutorStep(e)
        PROVE  TypeInv'
    BY <1>1, SubmitTypes, ExecutorTypes
  <1>2. ASSUME NEW r \in Runs, InitStep(r) \/ WatcherStep(r) \/ TimerStep(r)
        PROVE  TypeInv'
    BY <1>2, InitialiserTypes, WatcherTypes, TimerTypes
  <1>3. ASSUME NEW r \in Runs, NEW t \in Tasks, RetryStep(r, t) PROVE TypeInv'
    BY <1>3, RetryTypes
  <1>4. ASSUME NEW o \in Operators, Request(Operator(o)) \/ OperatorStep(o) PROVE TypeInv'
    BY <1>4, OperatorTypes
  <1>5. ASSUME NEW t \in Tasks, RollbackStep(t) PROVE TypeInv'
    BY <1>5, RollbackTypes
  <1>6. CASE FailureStep(Evictor)
    <2>1. Evictor \in Procs
      BY DEF Procs
    <2> QED
      BY <1>6, <2>1, FailureTypes
  <1>7. ASSUME NEW k \in out, Evict(k) \/ Lost(k) PROVE TypeInv'
    BY <1>7, LossTypes
  <1>8. CASE UNCHANGED vars
    BY <1>8, EntryKept, WorkKept, ProcKept DEF vars, TypeInv
  <1> QED
    BY <1>1, <1>2, <1>3, <1>4, <1>5, <1>6, <1>7, <1>8 DEF Next

\* Entries, maps, tasks, channels and goroutines keep their types: what is
\* archived, recorded or announced is a run and a task of the workflow,
\* although every goroutine acts on what it fetched before (LockEntry).
THEOREM LifecycleTyped == Spec => []TypeOK
  BY InitTypes, NextTypes, TypeInvTypes, PTL DEF Spec

(***************************************************************************)
(* What the record of a run says of the work.  As long as the UUID was     *)
(* submitted once its run has one record, which only grows, and whatever   *)
(* an executor was told is in it: a watcher that finds no entry announces  *)
(* without recording, but then there is no entry for the executor either.  *)
(* Two submissions share the UUID, and with it the executors and watchers: *)
(* then an executor may complete the other run.                            *)
(***************************************************************************)

\* A plan with approvals in main groups only (PauseForApproval keeps an index
\* without the path it belongs to), and a branch if any output asks for it.
PlainPlan ==
    \A p \in Paths : \A i \in DOMAIN Groups(p) :
        /\ "approval" \in Control(p)[i] => p = "main"
        /\ "branch" \in Control(p)[i] => Len(Branch) > 0

\* Before the first submission nothing happens.
Untouched ==
    submitted = 0 =>
        /\ history = {} /\ out = {} /\ rbOut = {}
        /\ pc = [p \in Procs |-> "idle"]
        /\ res = [e \in Executors |-> [t \in Tasks |-> "idle"]]
        /\ status = [r \in Runs |-> "PENDING"]

\* Once the entry is gone nobody needs the record.
Recorded(t) == running = None \/ t \in completed[1]
LastDone == \E g \in LastGroups : g \subseteq completed[1]
MainDone(i) == i \in DOMAIN Main /\ Main[i] \subseteq completed[1]

Told == \A p \in Procs : pc[p] \in {"notifyOk", "skipNotify"} => Recorded(task[p])
Answered == \A e \in Executors, t \in Tasks : res[e][t] \in {"gotOk", "ok"} => Recorded(t)
AtGroup ==
    \A e \in Executors : pc[Executor(e)] \in {"start", "group"} => idx[e] \in DOMAIN Groups(path[e])
AtPause ==
    \A e \in Executors :
        /\ pc[Executor(e)] = "pauseLook" => running = None \/ MainDone(idx[e])
        /\ pc[Executor(e)] = "pauseAct" => MainDone(idx[e])
AtEnd ==
    \A p \in Procs :
        /\ pc[p] \in {"finLook", "apLook"} => running = None \/ LastDone
        /\ pc[p] \in {"finAct", "apAct"} => LastDone
PausedDone == status[1] = "PAUSED" => MainDone(pausedIdx[1])
EndDone ==
    /\ status[1] = "COMPLETED" => LastDone
    /\ \A r \in Runs \ {1} : status[r] = "PENDING"

Records == Told /\ Answered /\ AtGroup /\ AtPause /\ AtEnd /\ PausedDone /\ EndDone

Base == LiveInv /\ TypeInv /\ Untouched /\ (submitted = 1 => Records)

\* With one run submitted everybody who holds an entry holds its.
LEMMA OneRun ==
    ASSUME Base, submitted = 1
    PROVE  /\ 1 \in Runs
           /\ running \in {1, None}
           /\ \A p \in Procs : pc[p] \in Holding => got[p] = 1
  <1>1. Known = {1, None}
    BY DEF Known
  <1>2. 1 \in Runs
    BY RunsAssumption DEF Base, LiveInv, Runs
  <1> QED
    BY <1>1, <1>2 DEF Base, LiveInv, TypeInv, ProcTypes, GotHeld

\* The labels and results that stand for something recorded.
Marked == {"notifyOk", "skipNotify", "start", "group", "pauseLook", "pauseAct",
           "finLook", "finAct", "apLook", "apAct"}
Good == {"gotOk", "ok"}

\* What a step does to the record and to what stands for it.
Grows ==
    /\ Base /\ submitted = 1
    /\ running' \in {running, None}
    /\ completed[1] \subseteq completed'[1]
PcFrame == \A q \in Procs : pc'[q] \in Marked => pc'[q] = pc[q] /\ task'[q] = task[q]
PlaceFrame == UNCHANGED <<path, idx>>
ResFrame == \A e \in Executors, t \in Tasks : res'[e][t] \in Good => res[e][t] \in Good
StatusFrame ==
    /\ UNCHANGED pausedIdx
    /\ \A r \in Runs : \/ status'[r] = status[r]
                       \/ r = 1 /\ status'[r] \notin {"PAUSED", "COMPLETED"}

LEMMA RecordGrows ==
    ASSUME Grows
    PROVE  /\ \A t : Recorded(t) => Recorded(t)'
           /\ LastDone => LastDone'
           /\ \A i : MainDone(i) => MainDone(i)'
           /\ running = None => running' = None
  BY DEF Grows, Recorded, LastDone, MainDone, LastGroups, Groups, Control

LEMMA ToldKept == ASSUME Grows, PcFrame PROVE Told'
  <1>1. Told
    BY DEF Grows, Base, Records
  <1> QED
    BY <1>1, RecordGrows DEF PcFrame, Told, Marked

LEMMA AnsweredKept == ASSUME Grows, ResFrame PROVE Answered'
  <1>1. Answered
    BY DEF Grows, Base, Records
  <1> QED
    BY <1>1, RecordGrows DEF ResFrame, Answered, Good

LEMMA AtGroupKept == ASSUME Grows, PcFrame, PlaceFrame PROVE AtGroup'
  <1>1. AtGroup
    BY DEF Grows, Base, Records
  <1>2. \A e \in Executors : Executor(e) \in Procs
    BY DEF Procs
  <1> QED
    BY <1>1, <1>2 DEF PcFrame, PlaceFrame, AtGroup, Marked, Groups

LEMMA AtPauseKept == ASSUME Grows, PcFrame, PlaceFrame PROVE AtPause'
  <1>1. AtPause
    BY DEF Grows, Base, Records
  <1>2. \A e \in Executors : Executor(e) \in Procs
    BY DEF Procs
  <1> QED
    BY <1>1, <1>2, RecordGrows DEF PcFrame, PlaceFrame, AtPause, Marked

LEMMA AtEndKept == ASSUME Grows, PcFrame PROVE AtEnd'
  <1>1. AtEnd
    BY DEF Grows, Base, Records
  <1> QED
    BY <1>1, RecordGrows DEF PcFrame, AtEnd, Marked

LEMMA StatusKept == ASSUME Grows, StatusFrame PROVE PausedDone' /\ EndDone'
  <1>1. PausedDone /\ EndDone /\ 1 \in Runs
    BY OneRun DEF Grows, Base, Records
  <1> QED
    BY <1>1, RecordGrows DEF StatusFrame, PausedDone, EndDone

LEMMA FrameRecords ==
    ASSUME Grows, PcFrame, PlaceFrame, ResFrame, StatusFrame
    PROVE  Records'
  BY ToldKept, AnsweredKept, AtGroupKept, AtPauseKept, AtEndKept, StatusKept DEF Records

\* A goroutine goes to a label that stands for nothing.
LEMMA MoveFrame ==
    ASSUME TypeInv, NEW p \in Procs, NEW l, l \notin Marked, Goto(p, l),
           \A q \in Procs : q # p => task'[q] = task[q]
    PROVE  PcFrame
  BY DEF TypeInv, ProcTypes, Goto, PcFrame

\* The record, the entry and the executors are left alone.
LEMMA CalmFrames ==
    ASSUME Base, submitted = 1, UNCHANGED mapVars, UNCHANGED entryVars, UNCHANGED execVars
    PROVE  Grows /\ PlaceFrame /\ ResFrame /\ StatusFrame
  BY DEF mapVars, entryVars, execVars, Grows, PlaceFrame, ResFrame, StatusFrame

\* A fetched entry is persisted, with a status that says neither that it is
\* paused nor that it is complete.
LEMMA PersistFrames ==
    ASSUME Base, submitted = 1, NEW p \in Procs, pc[p] \in Holding, Persist(got[p]),
           UNCHANGED status \/ \E s \in Status \ {"PAUSED", "COMPLETED"} : SetStatus(got[p], s),
           UNCHANGED pausedIdx, completed[1] \subseteq completed'[1], UNCHANGED execVars
    PROVE  Grows /\ PlaceFrame /\ ResFrame /\ StatusFrame
  <1>1. got[p] = 1 /\ 1 \in Runs
    BY OneRun
  <1>2. StatusFrame
    BY <1>1 DEF StatusFrame, SetStatus, Base, TypeInv, EntryTypes
  <1> QED
    BY <1>2 DEF Persist, execVars, Grows, PlaceFrame, ResFrame

\* The first half of LockEntry.  Who goes on without an entry goes on after
\* the entry is gone.
LEMMA LookRecords ==
    ASSUME Base, submitted = 1, NEW p \in Procs, NEW here, NEW there, NEW nil,
           Look(p, here, there, nil),
           \/ there \notin Marked
           \/ here \in {"finLook", "apLook"} /\ there \in {"finAct", "apAct"}
           \/ here = "pauseLook" /\ there = "pauseAct",
           nil \in {"notifyOk", "skipNotify"} \/ nil \notin Marked
    PROVE  Records'
  <1>1. Grows /\ PlaceFrame /\ ResFrame /\ StatusFrame
    BY CalmFrames DEF Look
  <1>2. pc[p] = here /\ task' = task /\ running' = running
        /\ \A q \in Procs : pc'[q] = IF q = p THEN IF running = None THEN nil ELSE there ELSE pc[q]
    BY DEF Look, Goto, Base, TypeInv, ProcTypes, payloadVars, mapVars
  <1>3. Records
    BY DEF Base
  <1>4. Told'
    BY <1>1, <1>2, <1>3, RecordGrows DEF Records, Told, Marked, Recorded
  <1>5. AtGroup'
    BY <1>1, <1>2, <1>3 DEF Records, AtGroup, Marked, PlaceFrame, Groups, Procs
  <1>6. AtPause'
    <2>1. AtPause /\ UNCHANGED idx
      BY <1>1, <1>3 DEF Records, PlaceFrame
    <2>2. \A e \in Executors : Executor(e) \in Procs
      BY DEF Procs
    <2> QED
      BY <1>1, <1>2, <2>1, <2>2, RecordGrows DEF AtPause, Marked
  <1>7. AtEnd'
    BY <1>1, <1>2, <1>3, RecordGrows DEF Records, AtEnd, Marked
  <1> QED
    BY <1>1, <1>4, <1>5, <1>6, <1>7, AnsweredKept, StatusKept DEF Records

\* The listener of a task is told what is recorded.
LEMMA NotifyRecords ==
    ASSUME Base, submitted = 1, NEW p \in Procs, NEW t \in Tasks, NEW s, NEW l,
           Notify(t, s), s \in Good => Recorded(t), Goto(p, l), l \notin Marked,
           UNCHANGED <<mapVars, entryVars, payloadVars, path, idx>>
    PROVE  Records'
  <1>1. Grows /\ PlaceFrame /\ StatusFrame
    BY DEF Grows, PlaceFrame, StatusFrame, mapVars, entryVars
  <1>2. PcFrame
    BY MoveFrame DEF Base, payloadVars
  <1>3. \A e \in Executors, u \in Tasks : res'[e][u] = res[e][u] \/ (u = t /\ res'[e][u] = s)
    BY DEF Notify, Base, TypeInv, WorkTypes
  <1>4. Answered'
    BY <1>1, <1>3, RecordGrows DEF Base, Records, Answered, Good
  <1> QED
    BY <1>1, <1>2, <1>4, ToldKept, AtGroupKept, AtPauseKept, AtEndKept, StatusKept DEF Records

LEMMA FailureRecords ==
    ASSUME Base, submitted = 1, NEW p \in Procs, FailureStep(p)
    PROVE  Records'
  <1>r. Return(p) \notin Marked
    BY DEF Return, Marked
  <1>t. TypeInv
    BY DEF Base
  <1>1. CASE Look(p, "mfLook", "mfAct", Return(p)) \/ Look(p, "sgLook", "sgAct", Return(p))
             \/ Look(p, "rbLook", "rbAct", Return(p))
    <2>1. PICK a \in {"mfLook", "sgLook", "rbLook"}, b \in {"mfAct", "sgAct", "rbAct"} :
             Look(p, a, b, Return(p))
      BY <1>1
    <2>2. b \notin Marked
      BY <2>1 DEF Marked
    <2> QED
      BY <1>r, <2>1, <2>2, LookRecords
  <1>2. CASE Look(p, "skipLook", "skipAct", "skipNotify")
    <2>1. "skipAct" \notin Marked
      BY DEF Marked
    <2> QED
      BY <1>2, <2>1, LookRecords
  <1>3. CASE MarkFailed(p)
    <2>1. pc[p] \in Holding /\ "FAILED" \in Status \ {"PAUSED", "COMPLETED"}
      BY <1>3 DEF MarkFailed, Holding, Status
    <2>2. Grows /\ PlaceFrame /\ ResFrame /\ StatusFrame
      BY <1>3, <2>1, PersistFrames DEF MarkFailed
    <2>3. PcFrame
      BY <1>3, <1>r, <1>t, MoveFrame DEF MarkFailed, GoReturn, Unlock, payloadVars
    <2> QED
      BY <2>2, <2>3, FrameRecords
  <1>4. CASE SagaStart(p)
    <2>1. pc[p] \in Holding /\ "ROLLING_BACK" \in Status \ {"PAUSED", "COMPLETED"}
          /\ "sgCollect" \notin Marked
      BY <1>4 DEF SagaStart, Holding, Status, Marked
    <2>2. Grows /\ PlaceFrame /\ ResFrame /\ StatusFrame
      <3>1. CASE status[got[p]] \in {"ROLLING_BACK", "ROLLED_BACK", "FAILED"}
        BY <1>4, <3>1, CalmFrames DEF SagaStart, entryVars
      <3>2. CASE status[got[p]] \notin {"ROLLING_BACK", "ROLLED_BACK", "FAILED"}
        BY <1>4, <2>1, <3>2, PersistFrames DEF SagaStart
      <3> QED
        BY <3>1, <3>2
    <2>3. PICK l : Goto(p, l) /\ l \notin Marked
      BY <1>4, <1>r, <2>1 DEF SagaStart, GoReturn, Unlock
    <2>4. PcFrame
      BY <1>4, <1>t, <2>3, MoveFrame DEF SagaStart, payloadVars
    <2> QED
      BY <2>2, <2>4, FrameRecords
  <1>5. CASE SagaCollect(p)
    <2>1. Grows /\ PlaceFrame /\ ResFrame /\ StatusFrame
      BY <1>5, CalmFrames DEF SagaCollect
    <2>2. \A q \in Procs : pc'[q] = pc[q] \/ pc'[q] \in {"rbLook", "rbPush", Return(p)}
      BY <1>5 DEF SagaCollect
    <2>3. {"rbLook", "rbPush", Return(p)} \cap Marked = {}
      BY <1>r DEF Marked
    <2>4. PcFrame
      BY <1>5, <2>2, <2>3 DEF SagaCollect, PcFrame, payloadVars
    <2> QED
      BY <2>1, <2>4, FrameRecords
  <1>6. CASE MarkRolledBack(p)
    <2>1. pc[p] \in Holding /\ "ROLLED_BACK" \in Status \ {"PAUSED", "COMPLETED"}
      BY <1>6 DEF MarkRolledBack, Holding, Status
    <2>2. Grows /\ PlaceFrame /\ ResFrame /\ StatusFrame
      BY <1>6, <2>1, PersistFrames DEF MarkRolledBack
    <2>3. PcFrame
      BY <1>6, <1>r, <1>t, MoveFrame DEF MarkRolledBack, GoReturn, Unlock, payloadVars
    <2> QED
      BY <2>2, <2>3, FrameRecords
  <1>7. CASE Handle(p)
    <2>1. Grows /\ PlaceFrame /\ ResFrame /\ StatusFrame
      BY <1>7, CalmFrames DEF Handle
    <2>2. PICK l \in {"mfLook", "skipLook", "sgLook"} : Goto(p, l)
      BY <1>7 DEF Handle
    <2>3. l \notin Marked
      BY <2>2 DEF Marked
    <2>4. PcFrame
      BY <1>7, <1>t, <2>2, <2>3, MoveFrame DEF Handle, payloadVars
    <2> QED
      BY <2>1, <2>4, FrameRecords
  <1>8. CASE SkipTask(p)
    <2>1. pc[p] \in Holding /\ got[p] = 1 /\ 1 \in Runs
      BY <1>8, OneRun DEF SkipTask, Holding
    <2>2. completed[1] \subseteq completed'[1]
      BY <1>8, <2>1 DEF SkipTask, Base, TypeInv, EntryTypes
    <2>3. Grows /\ PlaceFrame /\ ResFrame /\ StatusFrame
      BY <1>8, <2>1, <2>2, PersistFrames DEF SkipTask
    <2>4. running' = None /\ task' = task
          /\ \A q \in Procs : pc'[q] = IF q = p THEN "skipNotify" ELSE pc[q]
      BY <1>8 DEF SkipTask, Persist, Unlock, Goto, payloadVars, Base, TypeInv, ProcTypes
    <2>5. Told'
      BY <2>4 DEF Told, Recorded
    <2>6. AtEnd'
      BY <2>3, <2>4, RecordGrows DEF AtEnd, Base, Records
    <2>7. AtGroup' /\ AtPause'
      <3>1. \A e \in Executors : pc'[Executor(e)] \in {"start", "group", "pauseLook", "pauseAct"}
                                   => pc'[Executor(e)] = pc[Executor(e)]
        BY <2>4 DEF Procs
      <3> QED
        BY <2>3, <3>1, RecordGrows DEF AtGroup, AtPause, PlaceFrame, Base, Records, Groups
    <2> QED
      BY <2>3, <2>5, <2>6, <2>7, AnsweredKept, StatusKept DEF Records
  <1>9. CASE SkipNotify(p)
    <2>1. task[p] \in Tasks
      BY <1>9, <1>t, NamedTask DEF SkipNotify, Naming
    <2>2. Recorded(task[p])
      BY <1>9 DEF SkipNotify, Base, Records, Told
    <2> QED
      BY <1>9, <1>r, <2>1, <2>2, NotifyRecords DEF SkipNotify
  <1> QED
    BY <1>1, <1>2, <1>3, <1>4, <1>5, <1>6, <1>7, <1>8, <1>9 DEF FailureStep

LEMMA RetryRecords ==
    ASSUME Base, submitted = 1, NEW r \in Runs, NEW t \in Tasks, RetryStep(r, t)
    PROVE  Records'
  <1> DEFINE p == Retrier(r, t)
  <1>p. p \in Procs
    BY DEF Procs
  <1>t. TypeInv
    BY DEF Base
  <1>1. CASE RetryPush(r, t) \/ RetryCancelled(r, t) \/ RetryError(r, t)
    <2>1. Grows /\ PlaceFrame /\ ResFrame /\ StatusFrame
      BY <1>1, CalmFrames DEF RetryPush, RetryCancelled, RetryError
    <2>2. PICK l \in {"clrLook", "idle", "mfLook"} : Goto(p, l)
      BY <1>1 DEF RetryPush, RetryCancelled, RetryError
    <2>3. l \notin Marked
      BY <2>2 DEF Marked
    <2>4. \A q \in Procs : q # p => task'[q] = task[q]
      BY <1>1 DEF RetryPush, RetryCancelled, RetryError, payloadVars, Base, TypeInv, ProcTypes
    <2>5. PcFrame
      BY <1>p, <1>t, <2>2, <2>3, <2>4, MoveFrame
    <2> QED
      BY <2>1, <2>5, FrameRecords
  <1>2. CASE Look(p, "clrLook", "clrAct", "idle")
    <2>1. "clrAct" \notin Marked /\ "idle" \notin Marked
      BY DEF Marked
    <2> QED
      BY <1>2, <1>p, <2>1, LookRecords
  <1>3. CASE ClearFailedTask(r, t)
    <2>1. Grows /\ PlaceFrame /\ ResFrame /\ StatusFrame
      BY <1>3 DEF ClearFailedTask, Grows, PlaceFrame, ResFrame, StatusFrame, mapVars, execVars
    <2>2. "idle" \notin Marked
      BY DEF Marked
    <2>3. PcFrame
      BY <1>3, <1>p, <1>t, <2>2, MoveFrame DEF ClearFailedTask, Unlock, payloadVars
    <2> QED
      BY <2>1, <2>3, FrameRecords
  <1>4. CASE FailureStep(p)
    BY <1>4, <1>p, FailureRecords
  <1> QED
    BY <1>1, <1>2, <1>3, <1>4 DEF RetryStep

LEMMA WatcherRecords ==
    ASSUME Base, submitted = 1, NEW r \in Runs, WatcherStep(r)
    PROVE  Records'
  <1> DEFINE p == Watcher(r)
  <1>p. p \in Procs
    BY DEF Procs, Watchers
  <1>t. TypeInv
    BY DEF Base
  <1>i. "idle" \notin Marked /\ "loop" \notin Marked
    BY DEF Marked
  <1>x. ASSUME WatcherExit(r), UNCHANGED task PROVE Records'
    <2>1. Grows /\ PlaceFrame /\ ResFrame /\ StatusFrame
      BY <1>x, CalmFrames DEF WatcherExit
    <2>2. PcFrame
      BY <1>x, <1>i, <1>p, <1>t, MoveFrame DEF WatcherExit
    <2> QED
      BY <2>1, <2>2, FrameRecords
  <1>1. CASE RegisterWatcher(r)
    <2>1. Grows /\ PlaceFrame /\ ResFrame /\ StatusFrame
      BY <1>1, CalmFrames DEF RegisterWatcher
    <2>2. PcFrame
      BY <1>1, <1>i, <1>p, <1>t, MoveFrame DEF RegisterWatcher, payloadVars
    <2> QED
      BY <2>1, <2>2, FrameRecords
  <1>2. CASE WatcherDone(r)
    BY <1>2, <1>x DEF WatcherDone, payloadVars
  <1>3. ASSUME NEW l, l \notin Marked, NEW t, Goto(p, l), task' = [task EXCEPT ![p] = t],
               UNCHANGED <<mapVars, entryVars, execVars>>
        PROVE  Records'
    <2>1. Grows /\ PlaceFrame /\ ResFrame /\ StatusFrame
      BY <1>3, CalmFrames
    <2>2. \A q \in Procs : q # p => task'[q] = task[q]
      BY <1>3 DEF Base, TypeInv, ProcTypes
    <2>3. PcFrame
      BY <1>3, <1>p, <1>t, <2>2, MoveFrame
    <2> QED
      BY <2>1, <2>3, FrameRecords
  <1>4. ASSUME NEW k \in out, TaskCompleted(r, k) \/ TaskFailed(r, k) PROVE Records'
    <2>1. PICK next \in {"recOkLook", "recErrLook"} : TakeEvent(r, k, next)
      BY <1>4 DEF TaskCompleted, TaskFailed
    <2>2. next \notin Marked
      BY <2>1 DEF Marked
    <2>3. CASE running = None
      BY <2>1, <2>3, <1>x DEF TakeEvent, payloadVars
    <2>4. CASE running # None
      <3>1. PICK l : l \notin Marked /\ Goto(p, l)
        BY <1>i, <2>1, <2>2, <2>4 DEF TakeEvent
      <3> QED
        BY <1>3, <2>1, <2>4, <3>1 DEF TakeEvent
    <2> QED
      BY <2>3, <2>4
  <1>5. ASSUME NEW t \in rbOut, TakeRollback(r, t) PROVE Records'
    <2>1. CASE running = None
      BY <1>5, <2>1, <1>x DEF TakeRollback
    <2>2. CASE running # None
      <3>1. "hrLook" \notin Marked
        BY DEF Marked
      <3> QED
        BY <1>3, <1>5, <2>2, <3>1 DEF TakeRollback
    <2> QED
      BY <2>1, <2>2
  <1>6. CASE Look(p, "recOkLook", "recOkAct", "notifyOk")
             \/ Look(p, "recErrLook", "recErrAct", "notifyErr")
             \/ Look(p, "hrLook", "hrAct", "loop")
    <2>1. PICK a \in {"recOkLook", "recErrLook", "hrLook"}, b \in {"recOkAct", "recErrAct", "hrAct"},
               c \in {"notifyOk", "notifyErr", "loop"} : Look(p, a, b, c)
      BY <1>6
    <2>2. b \notin Marked /\ (c \in {"notifyOk", "skipNotify"} \/ c \notin Marked)
      BY <2>1 DEF Marked
    <2> QED
      BY <1>p, <2>1, <2>2, LookRecords
  <1>7. CASE RecordTaskCompleted(r)
    <2>1. got[p] = 1 /\ 1 \in Runs
      BY <1>7, <1>p, OneRun DEF RecordTaskCompleted, Holding
    <2>2. completed'[1] = completed[1] \cup {task[p]}
      BY <1>7, <2>1 DEF RecordTaskCompleted, Base, TypeInv, EntryTypes
    <2>3. Grows /\ PlaceFrame /\ ResFrame /\ StatusFrame
      BY <1>7, <2>2
      DEF RecordTaskCompleted, Grows, PlaceFrame, ResFrame, StatusFrame, mapVars, execVars
    <2>4. task' = task /\ \A q \in Procs : pc'[q] = IF q = p THEN "notifyOk" ELSE pc[q]
      BY <1>7 DEF RecordTaskCompleted, Unlock, Goto, payloadVars, Base, TypeInv, ProcTypes
    <2>5. Told'
      BY <2>2, <2>3, <2>4, RecordGrows DEF Told, Recorded, Base, Records
    <2>6. AtEnd'
      BY <2>3, <2>4, RecordGrows DEF AtEnd, Base, Records
    <2>7. AtGroup' /\ AtPause'
      <3>1. \A e \in Executors : pc'[Executor(e)] \in {"start", "group", "pauseLook", "pauseAct"}
                                   => pc'[Executor(e)] = pc[Executor(e)]
        BY <2>4 DEF Procs
      <3> QED
        BY <2>3, <3>1, RecordGrows DEF AtGroup, AtPause, PlaceFrame, Base, Records, Groups
    <2> QED
      BY <2>3, <2>5, <2>6, <2>7, AnsweredKept, StatusKept DEF Records
  <1>8. CASE RecordTaskFailed(r)
    <2>1. Grows /\ PlaceFrame /\ ResFrame /\ StatusFrame
      BY <1>8 DEF RecordTaskFailed, Grows, PlaceFrame, ResFrame, StatusFrame, mapVars, execVars
    <2>2. "notifyErr" \notin Marked
      BY DEF Marked
    <2>3. PcFrame
      BY <1>8, <1>p, <1>t, <2>2, MoveFrame DEF RecordTaskFailed, Unlock, payloadVars
    <2> QED
      BY <2>1, <2>3, FrameRecords
  <1>9. CASE NotifyListener(r)
    <2>1. task[p] \in Tasks
      BY <1>9, <1>p, <1>t, NamedTask DEF NotifyListener, Naming
    <2>2. PICK s \in {"gotOk", "gotErr"}, l \in {"loop", "handle"} :
             Notify(task[p], s) /\ Goto(p, l) /\ (s \in Good => pc[p] = "notifyOk")
      BY <1>9 DEF NotifyListener, Good
    <2>3. l \notin Marked
      BY <2>2 DEF Marked
    <2>4. s \in Good => Recorded(task[p])
      BY <1>p, <2>2 DEF Base, Records, Told
    <2> QED
      BY <1>9, <1>p, <2>1, <2>2, <2>3, <2>4, NotifyRecords DEF NotifyListener
  <1>10. CASE HandleRetry(r)
    <2>1. Grows /\ PlaceFrame /\ ResFrame /\ StatusFrame
      BY <1>10, CalmFrames DEF HandleRetry
    <2>2. \A q \in Procs : pc'[q] = pc[q] \/ pc'[q] \in {"loop", "backoff"}
      BY <1>10 DEF HandleRetry, Base, TypeInv, ProcTypes
    <2>3. {"loop", "backoff"} \cap Marked = {}
      BY DEF Marked
    <2>4. PcFrame
      BY <1>10, <2>2, <2>3 DEF HandleRetry, PcFrame
    <2> QED
      BY <2>1, <2>4, FrameRecords
  <1>11. CASE RollbackCompleted(r)
    <2>1. pc[p] \in Holding
      BY <1>11 DEF RollbackCompleted, Holding
    <2>2. Grows /\ PlaceFrame /\ ResFrame /\ StatusFrame
      BY <1>11, <1>p, <2>1, PersistFrames DEF RollbackCompleted
    <2>3. PICK l \in {"rbLook", "loop"} : Goto(p, l)
      BY <1>11 DEF RollbackCompleted, Unlock
    <2>4. l \notin Marked
      BY <2>3 DEF Marked
    <2>5. PcFrame
      BY <1>11, <1>p, <1>t, <2>3, <2>4, MoveFrame DEF RollbackCompleted, payloadVars
    <2> QED
      BY <2>2, <2>5, FrameRecords
  <1>12. CASE FailureStep(p)
    BY <1>12, <1>p, FailureRecords
  <1> QED
    BY <1>1, <1>2, <1>4, <1>5, <1>6, <1>7, <1>8, <1>9, <1>10, <1>11, <1>12 DEF WatcherStep

\* A group of the plan is a set of tasks.
LEMMA GroupTasks ==
    ASSUME NEW p \in Paths, NEW i \in DOMAIN Groups(p)
    PROVE  Groups(p)[i] \subseteq Tasks /\ i \in 1..Len(Groups(p)) /\ Len(Groups(p)) \in Nat
  <1>1. Groups(p) \in Seq(SUBSET Tasks)
    BY PlanAssumption DEF Groups
  <1> QED
    BY <1>1

LEMMA LaunchRecords ==
    ASSUME Base, submitted = 1, NEW e \in Executors, NEW p \in Paths, NEW i \in DOMAIN Groups(p),
           Launch(e, p, i), UNCHANGED <<mapVars, entryVars, payloadVars>>
    PROVE  Records'
  <1>1. Grows /\ StatusFrame
    BY DEF Grows, StatusFrame, mapVars, entryVars
  <1>2. task' = task /\ \A q \in Procs : pc'[q] = IF q = Executor(e) THEN "group" ELSE pc[q]
    BY DEF Launch, Goto, payloadVars, Base, TypeInv, ProcTypes
  <1>3. \A f \in Executors : Executor(f) \in Procs /\ (f # e => Executor(f) # Executor(e))
    BY DEF Procs, Executor
  <1>4. \A f \in Executors : path'[f] = (IF f = e THEN p ELSE path[f])
                          /\ idx'[f] = (IF f = e THEN i ELSE idx[f])
    BY DEF Launch, Base, TypeInv, WorkTypes
  <1>5. ResFrame
    BY DEF Launch, ResFrame, Good, Base, TypeInv, WorkTypes
  <1>6. Told'
    BY <1>1, <1>2, RecordGrows DEF Told, Base, Records
  <1>7. AtGroup'
    <2>1. AtGroup
      BY DEF Base, Records
    <2> QED
      BY <1>2, <1>3, <1>4, <2>1 DEF AtGroup, Groups
  <1>8. AtPause'
    <2>1. AtPause
      BY DEF Base, Records
    <2> QED
      BY <1>1, <1>2, <1>3, <1>4, <2>1, RecordGrows DEF AtPause
  <1>9. AtEnd'
    BY <1>1, <1>2, RecordGrows DEF AtEnd, Base, Records
  <1> QED
    BY <1>1, <1>5, <1>6, <1>7, <1>8, <1>9, AnsweredKept, StatusKept DEF Records

LEMMA CollectedRecords ==
    ASSUME Base, submitted = 1, NEW e \in Executors,
           NEW l \in {"idle", "failLook", "pauseLook", "finLook"}, Collected(e, l),
           UNCHANGED <<mapVars, entryVars, payloadVars>>,
           l = "pauseLook" => MainDone(idx[e]), l = "finLook" => LastDone
    PROVE  Records'
  <1>1. Grows /\ PlaceFrame /\ StatusFrame
    BY DEF Grows, PlaceFrame, StatusFrame, mapVars, entryVars, Collected
  <1>2. task' = task /\ \A q \in Procs : pc'[q] = IF q = Executor(e) THEN l ELSE pc[q]
    BY DEF Collected, Goto, payloadVars, Base, TypeInv, ProcTypes
  <1>3. \A f \in Executors : Executor(f) \in Procs /\ (f # e => Executor(f) # Executor(e))
    BY DEF Procs, Executor
  <1>4. ResFrame
    BY DEF Collected, ResFrame, Good, Base, TypeInv, WorkTypes
  <1>5. Told'
    BY <1>1, <1>2, RecordGrows DEF Told, Base, Records
  <1>6. AtGroup'
    BY <1>1, <1>2, <1>3 DEF AtGroup, PlaceFrame, Groups, Base, Records
  <1>7. AtPause'
    <2>1. AtPause
      BY DEF Base, Records
    <2> QED
      BY <1>1, <1>2, <1>3, <2>1, RecordGrows DEF AtPause, PlaceFrame
  <1>8. AtEnd'
    BY <1>1, <1>2, RecordGrows DEF AtEnd, Base, Records
  <1> QED
    BY <1>1, <1>4, <1>5, <1>6, <1>7, <1>8, AnsweredKept, StatusKept DEF Records

\* A group that succeeded while the entry is there is recorded.
LEMMA GroupRecorded ==
    ASSUME Base, submitted = 1, NEW e \in Executors,
           pc[Executor(e)] = "group", Succeeded(e), running # None
    PROVE  /\ path[e] \in Paths
           /\ idx[e] \in DOMAIN Groups(path[e])
           /\ Current(e) \subseteq completed[1]
  <1>1. path[e] \in Paths /\ idx[e] \in DOMAIN Groups(path[e])
    BY DEF Base, Records, AtGroup, TypeInv, WorkTypes
  <1>2. Current(e) \subseteq Tasks
    BY <1>1, GroupTasks DEF Current
  <1>3. \A t \in Current(e) : res[e][t] \in {"gotOk", "ok"}
    BY DEF Succeeded
  <1> QED
    BY <1>1, <1>2, <1>3 DEF Base, Records, Answered, Recorded

LEMMA AdvanceRecords ==
    ASSUME PlainPlan, Base, submitted = 1, NEW e \in Executors, Advance(e)
    PROVE  Records'
  <1>1. /\ path[e] \in Paths
        /\ idx[e] \in DOMAIN Groups(path[e])
        /\ Groups(path[e])[idx[e]] \subseteq completed[1]
    BY GroupRecorded DEF Advance, Current
  <1>2. idx[e] \in 1..Len(Groups(path[e])) /\ Len(Groups(path[e])) \in Nat
    BY <1>1, GroupTasks
  <1>3. UNCHANGED <<mapVars, entryVars, payloadVars>>
    BY DEF Advance
  <1>4. PICK c \in Control(path[e])[idx[e]] :
          \/ c = "approval" /\ Collected(e, "pauseLook")
          \/ c = "branch" /\ ToGroup(e, "branch", 1)
          \/ c = "skip" /\ ToGroup(e, path[e], idx[e] + 2)
          \/ c = "next" /\ ToGroup(e, path[e], idx[e] + 1)
    BY DEF Advance
  <1>5. CASE c = "approval" /\ Collected(e, "pauseLook")
    <2>1. path[e] = "main"
      BY <1>1, <1>4, <1>5 DEF PlainPlan
    <2>2. MainDone(idx[e])
      BY <1>1, <2>1 DEF MainDone, Groups
    <2> QED
      BY <1>3, <1>5, <2>2, CollectedRecords
  <1>6. CASE c = "branch" /\ ToGroup(e, "branch", 1)
    <2>1. Len(Branch) > 0 /\ Len(Branch) \in Nat /\ 1 \in DOMAIN Branch
      BY <1>1, <1>4, <1>6, PlanAssumption DEF PlainPlan
    <2>2. Groups("branch") = Branch /\ "branch" \in Paths
      BY DEF Groups, Paths
    <2>3. Launch(e, "branch", 1)
      BY <1>6, <2>1, <2>2 DEF ToGroup
    <2> QED
      BY <1>3, <2>1, <2>2, <2>3, LaunchRecords
  <1>7. ASSUME NEW i \in {idx[e] + 1, idx[e] + 2}, ToGroup(e, path[e], i),
               i > Len(Groups(path[e])) =>
                 \/ idx[e] = Len(Groups(path[e]))
                 \/ "skip" \in Control(path[e])[idx[e]] /\ idx[e] + 2 > Len(Groups(path[e]))
        PROVE  Records'
    <2>1. CASE i <= Len(Groups(path[e]))
      <3>1. Groups(path[e]) \in Seq(SUBSET Tasks)
        BY PlanAssumption DEF Groups
      <3>2. i \in DOMAIN Groups(path[e])
        BY <1>2, <2>1, <3>1
      <3> QED
        BY <1>1, <1>3, <1>7, <2>1, <3>2, LaunchRecords DEF ToGroup
    <2>2. CASE ~(i <= Len(Groups(path[e])))
      <3>1. \/ idx[e] = Len(Groups(path[e]))
            \/ "skip" \in Control(path[e])[idx[e]] /\ idx[e] + 2 > Len(Groups(path[e]))
        BY <1>2, <1>7, <2>2
      <3>2. Groups(path[e])[idx[e]] \in LastGroups
        BY <1>1, <3>1 DEF LastGroups
      <3>3. LastDone
        BY <1>1, <3>2 DEF LastDone
      <3>4. Collected(e, "finLook")
        BY <1>7, <2>2 DEF ToGroup
      <3> QED
        BY <1>3, <3>3, <3>4, CollectedRecords
    <2> QED
      BY <2>1, <2>2
  <1>8. CASE c = "skip" /\ ToGroup(e, path[e], idx[e] + 2)
    BY <1>4, <1>7, <1>8
  <1>9. CASE c = "next" /\ ToGroup(e, path[e], idx[e] + 1)
    <2>1. idx[e] + 1 > Len(Groups(path[e])) => idx[e] = Len(Groups(path[e]))
      BY <1>2
    <2> QED
      BY <1>7, <1>9, <2>1
  <1> QED
    BY <1>4, <1>5, <1>6, <1>8, <1>9

\* A run that is paused or completed is so with its tasks recorded.
LEMMA MarkRecords ==
    ASSUME Base, submitted = 1, NEW p \in Procs, pc[p] \in Holding, Goto(p, "idle"),
           UNCHANGED <<completed, payloadVars, execVars>>, running' \in {running, None},
           NEW s \in {"PAUSED", "COMPLETED"}, SetStatus(got[p], s),
           s = "PAUSED" => MainDone(pausedIdx'[1]),
           s = "COMPLETED" => LastDone
    PROVE  Records'
  <1>1. got[p] = 1 /\ 1 \in Runs
    BY OneRun
  <1>2. Grows /\ PlaceFrame /\ ResFrame
    BY DEF Grows, PlaceFrame, ResFrame, execVars
  <1>3. PcFrame
    BY MoveFrame DEF Base, Marked, payloadVars
  <1>4. status'[1] = s /\ \A r \in Runs \ {1} : status'[r] = status[r]
    BY <1>1 DEF SetStatus, Base, TypeInv, EntryTypes
  <1>5. PausedDone'
    BY <1>4 DEF PausedDone, MainDone
  <1>6. EndDone'
    BY <1>2, <1>4, RecordGrows DEF EndDone, Base, Records
  <1> QED
    BY <1>2, <1>3, <1>5, <1>6, ToldKept, AnsweredKept, AtGroupKept, AtPauseKept, AtEndKept
    DEF Records

LEMMA ExecutorRecords ==
    ASSUME PlainPlan, Base, submitted = 1, NEW e \in Executors, ExecutorStep(e)
    PROVE  Records'
  <1> DEFINE p == Executor(e)
  <1>p. p \in Procs
    BY DEF Procs
  <1>t. TypeInv
    BY DEF Base
  <1>1. CASE ExecuteGone(e)
    <2>1. Grows /\ PlaceFrame /\ ResFrame /\ StatusFrame
      BY <1>1, CalmFrames DEF ExecuteGone
    <2>2. PcFrame
      BY <1>1, <1>p, <1>t, MoveFrame DEF ExecuteGone, Marked, payloadVars
    <2> QED
      BY <2>1, <2>2, FrameRecords
  <1>2. CASE Execute(e)
    <2>1. path[e] \in Paths /\ idx[e] \in DOMAIN Groups(path[e])
      BY <1>2 DEF Execute, Base, Records, AtGroup, TypeInv, WorkTypes
    <2> QED
      BY <1>2, <2>1, LaunchRecords DEF Execute
  <1>3. ASSUME NEW t \in Tasks,
               PushTask(e, t) \/ PushTaskError(e, t) \/ RegisterTaskListener(e, t)
        PROVE  Records'
    <2>1. Grows /\ PlaceFrame /\ StatusFrame /\ PcFrame
      BY <1>3 DEF PushTask, PushTaskError, RegisterTaskListener, Grows, PlaceFrame, StatusFrame,
                  PcFrame, mapVars, entryVars, payloadVars
    <2>2. PICK s \in {"listen", "err", "wait"} : res' = [res EXCEPT ![e][t] = s]
      BY <1>3 DEF PushTask, PushTaskError, RegisterTaskListener
    <2>3. ResFrame
      BY <2>2 DEF ResFrame, Good, Base, TypeInv, WorkTypes
    <2> QED
      BY <2>1, <2>3, FrameRecords
  <1>4. ASSUME NEW t \in Tasks, TaskSucceeds(e, t) \/ TaskFails(e, t) \/ Watchdog(e, t)
        PROVE  Records'
    <2>1. PICK s : TaskResult(e, t, s) /\ (s \in Good => res[e][t] \in Good)
      BY <1>4 DEF TaskSucceeds, TaskFails, Watchdog, Good
    <2>2. Grows /\ PlaceFrame /\ StatusFrame /\ PcFrame
      BY <2>1 DEF TaskResult, Grows, PlaceFrame, StatusFrame, PcFrame, mapVars, entryVars, payloadVars
    <2>3. ResFrame
      BY <2>1 DEF TaskResult, Unregister, ResFrame, Good, Base, TypeInv, WorkTypes
    <2> QED
      BY <2>2, <2>3, FrameRecords
  <1>5. CASE GroupFailed(e) \/ GroupGone(e)
    <2>1. PICK l \in {"failLook", "idle"} : Collected(e, l)
      BY <1>5 DEF GroupFailed, GroupGone
    <2>2. UNCHANGED <<mapVars, entryVars, payloadVars>>
      BY <1>5 DEF GroupFailed, GroupGone
    <2> QED
      BY <2>1, <2>2, CollectedRecords
  <1>6. CASE Advance(e)
    BY <1>6, AdvanceRecords
  <1>7. CASE MarkGroupFailed(e)
    <2>1. pc[p] \in Holding /\ "FAILED" \in Status \ {"PAUSED", "COMPLETED"}
      BY <1>7 DEF MarkGroupFailed, Holding, Status
    <2>2. Grows /\ PlaceFrame /\ ResFrame /\ StatusFrame
      BY <1>7, <1>p, <2>1, PersistFrames DEF MarkGroupFailed
    <2>3. PcFrame
      BY <1>7, <1>p, <1>t, MoveFrame DEF MarkGroupFailed, Unlock, Marked, payloadVars
    <2> QED
      BY <2>2, <2>3, FrameRecords
  <1>8. CASE FinishWorkflow(e)
    <2>1. pc[p] \in Holding /\ LastDone
      BY <1>8, <1>p DEF FinishWorkflow, Holding, Base, Records, AtEnd
    <2> QED
      BY <1>8, <1>p, <2>1, MarkRecords DEF FinishWorkflow, Unlock, Persist
  <1>9. CASE PauseForApproval(e)
    <2>1. pc[p] \in Holding /\ MainDone(idx[e])
      BY <1>9 DEF PauseForApproval, Holding, Base, Records, AtPause
    <2>2. got[p] = 1 /\ 1 \in Runs
      BY <1>p, <2>1, OneRun
    <2>3. pausedIdx'[1] = idx[e]
      BY <1>9, <2>2 DEF PauseForApproval, Base, TypeInv, EntryTypes
    <2> QED
      BY <1>9, <1>p, <2>1, <2>3, MarkRecords DEF PauseForApproval, Unlock, mapVars
  <1>10. CASE Look(p, "failLook", "failAct", "idle") \/ Look(p, "finLook", "finAct", "idle")
              \/ Look(p, "pauseLook", "pauseAct", "idle")
    <2>1. "failAct" \notin Marked /\ "idle" \notin Marked
      BY DEF Marked
    <2> QED
      BY <1>10, <1>p, <2>1, LookRecords
  <1> QED
    BY <1>1, <1>2, <1>3, <1>4, <1>5, <1>6, <1>7, <1>8, <1>9, <1>10 DEF ExecutorStep

LEMMA TimerRecords ==
    ASSUME Base, submitted = 1, NEW r \in Runs, TimerStep(r)
    PROVE  Records'
  <1> DEFINE p == Timer(r)
  <1>p. p \in Procs
    BY DEF Procs
  <1>t. TypeInv
    BY DEF Base
  <1>1. CASE TimerStops(r)
    <2>1. Grows /\ PlaceFrame /\ ResFrame /\ StatusFrame
      BY <1>1, CalmFrames DEF TimerStops
    <2>2. PcFrame
      BY <1>1, <1>p, <1>t, MoveFrame DEF TimerStops, Marked, payloadVars
    <2> QED
      BY <2>1, <2>2, FrameRecords
  <1>2. CASE Look(p, "armed", "tmAct", "idle")
    <2>1. "tmAct" \notin Marked /\ "idle" \notin Marked
      BY DEF Marked
    <2> QED
      BY <1>2, <1>p, <2>1, LookRecords
  <1>3. CASE Timeout(r)
    <2>1. pc[p] \in Holding
      BY <1>3 DEF Timeout, Holding
    <2>2. Grows /\ PlaceFrame /\ ResFrame /\ StatusFrame
      BY <1>3, <1>p, <2>1, PersistFrames, CalmFrames DEF Timeout, entryVars
    <2>3. PICK l \in {"mfLook", "sgLook", "idle"} : Goto(p, l)
      BY <1>3 DEF Timeout, Unlock
    <2>4. l \notin Marked
      BY <2>3 DEF Marked
    <2>5. PcFrame
      BY <1>3, <1>p, <1>t, <2>3, <2>4, MoveFrame DEF Timeout, payloadVars
    <2> QED
      BY <2>2, <2>5, FrameRecords
  <1>4. CASE FailureStep(p)
    BY <1>4, <1>p, FailureRecords
  <1> QED
    BY <1>1, <1>2, <1>3, <1>4 DEF TimerStep

\* The approved group is recorded: the next one is executed, or the run is
\* complete.
LEMMA ApproveRecords ==
    ASSUME Base, submitted = 1, NEW o \in Operators, NEW e \in Executors,
           ApproveWorkflow(Operator(o), e)
    PROVE  Records'
  <1> DEFINE p == Operator(o)
             i == pausedIdx[1]
  <1>1. p \in Procs /\ Executor(e) \in Procs
    BY DEF Procs
  <1>2. got[p] = 1 /\ 1 \in Runs
    BY <1>1, OneRun DEF ApproveWorkflow, Holding
  <1>3. MainDone(i)
    BY <1>2 DEF ApproveWorkflow, Base, Records, PausedDone
  <1>4. i \in 1..Len(Main) /\ Len(Main) \in Nat /\ Groups("main") = Main /\ "main" \in Paths
    BY <1>3, PlanAssumption DEF MainDone, Groups, Paths
  <1>5. Grows /\ ResFrame /\ StatusFrame
    BY <1>2 DEF ApproveWorkflow, SetStatus, Grows, ResFrame, StatusFrame, mapVars, Base, TypeInv,
                EntryTypes
  <1>6. \A f \in Executors : /\ Executor(f) \in Procs /\ Executor(f) # p
                             /\ f # e => Executor(f) # Executor(e)
    BY DEF Procs, Executor, Operator
  <1>7. task' = task
    BY DEF ApproveWorkflow, payloadVars
  <1>8. Answered' /\ PausedDone' /\ EndDone'
    BY <1>5, AnsweredKept, StatusKept
  <1>9. CASE i < Len(Main)
    <2>1. pc' = [pc EXCEPT ![p] = "idle", ![Executor(e)] = "start"]
      BY <1>2, <1>9 DEF ApproveWorkflow
    <2>2. \A q \in Procs : pc'[q] = IF q = Executor(e) THEN "start"
                                    ELSE IF q = p THEN "idle" ELSE pc[q]
      BY <2>1 DEF Base, TypeInv, ProcTypes
    <2>3. \A f \in Executors : path'[f] = (IF f = e THEN "main" ELSE path[f])
                            /\ idx'[f] = (IF f = e THEN i + 1 ELSE idx[f])
      BY <1>2, <1>9 DEF ApproveWorkflow, Base, TypeInv, WorkTypes
    <2>4. i + 1 \in DOMAIN Main
      BY <1>4, <1>9, PlanAssumption
    <2>5. Told' /\ AtEnd'
      BY <1>5, <1>7, <2>2, RecordGrows DEF Told, AtEnd, Base, Records
    <2>6. AtGroup'
      <3>1. AtGroup
        BY DEF Base, Records
      <3> QED
        BY <1>4, <1>6, <2>2, <2>3, <2>4, <3>1 DEF AtGroup, Groups
    <2>7. AtPause'
      <3>1. AtPause
        BY DEF Base, Records
      <3> QED
        BY <1>5, <1>6, <2>2, <2>3, <3>1, RecordGrows DEF AtPause
    <2> QED
      BY <1>8, <2>5, <2>6, <2>7 DEF Records
  <1>10. CASE ~(i < Len(Main))
    <2>1. i = Len(Main)
      BY <1>4, <1>10
    <2>2. Main[i] \in LastGroups
      BY <1>3, <1>4, <2>1 DEF LastGroups, MainDone
    <2>3. LastDone
      BY <1>3, <2>2 DEF LastDone, MainDone
    <2>4. Goto(p, "apLook") /\ PlaceFrame
      BY <1>2, <1>10, <2>1 DEF ApproveWorkflow, PlaceFrame
    <2>5. \A q \in Procs : pc'[q] = IF q = p THEN "apLook" ELSE pc[q]
      BY <2>4 DEF Goto, Base, TypeInv, ProcTypes
    <2>6. Told'
      BY <1>5, <1>7, <2>5, RecordGrows DEF Told, Base, Records
    <2>7. AtEnd'
      BY <1>5, <2>3, <2>5, RecordGrows DEF AtEnd, Base, Records
    <2>8. AtGroup'
      BY <1>6, <2>4, <2>5 DEF AtGroup, PlaceFrame, Groups, Base, Records
    <2>9. AtPause'
      <3>1. AtPause
        BY DEF Base, Records
      <3> QED
        BY <1>5, <1>6, <2>4, <2>5, <3>1, RecordGrows DEF AtPause, PlaceFrame
    <2> QED
      BY <1>8, <2>6, <2>7, <2>8, <2>9 DEF Records
  <1> QED
    BY <1>9, <1>10

LEMMA OperatorRecords ==
    ASSUME Base, submitted = 1, NEW o \in Operators, Request(Operator(o)) \/ OperatorStep(o)
    PROVE  Records'
  <1> DEFINE p == Operator(o)
  <1>p. p \in Procs
    BY DEF Procs
  <1>t. TypeInv
    BY DEF Base
  <1>i. {"idle", "sgLook", "handle", "cancelAct", "approveAct", "rejectAct"} \cap Marked = {}
    BY DEF Marked
  <1>1. CASE Request(p) \/ Look(p, "apLook", "apAct", "idle")
    BY <1>1, <1>p, <1>i, LookRecords DEF Request
  <1>2. CASE CancelWorkflow(p)
    <2>1. pc[p] \in Holding
      BY <1>2 DEF CancelWorkflow, Holding
    <2>2. Grows /\ PlaceFrame /\ ResFrame /\ StatusFrame
      BY <1>2, <1>p, <2>1, PersistFrames, CalmFrames DEF CancelWorkflow, entryVars
    <2>3. PICK l \in {"sgLook", "idle"} : Goto(p, l)
      BY <1>2 DEF CancelWorkflow, Unlock
    <2>4. \A q \in Procs : q # p => task'[q] = task[q]
      BY <1>2 DEF CancelWorkflow, Base, TypeInv, ProcTypes
    <2>5. PcFrame
      BY <1>p, <1>t, <1>i, <2>3, <2>4, MoveFrame
    <2> QED
      BY <2>2, <2>5, FrameRecords
  <1>3. CASE RejectWorkflow(p)
    <2>1. Grows /\ PlaceFrame /\ ResFrame /\ StatusFrame
      BY <1>3, CalmFrames DEF RejectWorkflow
    <2>2. PICK l \in {"handle", "idle"} : Goto(p, l)
      BY <1>3 DEF RejectWorkflow, Unlock
    <2>3. \A q \in Procs : q # p => task'[q] = task[q]
      BY <1>3 DEF RejectWorkflow, Base, TypeInv, ProcTypes
    <2>4. PcFrame
      BY <1>p, <1>t, <1>i, <2>2, <2>3, MoveFrame
    <2> QED
      BY <2>1, <2>4, FrameRecords
  <1>4. CASE ApproveRefused(p)
    <2>1. Grows /\ PlaceFrame /\ ResFrame /\ StatusFrame
      BY <1>4, CalmFrames DEF ApproveRefused
    <2>2. PcFrame
      BY <1>4, <1>p, <1>t, <1>i, MoveFrame DEF ApproveRefused, Unlock, payloadVars
    <2> QED
      BY <2>1, <2>2, FrameRecords
  <1>5. ASSUME NEW e \in Executors, ApproveWorkflow(p, e) PROVE Records'
    BY <1>5, ApproveRecords
  <1>6. CASE ApproveLast(p)
    <2>1. pc[p] \in Holding /\ LastDone
      BY <1>6, <1>p DEF ApproveLast, Holding, Base, Records, AtEnd
    <2> QED
      BY <1>6, <1>p, <2>1, MarkRecords DEF ApproveLast, Unlock, Persist
  <1>7. CASE FailureStep(p)
    BY <1>7, <1>p, FailureRecords
  <1> QED
    BY <1>1, <1>2, <1>3, <1>4, <1>5, <1>6, <1>7 DEF OperatorStep

LEMMA RollbackRecords ==
    ASSUME Base, submitted = 1, NEW t \in Tasks, RollbackStep(t)
    PROVE  Records'
  <1> DEFINE p == Rollbacker(t)
  <1>p. p \in Procs
    BY DEF Procs
  <1>t. TypeInv
    BY DEF Base
  <1>i. {"idle", "rbWait", "rbPoll", "rbDeaf", "rtAct"} \cap Marked = {}
    BY DEF Marked
  <1>1. CASE PushRollbackTask(t)
    <2>1. Grows /\ PlaceFrame /\ ResFrame /\ StatusFrame
      BY <1>1, CalmFrames DEF PushRollbackTask
    <2>2. PcFrame
      BY <1>1, <1>p, <1>t, <1>i, MoveFrame DEF PushRollbackTask, payloadVars
    <2> QED
      BY <2>1, <2>2, FrameRecords
  <1>2. CASE Look(p, "rbWait", "rbPoll", "rbDeaf")
             \/ \E l \in {"rbWait", "rbPoll", "rbDeaf"} : Look(p, l, "rtAct", "idle")
    BY <1>2, <1>p, <1>i, LookRecords
  <1>3. CASE RollbackSeen(t)
    <2>1. Grows /\ PlaceFrame /\ ResFrame /\ StatusFrame
      BY <1>3, CalmFrames DEF RollbackSeen
    <2>2. PICK l \in {"idle", "rbWait"} : Goto(p, l)
      BY <1>3 DEF RollbackSeen, Unlock
    <2>3. PcFrame
      BY <1>3, <1>p, <1>t, <1>i, <2>2, MoveFrame DEF RollbackSeen, payloadVars
    <2> QED
      BY <2>1, <2>3, FrameRecords
  <1>4. CASE RollbackTimeout(t)
    <2>1. pc[p] \in Holding
      BY <1>4 DEF RollbackTimeout, Holding
    <2>2. Grows /\ PlaceFrame /\ ResFrame /\ StatusFrame
      BY <1>4, <1>p, <2>1, PersistFrames DEF RollbackTimeout
    <2>3. PcFrame
      BY <1>4, <1>p, <1>t, <1>i, MoveFrame DEF RollbackTimeout, Unlock, payloadVars
    <2> QED
      BY <2>2, <2>3, FrameRecords
  <1> QED
    BY <1>1, <1>2, <1>3, <1>4 DEF RollbackStep

LEMMA EnvironmentRecords ==
    ASSUME Base, submitted = 1,
           \/ \E e \in Executors : RetryWorkflow(e)
           \/ \E r \in Runs : InitStep(r)
           \/ \E k \in out : Evict(k) \/ Lost(k)
           \/ UNCHANGED vars
    PROVE  Records'
  <1>t. TypeInv
    BY DEF Base
  <1>i. {"idle", "resubmit", "mfLook", "clnWatch", "clnListen"} \cap Marked = {}
    BY DEF Marked
  <1>1. ASSUME NEW e \in Executors, RetryWorkflow(e) PROVE Records'
    <2>1. Executor(e) \in Procs
      BY DEF Procs
    <2>2. Grows /\ PlaceFrame /\ ResFrame /\ StatusFrame
      BY <1>1 DEF RetryWorkflow, Grows, PlaceFrame, ResFrame, StatusFrame, entryVars, execVars
    <2>3. PcFrame
      BY <1>1, <1>t, <1>i, <2>1, MoveFrame DEF RetryWorkflow, payloadVars
    <2> QED
      BY <2>2, <2>3, FrameRecords
  <1>2. ASSUME NEW r \in Runs, InitStep(r) PROVE Records'
    <2>1. Initialiser(r) \in Procs
      BY DEF Procs
    <2>2. Grows /\ PlaceFrame /\ StatusFrame
      BY <1>2 DEF InitStep, InitOk, InitFailed, CleanupWatcher, CleanupTaskListeners,
                  Grows, PlaceFrame, StatusFrame, entryVars, execVars, mapVars
    <2>3. ResFrame
      BY <1>2 DEF InitStep, InitOk, InitFailed, CleanupWatcher, CleanupTaskListeners, ResFrame, Good, execVars
    <2>4. PcFrame
      BY <1>2, <1>t, <1>i, <2>1, MoveFrame DEF InitStep, InitOk, InitFailed, CleanupWatcher, CleanupTaskListeners, payloadVars
    <2> QED
      BY <2>2, <2>3, <2>4, FrameRecords
  <1>3. ASSUME NEW k \in out, Evict(k) PROVE Records'
    <2>1. Evictor \in Procs
      BY DEF Procs
    <2>2. Grows /\ PlaceFrame /\ ResFrame /\ StatusFrame
      BY <1>3, CalmFrames DEF Evict
    <2>3. \A q \in Procs : q # Evictor => task'[q] = task[q]
      BY <1>3 DEF Evict, Base, TypeInv, ProcTypes
    <2>4. PcFrame
      BY <1>3, <1>t, <1>i, <2>1, <2>3, MoveFrame DEF Evict
    <2> QED
      BY <2>2, <2>4, FrameRecords
  <1>4. ASSUME (\E k \in out : Lost(k)) \/ UNCHANGED vars PROVE Records'
    <2>1. Grows /\ PlaceFrame /\ ResFrame /\ StatusFrame
      BY <1>4, CalmFrames DEF Lost, vars
    <2>2. PcFrame
      BY <1>4 DEF Lost, vars, PcFrame, payloadVars
    <2> QED
      BY <2>1, <2>2, FrameRecords
  <1> QED
    BY <1>1, <1>2, <1>3, <1>4

(***************************************************************************)
(* Who submits, and who moves an executor from group to group.             *)
(***************************************************************************)

Still == UNCHANGED <<submitted, path, idx>>

LEMMA LookStill == ASSUME NEW p, NEW a, NEW b, NEW c, Look(p, a, b, c) PROVE Still
  BY DEF Look, Still, execVars

LEMMA FailureStill == ASSUME NEW p, FailureStep(p) PROVE Still
  <1>1. CASE \/ MarkFailed(p) \/ SagaStart(p) \/ SagaCollect(p) \/ MarkRolledBack(p) \/ Handle(p)
             \/ SkipTask(p) \/ SkipNotify(p)
    BY <1>1 DEF MarkFailed, SagaStart, SagaCollect, MarkRolledBack, Handle, SkipTask, SkipNotify,
                Still, execVars
  <1> QED
    BY <1>1, LookStill DEF FailureStep

LEMMA RetryStill == ASSUME NEW r, NEW t, RetryStep(r, t) PROVE Still
  <1>1. CASE \/ RetryPush(r, t) \/ RetryCancelled(r, t) \/ RetryError(r, t) \/ ClearFailedTask(r, t)
    BY <1>1 DEF RetryPush, RetryCancelled, RetryError, ClearFailedTask, Still, execVars
  <1> QED
    BY <1>1, LookStill, FailureStill DEF RetryStep

LEMMA WatcherStill == ASSUME NEW r, WatcherStep(r) PROVE Still
  <1>1. CASE \/ RegisterWatcher(r) \/ WatcherDone(r) \/ RecordTaskCompleted(r) \/ RecordTaskFailed(r)
             \/ NotifyListener(r) \/ HandleRetry(r) \/ RollbackCompleted(r)
    BY <1>1 DEF RegisterWatcher, WatcherDone, WatcherExit, RecordTaskCompleted, RecordTaskFailed,
                NotifyListener, HandleRetry, RollbackCompleted, Still, execVars
  <1>2. ASSUME NEW k, TaskCompleted(r, k) \/ TaskFailed(r, k) PROVE Still
    BY <1>2 DEF TaskCompleted, TaskFailed, TakeEvent, WatcherExit, Still, execVars
  <1>3. ASSUME NEW t, TakeRollback(r, t) PROVE Still
    BY <1>3 DEF TakeRollback, WatcherExit, Still, execVars
  <1> QED
    BY <1>1, <1>2, <1>3, LookStill, FailureStill DEF WatcherStep

LEMMA TimerStill == ASSUME NEW r, TimerStep(r) PROVE Still
  BY LookStill, FailureStill DEF TimerStep, TimerStops, Timeout, Still, execVars

LEMMA RollbackStill == ASSUME NEW t, RollbackStep(t) PROVE Still
  BY LookStill
  DEF RollbackStep, PushRollbackTask, RollbackSeen, RollbackTimeout, Still, execVars

LEMMA OperatorStill ==
    ASSUME NEW o, Request(Operator(o)) \/ OperatorStep(o)
    PROVE  Still \/ \E e \in Executors : ApproveWorkflow(Operator(o), e)
  <1> DEFINE p == Operator(o)
  <1>1. CASE CancelWorkflow(p) \/ RejectWorkflow(p) \/ ApproveRefused(p) \/ ApproveLast(p)
    BY <1>1 DEF CancelWorkflow, RejectWorkflow, ApproveRefused, ApproveLast, Still, execVars
  <1> QED
    BY <1>1, LookStill, FailureStill DEF Request, OperatorStep

LEMMA ExecutorStill ==
    ASSUME NEW e, ExecutorStep(e)
    PROVE  Still \/ Execute(e) \/ Advance(e)
  <1>1. CASE \/ ExecuteGone(e) \/ GroupFailed(e) \/ GroupGone(e) \/ MarkGroupFailed(e)
             \/ FinishWorkflow(e) \/ PauseForApproval(e)
    BY <1>1 DEF ExecuteGone, GroupFailed, GroupGone, Collected, MarkGroupFailed, FinishWorkflow,
                PauseForApproval, Still, execVars
  <1>2. ASSUME NEW t, \/ PushTask(e, t) \/ PushTaskError(e, t) \/ RegisterTaskListener(e, t)
                      \/ TaskSucceeds(e, t) \/ TaskFails(e, t) \/ Watchdog(e, t)
        PROVE  Still
    BY <1>2 DEF PushTask, PushTaskError, RegisterTaskListener, TaskSucceeds, TaskFails, Watchdog,
                TaskResult, Still
  <1> QED
    BY <1>1, <1>2, LookStill DEF ExecutorStep

LEMMA EnvironmentStill ==
    ASSUME \/ \E e \in Executors : RetryWorkflow(e)
           \/ \E r \in Runs : InitStep(r)
           \/ \E k \in out : Evict(k) \/ Lost(k)
           \/ UNCHANGED vars
    PROVE  Still
  BY DEF RetryWorkflow, InitStep, InitOk, InitFailed, CleanupWatcher, CleanupTaskListeners, Evict, Lost, vars, Still, execVars

\* A group is executed next by the executor that starts, went through its
\* group, or is started by an approval or a submission.
LEMMA NextStill ==
    ASSUME [Next]_vars
    PROVE  \/ Still
           \/ \E e \in Executors : Submit(e) \/ Execute(e) \/ Advance(e)
           \/ \E o \in Operators, e \in Executors : ApproveWorkflow(Operator(o), e)
  <1>1. ASSUME NEW e \in Executors, ExecutorStep(e) PROVE Still \/ Execute(e) \/ Advance(e)
    BY <1>1, ExecutorStill
  <1>2. ASSUME NEW o \in Operators, Request(Operator(o)) \/ OperatorStep(o)
        PROVE  Still \/ \E e \in Executors : ApproveWorkflow(Operator(o), e)
    BY <1>2, OperatorStill
  <1>3. CASE FailureStep(Evictor)
    BY <1>3, FailureStill
  <1> QED
    BY <1>1, <1>2, <1>3, WatcherStill, TimerStill, RetryStill, RollbackStill, EnvironmentStill
    DEF Next

LEMMA OnlySubmitSubmits ==
    ASSUME [Next]_vars, \A e \in Executors : ~Submit(e)
    PROVE  UNCHANGED submitted
  <1>1. ASSUME NEW e \in Executors, Execute(e) \/ Advance(e) PROVE UNCHANGED submitted
    BY <1>1 DEF Execute, Advance
  <1>2. ASSUME NEW p, NEW e \in Executors, ApproveWorkflow(p, e) PROVE UNCHANGED submitted
    BY <1>2 DEF ApproveWorkflow
  <1> QED
    BY <1>1, <1>2, NextStill DEF Still

(***************************************************************************)
(* Before the first submission every goroutine is idle and has nothing to  *)
(* do; an operator who calls finds no workflow.                            *)
(***************************************************************************)

LEMMA IdleFailure == ASSUME NEW p, pc[p] = "idle" PROVE ~FailureStep(p)
  BY DEF FailureStep, Look, MarkFailed, SagaStart, SagaCollect, MarkRolledBack, Handle, SkipTask,
         SkipNotify

LEMMA UntouchedStep ==
    ASSUME Base, submitted = 0, [Next]_vars, \A e \in Executors : ~Submit(e)
    PROVE  Untouched'
  <1>1. /\ history = {} /\ out = {} /\ rbOut = {}
        /\ \A p \in Procs : pc[p] = "idle"
        /\ \A e \in Executors, t \in Tasks : res[e][t] = "idle"
    BY DEF Base, Untouched
  <1>2. running = None
    BY DEF Base, LiveInv, Known
  <1>3. /\ \A e \in Executors : pc[Executor(e)] = "idle"
        /\ \A r \in Runs : pc[Watcher(r)] = "idle" /\ pc[Timer(r)] = "idle"
                        /\ pc[Initialiser(r)] = "idle"
        /\ \A r \in Runs, t \in Tasks : pc[Retrier(r, t)] = "idle"
        /\ \A o \in Operators : pc[Operator(o)] = "idle"
        /\ \A t \in Tasks : pc[Rollbacker(t)] = "idle"
        /\ pc[Evictor] = "idle"
    BY <1>1 DEF Procs, Watchers
  <1>4. ASSUME NEW e \in Executors PROVE ~RetryWorkflow(e) /\ ~ExecutorStep(e)
    <2>1. ~RetryWorkflow(e)
      BY <1>1 DEF RetryWorkflow
    <2>2. ASSUME NEW t \in Tasks
          PROVE  /\ ~PushTask(e, t) /\ ~PushTaskError(e, t) /\ ~RegisterTaskListener(e, t)
                 /\ ~TaskSucceeds(e, t) /\ ~TaskFails(e, t) /\ ~Watchdog(e, t)
      BY <1>1 DEF PushTask, PushTaskError, RegisterTaskListener, TaskSucceeds, TaskFails, Watchdog
    <2>3. ~ExecutorStep(e)
      BY <1>3, <2>2 DEF ExecutorStep, ExecuteGone, Execute, GroupFailed, GroupGone, Advance, Look,
                        MarkGroupFailed, FinishWorkflow, PauseForApproval
    <2> QED
      BY <2>1, <2>3
  <1>5. ASSUME NEW r \in Runs
        PROVE  ~InitStep(r) /\ ~WatcherStep(r) /\ ~TimerStep(r)
    <2>1. ~InitStep(r)
      BY <1>3 DEF InitStep, InitOk, InitFailed, CleanupWatcher, CleanupTaskListeners
    <2>2. ~WatcherStep(r)
      BY <1>1, <1>3, IdleFailure
      DEF WatcherStep, RegisterWatcher, WatcherDone, Look, RecordTaskCompleted, RecordTaskFailed,
          NotifyListener, HandleRetry, RollbackCompleted
    <2>3. ~TimerStep(r)
      BY <1>3, IdleFailure DEF TimerStep, TimerStops, Look, Timeout
    <2> QED
      BY <2>1, <2>2, <2>3
  <1>6. ASSUME NEW r \in Runs, NEW t \in Tasks PROVE ~RetryStep(r, t)
    BY <1>3, IdleFailure DEF RetryStep, RetryPush, RetryCancelled, RetryError, Look, ClearFailedTask
  <1>7. ASSUME NEW o \in Operators PROVE ~OperatorStep(o)
    BY <1>3, IdleFailure DEF OperatorStep, CancelWorkflow, RejectWorkflow, ApproveRefused,
                             ApproveWorkflow, Look, ApproveLast
  <1>8. ASSUME NEW t \in Tasks PROVE ~RollbackStep(t)
    BY <1>3 DEF RollbackStep, PushRollbackTask, Look, RollbackSeen, RollbackTimeout
  <1>9. ~FailureStep(Evictor)
    BY <1>3, IdleFailure
  <1>10. CASE UNCHANGED vars
    BY <1>10 DEF Base, Untouched, vars, mapVars, entryVars, taskVars, execVars
  <1>11. ASSUME NEW o \in Operators, Request(Operator(o)) PROVE Untouched'
    <2>1. PICK a : Look(Operator(o), "idle", a, "idle")
      BY <1>11 DEF Request
    <2>2. pc' = pc
      BY <1>2, <1>3, <2>1 DEF Look, Goto, Base, TypeInv, ProcTypes
    <2> QED
      BY <2>1, <2>2 DEF Look, Base, Untouched, mapVars, entryVars, taskVars, execVars
  <1> QED
    BY <1>1, <1>4, <1>5, <1>6, <1>7, <1>8, <1>9, <1>10, <1>11 DEF Next

\* The first submission: its executor is at the first group.
LEMMA FirstSubmission ==
    ASSUME Base, submitted = 0, NEW e \in Executors, Submit(e)
    PROVE  Records'
  <1> DEFINE r == submitted + 1
  <1>1. 1 \in Runs /\ r = 1
    BY RunsAssumption DEF Submit, Runs
  <1>2. PICK a \in {"idle", "armed"}, b \in {"idle", "saving"} :
           pc' = [pc EXCEPT ![Watcher(r)] = "register", ![Timer(r)] = a,
                            ![Initialiser(r)] = b, ![Executor(e)] = "start"]
    BY DEF Submit
  <1>3. \A q \in Procs : \/ pc'[q] \in {"idle", "register", "armed", "saving"}
                         \/ pc'[q] = "start" /\ q = Executor(e)
    BY <1>2 DEF Base, Untouched, TypeInv, ProcTypes
  <1>4. \A f \in Executors : Executor(f) \in Procs /\ (f # e => Executor(f) # Executor(e))
    BY DEF Procs, Executor
  <1>5. path'[e] = "main" /\ idx'[e] = 1
    BY DEF Submit, Base, TypeInv, WorkTypes
  <1>6. 1 \in DOMAIN Main /\ Groups("main") = Main
    BY PlanAssumption DEF Groups
  <1>7. Told' /\ AtPause' /\ AtEnd'
    BY <1>3, <1>4 DEF Told, AtPause, AtEnd
  <1>8. AtGroup'
    BY <1>3, <1>4, <1>5, <1>6 DEF AtGroup, Groups
  <1>9. Answered'
    BY DEF Submit, Answered, Base, Untouched
  <1>10. status' = [status EXCEPT ![1] = "RUNNING"]
    BY <1>1 DEF Submit, SetStatus
  <1>11. PausedDone' /\ EndDone'
    BY <1>1, <1>10 DEF PausedDone, EndDone, Base, Untouched
  <1> QED
    BY <1>7, <1>8, <1>9, <1>11 DEF Records

LEMMA InitBase == Init => Base
  <1> SUFFICES ASSUME Init PROVE Base
    OBVIOUS
  <1>1. LiveInv
    BY RunsAssumption DEF Init, LiveInv, Known, EntryIsLive, Status, Runs
  <1>2. Untouched
    BY DEF Init, Untouched
  <1> QED
    BY <1>1, <1>2, InitTypes DEF Base, Init

LEMMA NextBase ==
    ASSUME PlainPlan, Base, [Next]_vars
    PROVE  Base'
  <1>1. LiveInv' /\ TypeInv'
    BY NextInv, NextTypes DEF Base
  <1>2. submitted \in Nat
    BY DEF Base, LiveInv
  <1>3. ASSUME NEW e \in Executors, Submit(e) PROVE Base'
    <2>1. submitted' = submitted + 1
      BY <1>3 DEF Submit
    <2>2. CASE submitted = 0
      BY <1>1, <1>3, <2>1, <2>2, FirstSubmission DEF Base, Untouched
    <2>3. CASE submitted # 0
      BY <1>1, <1>2, <2>1, <2>3 DEF Base, Untouched
    <2> QED
      BY <2>2, <2>3
  <1>4. ASSUME \A e \in Executors : ~Submit(e) PROVE Base'
    <2>1. submitted' = submitted
      BY <1>4, OnlySubmitSubmits
    <2>2. Untouched'
      BY <1>4, <2>1, UntouchedStep DEF Untouched
    <2>3. ASSUME submitted = 1 PROVE Records'
      <3>1. ASSUME NEW e \in Executors, RetryWorkflow(e) \/ Submit(e) \/ ExecutorStep(e)
            PROVE  Records'
        BY <1>4, <2>3, <3>1, EnvironmentRecords, ExecutorRecords
      <3>2. ASSUME NEW r \in Runs, InitStep(r) \/ WatcherStep(r) \/ TimerStep(r)
            PROVE  Records'
        BY <2>3, <3>2, EnvironmentRecords, WatcherRecords, TimerRecords
      <3>3. ASSUME NEW r \in Runs, NEW t \in Tasks, RetryStep(r, t) PROVE Records'
        BY <2>3, <3>3, RetryRecords
      <3>4. ASSUME NEW o \in Operators, Request(Operator(o)) \/ OperatorStep(o) PROVE Records'
        BY <2>3, <3>4, OperatorRecords
      <3>5. ASSUME NEW t \in Tasks, RollbackStep(t) PROVE Records'
        BY <2>3, <3>5, RollbackRecords
      <3>6. CASE FailureStep(Evictor)
        BY <2>3, <3>6, FailureRecords DEF Procs
      <3>7. CASE (\E k \in out : Evict(k) \/ Lost(k)) \/ UNCHANGED vars
        BY <2>3, <3>7, EnvironmentRecords
      <3> QED
        BY <3>1, <3>2, <3>3, <3>4, <3>5, <3>6, <3>7 DEF Next
    <2> QED
      BY <1>1, <2>1, <2>2, <2>3 DEF Base
  <1> QED
    BY <1>3, <1>4

\* As long as the UUID was submitted once, its run counts as completed only
\* when the tasks of a last group are recorded in it, for any executors,
\* operators, tasks, policies and faults and every plan with its approvals in
\* main groups (finishWorkflow, ApproveWorkflow, recordTaskCompleted).
THEOREM CompletedHasAll ==
    ASSUME PlainPlan
    PROVE  Spec => [](submitted <= 1 => CompletedMeansAll)
  <1>1. Base => (submitted <= 1 => CompletedMeansAll)
    <2> SUFFICES ASSUME Base, submitted <= 1, NEW r \in Runs, status[r] = "COMPLETED"
                 PROVE  \E g \in LastGroups : g \subseteq completed[r]
      BY DEF CompletedMeansAll
    <2>1. submitted \in Nat
      BY DEF Base, LiveInv
    <2>2. submitted = 1
      BY <2>1 DEF Base, Untouched
    <2>3. r = 1
      BY <2>2 DEF Base, Records, EndDone
    <2> QED
      BY <2>2, <2>3 DEF Base, Records, EndDone, LastDone
  <1>2. Base /\ [Next]_vars => Base'
    BY NextBase
  <1> QED
    BY <1>1, <1>2, InitBase, PTL DEF Spec

\* An executor that goes from one group to another has every task of the
\* first recorded.
LEMMA BarrierStep ==
    ASSUME Base, submitted <= 1, [Next]_vars, NEW e \in Executors,
           pc[Executor(e)] = "group", pc'[Executor(e)] = "group",
           <<path[e], idx[e]>> # <<path'[e], idx'[e]>>
    PROVE  Current(e) \subseteq completed[running]
  <1>1. submitted = 1
    <2>1. submitted \in Nat /\ Executor(e) \in Procs
      BY DEF Base, LiveInv, Procs
    <2> QED
      BY <2>1 DEF Base, Untouched
  <1>2. Advance(e)
    <2>1. \A f \in Executors : Submit(f) \/ Execute(f) => f # e
      BY DEF Submit, Execute
    <2>2. \A f \in Executors : \A p : ApproveWorkflow(p, f) => f # e
      BY DEF ApproveWorkflow
    <2>3. \A f \in Executors : f # e /\ (Submit(f) \/ Execute(f) \/ Advance(f)) =>
             path'[e] = path[e] /\ idx'[e] = idx[e]
      BY DEF Submit, Execute, Advance, ToGroup, Launch, Collected, Base, TypeInv, WorkTypes
    <2>4. \A f \in Executors : \A p : f # e /\ ApproveWorkflow(p, f) =>
             path'[e] = path[e] /\ idx'[e] = idx[e]
      BY DEF ApproveWorkflow, Base, TypeInv, WorkTypes
    <2> QED
      BY <2>1, <2>2, <2>3, <2>4, NextStill DEF Still
  <1>3. Succeeded(e) /\ running # None
    BY <1>2 DEF Advance
  <1>4. Current(e) \subseteq completed[1] /\ running = 1
    BY <1>1, <1>3, GroupRecorded, OneRun
  <1> QED
    BY <1>4

\* An executor of a UUID that is submitted once goes from one group to the
\* next only when every task of the first is recorded as completed in the
\* running workflow (ExecuteWithOptions, recordTaskCompleted).
THEOREM GroupsInOrder ==
    ASSUME PlainPlan, MaxRuns = 1
    PROVE  Spec => GroupBarrier
  <1>1. Base /\ [Next]_vars =>
          [\A e \in Executors :
             /\ pc[Executor(e)] = "group" /\ pc'[Executor(e)] = "group"
             /\ <<path[e], idx[e]>> # <<path'[e], idx'[e]>>
             => Current(e) \subseteq completed[running]]_vars
    <2>1. Base => submitted <= 1
      BY DEF Base, LiveInv
    <2> QED
      BY <2>1, BarrierStep
  <1>2. Base /\ [Next]_vars => Base'
    BY NextBase
  <1> QED
    BY <1>1, <1>2, InitBase, PTL DEF Spec, GroupBarrier

=============================================================================
