------------------------------ MODULE TaskClaim ------------------------------
(***************************************************************************)
(* How workers claim, run and report one task through its etcd key         *)
(* (infra/engine/runtime: worker.go, executor.go, cas_lock.go and          *)
(* reporter.go, over infra/store/etcd/store.go).                           *)
(*                                                                         *)
(* The master puts a task once, as PENDING, under a key of its own below   *)
(* {prefix}PENDING/ (taskKey and retryTaskKey add a time stamp and a       *)
(* random suffix).  Every later status is written to that SAME key, so the *)
(* workers' watch on {prefix}PENDING/ delivers every write to every worker *)
(* that knows the task's type: its filter looks at the task name only.     *)
(*                                                                         *)
(* A slot is an execution goroutine of a worker (the worker's semaphore    *)
(* bounds their number).  Each step of a slot is one round trip to etcd or *)
(* the run of the business code; between two steps the other slots, the    *)
(* master and faults interleave.                                           *)
(*                                                                         *)
(* A behaviour takes place in one of the Environments: the executors'      *)
(* lockMode, the workers that may crash and restart, and the faults that   *)
(* may happen.  An etcd write can fail without effect ("lost") or take     *)
(* effect although the client gets an error ("applied"); a lock's session  *)
(* can expire while its holder is alive ("session"); the 24h lease of the  *)
(* master's Put can run out ("lease"); and the master may leave a terminal *)
(* event unhandled, because the run's entry is gone, because the task was  *)
(* given up already, or because it is a rollback task ("ignored").         *)
(***************************************************************************)
EXTENDS Naturals

CONSTANTS
    Workers,            \* worker processes that registered the task's type
    Slots,              \* execution goroutines
    Owner,              \* the worker each slot belongs to
    Environments,       \* deployments: lock mode, faults, crashing workers
    AcquireRetries,     \* casTaskLock.maxRetries
    ReportRetries,      \* reportMaxRetries
    InboxCap,           \* events a worker, or the master, holds for this key;
                        \* a watch drops events when its channel is full
    NoSlot

ASSUME SlotsAssumption == NoSlot \notin Slots
ASSUME OwnerAssumption == Owner \in [Slots -> Workers]
ASSUME EnvironmentsAssumption ==
    Environments \subseteq [mode : {"CAS", "Mutex"},
                            faults : SUBSET {"lost", "applied", "session",
                                             "lease", "ignored"},
                            crashing : SUBSET Workers]
ASSUME BoundsAssumption ==
    /\ AcquireRetries \in Nat \ {0}
    /\ ReportRetries \in Nat \ {0}
    /\ InboxCap \in Nat \ {0}

VARIABLES
    env,        \* the environment of this behaviour
    key,        \* status stored under the key, "none" when it does not exist
    rev,        \* ModRevision of the last write to the key, counted from its
                \* first Put; left at 1 in Mutex mode, where nobody reads it
    inbox,      \* per worker, the events of this key it has yet to execute
    mailbox,    \* terminal events of this key the master has yet to handle
    lock,       \* holder of the etcd mutex of this key
    pc,         \* where each slot is
    seen,       \* revision a slot read, then the one it owns (EtcdModRevision)
    result,     \* final status a slot is about to report
    tries,      \* attempts of the slot's current retry loop
    runs,       \* history: times the business code was started, up to 2
    reports     \* history: terminal statuses written to the key, up to 2

\* A slot's labels between Store.Lock and the deferred unlock.
Holding == {"running", "run", "report", "unlock"}

Mode == env.mode
Faults == env.faults
Crashing == env.crashing

\* No write of a worker or of the master fails or is thought to have failed.
NoEtcdErrors == "lost" \notin Faults /\ "applied" \notin Faults

slotVars == <<pc, seen, result, tries>>
vars == <<env, key, rev, inbox, mailbox, lock, slotVars, runs, reports>>

Terminal == {"COMPLETED", "FAILED"}
Status == {"PENDING", "RUNNING"} \cup Terminal
Labels == {"idle", "read", "cas", "lock", "running", "run",
           "final", "report", "unlock"}

TypeOK ==
    /\ env \in Environments
    /\ key \in Status \cup {"none"}
    /\ rev \in Nat
    /\ inbox \in [Workers -> 0..InboxCap]
    /\ mailbox \in 0..InboxCap
    /\ lock \in Slots \cup {NoSlot}
    /\ pc \in [Slots -> Labels]
    /\ seen \in [Slots -> Nat]
    /\ result \in [Slots -> Terminal]
    /\ tries \in [Slots -> 0..(AcquireRetries + ReportRetries)]
    /\ runs \in 0..2
    /\ reports \in 0..2

Init ==
    /\ env \in Environments
    /\ key = "none" /\ rev = 0
    /\ inbox = [w \in Workers |-> 0] /\ mailbox = 0
    /\ lock = NoSlot
    /\ pc = [s \in Slots |-> "idle"]
    /\ seen = [s \in Slots |-> 0]
    /\ result = [s \in Slots |-> "COMPLETED"]
    /\ tries = [s \in Slots |-> 0]
    /\ runs = 0 /\ reports = 0

Up(n, cap) == IF n < cap THEN n + 1 ELSE cap

(***************************************************************************)
(* The store.  A write bumps the revision and sends an event to everybody. *)
(***************************************************************************)

Put(v) ==
    /\ key' = v
    /\ rev' = IF Mode = "CAS" THEN rev + 1 ELSE 1
    /\ inbox' = [w \in Workers |-> Up(inbox[w], InboxCap)]
    /\ mailbox' = IF v \in Terminal THEN Up(mailbox, InboxCap) ELSE mailbox
    /\ reports' = IF v \in Terminal THEN Up(reports, 2) ELSE reports

NoPut == UNCHANGED <<key, rev, inbox, mailbox, reports>>

\* Mutant: CASPut without the comparison: a plain overwrite.
MatchesAnything(expected) == key # "none"

\* The If-branch of CASPut's transaction: an absent key has ModRevision 0.
Matches(expected) == key # "none" /\ rev = expected

\* A write that reports an error to its caller.
PutError(v, possible) ==
    \/ "lost" \in Faults /\ NoPut
    \/ "applied" \in Faults /\ possible /\ Put(v)

Goto(s, l) == pc' = [pc EXCEPT ![s] = l]

\* The retry counter goes out of scope with its loop.
Leave(s, l) == Goto(s, l) /\ tries' = [tries EXCEPT ![s] = 0]

\* An attempt failed: once more from the top of the loop, or leave it.
Again(s, limit, top, after) ==
    IF tries[s] + 1 < limit
    THEN Goto(s, top) /\ tries' = [tries EXCEPT ![s] = @ + 1]
    ELSE Leave(s, after)

\* Mutant: the key is cleaned up after a completion only (recordTaskFailed
\* without its call of cleanupTaskEtcdKey).
CleanupCompleted ==
    /\ mailbox > 0
    /\ mailbox' = mailbox - 1
    /\ key' = IF key = "FAILED" THEN key ELSE "none"
    /\ UNCHANGED <<rev, inbox, lock, slotVars, runs, reports>>

(***************************************************************************)
(* The master: doPush, RetryTask and PushRollbackTask put a fresh key with *)
(* a 24h lease; a terminal event that its run's watcher records makes it   *)
(* delete the key (cleanupTaskEtcdKey), and a failed delete is only        *)
(* logged.                                                                 *)
(***************************************************************************)

Push ==
    /\ key = "none" /\ rev = 0
    /\ Put("PENDING")
    /\ UNCHANGED <<lock, slotVars, runs>>

Cleanup ==
    /\ mailbox > 0
    /\ mailbox' = mailbox - 1
    /\ \/ key' = "none"
       \/ "lost" \in Faults /\ key' = key
    /\ UNCHANGED <<rev, inbox, lock, slotVars, runs, reports>>

\* watchWorkflowStatus without an entry, its idempotency checks, the early
\* return of recordTaskCompleted, and handleRollbackCompleted: the event is
\* consumed and the key stays.
IgnoreEvent ==
    /\ mailbox > 0 /\ "ignored" \in Faults
    /\ mailbox' = mailbox - 1
    /\ UNCHANGED <<key, rev, inbox, lock, slotVars, runs, reports>>

\* The lease runs out.  Only the master's own Put carries it: the workers'
\* Put and CASPut write without a lease, which detaches the key from it.
Expire ==
    /\ key = "PENDING" /\ "lease" \in Faults
    /\ key' = "none"
    /\ UNCHANGED <<rev, inbox, mailbox, lock, slotVars, runs, reports>>

(***************************************************************************)
(* Mutants: plausible slips in cas_lock.go, executor.go and worker.go.     *)
(***************************************************************************)

\* tryAcquire without the PENDING check.
ReadAnyStatus(s) ==
    /\ pc[s] = "read"
    /\ \/ key # "none" /\ Goto(s, "cas") /\ seen' = [seen EXCEPT ![s] = rev]
       \/ Goto(s, "idle") /\ UNCHANGED seen
    /\ UNCHANGED <<key, rev, inbox, mailbox, lock, result, tries, runs, reports>>

\* executeWithMutex that does not wait for the lock.
LockWithoutWaiting(s) ==
    /\ pc[s] = "lock"
    /\ \/ lock' = s /\ Goto(s, "running")
       \/ Goto(s, "idle") /\ UNCHANGED lock
    /\ UNCHANGED <<key, rev, inbox, mailbox, seen, result, tries, runs, reports>>

\* tryAcquire that confirms a won CASPut by reading the key again, and takes its
\* own RUNNING for a rival's.
AcquireReadsAgain(s) ==
    /\ pc[s] = "cas" /\ Matches(seen[s])
    /\ Put("RUNNING")
    /\ Goto(s, "read")
    /\ UNCHANGED <<lock, seen, result, tries, runs>>

\* updateStatus that returns false after a successful CASPut.
FinalThenReport(s) ==
    /\ pc[s] = "final" /\ Matches(seen[s])
    /\ Put(result[s])
    /\ Goto(s, "report")
    /\ UNCHANGED <<lock, seen, result, tries, runs>>

\* Take that loses the retry counter's reset and overruns it.
TakeKeepsTries(s) ==
    /\ pc[s] = "idle"
    /\ inbox[Owner[s]] > 0
    /\ inbox' = [inbox EXCEPT ![Owner[s]] = @ - 1]
    /\ Goto(s, IF Mode = "CAS" THEN "read" ELSE "lock")
    /\ tries' = [tries EXCEPT ![s] = @ + 1]
    /\ UNCHANGED <<key, rev, mailbox, lock, seen, result, runs, reports>>

(***************************************************************************)
(* A slot takes an event from the worker's queue and executes it.          *)
(***************************************************************************)

Take(s) ==
    /\ pc[s] = "idle"
    /\ inbox[Owner[s]] > 0
    /\ inbox' = [inbox EXCEPT ![Owner[s]] = @ - 1]
    /\ Leave(s, IF Mode = "CAS" THEN "read" ELSE "lock")
    /\ UNCHANGED <<key, rev, mailbox, lock, seen, result, runs, reports>>

(***************************************************************************)
(* CAS mode: tryAcquire.                                                   *)
(***************************************************************************)

\* GetWithRevision: go on with a PENDING value, give up on any other one, on
\* an absent key and on an error.
Read(s) ==
    /\ pc[s] = "read"
    /\ \/ key = "PENDING" /\ Goto(s, "cas") /\ seen' = [seen EXCEPT ![s] = rev]
       \/ (key # "PENDING" \/ "lost" \in Faults) /\ Goto(s, "idle") /\ UNCHANGED seen
    /\ UNCHANGED <<key, rev, inbox, mailbox, lock, result, tries, runs, reports>>

\* CASPut succeeds: the slot owns the task and starts the business code.
Acquire(s) ==
    /\ pc[s] = "cas" /\ Matches(seen[s])
    /\ Put("RUNNING")
    /\ seen' = [seen EXCEPT ![s] = rev']
    /\ runs' = Up(runs, 2)
    /\ Goto(s, "run")
    /\ UNCHANGED <<lock, result, tries>>

\* CASPut conflicts: read again, up to maxRetries attempts.
AcquireConflict(s) ==
    /\ pc[s] = "cas" /\ ~Matches(seen[s])
    /\ Again(s, AcquireRetries, "read", "idle")
    /\ NoPut
    /\ UNCHANGED <<lock, seen, result, runs>>

\* CASPut returns an error: give up, whether or not RUNNING was written.
AcquireError(s) ==
    /\ pc[s] = "cas"
    /\ PutError("RUNNING", Matches(seen[s]))
    /\ Goto(s, "idle")
    /\ UNCHANGED <<lock, seen, result, tries, runs>>

(***************************************************************************)
(* Mutex mode: Lock, then an unconditional Put of RUNNING.                 *)
(***************************************************************************)

\* Store.Lock, or its timeout or error.
Lock(s) ==
    /\ pc[s] = "lock"
    /\ \/ lock = NoSlot /\ lock' = s /\ Goto(s, "running")
       \/ (lock # NoSlot \/ "lost" \in Faults) /\ Goto(s, "idle") /\ UNCHANGED lock
    /\ UNCHANGED <<key, rev, inbox, mailbox, seen, result, tries, runs, reports>>

ReportRunning(s) ==
    /\ pc[s] = "running"
    /\ Put("RUNNING")
    /\ runs' = Up(runs, 2)
    /\ Leave(s, "run")
    /\ UNCHANGED <<lock, seen, result>>

\* Report's Put fails: once more, or give up and abandon the task.
ReportRunningError(s) ==
    /\ pc[s] = "running"
    /\ PutError("RUNNING", TRUE)
    /\ Again(s, ReportRetries, "running", "unlock")
    /\ UNCHANGED <<lock, seen, result, runs>>

\* The deferred unlock; the session may have expired in the meantime.
Unlock(s) ==
    /\ pc[s] = "unlock"
    /\ lock' = IF lock = s THEN NoSlot ELSE lock
    /\ Goto(s, "idle")
    /\ UNCHANGED <<key, rev, inbox, mailbox, seen, result, tries, runs, reports>>

\* The holder's session lease expires: its worker crashed, or could not keep
\* the lease alive.  Nobody tells a holder that is still running.
SessionExpire ==
    /\ lock # NoSlot
    /\ "session" \in Faults \/ pc[lock] \notin Holding
    /\ lock' = NoSlot
    /\ UNCHANGED <<key, rev, inbox, mailbox, slotVars, runs, reports>>

(***************************************************************************)
(* The business code ends (run), then the final status is reported.        *)
(***************************************************************************)

Run(s) ==
    /\ pc[s] = "run"
    /\ \E r \in Terminal : result' = [result EXCEPT ![s] = r]
    /\ Leave(s, IF Mode = "CAS" THEN "final" ELSE "report")
    /\ UNCHANGED <<key, rev, inbox, mailbox, lock, seen, runs, reports>>

\* updateStatus: CASPut on the revision the slot owns.  Its branch for a
\* conflict has no action: OwnerUndisturbed says that no conflict can happen
\* when every worker is in CAS mode.
FinalOk(s) ==
    /\ pc[s] = "final" /\ Matches(seen[s])
    /\ Put(result[s])
    /\ Goto(s, "idle")
    /\ UNCHANGED <<lock, seen, result, tries, runs>>

FinalError(s) ==
    /\ pc[s] = "final"
    /\ PutError(result[s], Matches(seen[s]))
    /\ Goto(s, "report")
    /\ UNCHANGED <<lock, seen, result, tries, runs>>

\* Report: Put, retried on errors.  In CAS mode this is executeWithCAS's
\* fallback when updateStatus returned false, in Mutex mode the normal path.
AfterReport == IF Mode = "CAS" THEN "idle" ELSE "unlock"

ReportOk(s) ==
    /\ pc[s] = "report"
    /\ Put(result[s])
    /\ Leave(s, AfterReport)
    /\ UNCHANGED <<lock, seen, result, runs>>

ReportError(s) ==
    /\ pc[s] = "report"
    /\ PutError(result[s], TRUE)
    /\ Again(s, ReportRetries, "report", AfterReport)
    /\ UNCHANGED <<lock, seen, result, runs>>

\* Either Report is refused by the breaker or runs out of time.
ReportRefused(s) ==
    /\ pc[s] \in {"running", "report"} /\ "lost" \in Faults
    /\ Leave(s, AfterReport)
    /\ NoPut
    /\ UNCHANGED <<lock, seen, result, runs>>

\* A worker process dies: its goroutines and queued events are gone, and the
\* watch of the restarted process starts at the current revision.
Crash(w) ==
    /\ w \in Crashing
    /\ inbox' = [inbox EXCEPT ![w] = 0]
    /\ pc' = [s \in Slots |-> IF Owner[s] = w THEN "idle" ELSE pc[s]]
    /\ UNCHANGED <<key, rev, mailbox, lock, seen, result, tries, runs, reports>>

Step(s) ==
    \/ Take(s) \/ Read(s) \/ Acquire(s) \/ AcquireConflict(s) \/ AcquireError(s)
    \/ Lock(s) \/ ReportRunning(s) \/ ReportRunningError(s) \/ Unlock(s)
    \/ Run(s) \/ FinalOk(s) \/ FinalError(s)
    \/ ReportOk(s) \/ ReportError(s) \/ ReportRefused(s)

Next ==
    /\ \/ Push \/ Cleanup \/ IgnoreEvent \/ Expire \/ SessionExpire
       \/ \E s \in Slots : Step(s)
       \/ \E w \in Workers : Crash(w)
    /\ UNCHANGED env

(***************************************************************************)
(* Workers' loops and the master's watch loop keep running, and time       *)
(* passes for leases.  Crashes and etcd faults are never forced.           *)
(***************************************************************************)
Fairness ==
    /\ WF_vars(Push /\ UNCHANGED env)
    /\ WF_vars(Cleanup /\ UNCHANGED env)
    /\ WF_vars(Expire /\ UNCHANGED env)
    /\ \A s \in Slots : WF_vars(Step(s) /\ UNCHANGED env)

Spec == Init /\ [][Next]_vars /\ Fairness

(***************************************************************************)
(* Properties.                                                             *)
(***************************************************************************)

\* The slots that own the task in CAS mode: between a won tryAcquire and the
\* end of the report.
Owning == {s \in Slots : pc[s] \in {"run", "final", "report"}}

\* The business code of a task is started at most once and at most one
\* goroutine owns it, as executor.go promises of both lock modes.
RunOnce == runs <= 1 /\ \A s, t \in Owning : s = t

\* In CAS mode RunOnce holds, however many workers receive however many events
\* of a task, and whatever etcd errors and crashes happen (tryAcquire).
CASRunOnce == Mode = "CAS" => RunOnce

\* While the business code of a task runs, and until its result is written,
\* nobody else writes or deletes the task's key: in CAS mode the owner's CASPut
\* cannot conflict, so the branch of updateStatus that looks at a rival's status
\* is only a safety net (tryAcquire, updateStatus, cleanupTaskEtcdKey, leases).
OwnerUndisturbed ==
    Mode = "CAS" =>
        \A s \in Slots :
            pc[s] \in {"run", "final"} => key = "RUNNING" /\ rev = seen[s]

\* The task as TaskOnce sees it in CAS mode; a task of Mutex mode, which may run
\* again and again, is outside the promise and never appears.
Once == INSTANCE TaskOnce
        WITH put <- IF Mode = "CAS" /\ rev > 0 THEN 1 ELSE 0,
             status <- IF Mode = "CAS" THEN key ELSE "none",
             started <- IF Mode = "CAS" THEN runs ELSE 0

\* In CAS mode every step of workers, master, leases and faults is a step of
\* TaskOnce: the task is published once, started once at most and only from
\* PENDING, gets a result only when started, and never goes back, also when
\* stale readers still hold an older revision or the key was deleted in between
\* (tryAcquire, updateStatus and its fallback, cleanupTaskEtcdKey).
ImplementsTaskOnce == Once!Spec

\* Without etcd errors, the master sees at most one terminal status per task of
\* CAS mode, whatever else goes wrong: each one it handles releases a concurrency
\* slot (updateStatus, Report).
ReportedOnce == Mode = "CAS" /\ NoEtcdErrors => reports <= 1

\* Without etcd errors, crashes and an expiring lease, a task that was put gets a
\* terminal status written, in either lock mode: the goroutines that lose the
\* race for it give up, and they never all do so (worker loop, tryAcquire and its
\* retries, updateStatus, the lock timeout of executeWithMutex).
PushedIsReported ==
    (key = "PENDING" /\ NoEtcdErrors /\ "lease" \notin Faults /\ Crashing = {})
        ~> (reports > 0)

\* Without etcd errors and crashes, the key of a task whose events the master
\* records does not outlive the task: the workers' writes take its lease away, so
\* it depends on the master's delete (Put and CASPut of the store,
\* cleanupTaskEtcdKey).  The premise is needed: the key of a rollback task, of a
\* task given up earlier, and of a task whose run has ended stays for good.
KeyIsRemoved ==
    (/\ key # "none" /\ Mode = "CAS" /\ NoEtcdErrors /\ "ignored" \notin Faults
     /\ Crashing = {})
        ~> key = "none"

\* As long as no session expires under a live holder, at most one goroutine is
\* between Lock and Unlock, also when holders crash and when reports fail half
\* way (executeWithMutex; in CAS mode the claim alone keeps them apart).
HoldersExclusive ==
    "session" \notin Faults =>
        \A s, t \in Slots : pc[s] \in Holding /\ pc[t] \in Holding => s = t

=============================================================================
