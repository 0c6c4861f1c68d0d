----------------------- MODULE RecoveryHistoryProofs -----------------------
(***************************************************************************)
(* More proofs about Recovery, for any UUIDs, submissions, cache size and  *)
(* faults: that the three structures of the history agree                  *)
(* (HistoryConsistent), and that a mark of a snapshotted task is backed by *)
(* a snapshot (MarkedIsSaved).                                             *)
(*                                                                         *)
(* The argument.  An id that is in none of the structures is put into all  *)
(* of them, once, and taken out of all of them, so they agree on it; one   *)
(* that was put there while it was listed is excepted.  Without faults the *)
(* unique index on the UUID lets one asyncInitMySQL of a UUID past its     *)
(* first call, ever, so that one entry of the UUID learns an ExecutionID,  *)
(* and once: when it has marked nothing, and before the row is recorded.   *)
(***************************************************************************)
EXTENDS RecoveryProofs

\* No asyncInitMySQL of u is past its first call.
InitOver(u) == \A r \in Runs : r[1] = u => init[r].pc \in {"idle", "define"}
ExecKnown(u) == entry[u] # None /\ entry[u].exec # 0

\* Only the run that writes the definition gets on, and only one that finds none
\* does; an entry learns its ExecutionID as the last thing of it.
FirstDefines ==
    /\ \A u \in UUIDs \ defs : InitOver(u) /\ ~ExecKnown(u)
    /\ \A u \in UUIDs : ExecKnown(u) => InitOver(u)
    /\ \A r, q \in Runs : /\ r[1] = q[1]
                          /\ init[r].pc \notin {"idle", "define"}
                          /\ init[q].pc \notin {"idle", "define"}
                          => r = q

LinksInv == faults = 0 => recovering = {} /\ FirstDefines

\* x is in s, and no more than once.
In(x, s) == \E k \in 1..Len(s) : s[k] = x
Once(x, s) == \A j, k \in 1..Len(s) : s[j] = x /\ s[k] = x => j = k

\* The records h, the lists b of the UUIDs and the order o, but for the ids in tw.
HistoryOK(h, b, o, tw) ==
    /\ \A u \in UUIDs : \A id \in Nat \ tw :
          In(id, b[u]) => id \in DOMAIN h /\ h[id] = u /\ Once(id, b[u])
    /\ \A id \in DOMAIN h : In(id, o)

RecordsInv == /\ byUUID \in [UUIDs -> Seq(Nat)]
              /\ HistoryOK(hist, byUUID, order, twice)

\* A row that is linked, or about to be, is not in the history yet.
NotYetRecorded ==
    /\ held = {} /\ twice \subseteq {0}
    /\ \A id : In(id, order) => id = 0 \/ id \in Ids
    /\ \A u \in UUIDs : ExecKnown(u) => ~In(entry[u].exec, order)
    /\ \A r \in Runs : init[r].pc = "link" => ~In(init[r].id, order)

FreshInv == faults = 0 /\ ~env.window => NotYetRecorded

\* What is marked in e was recorded, and is in a snapshot of sv.
MarkSaved(e, sv) ==
    /\ e.exec = 0 => e.marked = {}
    /\ e.marked \subseteq e.completed \cup e.failed
    /\ \A t \in (e.marked \cap e.completed) \ e.failed :
          \E s \in sv : s.exec = e.exec /\ <<t, "completed">> \in s.deltas

MarksInv ==
    faults = 0 => \A u \in UUIDs : entry[u] # None => MarkSaved(entry[u], saved \cup snaps)

(***************************************************************************)
(* What the actions do, as far as it matters here.                         *)
(***************************************************************************)

\* No entry has an ExecutionID that it did not have.
ExecKept == \A u \in UUIDs : ExecKnown(u)' => ExecKnown(u) /\ entry'[u].exec = entry[u].exec

\* A state of u is locked and ends as f.
Ends(u, e, f) == /\ e \in Locked(u) /\ f \in States /\ f.uuid = u /\ f.exec = e.exec
                 /\ PersistWorkflowLocked(e, f)

LEMMA EndAsEnds ==
    ASSUME Inv, NEW u \in UUIDs, NEW s \in {"COMPLETED", "FAILED"}, EndAs(u, s)
    PROVE  \E e, f : Ends(u, e, f)
  <1>1. PICK e \in Locked(u) : PersistWorkflowLocked(e, [e EXCEPT !.status = s])
    BY DEF EndAs
  <1> DEFINE f == [e EXCEPT !.status = s]
  <1>2. e \in States /\ e.uuid = u
    BY LockedIs
  <1>3. f \in States /\ f.uuid = u /\ f.exec = e.exec
    BY <1>2 DEF States, Statuses
  <1>4. PersistWorkflowLocked(e, f)
    BY <1>1
  <1> HIDE DEF f
  <1> QED
    BY <1>3, <1>4 DEF Ends

LEMMA PersistEnds ==
    ASSUME Inv,
           \/ \E x \in execs : Finish(x) \/ GroupFails(x) \/ TaskSkipped(x)
           \/ \E u \in UUIDs : CancelWorkflow(u) \/ FailWorkflow(u)
    PROVE  \E u \in UUIDs : \E e, f : Ends(u, e, f)
  <1>1. ASSUME NEW x \in execs, Finish(x) \/ GroupFails(x) PROVE \E e, f : Ends(x.uuid, e, f)
    BY <1>1, ExecutorIs, EndAsEnds DEF Finish, GroupFails
  <1>2. ASSUME NEW x \in execs, TaskSkipped(x) PROVE \E e, f : Ends(x.uuid, e, f)
    <2> DEFINE u == x.uuid
               t == x.at
    <2>1. PICK e \in Locked(u) :
              PersistWorkflowLocked(e, [e EXCEPT !.completed = @ \cup {t}, !.failed = @ \ {t}])
      BY <1>2 DEF TaskSkipped
    <2> DEFINE f == [e EXCEPT !.completed = @ \cup {t}, !.failed = @ \ {t}]
    <2>2. t \in Tasks /\ e \in States /\ e.uuid = u
      BY <1>2, ExecutorIs, LockedIs DEF Inv, Typed, TaskSkipped
    <2>3. f \in States /\ f.uuid = u /\ f.exec = e.exec
      BY <2>2 DEF States
    <2>4. PersistWorkflowLocked(e, f)
      BY <2>1
    <2> HIDE DEF f
    <2> QED
      BY <2>3, <2>4 DEF Ends
  <1>3. ASSUME NEW u \in UUIDs, CancelWorkflow(u) PROVE \E e, f : Ends(u, e, f)
    BY <1>3, LockedIs DEF CancelWorkflow, Ends
  <1>4. ASSUME NEW u \in UUIDs, FailWorkflow(u) PROVE \E e, f : Ends(u, e, f)
    BY <1>4, EndAsEnds DEF FailWorkflow
  <1> QED
    BY <1>1, <1>2, <1>3, <1>4, ExecutorIs

\* What an end does besides the history: the entry goes.
LEMMA EndsEffect ==
    ASSUME Inv, NEW u \in UUIDs, NEW e, NEW f, Ends(u, e, f)
    PROVE  /\ e \in States /\ e.uuid = u /\ Sound(e, u, rows, done) /\ f.exec \in Nat
           /\ AddHistory(f) /\ f.uuid = u /\ f.exec = e.exec
           /\ \A v \in UUIDs : (v = u /\ entry'[v] = None) \/ (v # u /\ entry'[v] = entry[v])
           /\ UNCHANGED <<defs, rows, saved, init, snaps, recovering>>
           /\ faults' = faults \/ Fault
           /\ ~env.window /\ held = {} => held' = {}
  <1>1. e \in States /\ e.uuid = u /\ Sound(e, u, rows, done)
    BY LockedIs DEF Ends
  <1>2. /\ AddHistory(f) /\ f.uuid = u /\ f.exec = e.exec /\ f.exec \in Nat
        /\ entry' = [entry EXCEPT ![e.uuid] = None]
        /\ UNCHANGED <<defs, rows, saved, init, snaps, recovering>>
        /\ faults' = faults \/ Fault
        /\ ~env.window /\ held = {} => held' = {}
    BY DEF Ends, PersistWorkflowLocked, mysql, Enqueue, States
  <1>3. \A v \in UUIDs : (v = u /\ entry'[v] = None) \/ (v # u /\ entry'[v] = entry[v])
    BY <1>1, <1>2 DEF Inv, Typed
  <1> QED
    BY <1>1, <1>2, <1>3

\* A submission: a new entry without an ExecutionID, and a new initialiser.
LEMMA SubmitWorkflowEffect ==
    ASSUME Inv, NEW u \in UUIDs, SubmitWorkflow(u)
    PROVE  /\ \A r \in Runs : init'[r] = init[r] \/ init'[r].pc = "define"
           /\ \A v \in UUIDs : entry'[v] = entry[v] \/ entry'[v] = NewState(v)
           /\ ExecKept /\ held' = held
  <1>1. \A r \in Runs : init'[r] = init[r] \/ init'[r].pc = "define"
    BY SubmitWorkflowTyped
  <1>2. \A v \in UUIDs : entry'[v] = entry[v] \/ entry'[v] = NewState(v)
    BY DEF SubmitWorkflow, Inv, Typed
  <1>3. \A v : NewState(v).exec = 0
    BY DEF NewState
  <1>4. held' = held
    BY DEF SubmitWorkflow
  <1> QED
    BY <1>1, <1>2, <1>3, <1>4 DEF ExecKept, ExecKnown

LEMMA CleanupEffect ==
    ASSUME Inv, NEW u \in UUIDs, CleanupWorkflowState(u)
    PROVE  \A v \in UUIDs : entry'[v] = None \/ entry'[v] = entry[v]
  BY DEF CleanupWorkflowState, Inv, Typed

\* A task that is recorded: the entry becomes e, with a snapshot or without.
LEMMA TaskEffect ==
    ASSUME Inv, NEW x \in execs, TaskCompleted(x) \/ TaskFailed(x)
    PROVE  /\ x.uuid \in UUIDs /\ entry[x.uuid] # None
           /\ \E e \in States :
                /\ e.exec = entry[x.uuid].exec /\ e.marked = entry[x.uuid].marked
                /\ entry[x.uuid].completed \subseteq e.completed
                /\ entry[x.uuid].failed \subseteq e.failed
                /\ SnapshotRunningWorkflow(x.uuid, e)
           /\ ExecFrame /\ ExecKept
  <1> DEFINE u == x.uuid
  <1>1. u \in UUIDs /\ entry[u] # None /\ entry[u] \in States /\ x.at \in Tasks /\ Typed /\ ExecFrame
    BY ExecutorIs, EntryIs DEF TaskCompleted, TaskFailed, Heard, Inv
  <1>2. PICK e \in States : /\ e.exec = entry[u].exec /\ e.marked = entry[u].marked
                            /\ entry[u].completed \subseteq e.completed
                            /\ entry[u].failed \subseteq e.failed
                            /\ SnapshotRunningWorkflow(u, e)
    <2>1. CASE TaskCompleted(x)
      <3> DEFINE e == [entry[u] EXCEPT !.completed = @ \cup {x.at}]
      <3>1. /\ e \in States /\ e.exec = entry[u].exec /\ e.marked = entry[u].marked
            /\ e.completed = entry[u].completed \cup {x.at} /\ e.failed = entry[u].failed
        BY <1>1 DEF States
      <3>2. SnapshotRunningWorkflow(u, e)
        BY <2>1 DEF TaskCompleted
      <3> HIDE DEF e
      <3> QED
        BY <3>1, <3>2
    <2>2. CASE TaskFailed(x)
      <3> DEFINE e == [entry[u] EXCEPT !.failed = @ \cup {x.at}]
      <3>1. /\ e \in States /\ e.exec = entry[u].exec /\ e.marked = entry[u].marked
            /\ e.completed = entry[u].completed /\ e.failed = entry[u].failed \cup {x.at}
        BY <1>1 DEF States
      <3>2. SnapshotRunningWorkflow(u, e)
        BY <2>2 DEF TaskFailed
      <3> HIDE DEF e
      <3> QED
        BY <3>1, <3>2
    <2> QED
      BY <2>1, <2>2
  <1>3. ExecKept
    BY <1>1, <1>2, SnapshotTyped DEF ExecKept, ExecKnown
  <1> QED
    BY <1>1, <1>2, <1>3

LEMMA ClearEffect ==
    ASSUME Inv, NEW u \in UUIDs, NEW t, ClearFailedTask(u, t)
    PROVE  /\ ExecFrame /\ ExecKept /\ UNCHANGED snaps
           /\ \A v \in UUIDs :
                \/ entry'[v] = entry[v]
                \/ /\ entry[v] # None /\ entry'[v].exec = entry[v].exec
                   /\ entry'[v].marked = entry[v].marked \ {t}
                   /\ entry'[v].completed = entry[v].completed
                   /\ entry'[v].failed = entry[v].failed \ {t}
  <1> DEFINE e == [entry[u] EXCEPT !.failed = @ \ {t}, !.marked = @ \ {t}]
  <1>1. entry[u] # None => /\ e.exec = entry[u].exec /\ e.marked = entry[u].marked \ {t}
                           /\ e.completed = entry[u].completed /\ e.failed = entry[u].failed \ {t}
    BY EntryIs DEF States
  <1>2. entry' = entry \/ (entry[u] # None /\ entry' = [entry EXCEPT ![u] = e])
    BY DEF ClearFailedTask, Inv, Typed
  <1>3. ExecFrame /\ UNCHANGED snaps
    BY DEF ClearFailedTask
  <1> HIDE DEF e
  <1>4. \A v \in UUIDs : entry'[v] = entry[v] \/ (v = u /\ entry[u] # None /\ entry'[v] = e)
    BY <1>2 DEF Inv, Typed
  <1> QED
    BY <1>1, <1>3, <1>4 DEF ExecKept, ExecKnown

\* What CreateExecution makes of the rows.
LEMMA CreateEffect ==
    ASSUME Inv, NEW r \in Runs, CreateExecution(r)
    PROVE  /\ Len(rows) \in Nat /\ Ids = 1..Len(rows) /\ Ids' = 1..Len(rows) + 1
           /\ \A q \in Runs : \/ q # r /\ init'[q] = init[q]
                              \/ q = r /\ init'[q].pc = "link" /\ init'[q].id = Len(rows) + 1
  <1> DEFINE row == [uuid |-> r[1], status |-> "RUNNING", data |-> init[r].copied]
             i == [pc |-> "link", id |-> Len(rows) + 1, copied |-> None]
  <1>1. Len(rows) \in Nat /\ Ids = 1..Len(rows) /\ r[1] \in UUIDs /\ rows \in Seq(Rows)
    BY RunUUID, IdsTyped DEF Inv, Typed
  <1>2. row \in Rows
    <2>1. init[r].copied \in States
      BY DEF Inv, Sounds, InitsSound, InitSound, CreateExecution
    <2> QED
      BY <1>1, <2>1 DEF Rows, Statuses
  <1>3. rows' = Append(rows, row) /\ init' = [init EXCEPT ![r] = i]
    BY DEF CreateExecution
  <1>4. i.pc = "link" /\ i.id = Len(rows) + 1
    OBVIOUS
  <1> HIDE DEF row, i
  <1>5. rows' \in Seq(Rows) /\ Len(rows') = Len(rows) + 1
    BY <1>1, <1>2, <1>3, AppendProperties
  <1>6. Ids' = 1..Len(rows) + 1
    BY <1>5, LenProperties DEF Ids
  <1>7. \A q \in Runs : (q # r /\ init'[q] = init[q]) \/ (q = r /\ init'[q] = i)
    BY <1>3 DEF Inv, Typed
  <1> QED
    BY <1>1, <1>4, <1>6, <1>7

LEMMA LinkEffect ==
    ASSUME Inv, NEW r \in Runs, LinkExecution(r)
    PROVE  /\ \A v \in UUIDs :
                \/ entry'[v] = entry[v]
                \/ /\ v = r[1] /\ entry[v] # None /\ entry'[v].exec = init[r].id
                   /\ entry'[v].marked = entry[v].marked
           /\ \A q \in Runs : (q # r /\ init'[q] = init[q]) \/ (q = r /\ init'[q].pc = "idle")
  <1> DEFINE u == r[1]
             e == [entry[u] EXCEPT !.exec = init[r].id]
  <1>1. u \in UUIDs /\ Idle.pc = "idle"
    BY RunUUID DEF Idle
  <1>2. entry[u] # None => e.exec = init[r].id /\ e.marked = entry[u].marked
    BY <1>1, EntryIs DEF States
  <1>3. \A q \in Runs : (q # r /\ init'[q] = init[q]) \/ (q = r /\ init'[q] = Idle)
    BY DEF LinkExecution, Inv, Typed
  <1>4. entry' = IF entry[u] = None THEN entry ELSE [entry EXCEPT ![u] = e]
    BY DEF LinkExecution
  <1> HIDE DEF e
  <1>5. \A v \in UUIDs : entry'[v] = entry[v] \/ (v = u /\ entry[u] # None /\ entry'[v] = e)
    BY <1>1, <1>4 DEF Inv, Typed
  <1> QED
    BY <1>1, <1>2, <1>3, <1>5

(***************************************************************************)
(* Steps without a fault.                                                  *)
(***************************************************************************)
LEMMA FaultFree ==
    ASSUME Inv, Step, faults' = 0
    PROVE  faults = 0 /\ ~Fault
  <1>1. faults \in Nat
    BY BoundsAssumption DEF Inv, Typed
  <1>2. ~Fault
    BY <1>1 DEF Fault
  <1>3. ASSUME NEW u \in UUIDs, WorkflowStep(u) PROVE faults' = faults
    <2>1. CASE CancelWorkflow(u) \/ FailWorkflow(u)
      BY <1>2, <2>1, PersistEnds, EndsEffect
    <2>2. CASE ~(CancelWorkflow(u) \/ FailWorkflow(u))
      BY <1>3, <2>2 DEF WorkflowStep, Submit, Define, RetryWorkflow, ClearFailedTask, ExecFrame
    <2> QED
      BY <2>1, <2>2
  <1>4. ASSUME NEW x \in execs, ExecutorStep(x) \/ TaskFailed(x) \/ TaskSkipped(x)
        PROVE  faults' = faults
    <2>1. CASE Finish(x) \/ GroupFails(x) \/ TaskSkipped(x)
      BY <1>2, <2>1, PersistEnds, EndsEffect
    <2>2. CASE TaskCompleted(x) \/ TaskFailed(x) \/ ExecutorEnds(x)
      BY <2>2 DEF TaskCompleted, TaskFailed, ExecutorEnds, ExecFrame
    <2> QED
      BY <1>4, <2>1, <2>2 DEF ExecutorStep
  <1>5. ASSUME Evict \/ WriterStep \/ Restart \/ (\E r \in Runs : InitStep(r))
               \/ (\E i \in recovering : RecoverSingleWorkflow(i))
        PROVE  faults' = faults
    BY <1>2, <1>5 DEF Evict, WriterStep, UpdateExecution, PersistLost, SaveTaskDeltas, SnapshotLost,
                      Restart, InitStep, SaveWorkflowDef, SaveWorkflowDefDuplicate, InitFails,
                      CopyState, CreateExecution, LinkExecution, RecoverSingleWorkflow
  <1> QED
    BY <1>2, <1>3, <1>4, <1>5 DEF Step

\* The steps there are then, but for asyncInitMySQL: no ExecutionID is learnt.
LEMMA QuietStep ==
    ASSUME Inv, LinksInv, Step, faults' = 0
    PROVE  \/ \E r \in Runs : InitStep(r)
           \/ /\ ExecKept /\ UNCHANGED <<rows, recovering>> /\ defs \subseteq defs'
              /\ \A r \in Runs : init'[r] = init[r] \/ init'[r].pc = "define"
           \/ \E job \in jobs : UpdateExecution(job)
  <1>0. faults = 0 /\ ~Fault /\ recovering = {}
    BY FaultFree DEF LinksInv
  <1> DEFINE Quiet == /\ ExecKept /\ UNCHANGED <<rows, recovering>> /\ defs \subseteq defs'
                      /\ \A r \in Runs : init'[r] = init[r] \/ init'[r].pc = "define"
  <1>1. ASSUME NEW u \in UUIDs, NEW e, NEW f, Ends(u, e, f) PROVE Quiet
    BY <1>1, EndsEffect DEF ExecKept, ExecKnown
  <1>2. ASSUME NEW u \in UUIDs, WorkflowStep(u) PROVE Quiet
    <2>1. CASE Submit(u)
      BY <2>1, SubmitWorkflowEffect DEF Submit, mysql
    <2>2. CASE Define(u)
      BY <2>2 DEF Define, execVars, ExecKept, ExecKnown
    <2>3. CASE RetryWorkflow(u)
      <3>1. PICK id : id \in DOMAIN hist /\ SubmitWorkflow(hist[id])
        BY <2>3 DEF RetryWorkflow
      <3>2. hist[id] \in UUIDs
        BY <3>1 DEF Inv, Typed
      <3> QED
        BY <2>3, <3>1, <3>2, SubmitWorkflowEffect DEF RetryWorkflow, mysql
    <2>4. ASSUME NEW t, ClearFailedTask(u, t) PROVE Quiet
      BY <2>4, ClearEffect DEF ExecFrame, mysql
    <2> QED
      BY <1>1, <1>2, <2>1, <2>2, <2>3, <2>4, PersistEnds DEF WorkflowStep
  <1>3. ASSUME NEW x \in execs, ExecutorStep(x) \/ TaskFailed(x) \/ TaskSkipped(x) PROVE Quiet
    <2>1. CASE TaskCompleted(x) \/ TaskFailed(x)
      BY <2>1, TaskEffect DEF ExecFrame, mysql
    <2>2. CASE ExecutorEnds(x)
      BY <2>2 DEF ExecutorEnds, ExecFrame, mysql, ExecKept, ExecKnown
    <2> QED
      BY <1>1, <1>3, <2>1, <2>2, PersistEnds DEF ExecutorStep
  <1>4. ASSUME Evict PROVE Quiet
    BY <1>4 DEF Evict, mysql, execVars, ExecKept, ExecKnown
  <1>5. ASSUME NEW s \in snaps, SaveTaskDeltas(s) PROVE Quiet
    BY <1>5 DEF SaveTaskDeltas, WriteFrame, execVars, ExecKept, ExecKnown
  <1> HIDE DEF Quiet
  <1>6. Quiet \/ (\E r \in Runs : InitStep(r)) \/ (\E job \in jobs : UpdateExecution(job))
    BY <1>0, <1>2, <1>3, <1>4, <1>5 DEF Step, WriterStep, PersistLost, SnapshotLost, Restart
  <1> QED
    BY <1>6 DEF Quiet

(***************************************************************************)
(* Who links, and when.                                                    *)
(***************************************************************************)
LEMMA FirstKept ==
    ASSUME FirstDefines, defs \subseteq defs', ExecKept,
           \A r \in Runs : \/ init'[r].pc \in {"idle", "define"}
                           \/ init[r].pc \notin {"idle", "define"}
    PROVE  FirstDefines'
  <1>1. \A u \in UUIDs : InitOver(u) => InitOver(u)'
    BY DEF InitOver
  <1> QED
    BY <1>1 DEF FirstDefines, ExecKept

LEMMA FirstSave ==
    ASSUME Inv, FirstDefines, NEW r \in Runs, SaveWorkflowDef(r)
    PROVE  FirstDefines'
  <1>1. r[1] \notin defs /\ defs' = defs \cup {r[1]} /\ r[1] \in UUIDs /\ UNCHANGED entry
    BY RunUUID DEF SaveWorkflowDef
  <1>2. \A q \in Runs : \/ q # r /\ init'[q] = init[q]
                        \/ q = r /\ init'[q].pc = "copy"
    BY DEF SaveWorkflowDef, Inv, Typed, Inits
  <1>3. InitOver(r[1]) /\ ~ExecKnown(r[1])
    BY <1>1 DEF FirstDefines
  <1>4. \A u \in UUIDs : u # r[1] => (InitOver(u) => InitOver(u)')
    BY <1>2 DEF InitOver
  <1>5. \A u \in UUIDs : ExecKnown(u)' => ExecKnown(u) /\ u # r[1]
    BY <1>1, <1>3 DEF ExecKnown
  <1> QED
    BY <1>1, <1>2, <1>3, <1>4, <1>5 DEF FirstDefines, InitOver

LEMMA FirstLink ==
    ASSUME Inv, FirstDefines, NEW r \in Runs, LinkExecution(r)
    PROVE  FirstDefines'
  <1>1. init[r].pc = "link" /\ UNCHANGED defs
    BY DEF LinkExecution
  <1>2. \A q \in Runs : (q # r /\ init'[q] = init[q]) \/ (q = r /\ init'[q].pc = "idle")
    BY LinkEffect
  <1>3. r[1] \in UUIDs /\ r[1] \in defs
    BY <1>1, RunUUID DEF FirstDefines, InitOver
  <1>4. InitOver(r[1])'
    BY <1>1, <1>2 DEF FirstDefines, InitOver
  <1>5. \A u \in UUIDs : InitOver(u) => InitOver(u)'
    BY <1>2 DEF InitOver
  <1>6. \A u \in UUIDs : u # r[1] => (ExecKnown(u)' => ExecKnown(u))
    BY LinkEffect DEF ExecKnown
  <1> QED
    BY <1>1, <1>2, <1>3, <1>4, <1>5, <1>6 DEF FirstDefines

\* The steps of asyncInitMySQL by which no ExecutionID is learnt.
LEMMA InitQuiet ==
    ASSUME Inv, NEW r \in Runs,
           \/ SaveWorkflowDef(r) \/ SaveWorkflowDefDuplicate(r) \/ InitFails(r)
           \/ CopyState(r) \/ CreateExecution(r)
    PROVE  ExecKept
  <1>1. \A v \in UUIDs : entry'[v] = None \/ entry'[v] = entry[v]
    BY RunUUID, CleanupEffect DEF SaveWorkflowDef, SaveWorkflowDefDuplicate, InitFails, CopyState,
                                  CreateExecution
  <1> QED
    BY <1>1 DEF ExecKept, ExecKnown

LEMMA LinksNext == Inv /\ LinksInv /\ Step => LinksInv'
  <1> SUFFICES ASSUME Inv, LinksInv, Step, faults' = 0 PROVE recovering' = {} /\ FirstDefines'
    BY DEF LinksInv
  <1>0. faults = 0 /\ ~Fault /\ recovering = {} /\ FirstDefines
    BY FaultFree DEF LinksInv
  <1>1. ASSUME NEW r \in Runs, InitStep(r) PROVE recovering' = {} /\ FirstDefines'
    <2>1. recovering' = recovering
      BY <1>1 DEF InitStep, SaveWorkflowDef, SaveWorkflowDefDuplicate, InitFails, CopyState,
                  CreateExecution, LinkExecution, InitFrame
    <2>2. CASE SaveWorkflowDefDuplicate(r) \/ CopyState(r) \/ CreateExecution(r)
      <3>1. ExecKept
        BY <2>2, InitQuiet
      <3>2. /\ defs' = defs
            /\ init[r].pc = "create" \/ init[r].pc = "copy" \/ init'[r].pc = "idle"
            /\ \A q \in Runs : q = r \/ init'[q] = init[q]
        BY <2>2 DEF SaveWorkflowDefDuplicate, CopyState, CreateExecution, Idle, Inv, Typed
      <3> QED
        BY <1>0, <2>1, <3>1, <3>2, FirstKept
    <2> QED
      BY <1>0, <1>1, <2>1, <2>2, FirstSave, FirstLink DEF InitStep, InitFails
  <1>2. ASSUME ExecKept, UNCHANGED <<rows, recovering>>, defs \subseteq defs',
               \A r \in Runs : init'[r] = init[r] \/ init'[r].pc = "define"
        PROVE  recovering' = {} /\ FirstDefines'
    BY <1>0, <1>2, FirstKept
  <1>3. ASSUME NEW job \in jobs, UpdateExecution(job) PROVE recovering' = {} /\ FirstDefines'
    BY <1>0, <1>3 DEF UpdateExecution, WriteFrame, execVars, FirstDefines, InitOver, ExecKnown
  <1> QED
    BY <1>1, <1>2, <1>3, QuietStep

(***************************************************************************)
(* What appending and removing do to what a sequence holds.                *)
(***************************************************************************)
LEMMA InAppend ==
    ASSUME NEW s \in Seq(Nat), NEW n \in Nat, NEW x
    PROVE  /\ In(x, Append(s, n)) <=> In(x, s) \/ x = n
           /\ Once(x, s) /\ (x = n => ~In(x, s)) => Once(x, Append(s, n))
  <1>1. /\ Len(s) \in Nat /\ Len(Append(s, n)) = Len(s) + 1
        /\ Append(s, n)[Len(s) + 1] = n
        /\ \A i \in 1..Len(s) : Append(s, n)[i] = s[i]
    BY AppendProperties, LenProperties
  <1> DEFINE a == Append(s, n)
  <1> HIDE DEF a
  <1>2. /\ Len(s) \in Nat /\ Len(a) = Len(s) + 1 /\ a[Len(s) + 1] = n
        /\ \A i \in 1..Len(s) : a[i] = s[i]
    BY <1>1 DEF a
  <1>3. In(x, a) <=> In(x, s) \/ x = n
    BY <1>2 DEF In
  <1>4. ASSUME Once(x, s), x = n => ~In(x, s) PROVE Once(x, a)
    BY <1>2, <1>4 DEF In, Once
  <1> QED
    BY <1>3, <1>4 DEF a

LEMMA InTail ==
    ASSUME NEW s \in Seq(Nat), s # <<>>, NEW x, In(x, s), x # Head(s)
    PROVE  In(x, Tail(s))
  <1>1. Len(s) \in Nat /\ Head(s) = s[1] /\ Len(Tail(s)) = Len(s) - 1
        /\ \A i \in 1..Len(Tail(s)) : Tail(s)[i] = s[i + 1]
    BY HeadTailProperties, LenProperties
  <1>2. PICK k \in 1..Len(s) : s[k] = x
    BY DEF In
  <1>3. k - 1 \in 1..Len(Tail(s)) /\ Tail(s)[k - 1] = s[(k - 1) + 1]
    BY <1>1, <1>2
  <1> QED
    BY <1>2, <1>3 DEF In

LEMMA InRemoveFirst ==
    ASSUME NEW s \in Seq(Nat), NEW e, NEW x
    PROVE  /\ In(x, RemoveFirst(s, e)) => In(x, s)
           /\ In(x, s) /\ x # e => In(x, RemoveFirst(s, e))
           /\ Once(x, s) => Once(x, RemoveFirst(s, e))
           /\ Once(e, s) => ~In(e, RemoveFirst(s, e))
  <1>1. CASE ~\E i \in 1..Len(s) : s[i] = e
    BY <1>1 DEF RemoveFirst, In
  <1>2. CASE \E i \in 1..Len(s) : s[i] = e
    <2> DEFINE t == RemoveFirst(s, e)
    <2>1. PICK k \in 1..Len(s) : s[k] = e /\ Without(t, s, k)
      BY <1>2, RemoveFirstShifts
    <2>2. /\ Len(t) = Len(s) - 1 /\ Len(s) \in Nat
          /\ \A i \in 1..k - 1 : t[i] = s[i]
          /\ \A i \in k..Len(s) - 1 : t[i] = s[i + 1]
      BY <2>1, LenProperties DEF Without
    <2> HIDE DEF t
    <2>3. In(x, t) => In(x, s)
      BY <2>1, <2>2 DEF In
    <2>4. ASSUME In(x, s), x # e PROVE In(x, t)
      <3>1. PICK j \in 1..Len(s) : s[j] = x
        BY <2>4 DEF In
      <3>2. CASE j < k
        <4>1. j \in 1..Len(s) - 1 /\ t[j] = s[j]
          BY <2>1, <2>2, <3>2
        <4> QED
          BY <2>2, <3>1, <4>1 DEF In
      <3>3. CASE j > k
        <4>1. j - 1 \in 1..Len(s) - 1 /\ t[j - 1] = s[(j - 1) + 1]
          BY <2>1, <2>2, <3>3
        <4> QED
          BY <2>2, <3>1, <4>1 DEF In
      <3> QED
        BY <2>1, <2>2, <2>4, <3>1, <3>2, <3>3
    <2>5. ASSUME Once(x, s) PROVE Once(x, t)
      <3> SUFFICES ASSUME NEW i \in 1..Len(s) - 1, NEW j \in 1..Len(s) - 1, t[i] = x, t[j] = x
                   PROVE  i = j
        BY <2>2 DEF Once
      <3> DEFINE Before(m) == IF m < k THEN m ELSE m + 1
      <3>1. Before(i) \in 1..Len(s) /\ s[Before(i)] = x
        BY <2>2
      <3>2. Before(j) \in 1..Len(s) /\ s[Before(j)] = x
        BY <2>2
      <3>3. Before(i) = Before(j)
        BY <2>5, <3>1, <3>2 DEF Once
      <3> QED
        BY <2>2, <3>3
    <2>6. ASSUME Once(e, s) PROVE ~In(e, t)
      <3> SUFFICES ASSUME NEW i \in 1..Len(s) - 1, t[i] = e PROVE FALSE
        BY <2>2 DEF In
      <3>1. CASE i < k
        BY <2>1, <2>2, <2>6, <3>1 DEF Once
      <3>2. CASE i >= k
        <4>1. s[i + 1] = e /\ i + 1 \in 1..Len(s) /\ i + 1 # k
          BY <2>1, <2>2, <3>2
        <4> QED
          BY <2>1, <2>6, <4>1 DEF Once
      <3> QED
        BY <2>2, <3>1, <3>2
    <2> QED
      BY <2>3, <2>4, <2>5, <2>6 DEF t
  <1> QED
    BY <1>1, <1>2

(***************************************************************************)
(* The history.                                                            *)
(***************************************************************************)
\* From the records h and lists b the record id, listed under u, was removed.
Removed(h, b, h2, b2, id, u) ==
    /\ h2 = [i \in DOMAIN h \ {id} |-> h[i]]
    /\ b2 = [b EXCEPT ![u] = RemoveFirst(@, id)]

OrderWithout(h, id, o) == \A x \in DOMAIN h : x # id => In(x, o)

LEMMA HistoryWithout ==
    ASSUME NEW h, NEW b, NEW o, NEW tw, NEW h2, NEW b2, NEW o2, NEW id, NEW u,
           HistoryOK(h, b, o, tw), b \in [UUIDs -> Seq(Nat)],
           id \in DOMAIN h, id \in tw \/ u = h[id],
           Removed(h, b, h2, b2, id, u), OrderWithout(h, id, o2)
    PROVE  b2 \in [UUIDs -> Seq(Nat)] /\ HistoryOK(h2, b2, o2, tw)
  <1>0. /\ h2 = [i \in DOMAIN h \ {id} |-> h[i]]
        /\ b2 = [b EXCEPT ![u] = RemoveFirst(@, id)]
        /\ \A x \in DOMAIN h : x # id => In(x, o2)
    BY DEF Removed, OrderWithout
  <1>1. /\ DOMAIN h2 = DOMAIN h \ {id} /\ \A i \in DOMAIN h2 : h2[i] = h[i]
    BY <1>0
  <1>2. \A v \in UUIDs : \/ v # u /\ b2[v] = b[v]
                         \/ v = u /\ b2[v] = RemoveFirst(b[v], id)
    BY <1>0
  <1>3. b2 \in [UUIDs -> Seq(Nat)]
    BY <1>0, RemoveFirstTyped
  <1>4. \A v \in UUIDs : \A x : /\ In(x, b2[v]) => In(x, b[v])
                                /\ Once(x, b[v]) => Once(x, b2[v])
    BY <1>2, InRemoveFirst
  <1>5. ASSUME NEW v \in UUIDs, NEW x \in Nat \ tw, In(x, b2[v])
        PROVE  x \in DOMAIN h2 /\ h2[x] = v /\ Once(x, b2[v])
    <2>1. In(x, b[v]) /\ x \in DOMAIN h /\ h[x] = v /\ Once(x, b[v]) /\ Once(x, b2[v])
      BY <1>4, <1>5 DEF HistoryOK
    <2>2. x # id
      <3> SUFFICES ASSUME x = id PROVE FALSE
        OBVIOUS
      <3>1. v = u
        BY <2>1
      <3>2. b2[v] = RemoveFirst(b[v], id) /\ Once(id, b[v])
        BY <1>2, <2>1, <3>1
      <3> QED
        BY <1>5, <3>2, InRemoveFirst
    <2> QED
      BY <1>1, <2>1, <2>2
  <1>6. HistoryOK(h2, b2, o2, tw)
    BY <1>0, <1>1, <1>5 DEF HistoryOK
  <1> QED
    BY <1>3, <1>6

LEMMA RecordsRetry ==
    ASSUME Inv, RecordsInv, NEW u \in UUIDs, RetryWorkflow(u)
    PROVE  RecordsInv'
  <1> DEFINE id == Last(byUUID[u])
  <1>1. /\ id \in DOMAIN hist /\ hist' = Forget(id)
        /\ byUUID' = [byUUID EXCEPT ![u] = RemoveFirst(@, id)]
        /\ order' = RemoveFirst(order, id) /\ UNCHANGED twice
    BY DEF RetryWorkflow
  <1>2. In(id, byUUID[u]) /\ id \in Nat
    <2>1. byUUID[u] \in Seq(Nat) /\ byUUID[u] # <<>>
      BY DEF RecordsInv, RetryWorkflow
    <2>2. Len(byUUID[u]) \in Nat /\ Len(byUUID[u]) # 0
      BY <2>1, LenProperties, EmptySeq
    <2>3. Len(byUUID[u]) \in 1..Len(byUUID[u])
      BY <2>2
    <2> QED
      BY <2>1, <2>3, ElementOfSeq DEF Last, In
  <1> HIDE DEF id
  <1>3. Removed(hist, byUUID, hist', byUUID', id, u)
    BY <1>1 DEF Forget, Removed
  <1>4. OrderWithout(hist, id, order')
    BY <1>1, InRemoveFirst DEF Inv, Typed, RecordsInv, HistoryOK, OrderWithout
  <1>5. id \in twice \/ u = hist[id]
    BY <1>2 DEF RecordsInv, HistoryOK
  <1>6. byUUID \in [UUIDs -> Seq(Nat)] /\ HistoryOK(hist, byUUID, order, twice)
    BY DEF RecordsInv
  <1>7. byUUID' \in [UUIDs -> Seq(Nat)] /\ HistoryOK(hist', byUUID', order', twice)
    <2>1. id \in DOMAIN hist
      BY <1>1
    <2> QED
      BY <1>3, <1>4, <1>5, <1>6, <2>1, HistoryWithout
  <1> QED
    BY <1>1, <1>7 DEF RecordsInv

LEMMA RecordsEvict ==
    ASSUME Inv, RecordsInv, Evict
    PROVE  RecordsInv'
  <1>0. /\ order \in Seq(Nat) /\ byUUID \in [UUIDs -> Seq(Nat)] /\ twice' = twice
        /\ HistoryOK(hist, byUUID, order, twice)
    BY DEF Inv, Typed, RecordsInv, Evict
  <1>1. CASE Len(order) > MaxCache
    <2> DEFINE id == Head(order)
    <2>1. /\ order' = Tail(order) /\ hist' = Forget(id)
          /\ byUUID' = IF id \notin DOMAIN hist THEN byUUID
                       ELSE [byUUID EXCEPT ![hist[id]] = RemoveFirst(@, id)]
      BY <1>1 DEF Evict, EvictOldest
    <2>2. order # <<>>
      BY <1>0, <1>1, BoundsAssumption, EmptySeq
    <2>3. \A x : In(x, order) /\ x # id => In(x, order')
      BY <1>0, <2>1, <2>2, InTail
    <2> HIDE DEF id
    <2>4. OrderWithout(hist, id, order')
      BY <1>0, <2>3 DEF HistoryOK, OrderWithout
    <2>5. CASE id \in DOMAIN hist
      <3>1. Removed(hist, byUUID, hist', byUUID', id, hist[id])
        BY <2>1, <2>5 DEF Removed, Forget
      <3> QED
        BY <1>0, <2>4, <2>5, <3>1, HistoryWithout DEF RecordsInv
    <2>6. CASE id \notin DOMAIN hist
      <3>1. byUUID' = byUUID /\ DOMAIN hist' = DOMAIN hist /\ \A i \in DOMAIN hist : hist'[i] = hist[i]
        BY <2>1, <2>6 DEF Forget
      <3>2. \A x \in DOMAIN hist : In(x, order')
        BY <2>4, <2>6 DEF OrderWithout
      <3> QED
        BY <1>0, <3>1, <3>2 DEF RecordsInv, HistoryOK
    <2> QED
      BY <2>5, <2>6
  <1>2. CASE ~(Len(order) > MaxCache)
    BY <1>0, <1>2 DEF Evict, RecordsInv
  <1> QED
    BY <1>1, <1>2

LEMMA RecordsEnds ==
    ASSUME Inv, RecordsInv, NEW f, f.uuid \in UUIDs, f.exec \in Nat, AddHistory(f)
    PROVE  RecordsInv'
  <1> DEFINE n == f.exec
             u == f.uuid
  <1>0. /\ order \in Seq(Nat) /\ byUUID \in [UUIDs -> Seq(Nat)]
        /\ HistoryOK(hist, byUUID, order, twice)
    BY DEF Inv, Typed, RecordsInv
  <1>1. /\ DOMAIN hist' = DOMAIN hist \cup {n} /\ hist'[n] = u
        /\ \A i \in DOMAIN hist : i # n => hist'[i] = hist[i]
    BY DEF AddHistory
  <1>2. /\ \A v \in UUIDs : v # u => byUUID'[v] = byUUID[v]
        /\ byUUID'[u] = Append(byUUID[u], n) /\ byUUID' \in [UUIDs -> Seq(Nat)]
    <2>1. byUUID' = [byUUID EXCEPT ![u] = Append(byUUID[u], n)]
      BY DEF AddHistory
    <2>2. byUUID[u] \in Seq(Nat) /\ u \in UUIDs /\ n \in Nat
      BY <1>0
    <2>3. Append(byUUID[u], n) \in Seq(Nat)
      BY <2>2, AppendProperties
    <2> HIDE DEF n, u
    <2> QED
      BY <1>0, <2>1, <2>2, <2>3
  <1>3. order' = Append(order, n) /\ twice \subseteq twice' /\ (In(n, order) => n \in twice')
    <2>1. In(n, order) => n \in Range(order)
      BY <1>0, LenProperties DEF In, Range
    <2> QED
      BY <2>1 DEF AddHistory
  <1> HIDE DEF n, u
  <1>4. n \in Nat /\ u \in UUIDs
    BY DEF n, u
  <1>5. \A x : /\ In(x, byUUID'[u]) <=> In(x, byUUID[u]) \/ x = n
               /\ Once(x, byUUID[u]) /\ (x = n => ~In(x, byUUID[u])) => Once(x, byUUID'[u])
    BY <1>0, <1>2, <1>4, InAppend
  <1>6. ASSUME NEW v \in UUIDs, NEW x \in Nat \ twice', In(x, byUUID'[v])
        PROVE  x \in DOMAIN hist' /\ hist'[x] = v /\ Once(x, byUUID'[v])
    <2>1. x \notin twice
      BY <1>3
    <2>2. CASE x # n
      <3>1. In(x, byUUID[v])
        BY <1>2, <1>5, <1>6, <2>2
      <3>2. x \in DOMAIN hist /\ hist[x] = v /\ Once(x, byUUID[v])
        BY <1>0, <2>1, <3>1 DEF HistoryOK
      <3> QED
        BY <1>1, <1>2, <1>5, <2>2, <3>2
    <2>3. CASE x = n
      <3>1. n \notin DOMAIN hist
        BY <1>0, <1>3, <2>3 DEF HistoryOK
      <3>2. \A w \in UUIDs : ~In(n, byUUID[w])
        BY <1>0, <1>4, <2>1, <2>3, <3>1 DEF HistoryOK
      <3>3. Once(n, byUUID[u])
        BY <1>4, <3>2 DEF In, Once
      <3>4. v = u
        BY <1>2, <1>6, <2>3, <3>2
      <3> QED
        BY <1>1, <1>4, <1>5, <2>3, <3>2, <3>3, <3>4
    <2> QED
      BY <2>2, <2>3
  <1>7. \A id \in DOMAIN hist' : In(id, order')
    <2>1. \A x : In(x, order') <=> In(x, order) \/ x = n
      BY <1>0, <1>3, <1>4, InAppend
    <2> QED
      BY <1>0, <1>1, <2>1 DEF HistoryOK
  <1> QED
    BY <1>2, <1>6, <1>7 DEF RecordsInv, HistoryOK

LEMMA ListedOnce ==
    ASSUME NEW s \in Seq(Nat), NEW S, Lists(s, S), NEW x, In(x, s)
    PROVE  x \in S /\ Once(x, s)
  <1>1. DOMAIN s = 1..Len(s) /\ Len(s) \in Nat /\ \A k \in 1..Len(s) : s[k] \in Nat
    BY LenProperties, ElementOfSeq
  <1>2. x \in S
    BY <1>1 DEF Lists, In, Range
  <1>3. \A j, k \in 1..Len(s) : j < k => s[j] > s[k]
    BY <1>1 DEF Lists
  <1>4. Once(x, s)
    BY <1>1, <1>3 DEF Once
  <1> QED
    BY <1>2, <1>4

LEMMA RecordsRestart ==
    ASSUME Inv, Restart
    PROVE  RecordsInv'
  <1>0. PICK ids \in {Newest, <<>>} : LoadHistory(ids)
    BY DEF Restart
  <1>1. ids \in Seq(Nat) /\ Range(ids) \subseteq Ids
    BY LoadedTyped DEF Inv
  <1>2. DOMAIN ids = 1..Len(ids) /\ Len(ids) \in Nat /\ Range(ids) \subseteq Nat
    BY <1>1, LenProperties, ElementOfSeq DEF Range
  <1>3. order' = ids /\ hist' = [i \in Range(ids) |-> rows[i].data.uuid]
    BY <1>0 DEF LoadHistory
  <1>4. /\ byUUID' \in [UUIDs -> UNION {[1..n -> Range(ids)] : n \in 0..Len(ids)}]
        /\ \A u \in UUIDs : Lists(byUUID'[u], {i \in Range(ids) : rows[i].uuid = u})
    BY <1>0 DEF LoadHistory
  <1>5. byUUID' \in [UUIDs -> Seq(Nat)]
    <2>1. ASSUME NEW n \in 0..Len(ids), NEW s \in [1..n -> Range(ids)] PROVE s \in Seq(Nat)
      <3>1. s \in [1..n -> Nat] /\ n \in Nat
        BY <1>2
      <3> QED
        BY <3>1, SeqDef
    <2> QED
      BY <1>4, <2>1
  <1>6. \A i \in Ids : rows[i].data.uuid = rows[i].uuid
    BY DEF Inv, Sounds, RowsSound, RowSound, Sound
  <1>7. ASSUME NEW u \in UUIDs, NEW id, In(id, byUUID'[u])
        PROVE  id \in DOMAIN hist' /\ hist'[id] = u /\ Once(id, byUUID'[u])
    <2>1. id \in {i \in Range(ids) : rows[i].uuid = u} /\ Once(id, byUUID'[u])
      BY <1>4, <1>5, <1>7, ListedOnce
    <2> QED
      BY <1>1, <1>3, <1>6, <2>1
  <1>8. \A id \in DOMAIN hist' : In(id, order')
    BY <1>2, <1>3 DEF In, Range
  <1> QED
    BY <1>5, <1>7, <1>8 DEF RecordsInv, HistoryOK

LEMMA RecordsNext == Inv /\ RecordsInv /\ Step => RecordsInv'
  <1> SUFFICES ASSUME Inv, RecordsInv, Step PROVE RecordsInv'
    OBVIOUS
  <1>0. UNCHANGED histVars => RecordsInv'
    BY DEF RecordsInv, histVars
  <1>1. ASSUME NEW u \in UUIDs, NEW e, NEW f, Ends(u, e, f) PROVE RecordsInv'
    BY <1>1, EndsEffect, RecordsEnds
  <1>2. ASSUME NEW u \in UUIDs, WorkflowStep(u) PROVE RecordsInv'
    <2>1. CASE \/ Submit(u) \/ Define(u) \/ \E t \in Tasks : ClearFailedTask(u, t)
      BY <1>0, <2>1 DEF Submit, Define, ClearFailedTask, ExecFrame
    <2> QED
      BY <1>1, <1>2, <2>1, RecordsRetry, PersistEnds DEF WorkflowStep
  <1>3. ASSUME NEW x \in execs, ExecutorStep(x) \/ TaskFailed(x) \/ TaskSkipped(x)
        PROVE  RecordsInv'
    <2>1. CASE TaskCompleted(x) \/ TaskFailed(x) \/ ExecutorEnds(x)
      BY <1>0, <2>1 DEF TaskCompleted, TaskFailed, ExecutorEnds, ExecFrame
    <2> QED
      BY <1>1, <1>3, <2>1, PersistEnds DEF ExecutorStep
  <1>4. ASSUME WriterStep \/ (\E r \in Runs : InitStep(r))
               \/ (\E i \in recovering : RecoverSingleWorkflow(i))
        PROVE  RecordsInv'
    BY <1>0, <1>4 DEF WriterStep, UpdateExecution, PersistLost, SaveTaskDeltas, SnapshotLost,
                      WriteFrame, InitStep, SaveWorkflowDef, SaveWorkflowDefDuplicate, InitFails,
                      CopyState, CreateExecution, LinkExecution, InitFrame, RecoverSingleWorkflow
  <1> QED
    BY <1>2, <1>3, <1>4, RecordsEvict, RecordsRestart DEF Step

(***************************************************************************)
(* Without faults, and with nobody waiting for an entry that ends, no id   *)
(* but 0 is recorded twice.                                                *)
(***************************************************************************)
LEMMA FreshKept ==
    ASSUME NotYetRecorded, held' = held, twice' = twice, \A x : In(x, order') => In(x, order),
           Ids \subseteq Ids', ExecKept,
           \A r \in Runs : init'[r].pc = "link" => init'[r] = init[r]
    PROVE  NotYetRecorded'
  <1>1. \A u \in UUIDs : ExecKnown(u)' => ~In(entry'[u].exec, order')
    BY DEF NotYetRecorded, ExecKept
  <1>2. \A r \in Runs : init'[r].pc = "link" => ~In(init'[r].id, order')
    BY DEF NotYetRecorded
  <1> QED
    BY <1>1, <1>2 DEF NotYetRecorded

LEMMA FreshEnds ==
    ASSUME Inv, FirstDefines, NotYetRecorded, ~env.window,
           NEW u \in UUIDs, NEW e, NEW f, Ends(u, e, f)
    PROVE  NotYetRecorded'
  <1> DEFINE n == f.exec
  <1>1. e = entry[u] /\ entry[u] # None
    BY DEF NotYetRecorded, Ends, Locked
  <1>2. /\ Sound(e, u, rows, done) /\ n \in Nat /\ n = e.exec /\ AddHistory(f) /\ held' = {}
        /\ \A v \in UUIDs : (v = u /\ entry'[v] = None) \/ (v # u /\ entry'[v] = entry[v])
        /\ UNCHANGED <<rows, init>>
    BY EndsEffect DEF NotYetRecorded
  <1>3. /\ order' = Append(order, n) /\ order \in Seq(Nat)
        /\ twice' = IF n \in Range(order) THEN twice \cup {n} ELSE twice
    BY <1>2 DEF AddHistory, Inv, Typed
  <1> HIDE DEF n
  <1>4. n # 0 => n \in Ids /\ rows[n].uuid = u /\ ~In(n, order) /\ InitOver(u)
    BY <1>1, <1>2 DEF Sound, NotYetRecorded, ExecKnown, Ids, FirstDefines
  <1>5. \A x : In(x, order') <=> In(x, order) \/ x = n
    BY <1>2, <1>3, InAppend
  <1>6. twice' \subseteq {0}
    <2>1. n \in Range(order) => In(n, order)
      BY <1>3, LenProperties DEF Range, In
    <2> QED
      BY <1>3, <1>4, <2>1 DEF NotYetRecorded
  <1>7. \A id : In(id, order') => id = 0 \/ id \in Ids
    BY <1>4, <1>5 DEF NotYetRecorded
  <1>8. ASSUME NEW v \in UUIDs, ExecKnown(v)' PROVE ~In(entry'[v].exec, order')
    <2>1. v # u /\ entry'[v] = entry[v] /\ ExecKnown(v)
      BY <1>2, <1>8 DEF ExecKnown
    <2>2. entry[v].exec # 0 /\ rows[entry[v].exec].uuid = v /\ ~In(entry[v].exec, order)
      BY <2>1, EntryIs DEF ExecKnown, Sound, NotYetRecorded
    <2> QED
      BY <1>4, <1>5, <2>1, <2>2
  <1>9. ASSUME NEW r \in Runs, init'[r].pc = "link" PROVE ~In(init'[r].id, order')
    <2>1. /\ init'[r] = init[r] /\ ~In(init[r].id, order)
          /\ init[r].id \in Ids /\ rows[init[r].id].uuid = r[1]
      BY <1>2, <1>9 DEF NotYetRecorded, Inv, Sounds, InitsSound, InitSound, Ids
    <2>2. init[r].id # 0
      BY <2>1, IdsTyped DEF Inv
    <2>3. ASSUME init[r].id = n PROVE FALSE
      BY <1>4, <1>9, <2>1, <2>2, <2>3 DEF InitOver
    <2> QED
      BY <1>5, <2>1, <2>3
  <1>10. Ids' = Ids
    BY <1>2 DEF Ids
  <1> QED
    BY <1>2, <1>6, <1>7, <1>8, <1>9, <1>10 DEF NotYetRecorded

LEMMA FreshCreate ==
    ASSUME Inv, NotYetRecorded, NEW r \in Runs, CreateExecution(r)
    PROVE  NotYetRecorded'
  <1> DEFINE n == Len(rows) + 1
  <1>1. UNCHANGED <<entry, held, order, twice>>
    BY DEF CreateExecution, InitFrame, histVars
  <1>2. /\ Len(rows) \in Nat /\ Ids = 1..Len(rows) /\ Ids' = 1..n
        /\ \A q \in Runs : init'[q] = init[q] \/ init'[q].id = n
    BY CreateEffect
  <1>3. ~In(n, order) /\ Ids \subseteq Ids'
    BY <1>2 DEF NotYetRecorded
  <1> HIDE DEF n
  <1>4. \A q \in Runs : init'[q].pc = "link" => ~In(init'[q].id, order)
    BY <1>2, <1>3 DEF NotYetRecorded
  <1> QED
    BY <1>1, <1>3, <1>4 DEF NotYetRecorded, ExecKnown

LEMMA FreshLink ==
    ASSUME Inv, NotYetRecorded, NEW r \in Runs, LinkExecution(r)
    PROVE  NotYetRecorded'
  <1>1. init[r].pc = "link" /\ UNCHANGED <<rows, held, order, twice>>
    BY DEF LinkExecution, InitFrame, histVars
  <1>2. ~In(init[r].id, order)
    BY <1>1 DEF NotYetRecorded
  <1>3. \A v \in UUIDs : entry'[v] = entry[v] \/ entry'[v].exec = init[r].id
    BY LinkEffect
  <1>4. \A q \in Runs : init'[q] = init[q] \/ init'[q].pc = "idle"
    BY LinkEffect
  <1> QED
    BY <1>1, <1>2, <1>3, <1>4 DEF NotYetRecorded, ExecKnown, Ids

LEMMA FreshEvict ==
    ASSUME Inv, NotYetRecorded, Evict
    PROVE  NotYetRecorded'
  <1>1. UNCHANGED <<rows, entry, held, init, twice>>
    BY DEF Evict, mysql, execVars
  <1>2. \A x : In(x, order') => In(x, order)
    <2>1. CASE Len(order) > MaxCache
      <3>1. order' = Tail(order) /\ order \in Seq(Nat)
        BY <2>1 DEF Evict, EvictOldest, Inv, Typed
      <3>2. order # <<>>
        BY <2>1, <3>1, BoundsAssumption, EmptySeq
      <3>3. /\ Len(order) \in Nat /\ Len(order') = Len(order) - 1
            /\ \A i \in 1..Len(order') : order'[i] = order[i + 1]
        BY <3>1, <3>2, HeadTailProperties, LenProperties
      <3>4. \A i \in 1..Len(order') : i + 1 \in 1..Len(order)
        BY <3>3
      <3> QED
        BY <3>3, <3>4 DEF In
    <2>2. CASE ~(Len(order) > MaxCache)
      BY <2>2 DEF Evict
    <2> QED
      BY <2>1, <2>2
  <1>3. ExecKept /\ Ids \subseteq Ids'
    BY <1>1 DEF ExecKept, ExecKnown, Ids
  <1> QED
    BY <1>1, <1>2, <1>3, FreshKept

LEMMA FreshRetry ==
    ASSUME Inv, NotYetRecorded, NEW u \in UUIDs, RetryWorkflow(u)
    PROVE  NotYetRecorded'
  <1>1. PICK id : /\ id \in DOMAIN hist /\ SubmitWorkflow(hist[id])
                  /\ order' = RemoveFirst(order, id) /\ UNCHANGED <<rows, twice>>
    BY DEF RetryWorkflow, mysql
  <1>2. hist[id] \in UUIDs /\ order \in Seq(Nat)
    BY <1>1 DEF Inv, Typed
  <1>3. \A x : In(x, order') => In(x, order)
    BY <1>1, <1>2, InRemoveFirst
  <1>4. /\ \A r \in Runs : init'[r] = init[r] \/ init'[r].pc = "define"
        /\ ExecKept /\ held' = held
    BY <1>1, <1>2, SubmitWorkflowEffect
  <1>5. Ids \subseteq Ids'
    BY <1>1 DEF Ids
  <1> QED
    BY <1>1, <1>3, <1>4, <1>5, FreshKept

LEMMA FreshNext == Inv /\ LinksInv /\ FreshInv /\ Next => FreshInv'
  <1> SUFFICES ASSUME Inv, LinksInv, FreshInv, Step, env' = env, faults' = 0, ~env.window
               PROVE  NotYetRecorded'
    BY DEF FreshInv, Next
  <1>0. faults = 0 /\ ~Fault /\ recovering = {} /\ FirstDefines /\ NotYetRecorded
    BY FaultFree DEF LinksInv, FreshInv
  <1>1. ASSUME NEW u \in UUIDs, NEW e, NEW f, Ends(u, e, f) PROVE NotYetRecorded'
    BY <1>0, <1>1, FreshEnds
  <1>2. ASSUME UNCHANGED <<held, twice, order>>, Ids \subseteq Ids', ExecKept,
               \A r \in Runs : init'[r] = init[r] \/ init'[r].pc # "link"
        PROVE  NotYetRecorded'
    BY <1>0, <1>2, FreshKept
  <1>3. ASSUME NEW u \in UUIDs, WorkflowStep(u) PROVE NotYetRecorded'
    <2>1. CASE Submit(u)
      BY <1>2, <2>1, SubmitWorkflowEffect DEF Submit, mysql, histVars, Ids
    <2>2. CASE Define(u)
      BY <1>2, <2>2 DEF Define, execVars, histVars, ExecKept, ExecKnown, Ids
    <2>3. ASSUME NEW t, ClearFailedTask(u, t) PROVE NotYetRecorded'
      BY <1>2, <2>3, ClearEffect DEF ExecFrame, mysql, histVars, Ids
    <2> QED
      BY <1>0, <1>1, <1>3, <2>1, <2>2, <2>3, PersistEnds, FreshRetry DEF WorkflowStep
  <1>4. ASSUME NEW x \in execs, ExecutorStep(x) \/ TaskFailed(x) \/ TaskSkipped(x)
        PROVE  NotYetRecorded'
    <2>1. CASE TaskCompleted(x) \/ TaskFailed(x)
      BY <1>2, <2>1, TaskEffect DEF ExecFrame, mysql, histVars, Ids
    <2>2. CASE ExecutorEnds(x)
      BY <1>2, <2>2 DEF ExecutorEnds, ExecFrame, mysql, histVars, ExecKept, ExecKnown, Ids
    <2> QED
      BY <1>1, <1>4, <2>1, <2>2, PersistEnds DEF ExecutorStep
  <1>5. ASSUME NEW r \in Runs, InitStep(r) PROVE NotYetRecorded'
    <2>1. CASE SaveWorkflowDef(r) \/ SaveWorkflowDefDuplicate(r) \/ CopyState(r)
      <3>1. UNCHANGED <<rows, held, twice, order>> /\ ExecKept
        BY <2>1, InitQuiet DEF SaveWorkflowDef, SaveWorkflowDefDuplicate, CopyState, InitFrame, histVars
      <3>2. \A q \in Runs : init'[q] = init[q] \/ init'[q].pc # "link"
        BY <2>1 DEF SaveWorkflowDef, SaveWorkflowDefDuplicate, CopyState, Idle, Inv, Typed, Inits
      <3> QED
        BY <1>2, <3>1, <3>2 DEF Ids
    <2> QED
      BY <1>0, <1>5, <2>1, FreshCreate, FreshLink DEF InitStep, InitFails
  <1>6. CASE WriterStep
    <2>1. UNCHANGED <<held, twice, order, entry, init>> /\ Ids' = Ids
      BY <1>6 DEF WriterStep, UpdateExecution, PersistLost, SaveTaskDeltas, SnapshotLost, WriteFrame,
                  execVars, histVars, Ids
    <2> QED
      BY <1>2, <2>1 DEF ExecKept, ExecKnown
  <1> QED
    BY <1>0, <1>3, <1>4, <1>5, <1>6, FreshEvict DEF Step, Restart

(***************************************************************************)
(* The marks.                                                              *)
(***************************************************************************)
LEMMA MarksKept ==
    ASSUME MarksInv, faults = 0, saved \cup snaps \subseteq (saved \cup snaps)',
           \A u \in UUIDs : \/ entry'[u] = entry[u] \/ entry'[u] = None
                            \/ MarkSaved(entry'[u], (saved \cup snaps)')
    PROVE  MarksInv'
  BY DEF MarksInv, MarkSaved

\* A task that becomes marked is in the snapshot, with what it is now.
LEMMA MarksSnapshot ==
    ASSUME Inv, MarksInv, faults = 0, NEW u \in UUIDs, NEW e \in States, entry[u] # None,
           e.exec = entry[u].exec, e.marked = entry[u].marked,
           entry[u].completed \subseteq e.completed, entry[u].failed \subseteq e.failed,
           SnapshotRunningWorkflow(u, e), UNCHANGED saved
    PROVE  MarksInv'
  <1> DEFINE sv == saved \cup snaps
  <1>1. MarkSaved(entry[u], sv)
    BY DEF MarksInv
  <1>2. MarkSaved(e, sv)
    <2>1. (e.exec = 0 => e.marked = {}) /\ e.marked \subseteq e.completed \cup e.failed
      BY <1>1 DEF MarkSaved
    <2>2. (e.marked \cap e.completed) \ e.failed
             \subseteq (entry[u].marked \cap entry[u].completed) \ entry[u].failed
      BY <1>1 DEF MarkSaved
    <2> QED
      BY <1>1, <2>1, <2>2 DEF MarkSaved
  <1>3. CASE entry' = [entry EXCEPT ![u] = e] /\ snaps' = snaps
    BY <1>1, <1>2, <1>3, MarksKept DEF Inv, Typed
  <1>4. CASE /\ e.exec # 0 /\ entry' = [entry EXCEPT ![u] = Marked(e)]
             /\ snaps' = snaps \cup {MarshalSnapshot(e.exec, Deltas(e))}
    <2> DEFINE s == MarshalSnapshot(e.exec, Deltas(e))
    <2>1. s.exec = e.exec /\ s.deltas = Deltas(e)
      BY DEF MarshalSnapshot
    <2>2. \A t \in e.completed \ e.marked : <<t, "completed">> \in Deltas(e)
      BY DEF Deltas
    <2>3. /\ Marked(e).exec = e.exec /\ Marked(e).completed = e.completed
          /\ Marked(e).failed = e.failed
          /\ Marked(e).marked = e.marked \cup e.completed \cup e.failed
      BY DEF Marked, States
    <2>4. sv \subseteq (saved \cup snaps)' /\ s \in (saved \cup snaps)'
      BY <1>4
    <2> HIDE DEF s
    <2>5. MarkSaved(Marked(e), (saved \cup snaps)')
      <3>1. Marked(e).marked \subseteq Marked(e).completed \cup Marked(e).failed
        BY <1>2, <2>3 DEF MarkSaved
      <3>2. ASSUME NEW t \in (Marked(e).marked \cap Marked(e).completed) \ Marked(e).failed
            PROVE  \E x \in (saved \cup snaps)' :
                        x.exec = Marked(e).exec /\ <<t, "completed">> \in x.deltas
        <4>1. t \in e.completed /\ t \notin e.failed
          BY <2>3
        <4>2. CASE t \in e.marked
          BY <1>2, <2>3, <2>4, <4>1, <4>2 DEF MarkSaved
        <4>3. CASE t \notin e.marked
          BY <2>1, <2>2, <2>3, <2>4, <4>1, <4>3
        <4> QED
          BY <4>2, <4>3
      <3> QED
        BY <1>4, <2>3, <3>1, <3>2 DEF MarkSaved
    <2> HIDE DEF sv
    <2>6. \A v \in UUIDs : entry'[v] = entry[v] \/ entry'[v] = Marked(e)
      BY <1>4 DEF Inv, Typed
    <2> QED
      BY <1>1, <2>4, <2>5, <2>6, MarksKept DEF sv
  <1> QED
    BY <1>3, <1>4 DEF SnapshotRunningWorkflow

LEMMA MarksNext == Inv /\ LinksInv /\ MarksInv /\ Step => MarksInv'
  <1> SUFFICES ASSUME Inv, LinksInv, MarksInv, Step, faults' = 0 PROVE MarksInv'
    BY DEF MarksInv
  <1>0. faults = 0 /\ ~Fault /\ recovering = {} /\ FirstDefines
    BY FaultFree DEF LinksInv
  <1>1. ASSUME NEW u \in UUIDs, SubmitWorkflow(u), UNCHANGED <<saved, snaps>>
        PROVE  MarksInv'
    <2>1. \A v, sv : MarkSaved(NewState(v), sv)
      BY DEF NewState, MarkSaved
    <2>2. \A v \in UUIDs : entry'[v] = entry[v] \/ entry'[v] = NewState(v)
      BY <1>1, SubmitWorkflowEffect
    <2> QED
      BY <1>0, <1>1, <2>1, <2>2, MarksKept
  <1>2. ASSUME NEW u \in UUIDs, NEW e, NEW f, Ends(u, e, f) PROVE MarksInv'
    BY <1>0, <1>2, EndsEffect, MarksKept
  <1>3. ASSUME NEW u \in UUIDs, WorkflowStep(u) PROVE MarksInv'
    <2>1. CASE Submit(u)
      BY <1>1, <2>1 DEF Submit, mysql
    <2>2. CASE RetryWorkflow(u)
      <3>1. PICK id : id \in DOMAIN hist /\ SubmitWorkflow(hist[id])
        BY <2>2 DEF RetryWorkflow
      <3>2. hist[id] \in UUIDs
        BY <3>1 DEF Inv, Typed
      <3> QED
        BY <1>1, <2>2, <3>1, <3>2 DEF RetryWorkflow, mysql
    <2>3. CASE Define(u)
      BY <1>0, <2>3, MarksKept DEF Define, execVars
    <2>4. ASSUME NEW t, ClearFailedTask(u, t) PROVE MarksInv'
      <3>1. UNCHANGED <<saved, snaps>>
        BY <2>4, ClearEffect DEF ExecFrame, mysql
      <3>2. ASSUME NEW v \in UUIDs, entry'[v] # entry[v]
            PROVE  MarkSaved(entry'[v], saved \cup snaps)
        <4>1. /\ entry[v] # None /\ entry'[v].exec = entry[v].exec
              /\ entry'[v].marked = entry[v].marked \ {t}
              /\ entry'[v].completed = entry[v].completed
              /\ entry'[v].failed = entry[v].failed \ {t}
          BY <2>4, <3>2, ClearEffect
        <4>2. MarkSaved(entry[v], saved \cup snaps)
          BY <1>0, <4>1 DEF MarksInv
        <4> QED
          BY <4>1, <4>2 DEF MarkSaved
      <3> QED
        BY <1>0, <3>1, <3>2, MarksKept
    <2> QED
      BY <1>2, <1>3, <2>1, <2>2, <2>3, <2>4, PersistEnds DEF WorkflowStep
  <1>4. ASSUME NEW x \in execs, ExecutorStep(x) \/ TaskFailed(x) \/ TaskSkipped(x) PROVE MarksInv'
    <2>1. CASE TaskCompleted(x) \/ TaskFailed(x)
      <3>1. x.uuid \in UUIDs /\ entry[x.uuid] # None /\ UNCHANGED saved
        BY <2>1, TaskEffect DEF ExecFrame, mysql
      <3>2. PICK e \in States :
                /\ e.exec = entry[x.uuid].exec /\ e.marked = entry[x.uuid].marked
                /\ entry[x.uuid].completed \subseteq e.completed
                /\ entry[x.uuid].failed \subseteq e.failed
                /\ SnapshotRunningWorkflow(x.uuid, e)
        BY <2>1, TaskEffect
      <3> QED
        BY <1>0, <3>1, <3>2, MarksSnapshot
    <2>2. CASE ExecutorEnds(x)
      BY <1>0, <2>2, MarksKept DEF ExecutorEnds, ExecFrame, mysql
    <2> QED
      BY <1>2, <1>4, <2>1, <2>2, PersistEnds DEF ExecutorStep
  <1>5. CASE Evict
    BY <1>0, <1>5, MarksKept DEF Evict, mysql, execVars
  <1>6. ASSUME NEW r \in Runs, InitStep(r) PROVE MarksInv'
    <2>1. UNCHANGED <<saved, snaps>>
      BY <1>6 DEF InitStep, SaveWorkflowDef, SaveWorkflowDefDuplicate, InitFails, CopyState,
                  CreateExecution, LinkExecution, InitFrame
    <2>2. CASE SaveWorkflowDefDuplicate(r)
      BY <1>0, <2>1, <2>2, RunUUID, CleanupEffect, MarksKept DEF SaveWorkflowDefDuplicate
    <2>3. CASE LinkExecution(r)
      <3>1. ~ExecKnown(r[1]) /\ r[1] \in UUIDs
        BY <1>0, <2>3, RunUUID DEF FirstDefines, InitOver, LinkExecution
      <3>2. ASSUME NEW v \in UUIDs, entry'[v] # entry[v] PROVE \A sv : MarkSaved(entry'[v], sv)
        <4>1. v = r[1] /\ entry[v] # None /\ entry'[v].marked = entry[v].marked
          BY <2>3, <3>2, LinkEffect
        <4>2. entry[v].marked = {}
          BY <1>0, <3>1, <4>1 DEF MarksInv, MarkSaved, ExecKnown
        <4> QED
          BY <4>1, <4>2 DEF MarkSaved
      <3> QED
        BY <1>0, <2>1, <3>2, MarksKept
    <2>4. CASE SaveWorkflowDef(r) \/ CopyState(r) \/ CreateExecution(r)
      BY <1>0, <2>1, <2>4, MarksKept DEF SaveWorkflowDef, CopyState, CreateExecution
    <2> QED
      BY <1>0, <1>6, <2>2, <2>3, <2>4 DEF InitStep, InitFails
  <1>7. CASE WriterStep
    <2>1. UNCHANGED entry
      BY <1>7 DEF WriterStep, UpdateExecution, PersistLost, SaveTaskDeltas, SnapshotLost,
                  WriteFrame, execVars
    <2>2. saved \cup snaps \subseteq (saved \cup snaps)'
      BY <1>0, <1>7 DEF WriterStep, UpdateExecution, PersistLost, SaveTaskDeltas, SnapshotLost
    <2> QED
      BY <1>0, <2>1, <2>2, MarksKept
  <1> QED
    BY <1>0, <1>3, <1>4, <1>5, <1>6, <1>7 DEF Step, Restart

(***************************************************************************)
(* The theorems.                                                           *)
(***************************************************************************)
HistoryInv == Inv /\ LinksInv /\ RecordsInv /\ FreshInv /\ MarksInv

LEMMA HistoryInvInit == Init => HistoryInv
  <1> SUFFICES ASSUME Init PROVE HistoryInv
    OBVIOUS
  <1>1. Ids = {} /\ Idle.pc = "idle"
    BY DEF Init, Ids, Idle
  <1>2. LinksInv
    BY <1>1 DEF Init, LinksInv, FirstDefines, InitOver, ExecKnown
  <1>3. Len(<<>>) = 0 /\ <<>> \in Seq(Nat) /\ \A x : ~In(x, <<>>)
    BY DEF In
  <1>4. DOMAIN hist = {}
    BY DEF Init
  <1>5. RecordsInv
    BY <1>3, <1>4 DEF Init, RecordsInv, HistoryOK
  <1>6. FreshInv
    BY <1>1, <1>3 DEF Init, FreshInv, NotYetRecorded, ExecKnown
  <1>7. MarksInv
    BY DEF Init, MarksInv
  <1> QED
    BY <1>2, <1>5, <1>6, <1>7, InvInit DEF HistoryInv

LEMMA HistoryInvNext == HistoryInv /\ [Next]_vars => HistoryInv'
  <1> SUFFICES ASSUME HistoryInv, [Next]_vars PROVE HistoryInv'
    OBVIOUS
  <1>1. Inv'
    BY InvNext DEF HistoryInv
  <1>2. CASE Next
    BY <1>1, <1>2, LinksNext, RecordsNext, FreshNext, MarksNext DEF HistoryInv, Next
  <1>3. CASE UNCHANGED vars
    <2>1. UNCHANGED <<env, defs, rows, saved, entry, held, init, snaps, hist, byUUID, order, twice,
                      recovering, faults>>
      BY <1>3 DEF vars, mysql, execVars, histVars
    <2>2. LinksInv'
      BY <2>1 DEF HistoryInv, LinksInv, FirstDefines, InitOver, ExecKnown
    <2>3. RecordsInv'
      BY <2>1 DEF HistoryInv, RecordsInv
    <2>4. FreshInv'
      BY <2>1 DEF HistoryInv, FreshInv, NotYetRecorded, ExecKnown, Ids
    <2>5. MarksInv'
      BY <2>1 DEF HistoryInv, MarksInv
    <2> QED
      BY <1>1, <2>2, <2>3, <2>4, <2>5 DEF HistoryInv
  <1> QED
    BY <1>2, <1>3

\* The records, the list of each UUID and the order of the history agree, through
\* persist, retry, eviction and restart, on every id but those put there while they were
\* listed; and besides 0 there is none of those before a restart or lost call, unless two
\* goroutines persist one entry.
THEOREM RecoveryHistoryConsistent == Spec => []HistoryConsistent
  <1>1. ASSUME HistoryInv PROVE HistoryConsistent
    <2>1. \A s \in Seq(Nat) : \A x : x \in Range(s) => In(x, s) /\ x \in Nat
      BY LenProperties, ElementOfSeq DEF Range, In
    <2>2. \A s \in Seq(Nat) : \A x : In(x, s) => x \in Range(s)
      BY LenProperties DEF Range, In
    <2>3. /\ byUUID \in [UUIDs -> Seq(Nat)] /\ order \in Seq(Nat)
          /\ HistoryOK(hist, byUUID, order, twice)
      BY <1>1 DEF HistoryInv, RecordsInv, Inv, Typed
    <2>4. twice \subseteq {0} \/ faults > 0 \/ env.window
      <3>1. faults \in Nat
        BY <1>1, BoundsAssumption DEF HistoryInv, Inv, Typed
      <3> QED
        BY <1>1, <3>1 DEF HistoryInv, FreshInv, NotYetRecorded
    <2> QED
      BY <2>1, <2>2, <2>3, <2>4 DEF HistoryConsistent, HistoryOK
  <1> QED
    BY <1>1, HistoryInvInit, HistoryInvNext, PTL DEF Spec

\* As long as no write was lost, a task that is marked as snapshotted is in a
\* snapshot that is written or under way, with its latest outcome, also when it
\* failed and was retried.
THEOREM RecoveryMarkedIsSaved == Spec => []MarkedIsSaved
  <1>1. HistoryInv => MarkedIsSaved
    BY DEF HistoryInv, MarksInv, MarkSaved, MarkedIsSaved
  <1> QED
    BY <1>1, HistoryInvInit, HistoryInvNext, PTL DEF Spec

=============================================================================
