--------------------------- MODULE WorkerManager ---------------------------
(***************************************************************************)
(* How the master knows its workers: the heartbeat sender of every worker  *)
(* (infra/engine/runtime/heartbeat.go), the leased heartbeat keys in etcd, *)
(* the watch stream on them, and the one goroutine of the master that      *)
(* scans the keys once at start-up and then applies events and stale       *)
(* checks (infra/engine/scheduler/worker_manager.go).                      *)
(*                                                                         *)
(* Time is not measured.  A worker's last heartbeat is "fresh" or "old"    *)
(* (beyond heartbeat_stale) in the master's table, and a lease may run out *)
(* whenever no heartbeat has renewed it.  A heartbeat is "full" when it    *)
(* carries the task type definitions and "light" when it carries only      *)
(* their hash.                                                             *)
(***************************************************************************)
EXTENDS Integers, FiniteSets, Sequences

CONSTANTS Workers,    \* worker ids; a restarted worker keeps its configured id
          MaxFaults,  \* bound: starts, failed calls, lost events, delays, restarts
          MaxEvents   \* bound: events waiting in the watch channel (2048 in the code)

ASSUME WorkersAssumption == IsFiniteSet(Workers)
ASSUME BoundsAssumption == MaxFaults \in Nat /\ MaxEvents \in Nat \ {0}

VARIABLES
    running,     \* workers whose process runs
    sentFull,    \* running workers whose lastFullHash is their types' hash
    key,         \* heartbeat key of each worker in etcd: none, full or light
    stream,      \* events in the master's watch channel
    pc,          \* the master's goroutine: scan, unwatched, watching, blocked
    status,      \* wm.workers: absent, Alive or Dead
    age,         \* AliveAt of the entry, against the stale threshold
    aliveCount,  \* wm.aliveCount
    deadCount,   \* wm.deadCount
    hashes,      \* workers with an entry in wm.workerTypeHash
    registry,    \* workers whose task types are in wm.taskRegistry
    faults       \* faults so far

sender == <<running, sentFull>>
table == <<status, age, aliveCount, deadCount, hashes, registry>>
vars == <<sender, key, stream, pc, table, faults>>

Heartbeats == {"full", "light"}
Events == [type : {"put"}, worker : Workers, value : Heartbeats]
          \cup [type : {"delete"}, worker : Workers]

Listed(s) == {w \in Workers : status[w] = s}

Init == /\ running = {} /\ sentFull = {}
        /\ key = [w \in Workers |-> "none"]
        /\ stream = <<>>
        /\ pc = "scan"
        /\ status = [w \in Workers |-> "absent"]
        /\ age = [w \in Workers |-> "old"]
        /\ aliveCount = 0 /\ deadCount = 0
        /\ hashes = {} /\ registry = {}
        /\ faults = 0

(* The step is one of the faults, delays and restarts that are bounded. *)
Fault == faults < MaxFaults /\ faults' = faults + 1
NoFault == faults' = faults

(***************************************************************************)
(* etcd: every change of a heartbeat key reaches an open watch in order,   *)
(* unless the channel's buffer drops it (watchInternal).                   *)
(***************************************************************************)
Deliver(e) == IF pc = "watching"
              THEN Len(stream) < MaxEvents /\ stream' = Append(stream, e)
              ELSE UNCHANGED stream

Put(w, v) == /\ key' = [key EXCEPT ![w] = v]
             /\ Deliver([type |-> "put", worker |-> w, value |-> v])

Delete(w) == /\ key' = [key EXCEPT ![w] = "none"]
             /\ Deliver([type |-> "delete", worker |-> w])

(* The buffer was full when the last event came: it is dropped. *)
Drop == /\ stream # <<>>
        /\ Fault
        /\ stream' = SubSeq(stream, 1, Len(stream) - 1)
        /\ UNCHANGED <<sender, key, pc, table>>

(* The lease of a key is not renewed in time.  For a running worker that is a
   delay of three heartbeat intervals. *)
Expire(w) == /\ key[w] # "none"
             /\ IF w \in running THEN Fault ELSE NoFault
             /\ Delete(w)
             /\ UNCHANGED <<sender, pc, table>>

(***************************************************************************)
(* The worker: Start sends a full heartbeat at once, then one per tick,    *)
(* full again only when the types' hash is not the last one sent.          *)
(***************************************************************************)
Start(w) == /\ w \notin running
            /\ Fault
            /\ running' = running \cup {w}
            /\ UNCHANGED <<sentFull, key, stream, pc, table>>

(* What report sends; lastFullHash is set before the write is tried. *)
Payload(w) == IF w \in sentFull THEN "light" ELSE "full"

Report(w) == /\ w \in running
             /\ sentFull' = sentFull \cup {w}
             /\ Put(w, Payload(w))
             /\ NoFault
             /\ UNCHANGED <<running, pc, table>>

(* All heartbeatMaxRetries attempts failed.  (A report the open breaker
   refuses changes nothing here.) *)
ReportFails(w) == /\ w \in running
                  /\ Fault
                  /\ sentFull' = sentFull \cup {w}
                  /\ UNCHANGED <<running, key, stream, pc, table>>

(* The sender's context is cancelled: cleanup deletes the key. *)
Stop(w) == /\ w \in running
           /\ running' = running \ {w} /\ sentFull' = sentFull \ {w}
           /\ IF key[w] = "none" THEN UNCHANGED <<key, stream>> ELSE Delete(w)
           /\ NoFault
           /\ UNCHANGED <<pc, table>>

(* The process dies, or cleanup's delete fails: the key is left to its lease. *)
Crash(w) == /\ w \in running
            /\ running' = running \ {w} /\ sentFull' = sentFull \ {w}
            /\ NoFault
            /\ UNCHANGED <<key, stream, pc, table>>

(***************************************************************************)
(* The master's goroutine.                                                 *)
(***************************************************************************)
AddEntries(S) == /\ status' = [w \in Workers |-> IF w \in S THEN "Alive" ELSE status[w]]
                 /\ age' = [w \in Workers |-> IF w \in S THEN "fresh" ELSE age[w]]
                 /\ hashes' = hashes \cup S

(* scanExistingWorkers over keys without type definitions. *)
Scan == /\ pc = "scan"
        /\ \A w \in Workers : key[w] # "full"
        /\ AddEntries({w \in Workers : key[w] = "light"})
        /\ aliveCount' = Cardinality({w \in Workers : key[w] = "light"})
        /\ pc' = "unwatched"
        /\ UNCHANGED <<sender, key, stream, deadCount, registry, faults>>

(* A key with type definitions: RegisterTaskType locks wm.mu, which the scan
   holds, so the goroutine stops for good, after the keys listed before it. *)
ScanBlocks == /\ pc = "scan"
              /\ \E f \in {w \in Workers : key[w] = "full"},
                    before \in SUBSET {w \in Workers : key[w] = "light"} :
                     AddEntries(before \cup {f})
              /\ pc' = "blocked"
              /\ UNCHANGED <<sender, key, stream, aliveCount, deadCount, registry, faults>>

(* List failed: the master goes on with an empty table. *)
ScanFails == /\ pc = "scan"
             /\ Fault
             /\ pc' = "unwatched"
             /\ UNCHANGED <<sender, key, stream, table>>

(* Watch: from now on, without a new scan. *)
Watch == /\ pc = "unwatched"
         /\ pc' = "watching"
         /\ UNCHANGED <<sender, key, stream, table, faults>>

(* The channel is closed.  Its buffered events are still read first, so the
   loss is of what happens until the next Watch. *)
Disconnect == /\ pc = "watching" /\ stream = <<>>
              /\ Fault
              /\ pc' = "unwatched"
              /\ UNCHANGED <<sender, key, stream, table>>

(* A put event.  A Dead entry is revived without counting it as alive. *)
CountPut(w) == /\ aliveCount' = aliveCount + (IF status[w] = "absent" THEN 1 ELSE 0)
               /\ deadCount' = deadCount - (IF status[w] = "Dead" THEN 1 ELSE 0)

(* Mutant: the heartbeat of a Dead worker is ignored. *)
HandlePutNoRevival(e) ==
    /\ status' = [status EXCEPT ![e.worker] = IF @ = "absent" THEN "Alive" ELSE @]
    /\ aliveCount' = aliveCount + (IF status[e.worker] = "absent" THEN 1 ELSE 0)
    /\ UNCHANGED <<age, deadCount, hashes, registry>>

HandlePut(e) == /\ CountPut(e.worker)
                /\ AddEntries({e.worker})
                /\ registry' = IF e.worker \notin hashes /\ e.value = "full"
                               THEN registry \cup {e.worker} ELSE registry

(* Mutant: the departure is always taken off deadCount. *)
HandleDeleteDead(e) == /\ status' = [status EXCEPT ![e.worker] = "absent"]
                       /\ deadCount' = deadCount - 1
                       /\ UNCHANGED <<age, aliveCount, hashes, registry>>

HandleDelete(e) ==
    /\ status' = [status EXCEPT ![e.worker] = "absent"]
    /\ aliveCount' = aliveCount - (IF status[e.worker] = "Alive" THEN 1 ELSE 0)
    /\ deadCount' = deadCount - (IF status[e.worker] = "Dead" THEN 1 ELSE 0)
    /\ UNCHANGED <<age, hashes, registry>>

processHeartbeatEvent ==
    /\ pc = "watching" /\ stream # <<>>
    /\ stream' = Tail(stream)
    /\ LET e == Head(stream)
       IN  \/ e.type = "put" /\ HandlePut(e)
           \/ e.type = "delete" /\ HandleDelete(e)
    /\ UNCHANGED <<sender, key, pc, faults>>

(* Time passes: the entry's AliveAt falls behind heartbeat_stale. *)
GrowOld(w) == /\ status[w] # "absent" /\ age[w] = "fresh"
              /\ IF w \in running THEN Fault ELSE NoFault
              /\ age' = [age EXCEPT ![w] = "old"]
              /\ UNCHANGED <<sender, key, stream, pc, status, aliveCount, deadCount,
                             hashes, registry>>

(* Mutant: the comparison with the threshold is turned round. *)
StaleInverted == {w \in Listed("Alive") : age[w] = "fresh"}

(* staleIDs; both phases run in the only goroutine that writes the table. *)
Stale == {w \in Listed("Alive") : age[w] = "old"}

(* Mutant: a worker marked Dead is still counted as alive. *)
markStaleKeepsAlive ==
    /\ pc = "watching" /\ Stale # {}
    /\ status' = [w \in Workers |-> IF w \in Stale THEN "Dead" ELSE status[w]]
    /\ deadCount' = deadCount + Cardinality(Stale)
    /\ UNCHANGED <<sender, key, stream, pc, age, aliveCount, hashes, registry, faults>>

markStaleWorkers ==
    /\ pc = "watching" /\ Stale # {}
    /\ status' = [w \in Workers |-> IF w \in Stale THEN "Dead" ELSE status[w]]
    /\ aliveCount' = aliveCount - Cardinality(Stale)
    /\ deadCount' = deadCount + Cardinality(Stale)
    /\ UNCHANGED <<sender, key, stream, pc, age, hashes, registry, faults>>

(* The master process restarts with an empty table. *)
Restart == /\ pc # "scan"
           /\ Fault
           /\ pc' = "scan" /\ stream' = <<>>
           /\ status' = [w \in Workers |-> "absent"]
           /\ age' = [w \in Workers |-> "old"]
           /\ aliveCount' = 0 /\ deadCount' = 0
           /\ hashes' = {} /\ registry' = {}
           /\ UNCHANGED <<sender, key>>

WorkerStep(w) == \/ Start(w) \/ Report(w) \/ ReportFails(w) \/ Stop(w) \/ Crash(w)
                 \/ Expire(w) \/ GrowOld(w)

MasterStep == \/ Scan \/ ScanBlocks \/ ScanFails \/ Watch \/ Disconnect
              \/ processHeartbeatEvent \/ markStaleWorkers \/ Restart \/ Drop

Next == MasterStep \/ \E w \in Workers : WorkerStep(w)

(* A running worker keeps reporting whenever the channel has room, time passes,
   and the master's goroutine goes on.  Leases need not run out. *)
Fairness == /\ WF_vars(Scan \/ ScanBlocks) /\ WF_vars(Watch)
            /\ WF_vars(processHeartbeatEvent) /\ WF_vars(markStaleWorkers)
            /\ \A w \in Workers : /\ SF_vars(Report(w))
                                  /\ WF_vars(w \notin running /\ GrowOld(w))

Spec == Init /\ [][Next]_vars /\ Fairness
-----------------------------------------------------------------------------
TypeOK == /\ running \subseteq Workers /\ sentFull \subseteq running
          /\ key \in [Workers -> {"none", "full", "light"}]
          /\ stream \in Seq(Events) /\ Len(stream) <= MaxEvents
          /\ pc \in {"scan", "unwatched", "watching", "blocked"}
          /\ status \in [Workers -> {"absent", "Alive", "Dead"}]
          /\ age \in [Workers -> {"fresh", "old"}]
          /\ aliveCount \in Int /\ deadCount \in Nat
          /\ hashes \subseteq Workers /\ registry \subseteq hashes
          /\ faults \in 0..MaxFaults

(* The counters behind the backlog metrics never promise a worker that the
   table does not list: deadCount is the number of Dead entries and aliveCount
   at most the number of Alive ones, after any mix of heartbeats, departures,
   stale scans, lost events and restarts.  (It is less after a revival: the put
   branch of processHeartbeatEvents takes the worker off deadCount only.) *)
CountsAgree == /\ deadCount = Cardinality(Listed("Dead"))
               /\ aliveCount <= Cardinality(Listed("Alive"))

(* A worker that has gone for good is in the end not listed as Alive, whichever
   of its events was dropped or fell between two watches: markStaleWorkers makes
   up for a lost delete event.  The master must not be stuck in its scan. *)
DepartureNoticed ==
    \A w \in Workers :
        <>[](w \notin running /\ pc # "blocked") => <>[](status[w] # "Alive")

(* A worker that keeps running is listed as Alive again and again, also after
   its lease or its entry ran out and after a restart of the master. *)
RunningListed ==
    \A w \in Workers :
        <>[](w \in running /\ pc # "blocked") => []<>(status[w] = "Alive")

=============================================================================
