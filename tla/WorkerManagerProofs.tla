------------------------- MODULE WorkerManagerProofs -------------------------
(***************************************************************************)
(* Proofs about WorkerManager, for any finite set of workers and any       *)
(* bounds: the types, and that the counters agree with the worker table    *)
(* (CountsAgree).                                                          *)
(*                                                                         *)
(* The counters are kept beside the table and are changed by differences,  *)
(* except in Scan, which assigns aliveCount.  Scan is right only because   *)
(* the table is empty when it runs (ScanFirst).                            *)
(***************************************************************************)
EXTENDS WorkerManager, FiniteSetTheorems, SequenceTheorems, TLAPS

\* TypeOK without the claim that deadCount is not negative, which follows from
\* CountsAgree.
Typed == /\ running \subseteq Workers /\ sentFull \subseteq running
         /\ key \in [Workers -> {"none", "full", "light"}]
         /\ stream \in Seq(Events) /\ Len(stream) <= MaxEvents
         /\ pc \in {"scan", "unwatched", "watching", "blocked"}
         /\ status \in [Workers -> {"absent", "Alive", "Dead"}]
         /\ age \in [Workers -> {"fresh", "old"}]
         /\ aliveCount \in Int /\ deadCount \in Int
         /\ hashes \subseteq Workers /\ registry \subseteq hashes
         /\ faults \in 0..MaxFaults

\* The table is empty until the start-up scan is over.
ScanFirst == pc = "scan" => \A w \in Workers : status[w] = "absent"

Inv == Typed /\ ScanFirst /\ CountsAgree

(***************************************************************************)
(* The stream.                                                             *)
(***************************************************************************)
LEMMA DeliverTyped ==
    ASSUME Typed, NEW e \in Events, Deliver(e)
    PROVE  stream' \in Seq(Events) /\ Len(stream') <= MaxEvents
  <1>1. CASE pc = "watching"
    <2>1. stream' = Append(stream, e) /\ Len(stream) < MaxEvents
      BY <1>1 DEF Deliver
    <2>2. stream' \in Seq(Events) /\ Len(stream') = Len(stream) + 1
      BY <2>1, AppendProperties DEF Typed
    <2> QED
      BY <2>1, <2>2, BoundsAssumption DEF Typed
  <1>2. CASE pc # "watching"
    BY <1>2 DEF Deliver, Typed
  <1> QED
    BY <1>1, <1>2

LEMMA TailTyped ==
    ASSUME Typed, stream # <<>>
    PROVE  /\ Head(stream) \in Events
           /\ Tail(stream) \in Seq(Events) /\ Len(Tail(stream)) <= MaxEvents
  <1>1. /\ Head(stream) \in Events /\ Tail(stream) \in Seq(Events)
        /\ Len(Tail(stream)) = Len(stream) - 1
    BY HeadTailProperties DEF Typed
  <1> QED
    BY <1>1, BoundsAssumption DEF Typed

LEMMA DropTyped ==
    ASSUME Typed, stream # <<>>
    PROVE  LET s == SubSeq(stream, 1, Len(stream) - 1)
           IN  s \in Seq(Events) /\ Len(s) <= MaxEvents
  <1>1. Len(stream) \in Nat \ {0} /\ \A i \in 1..Len(stream) : stream[i] \in Events
    BY EmptySeq, ElementOfSeq DEF Typed
  <1>2. \A i \in 1..(Len(stream) - 1) : stream[i] \in Events
    BY <1>1
  <1>3. /\ SubSeq(stream, 1, Len(stream) - 1) \in Seq(Events)
        /\ Len(SubSeq(stream, 1, Len(stream) - 1))
             = IF 1 <= Len(stream) - 1 THEN Len(stream) - 1 - 1 + 1 ELSE 0
    BY <1>1, <1>2, SubSeqProperties
  <1> QED
    BY <1>1, <1>3, BoundsAssumption DEF Typed

LEMMA EventFields ==
    ASSUME NEW e \in Events
    PROVE  e.worker \in Workers
  BY DEF Events

(***************************************************************************)
(* The counters.                                                           *)
(***************************************************************************)
LEMMA ListedFinite ==
    ASSUME NEW s
    PROVE  IsFiniteSet(Listed(s)) /\ Cardinality(Listed(s)) \in Nat
  <1>1. IsFiniteSet(Listed(s))
    BY WorkersAssumption, FS_Subset DEF Listed
  <1> QED
    BY <1>1, FS_CardinalityType

LEMMA CountsKept ==
    ASSUME CountsAgree, UNCHANGED <<status, aliveCount, deadCount>>
    PROVE  CountsAgree'
  BY DEF CountsAgree, Listed

LEMMA CountsScan ==
    ASSUME Inv, pc = "scan", NEW S \in SUBSET Workers,
           status' = [w \in Workers |-> IF w \in S THEN "Alive" ELSE status[w]],
           deadCount' = deadCount, aliveCount' \in {aliveCount, Cardinality(S)}
    PROVE  CountsAgree'
  <1>1. Listed("Alive")' = S /\ Listed("Dead")' = {}
    BY DEF Inv, ScanFirst, Listed
  <1>2. Listed("Alive") = {} /\ Listed("Dead") = {}
    BY DEF Inv, ScanFirst, Listed
  <1>3. deadCount = 0 /\ aliveCount <= 0
    BY <1>2, FS_EmptySet DEF Inv, CountsAgree
  <1>4. Cardinality(S) \in Nat
    BY WorkersAssumption, FS_Subset, FS_CardinalityType
  <1>5. deadCount' = Cardinality(Listed("Dead")')
    BY <1>1, <1>3, FS_EmptySet
  <1>6. aliveCount' <= Cardinality(Listed("Alive")')
    BY <1>1, <1>3, <1>4 DEF Inv, Typed
  <1> QED
    BY <1>5, <1>6 DEF CountsAgree

LEMMA CountsPut ==
    ASSUME Inv, NEW e \in Events, HandlePut(e)
    PROVE  CountsAgree'
  <1> DEFINE w == e.worker
             A == Listed("Alive")
             D == Listed("Dead")
  <1>0. w \in Workers
    BY EventFields
  <1>1. /\ aliveCount' = aliveCount + (IF status[w] = "absent" THEN 1 ELSE 0)
        /\ deadCount' = deadCount - (IF status[w] = "Dead" THEN 1 ELSE 0)
        /\ status' = [v \in Workers |-> IF v \in {w} THEN "Alive" ELSE status[v]]
    BY DEF HandlePut, CountPut, AddEntries
  <1> HIDE DEF w
  <1>2. A' = A \cup {w} /\ D' = D \ {w}
    BY <1>0, <1>1 DEF Listed
  <1>3. Cardinality(A') = IF w \in A THEN Cardinality(A) ELSE Cardinality(A) + 1
    BY <1>2, ListedFinite, FS_AddElement
  <1>4. Cardinality(D') = IF w \in D THEN Cardinality(D) - 1 ELSE Cardinality(D)
    BY <1>2, ListedFinite, FS_RemoveElement
  <1>5. Cardinality(A) \in Nat /\ Cardinality(D) \in Nat
    BY ListedFinite
  <1>6. (w \in D <=> status[w] = "Dead") /\ (status[w] = "absent" => w \notin A)
    BY <1>0 DEF Listed
  <1>7. /\ deadCount = Cardinality(D) /\ aliveCount <= Cardinality(A)
        /\ aliveCount \in Int /\ deadCount \in Int
    BY DEF Inv, CountsAgree, Typed
  <1> HIDE DEF A, D
  <1>8. deadCount' = Cardinality(D')
    BY <1>1, <1>4, <1>6, <1>7
  <1>9. aliveCount' <= Cardinality(A')
    BY <1>1, <1>3, <1>5, <1>6, <1>7
  <1> QED
    BY <1>8, <1>9 DEF CountsAgree, A, D

LEMMA CountsDelete ==
    ASSUME Inv, NEW e \in Events, HandleDelete(e)
    PROVE  CountsAgree'
  <1> DEFINE w == e.worker
             A == Listed("Alive")
             D == Listed("Dead")
  <1>0. w \in Workers
    BY EventFields
  <1>1. /\ aliveCount' = aliveCount - (IF status[w] = "Alive" THEN 1 ELSE 0)
        /\ deadCount' = deadCount - (IF status[w] = "Dead" THEN 1 ELSE 0)
        /\ status' = [status EXCEPT ![w] = "absent"]
    BY DEF HandleDelete
  <1> HIDE DEF w
  <1>2. A' = A \ {w} /\ D' = D \ {w}
    BY <1>0, <1>1 DEF Listed, Inv, Typed
  <1>3. Cardinality(A') = IF w \in A THEN Cardinality(A) - 1 ELSE Cardinality(A)
    BY <1>2, ListedFinite, FS_RemoveElement
  <1>4. Cardinality(D') = IF w \in D THEN Cardinality(D) - 1 ELSE Cardinality(D)
    BY <1>2, ListedFinite, FS_RemoveElement
  <1>5. Cardinality(A) \in Nat /\ Cardinality(D) \in Nat
    BY ListedFinite
  <1>6. (w \in D <=> status[w] = "Dead") /\ (w \in A <=> status[w] = "Alive")
    BY <1>0 DEF Listed
  <1>7. /\ deadCount = Cardinality(D) /\ aliveCount <= Cardinality(A)
        /\ aliveCount \in Int /\ deadCount \in Int
    BY DEF Inv, CountsAgree, Typed
  <1> HIDE DEF A, D
  <1>8. deadCount' = Cardinality(D')
    BY <1>1, <1>4, <1>6, <1>7
  <1>9. aliveCount' <= Cardinality(A')
    BY <1>1, <1>3, <1>5, <1>6, <1>7
  <1> QED
    BY <1>8, <1>9 DEF CountsAgree, A, D

LEMMA CountsStale ==
    ASSUME Inv, markStaleWorkers
    PROVE  CountsAgree'
  <1> DEFINE A == Listed("Alive")
             D == Listed("Dead")
  <1>1. /\ status' = [w \in Workers |-> IF w \in Stale THEN "Dead" ELSE status[w]]
        /\ aliveCount' = aliveCount - Cardinality(Stale)
        /\ deadCount' = deadCount + Cardinality(Stale)
    BY DEF markStaleWorkers
  <1>2. Stale \subseteq A /\ A \cap D = {} /\ D \cap Stale = {} /\ A \cap Stale = Stale
    BY DEF Stale, Listed
  <1>3. A' = A \ Stale /\ D' = D \cup Stale
    BY <1>1, <1>2 DEF Listed, Stale
  <1>4. /\ IsFiniteSet(Stale) /\ Cardinality(Stale) \in Nat
        /\ IsFiniteSet(A) /\ Cardinality(A) \in Nat
        /\ IsFiniteSet(D) /\ Cardinality(D) \in Nat
    BY <1>2, ListedFinite, FS_Subset, FS_CardinalityType
  <1>5. /\ deadCount = Cardinality(D) /\ aliveCount <= Cardinality(A)
        /\ aliveCount \in Int /\ deadCount \in Int
    BY DEF Inv, CountsAgree, Typed
  <1> HIDE DEF A, D
  <1>6. Cardinality(A') = Cardinality(A) - Cardinality(Stale)
    BY <1>2, <1>3, <1>4, FS_Difference
  <1>7. Cardinality(D') = Cardinality(D) + Cardinality(Stale)
    <2>1. Cardinality(D \cap Stale) = 0
      BY <1>2, FS_EmptySet
    <2>2. Cardinality(D \cup Stale) = Cardinality(D) + Cardinality(Stale) - Cardinality(D \cap Stale)
      BY <1>4, FS_Union
    <2> QED
      BY <1>3, <1>4, <2>1, <2>2
  <1>8. deadCount' = Cardinality(D')
    BY <1>1, <1>5, <1>7
  <1>9. aliveCount' <= Cardinality(A')
    BY <1>1, <1>4, <1>5, <1>6
  <1> QED
    BY <1>8, <1>9 DEF CountsAgree, A, D

(***************************************************************************)
(* Every step keeps the invariant.                                         *)
(***************************************************************************)
LEMMA FaultTyped ==
    ASSUME faults \in 0..MaxFaults, Fault \/ NoFault \/ faults' = faults
    PROVE  faults' \in 0..MaxFaults
  BY BoundsAssumption DEF Fault, NoFault

\* A step of a worker leaves the counters and the status column alone.
LEMMA WorkerInv ==
    ASSUME Inv, NEW w \in Workers, WorkerStep(w)
    PROVE  Inv'
  <1>1. UNCHANGED <<status, aliveCount, deadCount, pc, hashes, registry>>
    BY DEF WorkerStep, Start, Report, ReportFails, Stop, Crash, Expire, GrowOld, table
  <1>2. faults' \in 0..MaxFaults
    BY FaultTyped DEF Inv, Typed, WorkerStep, Start, Report, ReportFails, Stop, Crash, Expire,
                      GrowOld
  <1>3. running' \subseteq Workers /\ sentFull' \subseteq running'
    BY DEF Inv, Typed, WorkerStep, Start, Report, ReportFails, Stop, Crash, Expire, GrowOld,
           sender
  <1>4. age' \in [Workers -> {"fresh", "old"}]
    BY DEF Inv, Typed, WorkerStep, Start, Report, ReportFails, Stop, Crash, Expire, GrowOld,
           table
  <1>5. \/ UNCHANGED <<key, stream>>
        \/ Delete(w)
        \/ \E v \in Heartbeats : Put(w, v)
    BY DEF WorkerStep, Start, Report, ReportFails, Stop, Crash, Expire, GrowOld, Payload,
           Heartbeats
  <1>6. /\ key' \in [Workers -> {"none", "full", "light"}]
        /\ stream' \in Seq(Events) /\ Len(stream') <= MaxEvents
    <2>1. CASE UNCHANGED <<key, stream>>
      BY <2>1 DEF Inv, Typed
    <2>2. CASE Delete(w)
      <3>1. [type |-> "delete", worker |-> w] \in Events
        BY DEF Events
      <3> QED
        BY <2>2, <3>1, DeliverTyped DEF Inv, Typed, Delete
    <2>3. ASSUME NEW v \in Heartbeats, Put(w, v)
          PROVE  /\ key' \in [Workers -> {"none", "full", "light"}]
                 /\ stream' \in Seq(Events) /\ Len(stream') <= MaxEvents
      <3>1. [type |-> "put", worker |-> w, value |-> v] \in Events
        BY DEF Events
      <3>2. stream' \in Seq(Events) /\ Len(stream') <= MaxEvents
        BY <2>3, <3>1, DeliverTyped DEF Inv, Put
      <3>3. key' \in [Workers -> {"none", "full", "light"}]
        BY <2>3 DEF Inv, Typed, Put, Heartbeats
      <3> QED
        BY <3>2, <3>3
    <2> QED
      BY <1>5, <2>1, <2>2, <2>3
  <1>7. Typed'
    BY <1>1, <1>2, <1>3, <1>4, <1>6 DEF Inv, Typed
  <1>8. ScanFirst' /\ CountsAgree'
    BY <1>1, CountsKept DEF Inv, ScanFirst
  <1> QED
    BY <1>7, <1>8 DEF Inv

\* Entries for the workers in S, as Scan, ScanBlocks and a put event make them.
LEMMA EntriesTyped ==
    ASSUME Typed, NEW S \in SUBSET Workers, AddEntries(S)
    PROVE  /\ status' \in [Workers -> {"absent", "Alive", "Dead"}]
           /\ age' \in [Workers -> {"fresh", "old"}]
           /\ hashes' \subseteq Workers /\ registry \subseteq hashes'
  BY DEF Typed, AddEntries

LEMMA CardinalityTyped ==
    ASSUME NEW S \in SUBSET Workers
    PROVE  Cardinality(S) \in Nat
  BY WorkersAssumption, FS_Subset, FS_CardinalityType

LEMMA ScanInv ==
    ASSUME Inv, Scan \/ ScanBlocks \/ ScanFails
    PROVE  Inv'
  <1> DEFINE Light == {w \in Workers : key[w] = "light"}
  <1>1. CASE Scan
    <2>1. AddEntries(Light) /\ aliveCount' = Cardinality(Light) /\ pc = "scan"
      BY <1>1 DEF Scan
    <2>2. Cardinality(Light) \in Nat
      BY CardinalityTyped
    <2>3. Typed'
      BY <1>1, <2>1, <2>2, EntriesTyped DEF Inv, Typed, Scan, sender
    <2>4. CountsAgree'
      BY <1>1, <2>1, CountsScan DEF Scan, AddEntries
    <2>5. ScanFirst'
      BY <1>1 DEF Scan, ScanFirst
    <2> QED
      BY <2>3, <2>4, <2>5 DEF Inv
  <1>2. CASE ScanBlocks
    <2>1. PICK S \in SUBSET Workers : AddEntries(S)
      BY <1>2 DEF ScanBlocks
    <2>2. Typed'
      BY <1>2, <2>1, EntriesTyped DEF Inv, Typed, ScanBlocks, sender
    <2>3. CountsAgree'
      BY <1>2, <2>1, CountsScan DEF ScanBlocks, AddEntries
    <2>4. ScanFirst'
      BY <1>2 DEF ScanBlocks, ScanFirst
    <2> QED
      BY <2>2, <2>3, <2>4 DEF Inv
  <1>3. CASE ScanFails
    <2>1. Typed'
      BY <1>3, FaultTyped DEF Inv, Typed, ScanFails, sender, table
    <2>2. CountsAgree'
      BY <1>3, CountsKept DEF Inv, ScanFails, table
    <2>3. ScanFirst'
      BY <1>3 DEF ScanFails, ScanFirst
    <2> QED
      BY <2>1, <2>2, <2>3 DEF Inv
  <1> QED
    BY <1>1, <1>2, <1>3

LEMMA EventInv ==
    ASSUME Inv, processHeartbeatEvent
    PROVE  Inv'
  <1> DEFINE e == Head(stream)
  <1>1. e \in Events /\ Tail(stream) \in Seq(Events) /\ Len(Tail(stream)) <= MaxEvents
    BY TailTyped DEF Inv, processHeartbeatEvent
  <1>2. e.worker \in Workers
    BY <1>1, EventFields
  <1>3. /\ pc = "watching" /\ pc' = pc /\ stream' = Tail(stream)
        /\ UNCHANGED <<running, sentFull, key, faults>>
        /\ HandlePut(e) \/ HandleDelete(e)
    BY DEF processHeartbeatEvent, sender
  <1> HIDE DEF e
  <1>4. CountsAgree'
    BY <1>1, <1>3, CountsPut, CountsDelete
  <1>5. ScanFirst'
    BY <1>3 DEF ScanFirst
  <1>6. CASE HandlePut(e)
    <2>1. aliveCount' \in Int /\ deadCount' \in Int
      BY <1>6 DEF HandlePut, CountPut, Inv, Typed
    <2>2. /\ status' \in [Workers -> {"absent", "Alive", "Dead"}]
          /\ age' \in [Workers -> {"fresh", "old"}]
          /\ hashes' \subseteq Workers /\ registry \subseteq hashes'
      BY <1>2, <1>6, EntriesTyped DEF HandlePut, Inv
    <2>3. registry' \subseteq hashes'
      BY <1>6, <2>2 DEF HandlePut, AddEntries
    <2>4. Typed'
      BY <1>1, <1>3, <2>1, <2>2, <2>3 DEF Inv, Typed
    <2> QED
      BY <1>4, <1>5, <2>4 DEF Inv
  <1>7. CASE HandleDelete(e)
    <2>1. Typed'
      BY <1>1, <1>2, <1>3, <1>7 DEF HandleDelete, Inv, Typed
    <2> QED
      BY <1>4, <1>5, <2>1 DEF Inv
  <1> QED
    BY <1>3, <1>6, <1>7

LEMMA StaleInv ==
    ASSUME Inv, markStaleWorkers
    PROVE  Inv'
  <1>1. Cardinality(Stale) \in Nat
    BY CardinalityTyped DEF Stale, Listed
  <1>2. Typed'
    BY <1>1 DEF Inv, Typed, markStaleWorkers, sender
  <1>3. ScanFirst'
    BY DEF markStaleWorkers, ScanFirst
  <1> QED
    BY <1>2, <1>3, CountsStale DEF Inv

LEMMA RestartInv ==
    ASSUME Inv, Restart
    PROVE  Inv'
  <1>1. stream' \in Seq(Events) /\ Len(stream') <= MaxEvents
    BY EmptySeq, BoundsAssumption DEF Restart
  <1>2. Typed'
    BY <1>1, FaultTyped DEF Inv, Typed, Restart, sender
  <1>3. ScanFirst'
    BY DEF Restart, ScanFirst
  <1>4. Listed("Alive")' = {} /\ Listed("Dead")' = {}
    BY DEF Restart, Listed
  <1>5. CountsAgree'
    <2>1. aliveCount' = 0 /\ deadCount' = 0
      BY DEF Restart
    <2>2. Cardinality(Listed("Alive")') = 0 /\ Cardinality(Listed("Dead")') = 0
      BY <1>4, FS_EmptySet
    <2> QED
      BY <2>1, <2>2 DEF CountsAgree
  <1> QED
    BY <1>2, <1>3, <1>5 DEF Inv

LEMMA StreamInv ==
    ASSUME Inv, Watch \/ Disconnect \/ Drop
    PROVE  Inv'
  <1>1. stream' \in Seq(Events) /\ Len(stream') <= MaxEvents
    BY DropTyped DEF Watch, Disconnect, Drop, Inv, Typed
  <1>2. faults' \in 0..MaxFaults
    BY FaultTyped DEF Watch, Disconnect, Drop, Inv, Typed
  <1>3. /\ pc' \in {"unwatched", "watching"} \/ pc' = pc
        /\ UNCHANGED <<sender, key, table>>
    BY DEF Watch, Disconnect, Drop
  <1>4. Typed'
    BY <1>1, <1>2, <1>3 DEF Inv, Typed, sender, table
  <1>5. ScanFirst' /\ CountsAgree'
    BY <1>3, CountsKept DEF Inv, ScanFirst, table
  <1> QED
    BY <1>4, <1>5 DEF Inv

LEMMA InvNext == Inv /\ [Next]_vars => Inv'
  <1> SUFFICES ASSUME Inv, [Next]_vars PROVE Inv'
    OBVIOUS
  <1>1. CASE Next
    BY <1>1, WorkerInv, ScanInv, EventInv, StaleInv, RestartInv, StreamInv
    DEF Next, MasterStep
  <1>2. CASE UNCHANGED vars
    BY <1>2, CountsKept DEF vars, sender, table, Inv, Typed, ScanFirst
  <1> QED
    BY <1>1, <1>2

LEMMA InvInit == Init => Inv
  <1> SUFFICES ASSUME Init PROVE Inv
    OBVIOUS
  <1>1. stream \in Seq(Events) /\ Len(stream) <= MaxEvents
    BY EmptySeq, BoundsAssumption DEF Init
  <1>2. Typed
    BY <1>1, BoundsAssumption DEF Init, Typed
  <1>3. Listed("Alive") = {} /\ Listed("Dead") = {}
    BY DEF Init, Listed
  <1>4. CountsAgree
    <2>1. aliveCount = 0 /\ deadCount = 0
      BY DEF Init
    <2>2. Cardinality(Listed("Alive")) = 0 /\ Cardinality(Listed("Dead")) = 0
      BY <1>3, FS_EmptySet
    <2> QED
      BY <2>1, <2>2 DEF CountsAgree
  <1> QED
    BY <1>2, <1>4 DEF Inv, ScanFirst, Init

\* deadCount is the number of workers listed as Dead, and aliveCount is at most
\* the number listed as Alive, for any workers, and however heartbeats,
\* departures, stale scans, lost events and restarts follow each other.
THEOREM WorkerCountsAgree == Spec => []CountsAgree
  <1>1. Inv => CountsAgree
    BY DEF Inv
  <1> QED
    BY <1>1, InvInit, InvNext, PTL DEF Spec

\* The types hold; in particular deadCount never becomes negative and task
\* types are registered only for workers whose hash is known.
THEOREM WorkerTyped == Spec => []TypeOK
  <1>1. Inv => TypeOK
    BY ListedFinite DEF Inv, Typed, CountsAgree, TypeOK
  <1> QED
    BY <1>1, InvInit, InvNext, PTL DEF Spec

=============================================================================
