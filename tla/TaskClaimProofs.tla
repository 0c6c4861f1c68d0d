--------------------------- MODULE TaskClaimProofs ---------------------------
(***************************************************************************)
(* Proofs about the claim of a task, for any number of workers and         *)
(* goroutines, any retry limits, and every etcd fault and crash the model  *)
(* has.                                                                    *)
(*                                                                         *)
(* The argument in CAS mode: the master's Put is the only write that       *)
(* leaves the key at revision 1, so a goroutine that read PENDING holds    *)
(* revision 1 as its expected revision, and the first write over it moves  *)
(* the revision past 1 for good.  Hence one tryAcquire at most can win,    *)
(* and nobody owns the task before revision 2.                             *)
(***************************************************************************)
EXTENDS TaskClaim, TLAPS

\* Retry counters stay below the loop they count.
RetriesBounded ==
    \A s \in Slots :
        /\ pc[s] \in {"read", "cas"} => tries[s] < AcquireRetries
        /\ pc[s] \in {"lock", "running", "final", "report"} => tries[s] < ReportRetries

\* The revision tells how far the key has come.
RevisionStage ==
    /\ key = "PENDING" => rev = 1
    /\ key \in {"RUNNING"} \cup Terminal => rev >= 2
    /\ \A s \in Slots : pc[s] = "cas" => seen[s] = 1

\* Nobody owns the task, or has run it, before the first write over PENDING.
OwnedLate ==
    rev <= 1 => runs = 0 /\ \A s \in Slots : s \notin Owning

\* In CAS mode no slot is at a label of the mutex path.
CASLabels == \A s \in Slots : pc[s] \notin {"lock", "running", "unlock"}

CASInv ==
    /\ TypeOK
    /\ RetriesBounded
    /\ RevisionStage
    /\ OwnedLate
    /\ CASLabels
    /\ RunOnce

-----------------------------------------------------------------------------

\* What a write leaves behind, in CAS mode.
LEMMA PutTyped ==
  ASSUME TypeOK, Mode = "CAS", NEW v \in Status, Put(v)
  PROVE  /\ key' = v
         /\ rev' = rev + 1 /\ rev' \in Nat
         /\ inbox' \in [Workers -> 0..InboxCap]
         /\ mailbox' \in 0..InboxCap
         /\ reports' \in 0..2
  BY BoundsAssumption DEF Put, Up, TypeOK, Status, Terminal

\* The same for a write whose caller gets an error: it happened or it did not.
LEMMA PutErrorTyped ==
  ASSUME TypeOK, Mode = "CAS", NEW v \in Status, NEW b, PutError(v, b)
  PROVE  /\ \/ key' = v /\ rev' = rev + 1 /\ b
            \/ key' = key /\ rev' = rev
         /\ key' \in Status \cup {"none"}
         /\ rev' \in Nat
         /\ inbox' \in [Workers -> 0..InboxCap]
         /\ mailbox' \in 0..InboxCap
         /\ reports' \in 0..2
  <1>1. CASE NoPut
    BY <1>1 DEF NoPut, TypeOK
  <1>2. CASE b /\ Put(v)
    BY <1>2, PutTyped
  <1>3. QED
    BY <1>1, <1>2 DEF PutError

\* The invariant holds initially.
LEMMA InitInv == Init => CASInv
  BY BoundsAssumption
  DEF Init, CASInv, TypeOK, RetriesBounded, RevisionStage, OwnedLate, CASLabels,
      RunOnce, Owning, Status, Terminal, Labels

\* Steps of the master and of the leases.
LEMMA MasterInv ==
  ASSUME CASInv, Mode = "CAS", UNCHANGED env,
         Push \/ Cleanup \/ IgnoreEvent \/ Expire \/ SessionExpire
  PROVE  CASInv'
  <1> USE DEF CASInv, RetriesBounded, RevisionStage, OwnedLate, CASLabels,
              RunOnce, Owning, slotVars
  <1>1. CASE Push
    <2>1. Put("PENDING") /\ "PENDING" \in Status /\ rev = 0
      BY <1>1 DEF Push, Status
    <2>2. key' = "PENDING" /\ rev' = 1
      BY <2>1, PutTyped
    <2>3. TypeOK'
      BY <1>1, <2>1, PutTyped DEF Push, TypeOK
    <2>4. QED
      BY <1>1, <2>1, <2>2, <2>3 DEF Push, Terminal, TypeOK
  <1>2. CASE Cleanup \/ IgnoreEvent
    <2>1. mailbox' \in 0..InboxCap
      BY <1>2, BoundsAssumption DEF Cleanup, IgnoreEvent, TypeOK
    <2>2. QED
      BY <1>2, <2>1 DEF Cleanup, IgnoreEvent, TypeOK, Terminal
  <1>3. CASE Expire
    BY <1>3 DEF Expire, TypeOK, Terminal
  <1>4. CASE SessionExpire
    BY <1>4 DEF SessionExpire, TypeOK
  <1>5. QED
    BY <1>1, <1>2, <1>3, <1>4

\* Steps of a slot that write nothing.
LEMMA QuietInv ==
  ASSUME CASInv, Mode = "CAS", UNCHANGED env, NEW s \in Slots,
         \/ Take(s) \/ Read(s) \/ AcquireConflict(s) \/ Run(s)
         \/ ReportRefused(s)
  PROVE  CASInv'
  <1> USE DEF CASInv, RetriesBounded, RevisionStage, OwnedLate, CASLabels,
              RunOnce, Owning, Goto, Leave, Again, NoPut
  <1>1. CASE Take(s)
    <2>1. inbox' \in [Workers -> 0..InboxCap]
      <3>1. Owner[s] \in Workers /\ inbox \in [Workers -> 0..InboxCap]
        BY OwnerAssumption DEF TypeOK
      <3>2. inbox[Owner[s]] - 1 \in 0..InboxCap
        BY <1>1, <3>1, BoundsAssumption DEF Take
      <3>3. inbox' = [inbox EXCEPT ![Owner[s]] = inbox[Owner[s]] - 1]
        BY <1>1 DEF Take
      <3>4. QED
        BY <3>1, <3>2, <3>3
    <2>2. pc' = [pc EXCEPT ![s] = "read"] /\ tries' = [tries EXCEPT ![s] = 0]
      BY <1>1 DEF Take
    <2>3. tries' \in [Slots -> 0..(AcquireRetries + ReportRetries)]
      BY <2>2, BoundsAssumption DEF TypeOK
    <2>4. TypeOK'
      BY <1>1, <2>1, <2>2, <2>3 DEF Take, TypeOK, Labels
    <2>5. RetriesBounded'
      BY <2>2, BoundsAssumption DEF TypeOK
    <2>6. QED
      BY <1>1, <2>2, <2>4, <2>5 DEF Take, TypeOK
  <1>2. CASE Read(s)
    BY <1>2 DEF Read, TypeOK, Labels
  <1>3. CASE AcquireConflict(s)
    BY <1>3, BoundsAssumption DEF AcquireConflict, TypeOK, Labels
  <1>4. CASE Run(s)
    BY <1>4, BoundsAssumption DEF Run, TypeOK, Labels
  <1>5. CASE ReportRefused(s)
    BY <1>5, BoundsAssumption DEF ReportRefused, AfterReport, TypeOK, Labels
  <1>6. QED
    BY <1>1, <1>2, <1>3, <1>4, <1>5

\* Steps of a slot that write, or try to write, to the key.
LEMMA WriteInv ==
  ASSUME CASInv, Mode = "CAS", UNCHANGED env, NEW s \in Slots,
         \/ Acquire(s) \/ AcquireError(s)
         \/ FinalOk(s) \/ FinalError(s) \/ ReportOk(s) \/ ReportError(s)
  PROVE  CASInv'
  <1> USE DEF CASInv, RetriesBounded, RevisionStage, OwnedLate, CASLabels,
              RunOnce, Owning, Goto, Leave, Again
  <1>0. /\ "RUNNING" \in Status
        /\ result[s] \in Status /\ result[s] \in Terminal
    BY DEF Status, TypeOK
  <1>1. CASE Acquire(s)
    <2>1. rev = 1 /\ runs = 0 /\ \A t \in Slots : t \notin Owning
      BY <1>1 DEF Acquire, Matches
    <2>2. key' = "RUNNING" /\ rev' = 2
      BY <1>0, <1>1, <2>1, PutTyped DEF Acquire
    <2>3. runs' = 1
      BY <1>1, <2>1 DEF Acquire, Up
    <2>4. TypeOK'
      <3>1. /\ inbox' \in [Workers -> 0..InboxCap]
            /\ mailbox' \in 0..InboxCap
            /\ reports' \in 0..2
        BY <1>0, <1>1, PutTyped DEF Acquire
      <3>2. QED
        BY <1>1, <2>2, <2>3, <3>1 DEF Acquire, TypeOK, Status, Labels
    <2>5. QED
      BY <1>1, <2>1, <2>2, <2>3, <2>4 DEF Acquire, Terminal, TypeOK
  <1>2. CASE AcquireError(s)
    <2>1. PutError("RUNNING", Matches(seen[s]))
      BY <1>2 DEF AcquireError
    <2>2. \/ key' = "RUNNING" /\ rev' = rev + 1 /\ Matches(seen[s])
          \/ key' = key /\ rev' = rev
      BY <1>0, <2>1, PutErrorTyped
    <2>3. TypeOK'
      <3>1. /\ key' \in Status \cup {"none"}
            /\ rev' \in Nat
            /\ inbox' \in [Workers -> 0..InboxCap]
            /\ mailbox' \in 0..InboxCap
            /\ reports' \in 0..2
        BY <1>0, <2>1, PutErrorTyped
      <3>2. QED
        BY <1>2, <3>1 DEF AcquireError, TypeOK, Labels
    <2>4. seen[s] = 1
      BY <1>2 DEF AcquireError
    <2>5. QED
      BY <1>2, <2>2, <2>3, <2>4 DEF AcquireError, Matches, Terminal, TypeOK
  <1>3. CASE FinalOk(s) \/ ReportOk(s)
    <2>1. Put(result[s]) /\ s \in Owning
      BY <1>3 DEF FinalOk, ReportOk
    <2>2. rev >= 2
      BY <2>1 DEF TypeOK
    <2>3. key' \in Terminal /\ rev' >= 2
      BY <1>0, <2>1, <2>2, PutTyped DEF TypeOK
    <2>4. TypeOK'
      <3>1. /\ key' \in Status
            /\ rev' \in Nat
            /\ inbox' \in [Workers -> 0..InboxCap]
            /\ mailbox' \in 0..InboxCap
            /\ reports' \in 0..2
        BY <1>0, <2>1, PutTyped
      <3>2. QED
        BY <1>3, <3>1, BoundsAssumption
        DEF FinalOk, ReportOk, AfterReport, TypeOK, Labels
    <2>5. QED
      BY <1>3, <2>2, <2>3, <2>4, BoundsAssumption
      DEF FinalOk, ReportOk, AfterReport, Terminal, TypeOK
  <1>4. CASE FinalError(s) \/ ReportError(s)
    <2>1. s \in Owning
      BY <1>4 DEF FinalError, ReportError
    <2>2. rev >= 2
      BY <2>1 DEF TypeOK
    <2>3. PutError(result[s], Matches(seen[s])) \/ PutError(result[s], TRUE)
      BY <1>4 DEF FinalError, ReportError
    <2>4. /\ (key' \in Terminal /\ rev' = rev + 1) \/ (key' = key /\ rev' = rev)
          /\ key' \in Status \cup {"none"}
          /\ rev' \in Nat
          /\ inbox' \in [Workers -> 0..InboxCap]
          /\ mailbox' \in 0..InboxCap
          /\ reports' \in 0..2
      BY <1>0, <2>3, PutErrorTyped
    <2>5. /\ \/ tries' = tries
             \/ tries' = [tries EXCEPT ![s] = 0]
             \/ tries' = [tries EXCEPT ![s] = @ + 1]
          /\ pc' = [pc EXCEPT ![s] = "idle"] \/ pc' = [pc EXCEPT ![s] = "report"]
          /\ tries'[s] < ReportRetries
          /\ UNCHANGED <<lock, seen, result, runs>>
      <3>1. CASE FinalError(s)
        BY <3>1 DEF FinalError, TypeOK
      <3>2. CASE ReportError(s)
        <4>1. /\ Again(s, ReportRetries, "report", "idle")
              /\ UNCHANGED <<lock, seen, result, runs>>
          BY <3>2 DEF ReportError, AfterReport
        <4>2. tries \in [Slots -> Nat]
          BY BoundsAssumption DEF TypeOK
        <4>3. QED
          BY <4>1, <4>2, BoundsAssumption
      <3>3. QED
        BY <1>4, <3>1, <3>2
    <2>6. tries' \in [Slots -> 0..(AcquireRetries + ReportRetries)]
      BY <2>5, BoundsAssumption DEF TypeOK
    <2>7. TypeOK'
      BY <2>4, <2>5, <2>6 DEF TypeOK, Labels
    <2>8. RetriesBounded'
      BY <2>5, <2>6 DEF TypeOK
    <2>9. QED
      BY <2>1, <2>2, <2>4, <2>5, <2>7, <2>8 DEF Terminal, TypeOK
  <1>5. QED
    BY <1>1, <1>2, <1>3, <1>4

\* A crash only takes slots away.
LEMMA CrashInv ==
  ASSUME CASInv, Mode = "CAS", UNCHANGED env, NEW w \in Workers, Crash(w)
  PROVE  CASInv'
  BY BoundsAssumption
  DEF Crash, CASInv, TypeOK, RetriesBounded, RevisionStage, OwnedLate, CASLabels,
      RunOnce, Owning, Labels

\* No slot takes a step of the mutex path.
LEMMA NoMutexStep ==
  ASSUME CASInv, NEW s \in Slots
  PROVE  ~(Lock(s) \/ ReportRunning(s) \/ ReportRunningError(s) \/ Unlock(s))
  BY DEF CASInv, CASLabels, Lock, ReportRunning, ReportRunningError, Unlock

\* Every step keeps the invariant.
LEMMA NextInv ==
  ASSUME CASInv, Mode = "CAS", [Next]_vars
  PROVE  CASInv'
  <1>1. CASE (Push \/ Cleanup \/ IgnoreEvent \/ Expire \/ SessionExpire) /\ UNCHANGED env
    BY <1>1, MasterInv
  <1>2. ASSUME NEW s \in Slots, Step(s), UNCHANGED env
        PROVE  CASInv'
    BY <1>2, QuietInv, WriteInv, NoMutexStep DEF Step
  <1>3. ASSUME NEW w \in Workers, Crash(w), UNCHANGED env
        PROVE  CASInv'
    BY <1>3, CrashInv
  <1>4. CASE UNCHANGED vars
    BY <1>4
    DEF vars, slotVars, CASInv, TypeOK, RetriesBounded, RevisionStage, OwnedLate,
        CASLabels, RunOnce, Owning
  <1>5. QED
    BY <1>1, <1>2, <1>3, <1>4 DEF Next

\* A behaviour stays in its environment.
LEMMA SameEnvironment ==
  ASSUME [Next]_vars
  PROVE  env' = env /\ Mode' = Mode /\ Faults' = Faults /\ NoEtcdErrors' = NoEtcdErrors
  BY DEF Next, vars, Mode, Faults, NoEtcdErrors

LEMMA CASInvariant == Spec => [](Mode = "CAS" => CASInv)
  <1>1. Init => (Mode = "CAS" => CASInv)
    BY InitInv
  <1>2. (Mode = "CAS" => CASInv) /\ [Next]_vars => (Mode = "CAS" => CASInv)'
    BY NextInv, SameEnvironment
  <1>3. QED
    BY <1>1, <1>2, PTL DEF Spec

-----------------------------------------------------------------------------

\* The business code of a task starts at most once, and one goroutine at most
\* owns it, in CAS mode: for any number of workers and goroutines, whatever
\* faults and crashes happen (tryAcquire).
THEOREM ClaimRunOnce == Spec => []CASRunOnce
  <1>1. (Mode = "CAS" => CASInv) => CASRunOnce
    BY DEF CASInv, CASRunOnce
  <1>2. QED
    BY <1>1, CASInvariant, PTL

-----------------------------------------------------------------------------
(***************************************************************************)
(* Mutex mode.                                                             *)
(***************************************************************************)

\* In Mutex mode no slot is at a label of the CAS path.
MutexLabels == \A s \in Slots : pc[s] \notin {"read", "cas", "final"}

\* Whoever is between Lock and Unlock is the holder.
HolderHasLock ==
    "session" \notin Faults => \A s \in Slots : pc[s] \in Holding => lock = s

MutexInv ==
    /\ TypeOK
    /\ RetriesBounded
    /\ MutexLabels
    /\ HolderHasLock

LEMMA InitMutexInv == Init => MutexInv
  BY BoundsAssumption
  DEF Init, MutexInv, TypeOK, RetriesBounded, MutexLabels, HolderHasLock,
      Status, Terminal, Labels, Holding

\* What a write, successful or not, leaves behind in Mutex mode.
LEMMA MutexPutTyped ==
  ASSUME TypeOK, Mode = "Mutex", NEW v \in Status, NEW b,
         Put(v) \/ NoPut \/ PutError(v, b)
  PROVE  /\ key' \in Status \cup {"none"}
         /\ rev' \in Nat
         /\ inbox' \in [Workers -> 0..InboxCap]
         /\ mailbox' \in 0..InboxCap
         /\ reports' \in 0..2
  <1>1. CASE Put(v)
    BY <1>1, BoundsAssumption DEF Put, Up, TypeOK, Status, Terminal
  <1>2. CASE NoPut
    BY <1>2 DEF NoPut, TypeOK
  <1>3. QED
    BY <1>1, <1>2 DEF PutError

\* A slot moves inside its path and keeps, takes or gives back the lock.
LEMMA MutexStep ==
  ASSUME MutexInv, Mode = "Mutex", UNCHANGED env, NEW s \in Slots, Step(s)
  PROVE  MutexInv'
  <1> USE DEF MutexInv, Goto, Leave, Again
  <1>0. /\ "RUNNING" \in Status /\ result[s] \in Status /\ Mode # "CAS"
        /\ Faults' = Faults
    BY DEF Status, TypeOK, Faults
  <1>1. CASE Take(s)
    <2>1. inbox' \in [Workers -> 0..InboxCap]
      <3>1. Owner[s] \in Workers /\ inbox \in [Workers -> 0..InboxCap]
        BY OwnerAssumption DEF TypeOK
      <3>2. inbox[Owner[s]] - 1 \in 0..InboxCap
        BY <1>1, <3>1, BoundsAssumption DEF Take
      <3>3. inbox' = [inbox EXCEPT ![Owner[s]] = inbox[Owner[s]] - 1]
        BY <1>1 DEF Take
      <3>4. QED
        BY <3>1, <3>2, <3>3
    <2>2. /\ pc' = [pc EXCEPT ![s] = "lock"] /\ tries' = [tries EXCEPT ![s] = 0]
          /\ UNCHANGED <<key, rev, mailbox, lock, seen, result, runs, reports>>
      BY <1>0, <1>1 DEF Take
    <2>3. tries' \in [Slots -> 0..(AcquireRetries + ReportRetries)]
      BY <2>2, BoundsAssumption DEF TypeOK
    <2>4. TypeOK'
      BY <2>1, <2>2, <2>3 DEF TypeOK, Labels
    <2>5. RetriesBounded'
      BY <2>2, BoundsAssumption DEF TypeOK, RetriesBounded
    <2>6. QED
      BY <1>0, <2>2, <2>4, <2>5 DEF TypeOK, MutexLabels, HolderHasLock, Holding
  <1>2. CASE Lock(s)
    <2>1. TypeOK'
      BY <1>2 DEF Lock, TypeOK, Labels
    <2>2. RetriesBounded' /\ MutexLabels'
      BY <1>2 DEF Lock, TypeOK, RetriesBounded, MutexLabels
    <2>3. HolderHasLock'
      BY <1>0, <1>2, SlotsAssumption DEF Lock, TypeOK, HolderHasLock, Holding
    <2>4. QED
      BY <2>1, <2>2, <2>3
  <1>3. CASE Unlock(s)
    <2>1. TypeOK'
      BY <1>3 DEF Unlock, TypeOK, Labels
    <2>2. RetriesBounded' /\ MutexLabels'
      BY <1>3 DEF Unlock, TypeOK, RetriesBounded, MutexLabels
    <2>3. HolderHasLock'
      BY <1>0, <1>3, SlotsAssumption DEF Unlock, TypeOK, HolderHasLock, Holding
    <2>4. QED
      BY <2>1, <2>2, <2>3
  <1>4. CASE Run(s)
    <2>1. /\ pc' = [pc EXCEPT ![s] = "report"] /\ tries' = [tries EXCEPT ![s] = 0]
          /\ result' \in [Slots -> Terminal]
          /\ UNCHANGED <<key, rev, inbox, mailbox, lock, seen, runs, reports>>
      BY <1>0, <1>4 DEF Run, TypeOK
    <2>2. tries' \in [Slots -> 0..(AcquireRetries + ReportRetries)]
      BY <2>1, BoundsAssumption DEF TypeOK
    <2>3. TypeOK'
      BY <2>1, <2>2 DEF TypeOK, Labels
    <2>4. RetriesBounded'
      BY <2>1, BoundsAssumption DEF TypeOK, RetriesBounded
    <2>5. HolderHasLock'
      BY <1>0, <1>4, <2>1 DEF Run, TypeOK, HolderHasLock, Holding
    <2>6. QED
      BY <2>1, <2>3, <2>4, <2>5 DEF TypeOK, MutexLabels
  <1>5. CASE \/ ReportRunning(s) \/ ReportRunningError(s)
             \/ ReportOk(s) \/ ReportError(s) \/ ReportRefused(s)
    <2>1. \E v \in Status, b \in BOOLEAN : Put(v) \/ NoPut \/ PutError(v, b)
      BY <1>0, <1>5 DEF ReportRunning, ReportRunningError, ReportOk, ReportError,
                        ReportRefused
    <2>2. /\ key' \in Status \cup {"none"}
          /\ rev' \in Nat
          /\ inbox' \in [Workers -> 0..InboxCap]
          /\ mailbox' \in 0..InboxCap
          /\ reports' \in 0..2
      BY <2>1, MutexPutTyped
    <2>3. /\ pc[s] \in Holding
          /\ \E l \in {"run", "unlock", "report", "running"} :
                pc' = [pc EXCEPT ![s] = l]
          /\ \/ tries' = [tries EXCEPT ![s] = 0]
             \/ tries' = [tries EXCEPT ![s] = @ + 1] /\ tries[s] + 1 < ReportRetries
          /\ UNCHANGED <<lock, seen, result>>
          /\ runs' = runs \/ runs' = Up(runs, 2)
      BY <1>0, <1>5 DEF ReportRunning, ReportRunningError, ReportOk, ReportError,
                        ReportRefused, AfterReport, Holding, TypeOK, RetriesBounded
    <2>4. tries' \in [Slots -> 0..(AcquireRetries + ReportRetries)]
      BY <2>3, BoundsAssumption DEF TypeOK
    <2>5. runs' \in 0..2
      BY <2>3 DEF TypeOK, Up
    <2>6. TypeOK'
      BY <2>2, <2>3, <2>4, <2>5 DEF TypeOK, Labels
    <2>7. RetriesBounded'
      <3>1. \A t \in Slots : t # s => pc'[t] = pc[t] /\ tries'[t] = tries[t]
        BY <2>3 DEF TypeOK
      <3>2. pc'[s] \notin {"read", "cas", "final"}
        BY <2>3 DEF TypeOK
      <3>3. tries'[s] < ReportRetries
        BY <2>3, BoundsAssumption DEF TypeOK
      <3>4. QED
        BY <3>1, <3>2, <3>3 DEF RetriesBounded
    <2>8. MutexLabels' /\ HolderHasLock'
      BY <1>0, <2>3 DEF TypeOK, MutexLabels, HolderHasLock, Holding
    <2>9. QED
      BY <2>6, <2>7, <2>8
  <1>6. ~(Read(s) \/ Acquire(s) \/ AcquireConflict(s) \/ AcquireError(s)
          \/ FinalOk(s) \/ FinalError(s))
    BY DEF MutexLabels, Read, Acquire, AcquireConflict, AcquireError, FinalOk, FinalError
  <1>7. QED
    BY <1>1, <1>2, <1>3, <1>4, <1>5, <1>6 DEF Step

\* Every step keeps the invariant of Mutex mode.
LEMMA MutexNext ==
  ASSUME MutexInv, Mode = "Mutex", [Next]_vars
  PROVE  MutexInv'
  <1> USE DEF MutexInv
  <1>0. env' = env /\ Faults' = Faults
    BY SameEnvironment
  <1>1. CASE Push
    <2>1. /\ key' \in Status \cup {"none"} /\ rev' \in Nat
          /\ inbox' \in [Workers -> 0..InboxCap] /\ mailbox' \in 0..InboxCap
          /\ reports' \in 0..2
      BY <1>1, MutexPutTyped DEF Push, Status
    <2>2. TypeOK'
      BY <1>0, <1>1, <2>1 DEF Push, slotVars, TypeOK
    <2>3. QED
      BY <1>0, <1>1, <2>2
      DEF Push, slotVars, RetriesBounded, MutexLabels, HolderHasLock
  <1>2. CASE Cleanup \/ IgnoreEvent
    <2>1. mailbox' \in 0..InboxCap
      BY <1>2, BoundsAssumption DEF Cleanup, IgnoreEvent, TypeOK
    <2>2. TypeOK'
      BY <1>0, <1>2, <2>1 DEF Cleanup, IgnoreEvent, slotVars, TypeOK
    <2>3. QED
      BY <1>0, <1>2, <2>2
      DEF Cleanup, IgnoreEvent, slotVars, RetriesBounded, MutexLabels, HolderHasLock
  <1>3. CASE Expire
    BY <1>0, <1>3
    DEF Expire, slotVars, TypeOK, RetriesBounded, MutexLabels, HolderHasLock
  <1>4. CASE SessionExpire
    BY <1>0, <1>4, SlotsAssumption
    DEF SessionExpire, slotVars, TypeOK, RetriesBounded, MutexLabels, HolderHasLock
  <1>5. ASSUME NEW s \in Slots, Step(s)
        PROVE  MutexInv'
    BY <1>0, <1>5, MutexStep
  <1>6. ASSUME NEW w \in Workers, Crash(w)
        PROVE  MutexInv'
    BY <1>0, <1>6, BoundsAssumption
    DEF Crash, TypeOK, Labels, RetriesBounded, MutexLabels, HolderHasLock, Holding
  <1>7. CASE UNCHANGED vars
    BY <1>0, <1>7
    DEF vars, slotVars, TypeOK, RetriesBounded, MutexLabels, HolderHasLock
  <1>8. QED
    BY <1>1, <1>2, <1>3, <1>4, <1>5, <1>6, <1>7 DEF Next

LEMMA MutexInvariant == Spec => [](Mode = "Mutex" => MutexInv)
  <1>1. Init => (Mode = "Mutex" => MutexInv)
    BY InitMutexInv
  <1>2. (Mode = "Mutex" => MutexInv) /\ [Next]_vars => (Mode = "Mutex" => MutexInv)'
    BY MutexNext, SameEnvironment
  <1>3. QED
    BY <1>1, <1>2, PTL DEF Spec

\* There is no third mode.
LEMMA TwoModes == Spec => [](Mode = "CAS" \/ Mode = "Mutex")
  <1>1. Init => (Mode = "CAS" \/ Mode = "Mutex")
    BY EnvironmentsAssumption DEF Init, Mode
  <1>2. (Mode = "CAS" \/ Mode = "Mutex") /\ [Next]_vars
            => (Mode = "CAS" \/ Mode = "Mutex")'
    BY SameEnvironment
  <1>3. QED
    BY <1>1, <1>2, PTL DEF Spec

\* The variables keep their types in both modes: in particular no retry loop of
\* tryAcquire or Report runs past its limit.
THEOREM ClaimTyped == Spec => []TypeOK
  <1>1. /\ Mode = "CAS" => CASInv
        /\ Mode = "Mutex" => MutexInv
        /\ Mode = "CAS" \/ Mode = "Mutex"
        => TypeOK
    BY DEF CASInv, MutexInv
  <1>2. QED
    BY <1>1, CASInvariant, MutexInvariant, TwoModes, PTL

\* Goroutines between Lock and Unlock (executeWithMutex) exclude each other, for
\* any number of workers, any crashes and etcd errors, as long as no session
\* expires under a live holder; in CAS mode the claim does the same.
THEOREM ClaimHoldersExclusive == Spec => []HoldersExclusive
  <1>1. (Mode = "CAS" => CASInv) /\ Mode = "CAS" => HoldersExclusive
    BY DEF CASInv, CASLabels, RunOnce, Owning, HoldersExclusive, Holding
  <1>2. (Mode = "Mutex" => MutexInv) /\ Mode = "Mutex" => HoldersExclusive
    BY DEF MutexInv, HolderHasLock, HoldersExclusive
  <1>3. QED
    BY <1>1, <1>2, CASInvariant, MutexInvariant, TwoModes, PTL

-----------------------------------------------------------------------------
(***************************************************************************)
(* The owner is undisturbed, and CAS mode implements TaskOnce.             *)
(***************************************************************************)

\* No terminal status is on its way to the master before one was written.
NoEarlyCleanup ==
    /\ rev <= 1 => mailbox = 0
    /\ key = "RUNNING" => mailbox = 0

UndisturbedInv == OwnerUndisturbed /\ NoEarlyCleanup

\* Every step keeps the owner's revision current, given that the claim is
\* exclusive.
LEMMA UndisturbedNext ==
  ASSUME CASInv, UndisturbedInv, Mode = "CAS", [Next]_vars
  PROVE  UndisturbedInv'
  <1> USE DEF CASInv, UndisturbedInv, OwnerUndisturbed, NoEarlyCleanup,
              RevisionStage, OwnedLate, RunOnce, Owning, Goto, Leave, Again
  <1>1. CASE Push
    BY <1>1 DEF Push, Put, slotVars, Terminal
  <1>2. CASE Cleanup \/ IgnoreEvent
    BY <1>2, BoundsAssumption DEF Cleanup, IgnoreEvent, slotVars, TypeOK
  <1>3. CASE Expire \/ SessionExpire
    BY <1>3 DEF Expire, SessionExpire, slotVars
  <1>4. ASSUME NEW s \in Slots, Acquire(s)
        PROVE  UndisturbedInv'
    <2>1. rev = 1 /\ mailbox = 0 /\ \A t \in Slots : t \notin Owning
      BY <1>4 DEF Acquire, Matches
    <2>2. key' = "RUNNING" /\ rev' = 2 /\ mailbox' = 0
      BY <1>4, <2>1 DEF Acquire, Put, Terminal
    <2>3. QED
      BY <1>4, <2>1, <2>2 DEF Acquire, TypeOK
  <1>5. ASSUME NEW s \in Slots, AcquireError(s)
        PROVE  UndisturbedInv'
    <2>1. CASE NoPut
      BY <1>5, <2>1 DEF AcquireError, NoPut, TypeOK
    <2>2. CASE Matches(seen[s]) /\ Put("RUNNING")
      <3>1. rev = 1 /\ mailbox = 0 /\ \A t \in Slots : t \notin Owning
        BY <1>5, <2>2 DEF AcquireError, Matches
      <3>2. rev' = 2 /\ mailbox' = 0
        BY <2>2, <3>1 DEF Put, Terminal
      <3>3. QED
        BY <1>5, <3>1, <3>2 DEF AcquireError, TypeOK
    <2>3. QED
      BY <1>5, <2>1, <2>2 DEF AcquireError, PutError
  <1>6. ASSUME NEW s \in Slots,
               FinalOk(s) \/ FinalError(s) \/ ReportOk(s) \/ ReportError(s)
        PROVE  UndisturbedInv'
    <2>0. s \in Owning
      BY <1>6 DEF FinalOk, FinalError, ReportOk, ReportError
    <2>1. rev >= 2
      BY <2>0 DEF TypeOK
    <2>2. \A t \in Slots : pc'[t] \notin {"run", "final"}
      <3>1. pc' = [pc EXCEPT ![s] = "idle"] \/ pc' = [pc EXCEPT ![s] = "report"]
        BY <1>6 DEF FinalOk, FinalError, ReportOk, ReportError, AfterReport
      <3>2. QED
        BY <2>0, <3>1 DEF TypeOK
    <2>3. rev' \in Nat /\ rev' >= 2 /\ (key' = "RUNNING" => mailbox' = 0)
      <3>1. rev \in Nat /\ result[s] # "RUNNING"
        BY DEF TypeOK, Terminal
      <3>2. CASE Put(result[s])
        BY <2>1, <3>1, <3>2 DEF Put
      <3>3. CASE NoPut
        BY <2>1, <3>1, <3>3 DEF NoPut
      <3>4. QED
        BY <1>6, <3>2, <3>3 DEF FinalOk, FinalError, ReportOk, ReportError, PutError
    <2>4. QED
      BY <2>2, <2>3
  <1>7. ASSUME NEW s \in Slots,
               \/ Take(s) \/ Read(s) \/ AcquireConflict(s) \/ Run(s)
               \/ ReportRefused(s)
        PROVE  UndisturbedInv'
    BY <1>7
    DEF Take, Read, AcquireConflict, Run, ReportRefused, AfterReport, NoPut, TypeOK
  <1>8. ASSUME NEW w \in Workers, Crash(w)
        PROVE  UndisturbedInv'
    BY <1>8 DEF Crash, TypeOK
  <1>9. CASE UNCHANGED vars
    BY <1>9 DEF vars, slotVars
  <1>10. QED
    BY <1>1, <1>2, <1>3, <1>4, <1>5, <1>6, <1>7, <1>8, <1>9, NoMutexStep
    DEF Next, Step

LEMMA UndisturbedInvariant == Spec => [](Mode = "CAS" => UndisturbedInv)
  <1>1. Init => (Mode = "CAS" => UndisturbedInv)
    BY DEF Init, UndisturbedInv, OwnerUndisturbed, NoEarlyCleanup
  <1>2. /\ Mode = "CAS" => CASInv
        /\ Mode = "CAS" => UndisturbedInv
        /\ [Next]_vars
        => (Mode = "CAS" => UndisturbedInv)'
    BY UndisturbedNext, SameEnvironment
  <1>3. QED
    BY <1>1, <1>2, CASInvariant, PTL DEF Spec

\* In CAS mode nobody writes or deletes a task's key between its owner's
\* tryAcquire and its final CASPut, so updateStatus meets no conflict.
THEOREM ClaimOwnerUndisturbed == Spec => []OwnerUndisturbed
  <1>1. (Mode = "CAS" => UndisturbedInv) => OwnerUndisturbed
    BY DEF UndisturbedInv, OwnerUndisturbed
  <1>2. QED
    BY <1>1, UndisturbedInvariant, PTL

\* What a step of CAS mode does to key, revision and start count.
CASEffect ==
    \/ key' = key /\ runs' = runs /\ rev' = rev
    \/ rev = 0 /\ rev' = 1 /\ key' = "PENDING" /\ runs' = runs
    \/ /\ key = "PENDING" /\ runs = 0 /\ rev = 1 /\ rev' = 2
       /\ key' = "RUNNING" /\ runs' \in {0, 1}
    \/ /\ runs = 1 /\ key' \in Terminal /\ runs' = runs
       /\ rev >= 2 /\ rev' = rev + 1
    \/ key \in {"PENDING"} \cup Terminal /\ key' = "none" /\ runs' = runs /\ rev' = rev

\* Owners have started the business code.
OwnersStarted == Owning # {} => runs = 1

\* Every step of CAS mode has one of these effects.
LEMMA CASStepEffect ==
  ASSUME CASInv, UndisturbedInv, OwnersStarted, Mode = "CAS", [Next]_vars
  PROVE  CASEffect
  <1> USE DEF CASInv, RevisionStage, OwnedLate
  <1>0. /\ rev \in Nat /\ runs \in 0..2 /\ runs <= 1
        /\ key \in Status \cup {"none"} /\ mailbox \in 0..InboxCap
    BY DEF TypeOK, RunOnce
  <1>1. CASE Push
    BY <1>0, <1>1 DEF Push, Put, CASEffect
  <1>2. CASE Cleanup
    <2>1. mailbox # 0
      BY <1>2 DEF Cleanup
    <2>2. rev > 1 /\ key # "RUNNING"
      BY <1>0, <2>1 DEF UndisturbedInv, NoEarlyCleanup
    <2>3. key \in {"none", "PENDING"} \cup Terminal
      BY <1>0, <2>2 DEF Status
    <2>4. QED
      BY <1>2, <2>3 DEF Cleanup, CASEffect
  <1>3. CASE IgnoreEvent \/ Expire \/ SessionExpire
    BY <1>3 DEF IgnoreEvent, Expire, SessionExpire, CASEffect
  <1>4. ASSUME NEW s \in Slots, Acquire(s) \/ AcquireError(s)
        PROVE  CASEffect
    <2>1. seen[s] = 1
      BY <1>4 DEF Acquire, AcquireError
    <2>2. CASE Matches(seen[s]) /\ Put("RUNNING")
      <3>1. key \in Status /\ rev = 1 /\ runs = 0
        BY <1>0, <2>1, <2>2 DEF Matches
      <3>2. key = "PENDING"
        BY <3>1 DEF Status
      <3>3. key' = "RUNNING" /\ rev' = 2
        BY <2>2, <3>1 DEF Put
      <3>4. runs' \in {0, 1}
        BY <1>4, <3>1 DEF Acquire, AcquireError, Up
      <3>5. QED
        BY <3>1, <3>2, <3>3, <3>4 DEF CASEffect
    <2>3. CASE NoPut
      <3>1. ~Acquire(s)
        BY <2>3, <2>1, <1>0 DEF Acquire, Put, NoPut
      <3>2. QED
        BY <1>4, <2>3, <3>1 DEF AcquireError, NoPut, CASEffect
    <2>4. QED
      BY <1>4, <2>2, <2>3 DEF Acquire, AcquireError, PutError
  <1>5. ASSUME NEW s \in Slots,
               FinalOk(s) \/ FinalError(s) \/ ReportOk(s) \/ ReportError(s)
        PROVE  CASEffect
    <2>1. s \in Owning
      BY <1>5 DEF FinalOk, FinalError, ReportOk, ReportError, Owning
    <2>2. runs = 1 /\ rev >= 2
      BY <1>0, <2>1 DEF OwnersStarted
    <2>3. runs' = runs /\ (Put(result[s]) \/ NoPut)
      BY <1>5 DEF FinalOk, FinalError, ReportOk, ReportError, PutError
    <2>4. result[s] \in Terminal
      BY DEF TypeOK
    <2>5. QED
      BY <2>2, <2>3, <2>4 DEF Put, NoPut, CASEffect
  <1>6. ASSUME NEW s \in Slots,
               \/ Take(s) \/ Read(s) \/ AcquireConflict(s) \/ Run(s)
               \/ ReportRefused(s)
        PROVE  CASEffect
    BY <1>6 DEF Take, Read, AcquireConflict, Run, ReportRefused, NoPut, CASEffect
  <1>7. ASSUME NEW w \in Workers, Crash(w)
        PROVE  CASEffect
    BY <1>7 DEF Crash, CASEffect
  <1>8. CASE UNCHANGED vars
    BY <1>8 DEF vars, CASEffect
  <1>9. QED
    BY <1>1, <1>2, <1>3, <1>4, <1>5, <1>6, <1>7, <1>8, NoMutexStep DEF Next, Step

\* A step of CAS mode leaves an owner only with a start on record.
LEMMA OwnersStartedNext ==
  ASSUME CASInv, UndisturbedInv, OwnersStarted, Mode = "CAS", [Next]_vars
  PROVE  OwnersStarted'
  <1>0. CASEffect /\ CASInv'
    BY CASStepEffect, NextInv
  <1>1. runs' >= runs /\ runs \in 0..2 /\ runs' \in 0..1
    BY <1>0 DEF CASEffect, CASInv, TypeOK, RunOnce
  <1>2. CASE Owning # {}
    BY <1>1, <1>2 DEF OwnersStarted
  <1>3. CASE Owning = {}
    <2> SUFFICES ASSUME NEW t \in Slots, t \in Owning'
                 PROVE  runs' = 1
      BY DEF OwnersStarted, Owning
    <2>1. pc[t] \notin {"run", "final", "report"}
          /\ pc'[t] \in {"run", "final", "report"}
      BY <1>3 DEF Owning
    <2>2. pc' # pc
      BY <2>1
    <2>3. ~(Push \/ Cleanup \/ IgnoreEvent \/ Expire \/ SessionExpire \/ UNCHANGED vars)
      BY <2>2 DEF Push, Cleanup, IgnoreEvent, Expire, SessionExpire, slotVars, vars
    <2>4. ASSUME NEW w \in Workers, Crash(w)
          PROVE  FALSE
      BY <2>1, <2>4 DEF Crash
    <2>5. PICK s \in Slots : Step(s)
      BY <2>3, <2>4 DEF Next
    <2>6. pc \in [Slots -> Labels]
      BY DEF CASInv, TypeOK
    <2>7. Acquire(s)
      BY <2>1, <2>5, <2>6, NoMutexStep
      DEF Step, Take, Read, AcquireConflict, AcquireError, Run, FinalOk, FinalError,
          ReportOk, ReportError, ReportRefused, Goto, Leave, Again, AfterReport
    <2>8. QED
      BY <1>1, <2>7 DEF Acquire, Up
  <1>4. QED
    BY <1>2, <1>3

LEMMA OwnersStartedInvariant == Spec => [](Mode = "CAS" => OwnersStarted)
  <1>1. Init => (Mode = "CAS" => OwnersStarted)
    BY DEF Init, OwnersStarted, Owning
  <1>2. /\ Mode = "CAS" => CASInv
        /\ Mode = "CAS" => UndisturbedInv
        /\ Mode = "CAS" => OwnersStarted
        /\ [Next]_vars
        => (Mode = "CAS" => OwnersStarted)'
    BY OwnersStartedNext, SameEnvironment
  <1>3. QED
    BY <1>1, <1>2, CASInvariant, UndisturbedInvariant, PTL DEF Spec

\* A step of TaskClaim is a step of the abstract task or leaves it alone.
LEMMA StepRefines ==
  ASSUME Mode = "CAS" => CASInv /\ UndisturbedInv /\ OwnersStarted,
         [Next]_vars
  PROVE  [Once!Next]_(Once!vars)
  <1>0. Mode' = Mode
    BY SameEnvironment
  <1>1. CASE Mode # "CAS"
    BY <1>0, <1>1 DEF Once!vars
  <1>2. CASE Mode = "CAS"
    <2>1. CASEffect /\ rev \in Nat
      BY <1>2, CASStepEffect DEF CASInv, TypeOK
    <2>2. CASE key' = key /\ runs' = runs /\ rev' = rev
      BY <1>0, <1>2, <2>2 DEF Once!vars
    <2>3. CASE rev = 0 /\ rev' = 1 /\ key' = "PENDING" /\ runs' = runs
      BY <1>0, <1>2, <2>3 DEF Once!Next, Once!Publish
    <2>4. CASE /\ key = "PENDING" /\ runs = 0 /\ rev = 1 /\ rev' = 2
               /\ key' = "RUNNING" /\ runs' \in {0, 1}
      BY <1>0, <1>2, <2>4 DEF Once!Next, Once!Start, Once!Strand
    <2>5. CASE /\ runs = 1 /\ key' \in Terminal /\ runs' = runs
               /\ rev >= 2 /\ rev' = rev + 1
      BY <1>0, <1>2, <2>1, <2>5 DEF Once!Next, Once!Finish, Once!Results, Terminal
    <2>6. CASE key \in {"PENDING"} \cup Terminal /\ key' = "none" /\ runs' = runs
               /\ rev' = rev
      BY <1>0, <1>2, <2>6 DEF Once!Next, Once!Remove, Once!Results, Terminal
    <2>7. QED
      BY <2>1, <2>2, <2>3, <2>4, <2>5, <2>6 DEF CASEffect
  <1>3. QED
    BY <1>1, <1>2

\* In CAS mode the claim protocol implements TaskOnce, for any number of workers
\* and goroutines and under every fault and crash of the model: one start at
\* most, from PENDING only, a result only after a start, no way back.
THEOREM ClaimImplementsTaskOnce == Spec => ImplementsTaskOnce
  <1>1. Init => Once!Init
    BY DEF Init, Once!Init
  <1>2. /\ Mode = "CAS" => CASInv
        /\ Mode = "CAS" => UndisturbedInv
        /\ Mode = "CAS" => OwnersStarted
        /\ [Next]_vars
        => [Once!Next]_(Once!vars)
    BY StepRefines
  <1>3. QED
    BY <1>1, <1>2, CASInvariant, UndisturbedInvariant, OwnersStartedInvariant, PTL
    DEF Spec, ImplementsTaskOnce, Once!Spec

-----------------------------------------------------------------------------

\* Without etcd errors: nobody falls back to Report, an owner has not reported
\* yet, and a report follows the first write over PENDING.
OneReport ==
    /\ reports <= 1
    /\ \A s \in Slots : pc[s] # "report"
    /\ Owning # {} => reports = 0
    /\ rev <= 1 => reports = 0

\* Every step of a CAS mode without etcd errors keeps it.
LEMMA OneReportNext ==
  ASSUME CASInv, OneReport, Mode = "CAS", NoEtcdErrors, [Next]_vars
  PROVE  OneReport'
  <1> USE DEF CASInv, OneReport, RevisionStage, OwnedLate, Owning, Goto, Leave, Again
  <1>0. rev \in Nat /\ reports \in 0..2 /\ pc \in [Slots -> Labels]
        /\ result \in [Slots -> Terminal]
    BY DEF TypeOK
  <1>1. CASE Push
    BY <1>0, <1>1 DEF Push, Put, slotVars, Terminal
  <1>2. CASE Cleanup \/ IgnoreEvent \/ Expire \/ SessionExpire
    BY <1>2 DEF Cleanup, IgnoreEvent, Expire, SessionExpire, slotVars
  <1>3. ASSUME NEW s \in Slots, Acquire(s)
        PROVE  OneReport'
    <2>1. rev = 1 /\ reports = 0
      BY <1>3 DEF Acquire, Matches
    <2>2. reports' = 0 /\ rev' = 2 /\ pc' = [pc EXCEPT ![s] = "run"]
      BY <1>3, <2>1 DEF Acquire, Put, Terminal
    <2>3. QED
      BY <1>0, <2>2
  <1>4. ASSUME NEW s \in Slots, FinalOk(s)
        PROVE  OneReport'
    <2>1. s \in Owning /\ reports = 0
      BY <1>4 DEF FinalOk
    <2>2. rev >= 2
      BY <1>0, <2>1
    <2>3. reports' = 1 /\ rev' >= 2 /\ pc' = [pc EXCEPT ![s] = "idle"]
      BY <1>0, <1>4, <2>1, <2>2 DEF FinalOk, Put, Up
    <2>4. Owning' = {} /\ \A t \in Slots : pc'[t] # "report"
      BY <1>0, <2>1, <2>3 DEF RunOnce
    <2>5. rev' \in Nat
      BY <1>0, <1>4 DEF FinalOk, Put
    <2>6. QED
      BY <2>3, <2>4, <2>5
  <1>5. ASSUME NEW s \in Slots,
               \/ AcquireError(s) \/ FinalError(s) \/ ReportOk(s) \/ ReportError(s)
               \/ ReportRefused(s)
        PROVE  FALSE
    BY <1>5
    DEF AcquireError, FinalError, ReportOk, ReportError, ReportRefused, PutError, NoEtcdErrors
  <1>6. ASSUME NEW s \in Slots,
               Take(s) \/ Read(s) \/ AcquireConflict(s) \/ Run(s)
        PROVE  OneReport'
    <2>1. UNCHANGED <<reports, rev>>
      BY <1>6 DEF Take, Read, AcquireConflict, Run, NoPut
    <2>2. /\ Owning' \subseteq Owning
          /\ \A t \in Slots : pc'[t] # "report"
      BY <1>0, <1>6 DEF Take, Read, AcquireConflict, Run
    <2>3. QED
      BY <2>1, <2>2
  <1>7. ASSUME NEW w \in Workers, Crash(w)
        PROVE  OneReport'
    BY <1>0, <1>7 DEF Crash
  <1>8. CASE UNCHANGED vars
    BY <1>8 DEF vars, slotVars
  <1>9. QED
    BY <1>1, <1>2, <1>3, <1>4, <1>5, <1>6, <1>7, <1>8, NoMutexStep DEF Next, Step

\* Without etcd errors the master sees one terminal status per task at most in
\* CAS mode, with any number of workers and also when they crash.
THEOREM ClaimReportedOnce == Spec => []ReportedOnce
  <1>1. Init => (Mode = "CAS" /\ NoEtcdErrors => OneReport)
    BY DEF Init, OneReport, Owning
  <1>2. /\ Mode = "CAS" => CASInv
        /\ Mode = "CAS" /\ NoEtcdErrors => OneReport
        /\ [Next]_vars
        => (Mode = "CAS" /\ NoEtcdErrors => OneReport)'
    BY OneReportNext, SameEnvironment
  <1>3. (Mode = "CAS" /\ NoEtcdErrors => OneReport) => ReportedOnce
    BY DEF OneReport, ReportedOnce
  <1>4. QED
    BY <1>1, <1>2, <1>3, CASInvariant, PTL DEF Spec

=============================================================================
