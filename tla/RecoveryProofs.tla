--------------------------- MODULE RecoveryProofs ---------------------------
(***************************************************************************)
(* Proofs about Recovery, for any UUIDs, groups, submissions, cache size   *)
(* and faults: the types, that no executor is ahead of the work            *)
(* (NeverSkips), and that what MySQL calls COMPLETED was (CompletedInFact).*)
(*                                                                         *)
(* The argument.  A state of a run travels: from the entry of its UUID to  *)
(* asyncInitMySQL's copy, to a row, and back into an entry after a         *)
(* restart, or into a persist job and from there to the row its            *)
(* ExecutionID names; an ended one stays with whoever waits for its lock.  *)
(* Wherever it is, it is sound: its completed tasks were completed for its *)
(* UUID, all of them if it is COMPLETED, and the row it names is one of    *)
(* its UUID.  An executor moves on with what it has done, so it does not   *)
(* matter whose entry it finds.                                            *)
(***************************************************************************)
EXTENDS Recovery, FiniteSetTheorems, SequenceTheorems, TLAPS

Rows == [uuid : UUIDs, status : Statuses, data : States]
Inits == [pc : {"idle", "define", "copy", "create", "link"}, id : Nat,
          copied : States \cup {None}]
Jobs == [exec : Nat, status : Statuses, data : States]
Executors == [uuid : UUIDs, start : {"submit", "recover"} \X Nat, at : Nat]

Typed ==
    /\ env \in Environments
    /\ defs \subseteq UUIDs
    /\ rows \in Seq(Rows)
    /\ saved \subseteq Snapshots /\ snaps \subseteq Snapshots
    /\ entry \in [UUIDs -> States \cup {None}]
    /\ held \subseteq States
    /\ execs \subseteq Executors /\ \A x \in execs : x.at \in 1..Groups[x.uuid] + 1
    /\ retrying \subseteq UUIDs \X Tasks /\ \A p \in retrying : p[2] \in All(p[1])
    /\ init \in [Runs -> Inits]
    /\ jobs \subseteq Jobs
    /\ \A i \in DOMAIN hist : hist[i] \in UUIDs
    /\ order \in Seq(Nat) /\ evicting \in Nat /\ Len(order) <= MaxCache + evicting
    /\ recovering \subseteq Ids
    /\ submits \in [UUIDs -> 0..MaxSubmits]
    /\ done \in [UUIDs -> SUBSET Tasks]
    /\ faults \in 0..MaxFaults

\* The state e of a run of u, when the rows are rs and dn was completed.
Sound(e, u, rs, dn) ==
    /\ e.uuid = u
    /\ e.completed \subseteq dn[u]
    /\ e.exec = 0 \/ (e.exec \in DOMAIN rs /\ rs[e.exec].uuid = u)
    /\ e.status = "COMPLETED" => dn[u] = All(u)

RowSound(row, rs, dn) ==
    /\ Sound(row.data, row.uuid, rs, dn)
    /\ row.status = "COMPLETED" => dn[row.uuid] = All(row.uuid)

JobSound(job, rs, dn) ==
    /\ job.exec = job.data.exec /\ job.status = job.data.status
    /\ Sound(job.data, job.data.uuid, rs, dn)

InitSound(i, u, rs, dn) ==
    /\ i.pc = "create" => i.copied \in States /\ Sound(i.copied, u, rs, dn)
    /\ i.pc = "link" => i.id \in DOMAIN rs /\ rs[i.id].uuid = u

ExecSound(x, dn) == 1..x.at - 1 \subseteq dn[x.uuid]

EntriesSound == \A u \in UUIDs : entry[u] # None => Sound(entry[u], u, rows, done)
HeldSound == \A h \in held : Sound(h, h.uuid, rows, done)
ExecsSound == \A x \in execs : ExecSound(x, done)
RowsSound == \A i \in Ids : RowSound(rows[i], rows, done)
JobsSound == \A job \in jobs : JobSound(job, rows, done)
InitsSound == \A r \in Runs : InitSound(init[r], r[1], rows, done)

\* What is completed for a UUID are tasks of its workflow.
DoneOwn == \A u \in UUIDs : done[u] \subseteq All(u)

Sounds == /\ EntriesSound /\ HeldSound /\ ExecsSound /\ RowsSound /\ JobsSound
          /\ InitsSound /\ DoneOwn

Inv == Typed /\ Sounds

(***************************************************************************)
(* Least elements, by way of the intervals below them.                     *)
(***************************************************************************)
LEMMA LeastNatural ==
    ASSUME NEW A \in SUBSET Nat, A # {}
    PROVE  \E a \in A : \A b \in A : a <= b
  <1>1. PICK n \in A : TRUE
    OBVIOUS
  <1> DEFINE S == 0..n
             T == {X \in SUBSET S : \E k \in A : k <= n /\ X = 0..k}
  <1>2. IsFiniteSet(S)
    BY FS_Interval
  <1>3. IsWellFoundedOn(StrictSubsetOrdering(S), FiniteSubsetsOf(S))
    BY <1>2, FS_StrictSubsetOrderingWellFounded
  <1>4. T \subseteq FiniteSubsetsOf(S)
    BY <1>2, FS_Subset DEF FiniteSubsetsOf
  <1>5. T # {}
    BY <1>1
  <1>6. PICK X \in T : \A Y \in T : ~(<<Y, X>> \in StrictSubsetOrdering(S))
    BY <1>3, <1>4, <1>5, WFMin
  <1>7. PICK k \in A : k <= n /\ X = 0..k
    BY <1>6
  <1>8. ASSUME NEW b \in A, b < k PROVE FALSE
    <2>1. 0..b \in T
      BY <1>7, <1>8
    <2>2. 0..b \subseteq X /\ 0..b # X
      BY <1>7, <1>8
    <2> QED
      BY <1>6, <2>1, <2>2 DEF StrictSubsetOrdering
  <1> QED
    BY <1>7, <1>8

\* The group recoverSingleWorkflow starts with: all before it are completed.
LEMMA StartGroupFirst ==
    ASSUME Typed, NEW u \in UUIDs, NEW C \in SUBSET All(u)
    PROVE  /\ StartGroup(u, C) \in 1..Groups[u] + 1
           /\ 1..StartGroup(u, C) - 1 \subseteq C
  <1>1. Groups[u] \in Nat \ {0}
    BY EnvironmentsAssumption DEF Typed, Groups
  <1> DEFINE A == (1..Groups[u] + 1) \ C
  <1>2. Groups[u] + 1 \in A
    BY <1>1 DEF All
  <1>3. PICK a \in A : \A b \in A : a <= b
    <2>1. A \subseteq Nat /\ A # {}
      BY <1>1, <1>2
    <2> HIDE DEF A
    <2> QED
      BY <2>1, LeastNatural
  <1>4. 1..a - 1 \subseteq C
    BY <1>1, <1>3
  <1> QED
    BY <1>3, <1>4 DEF StartGroup

(***************************************************************************)
(* RemoveFirst.                                                            *)
(***************************************************************************)
LEMMA MinIsLeast ==
    ASSUME NEW A \in SUBSET Nat, A # {}
    PROVE  Min(A) \in A
  BY LeastNatural DEF Min

\* t is s without its k-th element.
Without(t, s, k) == /\ Len(t) = Len(s) - 1
                    /\ \A i \in 1..k - 1 : t[i] = s[i]
                    /\ \A i \in k..Len(s) - 1 : t[i] = s[i + 1]

LEMMA RemoveFirstShifts ==
    ASSUME NEW S, NEW s \in Seq(S), NEW e, \E i \in 1..Len(s) : s[i] = e
    PROVE  /\ RemoveFirst(s, e) \in Seq(S)
           /\ \E k \in 1..Len(s) : s[k] = e /\ Without(RemoveFirst(s, e), s, k)
  <1> DEFINE A == {i \in 1..Len(s) : s[i] = e}
             k == Min(A)
             a == SubSeq(s, 1, k - 1)
             b == SubSeq(s, k + 1, Len(s))
  <1>1. A \subseteq Nat /\ A # {}
    OBVIOUS
  <1>2. k \in A
    BY <1>1, MinIsLeast
  <1>3. RemoveFirst(s, e) = a \o b
    BY <1>1 DEF RemoveFirst, SelectInSeq, RemoveAt
  <1> HIDE DEF A, k
  <1>4. k \in 1..Len(s) /\ s[k] = e /\ Len(s) \in Nat
    BY <1>2 DEF A
  <1>5. /\ a \in Seq(S) /\ Len(a) = k - 1
        /\ \A i \in 1..k - 1 : a[i] = s[i]
    <2>1. \A i \in 1..k - 1 : s[i] \in S
      BY <1>4, ElementOfSeq
    <2>2. /\ a \in Seq(S) /\ Len(a) = IF 1 <= k - 1 THEN (k - 1) - 1 + 1 ELSE 0
          /\ \A i \in 1..(k - 1) - 1 + 1 : a[i] = s[1 + i - 1]
      BY <1>4, <2>1, SubSeqProperties
    <2> QED
      BY <1>4, <2>2
  <1>6. /\ b \in Seq(S) /\ Len(b) = Len(s) - k
        /\ \A i \in 1..Len(s) - k : b[i] = s[k + i]
    <2>1. \A i \in k + 1..Len(s) : s[i] \in S
      BY <1>4, ElementOfSeq
    <2>2. /\ b \in Seq(S) /\ Len(b) = IF k + 1 <= Len(s) THEN Len(s) - (k + 1) + 1 ELSE 0
          /\ \A i \in 1..Len(s) - (k + 1) + 1 : b[i] = s[(k + 1) + i - 1]
      BY <1>4, <2>1, SubSeqProperties
    <2> QED
      BY <1>4, <2>2
  <1> HIDE DEF a, b
  <1> DEFINE c == a \o b
  <1>7. /\ c \in Seq(S) /\ Len(c) = Len(a) + Len(b)
        /\ \A i \in 1..Len(a) + Len(b) : c[i] = IF i <= Len(a) THEN a[i] ELSE b[i - Len(a)]
    BY <1>5, <1>6, ConcatProperties
  <1>8. RemoveFirst(s, e) = c
    BY <1>3
  <1> HIDE DEF c
  <1>9. Len(c) = Len(s) - 1
    BY <1>4, <1>5, <1>6, <1>7
  <1>10. \A i \in 1..k - 1 : c[i] = s[i]
    <2> TAKE i \in 1..k - 1
    <2>1. i \in 1..Len(a) + Len(b) /\ i <= Len(a)
      BY <1>4, <1>5, <1>6
    <2> QED
      BY <1>5, <1>7, <2>1
  <1>11. \A i \in k..Len(s) - 1 : c[i] = s[i + 1]
    <2> TAKE i \in k..Len(s) - 1
    <2>1. i \in 1..Len(a) + Len(b) /\ ~(i <= Len(a))
      BY <1>4, <1>5, <1>6
    <2>2. c[i] = b[i - (k - 1)]
      BY <1>5, <1>7, <2>1
    <2>3. i - (k - 1) \in 1..Len(s) - k /\ k + (i - (k - 1)) = i + 1
      BY <1>4
    <2>4. b[i - (k - 1)] = s[k + (i - (k - 1))]
      BY <1>6, <2>3
    <2> QED
      BY <2>2, <2>3, <2>4
  <1>12. Without(c, s, k)
    BY <1>9, <1>10, <1>11 DEF Without
  <1> QED
    BY <1>4, <1>7, <1>8, <1>12

LEMMA RemoveFirstTyped ==
    ASSUME NEW S, NEW s \in Seq(S), NEW e
    PROVE  RemoveFirst(s, e) \in Seq(S) /\ Len(RemoveFirst(s, e)) <= Len(s)
  <1>1. CASE \E i \in 1..Len(s) : s[i] = e
    BY <1>1, RemoveFirstShifts, LenProperties DEF Without
  <1>2. CASE ~\E i \in 1..Len(s) : s[i] = e
    BY <1>2 DEF RemoveFirst
  <1> QED
    BY <1>1, <1>2

(***************************************************************************)
(* No step takes a row away or forgets what was completed, so what is      *)
(* sound stays so; a step has to answer only for what it makes.            *)
(***************************************************************************)
Grows == /\ \A i \in Ids : i \in Ids' /\ rows'[i].uuid = rows[i].uuid
         /\ \A u \in UUIDs : done[u] \subseteq done'[u] /\ done'[u] \subseteq All(u)

LEMMA EnvFixed ==
    ASSUME env' = env
    PROVE  /\ Groups' = Groups /\ Tasks' = Tasks /\ States' = States /\ Rows' = Rows
           /\ Inits' = Inits /\ Jobs' = Jobs /\ Snapshots' = Snapshots
           /\ \A u : All(u)' = All(u)
  <1>1. Groups' = Groups /\ Tasks' = Tasks
    BY DEF Groups, Tasks
  <1>2. States' = States /\ Snapshots' = Snapshots
    BY <1>1 DEF States, Snapshots
  <1> QED
    BY <1>1, <1>2 DEF Rows, Inits, Jobs, All

LEMMA GroupsTyped ==
    ASSUME Typed
    PROVE  /\ \A u \in UUIDs : Groups[u] \in Nat \ {0} /\ env.submits[u] \in 0..MaxSubmits
           /\ env.faults \in 0..MaxFaults
           /\ \A u \in UUIDs : All(u) \subseteq Tasks
  BY EnvironmentsAssumption DEF Typed, Groups, All, Tasks

LEMMA StillSound ==
    ASSUME Grows, NEW u \in UUIDs, NEW e, Sound(e, u, rows, done)
    PROVE  Sound(e, u, rows', done')
  BY DEF Grows, Sound, Ids

LEMMA NothingLost ==
    ASSUME Sounds, UNCHANGED <<rows, done>>
    PROVE  Grows
  BY DEF Grows, Sounds, DoneOwn, Ids

LEMMA RunUUID == \A r \in Runs : r[1] \in UUIDs
  BY DEF Runs

LEMMA IdsTyped ==
    ASSUME Typed
    PROVE  Len(rows) \in Nat /\ Ids = 1..Len(rows) /\ \A i \in Ids : rows[i] \in Rows
  BY LenProperties, ElementOfSeq DEF Typed, Ids

LEMMA Kept ==
    ASSUME Inv, env' = env, Grows,
           \A u \in UUIDs : \/ entry'[u] = entry[u] \/ entry'[u] = None
                            \/ Sound(entry'[u], u, rows', done'),
           \A h \in held' : h \in held \/ Sound(h, h.uuid, rows', done'),
           \A x \in execs' : x \in execs \/ ExecSound(x, done'),
           \A i \in Ids' : (i \in Ids /\ rows'[i] = rows[i]) \/ RowSound(rows'[i], rows', done'),
           \A r \in Runs : \/ init'[r] = init[r]
                           \/ init'[r].pc \in {"idle", "define", "copy"}
                           \/ InitSound(init'[r], r[1], rows', done'),
           \A job \in jobs' : job \in jobs \/ JobSound(job, rows', done')
    PROVE  Sounds'
  <1>0. /\ States' = States /\ \A u : All(u)' = All(u)
        /\ \A u \in UUIDs : \A e : Sound(e, u, rows, done) => Sound(e, u, rows', done')
    BY EnvFixed, StillSound
  <1>1. EntriesSound'
    BY <1>0 DEF Inv, Sounds, EntriesSound, Sound
  <1>2. HeldSound'
    <2> SUFFICES ASSUME NEW h \in held' PROVE Sound(h, h.uuid, rows', done')
      BY <1>0 DEF HeldSound, Sound
    <2>1. ASSUME h \in held PROVE h.uuid \in UUIDs
      BY <2>1 DEF Inv, Typed, States
    <2> QED
      BY <1>0, <2>1 DEF Inv, Sounds, HeldSound
  <1>3. ExecsSound'
    <2> SUFFICES ASSUME NEW x \in execs' PROVE ExecSound(x, done')
      BY DEF ExecsSound, ExecSound
    <2>1. ASSUME x \in execs PROVE x.uuid \in UUIDs /\ ExecSound(x, done)
      BY <2>1 DEF Inv, Typed, Executors, Sounds, ExecsSound
    <2> QED
      BY <2>1 DEF ExecSound, Grows
  <1>4. RowsSound'
    <2> SUFFICES ASSUME NEW i \in Ids' PROVE RowSound(rows'[i], rows', done')
      BY <1>0 DEF RowsSound, RowSound, Sound
    <2>1. ASSUME i \in Ids PROVE rows[i].uuid \in UUIDs /\ RowSound(rows[i], rows, done)
      BY <2>1, IdsTyped DEF Inv, Rows, Sounds, RowsSound
    <2>2. CASE i \in Ids /\ rows'[i] = rows[i]
      BY <1>0, <2>1, <2>2 DEF RowSound, Grows
    <2> QED
      BY <2>2
  <1>5. JobsSound'
    <2> SUFFICES ASSUME NEW job \in jobs' PROVE JobSound(job, rows', done')
      BY <1>0 DEF JobsSound, JobSound, Sound
    <2>1. ASSUME job \in jobs PROVE job.data.uuid \in UUIDs /\ JobSound(job, rows, done)
      BY <2>1 DEF Inv, Typed, Jobs, States, Sounds, JobsSound
    <2> QED
      BY <1>0, <2>1 DEF JobSound
  <1>6. InitsSound'
    <2> SUFFICES ASSUME NEW r \in Runs PROVE InitSound(init'[r], r[1], rows', done')
      BY <1>0 DEF InitsSound, InitSound, Sound
    <2>1. r[1] \in UUIDs /\ InitSound(init[r], r[1], rows, done)
      BY RunUUID DEF Inv, Sounds, InitsSound
    <2> QED
      BY <1>0, <2>1 DEF InitSound, Grows, Ids
  <1>7. DoneOwn'
    BY <1>0 DEF Grows, DoneOwn
  <1> QED
    BY <1>1, <1>2, <1>3, <1>4, <1>5, <1>6, <1>7 DEF Sounds

\* What a step has to give to the types.
LEMMA KeptTyped ==
    ASSUME Typed, env' = env, rows' \in Seq(Rows), done' \in [UUIDs -> SUBSET Tasks],
           defs' \subseteq UUIDs, saved' \subseteq Snapshots, snaps' \subseteq Snapshots,
           entry' \in [UUIDs -> States \cup {None}], held' \subseteq States,
           execs' \subseteq Executors, \A x \in execs' : x.at \in 1..Groups[x.uuid] + 1,
           retrying' \subseteq UUIDs \X Tasks, \A p \in retrying' : p[2] \in All(p[1]),
           init' \in [Runs -> Inits], jobs' \subseteq Jobs,
           \A i \in DOMAIN hist' : hist'[i] \in UUIDs,
           order' \in Seq(Nat), evicting' \in Nat, Len(order') <= MaxCache + evicting',
           recovering' \subseteq Ids', submits' \in [UUIDs -> 0..MaxSubmits],
           faults' \in 0..MaxFaults
    PROVE  Typed'
  BY EnvFixed DEF Typed

(***************************************************************************)
(* Submission.                                                             *)
(***************************************************************************)
LEMMA NewStateSound ==
    ASSUME NEW u \in UUIDs
    PROVE  NewState(u) \in States /\ Sound(NewState(u), u, rows, done)
  <1>1. NewState(u) \in States
    BY DEF NewState, States, Statuses
  <1>2. Sound(NewState(u), u, rows, done)
    BY DEF NewState, Sound
  <1> QED
    BY <1>1, <1>2

LEMMA SubmitWorkflowTyped ==
    ASSUME Inv, NEW u \in UUIDs, SubmitWorkflow(u)
    PROVE  /\ entry' \in [UUIDs -> States \cup {None}]
           /\ execs' \subseteq Executors /\ \A x \in execs' : x.at \in 1..Groups[x.uuid] + 1
           /\ init' \in [Runs -> Inits] /\ submits' \in [UUIDs -> 0..MaxSubmits]
           /\ UNCHANGED <<held, retrying>>
           /\ \A v \in UUIDs : entry'[v] = entry[v] \/ Sound(entry'[v], v, rows, done)
           /\ \A x \in execs' : x \in execs \/ ExecSound(x, done)
           /\ \A q \in Runs : init'[q] = init[q] \/ init'[q].pc = "define"
  <1> DEFINE k == submits[u] + 1
             r == <<u, k>>
             x == [uuid |-> u, start |-> <<"submit", k>>, at |-> 1]
  <1>1. r \in Runs /\ k \in 0..MaxSubmits /\ k \in Nat
    BY GroupsTyped, BoundsAssumption DEF Inv, Typed, SubmitWorkflow, Runs
  <1>2. NewState(u) \in States /\ Sound(NewState(u), u, rows, done)
    BY NewStateSound
  <1>3. /\ submits' = [submits EXCEPT ![u] = k]
        /\ entry' = [entry EXCEPT ![u] = NewState(u)]
        /\ execs' = execs \cup {x}
        /\ init' = [init EXCEPT ![r].pc = "define"]
        /\ UNCHANGED <<held, retrying>>
    BY DEF SubmitWorkflow
  <1>4. x \in Executors /\ x.at \in 1..Groups[u] + 1 /\ x.uuid = u /\ ExecSound(x, done)
    <2>1. Groups[u] \in Nat
      BY GroupsTyped DEF Inv
    <2> QED
      BY <1>1, <2>1 DEF Executors, ExecSound
  <1> HIDE DEF k, r, x
  <1>5. entry' \in [UUIDs -> States \cup {None}] /\ submits' \in [UUIDs -> 0..MaxSubmits]
    BY <1>1, <1>2, <1>3 DEF Inv, Typed
  <1>6. init' \in [Runs -> Inits] /\ \A q \in Runs : init'[q] = init[q] \/ init'[q].pc = "define"
    BY <1>1, <1>3 DEF Inv, Typed, Inits
  <1>7. \A v \in UUIDs : entry'[v] = entry[v] \/ Sound(entry'[v], v, rows, done)
    BY <1>2, <1>3 DEF Inv, Typed
  <1>8. /\ execs' \subseteq Executors /\ \A y \in execs' : y.at \in 1..Groups[y.uuid] + 1
        /\ \A y \in execs' : y \in execs \/ ExecSound(y, done)
    BY <1>3, <1>4 DEF Inv, Typed
  <1> QED
    BY <1>3, <1>5, <1>6, <1>7, <1>8

LEMMA SubmitInv ==
    ASSUME Inv, NEW u \in UUIDs, Submit(u), env' = env
    PROVE  Inv'
  <1>1. UNCHANGED <<defs, rows, saved, snaps, jobs, hist, order, evicting, recovering, done, faults>>
    BY DEF Submit, mysql, histVars
  <1>2. Typed'
    BY <1>1, SubmitWorkflowTyped, KeptTyped DEF Submit, Inv, Typed, Ids
  <1>3. Sounds'
    BY <1>1, SubmitWorkflowTyped, NothingLost, Kept DEF Submit, Inv, Ids
  <1> QED
    BY <1>2, <1>3 DEF Inv

LEMMA DefineInv ==
    ASSUME Inv, NEW u \in UUIDs, Define(u), env' = env
    PROVE  Inv'
  <1>1. /\ defs' \subseteq defs \cup {u}
        /\ UNCHANGED <<rows, saved, entry, held, execs, retrying, init, snaps, jobs, hist, order,
                       evicting, recovering, submits, done, faults>>
    BY DEF Define, execVars, histVars
  <1>2. Typed'
    BY <1>1, KeptTyped DEF Inv, Typed, Ids
  <1>3. Sounds'
    BY <1>1, NothingLost, Kept DEF Inv, Ids
  <1> QED
    BY <1>2, <1>3 DEF Inv

LEMMA RetryInv ==
    ASSUME Inv, NEW u \in UUIDs, RetryWorkflow(u), env' = env
    PROVE  Inv'
  <1> DEFINE id == Last(byUUID[u])
  <1>1. /\ id \in DOMAIN hist /\ SubmitWorkflow(hist[id]) /\ hist' = Forget(id)
        /\ order' = RemoveFirst(order, id)
        /\ UNCHANGED <<defs, rows, saved, snaps, jobs, evicting, recovering, done, faults>>
    BY DEF RetryWorkflow, mysql
  <1> HIDE DEF id
  <1>2. hist[id] \in UUIDs
    BY <1>1 DEF Inv, Typed
  <1>3. order' \in Seq(Nat) /\ Len(order') <= MaxCache + evicting'
    <2>1. /\ RemoveFirst(order, id) \in Seq(Nat) /\ Len(RemoveFirst(order, id)) <= Len(order)
          /\ Len(order) \in Nat /\ Len(RemoveFirst(order, id)) \in Nat
      BY RemoveFirstTyped, LenProperties DEF Inv, Typed
    <2> QED
      BY <1>1, <2>1, BoundsAssumption DEF Inv, Typed
  <1>4. \A i \in DOMAIN hist' : hist'[i] \in UUIDs
    BY <1>1 DEF Forget, Inv, Typed
  <1>5. Typed'
    BY <1>1, <1>2, <1>3, <1>4, SubmitWorkflowTyped, KeptTyped DEF Inv, Typed, Ids
  <1>6. Sounds'
    BY <1>1, <1>2, SubmitWorkflowTyped, NothingLost, Kept DEF Inv, Ids
  <1> QED
    BY <1>5, <1>6 DEF Inv


(***************************************************************************)
(* asyncInitMySQL.                                                         *)
(***************************************************************************)
LEMMA IdleTyped == ASSUME Typed PROVE Idle \in Inits /\ Idle.pc = "idle"
  BY DEF Idle, Inits

LEMMA FaultTyped ==
    ASSUME Typed, Fault
    PROVE  faults' \in 0..MaxFaults
  BY GroupsTyped, BoundsAssumption DEF Fault, Typed

LEMMA CleanupTyped ==
    ASSUME Typed, NEW u \in UUIDs, CleanupWorkflowState(u)
    PROVE  /\ entry' \in [UUIDs -> States \cup {None}]
           /\ \A v \in UUIDs : entry'[v] = entry[v] \/ entry'[v] = None
  BY DEF Typed, CleanupWorkflowState

\* What asyncInitMySQL has come to does not matter to others.
LEMMA InitTyped ==
    ASSUME Typed, NEW r \in Runs, NEW i \in Inits, init' = [init EXCEPT ![r] = i]
    PROVE  /\ init' \in [Runs -> Inits]
           /\ \A q \in Runs : init'[q] = init[q] \/ (q = r /\ init'[q] = i)
  BY DEF Typed

LEMMA EntryIs ==
    ASSUME Inv, NEW u \in UUIDs, entry[u] # None
    PROVE  entry[u] \in States /\ Sound(entry[u], u, rows, done)
  BY DEF Inv, Sounds, EntriesSound, Typed

LEMMA DataSound ==
    ASSUME NEW e \in States
    PROVE  /\ Data(e) \in States /\ Data(e).exec = e.exec /\ Data(e).status = e.status
           /\ Data(e).uuid = e.uuid
           /\ \A u, rs, dn : Sound(e, u, rs, dn) => Sound(Data(e), u, rs, dn)
  <1>1. Data(e) \in States
    BY DEF Data, States
  <1>2. /\ Data(e).uuid = e.uuid /\ Data(e).completed = e.completed /\ Data(e).exec = e.exec
        /\ Data(e).status = e.status
    BY DEF Data, States
  <1> QED
    BY <1>1, <1>2 DEF Sound

LEMMA InitStepInv ==
    ASSUME Inv, NEW r \in Runs, env' = env,
           SaveWorkflowDef(r) \/ SaveWorkflowDefDuplicate(r) \/ InitFails(r) \/ CopyState(r)
    PROVE  Inv'
  <1>0. r[1] \in UUIDs /\ Typed
    BY RunUUID DEF Inv
  <1>f. UNCHANGED <<rows, saved, held, execs, retrying, snaps, jobs, hist, order, evicting,
                    recovering, submits, done>>
    BY DEF SaveWorkflowDef, SaveWorkflowDefDuplicate, InitFails, CopyState, InitFrame, histVars
  <1>1. CASE SaveWorkflowDef(r)
    <2>1. /\ init' \in [Runs -> Inits]
          /\ \A q \in Runs : init'[q] = init[q] \/ init'[q].pc = "copy"
      BY <1>0, <1>1 DEF SaveWorkflowDef, Typed, Inits
    <2>2. defs' = defs \cup {r[1]} /\ UNCHANGED <<entry, faults>>
      BY <1>1 DEF SaveWorkflowDef
    <2>3. Typed'
      BY <1>0, <1>f, <2>1, <2>2, KeptTyped DEF Typed, Ids
    <2>4. Sounds'
      BY <1>f, <2>1, <2>2, NothingLost, Kept DEF Inv, Ids
    <2> QED
      BY <2>3, <2>4 DEF Inv
  <1>2. CASE SaveWorkflowDefDuplicate(r) \/ InitFails(r)
    <2>1. init' = [init EXCEPT ![r] = Idle] /\ CleanupWorkflowState(r[1]) /\ defs' = defs
      BY <1>2 DEF SaveWorkflowDefDuplicate, InitFails
    <2>2. /\ init' \in [Runs -> Inits]
          /\ \A q \in Runs : init'[q] = init[q] \/ init'[q].pc = "idle"
      BY <1>0, <2>1, IdleTyped, InitTyped
    <2>3. faults' \in 0..MaxFaults
      BY <1>0, <1>2, FaultTyped DEF SaveWorkflowDefDuplicate, InitFails, Typed
    <2>4. Typed'
      BY <1>0, <1>f, <2>1, <2>2, <2>3, CleanupTyped, KeptTyped DEF Typed, Ids
    <2>5. Sounds'
      BY <1>0, <1>f, <2>1, <2>2, CleanupTyped, NothingLost, Kept DEF Inv, Ids
    <2> QED
      BY <2>4, <2>5 DEF Inv
  <1>3. CASE CopyState(r)
    <2> DEFINE e == entry[r[1]]
               i == IF e = None THEN Idle ELSE [pc |-> "create", id |-> 0, copied |-> Data(e)]
    <2>1. ASSUME e # None PROVE Data(e) \in States /\ Sound(Data(e), r[1], rows, done)
      BY <1>0, <2>1, EntryIs, DataSound
    <2>2. init' = [init EXCEPT ![r] = i] /\ UNCHANGED <<defs, entry, faults>>
      BY <1>3 DEF CopyState
    <2>3. i \in Inits /\ (i.pc = "idle" \/ InitSound(i, r[1], rows, done))
      BY <1>0, <2>1, IdleTyped DEF Inits, InitSound
    <2> HIDE DEF i
    <2>4. /\ init' \in [Runs -> Inits]
          /\ \A q \in Runs : \/ init'[q] = init[q] \/ init'[q].pc = "idle"
                              \/ InitSound(init'[q], q[1], rows, done)
      BY <1>0, <2>2, <2>3, InitTyped
    <2>5. Typed'
      BY <1>0, <1>f, <2>2, <2>4, KeptTyped DEF Typed, Ids
    <2>6. Sounds'
      BY <1>f, <2>2, <2>4, NothingLost, Kept DEF Inv, Ids
    <2> QED
      BY <2>5, <2>6 DEF Inv
  <1> QED
    BY <1>1, <1>2, <1>3

LEMMA CreateExecutionInv ==
    ASSUME Inv, NEW r \in Runs, env' = env, CreateExecution(r)
    PROVE  Inv'
  <1> DEFINE row == [uuid |-> r[1], status |-> "RUNNING", data |-> init[r].copied]
             n == Len(rows) + 1
             i == [pc |-> "link", id |-> n, copied |-> None]
  <1>0. Typed /\ r[1] \in UUIDs /\ Len(rows) \in Nat
    BY RunUUID, IdsTyped DEF Inv
  <1>1. init[r].copied \in States /\ Sound(init[r].copied, r[1], rows, done)
    BY DEF Inv, Sounds, InitsSound, InitSound, CreateExecution
  <1>2. row \in Rows
    BY <1>0, <1>1 DEF Rows, Statuses
  <1>3. rows' = Append(rows, row) /\ init' = [init EXCEPT ![r] = i]
    BY DEF CreateExecution
  <1>4. row.uuid = r[1] /\ row.status = "RUNNING" /\ row.data = init[r].copied
    OBVIOUS
  <1>5. i \in Inits /\ i.pc = "link" /\ i.id = n
    BY <1>0 DEF Inits
  <1> HIDE DEF row, i
  <1>6. /\ rows' \in Seq(Rows) /\ Ids' = 1..n /\ rows'[n] = row
        /\ \A j \in Ids : rows'[j] = rows[j]
    <2>1. /\ rows' \in Seq(Rows) /\ Len(rows') = n /\ rows'[n] = row
          /\ \A j \in 1..Len(rows) : rows'[j] = rows[j]
      BY <1>0, <1>2, <1>3, AppendProperties DEF Typed
    <2> QED
      BY <1>0, <2>1, LenProperties, IdsTyped DEF Ids
  <1>7. Ids = 1..Len(rows) /\ Ids \subseteq Ids' /\ Ids' = Ids \cup {n}
    BY <1>0, <1>6, IdsTyped
  <1>8. UNCHANGED <<defs, saved, entry, held, execs, retrying, snaps, jobs, hist, order, evicting,
                    recovering, submits, done, faults>>
    BY DEF CreateExecution, InitFrame, histVars
  <1>9. Grows
    BY <1>6, <1>7, <1>8 DEF Grows, Inv, Sounds, DoneOwn
  <1>10. /\ init' \in [Runs -> Inits]
         /\ \A q \in Runs : init'[q] = init[q] \/ (q = r /\ init'[q] = i)
    BY <1>0, <1>3, <1>5, InitTyped
  <1>11. InitSound(i, r[1], rows', done')
    BY <1>4, <1>5, <1>6, <1>7 DEF InitSound, Ids
  <1>12. RowSound(rows'[n], rows', done')
    BY <1>0, <1>1, <1>4, <1>6, <1>9, StillSound DEF RowSound
  <1>13. Typed'
    BY <1>0, <1>6, <1>7, <1>8, <1>10, KeptTyped DEF Typed
  <1>14. Sounds'
    BY <1>6, <1>7, <1>8, <1>9, <1>10, <1>11, <1>12, Kept
  <1> QED
    BY <1>13, <1>14 DEF Inv

LEMMA LinkExecutionInv ==
    ASSUME Inv, NEW r \in Runs, env' = env, LinkExecution(r)
    PROVE  Inv'
  <1> DEFINE u == r[1]
  <1>0. Typed /\ u \in UUIDs
    BY RunUUID DEF Inv
  <1>1. /\ init' \in [Runs -> Inits]
        /\ \A q \in Runs : init'[q] = init[q] \/ init'[q].pc = "idle"
    BY <1>0, IdleTyped, InitTyped DEF LinkExecution
  <1>2. init[r].id \in Ids /\ init[r].id \in Nat /\ rows[init[r].id].uuid = u
    BY <1>0 DEF Inv, Sounds, InitsSound, InitSound, LinkExecution, Ids, Typed, Inits
  <1>3. ASSUME entry[u] # None
        PROVE  LET e == [entry[u] EXCEPT !.exec = init[r].id]
               IN  e \in States /\ Sound(e, u, rows, done)
    <2> DEFINE e == [entry[u] EXCEPT !.exec = init[r].id]
    <2>1. entry[u] \in States /\ Sound(entry[u], u, rows, done)
      BY <1>0, <1>3, EntryIs
    <2>2. /\ e \in States /\ e.uuid = entry[u].uuid /\ e.completed = entry[u].completed
          /\ e.exec = init[r].id /\ e.status = entry[u].status
      BY <1>2, <2>1 DEF States
    <2> QED
      BY <1>2, <2>1, <2>2 DEF Sound, Ids
  <1>4. entry' = IF entry[u] = None THEN entry
                 ELSE [entry EXCEPT ![u] = [entry[u] EXCEPT !.exec = init[r].id]]
    BY DEF LinkExecution
  <1>5. /\ entry' \in [UUIDs -> States \cup {None}]
        /\ \A v \in UUIDs : entry'[v] = entry[v] \/ Sound(entry'[v], v, rows, done)
    BY <1>0, <1>3, <1>4 DEF Typed
  <1>6. UNCHANGED <<defs, rows, saved, held, execs, retrying, snaps, jobs, hist, order, evicting,
                    recovering, submits, done, faults>>
    BY DEF LinkExecution, InitFrame, histVars
  <1>7. Typed'
    BY <1>0, <1>1, <1>5, <1>6, KeptTyped DEF Typed, Ids
  <1>8. Sounds'
    BY <1>1, <1>5, <1>6, NothingLost, Kept DEF Inv, Ids
  <1> QED
    BY <1>7, <1>8 DEF Inv

(***************************************************************************)
(* Execution.                                                              *)
(***************************************************************************)
LEMMA SnapshotTyped ==
    ASSUME Typed, NEW u \in UUIDs, NEW e \in States, SnapshotRunningWorkflow(u, e)
    PROVE  /\ entry' \in [UUIDs -> States \cup {None}]
           /\ snaps' \subseteq Snapshots
           /\ \A v \in UUIDs \ {u} : entry'[v] = entry[v]
           /\ entry'[u] \in States
           /\ entry'[u].uuid = e.uuid /\ entry'[u].exec = e.exec
           /\ entry'[u].completed = e.completed /\ entry'[u].status = e.status
  <1>1. /\ Marked(e) \in States /\ Marked(e).uuid = e.uuid /\ Marked(e).exec = e.exec
        /\ Marked(e).completed = e.completed /\ Marked(e).status = e.status
    BY DEF Marked, States
  <1>2. MarshalSnapshot(e.exec, Deltas(e)) \in Snapshots
    <2>1. Deltas(e) \subseteq Tasks \X {"completed", "failed"}
      BY DEF Deltas, States
    <2>2. e.exec \in Nat
      BY DEF States
    <2> QED
      BY <2>1, <2>2 DEF MarshalSnapshot, Snapshots
  <1>3. \/ entry' = [entry EXCEPT ![u] = e] /\ snaps' = snaps
        \/ /\ entry' = [entry EXCEPT ![u] = Marked(e)]
           /\ snaps' = snaps \cup {MarshalSnapshot(e.exec, Deltas(e))}
    BY DEF SnapshotRunningWorkflow
  <1> QED
    BY <1>1, <1>2, <1>3 DEF Typed

LEMMA ExecutorIs ==
    ASSUME Inv, NEW x \in execs
    PROVE  /\ x \in Executors /\ x.uuid \in UUIDs /\ x.at \in Nat /\ x.at \in 1..Groups[x.uuid] + 1
           /\ Groups[x.uuid] \in Nat /\ 1..x.at - 1 \subseteq done[x.uuid]
           /\ x.at <= Groups[x.uuid] => x.at \in All(x.uuid) /\ x.at \in Tasks
  <1>1. x \in Executors /\ x.uuid \in UUIDs /\ x.at \in Nat /\ x.at \in 1..Groups[x.uuid] + 1
    BY DEF Inv, Typed, Executors
  <1>2. Groups[x.uuid] \in Nat
    BY <1>1, GroupsTyped DEF Inv
  <1>3. 1..x.at - 1 \subseteq done[x.uuid]
    BY DEF Inv, Sounds, ExecsSound, ExecSound
  <1>4. ASSUME x.at <= Groups[x.uuid] PROVE x.at \in All(x.uuid) /\ x.at \in Tasks
    BY <1>1, <1>2, <1>4, GroupsTyped DEF All, Inv
  <1> QED
    BY <1>1, <1>2, <1>3, <1>4

\* A task of u is done, and an executor at it moves on or not.
LEMMA DoneAndAdvance ==
    ASSUME Inv, env' = env, rows' = rows, NEW x \in execs, x.at \in All(x.uuid),
           done' = [done EXCEPT ![x.uuid] = @ \cup {x.at}], Advance(x) \/ UNCHANGED execs
    PROVE  /\ Grows /\ done' \in [UUIDs -> SUBSET Tasks] /\ x.at \in done'[x.uuid]
           /\ execs' \subseteq Executors /\ \A y \in execs' : y.at \in 1..Groups[y.uuid] + 1
           /\ \A y \in execs' : y \in execs \/ ExecSound(y, done')
  <1> DEFINE u == x.uuid
             z == [x EXCEPT !.at = @ + 1]
  <1>0. Typed /\ x \in Executors /\ u \in UUIDs /\ x.at \in Nat /\ Groups[u] \in Nat
        /\ 1..x.at - 1 \subseteq done[u] /\ x.at \in Tasks /\ x.at <= Groups[u]
    BY ExecutorIs, GroupsTyped DEF Inv, All
  <1>1. /\ done' \in [UUIDs -> SUBSET Tasks] /\ x.at \in done'[u]
        /\ \A v \in UUIDs : done[v] \subseteq done'[v] /\ done'[v] \subseteq All(v)
    BY <1>0 DEF Inv, Sounds, DoneOwn, Typed
  <1>2. z \in Executors /\ z.uuid = u /\ z.at = x.at + 1 /\ z.at \in 1..Groups[u] + 1
    BY <1>0 DEF Executors
  <1>3. ExecSound(z, done')
    BY <1>0, <1>1, <1>2 DEF ExecSound
  <1>4. execs' = (execs \ {x}) \cup {z} \/ execs' = execs
    BY DEF Advance
  <1> HIDE DEF z
  <1>5. Grows
    BY <1>1 DEF Grows, Ids
  <1>6. /\ execs' \subseteq Executors /\ \A y \in execs' : y.at \in 1..Groups[y.uuid] + 1
        /\ \A y \in execs' : y \in execs \/ ExecSound(y, done')
    BY <1>0, <1>2, <1>3, <1>4 DEF Typed
  <1> QED
    BY <1>1, <1>5, <1>6

LEMMA TaskCompletedInv ==
    ASSUME Inv, NEW x \in execs, env' = env, TaskCompleted(x)
    PROVE  Inv'
  <1> DEFINE u == x.uuid
             e == [entry[u] EXCEPT !.completed = @ \cup {x.at}]
  <1>0. /\ Typed /\ u \in UUIDs /\ entry[u] # None /\ x.at \in All(u) /\ x.at \in Tasks
    BY ExecutorIs DEF Inv, TaskCompleted, Heard
  <1>1. entry[u] \in States /\ Sound(entry[u], u, rows, done)
    BY <1>0, EntryIs
  <1>2. /\ e \in States /\ e.uuid = entry[u].uuid /\ e.exec = entry[u].exec
        /\ e.completed = entry[u].completed \cup {x.at} /\ e.status = entry[u].status
    BY <1>0, <1>1 DEF States
  <1>3. SnapshotRunningWorkflow(u, e)
    BY DEF TaskCompleted
  <1>4. /\ done' = [done EXCEPT ![u] = @ \cup {x.at}] /\ Advance(x)
        /\ UNCHANGED <<defs, rows, saved, held, retrying, init, jobs, hist, order, evicting,
                       recovering, submits, faults>>
    BY DEF TaskCompleted, ExecFrame, mysql, histVars
  <1>5. /\ Grows /\ done' \in [UUIDs -> SUBSET Tasks] /\ x.at \in done'[u]
        /\ execs' \subseteq Executors /\ \A y \in execs' : y.at \in 1..Groups[y.uuid] + 1
        /\ \A y \in execs' : y \in execs \/ ExecSound(y, done')
    BY <1>0, <1>4, DoneAndAdvance
  <1> HIDE DEF e
  <1>6. /\ entry' \in [UUIDs -> States \cup {None}] /\ snaps' \subseteq Snapshots
        /\ \A v \in UUIDs \ {u} : entry'[v] = entry[v]
        /\ Sound(entry'[u], u, rows', done')
    <2>1. Sound(entry[u], u, rows', done')
      BY <1>0, <1>1, <1>5, StillSound
    <2> QED
      BY <1>0, <1>1, <1>2, <1>3, <1>5, <2>1, SnapshotTyped DEF Sound
  <1>7. Typed'
    BY <1>0, <1>4, <1>5, <1>6, KeptTyped DEF Typed, Ids
  <1>8. Sounds'
    BY <1>4, <1>5, <1>6, Kept DEF Ids
  <1> QED
    BY <1>7, <1>8 DEF Inv

\* The entry of u changes, in what soundness does not speak of.
LEMMA EntryTouched ==
    ASSUME Inv, NEW u \in UUIDs, entry[u] # None, env' = env,
           entry' \in [UUIDs -> States \cup {None}], \A v \in UUIDs \ {u} : entry'[v] = entry[v],
           entry'[u] \in States, entry'[u].uuid = entry[u].uuid, entry'[u].exec = entry[u].exec,
           entry'[u].completed = entry[u].completed, entry'[u].status = entry[u].status,
           snaps' \subseteq Snapshots, retrying' \subseteq UUIDs \X Tasks,
           \A p \in retrying' : p[2] \in All(p[1]),
           UNCHANGED <<execs, done>>, ExecFrame
    PROVE  Inv'
  <1>1. UNCHANGED <<defs, rows, saved, held, execs, init, jobs, hist, order, evicting, recovering,
                    submits, done, faults>>
    BY DEF ExecFrame, mysql, histVars
  <1>2. Sound(entry'[u], u, rows, done)
    BY EntryIs DEF Sound
  <1>3. Typed'
    BY <1>1, KeptTyped DEF Inv, Typed, Ids
  <1>4. Sounds'
    BY <1>1, <1>2, NothingLost, Kept DEF Inv, Ids
  <1> QED
    BY <1>3, <1>4 DEF Inv

LEMMA TaskFailedInv ==
    ASSUME Inv, NEW x \in execs, env' = env, TaskFailed(x)
    PROVE  Inv'
  <1> DEFINE u == x.uuid
             e == [entry[u] EXCEPT !.failed = @ \cup {x.at}]
  <1>0. Typed /\ u \in UUIDs /\ entry[u] # None /\ x.at \in All(u) /\ x.at \in Tasks
    BY ExecutorIs DEF Inv, TaskFailed, Heard
  <1>1. entry[u] \in States
    BY <1>0, EntryIs
  <1>2. /\ e \in States /\ e.uuid = entry[u].uuid /\ e.exec = entry[u].exec
        /\ e.completed = entry[u].completed /\ e.status = entry[u].status
    BY <1>0, <1>1 DEF States
  <1>3. SnapshotRunningWorkflow(u, e) /\ UNCHANGED <<execs, done>> /\ ExecFrame
    BY DEF TaskFailed
  <1>4. retrying' \subseteq UUIDs \X Tasks /\ \A p \in retrying' : p[2] \in All(p[1])
    BY <1>0 DEF TaskFailed, Typed
  <1> HIDE DEF e
  <1> QED
    BY <1>0, <1>2, <1>3, <1>4, SnapshotTyped, EntryTouched

LEMMA ClearFailedInv ==
    ASSUME Inv, NEW u \in UUIDs, NEW t, env' = env, ClearFailedTask(u, t)
    PROVE  Inv'
  <1> DEFINE e == [entry[u] EXCEPT !.failed = @ \ {t}, !.marked = @ \ {t}]
  <1>0. Typed /\ retrying' \subseteq retrying /\ UNCHANGED <<execs, done, snaps>> /\ ExecFrame
    BY DEF Inv, ClearFailedTask
  <1>1. retrying' \subseteq UUIDs \X Tasks /\ \A p \in retrying' : p[2] \in All(p[1])
    BY <1>0 DEF Typed
  <1>2. CASE entry[u] # None
    <2>1. entry[u] \in States
      BY <1>2, EntryIs
    <2>2. /\ e \in States /\ e.uuid = entry[u].uuid /\ e.exec = entry[u].exec
          /\ e.completed = entry[u].completed /\ e.status = entry[u].status
      BY <2>1 DEF States
    <2>3. entry' = [entry EXCEPT ![u] = e]
      BY <1>0, <1>2 DEF ClearFailedTask, Typed
    <2> HIDE DEF e
    <2>4. /\ entry' \in [UUIDs -> States \cup {None}] /\ entry'[u] = e
          /\ \A v \in UUIDs \ {u} : entry'[v] = entry[v]
      BY <1>0, <2>2, <2>3 DEF Typed
    <2>5. snaps' \subseteq Snapshots
      BY <1>0 DEF Typed
    <2> QED
      BY <1>0, <1>1, <1>2, <2>2, <2>4, <2>5, EntryTouched
  <1>3. CASE entry[u] = None
    <2>1. UNCHANGED <<defs, rows, saved, entry, held, execs, snaps, init, jobs, hist, order,
                      evicting, recovering, submits, done, faults>>
      BY <1>0, <1>3 DEF ClearFailedTask, ExecFrame, mysql, histVars
    <2>2. Typed'
      BY <1>0, <1>1, <2>1, KeptTyped DEF Typed, Ids
    <2>3. Sounds'
      BY <2>1, NothingLost, Kept DEF Inv, Ids
    <2> QED
      BY <2>2, <2>3 DEF Inv
  <1> QED
    BY <1>2, <1>3

(***************************************************************************)
(* PersistWorkflowLocked.                                                  *)
(***************************************************************************)
LEMMA AddHistoryTyped ==
    ASSUME Typed, NEW e \in States, AddHistory(e)
    PROVE  /\ \A i \in DOMAIN hist' : hist'[i] \in UUIDs
           /\ order' \in Seq(Nat) /\ Len(order') = Len(order) + 1
  <1>1. e.exec \in Nat /\ e.uuid \in UUIDs
    BY DEF States
  <1>2. \A i \in DOMAIN hist' : hist'[i] \in UUIDs
    BY <1>1 DEF AddHistory, Typed
  <1>3. order' \in Seq(Nat) /\ Len(order') = Len(order) + 1
    BY <1>1, AppendProperties DEF AddHistory, Typed
  <1> QED
    BY <1>2, <1>3

LEMMA LockedIs ==
    ASSUME Inv, NEW u \in UUIDs, NEW e \in Locked(u)
    PROVE  e \in States /\ e.uuid = u /\ Sound(e, u, rows, done)
  <1>1. CASE e = entry[u] /\ entry[u] # None
    BY <1>1, EntryIs DEF Sound
  <1>2. CASE e \in held /\ e.uuid = u
    BY <1>2 DEF Inv, Typed, Sounds, HeldSound
  <1> QED
    BY <1>1, <1>2 DEF Locked

\* A locked state ends as f, and the executors and what is done change as they may.
LEMMA PersistInv ==
    ASSUME Inv, env' = env, NEW u \in UUIDs, NEW e \in Locked(u), NEW f \in States,
           PersistWorkflowLocked(e, f), Grows, Sound(f, u, rows', done'),
           done' \in [UUIDs -> SUBSET Tasks],
           execs' \subseteq Executors, \A x \in execs' : x.at \in 1..Groups[x.uuid] + 1,
           \A x \in execs' : x \in execs \/ ExecSound(x, done'), retrying' \subseteq retrying
    PROVE  Inv'
  <1> DEFINE job == [exec |-> f.exec, status |-> f.status, data |-> Data(f)]
  <1>0. Typed /\ e.uuid = u /\ f.uuid = u
    BY LockedIs DEF Inv, Sound
  <1>1. /\ AddHistory(f) /\ evicting' = evicting + 1
        /\ entry' = [entry EXCEPT ![e.uuid] = None]
        /\ held' \subseteq held \cup {f}
        /\ Enqueue(job)
        /\ UNCHANGED <<defs, rows, saved, init, snaps, recovering, submits>>
    BY DEF PersistWorkflowLocked, mysql
  <1>2. /\ job \in Jobs /\ job.exec = f.exec /\ job.status = f.status /\ job.data = Data(f)
    BY DataSound DEF Jobs, States
  <1>3. JobSound(job, rows', done')
    BY <1>0, <1>2, DataSound DEF JobSound
  <1> HIDE DEF job
  <1>4. /\ jobs' \subseteq Jobs /\ \A j \in jobs' : j \in jobs \/ JobSound(j, rows', done')
        /\ faults' \in 0..MaxFaults
    BY <1>0, <1>1, <1>2, <1>3, FaultTyped DEF Enqueue, Typed
  <1>5. /\ entry' \in [UUIDs -> States \cup {None}]
        /\ \A v \in UUIDs : entry'[v] = entry[v] \/ entry'[v] = None
    BY <1>0, <1>1 DEF Typed
  <1>6. /\ \A i \in DOMAIN hist' : hist'[i] \in UUIDs
        /\ order' \in Seq(Nat) /\ evicting' \in Nat /\ Len(order') <= MaxCache + evicting'
    <2>1. Len(order) \in Nat /\ Len(order) <= MaxCache + evicting /\ evicting \in Nat
      BY <1>0, LenProperties DEF Typed
    <2>2. /\ \A i \in DOMAIN hist' : hist'[i] \in UUIDs
          /\ order' \in Seq(Nat) /\ Len(order') = Len(order) + 1
      BY <1>0, <1>1, AddHistoryTyped
    <2> QED
      BY <1>1, <2>1, <2>2, BoundsAssumption
  <1>7. held' \subseteq States
    BY <1>0, <1>1 DEF Typed
  <1>8. retrying' \subseteq UUIDs \X Tasks /\ \A p \in retrying' : p[2] \in All(p[1])
    BY <1>0 DEF Typed
  <1>9. Typed'
    BY <1>0, <1>1, <1>4, <1>5, <1>6, <1>7, <1>8, KeptTyped DEF Typed, Ids
  <1>10. Sounds'
    BY <1>0, <1>1, <1>4, <1>5, Kept DEF Ids
  <1> QED
    BY <1>9, <1>10 DEF Inv

\* An end that leaves done alone, and takes at most executors away.
LEMMA EndInv ==
    ASSUME Inv, env' = env, NEW u \in UUIDs, NEW e \in Locked(u), NEW f \in States,
           PersistWorkflowLocked(e, f), Sound(f, u, rows, done), execs' \subseteq execs,
           UNCHANGED <<retrying, done>>
    PROVE  Inv'
  <1>1. rows' = rows
    BY DEF PersistWorkflowLocked, mysql
  <1>2. Grows
    BY <1>1, NothingLost DEF Inv
  <1>3. /\ done' \in [UUIDs -> SUBSET Tasks] /\ execs' \subseteq Executors
        /\ \A x \in execs' : x.at \in 1..Groups[x.uuid] + 1
    BY DEF Inv, Typed
  <1> QED
    BY <1>1, <1>2, <1>3, PersistInv

LEMMA EndAsInv ==
    ASSUME Inv, env' = env, NEW u \in UUIDs, NEW s \in {"COMPLETED", "FAILED"}, EndAs(u, s),
           execs' \subseteq execs, s = "COMPLETED" => done[u] = All(u)
    PROVE  Inv'
  <1>1. PICK e \in Locked(u) : PersistWorkflowLocked(e, [e EXCEPT !.status = s])
    BY DEF EndAs
  <1> DEFINE f == [e EXCEPT !.status = s]
  <1>2. e \in States /\ Sound(e, u, rows, done)
    BY LockedIs
  <1>3. /\ f \in States /\ f.uuid = e.uuid /\ f.completed = e.completed /\ f.exec = e.exec
        /\ f.status = s
    BY <1>2 DEF States, Statuses
  <1>4. PersistWorkflowLocked(e, f) /\ UNCHANGED <<retrying, done>>
    BY <1>1 DEF EndAs
  <1> HIDE DEF f
  <1>5. Sound(f, u, rows, done)
    BY <1>2, <1>3 DEF Sound
  <1> QED
    BY <1>3, <1>4, <1>5, EndInv

LEMMA FinishInv ==
    ASSUME Inv, NEW x \in execs, env' = env, Finish(x)
    PROVE  Inv'
  <1>1. /\ x.uuid \in UUIDs /\ x.at > Groups[x.uuid] /\ EndAs(x.uuid, "COMPLETED")
        /\ execs' \subseteq execs
    BY ExecutorIs DEF Finish
  <1>2. done[x.uuid] = All(x.uuid)
    <2>1. All(x.uuid) \subseteq done[x.uuid]
      BY <1>1, ExecutorIs DEF All
    <2> QED
      BY <1>1, <2>1 DEF Inv, Sounds, DoneOwn
  <1> QED
    BY <1>1, <1>2, EndAsInv

LEMMA FailsInv ==
    ASSUME Inv, env' = env, (\E x \in execs : GroupFails(x)) \/ (\E u \in UUIDs : FailWorkflow(u))
    PROVE  Inv'
  <1>1. \E u \in UUIDs : EndAs(u, "FAILED") /\ execs' \subseteq execs
    BY ExecutorIs DEF GroupFails, FailWorkflow
  <1> QED
    BY <1>1, EndAsInv

LEMMA CancelInv ==
    ASSUME Inv, NEW u \in UUIDs, env' = env, CancelWorkflow(u)
    PROVE  Inv'
  BY LockedIs, EndInv DEF CancelWorkflow

LEMMA TaskSkippedInv ==
    ASSUME Inv, NEW x \in execs, env' = env, TaskSkipped(x)
    PROVE  Inv'
  <1> DEFINE u == x.uuid
             t == x.at
  <1>1. PICK e \in Locked(u) :
            PersistWorkflowLocked(e, [e EXCEPT !.completed = @ \cup {t}, !.failed = @ \ {t}])
    BY DEF TaskSkipped
  <1> DEFINE f == [e EXCEPT !.completed = @ \cup {t}, !.failed = @ \ {t}]
  <1>2. /\ Typed /\ u \in UUIDs /\ t \in All(u) /\ t \in Tasks
    <2>1. Typed /\ u \in UUIDs /\ <<u, t>> \in retrying
      BY ExecutorIs DEF Inv, TaskSkipped
    <2> QED
      BY <2>1, GroupsTyped DEF Typed
  <1>3. e \in States /\ Sound(e, u, rows, done)
    BY <1>2, LockedIs
  <1>4. /\ f \in States /\ f.uuid = e.uuid /\ f.completed = e.completed \cup {t} /\ f.exec = e.exec
        /\ f.status = e.status
    BY <1>2, <1>3 DEF States
  <1>5. /\ PersistWorkflowLocked(e, f) /\ retrying' \subseteq retrying /\ rows' = rows
        /\ done' = [done EXCEPT ![u] = @ \cup {t}] /\ (Advance(x) \/ UNCHANGED execs)
    BY <1>1 DEF TaskSkipped, PersistWorkflowLocked, mysql
  <1>6. /\ Grows /\ done' \in [UUIDs -> SUBSET Tasks] /\ t \in done'[u]
        /\ execs' \subseteq Executors /\ \A y \in execs' : y.at \in 1..Groups[y.uuid] + 1
        /\ \A y \in execs' : y \in execs \/ ExecSound(y, done')
    BY <1>2, <1>5, DoneAndAdvance
  <1> HIDE DEF f
  <1>7. Sound(f, u, rows', done')
    <2>1. Sound(e, u, rows', done')
      BY <1>2, <1>3, <1>6, StillSound
    <2> QED
      BY <1>4, <1>6, <2>1 DEF Sound
  <1> QED
    BY <1>2, <1>4, <1>5, <1>6, <1>7, PersistInv

LEMMA ExecutorEndsInv ==
    ASSUME Inv, NEW x \in execs, env' = env, ExecutorEnds(x)
    PROVE  Inv'
  <1>1. /\ execs' \subseteq execs
        /\ UNCHANGED <<defs, rows, saved, entry, held, retrying, init, snaps, jobs, hist, order,
                       evicting, recovering, submits, done, faults>>
    BY DEF ExecutorEnds, ExecFrame, mysql, histVars
  <1>2. Typed'
    BY <1>1, KeptTyped DEF Inv, Typed, Ids
  <1>3. Sounds'
    BY <1>1, NothingLost, Kept DEF Inv, Ids
  <1> QED
    BY <1>2, <1>3 DEF Inv

LEMMA EvictInv ==
    ASSUME Inv, env' = env, Evict
    PROVE  Inv'
  <1>0. Typed /\ Len(order) \in Nat /\ evicting \in Nat /\ evicting > 0
        /\ Len(order) <= MaxCache + evicting /\ order \in Seq(Nat)
    BY LenProperties DEF Inv, Typed, Evict
  <1>1. UNCHANGED <<defs, rows, saved, entry, held, execs, retrying, init, snaps, jobs, recovering,
                    submits, done, faults>>
    BY DEF Evict, mysql, execVars
  <1>2. /\ \A i \in DOMAIN hist' : hist'[i] \in UUIDs
        /\ order' \in Seq(Nat) /\ evicting' \in Nat /\ Len(order') <= MaxCache + evicting'
    <2>1. CASE Len(order) > MaxCache
      <3>1. order' = Tail(order) /\ hist' = Forget(Head(order))
        BY <2>1 DEF Evict, EvictOldest
      <3>2. order # <<>>
        BY <1>0, <2>1, BoundsAssumption, EmptySeq
      <3>3. order' \in Seq(Nat) /\ Len(order') = Len(order) - 1
        BY <1>0, <3>1, <3>2, HeadTailProperties
      <3>4. evicting' = IF Len(order') > MaxCache THEN evicting ELSE evicting - 1
        BY DEF Evict
      <3>5. \A i \in DOMAIN hist' : hist'[i] \in UUIDs
        BY <1>0, <3>1 DEF Forget, Typed
      <3> QED
        BY <1>0, <2>1, <3>3, <3>4, <3>5, BoundsAssumption
    <2>2. CASE ~(Len(order) > MaxCache)
      <3>1. UNCHANGED <<hist, order>>
        BY <2>2 DEF Evict
      <3>2. evicting' = evicting - 1
        BY <2>2, <3>1 DEF Evict
      <3> QED
        BY <1>0, <2>2, <3>1, <3>2, BoundsAssumption DEF Typed
    <2> QED
      BY <2>1, <2>2
  <1>3. Typed'
    BY <1>0, <1>1, <1>2, KeptTyped DEF Typed, Ids
  <1>4. Sounds'
    BY <1>1, NothingLost, Kept DEF Inv, Ids
  <1> QED
    BY <1>3, <1>4 DEF Inv

(***************************************************************************)
(* The writers.                                                            *)
(***************************************************************************)
LEMMA UpdateExecutionInv ==
    ASSUME Inv, NEW job \in jobs, env' = env, UpdateExecution(job)
    PROVE  Inv'
  <1>0. Typed /\ job \in Jobs /\ job.data \in States /\ JobSound(job, rows, done)
    BY DEF Inv, Typed, Jobs, Sounds, JobsSound
  <1>1. /\ jobs' \subseteq jobs
        /\ UNCHANGED <<defs, saved, entry, held, execs, retrying, init, snaps, hist, order, evicting,
                       recovering, submits, done, faults>>
    BY DEF UpdateExecution, WriteFrame, execVars, histVars
  <1>2. CASE job.exec \notin Ids
    <2>1. rows' = rows
      BY <1>2 DEF UpdateExecution
    <2>2. Typed'
      BY <1>0, <1>1, <2>1, KeptTyped DEF Typed, Ids
    <2>3. Sounds'
      BY <1>1, <2>1, NothingLost, Kept DEF Inv, Ids
    <2> QED
      BY <2>2, <2>3 DEF Inv
  <1>3. CASE job.exec \in Ids
    <2> DEFINE i == job.exec
               row == [rows[i] EXCEPT !.status = job.status, !.data = job.data]
    <2>0. /\ rows[i] \in Rows /\ rows[i].uuid \in UUIDs /\ Ids = 1..Len(rows)
          /\ rows \in [1..Len(rows) -> Rows] /\ Len(rows) \in Nat
      BY <1>0, <1>3, IdsTyped, LenProperties DEF Rows, Typed
    <2>1. rows' = [rows EXCEPT ![i] = row]
      BY <1>3, <2>0 DEF UpdateExecution
    <2>3. row \in Rows /\ row.uuid = rows[i].uuid /\ row.status = job.status /\ row.data = job.data
      BY <1>0, <2>0 DEF Rows, Jobs, Statuses
    <2> HIDE DEF row
    <2>4. /\ rows' \in [1..Len(rows) -> Rows] /\ Ids' = Ids
          /\ \A j \in Ids : rows'[j] = IF j = i THEN row ELSE rows[j]
      BY <1>3, <2>0, <2>1, <2>3 DEF Ids
    <2>5. rows' \in Seq(Rows)
      BY <2>0, <2>4, SeqDef
    <2>6. Grows
      BY <1>1, <2>3, <2>4 DEF Grows, Inv, Sounds, DoneOwn
    <2>7. RowSound(row, rows', done')
      <3>1. /\ i = job.data.exec /\ job.status = job.data.status
            /\ Sound(job.data, job.data.uuid, rows, done)
        BY <1>0 DEF JobSound
      <3>2. i # 0 /\ job.data.uuid = rows[i].uuid
        BY <1>3, <2>0, <3>1 DEF Sound
      <3>3. Sound(job.data, row.uuid, rows', done')
        BY <2>0, <2>3, <2>6, <3>1, <3>2, StillSound
      <3> QED
        BY <2>3, <3>1, <3>3 DEF RowSound, Sound
    <2>8. Typed'
      BY <1>0, <1>1, <2>4, <2>5, KeptTyped DEF Typed
    <2>9. Sounds'
      BY <1>1, <2>4, <2>6, <2>7, Kept
    <2> QED
      BY <2>8, <2>9 DEF Inv
  <1> QED
    BY <1>2, <1>3

LEMMA OtherWriterInv ==
    ASSUME Inv, env' = env,
           \/ \E job \in jobs : PersistLost(job)
           \/ \E s \in snaps : SaveTaskDeltas(s) \/ SnapshotLost(s)
    PROVE  Inv'
  <1>1. /\ jobs' \subseteq jobs /\ snaps' \subseteq snaps /\ saved' \subseteq saved \cup snaps
        /\ faults' = faults \/ Fault
        /\ UNCHANGED <<defs, rows, entry, held, execs, retrying, init, hist, order, evicting,
                       recovering, submits, done>>
    BY DEF PersistLost, SaveTaskDeltas, SnapshotLost, WriteFrame, execVars, histVars
  <1>2. Typed'
    BY <1>1, FaultTyped, KeptTyped DEF Inv, Typed, Ids
  <1>3. Sounds'
    BY <1>1, NothingLost, Kept DEF Inv, Ids
  <1> QED
    BY <1>2, <1>3 DEF Inv

(***************************************************************************)
(* The restart, and the recovery.  A snapshot is an object, so nothing is  *)
(* applied, and a recovered entry is what its row holds.                   *)
(***************************************************************************)
LEMMA NewestTyped ==
    ASSUME Typed
    PROVE  Newest \in Seq(Nat) /\ Len(Newest) <= MaxCache /\ \A k \in DOMAIN Newest : Newest[k] \in Ids
  <1> DEFINE m == IF Len(rows) < MaxCache THEN Len(rows) ELSE MaxCache
  <1>1. Len(rows) \in Nat /\ Ids = 1..Len(rows)
    BY IdsTyped
  <1>2. m \in Nat /\ m <= Len(rows) /\ m <= MaxCache
    BY <1>1, BoundsAssumption
  <1>3. Newest = [k \in 1..m |-> Len(rows) + 1 - k]
    BY DEF Newest
  <1> HIDE DEF m
  <1>4. /\ Newest \in [1..m -> Nat] /\ DOMAIN Newest = 1..m
        /\ \A k \in 1..m : Newest[k] \in 1..Len(rows)
    BY <1>1, <1>2, <1>3
  <1>5. Newest \in Seq(Nat)
    BY <1>2, <1>4, SeqDef
  <1>6. Len(Newest) = m
    BY <1>2, <1>4, <1>5, LenProperties
  <1> QED
    BY <1>1, <1>2, <1>4, <1>5, <1>6

\* What LoadHistory is given.
LEMMA LoadedTyped ==
    ASSUME Typed, NEW ids \in {Newest, <<>>}
    PROVE  ids \in Seq(Nat) /\ Len(ids) <= MaxCache /\ Range(ids) \subseteq Ids
  <1>1. CASE ids = Newest
    BY <1>1, NewestTyped DEF Range
  <1>2. CASE ids = <<>>
    <2>1. ids \in Seq(Nat) /\ Len(ids) = 0
      BY <1>2, EmptySeq
    <2>2. DOMAIN ids = 1..0
      BY <2>1, LenProperties
    <2> QED
      BY <2>1, <2>2, BoundsAssumption DEF Range
  <1> QED
    BY <1>1, <1>2

LEMMA RestartInv ==
    ASSUME Inv, env' = env, Restart
    PROVE  Inv'
  <1>0. Typed
    BY DEF Inv
  <1>1. PICK ids \in {Newest, <<>>} : LoadHistory(ids)
    BY DEF Restart
  <1>2. ids \in Seq(Nat) /\ Len(ids) <= MaxCache /\ Range(ids) \subseteq Ids
    BY <1>0, LoadedTyped
  <1>3. \A i \in DOMAIN hist' : hist'[i] \in UUIDs
    <2>1. hist' = [i \in Range(ids) |-> rows[i].data.uuid]
      BY <1>1 DEF LoadHistory
    <2>2. \A i \in Ids : rows[i].data.uuid \in UUIDs
      BY <1>0, IdsTyped DEF Rows, States
    <2> QED
      BY <1>2, <2>1, <2>2
  <1>4. order' \in Seq(Nat) /\ evicting' \in Nat /\ Len(order') <= MaxCache + evicting'
    BY <1>1, <1>2, LenProperties, BoundsAssumption DEF LoadHistory
  <1>5. entry' \in [UUIDs -> States \cup {None}] /\ \A u \in UUIDs : entry'[u] = None
    BY DEF Restart
  <1>6. init' \in [Runs -> Inits] /\ \A r \in Runs : init'[r].pc = "idle"
    BY <1>0, IdleTyped DEF Restart
  <1>7. recovering' \subseteq Ids
    BY DEF Restart
  <1>8. /\ held' = {} /\ execs' = {} /\ retrying' = {} /\ snaps' = {} /\ jobs' = {}
        /\ UNCHANGED <<defs, rows, saved, submits, done>> /\ faults' \in 0..MaxFaults
    BY <1>0, FaultTyped DEF Restart, mysql
  <1>9. Typed'
    BY <1>0, <1>3, <1>4, <1>5, <1>6, <1>7, <1>8, KeptTyped DEF Typed, Ids
  <1>10. Sounds'
    BY <1>5, <1>6, <1>8, NothingLost, Kept DEF Inv, Ids
  <1> QED
    BY <1>9, <1>10 DEF Inv

LEMMA RestoredIsRow ==
    ASSUME Typed, NEW i \in Ids
    PROVE  Restored(i) = [rows[i].data EXCEPT !.status = "RUNNING", !.recovered = TRUE]
  <1>1. rows[i].data \in States
    BY IdsTyped DEF Rows
  <1>2. Applied(i) = {}
    BY DEF Typed, Snapshots, Applied, Unmarshal
  <1>3. Names(Applied(i), "completed") = {} /\ Names(Applied(i), "failed") = {}
    BY <1>2 DEF Names
  <1> QED
    BY <1>1, <1>3 DEF Restored, States

LEMMA RestoredSound ==
    ASSUME Inv, NEW i \in Ids
    PROVE  /\ rows[i].uuid \in UUIDs /\ Restored(i) \in States
           /\ Sound(Restored(i), rows[i].uuid, rows, done)
           /\ Restored(i).exec = rows[i].data.exec
  <1> DEFINE d == rows[i].data
             e == Restored(i)
  <1>1. rows[i].uuid \in UUIDs /\ d \in States /\ Sound(d, rows[i].uuid, rows, done)
    BY IdsTyped DEF Inv, Rows, Sounds, RowsSound, RowSound
  <1>2. e = [d EXCEPT !.status = "RUNNING", !.recovered = TRUE]
    BY RestoredIsRow DEF Inv
  <1> HIDE DEF d, e
  <1>3. /\ e \in States /\ e.uuid = d.uuid /\ e.exec = d.exec /\ e.completed = d.completed
        /\ e.status = "RUNNING"
    BY <1>1, <1>2 DEF States, Statuses
  <1>4. Sound(e, rows[i].uuid, rows, done)
    BY <1>1, <1>3 DEF Sound
  <1> QED
    BY <1>1, <1>3, <1>4 DEF d, e

LEMMA RecoverInv ==
    ASSUME Inv, env' = env, NEW i \in recovering, RecoverSingleWorkflow(i)
    PROVE  Inv'
  <1> DEFINE u == rows[i].uuid
             e == Restored(i)
             g == StartGroup(u, e.completed)
             x == [uuid |-> u, start |-> <<"recover", i>>, at |-> g]
  <1>0. Typed /\ i \in Ids /\ i \in Nat
    BY IdsTyped DEF Inv, Typed
  <1>1. u \in UUIDs /\ e \in States /\ Sound(e, u, rows, done)
    BY <1>0, RestoredSound
  <1>2. e.completed \subseteq done[u] /\ e.completed \subseteq All(u)
    BY <1>1 DEF Sound, Inv, Sounds, DoneOwn
  <1>3. g \in 1..Groups[u] + 1 /\ 1..g - 1 \subseteq e.completed /\ Groups[u] \in Nat
    BY <1>0, <1>1, <1>2, StartGroupFirst, GroupsTyped
  <1>4. /\ recovering' = recovering \ {i}
        /\ entry' = entry \/ entry' = [entry EXCEPT ![u] = e]
        /\ execs' \subseteq execs \cup {x}
        /\ UNCHANGED <<defs, rows, saved, held, retrying, init, snaps, jobs, hist, order, evicting,
                       submits, done, faults>>
    BY DEF RecoverSingleWorkflow, mysql, histVars
  <1> HIDE DEF e, g
  <1>5. x \in Executors /\ x.uuid = u /\ x.at = g /\ ExecSound(x, done)
    <2>1. x \in Executors /\ x.uuid = u /\ x.at = g
      BY <1>0, <1>1, <1>3 DEF Executors
    <2> QED
      BY <1>2, <1>3, <2>1 DEF ExecSound
  <1> HIDE DEF x, u
  <1>6. /\ entry' \in [UUIDs -> States \cup {None}]
        /\ \A v \in UUIDs : entry'[v] = entry[v] \/ Sound(entry'[v], v, rows, done)
    <2>1. entry' = entry \/ entry' = [entry EXCEPT ![u] = e]
      BY <1>4
    <2>2. \A v \in UUIDs : entry'[v] = entry[v] \/ (v = u /\ entry'[v] = e)
      BY <1>0, <2>1 DEF Typed
    <2>3. entry' \in [UUIDs -> States \cup {None}]
      <3>1. entry \in [UUIDs -> States \cup {None}] /\ u \in UUIDs /\ e \in States
        BY <1>0, <1>1 DEF Typed
      <3> QED
        BY <2>1, <3>1
    <2> QED
      BY <1>1, <2>2, <2>3
  <1>7. /\ execs' \subseteq Executors /\ \A y \in execs' : y.at \in 1..Groups[y.uuid] + 1
        /\ \A y \in execs' : y \in execs \/ ExecSound(y, done)
    BY <1>0, <1>3, <1>4, <1>5 DEF Typed
  <1>8. Typed'
    BY <1>0, <1>4, <1>6, <1>7, KeptTyped DEF Typed, Ids
  <1>9. Sounds'
    BY <1>4, <1>6, <1>7, NothingLost, Kept DEF Inv, Ids
  <1> QED
    BY <1>8, <1>9 DEF Inv

(***************************************************************************)
(* The theorems.                                                           *)
(***************************************************************************)
LEMMA InvNext == Inv /\ [Next]_vars => Inv'
  <1> SUFFICES ASSUME Inv, [Next]_vars PROVE Inv'
    OBVIOUS
  <1>1. CASE Next
    <2>0. env' = env
      BY <1>1 DEF Next
    <2>1. ASSUME NEW u \in UUIDs, WorkflowStep(u) PROVE Inv'
      BY <2>0, <2>1, SubmitInv, DefineInv, RetryInv, CancelInv, FailsInv, ClearFailedInv
      DEF WorkflowStep
    <2>2. ASSUME NEW x \in execs, ExecutorStep(x) \/ TaskFailed(x) \/ TaskSkipped(x) PROVE Inv'
      BY <2>0, <2>2, TaskCompletedInv, FailsInv, FinishInv, ExecutorEndsInv, TaskFailedInv,
         TaskSkippedInv DEF ExecutorStep
    <2>3. CASE Evict
      BY <2>0, <2>3, EvictInv
    <2>4. ASSUME NEW r \in Runs, InitStep(r) PROVE Inv'
      BY <2>0, <2>4, InitStepInv, CreateExecutionInv, LinkExecutionInv DEF InitStep
    <2>5. CASE WriterStep
      BY <2>0, <2>5, UpdateExecutionInv, OtherWriterInv DEF WriterStep
    <2>6. CASE Restart
      BY <2>0, <2>6, RestartInv
    <2>7. ASSUME NEW i \in recovering, RecoverSingleWorkflow(i) PROVE Inv'
      BY <2>0, <2>7, RecoverInv
    <2> QED
      BY <1>1, <2>1, <2>2, <2>3, <2>4, <2>5, <2>6, <2>7 DEF Next, Step
  <1>2. CASE UNCHANGED vars
    <2>0. UNCHANGED <<env, defs, rows, saved, entry, held, execs, retrying, init, snaps, jobs, hist,
                      order, evicting, recovering, submits, done, faults>>
      BY <1>2 DEF vars, mysql, execVars, histVars
    <2>1. Typed'
      BY <2>0, KeptTyped DEF Inv, Typed, Ids
    <2>2. Sounds'
      BY <2>0, NothingLost, Kept DEF Inv, Ids
    <2> QED
      BY <2>1, <2>2 DEF Inv
  <1> QED
    BY <1>1, <1>2

LEMMA InvInit == Init => Inv
  <1> SUFFICES ASSUME Init PROVE Inv
    OBVIOUS
  <1>1. rows \in Seq(Rows) /\ order \in Seq(Nat) /\ Len(order) = 0 /\ Ids = {}
    BY DEF Init, Ids
  <1>2. Idle \in Inits /\ Idle.pc = "idle"
    BY DEF Idle, Inits
  <1>3. Typed
    BY <1>1, <1>2, BoundsAssumption DEF Init, Typed
  <1>4. Sounds
    BY <1>1, <1>2 DEF Init, Sounds, EntriesSound, HeldSound, ExecsSound, RowsSound, JobsSound,
                      InitsSound, InitSound, DoneOwn
  <1> QED
    BY <1>3, <1>4 DEF Inv

\* No executor is ahead of the work, for any workflows, submissions and faults: also
\* when it goes on from a row that was copied while its tasks went on, and when it has
\* outlived the run it was started for.
THEOREM RecoveryNeverSkips == Spec => []NeverSkips
  <1>1. Inv => NeverSkips
    BY DEF Inv, Sounds, ExecsSound, ExecSound, NeverSkips
  <1> QED
    BY <1>1, InvInit, InvNext, PTL DEF Spec

\* An execution that MySQL calls COMPLETED is one of a workflow whose every task was
\* completed or skipped, whichever run's executor ended it and whichever state was
\* written over its row.
THEOREM RecoveryCompletedInFact == Spec => []CompletedInFact
  <1>1. Inv => CompletedInFact
    BY DEF Inv, Sounds, RowsSound, RowSound, CompletedInFact
  <1> QED
    BY <1>1, InvInit, InvNext, PTL DEF Spec

\* The types hold: the history is over MaxHistoryCache by no more than the calls that
\* have yet to evict, and what is recovered is in the table.
THEOREM RecoveryTyped == Spec => []TypeOK
  <1>1. ASSUME Inv PROVE TypeOK
    <2>1. \A i \in Ids : rows[i] \in Rows
      BY <1>1, IdsTyped DEF Inv
    <2>2. \A u \in UUIDs : entry[u] = None \/ (entry[u] \in States /\ entry[u].uuid = u)
      BY <1>1, EntryIs DEF Sound
    <2>3. \A x \in execs : x.uuid \in UUIDs /\ x.at \in 1..Groups[x.uuid] + 1
      BY <1>1, ExecutorIs
    <2> QED
      BY <1>1, <2>1, <2>2, <2>3 DEF Inv, Typed, TypeOK, Rows, Inits, Jobs
  <1> QED
    BY <1>1, InvInit, InvNext, PTL DEF Spec

=============================================================================
