------------------------- MODULE GroupExecutorProofs -------------------------
(***************************************************************************)
(* Proofs that no channel of a task group is closed twice (ClosedOnce),    *)
(* that the types hold, that no listener set is left behind                *)
(* (NoListenerLeft), that each call gets its own answer (ResultsOwned) and *)
(* when the watcher may send on a closed channel (PanicNeedsLateness), for *)
(* any group: any number of calls, shared names, fan-outs, iterations and  *)
(* faults.                                                                 *)
(*                                                                         *)
(* ClosedOnce.  A channel has one owner at a time: it is made by its       *)
(* call, then registered in one listener set, then taken out by one call   *)
(* or by cleanupTaskListeners, and whoever takes it closes it.  Calls find *)
(* channels by name, so the one that closes need not be the one that made  *)
(* it.  A channel that was registered is of a call that got past           *)
(* registering in the same or an earlier iteration, so the channel a call  *)
(* registers is always new.                                                *)
(***************************************************************************)
EXTENDS GroupExecutor, FiniteSetTheorems, TLAPS

\* Where a call has not registered its channel yet.
Early == {"sem", "push", "lookup", "register"}

Registrations == {c[3] : c \in chans}

Used(ch) == \/ ch \in closed
            \/ ch \in Registrations
            \/ \E y \in Calls : took[y] = ch

ChannelTyped ==
    /\ pc \in [Calls -> Locations]
    /\ took \in [Calls -> Channels \cup {None}]
    /\ Registrations \subseteq Channels
    /\ closed \subseteq Channels
    /\ iteration \in Nat

RegisteredOpen == Registrations \cap closed = {}

RegisteredOnce == \A c, d \in chans : c[3] = d[3] => c = d

TakenOwned ==
    \A x \in Calls :
        took[x] # None =>
            /\ took[x] \notin closed /\ took[x] \notin Registrations
            /\ \A y \in Calls : took[y] = took[x] => y = x

Fresh ==
    \A x \in Calls, i \in Nat :
        Used(<<x, i>>) => i <= iteration /\ (i = iteration => pc[x] \notin Early)

ChannelInv ==
    /\ ChannelTyped
    /\ RegisteredOpen /\ RegisteredOnce /\ TakenOwned /\ Fresh
    /\ ClosedOnce

\* A step that touches no channel, and moves no call back to where it has yet
\* to register.
Quiet ==
    /\ UNCHANGED <<chans, closed, took, iteration>>
    /\ pc' \in [Calls -> Locations]
    /\ \A x \in Calls : pc'[x] \in Early => pc[x] \in Early
    /\ panic' # "close"

LEMMA QuietInv == ASSUME ChannelInv, Quiet PROVE ChannelInv'
  <1>1. Registrations' = Registrations
    BY DEF Quiet, Registrations
  <1>2. \A ch : Used(ch)' <=> Used(ch)
    BY <1>1 DEF Quiet, Used
  <1>3. Fresh'
    BY <1>2 DEF ChannelInv, Fresh, Quiet
  <1>4. ChannelTyped' /\ RegisteredOpen' /\ RegisteredOnce' /\ TakenOwned' /\ ClosedOnce'
    BY <1>1 DEF ChannelInv, ChannelTyped, RegisteredOpen, RegisteredOnce, TakenOwned,
                ClosedOnce, Quiet
  <1> QED
    BY <1>3, <1>4 DEF ChannelInv

\* A call moves on without touching a channel.
LEMMA GotoQuiet ==
    ASSUME ChannelInv, NEW x \in Calls, NEW l \in Locations, Goto(x, l),
           l \in Early => pc[x] \in Early,
           UNCHANGED <<chans, closed, took, iteration, panic>>
    PROVE  ChannelInv'
  <1>1. Quiet
    BY DEF Goto, Quiet, ChannelInv, ChannelTyped, ClosedOnce
  <1> QED
    BY <1>1, QuietInv

\* A registered channel is new.
LEMMA RegisterInv ==
    ASSUME ChannelInv, NEW x \in Calls, RegisterTaskListener(x)
    PROVE  ChannelInv'
  <1> DEFINE ch == Channel(x)
             new == <<wl[x], Name[x], ch>>
  <1>1. ~Used(ch) /\ ch \in Channels
    BY DEF RegisterTaskListener, ChannelInv, ChannelTyped, Fresh, Channel, Channels, Early
  <1>2. /\ chans' = (chans \ At(wl[x], Name[x])) \cup {new}
        /\ pc' = [pc EXCEPT ![x] = "wait"]
        /\ UNCHANGED <<closed, took, iteration, panic>>
    BY DEF RegisterTaskListener, Goto, CallFrame, groupVars
  <1>3. new[3] = ch
    OBVIOUS
  <1>4. Registrations' \subseteq Registrations \cup {ch}
    BY <1>2, <1>3 DEF Registrations
  <1>5. ChannelTyped'
    BY <1>1, <1>2, <1>4 DEF ChannelInv, ChannelTyped, Locations
  <1>6. RegisteredOpen'
    BY <1>1, <1>2, <1>4 DEF ChannelInv, RegisteredOpen, Used
  <1>7. RegisteredOnce'
    <2> SUFFICES ASSUME NEW c \in chans', NEW d \in chans', c[3] = d[3]
                 PROVE  c = d
      BY DEF RegisteredOnce
    <2>1. \A e \in chans : e[3] # ch
      BY <1>1 DEF Used, Registrations
    <2> QED
      BY <1>2, <1>3, <2>1 DEF ChannelInv, RegisteredOnce
  <1>8. TakenOwned'
    BY <1>1, <1>2, <1>4 DEF ChannelInv, TakenOwned, Used
  <1>9. Fresh'
    <2> SUFFICES ASSUME NEW y \in Calls, NEW i \in Nat, Used(<<y, i>>)'
                 PROVE  i <= iteration /\ (i = iteration => pc'[y] \notin Early)
      BY <1>2 DEF Fresh
    <2>1. Used(<<y, i>>) \/ <<y, i>> = <<x, iteration>>
      BY <1>2, <1>4 DEF Used, Channel
    <2>2. CASE Used(<<y, i>>)
      BY <1>2, <2>2 DEF ChannelInv, ChannelTyped, Fresh, Early
    <2>3. CASE <<y, i>> = <<x, iteration>>
      BY <1>2, <2>3 DEF ChannelInv, ChannelTyped, Early
    <2> QED
      BY <2>1, <2>2, <2>3
  <1> QED
    BY <1>2, <1>5, <1>6, <1>7, <1>8, <1>9 DEF ChannelInv, ClosedOnce

\* What a look-up by name finds is registered under that name.
LEMMA FoundIsRegistered ==
    ASSUME NEW w, NEW n, At(w, n) # {}
    PROVE  (CHOOSE c \in chans : c \in At(w, n)) \in At(w, n)
  <1>1. \E c \in chans : c \in At(w, n)
    BY DEF At, In
  <1> QED
    BY <1>1

\* unregisterTaskListener takes the channel of its name out of the set: nobody
\* else can take it any more.
LEMMA TakeInv ==
    ASSUME ChannelInv, NEW x \in Calls, TakeListener(x)
    PROVE  ChannelInv'
  <1> DEFINE S == At(wl[x], Name[x])
             ch == Registered(x)
  <1>1. /\ chans' = chans \ S
        /\ took' = [took EXCEPT ![x] = ch]
        /\ UNCHANGED <<closed, iteration, panic>>
        /\ \E l \in {"purge", "close"} : pc' = [pc EXCEPT ![x] = l]
    BY DEF TakeListener, Goto, CallFrame, groupVars
  <1>2. Registrations' \subseteq Registrations
    BY <1>1 DEF Registrations
  <1>3. CASE S = {}
    <2>1. ch = None
      BY <1>3 DEF Registered
    <2>2. \A y \in Calls : took'[y] # None => took'[y] = took[y] /\ y # x
      BY <1>1, <2>1 DEF ChannelInv, ChannelTyped
    <2>3. \A k : k # None /\ Used(k)' => Used(k)
      BY <1>1, <1>2, <2>2 DEF Used
    <2>4. \A y \in Calls, i \in Nat : <<y, i>> # None
      BY NoneAssumption
    <2>5. Fresh'
      BY <1>1, <2>3, <2>4 DEF ChannelInv, ChannelTyped, Fresh, Early
    <2>6. ChannelTyped'
      BY <1>1, <1>2, <2>1 DEF ChannelInv, ChannelTyped, Locations
    <2>7. TakenOwned'
      BY <1>1, <1>2, <2>2 DEF ChannelInv, TakenOwned
    <2> QED
      BY <1>1, <1>2, <2>5, <2>6, <2>7
      DEF ChannelInv, RegisteredOpen, RegisteredOnce, ClosedOnce
  <1>4. CASE S # {}
    <2>1. PICK c \in S : ch = c[3]
      BY <1>4, FoundIsRegistered DEF Registered
    <2>2. c \in chans /\ ch \in Registrations
      BY <2>1 DEF At, In, Registrations
    <2>3. ch \notin Registrations'
      BY <1>1, <2>1, <2>2 DEF ChannelInv, RegisteredOnce, Registrations
    <2>4. \A y \in Calls : took[y] # ch
      BY <2>2, NoneAssumption DEF ChannelInv, ChannelTyped, TakenOwned, Channels
    <2>5. ChannelTyped'
      BY <1>1, <1>2, <2>2 DEF ChannelInv, ChannelTyped, Locations
    <2>6. took'[x] = ch /\ \A y \in Calls : y # x => took'[y] = took[y]
      BY <1>1 DEF ChannelInv, ChannelTyped
    <2>7. TakenOwned'
      BY <1>1, <1>2, <2>2, <2>3, <2>4, <2>6 DEF ChannelInv, RegisteredOpen, TakenOwned
    <2>8. \A k : Used(k)' => Used(k)
      BY <1>1, <1>2, <2>2, <2>6 DEF Used
    <2>9. Fresh'
      BY <1>1, <2>8 DEF ChannelInv, ChannelTyped, Fresh, Early
    <2> QED
      BY <1>1, <1>2, <2>5, <2>7, <2>9
      DEF ChannelInv, RegisteredOpen, RegisteredOnce, ClosedOnce
  <1> QED
    BY <1>3, <1>4

\* The channel a call has taken is closed, and no call holds it any more.
LEMMA CloseInv ==
    ASSUME ChannelInv, NEW x \in Calls, Close(x)
    PROVE  ChannelInv'
  <1>1. /\ closed' = closed \cup ({took[x]} \ {None})
        /\ panic' = IF took[x] \in closed THEN "close" ELSE panic
        /\ took' = [took EXCEPT ![x] = None]
        /\ pc' = [pc EXCEPT ![x] = "done"]
        /\ UNCHANGED <<chans, iteration>>
    BY DEF Close, Goto, CallFrame, groupVars
  <1>2. Registrations' = Registrations
    BY <1>1 DEF Registrations
  <1>3. took'[x] = None /\ \A y \in Calls : y # x => took'[y] = took[y]
    BY <1>1 DEF ChannelInv, ChannelTyped
  <1>4. ClosedOnce'
    <2>1. None \notin closed
      BY NoneAssumption DEF ChannelInv, ChannelTyped, Channels
    <2>2. took[x] \notin closed
      BY <2>1 DEF ChannelInv, TakenOwned
    <2> QED
      BY <1>1, <2>2 DEF ChannelInv, ClosedOnce
  <1>5. ChannelTyped'
    BY <1>1, <1>2 DEF ChannelInv, ChannelTyped, Locations
  <1>6. RegisteredOpen'
    BY <1>1, <1>2 DEF ChannelInv, RegisteredOpen, TakenOwned
  <1>7. TakenOwned'
    BY <1>1, <1>2, <1>3 DEF ChannelInv, TakenOwned
  <1>8. \A k : k # None /\ Used(k)' => Used(k)
    BY <1>1, <1>2, <1>3 DEF Used
  <1>9. Fresh'
    <2>1. \A y \in Calls, i \in Nat : <<y, i>> # None
      BY NoneAssumption
    <2> QED
      BY <1>1, <1>8, <2>1 DEF ChannelInv, ChannelTyped, Fresh, Early
  <1> QED
    BY <1>1, <1>4, <1>5, <1>6, <1>7, <1>9 DEF ChannelInv, RegisteredOnce

\* cleanupTaskListeners takes out and closes whatever is left in the set.
LEMMA CleanupInv ==
    ASSUME ChannelInv, CleanupTaskListeners
    PROVE  ChannelInv'
  <1> DEFINE S == In(cleaner.wl)
             found == {c[3] : c \in S}
  <1>1. /\ closed' = closed \cup found
        /\ panic' = IF found \cap closed # {} THEN "close" ELSE panic
        /\ chans' = chans \ S
        /\ UNCHANGED <<pc, took, iteration>>
    BY DEF CleanupTaskListeners, OutsideFrame, callVars, groupVars
  <1>2. S \subseteq chans /\ found \subseteq Registrations
    BY DEF In, Registrations
  <1>3. Registrations' \subseteq Registrations /\ Registrations' \cap found = {}
    BY <1>1, <1>2 DEF ChannelInv, RegisteredOnce, Registrations
  <1>4. ClosedOnce'
    BY <1>1, <1>2 DEF ChannelInv, RegisteredOpen, ClosedOnce
  <1>5. ChannelTyped'
    BY <1>1, <1>2, <1>3 DEF ChannelInv, ChannelTyped
  <1>6. RegisteredOpen'
    BY <1>1, <1>3 DEF ChannelInv, RegisteredOpen
  <1>7. TakenOwned'
    BY <1>1, <1>2, <1>3 DEF ChannelInv, TakenOwned
  <1>8. \A k : Used(k)' => Used(k)
    BY <1>1, <1>2, <1>3 DEF Used
  <1>9. Fresh'
    BY <1>1, <1>8 DEF ChannelInv, Fresh
  <1> QED
    BY <1>1, <1>4, <1>5, <1>6, <1>7, <1>9 DEF ChannelInv, RegisteredOnce

\* The next iteration of a loop makes channels with a number of their own.
LEMMA IterationInv ==
    ASSUME ChannelInv, NextIteration
    PROVE  ChannelInv'
  <1>1. UNCHANGED <<chans, closed, took, panic>>
    BY DEF NextIteration, GroupFrame, listenerVars
  <1>2. CASE live = 1
    <2>1. iteration' = iteration + 1 /\ pc' = Begin(env)
      BY <1>2 DEF NextIteration
    <2>2. pc' \in [Calls -> Locations]
      BY <2>1 DEF Begin, Locations
    <2>3. Registrations' = Registrations
      BY <1>1 DEF Registrations
    <2>4. \A k : Used(k)' <=> Used(k)
      BY <1>1, <2>3 DEF Used
    <2>5. Fresh'
      BY <2>1, <2>4 DEF ChannelInv, ChannelTyped, Fresh
    <2>6. ChannelTyped'
      BY <1>1, <2>1, <2>2, <2>3 DEF ChannelInv, ChannelTyped
    <2> QED
      BY <1>1, <2>3, <2>5, <2>6
      DEF ChannelInv, RegisteredOpen, RegisteredOnce, TakenOwned, ClosedOnce
  <1>3. CASE live # 1
    <2>1. UNCHANGED <<iteration, pc>>
      BY <1>3 DEF NextIteration
    <2>2. Quiet
      BY <1>1, <2>1 DEF Quiet, ChannelInv, ChannelTyped, ClosedOnce
    <2> QED
      BY <2>2, QuietInv
  <1> QED
    BY <1>2, <1>3

LEMMA CallInv ==
    ASSUME ChannelInv, NEW x \in Calls, CallStep(x)
    PROVE  ChannelInv'
  <1> USE DEF CallFrame, groupVars, listenerVars, Locations, Early
  <1>1. CASE Acquire(x)
    BY <1>1, GotoQuiet DEF Acquire
  <1>2. CASE PushTask(x)
    BY <1>2, GotoQuiet DEF PushTask
  <1>3. CASE PushTaskError(x)
    BY <1>3, GotoQuiet DEF PushTaskError
  <1>4. CASE GetOrCreateListeners(x)
    BY <1>4, GotoQuiet DEF GetOrCreateListeners
  <1>5. CASE RegisterTaskListener(x)
    BY <1>5, RegisterInv
  <1>6. CASE Leave(x)
    BY <1>6, GotoQuiet DEF Leave
  <1>7. CASE FindListeners(x)
    <2>1. CASE registry = 0
      BY <1>7, <2>1, GotoQuiet DEF FindListeners
    <2>2. CASE registry # 0
      BY <1>7, <2>2, GotoQuiet DEF FindListeners
    <2> QED
      BY <2>1, <2>2
  <1>8. CASE TakeListener(x)
    BY <1>8, TakeInv
  <1>9. CASE Purge(x)
    BY <1>9, GotoQuiet DEF Purge
  <1>10. CASE Close(x)
    BY <1>10, CloseInv
  <1> QED
    BY <1>1, <1>2, <1>3, <1>4, <1>5, <1>6, <1>7, <1>8, <1>9, <1>10
    DEF CallStep, Receive, Watchdog, Cancelled, GiveUp

LEMMA OtherInv ==
    ASSUME ChannelInv, WatcherStep \/ RetryStep \/ WorkerStep \/ OutsideStep \/ GroupStep
    PROVE  ChannelInv'
  <1>1. CASE WatcherStep
    <2>1. UNCHANGED <<chans, closed, took, iteration, pc>>
      BY <1>1 DEF WatcherStep, IgnoreEvent, TakeEvent, NotifyFinds, NotifyFetches, NotifySends,
                  HandleRetry, HandleTaskFailed, WatchFrame, listenerVars, callVars, groupVars
    <2>2. panic' = panic \/ panic' = "send"
      BY <1>1 DEF WatcherStep, IgnoreEvent, TakeEvent, NotifyFinds, NotifyFetches, NotifySends,
                  HandleRetry, HandleTaskFailed
    <2>3. Quiet
      BY <2>1, <2>2 DEF Quiet, ChannelInv, ChannelTyped, ClosedOnce
    <2> QED
      BY <2>3, QuietInv
  <1>7. CASE RetryStep
    <2>1. Quiet
      BY <1>7 DEF RetryStep, RetryTask, RetryStops, ClearFailedTask, RetryFrame, listenerVars,
                  callVars, groupVars, Quiet, ChannelInv, ChannelTyped, ClosedOnce
    <2> QED
      BY <2>1, QuietInv
  <1>2. CASE WorkerStep
    <2>1. Quiet
      BY <1>2 DEF WorkerStep, Claim, Report, WorkFrame, listenerVars, callVars, groupVars,
                  Quiet, ChannelInv, ChannelTyped, ClosedOnce
    <2> QED
      BY <2>1, QuietInv
  <1>3. CASE CancelWorkflow \/ CleanupWorkflowState \/ Shutdown
    <2>1. Quiet
      BY <1>3 DEF CancelWorkflow, CleanupWorkflowState, Shutdown, OutsideFrame, callVars,
                  groupVars, Quiet, ChannelInv, ChannelTyped, ClosedOnce
    <2> QED
      BY <2>1, QuietInv
  <1>4. CASE CleanupTaskListeners
    BY <1>4, CleanupInv
  <1>5. CASE TrackSubWorkflow \/ GroupFails \/ LoopCancelled \/ GroupEnds
    <2>1. Quiet
      BY <1>5 DEF TrackSubWorkflow, GroupFails, LoopCancelled, GroupEnds, GroupFrame,
                  listenerVars, Quiet, ChannelInv, ChannelTyped, ClosedOnce
    <2> QED
      BY <2>1, QuietInv
  <1>6. CASE NextIteration
    BY <1>6, IterationInv
  <1> QED
    BY <1>1, <1>2, <1>3, <1>4, <1>5, <1>6, <1>7 DEF OutsideStep, GroupStep

LEMMA ChannelNext == ChannelInv /\ [Next]_vars => ChannelInv'
  <1> SUFFICES ASSUME ChannelInv, [Next]_vars PROVE ChannelInv'
    OBVIOUS
  <1>1. CASE Next
    BY <1>1, CallInv, OtherInv DEF Next, MasterStep
  <1>2. CASE UNCHANGED vars
    <2>1. Quiet
      BY <1>2 DEF vars, listenerVars, callVars, groupVars, Quiet, ChannelInv, ChannelTyped,
                  ClosedOnce
    <2> QED
      BY <2>1, QuietInv
  <1> QED
    BY <1>1, <1>2

LEMMA ChannelInit == Init => ChannelInv
  <1> SUFFICES ASSUME Init PROVE ChannelInv
    OBVIOUS
  <1>1. /\ chans = {} /\ closed = {} /\ iteration = 1 /\ panic = "none"
        /\ took = [x \in Calls |-> None] /\ pc = Begin(env)
    BY DEF Init
  <1>2. Registrations = {}
    BY <1>1 DEF Registrations
  <1>3. ChannelTyped
    BY <1>1, <1>2 DEF ChannelTyped, Begin, Locations
  <1>4. Fresh
    <2>1. \A y \in Calls, i \in Nat : <<y, i>> # None
      BY NoneAssumption
    <2> QED
      BY <1>1, <1>2, <2>1 DEF Fresh, Used
  <1> QED
    BY <1>1, <1>2, <1>3, <1>4
    DEF ChannelInv, RegisteredOpen, RegisteredOnce, TakenOwned, ClosedOnce

\* No channel of a group is closed twice, by two calls of one name, or by a call
\* and cleanupTaskListeners, for any group, any number of calls and iterations,
\* and however registering, taking out, purging and cleaning up interleave.
THEOREM GroupClosedOnce == Spec => []ClosedOnce
  <1>1. ChannelInv => ClosedOnce
    BY DEF ChannelInv
  <1> QED
    BY <1>1, ChannelInit, ChannelNext, PTL DEF Spec

(***************************************************************************)
(* The types, with what the watcher knows of the event it has taken and a  *)
(* call of the set it is about to register in.                             *)
(***************************************************************************)
TypedInv ==
    /\ TypeOK
    /\ watcher.pc # "idle" => watcher.event \in Channels
    /\ \A x \in Calls : pc[x] = "register" => wl[x] # 0

LEMMA TypedChannel == ASSUME TypedInv, NEW x \in Calls PROVE Channel(x) \in Channels
  BY EnvironmentsAssumption DEF TypedInv, TypeOK, Channel, Channels

LEMMA TypedCall ==
    ASSUME TypedInv, NEW x \in Calls, CallStep(x)
    PROVE  TypedInv'
  <1>0. Channel(x) \in Channels /\ Name[x] \in Names
    BY TypedChannel, CallsAssumption
  <1> USE DEF TypedInv, TypeOK, CallFrame, groupVars, listenerVars, taskVars, retryVars,
             Locations, Goto
  <1>1. CASE Acquire(x)
    BY <1>1 DEF Acquire
  <1>2. CASE PushTask(x)
    BY <1>0, <1>2 DEF PushTask
  <1>3. CASE PushTaskError(x)
    BY <1>3 DEF PushTaskError
  <1>4. CASE GetOrCreateListeners(x)
    BY <1>4 DEF GetOrCreateListeners
  <1>5. CASE RegisterTaskListener(x)
    <2>1. wl[x] \in 1..made
      BY <1>5 DEF RegisterTaskListener
    <2>2. <<wl[x], Name[x], Channel(x)>> \in (1..made) \X Names \X Channels
      BY <1>0, <2>1
    <2>3. chans' \subseteq (1..made') \X Names \X Channels
      BY <1>5, <2>2 DEF RegisterTaskListener
    <2> QED
      BY <1>5, <2>3 DEF RegisterTaskListener
  <1>6. CASE Receive(x)
    BY <1>6 DEF Receive, Leave
  <1>7. CASE GiveUp(x)
    BY <1>7 DEF GiveUp, Leave
  <1>8. CASE FindListeners(x)
    BY <1>8 DEF FindListeners
  <1>9. CASE TakeListener(x)
    <2>1. Registered(x) \in Channels \cup {None}
      BY FoundIsRegistered DEF Registered, At, In
    <2> QED
      BY <1>9, <2>1 DEF TakeListener
  <1>10. CASE Purge(x)
    BY <1>10 DEF Purge
  <1>11. CASE Close(x)
    BY <1>11 DEF Close
  <1> QED
    BY <1>1, <1>2, <1>3, <1>4, <1>5, <1>6, <1>7, <1>8, <1>9, <1>10, <1>11
    DEF CallStep, Watchdog, Cancelled

Watchers == [pc : {"idle", "find", "fetch", "send", "policy"}, event : Channels \cup {None},
             status : Statuses, wl : 0..made, ch : Channels \cup {None}]
Informed(w) == w \in Watchers /\ (w.pc # "idle" => w.event \in Channels)

\* A step of the watcher has to give it, and a channel, values of their types.
LEMMA WatcherTypes ==
    ASSUME TypedInv, WatchFrame, Informed(watcher'), events' \subseteq events,
           failed' \subseteq Names, retrying' \subseteq Channels \X {"backoff", "clear"},
           attempts' \subseteq Channels \X (1..env.retries),
           box' \in [Calls -> (Channels \X Statuses) \cup {None}],
           live' \in {0, 1}, panic' \in {"none", "send", "close"}
    PROVE  TypedInv'
  BY DEF TypedInv, TypeOK, WatchFrame, groupVars, listenerVars, callVars, Informed, Watchers

LEMMA AfterNotifyTyped ==
    ASSUME TypedInv, watcher.pc # "idle"
    PROVE  Informed(Idle) /\ Informed(AfterNotify)
  <1>1. Informed(Idle)
    BY DEF TypedInv, TypeOK, Informed, Watchers, Idle, Statuses
  <1>2. Informed([watcher EXCEPT !.pc = "policy", !.ch = None])
    BY DEF TypedInv, TypeOK, Informed, Watchers
  <1> QED
    BY <1>1, <1>2 DEF AfterNotify

LEMMA TypedWatcher ==
    ASSUME TypedInv, WatcherStep
    PROVE  TypedInv'
  <1>0. /\ box \in [Calls -> (Channels \X Statuses) \cup {None}]
        /\ live \in {0, 1} /\ panic \in {"none", "send", "close"}
        /\ registry \in 0..made /\ watcher \in Watchers
        /\ watcher.pc # "idle" => watcher.event \in Channels
        /\ failed \subseteq Names /\ retrying \subseteq Channels \X {"backoff", "clear"}
        /\ attempts \subseteq Channels \X (1..env.retries)
    BY DEF TypedInv, TypeOK, Watchers
  <1> USE DEF retryVars
  <1>6. ASSUME NEW ev \in events, IgnoreEvent(ev) PROVE TypedInv'
    <2>1. Informed(watcher')
      BY <1>0, <1>6 DEF IgnoreEvent, Informed, Watchers, WatchFrame, listenerVars
    <2> QED
      BY <1>0, <1>6, <2>1, WatcherTypes DEF IgnoreEvent
  <1>1. ASSUME NEW ev \in events, TakeEvent(ev) PROVE TypedInv'
    <2>1. ev[1] \in Channels /\ ev[2] \in Statuses
      BY DEF TypedInv, TypeOK
    <2>2. 0 \in 0..made
      BY DEF TypedInv, TypeOK
    <2>3. watcher' = [pc |-> "find", event |-> ev[1], status |-> ev[2], wl |-> 0, ch |-> None]
      BY <1>1 DEF TakeEvent, Idle
    <2>4. Informed(watcher')
      BY <2>1, <2>2, <2>3 DEF Informed, Watchers
    <2>5. failed' \subseteq Names
      BY <1>0, <1>1, <2>1, CallsAssumption DEF TakeEvent, TaskName, Channels
    <2> QED
      BY <1>0, <1>1, <2>4, <2>5, WatcherTypes DEF TakeEvent
  <1>2. CASE NotifyFinds
    <2>1. Informed([watcher EXCEPT !.pc = "fetch", !.wl = registry])
      BY <1>0, <1>2 DEF NotifyFinds, Informed, Watchers
    <2>2. Informed(watcher')
      BY <1>2, <2>1, AfterNotifyTyped DEF NotifyFinds
    <2> QED
      BY <1>0, <1>2, <2>2, WatcherTypes DEF NotifyFinds
  <1>3. CASE NotifyFetches
    <2> DEFINE found == At(watcher.wl, Name[watcher.event[1]])
               ch == (CHOOSE c \in chans : c \in found)[3]
    <2>1. ASSUME found # {} PROVE ch \in Channels
      <3>1. \E c \in chans : c \in found
        BY <2>1 DEF At, In
      <3>2. (CHOOSE c \in chans : c \in found) \in chans
        BY <3>1
      <3> QED
        BY <3>2 DEF TypedInv, TypeOK
    <2>2. watcher' = IF found = {} THEN AfterNotify
                     ELSE [watcher EXCEPT !.pc = "send", !.ch = ch]
      BY <1>3 DEF NotifyFetches, TaskName
    <2> HIDE DEF found, ch
    <2>3. ASSUME found # {} PROVE Informed([watcher EXCEPT !.pc = "send", !.ch = ch])
      BY <1>0, <1>3, <2>1, <2>3 DEF NotifyFetches, Informed, Watchers
    <2>4. Informed(watcher')
      BY <1>3, <2>2, <2>3, AfterNotifyTyped DEF NotifyFetches
    <2> QED
      BY <1>0, <1>3, <2>4, WatcherTypes DEF NotifyFetches
  <1>4. CASE NotifySends
    <2>1. watcher.event \in Channels /\ watcher.status \in Statuses
      BY <1>0, <1>4 DEF NotifySends, Watchers
    <2>2. box' \in [Calls -> (Channels \X Statuses) \cup {None}]
      <3> DEFINE p == <<watcher.event, watcher.status>>
      <3>1. p \in Channels \X Statuses
        BY <2>1
      <3>2. box' = box \/ \E x \in Calls : box' = [box EXCEPT ![x] = p]
        BY <1>0, <1>4 DEF NotifySends
      <3> HIDE DEF p
      <3> QED
        BY <1>0, <3>1, <3>2
    <2>3. Informed(watcher')
      BY <1>4, AfterNotifyTyped DEF NotifySends
    <2> QED
      BY <1>0, <1>4, <2>2, <2>3, WatcherTypes DEF NotifySends
  <1>5. CASE HandleTaskFailed
    <2>1. Informed([watcher EXCEPT !.pc = "find", !.status = "COMPLETED"])
      BY <1>0, <1>5 DEF HandleTaskFailed, Informed, Watchers, Statuses
    <2>2. Informed(watcher')
      BY <1>5, <2>1, AfterNotifyTyped DEF HandleTaskFailed
    <2> QED
      BY <1>0, <1>5, <2>2, WatcherTypes DEF HandleTaskFailed
  <1>7. CASE HandleRetry
    <2>1. Informed(watcher')
      BY <1>7, AfterNotifyTyped DEF HandleRetry
    <2>2. PICK k \in NextRetry(watcher.event) :
              attempts' = attempts \cup {<<watcher.event, k>>}
      BY <1>7 DEF HandleRetry
    <2>3. k \in 1..env.retries /\ watcher.event \in Channels
      BY <1>0, <1>7, <2>2 DEF NextRetry, HandleRetry
    <2>4. attempts' \subseteq Channels \X (1..env.retries)
      BY <1>0, <2>2, <2>3
    <2>5. retrying' \subseteq Channels \X {"backoff", "clear"}
      BY <1>0, <1>7, <2>3 DEF HandleRetry
    <2> QED
      BY <1>0, <1>7, <2>1, <2>4, <2>5, WatcherTypes DEF HandleRetry
  <1> QED
    BY <1>1, <1>2, <1>3, <1>4, <1>5, <1>6, <1>7 DEF WatcherStep

LEMMA TypedRetry ==
    ASSUME TypedInv, RetryStep
    PROVE  TypedInv'
  <1> USE DEF TypedInv, TypeOK, RetryFrame, groupVars, listenerVars, callVars
  <1>1. PICK t \in retrying : RetryTask(t[1]) \/ RetryStops(t[1]) \/ ClearFailedTask(t[1])
    BY DEF RetryStep
  <1>2. t[1] \in Channels
    OBVIOUS
  <1>3. CASE RetryTask(t[1])
    BY <1>2, <1>3 DEF RetryTask
  <1>4. CASE RetryStops(t[1])
    BY <1>4 DEF RetryStops
  <1>5. CASE ClearFailedTask(t[1])
    BY <1>5 DEF ClearFailedTask
  <1> QED
    BY <1>1, <1>3, <1>4, <1>5

LEMMA TypedWorker ==
    ASSUME TypedInv, WorkerStep
    PROVE  TypedInv'
  <1> USE DEF TypedInv, TypeOK, WorkFrame, groupVars, listenerVars, callVars, retryVars
  <1>1. ASSUME NEW ch \in pending, Claim(ch) PROVE TypedInv'
    BY <1>1 DEF Claim
  <1>2. ASSUME NEW ch \in working, NEW s \in Statuses, Report(ch, s) PROVE TypedInv'
    BY <1>2 DEF Report
  <1> QED
    BY <1>1, <1>2 DEF WorkerStep

LEMMA TypedOutside ==
    ASSUME TypedInv, OutsideStep
    PROVE  TypedInv'
  <1> USE DEF TypedInv, TypeOK, OutsideFrame, groupVars, callVars, taskVars, retryVars
  <1>1. CASE CancelWorkflow
    BY <1>1 DEF CancelWorkflow
  <1>2. CASE CleanupWorkflowState
    BY <1>2 DEF CleanupWorkflowState
  <1>3. CASE CleanupTaskListeners
    <2>1. {c[3] : c \in In(cleaner.wl)} \subseteq Channels
      BY DEF In
    <2> QED
      BY <1>3, <2>1 DEF CleanupTaskListeners
  <1>4. CASE Shutdown
    BY <1>4 DEF Shutdown
  <1> QED
    BY <1>1, <1>2, <1>3, <1>4 DEF OutsideStep

LEMMA TypedGroup ==
    ASSUME TypedInv, GroupStep
    PROVE  TypedInv'
  <1> USE DEF TypedInv, TypeOK, GroupFrame, listenerVars, taskVars, retryVars
  <1>1. CASE TrackSubWorkflow
    BY <1>1 DEF TrackSubWorkflow
  <1>2. CASE GroupFails
    BY <1>2 DEF GroupFails
  <1>3. CASE LoopCancelled
    BY <1>3 DEF LoopCancelled
  <1>4. CASE GroupEnds
    BY <1>4 DEF GroupEnds
  <1>5. CASE NextIteration
    <2>1. Begin(env) \in [Calls -> Locations] /\ \A x \in Calls : Begin(env)[x] # "register"
      BY DEF Begin, Locations
    <2>2. env.iterations \in Nat
      BY EnvironmentsAssumption
    <2>3. iteration' \in 1..env'.iterations
      BY <1>5, <2>2 DEF NextIteration, ContinueLoop
    <2> QED
      BY <1>5, <2>1, <2>3 DEF NextIteration
  <1> QED
    BY <1>1, <1>2, <1>3, <1>4, <1>5 DEF GroupStep

LEMMA TypedNext == TypedInv /\ [Next]_vars => TypedInv'
  <1> SUFFICES ASSUME TypedInv, [Next]_vars PROVE TypedInv'
    OBVIOUS
  <1>1. CASE Next
    BY <1>1, TypedCall, TypedWatcher, TypedRetry, TypedWorker, TypedOutside, TypedGroup
    DEF Next, MasterStep
  <1>2. CASE UNCHANGED vars
    BY <1>2 DEF vars, listenerVars, callVars, taskVars, retryVars, groupVars, TypedInv, TypeOK
  <1> QED
    BY <1>1, <1>2

LEMMA TypedInit == Init => TypedInv
  <1> SUFFICES ASSUME Init PROVE TypedInv
    OBVIOUS
  <1>1. Begin(env) \in [Calls -> Locations] /\ \A x \in Calls : Begin(env)[x] # "register"
    BY DEF Begin, Locations
  <1>2. 1 \in 1..env.iterations
    BY EnvironmentsAssumption DEF Init
  <1> QED
    BY <1>1, <1>2 DEF Init, TypedInv, TypeOK, Idle, Statuses

\* The variables keep their types; what a call, the watcher and the clean-up
\* hold is a listener set that was made, or a channel of a call.
THEOREM GroupTyped == Spec => []TypeOK
  <1>1. TypedInv => TypeOK
    BY DEF TypedInv
  <1> QED
    BY <1>1, TypedInit, TypedNext, PTL DEF Spec

(***************************************************************************)
(* Who removes the registry's listener set.  The owner of a channel in it  *)
(* is in the select or on the way to taking its name out of this very set; *)
(* a set without channels has a call that will look at it: one that        *)
(* registers, that is about to take from it or that is about to purge.     *)
(***************************************************************************)
Owner(c) == c[3][1]
Watches(y) == pc[y] \in {"wait", "unlookup"} \/ (pc[y] = "take" /\ wl[y] = registry)
OwnersThere == registry # 0 => \A c \in In(registry) : c[2] = Name[Owner(c)] /\ Watches(Owner(c))
SomebodyPurges ==
    registry # 0 => \E x \in Calls : pc[x] \in {"register", "purge"} \/ Watches(x)
OthersDone == \A x \in Calls \ Members(env) : pc[x] = "done"
LeftInv == TypedInv /\ OwnersThere /\ SomebodyPurges /\ OthersDone

LEMMA OwnerIsCall == ASSUME TypedInv, NEW c \in chans PROVE Owner(c) \in Calls
  BY DEF TypedInv, TypeOK, Channels, Owner

LEMMA LeftOthers ==
    ASSUME LeftInv, NEW x \in Calls, CallStep(x)
    PROVE  OthersDone'
  <1>1. pc[x] # "done" /\ env' = env /\ \E l \in Locations : pc' = [pc EXCEPT ![x] = l]
    BY DEF CallStep, Watchdog, Cancelled, GiveUp, Acquire, PushTask, PushTaskError,
           GetOrCreateListeners, RegisterTaskListener, Receive, Leave, FindListeners,
           TakeListener, Purge, Close, CallFrame, Goto, Locations
  <1> QED
    BY <1>1 DEF LeftInv, OthersDone, TypedInv, TypeOK

\* A step of a call that neither owns a channel nor is to look at the set.
LEMMA LeftBystander ==
    ASSUME LeftInv, NEW x \in Calls, NEW l, Goto(x, l),
           pc[x] \in {"sem", "push", "close"},
           UNCHANGED <<registry, chans, wl>>
    PROVE  OwnersThere' /\ SomebodyPurges'
  <1>1. \A y \in Calls : Watches(y) => Watches(y)'
    BY DEF LeftInv, TypedInv, TypeOK, Goto, Watches
  <1>2. OwnersThere'
    <2> SUFFICES ASSUME registry # 0, NEW c \in In(registry)
                 PROVE  c[2] = Name[Owner(c)] /\ Watches(Owner(c))'
      BY DEF OwnersThere, In, Owner
    <2> QED
      BY <1>1, OwnerIsCall DEF LeftInv, OwnersThere, In
  <1>3. SomebodyPurges'
    BY <1>1 DEF LeftInv, SomebodyPurges, TypedInv, TypeOK, Goto
  <1> QED
    BY <1>2, <1>3

LEMMA LeftCall ==
    ASSUME LeftInv, NEW x \in Calls, CallStep(x)
    PROVE  OwnersThere' /\ SomebodyPurges'
  <1>0. /\ pc \in [Calls -> Locations] /\ wl \in [Calls -> 0..made]
        /\ OwnersThere /\ SomebodyPurges /\ TypedInv
        /\ made \in Nat /\ registry \in 0..made
        /\ \A c \in chans : c[1] \in 1..made /\ Owner(c) \in Calls
    BY OwnerIsCall DEF LeftInv, TypedInv, TypeOK
  <1>1. CASE Acquire(x) \/ PushTask(x) \/ PushTaskError(x) \/ Close(x)
    BY <1>1, LeftBystander
    DEF Acquire, PushTask, PushTaskError, Close, listenerVars
  <1>2. CASE GetOrCreateListeners(x)
    <2>1. \A y \in Calls : Watches(y) /\ registry # 0 => Watches(y)'
      BY <1>0, <1>2 DEF GetOrCreateListeners, Goto, Watches
    <2>2. registry # 0 => registry' = registry
      BY <1>2 DEF GetOrCreateListeners
    <2>3. registry = 0 => In(registry)' = {}
      BY <1>0, <1>2 DEF GetOrCreateListeners, In
    <2>4. OwnersThere'
      <3> SUFFICES ASSUME NEW c \in In(registry)'
                   PROVE  c[2] = Name[Owner(c)] /\ Watches(Owner(c))'
        BY DEF OwnersThere, Owner
      <3>1. c \in In(registry) /\ registry # 0 /\ Owner(c) \in Calls
        BY <1>0, <1>2, <2>2, <2>3 DEF GetOrCreateListeners, In
      <3> QED
        BY <1>0, <2>1, <3>1 DEF OwnersThere
    <2>5. SomebodyPurges'
      BY <1>0, <1>2 DEF SomebodyPurges, GetOrCreateListeners, Goto
    <2> QED
      BY <2>4, <2>5
  <1>3. CASE RegisterTaskListener(x)
    <2>1. \A y \in Calls : Watches(y) => Watches(y)'
      BY <1>0, <1>3 DEF RegisterTaskListener, Goto, Watches
    <2>2. Watches(x)' /\ registry' = registry
      BY <1>0, <1>3 DEF RegisterTaskListener, Goto, Watches
    <2>3. OwnersThere'
      <3> SUFFICES ASSUME registry # 0, NEW c \in In(registry)'
                   PROVE  c[2] = Name[Owner(c)] /\ Watches(Owner(c))'
        BY <2>2 DEF OwnersThere, Owner
      <3>1. CASE c \in chans
        <4>1. c \in In(registry) /\ Owner(c) \in Calls
          BY <1>0, <2>2, <3>1 DEF In
        <4> QED
          BY <1>0, <2>1, <4>1 DEF OwnersThere
      <3>2. CASE c = <<wl[x], Name[x], Channel(x)>>
        <4>1. c[2] = Name[x] /\ Owner(c) = x
          BY <3>2 DEF Channel, Owner
        <4> QED
          BY <2>2, <4>1
      <3> QED
        BY <1>3, <3>1, <3>2 DEF RegisterTaskListener, In
    <2>4. SomebodyPurges'
      BY <2>2 DEF SomebodyPurges
    <2> QED
      BY <2>3, <2>4
  <1>4. CASE Leave(x)
    <2>1. \A y \in Calls : Watches(y) => Watches(y)'
      BY <1>0, <1>4 DEF Leave, Goto, Watches, listenerVars
    <2>2. Watches(x)' /\ registry' = registry /\ chans' = chans
      BY <1>0, <1>4 DEF Leave, Goto, Watches, listenerVars
    <2>3. OwnersThere'
      <3> SUFFICES ASSUME registry # 0, NEW c \in In(registry)
                   PROVE  c[2] = Name[Owner(c)] /\ Watches(Owner(c))'
        BY <2>2 DEF OwnersThere, Owner, In
      <3> QED
        BY <1>0, <2>1 DEF OwnersThere, In
    <2>4. SomebodyPurges'
      BY <2>2 DEF SomebodyPurges
    <2> QED
      BY <2>3, <2>4
  <1>5. CASE FindListeners(x)
    <2>1. \A y \in Calls : Watches(y) /\ registry # 0 => Watches(y)'
      BY <1>0, <1>5 DEF FindListeners, Goto, Watches, listenerVars
    <2>2. registry # 0 => Watches(x)'
      BY <1>0, <1>5 DEF FindListeners, Goto, Watches, listenerVars
    <2>3. registry' = registry /\ chans' = chans
      BY <1>5 DEF FindListeners, listenerVars
    <2>4. OwnersThere'
      <3> SUFFICES ASSUME registry # 0, NEW c \in In(registry)
                   PROVE  c[2] = Name[Owner(c)] /\ Watches(Owner(c))'
        BY <2>3 DEF OwnersThere, Owner, In
      <3> QED
        BY <1>0, <2>1 DEF OwnersThere, In
    <2>5. SomebodyPurges'
      BY <2>2, <2>3 DEF SomebodyPurges
    <2> QED
      BY <2>4, <2>5
  <1>6. CASE TakeListener(x)
    <2>1. \A y \in Calls \ {x} : Watches(y) => Watches(y)'
      BY <1>0, <1>6 DEF TakeListener, Goto, Watches
    <2>2. registry' = registry /\ chans' = chans \ At(wl[x], Name[x])
      BY <1>6 DEF TakeListener
    <2>3. ASSUME registry # 0, NEW c \in In(registry), c \notin At(wl[x], Name[x])
          PROVE  Owner(c) \in Calls \ {x} /\ c[2] = Name[Owner(c)] /\ Watches(Owner(c))
      <3>1. Owner(c) \in Calls /\ c[2] = Name[Owner(c)] /\ Watches(Owner(c))
        BY <1>0, <2>3 DEF OwnersThere, In
      <3>2. Owner(c) # x
        BY <1>6, <2>3, <3>1 DEF TakeListener, Watches, At, In
      <3> QED
        BY <3>1, <3>2
    <2>4. OwnersThere'
      <3> SUFFICES ASSUME registry # 0, NEW c \in In(registry), c \notin At(wl[x], Name[x])
                   PROVE  c[2] = Name[Owner(c)] /\ Watches(Owner(c))'
        BY <2>2 DEF OwnersThere, Owner, In
      <3> QED
        BY <2>1, <2>3
    <2>5. SomebodyPurges'
      <3> SUFFICES ASSUME registry # 0
                   PROVE  \E y \in Calls : pc'[y] \in {"register", "purge"} \/ Watches(y)'
        BY <2>2 DEF SomebodyPurges
      <3>1. CASE In(wl[x]) \subseteq At(wl[x], Name[x])
        BY <1>0, <1>6, <3>1 DEF TakeListener, Goto
      <3>2. CASE wl[x] = registry /\ ~(In(wl[x]) \subseteq At(wl[x], Name[x]))
        <4>1. PICK c \in In(registry) : c \notin At(wl[x], Name[x])
          BY <3>2
        <4> QED
          BY <2>1, <2>3, <4>1
      <3>3. CASE wl[x] # registry
        <4>1. PICK y \in Calls : pc[y] \in {"register", "purge"} \/ Watches(y)
          BY <1>0 DEF SomebodyPurges
        <4>2. y # x
          BY <1>6, <3>3, <4>1 DEF TakeListener, Watches
        <4>3. pc'[y] = pc[y]
          BY <1>0, <1>6, <4>2 DEF TakeListener, Goto
        <4> QED
          BY <2>1, <4>1, <4>2, <4>3
      <3> QED
        BY <3>1, <3>2, <3>3
    <2> QED
      BY <2>4, <2>5
  <1>7. CASE Purge(x)
    <2>1. CASE In(registry) = {}
      BY <1>7, <2>1 DEF Purge, OwnersThere, SomebodyPurges
    <2>2. CASE In(registry) # {}
      <3>1. registry' = registry /\ chans' = chans
        BY <1>7, <2>2 DEF Purge
      <3>2. \A y \in Calls : Watches(y) => Watches(y)'
        BY <1>0, <1>7, <3>1 DEF Purge, Goto, Watches
      <3>3. ASSUME registry # 0, NEW c \in In(registry)
            PROVE  Owner(c) \in Calls /\ c[2] = Name[Owner(c)] /\ Watches(Owner(c))'
        BY <1>0, <3>2, <3>3 DEF OwnersThere, In
      <3>4. OwnersThere'
        BY <3>1, <3>3 DEF OwnersThere, Owner, In
      <3>5. SomebodyPurges'
        BY <2>2, <3>1, <3>3 DEF SomebodyPurges
      <3> QED
        BY <3>4, <3>5
    <2> QED
      BY <2>1, <2>2
  <1> QED
    BY <1>1, <1>2, <1>3, <1>4, <1>5, <1>6, <1>7
    DEF CallStep, Receive, Watchdog, Cancelled, GiveUp

LEMMA LeftRest ==
    ASSUME LeftInv, WatcherStep \/ RetryStep \/ WorkerStep \/ OutsideStep \/ GroupStep \/ UNCHANGED vars
    PROVE  OwnersThere' /\ SomebodyPurges' /\ OthersDone'
  <1> DEFINE Still == /\ UNCHANGED <<env, pc, wl>>
                      /\ registry' \in {0, registry} /\ chans' \subseteq chans
  <1>1. ASSUME Still PROVE OwnersThere' /\ SomebodyPurges' /\ OthersDone'
    BY <1>1 DEF LeftInv, OwnersThere, SomebodyPurges, OthersDone, Watches, Owner, In, Members
  <1>2. CASE WatcherStep
    <2>1. Still
      BY <1>2 DEF WatcherStep, IgnoreEvent, TakeEvent, NotifyFinds, NotifyFetches, NotifySends,
                  HandleRetry, HandleTaskFailed, WatchFrame, listenerVars, callVars
    <2> QED
      BY <1>1, <2>1
  <1>8. CASE RetryStep
    <2>1. Still
      BY <1>8 DEF RetryStep, RetryTask, RetryStops, ClearFailedTask, RetryFrame, listenerVars,
                  callVars
    <2> QED
      BY <1>1, <2>1
  <1>3. CASE WorkerStep
    <2>1. Still
      BY <1>3 DEF WorkerStep, Claim, Report, WorkFrame, listenerVars, callVars
    <2> QED
      BY <1>1, <2>1
  <1>4. CASE OutsideStep
    <2>1. Still
      BY <1>4 DEF OutsideStep, CancelWorkflow, CleanupWorkflowState, CleanupTaskListeners,
                  Shutdown, OutsideFrame, callVars
    <2> QED
      BY <1>1, <2>1
  <1>5. CASE TrackSubWorkflow \/ GroupFails \/ LoopCancelled \/ GroupEnds
    <2>1. Still
      BY <1>5 DEF TrackSubWorkflow, GroupFails, LoopCancelled, GroupEnds, GroupFrame,
                  listenerVars
    <2> QED
      BY <1>1, <2>1
  <1>6. CASE NextIteration
    <2>1. \A x \in Calls : pc[x] = "done"
      BY <1>6 DEF LeftInv, OthersDone, NextIteration, AllDone
    <2>2. registry = 0
      BY <2>1 DEF LeftInv, SomebodyPurges, Watches
    <2>3. registry' = 0 /\ env' = env
      BY <1>6, <2>2 DEF NextIteration, GroupFrame, listenerVars
    <2>4. pc' = pc \/ pc' = Begin(env)
      BY <1>6 DEF NextIteration
    <2>5. OthersDone'
      BY <2>1, <2>3, <2>4 DEF OthersDone, Begin, Members
    <2> QED
      BY <2>3, <2>5 DEF OwnersThere, SomebodyPurges
  <1>7. CASE UNCHANGED vars
    <2>1. Still
      BY <1>7 DEF vars, listenerVars, callVars
    <2> QED
      BY <1>1, <2>1
  <1> QED
    BY <1>2, <1>3, <1>4, <1>5, <1>6, <1>7, <1>8 DEF GroupStep

LEMMA LeftNext == LeftInv /\ [Next]_vars => LeftInv'
  <1> SUFFICES ASSUME LeftInv, [Next]_vars PROVE LeftInv'
    OBVIOUS
  <1>1. TypedInv'
    BY TypedNext DEF LeftInv
  <1>2. OwnersThere' /\ SomebodyPurges' /\ OthersDone'
    BY LeftCall, LeftOthers, LeftRest DEF Next, MasterStep
  <1> QED
    BY <1>1, <1>2 DEF LeftInv

LEMMA LeftInit == Init => LeftInv
  <1> SUFFICES ASSUME Init PROVE LeftInv
    OBVIOUS
  <1>1. OwnersThere /\ SomebodyPurges
    BY DEF Init, OwnersThere, SomebodyPurges
  <1>2. OthersDone
    BY DEF Init, OthersDone, Begin, Members
  <1> QED
    BY <1>1, <1>2, TypedInit DEF LeftInv

\* Nothing is left behind: when no call of the group is under way the registry
\* holds no listener set, however unregistering, purging, cleaning up and the
\* calls' registering overtake each other, for any group and every fault.
THEOREM GroupNoListenerLeft == Spec => []NoListenerLeft
  <1>1. LeftInv => NoListenerLeft
    BY DEF LeftInv, SomebodyPurges, Watches, NoListenerLeft, Listening
  <1> QED
    BY <1>1, LeftInit, LeftNext, PTL DEF Spec

(***************************************************************************)
(* Whose answer a call gets.  A payload is in one place at a time, from    *)
(* the PENDING key over a worker, the event and the watcher to the channel *)
(* it is sent on, or back to the key by way of a retry.  As long as calls  *)
(* of one name do not overlap, no call has given up, no skipped failure is *)
(* notified again and no retry goes on behind a call that was told of a    *)
(* failure (Calm), a payload is somewhere only while its call waits for    *)
(* it.  The names, which all look-ups go by, then tell the calls that are  *)
(* under way apart (Exclusive), so that the channel found for an event is  *)
(* that of the event's own call.                                           *)
(*                                                                         *)
(* A failure in a channel counts as a place until the first retry: a call  *)
(* that is told of it leaves, and until then a retry may only start.       *)
(* PolicyOwn is what the watcher knows of the failure it is about to       *)
(* retry.                                                                  *)
(***************************************************************************)
Busy == {"lookup", "register", "wait"}
Left == {"unlookup", "take", "purge", "close", "done"}
Away == {"sem", "done"}

SemItems == \A x \in Calls : pc[x] = "sem" => x \in env.items
Exclusive ==
    ~Overlapping =>
        \A x, y \in Calls : Name[x] = Name[y] /\ pc[x] \notin Away /\ pc[y] \notin Away => x = y
ChansNamed == \A c \in chans : c[2] = Name[Owner(c)]
CurrentThere == registry # 0 => \A c \in In(registry) : c[3] = Channel(Owner(c))
LateErred == late \subseteq erred
NamesInv == SemItems /\ Exclusive /\ ChansNamed /\ CurrentThere /\ LateErred

\* Failures are reported where tasks may fail.
FailuresInv ==
    /\ "fails" \notin env.faults =>
           watcher.status = "COMPLETED" /\ \A ev \in events : ev[2] = "COMPLETED"
    /\ watcher.pc = "policy" => watcher.status = "FAILED"

\* The channel of a call that may still register is open.
Open ==
    ~Overlapping /\ cleaner.pc # "done" =>
        \A x \in Calls : pc[x] \in Busy =>
            Channel(x) \notin closed /\ \A y \in Calls : took[y] # Channel(x)

Skips == env.policy = "skip" /\ "fails" \in env.faults
Calm == /\ ~Overlapping /\ late = {}
        /\ live = 1 \/ ~Skips
        /\ attempts = {} \/ erred = {}

\* The places of a payload, by its channel.
Places == {"key", "retry", "worker", "event", "watcher", "box", "told"}
Holds(p, ch) ==
    \/ p = "key" /\ ch \in pending
    \/ p = "retry" /\ <<ch, "backoff">> \in retrying
    \/ p = "worker" /\ ch \in working
    \/ p = "event" /\ \E ev \in events : ev[1] = ch
    \/ p = "watcher" /\ watcher.pc \in {"find", "fetch", "send"} /\ watcher.event = ch
    \/ p = "box" /\ \E x \in Calls : box[x] # None /\ box[x][1] = ch /\ box[x][2] = "COMPLETED"
    \/ /\ p = "told" /\ attempts = {}
       /\ \E x \in Calls : box[x] # None /\ box[x][1] = ch /\ box[x][2] # "COMPLETED"
Active(ch) == ch = Channel(ch[1]) /\ pc[ch[1]] \in Busy

HeldActive == \A p \in Places, ch \in Channels : Holds(p, ch) => Active(ch)
OnePlace == \A p, q \in Places, ch \in Channels : Holds(p, ch) /\ Holds(q, ch) => p = q
OneEvent == \A ev, ew \in events : ev[1] = ew[1] => ev = ew
BoxOwn == \A x \in Calls : box[x] # None => box[x][1] = Channel(x)
FetchOwn == watcher.pc = "fetch" =>
                \A c \in At(watcher.wl, Name[watcher.event[1]]) : c[3] = watcher.event
SendOwn == watcher.pc = "send" => watcher.ch = watcher.event
PolicyOwn == watcher.pc = "policy" /\ env.policy = "retry" /\ erred = {} =>
                 /\ Active(watcher.event)
                 /\ \A p \in Places : Holds(p, watcher.event) => p = "told"
ResultOwn == \A x \in Members(env) : pc[x] \in Left /\ x \notin erred => result[x] = Channel(x)
CalmInv == /\ HeldActive /\ OnePlace /\ OneEvent /\ BoxOwn
           /\ FetchOwn /\ SendOwn /\ PolicyOwn /\ ResultOwn

AdvancedDone == group = "advanced" => AllDone
AnswerInv ==
    /\ LeftInv /\ ChannelInv
    /\ NamesInv /\ FailuresInv /\ Open
    /\ Calm => CalmInv
    /\ AdvancedDone /\ ResultsOwned /\ PanicNeedsLateness

LEMMA Environment ==
    ASSUME env \in Environments
    PROVE  /\ env.normal \subseteq Calls /\ env.items \subseteq Calls \ env.normal
           /\ IsFiniteSet(env.items)
           /\ env.policy \in {"fail_fast", "skip", "retry"}
  BY EnvironmentsAssumption

\* A call moves on by itself, and only Acquire takes it off the semaphore.
LEMMA CallMoves ==
    ASSUME NEW x \in Calls, CallStep(x)
    PROVE  /\ env' = env /\ iteration' = iteration /\ group' = group
           /\ pc[x] # "done"
           /\ pc[x] = "sem" => Acquire(x)
           /\ \E l \in Locations \ {"sem"} : pc' = [pc EXCEPT ![x] = l]
  BY DEF CallStep, Watchdog, Cancelled, GiveUp, Acquire, PushTask, PushTaskError,
         GetOrCreateListeners, RegisterTaskListener, Receive, Leave, FindListeners,
         TakeListener, Purge, Close, CallFrame, groupVars, Goto, Locations

\* The other steps move no call, except to the start of the next iteration.
LEMMA OthersMove ==
    ASSUME WatcherStep \/ RetryStep \/ WorkerStep \/ OutsideStep \/ GroupStep \/ UNCHANGED vars
    PROVE  /\ env' = env /\ late' = late /\ erred' = erred
           /\ \/ UNCHANGED <<pc, iteration, result>>
              \/ NextIteration /\ live = 1
  <1>1. CASE WatcherStep
    BY <1>1 DEF WatcherStep, IgnoreEvent, TakeEvent, NotifyFinds, NotifyFetches, NotifySends,
                HandleRetry, HandleTaskFailed, WatchFrame, callVars, groupVars
  <1>6. CASE RetryStep
    BY <1>6 DEF RetryStep, RetryTask, RetryStops, ClearFailedTask, RetryFrame, callVars,
                groupVars
  <1>2. CASE WorkerStep
    BY <1>2 DEF WorkerStep, Claim, Report, WorkFrame, callVars, groupVars
  <1>3. CASE OutsideStep
    BY <1>3 DEF OutsideStep, CancelWorkflow, CleanupWorkflowState, CleanupTaskListeners,
                Shutdown, OutsideFrame, callVars, groupVars
  <1>4. CASE GroupStep
    BY <1>4 DEF GroupStep, TrackSubWorkflow, GroupFails, LoopCancelled, GroupEnds,
                NextIteration, GroupFrame
  <1>5. CASE UNCHANGED vars
    BY <1>5 DEF vars, callVars, groupVars
  <1> QED
    BY <1>1, <1>2, <1>3, <1>4, <1>5, <1>6

\* With a limit of one, a call that gets the semaphore finds no other item.
LEMMA AcquireAlone ==
    ASSUME LeftInv, NEW x \in Calls, Acquire(x), env.parallel = 1,
           NEW y \in env.items
    PROVE  pc[y] \in Away
  <1>1. IsFiniteSet(Inside)
    BY Environment, FS_Subset DEF LeftInv, TypedInv, TypeOK, Inside
  <1>2. Cardinality(Inside) < 1 /\ Cardinality(Inside) \in Nat
    BY <1>1, FS_CardinalityType DEF Acquire
  <1>3. Inside = {}
    BY <1>1, <1>2, FS_EmptySet
  <1> QED
    BY <1>3 DEF Inside, Away

LEMMA BeginExclusive ==
    ASSUME env \in Environments, ~Overlapping, NEW x \in Calls, NEW y \in Calls,
           Name[x] = Name[y], Begin(env)[x] \notin Away, Begin(env)[y] \notin Away
    PROVE  x = y
  <1>1. x \in env.normal /\ y \in env.normal
    BY DEF Begin, Away
  <1> QED
    BY <1>1 DEF Overlapping, Members

LEMMA ExclusiveNext ==
    ASSUME LeftInv, SemItems, Exclusive, [Next]_vars
    PROVE  SemItems' /\ Exclusive'
  <1>0. /\ pc \in [Calls -> Locations] /\ env \in Environments
        /\ OthersDone
    BY DEF LeftInv, TypedInv, TypeOK
  <1>1. ASSUME NEW x \in Calls, CallStep(x) PROVE SemItems' /\ Exclusive'
    <2>1. PICK l \in Locations \ {"sem"} : pc' = [pc EXCEPT ![x] = l]
      BY <1>1, CallMoves
    <2>2. env' = env /\ pc[x] # "done" /\ (pc[x] = "sem" => Acquire(x))
      BY <1>1, CallMoves
    <2>3. SemItems'
      BY <1>0, <2>1, <2>2 DEF SemItems
    <2>4. Overlapping' = Overlapping
      BY <2>2 DEF Overlapping, Members
    <2>5. ASSUME ~Overlapping, NEW y \in Calls, y # x, Name[x] = Name[y], pc[y] \notin Away
          PROVE  pc[x] # "sem"
      <3> SUFFICES ASSUME pc[x] = "sem" PROVE FALSE
        OBVIOUS
      <3>1. x \in env.items /\ Acquire(x)
        BY <2>2 DEF SemItems
      <3>2. y \in Members(env) /\ x \in Members(env)
        BY <1>0, <2>5, <3>1 DEF OthersDone, Away, Members
      <3>3. env.parallel = 1 /\ y \notin env.normal
        BY <2>5, <3>2 DEF Overlapping
      <3>4. y \in env.items
        BY <3>2, <3>3 DEF Members
      <3> QED
        BY <2>5, <3>1, <3>3, <3>4, AcquireAlone
    <2>6. Exclusive'
      <3> SUFFICES ASSUME ~Overlapping, NEW y \in Calls, NEW z \in Calls, Name[y] = Name[z],
                          pc'[y] \notin Away, pc'[z] \notin Away
                   PROVE  y = z
        BY <2>4 DEF Exclusive
      <3>1. \A u \in Calls : u # x => pc'[u] = pc[u]
        BY <1>0, <2>1
      <3>2. pc[x] \notin Away \/ pc[x] = "sem"
        BY <2>2 DEF Away
      <3> QED
        BY <2>5, <3>1, <3>2 DEF Exclusive
    <2> QED
      BY <2>3, <2>6
  <1>2. CASE WatcherStep \/ RetryStep \/ WorkerStep \/ OutsideStep \/ GroupStep \/ UNCHANGED vars
    <2>1. env' = env /\ Overlapping' = Overlapping
      BY <1>2, OthersMove DEF Overlapping, Members
    <2>2. CASE pc' = pc
      BY <2>1, <2>2 DEF SemItems, Exclusive
    <2>3. CASE NextIteration /\ live = 1
      <3>1. pc' = Begin(env)
        BY <2>3 DEF NextIteration
      <3>2. SemItems'
        BY <2>1, <3>1 DEF SemItems, Begin
      <3>3. Exclusive'
        BY <1>0, <2>1, <3>1, BeginExclusive DEF Exclusive
      <3> QED
        BY <3>2, <3>3
    <2> QED
      BY <1>2, <2>2, <2>3, OthersMove
  <1> QED
    BY <1>1, <1>2 DEF Next, MasterStep

\* The registrations, by name, and those of the registry's set, by iteration.
LEMMA ChansNext ==
    ASSUME LeftInv, ChansNamed, CurrentThere, [Next]_vars
    PROVE  ChansNamed' /\ CurrentThere'
  <1>0. /\ made \in Nat /\ registry \in 0..made
        /\ \A c \in chans : c[1] \in 1..made
    BY DEF LeftInv, TypedInv, TypeOK
  <1> DEFINE Kept == /\ registry' \in {0, registry} /\ chans' \subseteq chans
                     /\ iteration' = iteration
  <1>1. ASSUME Kept PROVE ChansNamed' /\ CurrentThere'
    BY <1>1 DEF ChansNamed, CurrentThere, Owner, In, Channel
  <1>2. ASSUME NEW x \in Calls, CallStep(x) PROVE ChansNamed' /\ CurrentThere'
    <2>0. iteration' = iteration
      BY <1>2, CallMoves
    <2>1. CASE GetOrCreateListeners(x)
      <3>1. chans' = chans
        BY <2>1 DEF GetOrCreateListeners
      <3>2. CASE registry = 0
        <4>1. registry' = made + 1
          BY <2>1, <3>2 DEF GetOrCreateListeners
        <4>2. In(registry)' = {}
          BY <1>0, <3>1, <4>1 DEF In
        <4> QED
          BY <3>1, <4>2 DEF ChansNamed, CurrentThere, Owner
      <3>3. CASE registry # 0
        BY <1>1, <2>0, <2>1, <3>3 DEF GetOrCreateListeners
      <3> QED
        BY <3>2, <3>3
    <2>2. CASE RegisterTaskListener(x)
      <3> DEFINE new == <<wl[x], Name[x], Channel(x)>>
      <3>1. chans' \subseteq chans \cup {new} /\ registry' = registry
        BY <2>2 DEF RegisterTaskListener
      <3>2. new[2] = Name[Owner(new)] /\ new[3] = Channel(Owner(new))
        BY DEF Owner, Channel
      <3> HIDE DEF new
      <3>3. ChansNamed'
        BY <3>1, <3>2 DEF ChansNamed, Owner
      <3>4. CurrentThere'
        BY <2>0, <3>1, <3>2 DEF CurrentThere, In, Owner, Channel
      <3> QED
        BY <3>3, <3>4
    <2>3. CASE ~GetOrCreateListeners(x) /\ ~RegisterTaskListener(x)
      <3>1. Kept
        BY <1>2, <2>0, <2>3
        DEF CallStep, Watchdog, Cancelled, GiveUp, Acquire, PushTask, PushTaskError, Receive,
            Leave, FindListeners, TakeListener, Purge, Close, listenerVars
      <3> QED
        BY <1>1, <3>1
    <2> QED
      BY <2>1, <2>2, <2>3
  <1>3. CASE WatcherStep \/ RetryStep \/ WorkerStep \/ OutsideStep \/ UNCHANGED vars
    <2>1. Kept
      BY <1>3
      DEF WatcherStep, IgnoreEvent, TakeEvent, NotifyFinds, NotifyFetches, NotifySends,
          HandleRetry, HandleTaskFailed, WatchFrame, RetryStep, RetryTask, RetryStops, ClearFailedTask, RetryFrame,
          WorkerStep, Claim, Report, WorkFrame, OutsideStep, CancelWorkflow,
          CleanupWorkflowState, CleanupTaskListeners, Shutdown, OutsideFrame, listenerVars,
          groupVars, vars
    <2> QED
      BY <1>1, <2>1
  <1>4. CASE GroupStep
    <2>1. registry' = registry /\ chans' = chans
      BY <1>4 DEF GroupStep, TrackSubWorkflow, GroupFails, LoopCancelled, GroupEnds,
                  NextIteration, GroupFrame, listenerVars
    <2>2. CASE iteration' = iteration
      BY <1>1, <2>1, <2>2
    <2>3. CASE NextIteration
      <3>1. \A x \in Calls : pc[x] = "done"
        BY <2>3 DEF LeftInv, OthersDone, NextIteration, AllDone
      <3>2. registry' = 0
        BY <2>1, <3>1 DEF LeftInv, SomebodyPurges, Watches
      <3> QED
        BY <2>1, <3>2 DEF ChansNamed, CurrentThere, Owner
    <2> QED
      BY <1>4, <2>2, <2>3, OthersMove
  <1> QED
    BY <1>2, <1>3, <1>4 DEF Next, MasterStep

LEMMA LateNext ==
    ASSUME LateErred, [Next]_vars
    PROVE  LateErred' /\ (late' = {} => late = {}) /\ erred \subseteq erred'
  <1>1. ASSUME NEW x \in Calls, CallStep(x)
        PROVE  LateErred' /\ (late' = {} => late = {}) /\ erred \subseteq erred'
    <2>1. CASE GiveUp(x)
      BY <2>1 DEF GiveUp, LateErred
    <2>2. CASE Receive(x)
      BY <2>2 DEF Receive, LateErred
    <2>3. CASE PushTaskError(x)
      BY <2>3 DEF PushTaskError, LateErred
    <2>4. CASE ~GiveUp(x) /\ ~Receive(x) /\ ~PushTaskError(x)
      <3>1. UNCHANGED <<late, erred>>
        BY <1>1, <2>4
        DEF CallStep, Watchdog, Cancelled, Acquire, PushTask, GetOrCreateListeners,
            RegisterTaskListener, FindListeners, TakeListener, Purge, Close
      <3> QED
        BY <3>1 DEF LateErred
    <2> QED
      BY <2>1, <2>2, <2>3, <2>4
  <1>2. ASSUME WatcherStep \/ RetryStep \/ WorkerStep \/ OutsideStep \/ GroupStep \/ UNCHANGED vars
        PROVE  LateErred' /\ (late' = {} => late = {}) /\ erred \subseteq erred'
    BY <1>2, OthersMove DEF LateErred
  <1> QED
    BY <1>1, <1>2 DEF Next, MasterStep

LEMMA NamesNext ==
    ASSUME LeftInv, NamesInv, [Next]_vars
    PROVE  NamesInv'
  BY ExclusiveNext, ChansNext, LateNext DEF NamesInv

\* A failure is reported only where tasks may fail.
LEMMA FailuresNext ==
    ASSUME LeftInv, FailuresInv, [Next]_vars
    PROVE  FailuresInv'
  <1>0. watcher \in Watchers
    BY DEF LeftInv, TypedInv, TypeOK, Watchers
  <1>1. CASE UNCHANGED <<env, watcher, events>>
    BY <1>1 DEF FailuresInv
  <1>2. CASE WatcherStep
    <2>0. env' = env
      BY <1>2, OthersMove
    <2>8. ASSUME NEW ev \in events, IgnoreEvent(ev) PROVE FailuresInv'
      BY <2>0, <2>8 DEF IgnoreEvent, FailuresInv
    <2>9. CASE HandleRetry
      <3>1. watcher'.pc = "idle" /\ watcher'.status = "COMPLETED" /\ events' = events
        BY <2>9 DEF HandleRetry, Idle
      <3> QED
        BY <2>0, <3>1 DEF FailuresInv
    <2>1. ASSUME NEW ev \in events, TakeEvent(ev) PROVE FailuresInv'
      <3>1. watcher'.pc = "find" /\ watcher'.status = ev[2] /\ events' = events \ {ev}
        BY <2>1 DEF TakeEvent, Idle
      <3> QED
        BY <2>0, <3>1 DEF FailuresInv
    <2>2. AfterNotify.status = watcher.status \/ AfterNotify.status = "COMPLETED"
      BY <1>0 DEF AfterNotify, Idle, Watchers
    <2>3. AfterNotify.pc = "policy" => AfterNotify.status = "FAILED"
      BY <1>0 DEF AfterNotify, Idle, Watchers
    <2>4. CASE NotifyFinds
      <3>1. watcher' = AfterNotify \/ (watcher'.pc = "fetch" /\ watcher'.status = watcher.status)
        BY <1>0, <2>4 DEF NotifyFinds, Watchers
      <3> QED
        BY <2>0, <2>2, <2>3, <2>4, <3>1 DEF FailuresInv, NotifyFinds
    <2>5. CASE NotifyFetches
      <3>1. watcher' = AfterNotify \/ (watcher'.pc = "send" /\ watcher'.status = watcher.status)
        BY <1>0, <2>5 DEF NotifyFetches, Watchers
      <3> QED
        BY <2>0, <2>2, <2>3, <2>5, <3>1 DEF FailuresInv, NotifyFetches
    <2>6. CASE NotifySends
      BY <2>0, <2>2, <2>3, <2>6 DEF FailuresInv, NotifySends
    <2>7. CASE HandleTaskFailed
      <3>1. watcher'.pc # "policy" /\ watcher'.status = "COMPLETED" /\ events' = events
        BY <1>0, <2>7 DEF HandleTaskFailed, Idle, Watchers
      <3> QED
        BY <2>0, <3>1 DEF FailuresInv
    <2> QED
      BY <1>2, <2>1, <2>4, <2>5, <2>6, <2>7, <2>8, <2>9 DEF WatcherStep
  <1>3. CASE WorkerStep
    BY <1>3 DEF WorkerStep, Claim, Report, WorkFrame, FailuresInv, Statuses
  <1>4. ASSUME NEW x \in Calls, CallStep(x) PROVE UNCHANGED <<env, watcher, events>>
    BY <1>4
    DEF CallStep, Watchdog, Cancelled, GiveUp, Acquire, PushTask, PushTaskError,
        GetOrCreateListeners, RegisterTaskListener, Receive, Leave, FindListeners,
        TakeListener, Purge, Close, CallFrame, taskVars
  <1>5. RetryStep \/ OutsideStep \/ GroupStep \/ UNCHANGED vars => UNCHANGED <<env, watcher, events>>
    BY DEF RetryStep, RetryTask, RetryStops, ClearFailedTask, RetryFrame, OutsideStep, CancelWorkflow, CleanupWorkflowState, CleanupTaskListeners, Shutdown,
           OutsideFrame, GroupStep, TrackSubWorkflow, GroupFails, LoopCancelled, GroupEnds,
           NextIteration, GroupFrame, taskVars, vars
  <1> QED
    BY <1>1, <1>2, <1>3, <1>4, <1>5 DEF Next, MasterStep

\* A call that takes a channel by name finds none of another call's that may
\* still register: the two would be under way together.
LEMMA OpenNext ==
    ASSUME LeftInv, ChannelInv, NamesInv, Open, [Next]_vars
    PROVE  Open'
  <1>0. /\ pc \in [Calls -> Locations] /\ took \in [Calls -> Channels \cup {None}]
        /\ iteration \in Nat
    BY DEF ChannelInv, ChannelTyped
  <1> DEFINE Sealed(x) == Channel(x) \notin closed /\ \A y \in Calls : took[y] # Channel(x)
  <1>1. ASSUME NEW x \in Calls, CallStep(x) PROVE Open'
    <2>0. env' = env /\ iteration' = iteration /\ cleaner' = cleaner
      BY <1>1, CallMoves
      DEF CallStep, Watchdog, Cancelled, GiveUp, Acquire, PushTask, PushTaskError,
          GetOrCreateListeners, RegisterTaskListener, Receive, Leave, FindListeners,
          TakeListener, Purge, Close, CallFrame
    <2>1. PICK l \in Locations \ {"sem"} : pc' = [pc EXCEPT ![x] = l]
      BY <1>1, CallMoves
    <2>2. Overlapping' = Overlapping
      BY <2>0 DEF Overlapping, Members
    <2> SUFFICES ASSUME ~Overlapping, cleaner.pc # "done", NEW z \in Calls, pc'[z] \in Busy
                 PROVE  Sealed(z)'
      BY <2>0, <2>2 DEF Open
    <2>3. Channel(z)' = Channel(z) /\ Channel(z) # None
      BY <1>0, <2>0, NoneAssumption DEF Channel
    <2>4. pc[z] \in Busy => Sealed(z)
      BY DEF Open
    <2>5. CASE PushTask(x)
      <3>1. UNCHANGED <<closed, took>> /\ pc[x] = "push"
        BY <2>5 DEF PushTask, listenerVars
      <3>2. ~Used(Channel(x))
        BY <1>0, <3>1 DEF ChannelInv, Fresh, Channel, Early
      <3>3. z = x \/ pc[z] \in Busy
        BY <1>0, <2>1
      <3> QED
        BY <2>3, <2>4, <3>1, <3>2, <3>3 DEF Used
    <2>6. CASE TakeListener(x)
      <3>1. closed' = closed /\ took' = [took EXCEPT ![x] = Registered(x)] /\ pc[x] = "take"
        BY <2>6 DEF TakeListener
      <3>2. pc[z] \in Busy /\ z # x
        BY <1>0, <2>6 DEF TakeListener, Goto, Busy
      <3>3. Registered(x) # Channel(z)
        <4> SUFFICES ASSUME Registered(x) = Channel(z) PROVE FALSE
          OBVIOUS
        <4>1. At(wl[x], Name[x]) # {}
          BY <2>3 DEF Registered
        <4>2. PICK c \in At(wl[x], Name[x]) : Registered(x) = c[3]
          BY <4>1, FoundIsRegistered DEF Registered
        <4>3. c[2] = Name[x] /\ Owner(c) = z /\ c[2] = Name[Owner(c)]
          BY <4>2 DEF At, In, Owner, Channel, NamesInv, ChansNamed
        <4> QED
          BY <3>1, <3>2, <4>3 DEF NamesInv, Exclusive, Busy, Away
      <3> QED
        BY <1>0, <2>3, <2>4, <3>1, <3>2, <3>3
    <2>7. CASE Close(x)
      <3>1. /\ closed' = closed \cup ({took[x]} \ {None}) /\ took' = [took EXCEPT ![x] = None]
            /\ pc[x] = "close"
        BY <2>7 DEF Close
      <3>2. pc[z] \in Busy
        BY <1>0, <2>7 DEF Close, Goto, Busy
      <3> QED
        BY <1>0, <2>3, <2>4, <3>1, <3>2
    <2>8. CASE ~PushTask(x) /\ ~TakeListener(x) /\ ~Close(x)
      <3>1. UNCHANGED <<closed, took>>
        BY <1>1, <2>8
        DEF CallStep, Watchdog, Cancelled, GiveUp, Acquire, PushTaskError,
            GetOrCreateListeners, RegisterTaskListener, Receive, Leave, FindListeners,
            Purge, listenerVars
      <3>2. pc[z] \in Busy
        BY <1>0, <1>1, <2>8
        DEF CallStep, Watchdog, Cancelled, GiveUp, Acquire, PushTaskError,
            GetOrCreateListeners, RegisterTaskListener, Receive, Leave, FindListeners,
            Purge, Goto, Busy
      <3> QED
        BY <2>3, <2>4, <3>1, <3>2
    <2> QED
      BY <2>5, <2>6, <2>7, <2>8
  <1>2. CASE WatcherStep \/ RetryStep \/ WorkerStep \/ OutsideStep \/ GroupStep \/ UNCHANGED vars
    <2>1. Overlapping' = Overlapping
      BY <1>2, OthersMove DEF Overlapping, Members
    <2>2. CASE NextIteration /\ live = 1
      <3>1. \A x \in Calls : pc'[x] \notin Busy
        BY <2>2 DEF NextIteration, Begin, Busy
      <3> QED
        BY <3>1 DEF Open
    <2>3. CASE UNCHANGED <<pc, iteration>>
      <3>1. took' = took /\ (cleaner'.pc # "done" => cleaner.pc # "done" /\ closed' = closed)
        BY <1>2
        DEF WatcherStep, IgnoreEvent, TakeEvent, NotifyFinds, NotifyFetches, NotifySends,
            HandleRetry, HandleTaskFailed, WatchFrame, RetryStep, RetryTask, RetryStops, ClearFailedTask, RetryFrame,
            WorkerStep, Claim, Report, WorkFrame, OutsideStep, CancelWorkflow,
            CleanupWorkflowState, CleanupTaskListeners, Shutdown, OutsideFrame, GroupStep,
            TrackSubWorkflow, GroupFails, LoopCancelled, GroupEnds, NextIteration, GroupFrame,
            listenerVars, callVars, vars, LeftInv, TypedInv, TypeOK
      <3> QED
        BY <2>1, <2>3, <3>1 DEF Open, Channel
    <2> QED
      BY <1>2, <2>2, <2>3, OthersMove
  <1> QED
    BY <1>1, <1>2 DEF Next, MasterStep

(***************************************************************************)
(* Where the payloads are.                                                 *)
(***************************************************************************)

\* A step that adds no payload and leaves each with a call that waits for it.
LEMMA Dropped ==
    ASSUME HeldActive, OnePlace,
           \A p \in Places, ch \in Channels : Holds(p, ch)' => Holds(p, ch),
           \A p \in Places, ch \in Channels : Holds(p, ch)' /\ Active(ch) => Active(ch)'
    PROVE  HeldActive' /\ OnePlace'
  BY DEF HeldActive, OnePlace

\* The payload of channel k goes from one place to another.
Moves(k, p, q) ==
    \A r \in Places, ch \in Channels :
        Holds(r, ch)' => \/ Holds(r, ch) /\ (r = p => ch # k)
                         \/ r = q /\ ch = k

LEMMA Moved ==
    ASSUME HeldActive, OnePlace, NEW k \in Channels, NEW p \in Places, NEW q \in Places,
           Holds(p, k), Moves(k, p, q), UNCHANGED <<pc, iteration>>
    PROVE  HeldActive' /\ OnePlace'
  <1>1. \A ch : Active(ch)' <=> Active(ch)
    BY DEF Active, Channel
  <1>2. \A r \in Places : Holds(r, k) => r = p
    BY DEF OnePlace
  <1>3. HeldActive'
    BY <1>1 DEF HeldActive, Moves
  <1>4. OnePlace'
    BY <1>2 DEF OnePlace, Moves
  <1> QED
    BY <1>3, <1>4

\* What the watcher knows of the event it has taken.
WatcherOwn == FetchOwn /\ SendOwn /\ PolicyOwn

\* The call of a failure that is to be retried still waits, and the step takes
\* its payload nowhere.
LEMMA PolicyKeeps ==
    ASSUME PolicyOwn, UNCHANGED <<env, watcher>>, erred \subseteq erred',
           erred' = {} /\ watcher.pc = "policy" /\ Active(watcher.event) => Active(watcher.event)',
           watcher.pc = "policy" /\ Active(watcher.event)
           /\ (\A p \in Places : Holds(p, watcher.event) => p = "told") =>
               \A p \in Places : Holds(p, watcher.event)' => Holds(p, watcher.event)
    PROVE  PolicyOwn'
  BY DEF PolicyOwn

LEMMA WatcherKeeps ==
    ASSUME WatcherOwn, watcher' = watcher, chans' \subseteq chans, PolicyOwn'
    PROVE  WatcherOwn'
  BY DEF WatcherOwn, FetchOwn, SendOwn, At, In

LEMMA CalmParts ==
    CalmInv <=> (HeldActive /\ OnePlace) /\ OneEvent /\ BoxOwn /\ WatcherOwn /\ ResultOwn
  BY DEF CalmInv, WatcherOwn

LEMMA EventIsChannel ==
    ASSUME TypedInv, watcher.pc = "policy" PROVE watcher.event \in Channels
  BY DEF TypedInv

\* Retries are counted, never forgotten.
LEMMA AttemptsGrow ==
    ASSUME [Next]_vars
    PROVE  attempts' = attempts \/ (HandleRetry /\ attempts \subseteq attempts')
  <1>1. ASSUME NEW x \in Calls, CallStep(x) PROVE attempts' = attempts
    BY <1>1
    DEF CallStep, Watchdog, Cancelled, GiveUp, Acquire, PushTask, PushTaskError,
        GetOrCreateListeners, RegisterTaskListener, Receive, Leave, FindListeners,
        TakeListener, Purge, Close, CallFrame, retryVars
  <1>2. WatcherStep => attempts' = attempts \/ (HandleRetry /\ attempts \subseteq attempts')
    BY DEF WatcherStep, IgnoreEvent, TakeEvent, NotifyFinds, NotifyFetches, NotifySends,
           HandleRetry, HandleTaskFailed, retryVars
  <1>3. RetryStep \/ WorkerStep \/ OutsideStep \/ GroupStep \/ UNCHANGED vars =>
            attempts' = attempts
    BY DEF RetryStep, RetryTask, RetryStops, ClearFailedTask, RetryFrame, WorkerStep, Claim,
           Report, WorkFrame, OutsideStep, CancelWorkflow, CleanupWorkflowState,
           CleanupTaskListeners, Shutdown, OutsideFrame, GroupStep, TrackSubWorkflow,
           GroupFails, LoopCancelled, GroupEnds, NextIteration, GroupFrame, retryVars, vars
  <1> QED
    BY <1>1, <1>2, <1>3 DEF Next, MasterStep

\* As long as no call gives up and the run is not over, it has been so before.
LEMMA CalmBack ==
    ASSUME LeftInv, LateErred, [Next]_vars, Calm'
    PROVE  Calm
  <1>1. env' = env
    BY CallMoves, OthersMove DEF Next, MasterStep
  <1>2. live' = 1 => live = 1
    <2>1. ASSUME NEW x \in Calls, CallStep(x) PROVE live' = live
      BY <2>1
      DEF CallStep, Watchdog, Cancelled, GiveUp, Acquire, PushTask, PushTaskError,
          GetOrCreateListeners, RegisterTaskListener, Receive, Leave, FindListeners,
          TakeListener, Purge, Close, CallFrame
    <2>2. WatcherStep => live' = live \/ live' = 0
      BY DEF WatcherStep, IgnoreEvent, TakeEvent, NotifyFinds, NotifyFetches, NotifySends,
             HandleRetry, HandleTaskFailed
    <2>7. RetryStep => live' = live \/ live' = 0
      BY DEF RetryStep, RetryTask, RetryStops, ClearFailedTask
    <2>3. WorkerStep => live' = live
      BY DEF WorkerStep, Claim, Report, WorkFrame
    <2>4. OutsideStep => live' = live \/ live' = 0
      BY DEF OutsideStep, CancelWorkflow, CleanupWorkflowState, CleanupTaskListeners, Shutdown
    <2>5. GroupStep => live' = live \/ live' = 0
      BY DEF GroupStep, TrackSubWorkflow, GroupFails, LoopCancelled, GroupEnds, NextIteration
    <2>6. UNCHANGED vars => live' = live
      BY DEF vars
    <2> QED
      BY <2>1, <2>2, <2>3, <2>4, <2>5, <2>6, <2>7 DEF Next, MasterStep
  <1>3. late = {} /\ erred \subseteq erred'
    BY LateNext DEF Calm
  <1>4. attempts \subseteq attempts'
    BY AttemptsGrow
  <1> QED
    BY <1>1, <1>2, <1>3, <1>4 DEF Calm, Overlapping, Members, Skips

\* A call moves on, and keeps waiting if its payload is somewhere.
LEMMA CalmBystander ==
    ASSUME TypedInv, CalmInv, NEW x \in Calls, NEW l, Goto(x, l),
           UNCHANGED <<env, pending, working, events, retrying, attempts, watcher, box, result,
                       iteration>>,
           chans' \subseteq chans, erred \subseteq erred',
           pc[x] \in Busy => l \in Busy,
           l \in Left => pc[x] \in Left \/ x \in erred'
    PROVE  CalmInv'
  <1>0. pc \in [Calls -> Locations]
    BY DEF TypedInv, TypeOK
  <1>1. \A p \in Places, ch \in Channels : Holds(p, ch)' => Holds(p, ch)
    BY DEF Holds
  <1>2. \A ch \in Channels : Active(ch) => Active(ch)'
    BY <1>0 DEF Active, Channel, Channels, Goto
  <1>3. HeldActive' /\ OnePlace'
    BY <1>1, <1>2, Dropped DEF CalmInv
  <1>4. OneEvent' /\ BoxOwn'
    BY DEF CalmInv, OneEvent, BoxOwn, Channel
  <1>5. WatcherOwn'
    <2>1. PolicyOwn'
      BY <1>1, <1>2, PolicyKeeps, EventIsChannel DEF CalmInv
    <2> QED
      BY <2>1, WatcherKeeps, CalmParts
  <1>6. ResultOwn'
    BY <1>0 DEF CalmInv, ResultOwn, Channel, Goto, Left
  <1> QED
    BY <1>3, <1>4, <1>5, <1>6 DEF CalmInv, WatcherOwn

\* The payload of a call that has not pushed it yet is nowhere.
LEMMA CalmPush ==
    ASSUME LeftInv, CalmInv, NEW x \in Calls, PushTask(x)
    PROVE  CalmInv'
  <1>0. /\ pc \in [Calls -> Locations] /\ TypedInv
        /\ Channel(x) \in Channels /\ Channel(x)[1] = x
    BY TypedChannel DEF LeftInv, TypedInv, TypeOK, Channel
  <1>1. /\ pc[x] = "push" /\ pc' = [pc EXCEPT ![x] = "lookup"]
        /\ pending' = pending \cup {Channel(x)}
        /\ UNCHANGED <<env, working, events, retrying, attempts, watcher, box, result,
                       iteration, chans, erred>>
    BY DEF PushTask, Goto, CallFrame, groupVars, listenerVars, retryVars
  <1>2. \A p \in Places : ~Holds(p, Channel(x))
    BY <1>0, <1>1 DEF CalmInv, HeldActive, Active, Busy
  <1>3. \A p \in Places, ch \in Channels :
            Holds(p, ch)' => Holds(p, ch) \/ (p = "key" /\ ch = Channel(x))
    BY <1>0, <1>1 DEF Holds
  <1>4. \A ch \in Channels : Active(ch) => Active(ch)'
    BY <1>0, <1>1 DEF Active, Channel, Channels, Busy
  <1>5. Active(Channel(x))'
    BY <1>0, <1>1 DEF Active, Channel, Busy
  <1>6. HeldActive'
    <2>1. \A ch \in Channels : ch = Channel(x) => Active(ch)'
      BY <1>5, <1>1 DEF Active, Channel
    <2> QED
      BY <1>3, <1>4, <2>1 DEF CalmInv, HeldActive
  <1>7. OnePlace'
    BY <1>2, <1>3 DEF CalmInv, OnePlace
  <1>8. OneEvent' /\ BoxOwn'
    BY <1>1 DEF CalmInv, OneEvent, BoxOwn, Channel
  <1>9. WatcherOwn'
    <2>1. watcher.pc = "policy" /\ Active(watcher.event) => watcher.event # Channel(x)
      BY <1>0, <1>1 DEF Active, Busy
    <2>2. PolicyOwn'
      BY <1>0, <1>1, <1>3, <1>4, <2>1, PolicyKeeps, EventIsChannel DEF CalmInv
    <2> QED
      BY <1>1, <2>2, WatcherKeeps, CalmParts
  <1>10. ResultOwn'
    BY <1>0, <1>1 DEF CalmInv, ResultOwn, Channel, Left
  <1> QED
    BY <1>6, <1>7, <1>8, <1>9, <1>10 DEF CalmInv, WatcherOwn

\* A call that registers the name of the event the watcher has taken is the
\* event's own.
LEMMA CalmRegister ==
    ASSUME LeftInv, NamesInv, Calm, CalmInv, NEW x \in Calls, RegisterTaskListener(x)
    PROVE  CalmInv'
  <1>0. /\ pc \in [Calls -> Locations] /\ TypedInv
        /\ watcher.pc # "idle" => watcher.event \in Channels
    BY DEF LeftInv, TypedInv, TypeOK
  <1> DEFINE new == <<wl[x], Name[x], Channel(x)>>
  <1>1. /\ pc[x] = "register" /\ pc' = [pc EXCEPT ![x] = "wait"]
        /\ chans' \subseteq chans \cup {new}
        /\ UNCHANGED <<env, pending, working, events, retrying, attempts, watcher, box,
                       result, iteration, erred>>
    BY DEF RegisterTaskListener, Goto, CallFrame, groupVars, taskVars, retryVars
  <1>2. \A p \in Places, ch \in Channels : Holds(p, ch)' => Holds(p, ch)
    BY <1>1 DEF Holds
  <1>3. \A ch \in Channels : Active(ch) => Active(ch)'
    BY <1>0, <1>1 DEF Active, Channel, Channels, Busy
  <1>4. HeldActive' /\ OnePlace'
    BY <1>2, <1>3, Dropped DEF CalmInv
  <1>5. OneEvent' /\ BoxOwn'
    BY <1>1 DEF CalmInv, OneEvent, BoxOwn, Channel
  <1>6. FetchOwn'
    <2> SUFFICES ASSUME watcher.pc = "fetch",
                        NEW c \in chans', c[1] = watcher.wl,
                        c[2] = Name[watcher.event[1]]
                 PROVE  c[3] = watcher.event
      BY <1>1 DEF FetchOwn, At, In
    <2>1. CASE c \in chans
      BY <2>1 DEF CalmInv, FetchOwn, At, In
    <2>2. CASE c = new
      <3>1. Holds("watcher", watcher.event) /\ watcher.event \in Channels
        BY <1>0 DEF Holds
      <3>2. Active(watcher.event)
        BY <3>1 DEF CalmInv, HeldActive, Places
      <3>3. Name[x] = Name[watcher.event[1]] /\ c[3] = Channel(x)
        BY <2>2
      <3>4. watcher.event[1] = x
        BY <1>1, <3>1, <3>2, <3>3
        DEF NamesInv, Exclusive, Calm, Active, Busy, Away, Channels
      <3> QED
        BY <3>2, <3>3, <3>4 DEF Active
    <2> QED
      BY <1>1, <2>1, <2>2
  <1>7. SendOwn'
    BY <1>1 DEF CalmInv, SendOwn
  <1>8. ResultOwn'
    BY <1>0, <1>1 DEF CalmInv, ResultOwn, Channel, Left
  <1>9. PolicyOwn'
    BY <1>0, <1>1, <1>2, <1>3, PolicyKeeps, EventIsChannel DEF CalmInv
  <1> QED
    BY <1>4, <1>5, <1>6, <1>7, <1>8, <1>9 DEF CalmInv

\* The payload a call receives is its own, and is nowhere any more: a failure
\* that is being retried upsets the calm.
LEMMA CalmReceive ==
    ASSUME LeftInv, CalmInv, Calm', NEW x \in Calls, Receive(x)
    PROVE  CalmInv'
  <1>0. /\ pc \in [Calls -> Locations] /\ TypedInv
        /\ box \in [Calls -> (Channels \X Statuses) \cup {None}]
        /\ result \in [Calls -> Channels \cup {None}]
        /\ Channel(x) \in Channels /\ Channel(x)[1] = x
    BY TypedChannel DEF LeftInv, TypedInv, TypeOK, Channel
  <1>1. /\ pc' = [pc EXCEPT ![x] = "unlookup"] /\ box' = [box EXCEPT ![x] = None]
        /\ UNCHANGED <<env, pending, working, events, retrying, attempts, watcher, iteration,
                       chans>>
        /\ box[x] # None /\ box[x][1] = Channel(x)
    BY DEF Receive, Leave, Goto, CallFrame, groupVars, listenerVars, taskVars, retryVars,
           CalmInv, BoxOwn
  <1>2. \A p \in Places, ch \in Channels : Holds(p, ch)' => Holds(p, ch)
    BY <1>0, <1>1 DEF Holds
  <1>3. /\ erred \subseteq erred'
        /\ box[x][2] # "COMPLETED" => erred' # {}
    BY DEF Receive
  <1>4. PICK q \in {"box", "told"} : Holds(q, Channel(x))
    <2>1. CASE box[x][2] = "COMPLETED"
      BY <1>1, <2>1 DEF Holds
    <2>2. CASE box[x][2] # "COMPLETED"
      BY <1>1, <1>3, <2>2 DEF Holds, Calm
    <2> QED
      BY <2>1, <2>2
  <1>5. \A p \in Places : Holds(p, Channel(x)) => p \in {"box", "told"}
    BY <1>0, <1>4 DEF CalmInv, OnePlace, Places
  <1>6. \A p \in {"box", "told"} : ~Holds(p, Channel(x))'
    <2> SUFFICES ASSUME NEW y \in Calls, box'[y] # None, box'[y][1] = Channel(x)
                 PROVE  FALSE
      BY <1>1 DEF Holds, Channel
    <2>1. y # x /\ box'[y] = box[y]
      BY <1>0, <1>1
    <2>2. Channel(y) = Channel(x)
      BY <2>1 DEF CalmInv, BoxOwn
    <2> QED
      BY <2>1, <2>2 DEF Channel
  <1>7. \A p \in Places, ch \in Channels : Holds(p, ch)' => ch # Channel(x)
    BY <1>0, <1>1, <1>2, <1>5, <1>6 DEF Channel
  <1>8. \A ch \in Channels : Active(ch) /\ ch # Channel(x) => Active(ch)'
    BY <1>0, <1>1 DEF Active, Channel, Channels
  <1>9. HeldActive' /\ OnePlace'
    BY <1>2, <1>7, <1>8, Dropped DEF CalmInv
  <1>10. OneEvent' /\ BoxOwn'
    BY <1>0, <1>1 DEF CalmInv, OneEvent, BoxOwn, Channel
  <1>11. WatcherOwn'
    <2>1. ASSUME erred' = {}, watcher.pc = "policy", Active(watcher.event),
                 env.policy = "retry"
          PROVE  watcher.event # Channel(x)
      <3>1. box[x][2] = "COMPLETED" /\ erred = {}
        BY <1>3, <2>1
      <3>2. Holds("box", Channel(x))
        BY <1>1, <3>1 DEF Holds
      <3> QED
        BY <2>1, <3>1, <3>2 DEF CalmInv, PolicyOwn, Places
    <2>2. PolicyOwn'
      BY <1>0, <1>1, <1>2, <1>3, <1>8, <2>1, EventIsChannel DEF CalmInv, PolicyOwn
    <2> QED
      BY <1>1, <2>2, WatcherKeeps, CalmParts
  <1>12. x \in erred' \/ result'[x] = Channel(x)
    BY <1>0, <1>1 DEF Receive
  <1>13. \A y \in Calls : y # x => result'[y] = result[y] /\ pc'[y] = pc[y]
    BY <1>0, <1>1 DEF Receive
  <1>14. Members(env) \subseteq Calls
    BY Environment DEF LeftInv, TypedInv, TypeOK, Members
  <1>15. ResultOwn'
    BY <1>1, <1>3, <1>12, <1>13, <1>14 DEF CalmInv, ResultOwn, Channel
  <1> QED
    BY <1>9, <1>10, <1>11, <1>15 DEF CalmInv, WatcherOwn

LEMMA CalmCall ==
    ASSUME LeftInv, NamesInv, Calm, CalmInv, Calm', NEW x \in Calls, CallStep(x)
    PROVE  CalmInv'
  <1>0. TypedInv
    BY DEF LeftInv
  <1>1. CASE PushTask(x)
    BY <1>1, CalmPush
  <1>2. CASE RegisterTaskListener(x)
    BY <1>2, CalmRegister
  <1>3. CASE Receive(x)
    BY <1>3, CalmReceive
  <1>4. CASE GiveUp(x)
    BY <1>4 DEF GiveUp, Calm
  <1> USE DEF CallFrame, groupVars, listenerVars, taskVars, retryVars, Busy, Left
  <1>5. CASE Acquire(x)
    BY <1>0, <1>5, CalmBystander DEF Acquire
  <1>6. CASE PushTaskError(x)
    BY <1>0, <1>6, CalmBystander DEF PushTaskError
  <1>7. CASE GetOrCreateListeners(x)
    BY <1>0, <1>7, CalmBystander DEF GetOrCreateListeners
  <1>8. CASE FindListeners(x)
    <2>1. PICK l \in {"done", "take"} : Goto(x, l)
      BY <1>8 DEF FindListeners
    <2> QED
      BY <1>0, <1>8, <2>1, CalmBystander DEF FindListeners
  <1>9. CASE TakeListener(x)
    <2>1. PICK l \in {"purge", "close"} : Goto(x, l)
      BY <1>9 DEF TakeListener
    <2> QED
      BY <1>0, <1>9, <2>1, CalmBystander DEF TakeListener
  <1>10. CASE Purge(x)
    BY <1>0, <1>10, CalmBystander DEF Purge
  <1>11. CASE Close(x)
    BY <1>0, <1>11, CalmBystander DEF Close
  <1> QED
    BY <1>1, <1>2, <1>3, <1>4, <1>5, <1>6, <1>7, <1>8, <1>9, <1>10, <1>11
    DEF CallStep, Watchdog, Cancelled

\* A step that moves no call: what has to be shown is where the payloads are.
LEMMA CalmStill ==
    ASSUME CalmInv, UNCHANGED <<env, pc, iteration, result, erred>>,
           HeldActive' /\ OnePlace', OneEvent', BoxOwn', WatcherOwn'
    PROVE  CalmInv'
  <1>1. ResultOwn'
    BY DEF CalmInv, ResultOwn, Channel
  <1> QED
    BY <1>1 DEF CalmInv, WatcherOwn

\* The watcher forgets the event, except for the failure it is about to handle.
LEMMA CalmForget ==
    ASSUME LeftInv, CalmInv,
           UNCHANGED <<env, pc, iteration, result, erred, pending, working, events, retrying,
                       attempts, box>>,
           watcher'.pc \in {"idle", "policy"},
           watcher'.pc = "policy" =>
               watcher.pc \in {"find", "fetch", "send"} /\ watcher'.event = watcher.event
    PROVE  CalmInv'
  <1>1. \A p \in Places, ch \in Channels : Holds(p, ch)' => Holds(p, ch) /\ p # "watcher"
    BY DEF Holds
  <1>2. \A ch : Active(ch) => Active(ch)'
    BY DEF Active, Channel
  <1>3. HeldActive' /\ OnePlace'
    BY <1>1, <1>2, Dropped DEF CalmInv
  <1>4. PolicyOwn'
    <2> SUFFICES ASSUME watcher'.pc = "policy", NEW e, e = watcher.event
                 PROVE  Active(e)' /\ \A p \in Places : ~Holds(p, e)'
      BY DEF PolicyOwn, Active, Holds, Channel
    <2>1. Holds("watcher", e) /\ e \in Channels
      BY DEF Holds, LeftInv, TypedInv
    <2>2. Active(e)
      BY <2>1 DEF CalmInv, HeldActive, Places
    <2>3. \A p \in Places : Holds(p, e) => p = "watcher"
      BY <2>1 DEF CalmInv, OnePlace, Places
    <2> QED
      BY <1>1, <1>2, <2>1, <2>2, <2>3
  <1>5. OneEvent' /\ BoxOwn' /\ WatcherOwn'
    BY <1>4 DEF CalmInv, OneEvent, BoxOwn, Channel, WatcherOwn, FetchOwn, SendOwn
  <1> QED
    BY <1>3, <1>5, CalmStill

LEMMA AfterNotifyForgets ==
    ASSUME TypedInv
    PROVE  /\ AfterNotify.pc \in {"idle", "policy"}
           /\ AfterNotify.pc = "policy" =>
                  AfterNotify.event = watcher.event /\ watcher.status = "FAILED"
  BY DEF TypedInv, TypeOK, AfterNotify, Idle

\* An event is ignored.
LEMMA CalmIgnore ==
    ASSUME LeftInv, CalmInv, NEW ev \in events, IgnoreEvent(ev)
    PROVE  CalmInv'
  <1>0. /\ events' \subseteq events /\ TypedInv
        /\ UNCHANGED <<env, pc, iteration, result, erred, pending, working, retrying, attempts,
                       box, watcher, chans>>
    BY DEF IgnoreEvent, WatchFrame, callVars, groupVars, retryVars, listenerVars, LeftInv
  <1>1. \A p \in Places, ch \in Channels : Holds(p, ch)' => Holds(p, ch)
    BY <1>0 DEF Holds
  <1>2. \A ch : Active(ch) => Active(ch)'
    BY <1>0 DEF Active, Channel
  <1>3. HeldActive' /\ OnePlace'
    BY <1>1, <1>2, Dropped DEF CalmInv
  <1>4. PolicyOwn'
    BY <1>0, <1>1, <1>2, PolicyKeeps, EventIsChannel DEF CalmInv
  <1>5. OneEvent' /\ BoxOwn'
    BY <1>0 DEF CalmInv, OneEvent, BoxOwn, Channel
  <1>6. WatcherOwn'
    BY <1>0, <1>4, WatcherKeeps, CalmParts
  <1> QED
    BY <1>0, <1>3, <1>5, <1>6, CalmStill

LEMMA CalmTake ==
    ASSUME LeftInv, CalmInv, NEW ev \in events, TakeEvent(ev)
    PROVE  CalmInv'
  <1>0. /\ events' = events \ {ev}
        /\ watcher.pc = "idle" /\ watcher'.pc = "find" /\ watcher'.event = ev[1]
        /\ UNCHANGED <<env, pc, iteration, result, erred, pending, working, retrying, attempts,
                       box>>
    BY DEF TakeEvent, Idle, WatchFrame, callVars, groupVars
  <1>1. ev[1] \in Channels
    BY DEF LeftInv, TypedInv, TypeOK
  <1>2. Holds("event", ev[1])
    BY DEF Holds
  <1>3. Moves(ev[1], "event", "watcher")
    <2> SUFFICES ASSUME NEW r \in Places, NEW ch \in Channels, Holds(r, ch)'
                 PROVE  \/ Holds(r, ch) /\ (r = "event" => ch # ev[1])
                        \/ r = "watcher" /\ ch = ev[1]
      BY DEF Moves
    <2>1. CASE r = "event"
      BY <1>0, <2>1 DEF Holds, CalmInv, OneEvent
    <2>2. CASE r = "watcher"
      BY <1>0, <2>2 DEF Holds
    <2>3. CASE r \in {"key", "retry", "worker", "box", "told"}
      BY <1>0, <2>3 DEF Holds
    <2> QED
      BY <2>1, <2>2, <2>3 DEF Places
  <1>4. HeldActive' /\ OnePlace'
    <2>1. "event" \in Places /\ "watcher" \in Places
      BY DEF Places
    <2> QED
      BY <1>0, <1>1, <1>2, <1>3, <2>1, Moved DEF CalmInv
  <1>5. OneEvent' /\ BoxOwn' /\ WatcherOwn'
    BY <1>0 DEF CalmInv, OneEvent, BoxOwn, Channel, WatcherOwn, FetchOwn, SendOwn, PolicyOwn
  <1> QED
    BY <1>0, <1>4, <1>5, CalmStill

\* The watcher goes on with the event.
LEMMA CalmGoesOn ==
    ASSUME CalmInv,
           UNCHANGED <<env, pc, iteration, result, erred, pending, working, events, retrying,
                       attempts, box>>,
           watcher.pc \in {"find", "fetch"}, watcher'.event = watcher.event, WatcherOwn'
    PROVE  CalmInv'
  <1>1. \A p \in Places, ch \in Channels : Holds(p, ch)' => Holds(p, ch)
    BY DEF Holds
  <1>2. \A ch : Active(ch) => Active(ch)'
    BY DEF Active, Channel
  <1>3. HeldActive' /\ OnePlace'
    BY <1>1, <1>2, Dropped DEF CalmInv
  <1>4. OneEvent' /\ BoxOwn'
    BY DEF CalmInv, OneEvent, BoxOwn, Channel
  <1> QED
    BY <1>3, <1>4, CalmStill

\* The call of an event that the watcher has taken is still waiting for it.
LEMMA EventActive ==
    ASSUME LeftInv, CalmInv, watcher.pc \in {"find", "fetch", "send"}
    PROVE  /\ watcher.event \in Channels /\ watcher.event[1] \in Calls
           /\ Active(watcher.event)
  <1>1. watcher.event \in Channels
    BY DEF LeftInv, TypedInv
  <1>2. Holds("watcher", watcher.event)
    BY DEF Holds
  <1> QED
    BY <1>1, <1>2 DEF CalmInv, HeldActive, Places, Channels

\* What the registry's set holds under the name of the event is the channel of
\* the event's own call.
LEMMA FindOwn ==
    ASSUME LeftInv, NamesInv, Calm, CalmInv, watcher.pc = "find", registry # 0,
           NEW c \in At(registry, Name[watcher.event[1]])
    PROVE  c[3] = watcher.event
  <1> DEFINE x == watcher.event[1]
  <1>1. x \in Calls /\ pc[x] \in Busy /\ watcher.event = Channel(x)
    BY EventActive DEF Active
  <1>2. c \in In(registry) /\ c \in chans /\ c[2] = Name[x]
    BY DEF At, In
  <1>3. Owner(c) \in Calls /\ Name[Owner(c)] = Name[x] /\ Watches(Owner(c))
    BY <1>2, OwnerIsCall DEF LeftInv, OwnersThere
  <1>4. Owner(c) = x
    BY <1>1, <1>3 DEF NamesInv, Exclusive, Calm, Watches, Busy, Away
  <1> QED
    BY <1>1, <1>2, <1>4 DEF NamesInv, CurrentThere

LEMMA CalmFinds ==
    ASSUME LeftInv, NamesInv, Calm, CalmInv, NotifyFinds
    PROVE  CalmInv'
  <1>0. /\ watcher.pc = "find" /\ watcher \in Watchers
        /\ UNCHANGED <<env, pc, iteration, result, erred, pending, working, events, retrying,
                       attempts, box, chans>>
    BY DEF NotifyFinds, WatchFrame, callVars, groupVars, listenerVars, retryVars, LeftInv,
           TypedInv, TypeOK, Watchers
  <1>1. CASE registry = 0
    BY <1>0, <1>1, AfterNotifyForgets, CalmForget DEF NotifyFinds, LeftInv
  <1>2. CASE registry # 0
    <2>1. /\ watcher'.pc = "fetch" /\ watcher'.wl = registry
          /\ watcher'.event = watcher.event
      BY <1>0, <1>2 DEF NotifyFinds, Watchers
    <2>2. FetchOwn'
      <3> SUFFICES ASSUME NEW c \in At(registry, Name[watcher.event[1]])
                   PROVE  c[3] = watcher.event
        BY <1>0, <2>1 DEF FetchOwn, At, In
      <3> QED
        BY <1>0, <1>2, FindOwn
    <2>3. WatcherOwn'
      BY <2>1, <2>2 DEF WatcherOwn, SendOwn, PolicyOwn
    <2> QED
      BY <1>0, <2>1, <2>3, CalmGoesOn
  <1> QED
    BY <1>1, <1>2

LEMMA CalmFetches ==
    ASSUME LeftInv, CalmInv, NotifyFetches
    PROVE  CalmInv'
  <1> DEFINE found == At(watcher.wl, Name[watcher.event[1]])
             ch == (CHOOSE c \in chans : c \in found)[3]
  <1>0. /\ watcher.pc = "fetch" /\ watcher \in Watchers
        /\ UNCHANGED <<env, pc, iteration, result, erred, pending, working, events, retrying,
                       attempts, box, chans>>
    BY DEF NotifyFetches, WatchFrame, callVars, groupVars, listenerVars, retryVars, LeftInv,
           TypedInv, TypeOK, Watchers
  <1>1. CASE found = {}
    BY <1>0, <1>1, AfterNotifyForgets, CalmForget DEF NotifyFetches, TaskName, LeftInv
  <1>2. CASE found # {}
    <2>1. ch = watcher.event
      <3>1. (CHOOSE c \in chans : c \in found) \in found
        BY <1>2, FoundIsRegistered
      <3> QED
        BY <1>0, <3>1 DEF CalmInv, FetchOwn
    <2>2. watcher' = [watcher EXCEPT !.pc = "send", !.ch = ch]
      BY <1>2 DEF NotifyFetches, TaskName
    <2> HIDE DEF found, ch
    <2>3. watcher'.pc = "send" /\ watcher'.event = watcher.event /\ watcher'.ch = ch
      BY <1>0, <2>2 DEF Watchers
    <2>4. WatcherOwn'
      BY <2>1, <2>3 DEF WatcherOwn, FetchOwn, SendOwn, PolicyOwn
    <2> QED
      BY <1>0, <2>3, <2>4, CalmGoesOn
  <1> QED
    BY <1>1, <1>2

LEMMA CalmSends ==
    ASSUME LeftInv, CalmInv, NotifySends
    PROVE  CalmInv'
  <1> DEFINE ev == watcher.event
             x == ev[1]
             q == IF watcher.status = "COMPLETED" THEN "box" ELSE "told"
  <1>0. /\ watcher.pc = "send" /\ watcher'.pc \in {"idle", "policy"}
        /\ watcher'.pc = "policy" => watcher'.event = ev /\ watcher.status = "FAILED"
        /\ UNCHANGED <<env, pc, iteration, result, erred, pending, working, events, retrying,
                       attempts>>
    BY AfterNotifyForgets
    DEF NotifySends, WatchFrame, callVars, groupVars, retryVars, LeftInv
  <1>1. /\ ev \in Channels /\ x \in Calls /\ Active(ev) /\ ev = Channel(x)
        /\ watcher.ch = ev
    BY <1>0, EventActive DEF Active, CalmInv, SendOwn
  <1>2. box \in [Calls -> (Channels \X Statuses) \cup {None}]
    BY DEF LeftInv, TypedInv, TypeOK
  <1>3. CASE box' = box
    BY <1>0, <1>3, CalmForget
  <1>4. CASE box' = [box EXCEPT ![x] = <<ev, watcher.status>>]
    <2>1. /\ box'[x][1] = ev /\ box'[x][2] = watcher.status
          /\ \A y \in Calls : y # x => box'[y] = box[y]
      BY <1>1, <1>2, <1>4
    <2>2. Holds("watcher", ev)
      BY <1>0 DEF Holds
    <2>3. Moves(ev, "watcher", q)
      <3> SUFFICES ASSUME NEW r \in Places, NEW ch \in Channels, Holds(r, ch)'
                   PROVE  \/ Holds(r, ch) /\ (r = "watcher" => ch # ev)
                          \/ r = q /\ ch = ev
        BY DEF Moves
      <3>1. CASE r = "box"
        BY <2>1, <3>1 DEF Holds
      <3>2. CASE r = "told"
        BY <1>0, <2>1, <3>2 DEF Holds
      <3>3. CASE r = "watcher"
        BY <1>0, <3>3 DEF Holds
      <3>4. CASE r \in {"key", "retry", "worker", "event"}
        BY <1>0, <3>4 DEF Holds
      <3> QED
        BY <3>1, <3>2, <3>3, <3>4 DEF Places
    <2>4. HeldActive' /\ OnePlace'
      <3>1. q \in Places /\ "watcher" \in Places
        BY DEF Places
      <3> HIDE DEF q
      <3> QED
        BY <1>0, <1>1, <2>2, <2>3, <3>1, Moved DEF CalmInv
    <2>5. PolicyOwn'
      <3> SUFFICES ASSUME watcher'.pc = "policy", NEW e, e = ev
                   PROVE  /\ Active(e)'
                          /\ \A p \in Places : Holds(p, e)' => p = "told"
        BY <1>0 DEF PolicyOwn, Active, Holds, Channel
      <3>1. \A p \in Places : Holds(p, e) => p = "watcher"
        BY <1>1, <2>2 DEF CalmInv, OnePlace, Places
      <3>2. \A p \in Places : Holds(p, e)' => p = q
        BY <1>1, <2>3, <3>1 DEF Moves
      <3> QED
        BY <1>0, <1>1, <3>2 DEF Active, Channel
    <2>6. OneEvent' /\ WatcherOwn'
      BY <1>0, <2>5 DEF CalmInv, OneEvent, WatcherOwn, FetchOwn, SendOwn
    <2>7. BoxOwn'
      BY <1>0, <1>1, <2>1 DEF CalmInv, BoxOwn, Channel
    <2> QED
      BY <1>0, <2>4, <2>6, <2>7, CalmStill
  <1> QED
    BY <1>1, <1>3, <1>4 DEF NotifySends

\* A skipped failure is notified again once the run is over.
LEMMA CalmFailed ==
    ASSUME LeftInv, FailuresInv, CalmInv, Calm', HandleTaskFailed
    PROVE  CalmInv'
  <1>1. /\ UNCHANGED <<env, pc, iteration, result, erred, pending, working, events, retrying,
                       attempts, box>>
        /\ live' = 0 /\ watcher.pc = "policy"
    BY DEF HandleTaskFailed, WatchFrame, callVars, groupVars, retryVars
  <1>2. "fails" \in env.faults
    BY <1>1 DEF FailuresInv
  <1>3. env.policy # "skip"
    BY <1>1, <1>2 DEF Calm, Skips
  <1>4. watcher'.pc = "idle"
    BY <1>3 DEF HandleTaskFailed, Idle
  <1> QED
    BY <1>1, <1>4, CalmForget

\* A failure that is retried moves from the channel, if the call got there, to
\* the goroutine that retries it.
LEMMA CalmRetry ==
    ASSUME LeftInv, CalmInv, Calm', HandleRetry
    PROVE  CalmInv'
  <1> DEFINE ev == watcher.event
  <1>0. /\ watcher.pc = "policy" /\ env.policy = "retry" /\ watcher'.pc = "idle"
        /\ attempts' # {} /\ retrying' = retrying \cup {<<ev, "backoff">>}
        /\ UNCHANGED <<env, pc, iteration, result, erred, pending, working, events, box>>
    BY DEF HandleRetry, WatchFrame, callVars, groupVars, Idle
  <1>1. erred = {} /\ ev \in Channels
    BY <1>0 DEF Calm, LeftInv, TypedInv
  <1>2. Active(ev) /\ \A p \in Places : Holds(p, ev) => p = "told"
    BY <1>0, <1>1 DEF CalmInv, PolicyOwn
  <1>3. ASSUME NEW p \in Places, NEW ch \in Channels, Holds(p, ch)'
        PROVE  (Holds(p, ch) /\ ch # ev) \/ (p = "retry" /\ ch = ev)
    <2>1. p # "told" /\ p # "watcher"
      BY <1>0, <1>3 DEF Holds
    <2>2. Holds(p, ch) \/ (p = "retry" /\ ch = ev)
      BY <1>0, <1>3, <2>1 DEF Holds
    <2> QED
      BY <1>2, <2>1, <2>2
  <1>4. \A ch : Active(ch) => Active(ch)'
    BY <1>0 DEF Active, Channel
  <1>5. HeldActive'
    BY <1>2, <1>3, <1>4 DEF CalmInv, HeldActive
  <1>6. OnePlace'
    BY <1>3 DEF CalmInv, OnePlace
  <1>7. OneEvent' /\ BoxOwn' /\ WatcherOwn'
    BY <1>0 DEF CalmInv, OneEvent, BoxOwn, Channel, WatcherOwn, FetchOwn, SendOwn, PolicyOwn
  <1> QED
    BY <1>0, <1>5, <1>6, <1>7, CalmStill

\* A payload that moves is not the one whose failure the watcher handles.
LEMMA PolicyMoved ==
    ASSUME TypedInv, PolicyOwn, NEW k \in Channels, NEW p \in Places \ {"told"}, NEW q \in Places,
           Holds(p, k), Moves(k, p, q), UNCHANGED <<env, pc, iteration, watcher, erred>>
    PROVE  PolicyOwn'
  <1> SUFFICES ASSUME watcher.pc = "policy", env.policy = "retry", erred = {}
               PROVE  /\ Active(watcher.event)'
                      /\ \A r \in Places : Holds(r, watcher.event)' => r = "told"
    BY DEF PolicyOwn
  <1>1. /\ Active(watcher.event) /\ watcher.event \in Channels
        /\ \A r \in Places : Holds(r, watcher.event) => r = "told"
    BY EventIsChannel DEF PolicyOwn
  <1>2. watcher.event # k
    BY <1>1
  <1>3. Active(watcher.event)'
    BY <1>1 DEF Active, Channel
  <1> QED
    BY <1>1, <1>2, <1>3 DEF Moves

\* Every push has a key of its own.
LEMMA CalmClaim ==
    ASSUME LeftInv, CalmInv, NEW k \in pending, Claim(k)
    PROVE  CalmInv'
  <1>0. /\ pending' = pending \ {k} /\ working' = working \cup {k} /\ TypedInv
        /\ UNCHANGED <<env, pc, iteration, result, erred, events, retrying, attempts, watcher,
                       box, chans>>
    BY DEF Claim, WorkFrame, callVars, groupVars, listenerVars, retryVars, LeftInv
  <1>1. k \in Channels /\ Holds("key", k)
    BY DEF Holds, LeftInv, TypedInv, TypeOK
  <1>2. Moves(k, "key", "worker")
    <2> SUFFICES ASSUME NEW r \in Places, NEW ch \in Channels, Holds(r, ch)'
                 PROVE  \/ Holds(r, ch) /\ (r = "key" => ch # k)
                        \/ r = "worker" /\ ch = k
      BY DEF Moves
    <2>1. CASE r \in {"key", "worker"}
      BY <1>0, <2>1 DEF Holds
    <2>2. CASE r \in {"retry", "event", "watcher", "box", "told"}
      BY <1>0, <2>2 DEF Holds
    <2> QED
      BY <2>1, <2>2 DEF Places
  <1>3. "key" \in Places \ {"told"} /\ "worker" \in Places
    BY DEF Places
  <1>4. HeldActive' /\ OnePlace'
    BY <1>0, <1>1, <1>2, <1>3, Moved DEF CalmInv
  <1>5. OneEvent' /\ BoxOwn'
    BY <1>0 DEF CalmInv, OneEvent, BoxOwn, Channel
  <1>6. PolicyOwn'
    BY <1>0, <1>1, <1>2, <1>3, PolicyMoved DEF CalmInv
  <1>7. WatcherOwn'
    BY <1>0, <1>6, WatcherKeeps, CalmParts
  <1> QED
    BY <1>0, <1>4, <1>5, <1>7, CalmStill

\* A retry puts the payload under a key again, ends, or clears the failure.
LEMMA CalmRetryStep ==
    ASSUME LeftInv, CalmInv, RetryStep
    PROVE  CalmInv'
  <1>0. /\ UNCHANGED <<env, pc, iteration, result, erred, working, events, attempts, watcher,
                       box, chans>>
        /\ TypedInv
    BY DEF RetryStep, RetryTask, RetryStops, ClearFailedTask, RetryFrame, callVars, groupVars,
           listenerVars, LeftInv
  <1>1. PICK t \in retrying : RetryTask(t[1]) \/ RetryStops(t[1]) \/ ClearFailedTask(t[1])
    BY DEF RetryStep
  <1> DEFINE k == t[1]
  <1>2. k \in Channels
    BY DEF LeftInv, TypedInv, TypeOK
  <1>3. OneEvent' /\ BoxOwn'
    BY <1>0 DEF CalmInv, OneEvent, BoxOwn, Channel
  <1>4. CASE RetryTask(k)
    <2>0. /\ <<k, "backoff">> \in retrying /\ pending' = pending \cup {k}
          /\ retrying' = (retrying \ {<<k, "backoff">>}) \cup {<<k, "clear">>}
      BY <1>4 DEF RetryTask
    <2> HIDE DEF k
    <2>1. Holds("retry", k)
      BY <2>0 DEF Holds
    <2>2. Moves(k, "retry", "key")
      <3> SUFFICES ASSUME NEW r \in Places, NEW ch \in Channels, Holds(r, ch)'
                   PROVE  \/ Holds(r, ch) /\ (r = "retry" => ch # k)
                          \/ r = "key" /\ ch = k
        BY DEF Moves
      <3>1. CASE r \in {"retry", "key"}
        BY <2>0, <3>1 DEF Holds
      <3>2. CASE r \in {"worker", "event", "watcher", "box", "told"}
        BY <1>0, <3>2 DEF Holds
      <3> QED
        BY <3>1, <3>2 DEF Places
    <2>3. "retry" \in Places \ {"told"} /\ "key" \in Places
      BY DEF Places
    <2>4. HeldActive' /\ OnePlace'
      BY <1>0, <1>2, <2>1, <2>2, <2>3, Moved DEF CalmInv
    <2>5. PolicyOwn'
      BY <1>0, <1>2, <2>1, <2>2, <2>3, PolicyMoved DEF CalmInv
    <2>6. WatcherOwn'
      BY <1>0, <2>5, WatcherKeeps, CalmParts
    <2> QED
      BY <1>0, <1>3, <2>4, <2>6, CalmStill
  <1>5. CASE RetryStops(k) \/ ClearFailedTask(k)
    <2>0. retrying' \subseteq retrying /\ pending' = pending
      BY <1>5 DEF RetryStops, ClearFailedTask
    <2>1. \A p \in Places, ch \in Channels : Holds(p, ch)' => Holds(p, ch)
      BY <1>0, <2>0 DEF Holds
    <2>2. \A ch : Active(ch) => Active(ch)'
      BY <1>0 DEF Active, Channel
    <2>3. HeldActive' /\ OnePlace'
      BY <2>1, <2>2, Dropped DEF CalmInv
    <2>4. PolicyOwn'
      BY <1>0, <2>1, <2>2, PolicyKeeps, EventIsChannel DEF CalmInv
    <2>5. WatcherOwn'
      BY <1>0, <2>4, WatcherKeeps, CalmParts
    <2> QED
      BY <1>0, <1>3, <2>3, <2>5, CalmStill
  <1> QED
    BY <1>1, <1>4, <1>5

LEMMA CalmReport ==
    ASSUME LeftInv, CalmInv, NEW k \in working, NEW s \in Statuses, Report(k, s)
    PROVE  CalmInv'
  <1>0. /\ working' = working \ {k} /\ events' = events \cup {<<k, s>>}
        /\ UNCHANGED <<env, pc, iteration, result, erred, pending, retrying, attempts, watcher,
                       box, chans>>
        /\ TypedInv
    BY DEF Report, WorkFrame, callVars, groupVars, listenerVars, retryVars, LeftInv
  <1>1. k \in Channels /\ Holds("worker", k)
    BY DEF Holds, LeftInv, TypedInv, TypeOK
  <1>2. Moves(k, "worker", "event")
    <2> SUFFICES ASSUME NEW r \in Places, NEW ch \in Channels, Holds(r, ch)'
                 PROVE  \/ Holds(r, ch) /\ (r = "worker" => ch # k)
                        \/ r = "event" /\ ch = k
      BY DEF Moves
    <2>1. CASE r = "event"
      BY <1>0, <2>1 DEF Holds
    <2>2. CASE r = "worker"
      BY <1>0, <2>2 DEF Holds
    <2>3. CASE r \in {"key", "retry", "watcher", "box", "told"}
      BY <1>0, <2>3 DEF Holds
    <2> QED
      BY <2>1, <2>2, <2>3 DEF Places
  <1>3. HeldActive' /\ OnePlace'
    <2>1. "event" \in Places /\ "worker" \in Places
      BY DEF Places
    <2> QED
      BY <1>0, <1>1, <1>2, <2>1, Moved DEF CalmInv
  <1>4. OneEvent'
    <2>1. \A ev \in events : ev[1] # k
      BY <1>1 DEF CalmInv, OnePlace, Places, Holds
    <2> QED
      BY <1>0, <2>1 DEF CalmInv, OneEvent
  <1>5. BoxOwn'
    BY <1>0 DEF CalmInv, BoxOwn, Channel
  <1>6. WatcherOwn'
    <2>1. "worker" \in Places \ {"told"} /\ "event" \in Places
      BY DEF Places
    <2>2. PolicyOwn'
      BY <1>0, <1>1, <1>2, <2>1, PolicyMoved DEF CalmInv
    <2> QED
      BY <1>0, <2>2, WatcherKeeps, CalmParts
  <1> QED
    BY <1>0, <1>3, <1>4, <1>5, <1>6, CalmStill

\* Between two iterations no payload is anywhere.
LEMMA CalmIteration ==
    ASSUME LeftInv, CalmInv, NextIteration, live = 1
    PROVE  CalmInv'
  <1>0. /\ pc' = Begin(env) /\ box' = [x \in Calls |-> None]
        /\ UNCHANGED <<env, pending, working, events, retrying, attempts, watcher>>
        /\ erred = {} /\ TypedInv
    BY DEF NextIteration, GroupFrame, taskVars, retryVars, GroupError, LeftInv
  <1>1. \A x \in Calls : pc[x] = "done"
    BY DEF LeftInv, OthersDone, NextIteration, AllDone
  <1>2. \A ch \in Channels : ~Active(ch)
    BY <1>1 DEF Active, Busy, Channels
  <1>3. \A p \in Places, ch \in Channels : ~Holds(p, ch)
    BY <1>2 DEF CalmInv, HeldActive
  <1>4. \A p \in Places, ch \in Channels : Holds(p, ch)' => Holds(p, ch)
    BY <1>0 DEF Holds
  <1>5. HeldActive' /\ OnePlace'
    BY <1>3, <1>4 DEF HeldActive, OnePlace
  <1>6. BoxOwn'
    BY <1>0 DEF BoxOwn
  <1>7. watcher.pc \notin {"fetch", "send"}
    BY <1>2, EventActive
  <1>8. OneEvent' /\ FetchOwn' /\ SendOwn'
    BY <1>0, <1>7 DEF CalmInv, OneEvent, FetchOwn, SendOwn
  <1>10. PolicyOwn'
    BY <1>0, <1>2, EventIsChannel DEF CalmInv, PolicyOwn
  <1>9. ResultOwn'
    <2>1. \A x \in Members(env) : x \in Calls /\ Begin(env)[x] \in {"push", "sem"}
      BY Environment DEF LeftInv, TypedInv, TypeOK, Members, Begin
    <2> QED
      BY <1>0, <2>1 DEF ResultOwn, Left
  <1> QED
    BY <1>5, <1>6, <1>8, <1>9, <1>10 DEF CalmInv

\* A step that only takes registrations away.
LEMMA CalmUntouched ==
    ASSUME LeftInv, CalmInv, chans' \subseteq chans,
           UNCHANGED <<env, pc, iteration, result, erred, pending, working, events, retrying,
                       attempts, watcher, box>>
    PROVE  CalmInv'
  <1>1. \A p \in Places, ch \in Channels : Holds(p, ch)' => Holds(p, ch)
    BY DEF Holds
  <1>2. \A ch : Active(ch) => Active(ch)'
    BY DEF Active, Channel
  <1>3. HeldActive' /\ OnePlace'
    BY <1>1, <1>2, Dropped DEF CalmInv
  <1>4. OneEvent' /\ BoxOwn'
    BY DEF CalmInv, OneEvent, BoxOwn, Channel
  <1>5. PolicyOwn'
    BY <1>1, <1>2, PolicyKeeps, EventIsChannel DEF CalmInv, LeftInv
  <1>6. WatcherOwn'
    BY <1>5, WatcherKeeps, CalmParts
  <1> QED
    BY <1>3, <1>4, <1>6, CalmStill

LEMMA CalmNext ==
    ASSUME LeftInv, NamesInv, FailuresInv, Calm => CalmInv, [Next]_vars
    PROVE  Calm' => CalmInv'
  <1> SUFFICES ASSUME Calm' PROVE CalmInv'
    OBVIOUS
  <1>0. Calm /\ CalmInv
    BY CalmBack DEF NamesInv
  <1>1. ASSUME NEW x \in Calls, CallStep(x) PROVE CalmInv'
    BY <1>0, <1>1, CalmCall
  <1>2. CASE WatcherStep
    BY <1>0, <1>2, CalmIgnore, CalmTake, CalmFinds, CalmFetches, CalmSends, CalmRetry, CalmFailed
    DEF WatcherStep
  <1>7. CASE RetryStep
    BY <1>0, <1>7, CalmRetryStep
  <1>3. CASE WorkerStep
    BY <1>0, <1>3, CalmClaim, CalmReport DEF WorkerStep
  <1>4. CASE OutsideStep
    BY <1>0, <1>4, CalmUntouched
    DEF OutsideStep, CancelWorkflow, CleanupWorkflowState, CleanupTaskListeners, Shutdown,
        OutsideFrame, callVars, taskVars, retryVars, groupVars
  <1>5. CASE GroupStep
    <2>1. CASE UNCHANGED <<pc, iteration, result>>
      <3>1. box' = box \/ (NextIteration /\ live = 1)
        BY <1>5 DEF GroupStep, TrackSubWorkflow, GroupFails, LoopCancelled, GroupEnds,
                    NextIteration
      <3>2. UNCHANGED <<env, erred, pending, working, events, retrying, attempts, watcher, chans>>
        BY <1>5 DEF GroupStep, TrackSubWorkflow, GroupFails, LoopCancelled, GroupEnds,
                    NextIteration, GroupFrame, taskVars, retryVars, listenerVars
      <3> QED
        BY <1>0, <2>1, <3>1, <3>2, CalmUntouched, CalmIteration
    <2>2. CASE NextIteration /\ live = 1
      BY <1>0, <2>2, CalmIteration
    <2> QED
      BY <1>5, <2>1, <2>2, OthersMove
  <1>6. CASE UNCHANGED vars
    BY <1>0, <1>6, CalmUntouched
    DEF vars, listenerVars, callVars, taskVars, retryVars, groupVars
  <1> QED
    BY <1>1, <1>2, <1>3, <1>4, <1>5, <1>6, <1>7 DEF Next, MasterStep

\* A group that has gone on is over, and was answered when it went on.
LEMMA AdvancedNext ==
    ASSUME LeftInv, NamesInv, Calm => CalmInv, AdvancedDone, ResultsOwned, [Next]_vars
    PROVE  AdvancedDone' /\ ResultsOwned'
  <1>0. env' = env
    BY CallMoves, OthersMove DEF Next, MasterStep
  <1>1. Overlapping' = Overlapping /\ Members(env)' = Members(env)
    BY <1>0 DEF Overlapping, Members
  <1>2. Members(env) \subseteq Calls
    BY Environment DEF LeftInv, TypedInv, TypeOK, Members
  <1>3. CASE GroupEnds
    <2>1. AllDone /\ erred = {} /\ UNCHANGED <<pc, result, iteration>>
      BY <1>3 DEF GroupEnds, GroupError
    <2>2. AdvancedDone'
      BY <1>1, <2>1 DEF AdvancedDone, AllDone
    <2>3. ASSUME group' = "advanced", ~Overlapping
          PROVE  \A x \in Members(env) : result[x] = Channel(x)
      <3>1. live = 1 /\ late = {}
        BY <1>3, <2>1, <2>3 DEF GroupEnds, NamesInv, LateErred
      <3>2. CalmInv
        BY <2>1, <2>3, <3>1 DEF Calm
      <3> QED
        BY <2>1, <3>2 DEF CalmInv, ResultOwn, AllDone, Left
    <2>4. ResultsOwned'
      BY <1>1, <2>1, <2>3 DEF ResultsOwned, Channel
    <2> QED
      BY <2>2, <2>4
  <1>4. CASE ~GroupEnds
    <2> SUFFICES ASSUME group' = "advanced"
                 PROVE  AllDone' /\ ResultsOwned'
      BY DEF AdvancedDone, ResultsOwned
    <2>1. group = "advanced"
      <3>1. WatcherStep \/ RetryStep \/ WorkerStep \/ OutsideStep \/ UNCHANGED vars => group' = group
        BY DEF WatcherStep, IgnoreEvent, TakeEvent, NotifyFinds, NotifyFetches, NotifySends,
               HandleRetry, HandleTaskFailed, WatchFrame, RetryStep, RetryTask, RetryStops,
               ClearFailedTask, RetryFrame, WorkerStep, Claim, Report, WorkFrame, OutsideStep, CancelWorkflow, CleanupWorkflowState, CleanupTaskListeners,
               Shutdown, OutsideFrame, groupVars, vars
      <3>2. GroupStep => group' = group
        BY <1>4 DEF GroupStep, TrackSubWorkflow, GroupFails, LoopCancelled, NextIteration
      <3> QED
        BY <3>1, <3>2, CallMoves DEF Next, MasterStep
    <2>2. \A x \in Calls : pc[x] = "done"
      BY <2>1 DEF AdvancedDone, AllDone, LeftInv, OthersDone
    <2>3. \A x \in Calls : ~CallStep(x)
      BY <2>2, CallMoves
    <2>4. UNCHANGED <<pc, iteration, result>>
      BY <2>1, <2>3, OthersMove DEF Next, MasterStep, NextIteration
    <2> QED
      BY <1>1, <2>1, <2>4 DEF AdvancedDone, AllDone, ResultsOwned, Channel
  <1> QED
    BY <1>3, <1>4

\* The channel the watcher sends on is that of a call that still waits.
LEMMA PanicNext ==
    ASSUME LeftInv, Open, Calm => CalmInv, PanicNeedsLateness, [Next]_vars
    PROVE  PanicNeedsLateness'
  <1>1. CASE UNCHANGED vars
    BY <1>1 DEF vars, callVars, retryVars, PanicNeedsLateness, Overlapping, Members
  <1>2. CASE Next /\ NotifySends
    <2>1. /\ watcher.pc = "send" /\ panic = "none"
          /\ panic' = IF watcher.ch \in closed THEN "send" ELSE panic
          /\ UNCHANGED <<env, late, erred, attempts, cleaner>>
      BY <1>2 DEF Next, NotifySends, WatchFrame, callVars, retryVars
    <2> SUFFICES ASSUME watcher.ch \in closed, late = {}, cleaner.pc # "done", ~Overlapping,
                        ~Skips, attempts = {} \/ erred = {}
                 PROVE  FALSE
      BY <2>1 DEF PanicNeedsLateness, Overlapping, Members, Skips
    <2>2. CalmInv
      BY DEF Calm
    <2>3. watcher.ch = watcher.event /\ watcher.event[1] \in Calls /\ Active(watcher.event)
      BY <2>1, <2>2, EventActive DEF CalmInv, SendOwn
    <2> QED
      BY <2>3 DEF Open, Active
  <1>3. CASE Next /\ ~NotifySends
    <2>1. panic = "none"
      BY <1>3 DEF Next
    <2>2. ASSUME NEW x \in Calls, CallStep(x) PROVE panic' # "send"
      BY <2>1, <2>2
      DEF CallStep, Watchdog, Cancelled, GiveUp, Acquire, PushTask, PushTaskError,
          GetOrCreateListeners, RegisterTaskListener, Receive, Leave, FindListeners,
          TakeListener, Purge, Close
    <2>3. WatcherStep \/ RetryStep \/ WorkerStep \/ OutsideStep \/ GroupStep => panic' # "send"
      BY <1>3, <2>1
      DEF WatcherStep, IgnoreEvent, TakeEvent, NotifyFinds, NotifyFetches, HandleRetry,
          HandleTaskFailed, RetryStep, RetryTask, RetryStops, ClearFailedTask, RetryFrame,
          WorkerStep, Claim, Report, WorkFrame, OutsideStep, CancelWorkflow, CleanupWorkflowState,
          CleanupTaskListeners, Shutdown, GroupStep, TrackSubWorkflow, GroupFails,
          LoopCancelled, GroupEnds, NextIteration, GroupFrame
    <2> QED
      BY <1>3, <2>2, <2>3 DEF Next, MasterStep, PanicNeedsLateness
  <1> QED
    BY <1>1, <1>2, <1>3

LEMMA AnswerNext == AnswerInv /\ [Next]_vars => AnswerInv'
  <1> SUFFICES ASSUME AnswerInv, [Next]_vars PROVE AnswerInv'
    OBVIOUS
  <1>1. LeftInv' /\ ChannelInv'
    BY LeftNext, ChannelNext DEF AnswerInv
  <1>2. NamesInv' /\ FailuresInv' /\ Open'
    BY NamesNext, FailuresNext, OpenNext DEF AnswerInv
  <1>3. Calm' => CalmInv'
    BY CalmNext DEF AnswerInv
  <1>4. AdvancedDone' /\ ResultsOwned' /\ PanicNeedsLateness'
    BY AdvancedNext, PanicNext DEF AnswerInv
  <1> QED
    BY <1>1, <1>2, <1>3, <1>4 DEF AnswerInv

LEMMA AnswerInit == Init => AnswerInv
  <1> SUFFICES ASSUME Init PROVE AnswerInv
    OBVIOUS
  <1>0. /\ env \in Environments /\ pc = Begin(env) /\ late = {} /\ erred = {} /\ chans = {}
        /\ registry = 0 /\ pending = {} /\ working = {} /\ events = {} /\ retrying = {}
        /\ box = [x \in Calls |-> None] /\ group = "executing" /\ panic = "none"
        /\ watcher.pc = "idle" /\ watcher.status = "COMPLETED"
    BY DEF Init, Idle
  <1>1. NamesInv
    <2>1. SemItems
      BY <1>0 DEF SemItems, Begin
    <2>2. Exclusive
      BY <1>0, BeginExclusive DEF Exclusive
    <2> QED
      BY <1>0, <2>1, <2>2 DEF NamesInv, ChansNamed, CurrentThere, LateErred
  <1>2. FailuresInv
    BY <1>0 DEF FailuresInv
  <1>3. Open
    BY <1>0 DEF Open, Begin, Busy
  <1>4. CalmInv
    <2>1. \A p \in Places, ch \in Channels : ~Holds(p, ch)
      BY <1>0, NoneAssumption DEF Holds, Channels
    <2>2. \A x \in Members(env) : x \in Calls /\ Begin(env)[x] \in {"push", "sem"}
      BY <1>0, Environment DEF Members, Begin
    <2> QED
      BY <1>0, <2>1, <2>2
      DEF CalmInv, HeldActive, OnePlace, OneEvent, BoxOwn, FetchOwn, SendOwn, PolicyOwn,
          ResultOwn, Left
  <1>5. AdvancedDone /\ ResultsOwned /\ PanicNeedsLateness
    BY <1>0 DEF AdvancedDone, ResultsOwned, PanicNeedsLateness
  <1> QED
    BY <1>1, <1>2, <1>3, <1>4, <1>5, LeftInit, ChannelInit DEF AnswerInv

\* A group that goes on was answered task by task: unless calls of one name
\* overlap, each call got the result of its own payload, however often the name
\* is used again by the items of a fan-out and the iterations of a loop, and
\* whatever retries, clean-ups, failures and cancellations do.
THEOREM GroupResultsOwned == Spec => []ResultsOwned
  <1>1. AnswerInv => ResultsOwned
    BY DEF AnswerInv
  <1> QED
    BY <1>1, AnswerInit, AnswerNext, PTL DEF Spec

\* notifyTaskListener panics on a closed channel only after a call gave up or
\* was cleaned up, where calls of one name overlap, where a failure that is
\* skipped is notified twice, or where tasks are retried behind a call that was
\* told of a failure.
THEOREM GroupPanicNeedsLateness == Spec => []PanicNeedsLateness
  <1>1. AnswerInv => PanicNeedsLateness
    BY DEF AnswerInv
  <1> QED
    BY <1>1, AnswerInit, AnswerNext, PTL DEF Spec

=============================================================================
