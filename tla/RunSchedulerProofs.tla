------------------------- MODULE RunSchedulerProofs -------------------------
(***************************************************************************)
(* Proofs about the run scheduler, for any agents, tasks and drain calls.  *)
(*                                                                         *)
(* The properties are not inductive by themselves.  IInv adds what ties    *)
(* the queues to the tasks: every list holds pending tasks of its own      *)
(* agent, each once; a task with an armed timer is the active one; the     *)
(* active task and the zombies are in progress and distinct.  From it      *)
(* follow the safety properties and that the scheduler implements          *)
(* ExclusiveRuns.  The last part adds the run windows of RunLifecycle and  *)
(* counts: what the diagnostics, the windows and drain() report is true.   *)
(***************************************************************************)
EXTENDS RunLifecycle, FiniteSetTheorems, TLAPS

Distinct(s) == \A i, j \in DOMAIN s : s[i] = s[j] => i = j

\* The pending lists hold pending tasks of their agent and lane.
QueuesHoldPending ==
    \A a \in Agents, l \in Lanes : \A i \in DOMAIN pending[a][l] :
        /\ status[pending[a][l][i]] = "pending"
        /\ owner[pending[a][l][i]] = a
        /\ lane[pending[a][l][i]] = l

\* No task is in a list twice.
QueuedOnce ==
    \A a \in Agents, l \in Lanes : Distinct(pending[a][l])

ActiveIsLive ==
    \A a \in Agents : active[a] # NoTask => Live(active[a]) /\ owner[active[a]] = a

ZombieIsLive ==
    \A a \in Agents : \A t \in zombies[a] :
        Live(t) /\ owner[t] = a /\ active[a] # t /\ promise[t] = "resolved"

LiveIsTracked ==
    ~disposed => \A t \in Tasks : Live(t) => active[owner[t]] = t \/ Escaped(t)

TimerMeansActive ==
    \A t \in Tasks : timer[t] # "none" => active[owner[t]] = t

IInv ==
    /\ TypeOK
    /\ QueuesHoldPending
    /\ QueuedOnce
    /\ ActiveIsLive
    /\ ZombieIsLive
    /\ LiveIsTracked
    /\ TimerMeansActive
    /\ OneRunAtATime
    /\ ReleasedEarlyOnlyByEscape
    /\ NoLostWakeup

-----------------------------------------------------------------------------

\* push() of a new item keeps a list free of duplicates.
LEMMA AppendDistinct ==
    ASSUME NEW S, NEW s \in Seq(S), NEW e \in S, Distinct(s), \A i \in DOMAIN s : s[i] # e
    PROVE  Distinct(Append(s, e))
  <1>1. SUFFICES ASSUME NEW i \in 1 .. Len(s) + 1, NEW j \in 1 .. Len(s) + 1,
                        Append(s, e)[i] = Append(s, e)[j]
                 PROVE  i = j
    BY DEF Distinct
  <1>2. DOMAIN s = 1 .. Len(s) /\ Len(s) \in Nat
    OBVIOUS
  <1>3. CASE i \in DOMAIN s /\ j \in DOMAIN s
    <2>1. Append(s, e)[i] = s[i] /\ Append(s, e)[j] = s[j]
      BY <1>2, <1>3
    <2>2. QED
      BY <1>1, <1>3, <2>1 DEF Distinct
  <1>4. CASE i = Len(s) + 1
    BY <1>1, <1>2, <1>4
  <1>5. CASE j = Len(s) + 1
    BY <1>1, <1>2, <1>5
  <1>6. QED
    BY <1>2, <1>3, <1>4, <1>5

\* shift() leaves the other items, each still once.
LEMMA TailDistinct ==
    ASSUME NEW S, NEW s \in Seq(S), s # <<>>, Distinct(s)
    PROVE  /\ Distinct(Tail(s))
           /\ \A i \in DOMAIN Tail(s) :
                /\ Tail(s)[i] # Head(s)
                /\ \E k \in DOMAIN s : Tail(s)[i] = s[k]
  <1>1. /\ DOMAIN s = 1 .. Len(s) /\ Len(s) \in Nat /\ Len(s) > 0 /\ Head(s) = s[1]
        /\ DOMAIN Tail(s) = 1 .. Len(s) - 1
    OBVIOUS
  <1>2. \A i \in DOMAIN Tail(s) :
          i \in Nat /\ i # 0 /\ i + 1 \in DOMAIN s /\ Tail(s)[i] = s[i + 1]
    BY <1>1
  <1>3. ASSUME NEW i \in DOMAIN Tail(s), NEW j \in DOMAIN Tail(s), Tail(s)[i] = Tail(s)[j]
        PROVE  i = j
    <2>1. i + 1 = j + 1
      BY <1>2, <1>3 DEF Distinct
    <2>2. QED
      BY <1>2, <2>1
  <1>4. ASSUME NEW i \in DOMAIN Tail(s) PROVE Tail(s)[i] # Head(s)
    <2>1. i + 1 # 1 /\ 1 \in DOMAIN s
      BY <1>1, <1>2
    <2>2. QED
      BY <1>1, <1>2, <2>1 DEF Distinct
  <1>5. QED
    BY <1>2, <1>3, <1>4 DEF Distinct

\* HasPending says that the lane pump() chooses is not empty.
LEMMA NextLaneNonEmpty ==
    ASSUME TypeOK, NEW a \in Agents, HasPending(a)
    PROVE  NextLane(a) \in Lanes /\ pending[a][NextLane(a)] # <<>>
  BY SMTT(30), ZenonT(30) DEF TypeOK, HasPending, NextLane, Lanes

\* What pump() takes is a task, and the rest of its list is a list of tasks.
LEMMA HeadIsTask ==
    ASSUME TypeOK, NEW a \in Agents, HasPending(a)
    PROVE  /\ Head(pending[a][NextLane(a)]) \in Tasks
           /\ Tail(pending[a][NextLane(a)]) \in Seq(Tasks)
           /\ 1 \in DOMAIN pending[a][NextLane(a)]
           /\ Head(pending[a][NextLane(a)]) = pending[a][NextLane(a)][1]
  <1>1. pending[a][NextLane(a)] \in Seq(Tasks) /\ pending[a][NextLane(a)] # <<>>
    BY NextLaneNonEmpty DEF TypeOK
  <1>2. QED
    BY <1>1

\* Every initial state is well typed.
LEMMA InitTypeOK == Init => TypeOK
  <1> SUFFICES ASSUME Init PROVE TypeOK
    OBVIOUS
  <1>1. pending \in [Agents -> [Lanes -> Seq(Tasks)]]
    BY DEF Init
  <1>2. drains \in [Drains -> [state : {"idle", "waiting", "returned"},
                             onSettled : SUBSET Tasks, onPromise : SUBSET Tasks,
                             known : SUBSET Tasks]]
    BY DEF Init, NoDrain
  <1>3. QED
    BY <1>1, <1>2 DEF Init, TypeOK, Statuses

\* Every step leaves a well-typed state.
LEMMA StepKeepsTypeOK ==
    ASSUME TypeOK, [Next]_vars
    PROVE  TypeOK'
  <1> USE DEF TypeOK
  <1>1. ASSUME NEW t \in Tasks, Enqueue(t) PROVE TypeOK'
    <2>1. pending' \in [Agents -> [Lanes -> Seq(Tasks)]]
      BY <1>1 DEF Enqueue
    <2>2. QED
      BY <1>1, <2>1 DEF Enqueue, SchedulePump, Statuses
  <1>2. ASSUME NEW t \in Tasks, StartTask(t) PROVE TypeOK'
    BY <1>2 DEF StartTask, Statuses
  <1>3. ASSUME NEW t \in Tasks, NEW o \in {"fulfilled", "failed"}, FinishTask(t, o)
        PROVE TypeOK'
    BY <1>3 DEF FinishTask, Statuses
  <1>4. ASSUME NEW t \in Tasks, Settle(t) PROVE TypeOK'
    BY <1>4 DEF Settle, SettleTask, SettlePromise, DropZombie, SchedulePump, FreeSlot,
                Outcome, Statuses
  <1>5. ASSUME NEW t \in Tasks, WatchdogFires(t) PROVE TypeOK'
    BY <1>5 DEF WatchdogFires
  <1>6. ASSUME NEW t \in Tasks, GraceFires(t) PROVE TypeOK'
    BY <1>6 DEF GraceFires, ReleaseCaller, TrackZombie, FreeSlot, SettlePromise
  <1>7. ASSUME NEW a \in Agents, PumpNothing(a) PROVE TypeOK'
    BY <1>7 DEF PumpNothing
  <1>8. ASSUME NEW a \in Agents, PumpTask(a) PROVE TypeOK'
    <2>1. HasPending(a)
      BY <1>8 DEF PumpTask, TakeNext
    <2>2. /\ NextLane(a) \in Lanes
          /\ Head(pending[a][NextLane(a)]) \in Tasks
          /\ Tail(pending[a][NextLane(a)]) \in Seq(Tasks)
      BY <2>1, NextLaneNonEmpty, HeadIsTask
    <2>3. pending' \in [Agents -> [Lanes -> Seq(Tasks)]]
      BY <1>8, <2>2 DEF PumpTask, TakeNext
    <2>4. QED
      BY <1>8, <2>2, <2>3 DEF PumpTask, TakeNext, Statuses
  <1>9. ASSUME NEW d \in Drains, NEW a \in Agents, DrainCall(d, a) PROVE TypeOK'
    <2>1. /\ zombies[a] \cup ({active[a]} \ {NoTask}) \in SUBSET Tasks
          /\ Queued(a) \in SUBSET Tasks
          /\ Outstanding(a) \in SUBSET Tasks
      BY DEF Queued, Outstanding
    <2>2. QED
      BY <1>9, <2>1 DEF DrainCall, DrainWaitingFor
  <1>10. ASSUME NEW d \in Drains, DrainReturn(d) PROVE TypeOK'
    BY ZenonT(30), SMTT(30), <1>10 DEF DrainReturn
  <1>11. CASE Dispose
    BY <1>11 DEF Dispose
  <1>12. CASE UNCHANGED vars
    BY <1>12 DEF vars
  <1>13. QED
    BY <1>1, <1>2, <1>3, <1>4, <1>5, <1>6, <1>7, <1>8, <1>9, <1>10, <1>11, <1>12
    DEF Next, TaskStep

\* Type correctness of the run scheduler.
THEOREM TypeCorrect == Spec => []TypeOK
  <1>1. TypeOK /\ [Next]_vars => TypeOK'
    BY StepKeepsTypeOK
  <1>2. QED
    BY <1>1, InitTypeOK, PTL DEF Spec

-----------------------------------------------------------------------------

\* A step that touches only the drain() calls keeps the invariant.
LEMMA FrameKeepsIInv ==
    ASSUME IInv, TypeOK',
           UNCHANGED <<pending, active, zombies, pumpDue, owner, lane, status, promise,
                       timer, disposed>>
    PROVE  IInv'
  BY DEF IInv, QueuesHoldPending, QueuedOnce, ActiveIsLive, ZombieIsLive, LiveIsTracked,
         TimerMeansActive, OneRunAtATime, ReleasedEarlyOnlyByEscape, NoLostWakeup, Live,
         Escaped, HasPending

\* enqueue() appends a new task to its own list.
LEMMA EnqueueKeepsIInv ==
    ASSUME NEW t \in Tasks, IInv, TypeOK', Enqueue(t)
    PROVE  IInv'
  <1> USE DEF IInv, TypeOK
  <1>1. QueuesHoldPending'
    BY SMTT(30), ZenonT(30), NoTaskAssumption DEF Enqueue, SchedulePump, QueuesHoldPending
  <1>2. QueuedOnce'
    <2>1. \A i \in DOMAIN pending[owner[t]][lane[t]] : pending[owner[t]][lane[t]][i] # t
      BY DEF Enqueue, QueuesHoldPending
    <2>2. SUFFICES ASSUME NEW a \in Agents, NEW l \in Lanes PROVE Distinct(pending'[a][l])
      BY DEF QueuedOnce
    <2>3. pending[a][l] \in Seq(Tasks) /\ Distinct(pending[a][l])
      BY DEF QueuedOnce
    <2>4. CASE a = owner[t] /\ l = lane[t]
      <3>1. pending'[a][l] = Append(pending[a][l], t)
        BY <2>4 DEF Enqueue
      <3>2. QED
        BY <2>1, <2>3, <2>4, <3>1, AppendDistinct
    <2>5. CASE ~(a = owner[t] /\ l = lane[t])
      <3>1. pending'[a][l] = pending[a][l]
        BY <2>5 DEF Enqueue
      <3>2. QED
        BY <2>3, <3>1
    <2>6. QED
      BY <2>4, <2>5
  <1>3. ActiveIsLive'
    BY NoTaskAssumption DEF Enqueue, SchedulePump, ActiveIsLive, Live, LiveStatuses
  <1>4. ZombieIsLive'
    BY NoTaskAssumption DEF Enqueue, SchedulePump, ZombieIsLive, Live, LiveStatuses
  <1>5. LiveIsTracked'
    BY NoTaskAssumption DEF Enqueue, SchedulePump, LiveIsTracked, Live, LiveStatuses, Escaped
  <1>6. TimerMeansActive'
    BY NoTaskAssumption DEF Enqueue, SchedulePump, TimerMeansActive
  <1>7. OneRunAtATime'
    BY NoTaskAssumption DEF Enqueue, SchedulePump, OneRunAtATime, Live, LiveStatuses, Escaped
  <1>8. ReleasedEarlyOnlyByEscape'
    BY NoTaskAssumption DEF Enqueue, SchedulePump, ReleasedEarlyOnlyByEscape, Escaped
  <1>9. NoLostWakeup'
    BY NoTaskAssumption DEF Enqueue, SchedulePump, NoLostWakeup, HasPending
  <1>10. QED
    BY <1>1, <1>2, <1>3, <1>4, <1>5, <1>6, <1>7, <1>8, <1>9

\* The start of a task changes only how far it is.
LEMMA StartTaskKeepsIInv ==
    ASSUME NEW t \in Tasks, IInv, TypeOK', StartTask(t)
    PROVE  IInv'
  <1> USE DEF IInv, TypeOK
  <1>1. QueuesHoldPending'
    BY NoTaskAssumption DEF StartTask, QueuesHoldPending
  <1>2. QueuedOnce'
    BY NoTaskAssumption DEF StartTask, QueuedOnce
  <1>3. ActiveIsLive'
    BY NoTaskAssumption DEF StartTask, ActiveIsLive, Live, LiveStatuses
  <1>4. ZombieIsLive'
    BY NoTaskAssumption DEF StartTask, ZombieIsLive, Live, LiveStatuses
  <1>5. LiveIsTracked'
    BY NoTaskAssumption DEF StartTask, LiveIsTracked, Live, LiveStatuses, Escaped
  <1>6. TimerMeansActive'
    BY NoTaskAssumption DEF StartTask, TimerMeansActive
  <1>7. OneRunAtATime'
    BY NoTaskAssumption DEF StartTask, OneRunAtATime, Live, LiveStatuses, Escaped
  <1>8. ReleasedEarlyOnlyByEscape'
    BY NoTaskAssumption DEF StartTask, ReleasedEarlyOnlyByEscape, Escaped
  <1>9. NoLostWakeup'
    BY NoTaskAssumption DEF StartTask, NoLostWakeup, HasPending
  <1>10. QED
    BY <1>1, <1>2, <1>3, <1>4, <1>5, <1>6, <1>7, <1>8, <1>9

\* A task that has finished is in progress until settle() has seen it.
LEMMA FinishTaskKeepsIInv ==
    ASSUME NEW t \in Tasks, NEW o \in {"fulfilled", "failed"}, IInv, TypeOK', FinishTask(t, o)
    PROVE  IInv'
  <1> USE DEF IInv, TypeOK
  <1>1. QueuesHoldPending'
    BY NoTaskAssumption DEF FinishTask, QueuesHoldPending
  <1>2. QueuedOnce'
    BY NoTaskAssumption DEF FinishTask, QueuedOnce
  <1>3. ActiveIsLive'
    BY NoTaskAssumption DEF FinishTask, ActiveIsLive, Live, LiveStatuses
  <1>4. ZombieIsLive'
    BY NoTaskAssumption DEF FinishTask, ZombieIsLive, Live, LiveStatuses
  <1>5. LiveIsTracked'
    BY NoTaskAssumption DEF FinishTask, LiveIsTracked, Live, LiveStatuses, Escaped
  <1>6. TimerMeansActive'
    BY NoTaskAssumption DEF FinishTask, TimerMeansActive
  <1>7. OneRunAtATime'
    BY NoTaskAssumption DEF FinishTask, OneRunAtATime, Live, LiveStatuses, Escaped
  <1>8. ReleasedEarlyOnlyByEscape'
    BY NoTaskAssumption DEF FinishTask, ReleasedEarlyOnlyByEscape, Escaped
  <1>9. NoLostWakeup'
    BY NoTaskAssumption DEF FinishTask, NoLostWakeup, HasPending
  <1>10. QED
    BY <1>1, <1>2, <1>3, <1>4, <1>5, <1>6, <1>7, <1>8, <1>9

\* settle() removes the task from the slot or from the zombies.
LEMMA SettleKeepsIInv ==
    ASSUME NEW t \in Tasks, IInv, TypeOK', Settle(t)
    PROVE  IInv'
  <1> USE DEF IInv, TypeOK
  <1>1. QueuesHoldPending'
    BY NoTaskAssumption DEF Settle, SettleTask, SettlePromise, DropZombie, SchedulePump, FreeSlot, Outcome, QueuesHoldPending
  <1>2. QueuedOnce'
    BY NoTaskAssumption DEF Settle, SettleTask, SettlePromise, DropZombie, SchedulePump, FreeSlot, Outcome, QueuedOnce
  <1>3. ActiveIsLive'
    BY NoTaskAssumption DEF Settle, SettleTask, SettlePromise, DropZombie, SchedulePump, FreeSlot, Outcome, ActiveIsLive, Live, LiveStatuses
  <1>4. ZombieIsLive'
    BY NoTaskAssumption DEF Settle, SettleTask, SettlePromise, DropZombie, SchedulePump, FreeSlot, Outcome, ZombieIsLive, Live, LiveStatuses
  <1>5. LiveIsTracked'
    BY NoTaskAssumption DEF Settle, SettleTask, SettlePromise, DropZombie, SchedulePump, FreeSlot, Outcome, LiveIsTracked, Live, LiveStatuses, Escaped
  <1>6. TimerMeansActive'
    BY NoTaskAssumption DEF Settle, SettleTask, SettlePromise, DropZombie, SchedulePump, FreeSlot, Outcome, TimerMeansActive
  <1>7. OneRunAtATime'
    BY NoTaskAssumption DEF Settle, SettleTask, SettlePromise, DropZombie, SchedulePump, FreeSlot, Outcome, OneRunAtATime, Live, LiveStatuses, Escaped
  <1>8. ReleasedEarlyOnlyByEscape'
    BY NoTaskAssumption DEF Settle, SettleTask, SettlePromise, DropZombie, SchedulePump, FreeSlot, Outcome, ReleasedEarlyOnlyByEscape, Escaped
  <1>9. NoLostWakeup'
    <2>1. SUFFICES ASSUME NEW a \in Agents, ~disposed', active'[a] = NoTask, HasPending(a)'
                   PROVE  pumpDue'[a] \/ zombies'[a] # {}
      BY DEF NoLostWakeup
    <2>2. CASE a = owner[t]
      BY <2>2 DEF Settle, SchedulePump
    <2>3. CASE a # owner[t]
      <3>1. /\ active'[a] = active[a] /\ zombies'[a] = zombies[a] /\ pumpDue'[a] = pumpDue[a]
            /\ pending' = pending /\ disposed' = disposed
        BY <2>3 DEF Settle, SettleTask, FreeSlot, DropZombie, SchedulePump
      <3>2. HasPending(a)
        BY <2>1, <3>1 DEF HasPending
      <3>3. QED
        BY <2>1, <3>1, <3>2 DEF NoLostWakeup
    <2>4. QED
      BY <2>2, <2>3
  <1>10. QED
    BY <1>1, <1>2, <1>3, <1>4, <1>5, <1>6, <1>7, <1>8, <1>9

\* The watchdog only replaces its timer by the grace timer.
LEMMA WatchdogFiresKeepsIInv ==
    ASSUME NEW t \in Tasks, IInv, TypeOK', WatchdogFires(t)
    PROVE  IInv'
  <1> USE DEF IInv, TypeOK
  <1>1. QueuesHoldPending'
    BY NoTaskAssumption DEF WatchdogFires, QueuesHoldPending
  <1>2. QueuedOnce'
    BY NoTaskAssumption DEF WatchdogFires, QueuedOnce
  <1>3. ActiveIsLive'
    BY NoTaskAssumption DEF WatchdogFires, ActiveIsLive, Live, LiveStatuses
  <1>4. ZombieIsLive'
    BY NoTaskAssumption DEF WatchdogFires, ZombieIsLive, Live, LiveStatuses
  <1>5. LiveIsTracked'
    BY NoTaskAssumption DEF WatchdogFires, LiveIsTracked, Live, LiveStatuses, Escaped
  <1>6. TimerMeansActive'
    BY NoTaskAssumption DEF WatchdogFires, TimerMeansActive
  <1>7. OneRunAtATime'
    BY NoTaskAssumption DEF WatchdogFires, OneRunAtATime, Live, LiveStatuses, Escaped
  <1>8. ReleasedEarlyOnlyByEscape'
    BY NoTaskAssumption DEF WatchdogFires, ReleasedEarlyOnlyByEscape, Escaped
  <1>9. NoLostWakeup'
    BY NoTaskAssumption DEF WatchdogFires, NoLostWakeup, HasPending
  <1>10. QED
    BY <1>1, <1>2, <1>3, <1>4, <1>5, <1>6, <1>7, <1>8, <1>9

\* An escape moves the active run to the zombies and releases its caller.
LEMMA GraceFiresKeepsIInv ==
    ASSUME NEW t \in Tasks, IInv, TypeOK', GraceFires(t)
    PROVE  IInv'
  <1> USE DEF IInv, TypeOK
  <1>1. QueuesHoldPending'
    BY NoTaskAssumption DEF GraceFires, ReleaseCaller, TrackZombie, FreeSlot, SettlePromise, QueuesHoldPending
  <1>2. QueuedOnce'
    BY NoTaskAssumption DEF GraceFires, ReleaseCaller, TrackZombie, FreeSlot, SettlePromise, QueuedOnce
  <1>3. ActiveIsLive'
    BY NoTaskAssumption DEF GraceFires, ReleaseCaller, TrackZombie, FreeSlot, SettlePromise, ActiveIsLive, Live, LiveStatuses
  <1>4. ZombieIsLive'
    <2>1. active[owner[t]] = t /\ owner[t] \in Agents /\ t # NoTask
      BY NoTaskAssumption DEF GraceFires, ReleaseCaller, TimerMeansActive
    <2>2. Live(t) /\ ~Escaped(t)
      BY <2>1 DEF ActiveIsLive, ZombieIsLive, Escaped
    <2>3. promise[t] = "pending"
      BY <2>2 DEF ReleasedEarlyOnlyByEscape, Live, LiveStatuses
    <2>4. SUFFICES ASSUME NEW a \in Agents, NEW u \in zombies'[a]
                   PROVE  /\ Live(u)' /\ owner'[u] = a
                          /\ active'[a] # u /\ promise'[u] = "resolved"
      BY DEF ZombieIsLive
    <2>5. CASE u = t /\ u \notin zombies[a]
      <3>1. a = owner[t]
        BY <2>4, <2>5 DEF GraceFires, TrackZombie
      <3>2. QED
        BY <2>1, <2>2, <2>3, <2>5, <3>1, NoTaskAssumption
        DEF GraceFires, ReleaseCaller, SettlePromise, FreeSlot, Live
    <2>6. CASE u \in zombies[a]
      <3>1. Live(u) /\ owner[u] = a /\ active[a] # u /\ promise[u] = "resolved" /\ u \in Tasks
        BY <2>6 DEF ZombieIsLive
      <3>2. QED
        BY <3>1, NoTaskAssumption
        DEF GraceFires, ReleaseCaller, SettlePromise, FreeSlot, Live
    <2>7. QED
      BY <2>4, <2>5, <2>6 DEF GraceFires, TrackZombie
  <1>5. LiveIsTracked'
    BY NoTaskAssumption DEF GraceFires, ReleaseCaller, TrackZombie, FreeSlot, SettlePromise, LiveIsTracked, Live, LiveStatuses, Escaped
  <1>6. TimerMeansActive'
    BY NoTaskAssumption DEF GraceFires, ReleaseCaller, TrackZombie, FreeSlot, SettlePromise, TimerMeansActive
  <1>7. OneRunAtATime'
    BY NoTaskAssumption DEF GraceFires, ReleaseCaller, TrackZombie, FreeSlot, SettlePromise, OneRunAtATime, Live, LiveStatuses, Escaped
  <1>8. ReleasedEarlyOnlyByEscape'
    BY NoTaskAssumption DEF GraceFires, ReleaseCaller, TrackZombie, FreeSlot, SettlePromise, ReleasedEarlyOnlyByEscape, Escaped
  <1>9. NoLostWakeup'
    <2>1. SUFFICES ASSUME NEW a \in Agents, ~disposed', active'[a] = NoTask, HasPending(a)'
                   PROVE  pumpDue'[a] \/ zombies'[a] # {}
      BY DEF NoLostWakeup
    <2>2. CASE a = owner[t]
      <3>1. t \in zombies'[a]
        BY <2>2 DEF GraceFires, TrackZombie
      <3>2. QED
        BY <3>1
    <2>3. CASE a # owner[t]
      <3>1. /\ active'[a] = active[a] /\ zombies'[a] = zombies[a] /\ pumpDue'[a] = pumpDue[a]
            /\ pending' = pending /\ disposed' = disposed
        BY <2>3 DEF GraceFires, ReleaseCaller, FreeSlot, TrackZombie
      <3>2. HasPending(a)
        BY <2>1, <3>1 DEF HasPending
      <3>3. QED
        BY <2>1, <3>1, <3>2 DEF NoLostWakeup
    <2>4. QED
      BY <2>2, <2>3
  <1>10. QED
    BY <1>1, <1>2, <1>3, <1>4, <1>5, <1>6, <1>7, <1>8, <1>9

\* An early return of pump() loses no wakeup.
LEMMA PumpNothingKeepsIInv ==
    ASSUME NEW a \in Agents, IInv, TypeOK', PumpNothing(a)
    PROVE  IInv'
  <1> USE DEF IInv, TypeOK
  <1>1. QueuesHoldPending'
    BY NoTaskAssumption DEF PumpNothing, QueuesHoldPending
  <1>2. QueuedOnce'
    BY NoTaskAssumption DEF PumpNothing, QueuedOnce
  <1>3. ActiveIsLive'
    BY NoTaskAssumption DEF PumpNothing, ActiveIsLive, Live, LiveStatuses
  <1>4. ZombieIsLive'
    BY NoTaskAssumption DEF PumpNothing, ZombieIsLive, Live, LiveStatuses
  <1>5. LiveIsTracked'
    BY NoTaskAssumption DEF PumpNothing, LiveIsTracked, Live, LiveStatuses, Escaped
  <1>6. TimerMeansActive'
    BY NoTaskAssumption DEF PumpNothing, TimerMeansActive
  <1>7. OneRunAtATime'
    BY NoTaskAssumption DEF PumpNothing, OneRunAtATime, Live, LiveStatuses, Escaped
  <1>8. ReleasedEarlyOnlyByEscape'
    BY NoTaskAssumption DEF PumpNothing, ReleasedEarlyOnlyByEscape, Escaped
  <1>9. NoLostWakeup'
    BY NoTaskAssumption DEF PumpNothing, NoLostWakeup, HasPending
  <1>10. QED
    BY <1>1, <1>2, <1>3, <1>4, <1>5, <1>6, <1>7, <1>8, <1>9

\* pump() fills the empty slot with a task nobody else runs.
LEMMA PumpTaskKeepsIInv ==
    ASSUME NEW a \in Agents, IInv, TypeOK', PumpTask(a)
    PROVE  IInv'
  <1> USE DEF IInv, TypeOK
  <1> DEFINE l == NextLane(a)
             h == Head(pending[a][l])
  <1>1. /\ l \in Lanes /\ h \in Tasks /\ h = Head(pending[a][l]) /\ h = pending[a][l][1]
        /\ pending[a][l] # <<>> /\ 1 \in DOMAIN pending[a][l] /\ pending[a][l] \in Seq(Tasks)
    BY NextLaneNonEmpty, HeadIsTask DEF PumpTask, TakeNext
  <1>2. status[h] = "pending" /\ owner[h] = a /\ h # NoTask
    BY <1>1, NoTaskAssumption DEF QueuesHoldPending
  <1>3. /\ ~disposed /\ active[a] = NoTask
        /\ pending' = [pending EXCEPT ![a][l] = Tail(@)]
        /\ active' = [active EXCEPT ![a] = h]
        /\ status' = [status EXCEPT ![h] = "starting"]
        /\ timer' = [timer EXCEPT ![h] = "watchdog"]
        /\ pumpDue' = [pumpDue EXCEPT ![a] = FALSE]
        /\ UNCHANGED <<zombies, owner, lane, promise, disposed, drains>>
    BY DEF PumpTask, TakeNext
  <1> HIDE DEF l, h
  \* Every entry of the new lists is an entry of the old ones, and not h.
  <1>4. ASSUME NEW b \in Agents, NEW m \in Lanes
        PROVE  /\ Distinct(pending'[b][m])
               /\ \A i \in DOMAIN pending'[b][m] :
                    /\ pending'[b][m][i] # h
                    /\ \E k \in DOMAIN pending[b][m] : pending'[b][m][i] = pending[b][m][k]
    <2>1. pending[b][m] \in Seq(Tasks) /\ Distinct(pending[b][m])
      BY DEF QueuedOnce
    <2>2. CASE b = a /\ m = l
      <3>1. pending'[b][m] = Tail(pending[b][m])
        BY <1>1, <1>3, <2>2
      <3>2. pending[b][m] # <<>> /\ h = Head(pending[b][m])
        BY <1>1, <2>2
      <3>3. LET s == pending[b][m]
            IN  /\ Distinct(Tail(s))
                /\ \A i \in DOMAIN Tail(s) :
                     Tail(s)[i] # Head(s) /\ \E k \in DOMAIN s : Tail(s)[i] = s[k]
        BY ZenonT(30), SMTT(30), <2>1, <3>2, TailDistinct
      <3>4. QED
        BY <3>1, <3>2, <3>3
    <2>3. CASE ~(b = a /\ m = l)
      <3>1. pending'[b][m] = pending[b][m]
        BY <1>1, <1>3, <2>3
      <3>2. owner[h] = a /\ lane[h] = l
        BY <1>1 DEF QueuesHoldPending
      <3>3. \A i \in DOMAIN pending[b][m] :
              owner[pending[b][m][i]] = b /\ lane[pending[b][m][i]] = m
        BY DEF QueuesHoldPending
      <3>4. \A i \in DOMAIN pending[b][m] : pending[b][m][i] # h
        BY ZenonT(30), SMTT(30), <2>3, <3>2, <3>3
      <3>5. \A i \in DOMAIN pending[b][m] : \E k \in DOMAIN pending[b][m] : pending[b][m][i] = pending[b][m][k]
        OBVIOUS
      <3>6. QED
        BY <2>1, <3>1, <3>4, <3>5, Zenon
    <2>4. QED
      BY <2>2, <2>3
  <1>5. QueuesHoldPending'
    <2> SUFFICES ASSUME NEW b \in Agents, NEW m \in Lanes, NEW i \in DOMAIN pending'[b][m]
                 PROVE  /\ status'[pending'[b][m][i]] = "pending"
                        /\ owner'[pending'[b][m][i]] = b
                        /\ lane'[pending'[b][m][i]] = m
      BY DEF QueuesHoldPending
    <2>1. PICK k \in DOMAIN pending[b][m] : pending'[b][m][i] = pending[b][m][k]
      BY <1>4
    <2>2. pending'[b][m][i] # h
      BY <1>4
    <2>3. /\ status[pending[b][m][k]] = "pending" /\ owner[pending[b][m][k]] = b
          /\ lane[pending[b][m][k]] = m /\ pending[b][m][k] \in Tasks
      BY DEF QueuesHoldPending
    <2>4. QED
      BY ZenonT(30), SMTT(30), <1>1, <1>3, <2>1, <2>2, <2>3
  <1>6. QueuedOnce'
    BY <1>4 DEF QueuedOnce
  <1>7. ActiveIsLive'
    <2> SUFFICES ASSUME NEW b \in Agents, active'[b] # NoTask
                 PROVE  Live(active[b])' /\ owner'[active'[b]] = b
      BY DEF ActiveIsLive
    <2>1. CASE b = a
      BY <1>1, <1>2, <1>3, <2>1 DEF Live, LiveStatuses
    <2>2. CASE b # a
      <3>1. active'[b] = active[b] /\ active[b] \in Tasks /\ Live(active[b]) /\ owner[active[b]] = b
        BY <1>3, <2>2 DEF ActiveIsLive
      <3>2. QED
        BY <1>1, <1>2, <1>3, <3>1 DEF Live, LiveStatuses
    <2>3. QED
      BY <2>1, <2>2
  <1>8. ZombieIsLive'
    BY <1>1, <1>2, <1>3 DEF ZombieIsLive, Live, LiveStatuses
  <1>9. LiveIsTracked'
    BY <1>1, <1>2, <1>3, NoTaskAssumption DEF LiveIsTracked, Live, LiveStatuses, Escaped
  <1>10. TimerMeansActive'
    BY <1>1, <1>2, <1>3, NoTaskAssumption DEF TimerMeansActive
  <1>11. OneRunAtATime'
    <2>1. \A t \in Tasks : Live(t) /\ owner[t] = a => Escaped(t)
      BY <1>3, NoTaskAssumption DEF LiveIsTracked
    <2>2. QED
      BY SMTT(30), ZenonT(30), <1>1, <1>2, <1>3, <2>1 DEF OneRunAtATime, Live, LiveStatuses, Escaped
  <1>12. ReleasedEarlyOnlyByEscape'
    BY <1>1, <1>2, <1>3 DEF ReleasedEarlyOnlyByEscape, Escaped, ZombieIsLive, Live, LiveStatuses
  <1>13. NoLostWakeup'
    <2>1. SUFFICES ASSUME NEW b \in Agents, ~disposed', active'[b] = NoTask, HasPending(b)'
                   PROVE  pumpDue'[b] \/ zombies'[b] # {}
      BY DEF NoLostWakeup
    <2>2. b # a
      BY <1>2, <1>3, <2>1
    <2>3. HasPending(b) /\ active[b] = NoTask /\ pumpDue'[b] = pumpDue[b]
      BY <1>1, <1>3, <2>1, <2>2 DEF HasPending
    <2>4. QED
      BY <1>3, <2>3 DEF NoLostWakeup
  <1>14. QED
    BY <1>5, <1>6, <1>7, <1>8, <1>9, <1>10, <1>11, <1>12, <1>13

\* dispose() empties every slot and stops the timers.
LEMMA DisposeKeepsIInv ==
    ASSUME IInv, TypeOK', Dispose
    PROVE  IInv'
  <1> USE DEF IInv, TypeOK
  <1>1. QueuesHoldPending'
    BY NoTaskAssumption DEF Dispose, QueuesHoldPending
  <1>2. QueuedOnce'
    BY NoTaskAssumption DEF Dispose, QueuedOnce
  <1>3. ActiveIsLive'
    BY NoTaskAssumption DEF Dispose, ActiveIsLive, Live, LiveStatuses
  <1>4. ZombieIsLive'
    BY NoTaskAssumption DEF Dispose, ZombieIsLive, Live, LiveStatuses
  <1>5. LiveIsTracked'
    BY NoTaskAssumption DEF Dispose, LiveIsTracked, Live, LiveStatuses, Escaped
  <1>6. TimerMeansActive'
    BY NoTaskAssumption DEF Dispose, TimerMeansActive
  <1>7. OneRunAtATime'
    BY NoTaskAssumption DEF Dispose, OneRunAtATime, Live, LiveStatuses, Escaped
  <1>8. ReleasedEarlyOnlyByEscape'
    BY NoTaskAssumption DEF Dispose, ReleasedEarlyOnlyByEscape, Escaped
  <1>9. NoLostWakeup'
    BY NoTaskAssumption DEF Dispose, NoLostWakeup, HasPending
  <1>10. QED
    BY <1>1, <1>2, <1>3, <1>4, <1>5, <1>6, <1>7, <1>8, <1>9

-----------------------------------------------------------------------------

\* The inductive invariant holds in every reachable state.
THEOREM InductiveInvariant == Spec => []IInv
  <1>1. Init => IInv
    <2> SUFFICES ASSUME Init PROVE IInv
      OBVIOUS
    <2>1. TypeOK
      BY InitTypeOK
    <2>2. QueuesHoldPending /\ QueuedOnce
      BY DEF Init, QueuesHoldPending, QueuedOnce, Distinct
    <2>3. ActiveIsLive /\ ZombieIsLive /\ LiveIsTracked /\ TimerMeansActive
      BY DEF Init, ActiveIsLive, ZombieIsLive, LiveIsTracked, TimerMeansActive, Live,
             LiveStatuses
    <2>4. OneRunAtATime /\ ReleasedEarlyOnlyByEscape /\ NoLostWakeup
      BY DEF Init, OneRunAtATime, ReleasedEarlyOnlyByEscape, NoLostWakeup, Live,
             LiveStatuses, HasPending
    <2>5. QED
      BY <2>1, <2>2, <2>3, <2>4 DEF IInv
  <1>2. IInv /\ [Next]_vars => IInv'
    <2> SUFFICES ASSUME IInv, [Next]_vars PROVE IInv'
      OBVIOUS
    <2>1. TypeOK'
      BY StepKeepsTypeOK DEF IInv
    <2>2. ASSUME NEW t \in Tasks, TaskStep(t) PROVE IInv'
      BY <2>1, <2>2, EnqueueKeepsIInv, StartTaskKeepsIInv, FinishTaskKeepsIInv,
         SettleKeepsIInv, WatchdogFiresKeepsIInv, GraceFiresKeepsIInv DEF TaskStep
    <2>3. ASSUME NEW a \in Agents, PumpNothing(a) \/ PumpTask(a) PROVE IInv'
      BY <2>1, <2>3, PumpNothingKeepsIInv, PumpTaskKeepsIInv
    <2>4. ASSUME NEW d \in Drains, (\E a \in Agents : DrainCall(d, a)) \/ DrainReturn(d)
          PROVE  IInv'
      <3>1. UNCHANGED <<pending, active, zombies, pumpDue, owner, lane, status, promise,
                        timer, disposed>>
        BY <2>4 DEF DrainCall, DrainWaitingFor, DrainReturn
      <3>2. QED
        BY <2>1, <3>1, FrameKeepsIInv
    <2>5. CASE Dispose
      BY <2>1, <2>5, DisposeKeepsIInv
    <2>6. CASE UNCHANGED vars
      BY <2>1, <2>6, FrameKeepsIInv DEF vars
    <2>7. QED
      BY <2>2, <2>3, <2>4, <2>5, <2>6 DEF Next
  <1>3. QED
    BY <1>1, <1>2, PTL DEF Spec

\* At most one run of an agent that the watchdog has not escaped, for any number of
\* agents and tasks: the exclusivity the class comment claims, up to escapes.
THEOREM Exclusivity == Spec => []OneRunAtATime
  <1>1. IInv => OneRunAtATime
    BY DEF IInv
  <1>2. QED
    BY <1>1, InductiveInvariant, PTL

\* Until dispose(), what the queue tracks is exactly what is running.
THEOREM Tracking == Spec => []RunsAreTracked
  <1>1. ASSUME IInv PROVE RunsAreTracked
    <2> SUFFICES ASSUME ~disposed, NEW a \in Agents
                 PROVE  {t \in Tasks : owner[t] = a /\ Live(t)}
                          = zombies[a] \cup ({active[a]} \ {NoTask})
      BY DEF RunsAreTracked
    <2>1. ASSUME NEW t \in Tasks, owner[t] = a, Live(t)
          PROVE  t \in zombies[a] \/ (t = active[a] /\ t # NoTask)
      BY <1>1, <2>1, NoTaskAssumption DEF IInv, LiveIsTracked, Escaped
    <2>2. \A t \in zombies[a] : t \in Tasks /\ owner[t] = a /\ Live(t)
      BY <1>1 DEF IInv, TypeOK, ZombieIsLive
    <2>3. active[a] # NoTask => active[a] \in Tasks /\ owner[active[a]] = a /\ Live(active[a])
      BY <1>1 DEF IInv, TypeOK, ActiveIsLive
    <2>4. QED
      BY <2>1, <2>2, <2>3
  <1>2. QED
    BY <1>1, InductiveInvariant, PTL

\* Nothing but an escape releases a caller before its task is done.
THEOREM EarlyRelease == Spec => []ReleasedEarlyOnlyByEscape
  <1>1. IInv => ReleasedEarlyOnlyByEscape
    BY DEF IInv
  <1>2. QED
    BY <1>1, InductiveInvariant, PTL

\* Pending tasks of an idle queue wait for a scheduled pump() or behind a zombie.
THEOREM Wakeups == Spec => []NoLostWakeup
  <1>1. IInv => NoLostWakeup
    BY DEF IInv
  <1>2. QED
    BY <1>1, InductiveInvariant, PTL

\* The promise a caller sees and the settlement of a task are final: the step of
\* settle() that follows an escape finds the promise settled and leaves it alone.
THEOREM Finality == Spec => SettlesOnce
  <1> DEFINE StaysFinal(u) == /\ promise[u] # "pending" => promise'[u] = promise[u]
                              /\ status[u] = "settled" => status'[u] = "settled"
  <1>1. ASSUME IInv, [Next]_vars PROVE \A u \in Tasks : StaysFinal(u)
    <2>0. IInv
      BY <1>1
    <2> USE DEF IInv, TypeOK
    \* drain() and dispose() settle nothing.
    <2>1. CASE \/ \E d \in Drains : (\E a \in Agents : DrainCall(d, a)) \/ DrainReturn(d)
               \/ Dispose \/ UNCHANGED vars
      <3>1. UNCHANGED <<promise, status>>
        BY <2>1 DEF DrainCall, DrainWaitingFor, DrainReturn, Dispose, vars
      <3> QED
        BY <3>1
    \* pump() moves a task that is still pending.
    <2>2. ASSUME NEW a \in Agents, PumpNothing(a) \/ PumpTask(a), NEW u \in Tasks
          PROVE  StaysFinal(u)
      <3>1. CASE PumpNothing(a)
        BY <2>0, <3>1 DEF PumpNothing
      <3>2. CASE PumpTask(a)
        <4>1. status[Head(pending[a][NextLane(a)])] = "pending"
          BY <2>0, <3>2, NextLaneNonEmpty, HeadIsTask DEF PumpTask, TakeNext, QueuesHoldPending
        <4> QED
          BY <2>0, <3>2, <4>1 DEF PumpTask, TakeNext
      <3> QED
        BY <2>2, <3>1, <3>2
    \* The steps of a task begin before it is settled, and answer a caller that waits.
    <2>3. ASSUME NEW t \in Tasks, TaskStep(t), NEW u \in Tasks PROVE StaysFinal(u)
      BY <2>0, <2>3 DEF TaskStep, Enqueue, StartTask, FinishTask, Settle, SettleTask, SettlePromise,
                  WatchdogFires, GraceFires, ReleaseCaller
    <2> HIDE DEF StaysFinal
    <2> QED
      BY <1>1, <2>1, <2>2, <2>3 DEF Next
  <1>2. IInv /\ [Next]_vars => [\A t \in Tasks :
              /\ promise[t] # "pending" => promise'[t] = promise[t]
              /\ status[t] = "settled" => status'[t] = "settled"]_vars
    BY <1>1
  <1> QED
    BY <1>2, InductiveInvariant, PTL DEF Spec, SettlesOnce

-----------------------------------------------------------------------------
(***************************************************************************)
(* The run scheduler implements ExclusiveRuns, for any agents, tasks and   *)
(* drain calls: every step of it is a step of the abstract specification   *)
(* or changes nothing that the callers of the scheduler are promised.      *)
(***************************************************************************)

\* A step that moves no task between the abstract states and touches neither the lists
\* nor the answers is invisible to the abstract specification.
LEMMA Stutters ==
    ASSUME TypeOK, TypeOK', UNCHANGED <<owner, lane, pending, promise, disposed>>,
           \A u \in Tasks : RunState(u)' = RunState(u)
    PROVE  UNCHANGED Exclusive!exclusiveVars
  <1>1. [t \in Tasks |-> RunState(t)]' = [t \in Tasks |-> RunState(t)]
    OBVIOUS
  <1>2. QED
    BY <1>1 DEF Exclusive!exclusiveVars

\* A step that moves one task and no other, as EXCEPT says it.
LEMMA OneMoves ==
    ASSUME NEW t \in Tasks, NEW s, RunState(t)' = s,
           \A u \in Tasks \ {t} : RunState(u)' = RunState(u)
    PROVE  [u \in Tasks |-> RunState(u)]' = [[u \in Tasks |-> RunState(u)] EXCEPT ![t] = s]
  OBVIOUS

\* enqueue() accepts a task.
LEMMA EnqueueAccepts ==
    ASSUME NEW t \in Tasks, IInv, TypeOK', Enqueue(t)
    PROVE  Exclusive!Accept(t)
  <1> USE DEF IInv, TypeOK
  <1>1. RunState(t) = "new" /\ RunState(t)' = "waiting"
    BY DEF Enqueue, RunState
  <1>2. \A u \in Tasks \ {t} : RunState(u)' = RunState(u)
    BY DEF Enqueue, RunState, Escaped
  <1>3. [u \in Tasks |-> RunState(u)]'
          = [[u \in Tasks |-> RunState(u)] EXCEPT ![t] = "waiting"]
    BY <1>1, <1>2, OneMoves
  <1>4. QED
    BY <1>1, <1>3 DEF Enqueue, Exclusive!Accept

\* A pump() that finds the slot empty begins the first task of the best lane: whatever
\* else of the agent is in progress was given up.
LEMMA PumpBegins ==
    ASSUME NEW a \in Agents, IInv, TypeOK', PumpTask(a)
    PROVE  Exclusive!Begin(a, NextLane(a))
  <1> USE DEF IInv, TypeOK
  <1> DEFINE l == NextLane(a)
  <1>1. PICK h \in Tasks : h = Head(pending[a][l]) /\ h = pending[a][l][1]
    BY HeadIsTask DEF PumpTask, TakeNext
  <1>2. l \in Lanes /\ pending[a][l] # <<>> /\ 1 \in DOMAIN pending[a][l]
    BY NextLaneNonEmpty, HeadIsTask DEF PumpTask, TakeNext
  <1>3. status[h] = "pending" /\ owner[h] = a
    BY <1>1, <1>2 DEF QueuesHoldPending
  <1>4. /\ ~disposed /\ active[a] = NoTask
        /\ pending' = [pending EXCEPT ![a][l] = Tail(@)]
        /\ status' = [status EXCEPT ![h] = "starting"]
        /\ UNCHANGED <<zombies, owner, lane, promise, disposed>>
    BY <1>1 DEF PumpTask, TakeNext
  <1>5. Exclusive!First(a, l)
    BY DEF Exclusive!First, NextLane
  <1> HIDE DEF l
  <1>6. ASSUME NEW u \in Tasks, owner[u] = a PROVE RunState(u) # "running"
    <2>1. Live(u) => Escaped(u)
      BY <1>4, <1>6, NoTaskAssumption DEF LiveIsTracked
    <2>2. QED
      BY <2>1 DEF RunState, Live, LiveStatuses, Statuses
  <1>7. h \notin zombies[a]
    BY <1>3 DEF ZombieIsLive, Live, LiveStatuses
  <1>8. RunState(h)' = "running"
    BY <1>3, <1>4, <1>7 DEF RunState, Escaped
  <1>9. \A u \in Tasks \ {h} : RunState(u)' = RunState(u)
    BY <1>4 DEF RunState, Escaped
  <1>10. [u \in Tasks |-> RunState(u)]'
           = [[u \in Tasks |-> RunState(u)] EXCEPT ![h] = "running"]
    BY <1>8, <1>9, OneMoves
  <1>11. \A u \in Tasks : owner[u] = a => [x \in Tasks |-> RunState(x)][u] # "running"
    BY <1>6
  <1>12. QED
    BY <1>1, <1>2, <1>4, <1>5, <1>10, <1>11 DEF l, Exclusive!Begin

\* The grace timer gives up a run whose caller still waits.
LEMMA GraceGivesUp ==
    ASSUME NEW t \in Tasks, IInv, TypeOK', GraceFires(t)
    PROVE  Exclusive!GiveUp(t)
  <1> USE DEF IInv, TypeOK
  <1>1. active[owner[t]] = t /\ Live(t) /\ ~Escaped(t)
    BY NoTaskAssumption DEF GraceFires, ReleaseCaller, TimerMeansActive, ActiveIsLive,
                            ZombieIsLive, Escaped
  <1>2. promise[t] = "pending"
    BY <1>1 DEF ReleasedEarlyOnlyByEscape, Live, LiveStatuses
  <1>3. RunState(t) = "running"
    BY <1>1 DEF RunState, Live, LiveStatuses
  <1>4. /\ ~disposed /\ zombies' = [zombies EXCEPT ![owner[t]] = @ \cup {t}]
        /\ promise' = [promise EXCEPT ![t] = "resolved"]
        /\ UNCHANGED <<owner, lane, pending, status, disposed>>
    BY <1>2 DEF GraceFires, ReleaseCaller, SettlePromise, TrackZombie
  <1>5. RunState(t)' = "given up"
    BY <1>1, <1>4 DEF RunState, Escaped, Live, LiveStatuses
  <1>6. \A u \in Tasks \ {t} : RunState(u)' = RunState(u)
    BY <1>4 DEF RunState, Escaped
  <1>7. [u \in Tasks |-> RunState(u)]'
          = [[u \in Tasks |-> RunState(u)] EXCEPT ![t] = "given up"]
    BY <1>5, <1>6, OneMoves
  <1>8. QED
    BY <1>2, <1>3, <1>4, <1>7 DEF Exclusive!GiveUp

\* settle() ends a run, and answers its caller unless that was done by the escape.
LEMMA SettleEnds ==
    ASSUME NEW t \in Tasks, IInv, TypeOK', Settle(t)
    PROVE  Exclusive!End(t)
  <1> USE DEF IInv, TypeOK
  <1>1. Live(t) /\ status' = [status EXCEPT ![t] = "settled"]
    BY DEF Settle, SettleTask, Live, LiveStatuses
  <1>2. /\ Outcome(t) \in {"resolved", "rejected"}
        /\ promise' = [promise EXCEPT ![t] = IF @ = "pending" THEN Outcome(t) ELSE @]
        /\ UNCHANGED <<owner, lane, pending, disposed>>
    BY DEF Settle, SettleTask, SettlePromise, Outcome
  <1>3. zombies' = [zombies EXCEPT ![owner[t]] = IF active[owner[t]] = t THEN @ ELSE @ \ {t}]
    BY DEF Settle, DropZombie
  <1>4. RunState(t)' = "over"
    BY <1>1 DEF RunState
  <1>5. ASSUME NEW u \in Tasks \ {t} PROVE RunState(u)' = RunState(u)
    <2>1. status'[u] = status[u] /\ owner'[u] = owner[u]
      BY <1>1, <1>2
    <2>2. u \in zombies'[owner[u]] <=> u \in zombies[owner[u]]
      BY <1>3
    <2>3. QED
      BY <2>1, <2>2 DEF RunState, Escaped
  <1>6. [u \in Tasks |-> RunState(u)]'
          = [[u \in Tasks |-> RunState(u)] EXCEPT ![t] = "over"]
    BY <1>4, <1>5, OneMoves
  <1>7. CASE Escaped(t)
    <2>1. RunState(t) = "given up" /\ promise[t] = "resolved"
      BY <1>1, <1>7 DEF RunState, Live, LiveStatuses, ZombieIsLive, Escaped
    <2>2. promise' = promise
      BY <1>2, <2>1
    <2>3. QED
      BY <1>2, <1>6, <2>1, <2>2 DEF Exclusive!End
  <1>8. CASE ~Escaped(t)
    <2>1. RunState(t) = "running" /\ promise[t] = "pending"
      BY <1>1, <1>8 DEF RunState, Live, LiveStatuses, ReleasedEarlyOnlyByEscape
    <2>2. promise' = [promise EXCEPT ![t] = Outcome(t)]
      BY <1>2, <2>1
    <2>3. QED
      BY <1>2, <1>6, <2>1, <2>2 DEF Exclusive!End
  <1>9. QED
    BY <1>7, <1>8

\* The start and the end of the task function, the watchdog's first timer and an early
\* return of pump() are invisible.
LEMMA HiddenSteps ==
    ASSUME IInv, TypeOK',
           \/ \E t \in Tasks : \/ StartTask(t)
                               \/ \E o \in {"fulfilled", "failed"} : FinishTask(t, o)
                               \/ WatchdogFires(t)
           \/ \E a \in Agents : PumpNothing(a)
           \/ \E d \in Drains : (\E a \in Agents : DrainCall(d, a)) \/ DrainReturn(d)
           \/ UNCHANGED vars
    PROVE  UNCHANGED Exclusive!exclusiveVars
  <1> USE DEF IInv, TypeOK
  <1>1. ASSUME NEW t \in Tasks, StartTask(t) PROVE UNCHANGED Exclusive!exclusiveVars
    <2>1. UNCHANGED <<owner, lane, pending, promise, disposed, zombies>>
      BY <1>1 DEF StartTask
    <2>2. ASSUME NEW u \in Tasks PROVE RunState(u)' = RunState(u)
      BY <1>1, <2>1 DEF StartTask, RunState, Escaped
    <2>3. QED
      BY <2>1, <2>2, Stutters
  <1>2. ASSUME NEW t \in Tasks, NEW o \in {"fulfilled", "failed"}, FinishTask(t, o)
        PROVE  UNCHANGED Exclusive!exclusiveVars
    <2>1. UNCHANGED <<owner, lane, pending, promise, disposed, zombies>>
      BY <1>2 DEF FinishTask
    <2>2. ASSUME NEW u \in Tasks PROVE RunState(u)' = RunState(u)
      BY <1>2, <2>1 DEF FinishTask, RunState, Escaped
    <2>3. QED
      BY <2>1, <2>2, Stutters
  <1>3. CASE \/ \E t \in Tasks : WatchdogFires(t)
             \/ \E a \in Agents : PumpNothing(a)
             \/ \E d \in Drains : (\E a \in Agents : DrainCall(d, a)) \/ DrainReturn(d)
             \/ UNCHANGED vars
    <2>1. UNCHANGED <<owner, lane, pending, promise, disposed, status, zombies>>
      BY <1>3 DEF WatchdogFires, PumpNothing, DrainCall, DrainWaitingFor, DrainReturn, vars
    <2>2. \A u \in Tasks : RunState(u)' = RunState(u)
      BY <2>1 DEF RunState, Escaped
    <2>3. QED
      BY <2>1, <2>2, Stutters
  <1>4. QED
    BY <1>1, <1>2, <1>3

\* dispose() closes the scheduler: what runs goes on, what waits never begins.
LEMMA DisposeCloses ==
    ASSUME IInv, TypeOK', Dispose
    PROVE  Exclusive!Close
  <1>1. \A u \in Tasks : RunState(u)' = RunState(u)
    BY DEF Dispose, RunState, Escaped
  <1>2. [u \in Tasks |-> RunState(u)]' = [u \in Tasks |-> RunState(u)]
    BY <1>1
  <1>3. QED
    BY <1>2 DEF Dispose, Exclusive!Close

\* The abstract view of the first state is an initial state of ExclusiveRuns.
LEMMA InitRefines == Init => Exclusive!Init
  <1> SUFFICES ASSUME Init PROVE Exclusive!Init
    OBVIOUS
  <1>1. [t \in Tasks |-> RunState(t)] = [t \in Tasks |-> "new"]
    BY DEF Init, RunState
  <1>2. QED
    BY <1>1 DEF Init, Exclusive!Init, Lanes, Exclusive!Lanes

\* Every step of the run scheduler is a step of ExclusiveRuns or a stutter.
LEMMA StepRefines ==
    ASSUME IInv, TypeOK', [Next]_vars
    PROVE  [Exclusive!Next]_(Exclusive!exclusiveVars)
  <1>1. ASSUME NEW t \in Tasks, Enqueue(t) \/ Settle(t) \/ GraceFires(t)
        PROVE  Exclusive!Next
    BY <1>1, EnqueueAccepts, SettleEnds, GraceGivesUp DEF Exclusive!Next
  <1>2. ASSUME NEW a \in Agents, PumpTask(a) PROVE Exclusive!Next
    <2>1. NextLane(a) \in Exclusive!Lanes
      BY DEF NextLane, Exclusive!Lanes
    <2>2. QED
      BY <1>2, <2>1, PumpBegins DEF Exclusive!Next
  <1>3. CASE Dispose
    BY <1>3, DisposeCloses DEF Exclusive!Next
  <1>4. CASE \/ \E t \in Tasks : \/ StartTask(t)
                                 \/ \E o \in {"fulfilled", "failed"} : FinishTask(t, o)
                                 \/ WatchdogFires(t)
             \/ \E a \in Agents : PumpNothing(a)
             \/ \E d \in Drains : (\E a \in Agents : DrainCall(d, a)) \/ DrainReturn(d)
             \/ UNCHANGED vars
    BY <1>4, HiddenSteps
  <1>5. QED
    BY <1>1, <1>2, <1>3, <1>4 DEF Next, TaskStep

\* The run scheduler implements ExclusiveRuns: one run of an agent at a time but for runs
\* the watchdog gave up, the best lane first, one answer per caller, nothing after
\* dispose(), for any number of agents and tasks.
THEOREM Implementation == Spec => ServesExclusively
  <1>1. IInv => TypeOK
    BY DEF IInv
  <1>2. IInv /\ TypeOK' /\ [Next]_vars => [Exclusive!Next]_(Exclusive!exclusiveVars)
    BY StepRefines
  <1>3. QED
    BY <1>1, <1>2, InitRefines, InductiveInvariant, PTL
    DEF Spec, ServesExclusively, Exclusive!Spec

-----------------------------------------------------------------------------
(* What the scheduler and the run windows report.                            *)

\* Every pending task is in the list of its agent and lane.
PendingIsQueued ==
    \A t \in Tasks : status[t] = "pending" =>
        \E i \in DOMAIN pending[owner[t]][lane[t]] : pending[owner[t]][lane[t]][i] = t

ZombiesAreFinite == \A a \in Agents : IsFiniteSet(zombies[a])

\* The tasks a run window counts.
Unfinished(a) ==
    {t \in Tasks : owner[t] = a /\ status[t] \in {"pending", "starting", "running"}}

WindowsAreCounted ==
    /\ inFlight \in [Agents -> Nat]
    /\ window \in [Agents -> BOOLEAN]
    /\ \A a \in Agents :
          /\ IsFiniteSet(Unfinished(a))
          /\ inFlight[a] = Cardinality(Unfinished(a))
          /\ window[a] <=> inFlight[a] > 0

\* What a drain() call does not wait for has settled or has been escaped.
DrainsWait ==
    \A d \in Drains : drains[d].state = "waiting" /\ ~disposed =>
        \A t \in drains[d].known :
            \/ status[t] = "settled" \/ Escaped(t)
            \/ t \in drains[d].onSettled \/ t \in drains[d].onPromise

ReportInv ==
    PendingIsQueued /\ ZombiesAreFinite /\ WindowsAreCounted /\ DrainsWait /\ DrainLeavesOnlyZombies

\* A step with the lifecycle attached is a step of the scheduler.
LEMMA AttachedStep == [LNext]_allVars => [Next]_vars
  BY DEF LNext, LEnqueue, LFinishTask, Next, TaskStep, allVars

\* push() and shift() keep the other items of a list.
LEMMA KeptByAppend ==
    ASSUME NEW S, NEW s \in Seq(S), NEW e \in S, NEW i \in DOMAIN s
    PROVE  i \in DOMAIN Append(s, e) /\ Append(s, e)[i] = s[i]
  OBVIOUS

LEMMA KeptByTail ==
    ASSUME NEW S, NEW s \in Seq(S), s # <<>>, NEW i \in DOMAIN s, i # 1
    PROVE  i - 1 \in DOMAIN Tail(s) /\ Tail(s)[i - 1] = s[i]
  <1>1. DOMAIN s = 1 .. Len(s) /\ Len(s) \in Nat /\ DOMAIN Tail(s) = 1 .. Len(s) - 1
    OBVIOUS
  <1>2. i \in Nat /\ i - 1 \in 1 .. Len(s) - 1 /\ (i - 1) + 1 = i
    BY <1>1
  <1>3. \A j \in 1 .. Len(s) - 1 : Tail(s)[j] = s[j + 1]
    BY <1>1
  <1>4. QED
    BY <1>1, <1>2, <1>3

\* A pending task stays in its list until pump() takes it.
LEMMA StepKeepsPendingIsQueued ==
    ASSUME IInv, PendingIsQueued, [Next]_vars
    PROVE  PendingIsQueued'
  <1> USE DEF IInv, TypeOK
  <1>1. ASSUME UNCHANGED <<pending, owner, lane>>,
               \A t \in Tasks : status'[t] = "pending" => status[t] = "pending"
        PROVE  PendingIsQueued'
    BY <1>1 DEF PendingIsQueued
  <1>2. ASSUME NEW u \in Tasks, Enqueue(u) PROVE PendingIsQueued'
    <2>0. PICK a \in Agents, l \in Lanes : a = owner[u] /\ l = lane[u]
      OBVIOUS
    <2>1. a \in Agents /\ l \in Lanes /\ pending[a][l] \in Seq(Tasks)
      OBVIOUS
    <2>2. /\ pending' = [pending EXCEPT ![a][l] = Append(@, u)]
          /\ status' = [status EXCEPT ![u] = "pending"]
          /\ owner' = owner /\ lane' = lane
      BY <1>2, <2>0 DEF Enqueue
    <2>a. owner' = owner /\ lane' = lane
      BY <2>2
    <2> SUFFICES ASSUME NEW t \in Tasks, status'[t] = "pending"
                 PROVE  \E i \in DOMAIN pending'[owner[t]][lane[t]] : pending'[owner[t]][lane[t]][i] = t
      BY <2>a DEF PendingIsQueued
    <2>3. pending'[a][l] = Append(pending[a][l], u)
      BY <2>1, <2>2
    <2>4. DOMAIN Append(pending[a][l], u) = 1 .. Len(pending[a][l]) + 1 /\ DOMAIN pending[a][l] = 1 .. Len(pending[a][l])
          /\ Len(pending[a][l]) \in Nat
      BY <2>1
    <2>5. CASE t = u
      <3>1. Append(pending[a][l], u)[Len(pending[a][l]) + 1] = u
        BY <2>1
      <3>2. QED
        BY <2>0, <2>3, <2>4, <2>5, <3>1
    <2>6. CASE t # u
      <3>1. status[t] = "pending"
        BY <2>2, <2>6
      <3>2. PICK i \in DOMAIN pending[owner[t]][lane[t]] : pending[owner[t]][lane[t]][i] = t
        BY <3>1 DEF PendingIsQueued
      <3>3. CASE owner[t] = a /\ lane[t] = l
        <4>1. i \in DOMAIN pending'[a][l] /\ pending'[a][l][i] = pending[a][l][i]
          BY <2>1, <2>3, <3>2, <3>3, KeptByAppend
        <4>2. QED
          BY <3>2, <3>3, <4>1
      <3>4. CASE ~(owner[t] = a /\ lane[t] = l)
        <4>1. pending'[owner[t]][lane[t]] = pending[owner[t]][lane[t]]
          BY <2>1, <2>2, <3>4
        <4>2. QED
          BY <3>2, <4>1
      <3>5. QED
        BY <3>3, <3>4
    <2>7. QED
      BY <2>5, <2>6
  <1>3. ASSUME NEW a \in Agents, PumpTask(a) PROVE PendingIsQueued'
    <2>0. PICK l \in Lanes, h \in Tasks : l = NextLane(a) /\ h = Head(pending[a][l])
      BY <1>3, NextLaneNonEmpty, HeadIsTask DEF PumpTask, TakeNext
    <2>1. /\ l \in Lanes /\ h \in Tasks /\ h = pending[a][l][1]
          /\ pending[a][l] # <<>> /\ pending[a][l] \in Seq(Tasks)
      BY <1>3, <2>0, NextLaneNonEmpty, HeadIsTask DEF PumpTask, TakeNext
    <2>2. /\ pending' = [pending EXCEPT ![a][l] = Tail(@)]
          /\ status' = [status EXCEPT ![h] = "starting"]
          /\ owner' = owner /\ lane' = lane
      BY <1>3, <2>0 DEF PumpTask, TakeNext
    <2>a. owner' = owner /\ lane' = lane
      BY <2>2
    <2> SUFFICES ASSUME NEW t \in Tasks, status'[t] = "pending"
                 PROVE  \E i \in DOMAIN pending'[owner[t]][lane[t]] : pending'[owner[t]][lane[t]][i] = t
      BY <2>a DEF PendingIsQueued
    <2>3. t # h /\ status[t] = "pending"
      BY <2>1, <2>2
    <2>4. PICK i \in DOMAIN pending[owner[t]][lane[t]] : pending[owner[t]][lane[t]][i] = t
      BY <2>3 DEF PendingIsQueued
    <2>5. CASE owner[t] = a /\ lane[t] = l
      <3>1. pending'[a][l] = Tail(pending[a][l])
        BY <2>1, <2>2
      <3>2. i # 1 /\ i \in DOMAIN pending[a][l]
        BY <2>1, <2>3, <2>4, <2>5
      <3>3. i - 1 \in DOMAIN Tail(pending[a][l]) /\ Tail(pending[a][l])[i - 1] = pending[a][l][i]
        BY <2>1, <3>2, KeptByTail
      <3>4. QED
        BY <2>4, <2>5, <3>1, <3>3
    <2>6. CASE ~(owner[t] = a /\ lane[t] = l)
      <3>1. pending'[owner[t]][lane[t]] = pending[owner[t]][lane[t]]
        BY <2>1, <2>2, <2>6
      <3>2. QED
        BY <2>4, <3>1
    <2>7. QED
      BY <2>5, <2>6
  <1>4. ASSUME NEW t \in Tasks, TaskStep(t) PROVE PendingIsQueued'
    <2>1. CASE StartTask(t)
      BY <1>1, <2>1 DEF StartTask
    <2>2. ASSUME NEW o \in {"fulfilled", "failed"}, FinishTask(t, o) PROVE PendingIsQueued'
      BY <1>1, <2>2 DEF FinishTask
    <2>3. CASE Settle(t)
      BY <1>1, <2>3 DEF Settle, SettleTask
    <2>4. CASE WatchdogFires(t) \/ GraceFires(t)
      BY <1>1, <2>4 DEF WatchdogFires, GraceFires, ReleaseCaller
    <2>5. QED
      BY <1>2, <1>4, <2>1, <2>2, <2>3, <2>4 DEF TaskStep
  <1>5. ASSUME NEW a \in Agents, PumpNothing(a) PROVE PendingIsQueued'
    BY <1>1, <1>5 DEF PumpNothing
  <1>6. ASSUME NEW d \in Drains, (\E a \in Agents : DrainCall(d, a)) \/ DrainReturn(d) PROVE PendingIsQueued'
    BY <1>1, <1>6 DEF DrainCall, DrainWaitingFor, DrainReturn
  <1>7. CASE Dispose
    BY <1>1, <1>7 DEF Dispose
  <1>8. CASE UNCHANGED vars
    BY <1>1, <1>8 DEF vars
  <1>9. QED
    BY <1>3, <1>4, <1>5, <1>6, <1>7, <1>8 DEF Next

\* Only an escape adds a zombie.
LEMMA StepKeepsZombiesFinite ==
    ASSUME IInv, ZombiesAreFinite, [Next]_vars
    PROVE  ZombiesAreFinite'
  <1> USE DEF IInv, TypeOK
  <1>1. CASE zombies' = zombies
    BY <1>1 DEF ZombiesAreFinite
  <1>2. ASSUME NEW t \in Tasks, GraceFires(t) PROVE ZombiesAreFinite'
    <2>1. \A a \in Agents : zombies'[a] = zombies[a] \/ zombies'[a] = zombies[a] \cup {t}
      BY <1>2 DEF GraceFires, TrackZombie
    <2>2. \A a \in Agents : IsFiniteSet(zombies[a]) /\ IsFiniteSet(zombies[a] \cup {t})
      BY FS_AddElement DEF ZombiesAreFinite
    <2>3. QED
      BY <2>1, <2>2 DEF ZombiesAreFinite
  <1>3. ASSUME NEW t \in Tasks, Settle(t) PROVE ZombiesAreFinite'
    <2>1. \A a \in Agents : zombies'[a] = zombies[a] \/ zombies'[a] = zombies[a] \ {t}
      BY <1>3 DEF Settle, DropZombie
    <2>2. \A a \in Agents : IsFiniteSet(zombies[a]) /\ IsFiniteSet(zombies[a] \ {t})
      BY FS_RemoveElement DEF ZombiesAreFinite
    <2>3. QED
      BY <2>1, <2>2 DEF ZombiesAreFinite
  <1>4. QED
    BY <1>1, <1>2, <1>3 DEF Next, TaskStep, Enqueue, StartTask, FinishTask, WatchdogFires, PumpNothing,
       PumpTask, TakeNext, DrainCall, DrainWaitingFor, DrainReturn, Dispose, vars

\* An element that leaves a finite set.
LEMMA OneLess ==
    ASSUME NEW S, IsFiniteSet(S), NEW x \in S
    PROVE  IsFiniteSet(S \ {x}) /\ Cardinality(S \ {x}) = Cardinality(S) - 1 /\ Cardinality(S) > 0
  <1>1. IsFiniteSet(S \ {x}) /\ Cardinality(S \ {x}) = Cardinality(S) - 1
    BY FS_RemoveElement
  <1>2. Cardinality(S) \in Nat /\ Cardinality(S) # 0
    BY FS_CardinalityType, FS_EmptySet
  <1>3. QED
    BY <1>1, <1>2

\* A run window counts the tasks that have not finished.
LEMMA StepKeepsWindowsCounted ==
    ASSUME IInv, WindowsAreCounted, [LNext]_allVars
    PROVE  WindowsAreCounted'
  <1> USE DEF IInv, TypeOK
  <1>1. ASSUME UNCHANGED <<owner, lifecycleVars>>,
               \A t \in Tasks : status'[t] \in {"pending", "starting", "running"}
                                  <=> status[t] \in {"pending", "starting", "running"}
        PROVE  WindowsAreCounted'
    <2>1. \A a \in Agents : Unfinished(a)' = Unfinished(a)
      BY <1>1 DEF Unfinished
    <2>2. QED
      BY <1>1, <2>1 DEF WindowsAreCounted, lifecycleVars
  <1>2. ASSUME NEW t \in Tasks, LEnqueue(t) PROVE WindowsAreCounted'
    <2>0. PICK b \in Agents : b = owner[t]
      OBVIOUS
    <2>1. b \in Agents /\ t \notin Unfinished(b) /\ inFlight[b] \in Nat /\ IsFiniteSet(Unfinished(b))
          /\ inFlight[b] = Cardinality(Unfinished(b))
      BY <1>2, <2>0 DEF LEnqueue, Enqueue, Unfinished, WindowsAreCounted
    <2>2. Unfinished(b)' = Unfinished(b) \cup {t} /\ \A a \in Agents \ {b} : Unfinished(a)' = Unfinished(a)
      BY <1>2, <2>0 DEF LEnqueue, Enqueue, Unfinished
    <2>3. IsFiniteSet(Unfinished(b)') /\ Cardinality(Unfinished(b)') = inFlight[b] + 1
      BY <2>1, <2>2, FS_AddElement
    <2>4. /\ inFlight' = [inFlight EXCEPT ![b] = @ + 1]
          /\ window' = [window EXCEPT ![b] = IF inFlight[b] = 0 THEN TRUE ELSE @]
      BY <1>2, <2>0 DEF LEnqueue, BeginSessionRun
    <2>5. inFlight' \in [Agents -> Nat] /\ inFlight'[b] = inFlight[b] + 1
          /\ \A a \in Agents \ {b} : inFlight'[a] = inFlight[a]
      BY <2>1, <2>4 DEF WindowsAreCounted
    <2>c. PICK v \in BOOLEAN : v = (IF inFlight[b] = 0 THEN TRUE ELSE window[b])
      BY <2>1 DEF WindowsAreCounted
    <2>d. v
      BY <2>1, <2>c DEF WindowsAreCounted
    <2>e. window' = [window EXCEPT ![b] = v] /\ window \in [Agents -> BOOLEAN]
      BY <2>4, <2>c DEF WindowsAreCounted
    <2>6. window' \in [Agents -> BOOLEAN] /\ window'[b] /\ \A a \in Agents \ {b} : window'[a] = window[a]
      BY <2>1, <2>d, <2>e
    <2>7. ASSUME NEW a \in Agents \ {b}
          PROVE  /\ IsFiniteSet(Unfinished(a)') /\ inFlight'[a] = Cardinality(Unfinished(a)')
                 /\ window'[a] <=> inFlight'[a] > 0
      BY <2>2, <2>5, <2>6 DEF WindowsAreCounted
    <2>8. inFlight'[b] > 0
      BY <2>1, <2>5
    <2>9. QED
      BY <2>1, <2>3, <2>5, <2>6, <2>7, <2>8 DEF WindowsAreCounted
  <1>3. ASSUME NEW t \in Tasks, NEW o \in {"fulfilled", "failed"}, LFinishTask(t, o) PROVE WindowsAreCounted'
    <2>0. PICK b \in Agents : b = owner[t]
      OBVIOUS
    <2>1. b \in Agents /\ t \in Unfinished(b) /\ inFlight[b] \in Nat /\ IsFiniteSet(Unfinished(b))
          /\ inFlight[b] = Cardinality(Unfinished(b))
      BY <1>3, <2>0 DEF LFinishTask, FinishTask, Unfinished, WindowsAreCounted
    <2>2. Unfinished(b)' = Unfinished(b) \ {t} /\ \A a \in Agents \ {b} : Unfinished(a)' = Unfinished(a)
      BY <1>3, <2>0 DEF LFinishTask, FinishTask, Unfinished
    <2>3. IsFiniteSet(Unfinished(b)') /\ Cardinality(Unfinished(b)') = inFlight[b] - 1
      <3>1. IsFiniteSet(Unfinished(b) \ {t}) /\ Cardinality(Unfinished(b) \ {t}) = Cardinality(Unfinished(b)) - 1
        BY <2>1, OneLess
      <3>2. QED
        BY <2>1, <2>2, <3>1
    <2>4. inFlight[b] > 0
      <3>1. Cardinality(Unfinished(b)) > 0
        BY <2>1, OneLess
      <3>2. QED
        BY <2>1, <3>1
    <2>d. (IF inFlight[b] = 0 THEN 1 ELSE inFlight[b]) = inFlight[b]
      BY <2>1, <2>4
    <2>5. inFlight' = [inFlight EXCEPT ![b] = inFlight[b] - 1]
      BY <1>3, <2>0, <2>d DEF LFinishTask, EndSessionRun
    <2>c. PICK v \in BOOLEAN : v = (window[b] /\ inFlight[b] - 1 > 0)
      OBVIOUS
    <2>e. window' = [window EXCEPT ![b] = v] /\ window \in [Agents -> BOOLEAN]
      BY <1>3, <2>0, <2>c, <2>d DEF LFinishTask, EndSessionRun, WindowsAreCounted
    <2>6. inFlight' \in [Agents -> Nat] /\ inFlight'[b] = inFlight[b] - 1
          /\ \A a \in Agents \ {b} : inFlight'[a] = inFlight[a]
      BY <2>1, <2>4, <2>5 DEF WindowsAreCounted
    <2>7. window' \in [Agents -> BOOLEAN] /\ (window'[b] <=> window[b] /\ inFlight[b] - 1 > 0)
          /\ \A a \in Agents \ {b} : window'[a] = window[a]
      BY <2>c, <2>e
    <2>8. ASSUME NEW a \in Agents \ {b}
          PROVE  /\ IsFiniteSet(Unfinished(a)') /\ inFlight'[a] = Cardinality(Unfinished(a)')
                 /\ window'[a] <=> inFlight'[a] > 0
      BY <2>2, <2>6, <2>7 DEF WindowsAreCounted
    <2>9. window'[b] <=> inFlight'[b] > 0
      <3>1. window[b]
        BY <2>1, <2>4 DEF WindowsAreCounted
      <3>2. QED
        BY <2>6, <2>7, <3>1
    <2>10. QED
      BY <2>1, <2>3, <2>6, <2>7, <2>8, <2>9 DEF WindowsAreCounted
  <1>4. ASSUME NEW t \in Tasks, (StartTask(t) \/ Settle(t)) /\ UNCHANGED lifecycleVars PROVE WindowsAreCounted'
    BY <1>1, <1>4 DEF StartTask, Settle, SettleTask, lifecycleVars
  <1>5. ASSUME NEW a \in Agents, PumpTask(a) /\ UNCHANGED lifecycleVars PROVE WindowsAreCounted'
    <2> DEFINE h == Head(pending[a][NextLane(a)])
    <2>1. h \in Tasks /\ status' = [status EXCEPT ![h] = "starting"] /\ owner' = owner
      BY <1>5, HeadIsTask DEF PumpTask, TakeNext
    <2>2. status[h] = "pending"
      BY <1>5, NextLaneNonEmpty, HeadIsTask DEF PumpTask, TakeNext, QueuesHoldPending
    <2> HIDE DEF h
    <2>3. QED
      BY <1>1, <1>5, <2>1, <2>2
  <1>6. ASSUME UNCHANGED <<owner, status, lifecycleVars>> PROVE WindowsAreCounted'
    BY <1>1, <1>6
  <1>7. QED
    BY <1>2, <1>3, <1>4, <1>5, <1>6 DEF LNext, WatchdogFires, GraceFires, ReleaseCaller, PumpNothing,
       DrainCall, DrainWaitingFor, DrainReturn, Dispose, allVars, vars
-----------------------------------------------------------------------------

\* A step that is no drain() call and leaves settled and escaped tasks so, or settles
\* them, keeps what drain() waits for.
LEMMA StepKeepsDrains ==
    ASSUME IInv, IInv', PendingIsQueued, DrainsWait, DrainLeavesOnlyZombies, [Next]_vars
    PROVE  DrainsWait' /\ DrainLeavesOnlyZombies'
  <1> USE DEF IInv, TypeOK
  <1> DEFINE Gone(t) == status[t] = "settled" \/ Escaped(t)
  <1>1. ASSUME drains' = drains, disposed => disposed', \A t \in Tasks : Gone(t) => Gone(t)'
        PROVE  DrainsWait' /\ DrainLeavesOnlyZombies'
    <2>1. \A d \in Drains : drains[d].known \subseteq Tasks
      OBVIOUS
    <2>2. DrainsWait'
      <3> SUFFICES ASSUME NEW d \in Drains, drains'[d].state = "waiting", ~disposed', NEW t \in drains'[d].known
                   PROVE  Gone(t)' \/ t \in drains'[d].onSettled \/ t \in drains'[d].onPromise
        BY DEF DrainsWait
      <3>1. t \in Tasks /\ (Gone(t) \/ t \in drains[d].onSettled \/ t \in drains[d].onPromise)
        BY <1>1, <2>1 DEF DrainsWait
      <3> HIDE DEF Gone
      <3>2. QED
        BY <1>1, <3>1
    <2>3. DrainLeavesOnlyZombies'
      <3> SUFFICES ASSUME NEW d \in Drains, drains'[d].state = "returned", ~disposed', NEW t \in drains'[d].known
                   PROVE  Gone(t)'
        BY DEF DrainLeavesOnlyZombies
      <3>1. t \in Tasks /\ Gone(t)
        BY <1>1, <2>1 DEF DrainLeavesOnlyZombies
      <3> HIDE DEF Gone
      <3>2. QED
        BY <1>1, <3>1
    <2>4. QED
      BY <2>2, <2>3
  <1>2. ASSUME NEW t \in Tasks, TaskStep(t) PROVE DrainsWait' /\ DrainLeavesOnlyZombies'
    <2>1. drains' = drains /\ disposed' = disposed /\ owner' = owner
      BY <1>2 DEF TaskStep, Enqueue, StartTask, FinishTask, Settle, SettleTask, WatchdogFires, GraceFires, ReleaseCaller
    <2>2. ASSUME NEW u \in Tasks, Gone(u) PROVE Gone(u)'
      <3>1. CASE Settle(t)
        BY <2>2, <3>1 DEF Settle, SettleTask, DropZombie, Escaped
      <3>2. CASE GraceFires(t)
        BY <2>2, <3>2 DEF GraceFires, ReleaseCaller, TrackZombie, Escaped
      <3>3. CASE ~ Settle(t) /\ ~ GraceFires(t)
        <4>1. zombies' = zombies /\ (status[u] = "settled" => status'[u] = "settled")
          BY ZenonT(30), SMTT(30), <1>2, <3>3 DEF TaskStep, Enqueue, StartTask, FinishTask, WatchdogFires
        <4>2. QED
          BY <2>1, <2>2, <4>1 DEF Escaped
      <3>4. QED
        BY <3>1, <3>2, <3>3
    <2>3. QED
      BY <1>1, <2>1, <2>2
  <1>3. ASSUME NEW a \in Agents, PumpTask(a) PROVE DrainsWait' /\ DrainLeavesOnlyZombies'
    <2>1. PICK h \in Tasks : h = Head(pending[a][NextLane(a)])
      BY <1>3, HeadIsTask DEF PumpTask, TakeNext
    <2>2. status[h] = "pending"
      <3>1. /\ NextLane(a) \in Lanes /\ 1 \in DOMAIN pending[a][NextLane(a)]
            /\ h = pending[a][NextLane(a)][1]
        BY <1>3, <2>1, NextLaneNonEmpty, HeadIsTask DEF PumpTask, TakeNext
      <3>2. QED
        BY <3>1 DEF QueuesHoldPending
    <2>3. status' = [status EXCEPT ![h] = "starting"] /\ UNCHANGED <<zombies, owner, disposed, drains>>
      BY <1>3, <2>1 DEF PumpTask, TakeNext
    <2>4. QED
      BY <1>1, <2>2, <2>3 DEF Escaped
  <1>4. ASSUME NEW a \in Agents, PumpNothing(a) PROVE DrainsWait' /\ DrainLeavesOnlyZombies'
    BY <1>1, <1>4 DEF PumpNothing, Escaped
  <1>5. ASSUME NEW d \in Drains, NEW a \in Agents, DrainCall(d, a) PROVE DrainsWait' /\ DrainLeavesOnlyZombies'
    <2>1. drains' = [drains EXCEPT ![d] =
              [state |-> "waiting", onSettled |-> zombies[a] \cup ({active[a]} \ {NoTask}),
               onPromise |-> Queued(a), known |-> Outstanding(a)]]
      BY <1>5 DEF DrainCall, DrainWaitingFor
    <2>2. UNCHANGED <<pending, active, zombies, owner, status, disposed>>
      BY <1>5 DEF DrainCall, DrainWaitingFor
    <2>3. drains'[d].state = "waiting" /\ drains'[d].onSettled = zombies[a] \cup ({active[a]} \ {NoTask})
          /\ drains'[d].onPromise = Queued(a) /\ drains'[d].known = Outstanding(a)
          /\ \A e \in Drains \ {d} : drains'[e] = drains[e]
      BY <2>1
    <2>4. ASSUME ~disposed, NEW t \in Outstanding(a)
          PROVE  t \in zombies[a] \cup ({active[a]} \ {NoTask}) \/ t \in Queued(a)
      <3>1. t \in Tasks /\ owner[t] = a /\ status[t] \notin {"new", "settled"}
        BY DEF Outstanding
      <3>2. CASE status[t] = "pending"
        BY <3>1, <3>2 DEF PendingIsQueued, Queued
      <3>3. CASE status[t] # "pending"
        <4>1. Live(t)
          BY <3>1, <3>3 DEF Live, LiveStatuses, Statuses
        <4>2. QED
          BY <2>4, <3>1, <4>1, NoTaskAssumption DEF LiveIsTracked, Escaped
      <3>4. QED
        BY <3>2, <3>3
    <2>5. DrainsWait'
      <3> SUFFICES ASSUME NEW e \in Drains, drains'[e].state = "waiting", ~disposed', NEW t \in drains'[e].known
                   PROVE  status'[t] = "settled" \/ Escaped(t)' \/ t \in drains'[e].onSettled \/ t \in drains'[e].onPromise
        BY DEF DrainsWait
      <3>1. CASE e = d
        BY <2>2, <2>3, <2>4, <3>1
      <3>2. CASE e # d
        BY <2>2, <2>3, <3>2 DEF DrainsWait, Escaped
      <3>3. QED
        BY <3>1, <3>2
    <2>6. DrainLeavesOnlyZombies'
      <3> SUFFICES ASSUME NEW e \in Drains, drains'[e].state = "returned", ~disposed', NEW t \in drains'[e].known
                   PROVE  status'[t] = "settled" \/ Escaped(t)'
        BY DEF DrainLeavesOnlyZombies
      <3>1. e # d
        BY <2>3
      <3>2. QED
        BY <2>2, <2>3, <3>1 DEF DrainLeavesOnlyZombies, Escaped
    <2>7. QED
      BY <2>5, <2>6
  <1>6. ASSUME NEW d \in Drains, DrainReturn(d) PROVE DrainsWait' /\ DrainLeavesOnlyZombies'
    <2>1. UNCHANGED <<zombies, owner, status, promise, disposed>>
      BY <1>6 DEF DrainReturn
    <2>2. \A e \in Drains : drains'[e].known = drains[e].known /\ drains'[e].onSettled = drains[e].onSettled
             /\ drains'[e].onPromise = drains[e].onPromise /\ (e # d => drains'[e] = drains[e])
      BY <1>6 DEF DrainReturn
    <2>3. drains[d].state = "waiting" /\ drains'[d].state = "returned"
      BY <1>6 DEF DrainReturn
    <2>4. ASSUME ~disposed, NEW t \in drains[d].known PROVE status[t] = "settled" \/ Escaped(t)
      <3>1. t \in Tasks
        OBVIOUS
      <3>2. CASE t \in drains[d].onSettled
        BY <1>6, <3>2 DEF DrainReturn
      <3>3. CASE t \in drains[d].onPromise
        BY <1>6, <3>1, <3>3 DEF DrainReturn, ReleasedEarlyOnlyByEscape
      <3>4. QED
        BY <2>3, <2>4, <3>2, <3>3 DEF DrainsWait
    <2>5. \A e \in Drains : drains'[e].state = "waiting" => drains[e].state = "waiting"
      BY <2>2, <2>3
    <2>6. DrainsWait'
      BY <2>1, <2>2, <2>5 DEF DrainsWait, Escaped
    <2>7. DrainLeavesOnlyZombies'
      <3> SUFFICES ASSUME NEW e \in Drains, drains'[e].state = "returned", ~disposed', NEW t \in drains'[e].known
                   PROVE  status'[t] = "settled" \/ Escaped(t)'
        BY DEF DrainLeavesOnlyZombies
      <3>1. t \in drains[e].known /\ ~disposed
        BY <2>1, <2>2
      <3>2. status[t] = "settled" \/ Escaped(t)
        <4>1. CASE e = d
          BY <2>4, <3>1, <4>1
        <4>2. CASE e # d
          BY <2>2, <3>1, <4>2 DEF DrainLeavesOnlyZombies
        <4>3. QED
          BY <4>1, <4>2
      <3>3. QED
        BY <2>1, <3>2 DEF Escaped
    <2>8. QED
      BY <2>6, <2>7
  <1>7. CASE Dispose
    BY <1>7 DEF Dispose, DrainsWait, DrainLeavesOnlyZombies
  <1>8. CASE UNCHANGED vars
    BY <1>1, <1>8 DEF vars, Escaped
  <1>9. QED
    BY <1>2, <1>3, <1>4, <1>5, <1>6, <1>7, <1>8 DEF Next

\* A list without duplicates has as many items as members.
LEMMA DistinctLength ==
    ASSUME NEW S, NEW s \in Seq(S), Distinct(s)
    PROVE  LET Members == {x \in S : \E i \in DOMAIN s : s[i] = x}
           IN  IsFiniteSet(Members) /\ Cardinality(Members) = Len(s)
  <1> DEFINE Members == {x \in S : \E i \in DOMAIN s : s[i] = x}
  <1>1. DOMAIN s = 1 .. Len(s) /\ Len(s) \in Nat /\ \A i \in 1 .. Len(s) : s[i] \in S
    OBVIOUS
  <1>2. [i \in 1 .. Len(s) |-> s[i]] \in Bijection(1 .. Len(s), Members)
    <2>1. [i \in 1 .. Len(s) |-> s[i]] \in [1 .. Len(s) -> Members]
      BY <1>1
    <2>2. \A i, j \in 1 .. Len(s) : s[i] = s[j] => i = j
      BY <1>1 DEF Distinct
    <2>3. \A x \in Members : \E i \in 1 .. Len(s) : s[i] = x
      BY <1>1
    <2>4. QED
      BY <2>1, <2>2, <2>3 DEF Bijection, Injection, Surjection, IsInjective
  <1>3. ExistsBijection(1 .. Len(s), Members)
    BY <1>2 DEF ExistsBijection
  <1>4. IsFiniteSet(1 .. Len(s)) /\ Cardinality(1 .. Len(s)) = Len(s)
    <2>1. IsFiniteSet(1 .. Len(s)) /\ Cardinality(1 .. Len(s)) = (IF 1 > Len(s) THEN 0 ELSE Len(s) - 1 + 1)
      BY <1>1, FS_Interval
    <2>2. QED
      BY <1>1, <2>1
  <1> HIDE DEF Members
  <1>5. IsFiniteSet(Members) /\ Cardinality(Members) = Cardinality(1 .. Len(s))
    BY <1>3, <1>4, FS_Bijection
  <1>6. QED
    BY <1>4, <1>5 DEF Members

\* Disjoint finite sets.
LEMMA TogetherFinite ==
    ASSUME NEW S, NEW T, IsFiniteSet(S), IsFiniteSet(T), S \cap T = {}
    PROVE  IsFiniteSet(S \cup T) /\ Cardinality(S \cup T) = Cardinality(S) + Cardinality(T)
  <1>1. Cardinality(S) \in Nat /\ Cardinality(T) \in Nat /\ Cardinality({}) = 0
    BY FS_CardinalityType, FS_EmptySet
  <1>2. IsFiniteSet(S \cup T) /\ Cardinality(S \cup T) = Cardinality(S) + Cardinality(T) - Cardinality(S \cap T)
    BY FS_Union
  <1>3. Cardinality(S \cap T) = 0
    BY <1>1
  <1>4. QED
    BY <1>1, <1>2, <1>3

\* The items of a list, and the run in the slot.
Waiting(a, l) == {t \in Tasks : \E i \in DOMAIN pending[a][l] : pending[a][l][i] = t}
Slot(a) == {active[a]} \ {NoTask}

\* The report counts the lists, the slot and the zombies, which are the outstanding tasks.
LEMMA ReportCounts ==
    ASSUME IInv, PendingIsQueued, ZombiesAreFinite
    PROVE  DiagnosticsCountOutstanding
  <1> USE DEF IInv, TypeOK
  <1> SUFFICES ASSUME ~disposed, NEW a \in Agents
               PROVE  DepthTotal(a) + ZombieCount(a) = Cardinality(Outstanding(a))
    BY DEF DiagnosticsCountOutstanding
  <1>1. ASSUME NEW l \in Lanes
        PROVE  /\ IsFiniteSet(Waiting(a, l)) /\ Cardinality(Waiting(a, l)) = Len(pending[a][l])
               /\ Len(pending[a][l]) \in Nat
               /\ \A t \in Waiting(a, l) : t \in Tasks /\ status[t] = "pending" /\ owner[t] = a /\ lane[t] = l
    <2>1. pending[a][l] \in Seq(Tasks) /\ Distinct(pending[a][l])
      BY DEF QueuedOnce
    <2>2. IsFiniteSet(Waiting(a, l)) /\ Cardinality(Waiting(a, l)) = Len(pending[a][l])
      BY <2>1, DistinctLength DEF Waiting
    <2>3. QED
      BY <2>1, <2>2 DEF QueuesHoldPending, Waiting
  <1>2. IsFiniteSet(Slot(a)) /\ Cardinality(Slot(a)) = (IF active[a] = NoTask THEN 0 ELSE 1)
    <2>1. CASE active[a] = NoTask
      <3>1. Slot(a) = {}
        BY <2>1 DEF Slot
      <3>2. QED
        BY <2>1, <3>1, FS_EmptySet
    <2>2. CASE active[a] # NoTask
      <3>1. Slot(a) = {active[a]}
        BY <2>2 DEF Slot
      <3>2. QED
        <4>1. IsFiniteSet({active[a]}) /\ Cardinality({active[a]}) = 1
          BY FS_Singleton
        <4>2. QED
          BY <2>2, <3>1, <4>1
    <2>3. QED
      BY <2>1, <2>2
  <1>3. \A t \in Slot(a) : t \in Tasks /\ Live(t) /\ owner[t] = a /\ t \notin zombies[a]
    BY DEF ActiveIsLive, ZombieIsLive, Slot
  <1>4. IsFiniteSet(zombies[a]) /\ \A t \in zombies[a] : t \in Tasks /\ Live(t) /\ owner[t] = a
    BY DEF ZombiesAreFinite, ZombieIsLive
  <1>5. ASSUME NEW t \in Tasks
        PROVE  t \in Outstanding(a) <=>
                 t \in Waiting(a, "user") \/ t \in Waiting(a, "agent") \/ t \in Waiting(a, "background") \/ t \in Slot(a) \/ t \in zombies[a]
    <2>1. ASSUME t \in Outstanding(a)
          PROVE  t \in Waiting(a, "user") \/ t \in Waiting(a, "agent") \/ t \in Waiting(a, "background") \/ t \in Slot(a) \/ t \in zombies[a]
      <3>1. owner[t] = a /\ status[t] \notin {"new", "settled"} /\ lane[t] \in Lanes
        BY <2>1 DEF Outstanding
      <3>2. CASE status[t] = "pending"
        <4>1. t \in Waiting(a, lane[t])
          BY <3>1, <3>2 DEF PendingIsQueued, Waiting
        <4>2. lane[t] = "user" \/ lane[t] = "agent" \/ lane[t] = "background"
          BY <3>1 DEF Lanes
        <4>3. QED
          BY <4>1, <4>2
      <3>3. CASE status[t] # "pending"
        <4>1. Live(t)
          BY <3>1, <3>3 DEF Live, LiveStatuses, Statuses
        <4>2. QED
          BY <3>1, <4>1, NoTaskAssumption DEF LiveIsTracked, Escaped, Slot
      <3>4. QED
        BY <3>2, <3>3
    <2>2. \A l \in Lanes : t \in Waiting(a, l) => owner[t] = a /\ status[t] = "pending"
      BY <1>1
    <2>3. "user" \in Lanes /\ "agent" \in Lanes /\ "background" \in Lanes
      BY DEF Lanes
    <2>4. t \in Waiting(a, "user") \/ t \in Waiting(a, "agent") \/ t \in Waiting(a, "background") \/ t \in Slot(a) \/ t \in zombies[a]
            => owner[t] = a /\ status[t] \notin {"new", "settled"}
      BY <1>3, <1>4, <2>2, <2>3 DEF Live, LiveStatuses
    <2>5. QED
      BY <2>1, <2>4 DEF Outstanding
  <1>6. Waiting(a, "user") \subseteq Tasks /\ Waiting(a, "agent") \subseteq Tasks /\ Waiting(a, "background") \subseteq Tasks
        /\ Slot(a) \subseteq Tasks /\ zombies[a] \subseteq Tasks /\ Outstanding(a) \subseteq Tasks
    BY NoTaskAssumption DEF Outstanding, Waiting, Slot
  <1>l. "user" \in Lanes /\ "agent" \in Lanes /\ "background" \in Lanes
    BY DEF Lanes
  <1>n. /\ Len(pending[a]["user"]) \in Nat /\ Len(pending[a]["agent"]) \in Nat /\ Len(pending[a]["background"]) \in Nat
        /\ Cardinality(zombies[a]) \in Nat
        /\ Cardinality(Waiting(a, "user")) = Len(pending[a]["user"]) /\ IsFiniteSet(Waiting(a, "user"))
        /\ Cardinality(Waiting(a, "agent")) = Len(pending[a]["agent"]) /\ IsFiniteSet(Waiting(a, "agent"))
        /\ Cardinality(Waiting(a, "background")) = Len(pending[a]["background"]) /\ IsFiniteSet(Waiting(a, "background"))
    BY <1>1, <1>4, <1>l, FS_CardinalityType
  <1>8. ASSUME NEW t \in Tasks
        PROVE  /\ \A l, m \in Lanes : t \in Waiting(a, l) /\ t \in Waiting(a, m) => l = m
               /\ \A l \in Lanes : t \in Waiting(a, l) => t \notin Slot(a) /\ t \notin zombies[a]
               /\ t \in Slot(a) => t \notin zombies[a]
    <2>1. t \in Slot(a) \cup zombies[a] => status[t] # "pending"
      BY <1>3, <1>4 DEF Live, LiveStatuses
    <2>2. \A l \in Lanes : t \in Waiting(a, l) => status[t] = "pending" /\ lane[t] = l
      BY <1>1
    <2>3. QED
      BY <1>3, <2>1, <2>2
  <1>9. PICK U, G, B, S, Z : U = Waiting(a, "user") /\ G = Waiting(a, "agent") /\ B = Waiting(a, "background")
                             /\ S = Slot(a) /\ Z = zombies[a]
    OBVIOUS
  <1>10. /\ U \cap G = {} /\ U \cap B = {} /\ U \cap S = {} /\ U \cap Z = {} /\ G \cap B = {}
         /\ G \cap S = {} /\ G \cap Z = {} /\ B \cap S = {} /\ B \cap Z = {} /\ S \cap Z = {}
    <2>1. U \subseteq Tasks /\ G \subseteq Tasks /\ B \subseteq Tasks /\ S \subseteq Tasks /\ Z \subseteq Tasks
      BY <1>6, <1>9
    <2>2. \A t \in Tasks : /\ ~(t \in U /\ t \in G) /\ ~(t \in U /\ t \in B) /\ ~(t \in G /\ t \in B)
                           /\ t \in S => t \notin U /\ t \notin G /\ t \notin B
                           /\ t \in Z => t \notin U /\ t \notin G /\ t \notin B /\ t \notin S
      BY <1>8, <1>9, <1>l
    <2>3. QED
      BY <2>1, <2>2
  <1>11. Outstanding(a) = U \cup G \cup B \cup S \cup Z
    BY <1>5, <1>6, <1>9
  <1>12. Cardinality(Outstanding(a))
           = Cardinality(U) + Cardinality(G) + Cardinality(B) + Cardinality(S) + Cardinality(Z)
    <2>1. IsFiniteSet(U) /\ IsFiniteSet(G) /\ IsFiniteSet(B) /\ IsFiniteSet(S) /\ IsFiniteSet(Z)
      BY <1>2, <1>4, <1>9, <1>n
    <2>2. IsFiniteSet(U \cup G) /\ Cardinality(U \cup G) = Cardinality(U) + Cardinality(G)
      BY <1>10, <2>1, TogetherFinite
    <2>3. PICK UG : UG = U \cup G
      OBVIOUS
    <2>4. IsFiniteSet(UG \cup B) /\ Cardinality(UG \cup B) = Cardinality(UG) + Cardinality(B)
      <3>1. IsFiniteSet(UG) /\ UG \cap B = {}
        BY <1>10, <2>1, <2>2, <2>3
      <3>2. QED
        BY <2>1, <3>1, TogetherFinite
    <2>5. PICK UGB : UGB = UG \cup B
      OBVIOUS
    <2>6. IsFiniteSet(UGB \cup S) /\ Cardinality(UGB \cup S) = Cardinality(UGB) + Cardinality(S)
      <3>1. IsFiniteSet(UGB) /\ UGB \cap S = {}
        BY <1>10, <2>1, <2>3, <2>4, <2>5
      <3>2. QED
        BY <2>1, <3>1, TogetherFinite
    <2>7. PICK UGBS : UGBS = UGB \cup S
      OBVIOUS
    <2>8. Cardinality(UGBS \cup Z) = Cardinality(UGBS) + Cardinality(Z)
      <3>1. IsFiniteSet(UGBS) /\ UGBS \cap Z = {}
        BY <1>10, <2>1, <2>3, <2>5, <2>6, <2>7
      <3>2. QED
        BY <2>1, <3>1, TogetherFinite
    <2>9. U \cup G \cup B \cup S \cup Z = UGBS \cup Z
      BY <2>3, <2>5, <2>7
    <2>10. QED
      BY <1>11, <2>2, <2>3, <2>4, <2>5, <2>6, <2>7, <2>8, <2>9
  <1>13. QED
    BY <1>2, <1>9, <1>12, <1>n DEF DepthTotal, ZombieCount

\* The invariant behind the reports, with the lifecycle attached.
THEOREM ReportInvariant == LSpec => [](IInv /\ ReportInv)
  <1>1. LInit => Init /\ ReportInv
    <2> SUFFICES ASSUME LInit PROVE ReportInv
      BY DEF LInit
    <2> USE DEF LInit, Init
    <2>1. PendingIsQueued /\ ZombiesAreFinite
      BY FS_EmptySet DEF PendingIsQueued, ZombiesAreFinite
    <2>2. \A a \in Agents : Unfinished(a) = {}
      BY DEF Unfinished
    <2>3. WindowsAreCounted
      <3>1. inFlight \in [Agents -> Nat] /\ window \in [Agents -> BOOLEAN]
            /\ \A a \in Agents : inFlight[a] = 0 /\ ~ window[a]
        OBVIOUS
      <3>2. IsFiniteSet({}) /\ Cardinality({}) = 0
        BY FS_EmptySet
      <3>3. \A a \in Agents : IsFiniteSet(Unfinished(a)) /\ inFlight[a] = Cardinality(Unfinished(a))
        BY <2>2, <3>1, <3>2
      <3>4. \A a \in Agents : window[a] <=> inFlight[a] > 0
        BY <3>1
      <3>5. QED
        BY <3>1, <3>3, <3>4 DEF WindowsAreCounted
    <2>4. \A d \in Drains : drains[d].state = "idle"
      BY DEF NoDrain
    <2>5. DrainsWait /\ DrainLeavesOnlyZombies
      BY <2>4 DEF DrainsWait, DrainLeavesOnlyZombies
    <2>6. QED
      BY <2>1, <2>3, <2>5 DEF ReportInv
  <1>2. LSpec => Spec
    BY AttachedStep, <1>1, PTL DEF LSpec, Spec
  <1>3. IInv /\ IInv' /\ ReportInv /\ [LNext]_allVars => ReportInv'
    BY AttachedStep, StepKeepsPendingIsQueued, StepKeepsZombiesFinite, StepKeepsWindowsCounted, StepKeepsDrains
       DEF ReportInv
  <1>4. QED
    BY <1>1, <1>2, <1>3, InductiveInvariant, PTL DEF LSpec

\* The diagnostics, the run windows behind onTurnCompleted and the return of drain()
\* tell the truth, whatever was escaped, for any agents, tasks and drain calls.
THEOREM TrueReports == LSpec => []ReportsAreTrue
  <1>1. IInv /\ ReportInv => ReportsAreTrue
    BY ReportCounts DEF ReportInv, ReportsAreTrue, WindowsAreCounted, WindowCountsRuns, Unfinished
  <1>2. QED
    BY <1>1, ReportInvariant, PTL
=============================================================================
