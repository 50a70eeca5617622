---------------------------- MODULE RunScheduler ----------------------------
(***************************************************************************)
(* The per-agent exclusive run queue of packages/core/src/run-scheduler.ts.*)
(*                                                                         *)
(* Every agent has three FIFO lanes, at most one ACTIVE run and a set of   *)
(* ZOMBIES: runs the watchdog gave up on and which still execute.  All of  *)
(* it runs on one JavaScript thread: a step of this module is what happens *)
(* between two awaits.  pump(), the start of a task and the settlement of  *)
(* a task are microtasks; timers are macrotasks, and fire only once no     *)
(* microtask is left (MicrotasksDrained).                                  *)
(***************************************************************************)
EXTENDS Naturals, Sequences, FiniteSets

CONSTANTS
    Agents,   \* agent ids
    Tasks,    \* the tasks that may ever be enqueued, each at most once
    Drains,   \* calls of drain(), each made at most once
    NoTask    \* queue.active === null

ASSUME NoTaskAssumption == NoTask \notin Tasks

Lanes == {"user", "agent", "background"}

VARIABLES
    pending,   \* pendingUser, pendingAgent, pendingBackground of each agent
    active,    \* the item of queue.active of each agent, or NoTask
    zombies,   \* queue.zombies: escaped tasks that still run
    pumpDue,   \* a pump(agentId) microtask is scheduled
    owner,     \* the agent a task was enqueued for
    lane,      \* the lane it was enqueued on
    status,    \* where the task itself is
    promise,   \* the caller-facing promise of the task
    timer,     \* the watchdog or grace timer armed for the task
    disposed,  \* dispose() was called
    drains     \* the drain() calls and the promises each waits for

vars == <<pending, active, zombies, pumpDue, owner, lane, status, promise,
          timer, disposed, drains>>

Statuses == {"new", "pending", "starting", "running", "fulfilled", "failed",
             "settled"}

\* The task function has been handed to the event loop and its promise has not
\* been processed by settle() yet.
LiveStatuses == {"starting", "running", "fulfilled", "failed"}

\* onSettled and onPromise are drain()'s snapshot; known, which the code does not
\* have, records every task that was enqueued and not settled at the call.
NoDrain == [state |-> "idle", onSettled |-> {}, onPromise |-> {}, known |-> {}]

\* owner and lane are the arguments of the enqueue() calls to come.
Init ==
    /\ pending = [a \in Agents |-> [l \in Lanes |-> <<>>]]
    /\ active = [a \in Agents |-> NoTask]
    /\ zombies = [a \in Agents |-> {}]
    /\ pumpDue = [a \in Agents |-> FALSE]
    /\ owner \in [Tasks -> Agents]
    /\ lane \in [Tasks -> Lanes]
    /\ status = [t \in Tasks |-> "new"]
    /\ promise = [t \in Tasks |-> "pending"]
    /\ timer = [t \in Tasks |-> "none"]
    /\ disposed = FALSE
    /\ drains = [d \in Drains |-> NoDrain]

-----------------------------------------------------------------------------
(* Reading the queues *)

Live(t) == status[t] \in LiveStatuses

\* The items of the three pending lists.
Queued(a) ==
    {t \in Tasks : \E l \in Lanes : \E i \in DOMAIN pending[a][l] : pending[a][l][i] = t}

\* Accepted by enqueue() and not settled.
Outstanding(a) ==
    {t \in Tasks : owner[t] = a /\ status[t] \notin {"new", "settled"}}

HasPending(a) == \E l \in Lanes : pending[a][l] # <<>>

\* Fault: the user lane loses its priority.
NextLaneAgentFirst(a) ==
    IF pending[a]["agent"] # <<>> THEN "agent"
    ELSE IF pending[a]["user"] # <<>> THEN "user"
    ELSE "background"

\* user > agent > background
NextLane(a) ==
    IF pending[a]["user"] # <<>> THEN "user"
    ELSE IF pending[a]["agent"] # <<>> THEN "agent"
    ELSE "background"

\* No microtask is queued, so the event loop may run a timer callback.
MicrotasksDrained ==
    /\ \A a \in Agents : ~pumpDue[a]
    /\ \A t \in Tasks : status[t] \notin {"starting", "fulfilled", "failed"}

-----------------------------------------------------------------------------
(* enqueue(), pump() and the life of a task *)

SchedulePump(a) == pumpDue' = [pumpDue EXCEPT ![a] = TRUE]

Enqueue(t) ==
    /\ status[t] = "new"
    /\ status' = [status EXCEPT ![t] = "pending"]
    /\ pending' = [pending EXCEPT ![owner[t]][lane[t]] = Append(@, t)]
    /\ SchedulePump(owner[t])
    /\ UNCHANGED <<active, zombies, owner, lane, promise, timer, disposed, drains>>

\* pump() returns early.
PumpNothing(a) ==
    /\ pumpDue[a]
    /\ disposed \/ active[a] # NoTask \/ ~HasPending(a)
    /\ pumpDue' = [pumpDue EXCEPT ![a] = FALSE]
    /\ UNCHANGED <<pending, active, zombies, owner, lane, status, promise,
                   timer, disposed, drains>>

\* The rest of pump(): take the oldest task of the best lane, arm its watchdog and
\* schedule its start.
TakeNext(a) ==
    LET l == NextLane(a)
        t == Head(pending[a][l])
    IN  /\ pumpDue[a]
        /\ ~disposed
        /\ HasPending(a)
        /\ pending' = [pending EXCEPT ![a][l] = Tail(@)]
        /\ active' = [active EXCEPT ![a] = t]
        /\ status' = [status EXCEPT ![t] = "starting"]
        /\ timer' = [timer EXCEPT ![t] = "watchdog"]
        /\ pumpDue' = [pumpDue EXCEPT ![a] = FALSE]
        /\ UNCHANGED <<zombies, owner, lane, promise, disposed, drains>>

\* Fault: pump() does not look at queue.active.
PumpTaskWhileActive(a) == TakeNext(a)

PumpTask(a) == active[a] = NoTask /\ TakeNext(a)

\* The microtask of pump() calls next.task().
StartTask(t) ==
    /\ status[t] = "starting"
    /\ status' = [status EXCEPT ![t] = "running"]
    /\ UNCHANGED <<pending, active, zombies, pumpDue, owner, lane, promise,
                   timer, disposed, drains>>

\* The task's own promise settles; its handlers run as the next microtask.
FinishTask(t, outcome) ==
    /\ status[t] = "running"
    /\ status' = [status EXCEPT ![t] = outcome]
    /\ UNCHANGED <<pending, active, zombies, pumpDue, owner, lane, promise,
                   timer, disposed, drains>>

FreeSlot(t) == active' = [active EXCEPT ![owner[t]] = IF @ = t THEN NoTask ELSE @]

\* settle() but for the zombies and the pump.
SettleTask(t) ==
    /\ status[t] \in {"fulfilled", "failed"}
    /\ FreeSlot(t)
    /\ timer' = [timer EXCEPT ![t] = "none"]
    /\ status' = [status EXCEPT ![t] = "settled"]
    /\ UNCHANGED <<pending, owner, lane, disposed, drains>>

Outcome(t) == IF status[t] = "fulfilled" THEN "resolved" ELSE "rejected"

\* resolve() and reject() do nothing on a promise that has settled.
SettlePromise(t, value) ==
    promise' = [promise EXCEPT ![t] = IF @ = "pending" THEN value ELSE @]

\* A run that is not the active one is dropped from the zombies.
DropZombie(t) ==
    zombies' = [zombies EXCEPT ![owner[t]] = IF active[owner[t]] = t THEN @ ELSE @ \ {t}]

\* Fault: a settled run does not wake the queue.
SettleWithoutPump(t) ==
    SettleTask(t) /\ SettlePromise(t, Outcome(t)) /\ DropZombie(t) /\ UNCHANGED pumpDue

\* next.resolve() or next.reject(), then settle().
Settle(t) ==
    /\ SettleTask(t)
    /\ SettlePromise(t, Outcome(t))
    /\ DropZombie(t)
    /\ SchedulePump(owner[t])

-----------------------------------------------------------------------------
(* The watchdog *)

WatchdogFires(t) ==
    /\ MicrotasksDrained
    /\ timer[t] = "watchdog"
    /\ ~disposed
    /\ timer' = [timer EXCEPT ![t] = "grace"]
    /\ UNCHANGED <<pending, active, zombies, pumpDue, owner, lane, status,
                   promise, disposed, drains>>

\* The grace timer fires and the caller is released.
ReleaseCaller(t) ==
    /\ MicrotasksDrained
    /\ timer[t] = "grace"
    /\ ~disposed
    /\ timer' = [timer EXCEPT ![t] = "none"]
    /\ SettlePromise(t, "resolved")
    /\ UNCHANGED <<pending, pumpDue, owner, lane, status, disposed, drains>>

TrackZombie(t) == zombies' = [zombies EXCEPT ![owner[t]] = @ \cup {t}]

\* The escape: the caller is released, the run is tracked as a zombie.  Nothing
\* schedules a pump().
GraceFires(t) == ReleaseCaller(t) /\ TrackZombie(t) /\ FreeSlot(t)

-----------------------------------------------------------------------------
(* drain() and dispose() *)

\* drain() takes its snapshot: the settled promises of runs, the caller-facing
\* promises of pending tasks.
DrainWaitingFor(d, a, runs) ==
    /\ drains[d].state = "idle"
    /\ drains' = [drains EXCEPT ![d] =
                    [state |-> "waiting", onSettled |-> runs, onPromise |-> Queued(a),
                     known |-> Outstanding(a)]]
    /\ UNCHANGED <<pending, active, zombies, pumpDue, owner, lane, status,
                   promise, timer, disposed>>

DrainCall(d, a) == DrainWaitingFor(d, a, zombies[a] \cup ({active[a]} \ {NoTask}))

DrainReturn(d) ==
    /\ drains[d].state = "waiting"
    /\ \A t \in drains[d].onSettled : status[t] = "settled"
    /\ \A t \in drains[d].onPromise : promise[t] # "pending"
    /\ drains' = [drains EXCEPT ![d].state = "returned"]
    /\ UNCHANGED <<pending, active, zombies, pumpDue, owner, lane, status,
                   promise, timer, disposed>>

Dispose ==
    /\ ~disposed
    /\ disposed' = TRUE
    /\ timer' = [t \in Tasks |-> IF active[owner[t]] = t THEN "none" ELSE timer[t]]
    /\ active' = [a \in Agents |-> NoTask]
    /\ UNCHANGED <<pending, zombies, pumpDue, owner, lane, status, promise, drains>>

-----------------------------------------------------------------------------

TaskStep(t) ==
    \/ Enqueue(t)
    \/ StartTask(t)
    \/ \E outcome \in {"fulfilled", "failed"} : FinishTask(t, outcome)
    \/ Settle(t)
    \/ WatchdogFires(t)
    \/ GraceFires(t)

Next ==
    \/ \E t \in Tasks : TaskStep(t)
    \/ \E a \in Agents : PumpNothing(a) \/ PumpTask(a)
    \/ \E d \in Drains : (\E a \in Agents : DrainCall(d, a)) \/ DrainReturn(d)
    \/ Dispose

Spec == Init /\ [][Next]_vars

-----------------------------------------------------------------------------
(* getDiagnostics() *)

DepthTotal(a) ==
    Len(pending[a]["user"]) + Len(pending[a]["agent"]) + Len(pending[a]["background"])
      + (IF active[a] = NoTask THEN 0 ELSE 1)

\* A queue with nothing pending and nothing active is left out of the report.
Diagnosed(a) == DepthTotal(a) > 0

ZombieCount(a) == Cardinality(zombies[a])

-----------------------------------------------------------------------------
(* Properties *)

\* Every variable has its type.
TypeOK ==
    /\ pending \in [Agents -> [Lanes -> Seq(Tasks)]]
    /\ active \in [Agents -> Tasks \cup {NoTask}]
    /\ zombies \in [Agents -> SUBSET Tasks]
    /\ pumpDue \in [Agents -> BOOLEAN]
    /\ owner \in [Tasks -> Agents]
    /\ lane \in [Tasks -> Lanes]
    /\ status \in [Tasks -> Statuses]
    /\ promise \in [Tasks -> {"pending", "resolved", "rejected"}]
    /\ timer \in [Tasks -> {"none", "watchdog", "grace"}]
    /\ disposed \in BOOLEAN
    /\ drains \in [Drains -> [state : {"idle", "waiting", "returned"},
                              onSettled : SUBSET Tasks, onPromise : SUBSET Tasks,
                              known : SUBSET Tasks]]

Escaped(t) == t \in zombies[owner[t]]

\* "One agent executes at most one task at a time", as far as the code keeps it:
\* two runs of one agent overlap only if the watchdog escaped one of them.  Also
\* after dispose(), which forgets the active run while it still executes.
OneRunAtATime ==
    \A t, u \in Tasks :
        /\ Live(t) /\ ~Escaped(t)
        /\ Live(u) /\ ~Escaped(u)
        /\ owner[t] = owner[u]
        => t = u

\* Until dispose(), the runs in progress are exactly the active one and the
\* zombies: no run is lost by an escape or a settlement racing a new start, and
\* nothing that finished is still tracked.
RunsAreTracked ==
    ~disposed =>
        \A a \in Agents :
            {t \in Tasks : owner[t] = a /\ Live(t)}
              = zombies[a] \cup ({active[a]} \ {NoTask})

\* A caller is released before its task really settled only by a watchdog
\* escape, and then its promise is resolved, never rejected.
ReleasedEarlyOnlyByEscape ==
    \A t \in Tasks :
        promise[t] # "pending" =>
            \/ status[t] = "settled"
            \/ Escaped(t) /\ promise[t] = "resolved"

\* No wakeup is lost except behind a zombie: an idle queue with pending tasks has
\* a pump() scheduled or a zombie whose settlement will schedule one.
NoLostWakeup ==
    \A a \in Agents :
        ~disposed /\ active[a] = NoTask /\ HasPending(a)
          => pumpDue[a] \/ zombies[a] # {}

\* getDiagnostics() accounts for every accepted task that has not settled.
DiagnosticsCountOutstanding ==
    ~disposed =>
        \A a \in Agents :
            Diagnosed(a) => DepthTotal(a) + ZombieCount(a) = Cardinality(Outstanding(a))

\* When drain() returns, every task known at the call has settled, or has been
\* escaped since and is still a tracked zombie.
DrainLeavesOnlyZombies ==
    \A d \in Drains :
        drains[d].state = "returned" /\ ~disposed =>
            \A t \in drains[d].known : status[t] = "settled" \/ Escaped(t)

\* What the comment on drain() says: it "resolves once every task known to the
\* queue AT CALL TIME - running, pending, AND escaped-but-still-running zombies -
\* has actually settled".
DrainWaitsForKnown ==
    \A d \in Drains :
        drains[d].state = "returned" /\ ~disposed =>
            \A t \in drains[d].known : status[t] = "settled"

\* A promise that a caller has seen settle never changes, and a task that has
\* settled never runs again: an escape and the late settlement do not both win.
SettlesOnce ==
    [][\A t \in Tasks :
          /\ promise[t] # "pending" => promise'[t] = promise[t]
          /\ status[t] = "settled" => status'[t] = "settled"]_vars

-----------------------------------------------------------------------------
(* Refinement: an escaped run is a zombie until it settles. *)

RunState(t) ==
    CASE status[t] = "new" -> "new"
      [] status[t] = "pending" -> "waiting"
      [] status[t] = "settled" -> "over"
      [] OTHER -> IF Escaped(t) THEN "given up" ELSE "running"

Exclusive == INSTANCE ExclusiveRuns WITH
    lines <- pending,
    state <- [t \in Tasks |-> RunState(t)],
    answer <- promise,
    closed <- disposed

\* The queue with its pumps, timers and zombies keeps the promise of ExclusiveRuns: one
\* run at a time unless the watchdog gave one up, the lanes by priority and each in
\* order, one answer for every caller, and no start after dispose().
ServesExclusively == Exclusive!Spec
=============================================================================
