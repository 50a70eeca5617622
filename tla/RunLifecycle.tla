---------------------------- MODULE RunLifecycle ----------------------------
(***************************************************************************)
(* packages/core/src/run-lifecycle.ts attached to the run scheduler, as    *)
(* SessionRuntime wires it: attach() wraps enqueue(), so that every        *)
(* enqueue opens (or joins) the agent's run window and the task's finally  *)
(* block leaves it, one microtask before the scheduler settles the task.   *)
(* onTurnCompleted is the closing of the window.  Ack obligations are left  *)
(* out: nothing in the repository mints one.                               *)
(***************************************************************************)
EXTENDS RunScheduler

VARIABLES
    inFlight,   \* inFlightRunCounts, 0 for an absent entry
    window      \* runWindowStartedAt has an entry for the agent

lifecycleVars == <<inFlight, window>>

allVars == <<vars, lifecycleVars>>

LInit ==
    /\ Init
    /\ inFlight = [a \in Agents |-> 0]
    /\ window = [a \in Agents |-> FALSE]

-----------------------------------------------------------------------------

BeginSessionRun(a) ==
    /\ inFlight' = [inFlight EXCEPT ![a] = @ + 1]
    /\ window' = [window EXCEPT ![a] = IF inFlight[a] = 0 THEN TRUE ELSE @]

EndSessionRun(a) ==
    LET remaining == (IF inFlight[a] = 0 THEN 1 ELSE inFlight[a]) - 1 IN
    /\ inFlight' = [inFlight EXCEPT ![a] = remaining]
    /\ window' = [window EXCEPT ![a] = @ /\ remaining > 0]

\* The wrapped enqueue().
LEnqueue(t) == Enqueue(t) /\ BeginSessionRun(owner[t])

\* Fault: the window is left on success only, with no finally.
LFinishWithoutFinally(t, outcome) ==
    /\ FinishTask(t, outcome)
    /\ IF outcome = "fulfilled" THEN EndSessionRun(owner[t]) ELSE UNCHANGED lifecycleVars

\* The finally block of the wrapped task, on success and on failure.
LFinishTask(t, outcome) == FinishTask(t, outcome) /\ EndSessionRun(owner[t])

LNext ==
    \/ \E t \in Tasks :
         \/ LEnqueue(t)
         \/ StartTask(t) /\ UNCHANGED lifecycleVars
         \/ \E outcome \in {"fulfilled", "failed"} : LFinishTask(t, outcome)
         \/ Settle(t) /\ UNCHANGED lifecycleVars
         \/ WatchdogFires(t) /\ UNCHANGED lifecycleVars
         \/ GraceFires(t) /\ UNCHANGED lifecycleVars
    \/ \E a \in Agents :
         \/ PumpNothing(a) /\ UNCHANGED lifecycleVars
         \/ PumpTask(a) /\ UNCHANGED lifecycleVars
    \/ \E d \in Drains :
         \/ \E a \in Agents : DrainCall(d, a) /\ UNCHANGED lifecycleVars
         \/ DrainReturn(d) /\ UNCHANGED lifecycleVars
    \/ Dispose /\ UNCHANGED lifecycleVars

LSpec == LInit /\ [][LNext]_allVars

-----------------------------------------------------------------------------
(* Fairness: the event loop runs every queued microtask and every timer.      *)
(* Whether a task's own promise ever settles is up to the task.               *)

Loop(A) == A /\ UNCHANGED lifecycleVars

EventLoopFairness ==
    /\ \A a \in Agents : WF_allVars(Loop(PumpNothing(a) \/ PumpTask(a)))
    /\ \A t \in Tasks :
         /\ WF_allVars(Loop(StartTask(t)))
         /\ WF_allVars(Loop(Settle(t)))
         /\ WF_allVars(Loop(WatchdogFires(t) \/ GraceFires(t)))
    /\ \A d \in Drains : WF_allVars(Loop(DrainReturn(d)))

FairSpec == LSpec /\ EventLoopFairness

\* No task hangs for ever.
CooperativeSpec ==
    /\ FairSpec
    /\ \A t \in Tasks :
         WF_allVars(\E outcome \in {"fulfilled", "failed"} : LFinishTask(t, outcome))

-----------------------------------------------------------------------------
(* Properties *)

\* The run window of an agent is open exactly while some accepted task of it,
\* zombies included, has not finished: onTurnCompleted is never reported with a
\* run of the agent left, and never missed after the last one.
WindowCountsRuns ==
    \A a \in Agents :
        /\ inFlight[a] = Cardinality({t \in Tasks :
              owner[t] = a /\ status[t] \in {"pending", "starting", "running"}})
        /\ window[a] <=> inFlight[a] > 0

\* What the scheduler tells of its runs is true of them, whatever was escaped: the depth
\* and the zombies getDiagnostics() counts, the run windows behind onTurnCompleted, and
\* what has ended when drain() returns.
ReportsAreTrue == DiagnosticsCountOutstanding /\ WindowCountsRuns /\ DrainLeavesOnlyZombies

\* Every accepted send settles for its caller, unless the scheduler is disposed.
\* The code promises it even of wedged turns: the promise is resolved early "so a
\* send can never hang on a wedged turn".
SendsNeverHang ==
    \A t \in Tasks : status[t] = "pending" ~> promise[t] # "pending" \/ disposed

\* A drain() returns once the tasks it waits for are done, unless the scheduler
\* is disposed.
DrainsReturn ==
    \A d \in Drains : drains[d].state = "waiting" ~> drains[d].state = "returned" \/ disposed

\* Nobody who waits for the scheduler - the caller of a send, the caller of drain() -
\* waits for ever if the tasks end.
CallersReturn == SendsNeverHang /\ DrainsReturn
=============================================================================
