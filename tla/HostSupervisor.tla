--------------------------- MODULE HostSupervisor ---------------------------
(***************************************************************************)
(* The host supervision of packages/coordinator/src/coordinator.ts: one    *)
(* CoordinatorCore that starts a host process, restarts it when it exits   *)
(* with the crash code, and restarts or stops it on request.               *)
(*                                                                         *)
(* startHost() awaits spawn(), so that exits, timers and requests happen   *)
(* between its guard and its assignment of hostProcess; a killed process   *)
(* ends, and its exit event arrives, some time after kill().  spawn() may  *)
(* reject, and it may return a child that was never forked: such a child   *)
(* emits `error' alone and never exits.  Processes are numbered in the     *)
(* order in which startHost() calls get to spawn them; MaxSpawns bounds    *)
(* the spawns of a behaviour, MaxSpawnFailures those that fail.            *)
(***************************************************************************)
EXTENDS Naturals, FiniteSets

CONSTANTS
    MaxSpawns,        \* how many processes may ever be spawned
    MaxSpawnFailures, \* how many spawns may fail
    BaseMs,           \* restartBackoff.baseMs
    MaxMs             \* restartBackoff.maxMs

ASSUME SpawnsAssumption == MaxSpawns \in Nat /\ MaxSpawnFailures \in Nat
ASSUME BackoffAssumption == BaseMs \in Nat \ {0} /\ MaxMs \in Nat /\ BaseMs <= MaxMs

Hosts == 1..MaxSpawns

\* hostProcess === null, restartTimer === null
NoHost == 0

VARIABLES
    hostProcess,      \* this.hostProcess
    restartAttempts,  \* this.restartAttempts
    restartTimer,     \* this.restartTimer: the process whose exit armed it
    delay,            \* the backoff of the timer a process's exit armed, 0 if not armed
    proc,             \* where each process is
    killed,           \* processes that were sent kill()
    down,             \* shutdown() was called
    restarted         \* history: restartHost() was called

vars == <<hostProcess, restartAttempts, restartTimer, delay, proc,
          killed, down, restarted>>

\* A process that ended and whose exit event is still to come: with the code
\* exitCodeContract.crashRestart, or with any other code or by a signal.
Exited == {"crashed", "ended"}

\* What became of a spawn() that gave no process: it rejected, or its child is dead.
Failed == {"refused", "stillborn"}

Places == {"unborn", "spawning", "running", "reaped"} \cup Exited \cup Failed

Init ==
    /\ hostProcess = NoHost
    /\ restartAttempts = 0
    /\ restartTimer = NoHost
    /\ delay = [h \in Hosts |-> 0]
    /\ proc = [h \in Hosts |-> "unborn"]
    /\ killed = {}
    /\ down = FALSE
    /\ restarted = FALSE

-----------------------------------------------------------------------------
(* startHost() *)

\* startHost() from its guard to its await.
BeginSpawn(h) ==
    /\ proc[h] = "unborn"
    /\ \A g \in Hosts : g < h => proc[g] # "unborn"
    /\ proc' = [proc EXCEPT ![h] = "spawning"]

\* The embedding starts the first host, and again when it is told that this failed.
StartHost(h) ==
    /\ \A g \in Hosts : proc[g] \in {"unborn", "refused"}
    /\ ~down
    /\ BeginSpawn(h)
    /\ UNCHANGED <<hostProcess, restartAttempts, restartTimer, delay, killed, down, restarted>>

\* The rest of startHost(), whatever happened during the await.
SpawnCompletes(h) ==
    /\ proc[h] = "spawning"
    /\ proc' = [proc EXCEPT ![h] = "running"]
    /\ hostProcess' = h
    /\ restartAttempts' = 0
    /\ UNCHANGED <<restartTimer, delay, killed, down, restarted>>

SpawnFailures == Cardinality({g \in Hosts : proc[g] \in Failed})

\* spawn() rejects, and nothing is assigned.  The caller of restartHost() or the
\* embedding is told; the timer that called startHost() is not, and its promise is
\* nobody's (Node ends the coordinator then unless the embedding prevents it).
SpawnRejects(h) ==
    /\ proc[h] = "spawning" /\ SpawnFailures < MaxSpawnFailures
    /\ proc' = [proc EXCEPT ![h] = "refused"]
    /\ UNCHANGED <<hostProcess, restartAttempts, restartTimer, delay, killed, down, restarted>>

\* The child could not be forked.  startHost() takes it for a host; its `error' is
\* passed to onHostStatus, and changes nothing.
ForkFails(h) ==
    /\ proc[h] = "spawning" /\ SpawnFailures < MaxSpawnFailures
    /\ proc' = [proc EXCEPT ![h] = "stillborn"]
    /\ hostProcess' = h
    /\ restartAttempts' = 0
    /\ UNCHANGED <<restartTimer, delay, killed, down, restarted>>

SpawnEnds(h) == SpawnCompletes(h) \/ SpawnRejects(h) \/ ForkFails(h)

-----------------------------------------------------------------------------
(* Exits and restarts *)

HostExits(h, how) ==
    /\ proc[h] = "running"
    /\ proc' = [proc EXCEPT ![h] = how]
    /\ UNCHANGED <<hostProcess, restartAttempts, restartTimer, delay, killed,
                   down, restarted>>

\* 2^n
Power2[n \in Nat] == IF n = 0 THEN 1 ELSE 2 * Power2[n - 1]

ComputeBackoff(attempt) ==
    IF BaseMs * Power2[attempt] <= MaxMs THEN BaseMs * Power2[attempt] ELSE MaxMs

\* What handleHostExit() does after it has dealt with hostProcess.
ScheduleRestart(h) ==
    /\ IF proc[h] = "crashed"
       THEN /\ delay' = [delay EXCEPT ![h] = ComputeBackoff(restartAttempts)]
            /\ restartAttempts' = restartAttempts + 1
            /\ restartTimer' = h
       ELSE UNCHANGED <<delay, restartAttempts, restartTimer>>
    /\ UNCHANGED <<killed, down, restarted>>

\* Fault: the exited process is still reported.
HandleHostExitKeepingProcess(h) ==
    /\ proc[h] \in Exited
    /\ proc' = [proc EXCEPT ![h] = "reaped"]
    /\ ScheduleRestart(h)
    /\ UNCHANGED hostProcess

\* Fault: no restart is scheduled while an attempt is counted.
HandleHostExitOnce(h) ==
    /\ proc[h] \in Exited
    /\ proc' = [proc EXCEPT ![h] = "reaped"]
    /\ hostProcess' = NoHost
    /\ restartAttempts' = restartAttempts + 1
    /\ UNCHANGED <<restartTimer, delay, killed, down, restarted>>

\* The handler does not look at whose exit it is: hostProcess may be a newer one.
HandleHostExit(h) ==
    /\ proc[h] \in Exited
    /\ proc' = [proc EXCEPT ![h] = "reaped"]
    /\ hostProcess' = NoHost
    /\ ScheduleRestart(h)

\* The timer that the exit of h armed fires, and starts g unless there is a host.
TimerFires(h) ==
    /\ delay[h] # 0
    /\ delay' = [delay EXCEPT ![h] = 0]
    /\ restartTimer' = NoHost
    /\ IF hostProcess = NoHost THEN \E g \in Hosts : BeginSpawn(g) ELSE UNCHANGED proc
    /\ UNCHANGED <<hostProcess, restartAttempts, killed, down, restarted>>

KillHost == killed' = IF hostProcess = NoHost THEN killed ELSE killed \cup {hostProcess}

ClearTimer == delay' = [h \in Hosts |-> IF h = restartTimer THEN 0 ELSE delay[h]]

\* restartHost(), on a request of the mainData plane.
RestartHost(h) ==
    /\ ~down
    /\ ClearTimer
    /\ restartTimer' = NoHost
    /\ KillHost
    /\ hostProcess' = NoHost
    /\ BeginSpawn(h)
    /\ restarted' = TRUE
    /\ UNCHANGED <<restartAttempts, down>>

\* shutdown() clears the timer and keeps its handle.
Shutdown ==
    /\ ~down
    /\ down' = TRUE
    /\ ClearTimer
    /\ KillHost
    /\ hostProcess' = NoHost
    /\ UNCHANGED <<restartAttempts, restartTimer, proc, restarted>>

-----------------------------------------------------------------------------

HostStep(h) ==
    \/ StartHost(h)
    \/ SpawnEnds(h)
    \/ \E how \in Exited : HostExits(h, how)
    \/ HandleHostExit(h)
    \/ TimerFires(h)
    \/ RestartHost(h)

Next == (\E h \in Hosts : HostStep(h)) \/ Shutdown

Spec == Init /\ [][Next]_vars

\* A spawn ends, with a process or without, exit events are delivered and timers
\* fire.  Whether a spawn succeeds and whether a host ever exits is open.
FairSpec ==
    /\ Spec
    /\ \A h \in Hosts :
         /\ WF_vars(SpawnEnds(h))
         /\ WF_vars(HandleHostExit(h))
         /\ WF_vars(TimerFires(h))

-----------------------------------------------------------------------------
(* Properties *)

\* Every variable has its type.
TypeOK ==
    /\ hostProcess \in Hosts \cup {NoHost}
    /\ restartAttempts \in Nat
    /\ restartTimer \in Hosts \cup {NoHost}
    /\ delay \in [Hosts -> 0..MaxMs]
    /\ proc \in [Hosts -> Places]
    /\ killed \subseteq Hosts
    /\ down \in BOOLEAN
    /\ restarted \in BOOLEAN

\* hostStatus and /healthz never report a process whose exit was handled or that
\* was killed, whatever exits, spawns and requests overlapped.  They do report a child
\* that was never forked.
ReportedHostIsAlive ==
    hostProcess # NoHost =>
        /\ proc[hostProcess] \in {"running", "stillborn"} \cup Exited
        /\ hostProcess \notin killed

\* A process that executes and that nobody told to stop, or that is on its way.
Serving == {h \in Hosts : proc[h] \in {"spawning", "running"} \cup Exited /\ h \notin killed}

\* Crash recovery by itself never runs two hosts: until the first restartHost()
\* there is at most one host, on its way, serving or about to be restarted, and
\* the one that executes is the one reported.  With restartHost() it does not hold:
\* the late exit of the killed process makes the supervisor forget its successor.
OneHostWithoutRequests ==
    ~restarted =>
        /\ Cardinality(Serving) + Cardinality({h \in Hosts : delay[h] # 0}) <= 1
        /\ \A h \in Hosts : proc[h] = "running" /\ ~down => hostProcess = h \/ h \in killed

\* A shutdown() stops crash recovery: until the first restartHost() the handle it
\* clears is that of the one timer that can be armed.  With restartHost() a second
\* crash may have overwritten the handle of a timer that is still armed.  (A host
\* that is on its way at the shutdown still comes up, and a crash handled after
\* the shutdown is still restarted: both are outside what shutdown() clears.)
NoTimerSurvivesShutdown ==
    [][~down /\ down' /\ ~restarted => \A h \in Hosts : delay'[h] = 0]_vars

\* After every crash a new host comes up and is reported - unless there is a shutdown(),
\* or a spawn fails after the crash: the supervisor does not try again then.  The bound
\* on spawns is reached first in the behaviours that ask for too many.
CrashIsRestarted ==
    \A h \in Hosts, n \in 0..MaxSpawnFailures :
        proc[h] = "crashed" /\ SpawnFailures = n
          ~> \/ proc[h] = "reaped" /\ \E g \in Hosts : hostProcess = g /\ proc[g] = "running"
             \/ down \/ SpawnFailures > n \/ \A g \in Hosts : proc[g] # "unborn"

\* The supervisor knows its hosts: what it reports was not reaped or killed, and without
\* requests nothing runs beside it.
HostsAreKnown == ReportedHostIsAlive /\ OneHostWithoutRequests

\* Crash recovery restarts after every crash until shutdown() or a failed spawn, and
\* shutdown() ends it.
CrashesAreRecovered == CrashIsRestarted /\ NoTimerSurvivesShutdown
=============================================================================
