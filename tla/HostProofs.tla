----------------------------- MODULE HostProofs ------------------------------
(***************************************************************************)
(* Proofs about the hosts and what runs in them and between them: that the *)
(* supervisor knows its hosts, for any number of spawns and any backoff.   *)
(*                                                                         *)
(* Whatever spawns fail, it reports no process that ended long ago or was  *)
(* killed: only the child of a spawn is reported, and a killed one is      *)
(* forgotten at once (KilledWereBorn).  That it runs nothing beside it     *)
(* until somebody asks for a restart is stronger than what is promised: a  *)
(* host that was told to stop counts as well until its exit is handled,    *)
(* and so does an armed timer (OneInvolved).                               *)
(*                                                                         *)
(* And of its neighbours in the host: the sub-agent runtime, whose record  *)
(* tells what became of the latest run, because an id that was not given   *)
(* away while it ran has one run that goes on, its last (RecordIsOfLast);  *)
(* and the room of a group, where a member that wrote had been told what   *)
(* the others wrote before it (HeardBefore).                               *)
(*                                                                         *)
(* And of the links of a host.  No host appends a prompt twice: the        *)
(* one retry is sent only when the first request cannot have reached a     *)
(* host that does not deduplicate; for every such host, a prompt is under  *)
(* way to it at most once, and not at all once it was taken in there       *)
(* (OnceOnTheWay), nothing was sent before the first request (Unsent), and *)
(* before the retry at most hosts that deduplicate have it                 *)
(* (SentToDeduping).  A request over the port ends once, by the plane it   *)
(* was made on: every frame carries the plane of the server that wrote it. *)
(* A subscriber of the event stream is told the events of a connection in  *)
(* order and none is left out: what it was told, what is under way and     *)
(* what a link that died has lost are what was published (Complete).       *)
(***************************************************************************)
EXTENDS HostSupervisor, Subagents, GroupRoom, GatewaySends, GatewayStream, PortSession, FilterProofs

\* How much of the type the argument needs: the value of a backoff does not matter.
HostsTyped ==
    /\ hostProcess \in Hosts \cup {NoHost}
    /\ restartTimer \in Hosts \cup {NoHost}
    /\ DOMAIN delay = Hosts /\ delay = [h \in Hosts |-> delay[h]]
    /\ proc \in [Hosts -> Places]
    /\ killed \subseteq Hosts
    /\ down \in BOOLEAN
    /\ restarted \in BOOLEAN

\* Nobody is killed before hostProcess has named it.
KilledWereBorn == \A h \in killed : proc[h] \in {"running", "reaped", "stillborn"} \cup Exited

\* The process executes, or is about to, or its exit has not been handled.
Alive(h) == proc[h] \in {"spawning", "running"} \cup Exited

Armed(h) == delay[h] # 0

\* Until the first restartHost() a host is alive or a timer is armed, never two of them;
\* the handle is the armed timer's, and a host that runs is the one reported.
OneInvolved ==
    ~restarted =>
        /\ \A g, h \in Hosts : (Alive(g) \/ Armed(g)) /\ (Alive(h) \/ Armed(h)) => g = h
        /\ \A h \in Hosts : Armed(h) => proc[h] = "reaped" /\ restartTimer = h
        /\ \A h \in Hosts : proc[h] = "running" /\ ~down => hostProcess = h

HostInv == HostsTyped /\ ReportedHostIsAlive /\ KilledWereBorn /\ OneInvolved

-----------------------------------------------------------------------------

\* NoHost is not a host.
LEMMA NoHostIsNone == NoHost \notin Hosts
  BY SpawnsAssumption DEF NoHost, Hosts

\* startHost() turns one unborn process into one that is on its way.
LEMMA BeginSpawnStarts ==
    ASSUME HostsTyped, NEW h \in Hosts, BeginSpawn(h)
    PROVE  /\ proc[h] = "unborn" /\ proc'[h] = "spawning"
           /\ \A g \in Hosts : g # h => proc'[g] = proc[g]
           /\ proc' \in [Hosts -> Places]
  BY DEF HostsTyped, BeginSpawn, Places

LEMMA HostsInit == Init => HostInv
  <1> SUFFICES ASSUME Init PROVE HostInv
    OBVIOUS
  <1> USE NoHostIsNone DEF Init
  <1>1. HostsTyped
    BY DEF HostsTyped, Places
  <1>2. ReportedHostIsAlive /\ KilledWereBorn
    BY DEF ReportedHostIsAlive, KilledWereBorn
  <1>3. OneInvolved
    BY DEF OneInvolved, Alive, Armed, Exited
  <1>4. QED
    BY <1>1, <1>2, <1>3 DEF HostInv

\* The first host, and a spawn that ends.
LEMMA SpawnsKeepHostInv ==
    ASSUME HostInv, NEW h \in Hosts, StartHost(h) \/ SpawnEnds(h)
    PROVE  HostInv'
  <1> USE NoHostIsNone DEF HostInv
  <1>1. CASE StartHost(h)
    <2>1. /\ proc'[h] = "spawning"
          /\ \A g \in Hosts : proc[g] \in {"unborn", "refused"} /\ (g # h => proc'[g] = proc[g])
          /\ UNCHANGED <<hostProcess, restartAttempts, restartTimer, delay, killed, down, restarted>>
      BY <1>1, BeginSpawnStarts DEF StartHost
    <2>2. HostsTyped'
      BY <1>1, <2>1, BeginSpawnStarts DEF StartHost, HostsTyped
    <2>3. hostProcess = NoHost /\ killed = {}
      BY <2>1 DEF ReportedHostIsAlive, KilledWereBorn, HostsTyped, Exited
    <2>4. ReportedHostIsAlive' /\ KilledWereBorn'
      BY <2>1, <2>3 DEF ReportedHostIsAlive, KilledWereBorn
    <2>5. OneInvolved'
      BY <2>1 DEF OneInvolved, Alive, Armed, Exited
    <2>6. QED
      BY <2>2, <2>4, <2>5
  <1>2. CASE SpawnCompletes(h) \/ ForkFails(h)
    <2>1. PICK how \in {"running", "stillborn"} : proc' = [proc EXCEPT ![h] = how]
      BY <1>2 DEF SpawnCompletes, ForkFails
    <2>2. /\ proc[h] = "spawning" /\ proc'[h] = how /\ \A g \in Hosts : g # h => proc'[g] = proc[g]
          /\ hostProcess' = h /\ UNCHANGED <<restartTimer, delay, killed, down, restarted>>
      BY <1>2, <2>1 DEF SpawnCompletes, ForkFails, HostsTyped
    <2>3. HostsTyped'
      BY <2>1, <2>2 DEF HostsTyped, Places, Failed
    <2>4. h \notin killed
      BY <2>2 DEF KilledWereBorn, Exited
    <2>5. ReportedHostIsAlive' /\ KilledWereBorn'
      BY <2>2, <2>4 DEF ReportedHostIsAlive, KilledWereBorn, HostsTyped
    <2>6. OneInvolved'
      BY <2>2 DEF OneInvolved, Alive, Armed, Exited
    <2>7. QED
      BY <2>3, <2>5, <2>6
  <1>3. CASE SpawnRejects(h)
    <2>1. /\ proc[h] = "spawning" /\ proc'[h] = "refused" /\ \A g \in Hosts : g # h => proc'[g] = proc[g]
          /\ UNCHANGED <<hostProcess, restartTimer, delay, killed, down, restarted>>
      BY <1>3 DEF SpawnRejects, HostsTyped
    <2>2. HostsTyped'
      BY <1>3, <2>1 DEF SpawnRejects, HostsTyped, Places, Failed
    <2>3. h \notin killed /\ h # hostProcess
      BY <2>1 DEF KilledWereBorn, ReportedHostIsAlive, Exited
    <2>4. ReportedHostIsAlive' /\ KilledWereBorn'
      BY <2>1, <2>3 DEF ReportedHostIsAlive, KilledWereBorn, HostsTyped
    <2>5. OneInvolved'
      BY <2>1 DEF OneInvolved, Alive, Armed, Exited
    <2>6. QED
      BY <2>2, <2>4, <2>5
  <1>4. QED
    BY <1>1, <1>2, <1>3 DEF SpawnEnds

\* A process ends, and its exit is handled.
LEMMA ExitsKeepHostInv ==
    ASSUME HostInv, NEW h \in Hosts, (\E how \in Exited : HostExits(h, how)) \/ HandleHostExit(h)
    PROVE  HostInv'
  <1> USE NoHostIsNone DEF HostInv
  <1>1. ASSUME NEW how \in Exited, HostExits(h, how) PROVE HostInv'
    <2>1. /\ proc[h] = "running" /\ proc'[h] = how /\ \A g \in Hosts : g # h => proc'[g] = proc[g]
          /\ UNCHANGED <<hostProcess, restartTimer, delay, killed, down, restarted>>
      BY <1>1 DEF HostExits, HostsTyped
    <2>2. HostsTyped'
      BY <1>1, <2>1 DEF HostExits, HostsTyped, Places
    <2>3. ReportedHostIsAlive' /\ KilledWereBorn'
      BY <1>1, <2>1 DEF ReportedHostIsAlive, KilledWereBorn, HostsTyped
    <2>4. OneInvolved'
      BY <1>1, <2>1 DEF OneInvolved, Alive, Armed, Exited
    <2>5. QED
      BY <2>2, <2>3, <2>4
  <1>2. CASE HandleHostExit(h)
    <2>1. /\ proc[h] \in Exited /\ proc'[h] = "reaped" /\ \A g \in Hosts : g # h => proc'[g] = proc[g]
          /\ hostProcess' = NoHost /\ UNCHANGED <<killed, down, restarted>>
      BY <1>2 DEF HandleHostExit, ScheduleRestart, HostsTyped
    <2>2. /\ \A g \in Hosts : g # h => delay'[g] = delay[g]
          /\ (delay' = delay /\ restartTimer' = restartTimer) \/ restartTimer' = h
          /\ DOMAIN delay' = Hosts /\ delay' = [g \in Hosts |-> delay'[g]]
      <3>1. CASE proc[h] = "crashed"
        <4>1. PICK d : delay' = [delay EXCEPT ![h] = d] /\ restartTimer' = h
          BY <1>2, <3>1 DEF HandleHostExit, ScheduleRestart
        <4>2. QED
          BY <4>1 DEF HostsTyped
      <3>2. CASE proc[h] # "crashed"
        <4>1. delay' = delay /\ restartTimer' = restartTimer
          BY <1>2, <3>2 DEF HandleHostExit, ScheduleRestart
        <4>2. QED
          BY <4>1 DEF HostsTyped
      <3>3. QED
        BY <3>1, <3>2
    <2>3. HostsTyped'
      BY <1>2, <2>1, <2>2 DEF HandleHostExit, HostsTyped, Places
    <2>4. ReportedHostIsAlive' /\ KilledWereBorn'
      BY <2>1 DEF ReportedHostIsAlive, KilledWereBorn, HostsTyped
    <2>5. OneInvolved'
      <3> SUFFICES ASSUME ~restarted PROVE OneInvolved'
        BY <2>1 DEF OneInvolved
      <3>1. \A g \in Hosts : g # h => ~Alive(g) /\ ~Armed(g)
        BY <2>1 DEF OneInvolved, Alive
      <3>2. ~Armed(h)
        BY <2>1 DEF OneInvolved, Exited
      <3>3. \A g \in Hosts : g # h => proc'[g] \notin {"spawning", "running"} \cup Exited /\ delay'[g] = 0
        BY <2>1, <2>2, <3>1 DEF Alive, Armed
      <3>4. delay'[h] # 0 => restartTimer' = h
        BY <2>2, <3>2 DEF Armed
      <3>5. QED
        BY <2>1, <3>3, <3>4 DEF OneInvolved, Alive, Armed, Exited
    <2>6. QED
      BY <2>3, <2>4, <2>5
  <1>3. QED
    BY <1>1, <1>2

\* The timer fires.
LEMMA TimerKeepsHostInv ==
    ASSUME HostInv, NEW h \in Hosts, TimerFires(h)
    PROVE  HostInv'
  <1> USE NoHostIsNone DEF HostInv
  <1>1. /\ delay[h] # 0 /\ delay'[h] = 0 /\ \A g \in Hosts : g # h => delay'[g] = delay[g]
        /\ DOMAIN delay' = Hosts /\ delay' = [g \in Hosts |-> delay'[g]]
        /\ restartTimer' = NoHost /\ UNCHANGED <<hostProcess, killed, down, restarted>>
    BY DEF TimerFires, HostsTyped
  <1>2. ASSUME ~restarted
        PROVE  \A g \in Hosts : ~Alive(g) /\ delay'[g] = 0
    BY <1>1, <1>2 DEF OneInvolved, Alive, Armed, Exited
  <1>3. CASE proc' = proc
    <2>1. HostsTyped' /\ ReportedHostIsAlive' /\ KilledWereBorn'
      BY <1>1, <1>3 DEF HostsTyped, ReportedHostIsAlive, KilledWereBorn
    <2>2. OneInvolved'
      BY <1>1, <1>2, <1>3 DEF OneInvolved, Alive, Armed
    <2>3. QED
      BY <2>1, <2>2
  <1>4. ASSUME NEW g \in Hosts, BeginSpawn(g) PROVE HostInv'
    <2>1. /\ proc[g] = "unborn" /\ proc'[g] = "spawning" /\ \A f \in Hosts : f # g => proc'[f] = proc[f]
          /\ proc' \in [Hosts -> Places]
      BY <1>4, BeginSpawnStarts
    <2>2. HostsTyped'
      BY <1>1, <2>1 DEF HostsTyped
    <2>3. ReportedHostIsAlive' /\ KilledWereBorn'
      BY <1>1, <2>1 DEF ReportedHostIsAlive, KilledWereBorn, HostsTyped, Exited
    <2>4. OneInvolved'
      BY <1>1, <1>2, <2>1 DEF OneInvolved, Alive, Armed, Exited
    <2>5. QED
      BY <2>2, <2>3, <2>4
  <1>5. QED
    BY <1>3, <1>4 DEF TimerFires

\* restartHost() and shutdown() kill what is reported and forget it.
LEMMA RequestsKeepHostInv ==
    ASSUME HostInv, (\E h \in Hosts : RestartHost(h)) \/ Shutdown
    PROVE  HostInv'
  <1> USE NoHostIsNone DEF HostInv
  <1>1. /\ hostProcess' = NoHost
        /\ killed' = IF hostProcess = NoHost THEN killed ELSE killed \cup {hostProcess}
        /\ delay' = [h \in Hosts |-> IF h = restartTimer THEN 0 ELSE delay[h]]
    BY DEF RestartHost, Shutdown, KillHost, ClearTimer
  <1>2. /\ killed' \subseteq Hosts
        /\ \A h \in killed' : proc[h] \in {"running", "reaped", "stillborn"} \cup Exited
    BY <1>1 DEF HostsTyped, ReportedHostIsAlive, KilledWereBorn
  <1>3. DOMAIN delay' = Hosts /\ delay' = [h \in Hosts |-> delay'[h]]
        /\ \A h \in Hosts : delay'[h] = IF h = restartTimer THEN 0 ELSE delay[h]
    BY <1>1
  <1>4. ReportedHostIsAlive'
    BY <1>1 DEF ReportedHostIsAlive
  <1>5. ASSUME NEW h \in Hosts, RestartHost(h) PROVE HostInv'
    <2>1. /\ proc[h] = "unborn" /\ \A g \in Hosts : g # h => proc'[g] = proc[g]
          /\ proc' \in [Hosts -> Places]
          /\ restartTimer' = NoHost /\ restarted' = TRUE /\ down' = down
      BY <1>5, BeginSpawnStarts DEF RestartHost
    <2>2. HostsTyped'
      BY <1>1, <1>2, <1>3, <2>1 DEF HostsTyped
    <2>3. KilledWereBorn'
      BY <1>2, <2>1 DEF KilledWereBorn, Exited
    <2>4. OneInvolved'
      BY <2>1 DEF OneInvolved
    <2>5. QED
      BY <1>4, <2>2, <2>3, <2>4
  <1>6. CASE Shutdown
    <2>1. down' = TRUE /\ UNCHANGED <<restartTimer, proc, restarted>>
      BY <1>6 DEF Shutdown
    <2>2. HostsTyped' /\ KilledWereBorn'
      BY <1>1, <1>2, <1>3, <2>1 DEF HostsTyped, KilledWereBorn
    <2>3. \A h \in Hosts : delay'[h] # 0 => delay[h] # 0
      BY <1>3
    <2>4. OneInvolved'
      BY <2>1, <2>3 DEF OneInvolved, Alive, Armed
    <2>5. QED
      BY <1>4, <2>2, <2>4
  <1>7. QED
    BY <1>5, <1>6

\* The invariant behind what the supervisor knows.
THEOREM HostInvariant == Spec => []HostInv
  <1>1. HostInv /\ [Next]_vars => HostInv'
    <2> SUFFICES ASSUME HostInv, [Next]_vars PROVE HostInv'
      OBVIOUS
    <2>1. CASE UNCHANGED vars
      BY <2>1 DEF vars, HostInv, HostsTyped, ReportedHostIsAlive, KilledWereBorn, OneInvolved, Alive, Armed
    <2>2. QED
      BY <2>1, SpawnsKeepHostInv, ExitsKeepHostInv, TimerKeepsHostInv, RequestsKeepHostInv DEF Next, HostStep
  <1>2. QED
    BY HostsInit, <1>1, PTL DEF Spec

\* Members of a set that are all the same make it a singleton at most.
LEMMA AtMostOne ==
    ASSUME NEW S, \A g, h \in S : g = h
    PROVE  Cardinality(S) = 0 \/ Cardinality(S) = 1
  <1>1. CASE S = {}
    <2>1. Cardinality({}) = 0
      BY FS_EmptySet
    <2>2. QED
      BY <1>1, <2>1
  <1>2. CASE S # {}
    <2>1. PICK h \in S : S = {h}
      BY <1>2
    <2>2. Cardinality({h}) = 1
      BY FS_Singleton
    <2>3. QED
      BY <2>1, <2>2
  <1>3. QED
    BY <1>1, <1>2

\* What the supervisor reports was not reaped and not killed, and until the first request
\* nothing runs beside it, whatever spawns fail.
THEOREM KnownHosts == Spec => []HostsAreKnown
  <1>1. HostInv => HostsAreKnown
    <2> SUFFICES ASSUME HostInv, ~restarted
                 PROVE  /\ Cardinality(Serving) + Cardinality({h \in Hosts : delay[h] # 0}) <= 1
                        /\ \A h \in Hosts : proc[h] = "running" /\ ~down => hostProcess = h \/ h \in killed
      BY DEF HostInv, HostsAreKnown, OneHostWithoutRequests
    <2> DEFINE Timers == {h \in Hosts : delay[h] # 0}
    <2>1. /\ \A h \in Serving : h \in Hosts /\ Alive(h)
          /\ \A h \in Timers : h \in Hosts /\ Armed(h) /\ ~Alive(h)
      BY DEF HostInv, OneInvolved, Serving, Alive, Armed, Exited
    <2>2. (\A g, h \in Serving : g = h) /\ (\A g, h \in Timers : g = h)
          /\ \A g \in Serving, h \in Timers : FALSE
      <3> HIDE DEF Timers
      <3>1. \A g, h \in Hosts : (Alive(g) \/ Armed(g)) /\ (Alive(h) \/ Armed(h)) => g = h
        BY DEF HostInv, OneInvolved
      <3>2. QED
        BY <2>1, <3>1
    <2> HIDE DEF Timers
    <2>3. Cardinality(Serving) + Cardinality(Timers) <= 1
      <3>1. CASE Serving = {}
        <4>1. Cardinality(Serving) = 0 /\ (Cardinality(Timers) = 0 \/ Cardinality(Timers) = 1)
          BY <2>2, <3>1, AtMostOne, FS_EmptySet
        <4>2. QED
          BY <4>1
      <3>2. CASE Timers = {}
        <4>1. Cardinality(Timers) = 0 /\ (Cardinality(Serving) = 0 \/ Cardinality(Serving) = 1)
          BY <2>2, <3>2, AtMostOne, FS_EmptySet
        <4>2. QED
          BY <4>1
      <3>3. QED
        BY <2>2, <3>1, <3>2
    <2>4. QED
      BY <2>3 DEF Timers, HostInv, OneInvolved
  <1>2. QED
    BY <1>1, HostInvariant, PTL

\* Until the first request a shutdown() leaves no timer armed: the handle it clears is
\* that of the only one.
THEOREM ShutdownClears == Spec => NoTimerSurvivesShutdown
  <1>1. HostInv /\ [Next]_vars => [~down /\ down' /\ ~restarted => \A h \in Hosts : delay'[h] = 0]_vars
    <2> SUFFICES ASSUME HostInv, Next, ~down, down', ~restarted PROVE \A h \in Hosts : delay'[h] = 0
      OBVIOUS
    <2>1. Shutdown
      BY DEF Next, HostStep, StartHost, SpawnEnds, SpawnCompletes, SpawnRejects, ForkFails, HostExits, HandleHostExit, ScheduleRestart, TimerFires, RestartHost
    <2>2. \A h \in Hosts : delay[h] # 0 => restartTimer = h
      BY DEF HostInv, OneInvolved, Armed
    <2>3. QED
      BY <2>1, <2>2 DEF Shutdown, ClearTimer
  <1>2. QED
    BY <1>1, HostInvariant, PTL DEF Spec, NoTimerSurvivesShutdown

-----------------------------------------------------------------------------
(* subagent-runtime.ts                                                       *)

SubSpec == SubInit /\ [][SubNext]_subVars

SubStates ==
    [status : {"none", "running", "completed", "failed", "aborted"}, active : Nat, handle : Nat, queued : BOOLEAN]

RunStates ==
    [id : Subs, at : {"starting", "live", "ended", "over"}, aborted : BOOLEAN,
     result : {"none", "completed", "failed"}, steers : Nat]

SubTyped ==
    /\ subs \in [Subs -> SubStates]
    /\ subRuns \in Seq(RunStates)
    /\ reused \subseteq Subs
    /\ \A r \in DOMAIN subRuns : subRuns[r].at = "over" => subRuns[r].result # "none"
    /\ \A i \in Subs : subs[i].handle # NoRun => subs[i].handle \in DOMAIN subRuns /\ subRuns[subs[i].handle].id = i

IsLast(i, r) == r \in DOMAIN subRuns /\ subRuns[r].id = i /\ \A q \in DOMAIN subRuns : subRuns[q].id = i => q <= r

\* The id was never dispatched, or its last run alone goes on and its record is that
\* run's: running as long as the run is neither over nor aborted.
RecordIsOfLast(i) ==
    \/ /\ subs[i].status = "none" /\ subs[i].active = NoRun /\ subs[i].handle = NoRun
       /\ \A q \in DOMAIN subRuns : subRuns[q].id # i
    \/ \E r \in DOMAIN subRuns :
          /\ IsLast(i, r)
          /\ \A q \in DOMAIN subRuns : subRuns[q].id = i /\ q # r => subRuns[q].at = "over"
          /\ subs[i].status = Outcome(r)
          /\ subs[i].status = "running" => subs[i].active = r /\ subs[i].handle \in {NoRun, r}
          /\ subs[i].status # "running" => subs[i].active = NoRun /\ subs[i].handle = NoRun
          /\ subRuns[r].at = "starting" => ~subRuns[r].aborted

SubInv == SubTyped /\ \A i \in Subs \ reused : RecordIsOfLast(i)

\* Nothing is dispatched.
LEMMA SubStart == SubInit => SubInv
  <1> SUFFICES ASSUME SubInit PROVE SubInv
    OBVIOUS
  <1>1. NewSub \in SubStates /\ NewSub.status = "none" /\ NewSub.active = NoRun /\ NewSub.handle = NoRun
    BY DEF NewSub, SubStates, NoRun
  <1>2. SubTyped
    BY <1>1 DEF SubInit, SubTyped
  <1>3. \A i \in Subs : RecordIsOfLast(i)
    BY <1>1 DEF SubInit, RecordIsOfLast
  <1>4. QED
    BY <1>2, <1>3 DEF SubInv

\* A run is dispatched.
LEMMA DispatchKeepsSubs ==
    ASSUME SubInv, NEW i \in Subs, DispatchSub(i)
    PROVE  SubInv'
  <1> USE DEF SubInv
  <1>a. PICK e : e = [id |-> i, at |-> "starting", aborted |-> FALSE, result |-> "none", steers |-> 0]
    OBVIOUS
  <1>b. e \in [id : Subs, at : {"starting", "live", "ended", "over"}, aborted : BOOLEAN,
                result : {"none", "completed", "failed"}, steers : Nat]
    BY <1>a
  <1>1. e \in RunStates /\ e.id = i /\ e.at = "starting" /\ e.aborted = FALSE
    BY <1>a, <1>b DEF RunStates
  <1>2. /\ subRuns' \in Seq(RunStates) /\ Len(subRuns) \in Nat /\ DOMAIN subRuns = 1 .. Len(subRuns)
        /\ DOMAIN subRuns' = 1 .. Len(subRuns) + 1 /\ subRuns'[Len(subRuns) + 1] = e
        /\ \A q \in 1 .. Len(subRuns) : subRuns'[q] = subRuns[q]
    <2>1. subRuns' = Append(subRuns, [id |-> i, at |-> "starting", aborted |-> FALSE, result |-> "none", steers |-> 0])
      BY DEF DispatchSub
    <2>2. subRuns' = Append(subRuns, e)
      BY <1>a, <2>1
    <2>3. subRuns \in Seq(RunStates)
      BY DEF SubTyped
    <2>4. QED
      BY <1>1, <2>2, <2>3, AppendProperties
  <1>3. PICK n \in Nat : n = Len(subRuns) + 1
    BY <1>2
  <1>d. \A q \in DOMAIN subRuns' : q \in DOMAIN subRuns \/ q = n
    BY <1>2, <1>3
  <1>n. n \in DOMAIN subRuns' /\ n \notin DOMAIN subRuns /\ DOMAIN subRuns \subseteq DOMAIN subRuns' /\ n # NoRun
        /\ \A q \in DOMAIN subRuns : q \in Nat /\ q < n
    BY <1>2, <1>3 DEF NoRun
  <1>4. /\ subs' \in [Subs -> SubStates] /\ \A j \in Subs \ {i} : subs'[j] = subs[j]
        /\ subs'[i].status = "running" /\ subs'[i].active = n /\ subs'[i].handle = subs[i].handle
    <2>1. subs' = [subs EXCEPT ![i].status = "running", ![i].active = n]
      BY <1>3 DEF DispatchSub
    <2>2. subs \in [Subs -> SubStates]
      BY DEF SubTyped
    <2>3. PICK t : t = [subs[i] EXCEPT !.status = "running", !.active = n]
      OBVIOUS
    <2>4. subs[i] \in SubStates
      BY <2>2
    <2>5. t \in SubStates /\ t.status = "running" /\ t.active = n /\ t.handle = subs[i].handle
      BY <2>3, <2>4 DEF SubStates
    <2>6. subs' = [subs EXCEPT ![i] = t]
      BY <2>1, <2>3
    <2>7. QED
      BY <2>2, <2>5, <2>6
  <1>5. /\ reused' \subseteq Subs /\ reused \subseteq reused'
        /\ \A j \in Subs : j \notin reused' => j \notin reused
        /\ i \notin reused' => \A q \in DOMAIN subRuns : subRuns[q].id = i => subRuns[q].at = "over"
    BY DEF DispatchSub, SubTyped
  <1>6. SubTyped'
    <2>1. \A r \in DOMAIN subRuns' : subRuns'[r].at = "over" => subRuns'[r].result # "none"
      BY <1>1, <1>2, <1>3, <1>d DEF SubTyped
    <2>2. \A j \in Subs : subs'[j].handle = subs[j].handle
      BY <1>4
    <2>3. \A j \in Subs : subs'[j].handle # NoRun => subs'[j].handle \in DOMAIN subRuns' /\ subRuns'[subs'[j].handle].id = j
      BY <1>2, <1>n, <2>2 DEF SubTyped
    <2>4. QED
      BY <1>2, <1>4, <1>5, <2>1, <2>3 DEF SubTyped
  <1>7. ASSUME i \notin reused' PROVE RecordIsOfLast(i)'
    <2>1. subs[i].active = NoRun /\ RecordIsOfLast(i)
      BY <1>5, <1>7 DEF DispatchSub
    <2>2. subs[i].handle = NoRun
      BY <2>1, <1>n DEF RecordIsOfLast, IsLast
    <2>3. /\ n \in DOMAIN subRuns' /\ subRuns'[n].id = i /\ subRuns'[n].at = "starting" /\ ~subRuns'[n].aborted
          /\ \A q \in DOMAIN subRuns' : q <= n
      BY <1>1, <1>2, <1>3, <1>d, <1>n
    <2>4. \A q \in DOMAIN subRuns' : subRuns'[q].id = i /\ q # n => subRuns'[q].at = "over"
      BY <1>2, <1>5, <1>7, <1>d
    <2>5. IsLast(i, n)'
      BY <2>3 DEF IsLast
    <2>6. Outcome(n)' = "running"
      BY <2>3 DEF Outcome
    <2>7. QED
      BY <1>4, <2>2, <2>3, <2>4, <2>5, <2>6 DEF RecordIsOfLast
  <1>8. ASSUME NEW j \in Subs \ {i}, j \notin reused' PROVE RecordIsOfLast(j)'
    <2>1. RecordIsOfLast(j) /\ subs'[j] = subs[j]
      BY <1>4, <1>5, <1>8
    <2>2. \A q \in DOMAIN subRuns' : subRuns'[q].id = j => q \in DOMAIN subRuns /\ subRuns'[q] = subRuns[q]
      BY <1>1, <1>2, <1>3, <1>8, <1>d
    <2>3. \A q \in DOMAIN subRuns : q \in DOMAIN subRuns' /\ subRuns'[q] = subRuns[q]
      BY <1>2, <1>n
    <2>4. QED
      BY <2>1, <2>2, <2>3 DEF RecordIsOfLast, IsLast, Outcome
  <1>9. QED
    BY <1>6, <1>7, <1>8

\* A step that replaces run r and the record of its id, and keeps that record
\* telling what becomes of the id's last run.
LEMMA OneSubKept ==
    ASSUME SubInv, NEW r \in DOMAIN subRuns, NEW e \in RunStates, NEW s \in SubStates, NEW i \in Subs,
           subRuns[r].id = i, e.id = i, e.at = "over" => e.result # "none",
           subRuns' = [subRuns EXCEPT ![r] = e], subs' = [subs EXCEPT ![i] = s], reused' = reused,
           s.handle # NoRun => s.handle \in DOMAIN subRuns /\ subRuns[s.handle].id = i,
           i \notin reused => RecordIsOfLast(i)'
    PROVE  SubInv'
  <1> USE DEF SubInv
  <1>1. /\ subRuns' \in Seq(RunStates) /\ DOMAIN subRuns' = DOMAIN subRuns /\ subRuns'[r] = e
        /\ \A q \in DOMAIN subRuns \ {r} : subRuns'[q] = subRuns[q]
    BY DEF SubTyped
  <1>2. /\ subs' \in [Subs -> SubStates] /\ subs'[i] = s
        /\ \A j \in Subs \ {i} : subs'[j] = subs[j]
    BY DEF SubTyped
  <1>3. \A q \in DOMAIN subRuns : subRuns'[q].id = subRuns[q].id
    BY <1>1
  <1>4. \A q \in DOMAIN subRuns' : subRuns'[q].at = "over" => subRuns'[q].result # "none"
    BY <1>1 DEF SubTyped
  <1>5. \A j \in Subs : subs'[j].handle # NoRun => subs'[j].handle \in DOMAIN subRuns' /\ subRuns'[subs'[j].handle].id = j
    BY <1>1, <1>2, <1>3 DEF SubTyped
  <1>6. SubTyped'
    BY <1>1, <1>2, <1>4, <1>5 DEF SubTyped
  <1>7. ASSUME NEW j \in Subs \ {i}, j \notin reused PROVE RecordIsOfLast(j)'
    <2>1. RecordIsOfLast(j) /\ subs'[j] = subs[j]
      BY <1>2, <1>7
    <2>2. \A q \in DOMAIN subRuns : subRuns[q].id = j => subRuns'[q] = subRuns[q]
      BY <1>1
    <2>3. QED
      BY <1>1, <1>3, <2>1, <2>2 DEF RecordIsOfLast, IsLast, Outcome
  <1>8. QED
    BY <1>6, <1>7

\* The record of an id settles with its run, or was settled before.
LEMMA SettledIsSub ==
    ASSUME NEW s \in SubStates, NEW status \in {"completed", "failed", "aborted"}
    PROVE  /\ SettledSub(s, status) \in SubStates
           /\ s.status # "running" => SettledSub(s, status) = s
           /\ s.status = "running" => /\ SettledSub(s, status).status = status
                                      /\ SettledSub(s, status).active = NoRun
                                      /\ SettledSub(s, status).handle = NoRun
           /\ SettledSub(s, status).handle # NoRun => SettledSub(s, status).handle = s.handle
  BY DEF SettledSub, SubStates, NoRun

\* What the invariant says of one run.
LEMMA SubFacts ==
    ASSUME SubInv, NEW r \in DOMAIN subRuns
    PROVE  /\ subs \in [Subs -> SubStates] /\ subRuns \in Seq(RunStates)
           /\ r \in Nat /\ r # NoRun /\ subRuns[r] \in RunStates
           /\ subRuns[r].id \in Subs
           /\ \A j \in Subs : subs[j].handle # NoRun => subs[j].handle \in DOMAIN subRuns /\ subRuns[subs[j].handle].id = j
  <1>1. SubTyped
    BY DEF SubInv
  <1>2. subs \in [Subs -> SubStates] /\ subRuns \in Seq(RunStates)
    BY <1>1 DEF SubTyped
  <1>3. DOMAIN subRuns = 1 .. Len(subRuns) /\ Len(subRuns) \in Nat
    BY <1>2
  <1>4. r \in Nat /\ r # NoRun /\ subRuns[r] \in RunStates
    BY <1>2, <1>3 DEF NoRun
  <1>5. subRuns[r].id \in Subs
    BY <1>4 DEF RunStates
  <1>6. QED
    BY <1>1, <1>2, <1>4, <1>5 DEF SubTyped

\* A run goes live and its id takes the handle.
LEMMA GoesLiveKeepsSubs ==
    ASSUME SubInv, NEW r \in DOMAIN subRuns, RunGoesLive(r)
    PROVE  SubInv'
  <1>f. /\ subs \in [Subs -> SubStates] /\ subRuns \in Seq(RunStates)
        /\ r \in Nat /\ r # NoRun /\ subRuns[r] \in RunStates /\ subRuns[r].id \in Subs
        /\ \A j \in Subs : subs[j].handle # NoRun => subs[j].handle \in DOMAIN subRuns /\ subRuns[subs[j].handle].id = j
    BY SubFacts
  <1>0. PICK i \in Subs : subRuns[r].id = i
    BY <1>f
  <1>1. /\ subs \in [Subs -> SubStates] /\ subRuns \in Seq(RunStates) /\ r \in DOMAIN subRuns /\ r \in Nat /\ r # NoRun
        /\ subRuns[r] \in RunStates /\ i \in Subs /\ subs[i] \in SubStates /\ subRuns[r].at = "starting"
    BY <1>0, <1>f DEF RunGoesLive
  <1>2. PICK k : k = IF subs[i].queued THEN subRuns[r].steers + 1 ELSE subRuns[r].steers
    OBVIOUS
  <1>3. k \in Nat
    BY <1>0, <1>1, <1>2 DEF RunStates
  <1>4. PICK e : e = [subRuns[r] EXCEPT !.at = "live", !.steers = k]
    OBVIOUS
  <1>5. e \in RunStates /\ e.id = i /\ e.at = "live" /\ e.aborted = subRuns[r].aborted
    BY <1>0, <1>1, <1>3, <1>4 DEF RunStates
  <1>6. PICK s : s = [subs[i] EXCEPT !.handle = r, !.queued = FALSE]
    OBVIOUS
  <1>7. s \in SubStates /\ s.handle = r /\ s.status = subs[i].status /\ s.active = subs[i].active
    BY <1>1, <1>6 DEF SubStates
  <1>8. subRuns' = [subRuns EXCEPT ![r] = e] /\ subs' = [subs EXCEPT ![i] = s] /\ reused' = reused
    <2>1. subRuns' = [subRuns EXCEPT ![r].at = "live", ![r].steers = k] /\ reused' = reused
      BY <1>0, <1>2 DEF RunGoesLive
    <2>2. subs' = [subs EXCEPT ![i].handle = r, ![i].queued = FALSE]
      BY <1>0 DEF RunGoesLive
    <2>3. QED
      BY <1>4, <1>6, <2>1, <2>2
  <1>9. ASSUME i \notin reused PROVE RecordIsOfLast(i)'
    <2>1. RecordIsOfLast(i)
      BY <1>1, <1>9 DEF SubInv
    <2>2. /\ IsLast(i, r) /\ ~subRuns[r].aborted /\ subs[i].status = Outcome(r)
          /\ \A q \in DOMAIN subRuns : subRuns[q].id = i /\ q # r => subRuns[q].at = "over"
          /\ subs[i].status = "running" => subs[i].active = r
      BY <1>0, <1>1, <2>1 DEF RecordIsOfLast, IsLast
    <2>3. subs[i].status = "running"
      BY <1>1, <2>2 DEF Outcome
    <2>4. DOMAIN subRuns' = DOMAIN subRuns /\ subRuns'[r] = e /\ (\A q \in DOMAIN subRuns : q # r => subRuns'[q] = subRuns[q])
          /\ subs'[i] = s
      BY <1>1, <1>5, <1>8
    <2>5. IsLast(i, r)'
      BY <1>1, <1>5, <2>2, <2>4 DEF IsLast
    <2>6. Outcome(r)' = "running"
      BY <1>5, <2>2, <2>4 DEF Outcome
    <2>7. \A q \in DOMAIN subRuns' : subRuns'[q].id = i /\ q # r => subRuns'[q].at = "over"
      BY <2>2, <2>4
    <2>8. QED
      BY <1>1, <1>5, <1>7, <2>2, <2>3, <2>4, <2>5, <2>6, <2>7 DEF RecordIsOfLast
  <1>10. QED
    BY <1>0, <1>1, <1>5, <1>7, <1>8, <1>9, OneSubKept

\* A run ends, its record does not move.
LEMMA EndKeepsSubs ==
    ASSUME SubInv, NEW r \in DOMAIN subRuns, RunIsOver(r)
    PROVE  SubInv'
  <1>f. /\ subs \in [Subs -> SubStates] /\ subRuns \in Seq(RunStates)
        /\ r \in Nat /\ r # NoRun /\ subRuns[r] \in RunStates /\ subRuns[r].id \in Subs
        /\ \A j \in Subs : subs[j].handle # NoRun => subs[j].handle \in DOMAIN subRuns /\ subRuns[subs[j].handle].id = j
    BY SubFacts
  <1>0. PICK i \in Subs : subRuns[r].id = i
    BY <1>f
  <1>1. /\ subs \in [Subs -> SubStates] /\ subRuns \in Seq(RunStates) /\ r \in DOMAIN subRuns
        /\ subRuns[r] \in RunStates /\ i \in Subs /\ subs[i] \in SubStates /\ subRuns[r].at = "live"
        /\ subs[i].handle # NoRun => subs[i].handle \in DOMAIN subRuns /\ subRuns[subs[i].handle].id = i
    BY <1>0, <1>f DEF RunIsOver
  <1>2. PICK e : e = [subRuns[r] EXCEPT !.at = "ended"]
    OBVIOUS
  <1>3. e \in RunStates /\ e.id = i /\ e.at = "ended" /\ e.aborted = subRuns[r].aborted
    BY <1>0, <1>1, <1>2 DEF RunStates
  <1>4. subRuns' = [subRuns EXCEPT ![r] = e] /\ subs' = [subs EXCEPT ![i] = subs[i]] /\ reused' = reused
    <2>1. subs' = subs /\ subRuns' = [subRuns EXCEPT ![r].at = "ended"] /\ reused' = reused
      BY DEF RunIsOver
    <2>2. subs = [subs EXCEPT ![i] = subs[i]]
      BY <1>1
    <2>3. QED
      BY <1>2, <2>1, <2>2
  <1>5. ASSUME i \notin reused PROVE RecordIsOfLast(i)'
    <2>1. RecordIsOfLast(i)
      BY <1>1, <1>5 DEF SubInv
    <2>2. DOMAIN subRuns' = DOMAIN subRuns /\ subRuns'[r] = e /\ (\A q \in DOMAIN subRuns : q # r => subRuns'[q] = subRuns[q])
          /\ subs'[i] = subs[i]
      BY <1>1, <1>3, <1>4
    <2>3. \A q \in DOMAIN subRuns : Outcome(q)' = Outcome(q) /\ subRuns'[q].id = subRuns[q].id
                                    /\ (subRuns[q].at = "over" => subRuns'[q].at = "over")
                                    /\ (subRuns'[q].at = "starting" => subRuns'[q] = subRuns[q])
      BY <1>0, <1>1, <1>3, <2>2 DEF Outcome
    <2>4. \A q : IsLast(i, q) => IsLast(i, q)'
      BY <2>2, <2>3 DEF IsLast
    <2>5. QED
      BY <2>1, <2>2, <2>3, <2>4 DEF RecordIsOfLast
  <1>6. QED
    BY <1>0, <1>1, <1>3, <1>4, <1>5, OneSubKept

OverWith(r, result) ==
    /\ subs' = [subs EXCEPT ![subRuns[r].id] = SettledSub(@, result)]
    /\ subRuns' = [subRuns EXCEPT ![r].at = "over", ![r].result = result]
    /\ reused' = reused

\* A run is over with a result: the record takes it, unless it was settled before.
LEMMA OverKeepsSubs ==
    ASSUME SubInv, NEW r \in DOMAIN subRuns, NEW result \in {"completed", "failed"}, subRuns[r].at # "over", OverWith(r, result)
    PROVE  SubInv'
  <1>f. /\ subs \in [Subs -> SubStates] /\ subRuns \in Seq(RunStates)
        /\ r \in Nat /\ r # NoRun /\ subRuns[r] \in RunStates /\ subRuns[r].id \in Subs
        /\ \A j \in Subs : subs[j].handle # NoRun => subs[j].handle \in DOMAIN subRuns /\ subRuns[subs[j].handle].id = j
    BY SubFacts
  <1>0. PICK i \in Subs : subRuns[r].id = i
    BY <1>f
  <1>1. /\ subs \in [Subs -> SubStates] /\ subRuns \in Seq(RunStates) /\ r \in DOMAIN subRuns
        /\ subRuns[r] \in RunStates /\ i \in Subs /\ subs[i] \in SubStates
        /\ subs[i].handle # NoRun => subs[i].handle \in DOMAIN subRuns /\ subRuns[subs[i].handle].id = i
    BY <1>0, <1>f
  <1>2. PICK e : e = [subRuns[r] EXCEPT !.at = "over", !.result = result]
    OBVIOUS
  <1>3. e \in RunStates /\ e.id = i /\ e.at = "over" /\ e.result = result /\ e.result # "none" /\ e.aborted = subRuns[r].aborted
    BY <1>0, <1>1, <1>2 DEF RunStates
  <1>4. PICK s : s = SettledSub(subs[i], result)
    OBVIOUS
  <1>5. /\ s \in SubStates /\ (subs[i].status # "running" => s = subs[i])
        /\ subs[i].status = "running" => s.status = result /\ s.active = NoRun /\ s.handle = NoRun
        /\ s.handle # NoRun => s.handle = subs[i].handle
    BY <1>1, <1>4, SettledIsSub
  <1>6. subRuns' = [subRuns EXCEPT ![r] = e] /\ subs' = [subs EXCEPT ![i] = s] /\ reused' = reused
    BY <1>0, <1>2, <1>4 DEF OverWith
  <1>7. ASSUME i \notin reused PROVE RecordIsOfLast(i)'
    <2>1. RecordIsOfLast(i)
      BY <1>1, <1>7 DEF SubInv
    <2>2. /\ IsLast(i, r) /\ subs[i].status = Outcome(r)
          /\ \A q \in DOMAIN subRuns : subRuns[q].id = i /\ q # r => subRuns[q].at = "over"
          /\ subs[i].status # "running" => subs[i].active = NoRun /\ subs[i].handle = NoRun
      BY <1>0, <1>1, <2>1 DEF RecordIsOfLast, IsLast
    <2>3. DOMAIN subRuns' = DOMAIN subRuns /\ subRuns'[r] = e /\ (\A q \in DOMAIN subRuns : q # r => subRuns'[q] = subRuns[q])
          /\ subs'[i] = s
      BY <1>1, <1>3, <1>5, <1>6
    <2>4. IsLast(i, r)'
      BY <1>1, <1>3, <2>2, <2>3 DEF IsLast
    <2>5. s.status = Outcome(r)' /\ s.status # "running" /\ s.active = NoRun /\ s.handle = NoRun
      BY <1>1, <1>3, <1>5, <2>2, <2>3 DEF Outcome
    <2>6. \A q \in DOMAIN subRuns' : subRuns'[q].id = i /\ q # r => subRuns'[q].at = "over"
      BY <2>2, <2>3
    <2>7. QED
      BY <1>0, <1>1, <1>3, <2>3, <2>4, <2>5, <2>6 DEF RecordIsOfLast
  <1>8. s.handle # NoRun => s.handle \in DOMAIN subRuns /\ subRuns[s.handle].id = i
    BY <1>1, <1>5
  <1>9. subRuns[r].id = i /\ e.id = i /\ (e.at = "over" => e.result # "none") /\ (i \notin reused => RecordIsOfLast(i)')
    BY <1>0, <1>3, <1>7
  <1>10. i \in Subs /\ r \in DOMAIN subRuns /\ e \in RunStates /\ s \in SubStates
    BY <1>0, <1>1, <1>3, <1>5
  <1>11. QED
    BY <1>6, <1>8, <1>9, <1>10, OneSubKept

\* A steer reaches the live run of its id or waits for the next.
LEMMA SteerKeepsSubs ==
    ASSUME SubInv, NEW i \in Subs, SteerSub(i)
    PROVE  SubInv'
  <1>1. CASE Steerable(i)
    <2> DEFINE r == subs[i].handle
    <2>1. /\ subs \in [Subs -> SubStates] /\ subRuns \in Seq(RunStates) /\ r \in DOMAIN subRuns
          /\ subRuns[r] \in RunStates /\ subRuns[r].id = i /\ subs[i] \in SubStates
          /\ subs[i].handle # NoRun => subs[i].handle \in DOMAIN subRuns /\ subRuns[subs[i].handle].id = i
          /\ (subRuns[r].at = "over" => subRuns[r].result # "none")
      BY <1>1 DEF SubInv, SubTyped, Steerable
    <2>2. PICK k : k = subRuns[r].steers + 1
      OBVIOUS
    <2>3. k \in Nat
      BY <2>1, <2>2 DEF RunStates
    <2>4. PICK e : e = [subRuns[r] EXCEPT !.steers = k]
      OBVIOUS
    <2>5. e \in RunStates /\ e.id = i /\ e.at = subRuns[r].at /\ e.aborted = subRuns[r].aborted /\ e.result = subRuns[r].result
      BY <2>1, <2>3, <2>4 DEF RunStates
    <2>6. subRuns' = [subRuns EXCEPT ![r] = e] /\ subs' = [subs EXCEPT ![i] = subs[i]] /\ reused' = reused
      <3>1. subs' = subs /\ subRuns' = [subRuns EXCEPT ![r].steers = k] /\ reused' = reused
        BY <1>1, <2>2 DEF SteerSub
      <3>2. subs = [subs EXCEPT ![i] = subs[i]]
        BY <2>1
      <3>3. QED
        BY <2>4, <3>1, <3>2
    <2>7. ASSUME i \notin reused PROVE RecordIsOfLast(i)'
      <3>1. RecordIsOfLast(i)
        BY <2>7 DEF SubInv
      <3> HIDE DEF r
      <3>2. DOMAIN subRuns' = DOMAIN subRuns /\ subRuns'[r] = e /\ (\A q \in DOMAIN subRuns : q # r => subRuns'[q] = subRuns[q])
            /\ subs'[i] = subs[i]
        BY <2>1, <2>5, <2>6
      <3>3. \A q \in DOMAIN subRuns : Outcome(q)' = Outcome(q) /\ subRuns'[q].id = subRuns[q].id
                                      /\ subRuns[q].at = subRuns'[q].at /\ subRuns[q].aborted = subRuns'[q].aborted
        BY <2>1, <2>5, <3>2 DEF Outcome
      <3>4. \A q : IsLast(i, q) => IsLast(i, q)'
        BY <3>2, <3>3 DEF IsLast
      <3>5. QED
        BY <3>1, <3>2, <3>3, <3>4 DEF RecordIsOfLast
    <2> HIDE DEF r
    <2>8. QED
      BY <2>1, <2>5, <2>6, <2>7, OneSubKept
  <1>2. CASE ~Steerable(i)
    <2>1. PICK s : s = [subs[i] EXCEPT !.queued = TRUE]
      OBVIOUS
    <2>2. subs[i] \in SubStates /\ subs \in [Subs -> SubStates]
      BY DEF SubInv, SubTyped
    <2>3. s \in SubStates /\ s.status = subs[i].status /\ s.active = subs[i].active /\ s.handle = subs[i].handle
      BY <2>1, <2>2 DEF SubStates
    <2>4. subs' = [subs EXCEPT ![i].queued = TRUE] /\ UNCHANGED <<subRuns, reused>>
      BY <1>2 DEF SteerSub
    <2>5. subs' = [subs EXCEPT ![i] = s] /\ subRuns' = subRuns /\ reused' = reused
      BY <2>1, <2>4
    <2>6. /\ subs' \in [Subs -> SubStates]
          /\ \A j \in Subs : subs'[j].status = subs[j].status /\ subs'[j].active = subs[j].active /\ subs'[j].handle = subs[j].handle
      BY <2>2, <2>3, <2>5
    <2>7. SubTyped'
      BY <2>5, <2>6 DEF SubInv, SubTyped
    <2>8. ASSUME NEW j \in Subs \ reused PROVE RecordIsOfLast(j)'
      BY <2>5, <2>6, <2>8 DEF SubInv, RecordIsOfLast, IsLast, Outcome
    <2>9. QED
      BY <2>5, <2>7, <2>8 DEF SubInv
  <1>3. QED
    BY <1>1, <1>2

\* An abort settles the record at once and marks the run.
LEMMA AbortKeepsSubs ==
    ASSUME SubInv, NEW i \in Subs, AbortSub(i)
    PROVE  SubInv'
  <1> PICK r : r = subs[i].handle
    OBVIOUS
  <1>1. /\ subs \in [Subs -> SubStates] /\ subRuns \in Seq(RunStates) /\ r \in DOMAIN subRuns
        /\ subRuns[r] \in RunStates /\ subRuns[r].id = i /\ subs[i] \in SubStates
        /\ subRuns[r].at = "live" /\ r # NoRun
    BY DEF AbortSub, SubInv, SubTyped, Steerable
  <1>2. PICK e : e = [subRuns[r] EXCEPT !.aborted = TRUE]
    OBVIOUS
  <1>3. e \in RunStates /\ e.id = i /\ e.at = "live" /\ e.aborted
    BY <1>1, <1>2 DEF RunStates
  <1>4. PICK s : s = SettledSub(subs[i], "aborted")
    OBVIOUS
  <1>5. /\ s \in SubStates /\ (subs[i].status # "running" => s = subs[i])
        /\ subs[i].status = "running" => s.status = "aborted" /\ s.active = NoRun /\ s.handle = NoRun
        /\ s.handle # NoRun => s.handle = subs[i].handle
    BY <1>1, <1>4, SettledIsSub
  <1>6. subRuns' = [subRuns EXCEPT ![r] = e] /\ subs' = [subs EXCEPT ![i] = s] /\ reused' = reused
    BY <1>2, <1>4 DEF AbortSub
  <1>7. ASSUME i \notin reused PROVE RecordIsOfLast(i)'
    <2>1. RecordIsOfLast(i)
      BY <1>7 DEF SubInv
    <2>2. /\ IsLast(i, r) /\ subs[i].status = "running"
          /\ \A q \in DOMAIN subRuns : subRuns[q].id = i /\ q # r => subRuns[q].at = "over"
      BY <1>1, <2>1 DEF RecordIsOfLast, IsLast
    <2>3. DOMAIN subRuns' = DOMAIN subRuns /\ subRuns'[r] = e /\ (\A q \in DOMAIN subRuns : q # r => subRuns'[q] = subRuns[q])
          /\ subs'[i] = s
      BY <1>1, <1>3, <1>5, <1>6
    <2>4. IsLast(i, r)'
      BY <1>1, <1>3, <2>2, <2>3 DEF IsLast
    <2>5. Outcome(r)' = "aborted"
      BY <1>3, <2>3 DEF Outcome
    <2>6. \A q \in DOMAIN subRuns' : subRuns'[q].id = i /\ q # r => subRuns'[q].at = "over"
      BY <2>2, <2>3
    <2>7. QED
      BY <1>1, <1>3, <1>5, <2>2, <2>3, <2>4, <2>5, <2>6 DEF RecordIsOfLast
  <1>8. s.handle # NoRun => s.handle \in DOMAIN subRuns /\ subRuns[s.handle].id = i
    BY <1>1, <1>5
  <1>9. QED
    BY <1>1, <1>3, <1>5, <1>6, <1>7, <1>8, OneSubKept

\* subagent-runtime.ts: the record of an id that was not dispatched again while a run of
\* it went on is the record of its last run, which alone goes on.
THEOREM SubInvariant == SubSpec => []SubInv
  <1>1. SubInit => SubInv
    BY SubStart
  <1>2. SubInv /\ [SubNext]_subVars => SubInv'
    <2> SUFFICES ASSUME SubInv, [SubNext]_subVars PROVE SubInv'
      OBVIOUS
    <2>1. ASSUME NEW i \in Subs, DispatchSub(i) PROVE SubInv'
      BY <2>1, DispatchKeepsSubs
    <2>2. ASSUME NEW i \in Subs, SteerSub(i) PROVE SubInv'
      BY <2>2, SteerKeepsSubs
    <2>3. ASSUME NEW i \in Subs, AbortSub(i) PROVE SubInv'
      BY <2>3, AbortKeepsSubs
    <2>4. ASSUME NEW r \in DOMAIN subRuns, RunGoesLive(r) PROVE SubInv'
      BY <2>4, GoesLiveKeepsSubs
    <2>5. ASSUME NEW r \in DOMAIN subRuns, RunIsOver(r) PROVE SubInv'
      BY <2>5, EndKeepsSubs
    <2>6. ASSUME NEW r \in DOMAIN subRuns, RunSettles(r) PROVE SubInv'
      BY <2>6, OverKeepsSubs DEF RunSettles, OverWith
    <2>7. ASSUME NEW r \in DOMAIN subRuns, RunFails(r) PROVE SubInv'
      BY <2>7, OverKeepsSubs DEF RunFails, OverWith
    <2>8. CASE UNCHANGED subVars
      BY <2>8 DEF subVars, SubInv, SubTyped, RecordIsOfLast, IsLast, Outcome
    <2>9. QED
      BY <2>1, <2>2, <2>3, <2>4, <2>5, <2>6, <2>7, <2>8 DEF SubNext
  <1>3. QED
    BY <1>1, <1>2, PTL DEF SubSpec

\* subagent-runtime.ts: the record of a sub-agent says what became of its latest run, and
\* an abort that was answered with true is never turned into a completion or a failure.
THEOREM RecordsTell == SubSpec => []RecordTellsOutcome
  <1>1. SubInv => RecordTellsOutcome
    <2> SUFFICES ASSUME SubInv, NEW i \in Subs \ reused, subs[i].status # "none"
                 PROVE  subs[i].status = Outcome(LastRun(i)) /\ (subs[i].status = "running" <=> subs[i].active = LastRun(i))
      BY DEF RecordTellsOutcome
    <2>1. PICK r \in DOMAIN subRuns :
              /\ IsLast(i, r) /\ subs[i].status = Outcome(r)
              /\ subs[i].status = "running" => subs[i].active = r
              /\ subs[i].status # "running" => subs[i].active = NoRun
      BY DEF SubInv, RecordIsOfLast
    <2>2. DOMAIN subRuns = 1 .. Len(subRuns) /\ Len(subRuns) \in Nat
      BY DEF SubInv, SubTyped
    <2>3. subRuns[r].id = i /\ \A q \in (r + 1) .. Len(subRuns) : subRuns[q].id # i
      BY <2>1, <2>2 DEF IsLast
    <2>4. ASSUME NEW p \in DOMAIN subRuns, subRuns[p].id = i, \A q \in (p + 1) .. Len(subRuns) : subRuns[q].id # i
          PROVE  p = r
      <3>1. p <= r
        BY <2>1, <2>4 DEF IsLast
      <3>2. ~(p < r)
        BY <2>1, <2>2, <2>3, <2>4
      <3>3. QED
        BY <2>2, <3>1, <3>2
    <2>5. LastRun(i) = r
      BY <2>3, <2>4 DEF LastRun
    <2>6. r # NoRun
      BY <2>2 DEF NoRun
    <2>7. QED
      BY <2>1, <2>5, <2>6
  <1>2. QED
    BY <1>1, SubInvariant, PTL

-----------------------------------------------------------------------------
(* The room of a group *)

GroupSpec == GroupInit /\ [][GroupNext]_groupVars

GroupRuns ==
    [at : {"round", "speakers", "thinking", "ended"}, members : Seq(Members), round : Nat, order : Seq(Members),
     speaker : Members \cup {NoMember}, history : Seq(Members), mentioned : SUBSET Members, inRound : Nat, current : BOOLEAN]

\* Whoever wrote a message had been told those of the others before it.
HeardBefore ==
    \A j \in DOMAIN room.history : \A i \in 1..(j - 1) : room.history[i] # room.history[j] => i \in told[room.history[j]]

GroupInv ==
    /\ room \in GroupRuns /\ told \in [Members -> SUBSET Nat]
    /\ Len(room.history) <= MaxTurns
    /\ room.at = "thinking" => room.speaker \in Members /\ Len(room.history) < MaxTurns
    /\ room.at \in {"speakers", "thinking"} => room.round < MaxRounds
    /\ HeardBefore /\ MembersHearAll

LEMMA MemberOrderTyped == MemberOrder \in Seq(Members)
  BY GroupAssumption DEF Members

LEMMA RespondersTyped ==
    ASSUME room \in GroupRuns
    PROVE  Responders \in Seq(Members)
  BY AmongGives DEF Responders, GroupRuns

LEMMA RotatedTyped ==
    ASSUME NEW s \in Seq(Members), s # <<>>, NEW n \in Nat
    PROVE  Rotated(s, n) \in Seq(Members)
  <1>1. Len(s) \in Nat \ {0}
    BY EmptySeq
  <1>2. PICK k \in 0..(Len(s) - 1) : k = n % Len(s)
    BY <1>1
  <1>3. SubSeq(s, k + 1, Len(s)) \in Seq(Members) /\ SubSeq(s, 1, k) \in Seq(Members)
    BY <1>1, <1>2, SubSeqProperties
  <1>4. QED
    BY <1>2, <1>3 DEF Rotated

LEMMA GroupStart == ASSUME GroupInit PROVE GroupInv
  <1>1. PICK ms \in Seq(Members) :
            room = [at |-> "round", members |-> ms, round |-> 0, order |-> <<>>, speaker |-> NoMember,
                    history |-> <<>>, mentioned |-> {}, inRound |-> 0, current |-> TRUE]
    BY MemberOrderTyped, AmongGives DEF GroupInit
  <1>2. <<>> \in Seq(Members)
    BY EmptySeq
  <1>3. room \in GroupRuns
    BY <1>1, <1>2 DEF GroupRuns
  <1>4. told \in [Members -> SUBSET Nat]
    BY DEF GroupInit
  <1>5. room.at = "round" /\ room.history = <<>>
    BY <1>1
  <1>6. QED
    BY <1>3, <1>4, <1>5, GroupAssumption DEF GroupInv, HeardBefore, MembersHearAll

\* Nothing is written and nobody is asked.
LEMMA QuietKeeps ==
    ASSUME GroupInv, room' \in GroupRuns, room'.history = room.history, told' = told,
           room'.at = "thinking" => room.at = "thinking" /\ room'.speaker = room.speaker /\ room'.round = room.round,
           room'.at = "speakers" => room'.round < MaxRounds
    PROVE  GroupInv'
  BY DEF GroupInv, HeardBefore, MembersHearAll

LEMMA NextSpeakerKeeps == ASSUME GroupInv, NextSpeaker PROVE GroupInv'
  <1>0. room \in GroupRuns /\ told \in [Members -> SUBSET Nat] /\ room.at = "speakers" /\ room.order # <<>>
    BY DEF GroupInv, NextSpeaker
  <1>1. CASE Len(room.history) >= MaxTurns \/ ~room.current
    <2>1. room' = RunEnds /\ told' = told
      BY <1>1 DEF NextSpeaker
    <2>2. room' \in GroupRuns /\ room'.history = room.history /\ room'.at = "ended"
      BY <1>0, <2>1 DEF RunEnds, GroupRuns
    <2>3. QED
      BY <2>1, <2>2, QuietKeeps
  <1>2. CASE ~(Len(room.history) >= MaxTurns \/ ~room.current)
    <2>1. PICK m \in Members : m = Head(room.order)
      BY <1>0, HeadTailProperties DEF GroupRuns
    <2>2. PICK rest \in Seq(Members) : rest = Tail(room.order)
      BY <1>0, HeadTailProperties DEF GroupRuns
    <2>3. /\ room' = [room EXCEPT !.at = "thinking", !.speaker = m, !.order = rest]
          /\ told' = [told EXCEPT ![m] = @ \cup SinceSpoke(m)]
      BY <1>2, <2>1, <2>2, Zenon DEF NextSpeaker
    <2>4. /\ room' \in GroupRuns /\ room'.history = room.history /\ room'.at = "thinking" /\ room'.speaker = m
          /\ room'.round = room.round
      BY <1>0, <2>3 DEF GroupRuns
    <2>5. room.history \in Seq(Members) /\ DOMAIN room.history = 1..Len(room.history) /\ Len(room.history) \in Nat
      BY <1>0 DEF GroupRuns
    <2>6. PICK new \in SUBSET Nat : new = SinceSpoke(m)
      <3>1. SinceSpoke(m) \subseteq DOMAIN room.history
        BY DEF SinceSpoke
      <3>2. DOMAIN room.history \subseteq Nat
        BY <2>5
      <3>3. QED
        BY <3>1, <3>2
    <2>7. told' \in [Members -> SUBSET Nat] /\ told'[m] = told[m] \cup new /\ \A o \in Members : told[o] \subseteq told'[o]
      BY <1>0, <2>3, <2>6
    <2>8. Len(room.history) < MaxTurns /\ room.round < MaxRounds /\ HeardBefore
      BY <1>0, <1>2, <2>5, GroupAssumption DEF GroupInv
    <2>9. \A j \in DOMAIN room.history : room.history[j] \in Members
      BY <2>5
    <2>10. HeardBefore'
      BY <2>4, <2>7, <2>8, <2>9 DEF HeardBefore
    <2>11. ASSUME NEW i \in DOMAIN room.history, room.history[i] # m
           PROVE  i \in told'[m]
      <3>1. CASE i \in new
        BY <2>7, <3>1
      <3>2. CASE i \notin new
        <4>1. PICK j \in DOMAIN room.history : room.history[j] = m /\ ~(i > j)
          BY <2>6, <3>2 DEF SinceSpoke
        <4>2. i \in 1..(j - 1)
          BY <2>5, <2>11, <4>1
        <4>3. i \in told[m]
          BY <2>8, <2>11, <4>1, <4>2 DEF HeardBefore
        <4>4. QED
          BY <2>7, <4>3
      <3>3. QED
        BY <3>1, <3>2
    <2>12. MembersHearAll'
      BY <2>4, <2>11 DEF MembersHearAll
    <2>13. QED
      BY <2>4, <2>7, <2>8, <2>10, <2>12 DEF GroupInv
  <1>3. QED
    BY <1>1, <1>2

LEMMA TurnEndsKeeps == ASSUME GroupInv, TurnEnds PROVE GroupInv'
  <1>0. /\ room \in GroupRuns /\ room.at = "thinking" /\ told' = told /\ Len(room.history) < MaxTurns
        /\ room.round < MaxRounds /\ HeardBefore /\ MembersHearAll /\ told \in [Members -> SUBSET Nat]
    BY DEF GroupInv, TurnEnds
  <1>1. PICK m \in Members : m = room.speaker
    BY <1>0 DEF GroupInv
  <1>2. PICK n \in 0..MaxPerTurn, mentions \in SUBSET ToSet(room.members) :
          LET sent == [i \in 1..n |-> room.speaker]
              last == IF n = 0 THEN room.mentioned ELSE IF Len(Posted(sent)) - Len(room.history) < n THEN {} ELSE mentions
              now == [room EXCEPT !.history = Posted(sent), !.mentioned = last, !.inRound = @ + n, !.speaker = NoMember]
          IN  room' = IF n > 0 /\ Len(Posted(sent)) >= MaxTurns THEN [now EXCEPT !.at = "ended"]
                      ELSE [now EXCEPT !.at = "speakers"]
    BY Zenon DEF TurnEnds
  <1>3. PICK sent : sent = [i \in 1..n |-> room.speaker]
    OBVIOUS
  <1>4. PICK last : last = IF n = 0 THEN room.mentioned ELSE IF Len(Posted(sent)) - Len(room.history) < n THEN {} ELSE mentions
    OBVIOUS
  <1>5. PICK posted : posted = Posted(sent)
    OBVIOUS
  <1>6. PICK now : now = [room EXCEPT !.history = posted, !.mentioned = last, !.inRound = @ + n, !.speaker = NoMember]
    OBVIOUS
  <1>7. room' = IF n > 0 /\ Len(posted) >= MaxTurns THEN [now EXCEPT !.at = "ended"] ELSE [now EXCEPT !.at = "speakers"]
    BY <1>2, <1>3, <1>4, <1>5, <1>6, Zenon
  <1>8. last \in SUBSET Members
    BY <1>0, <1>4 DEF GroupRuns, ToSet
  <1>9. PICK h \in Seq(Members) : h = room.history
    BY <1>0 DEF GroupRuns
  <1>10. n \in Nat /\ sent \in Seq(Members) /\ Len(sent) = n /\ \A i \in 1..n : sent[i] = m
    <2>1. n \in Nat
      BY GroupAssumption
    <2>2. sent \in [1..n -> Members] /\ \A i \in 1..n : sent[i] = m
      BY <1>1, <1>3
    <2>3. QED
      BY <2>1, <2>2
  <1>11. PICK k \in 0..n : k = (IF Len(sent) < MaxTurns - Len(h) THEN Len(sent) ELSE MaxTurns - Len(h)) /\ Len(h) + k <= MaxTurns
    <2>1. Len(h) \in Nat /\ Len(h) < MaxTurns /\ MaxTurns \in Nat
      BY <1>0, <1>9, GroupAssumption
    <2>2. PICK size \in Nat : size = Len(h)
      BY <2>1
    <2>3. PICK l \in Nat : l = Len(sent) /\ l = n
      BY <1>10
    <2>4. PICK left \in Nat : left = MaxTurns - size
      BY SMTT(30), ZenonT(30), <2>1, <2>2
    <2>5. CASE l < left
      <3>1. l \in 0..n /\ size + l <= MaxTurns
        BY <2>1, <2>3, <2>4, <2>5
      <3>2. QED
        BY <3>1, <2>2, <2>3, <2>4, <2>5
    <2>6. CASE ~(l < left)
      <3>1. left \in 0..n /\ size + left <= MaxTurns
        BY <2>1, <2>3, <2>4, <2>6
      <3>2. QED
        BY <3>1, <2>2, <2>3, <2>4, <2>6
    <2>7. QED
      BY <2>5, <2>6
  <1>12. posted = h \o SubSeq(sent, 1, k)
    BY <1>5, <1>9, <1>11 DEF Posted
  <1>13. /\ posted \in Seq(Members) /\ Len(posted) = Len(h) + k /\ Len(posted) <= MaxTurns
         /\ \A i \in 1..Len(h) : posted[i] = h[i]
         /\ \A i \in (Len(h) + 1)..(Len(h) + k) : posted[i] = m
    <2>1. PICK some : some = SubSeq(sent, 1, k)
      OBVIOUS
    <2>2. some \in Seq(Members) /\ Len(some) = k /\ \A i \in 1..k : some[i] = m
      BY <1>10, <1>11, <2>1, SubSeqProperties
    <2>3. posted = h \o some
      BY <1>12, <2>1
    <2>4. /\ posted \in Seq(Members) /\ Len(posted) = Len(h) + Len(some)
          /\ \A i \in 1..(Len(h) + Len(some)) : posted[i] = IF i <= Len(h) THEN h[i] ELSE some[i - Len(h)]
      BY <2>2, <2>3, ConcatProperties
    <2>5. Len(h) \in Nat /\ k \in Nat
      BY <1>10, <1>11
    <2>6. \A i \in 1..Len(h) : posted[i] = h[i]
      BY <2>2, <2>4, <2>5
    <2>7. \A i \in (Len(h) + 1)..(Len(h) + k) : posted[i] = m
      BY <2>2, <2>4, <2>5
    <2>8. QED
      BY <1>11, <2>2, <2>4, <2>6, <2>7
  <1>14. PICK r \in Nat : r = room.inRound + n
    BY <1>0, <1>10 DEF GroupRuns
  <1>15. /\ room' \in GroupRuns /\ room'.history = posted /\ room'.at \in {"ended", "speakers"} /\ room'.round = room.round
    <2>1. now = [room EXCEPT !.history = posted, !.mentioned = last, !.inRound = r, !.speaker = NoMember]
      BY <1>0, <1>6, <1>14 DEF GroupRuns
    <2>2. now \in GroupRuns /\ now.history = posted /\ now.round = room.round
      BY <1>0, <1>8, <1>13, <2>1 DEF GroupRuns
    <2>3. QED
      BY <1>7, <2>2 DEF GroupRuns
  <1>16. ASSUME NEW j \in DOMAIN posted, NEW i \in 1..(j - 1), posted[i] # posted[j]
         PROVE  i \in told[posted[j]]
    <2>1. j \in 1..(Len(h) + k) /\ i \in 1..(Len(h) + k) /\ i < j /\ Len(h) \in Nat /\ DOMAIN h = 1..Len(h)
      BY <1>13
    <2>2. CASE j \in 1..Len(h)
      <3>1. i \in 1..Len(h) /\ posted[i] = h[i] /\ posted[j] = h[j]
        BY <1>13, <2>1, <2>2
      <3>2. QED
        BY <1>0, <1>9, <1>16, <2>1, <2>2, <3>1 DEF HeardBefore
    <2>3. CASE j \notin 1..Len(h)
      <3>1. posted[j] = m
        BY <1>13, <2>1, <2>3
      <3>2. i \in 1..Len(h)
        BY <1>13, <1>16, <2>1, <3>1
      <3>3. QED
        BY <1>0, <1>1, <1>9, <1>13, <1>16, <2>1, <3>1, <3>2 DEF MembersHearAll
    <2>4. QED
      BY <2>2, <2>3
  <1>17. HeardBefore'
    BY <1>0, <1>15, <1>16 DEF HeardBefore
  <1>18. QED
    BY <1>0, <1>13, <1>15, <1>17 DEF GroupInv, MembersHearAll

LEMMA GroupStep == ASSUME GroupInv, [GroupNext]_groupVars PROVE GroupInv'
  <1>0. room \in GroupRuns
    BY DEF GroupInv
  <1>1. CASE Supersede
    <2>1. room' = [room EXCEPT !.current = FALSE] /\ told' = told
      BY <1>1 DEF Supersede
    <2>2. /\ room' \in GroupRuns /\ room'.history = room.history /\ room'.at = room.at /\ room'.speaker = room.speaker
          /\ room'.round = room.round
      BY <1>0, <2>1 DEF GroupRuns
    <2>3. QED
      BY <2>1, <2>2, QuietKeeps DEF GroupInv
  <1>2. CASE BeginRound
    <2>1. CASE room.round >= MaxRounds \/ ~room.current
      <3>1. room' = RunEnds /\ told' = told
        BY <1>2, <2>1 DEF BeginRound
      <3>2. room' \in GroupRuns /\ room'.history = room.history /\ room'.at = "ended"
        BY <1>0, <3>1 DEF RunEnds, GroupRuns
      <3>3. QED
        BY <3>1, <3>2, QuietKeeps
    <2>2. CASE ~(room.round >= MaxRounds \/ ~room.current)
      <3>1. PICK order \in Seq(Members) : order = IF Responders = <<>> THEN <<>> ELSE Rotated(Responders, room.round)
        <4>1. room.round \in Nat /\ <<>> \in Seq(Members) /\ Responders \in Seq(Members)
          BY <1>0, RespondersTyped, EmptySeq DEF GroupRuns
        <4>2. QED
          BY <4>1, RotatedTyped
      <3>2. room' = [room EXCEPT !.at = "speakers", !.inRound = 0, !.order = order] /\ told' = told
        BY <1>2, <2>2, <3>1 DEF BeginRound
      <3>3. room' \in GroupRuns /\ room'.history = room.history /\ room'.at = "speakers" /\ room'.round = room.round
        BY <1>0, <3>2 DEF GroupRuns
      <3>4. room.round < MaxRounds
        BY <1>0, <2>2, GroupAssumption DEF GroupRuns
      <3>5. QED
        BY <3>2, <3>3, <3>4, QuietKeeps
    <2>3. QED
      BY <2>1, <2>2
  <1>3. CASE NextSpeaker
    BY <1>3, NextSpeakerKeeps
  <1>4. CASE TurnEnds
    BY <1>4, TurnEndsKeeps
  <1>5. CASE EndRound
    <2>1. PICK n \in Nat : n = room.round + 1
      BY <1>0 DEF GroupRuns
    <2>2. told' = told /\ (room' = RunEnds \/ room' = [room EXCEPT !.at = "round", !.round = n])
      BY <1>5, <2>1 DEF EndRound
    <2>3. room' \in GroupRuns /\ room'.history = room.history /\ room'.at \in {"ended", "round"}
      BY ZenonT(30), SMTT(30), <1>0, <2>2 DEF RunEnds, GroupRuns
    <2>4. QED
      BY <2>2, <2>3, QuietKeeps
  <1>6. CASE UNCHANGED groupVars
    BY <1>6 DEF groupVars, GroupInv, HeardBefore, MembersHearAll
  <1>7. QED
    BY <1>1, <1>2, <1>3, <1>4, <1>5, <1>6 DEF GroupNext

\* A member that is asked to speak has been told all that the others wrote, and a room falls
\* silent at its cap of messages and of rounds (GroupChatOrchestrator.run()).
THEOREM RoomsAreFair == GroupSpec => []RoomIsFair
  <1>1. GroupInit => GroupInv
    BY GroupStart
  <1>2. GroupInv /\ [GroupNext]_groupVars => GroupInv'
    BY GroupStep
  <1>3. GroupInv => RoomIsFair
    BY DEF GroupInv, RoomIsFair, RoomIsBounded
  <1>4. QED
    BY <1>1, <1>2, <1>3, PTL DEF GroupSpec

-----------------------------------------------------------------------------
(* sse.ts: sendPrompt()                                                      *)

SendSpec == SendInit /\ [][SendNext]_sendVars

SendTyped ==
    /\ gateway \in [current : Gateways, dedupes : SUBSET Gateways,
                    taken : [Gateways -> [Prompts -> Nat]], switches : Nat]
    /\ posts \subseteq [prompt : Prompts, to : Gateways, retry : BOOLEAN]
    /\ prompts \in [Prompts -> [at : {"idle", "resolving", "posted", "done", "failed"},
                                to : Gateways, retry : BOOLEAN]]
    /\ link \in [closed : BOOLEAN, proven : SUBSET Gateways]

\* A host that the client believes to deduplicate does.
ProvenDedupes == link.proven \subseteq gateway.dedupes

\* Host g never had the prompt and will not get it from a request under way.
Untouched(g, p) ==
    gateway.taken[g][p] = 0 /\ \A m \in posts : ~(m.prompt = p /\ m.to = g)

Unsent ==
    \A p \in Prompts :
        prompts[p].at \in {"idle", "resolving"} /\ ~prompts[p].retry
          => \A g \in Gateways : Untouched(g, p)

\* The first request is under way, or answered late, at one host only.
SentToOne ==
    \A p \in Prompts :
        prompts[p].at = "posted" /\ ~prompts[p].retry
          => \A g \in Gateways \ {prompts[p].to} : Untouched(g, p)

SentToDeduping ==
    \A p \in Prompts :
        prompts[p].at = "resolving" /\ prompts[p].retry
          => \A g \in Gateways \ gateway.dedupes : Untouched(g, p)

IdleIsNew == \A p \in Prompts : prompts[p].at = "idle" => ~prompts[p].retry

OnceOnTheWay ==
    \A g \in Gateways \ gateway.dedupes, p \in Prompts :
        \A m \in posts : m.prompt = p /\ m.to = g =>
            /\ gateway.taken[g][p] = 0
            /\ \A n \in posts : n.prompt = p /\ n.to = g => n = m

SendInv ==
    /\ SendTyped /\ ProvenDedupes /\ Unsent /\ SentToOne /\ SentToDeduping /\ IdleIsNew
    /\ OnceOnTheWay /\ PromptOncePerHost

-----------------------------------------------------------------------------

\* A prompt that moves on without a request keeps the invariant if what is claimed of
\* its new place holds.
LEMMA OnePromptMoves ==
    ASSUME NEW p \in Prompts, NEW v \in [at : {"idle", "resolving", "posted", "done", "failed"},
                                         to : Gateways, retry : BOOLEAN],
           SendInv, prompts' = [prompts EXCEPT ![p] = v], UNCHANGED <<gateway, posts>>,
           link' \in [closed : BOOLEAN, proven : SUBSET gateway.dedupes],
           v.at # "posted", v.at # "idle",
           v.at = "resolving" => \A g \in Gateways :
               (v.retry => g \notin gateway.dedupes) => Untouched(g, p)
    PROVE  SendInv'
  <1>1. ASSUME NEW q \in Prompts PROVE prompts'[q] = IF q = p THEN v ELSE prompts[q]
    BY DEF SendInv, SendTyped
  <1>2. \A g \in Gateways, q \in Prompts : Untouched(g, q)' <=> Untouched(g, q)
    BY DEF Untouched
  <1>3. SendTyped' /\ ProvenDedupes'
    BY DEF SendInv, SendTyped, ProvenDedupes
  <1>4. Unsent'
    BY <1>1, <1>2 DEF SendInv, Unsent
  <1>5. SentToOne'
    BY <1>1, <1>2 DEF SendInv, SentToOne
  <1>6. SentToDeduping'
    BY <1>1, <1>2 DEF SendInv, SentToDeduping
  <1>7. IdleIsNew'
    BY <1>1 DEF SendInv, IdleIsNew
  <1>8. OnceOnTheWay' /\ PromptOncePerHost'
    BY DEF SendInv, OnceOnTheWay, PromptOncePerHost
  <1>9. QED
    BY <1>3, <1>4, <1>5, <1>6, <1>7, <1>8 DEF SendInv

\* A request, the first one or the retry, is the only one on its way to a host that does
\* not deduplicate.
LEMMA PostKeepsSendInv ==
    ASSUME NEW p \in Prompts, SendInv, Post(p)
    PROVE  SendInv'
  <1> DEFINE c == gateway.current
             v == [prompts[p] EXCEPT !.at = "posted", !.to = c]
             m == [prompt |-> p, to |-> c, retry |-> prompts[p].retry]
  <1>1. /\ prompts[p].at = "resolving" /\ prompts[p].retry \in BOOLEAN /\ c \in Gateways
        /\ UNCHANGED <<gateway, link>>
    BY DEF Post, SendInv, SendTyped
  <1>2. /\ v \in [at : {"idle", "resolving", "posted", "done", "failed"}, to : Gateways, retry : BOOLEAN]
        /\ v.at = "posted" /\ v.to = c /\ v.retry = prompts[p].retry
        /\ prompts' = [prompts EXCEPT ![p] = v]
    BY <1>1 DEF Post, SendInv, SendTyped
  <1>3. /\ m \in [prompt : Prompts, to : Gateways, retry : BOOLEAN]
        /\ m.prompt = p /\ m.to = c /\ posts' = posts \cup {m}
    BY <1>1 DEF Post
  <1>4. c \notin gateway.dedupes => Untouched(c, p)
    BY <1>1 DEF SendInv, Unsent, SentToDeduping
  <1>5. ~v.retry => \A g \in Gateways : Untouched(g, p)
    BY <1>1, <1>2 DEF SendInv, Unsent
  <1> HIDE DEF c, v, m
  <1>6. ASSUME NEW q \in Prompts PROVE prompts'[q] = IF q = p THEN v ELSE prompts[q]
    BY <1>2 DEF SendInv, SendTyped
  <1>7. ASSUME NEW g \in Gateways, NEW q \in Prompts, Untouched(g, q), ~(g = c /\ q = p)
        PROVE  Untouched(g, q)'
    BY <1>1, <1>3, <1>7 DEF Untouched
  <1>8. SendTyped' /\ ProvenDedupes'
    BY <1>1, <1>2, <1>3 DEF SendInv, SendTyped, ProvenDedupes
  <1>9. Unsent' /\ IdleIsNew'
    BY <1>2, <1>6, <1>7 DEF SendInv, Unsent, IdleIsNew
  <1>10. SentToOne'
    BY <1>2, <1>5, <1>6, <1>7 DEF SendInv, SentToOne
  <1>11. SentToDeduping'
    BY <1>1, <1>2, <1>6, <1>7 DEF SendInv, SentToDeduping
  <1>12. OnceOnTheWay'
    BY <1>1, <1>3, <1>4 DEF SendInv, OnceOnTheWay, Untouched
  <1>13. PromptOncePerHost'
    BY <1>1 DEF SendInv, PromptOncePerHost
  <1>14. QED
    BY <1>8, <1>9, <1>10, <1>11, <1>12, <1>13 DEF SendInv

\* What taking a request in counts: once at most, and nothing anywhere else.
LEMMA TakenInCounts ==
    ASSUME NEW m \in posts, SendInv
    PROVE  /\ TakenIn(m) \in [current : Gateways, dedupes : SUBSET Gateways,
                              taken : [Gateways -> [Prompts -> Nat]], switches : Nat]
           /\ TakenIn(m).dedupes = gateway.dedupes
           /\ TakenIn(m).taken[m.to][m.prompt] <= 1
           /\ \A g \in Gateways, p \in Prompts :
                 ~(g = m.to /\ p = m.prompt) => TakenIn(m).taken[g][p] = gateway.taken[g][p]
  <1> DEFINE T == [gateway.taken EXCEPT ![m.to][m.prompt] = 1]
  <1>1. m.to \in Gateways /\ m.prompt \in Prompts /\ gateway.taken \in [Gateways -> [Prompts -> Nat]]
    BY DEF SendInv, SendTyped
  <1>2. TakenIn(m) = [gateway EXCEPT !.taken = T]
    <2>1. m.to \notin gateway.dedupes => gateway.taken[m.to][m.prompt] = 0
      BY <1>1 DEF SendInv, OnceOnTheWay
    <2>2. QED
      BY SMTT(30), ZenonT(30), <1>1, <2>1 DEF TakenIn
  <1>3. /\ T \in [Gateways -> [Prompts -> Nat]] /\ T[m.to][m.prompt] = 1
        /\ \A g \in Gateways, p \in Prompts : ~(g = m.to /\ p = m.prompt) => T[g][p] = gateway.taken[g][p]
    BY <1>1
  <1> HIDE DEF T
  <1>4. TakenIn(m).dedupes = gateway.dedupes /\ TakenIn(m).taken = T
    BY <1>2 DEF SendInv, SendTyped
  <1>5. TakenIn(m) \in [current : Gateways, dedupes : SUBSET Gateways,
                        taken : [Gateways -> [Prompts -> Nat]], switches : Nat]
    BY <1>2, <1>3 DEF SendInv, SendTyped
  <1>6. QED
    BY <1>3, <1>4, <1>5

\* A request that leaves the way, taken in or not, leaves every host untouched that was.
LEMMA RequestArrives ==
    ASSUME NEW m \in posts, SendInv, posts' = posts \ {m}, gateway' \in {gateway, TakenIn(m)}
    PROVE  /\ gateway'.dedupes = gateway.dedupes
           /\ gateway' \in [current : Gateways, dedupes : SUBSET Gateways,
                            taken : [Gateways -> [Prompts -> Nat]], switches : Nat]
           /\ \A g \in Gateways, p \in Prompts : Untouched(g, p) => Untouched(g, p)'
           /\ OnceOnTheWay' /\ PromptOncePerHost'
  <1>1. m.to \in Gateways /\ m.prompt \in Prompts
    BY DEF SendInv, SendTyped
  <1>2. /\ gateway'.dedupes = gateway.dedupes
        /\ gateway' \in [current : Gateways, dedupes : SUBSET Gateways,
                         taken : [Gateways -> [Prompts -> Nat]], switches : Nat]
    BY TakenInCounts DEF SendInv, SendTyped
  <1>3. /\ \A g \in Gateways, p \in Prompts :
             ~(g = m.to /\ p = m.prompt) => gateway'.taken[g][p] = gateway.taken[g][p]
        /\ gateway'.taken[m.to][m.prompt] <= 1
    BY <1>1, TakenInCounts DEF SendInv, PromptOncePerHost
  <1>4. ASSUME NEW g \in Gateways, NEW p \in Prompts, Untouched(g, p) PROVE Untouched(g, p)'
    <2>1. ~(g = m.to /\ p = m.prompt)
      BY <1>4 DEF Untouched
    <2>2. QED
      BY <1>3, <1>4, <2>1 DEF Untouched
  <1>5. OnceOnTheWay'
    BY <1>1, <1>2, <1>3 DEF SendInv, OnceOnTheWay
  <1>6. PromptOncePerHost'
    BY <1>1, <1>3 DEF SendInv, PromptOncePerHost
  <1>7. QED
    BY <1>2, <1>4, <1>5, <1>6

\* An answer, in time or late, and an answer that is lost.
LEMMA AnswerKeepsSendInv ==
    ASSUME NEW m \in posts, SendInv,
           AnswerLost(m) \/ \E o \in {"ok", "refused", "handler-failed"} : HostAnswers(m, o)
    PROVE  SendInv'
  <1>1. m.prompt \in Prompts /\ m.to \in Gateways
    BY DEF SendInv, SendTyped
  <1>2. posts' = posts \ {m} /\ gateway' \in {gateway, TakenIn(m)}
    BY DEF AnswerLost, HostAnswers
  <1>3. /\ gateway'.dedupes = gateway.dedupes
        /\ gateway' \in [current : Gateways, dedupes : SUBSET Gateways,
                         taken : [Gateways -> [Prompts -> Nat]], switches : Nat]
        /\ \A g \in Gateways, p \in Prompts : Untouched(g, p) => Untouched(g, p)'
        /\ OnceOnTheWay' /\ PromptOncePerHost'
    BY <1>2, RequestArrives
  <1>4. link' \in [closed : BOOLEAN, proven : SUBSET gateway.dedupes]
    BY SMTT(30), ZenonT(30), <1>1 DEF AnswerLost, HostAnswers, SendInv, SendTyped, ProvenDedupes
  <1>5. \/ prompts' = prompts
        \/ \E at \in {"done", "failed"} :
              prompts' = [prompts EXCEPT ![m.prompt] = [prompts[m.prompt] EXCEPT !.at = at]]
    <2>1. CASE AnswerLost(m)
      BY <2>1 DEF AnswerLost
    <2>2. ASSUME NEW o \in {"ok", "refused", "handler-failed"}, HostAnswers(m, o), Waiting(m)
          PROVE  prompts' = [prompts EXCEPT ![m.prompt] =
                               [prompts[m.prompt] EXCEPT !.at = IF o = "ok" THEN "done" ELSE "failed"]]
      BY <2>2 DEF HostAnswers
    <2>3. ASSUME NEW o \in {"ok", "refused", "handler-failed"}, HostAnswers(m, o), ~Waiting(m)
          PROVE  prompts' = prompts
      BY <2>3 DEF HostAnswers
    <2>4. QED
      BY <2>1, <2>2, <2>3
  <1>6. prompts' \in [Prompts -> [at : {"idle", "resolving", "posted", "done", "failed"},
                                  to : Gateways, retry : BOOLEAN]]
    <2>1. CASE prompts' = prompts
      BY <2>1 DEF SendInv, SendTyped
    <2>2. ASSUME NEW at \in {"done", "failed"},
                 prompts' = [prompts EXCEPT ![m.prompt] = [prompts[m.prompt] EXCEPT !.at = at]]
          PROVE  prompts' \in [Prompts -> [at : {"idle", "resolving", "posted", "done", "failed"},
                                           to : Gateways, retry : BOOLEAN]]
      <3>1. [prompts[m.prompt] EXCEPT !.at = at]
              \in [at : {"idle", "resolving", "posted", "done", "failed"}, to : Gateways, retry : BOOLEAN]
        BY SMTT(30), ZenonT(30), <1>1 DEF SendInv, SendTyped
      <3>2. QED
        BY <2>2, <3>1 DEF SendInv, SendTyped
    <2>3. QED
      BY <1>5, <2>1, <2>2
  <1>7. ASSUME NEW p \in Prompts
        PROVE  prompts'[p] = prompts[p] \/ prompts'[p].at \in {"done", "failed"}
    <2>1. prompts[m.prompt] \in [at : {"idle", "resolving", "posted", "done", "failed"},
                                 to : Gateways, retry : BOOLEAN]
      BY <1>1 DEF SendInv, SendTyped
    <2>2. QED
      BY <1>1, <1>5, <2>1 DEF SendInv, SendTyped
  <1>8. SendTyped' /\ ProvenDedupes'
    BY <1>2, <1>3, <1>4, <1>6 DEF SendInv, SendTyped, ProvenDedupes
  <1>9. Unsent' /\ SentToOne' /\ SentToDeduping' /\ IdleIsNew'
    BY <1>3, <1>7 DEF SendInv, Unsent, SentToOne, SentToDeduping, IdleIsNew
  <1>10. QED
    BY <1>3, <1>8, <1>9 DEF SendInv

\* The deadline, or an error of the connection: the retry is sent only where it is safe.
LEMMA FailureKeepsSendInv ==
    ASSUME NEW p \in Prompts, SendInv, ResolveFails(p) \/ PostFails(p)
    PROVE  SendInv'
  <1>1. PICK at \in {"resolving", "failed"} :
          /\ prompts' = [prompts EXCEPT ![p] = [@ EXCEPT !.at = at, !.retry = TRUE]]
          /\ at = "resolving" => /\ ~prompts[p].retry
                                 /\ prompts[p].at = "resolving" \/ prompts[p].to \in link.proven
    BY DEF ResolveFails, PostFails, Fails, Retryable
  <1> DEFINE v == [prompts[p] EXCEPT !.at = at, !.retry = TRUE]
  <1>2. /\ v \in [at : {"idle", "resolving", "posted", "done", "failed"}, to : Gateways, retry : BOOLEAN]
        /\ v.at = at /\ v.retry = TRUE /\ prompts' = [prompts EXCEPT ![p] = v]
    BY <1>1 DEF SendInv, SendTyped
  <1>3. UNCHANGED <<gateway, posts, link>> /\ link \in [closed : BOOLEAN, proven : SUBSET gateway.dedupes]
    BY DEF ResolveFails, PostFails, SendInv, SendTyped, ProvenDedupes
  <1>4. ASSUME at = "resolving", NEW g \in Gateways, g \notin gateway.dedupes
        PROVE  Untouched(g, p)
    <2>1. CASE prompts[p].at = "resolving"
      BY <1>1, <1>4, <2>1 DEF SendInv, Unsent
    <2>2. CASE prompts[p].at # "resolving"
      <3>1. prompts[p].at = "posted" /\ ~prompts[p].retry /\ prompts[p].to \in gateway.dedupes
        BY <1>1, <1>4, <2>2 DEF ResolveFails, PostFails, SendInv, ProvenDedupes
      <3>2. QED
        BY <1>4, <3>1 DEF SendInv, SentToOne
    <2>3. QED
      BY <2>1, <2>2
  <1> HIDE DEF v
  <1>5. QED
    BY <1>2, <1>3, <1>4, OnePromptMoves

\* A prompt is sent to a host once for every prompt that was typed, whichever answers are
\* lost or late, whichever hosts take over, and whether they deduplicate or not.
THEOREM PromptsOnce == SendSpec => []PromptOncePerHost
  <1>1. SendInit => SendInv
    BY SendAssumption DEF SendInit, SendInv, SendTyped, ProvenDedupes, Unsent, SentToOne,
           SentToDeduping, IdleIsNew, OnceOnTheWay, PromptOncePerHost, Untouched
  <1>2. ASSUME SendInv, [SendNext]_sendVars PROVE SendInv'
    <2>1. CASE UNCHANGED sendVars
      BY <1>2, <2>1 DEF sendVars, SendInv, SendTyped, ProvenDedupes, Unsent, SentToOne,
           SentToDeduping, IdleIsNew, OnceOnTheWay, PromptOncePerHost, Untouched
    <2>2. ASSUME NEW p \in Prompts, SendPrompt(p) PROVE SendInv'
      <3> DEFINE v == [prompts[p] EXCEPT !.at = "resolving"]
      <3>1. /\ v \in [at : {"idle", "resolving", "posted", "done", "failed"}, to : Gateways, retry : BOOLEAN]
            /\ v.at = "resolving" /\ v.retry = prompts[p].retry /\ prompts' = [prompts EXCEPT ![p] = v]
        BY <1>2, <2>2 DEF SendPrompt, SendInv, SendTyped
      <3>2. /\ UNCHANGED <<gateway, posts, link>>
            /\ link \in [closed : BOOLEAN, proven : SUBSET gateway.dedupes]
        BY <1>2, <2>2 DEF SendPrompt, SendInv, SendTyped, ProvenDedupes
      <3>3. \A g \in Gateways : Untouched(g, p)
        BY <1>2, <2>2 DEF SendPrompt, SendInv, Unsent, IdleIsNew
      <3> HIDE DEF v
      <3>4. QED
        BY <1>2, <3>1, <3>2, <3>3, OnePromptMoves
    <2>3. CASE CloseSends \/ \E g \in Gateways : HostReplaced(g)
      <3>1. /\ UNCHANGED <<posts, prompts>> /\ gateway'.taken = gateway.taken
            /\ gateway'.dedupes = gateway.dedupes /\ link'.proven = link.proven
        <4>1. CASE CloseSends
          BY <1>2, <4>1 DEF CloseSends, SendInv, SendTyped
        <4>2. ASSUME NEW g \in Gateways, HostReplaced(g)
              PROVE  /\ UNCHANGED <<posts, prompts, link>> /\ gateway'.taken = gateway.taken
                     /\ gateway'.dedupes = gateway.dedupes
          BY <1>2, <4>2 DEF HostReplaced, SendInv, SendTyped
        <4>3. QED
          BY <2>3, <4>1, <4>2
      <3>2. SendTyped'
        <4>1. CASE CloseSends
          BY <1>2, <4>1 DEF CloseSends, SendInv, SendTyped
        <4>2. ASSUME NEW g \in Gateways, HostReplaced(g) PROVE SendTyped'
          <5>1. gateway.switches + 1 \in Nat
            BY <1>2 DEF SendInv, SendTyped
          <5>2. gateway' = [gateway EXCEPT !.current = g, !.switches = gateway.switches + 1]
            BY <4>2 DEF HostReplaced
          <5>3. QED
            BY <1>2, <4>2, <5>1, <5>2 DEF HostReplaced, SendInv, SendTyped
        <4>3. QED
          BY <2>3, <4>1, <4>2
      <3>3. QED
        BY <1>2, <3>1, <3>2 DEF SendInv, ProvenDedupes, Unsent, SentToOne, SentToDeduping,
           IdleIsNew, OnceOnTheWay, PromptOncePerHost, Untouched
    <2>4. QED
      BY <1>2, <2>1, <2>2, <2>3, PostKeepsSendInv, AnswerKeepsSendInv, FailureKeepsSendInv
      DEF SendNext
  <1>3. SendInv => PromptOncePerHost
    BY DEF SendInv
  <1>4. QED
    BY <1>1, <1>2, <1>3, PTL DEF SendSpec

-----------------------------------------------------------------------------
(* port.ts                                                                   *)

PortSpec == PortInit /\ [][PortNext]_portVars

Ways == {"open", "clean", "breach"}

ChildFrames ==
    {m \in [channel : Planes \cup {"none"}, kind : {"ready", "request", "shutdown", "malformed"}, r : Nat,
            by : Planes \cup {"none"}] : m.channel = "none" <=> m.kind = "malformed"}

ParentFrames ==
    {m \in [channel : Planes, kind : {"ready", "ok", "error", "protocol-error"}, r : Nat, by : Planes] :
        m.by = m.channel}

ServerStates == [ready : BOOLEAN, settled : Ways, running : SUBSET Nat]

ClientStates ==
    [ready : BOOLEAN, settled : Ways, asked : Nat, pending : SUBSET Requests, late : SUBSET Requests,
     ended : [Requests -> {"never", "timeout", "closed", "error"} \cup Planes], strays : Nat]

PortTyped ==
    /\ pipe \in [up : BOOLEAN, toChild : Seq(ChildFrames), toParent : Seq(ParentFrames)]
    /\ servers \in [Planes -> ServerStates]
    /\ clients \in [Planes -> ClientStates]

\* A client has requests that ended by its own plane, and none that waits for nothing.
InOrder(p, c) ==
    /\ \A r \in Requests : c.ended[r] \in {"never", "timeout", "closed", "error", p}
    /\ c.settled # "open" => c.pending \subseteq c.late

\* Only a stray frame breaks a session, and the one of the control plane.
StraysBreak ==
    /\ \A i \in DOMAIN pipe.toChild : pipe.toChild[i].kind = "malformed" => clients["control"].strays > 0
    /\ \A i \in DOMAIN pipe.toParent : pipe.toParent[i].kind = "protocol-error" =>
          pipe.toParent[i].channel = "control" /\ clients["control"].strays > 0
    /\ \A p \in Planes : servers[p].settled = "breach" \/ clients[p].settled = "breach" =>
          p = "control" /\ clients["control"].strays > 0

Of(msgs, i, p, kind) == i \in DOMAIN msgs /\ msgs[i].channel = p /\ msgs[i].kind = kind

\* A server is told once that its plane is ready, and before any request.
ReadyFirst(msgs, p, ready) ==
    IF ready THEN \A i \in DOMAIN msgs : ~Of(msgs, i, p, "ready")
    ELSE \E i \in DOMAIN msgs : /\ Of(msgs, i, p, "ready")
                                /\ \A j \in DOMAIN msgs : /\ Of(msgs, j, p, "ready") => j = i
                                                          /\ Of(msgs, j, p, "request") => j > i

PortInv ==
    /\ PortTyped
    /\ \A p \in Planes : InOrder(p, clients[p])
    /\ StraysBreak
    /\ \A p \in Planes : pipe.up /\ servers[p].settled = "open" => ReadyFirst(pipe.toChild, p, servers[p].ready)

\* A frame is sent: what is known of the queue.
LEMMA OneMore ==
    ASSUME NEW S, NEW s \in Seq(S), NEW e \in S
    PROVE  /\ s \o <<e>> \in Seq(S) /\ DOMAIN s = 1 .. Len(s) /\ DOMAIN (s \o <<e>>) = 1 .. Len(s) + 1
           /\ Len(s) \in Nat /\ (s \o <<e>>)[Len(s) + 1] = e
           /\ \A i \in 1 .. Len(s) : (s \o <<e>>)[i] = s[i]
  <1> DEFINE t == <<e>>
  <1>1. t \in Seq(S) /\ Len(t) = 1 /\ t[1] = e
    OBVIOUS
  <1> HIDE DEF t
  <1>2. s \o t \in Seq(S) /\ Len(s \o t) = Len(s) + Len(t)
        /\ \A i \in 1 .. Len(s) + Len(t) : (s \o t)[i] = IF i <= Len(s) THEN s[i] ELSE t[i - Len(s)]
    BY <1>1, ConcatProperties
  <1>3. Len(s) \in Nat /\ DOMAIN s = 1 .. Len(s) /\ DOMAIN (s \o t) = 1 .. Len(s \o t)
    BY <1>2
  <1>4. \A i \in 1 .. Len(s) : (s \o t)[i] = s[i]
    BY <1>1, <1>2, <1>3
  <1>5. (s \o t)[Len(s) + 1] = e
    BY <1>1, <1>2, <1>3
  <1>6. QED
    BY <1>1, <1>2, <1>3, <1>4, <1>5 DEF t

\* A frame that is not the plane's first word keeps the order of what is sent to it.
LEMMA OneMoreKeepsReady ==
    ASSUME NEW s \in Seq(ChildFrames), NEW e \in ChildFrames, e.kind # "ready", NEW p \in Planes, NEW ready \in BOOLEAN,
           ReadyFirst(s, p, ready)
    PROVE  ReadyFirst(s \o <<e>>, p, ready)
  <1>1. PICK t : t = s \o <<e>>
    OBVIOUS
  <1>2. /\ DOMAIN s = 1 .. Len(s) /\ DOMAIN t = 1 .. Len(s) + 1 /\ Len(s) \in Nat /\ t[Len(s) + 1] = e
        /\ \A i \in 1 .. Len(s) : t[i] = s[i]
    BY <1>1, OneMore
  <1>3. \A i \in DOMAIN t : (i \in DOMAIN s /\ t[i] = s[i]) \/ (i = Len(s) + 1 /\ t[i] = e)
    <2> SUFFICES ASSUME NEW i \in DOMAIN t PROVE (i \in DOMAIN s /\ t[i] = s[i]) \/ (i = Len(s) + 1 /\ t[i] = e)
      OBVIOUS
    <2>1. i \in 1 .. Len(s) + 1
      BY <1>2
    <2>2. i \in 1 .. Len(s) \/ i = Len(s) + 1
      BY <1>2, <2>1
    <2>3. QED
      BY <1>2, <2>2
  <1>4. CASE ready
    BY <1>1, <1>3, <1>4 DEF ReadyFirst, Of
  <1>5. CASE ~ready
    <2>1. PICK i \in DOMAIN s : /\ Of(s, i, p, "ready")
                                /\ \A j \in DOMAIN s : /\ Of(s, j, p, "ready") => j = i
                                                       /\ Of(s, j, p, "request") => j > i
      BY <1>5 DEF ReadyFirst
    <2>2. i \in DOMAIN t /\ Of(t, i, p, "ready")
      BY <1>2, <2>1 DEF Of
    <2>3. ASSUME NEW j \in DOMAIN t PROVE (Of(t, j, p, "ready") => j = i) /\ (Of(t, j, p, "request") => j > i)
      <3>1. CASE j \in DOMAIN s /\ t[j] = s[j]
        BY <2>1, <3>1 DEF Of
      <3>2. CASE j = Len(s) + 1 /\ t[j] = e
        BY <1>2, <3>2 DEF Of
      <3>3. QED
        BY <1>3, <3>1, <3>2
    <2>4. QED
      BY <1>1, <1>5, <2>2, <2>3 DEF ReadyFirst
  <1>6. QED
    BY <1>4, <1>5

\* The frames of a plane.
LEMMA FrameTyped ==
    ASSUME NEW p \in Planes, NEW kind, NEW n \in Nat
    PROVE  /\ Frame(p, kind, n).channel = p /\ Frame(p, kind, n).kind = kind
           /\ Frame(p, kind, n).r = n /\ Frame(p, kind, n).by = p
           /\ kind \in {"ready", "request", "shutdown"} => Frame(p, kind, n) \in ChildFrames
           /\ kind \in {"ready", "ok", "error", "protocol-error"} => Frame(p, kind, n) \in ParentFrames
  <1>1. PICK f : f = Frame(p, kind, n)
    OBVIOUS
  <1>2. f = [channel |-> p, kind |-> kind, r |-> n, by |-> p]
    BY <1>1 DEF Frame
  <1>3. f.channel = p /\ f.kind = kind /\ f.r = n /\ f.by = p /\ p # "none"
    BY <1>2 DEF Planes
  <1>4. kind \in {"ready", "request", "shutdown"} => f \in ChildFrames
    BY <1>2, <1>3 DEF ChildFrames
  <1>5. kind \in {"ready", "ok", "error", "protocol-error"} => f \in ParentFrames
    BY <1>2, <1>3 DEF ParentFrames
  <1>6. QED
    BY <1>1, <1>3, <1>4, <1>5

\* The ports are made.
LEMMA PortStart == PortInit => PortInv
  <1> SUFFICES ASSUME PortInit PROVE PortInv
    OBVIOUS
  <1>1. PICK f \in ChildFrames, g \in ChildFrames :
           /\ f = Frame("control", "ready", 0) /\ g = Frame("mainData", "ready", 0)
           /\ f.channel = "control" /\ f.kind = "ready" /\ g.channel = "mainData" /\ g.kind = "ready"
    BY FrameTyped DEF Planes
  <1>2. pipe = [up |-> TRUE, toChild |-> <<f, g>>, toParent |-> <<>>]
    BY <1>1 DEF PortInit
  <1>3. NewServer \in ServerStates /\ NewServer.settled = "open" /\ NewServer.ready = FALSE
    BY DEF NewServer, ServerStates, Ways
  <1>4. NewClient \in ClientStates /\ NewClient.settled = "open" /\ \A r \in Requests : NewClient.ended[r] = "never"
    BY DEF NewClient, ClientStates, Ways
  <1>5. PortTyped
    BY <1>1, <1>2, <1>3, <1>4 DEF PortInit, PortTyped
  <1>6. \A p \in Planes : InOrder(p, clients[p])
    BY <1>4 DEF PortInit, InOrder
  <1>7. pipe.toChild = <<f, g>> /\ pipe.toParent = <<>> /\ DOMAIN <<f, g>> = {1, 2} /\ <<f, g>>[1] = f /\ <<f, g>>[2] = g
    BY <1>2
  <1>8. StraysBreak
    BY <1>1, <1>3, <1>4, <1>7 DEF PortInit, StraysBreak
  <1>9. \A p \in Planes : ReadyFirst(pipe.toChild, p, servers[p].ready)
    BY <1>1, <1>3, <1>7 DEF PortInit, ReadyFirst, Of, Planes
  <1>10. QED
    BY <1>5, <1>6, <1>8, <1>9 DEF PortInv

\* A frame is taken: the others move up.
LEMMA OneLess ==
    ASSUME NEW S, NEW s \in Seq(S), s # <<>>
    PROVE  /\ Head(s) = s[1] /\ Head(s) \in S /\ 1 \in DOMAIN s /\ Tail(s) \in Seq(S) /\ DOMAIN s = 1 .. Len(s)
           /\ DOMAIN Tail(s) = 1 .. Len(s) - 1 /\ Len(s) \in Nat
           /\ \A i \in DOMAIN Tail(s) : i + 1 \in DOMAIN s /\ Tail(s)[i] = s[i + 1]
           /\ \A i \in DOMAIN s \ {1} : i - 1 \in DOMAIN Tail(s) /\ Tail(s)[i - 1] = s[i]
  <1>1. /\ Head(s) \in S /\ Tail(s) \in Seq(S) /\ Len(Tail(s)) = Len(s) - 1
        /\ \A i \in 1 .. Len(Tail(s)) : Tail(s)[i] = s[i + 1]
    BY HeadTailProperties
  <1>2. Len(s) \in Nat /\ Len(s) # 0 /\ DOMAIN s = 1 .. Len(s) /\ Head(s) = s[1]
    BY EmptySeq
  <1>3. DOMAIN Tail(s) = 1 .. Len(s) - 1 /\ 1 \in DOMAIN s
    BY <1>1, <1>2
  <1>4. \A i \in DOMAIN Tail(s) : i + 1 \in DOMAIN s /\ Tail(s)[i] = s[i + 1]
    BY <1>1, <1>2, <1>3
  <1>5. \A i \in DOMAIN s \ {1} : i - 1 \in DOMAIN Tail(s) /\ (i - 1) + 1 = i
    BY <1>2, <1>3
  <1>6. QED
    BY <1>1, <1>2, <1>3, <1>4, <1>5

\* The first frame is taken: what a plane still waits for comes in its order.
LEMMA OneLessKeepsReady ==
    ASSUME NEW s \in Seq(ChildFrames), s # <<>>, NEW p \in Planes, NEW ready \in BOOLEAN, ReadyFirst(s, p, ready)
    PROVE  /\ Head(s).channel = p /\ Head(s).kind = "request" => ready
           /\ Head(s).channel = p /\ Head(s).kind = "ready" => ~ready /\ ReadyFirst(Tail(s), p, TRUE)
           /\ ~(Head(s).channel = p /\ Head(s).kind = "ready") => ReadyFirst(Tail(s), p, ready)
  <1>1. PICK t : t = Tail(s)
    OBVIOUS
  <1>2. /\ Head(s) = s[1] /\ 1 \in DOMAIN s /\ DOMAIN s = 1 .. Len(s) /\ DOMAIN t = 1 .. Len(s) - 1 /\ Len(s) \in Nat
        /\ \A i \in DOMAIN t : i + 1 \in DOMAIN s /\ t[i] = s[i + 1]
        /\ \A i \in DOMAIN s \ {1} : i - 1 \in DOMAIN t /\ t[i - 1] = s[i]
    BY <1>1, OneLess
  <1>3. CASE ready
    <2>1. \A i \in DOMAIN s : ~Of(s, i, p, "ready")
      BY <1>3 DEF ReadyFirst
    <2>2. \A i \in DOMAIN t : ~Of(t, i, p, "ready")
      BY <1>2, <2>1 DEF Of
    <2>3. ~(Head(s).channel = p /\ Head(s).kind = "ready")
      BY <1>2, <2>1 DEF Of
    <2>4. QED
      BY <1>1, <1>3, <2>2, <2>3 DEF ReadyFirst
  <1>4. CASE ~ready
    <2>1. PICK i \in DOMAIN s : /\ Of(s, i, p, "ready")
                                /\ \A j \in DOMAIN s : /\ Of(s, j, p, "ready") => j = i
                                                       /\ Of(s, j, p, "request") => j > i
      BY <1>4 DEF ReadyFirst
    <2>2. ~(Head(s).channel = p /\ Head(s).kind = "request")
      <3>1. i >= 1
        BY <1>2
      <3>2. Of(s, 1, p, "request") => FALSE
        BY <1>2, <2>1, <3>1
      <3>3. QED
        BY <1>2, <3>2 DEF Of
    <2>3. CASE i = 1
      <3>1. \A j \in DOMAIN t : ~Of(t, j, p, "ready")
        <4>1. ASSUME NEW j \in DOMAIN t, Of(t, j, p, "ready") PROVE FALSE
          <5>1. j + 1 \in DOMAIN s /\ Of(s, j + 1, p, "ready")
            BY <1>2, <4>1 DEF Of
          <5>2. j + 1 = 1 /\ j \in 1 .. Len(s) - 1
            BY <1>2, <2>1, <2>3, <5>1
          <5>3. QED
            BY <1>2, <5>2
        <4>2. QED
          BY <4>1
      <3>2. Head(s).channel = p /\ Head(s).kind = "ready"
        BY <1>2, <2>1, <2>3 DEF Of
      <3>3. QED
        BY <1>1, <1>4, <2>2, <3>1, <3>2 DEF ReadyFirst
    <2>4. CASE i # 1
      <3>1. i - 1 \in DOMAIN t /\ Of(t, i - 1, p, "ready")
        BY <1>2, <2>1, <2>4 DEF Of
      <3>2. ASSUME NEW j \in DOMAIN t
            PROVE  (Of(t, j, p, "ready") => j = i - 1) /\ (Of(t, j, p, "request") => j > i - 1)
        <4>1. j + 1 \in DOMAIN s /\ t[j] = s[j + 1] /\ j \in 1 .. Len(s) - 1 /\ i \in 1 .. Len(s)
          BY <1>2
        <4>2. (Of(s, j + 1, p, "ready") => j + 1 = i) /\ (Of(s, j + 1, p, "request") => j + 1 > i)
          BY <2>1, <4>1
        <4>3. (Of(t, j, p, "ready") => Of(s, j + 1, p, "ready")) /\ (Of(t, j, p, "request") => Of(s, j + 1, p, "request"))
          BY <4>1 DEF Of
        <4>4. j + 1 = i => j = i - 1
          BY <1>2, <4>1
        <4>5. j + 1 > i => j > i - 1
          BY <1>2, <4>1
        <4>6. QED
          BY <4>2, <4>3, <4>4, <4>5
      <3>3. ReadyFirst(t, p, ready)
        BY <1>4, <3>1, <3>2 DEF ReadyFirst
      <3>4. ~(Head(s).channel = p /\ Head(s).kind = "ready")
        BY <1>2, <2>1, <2>4 DEF Of
      <3>5. QED
        BY <1>1, <2>2, <3>3, <3>4
    <2>5. QED
      BY <2>3, <2>4
  <1>5. QED
    BY <1>3, <1>4

\* One client changes.
LEMMA OneClient ==
    ASSUME PortInv, NEW p \in Planes, NEW d \in ClientStates, InOrder(p, d), d.strays = clients[p].strays,
           d.settled = "breach" => clients[p].settled = "breach" \/ (p = "control" /\ clients["control"].strays > 0),
           clients' = [clients EXCEPT ![p] = d]
    PROVE  /\ clients' \in [Planes -> ClientStates] /\ \A q \in Planes : InOrder(q, clients'[q])
           /\ clients'["control"].strays = clients["control"].strays
           /\ \A q \in Planes : clients'[q].settled = "breach" => q = "control" /\ clients["control"].strays > 0
  <1>1. clients \in [Planes -> ClientStates]
    BY DEF PortInv, PortTyped
  <1>2. \A q \in Planes : clients'[q] = IF q = p THEN d ELSE clients[q]
    BY <1>1
  <1>3. clients' \in [Planes -> ClientStates]
    BY <1>1
  <1>4. \A q \in Planes : InOrder(q, clients'[q])
    BY <1>2 DEF PortInv
  <1>5. clients'["control"].strays = clients["control"].strays
    BY <1>2 DEF Planes
  <1>6. \A q \in Planes : clients'[q].settled = "breach" => q = "control" /\ clients["control"].strays > 0
    BY <1>2 DEF PortInv, StraysBreak
  <1>7. QED
    BY <1>3, <1>4, <1>5, <1>6

\* settle() ends what waits, once.
LEMMA SettledInOrder ==
    ASSUME NEW p \in Planes, NEW c \in ClientStates, InOrder(p, c), NEW how \in {"clean", "breach"}
    PROVE  /\ Settled(c, how) \in ClientStates /\ InOrder(p, Settled(c, how)) /\ Settled(c, how).strays = c.strays
           /\ Settled(c, how).settled = "breach" => c.settled = "breach" \/ how = "breach"
  <1>1. CASE c.settled # "open"
    BY <1>1 DEF Settled
  <1>2. CASE c.settled = "open"
    <2>1. PICK E \in [Requests -> {"never", "timeout", "closed", "error"} \cup Planes] :
             E = [r \in Requests |-> IF r \in c.pending THEN "closed" ELSE c.ended[r]]
      BY DEF ClientStates
    <2>2. PICK w \in Ways : w = how
      BY DEF Ways
    <2>3. PICK none \in SUBSET Requests : none = {}
      OBVIOUS
    <2>4. Settled(c, how) = [c EXCEPT !.settled = w, !.pending = none, !.ended = E]
      BY <1>2, <2>1, <2>2, <2>3 DEF Settled
    <2>5. PICK d : d = [c EXCEPT !.settled = w, !.pending = none, !.ended = E]
      OBVIOUS
    <2>6. d \in ClientStates /\ d.settled = w /\ d.pending = none /\ d.ended = E /\ d.strays = c.strays
      BY <2>5 DEF ClientStates
    <2>7. InOrder(p, d)
      BY <2>1, <2>3, <2>6 DEF InOrder
    <2>8. QED
      BY <2>2, <2>4, <2>5, <2>6, <2>7
  <1>3. QED
    BY <1>1, <1>2

\* The server takes a frame.
LEMMA ServerKeepsPorts ==
    ASSUME PortInv, ServerReceives
    PROVE  PortInv'
  <1> DEFINE m == Head(pipe.toChild)
             s == servers[Demux(m)]
  <1>1. pipe.toChild \in Seq(ChildFrames) /\ pipe.toParent \in Seq(ParentFrames) /\ pipe.up = TRUE /\ pipe.toChild # <<>>
    BY DEF PortInv, PortTyped, ServerReceives
  <1>2. /\ m \in ChildFrames /\ m = pipe.toChild[1] /\ 1 \in DOMAIN pipe.toChild
        /\ Tail(pipe.toChild) \in Seq(ChildFrames)
        /\ \A i \in DOMAIN Tail(pipe.toChild) : i + 1 \in DOMAIN pipe.toChild /\ Tail(pipe.toChild)[i] = pipe.toChild[i + 1]
    BY <1>1, OneLess
  <1>3. /\ Demux(m) \in Planes /\ (m.kind = "malformed" => Demux(m) = "control")
        /\ (m.kind # "malformed" => m.channel = Demux(m)) /\ m.r \in Nat
        /\ m.kind \in {"ready", "request", "shutdown", "malformed"}
    BY <1>2 DEF ChildFrames, Demux, Planes
  <1>4. m.kind = "malformed" => clients["control"].strays > 0
    BY <1>2 DEF PortInv, StraysBreak
  <1>5. s \in ServerStates
    BY <1>3 DEF PortInv, PortTyped
  <1>6. UNCHANGED clients
    BY DEF ServerReceives
  <1>7. \A q \in Planes : servers[q].settled = "open" =>
           /\ m.channel = q /\ m.kind = "request" => servers[q].ready
           /\ m.channel = q /\ m.kind = "ready" => ~servers[q].ready /\ ReadyFirst(Tail(pipe.toChild), q, TRUE)
           /\ ~(m.channel = q /\ m.kind = "ready") => ReadyFirst(Tail(pipe.toChild), q, servers[q].ready)
    <2> SUFFICES ASSUME NEW q \in Planes, servers[q].settled = "open"
                 PROVE  /\ m.channel = q /\ m.kind = "request" => servers[q].ready
                        /\ m.channel = q /\ m.kind = "ready" => ~servers[q].ready /\ ReadyFirst(Tail(pipe.toChild), q, TRUE)
                        /\ ~(m.channel = q /\ m.kind = "ready") => ReadyFirst(Tail(pipe.toChild), q, servers[q].ready)
      OBVIOUS
    <2>1. servers[q].ready \in BOOLEAN
      BY DEF PortInv, PortTyped, ServerStates
    <2>2. ReadyFirst(pipe.toChild, q, servers[q].ready)
      BY <1>1 DEF PortInv
    <2>3. QED
      BY <1>1, <2>1, <2>2, OneLessKeepsReady
  <1>8. ASSUME NEW t \in ServerStates, NEW answer \in Seq(ParentFrames),
               servers' = [servers EXCEPT ![Demux(m)] = t],
               pipe' = [pipe EXCEPT !.toChild = Tail(pipe.toChild), !.toParent = answer],
               t.settled = "breach" => s.settled = "breach" \/ m.kind = "malformed",
               \A i \in DOMAIN answer : answer[i].kind = "protocol-error" =>
                  answer[i].channel = "control" /\ clients["control"].strays > 0,
               t.settled = "open" => s.settled = "open" /\ ReadyFirst(Tail(pipe.toChild), Demux(m), t.ready)
                                     /\ ~(m.kind = "ready" /\ s.ready)
        PROVE  PortInv'
    <2>1. /\ pipe' \in [up : BOOLEAN, toChild : Seq(ChildFrames), toParent : Seq(ParentFrames)]
          /\ pipe'.toChild = Tail(pipe.toChild) /\ pipe'.toParent = answer /\ pipe'.up = pipe.up
      BY <1>2, <1>8 DEF PortInv, PortTyped
    <2>2. servers' \in [Planes -> ServerStates] /\ \A q \in Planes : servers'[q] = IF q = Demux(m) THEN t ELSE servers[q]
      BY <1>3, <1>8 DEF PortInv, PortTyped
    <2>3. PortTyped'
      BY <1>6, <2>1, <2>2 DEF PortInv, PortTyped
    <2>4. \A q \in Planes : InOrder(q, clients[q])
      BY DEF PortInv
    <2>5. StraysBreak'
      <3>1. \A i \in DOMAIN pipe'.toChild : pipe'.toChild[i].kind = "malformed" => clients["control"].strays > 0
        BY <1>2, <2>1 DEF PortInv, StraysBreak
      <3>2. \A q \in Planes : servers'[q].settled = "breach" \/ clients[q].settled = "breach" =>
               q = "control" /\ clients["control"].strays > 0
        BY <1>3, <1>4, <1>8, <2>2 DEF PortInv, StraysBreak
      <3>3. QED
        BY <1>6, <1>8, <2>1, <3>1, <3>2 DEF StraysBreak
    <2>6. ASSUME NEW q \in Planes, servers'[q].settled = "open"
          PROVE  ReadyFirst(pipe'.toChild, q, servers'[q].ready)
      <3>1. CASE q = Demux(m)
        BY <1>8, <2>1, <2>2, <2>6, <3>1
      <3>2. CASE q # Demux(m)
        <4>1. ~(m.channel = q /\ m.kind = "ready")
          BY <1>3, <3>2
        <4>2. QED
          BY <1>7, <2>1, <2>2, <2>6, <3>2, <4>1
      <3>3. QED
        BY <3>1, <3>2
    <2>7. QED
      BY <1>6, <2>3, <2>4, <2>5, <2>6 DEF PortInv, ReadyFirst, Of, InOrder
  <1>9. \A i \in DOMAIN pipe.toParent : pipe.toParent[i].kind = "protocol-error" =>
           pipe.toParent[i].channel = "control" /\ clients["control"].strays > 0
    BY DEF PortInv, StraysBreak
  <1>10. CASE s.settled # "open"
    <2>1. servers' = [servers EXCEPT ![Demux(m)] = s] /\ pipe' = [pipe EXCEPT !.toChild = Tail(pipe.toChild), !.toParent = pipe.toParent]
      BY <1>10 DEF ServerReceives
    <2>2. QED
      BY <1>1, <1>5, <1>8, <1>9, <1>10, <2>1
  <1>11. CASE s.settled = "open" /\ Breaches(s, m)
    <2>1. m.kind = "malformed"
      BY <1>3, <1>7, <1>11 DEF Breaches
    <2>2. PICK f \in ParentFrames : f = Frame(Demux(m), "protocol-error", 0) /\ f.channel = "control" /\ f.kind = "protocol-error"
      BY <1>3, <2>1, FrameTyped
    <2>3. PICK t : t = [s EXCEPT !.settled = "breach"]
      OBVIOUS
    <2>4. t \in ServerStates /\ t.settled = "breach"
      BY <1>5, <2>3 DEF ServerStates, Ways
    <2>5. servers' = [servers EXCEPT ![Demux(m)] = t]
          /\ pipe' = [pipe EXCEPT !.toChild = Tail(pipe.toChild), !.toParent = pipe.toParent \o <<f>>]
      BY <1>1, <1>11, <2>1, <2>2, <2>3 DEF ServerReceives, Reply, Sent
    <2>6. PICK a : a = pipe.toParent \o <<f>>
      OBVIOUS
    <2>7. /\ a \in Seq(ParentFrames) /\ DOMAIN pipe.toParent = 1 .. Len(pipe.toParent) /\ DOMAIN a = 1 .. Len(pipe.toParent) + 1
          /\ Len(pipe.toParent) \in Nat /\ a[Len(pipe.toParent) + 1] = f
          /\ \A i \in 1 .. Len(pipe.toParent) : a[i] = pipe.toParent[i]
      BY <1>1, <2>6, OneMore
    <2>8. \A i \in DOMAIN a : i \in 1 .. Len(pipe.toParent) \/ i = Len(pipe.toParent) + 1
      BY <2>7
    <2>9. \A i \in DOMAIN a : a[i].kind = "protocol-error" => a[i].channel = "control" /\ clients["control"].strays > 0
      BY <1>4, <1>9, <2>1, <2>2, <2>7, <2>8
    <2>10. QED
      BY <1>8, <2>1, <2>4, <2>5, <2>6, <2>7, <2>9
  <1>12. CASE s.settled = "open" /\ ~Breaches(s, m) /\ m.kind = "shutdown"
    <2>1. PICK t : t = [s EXCEPT !.settled = "clean"]
      OBVIOUS
    <2>2. t \in ServerStates /\ t.settled = "clean"
      BY <1>5, <2>1 DEF ServerStates, Ways
    <2>3. servers' = [servers EXCEPT ![Demux(m)] = t]
          /\ pipe' = [pipe EXCEPT !.toChild = Tail(pipe.toChild), !.toParent = pipe.toParent]
      BY <1>12, <2>1 DEF ServerReceives
    <2>4. QED
      BY <1>1, <1>8, <1>9, <2>2, <2>3
  <1>13. CASE s.settled = "open" /\ ~Breaches(s, m) /\ m.kind = "ready"
    <2>0. s.ready = FALSE /\ ReadyFirst(Tail(pipe.toChild), Demux(m), TRUE)
      BY <1>3, <1>5, <1>7, <1>13 DEF ServerStates
    <2>1. PICK t : t = [s EXCEPT !.ready = TRUE]
      OBVIOUS
    <2>2. t \in ServerStates /\ t.settled = "open" /\ t.ready = TRUE
      BY <1>5, <1>13, <2>1 DEF ServerStates, Ways
    <2>3. PICK f \in ParentFrames : f = Frame(Demux(m), "ready", 0) /\ f.kind = "ready"
      BY <1>3, FrameTyped
    <2>4. servers' = [servers EXCEPT ![Demux(m)] = t]
          /\ pipe' = [pipe EXCEPT !.toChild = Tail(pipe.toChild), !.toParent = pipe.toParent \o <<f>>]
      BY <1>1, <1>13, <2>0, <2>1, <2>3 DEF ServerReceives, Reply, Sent
    <2>5. PICK a : a = pipe.toParent \o <<f>>
      OBVIOUS
    <2>6. /\ a \in Seq(ParentFrames) /\ DOMAIN pipe.toParent = 1 .. Len(pipe.toParent) /\ DOMAIN a = 1 .. Len(pipe.toParent) + 1
          /\ Len(pipe.toParent) \in Nat /\ a[Len(pipe.toParent) + 1] = f
          /\ \A i \in 1 .. Len(pipe.toParent) : a[i] = pipe.toParent[i]
      BY <1>1, <2>5, OneMore
    <2>7. \A i \in DOMAIN a : i \in 1 .. Len(pipe.toParent) \/ i = Len(pipe.toParent) + 1
      BY <2>6
    <2>8. \A i \in DOMAIN a : a[i].kind = "protocol-error" => a[i].channel = "control" /\ clients["control"].strays > 0
      BY <1>9, <2>3, <2>6, <2>7
    <2>9. QED
      BY <1>8, <1>13, <2>0, <2>2, <2>4, <2>5, <2>6, <2>8
  <1>14. CASE s.settled = "open" /\ ~Breaches(s, m) /\ m.kind = "request"
    <2>0. s.ready = TRUE /\ ReadyFirst(Tail(pipe.toChild), Demux(m), s.ready)
      BY <1>3, <1>5, <1>7, <1>14 DEF ServerStates
    <2>1. PICK R \in SUBSET Nat : R = s.running \cup {m.r}
      BY <1>3, <1>5 DEF ServerStates
    <2>2. PICK t : t = [s EXCEPT !.running = R]
      OBVIOUS
    <2>3. t \in ServerStates /\ t.settled = s.settled /\ t.ready = s.ready
      BY <1>5, <2>2 DEF ServerStates
    <2>4. servers' = [servers EXCEPT ![Demux(m)] = t]
          /\ pipe' = [pipe EXCEPT !.toChild = Tail(pipe.toChild), !.toParent = pipe.toParent]
      BY <1>14, <2>0, <2>1, <2>2 DEF ServerReceives
    <2>5. QED
      BY <1>1, <1>8, <1>9, <1>14, <2>0, <2>3, <2>4
  <1>15. QED
    BY <1>3, <1>10, <1>11, <1>12, <1>13, <1>14 DEF Breaches

\* A dispatch ends: the client has its own answer on the way.
LEMMA DispatchKeepsPorts ==
    ASSUME PortInv, NEW p \in Planes, NEW n \in Requests, NEW kind \in {"ok", "error"}, DispatchEnds(p, n, kind)
    PROVE  PortInv'
  <1>1. pipe.toParent \in Seq(ParentFrames) /\ pipe.up = TRUE /\ n \in Nat /\ UNCHANGED clients
    BY DEF PortInv, PortTyped, DispatchEnds, Requests
  <1>2. PICK f \in ParentFrames : f = Frame(p, kind, n) /\ f.kind = kind
    BY <1>1, FrameTyped
  <1>3. PICK a : a = IF servers[p].settled = "open" THEN pipe.toParent \o <<f>> ELSE pipe.toParent
    OBVIOUS
  <1>4. /\ a \in Seq(ParentFrames)
        /\ \A i \in DOMAIN a : a[i].kind = "protocol-error" => i \in DOMAIN pipe.toParent /\ a[i] = pipe.toParent[i]
    <2>1. PICK b : b = pipe.toParent \o <<f>>
      OBVIOUS
    <2>2. /\ b \in Seq(ParentFrames) /\ DOMAIN pipe.toParent = 1 .. Len(pipe.toParent) /\ DOMAIN b = 1 .. Len(pipe.toParent) + 1
          /\ Len(pipe.toParent) \in Nat /\ b[Len(pipe.toParent) + 1] = f
          /\ \A i \in 1 .. Len(pipe.toParent) : b[i] = pipe.toParent[i]
      BY <1>1, <2>1, OneMore
    <2>3. \A i \in DOMAIN b : i \in 1 .. Len(pipe.toParent) \/ i = Len(pipe.toParent) + 1
      BY <2>2
    <2>4. \A i \in DOMAIN b : b[i].kind = "protocol-error" => i \in DOMAIN pipe.toParent /\ b[i] = pipe.toParent[i]
      BY <1>2, <2>2, <2>3
    <2>5. QED
      BY <1>1, <1>3, <2>1, <2>2, <2>4
  <1>5. /\ pipe' \in [up : BOOLEAN, toChild : Seq(ChildFrames), toParent : Seq(ParentFrames)]
        /\ pipe'.toChild = pipe.toChild /\ pipe'.toParent = a /\ pipe'.up = pipe.up
    <2>1. pipe' = [pipe EXCEPT !.toParent = a]
      BY <1>1, <1>2, <1>3 DEF DispatchEnds, Reply, Sent
    <2>2. QED
      BY <1>4, <2>1 DEF PortInv, PortTyped
  <1>6. /\ servers' \in [Planes -> ServerStates]
        /\ \A q \in Planes : servers'[q].ready = servers[q].ready /\ servers'[q].settled = servers[q].settled
    <2>1. PICK R \in SUBSET Nat : R = servers[p].running \ {n}
      BY DEF PortInv, PortTyped, ServerStates
    <2>2. servers' = [servers EXCEPT ![p].running = R]
      BY <2>1 DEF DispatchEnds
    <2>3. QED
      BY <2>2 DEF PortInv, PortTyped, ServerStates
  <1>7. PortTyped'
    BY <1>1, <1>5, <1>6 DEF PortInv, PortTyped
  <1>8. StraysBreak'
    BY <1>1, <1>4, <1>5, <1>6 DEF PortInv, StraysBreak
  <1>9. QED
    BY <1>1, <1>5, <1>6, <1>7, <1>8 DEF PortInv, InOrder, ReadyFirst, Of

\* A client's own steps, and what they send.
LEMMA ClientKeepsPorts ==
    ASSUME PortInv, NEW p \in Planes, NEW d \in ClientStates, InOrder(p, d), d.strays = clients[p].strays,
           d.settled = "breach" => clients[p].settled = "breach" \/ (p = "control" /\ clients["control"].strays > 0),
           clients' = [clients EXCEPT ![p] = d], UNCHANGED servers,
           NEW f \in ChildFrames, f.kind \in {"request", "shutdown"},
           NEW sends \in BOOLEAN, sends => pipe.up, NEW takes \in BOOLEAN, takes => pipe.toParent # <<>>,
           pipe' = [pipe EXCEPT !.toChild = IF sends THEN pipe.toChild \o <<f>> ELSE pipe.toChild,
                                !.toParent = IF takes THEN Tail(pipe.toParent) ELSE pipe.toParent]
    PROVE  PortInv'
  <1>1. /\ clients' \in [Planes -> ClientStates] /\ \A q \in Planes : InOrder(q, clients'[q])
        /\ clients'["control"].strays = clients["control"].strays
        /\ \A q \in Planes : clients'[q].settled = "breach" => q = "control" /\ clients["control"].strays > 0
    BY OneClient
  <1>2. pipe.toChild \in Seq(ChildFrames) /\ pipe.toParent \in Seq(ParentFrames)
    BY DEF PortInv, PortTyped
  <1>3. PICK c : c = IF sends THEN pipe.toChild \o <<f>> ELSE pipe.toChild
    OBVIOUS
  <1>4. /\ c \in Seq(ChildFrames)
        /\ \A i \in DOMAIN c : c[i].kind = "malformed" => i \in DOMAIN pipe.toChild /\ c[i] = pipe.toChild[i]
        /\ \A q \in Planes : servers[q].ready \in BOOLEAN /\ ReadyFirst(pipe.toChild, q, servers[q].ready) => ReadyFirst(c, q, servers[q].ready)
    <2>1. PICK b : b = pipe.toChild \o <<f>>
      OBVIOUS
    <2>2. /\ b \in Seq(ChildFrames) /\ DOMAIN pipe.toChild = 1 .. Len(pipe.toChild) /\ DOMAIN b = 1 .. Len(pipe.toChild) + 1
          /\ Len(pipe.toChild) \in Nat /\ b[Len(pipe.toChild) + 1] = f
          /\ \A i \in 1 .. Len(pipe.toChild) : b[i] = pipe.toChild[i]
      BY <1>2, <2>1, OneMore
    <2>3. \A i \in DOMAIN b : i \in 1 .. Len(pipe.toChild) \/ i = Len(pipe.toChild) + 1
      BY <2>2
    <2>4. \A i \in DOMAIN b : b[i].kind = "malformed" => i \in DOMAIN pipe.toChild /\ b[i] = pipe.toChild[i]
      BY <2>2, <2>3
    <2>5. \A q \in Planes : servers[q].ready \in BOOLEAN /\ ReadyFirst(pipe.toChild, q, servers[q].ready) => ReadyFirst(b, q, servers[q].ready)
      BY <1>2, <2>1, OneMoreKeepsReady
    <2>6. QED
      BY <1>2, <1>3, <2>1, <2>2, <2>4, <2>5
  <1>5. PICK a : a = IF takes THEN Tail(pipe.toParent) ELSE pipe.toParent
    OBVIOUS
  <1>6. a \in Seq(ParentFrames) /\ \A i \in DOMAIN a : \E j \in DOMAIN pipe.toParent : a[i] = pipe.toParent[j]
    BY <1>2, <1>5, OneLess
  <1>7. /\ pipe' \in [up : BOOLEAN, toChild : Seq(ChildFrames), toParent : Seq(ParentFrames)]
        /\ pipe'.toChild = c /\ pipe'.toParent = a /\ pipe'.up = pipe.up
    <2>1. pipe' = [pipe EXCEPT !.toChild = c, !.toParent = a]
      BY <1>3, <1>5
    <2>2. QED
      BY <1>4, <1>6, <2>1 DEF PortInv, PortTyped
  <1>8. PortTyped'
    BY <1>1, <1>7 DEF PortInv, PortTyped
  <1>9. StraysBreak'
    <2>1. \A i \in DOMAIN c : c[i].kind = "malformed" => clients["control"].strays > 0
      BY <1>4 DEF PortInv, StraysBreak
    <2>2. \A i \in DOMAIN a : a[i].kind = "protocol-error" => a[i].channel = "control" /\ clients["control"].strays > 0
      BY <1>6 DEF PortInv, StraysBreak
    <2>3. \A q \in Planes : servers[q].settled = "breach" => q = "control" /\ clients["control"].strays > 0
      BY DEF PortInv, StraysBreak
    <2>4. QED
      BY <1>1, <1>7, <2>1, <2>2, <2>3 DEF StraysBreak
  <1>10. ASSUME NEW q \in Planes, pipe.up, servers[q].settled = "open" PROVE ReadyFirst(c, q, servers[q].ready)
    <2>1. servers[q].ready \in BOOLEAN
      BY DEF PortInv, PortTyped, ServerStates
    <2>2. ReadyFirst(pipe.toChild, q, servers[q].ready)
      BY <1>10 DEF PortInv
    <2>3. QED
      BY <1>4, <2>1, <2>2
  <1>11. \A q \in Planes : (pipe.up /\ servers[q].settled = "open")' => ReadyFirst(pipe.toChild, q, servers[q].ready)'
    <2>1. \A q \in Planes : pipe'.up /\ servers'[q].settled = "open" => ReadyFirst(pipe'.toChild, q, servers'[q].ready)
      BY <1>7, <1>10
    <2>2. QED
      BY <2>1 DEF ReadyFirst, Of
  <1>12. \A q \in Planes : InOrder(q, clients[q])'
    BY <1>1 DEF InOrder
  <1>13. QED
    BY <1>8, <1>9, <1>11, <1>12 DEF PortInv

\* A request is posted, or given up.
LEMMA RequestsKeepPorts ==
    ASSUME PortInv, NEW p \in Planes, Request(p) \/ \E n \in Requests : RequestTimesOut(p, n)
    PROVE  PortInv'
  <1>1. clients \in [Planes -> ClientStates] /\ clients[p] \in ClientStates /\ InOrder(p, clients[p])
        /\ pipe.up \in BOOLEAN /\ pipe.toParent \in Seq(ParentFrames) /\ pipe.toChild \in Seq(ChildFrames)
    BY DEF PortInv, PortTyped
  <1>2. UNCHANGED servers
    BY DEF Request, RequestTimesOut
  <1>3. CASE Request(p)
    <2>1. PICK n : n = clients[p].asked + 1
      OBVIOUS
    <2>2. n \in Nat /\ n \in Requests
      <3>1. clients["control"].asked \in Nat /\ clients["mainData"].asked \in Nat /\ (p = "control" \/ p = "mainData")
        BY <1>1 DEF ClientStates, Planes
      <3>2. clients["control"].asked + clients["mainData"].asked < MaxRequests
        BY <1>3 DEF Request
      <3>3. QED
        BY <2>1, <3>1, <3>2, PortAssumption DEF Requests
    <2>3. PICK P \in SUBSET Requests, L \in SUBSET Requests :
             /\ P = clients[p].pending \cup {n}
             /\ L = IF clients[p].settled # "open" \/ ~pipe.up THEN clients[p].late \cup {n} ELSE clients[p].late
      BY <1>1, <2>2 DEF ClientStates
    <2>4. PICK d : d = [clients[p] EXCEPT !.asked = n, !.pending = P, !.late = L]
      OBVIOUS
    <2>5. clients' = [clients EXCEPT ![p] = d]
      BY <1>1, <1>3, <2>1, <2>3, <2>4 DEF Request
    <2>6. d \in ClientStates /\ d.settled = clients[p].settled /\ d.strays = clients[p].strays /\ d.ended = clients[p].ended
          /\ d.pending = P /\ d.late = L
      BY <1>1, <2>2, <2>4 DEF ClientStates
    <2>7. InOrder(p, d)
      BY <1>1, <2>3, <2>6 DEF InOrder
    <2>8. PICK f \in ChildFrames : f = Frame(p, "request", n) /\ f.kind = "request"
      BY <2>2, FrameTyped
    <2>9. pipe' = [pipe EXCEPT !.toChild = IF pipe.up THEN pipe.toChild \o <<f>> ELSE pipe.toChild,
                               !.toParent = IF FALSE THEN Tail(pipe.toParent) ELSE pipe.toParent]
      BY <1>3, <2>1, <2>8 DEF Request, Sent, PortInv, PortTyped
    <2>10. QED
      BY <1>1, <1>2, <2>5, <2>6, <2>7, <2>8, <2>9, ClientKeepsPorts
  <1>4. CASE \E n \in Requests : RequestTimesOut(p, n)
    <2>1. PICK n \in Requests : RequestTimesOut(p, n)
      BY <1>4
    <2>2. PICK P \in SUBSET Requests, E \in [Requests -> {"never", "timeout", "closed", "error"} \cup Planes] :
             P = clients[p].pending \ {n} /\ E = [clients[p].ended EXCEPT ![n] = "timeout"]
      BY <1>1 DEF ClientStates
    <2>3. PICK d : d = [clients[p] EXCEPT !.pending = P, !.ended = E]
      OBVIOUS
    <2>4. clients' = [clients EXCEPT ![p] = d]
      <3>1. clients' = [clients EXCEPT ![p].pending = @ \ {n}, ![p].ended[n] = "timeout"]
        BY <2>1 DEF RequestTimesOut
      <3>2. clients' = [clients EXCEPT ![p] = [clients[p] EXCEPT !.pending = clients[p].pending \ {n},
                                                               !.ended = [clients[p].ended EXCEPT ![n] = "timeout"]]]
        BY <1>1, <3>1 DEF ClientStates
      <3>3. QED
        BY <2>2, <2>3, <3>2
    <2>5. d \in ClientStates /\ d.settled = clients[p].settled /\ d.strays = clients[p].strays /\ d.ended = E
          /\ d.pending = P /\ d.late = clients[p].late
      BY <1>1, <2>3 DEF ClientStates
    <2>6. InOrder(p, d)
      BY <1>1, <2>2, <2>5 DEF InOrder, ClientStates
    <2>7. PICK f \in ChildFrames : f.kind = "request"
      <3>1. 0 \in Nat
        OBVIOUS
      <3>2. QED
        BY <3>1, FrameTyped
    <2>8. pipe' = [pipe EXCEPT !.toChild = IF FALSE THEN pipe.toChild \o <<f>> ELSE pipe.toChild,
                               !.toParent = IF FALSE THEN Tail(pipe.toParent) ELSE pipe.toParent]
      BY <2>1 DEF RequestTimesOut, PortInv, PortTyped
    <2>9. QED
      BY <1>1, <1>2, <2>4, <2>5, <2>6, <2>7, <2>8, ClientKeepsPorts
  <1>5. QED
    BY <1>3, <1>4

\* The client takes a frame, or closes.
LEMMA ClientStepsKeepPorts ==
    ASSUME PortInv, ClientReceives \/ \E p \in Planes : ClosePort(p)
    PROVE  PortInv'
  <1>1. /\ clients \in [Planes -> ClientStates] /\ \A p \in Planes : clients[p] \in ClientStates /\ InOrder(p, clients[p])
        /\ pipe.up \in BOOLEAN /\ pipe.toParent \in Seq(ParentFrames) /\ pipe.toChild \in Seq(ChildFrames)
    BY DEF PortInv, PortTyped
  <1>2. UNCHANGED servers
    BY DEF ClientReceives, ClosePort
  <1>3. CASE ClientReceives
    <2>1. PICK m : m = Head(pipe.toParent)
      OBVIOUS
    <2>2. pipe.toParent # <<>> /\ m \in ParentFrames /\ m = pipe.toParent[1] /\ 1 \in DOMAIN pipe.toParent
      BY <1>1, <1>3, <2>1, OneLess DEF ClientReceives
    <2>3. PICK p \in Planes : p = Demux(m) /\ m.channel = p /\ m.by = p
      BY <2>2 DEF ParentFrames, Demux, Planes
    <2>4. m.kind = "protocol-error" => p = "control" /\ clients["control"].strays > 0
      BY <2>2, <2>3 DEF PortInv, StraysBreak
    <2>5. PICK d : d = CASE m.kind = "protocol-error" -> Settled(clients[p], "breach")
                         [] m.kind = "ready" -> [clients[p] EXCEPT !.ready = TRUE]
                         [] m.kind \in {"ok", "error"} -> Resolved(clients[p], m)
      OBVIOUS
    <2>6. clients' = [clients EXCEPT ![p] = d]
      BY <1>1, <1>3, <2>1, <2>3, <2>5 DEF ClientReceives
    <2>7. /\ d \in ClientStates /\ InOrder(p, d) /\ d.strays = clients[p].strays
          /\ d.settled = "breach" => clients[p].settled = "breach" \/ m.kind = "protocol-error"
      <3>1. CASE m.kind = "protocol-error"
        <4>1. d = Settled(clients[p], "breach")
          BY <2>5, <3>1
        <4>2. QED
          BY <1>1, <3>1, <4>1, SettledInOrder
      <3>2. CASE m.kind = "ready"
        <4>1. d = [clients[p] EXCEPT !.ready = TRUE]
          BY <2>5, <3>2
        <4>2. QED
          BY <1>1, <4>1 DEF ClientStates, InOrder
      <3>3. CASE m.kind \in {"ok", "error"} /\ m.r \in clients[p].pending
        <4>1. PICK e \in {"error"} \cup Planes : e = IF m.kind = "error" THEN "error" ELSE m.by
          BY <2>3
        <4>2. e \in {"error", p}
          BY <2>3, <4>1
        <4>3. m.r \in Requests
          BY <1>1, <3>3 DEF ClientStates
        <4>4. PICK P \in SUBSET Requests, E \in [Requests -> {"never", "timeout", "closed", "error"} \cup Planes] :
                 P = clients[p].pending \ {m.r} /\ E = [clients[p].ended EXCEPT ![m.r] = e]
          BY <1>1 DEF ClientStates
        <4>5. d = [clients[p] EXCEPT !.pending = P, !.ended = E]
          <5>1. d = Resolved(clients[p], m)
            BY <2>5, <3>3
          <5>2. d = [clients[p] EXCEPT !.pending = @ \ {m.r}, !.ended[m.r] = e]
            BY <3>3, <4>1, <5>1 DEF Resolved
          <5>3. QED
            BY <1>1, <4>4, <5>2 DEF ClientStates
        <4>6. d \in ClientStates /\ d.settled = clients[p].settled /\ d.strays = clients[p].strays /\ d.ended = E
              /\ d.pending = P /\ d.late = clients[p].late
          BY <1>1, <4>5 DEF ClientStates
        <4>7. InOrder(p, d)
          BY <1>1, <4>2, <4>4, <4>6 DEF InOrder, ClientStates
        <4>8. QED
          BY <4>6, <4>7
      <3>4. CASE m.kind \in {"ok", "error"} /\ m.r \notin clients[p].pending
        BY <1>1, <2>5, <3>4 DEF Resolved
      <3>5. QED
        BY <2>2, <3>1, <3>2, <3>3, <3>4 DEF ParentFrames
    <2>8. PICK f \in ChildFrames : f.kind = "request"
      <3>1. 0 \in Nat
        OBVIOUS
      <3>2. QED
        BY <3>1, FrameTyped
    <2>9. pipe' = [pipe EXCEPT !.toChild = IF FALSE THEN pipe.toChild \o <<f>> ELSE pipe.toChild,
                               !.toParent = IF TRUE THEN Tail(pipe.toParent) ELSE pipe.toParent]
      BY <1>3 DEF ClientReceives, PortInv, PortTyped
    <2>10. QED
      BY <1>1, <1>2, <2>2, <2>4, <2>6, <2>7, <2>8, <2>9, ClientKeepsPorts
  <1>4. CASE \E p \in Planes : ClosePort(p)
    <2>1. PICK p \in Planes : ClosePort(p)
      BY <1>4
    <2>2. PICK d : d = Settled(clients[p], "clean")
      OBVIOUS
    <2>3. /\ d \in ClientStates /\ InOrder(p, d) /\ d.strays = clients[p].strays
          /\ d.settled = "breach" => clients[p].settled = "breach"
      BY <1>1, <2>2, SettledInOrder
    <2>4. clients' = [clients EXCEPT ![p] = d]
      BY <1>1, <2>1, <2>2 DEF ClosePort
    <2>5. PICK f \in ChildFrames : f = Frame(p, "shutdown", 0) /\ f.kind = "shutdown"
      <3>1. 0 \in Nat
        OBVIOUS
      <3>2. QED
        BY <3>1, FrameTyped
    <2>6. PICK b \in BOOLEAN : b <=> (clients[p].ready /\ pipe.up)
      OBVIOUS
    <2>7. pipe' = [pipe EXCEPT !.toChild = IF b THEN pipe.toChild \o <<f>> ELSE pipe.toChild,
                               !.toParent = IF FALSE THEN Tail(pipe.toParent) ELSE pipe.toParent]
      <3>1. pipe' = [pipe EXCEPT !.toChild = IF clients[p].ready THEN Sent(pipe.toChild, <<f>>) ELSE pipe.toChild]
        BY <2>1, <2>5 DEF ClosePort
      <3>2. (IF clients[p].ready THEN Sent(pipe.toChild, <<f>>) ELSE pipe.toChild) =
               IF b THEN pipe.toChild \o <<f>> ELSE pipe.toChild
        BY <2>6 DEF Sent
      <3>3. QED
        BY <3>1, <3>2 DEF PortInv, PortTyped
    <2>8. QED
      BY <1>1, <1>2, <2>3, <2>4, <2>5, <2>6, <2>7, ClientKeepsPorts
  <1>5. QED
    BY <1>3, <1>4

\* The pipe closes under both planes.
LEMMA PipeKeepsPorts ==
    ASSUME PortInv, PipeCloses
    PROVE  PortInv'
  <1>1. UNCHANGED servers
    BY DEF PipeCloses
  <1>2. /\ pipe' \in [up : BOOLEAN, toChild : Seq(ChildFrames), toParent : Seq(ParentFrames)]
        /\ pipe'.up = FALSE /\ pipe'.toChild = <<>> /\ pipe'.toParent = pipe.toParent
    <2>0. <<>> \in Seq(ChildFrames)
      OBVIOUS
    <2>1. PICK c \in Seq(ChildFrames) : c = <<>>
      BY <2>0
    <2>2. pipe' = [pipe EXCEPT !.up = FALSE, !.toChild = c]
      BY <2>1 DEF PipeCloses
    <2>3. QED
      BY <2>1, <2>2 DEF PortInv, PortTyped
  <1>3. ASSUME NEW p \in Planes
        PROVE  /\ clients'[p] \in ClientStates /\ InOrder(p, clients'[p])
               /\ clients'[p].strays = clients[p].strays /\ clients'[p].settled = clients[p].settled
    <2>1. clients[p] \in ClientStates /\ InOrder(p, clients[p])
      BY DEF PortInv, PortTyped
    <2>2. PICK L \in SUBSET Requests : L = clients[p].pending
      BY <2>1 DEF ClientStates
    <2>3. PICK d : d = [clients[p] EXCEPT !.late = L]
      OBVIOUS
    <2>4. clients'[p] = d
      BY <2>2, <2>3 DEF PipeCloses
    <2>5. /\ d \in ClientStates /\ d.strays = clients[p].strays /\ d.settled = clients[p].settled
          /\ d.late = L /\ d.pending = clients[p].pending /\ d.ended = clients[p].ended
      BY <2>1, <2>3 DEF ClientStates
    <2>6. InOrder(p, d)
      BY <2>1, <2>2, <2>5 DEF InOrder
    <2>7. QED
      BY <2>4, <2>5, <2>6
  <1>4. clients' \in [Planes -> ClientStates]
    <2>1. clients' = [p \in Planes |-> [clients[p] EXCEPT !.late = clients[p].pending]]
      BY DEF PipeCloses
    <2>2. \A p \in Planes : [clients[p] EXCEPT !.late = clients[p].pending] \in ClientStates
      BY <1>3, <2>1
    <2>3. QED
      BY <2>1, <2>2
  <1>5. PortTyped'
    BY <1>1, <1>2, <1>4 DEF PortInv, PortTyped
  <1>6. StraysBreak'
    <2>1. clients'["control"].strays = clients["control"].strays
      BY <1>3 DEF Planes
    <2>2. \A i \in DOMAIN pipe'.toChild : FALSE
      BY <1>2
    <2>3. QED
      BY <1>1, <1>2, <1>3, <2>1, <2>2 DEF PortInv, StraysBreak
  <1>7. \A p \in Planes : InOrder(p, clients[p])'
    BY <1>3 DEF InOrder
  <1>8. QED
    BY <1>2, <1>5, <1>6, <1>7 DEF PortInv

\* A frame without an envelope arrives at the control plane.
LEMMA StrayKeepsPorts ==
    ASSUME PortInv, StrayFrame
    PROVE  PortInv'
  <1>1. UNCHANGED servers
    BY DEF StrayFrame
  <1>2. PICK f \in ChildFrames : f = [channel |-> "none", kind |-> "malformed", r |-> 0, by |-> "none"] /\ f.kind = "malformed"
    <2>1. PICK f : f = [channel |-> "none", kind |-> "malformed", r |-> 0, by |-> "none"]
      OBVIOUS
    <2>2. f.channel = "none" /\ f.kind = "malformed"
      BY <2>1
    <2>3. f \in [channel : Planes \cup {"none"}, kind : {"ready", "request", "shutdown", "malformed"}, r : Nat,
                by : Planes \cup {"none"}]
      BY <2>1
    <2>4. f \in ChildFrames
      BY <2>2, <2>3 DEF ChildFrames
    <2>5. QED
      BY <2>1, <2>2, <2>4
  <1>3. PICK n \in Nat : n = clients["control"].strays + 1 /\ n > 0
    BY DEF PortInv, PortTyped, ClientStates, Planes
  <1>4. clients' = [clients EXCEPT !["control"].strays = n]
    BY <1>3 DEF StrayFrame
  <1>5. /\ clients' \in [Planes -> ClientStates]
        /\ \A p \in Planes : /\ clients'[p].settled = clients[p].settled /\ clients'[p].pending = clients[p].pending
                             /\ clients'[p].late = clients[p].late /\ clients'[p].ended = clients[p].ended
        /\ clients'["control"].strays > 0
    BY <1>3, <1>4 DEF PortInv, PortTyped, ClientStates, Planes
  <1>6. pipe.toChild \in Seq(ChildFrames)
    BY DEF PortInv, PortTyped
  <1>7. PICK c : c = IF pipe.up THEN pipe.toChild \o <<f>> ELSE pipe.toChild
    OBVIOUS
  <1>8. /\ pipe' \in [up : BOOLEAN, toChild : Seq(ChildFrames), toParent : Seq(ParentFrames)]
        /\ pipe'.toChild = c /\ pipe'.toParent = pipe.toParent /\ pipe'.up = pipe.up
    <2>1. c \in Seq(ChildFrames)
      BY <1>6, <1>7, OneMore
    <2>2. pipe' = [pipe EXCEPT !.toChild = c]
      BY <1>2, <1>7 DEF StrayFrame, Sent
    <2>3. QED
      BY <2>1, <2>2 DEF PortInv, PortTyped
  <1>9. PortTyped'
    BY <1>1, <1>5, <1>8 DEF PortInv, PortTyped
  <1>10. StraysBreak'
    BY <1>1, <1>5, <1>8 DEF PortInv, StraysBreak
  <1>11. \A p \in Planes : InOrder(p, clients[p])'
    BY <1>5 DEF PortInv, InOrder
  <1>12. ASSUME NEW p \in Planes, pipe.up, servers[p].settled = "open" PROVE ReadyFirst(c, p, servers[p].ready)
    <2>1. servers[p].ready \in BOOLEAN
      BY DEF PortInv, PortTyped, ServerStates
    <2>2. ReadyFirst(pipe.toChild, p, servers[p].ready)
      BY <1>12 DEF PortInv
    <2>3. QED
      BY <1>2, <1>6, <1>7, <1>12, <2>1, <2>2, OneMoreKeepsReady
  <1>13. \A p \in Planes : (pipe.up /\ servers[p].settled = "open")' => ReadyFirst(pipe.toChild, p, servers[p].ready)'
    <2>1. \A p \in Planes : pipe'.up /\ servers'[p].settled = "open" => ReadyFirst(pipe'.toChild, p, servers'[p].ready)
      BY <1>1, <1>8, <1>12
    <2>2. QED
      BY <2>1 DEF ReadyFirst, Of
  <1>14. QED
    BY <1>9, <1>10, <1>11, <1>13 DEF PortInv

\* The sessions in every state.
THEOREM PortInvariant == PortSpec => []PortInv
  <1>1. PortInv /\ [PortNext]_portVars => PortInv'
    <2> SUFFICES ASSUME PortInv, [PortNext]_portVars PROVE PortInv'
      OBVIOUS
    <2>1. CASE UNCHANGED portVars
      BY <2>1 DEF portVars, PortInv, PortTyped, StraysBreak, InOrder, ReadyFirst, Of
    <2>2. CASE PortNext
      BY <2>2, ServerKeepsPorts, DispatchKeepsPorts, RequestsKeepPorts, ClientStepsKeepPorts, PipeKeepsPorts,
         StrayKeepsPorts DEF PortNext
    <2>3. QED
      BY <2>1, <2>2
  <1>2. QED
    BY PortStart, <1>1, PTL DEF PortSpec

\* The planes stay apart on their pipe and no request waits for a session that settled,
\* for any number of requests and stray frames.
THEOREM PortsAnswer == PortSpec => []PortsAnswerTheirOwn
  <1>1. PortInv => PortsAnswerTheirOwn
    BY DEF PortInv, InOrder, StraysBreak, PortsAnswerTheirOwn, PlanesStayApart, SettledRequestsEnd
  <1>2. QED
    BY <1>1, PortInvariant, PTL

-----------------------------------------------------------------------------
(* sse.ts: the event stream                                                  *)

StreamSpec == StreamInit /\ [][StreamNext]_streamVars

Symbols == Events \cup Comments \cup {Blank}

\* What is under way ends with the blank line of its last event, and nothing but a part
\* of an event is left of what was read.
Whole(buffer, symbols) ==
    /\ symbols # <<>> => symbols[Len(symbols)] = Blank
    /\ symbols = <<>> => buffer = <<>>

\* The events that were told, those of the text under way, and those that a link which
\* died has lost are what was published on this connection.
Complete(events, text, live, published) ==
    \E lost \in Seq(Events) :
        /\ live => lost = <<>>
        /\ (events \o Among(text, Events)) \o lost = published

StreamInv ==
    /\ StreamTypeOK
    /\ TransportIsReported
    /\ loop.at = "streaming" =>
          /\ Whole(wire.buffer, wire.symbols)
          /\ Complete(seen.events, wire.buffer \o wire.symbols, wire.live, host.published)

\* Only the events of a text count.
LEMMA SymbolsAreTold ==
    /\ \A e \in Events : e \in Symbols /\ Among(<<e>>, Events) = <<e>>
    /\ \A c \in Comments \cup {Blank} : c \in Symbols /\ Among(<<c>>, Events) = <<>>
    /\ \A text \in Text : Among(text, Events) \in Seq(Events)
  <1>1. \A e \in Symbols : /\ e \in Events => Among(<<e>>, Events) = <<e>>
                           /\ e \notin Events => Among(<<e>>, Events) = <<>>
    BY AmongOne
  <1>2. \A c \in Comments \cup {Blank} : c \notin Events
    BY EventsAreNoComments
  <1>3. ASSUME NEW text \in Text PROVE Among(text, Events) \in Seq(Events)
    <2>1. text \in Seq(Symbols)
      BY DEF Text, Symbols
    <2>2. PICK f \in Seq(Symbols) : f = Among(text, Events) /\ Contents(f) = Contents(text) \cap Events
      BY <2>1, AmongGives
    <2>3. DOMAIN f = 1..Len(f) /\ Len(f) \in Nat /\ \A k \in DOMAIN f : f[k] \in Events
      BY <2>2 DEF Contents
    <2>4. f = [k \in 1..Len(f) |-> f[k]]
      BY <2>3
    <2>5. f \in [1..Len(f) -> Events]
      BY <2>3, <2>4
    <2> QED BY <2>2, <2>3, <2>5, IsASeq
  <1> QED BY <1>1, <1>2, <1>3 DEF Symbols

LEMMA TwoSymbols ==
    ASSUME NEW S, NEW a \in S, NEW b \in S
    PROVE  <<a>> \in Seq(S) /\ <<b>> \in Seq(S) /\ <<a, b>> \in Seq(S) /\ <<a>> \o <<b>> = <<a, b>>
  <1>1. <<a>> \in Seq(S) /\ <<b>> \in Seq(S) /\ <<a, b>> \in Seq(S)
    OBVIOUS
  <1>2. <<a>> \o <<b>> \in Seq(S) /\ Len(<<a>> \o <<b>>) = 2 /\ (<<a>> \o <<b>>)[1] = a /\ (<<a>> \o <<b>>)[2] = b
    BY <1>1
  <1>3. Len(<<a, b>>) = 2 /\ <<a, b>>[1] = a /\ <<a, b>>[2] = b
    OBVIOUS
  <1>4. \A i \in 1..2 : (<<a>> \o <<b>>)[i] = <<a, b>>[i]
    BY <1>2, <1>3
  <1>5. <<a>> \o <<b>> = <<a, b>>
    BY <1>1, <1>2, <1>3, <1>4, SeqEqual
  <1> QED BY <1>1, <1>5

\* An event and its blank line are written, and a comment and its blank line.
LEMMA WrittenIsTold ==
    ASSUME NEW text \in Text, NEW c \in Symbols
    PROVE  /\ text \o <<c, Blank>> \in Text
           /\ c \in Events => Among(text \o <<c, Blank>>, Events) = Among(text, Events) \o <<c>>
           /\ c \notin Events => Among(text \o <<c, Blank>>, Events) = Among(text, Events)
  <1>1. Blank \in Symbols /\ text \in Seq(Symbols)
    BY DEF Symbols, Text
  <1>2. PICK one \in Seq(Symbols), end \in Seq(Symbols), both \in Seq(Symbols) :
            one = <<c>> /\ end = <<Blank>> /\ both = <<c, Blank>> /\ one \o end = both
    <2>1. /\ <<c>> \in Seq(Symbols) /\ <<Blank>> \in Seq(Symbols) /\ <<c, Blank>> \in Seq(Symbols)
          /\ <<c>> \o <<Blank>> = <<c, Blank>>
      BY <1>1, TwoSymbols
    <2> QED BY <2>1, Zenon
  <1>3. /\ Among(text \o both, Events) = Among(text, Events) \o Among(both, Events)
        /\ Among(both, Events) = Among(one, Events) \o Among(end, Events)
    <2>1. Among(text \o both, Events) = Among(text, Events) \o Among(both, Events)
      BY SMTT(30), ZenonT(30), <1>1, AmongJoins
    <2>2. Among(one \o end, Events) = Among(one, Events) \o Among(end, Events)
      BY AmongJoins
    <2> QED BY <1>2, <2>1, <2>2
  <1>4. Among(end, Events) = <<>>
    BY <1>2, SymbolsAreTold
  <1>5. PICK heard \in Seq(Events) : heard = Among(text, Events)
    BY SymbolsAreTold
  <1>6. text \o both \in Text
    <2>1. text \o both \in Seq(Symbols)
      BY <1>1
    <2> QED BY <2>1 DEF Text, Symbols
  <1>7. CASE c \in Events
    <2>1. Among(one, Events) = <<c>> /\ <<c>> \in Seq(Events)
      BY <1>2, <1>7, SymbolsAreTold
    <2>2. <<c>> \o <<>> = <<c>>
      BY <2>1, ConcatEmptySeq
    <2>3. Among(text \o both, Events) = heard \o <<c>>
      BY <1>3, <1>4, <1>5, <2>1, <2>2, Zenon
    <2> QED BY <1>2, <1>5, <1>6, <1>7, <2>3
  <1>8. CASE c \notin Events
    <2>1. Among(one, Events) = <<>>
      BY <1>2, <1>8, SymbolsAreTold DEF Symbols
    <2>2. <<>> \o <<>> = <<>> /\ heard \o <<>> = heard
      BY ConcatEmptySeq
    <2>3. Among(text \o both, Events) = heard
      BY <1>3, <1>4, <1>5, <2>1, <2>2, Zenon
    <2> QED BY <1>2, <1>5, <1>6, <1>8, <2>3
  <1> QED BY <1>7, <1>8

BlankBehind(symbols, c) ==
    /\ symbols \o <<c, Blank>> \in Text /\ symbols \o <<c, Blank>> # <<>>
    /\ (symbols \o <<c, Blank>>)[Len(symbols \o <<c, Blank>>)] = Blank

LEMMA BehindTheWire ==
    ASSUME NEW buffer \in Text, NEW symbols \in Text, NEW c \in Symbols
    PROVE  /\ BlankBehind(symbols, c) /\ buffer \o symbols \in Text
           /\ buffer \o (symbols \o <<c, Blank>>) = (buffer \o symbols) \o <<c, Blank>>
  <1>1. Blank \in Symbols /\ buffer \in Seq(Symbols) /\ symbols \in Seq(Symbols)
    BY DEF Text, Symbols
  <1>2. PICK both \in Seq(Symbols) : both = <<c, Blank>> /\ Len(both) = 2 /\ both[2] = Blank
    <2>1. <<c, Blank>> \in Seq(Symbols)
      BY <1>1, TwoSymbols
    <2>2. Len(<<c, Blank>>) = 2 /\ <<c, Blank>>[2] = Blank
      OBVIOUS
    <2> QED BY <2>1, <2>2, Zenon
  <1>3. symbols \o both \in Seq(Symbols) /\ Len(symbols \o both) = Len(symbols) + 2 /\ Len(symbols) \in Nat
        /\ (symbols \o both)[Len(symbols) + 2] = both[2] /\ buffer \o symbols \in Seq(Symbols)
    BY <1>1, <1>2
  <1>4. symbols \o both # <<>>
    BY <1>3
  <1>5. buffer \o (symbols \o both) = (buffer \o symbols) \o both
    BY SMTT(30), ZenonT(30), <1>1, ConcatAssociative
  <1>6. symbols \o both \in Text /\ buffer \o symbols \in Text
    BY <1>3 DEF Text, Symbols
  <1>7. (symbols \o both)[Len(symbols \o both)] = Blank
    BY <1>2, <1>3
  <1> QED BY <1>2, <1>4, <1>5, <1>6, <1>7 DEF BlankBehind

\* Where the last complete block of a text ends.
LEMMA LastBlankIs ==
    ASSUME NEW text \in Text
    PROVE  /\ LastBlank(text) \in 0..Len(text)
           /\ \A i \in 1..Len(text) : text[i] = Blank => i <= LastBlank(text)
  <1> DEFINE ends == {0} \cup {i \in DOMAIN text : text[i] = Blank}
             ranks == {i + 1 : i \in ends}
  <1>1. PICK n \in Nat : n = Len(text) /\ DOMAIN text = 1..n
    BY DEF Text
  <1>2. ends \in SUBSET (0..n) /\ 0 \in ends
    BY <1>1
  <1>3. ranks \in SUBSET (1..(n + 1)) /\ 1 \in ranks
    BY <1>2
  <1>4. n + 1 \in Nat /\ ranks # {}
    BY <1>3
  <1>5. PICK r \in ranks : \A s \in ranks : s <= r
    BY <1>3, <1>4, LargestExists
  <1>6. PICK i \in ends : r = i + 1
    BY <1>5
  <1>7. \A j \in ends : i >= j
    <2> TAKE j \in ends
    <2>1. j + 1 \in ranks
      OBVIOUS
    <2>2. j + 1 <= i + 1
      BY <1>5, <1>6, <2>1
    <2>3. i \in Nat /\ j \in Nat
      <3> HIDE DEF ends
      <3> QED BY <1>2
    <2> QED BY <2>2, <2>3
  <1>8. LastBlank(text) \in ends /\ \A j \in ends : LastBlank(text) >= j
    BY <1>6, <1>7 DEF LastBlank, Max
  <1> QED BY <1>1, <1>2, <1>8

\* The decoder tells the events of a text up to its last blank line, and keeps the rest.
LEMMA DecoderKeeps ==
    ASSUME NEW text \in Text
    PROVE  /\ Rest(text) \in Text
           /\ Blocks(text) \in Seq(Events)
           /\ \A more \in Text : Among(text \o more, Events) = Blocks(text) \o Among(Rest(text) \o more, Events)
           /\ text # <<>> /\ text[Len(text)] = Blank => Rest(text) = <<>>
  <1>1. PICK n \in Nat, last \in 0..Len(text) :
            /\ n = Len(text) /\ last = LastBlank(text)
            /\ \A i \in 1..n : text[i] = Blank => i <= last
    BY LastBlankIs DEF Text
  <1> DEFINE heard == SubSeq(text, 1, last)
             rest == SubSeq(text, last + 1, n)
  <1>2. text \in Seq(Symbols) /\ last \in Nat /\ last <= n
    BY <1>1 DEF Text, Symbols
  <1>3. heard \in Seq(Symbols) /\ rest \in Seq(Symbols) /\ Len(rest) = n - last
    BY <1>1, <1>2, SubSeqProperties
  <1>4. text = heard \o rest
    <2>1. heard \o rest = SubSeq(text, 1, n)
      BY SMTT(30), ZenonT(30), <1>1, <1>2, ConcatAdjacentSubSeq
    <2>2. SubSeq(text, 1, n) = text
      BY <1>1, <1>2, SubSeqFull
    <2> QED BY <2>1, <2>2
  <1>5. rest = Rest(text) /\ Blocks(text) = Among(heard, Events)
    BY <1>1 DEF Rest, Blocks
  <1> HIDE DEF heard, rest
  <1>6. ASSUME NEW more \in Text
        PROVE  Among(text \o more, Events) = Among(heard, Events) \o Among(rest \o more, Events)
    <2>1. more \in Seq(Symbols)
      BY DEF Text, Symbols
    <2>2. text \o more = heard \o (rest \o more) /\ rest \o more \in Seq(Symbols)
      BY SMTT(30), ZenonT(30), <1>3, <1>4, <2>1, ConcatAssociative
    <2>3. PICK after \in Seq(Symbols) : after = rest \o more
      BY <2>2
    <2>4. Among(heard \o after, Events) = Among(heard, Events) \o Among(after, Events)
      BY SMTT(30), ZenonT(30), <1>3, AmongJoins
    <2> QED BY <2>2, <2>3, <2>4
  <1>7. ASSUME text # <<>>, text[Len(text)] = Blank PROVE rest = <<>>
    <2>1. n \in 1..n
      BY <1>1, <1>2, <1>7
    <2>2. last = n
      BY <1>1, <1>2, <1>7, <2>1
    <2> QED BY <1>1, <1>3, <2>2
  <1>8. heard \in Text /\ rest \in Text
    BY <1>3 DEF Text, Symbols
  <1> QED BY <1>5, <1>6, <1>7, <1>8, SymbolsAreTold

\* A comment and its blank line are written behind what is under way.
LEMMA CommentKeepsTold ==
    ASSUME NEW buffer \in Text, NEW symbols \in Text, NEW c \in Comments,
           NEW events \in Seq(Events), NEW published \in Seq(Events), NEW live,
           Whole(buffer, symbols), Complete(events, buffer \o symbols, live, published)
    PROVE  /\ symbols \o <<c, Blank>> \in Text /\ Whole(buffer, symbols \o <<c, Blank>>)
           /\ Complete(events, buffer \o (symbols \o <<c, Blank>>), live, published)
  <1>1. c \in Symbols /\ c \notin Events
    BY EventsAreNoComments DEF Symbols
  <1>2. BlankBehind(symbols, c) /\ buffer \o symbols \in Text
        /\ buffer \o (symbols \o <<c, Blank>>) = (buffer \o symbols) \o <<c, Blank>>
    BY <1>1, BehindTheWire
  <1>3. Among((buffer \o symbols) \o <<c, Blank>>, Events) = Among(buffer \o symbols, Events)
    BY <1>1, <1>2, WrittenIsTold
  <1> QED BY <1>2, <1>3 DEF Complete, Whole, BlankBehind

\* An event and its blank line are written, or lost when the link has died.
LEMMA EventKeepsTold ==
    ASSUME NEW buffer \in Text, NEW symbols \in Text, NEW e \in Events,
           NEW events \in Seq(Events), NEW published \in Seq(Events), NEW live,
           Whole(buffer, symbols), Complete(events, buffer \o symbols, live, published)
    PROVE  /\ live => /\ symbols \o <<e, Blank>> \in Text /\ Whole(buffer, symbols \o <<e, Blank>>)
                      /\ Complete(events, buffer \o (symbols \o <<e, Blank>>), live, Append(published, e))
           /\ ~live => Complete(events, buffer \o symbols, live, Append(published, e))
  <1>1. e \in Symbols
    BY DEF Symbols
  <1>2. BlankBehind(symbols, e) /\ buffer \o symbols \in Text
        /\ buffer \o (symbols \o <<e, Blank>>) = (buffer \o symbols) \o <<e, Blank>>
    BY <1>1, BehindTheWire
  <1>3. Among((buffer \o symbols) \o <<e, Blank>>, Events) = Among(buffer \o symbols, Events) \o <<e>>
    BY <1>1, <1>2, WrittenIsTold
  <1>4. PICK heard \in Seq(Events) : heard = Among(buffer \o symbols, Events)
    BY <1>2, SymbolsAreTold
  <1>5. PICK lost \in Seq(Events) : (live => lost = <<>>) /\ (events \o heard) \o lost = published
    BY <1>4 DEF Complete
  <1>6. /\ <<e>> \in Seq(Events) /\ <<>> \in Seq(Events) /\ events \o heard \in Seq(Events)
        /\ lost \o <<e>> \in Seq(Events) /\ heard \o <<e>> \in Seq(Events)
        /\ Append(published, e) = published \o <<e>>
    BY AppendIsConcat
  <1>7. CASE live
    <2>1. published = events \o heard
      BY <1>5, <1>6, <1>7, ConcatEmptySeq
    <2>2. (events \o (heard \o <<e>>)) \o <<>> = Append(published, e)
      <3>1. events \o (heard \o <<e>>) = (events \o heard) \o <<e>>
        BY <1>6, ConcatAssociative
      <3>2. (events \o (heard \o <<e>>)) \in Seq(Events)
        BY <1>6, ConcatProperties
      <3> QED BY <1>6, <2>1, <3>1, <3>2, ConcatEmptySeq
    <2>3. Complete(events, (buffer \o symbols) \o <<e, Blank>>, live, Append(published, e))
      BY <1>3, <1>4, <1>6, <2>2 DEF Complete
    <2> QED BY <1>2, <1>7, <2>3 DEF Whole, BlankBehind
  <1>8. CASE ~live
    <2>1. (events \o heard) \o (lost \o <<e>>) = ((events \o heard) \o lost) \o <<e>>
      BY SMTT(30), ZenonT(30), <1>6, ConcatAssociative
    <2> QED BY <1>4, <1>5, <1>6, <1>8, <2>1 DEF Complete
  <1> QED BY <1>7, <1>8

\* Texts and events may be joined in any grouping.
LEMMA Regroup ==
    /\ \A s, t, u \in Seq(Symbols) : s \o (t \o u) = (s \o t) \o u
    /\ \A s, t, u \in Seq(Events) : s \o (t \o u) = (s \o t) \o u
  <1>1. ASSUME NEW s \in Seq(Symbols), NEW t \in Seq(Symbols), NEW u \in Seq(Symbols)
        PROVE  s \o (t \o u) = (s \o t) \o u
    BY SMTT(30), ZenonT(30), ConcatAssociative
  <1>2. ASSUME NEW s \in Seq(Events), NEW t \in Seq(Events), NEW u \in Seq(Events)
        PROVE  s \o (t \o u) = (s \o t) \o u
    BY SMTT(30), ZenonT(30), ConcatAssociative
  <1> QED BY <1>1, <1>2

\* The first n symbols under way come behind what is left of the last read.
ReadOff(buffer, symbols, n, text, left) ==
    /\ text = buffer \o SubSeq(symbols, 1, n)
    /\ left = SubSeq(symbols, n + 1, Len(symbols))

LEMMA ReadKeepsTold ==
    ASSUME NEW buffer \in Text, NEW symbols \in Text, NEW n \in 1..Len(symbols),
           NEW events \in Seq(Events), NEW published \in Seq(Events), NEW live,
           Whole(buffer, symbols), Complete(events, buffer \o symbols, live, published),
           NEW text, NEW left, ReadOff(buffer, symbols, n, text, left)
    PROVE  /\ left \in Text /\ Rest(text) \in Text /\ events \o Blocks(text) \in Seq(Events)
           /\ Whole(Rest(text), left)
           /\ Complete(events \o Blocks(text), Rest(text) \o left, live, published)
  <1>1. /\ buffer \in Seq(Symbols) /\ symbols \in Seq(Symbols) /\ Len(symbols) \in Nat /\ n \in Nat
        /\ n <= Len(symbols) /\ 1 <= n /\ symbols # <<>>
    BY DEF Text, Symbols
  <1>0. text = buffer \o SubSeq(symbols, 1, n) /\ left = SubSeq(symbols, n + 1, Len(symbols))
    BY DEF ReadOff
  <1>2. PICK head \in Seq(Symbols) : head = SubSeq(symbols, 1, n) /\ Len(head) = n /\ head[n] = symbols[n]
    <2>1. /\ SubSeq(symbols, 1, n) \in Seq(Symbols) /\ Len(SubSeq(symbols, 1, n)) = n
          /\ SubSeq(symbols, 1, n)[n] = symbols[n]
      BY <1>1
    <2> QED BY <2>1, Zenon
  <1>3. left \in Seq(Symbols) /\ Len(left) = Len(symbols) - n /\ \A i \in 1..Len(left) : left[i] = symbols[n + i]
    <2>1. left = SubSeq(symbols, n + 1, Len(symbols)) /\ symbols \in Seq(Symbols)
      BY <1>0, <1>1
    <2>2. n + 1 \in 1..(Len(symbols) + 1) /\ Len(symbols) \in Nat /\ n \in Nat
      BY <1>1
    <2>3. /\ SubSeq(symbols, n + 1, Len(symbols)) \in Seq(Symbols)
          /\ Len(SubSeq(symbols, n + 1, Len(symbols))) = Len(symbols) - n
          /\ \A i \in 1..(Len(symbols) - n) : SubSeq(symbols, n + 1, Len(symbols))[i] = symbols[n + i]
      BY <2>1, <2>2, SubSeqProperties
    <2> QED BY <2>1, <2>3
  <1>4. symbols = head \o left
    <2>1. head \o left = SubSeq(symbols, 1, Len(symbols))
      BY <1>0, <1>1, <1>2, ConcatAdjacentSubSeq
    <2>2. SubSeq(symbols, 1, Len(symbols)) = symbols
      BY <1>1, SubSeqFull
    <2> QED BY <2>1, <2>2
  <1>5. /\ text \in Seq(Symbols) /\ Len(text) = Len(buffer) + n /\ text[Len(text)] = symbols[n] /\ text # <<>>
        /\ buffer \o symbols = text \o left
    <2>1. text = buffer \o head /\ Len(buffer) \in Nat
      BY <1>0, <1>1, <1>2
    <2>2. text \in Seq(Symbols) /\ Len(text) = Len(buffer) + n
      BY <1>1, <1>2, <2>1, ConcatProperties
    <2>3. text[Len(buffer) + n] = head[n]
      <3>1. Len(head) = n /\ n \in Nat /\ 1 <= n /\ head \in Seq(Symbols) /\ buffer \in Seq(Symbols)
        BY <1>1, <1>2
      <3>2. (buffer \o head)[Len(buffer) + n] = head[n]
        BY <3>1
      <3> QED BY <2>1, <3>2
    <2>4. buffer \o (head \o left) = (buffer \o head) \o left
      <3>1. head \in Seq(Symbols) /\ left \in Seq(Symbols) /\ buffer \in Seq(Symbols)
        BY <1>1, <1>3
      <3> QED BY <3>1, Regroup, Zenon
    <2>5. text # <<>>
      <3>1. Len(text) # 0
        BY <1>1, <2>1, <2>2
      <3>2. Len(<<>>) = 0
        OBVIOUS
      <3> QED BY <3>1, <3>2, Zenon
    <2> QED BY <1>2, <1>4, <2>1, <2>2, <2>3, <2>4, <2>5
  <1>6. text \in Text /\ left \in Text
    BY <1>3, <1>5 DEF Text, Symbols
  <1>7. /\ Rest(text) \in Text /\ Blocks(text) \in Seq(Events)
        /\ Among(text \o left, Events) = Blocks(text) \o Among(Rest(text) \o left, Events)
        /\ symbols[n] = Blank => Rest(text) = <<>>
    BY <1>5, <1>6, DecoderKeeps
  <1>8. Whole(Rest(text), left)
    <2>1. symbols[Len(symbols)] = Blank
      BY <1>1 DEF Whole
    <2>2. CASE n = Len(symbols)
      <3>1. left = <<>>
        BY <1>1, <1>3, <2>2
      <3> QED BY <1>7, <2>1, <2>2, <3>1 DEF Whole
    <2>3. CASE n # Len(symbols)
      <3>0. Len(left) = Len(symbols) - n /\ Len(left) \in Nat /\ Len(left) # 0
        BY <1>1, <1>3, <2>3
      <3>1. Len(left) \in 1..Len(left) /\ n + Len(left) = Len(symbols)
        BY <1>1, <3>0
      <3>2. left[Len(left)] = Blank
        BY <1>3, <2>1, <3>1
      <3>3. left # <<>>
        BY <3>0
      <3> QED BY <3>2, <3>3 DEF Whole
    <2> QED BY <2>2, <2>3
  <1>9. Complete(events \o Blocks(text), Rest(text) \o left, live, published)
    <2>1. PICK lost \in Seq(Events) : /\ live => lost = <<>>
                                      /\ (events \o Among(text \o left, Events)) \o lost = published
      BY <1>5 DEF Complete
    <2>2. Rest(text) \o left \in Text
      BY <1>6, <1>7 DEF Text
    <2>3. PICK more \in Seq(Events) : more = Among(Rest(text) \o left, Events)
      BY <2>2, SymbolsAreTold
    <2>4. events \o (Blocks(text) \o more) = (events \o Blocks(text)) \o more
      <3>1. Blocks(text) \in Seq(Events)
        BY <1>7
      <3> QED BY <3>1, Regroup, ZenonT(30)
    <2>5. ((events \o Blocks(text)) \o more) \o lost = published
      BY <1>7, <2>1, <2>3, <2>4
    <2> QED BY <2>1, <2>3, <2>5 DEF Complete
  <1>10. events \o Blocks(text) \in Seq(Events)
    BY <1>7
  <1> QED BY <1>6, <1>7, <1>8, <1>9, <1>10

StreamLoop == [at : {"off", "connecting", "streaming", "backoff", "ended"}, closed : BOOLEAN, generation : Nat,
               attempt : Nat, aborted : BOOLEAN, failed : 0..MaxFailures, connections : Nat]

StreamHost == [up : BOOLEAN, subscribed : BOOLEAN, published : Seq(Events), count : Nat, changes : Nat]

StreamWire == [symbols : Text, buffer : Text, live : BOOLEAN]

StreamSeen == [events : Seq(Events), connected : Nat, down : Nat]

LEMMA StreamTyped ==
    StreamTypeOK <=> /\ loop \in StreamLoop /\ loop.attempt <= loop.generation
                     /\ host \in StreamHost /\ wire \in StreamWire /\ seen \in StreamSeen
  BY DEF StreamTypeOK, StreamLoop, StreamHost, StreamWire, StreamSeen

LEMMA StreamTypedNext ==
    StreamTypeOK' <=> /\ loop' \in StreamLoop /\ loop'.attempt <= loop'.generation
                      /\ host' \in StreamHost /\ wire' \in StreamWire /\ seen' \in StreamSeen
  BY DEF StreamTypeOK, StreamLoop, StreamHost, StreamWire, StreamSeen

WellLooped(l) == l \in StreamLoop /\ l.attempt <= l.generation

\* The steps of the loop but a connection.
LEMMA AttemptIs ==
    ASSUME WellLooped(loop)
    PROVE  \A l \in {Attempt(loop), After(loop), [loop EXCEPT !.at = "ended"]} :
              WellLooped(l) /\ l.at # "streaming"
  <1>1. loop \in StreamLoop /\ loop.attempt <= loop.generation
    BY DEF WellLooped
  <1>2. WellLooped([loop EXCEPT !.at = "ended"]) /\ [loop EXCEPT !.at = "ended"].at # "streaming"
    BY <1>1 DEF StreamLoop, WellLooped
  <1>3. PICK g \in Nat : g = loop.generation
    BY <1>1 DEF StreamLoop
  <1>4. PICK f \in 0..MaxFailures : f = IF loop.failed < MaxFailures THEN loop.failed + 1 ELSE loop.failed
    <2>1. loop.failed \in 0..MaxFailures
      BY <1>1 DEF StreamLoop
    <2> QED BY <2>1, StreamAssumption
  <1>5. PICK l \in StreamLoop : l = Attempt(loop) /\ l.attempt = l.generation /\ l.at = "connecting"
    <2>1. [loop EXCEPT !.at = "connecting", !.attempt = g, !.aborted = FALSE] \in StreamLoop
      BY <1>1 DEF StreamLoop
    <2>2. Attempt(loop) = [loop EXCEPT !.at = "connecting", !.attempt = g, !.aborted = FALSE]
      BY <1>3 DEF Attempt
    <2>3. Attempt(loop).attempt = Attempt(loop).generation /\ Attempt(loop).at = "connecting"
      BY <1>1, <1>3, <2>2 DEF StreamLoop
    <2> QED BY <2>1, <2>2, <2>3
  <1>6. WellLooped(Attempt(loop)) /\ Attempt(loop).at # "streaming"
    BY <1>5 DEF WellLooped, StreamLoop
  <1>7. WellLooped([l EXCEPT !.failed = 0]) /\ [l EXCEPT !.failed = 0].at # "streaming"
    <2>1. 0 \in 0..MaxFailures
      BY StreamAssumption
    <2> QED BY <1>5, <2>1 DEF StreamLoop, WellLooped
  <1>8. /\ WellLooped([loop EXCEPT !.at = "backoff", !.aborted = FALSE, !.failed = f])
        /\ [loop EXCEPT !.at = "backoff", !.aborted = FALSE, !.failed = f].at # "streaming"
    BY <1>1 DEF StreamLoop, WellLooped
  <1>9. WellLooped(After(loop)) /\ After(loop).at # "streaming"
    BY <1>2, <1>4, <1>5, <1>7, <1>8 DEF After
  <1> QED BY <1>2, <1>6, <1>9

LEMMA SupersededIs ==
    ASSUME WellLooped(loop)
    PROVE  \A l \in {Superseded(loop), [Superseded(loop) EXCEPT !.closed = TRUE]} :
              WellLooped(l) /\ l.at = loop.at
  <1>1. loop \in StreamLoop /\ loop.attempt <= loop.generation
    BY DEF WellLooped
  <1>2. PICK g \in Nat, a \in BOOLEAN : /\ g = loop.generation + 1
                                        /\ a = (loop.at \in {"connecting", "streaming", "backoff"})
    <2>1. loop.generation \in Nat
      BY <1>1 DEF StreamLoop
    <2>2. loop.generation + 1 \in Nat
      BY <2>1
    <2>3. (loop.at \in {"connecting", "streaming", "backoff"}) \in BOOLEAN
      OBVIOUS
    <2> QED BY <2>2, <2>3, Zenon
  <1>3. PICK l \in StreamLoop : l = [loop EXCEPT !.generation = g, !.aborted = a]
    BY <1>1 DEF StreamLoop
  <1>4. l = Superseded(loop)
    BY <1>2, <1>3 DEF Superseded
  <1>5. l.attempt <= l.generation /\ l.at = loop.at
    BY <1>1, <1>2, <1>3 DEF StreamLoop
  <1>6. [l EXCEPT !.closed = TRUE] \in StreamLoop /\ [l EXCEPT !.closed = TRUE].at = l.at
        /\ [l EXCEPT !.closed = TRUE].attempt = l.attempt /\ [l EXCEPT !.closed = TRUE].generation = l.generation
    BY DEF StreamLoop
  <1> QED BY <1>4, <1>5, <1>6 DEF WellLooped

LEMMA StreamStarts == StreamInit => StreamInv
  <1> SUFFICES ASSUME StreamInit PROVE StreamInv
    OBVIOUS
  <1>1. <<>> \in Text /\ <<>> \in Seq(Events)
    BY DEF Text
  <1>2. StreamTypeOK
    BY <1>1, StreamAssumption DEF StreamInit, StreamTypeOK
  <1> QED BY <1>2 DEF StreamInit, StreamInv, TransportIsReported

LEMMA NothingAmong == Among(<<>>, Events) = <<>>
  <1>1. PICK s \in Seq(Symbols) : s = <<>>
    <2>1. <<>> \in Seq(Symbols)
      OBVIOUS
    <2> QED BY <2>1, Zenon
  <1>2. PICK f \in Seq(Symbols) : f = Among(s, Events) /\ Contents(f) = Contents(s) \cap Events
    BY AmongGives
  <1>3. DOMAIN s = {} /\ DOMAIN f = 1..Len(f) /\ Len(f) \in Nat
    BY <1>1
  <1>4. Contents(f) = {}
    BY <1>2, <1>3 DEF Contents
  <1>5. \A k \in DOMAIN f : f[k] \in Contents(f)
    BY DEF Contents
  <1>6. Len(f) = 0
    <2>1. 1 \notin DOMAIN f
      BY <1>4, <1>5
    <2> QED BY <1>3, <2>1
  <1>7. f = <<>>
    BY <1>6
  <1> QED BY <1>1, <1>2, <1>7

\* The first words on a connection are the retry hint.
LEMMA FirstWords ==
    /\ <<"retry", Blank>> \in Text /\ <<>> \in Text /\ <<>> \in Seq(Events)
    /\ Whole(<<>>, <<"retry", Blank>>)
    /\ Complete(<<>>, <<>> \o <<"retry", Blank>>, TRUE, <<>>)
  <1>1. <<>> \in Text /\ <<>> \in Seq(Events) /\ "retry" \in Comments
    BY DEF Text, Comments
  <1>2. Among(<<>>, Events) = <<>>
    BY NothingAmong
  <1>3. /\ <<>> \o <<>> = <<>>
        /\ <<>> \o <<"retry", Blank>> = <<"retry", Blank>>
    <2>1. "retry" \in Symbols /\ Blank \in Symbols
      BY <1>1 DEF Symbols
    <2>2. <<"retry", Blank>> \in Seq(Symbols)
      BY <2>1, TwoSymbols
    <2> QED BY <1>1, <2>2, ConcatEmptySeq
  <1>4. Whole(<<>>, <<>>) /\ Complete(<<>>, <<>> \o <<>>, TRUE, <<>>)
    <2>1. (<<>> \o <<>>) \o <<>> = <<>>
      BY <1>3
    <2> QED BY <1>1, <1>2, <1>3, <2>1 DEF Whole, Complete
  <1>5. /\ <<>> \o <<"retry", Blank>> \in Text /\ Whole(<<>>, <<>> \o <<"retry", Blank>>)
        /\ Complete(<<>>, <<>> \o (<<>> \o <<"retry", Blank>>), TRUE, <<>>)
    BY <1>1, <1>4, CommentKeepsTold
  <1> QED BY <1>1, <1>3, <1>5

LEMMA PublishKeeps ==
    ASSUME StreamInv, NEW e \in Events, Publish(e)
    PROVE  StreamInv'
  <1>1. /\ WellLooped(loop)
        /\ loop \in StreamLoop /\ host \in StreamHost /\ wire \in StreamWire /\ seen \in StreamSeen
    BY StreamTyped DEF StreamInv, WellLooped
  <1>2. /\ wire.buffer \in Text /\ wire.symbols \in Text /\ wire.live \in BOOLEAN
        /\ host.published \in Seq(Events) /\ seen.events \in Seq(Events)
    BY <1>1 DEF StreamHost, StreamWire, StreamSeen
  <1>3. Append(host.published, e) \in Seq(Events)
    BY <1>2
  <1>4. wire.symbols \o <<e, Blank>> \in Text
    BY <1>2, BehindTheWire DEF BlankBehind, Symbols
  <1>5. PICK count \in Nat, published \in Seq(Events), symbols \in Text :
            /\ count = host.count + 1
            /\ published = IF e \in Wanted THEN Append(host.published, e) ELSE host.published
            /\ symbols = IF e \in Wanted /\ wire.live THEN wire.symbols \o <<e, Blank>> ELSE wire.symbols
    <2>1. host.count + 1 \in Nat
      BY <1>1 DEF StreamHost
    <2> QED BY <1>2, <1>3, <1>4, <2>1
  <1>6. /\ host' = [host EXCEPT !.count = count, !.published = published]
        /\ wire' = [wire EXCEPT !.symbols = symbols] /\ loop' = loop /\ seen' = seen
    BY <1>5 DEF Publish
  <1>61. /\ host'.published = published /\ wire'.symbols = symbols
         /\ wire'.buffer = wire.buffer /\ wire'.live = wire.live
         /\ host' \in StreamHost /\ wire' \in StreamWire
    BY <1>1, <1>6 DEF StreamHost, StreamWire
  <1>62. StreamTypeOK'
    BY <1>1, <1>6, <1>61, StreamTypedNext DEF WellLooped
  <1>7. TransportIsReported'
    BY <1>6 DEF StreamInv, TransportIsReported
  <1>8. ASSUME loop.at = "streaming"
        PROVE  /\ Whole(wire'.buffer, wire'.symbols)
               /\ Complete(seen'.events, wire'.buffer \o wire'.symbols, wire'.live, host'.published)
    <2>1. /\ Whole(wire.buffer, wire.symbols)
          /\ Complete(seen.events, wire.buffer \o wire.symbols, wire.live, host.published)
      BY <1>8 DEF StreamInv
    <2>2. CASE e \in Wanted
      <3>1. /\ wire.live => /\ Whole(wire.buffer, wire.symbols \o <<e, Blank>>)
                            /\ Complete(seen.events, wire.buffer \o (wire.symbols \o <<e, Blank>>), wire.live,
                                        Append(host.published, e))
            /\ ~wire.live => Complete(seen.events, wire.buffer \o wire.symbols, wire.live, Append(host.published, e))
        BY <1>2, <2>1, EventKeepsTold
      <3>2. CASE wire.live
        BY <1>5, <1>6, <1>61, <2>2, <3>1, <3>2
      <3>3. CASE ~wire.live
        BY <1>5, <1>6, <1>61, <2>1, <2>2, <3>1, <3>3
      <3> QED BY <3>2, <3>3
    <2>3. CASE e \notin Wanted
      BY <1>5, <1>6, <1>61, <2>1, <2>3
    <2> QED BY <2>2, <2>3
  <1> QED BY <1>6, <1>62, <1>7, <1>8 DEF StreamInv

LEMMA HeartbeatKeeps ==
    ASSUME StreamInv, Heartbeat
    PROVE  StreamInv'
  <1>1. /\ WellLooped(loop)
        /\ loop \in StreamLoop /\ host \in StreamHost /\ wire \in StreamWire /\ seen \in StreamSeen
    BY StreamTyped DEF StreamInv, WellLooped
  <1>2. /\ wire.buffer \in Text /\ wire.symbols \in Text /\ wire.live \in BOOLEAN /\ "ping" \in Comments
        /\ host.published \in Seq(Events) /\ seen.events \in Seq(Events)
    BY <1>1 DEF StreamHost, StreamWire, StreamSeen, Comments
  <1>3. wire.symbols \o <<"ping", Blank>> \in Text
    BY <1>2, BehindTheWire DEF BlankBehind, Symbols
  <1>31. PICK symbols \in Text : symbols = wire.symbols \o <<"ping", Blank>>
    BY <1>3
  <1>32. wire' = [wire EXCEPT !.symbols = symbols] /\ loop' = loop /\ host' = host /\ seen' = seen
    BY <1>31 DEF Heartbeat
  <1>4. /\ wire'.symbols = wire.symbols \o <<"ping", Blank>>
        /\ wire'.buffer = wire.buffer /\ wire'.live = wire.live /\ loop' = loop /\ host' = host /\ seen' = seen
        /\ wire' \in StreamWire
    BY <1>1, <1>31, <1>32 DEF StreamWire
  <1>5. StreamTypeOK'
    BY <1>1, <1>4, StreamTypedNext DEF WellLooped
  <1>6. TransportIsReported'
    BY <1>4 DEF StreamInv, TransportIsReported
  <1>7. ASSUME loop.at = "streaming"
        PROVE  /\ Whole(wire'.buffer, wire'.symbols)
               /\ Complete(seen'.events, wire'.buffer \o wire'.symbols, wire'.live, host'.published)
    <2>1. /\ Whole(wire.buffer, wire.symbols)
          /\ Complete(seen.events, wire.buffer \o wire.symbols, wire.live, host.published)
      BY <1>7 DEF StreamInv
    <2>2. /\ Whole(wire.buffer, wire.symbols \o <<"ping", Blank>>)
          /\ Complete(seen.events, wire.buffer \o (wire.symbols \o <<"ping", Blank>>), wire.live, host.published)
      BY <1>2, <2>1, CommentKeepsTold
    <2> QED BY <1>4, <2>2
  <1>8. loop' = loop
    BY <1>4
  <1> QED BY <1>5, <1>6, <1>7, <1>8 DEF StreamInv

LEMMA ReadKeeps ==
    ASSUME StreamInv, NEW n \in Nat, Read(n)
    PROVE  StreamInv'
  <1>1. /\ WellLooped(loop)
        /\ loop \in StreamLoop /\ host \in StreamHost /\ wire \in StreamWire /\ seen \in StreamSeen
    BY StreamTyped DEF StreamInv, WellLooped
  <1>2. PICK text, left :
            /\ text = wire.buffer \o SubSeq(wire.symbols, 1, n)
            /\ left = SubSeq(wire.symbols, n + 1, Len(wire.symbols))
    OBVIOUS
  <1>3. /\ loop.at = "streaming" /\ n \in 1..Len(wire.symbols) /\ loop' = loop /\ host' = host
        /\ seen' = [seen EXCEPT !.events = @ \o Blocks(text)]
        /\ wire' = [wire EXCEPT !.symbols = left, !.buffer = Rest(text)]
    BY <1>2 DEF Read
  <1>4. /\ wire.buffer \in Text /\ wire.symbols \in Text /\ wire.live \in BOOLEAN
        /\ host.published \in Seq(Events) /\ seen.events \in Seq(Events)
    BY <1>1 DEF StreamHost, StreamWire, StreamSeen
  <1>5. /\ Whole(wire.buffer, wire.symbols)
        /\ Complete(seen.events, wire.buffer \o wire.symbols, wire.live, host.published)
    BY <1>3 DEF StreamInv
  <1>6. /\ left \in Text /\ Rest(text) \in Text /\ seen.events \o Blocks(text) \in Seq(Events)
        /\ Whole(Rest(text), left)
        /\ Complete(seen.events \o Blocks(text), Rest(text) \o left, wire.live, host.published)
    <2>1. PICK buffer \in Text, symbols \in Text : buffer = wire.buffer /\ symbols = wire.symbols
      BY <1>4
    <2>2. PICK events \in Seq(Events), published \in Seq(Events) : events = seen.events /\ published = host.published
      BY <1>4
    <2>3. /\ n \in 1..Len(symbols) /\ Whole(buffer, symbols)
          /\ Complete(events, buffer \o symbols, wire.live, published)
          /\ ReadOff(buffer, symbols, n, text, left)
      BY <1>2, <1>3, <1>5, <2>1, <2>2 DEF ReadOff
    <2>4. /\ left \in Text /\ Rest(text) \in Text /\ events \o Blocks(text) \in Seq(Events)
          /\ Whole(Rest(text), left)
          /\ Complete(events \o Blocks(text), Rest(text) \o left, wire.live, published)
      BY <2>3, ReadKeepsTold, Zenon
    <2> QED BY <2>2, <2>4
  <1>7. /\ seen'.events = seen.events \o Blocks(text) /\ seen'.connected = seen.connected /\ seen'.down = seen.down
        /\ wire'.symbols = left /\ wire'.buffer = Rest(text) /\ wire'.live = wire.live
        /\ seen' \in StreamSeen
        /\ wire' \in StreamWire
    BY <1>1, <1>3, <1>6 DEF StreamWire, StreamSeen
  <1>8. StreamTypeOK'
    BY <1>1, <1>3, <1>7, StreamTypedNext DEF WellLooped
  <1>9. TransportIsReported'
    BY <1>3, <1>7 DEF StreamInv, TransportIsReported
  <1>10. Whole(wire'.buffer, wire'.symbols) /\ Complete(seen'.events, wire'.buffer \o wire'.symbols, wire'.live, host'.published)
    BY <1>3, <1>6, <1>7
  <1> QED BY <1>8, <1>9, <1>10 DEF StreamInv

LEMMA ConnectedKeeps ==
    ASSUME StreamInv, Connected
    PROVE  StreamInv'
  <1>1. /\ WellLooped(loop)
        /\ loop \in StreamLoop /\ host \in StreamHost /\ wire \in StreamWire /\ seen \in StreamSeen
    BY StreamTyped DEF StreamInv, WellLooped
  <1>2. PICK connections \in Nat, connected \in Nat, none \in Seq(Events), nought \in 0..MaxFailures :
            /\ connections = loop.connections + 1 /\ connected = seen.connected + 1 /\ none = <<>> /\ nought = 0
    <2>1. loop.connections + 1 \in Nat /\ seen.connected + 1 \in Nat /\ 0 \in 0..MaxFailures
      BY <1>1, StreamAssumption DEF StreamLoop, StreamSeen
    <2> QED BY <2>1, FirstWords
  <1>21. /\ loop' = [loop EXCEPT !.at = "streaming", !.failed = nought, !.connections = connections]
         /\ host' = [host EXCEPT !.subscribed = TRUE, !.published = none, !.count = 0]
         /\ wire' = [symbols |-> <<"retry", Blank>>, buffer |-> <<>>, live |-> TRUE]
         /\ seen' = [seen EXCEPT !.events = none, !.connected = connected]
         /\ loop.at = "connecting"
    BY <1>2 DEF Connected
  <1>22. /\ loop' \in StreamLoop /\ loop'.at = "streaming"
         /\ loop'.attempt = loop.attempt /\ loop'.generation = loop.generation
    BY <1>1, <1>21 DEF StreamLoop
  <1>23. host' \in StreamHost /\ host'.published = none
    BY <1>1, <1>21 DEF StreamHost
  <1>24. wire' \in StreamWire /\ wire'.symbols = <<"retry", Blank>> /\ wire'.buffer = <<>> /\ wire'.live = TRUE
    BY <1>21, FirstWords DEF StreamWire
  <1>25. /\ seen' \in StreamSeen /\ seen'.events = none /\ seen'.connected = connected /\ seen'.down = seen.down
         /\ seen.connected \in Nat /\ seen.down \in Nat
    BY <1>1, <1>21 DEF StreamSeen
  <1>3. StreamTypeOK'
    BY <1>1, <1>22, <1>23, <1>24, <1>25, StreamTypedNext DEF WellLooped
  <1>4. TransportIsReported'
    BY <1>2, <1>21, <1>22, <1>25 DEF StreamInv, TransportIsReported
  <1>5. Whole(wire'.buffer, wire'.symbols) /\ Complete(seen'.events, wire'.buffer \o wire'.symbols, wire'.live, host'.published)
    BY <1>2, <1>23, <1>24, <1>25, FirstWords
  <1> QED BY <1>3, <1>4, <1>5 DEF StreamInv

LEMMA StreamEndsKeeps ==
    ASSUME StreamInv, StreamEnds
    PROVE  StreamInv'
  <1>1. /\ WellLooped(loop)
        /\ loop \in StreamLoop /\ host \in StreamHost /\ wire \in StreamWire /\ seen \in StreamSeen
    BY StreamTyped DEF StreamInv, WellLooped
  <1>2. PICK downs \in Nat : downs = seen.down + 1
    BY <1>1 DEF StreamSeen
  <1>3. /\ loop.at = "streaming" /\ loop' = After(loop)
        /\ host' = [host EXCEPT !.subscribed = FALSE]
        /\ wire' = [symbols |-> <<>>, buffer |-> <<>>, live |-> FALSE]
        /\ seen' = [seen EXCEPT !.down = downs]
    BY <1>2 DEF StreamEnds, Dropped, ReportedDown
  <1>4. WellLooped(loop') /\ loop'.at # "streaming"
    BY <1>1, <1>3, AttemptIs
  <1>5. host' \in StreamHost
    BY <1>1, <1>3 DEF StreamHost
  <1>6. wire' \in StreamWire
    BY <1>3, FirstWords DEF StreamWire
  <1>7. /\ seen' \in StreamSeen /\ seen'.connected = seen.connected /\ seen'.down = downs
        /\ seen.connected \in Nat /\ seen.down \in Nat
    BY <1>1, <1>3 DEF StreamSeen
  <1>8. StreamTypeOK'
    BY <1>4, <1>5, <1>6, <1>7, StreamTypedNext DEF WellLooped
  <1>9. TransportIsReported'
    BY <1>2, <1>3, <1>4, <1>7 DEF StreamInv, TransportIsReported
  <1> QED BY <1>4, <1>8, <1>9 DEF StreamInv

\* The loop waits, or is told to stop or to connect again.
LEMMA LoopKeeps ==
    ASSUME StreamInv, StartLoop \/ CloseClient \/ RequestReconnect \/ ConnectFails \/ BackoffEnds
    PROVE  StreamInv'
  <1>1. /\ WellLooped(loop)
        /\ loop \in StreamLoop /\ host \in StreamHost /\ wire \in StreamWire /\ seen \in StreamSeen
    BY StreamTyped DEF StreamInv, WellLooped
  <1>2. /\ WellLooped(loop') /\ (loop'.at = "streaming" <=> loop.at = "streaming")
        /\ UNCHANGED <<host, wire, seen>>
    <2>1. CASE StartLoop \/ BackoffEnds \/ ConnectFails
      BY <1>1, <2>1, AttemptIs DEF StartLoop, BackoffEnds, ConnectFails
    <2>2. CASE CloseClient \/ RequestReconnect
      BY <1>1, <2>2, SupersededIs DEF CloseClient, RequestReconnect
    <2> QED BY <2>1, <2>2
  <1>3. StreamTypeOK'
    BY <1>1, <1>2, StreamTypedNext DEF WellLooped
  <1>4. TransportIsReported'
    BY <1>2 DEF StreamInv, TransportIsReported
  <1> QED BY <1>2, <1>3, <1>4 DEF StreamInv

LEMMA HostChangesKeep ==
    ASSUME StreamInv, HostStops \/ HostStarts
    PROVE  StreamInv'
  <1>1. /\ WellLooped(loop)
        /\ loop \in StreamLoop /\ host \in StreamHost /\ wire \in StreamWire /\ seen \in StreamSeen
    BY StreamTyped DEF StreamInv, WellLooped
  <1>2. /\ host' \in StreamHost
        /\ host'.published = host.published /\ UNCHANGED <<loop, wire, seen>>
    <2>1. CASE HostStops
      <3>1. PICK changes \in Nat : changes = host.changes + 1
        BY <1>1 DEF StreamHost
      <3>2. host' = [host EXCEPT !.up = FALSE, !.subscribed = FALSE, !.changes = changes] /\ UNCHANGED <<loop, wire, seen>>
        BY <2>1, <3>1 DEF HostStops
      <3> QED BY <1>1, <3>2 DEF StreamHost
    <2>2. CASE HostStarts
      BY <1>1, <2>2 DEF HostStarts, StreamHost
    <2> QED BY <2>1, <2>2
  <1>3. StreamTypeOK'
    BY <1>1, <1>2, StreamTypedNext DEF WellLooped
  <1> QED BY <1>2, <1>3 DEF StreamInv, TransportIsReported

\* From here on a link may lose what is published.
LEMMA LinkDiesKeeps ==
    ASSUME StreamInv, LinkDies
    PROVE  StreamInv'
  <1>1. /\ WellLooped(loop)
        /\ loop \in StreamLoop /\ host \in StreamHost /\ wire \in StreamWire /\ seen \in StreamSeen
    BY StreamTyped DEF StreamInv, WellLooped
  <1>2. /\ wire' \in StreamWire /\ ~wire'.live
        /\ wire'.buffer = wire.buffer /\ wire'.symbols = wire.symbols /\ UNCHANGED <<loop, host, seen>>
    BY <1>1 DEF LinkDies, StreamWire
  <1>3. StreamTypeOK'
    BY <1>1, <1>2, StreamTypedNext DEF WellLooped
  <1> QED BY <1>2, <1>3 DEF StreamInv, TransportIsReported, Complete

\* The invariant of the stream: nothing that was published on a connection is missing but
\* what is under way or was lost by a link that died.
THEOREM StreamInvariant == StreamSpec => []StreamInv
  <1>1. StreamInit => StreamInv
    BY StreamStarts
  <1>2. StreamInv /\ [StreamNext]_streamVars => StreamInv'
    <2> SUFFICES ASSUME StreamInv, [StreamNext]_streamVars PROVE StreamInv'
      OBVIOUS
    <2>1. CASE \E e \in Events : Publish(e)
      BY <2>1, PublishKeeps
    <2>2. CASE \E n \in 1..(2 * MaxPublished + 2) : Read(n)
      <3>1. PICK n \in 1..(2 * MaxPublished + 2) : Read(n)
        BY <2>2
      <3>2. n \in Nat
        BY <3>1 DEF Read
      <3> QED BY <3>1, <3>2, ReadKeeps
    <2>3. CASE Heartbeat
      BY <2>3, HeartbeatKeeps
    <2>4. CASE Connected
      BY <2>4, ConnectedKeeps
    <2>5. CASE StreamEnds
      BY <2>5, StreamEndsKeeps
    <2>6. CASE StartLoop \/ CloseClient \/ RequestReconnect \/ ConnectFails \/ BackoffEnds
      BY <2>6, LoopKeeps
    <2>7. CASE HostStops \/ HostStarts
      BY <2>7, HostChangesKeep
    <2>8. CASE LinkDies
      BY <2>8, LinkDiesKeeps
    <2>9. CASE UNCHANGED streamVars
      BY <2>9 DEF streamVars, StreamInv, StreamTypeOK, TransportIsReported
    <2> QED BY <2>1, <2>2, <2>3, <2>4, <2>5, <2>6, <2>7, <2>8, <2>9 DEF StreamNext
  <1> QED BY <1>1, <1>2, PTL DEF StreamSpec

\* What the client was told begins what was published, and is all of it once nothing is
\* under way on a link that works.
ToldSoFar(events, published, live, symbols) ==
    /\ IsPrefix(events, published)
    /\ live /\ symbols = <<>> => events = published

LEMMA ToldBegins ==
    ASSUME NEW events \in Seq(Events), NEW published \in Seq(Events), NEW live,
           NEW buffer \in Text, NEW symbols \in Text,
           Whole(buffer, symbols), Complete(events, buffer \o symbols, live, published)
    PROVE  ToldSoFar(events, published, live, symbols)
  <1>1. buffer \o symbols \in Text
    BY DEF Text
  <1>2. PICK heard \in Seq(Events) : heard = Among(buffer \o symbols, Events)
    BY <1>1, SymbolsAreTold
  <1>3. PICK lost \in Seq(Events) : (live => lost = <<>>) /\ (events \o heard) \o lost = published
    BY <1>2 DEF Complete
  <1>4. PICK more \in Seq(Events) : more = heard \o lost
    BY ConcatProperties
  <1>5. published = events \o more
    BY ZenonT(30), SMTT(30), <1>3, <1>4, Regroup
  <1>6. IsPrefix(events, published)
    <2>1. SubSeq(events \o more, 1, Len(events)) = events
      BY SubSeqOfConcat1, SubSeqFull
    <2>2. Len(events) <= Len(published)
      BY <1>5
    <2> QED BY <1>5, <2>1, <2>2 DEF IsPrefix
  <1>7. ASSUME live, symbols = <<>> PROVE events = published
    <2>1. buffer \o symbols = <<>>
      BY <1>7, FirstWords, ConcatEmptySeq DEF Whole
    <2>2. heard = <<>> /\ lost = <<>>
      BY <1>2, <1>3, <1>7, <2>1, NothingAmong
    <2> QED BY <1>3, <2>2, ConcatEmptySeq
  <1> QED BY <1>6, <1>7 DEF ToldSoFar

\* What a subscriber of the stream may rely on: the events of a connection in the order
\* they were published, each once and none left out, and every end reported.
THEOREM StreamTells == StreamSpec => []StreamTellsAll
  <1>1. StreamInv => StreamTellsAll
    <2> SUFFICES ASSUME StreamInv PROVE StreamTellsAll
      OBVIOUS
    <2>1. ASSUME loop.at = "streaming"
          PROVE  ToldSoFar(seen.events, host.published, wire.live, wire.symbols)
      <3>1. /\ wire.buffer \in Text /\ wire.symbols \in Text
            /\ host.published \in Seq(Events) /\ seen.events \in Seq(Events)
        BY DEF StreamInv, StreamTypeOK
      <3>2. /\ Whole(wire.buffer, wire.symbols)
            /\ Complete(seen.events, wire.buffer \o wire.symbols, wire.live, host.published)
        BY <2>1 DEF StreamInv
      <3> QED BY <3>1, <3>2, ToldBegins, Zenon
    <2> QED BY <2>1 DEF StreamInv, StreamTellsAll, EventsInOrder, ToldSoFar
  <1> QED BY <1>1, StreamInvariant, PTL
=============================================================================
