------------------------- MODULE ConversationProofs -------------------------
(***************************************************************************)
(* Proofs about one agent's conversation, for any prompts, nonces, wakes,  *)
(* escapes and messages: its newest prompt is served, a superseded turn is *)
(* told to stop, no message waits without a revive loop, a peer never      *)
(* aborts a user turn, and the turns of user and peers are served as       *)
(* ExclusiveRuns promises.                                                 *)
(*                                                                         *)
(* The invariant ties three places that the code keeps apart: the slot of  *)
(* the queue, the one controller of the runner, and the epochs.            *)
(***************************************************************************)
EXTENDS Conversation, FilterProofs

-----------------------------------------------------------------------------
(* The queue and the runner *)

Live == {"taken", "running", "between"}

SlotTyped ==
    /\ userLane \in Seq(Prompts)
    /\ agentLane \in Seq(Wakes)
    /\ active \in Turns \cup {NoTurn}
    /\ phase \in [Turns -> Phases]
    /\ escaped \subseteq Turns
    /\ controller \in Turns \cup {NoTurn}
    /\ aborted \subseteq Turns
    /\ disarmed \subseteq Turns

\* A lane holds queued turns, each once.
HoldsQueued(lane) ==
    \A i, j \in 1..Len(lane) : phase[lane[i]] = "queued" /\ (lane[i] = lane[j] => i = j)

LanesHoldQueued == HoldsQueued(userLane) /\ HoldsQueued(agentLane)

\* The slot holds the one turn that is under way and was not escaped.
SlotIsLive == active # NoTurn => phase[active] \in Live /\ active \notin escaped

LiveIsInSlot == \A t \in Turns : phase[t] \in Live => active = t \/ t \in escaped

EscapedHasBegun == \A t \in escaped : phase[t] \in {"running", "between", "done"}

\* A controller belongs to a run, and a run has its controller unless another took it.
ControllerRuns == controller # NoTurn => phase[controller] = "running"

RunIsControlled == \A t \in Turns : phase[t] = "running" => controller = t \/ t \in disarmed

AbortedHasBegun == \A t \in aborted : phase[t] \in {"running", "done"}

SlotInv ==
    /\ SlotTyped /\ LanesHoldQueued /\ SlotIsLive /\ LiveIsInSlot
    /\ EscapedHasBegun /\ ControllerRuns /\ RunIsControlled /\ AbortedHasBegun

\* NoTurn is no turn, and prompts are no wakes.
LEMMA TurnsAreApart ==
    /\ NoTurn \notin Turns /\ Prompts \subseteq Turns /\ Wakes \subseteq Turns
    /\ \A p \in Prompts, w \in Wakes : p # w
  BY TurnsAssumption, NoTurnAssumption DEF Turns

\* A queued turn that leaves its lane leaves queued turns behind it, and is not there.
LEMMA LaneLosesHead ==
    ASSUME NEW S, NEW lane \in Seq(S), lane # <<>>, HoldsQueued(lane)
    PROVE  /\ Head(lane) \in S /\ Tail(lane) \in Seq(S)
           /\ phase[Head(lane)] = "queued"
           /\ \A i, j \in 1..Len(Tail(lane)) :
                 /\ phase[Tail(lane)[i]] = "queued" /\ Tail(lane)[i] # Head(lane)
                 /\ Tail(lane)[i] = Tail(lane)[j] => i = j
           /\ \A i \in 1..Len(Tail(lane)) : Tail(lane)[i] \in S
  <1>1. Len(lane) \in Nat /\ Len(lane) > 0
    BY LenProperties, EmptySeq
  <1>2. /\ Head(lane) = lane[1] /\ Head(lane) \in S /\ Tail(lane) \in Seq(S)
        /\ Len(Tail(lane)) = Len(lane) - 1
        /\ \A i \in 1..Len(Tail(lane)) : Tail(lane)[i] = lane[i + 1]
    BY HeadTailProperties
  <1>3. \A i \in 1..Len(Tail(lane)) : i + 1 \in 1..Len(lane) /\ i + 1 # 1
    BY <1>1, <1>2
  <1>4. 1 \in 1..Len(lane)
    BY <1>1
  <1>5. \A i \in 1..Len(Tail(lane)) : Tail(lane)[i] \in S
    BY <1>2, <1>3, ElementOfSeq
  <1>6. \A i, j \in 1..Len(Tail(lane)) :
           /\ phase[Tail(lane)[i]] = "queued" /\ Tail(lane)[i] # Head(lane)
           /\ Tail(lane)[i] = Tail(lane)[j] => i = j
    BY <1>2, <1>3, <1>4 DEF HoldsQueued
  <1> QED
    BY <1>2, <1>4, <1>5, <1>6 DEF HoldsQueued

\* The elements of a lane are turns.
LEMMA LaneElements ==
    ASSUME SlotTyped
    PROVE  /\ \A i \in 1..Len(userLane) : userLane[i] \in Prompts
           /\ \A i \in 1..Len(agentLane) : agentLane[i] \in Wakes
           /\ Len(userLane) \in Nat /\ Len(agentLane) \in Nat
  BY ElementOfSeq, LenProperties DEF SlotTyped

\* Moving a turn that is not queued to a phase other than "queued" keeps a lane.
LEMMA LaneStays ==
    ASSUME NEW S, S \subseteq Turns, NEW lane \in Seq(S), HoldsQueued(lane),
           NEW t \in Turns, phase[t] # "queued", NEW ph, phase \in [Turns -> Phases],
           phase' = [phase EXCEPT ![t] = ph]
    PROVE  \A i, j \in 1..Len(lane) : phase'[lane[i]] = "queued" /\ (lane[i] = lane[j] => i = j)
  <1>1. \A i \in 1..Len(lane) : lane[i] \in Turns /\ lane[i] # t
    BY ElementOfSeq DEF HoldsQueued
  <1> QED
    BY <1>1 DEF HoldsQueued

\* pump() gives the slot to a queued turn.
LEMMA PumpKeepsSlot == ASSUME SlotInv, Pump PROVE SlotInv'
  <1> USE TurnsAreApart
  <1>0. SlotTyped /\ LanesHoldQueued /\ active = NoTurn
    BY DEF SlotInv, Pump
  <1>1. PICK t \in Turns :
          /\ phase[t] = "queued" /\ active' = t /\ phase' = [phase EXCEPT ![t] = "taken"]
          /\ userLane' \in Seq(Prompts) /\ agentLane' \in Seq(Wakes)
          /\ HoldsQueued(userLane)' /\ HoldsQueued(agentLane)'
    <2>1. CASE userLane # <<>> /\ active' = Head(userLane) /\ userLane' = Tail(userLane) /\ UNCHANGED agentLane
      <3>1. /\ Head(userLane) \in Prompts /\ Tail(userLane) \in Seq(Prompts)
            /\ phase[Head(userLane)] = "queued"
            /\ \A i, j \in 1..Len(Tail(userLane)) :
                 /\ phase[Tail(userLane)[i]] = "queued" /\ Tail(userLane)[i] # Head(userLane)
                 /\ Tail(userLane)[i] = Tail(userLane)[j] => i = j
            /\ \A i \in 1..Len(Tail(userLane)) : Tail(userLane)[i] \in Prompts
        BY <1>0, <2>1, LaneLosesHead DEF SlotTyped, LanesHoldQueued
      <3>2. phase' = [phase EXCEPT ![Head(userLane)] = "taken"]
        BY <2>1 DEF Pump
      <3>3. \A i \in 1..Len(agentLane) : agentLane[i] \in Turns /\ agentLane[i] # Head(userLane)
        BY <3>1, <1>0, LaneElements
      <3>4. HoldsQueued(userLane)'
        BY <2>1, <3>1, <3>2, <1>0 DEF HoldsQueued, SlotTyped
      <3>5. HoldsQueued(agentLane)'
        BY <2>1, <3>2, <3>3, <1>0 DEF HoldsQueued, SlotTyped, LanesHoldQueued
      <3> QED
        BY <3>1, <3>2, <3>4, <3>5, <2>1, <1>0 DEF SlotTyped
    <2>2. CASE agentLane # <<>> /\ active' = Head(agentLane) /\ agentLane' = Tail(agentLane) /\ UNCHANGED userLane
      <3>1. /\ Head(agentLane) \in Wakes /\ Tail(agentLane) \in Seq(Wakes)
            /\ phase[Head(agentLane)] = "queued"
            /\ \A i, j \in 1..Len(Tail(agentLane)) :
                 /\ phase[Tail(agentLane)[i]] = "queued" /\ Tail(agentLane)[i] # Head(agentLane)
                 /\ Tail(agentLane)[i] = Tail(agentLane)[j] => i = j
            /\ \A i \in 1..Len(Tail(agentLane)) : Tail(agentLane)[i] \in Wakes
        BY <1>0, <2>2, LaneLosesHead DEF SlotTyped, LanesHoldQueued
      <3>2. phase' = [phase EXCEPT ![Head(agentLane)] = "taken"]
        BY <2>2 DEF Pump
      <3>3. \A i \in 1..Len(userLane) : userLane[i] \in Turns /\ userLane[i] # Head(agentLane)
        BY <3>1, <1>0, LaneElements
      <3>4. HoldsQueued(agentLane)'
        BY <2>2, <3>1, <3>2, <1>0 DEF HoldsQueued, SlotTyped
      <3>5. HoldsQueued(userLane)'
        BY <2>2, <3>2, <3>3, <1>0 DEF HoldsQueued, SlotTyped, LanesHoldQueued
      <3> QED
        BY <3>1, <3>2, <3>4, <3>5, <2>2, <1>0 DEF SlotTyped
    <2> QED
      BY <2>1, <2>2 DEF Pump
  <1>2. UNCHANGED <<escaped, controller, aborted, disarmed>>
    BY DEF Pump, runnerVars
  <1>3. SlotTyped'
    BY <1>0, <1>1, <1>2 DEF SlotTyped, Phases
  <1>4. t \notin escaped /\ t \notin aborted /\ controller # t
    BY <1>1 DEF SlotInv, EscapedHasBegun, AbortedHasBegun, ControllerRuns
  <1>5. SlotIsLive'
    BY <1>0, <1>1, <1>2, <1>4 DEF SlotIsLive, Live, SlotTyped
  <1>6. LiveIsInSlot'
    BY <1>0, <1>1, <1>2 DEF SlotInv, LiveIsInSlot, SlotTyped
  <1>7. EscapedHasBegun' /\ ControllerRuns' /\ RunIsControlled' /\ AbortedHasBegun'
    BY <1>0, <1>1, <1>2, <1>4 DEF SlotInv, EscapedHasBegun, ControllerRuns, RunIsControlled, AbortedHasBegun, SlotTyped
  <1> QED
    BY <1>1, <1>3, <1>5, <1>6, <1>7 DEF SlotInv, LanesHoldQueued

\* What interrupt(), or no call of it, leaves behind.
RunnerTold ==
    /\ UNCHANGED <<controller, disarmed>>
    /\ aborted \subseteq aborted'
    /\ aborted' \subseteq aborted \cup ({controller} \ {NoTurn})

\* interrupt() aborts the controller's run and no other.
LEMMA InterruptTells == ASSUME Interrupt \/ UNCHANGED runnerVars PROVE RunnerTold
  BY DEF Interrupt, CanInterrupt, runnerVars, RunnerTold

\* The phase of one turn, and then that of the others.
LEMMA PhaseMoves ==
    ASSUME SlotTyped, NEW t \in Turns, NEW ph \in Phases, phase' = [phase EXCEPT ![t] = ph]
    PROVE  /\ phase' \in [Turns -> Phases] /\ phase'[t] = ph
           /\ \A u \in Turns : u # t => phase'[u] = phase[u]
  BY DEF SlotTyped

\* A new turn is put at the end of its lane, and perhaps a run is interrupted.
LEMMA EnqueueKeepsSlot ==
    ASSUME SlotInv, RunnerTold, NEW t \in Turns, phase[t] = "new",
           (t \in Prompts /\ EnqueueUser(t)) \/ (t \in Wakes /\ EnqueueAgent(t))
    PROVE  SlotInv'
  <1> USE TurnsAreApart
  <1>0. SlotTyped /\ LanesHoldQueued
    BY DEF SlotInv
  <1>1. /\ phase' = [phase EXCEPT ![t] = "queued"] /\ UNCHANGED <<active, escaped>>
        /\ \/ userLane' = Append(userLane, t) /\ t \in Prompts /\ UNCHANGED agentLane
           \/ agentLane' = Append(agentLane, t) /\ t \in Wakes /\ UNCHANGED userLane
    BY DEF EnqueueUser, EnqueueAgent
  <1>2. /\ phase' \in [Turns -> Phases] /\ phase'[t] = "queued"
        /\ \A u \in Turns : u # t => phase'[u] = phase[u]
    BY <1>0, <1>1 DEF SlotTyped, Phases
  <1>3. ASSUME NEW S, S \subseteq Turns, NEW lane \in Seq(S), HoldsQueued(lane), t \in S
        PROVE  /\ Append(lane, t) \in Seq(S)
               /\ \A i, j \in 1..Len(Append(lane, t)) :
                     /\ phase'[Append(lane, t)[i]] = "queued"
                     /\ Append(lane, t)[i] = Append(lane, t)[j] => i = j
               /\ \A i, j \in 1..Len(lane) : phase'[lane[i]] = "queued" /\ (lane[i] = lane[j] => i = j)
    <2>1. \A i \in 1..Len(lane) : lane[i] \in Turns /\ lane[i] # t /\ phase[lane[i]] = "queued"
      BY <1>3, ElementOfSeq DEF HoldsQueued
    <2>2. /\ Append(lane, t) \in Seq(S) /\ Len(Append(lane, t)) = Len(lane) + 1
          /\ \A i \in 1..Len(lane) : Append(lane, t)[i] = lane[i]
          /\ Append(lane, t)[Len(lane) + 1] = t /\ Len(lane) \in Nat
      BY <1>3, AppendProperties, LenProperties
    <2>3. \A i \in 1..Len(Append(lane, t)) : i \in 1..Len(lane) \/ i = Len(lane) + 1
      BY <2>2
    <2> QED
      BY <1>2, <1>3, <2>1, <2>2, <2>3 DEF HoldsQueued
  <1>4. ASSUME NEW S, S \subseteq Turns, NEW lane \in Seq(S), HoldsQueued(lane)
        PROVE  \A i, j \in 1..Len(lane) : phase'[lane[i]] = "queued" /\ (lane[i] = lane[j] => i = j)
    <2>1. \A i \in 1..Len(lane) : lane[i] \in Turns
      BY <1>4, ElementOfSeq
    <2> QED
      BY <1>2, <1>4, <2>1 DEF HoldsQueued
  <1>5. LanesHoldQueued' /\ userLane' \in Seq(Prompts) /\ agentLane' \in Seq(Wakes)
    <2>1. userLane \in Seq(Prompts) /\ agentLane \in Seq(Wakes) /\ HoldsQueued(userLane) /\ HoldsQueued(agentLane)
      BY <1>0 DEF SlotTyped, LanesHoldQueued
    <2>2. CASE userLane' = Append(userLane, t) /\ t \in Prompts /\ UNCHANGED agentLane
      <3>1. userLane' \in Seq(Prompts) /\ HoldsQueued(userLane)'
        BY <1>3, <2>1, <2>2 DEF HoldsQueued
      <3>2. HoldsQueued(agentLane)'
        BY SMTT(30), ZenonT(30), <1>4, <2>1, <2>2 DEF HoldsQueued
      <3> QED
        BY <3>1, <3>2, <2>1, <2>2 DEF LanesHoldQueued
    <2>3. CASE agentLane' = Append(agentLane, t) /\ t \in Wakes /\ UNCHANGED userLane
      <3>1. agentLane' \in Seq(Wakes) /\ HoldsQueued(agentLane)'
        BY <1>3, <2>1, <2>3 DEF HoldsQueued
      <3>2. HoldsQueued(userLane)'
        BY <1>4, <2>1, <2>3 DEF HoldsQueued
      <3> QED
        BY <3>1, <3>2, <2>1, <2>3 DEF LanesHoldQueued
    <2> QED
      BY <1>1, <2>2, <2>3
  <1>6. SlotTyped'
    BY <1>0, <1>1, <1>2, <1>5 DEF SlotTyped, RunnerTold
  <1>7. controller # t /\ active # t /\ t \notin escaped
    BY DEF SlotInv, ControllerRuns, SlotIsLive, Live, EscapedHasBegun
  <1>8. SlotIsLive' /\ LiveIsInSlot' /\ EscapedHasBegun'
    BY <1>0, <1>1, <1>2, <1>7 DEF SlotInv, SlotTyped, SlotIsLive, LiveIsInSlot, EscapedHasBegun, Live
  <1>9. ControllerRuns' /\ RunIsControlled' /\ AbortedHasBegun'
    BY <1>0, <1>1, <1>2, <1>7 DEF SlotInv, SlotTyped, ControllerRuns, RunIsControlled, AbortedHasBegun, RunnerTold
  <1> QED
    BY <1>5, <1>6, <1>8, <1>9 DEF SlotInv

\* The phases of turns that are not queued change without the lanes.
LEMMA LanesStay ==
    ASSUME SlotTyped, LanesHoldQueued, UNCHANGED <<userLane, agentLane>>,
           \A u \in Turns : phase[u] = "queued" => phase'[u] = "queued"
    PROVE  LanesHoldQueued'
  <1>1. /\ \A i \in 1..Len(userLane) : userLane[i] \in Turns
        /\ \A i \in 1..Len(agentLane) : agentLane[i] \in Turns
    BY LaneElements, TurnsAreApart
  <1> QED
    BY <1>1 DEF LanesHoldQueued, HoldsQueued

\* interrupt() alone.
LEMMA InterruptKeepsSlot == ASSUME SlotInv, RunnerTold, UNCHANGED queueVars PROVE SlotInv'
  <1>1. SlotTyped /\ LanesHoldQueued /\ UNCHANGED <<userLane, agentLane, active, phase, escaped>>
    BY DEF SlotInv, queueVars
  <1>2. LanesHoldQueued'
    BY <1>1, LanesStay
  <1>3. SlotTyped'
    BY <1>1 DEF SlotTyped, RunnerTold
  <1> QED
    BY <1>1, <1>2, <1>3 DEF SlotInv, SlotIsLive, LiveIsInSlot, EscapedHasBegun, ControllerRuns, RunIsControlled, AbortedHasBegun, RunnerTold

\* A turn starts a run, and the controller of another run is lost.
LEMMA BeginRunKeepsSlot ==
    ASSUME SlotInv, NEW t \in Turns, phase[t] \in {"taken", "between"}, Goto(t, "running"), BeginRun(t)
    PROVE  SlotInv'
  <1> USE TurnsAreApart
  <1>1. /\ SlotTyped /\ LanesHoldQueued
        /\ phase' = [phase EXCEPT ![t] = "running"] /\ UNCHANGED <<userLane, agentLane, active, escaped>>
        /\ controller' = t /\ aborted' = aborted \ {t} /\ disarmed' = (disarmed \ {t}) \cup ({controller} \ {t, NoTurn})
    BY DEF SlotInv, Goto, BeginRun, Disarm
  <1>2. /\ phase' \in [Turns -> Phases] /\ phase'[t] = "running"
        /\ \A u \in Turns : u # t => phase'[u] = phase[u]
    BY <1>1 DEF SlotTyped, Phases
  <1>3. LanesHoldQueued'
    BY <1>1, <1>2, LanesStay
  <1>4. SlotTyped'
    BY <1>1, <1>2 DEF SlotTyped
  <1>5. SlotIsLive' /\ LiveIsInSlot' /\ EscapedHasBegun'
    BY <1>1, <1>2 DEF SlotInv, SlotTyped, SlotIsLive, LiveIsInSlot, EscapedHasBegun, Live
  <1>6. ControllerRuns' /\ RunIsControlled' /\ AbortedHasBegun'
    BY <1>1, <1>2 DEF SlotInv, SlotTyped, ControllerRuns, RunIsControlled, AbortedHasBegun
  <1> QED
    BY <1>3, <1>4, <1>5, <1>6 DEF SlotInv

\* A turn ends, or goes on to its next run, after a run of its own or without one.
LEMMA LeaveKeepsSlot ==
    ASSUME SlotInv, NEW t \in Turns, phase[t] \in Live,
           \/ Goto(t, "between") /\ t \notin aborted
           \/ EndTurn(t),
           \/ phase[t] = "running" /\ EndRun(t)
           \/ phase[t] # "running" /\ UNCHANGED runnerVars
    PROVE  SlotInv'
  <1> USE TurnsAreApart
  <1>1. /\ SlotTyped /\ LanesHoldQueued
        /\ UNCHANGED <<userLane, agentLane, escaped, aborted>>
    BY DEF SlotInv, Goto, EndTurn, EndRun, runnerVars
  <1>2. /\ phase' \in [Turns -> Phases]
        /\ \A u \in Turns : u # t => phase'[u] = phase[u]
        /\ \/ phase'[t] = "between" /\ active' = active /\ t \notin aborted
           \/ phase'[t] = "done" /\ active' = (IF active = t THEN NoTurn ELSE active)
    BY <1>1 DEF SlotTyped, Phases, Goto, EndTurn
  <1>3. /\ controller' \in {controller, NoTurn} /\ controller' # t
        /\ disarmed' \subseteq Turns
        /\ \A u \in disarmed : u # t => u \in disarmed'
        /\ controller' = controller \/ controller \in {t, NoTurn} \/ controller \in disarmed'
    BY <1>1 DEF EndRun, Disarm, runnerVars, SlotInv, SlotTyped, ControllerRuns
  <1>4. LanesHoldQueued'
    BY <1>1, <1>2, LanesStay DEF Live
  <1>5. SlotTyped'
    BY <1>1, <1>2, <1>3 DEF SlotTyped
  <1>6. SlotIsLive' /\ LiveIsInSlot' /\ EscapedHasBegun'
    BY <1>1, <1>2 DEF SlotInv, SlotTyped, SlotIsLive, LiveIsInSlot, EscapedHasBegun, Live
  <1>7. ControllerRuns' /\ RunIsControlled' /\ AbortedHasBegun'
    BY <1>1, <1>2, <1>3 DEF SlotInv, SlotTyped, ControllerRuns, RunIsControlled, AbortedHasBegun
  <1> QED
    BY <1>4, <1>5, <1>6, <1>7 DEF SlotInv

\* A wake comes to its first message.
LEMMA StartKeepsSlot ==
    ASSUME SlotInv, NEW t \in Turns, phase[t] = "taken", Goto(t, "between"), UNCHANGED runnerVars
    PROVE  SlotInv'
  <1>1. t \notin aborted
    BY DEF SlotInv, AbortedHasBegun
  <1> QED
    BY <1>1, LeaveKeepsSlot DEF Live

\* The watchdog gives the slot free while the turn goes on.
LEMMA EscapeKeepsSlot == ASSUME SlotInv, Escape PROVE SlotInv'
  <1> USE TurnsAreApart
  <1>1. /\ SlotTyped /\ LanesHoldQueued /\ active \in Turns /\ phase[active] = "running"
        /\ escaped' = escaped \cup {active} /\ active' = NoTurn
        /\ UNCHANGED <<userLane, agentLane, phase, controller, aborted, disarmed>>
    BY DEF SlotInv, Escape, runnerVars, SlotTyped
  <1>2. LanesHoldQueued'
    BY <1>1, LanesStay
  <1> QED
    BY <1>1, <1>2 DEF SlotInv, SlotTyped, SlotIsLive, LiveIsInSlot, EscapedHasBegun, ControllerRuns, RunIsControlled, AbortedHasBegun

-----------------------------------------------------------------------------
(* The user's turns *)

UserTyped ==
    /\ nonce \in [Prompts -> Nonces \cup {NoNonce}]
    /\ send \in [Prompts -> {"new", "merged", "appending", "waiting", "settled"}]
    /\ inFlight \in [Nonces -> Prompts \cup {NoTurn}]
    /\ epoch \in Nat
    /\ epochOf \in [Prompts -> Nat]
    /\ outcome \in [Prompts -> {"none", "skipped", "answered", "aborted", "failed"}]

\* A send in progress holds its nonce; recoveries have none.
NoncesAreHeld ==
    /\ \A p \in Recoveries : nonce[p] = NoNonce
    /\ \A p \in Prompts :
           send[p] \in {"appending", "waiting"} /\ nonce[p] # NoNonce => inFlight[nonce[p]] = p

\* A turn is enqueued by its send, and has its outcome when it ends.
TurnsFollowSends ==
    \A p \in Prompts :
        /\ send[p] \in {"new", "merged", "appending"} => phase[p] = "new"
        /\ phase[p] # "done" => outcome[p] = "none"

\* What a newer message made of the turns before it.
OlderTurnsYield ==
    \A p \in Prompts :
        /\ epochOf[p] <= epoch
        /\ outcome[p] = "skipped" => epochOf[p] < epoch
        /\ p \in aborted \/ outcome[p] = "aborted" => epochOf[p] < epoch \/ p \in escaped

UserInv == UserTyped /\ NoncesAreHeld /\ TurnsFollowSends /\ OlderTurnsYield /\ SupersededTurnIsAborted

\* The invariant says that the newest message is served.
LEMMA NewestIsServed == ASSUME UserInv PROVE NewestPromptIsServed
  <1>1. ASSUME NEW p \in Prompts, epochOf[p] = epoch
        PROVE  outcome[p] # "skipped" /\ (outcome[p] = "aborted" => p \in escaped)
    BY <1>1 DEF UserInv, UserTyped, OlderTurnsYield
  <1>2. ASSUME NEW p \in Prompts, NEW q \in Prompts, nonce[p] = nonce[q], nonce[p] # NoNonce,
               send[p] \in {"appending", "waiting"}, send[q] \in {"appending", "waiting"}
        PROVE  p = q
    BY <1>2 DEF UserInv, NoncesAreHeld
  <1> QED
    BY <1>1, <1>2 DEF NewestPromptIsServed

\* A step that leaves the user's turns alone, and aborts no run but an escaped one.
LEMMA OthersKeepUser ==
    ASSUME SlotTyped, UserInv, UNCHANGED userVars,
           \A p \in Prompts :
              /\ phase'[p] = phase[p] \/ (phase[p] \notin {"new", "done"} /\ phase'[p] \notin {"new", "done"})
              /\ p \in aborted' => p \in aborted \/ p \in escaped'
              /\ p \in escaped => p \in escaped'
              /\ active' = p /\ phase'[p] = "running" => active = p /\ phase[p] = "running"
              /\ active' = p /\ p \in aborted \cup disarmed => p \in aborted' \cup disarmed'
    PROVE  UserInv'
  <1>1. UNCHANGED <<nonce, send, inFlight, epoch, epochOf, outcome>>
    BY DEF userVars
  <1>2. UserTyped' /\ NoncesAreHeld'
    BY <1>1 DEF UserInv, UserTyped, NoncesAreHeld
  <1>3. TurnsFollowSends'
    BY <1>1 DEF UserInv, TurnsFollowSends
  <1>4. OlderTurnsYield'
    BY <1>1 DEF UserInv, OlderTurnsYield
  <1>5. SupersededTurnIsAborted'
    BY <1>1 DEF UserInv, SupersededTurnIsAborted, StaleTurn
  <1> QED
    BY <1>2, <1>3, <1>4, <1>5 DEF UserInv

\* A send, before its turn is enqueued or after it has ended.
LEMMA SendStep ==
    ASSUME UserInv, NEW p \in Prompts, UNCHANGED <<queueVars, runnerVars>>,
           SendUserPrompt(p) \/ RecoverSkippedMessages(p) \/ SettleSend(p)
    PROVE  UserInv'
  <1>1. UserTyped /\ UNCHANGED <<active, phase, escaped, aborted, disarmed, nonce, epoch, epochOf, outcome>>
    BY DEF UserInv, queueVars, runnerVars, SendUserPrompt, RecoverSkippedMessages, SettleSend
  <1>2. UserTyped' /\ NoncesAreHeld'
    <2>1. CASE SendUserPrompt(p)
      BY <1>1, <2>1, RecoveriesAssumption, NoNonceAssumption, TurnsAreApart DEF UserInv, SendUserPrompt, UserTyped, NoncesAreHeld
    <2>2. CASE RecoverSkippedMessages(p)
      BY <1>1, <2>2, RecoveriesAssumption DEF UserInv, RecoverSkippedMessages, UserTyped, NoncesAreHeld
    <2>3. CASE SettleSend(p)
      BY <1>1, <2>3, TurnsAreApart DEF UserInv, SettleSend, UserTyped, NoncesAreHeld
    <2> QED
      BY <2>1, <2>2, <2>3
  <1>3. /\ send' \in [Prompts -> {"new", "merged", "appending", "waiting", "settled"}]
        /\ \A q \in Prompts : send'[q] \in {"new", "merged", "appending"} => send[q] \in {"new", "merged", "appending"}
    BY <1>1, <1>2 DEF UserTyped, SendUserPrompt, RecoverSkippedMessages, SettleSend
  <1>4. TurnsFollowSends' /\ OlderTurnsYield' /\ SupersededTurnIsAborted'
    BY <1>1, <1>3 DEF UserInv, TurnsFollowSends, OlderTurnsYield, SupersededTurnIsAborted, StaleTurn
  <1> QED
    BY <1>2, <1>4 DEF UserInv

\* A message is accepted: what runs in the slot is told to stop, or has lost its
\* controller, and every turn so far is older.
LEMMA AcceptStep ==
    ASSUME SlotInv, UserInv, NEW p \in Prompts, AcceptPrompt(p)
    PROVE  UserInv' /\ RunnerTold
  <1> USE TurnsAreApart
  <1>1. /\ SlotTyped /\ UserTyped /\ send[p] = "appending" /\ phase[p] = "new" /\ outcome[p] = "none"
        /\ p \notin aborted /\ p # active /\ p # controller
    BY DEF SlotInv, UserInv, TurnsFollowSends, AcceptPrompt, EnqueueTurn, AbortedHasBegun, SlotIsLive, Live,
           ControllerRuns, SlotTyped
  <1>2. /\ send' = [send EXCEPT ![p] = "waiting"] /\ phase' = [phase EXCEPT ![p] = "queued"]
        /\ epoch' = epoch + 1 /\ epochOf' = [epochOf EXCEPT ![p] = epoch + 1]
        /\ UNCHANGED <<active, escaped, nonce, inFlight, outcome>>
    BY DEF AcceptPrompt, EnqueueTurn, EnqueueUser, TakeEpoch
  <1>3. RunnerTold
    <2>1. Interrupt \/ UNCHANGED runnerVars
      BY DEF AcceptPrompt
    <2> QED
      BY <2>1, InterruptTells
  <1>4. /\ phase' \in [Turns -> Phases] /\ phase'[p] = "queued"
        /\ \A u \in Turns : u # p => phase'[u] = phase[u]
    BY <1>1, <1>2 DEF SlotTyped, Phases
  <1>5. /\ epoch' \in Nat /\ epochOf' \in [Prompts -> Nat] /\ epochOf'[p] = epoch + 1
        /\ \A q \in Prompts : q # p => epochOf'[q] = epochOf[q]
    BY <1>1, <1>2 DEF UserTyped
  <1>6. UserTyped' /\ NoncesAreHeld'
    BY <1>1, <1>2, <1>5 DEF UserInv, UserTyped, NoncesAreHeld
  <1>7. TurnsFollowSends'
    BY <1>1, <1>2, <1>4 DEF UserInv, UserTyped, TurnsFollowSends
  <1>8. OlderTurnsYield'
    <2>1. p \notin aborted'
      BY <1>1, <1>3 DEF RunnerTold
    <2>2. ASSUME NEW q \in Prompts, q # p
          PROVE  epochOf[q] \in Nat /\ epochOf[q] <= epoch /\ epoch \in Nat
      BY <1>1 DEF UserInv, UserTyped, OlderTurnsYield
    <2>3. ASSUME NEW q \in Prompts, q # p PROVE epochOf'[q] < epoch'
      BY <2>2, <2>3, <1>2, <1>5
    <2>4. epochOf'[p] = epoch' /\ epochOf'[p] <= epoch' /\ outcome'[p] = "none"
      BY <1>1, <1>2, <1>5
    <2>5. ASSUME NEW q \in Prompts, q # p PROVE epochOf'[q] <= epoch'
      BY <2>3, <2>5, <1>5
    <2> QED
      BY <2>1, <2>3, <2>4, <2>5 DEF OlderTurnsYield
  <1>9. SupersededTurnIsAborted'
    <2>1. SUFFICES ASSUME active \in Prompts, phase[active] = "running"
                   PROVE  active \in aborted' \cup disarmed'
      BY <1>1, <1>2, <1>4 DEF SupersededTurnIsAborted
    <2>2. Interrupt
      BY <2>1, NoTurnAssumption DEF AcceptPrompt, ActiveLane
    <2>3. controller = active \/ active \in disarmed
      BY <2>1 DEF SlotInv, RunIsControlled
    <2> QED
      BY <2>1, <2>2, <2>3 DEF Interrupt, CanInterrupt
  <1> QED
    BY <1>3, <1>6, <1>7, <1>8, <1>9 DEF UserInv

\* A turn starts unless a newer message is there.
LEMMA StartStep ==
    ASSUME SlotInv, UserInv, NEW p \in Prompts, StartUserTurn(p)
    PROVE  UserInv'
  <1> USE TurnsAreApart
  <1>1. /\ SlotTyped /\ UserTyped /\ phase[p] = "taken" /\ send[p] \notin {"new", "merged", "appending"}
        /\ UNCHANGED <<escaped, nonce, send, inFlight, epoch, epochOf>>
    BY DEF SlotInv, UserInv, TurnsFollowSends, StartUserTurn, Goto, EndTurn
  <1>2. UserTyped' /\ NoncesAreHeld'
    BY <1>1 DEF StartUserTurn, UserInv, UserTyped, NoncesAreHeld
  <1>3. CASE StaleTurn(p)
    <2>1. /\ phase' = [phase EXCEPT ![p] = "done"] /\ outcome' = [outcome EXCEPT ![p] = "skipped"]
          /\ active' = (IF active = p THEN NoTurn ELSE active) /\ UNCHANGED <<aborted, disarmed>>
      BY <1>3 DEF StartUserTurn, EndTurn, runnerVars
    <2>2. /\ phase'[p] = "done" /\ outcome'[p] = "skipped"
          /\ \A q \in Prompts : q # p => phase'[q] = phase[q] /\ outcome'[q] = outcome[q]
      BY <1>1, <2>1 DEF SlotTyped, UserTyped
    <2>3. epochOf[p] < epoch /\ p \notin aborted
      BY <1>1, <1>3 DEF StaleTurn, UserInv, OlderTurnsYield, UserTyped, SlotInv, AbortedHasBegun
    <2>4. TurnsFollowSends' /\ OlderTurnsYield'
      BY <1>1, <2>1, <2>2, <2>3 DEF UserInv, TurnsFollowSends, OlderTurnsYield
    <2>5. SupersededTurnIsAborted'
      BY <1>1, <2>1, <2>2 DEF UserInv, SupersededTurnIsAborted, StaleTurn
    <2> QED
      BY <1>2, <2>4, <2>5 DEF UserInv
  <1>4. CASE ~StaleTurn(p)
    <2>1. /\ phase' = [phase EXCEPT ![p] = "running"] /\ UNCHANGED <<active, outcome>>
          /\ aborted' = aborted \ {p} /\ disarmed' = (disarmed \ {p}) \cup ({controller} \ {p, NoTurn})
      BY <1>4 DEF StartUserTurn, Goto, BeginRun, Disarm
    <2>2. phase'[p] = "running" /\ \A q \in Prompts : q # p => phase'[q] = phase[q]
      BY <1>1, <2>1 DEF SlotTyped
    <2>3. TurnsFollowSends' /\ OlderTurnsYield'
      BY <1>1, <2>1, <2>2 DEF UserInv, TurnsFollowSends, OlderTurnsYield
    <2>4. SupersededTurnIsAborted'
      BY <1>1, <1>4, <2>1, <2>2 DEF UserInv, SupersededTurnIsAborted, StaleTurn
    <2> QED
      BY <1>2, <2>3, <2>4 DEF UserInv
  <1> QED
    BY <1>3, <1>4

\* A run ends, aborted only if a newer message or a peer of an escaped run said so.
LEMMA FinishStep ==
    ASSUME SlotInv, UserInv, NEW p \in Prompts, NEW how \in {"answered", "failed"}, FinishUserTurn(p, how)
    PROVE  UserInv'
  <1> USE TurnsAreApart
  <1>1. /\ SlotTyped /\ UserTyped /\ phase[p] = "running" /\ send[p] \notin {"new", "merged", "appending"}
        /\ UNCHANGED <<escaped, aborted, nonce, send, inFlight, epoch, epochOf>>
        /\ phase' = [phase EXCEPT ![p] = "done"]
        /\ active' = (IF active = p THEN NoTurn ELSE active)
        /\ disarmed' = (disarmed \ {p}) \cup ({controller} \ {p, NoTurn})
        /\ outcome' = [outcome EXCEPT ![p] = IF p \in aborted THEN "aborted" ELSE how]
    BY DEF SlotInv, UserInv, TurnsFollowSends, FinishUserTurn, EndTurn, EndRun, Disarm
  <1>2. PICK o \in {"aborted", "answered", "failed"} :
           outcome' = [outcome EXCEPT ![p] = o] /\ (o = "aborted" => p \in aborted)
    BY <1>1
  <1>3. /\ phase'[p] = "done" /\ outcome'[p] = o
        /\ \A q \in Prompts : q # p => phase'[q] = phase[q] /\ outcome'[q] = outcome[q]
    BY <1>1, <1>2 DEF SlotTyped, UserTyped
  <1>4. UserTyped' /\ NoncesAreHeld'
    BY <1>1, <1>2 DEF UserInv, UserTyped, NoncesAreHeld
  <1>5. TurnsFollowSends'
    BY <1>1, <1>3 DEF UserInv, TurnsFollowSends
  <1>6. OlderTurnsYield'
    BY <1>1, <1>2, <1>3 DEF UserInv, OlderTurnsYield
  <1>7. SupersededTurnIsAborted'
    BY <1>1, <1>3 DEF UserInv, SupersededTurnIsAborted, StaleTurn
  <1> QED
    BY <1>4, <1>5, <1>6, <1>7 DEF UserInv

\* The steps of a user turn.
LEMMA UserStepKeeps ==
    ASSUME SlotInv, UserInv, NEW p \in Prompts, UserStep(p)
    PROVE  SlotInv' /\ UserInv'
  <1> USE TurnsAreApart
  <1>1. CASE SendUserPrompt(p) \/ RecoverSkippedMessages(p) \/ SettleSend(p)
    <2>1. UNCHANGED <<queueVars, runnerVars>>
      BY <1>1 DEF SendUserPrompt, RecoverSkippedMessages, SettleSend
    <2> QED
      BY <1>1, <2>1, SendStep, InterruptTells, InterruptKeepsSlot
  <1>2. CASE AcceptPrompt(p)
    <2>1. phase[p] = "new" /\ EnqueueUser(p)
      BY <1>2 DEF AcceptPrompt, EnqueueTurn, UserInv, TurnsFollowSends
    <2> QED
      BY <1>2, <2>1, AcceptStep, EnqueueKeepsSlot
  <1>3. CASE StartUserTurn(p)
    <2>1. phase[p] = "taken"
      BY <1>3 DEF StartUserTurn
    <2>2. CASE StaleTurn(p)
      BY <1>3, <2>1, <2>2, LeaveKeepsSlot, StartStep DEF StartUserTurn, Live
    <2>3. CASE ~StaleTurn(p)
      BY <1>3, <2>1, <2>3, BeginRunKeepsSlot, StartStep DEF StartUserTurn
    <2> QED
      BY <2>2, <2>3
  <1>4. ASSUME NEW how \in {"answered", "failed"}, FinishUserTurn(p, how)
        PROVE  SlotInv' /\ UserInv'
    BY <1>4, FinishStep, LeaveKeepsSlot DEF FinishUserTurn, Live
  <1> QED
    BY <1>1, <1>2, <1>3, <1>4 DEF UserStep

-----------------------------------------------------------------------------
(* The inbox *)

\* The revive loop waits for the wake that is under way, unless that was escaped.
WakeIsAwaited ==
    \A w \in Wakes :
        phase[w] \in Live \cup {"queued"} =>
            w \in escaped \/ (revive.at = "waiting" /\ revive.wake = w)

InboxInv == WakeIsAwaited /\ NoStrandedInbound

\* The loop ends with an empty inbox or shows a batch.
LEMMA LoopLooksAgain ==
    ASSUME NEW es, ReviveLoop(es)
    PROVE  inbound' = <<>> /\ revive'.at \in {"idle", "displaying"}
  <1>1. inbound' = <<>> /\ (revive' = Idle \/ \E b : revive' = [Idle EXCEPT !.at = "displaying", !.batch = b])
    BY DEF ReviveLoop
  <1>2. \A b : [Idle EXCEPT !.at = "displaying", !.batch = b].at = "displaying"
    BY DEF Idle
  <1>3. Idle.at = "idle"
    BY DEF Idle
  <1> QED
    BY <1>1, <1>2, <1>3

\* A step that leaves the inbox alone and enqueues or starts no wake.
LEMMA OthersKeepInbox ==
    ASSUME InboxInv, UNCHANGED <<inbound, revive>>, escaped \subseteq escaped',
           \A w \in Wakes :
              phase'[w] \in Live \cup {"queued"} => phase[w] \in Live \cup {"queued"}
    PROVE  InboxInv'
  BY DEF InboxInv, WakeIsAwaited, NoStrandedInbound

\* A message arrives.
LEMMA SendKeepsInbox ==
    ASSUME SlotInv, UserInv, InboxInv, NEW m \in Messages, SendToAgent(m)
    PROVE  SlotInv' /\ InboxInv'
  <1>1. Deliver(m) /\ UNCHANGED queueVars /\ RunnerTold
    <2>1. Interrupt \/ UNCHANGED runnerVars
      BY DEF SendToAgent
    <2> QED
      BY <2>1, InterruptTells DEF SendToAgent, Deliver
  <1>2. UNCHANGED <<phase, escaped>>
    BY <1>1 DEF queueVars
  <1>3. PICK es : IF revive.at = "idle" THEN ReviveLoop(es) ELSE UNCHANGED revive
    BY <1>1 DEF Deliver
  <1>4. CASE revive.at = "idle"
    <2>1. inbound' = <<>>
      BY <1>3, <1>4, LoopLooksAgain
    <2>2. \A w \in Wakes : phase[w] \in Live \cup {"queued"} => w \in escaped
      BY <1>4 DEF InboxInv, WakeIsAwaited
    <2> QED
      BY <1>1, <1>2, <2>1, <2>2, InterruptKeepsSlot DEF InboxInv, WakeIsAwaited, NoStrandedInbound
  <1>5. CASE revive.at # "idle"
    <2>1. UNCHANGED revive /\ revive # Idle
      BY <1>3, <1>5 DEF Idle
    <2> QED
      BY <1>1, <1>2, <2>1, InterruptKeepsSlot DEF InboxInv, WakeIsAwaited, NoStrandedInbound
  <1> QED
    BY <1>4, <1>5

\* The awaited wake is over, so that no other one is under way.
LEMMA ContinueKeepsInbox ==
    ASSUME SlotInv, InboxInv, ReviveContinues
    PROVE  SlotInv' /\ InboxInv'
  <1>1. UNCHANGED <<queueVars, runnerVars>> /\ revive.at = "waiting" /\ Released(revive.wake) /\ ReviveLoop(inbound)
    BY DEF ReviveContinues
  <1>2. inbound' = <<>> /\ UNCHANGED <<phase, escaped>>
    BY <1>1, LoopLooksAgain DEF queueVars
  <1>3. \A w \in Wakes : phase[w] \in Live \cup {"queued"} => w \in escaped
    BY <1>1 DEF InboxInv, WakeIsAwaited, Released, Live
  <1>4. InboxInv'
    BY <1>2, <1>3 DEF InboxInv, WakeIsAwaited, NoStrandedInbound
  <1> QED
    BY <1>1, <1>4, InterruptTells, InterruptKeepsSlot

\* The loop enqueues the wake of the batch it has shown, and awaits it.
LEMMA WakeKeepsInbox ==
    ASSUME SlotInv, InboxInv, NEW w \in Wakes, EnqueueWake(w)
    PROVE  SlotInv' /\ InboxInv'
  <1> USE TurnsAreApart
  <1>1. /\ revive.at = "displaying" /\ phase[w] = "new" /\ EnqueueAgent(w)
        /\ UNCHANGED <<inbound, runnerVars>>
        /\ revive' = [Idle EXCEPT !.at = "waiting", !.wake = w]
    BY DEF EnqueueWake
  <1>2. revive'.at = "waiting" /\ revive'.wake = w
    BY <1>1 DEF Idle
  <1>3. SlotInv'
    BY <1>1, InterruptTells, EnqueueKeepsSlot
  <1>4. \A v \in Wakes : v # w => phase'[v] = phase[v]
    BY <1>1 DEF SlotInv, SlotTyped, EnqueueAgent
  <1>5. \A v \in Wakes : phase[v] \in Live \cup {"queued"} => v \in escaped
    BY <1>1 DEF InboxInv, WakeIsAwaited
  <1>6. escaped' = escaped
    BY <1>1 DEF EnqueueAgent
  <1> QED
    BY <1>2, <1>3, <1>4, <1>5, <1>6 DEF InboxInv, WakeIsAwaited, NoStrandedInbound, Idle

\* A wake goes from one message to the next, or ends; what it puts back waits for the
\* loop, which awaits this wake.
LEMMA WakeRunKeepsInbox ==
    ASSUME SlotInv, InboxInv, NEW w \in Wakes,
           StartWake(w) \/ NextMessage(w) \/ FinishWakeRun(w) \/ FailWakeRun(w)
    PROVE  SlotInv' /\ InboxInv'
  <1> USE TurnsAreApart
  <1>1. phase[w] \in Live /\ UNCHANGED revive
    BY DEF StartWake, NextMessage, FinishWakeRun, FailWakeRun, Live, inboxVars
  <1>2. SlotInv'
    <2>1. CASE StartWake(w)
      BY <2>1, StartKeepsSlot DEF StartWake
    <2>2. CASE NextMessage(w)
      <3>1. phase[w] = "between"
        BY <2>2 DEF NextMessage
      <3>2. (EndTurn(w) /\ UNCHANGED runnerVars) \/ (Goto(w, "running") /\ BeginRun(w))
        BY <2>2 DEF NextMessage
      <3> QED
        BY <3>1, <3>2, LeaveKeepsSlot, BeginRunKeepsSlot DEF Live
    <2>3. CASE FinishWakeRun(w)
      <3>1. phase[w] = "running" /\ EndRun(w)
        BY <2>3 DEF FinishWakeRun
      <3>2. (Goto(w, "between") /\ w \notin aborted) \/ EndTurn(w)
        BY <2>3 DEF FinishWakeRun
      <3> QED
        BY <3>1, <3>2, LeaveKeepsSlot DEF Live
    <2>4. CASE FailWakeRun(w)
      BY <2>4, LeaveKeepsSlot DEF FailWakeRun, Live
    <2> QED
      BY <2>1, <2>2, <2>3, <2>4
  <1>3. UNCHANGED escaped /\ \A v \in Wakes : v # w => phase'[v] = phase[v]
    <2>1. EndTurn(w) \/ \E p \in Phases : Goto(w, p)
      BY DEF StartWake, NextMessage, FinishWakeRun, FailWakeRun, Phases
    <2>2. UNCHANGED escaped /\ \E p : phase' = [phase EXCEPT ![w] = p]
      BY <2>1 DEF EndTurn, Goto
    <2>3. PICK p : phase' = [phase EXCEPT ![w] = p]
      BY <2>2
    <2>4. phase \in [Turns -> Phases]
      BY DEF SlotInv, SlotTyped
    <2>5. \A v \in Turns : v # w => phase'[v] = phase[v]
      BY <2>3, <2>4
    <2> QED
      BY <2>2, <2>5
  <1>4. w \in escaped \/ (revive.at = "waiting" /\ revive.wake = w)
    BY <1>1 DEF InboxInv, WakeIsAwaited
  <1>5. WakeIsAwaited'
    BY <1>1, <1>3, <1>4 DEF InboxInv, WakeIsAwaited
  <1>6. NoStrandedInbound'
    BY <1>1, <1>3, <1>4 DEF NoStrandedInbound, Idle
  <1> QED
    BY <1>2, <1>5, <1>6 DEF InboxInv

\* What a step of the inbox does to the user's turns: it aborts no run but an escaped
\* one, and takes no controller without a trace.
LEMMA InboxSparesUser ==
    ASSUME SlotInv, UserInv, InboxStep, UNCHANGED userVars
    PROVE  UserInv'
  <1> USE TurnsAreApart
  <1>1. SlotTyped
    BY DEF SlotInv
  <1>2. CASE \E m \in Messages : SendToAgent(m)
    <2>1. PICK m \in Messages : SendToAgent(m)
      BY <1>2
    <2>2. UNCHANGED <<active, phase, escaped, disarmed>>
      BY <2>1 DEF SendToAgent, Deliver, queueVars, Interrupt, runnerVars
    <2>3. \A p \in Prompts : p \in aborted' => p \in aborted \/ p \in escaped
      <3>1. CASE ActiveLane # "user" /\ Interrupt
        <4>1. active \notin Prompts
          BY <3>1, NoTurnAssumption DEF ActiveLane
        <4>2. controller \in Prompts => controller \in escaped
          BY <4>1 DEF SlotInv, ControllerRuns, LiveIsInSlot, Live
        <4> QED
          BY <3>1, <4>2 DEF Interrupt, CanInterrupt
      <3>2. CASE UNCHANGED runnerVars
        BY <3>2 DEF runnerVars
      <3> QED
        BY <2>1, <3>1, <3>2 DEF SendToAgent
    <2>4. aborted \subseteq aborted'
      BY <2>1 DEF SendToAgent, Interrupt, runnerVars
    <2> QED
      BY <1>1, <2>2, <2>3, <2>4, OthersKeepUser
  <1>3. CASE ReviveContinues
    BY <1>1, <1>3, OthersKeepUser DEF ReviveContinues, queueVars, runnerVars
  <1>4. ASSUME NEW w \in Wakes,
               EnqueueWake(w) \/ StartWake(w) \/ NextMessage(w) \/ FinishWakeRun(w) \/ FailWakeRun(w)
        PROVE  UserInv'
    <2>1. EnqueueAgent(w) \/ EndTurn(w) \/ \E p \in Phases : Goto(w, p)
      BY <1>4 DEF EnqueueWake, StartWake, NextMessage, FinishWakeRun, FailWakeRun, Phases
    <2>2. UNCHANGED escaped /\ \A p \in Prompts : phase'[p] = phase[p]
      BY <1>1, <2>1 DEF EnqueueAgent, EndTurn, Goto, SlotTyped
    <2>3. \A p \in Prompts : active' = p => active = p
      BY <2>1 DEF EnqueueAgent, EndTurn, Goto
    <2>4. UNCHANGED runnerVars \/ BeginRun(w) \/ EndRun(w)
      BY <1>4 DEF EnqueueWake, StartWake, NextMessage, FinishWakeRun, FailWakeRun
    <2>5. \A p \in Prompts : (p \in aborted <=> p \in aborted') /\ (p \in disarmed => p \in disarmed')
      BY <2>4 DEF BeginRun, EndRun, Disarm, runnerVars
    <2> QED
      BY <1>1, <2>2, <2>3, <2>5, OthersKeepUser
  <1> QED
    BY <1>2, <1>3, <1>4 DEF InboxStep

-----------------------------------------------------------------------------
(* The conversation *)

ConversationInv == SlotInv /\ UserInv /\ InboxInv

\* It holds when the agent is fresh.
LEMMA ConversationStarts == ASSUME Init PROVE ConversationInv
  <1> USE TurnsAreApart
  <1>1. SlotTyped /\ LanesHoldQueued
    <2>1. \A S : <<>> \in Seq(S) /\ Len(<<>>) = 0
      BY EmptySeq
    <2>2. SlotTyped
      BY <2>1 DEF Init, QInit, SlotTyped, Phases
    <2> QED
      BY <2>1, <2>2 DEF Init, QInit, LanesHoldQueued, HoldsQueued
  <1>2. SlotInv
    BY <1>1 DEF SlotInv, Init, QInit, SlotIsLive, LiveIsInSlot, EscapedHasBegun, ControllerRuns, RunIsControlled, AbortedHasBegun, Live
  <1>3. UserTyped /\ NoncesAreHeld
    BY RecoveriesAssumption DEF Init, UInit, UserTyped, NoncesAreHeld
  <1>4. UserInv
    BY <1>3, NoTurnAssumption DEF UserInv, Init, QInit, UInit, TurnsFollowSends, OlderTurnsYield, SupersededTurnIsAborted
  <1>5. InboxInv
    BY DEF InboxInv, Init, QInit, IInit, WakeIsAwaited, NoStrandedInbound, Live
  <1> QED
    BY <1>2, <1>4, <1>5 DEF ConversationInv

\* Every step keeps it.
LEMMA ConversationGoesOn == ASSUME ConversationInv, [Next]_vars PROVE ConversationInv'
  <1> USE TurnsAreApart
  <1>0. SlotInv /\ UserInv /\ InboxInv /\ SlotTyped
    BY DEF ConversationInv, SlotInv
  <1>1. CASE Pump /\ UNCHANGED <<userVars, inboxVars>>
    <2>1. PICK t \in Turns : phase[t] = "queued" /\ phase' = [phase EXCEPT ![t] = "taken"] /\ active' = t
      <3>1. /\ userLane # <<>> => Head(userLane) \in Prompts /\ phase[Head(userLane)] = "queued"
            /\ agentLane # <<>> => Head(agentLane) \in Wakes /\ phase[Head(agentLane)] = "queued"
        BY <1>0, LaneLosesHead DEF SlotInv, SlotTyped, LanesHoldQueued
      <3> QED
        BY <1>1, <3>1 DEF Pump
    <2>2. UNCHANGED <<escaped, aborted, disarmed>>
      BY <1>1 DEF Pump, runnerVars
    <2>3. phase'[t] = "taken" /\ \A u \in Turns : u # t => phase'[u] = phase[u]
      BY <1>0, <2>1 DEF SlotTyped
    <2>4. UserInv'
      BY <1>0, <1>1, <2>1, <2>2, <2>3, OthersKeepUser
    <2>5. InboxInv'
      BY <1>0, <1>1, <2>1, <2>2, <2>3, OthersKeepInbox DEF inboxVars
    <2> QED
      BY <1>0, <1>1, <2>4, <2>5, PumpKeepsSlot DEF ConversationInv
  <1>2. CASE Escape /\ UNCHANGED <<userVars, inboxVars>>
    <2>1. active' = NoTurn /\ escaped \subseteq escaped' /\ UNCHANGED <<phase, aborted, disarmed>>
      BY <1>2 DEF Escape, runnerVars
    <2>2. UserInv'
      BY <1>0, <1>2, <2>1, OthersKeepUser
    <2>3. InboxInv'
      BY <1>0, <1>2, <2>1, OthersKeepInbox DEF inboxVars
    <2> QED
      BY <1>0, <1>2, <2>2, <2>3, EscapeKeepsSlot DEF ConversationInv
  <1>3. CASE (\E p \in Prompts : UserStep(p)) /\ UNCHANGED inboxVars
    <2>1. PICK p \in Prompts : UserStep(p)
      BY <1>3
    <2>2. UNCHANGED queueVars \/ EnqueueUser(p) \/ EndTurn(p) \/ Goto(p, "running")
      BY <2>1 DEF UserStep, SendUserPrompt, AcceptPrompt, EnqueueTurn, StartUserTurn, FinishUserTurn, SettleSend, RecoverSkippedMessages
    <2>3. escaped' = escaped /\ \A w \in Wakes : phase'[w] = phase[w]
      BY <1>0, <2>2 DEF queueVars, EnqueueUser, EndTurn, Goto, SlotTyped
    <2>4. InboxInv'
      BY <1>0, <1>3, <2>3, OthersKeepInbox DEF inboxVars
    <2> QED
      BY <1>0, <2>1, <2>4, UserStepKeeps DEF ConversationInv
  <1>4. CASE InboxStep /\ UNCHANGED userVars
    <2>1. UserInv'
      BY <1>0, <1>4, InboxSparesUser
    <2>2. SlotInv' /\ InboxInv'
      BY <1>0, <1>4, SendKeepsInbox, ContinueKeepsInbox, WakeKeepsInbox, WakeRunKeepsInbox DEF InboxStep
    <2> QED
      BY <2>1, <2>2 DEF ConversationInv
  <1>5. CASE UNCHANGED vars
    <2>1. UNCHANGED <<queueVars, runnerVars, userVars, inboxVars>>
      BY <1>5 DEF vars
    <2>2. SlotInv'
      BY <1>0, <2>1, InterruptTells, InterruptKeepsSlot
    <2>3. UserInv' /\ InboxInv'
      BY <1>0, <2>1, OthersKeepUser, OthersKeepInbox DEF queueVars, runnerVars, inboxVars
    <2> QED
      BY <2>2, <2>3 DEF ConversationInv
  <1> QED
    BY <1>1, <1>2, <1>3, <1>4, <1>5 DEF Next

\* The strengthening holds throughout.
THEOREM ConversationInvariant == Spec => []ConversationInv
  <1>1. Init => ConversationInv
    BY ConversationStarts
  <1>2. ConversationInv /\ [Next]_vars => ConversationInv'
    BY ConversationGoesOn
  <1> QED
    BY <1>1, <1>2, PTL DEF Spec

\* sendUserPrompt(): the newest message is served, and once.
THEOREM NewestServed == Spec => []NewestPromptIsServed
  <1>1. ConversationInv => NewestPromptIsServed
    BY NewestIsServed DEF ConversationInv
  <1> QED
    BY <1>1, ConversationInvariant, PTL

\* doUserPrompt(): a turn that a newer message superseded is told to stop.
THEOREM SupersededAborted == Spec => []SupersededTurnIsAborted
  <1>1. ConversationInv => SupersededTurnIsAborted
    BY DEF ConversationInv, UserInv
  <1> QED
    BY <1>1, ConversationInvariant, PTL

\* reviveForAgentInbound(): a waiting message has a loop that will come to it.
THEOREM NothingStranded == Spec => []NoStrandedInbound
  <1>1. ConversationInv => NoStrandedInbound
    BY DEF ConversationInv, InboxInv
  <1> QED
    BY <1>1, ConversationInvariant, PTL

\* steerRecipient(): a user turn in the slot is aborted only by a newer user message.
THEOREM UserTurnsComeFirst == Spec => UserTurnsYieldOnlyToUser
  <1> DEFINE Spared == \A p \in Prompts : active = p /\ p \notin aborted /\ p \in aborted' => epoch' > epoch
  <1>1. ASSUME ConversationInv, [Next]_vars PROVE Spared
    <2> SUFFICES ASSUME NEW p \in Prompts, active = p, p \notin aborted, p \in aborted'
                 PROVE  epoch' > epoch
      OBVIOUS
    <2>1. ~ UNCHANGED runnerVars /\ ~ UNCHANGED aborted
      BY DEF runnerVars
    <2>2. \A t : ~ BeginRun(t) /\ ~ EndRun(t)
      BY DEF BeginRun, EndRun
    <2>3. ~ \E m \in Messages : SendToAgent(m)
      <3>1. ActiveLane = "user"
        BY NoTurnAssumption, TurnsAreApart DEF ActiveLane
      <3> QED
        BY <2>1, <3>1 DEF SendToAgent
    <2>4. PICK q \in Prompts : AcceptPrompt(q)
      BY <1>1, <2>1, <2>2, <2>3
         DEF Next, vars, Pump, Escape, InboxStep, ReviveContinues, EnqueueWake, StartWake, NextMessage, FinishWakeRun,
             FailWakeRun, UserStep, SendUserPrompt, StartUserTurn, FinishUserTurn, SettleSend, RecoverSkippedMessages
    <2>5. epoch' = epoch + 1 /\ epoch \in Nat
      BY <1>1, <2>4 DEF AcceptPrompt, TakeEpoch, ConversationInv, UserInv, UserTyped
    <2> QED
      BY <2>5
  <1> QED
    BY <1>1, ConversationInvariant, PTL DEF Spec, UserTurnsYieldOnlyToUser

-----------------------------------------------------------------------------
(* Sequences of envelopes *)

Envelopes == [msg : Messages, displayed : BOOLEAN, redriven : BOOLEAN]

\* No message is in it twice.
Once(es) == \A i, j \in 1..Len(es) : es[i].msg = es[j].msg => i = j

ElementsOf(es) == {es[i] : i \in 1..Len(es)}

\* filter() gives some of the envelopes, each at one place.
LEMMA FilterGives ==
    ASSUME NEW es \in Seq(Envelopes), NEW I \in SUBSET (1..Len(es))
    PROVE  /\ Kept(es, I) \in Seq(Envelopes)
           /\ Once(es) => Once(Kept(es, I))
           /\ ElementsOf(Kept(es, I)) = {es[i] : i \in I}
  <1>1. PICK fs \in Seq(Envelopes) : fs = Kept(es, I)
    BY KeptGives
  <1>2. PICK at \in [DOMAIN fs -> I] :
            /\ \A k \in DOMAIN fs : fs[k] = es[at[k]]
            /\ \A i \in I : \E k \in DOMAIN fs : at[k] = i
            /\ \A k, l \in DOMAIN fs : at[k] = at[l] => k = l
    <2>1. \E at \in [DOMAIN Kept(es, I) -> I] :
              /\ \A k \in DOMAIN Kept(es, I) : Kept(es, I)[k] = es[at[k]]
              /\ \A i \in I : \E k \in DOMAIN Kept(es, I) : at[k] = i
              /\ \A k, l \in DOMAIN Kept(es, I) : at[k] = at[l] => k = l
      BY KeptGives, Zenon
    <2>2. QED
      BY <1>1, <2>1
  <1>3. DOMAIN fs = 1..Len(fs) /\ \A k \in DOMAIN fs : at[k] \in I /\ at[k] \in 1..Len(es) /\ fs[k] = es[at[k]]
    BY <1>2, LenProperties
  <1>4. Once(es) => Once(fs)
    BY SMTT(30), ZenonT(30), <1>2, <1>3 DEF Once
  <1>5. ElementsOf(fs) = {es[i] : i \in I}
    <2>1. ElementsOf(fs) \subseteq {es[i] : i \in I}
      BY SMTT(30), ZenonT(30), <1>3 DEF ElementsOf
    <2>2. {es[i] : i \in I} \subseteq ElementsOf(fs)
      BY <1>2, <1>3 DEF ElementsOf
    <2>3. QED
      BY <2>1, <2>2
  <1> QED
    BY <1>1, <1>4, <1>5

\* The messages of a sequence are those of its elements.
LEMMA MessagesAreOfElements ==
    ASSUME NEW es \in Seq(Envelopes)
    PROVE  /\ MessagesOf(es) = {e.msg : e \in ElementsOf(es)}
           /\ ElementsOf(es) \subseteq Envelopes
           /\ MessagesOf(es) \subseteq Messages
  <1>1. DOMAIN es = 1..Len(es) /\ \A i \in 1..Len(es) : es[i] \in Envelopes
    BY LenProperties, ElementOfSeq
  <1>2. MessagesOf(es) = {es[i].msg : i \in 1..Len(es)}
    BY <1>1 DEF MessagesOf
  <1> QED
    BY <1>1, <1>2 DEF ElementsOf, Envelopes

\* Two sequences without a common message, one after the other.
LEMMA ConcatGives ==
    ASSUME NEW a \in Seq(Envelopes), NEW b \in Seq(Envelopes), Once(a), Once(b),
           MessagesOf(a) \cap MessagesOf(b) = {}
    PROVE  /\ a \o b \in Seq(Envelopes) /\ Once(a \o b)
           /\ ElementsOf(a \o b) = ElementsOf(a) \cup ElementsOf(b)
           /\ MessagesOf(a \o b) = MessagesOf(a) \cup MessagesOf(b)
  <1>1. /\ a \o b \in Seq(Envelopes) /\ Len(a \o b) = Len(a) + Len(b)
        /\ \A i \in 1..(Len(a) + Len(b)) : (a \o b)[i] = IF i <= Len(a) THEN a[i] ELSE b[i - Len(a)]
        /\ Len(a) \in Nat /\ Len(b) \in Nat
    BY ConcatProperties, LenProperties
  <1>2. /\ \A i \in 1..Len(a) : i \in 1..(Len(a) + Len(b)) /\ (a \o b)[i] = a[i]
        /\ \A i \in 1..Len(b) : i + Len(a) \in 1..(Len(a) + Len(b)) /\ (a \o b)[i + Len(a)] = b[i]
        /\ \A i \in 1..(Len(a) + Len(b)) : i \in 1..Len(a) \/ i - Len(a) \in 1..Len(b)
    BY <1>1
  <1>3. /\ \A i \in 1..Len(a) : a[i].msg \in MessagesOf(a)
        /\ \A i \in 1..Len(b) : b[i].msg \in MessagesOf(b)
    BY LenProperties DEF MessagesOf
  <1>4. ASSUME NEW i \in 1..(Len(a) + Len(b)), NEW j \in 1..(Len(a) + Len(b)), (a \o b)[i].msg = (a \o b)[j].msg
        PROVE  i = j
    <2>1. CASE i \in 1..Len(a) /\ j \in 1..Len(a)
      BY <1>2, <1>4, <2>1 DEF Once
    <2>2. CASE i - Len(a) \in 1..Len(b) /\ j - Len(a) \in 1..Len(b)
      <3>1. (a \o b)[i] = b[i - Len(a)] /\ (a \o b)[j] = b[j - Len(a)]
        BY <1>1, <2>2
      <3>2. i - Len(a) = j - Len(a)
        BY <1>4, <2>2, <3>1 DEF Once
      <3> QED
        BY <1>1, <3>2
    <2>3. CASE i \in 1..Len(a) /\ j - Len(a) \in 1..Len(b)
      <3>1. (a \o b)[i] = a[i] /\ (a \o b)[j] = b[j - Len(a)]
        BY <1>1, <2>3
      <3> QED
        BY <1>3, <1>4, <2>3, <3>1
    <2>4. CASE j \in 1..Len(a) /\ i - Len(a) \in 1..Len(b)
      <3>1. (a \o b)[j] = a[j] /\ (a \o b)[i] = b[i - Len(a)]
        BY <1>1, <2>4
      <3> QED
        BY <1>3, <1>4, <2>4, <3>1
    <2> QED
      BY <1>2, <2>1, <2>2, <2>3, <2>4
  <1>5. Once(a \o b)
    BY <1>1, <1>4 DEF Once
  <1>6. ElementsOf(a \o b) = ElementsOf(a) \cup ElementsOf(b)
    <2>1. ElementsOf(a \o b) \subseteq ElementsOf(a) \cup ElementsOf(b)
      BY <1>1, <1>2 DEF ElementsOf
    <2>2. ElementsOf(a) \subseteq ElementsOf(a \o b) /\ ElementsOf(b) \subseteq ElementsOf(a \o b)
      BY <1>1, <1>2 DEF ElementsOf
    <2> QED
      BY <2>1, <2>2
  <1>7. /\ MessagesOf(a \o b) = {e.msg : e \in ElementsOf(a \o b)}
        /\ MessagesOf(a) = {e.msg : e \in ElementsOf(a)} /\ MessagesOf(b) = {e.msg : e \in ElementsOf(b)}
    BY <1>1, MessagesAreOfElements
  <1> QED
    BY <1>1, <1>5, <1>6, <1>7

\* No envelopes, no messages.
LEMMA EmptyGives ==
    /\ <<>> \in Seq(Envelopes) /\ Once(<<>>) /\ ElementsOf(<<>>) = {} /\ MessagesOf(<<>>) = {}
    /\ \A es \in Seq(Envelopes) : MessagesOf(es) = {} => es = <<>>
  <1>1. <<>> \in Seq(Envelopes) /\ Len(<<>>) = 0
    BY EmptySeq
  <1>2. Once(<<>>) /\ ElementsOf(<<>>) = {} /\ MessagesOf(<<>>) = {}
    BY <1>1 DEF Once, ElementsOf, MessagesOf
  <1>3. ASSUME NEW es \in Seq(Envelopes), es # <<>> PROVE MessagesOf(es) # {}
    <2>1. Len(es) \in Nat \ {0} /\ DOMAIN es = 1..Len(es)
      BY <1>3, EmptySeq, LenProperties
    <2>2. 1 \in DOMAIN es
      BY <2>1
    <2> QED
      BY <2>2 DEF MessagesOf
  <1> QED
    BY <1>1, <1>2, <1>3

\* A sequence split by priority.
LEMMA PartsGive ==
    ASSUME NEW es \in Seq(Envelopes), Once(es)
    PROVE  /\ PriorityOf(es) \in Seq(Envelopes) /\ RestOf(es) \in Seq(Envelopes)
           /\ Once(PriorityOf(es)) /\ Once(RestOf(es))
           /\ MessagesOf(PriorityOf(es)) \cap MessagesOf(RestOf(es)) = {}
           /\ MessagesOf(PriorityOf(es)) \cup MessagesOf(RestOf(es)) = MessagesOf(es)
           /\ ElementsOf(PriorityOf(es)) \cup ElementsOf(RestOf(es)) = ElementsOf(es)
  <1> DEFINE P == {i \in DOMAIN es : IsPriority(es[i])}
             R == {i \in DOMAIN es : ~IsPriority(es[i])}
  <1>1. /\ P \in SUBSET (1..Len(es)) /\ R \in SUBSET (1..Len(es))
        /\ P \cup R = 1..Len(es) /\ P \cap R = {}
    BY LenProperties
  <1>2. PriorityOf(es) = Kept(es, P) /\ RestOf(es) = Kept(es, R)
    BY DEF PriorityOf, RestOf
  <1> HIDE DEF P, R
  <1>3. /\ PriorityOf(es) \in Seq(Envelopes) /\ RestOf(es) \in Seq(Envelopes)
        /\ Once(PriorityOf(es)) /\ Once(RestOf(es))
        /\ ElementsOf(PriorityOf(es)) = {es[i] : i \in P} /\ ElementsOf(RestOf(es)) = {es[i] : i \in R}
    BY <1>1, <1>2, FilterGives
  <1>4. ElementsOf(PriorityOf(es)) \cup ElementsOf(RestOf(es)) = ElementsOf(es)
    <2>1. ElementsOf(es) = {es[i] : i \in P \cup R}
      BY <1>1 DEF ElementsOf
    <2> QED
      BY <1>3, <2>1
  <1>5. /\ MessagesOf(PriorityOf(es)) = {e.msg : e \in ElementsOf(PriorityOf(es))}
        /\ MessagesOf(RestOf(es)) = {e.msg : e \in ElementsOf(RestOf(es))}
        /\ MessagesOf(es) = {e.msg : e \in ElementsOf(es)}
    BY <1>3, MessagesAreOfElements
  <1>6. ASSUME NEW m \in MessagesOf(PriorityOf(es)), m \in MessagesOf(RestOf(es)) PROVE FALSE
    <2>1. PICK i \in P : es[i].msg = m
      BY <1>3, <1>5
    <2>2. PICK j \in R : es[j].msg = m
      BY <1>3, <1>5, <1>6
    <2>3. i = j
      BY <1>1, <2>1, <2>2 DEF Once
    <2> QED
      BY <1>1, <2>3
  <1> QED
    BY <1>3, <1>4, <1>5, <1>6

\* prioritize() rearranges.
LEMMA PrioritizeGives ==
    ASSUME NEW es \in Seq(Envelopes), Once(es)
    PROVE  /\ Prioritize(es) \in Seq(Envelopes) /\ Once(Prioritize(es))
           /\ MessagesOf(Prioritize(es)) = MessagesOf(es) /\ ElementsOf(Prioritize(es)) = ElementsOf(es)
  <1> DEFINE p == PriorityOf(es)  r == RestOf(es)
  <1>1. /\ p \in Seq(Envelopes) /\ r \in Seq(Envelopes) /\ Once(p) /\ Once(r)
        /\ MessagesOf(p) \cap MessagesOf(r) = {} /\ MessagesOf(p) \cup MessagesOf(r) = MessagesOf(es)
        /\ ElementsOf(p) \cup ElementsOf(r) = ElementsOf(es)
    BY PartsGive
  <1>2. Prioritize(es) = p \o r
    BY DEF Prioritize
  <1> HIDE DEF p, r
  <1>3. /\ p \o r \in Seq(Envelopes) /\ Once(p \o r)
        /\ MessagesOf(p \o r) = MessagesOf(p) \cup MessagesOf(r)
        /\ ElementsOf(p \o r) = ElementsOf(p) \cup ElementsOf(r)
    BY <1>1, ConcatGives
  <1> QED
    BY <1>1, <1>2, <1>3

\* mergeQueues() puts two queues without a common message together.
LEMMA MergeGives ==
    ASSUME NEW q \in Seq(Envelopes), NEW d \in Seq(Envelopes), Once(q), Once(d),
           MessagesOf(q) \cap MessagesOf(d) = {}
    PROVE  /\ MergeQueues(q, d) \in Seq(Envelopes) /\ Once(MergeQueues(q, d))
           /\ MessagesOf(MergeQueues(q, d)) = MessagesOf(q) \cup MessagesOf(d)
           /\ ElementsOf(MergeQueues(q, d)) = ElementsOf(q) \cup ElementsOf(d)
  <1> DEFINE pq == PriorityOf(q)  pd == PriorityOf(d)  rd == RestOf(d)  rq == RestOf(q)
  <1>1. /\ pq \in Seq(Envelopes) /\ rq \in Seq(Envelopes) /\ Once(pq) /\ Once(rq)
        /\ MessagesOf(pq) \cap MessagesOf(rq) = {} /\ MessagesOf(pq) \cup MessagesOf(rq) = MessagesOf(q)
        /\ ElementsOf(pq) \cup ElementsOf(rq) = ElementsOf(q)
    BY PartsGive
  <1>2. /\ pd \in Seq(Envelopes) /\ rd \in Seq(Envelopes) /\ Once(pd) /\ Once(rd)
        /\ MessagesOf(pd) \cap MessagesOf(rd) = {} /\ MessagesOf(pd) \cup MessagesOf(rd) = MessagesOf(d)
        /\ ElementsOf(pd) \cup ElementsOf(rd) = ElementsOf(d)
    BY PartsGive
  <1>3. MergeQueues(q, d) = pq \o pd \o rd \o rq
    BY DEF MergeQueues
  <1> HIDE DEF pq, pd, rd, rq
  <1>4. /\ pq \o pd \in Seq(Envelopes) /\ Once(pq \o pd)
        /\ MessagesOf(pq \o pd) = MessagesOf(pq) \cup MessagesOf(pd)
        /\ ElementsOf(pq \o pd) = ElementsOf(pq) \cup ElementsOf(pd)
    <2>1. MessagesOf(pq) \cap MessagesOf(pd) = {}
      BY <1>1, <1>2
    <2> QED
      BY <1>1, <1>2, <2>1, ConcatGives
  <1>5. /\ pq \o pd \o rd \in Seq(Envelopes) /\ Once(pq \o pd \o rd)
        /\ MessagesOf(pq \o pd \o rd) = MessagesOf(pq \o pd) \cup MessagesOf(rd)
        /\ ElementsOf(pq \o pd \o rd) = ElementsOf(pq \o pd) \cup ElementsOf(rd)
    <2>1. MessagesOf(pq \o pd) \cap MessagesOf(rd) = {}
      BY <1>1, <1>2, <1>4
    <2> QED
      BY <1>2, <1>4, <2>1, ConcatGives
  <1>6. /\ pq \o pd \o rd \o rq \in Seq(Envelopes) /\ Once(pq \o pd \o rd \o rq)
        /\ MessagesOf(pq \o pd \o rd \o rq) = MessagesOf(pq \o pd \o rd) \cup MessagesOf(rq)
        /\ ElementsOf(pq \o pd \o rd \o rq) = ElementsOf(pq \o pd \o rd) \cup ElementsOf(rq)
    <2>1. MessagesOf(pq \o pd \o rd) \cap MessagesOf(rq) = {}
      BY <1>1, <1>2, <1>4, <1>5
    <2> QED
      BY <1>1, <1>5, <2>1, ConcatGives
  <1>7. /\ MessagesOf(pq \o pd \o rd \o rq) = MessagesOf(q) \cup MessagesOf(d)
        /\ ElementsOf(pq \o pd \o rd \o rq) = ElementsOf(q) \cup ElementsOf(d)
    BY <1>1, <1>2, <1>4, <1>5, <1>6
  <1> QED
    BY <1>3, <1>6, <1>7

\* Marked envelopes carry the same messages.
LEMMA MarksGive ==
    ASSUME NEW es \in Seq(Envelopes), NEW f, DOMAIN f = DOMAIN es,
           \A i \in DOMAIN es : f[i] \in Envelopes /\ f[i].msg = es[i].msg, f = [i \in DOMAIN es |-> f[i]]
    PROVE  /\ f \in Seq(Envelopes) /\ MessagesOf(f) = MessagesOf(es)
           /\ Once(es) => Once(f)
           /\ ElementsOf(f) = {f[i] : i \in DOMAIN es}
  <1>1. DOMAIN es = 1..Len(es) /\ Len(es) \in Nat
    BY LenProperties
  <1>2. f \in [1..Len(es) -> Envelopes]
    BY <1>1
  <1>3. f \in Seq(Envelopes) /\ Len(f) = Len(es)
    BY <1>1, <1>2
  <1>4. Once(es) => Once(f)
    BY <1>1, <1>3 DEF Once
  <1>5. MessagesOf(f) = MessagesOf(es) /\ ElementsOf(f) = {f[i] : i \in DOMAIN es}
    BY <1>1, <1>3 DEF MessagesOf, ElementsOf
  <1> QED
    BY <1>3, <1>4, <1>5

\* What is put back is displayed.
LEMMA PutBackGives ==
    ASSUME NEW es \in Seq(Envelopes), NEW back \in {Displayed(es), Redriven(es)}
    PROVE  /\ back \in Seq(Envelopes) /\ MessagesOf(back) = MessagesOf(es)
           /\ Once(es) => Once(back)
           /\ \A e \in ElementsOf(back) : e.displayed /\ e.msg \in MessagesOf(es)
  <1>1. \A i \in DOMAIN es : es[i] \in Envelopes
    BY LenProperties, ElementOfSeq
  <1>2. ASSUME NEW e \in Envelopes
        PROVE  LET d == [e EXCEPT !.displayed = TRUE]
                   r == [e EXCEPT !.displayed = TRUE, !.redriven = TRUE]
               IN  /\ d \in Envelopes /\ d.msg = e.msg /\ d.displayed
                   /\ r \in Envelopes /\ r.msg = e.msg /\ r.displayed
    BY DEF Envelopes
  <1>3. /\ DOMAIN back = DOMAIN es /\ back = [i \in DOMAIN es |-> back[i]]
        /\ \A i \in DOMAIN es : back[i] \in Envelopes /\ back[i].msg = es[i].msg /\ back[i].displayed
    <2>1. CASE back = Displayed(es)
      BY <1>1, <1>2, <2>1 DEF Displayed
    <2>2. CASE back = Redriven(es)
      BY <1>1, <1>2, <2>2 DEF Redriven
    <2> QED
      BY <2>1, <2>2
  <1>4. /\ back \in Seq(Envelopes) /\ MessagesOf(back) = MessagesOf(es) /\ (Once(es) => Once(back))
        /\ ElementsOf(back) = {back[i] : i \in DOMAIN es}
    BY <1>3, MarksGive
  <1>5. \A i \in DOMAIN es : es[i].msg \in MessagesOf(es)
    BY DEF MessagesOf
  <1> QED
    BY <1>3, <1>4, <1>5

\* The rest after a message was dealt with.
LEMMA TailGives ==
    ASSUME NEW es \in Seq(Envelopes), es # <<>>, Once(es)
    PROVE  /\ Tail(es) \in Seq(Envelopes) /\ Once(Tail(es))
           /\ Head(es).msg \in MessagesOf(es)
           /\ MessagesOf(Tail(es)) = MessagesOf(es) \ {Head(es).msg}
  <1>1. /\ Len(es) \in Nat \ {0} /\ Head(es) = es[1] /\ Tail(es) \in Seq(Envelopes)
        /\ Len(Tail(es)) = Len(es) - 1 /\ \A i \in 1..Len(Tail(es)) : Tail(es)[i] = es[i + 1]
    BY EmptySeq, LenProperties, HeadTailProperties
  <1>2. /\ 1 \in 1..Len(es)
        /\ \A i \in 1..Len(Tail(es)) : i + 1 \in 1..Len(es) /\ i + 1 # 1
        /\ \A i \in 1..Len(es) : i # 1 => i - 1 \in 1..Len(Tail(es)) /\ Tail(es)[i - 1] = es[i]
    BY <1>1
  <1>3. /\ MessagesOf(es) = {es[i].msg : i \in 1..Len(es)}
        /\ MessagesOf(Tail(es)) = {Tail(es)[i].msg : i \in 1..Len(Tail(es))}
    BY <1>1, LenProperties DEF MessagesOf
  <1>4. Once(Tail(es))
    BY <1>1, <1>2 DEF Once
  <1>5. MessagesOf(Tail(es)) \subseteq MessagesOf(es) \ {Head(es).msg}
    BY <1>1, <1>2, <1>3 DEF Once
  <1>6. ASSUME NEW m \in MessagesOf(es) \ {Head(es).msg} PROVE m \in MessagesOf(Tail(es))
    <2>1. PICK i \in 1..Len(es) : es[i].msg = m
      BY <1>3
    <2>2. i # 1
      BY <1>1, <1>6, <2>1
    <2> QED
      BY <1>2, <1>3, <2>1, <2>2
  <1> QED
    BY <1>1, <1>2, <1>3, <1>4, <1>5, <1>6

\* An envelope at either end.
LEMMA NewGives ==
    ASSUME NEW es \in Seq(Envelopes), Once(es), NEW e \in Envelopes, e.msg \notin MessagesOf(es),
           NEW r, r = <<e>> \o es \/ r = Append(es, e)
    PROVE  /\ r \in Seq(Envelopes) /\ Once(r)
           /\ MessagesOf(r) = MessagesOf(es) \cup {e.msg}
           /\ ElementsOf(r) = ElementsOf(es) \cup {e}
  <1>1. <<e>> \in Seq(Envelopes) /\ Len(<<e>>) = 1 /\ <<e>>[1] = e
    OBVIOUS
  <1>2. Once(<<e>>) /\ ElementsOf(<<e>>) = {e}
    BY <1>1 DEF Once, ElementsOf
  <1>3. MessagesOf(<<e>>) = {e.msg}
    BY <1>1, <1>2, MessagesAreOfElements
  <1>4. Append(es, e) = es \o <<e>>
    BY AppendIsConcat
  <1>6. \A a, b \in Seq(Envelopes) :
           Once(a) /\ Once(b) /\ MessagesOf(a) \cap MessagesOf(b) = {} =>
              /\ a \o b \in Seq(Envelopes) /\ Once(a \o b)
              /\ ElementsOf(a \o b) = ElementsOf(a) \cup ElementsOf(b)
              /\ MessagesOf(a \o b) = MessagesOf(a) \cup MessagesOf(b)
    BY ConcatGives
  <1> DEFINE one == <<e>>
  <1>7. one \in Seq(Envelopes) /\ Once(one) /\ ElementsOf(one) = {e} /\ MessagesOf(one) = {e.msg}
    BY <1>1, <1>2, <1>3
  <1>8. r = one \o es \/ r = es \o one
    BY <1>4
  <1> HIDE DEF one
  <1>9. CASE r = one \o es
    BY <1>6, <1>7, <1>9
  <1>10. CASE r = es \o one
    BY <1>6, <1>7, <1>10
  <1> QED
    BY <1>8, <1>9, <1>10

-----------------------------------------------------------------------------
(* Messages are kept *)

InboxTyped ==
    /\ inbound \in Seq(Envelopes)
    /\ revive \in [at : {"idle", "displaying", "waiting"}, batch : Seq(Envelopes), wake : Wakes \cup {NoTurn}]
    /\ rest \in [Wakes -> Seq(Envelopes)]
    /\ sent \subseteq Messages
    /\ finished \cup failed \cup dropped \subseteq Messages
    /\ shown \in [Messages -> {0, 1}]

\* Messages that are done with.
Settled == finished \cup failed \cup dropped

Waits(m) ==
    \/ m \in MessagesOf(inbound) \/ m \in MessagesOf(revive.batch)
    \/ \E w \in Wakes : m \in MessagesOf(rest[w])

\* No place holds a message twice, and no two places hold the same one.
PlacesApart ==
    /\ Once(inbound) /\ Once(revive.batch) /\ \A w \in Wakes : Once(rest[w])
    /\ MessagesOf(inbound) \cap MessagesOf(revive.batch) = {}
    /\ \A w \in Wakes : MessagesOf(rest[w]) \cap (MessagesOf(inbound) \cup MessagesOf(revive.batch)) = {}
    /\ \A v, w \in Wakes : v # w => MessagesOf(rest[v]) \cap MessagesOf(rest[w]) = {}

\* What was sent waits or is settled, and nothing else does.
SentIsAccounted ==
    \A m \in Messages :
        /\ m \in sent <=> Waits(m) \/ m \in Settled
        /\ ~ (Waits(m) /\ m \in Settled)

\* An envelope knows whether its entry is in the transcript.
ShownTruly ==
    /\ \A e \in ElementsOf(inbound) \cup ElementsOf(revive.batch) : shown[e.msg] = 1 <=> e.displayed
    /\ \A w \in Wakes : \A m \in MessagesOf(rest[w]) : shown[m] = 1
    /\ \A m \in Messages \ sent : shown[m] = 0

\* A batch is there while it is displayed; a wake has messages from its enqueueing on,
\* and while it runs.
PlacesInTime ==
    /\ revive.at # "displaying" => revive.batch = <<>>
    /\ \A w \in Wakes :
          /\ phase[w] = "new" => rest[w] = <<>>
          /\ phase[w] = "running" => rest[w] # <<>>

KeptInv == InboxTyped /\ PlacesApart /\ SentIsAccounted /\ ShownTruly /\ PlacesInTime

\* The messages of the places are messages.
LEMMA PlacesHoldMessages ==
    ASSUME InboxTyped
    PROVE  /\ MessagesOf(inbound) \subseteq Messages /\ MessagesOf(revive.batch) \subseteq Messages
           /\ \A w \in Wakes : MessagesOf(rest[w]) \subseteq Messages
           /\ \A e \in ElementsOf(inbound) \cup ElementsOf(revive.batch) : e.msg \in Messages /\ e.displayed \in BOOLEAN
  <1>1. inbound \in Seq(Envelopes) /\ revive.batch \in Seq(Envelopes) /\ \A w \in Wakes : rest[w] \in Seq(Envelopes)
    BY DEF InboxTyped
  <1>2. /\ ElementsOf(inbound) \subseteq Envelopes /\ ElementsOf(revive.batch) \subseteq Envelopes
        /\ MessagesOf(inbound) \subseteq Messages /\ MessagesOf(revive.batch) \subseteq Messages
    BY <1>1, MessagesAreOfElements
  <1>3. \A w \in Wakes : MessagesOf(rest[w]) \subseteq Messages
    BY <1>1, MessagesAreOfElements
  <1> QED
    BY <1>2, <1>3 DEF Envelopes

\* A set of at most one element.
LEMMA AtMostOne ==
    ASSUME NEW S, \A x, y \in S : x = y
    PROVE  /\ IsFiniteSet(S) /\ Cardinality(S) \in {0, 1}
           /\ Cardinality(S) = 0 <=> S = {}
  <1>1. CASE S = {}
    BY <1>1, FS_EmptySet
  <1>2. CASE S # {}
    <2>1. PICK x : S = {x}
      BY <1>2
    <2>2. IsFiniteSet(S) /\ Cardinality(S) = 1
      BY <2>1, FS_Singleton
    <2> QED
      BY <1>2, <2>2
  <1> QED
    BY <1>1, <1>2

\* The invariant says that no message is lost or shown twice.
LEMMA KeptMeansKept == ASSUME KeptInv, NoStrandedInbound PROVE MessagesAreKept
  <1> USE DEF KeptInv
  <1> DEFINE In(es, m) == {i \in DOMAIN es : es[i].msg = m}
             Runs(m) == {w \in Wakes : m \in MessagesOf(rest[w])}
  <1>1. ASSUME NEW es \in Seq(Envelopes), Once(es), NEW m
        PROVE  /\ Cardinality(In(es, m)) \in {0, 1}
               /\ Cardinality(In(es, m)) = 0 <=> m \notin MessagesOf(es)
    <2>1. DOMAIN es = 1..Len(es)
      BY LenProperties
    <2>2. \A x, y \in In(es, m) : x = y
      BY <1>1, <2>1 DEF Once
    <2>3. In(es, m) = {} <=> m \notin MessagesOf(es)
      BY DEF MessagesOf
    <2> HIDE DEF In
    <2> QED
      BY <2>2, <2>3, AtMostOne
  <1>2. ASSUME NEW m
        PROVE  /\ Cardinality(Runs(m)) \in {0, 1}
               /\ Cardinality(Runs(m)) = 0 <=> ~ \E w \in Wakes : m \in MessagesOf(rest[w])
    <2>1. \A x, y \in Runs(m) : x = y
      BY DEF PlacesApart
    <2>2. Runs(m) = {} <=> ~ \E w \in Wakes : m \in MessagesOf(rest[w])
      OBVIOUS
    <2> HIDE DEF Runs
    <2> QED
      BY <2>1, <2>2, AtMostOne
  <1>3. \A m : Places(m) = Cardinality(In(inbound, m)) + Cardinality(In(revive.batch, m)) + Cardinality(Runs(m))
    BY DEF Places
  <1> HIDE DEF In, Runs
  <1>4. inbound \in Seq(Envelopes) /\ revive.batch \in Seq(Envelopes) /\ Once(inbound) /\ Once(revive.batch)
    BY DEF InboxTyped, PlacesApart
  <1>5. ASSUME NEW m \in Messages PROVE Places(m) <= 1 /\ (Places(m) = 0 <=> ~Waits(m))
    <2>1. /\ Cardinality(In(inbound, m)) \in {0, 1} /\ Cardinality(In(revive.batch, m)) \in {0, 1}
          /\ Cardinality(In(inbound, m)) = 0 <=> m \notin MessagesOf(inbound)
          /\ Cardinality(In(revive.batch, m)) = 0 <=> m \notin MessagesOf(revive.batch)
      BY <1>1, <1>4
    <2>2. /\ ~ (m \in MessagesOf(inbound) /\ m \in MessagesOf(revive.batch))
          /\ ~ (m \in MessagesOf(inbound) /\ \E w \in Wakes : m \in MessagesOf(rest[w]))
          /\ ~ (m \in MessagesOf(revive.batch) /\ \E w \in Wakes : m \in MessagesOf(rest[w]))
      BY DEF PlacesApart
    <2> QED
      BY <1>2, <1>3, <2>1, <2>2 DEF Waits
  <1>6. ASSUME NEW m \in Messages PROVE m \in sent => (Places(m) = 0 <=> m \in finished \cup failed \cup dropped)
    BY <1>5 DEF SentIsAccounted, Settled
  <1>7. \A m \in Messages : shown[m] <= 1
    BY DEF InboxTyped
  <1>8. \A w \in Wakes : \A m \in MessagesOf(rest[w]) : shown[m] = 1
    BY DEF ShownTruly
  <1> QED
    BY <1>5, <1>6, <1>7, <1>8 DEF MessagesAreKept

\* A step that leaves the inbox alone, and enqueues or begins no wake.
LEMMA OthersKeepMessages ==
    ASSUME KeptInv, UNCHANGED inboxVars,
           \A w \in Wakes : phase'[w] \in {"new", "running"} => phase'[w] = phase[w]
    PROVE  KeptInv'
  <1>1. UNCHANGED <<inbound, revive, rest, sent, shown, finished, failed, dropped>>
    BY DEF inboxVars
  <1>2. InboxTyped' /\ PlacesApart'
    BY <1>1 DEF KeptInv, InboxTyped, PlacesApart
  <1>3. SentIsAccounted' /\ ShownTruly'
    BY <1>1 DEF KeptInv, SentIsAccounted, ShownTruly, Waits, Settled
  <1>4. PlacesInTime'
    BY <1>1 DEF KeptInv, PlacesInTime
  <1> QED
    BY <1>2, <1>3, <1>4 DEF KeptInv

\* A wake keeps some of its messages (r), puts some back (X) and has settled the others.
LEMMA WakeSettles ==
    ASSUME KeptInv, NEW w \in Wakes, NEW r \in Seq(Envelopes), NEW X,
           UNCHANGED <<revive, sent, shown>>,
           rest' = [rest EXCEPT ![w] = r], Once(r),
           MessagesOf(r) \subseteq MessagesOf(rest[w]), X \subseteq MessagesOf(rest[w]), X \cap MessagesOf(r) = {},
           inbound' \in Seq(Envelopes), Once(inbound)', MessagesOf(inbound') = MessagesOf(inbound) \cup X,
           \A e \in ElementsOf(inbound') : e \in ElementsOf(inbound) \/ (e.displayed /\ e.msg \in X),
           Settled' = Settled \cup (MessagesOf(rest[w]) \ (X \cup MessagesOf(r))),
           \A v \in Wakes : v # w => phase'[v] = phase[v],
           phase'[w] # "new", phase'[w] = "running" => r # <<>>
    PROVE  KeptInv'
  <1> USE DEF KeptInv
  <1>1. /\ rest' \in [Wakes -> Seq(Envelopes)] /\ rest'[w] = r /\ \A v \in Wakes : v # w => rest'[v] = rest[v]
        /\ MessagesOf(rest[w]) \subseteq Messages
    BY PlacesHoldMessages DEF InboxTyped
  <1>2. InboxTyped'
    BY <1>1 DEF InboxTyped, Settled
  <1>3. PlacesApart'
    <2>1. /\ Once(revive.batch)' /\ \A v \in Wakes : Once(rest'[v])
      BY <1>1 DEF PlacesApart
    <2>2. MessagesOf(inbound') \cap MessagesOf(revive'.batch) = {}
      BY DEF PlacesApart
    <2>3. \A v \in Wakes : MessagesOf(rest'[v]) \cap (MessagesOf(inbound') \cup MessagesOf(revive'.batch)) = {}
      BY <1>1 DEF PlacesApart
    <2>4. \A u, v \in Wakes : u # v => MessagesOf(rest'[u]) \cap MessagesOf(rest'[v]) = {}
      BY <1>1 DEF PlacesApart
    <2> QED
      BY <2>1, <2>2, <2>3, <2>4 DEF PlacesApart
  <1>4. SentIsAccounted'
    <2>1. ASSUME NEW m \in Messages
          PROVE  /\ Waits(m)' => Waits(m)
                 /\ Waits(m) /\ ~Waits(m)' => m \in MessagesOf(rest[w]) /\ m \notin X \cup MessagesOf(r)
                 /\ Waits(m)' => ~ (m \in MessagesOf(rest[w]) /\ m \notin X \cup MessagesOf(r))
      <3>1. Waits(m)' <=> \/ m \in MessagesOf(inbound) \/ m \in X \/ m \in MessagesOf(revive.batch)
                          \/ m \in MessagesOf(r)
                          \/ \E v \in Wakes : v # w /\ m \in MessagesOf(rest[v])
        BY <1>1 DEF Waits
      <3> QED
        BY <3>1 DEF Waits, PlacesApart
    <2> QED
      BY <1>1, <2>1 DEF SentIsAccounted, Waits
  <1>5. ShownTruly'
    <2>1. \A e \in ElementsOf(inbound') : shown[e.msg] = 1 <=> e.displayed
      BY DEF ShownTruly
    <2>2. \A v \in Wakes : \A m \in MessagesOf(rest'[v]) : shown[m] = 1
      BY <1>1 DEF ShownTruly
    <2> QED
      BY <2>1, <2>2 DEF ShownTruly
  <1>6. PlacesInTime'
    BY <1>1 DEF PlacesInTime
  <1> QED
    BY <1>2, <1>3, <1>4, <1>5, <1>6

\* The loop takes what waits.
LEMMA LoopGives ==
    ASSUME NEW es \in Seq(Envelopes), Once(es), ReviveLoop(es)
    PROVE  /\ inbound' = <<>>
           /\ revive' \in [at : {"idle", "displaying", "waiting"}, batch : Seq(Envelopes), wake : Wakes \cup {NoTurn}]
           /\ Once(revive'.batch) /\ MessagesOf(revive'.batch) = MessagesOf(es)
           /\ ElementsOf(revive'.batch) = ElementsOf(es)
           /\ revive'.at # "displaying" => revive'.batch = <<>>
  <1>1. CASE es = <<>>
    <2>1. revive' = Idle /\ inbound' = <<>>
      BY <1>1 DEF ReviveLoop
    <2> QED
      BY <1>1, <2>1, EmptyGives DEF Idle
  <1>2. CASE es # <<>>
    <2>1. PICK b \in Seq(Envelopes) : /\ revive' = [Idle EXCEPT !.at = "displaying", !.batch = b] /\ inbound' = <<>>
                                      /\ Once(b) /\ MessagesOf(b) = MessagesOf(es) /\ ElementsOf(b) = ElementsOf(es)
      BY <1>2, PrioritizeGives DEF ReviveLoop
    <2>2. revive' = [at |-> "displaying", batch |-> b, wake |-> NoTurn]
      BY <2>1 DEF Idle
    <2> QED
      BY <2>1, <2>2
  <1> QED
    BY <1>1, <1>2

\* A message that was not sent before goes to the queue, or to a loop that begins.
LEMMA SendKeepsMessages ==
    ASSUME KeptInv, NEW m \in Messages, SendToAgent(m)
    PROVE  KeptInv'
  <1> USE DEF KeptInv
  <1> DEFINE env == Envelope(m)
             queued == IF m \in Priority THEN <<env>> \o inbound ELSE Append(inbound, env)
  <1>1. /\ m \notin sent /\ sent' = sent \cup {m}
        /\ IF revive.at = "idle" THEN ReviveLoop(queued) ELSE inbound' = queued /\ UNCHANGED revive
        /\ UNCHANGED <<rest, shown, finished, failed, dropped, phase>>
    BY DEF SendToAgent, Deliver, queueVars
  <1>2. env \in Envelopes /\ env.msg = m /\ ~env.displayed
    BY DEF Envelope, Envelopes
  <1>3. m \notin MessagesOf(inbound) /\ m \notin MessagesOf(revive.batch) /\ ~ \E w \in Wakes : m \in MessagesOf(rest[w])
    BY <1>1 DEF SentIsAccounted, Waits
  <1>4. /\ queued \in Seq(Envelopes) /\ Once(queued) /\ MessagesOf(queued) = MessagesOf(inbound) \cup {m}
        /\ ElementsOf(queued) = ElementsOf(inbound) \cup {env}
    <2>1. inbound \in Seq(Envelopes) /\ Once(inbound)
      BY DEF InboxTyped, PlacesApart
    <2>2. queued = <<env>> \o inbound \/ queued = Append(inbound, env)
      OBVIOUS
    <2>3. env \in Envelopes /\ env.msg \notin MessagesOf(inbound)
      BY <1>2, <1>3
    <2> HIDE DEF queued, env
    <2>4. /\ queued \in Seq(Envelopes) /\ Once(queued) /\ MessagesOf(queued) = MessagesOf(inbound) \cup {env.msg}
          /\ ElementsOf(queued) = ElementsOf(inbound) \cup {env}
      BY <2>1, <2>2, <2>3, NewGives
    <2> QED
      BY <1>2, <2>4
  <1> HIDE DEF queued, env
  <1>5. /\ inbound' \in Seq(Envelopes) /\ Once(inbound')
        /\ revive' \in [at : {"idle", "displaying", "waiting"}, batch : Seq(Envelopes), wake : Wakes \cup {NoTurn}]
        /\ Once(revive'.batch)
        /\ MessagesOf(inbound') \cup MessagesOf(revive'.batch) = MessagesOf(inbound) \cup MessagesOf(revive.batch) \cup {m}
        /\ MessagesOf(inbound') \cap MessagesOf(revive'.batch) = {}
        /\ ElementsOf(inbound') \cup ElementsOf(revive'.batch) \subseteq ElementsOf(inbound) \cup ElementsOf(revive.batch) \cup {env}
        /\ revive'.at # "displaying" => revive'.batch = <<>>
    <2>1. CASE revive.at = "idle"
      <3>1. revive.batch = <<>>
        BY <2>1 DEF PlacesInTime
      <3>2. ReviveLoop(queued)
        BY <1>1, <2>1
      <3>3. /\ inbound' = <<>>
            /\ revive' \in [at : {"idle", "displaying", "waiting"}, batch : Seq(Envelopes), wake : Wakes \cup {NoTurn}]
            /\ Once(revive'.batch) /\ MessagesOf(revive'.batch) = MessagesOf(queued)
            /\ ElementsOf(revive'.batch) = ElementsOf(queued)
            /\ revive'.at # "displaying" => revive'.batch = <<>>
        BY <1>4, <3>2, LoopGives
      <3> QED
        BY <1>4, <3>1, <3>3, EmptyGives
    <2>2. CASE revive.at # "idle"
      <3>1. inbound' = queued /\ UNCHANGED revive
        BY <1>1, <2>2
      <3> QED
        BY <1>3, <1>4, <3>1 DEF InboxTyped, PlacesApart, PlacesInTime
    <2> QED
      BY <2>1, <2>2
  <1>6. InboxTyped'
    <2>1. sent' \subseteq Messages /\ UNCHANGED <<rest, shown, finished, failed, dropped>>
      BY <1>1 DEF InboxTyped
    <2>2. /\ inbound' \in Seq(Envelopes)
          /\ revive' \in [at : {"idle", "displaying", "waiting"}, batch : Seq(Envelopes), wake : Wakes \cup {NoTurn}]
      BY <1>5
    <2> QED
      BY <2>1, <2>2 DEF InboxTyped
  <1>7. PlacesApart'
    <2>1. UNCHANGED rest /\ \A w \in Wakes : m \notin MessagesOf(rest[w])
      BY <1>1, <1>3
    <2>2. \A w \in Wakes : MessagesOf(rest[w]) \cap (MessagesOf(inbound') \cup MessagesOf(revive'.batch)) = {}
      <3>1. MessagesOf(inbound') \cup MessagesOf(revive'.batch) = MessagesOf(inbound) \cup MessagesOf(revive.batch) \cup {m}
        BY <1>5
      <3> QED
        BY <2>1, <3>1 DEF PlacesApart
    <2>3. Once(inbound') /\ Once(revive'.batch) /\ MessagesOf(inbound') \cap MessagesOf(revive'.batch) = {}
      BY <1>5
    <2> QED
      BY <2>1, <2>2, <2>3 DEF PlacesApart
  <1>8. SentIsAccounted'
    <2>1. \A n \in Messages : Waits(n)' <=> Waits(n) \/ n = m
      BY <1>1, <1>5 DEF Waits
    <2>2. Settled' = Settled
      BY <1>1 DEF Settled
    <2> QED
      BY <1>1, <2>1, <2>2 DEF SentIsAccounted
  <1>9. ShownTruly'
    <2>1. shown[env.msg] = 0
      BY <1>1, <1>2 DEF ShownTruly
    <2>2. \A e \in ElementsOf(inbound') \cup ElementsOf(revive'.batch) : shown[e.msg] = 1 <=> e.displayed
      BY <1>2, <1>5, <2>1 DEF ShownTruly
    <2> QED
      BY <1>1, <2>2 DEF ShownTruly
  <1>10. PlacesInTime'
    BY <1>1, <1>5 DEF PlacesInTime
  <1> QED
    BY <1>6, <1>7, <1>8, <1>9, <1>10

\* The loop takes the whole inbox.
LEMMA ContinueKeepsMessages ==
    ASSUME KeptInv, ReviveContinues
    PROVE  KeptInv'
  <1> USE DEF KeptInv
  <1>1. ReviveLoop(inbound) /\ UNCHANGED <<rest, sent, shown, finished, failed, dropped, phase>> /\ revive.at = "waiting"
    BY DEF ReviveContinues, queueVars
  <1>2. inbound \in Seq(Envelopes) /\ Once(inbound)
    BY DEF InboxTyped, PlacesApart
  <1>3. /\ inbound' = <<>>
        /\ revive' \in [at : {"idle", "displaying", "waiting"}, batch : Seq(Envelopes), wake : Wakes \cup {NoTurn}]
        /\ Once(revive'.batch) /\ MessagesOf(revive'.batch) = MessagesOf(inbound)
        /\ ElementsOf(revive'.batch) = ElementsOf(inbound)
        /\ revive'.at # "displaying" => revive'.batch = <<>>
    BY <1>1, <1>2, LoopGives
  <1>4. MessagesOf(revive.batch) = {}
    BY <1>1, EmptyGives DEF PlacesInTime
  <1>5. inbound' \in Seq(Envelopes) /\ Once(inbound') /\ MessagesOf(inbound') = {} /\ ElementsOf(inbound') = {}
    BY <1>3, EmptyGives
  <1>6. InboxTyped'
    BY <1>1, <1>3, <1>5 DEF InboxTyped
  <1>7. PlacesApart'
    BY <1>1, <1>3, <1>4, <1>5 DEF PlacesApart
  <1>8. SentIsAccounted'
    <2>1. \A n \in Messages : Waits(n)' <=> Waits(n)
      BY <1>1, <1>3, <1>4, <1>5 DEF Waits
    <2>2. Settled' = Settled
      BY <1>1 DEF Settled
    <2> QED
      BY <1>1, <2>1, <2>2 DEF SentIsAccounted
  <1>9. ShownTruly' /\ PlacesInTime'
    BY <1>1, <1>3, <1>5 DEF ShownTruly, PlacesInTime
  <1> QED
    BY <1>6, <1>7, <1>8, <1>9

\* The batch goes to the wake, and its entries to the transcript.
LEMMA WakeKeepsMessages ==
    ASSUME SlotInv, KeptInv, NEW w \in Wakes, EnqueueWake(w)
    PROVE  KeptInv'
  <1> USE DEF KeptInv
  <1> DEFINE b == revive.batch
  <1>1. /\ revive' = [Idle EXCEPT !.at = "waiting", !.wake = w] /\ phase[w] = "new"
        /\ rest' = [rest EXCEPT ![w] = b]
        /\ shown' = [m \in Messages |-> IF m \in Fresh(b) THEN shown[m] + 1 ELSE shown[m]]
        /\ UNCHANGED <<inbound, sent, finished, failed, dropped>>
        /\ phase' = [phase EXCEPT ![w] = "queued"]
    BY DEF EnqueueWake, EnqueueAgent
  <1>2. b \in Seq(Envelopes) /\ Once(b) /\ rest[w] = <<>>
    BY <1>1 DEF InboxTyped, PlacesApart, PlacesInTime
  <1>3. revive' = [at |-> "waiting", batch |-> <<>>, wake |-> w]
    BY <1>1 DEF Idle
  <1>4. /\ rest' \in [Wakes -> Seq(Envelopes)] /\ rest'[w] = b /\ \A v \in Wakes : v # w => rest'[v] = rest[v]
    BY <1>1, <1>2 DEF InboxTyped
  <1>5. /\ MessagesOf(b) = {e.msg : e \in ElementsOf(b)} /\ MessagesOf(b) \subseteq Messages
        /\ Fresh(b) = {e.msg : e \in {e \in ElementsOf(b) : ~e.displayed}}
    <2>1. DOMAIN b = 1..Len(b)
      BY <1>2, LenProperties
    <2>2. Fresh(b) = {e.msg : e \in {e \in ElementsOf(b) : ~e.displayed}}
      BY <2>1 DEF Fresh, ElementsOf
    <2> QED
      BY <1>2, <2>2, MessagesAreOfElements
  <1>6. \A e \in ElementsOf(b) : (shown[e.msg] = 1 <=> e.displayed) /\ e.msg \in Messages
    BY <1>5 DEF ShownTruly
  <1>7. \A m \in Messages : shown[m] \in {0, 1}
    BY DEF InboxTyped
  <1>8. \A m \in Fresh(b) : shown[m] = 0 /\ m \in Messages
    BY <1>5, <1>6, <1>7
  <1>9. shown' \in [Messages -> {0, 1}] /\ \A m \in Messages \ MessagesOf(b) : shown'[m] = shown[m]
    BY <1>1, <1>5, <1>7, <1>8
  <1>10. \A m \in MessagesOf(b) : shown'[m] = 1
    <2> SUFFICES ASSUME NEW e \in ElementsOf(b) PROVE shown'[e.msg] = 1
      BY <1>5
    <2>1. CASE e.displayed
      <3>1. shown[e.msg] = 1 /\ e.msg \notin Fresh(b)
        BY <1>6, <1>8, <2>1
      <3> QED
        BY <1>1, <1>6, <3>1
    <2>2. CASE ~e.displayed
      <3>1. shown[e.msg] = 0 /\ e.msg \in Fresh(b)
        BY <1>5, <1>8, <2>2
      <3> QED
        BY <1>1, <1>6, <3>1
    <2> QED
      BY <2>1, <2>2
  <1>11. MessagesOf(rest[w]) = {} /\ MessagesOf(revive'.batch) = {} /\ ElementsOf(revive'.batch) = {} /\ Once(revive'.batch)
    BY <1>2, <1>3, EmptyGives
  <1> HIDE DEF b
  <1>12. InboxTyped'
    <2>1. UNCHANGED <<inbound, sent, finished, failed, dropped>>
      BY <1>1
    <2>2. revive' \in [at : {"idle", "displaying", "waiting"}, batch : Seq(Envelopes), wake : Wakes \cup {NoTurn}]
      BY <1>3, EmptyGives
    <2>3. shown' \in [Messages -> {0, 1}] /\ rest' \in [Wakes -> Seq(Envelopes)]
      BY <1>4, <1>9
    <2> QED
      BY <2>1, <2>2, <2>3 DEF InboxTyped
  <1>13. PlacesApart'
    <2>1. b = revive.batch
      BY DEF b
    <2>2. Once(inbound') /\ Once(revive'.batch) /\ \A v \in Wakes : Once(rest'[v])
      BY <1>1, <1>2, <1>4, <1>11 DEF PlacesApart
    <2>3. \A v \in Wakes : MessagesOf(rest'[v]) \cap (MessagesOf(inbound') \cup MessagesOf(revive'.batch)) = {}
      BY <1>1, <1>4, <1>11, <2>1 DEF PlacesApart
    <2>4. \A u, v \in Wakes : u # v => MessagesOf(rest'[u]) \cap MessagesOf(rest'[v]) = {}
      BY <1>4, <2>1 DEF PlacesApart
    <2> QED
      BY <1>11, <2>2, <2>3, <2>4 DEF PlacesApart
  <1>14. SentIsAccounted'
    <2>1. \A n \in Messages : Waits(n)' <=> Waits(n)
      <3>1. b = revive.batch
        BY DEF b
      <3> QED
        BY <1>1, <1>4, <1>11, <3>1 DEF Waits
    <2>2. Settled' = Settled
      BY <1>1 DEF Settled
    <2> QED
      BY <1>1, <2>1, <2>2 DEF SentIsAccounted
  <1>15. ShownTruly'
    <2>1. \A e \in ElementsOf(inbound) : e.msg \in MessagesOf(inbound) /\ e.msg \in Messages
      <3>1. inbound \in Seq(Envelopes)
        BY DEF InboxTyped
      <3> QED
        BY <3>1, MessagesAreOfElements
    <2>2. b = revive.batch
      BY DEF b
    <2>3. \A e \in ElementsOf(inbound') \cup ElementsOf(revive'.batch) : shown'[e.msg] = 1 <=> e.displayed
      BY <1>1, <1>9, <1>11, <2>1, <2>2 DEF ShownTruly, PlacesApart
    <2>4. \A v \in Wakes : \A m \in MessagesOf(rest'[v]) : shown'[m] = 1
      <3>1. \A v \in Wakes : v # w => MessagesOf(rest[v]) \cap MessagesOf(b) = {} /\ MessagesOf(rest[v]) \subseteq Messages
        BY <2>2, PlacesHoldMessages DEF PlacesApart
      <3> QED
        BY <1>4, <1>9, <1>10, <3>1 DEF ShownTruly
    <2>5. \A m \in Messages \ sent' : shown'[m] = 0
      BY <1>1, <1>9, <2>2 DEF ShownTruly, SentIsAccounted, Waits
    <2> QED
      BY <2>3, <2>4, <2>5 DEF ShownTruly
  <1>16. PlacesInTime'
    <2>1. phase'[w] = "queued" /\ \A v \in Wakes : v # w => phase'[v] = phase[v]
      BY <1>1, TurnsAreApart DEF SlotInv, SlotTyped
    <2> QED
      BY <1>3, <1>4, <2>1 DEF PlacesInTime
  <1> QED
    BY <1>12, <1>13, <1>14, <1>15, <1>16

\* A wake that starts, goes to its next message, or ends.
LEMMA WakeRunKeepsMessages ==
    ASSUME SlotInv, KeptInv, NEW w \in Wakes,
           StartWake(w) \/ NextMessage(w) \/ FinishWakeRun(w) \/ FailWakeRun(w)
    PROVE  KeptInv'
  <1> USE DEF KeptInv
  <1> DEFINE r == rest[w]
  <1>0. /\ r \in Seq(Envelopes) /\ Once(r) /\ inbound \in Seq(Envelopes) /\ Once(inbound)
        /\ MessagesOf(inbound) \cap MessagesOf(r) = {}
        /\ rest = [rest EXCEPT ![w] = r]
        /\ phase[w] = "running" => r # <<>>
    BY DEF InboxTyped, PlacesApart, PlacesInTime
  <1>1. UNCHANGED <<revive, sent, shown>>
    BY DEF StartWake, NextMessage, FinishWakeRun, FailWakeRun, inboxVars
  <1>2. PICK ph \in {"between", "running", "done"} :
          /\ phase' = [phase EXCEPT ![w] = ph]
          /\ ph = "running" => r # <<>> /\ UNCHANGED rest
    BY DEF StartWake, NextMessage, FinishWakeRun, FailWakeRun, Goto, EndTurn
  <1>3. phase'[w] = ph /\ \A v \in Wakes : v # w => phase'[v] = phase[v]
    <2>1. phase \in [Turns -> Phases] /\ w \in Turns
      BY TurnsAreApart DEF SlotInv, SlotTyped
    <2>2. \A v \in Wakes : v \in Turns
      BY TurnsAreApart
    <2> QED
      BY <1>2, <2>1, <2>2
  <1> HIDE DEF r
  \* What is left of the wake's messages, what it puts back and what it settles.
  <1>4. ASSUME NEW left \in Seq(Envelopes), NEW X, rest' = [rest EXCEPT ![w] = left], Once(left),
               MessagesOf(left) \subseteq MessagesOf(r), X \subseteq MessagesOf(r), X \cap MessagesOf(left) = {},
               inbound' \in Seq(Envelopes), Once(inbound'), MessagesOf(inbound') = MessagesOf(inbound) \cup X,
               \A e \in ElementsOf(inbound') : e \in ElementsOf(inbound) \/ (e.displayed /\ e.msg \in X),
               Settled' = Settled \cup (MessagesOf(r) \ (X \cup MessagesOf(left))),
               ph = "running" => left # <<>>
        PROVE  KeptInv'
    BY <1>1, <1>3, <1>4, WakeSettles DEF r
  <1>5. CASE UNCHANGED <<inbound, rest, finished, failed, dropped>>
    <2>1. Settled' = Settled
      BY <1>5 DEF Settled
    <2> DEFINE X == {}
    <2>2. /\ rest' = [rest EXCEPT ![w] = r] /\ X \subseteq MessagesOf(r) /\ X \cap MessagesOf(r) = {}
          /\ inbound' = inbound /\ MessagesOf(inbound') = MessagesOf(inbound) \cup X
          /\ Settled' = Settled \cup (MessagesOf(r) \ (X \cup MessagesOf(r)))
      BY <1>0, <1>5, <2>1
    <2> HIDE DEF X
    <2> QED
      BY <1>0, <1>2, <1>4, <2>2
  <1>6. CASE /\ inbound' = MergeQueues(inbound, Displayed(r)) /\ rest' = [rest EXCEPT ![w] = <<>>]
             /\ UNCHANGED <<finished, failed, dropped>> /\ ph # "running"
    <2> DEFINE back == Displayed(r)
               X == MessagesOf(r)
    <2>1. /\ back \in Seq(Envelopes) /\ MessagesOf(back) = X /\ Once(back)
          /\ \A e \in ElementsOf(back) : e.displayed /\ e.msg \in X
      BY <1>0, PutBackGives
    <2>2. inbound' = MergeQueues(inbound, back)
      BY <1>6
    <2> HIDE DEF back
    <2>3. /\ inbound' \in Seq(Envelopes) /\ Once(inbound')
          /\ MessagesOf(inbound') = MessagesOf(inbound) \cup X
          /\ ElementsOf(inbound') = ElementsOf(inbound) \cup ElementsOf(back)
      BY <1>0, <2>1, <2>2, MergeGives
    <2>4. Settled' = Settled \cup (MessagesOf(r) \ (X \cup MessagesOf(<<>>)))
      BY <1>6 DEF Settled
    <2>5. \A e \in ElementsOf(inbound') : e \in ElementsOf(inbound) \/ (e.displayed /\ e.msg \in X)
      BY <2>1, <2>3
    <2> QED
      BY <1>4, <1>6, <2>3, <2>4, <2>5, EmptyGives
  <1>7. CASE /\ finished' = finished \cup {Head(r).msg} /\ rest' = [rest EXCEPT ![w] = Tail(r)] /\ r # <<>>
             /\ UNCHANGED <<inbound, failed, dropped>> /\ ph # "running"
    <2> DEFINE X == {}
               left == Tail(r)
    <2>1. /\ left \in Seq(Envelopes) /\ Once(left) /\ Head(r).msg \in MessagesOf(r)
          /\ MessagesOf(left) = MessagesOf(r) \ {Head(r).msg}
      BY <1>0, <1>7, TailGives
    <2>2. Settled' = Settled \cup (MessagesOf(r) \ (X \cup MessagesOf(left)))
      BY <1>7, <2>1 DEF Settled
    <2>3. X \subseteq MessagesOf(r) /\ X \cap MessagesOf(left) = {} /\ MessagesOf(inbound') = MessagesOf(inbound) \cup X
      BY <1>7
    <2>4. rest' = [rest EXCEPT ![w] = left] /\ inbound' = inbound
      BY <1>7
    <2> HIDE DEF X, left
    <2> QED
      BY <1>0, <1>4, <1>7, <2>1, <2>2, <2>3, <2>4
  <1>8. ASSUME NEW redrivable, redrivable = Kept(r, {i \in DOMAIN r : ~r[i].redriven}),
               inbound' = (IF redrivable = <<>> THEN inbound ELSE MergeQueues(inbound, Redriven(redrivable))),
               dropped' = dropped \cup (MessagesOf(r) \ MessagesOf(redrivable)),
               rest' = [rest EXCEPT ![w] = <<>>], UNCHANGED <<finished, failed>>, ph # "running"
        PROVE  KeptInv'
    <2> DEFINE I == {i \in DOMAIN r : ~r[i].redriven}
               X == MessagesOf(redrivable)
               back == Redriven(redrivable)
    <2>1. I \in SUBSET (1..Len(r)) /\ redrivable = Kept(r, I)
      BY <1>0, <1>8, LenProperties
    <2> HIDE DEF I
    <2>2. /\ redrivable \in Seq(Envelopes) /\ Once(redrivable) /\ ElementsOf(redrivable) = {r[i] : i \in I}
      BY <1>0, <2>1, FilterGives
    <2>3. X \subseteq MessagesOf(r)
      <3>1. /\ MessagesOf(redrivable) = {e.msg : e \in ElementsOf(redrivable)}
            /\ MessagesOf(r) = {e.msg : e \in ElementsOf(r)}
        BY <1>0, <2>2, MessagesAreOfElements
      <3>2. ElementsOf(redrivable) \subseteq ElementsOf(r)
        BY <2>1, <2>2 DEF ElementsOf
      <3> QED
        BY <3>1, <3>2
    <2>4. Settled' = Settled \cup (MessagesOf(r) \ (X \cup MessagesOf(<<>>)))
      BY <1>8, EmptyGives DEF Settled
    <2>5. /\ inbound' \in Seq(Envelopes) /\ Once(inbound')
          /\ MessagesOf(inbound') = MessagesOf(inbound) \cup X
          /\ \A e \in ElementsOf(inbound') : e \in ElementsOf(inbound) \/ (e.displayed /\ e.msg \in X)
      <3>1. CASE redrivable = <<>>
        BY <1>0, <1>8, <3>1, EmptyGives
      <3>2. CASE redrivable # <<>>
        <4>1. inbound' = MergeQueues(inbound, back)
          BY <1>8, <3>2
        <4>2. /\ back \in Seq(Envelopes) /\ MessagesOf(back) = X /\ Once(back)
              /\ \A e \in ElementsOf(back) : e.displayed /\ e.msg \in X
          BY <2>2, PutBackGives
        <4> HIDE DEF back
        <4>3. MessagesOf(inbound) \cap MessagesOf(back) = {}
          BY <1>0, <2>3, <4>2
        <4>4. /\ inbound' \in Seq(Envelopes) /\ Once(inbound')
              /\ MessagesOf(inbound') = MessagesOf(inbound) \cup MessagesOf(back)
              /\ ElementsOf(inbound') = ElementsOf(inbound) \cup ElementsOf(back)
          BY <1>0, <4>1, <4>2, <4>3, MergeGives
        <4> QED
          BY <4>2, <4>4
      <3> QED
        BY <3>1, <3>2
    <2> QED
      BY <1>4, <1>8, <2>3, <2>4, <2>5, EmptyGives
  <1>9. CASE /\ failed' = failed \cup MessagesOf(r) /\ rest' = [rest EXCEPT ![w] = <<>>]
             /\ UNCHANGED <<inbound, finished, dropped>> /\ ph # "running"
    <2> DEFINE X == {}
    <2>1. Settled' = Settled \cup (MessagesOf(r) \ (X \cup MessagesOf(<<>>)))
      BY <1>9, EmptyGives DEF Settled
    <2>2. /\ X \subseteq MessagesOf(r) /\ X \cap MessagesOf(<<>>) = {} /\ MessagesOf(<<>>) \subseteq MessagesOf(r)
          /\ inbound' = inbound /\ MessagesOf(inbound') = MessagesOf(inbound) \cup X
      BY <1>9, EmptyGives
    <2> HIDE DEF X
    <2> QED
      BY <1>0, <1>4, <1>9, <2>1, <2>2, EmptyGives
  <1>10. CASE StartWake(w)
    BY <1>5, <1>10 DEF StartWake, inboxVars
  <1>11. CASE NextMessage(w)
    <2>1. ph = "running" => UNCHANGED rest /\ r # <<>>
      BY <1>2
    <2>2. \/ UNCHANGED <<inbound, rest>>
          \/ inbound' = MergeQueues(inbound, Displayed(r)) /\ rest' = [rest EXCEPT ![w] = <<>>] /\ EndTurn(w)
      BY <1>11 DEF NextMessage, r
    <2>3. EndTurn(w) => ph # "running"
      BY <1>3, TurnsAreApart DEF EndTurn, SlotInv, SlotTyped
    <2>4. UNCHANGED <<finished, failed, dropped>>
      BY <1>11 DEF NextMessage
    <2> QED
      BY <1>5, <1>6, <2>2, <2>3, <2>4
  <1>12. CASE FinishWakeRun(w)
    <2> DEFINE redrivable == Kept(r, {i \in DOMAIN r : ~r[i].redriven})
    <2>1. phase[w] = "running" /\ r # <<>>
      BY <1>0, <1>12 DEF FinishWakeRun
    <2>2. Goto(w, "between") \/ EndTurn(w)
      BY <1>12 DEF FinishWakeRun
    <2>3. ph # "running"
      BY <1>3, <2>2, TurnsAreApart DEF EndTurn, Goto, SlotInv, SlotTyped
    <2>4. \/ /\ finished' = finished \cup {Head(r).msg} /\ rest' = [rest EXCEPT ![w] = Tail(r)]
             /\ UNCHANGED <<inbound, failed, dropped>>
          \/ /\ inbound' = (IF redrivable = <<>> THEN inbound ELSE MergeQueues(inbound, Redriven(redrivable)))
             /\ dropped' = dropped \cup (MessagesOf(r) \ MessagesOf(redrivable))
             /\ rest' = [rest EXCEPT ![w] = <<>>] /\ UNCHANGED <<finished, failed>>
      BY <1>12 DEF FinishWakeRun, r
    <2> QED
      BY <1>7, <1>8, <2>1, <2>3, <2>4
  <1>13. CASE FailWakeRun(w)
    <2>1. EndTurn(w)
      BY <1>13 DEF FailWakeRun
    <2>2. ph # "running"
      BY <1>3, <2>1, TurnsAreApart DEF EndTurn, SlotInv, SlotTyped
    <2>3. /\ failed' = failed \cup MessagesOf(r) /\ rest' = [rest EXCEPT ![w] = <<>>]
          /\ UNCHANGED <<inbound, finished, dropped>>
      BY <1>13 DEF FailWakeRun, r
    <2> QED
      BY <1>9, <2>2, <2>3
  <1> QED
    BY <1>10, <1>11, <1>12, <1>13

\* An agent that was sent nothing has nothing.
LEMMA MessagesStart == ASSUME Init PROVE KeptInv
  <1>1. /\ inbound = <<>> /\ revive = [at |-> "idle", batch |-> <<>>, wake |-> NoTurn]
        /\ rest = [w \in Wakes |-> <<>>] /\ sent = {} /\ shown = [m \in Messages |-> 0]
        /\ finished = {} /\ failed = {} /\ dropped = {} /\ phase = [t \in Turns |-> "new"]
    BY DEF Init, IInit, QInit, Idle
  <1>2. InboxTyped
    BY <1>1, EmptyGives DEF InboxTyped
  <1>3. PlacesApart
    BY <1>1, EmptyGives DEF PlacesApart
  <1>4. SentIsAccounted
    BY <1>1, EmptyGives DEF SentIsAccounted, Waits, Settled
  <1>5. ShownTruly
    BY <1>1, EmptyGives DEF ShownTruly
  <1>6. PlacesInTime
    BY <1>1, TurnsAreApart DEF PlacesInTime
  <1> QED
    BY <1>2, <1>3, <1>4, <1>5, <1>6 DEF KeptInv

\* Every step keeps them.
LEMMA MessagesGoOn == ASSUME ConversationInv, KeptInv, [Next]_vars PROVE KeptInv'
  <1> USE TurnsAreApart
  <1>0. SlotInv /\ phase \in [Turns -> Phases]
    BY DEF ConversationInv, SlotInv, SlotTyped
  <1>1. CASE Pump /\ UNCHANGED <<userVars, inboxVars>>
    <2>1. active' \in Turns /\ phase' = [phase EXCEPT ![active'] = "taken"]
      <3>1. active' \in Prompts \cup Wakes
        BY <1>0, <1>1, LaneLosesHead DEF Pump, SlotInv, SlotTyped, LanesHoldQueued
      <3> QED
        BY <1>1, <3>1 DEF Pump
    <2>2. \A w \in Wakes : phase'[w] \in {"new", "running"} => phase'[w] = phase[w]
      BY <1>0, <2>1
    <2> QED
      BY <1>1, <2>2, OthersKeepMessages
  <1>2. CASE Escape /\ UNCHANGED <<userVars, inboxVars>>
    BY <1>2, OthersKeepMessages DEF Escape
  <1>3. CASE (\E p \in Prompts : UserStep(p)) /\ UNCHANGED inboxVars
    <2>1. PICK p \in Prompts : UserStep(p)
      BY <1>3
    <2>2. UNCHANGED queueVars \/ EnqueueUser(p) \/ EndTurn(p) \/ Goto(p, "running")
      BY <2>1 DEF UserStep, SendUserPrompt, AcceptPrompt, EnqueueTurn, StartUserTurn, FinishUserTurn, SettleSend, RecoverSkippedMessages
    <2>3. \A w \in Wakes : phase'[w] = phase[w]
      BY <1>0, <2>2 DEF queueVars, EnqueueUser, EndTurn, Goto
    <2> QED
      BY <1>3, <2>3, OthersKeepMessages
  <1>4. CASE InboxStep /\ UNCHANGED userVars
    BY <1>0, <1>4, SendKeepsMessages, ContinueKeepsMessages, WakeKeepsMessages, WakeRunKeepsMessages DEF InboxStep
  <1>5. CASE UNCHANGED vars
    BY <1>5, OthersKeepMessages DEF vars, queueVars
  <1> QED
    BY <1>1, <1>2, <1>3, <1>4, <1>5 DEF Next

\* AgentToAgentMessaging: no accepted message is lost, duplicated, shown twice or left waiting
\* without a revive loop.
THEOREM MessagesKept == Spec => []MessagesAreKept
  <1>1. Init => KeptInv
    BY MessagesStart
  <1>2. ConversationInv /\ KeptInv /\ [Next]_vars => KeptInv'
    BY MessagesGoOn
  <1>3. ConversationInv /\ KeptInv => MessagesAreKept
    BY KeptMeansKept DEF ConversationInv, InboxInv
  <1> QED
    BY <1>1, <1>2, <1>3, ConversationInvariant, PTL DEF Spec

-----------------------------------------------------------------------------
(***************************************************************************)
(* The conversation implements ExclusiveRuns: every step of the user, the  *)
(* peers, the queue and the watchdog is a step of the abstract             *)
(* specification or changes nothing the callers of a turn can see.         *)
(***************************************************************************)

\* What the callers of the turns see.
States == [t \in Turns |-> TurnState(t)]

Answers == [t \in Turns |-> TurnAnswer(t)]

Lines == [a \in {Recipient} |-> [l \in {"user", "agent", "background"} |-> Line(l)]]

\* A step that leaves the lanes, the abstract states and the answers alone is invisible.
LEMMA TurnsStutter ==
    ASSUME UNCHANGED <<userLane, agentLane>>,
           \A u \in Turns : TurnState(u)' = TurnState(u) /\ TurnAnswer(u)' = TurnAnswer(u)
    PROVE  UNCHANGED Exclusive!exclusiveVars
  <1>1. States' = States /\ Answers' = Answers
    BY DEF States, Answers
  <1>2. Lines' = Lines
    BY DEF Lines, Line
  <1> QED
    BY <1>1, <1>2 DEF States, Answers, Lines, Exclusive!exclusiveVars

\* The states after a step that moves one turn, as EXCEPT says it.
LEMMA OneTurnMoves ==
    ASSUME NEW t \in Turns, NEW s, TurnState(t)' = s,
           \A u \in Turns : u # t => TurnState(u)' = TurnState(u)
    PROVE  States' = [States EXCEPT ![t] = s]
  BY DEF States

\* The same for the answers.
LEMMA OneTurnIsAnswered ==
    ASSUME NEW t \in Turns, NEW s, TurnAnswer(t)' = s,
           \A u \in Turns : u # t => TurnAnswer(u)' = TurnAnswer(u)
    PROVE  Answers' = [Answers EXCEPT ![t] = s]
  BY DEF Answers

\* The lines after a step that changes one lane.
LEMMA OneLineMoves ==
    ASSUME NEW l \in {"user", "agent"}, NEW es, Line(l)' = es,
           \A k \in {"user", "agent", "background"} : k # l => Line(k)' = Line(k)
    PROVE  Lines' = [Lines EXCEPT ![Recipient][l] = es]
  BY DEF Lines

\* What is seen of a turn depends on its phase, on its escape and, once it is over, on
\* its outcome.
LEMMA SeenOfTurn ==
    ASSUME NEW u \in Turns, UNCHANGED escaped, phase'[u] = phase[u],
           u \in Prompts => outcome'[u] = outcome[u]
    PROVE  TurnState(u)' = TurnState(u) /\ TurnAnswer(u)' = TurnAnswer(u)
  BY DEF TurnState, TurnAnswer, Released

\* enqueue() accepts a turn of its lane.
LEMMA QueueAccepts ==
    ASSUME SlotInv, NEW t \in Turns, phase[t] = "new", UNCHANGED outcome,
           (t \in Prompts /\ EnqueueUser(t)) \/ (t \in Wakes /\ EnqueueAgent(t))
    PROVE  Exclusive!Accept(t)
  <1> USE TurnsAreApart
  <1>1. /\ phase \in [Turns -> Phases] /\ phase' = [phase EXCEPT ![t] = "queued"]
        /\ UNCHANGED escaped /\ t \notin escaped
        /\ \/ userLane' = Append(userLane, t) /\ t \in Prompts /\ UNCHANGED agentLane
           \/ agentLane' = Append(agentLane, t) /\ t \in Wakes /\ UNCHANGED userLane
    BY DEF EnqueueUser, EnqueueAgent, SlotInv, SlotTyped, EscapedHasBegun
  <1>2. phase'[t] = "queued" /\ \A u \in Turns : u # t => phase'[u] = phase[u]
    BY <1>1
  <1>3. \A u \in Turns : u # t => TurnState(u)' = TurnState(u) /\ TurnAnswer(u)' = TurnAnswer(u)
    BY <1>1, <1>2, SeenOfTurn
  <1>4. TurnState(t) = "new" /\ TurnState(t)' = "waiting"
    BY <1>2 DEF TurnState
  <1>5. TurnAnswer(t) = "pending" /\ TurnAnswer(t)' = "pending"
    BY <1>1, <1>2 DEF TurnAnswer, Released
  <1>6. States' = [States EXCEPT ![t] = "waiting"]
    BY <1>3, <1>4, OneTurnMoves
  <1>7. Answers' = Answers
    BY <1>3, <1>5 DEF Answers
  <1>8. PICK l \in {"user", "agent"} : l = TurnLane(t)
    BY DEF TurnLane
  <1>9. Line(l)' = Append(Line(l), t) /\ \A k \in {"user", "agent", "background"} : k # l => Line(k)' = Line(k)
    BY <1>1, <1>8 DEF Line, TurnLane
  <1>10. Lines' = [Lines EXCEPT ![Recipient][l] = Append(Line(l), t)]
    BY <1>9, OneLineMoves
  <1>11. Lines[Recipient][l] = Line(l)
    BY DEF Lines
  <1>12. States[t] = "new"
    BY <1>4 DEF States
  <1> QED
    BY <1>6, <1>7, <1>8, <1>10, <1>11, <1>12 DEF Exclusive!Accept, States, Answers, Lines

\* pump() begins the first turn of the better lane: whatever else is under way was
\* given up.
LEMMA QueueBegins ==
    ASSUME SlotInv, Pump, UNCHANGED outcome
    PROVE  \E l \in {"user", "agent"} : Exclusive!Begin(Recipient, l)
  <1> USE TurnsAreApart
  <1>1. /\ phase \in [Turns -> Phases] /\ UNCHANGED escaped /\ active = NoTurn
        /\ userLane \in Seq(Prompts) /\ agentLane \in Seq(Wakes)
        /\ HoldsQueued(userLane) /\ HoldsQueued(agentLane)
    BY DEF Pump, SlotInv, SlotTyped, LanesHoldQueued
  <1>2. PICK l \in {"user", "agent"} :
            /\ Line(l) # <<>> /\ Line(l)' = Tail(Line(l))
            /\ l = "agent" => Line("user") = <<>>
            /\ \A k \in {"user", "agent", "background"} : k # l => Line(k)' = Line(k)
            /\ phase' = [phase EXCEPT ![Head(Line(l))] = "taken"]
    BY DEF Pump, Line
  <1>3. PICK t \in Turns : t = Head(Line(l)) /\ phase[t] = "queued"
    <2>1. CASE l = "user"
      BY <1>1, <1>2, <2>1, LaneLosesHead DEF Line
    <2>2. CASE l = "agent"
      BY <1>1, <1>2, <2>2, LaneLosesHead DEF Line
    <2> QED
      BY <2>1, <2>2
  <1>4. t \notin escaped /\ phase'[t] = "taken" /\ \A u \in Turns : u # t => phase'[u] = phase[u]
    BY <1>1, <1>2, <1>3 DEF SlotInv, EscapedHasBegun
  <1>5. \A u \in Turns : u # t => TurnState(u)' = TurnState(u) /\ TurnAnswer(u)' = TurnAnswer(u)
    BY <1>1, <1>4, SeenOfTurn
  <1>6. TurnState(t)' = "running"
    BY <1>1, <1>4 DEF TurnState
  <1>7. TurnAnswer(t)' = TurnAnswer(t)
    BY <1>1, <1>3, <1>4 DEF TurnAnswer, Released
  <1>8. States' = [States EXCEPT ![t] = "running"]
    BY <1>5, <1>6, OneTurnMoves
  <1>9. Answers' = Answers
    BY <1>5, <1>7 DEF Answers
  <1>10. Lines' = [Lines EXCEPT ![Recipient][l] = Tail(Line(l))]
    BY <1>2, OneLineMoves
  <1>11. \A k \in {"user", "agent", "background"} : Lines[Recipient][k] = Line(k)
    BY DEF Lines
  <1>12. \A u \in Turns : TurnState(u) # "running"
    BY <1>1 DEF TurnState, SlotInv, LiveIsInSlot, Live, Phases
  <1>13. \A u \in Turns : States[u] # "running"
    BY <1>12 DEF States
  <1>14. Exclusive!First(Recipient, l)
    BY <1>2, <1>11 DEF Exclusive!First, Lines
  <1>15. Exclusive!Begin(Recipient, l)
    BY <1>2, <1>3, <1>8, <1>9, <1>10, <1>11, <1>13, <1>14 DEF Exclusive!Begin, States, Answers, Lines
  <1> QED
    BY <1>15

\* The watchdog gives up the turn in the slot, whose caller still waits.
LEMMA WatchdogGivesUp ==
    ASSUME SlotInv, Escape, UNCHANGED outcome
    PROVE  \E t \in Turns : Exclusive!GiveUp(t)
  <1> USE TurnsAreApart
  <1>1. PICK t \in Turns : t = active /\ phase[t] = "running" /\ escaped' = escaped \cup {t}
    BY DEF Escape, SlotInv, SlotTyped
  <1>2. t \notin escaped /\ UNCHANGED <<phase, userLane, agentLane>>
    BY <1>1, NoTurnAssumption DEF Escape, SlotInv, SlotIsLive
  <1>3. TurnState(t) = "running" /\ TurnState(t)' = "given up"
    BY <1>1, <1>2 DEF TurnState
  <1>4. TurnAnswer(t) = "pending" /\ TurnAnswer(t)' = "resolved"
    BY <1>1, <1>2 DEF TurnAnswer, Released
  <1>5. \A u \in Turns : u # t => TurnState(u)' = TurnState(u) /\ TurnAnswer(u)' = TurnAnswer(u)
    BY <1>1, <1>2 DEF TurnState, TurnAnswer, Released
  <1>6. States' = [States EXCEPT ![t] = "given up"] /\ Answers' = [Answers EXCEPT ![t] = "resolved"]
    BY <1>3, <1>4, <1>5, OneTurnMoves, OneTurnIsAnswered
  <1>7. Lines' = Lines
    BY <1>2 DEF Lines, Line
  <1>8. States[t] = "running" /\ Answers[t] = "pending"
    BY <1>3, <1>4 DEF States, Answers
  <1>9. Exclusive!GiveUp(t)
    BY <1>6, <1>7, <1>8 DEF Exclusive!GiveUp, States, Answers, Lines
  <1> QED
    BY <1>9

\* A turn ends once, and answers its caller unless the watchdog has.
LEMMA TurnEnds ==
    ASSUME SlotInv, NEW t \in Turns, phase[t] \in Live, EndTurn(t),
           \A p \in Prompts : p # t => outcome'[p] = outcome[p]
    PROVE  Exclusive!End(t)
  <1>1. /\ phase \in [Turns -> Phases] /\ phase' = [phase EXCEPT ![t] = "done"]
        /\ UNCHANGED <<escaped, userLane, agentLane>>
    BY DEF EndTurn, SlotInv, SlotTyped
  <1>2. phase'[t] = "done" /\ \A u \in Turns : u # t => phase'[u] = phase[u]
    BY <1>1
  <1>3. \A u \in Turns : u # t => TurnState(u)' = TurnState(u) /\ TurnAnswer(u)' = TurnAnswer(u)
    BY <1>1, <1>2, SeenOfTurn
  <1>4. TurnState(t)' = "over"
    BY <1>2 DEF TurnState
  <1>5. States' = [States EXCEPT ![t] = "over"]
    BY <1>3, <1>4, OneTurnMoves
  <1>6. Lines' = Lines
    BY <1>1 DEF Lines, Line
  <1>7. CASE t \in escaped
    <2>1. TurnState(t) = "given up"
      BY <1>7 DEF TurnState, Live
    <2>2. TurnAnswer(t)' = TurnAnswer(t)
      BY <1>1, <1>7 DEF TurnAnswer, Released
    <2>3. Answers' = Answers
      BY <1>3, <2>2 DEF Answers
    <2>4. States[t] = "given up"
      BY <2>1 DEF States
    <2> QED
      BY <1>5, <1>6, <2>3, <2>4 DEF Exclusive!End, States, Answers, Lines
  <1>8. CASE t \notin escaped
    <2>1. TurnState(t) = "running" /\ TurnAnswer(t) = "pending"
      BY <1>8 DEF TurnState, TurnAnswer, Released, Live
    <2>2. PICK value \in {"resolved", "rejected"} : value = TurnAnswer(t)'
      BY <1>1, <1>2, <1>8 DEF TurnAnswer, Released
    <2>3. Answers' = [Answers EXCEPT ![t] = value]
      BY <1>3, <2>2, OneTurnIsAnswered
    <2>4. States[t] = "running" /\ Answers[t] = "pending"
      BY <2>1 DEF States, Answers
    <2> QED
      BY <1>5, <1>6, <2>3, <2>4 DEF Exclusive!End, States, Answers, Lines
  <1> QED
    BY <1>7, <1>8

\* A turn that goes from one part of its task to the next is seen to run all the while.
LEMMA TurnGoesOn ==
    ASSUME SlotInv, NEW t \in Turns, phase[t] \in Live, NEW ph \in Live, Goto(t, ph), UNCHANGED outcome
    PROVE  UNCHANGED Exclusive!exclusiveVars
  <1>1. /\ phase \in [Turns -> Phases] /\ phase' = [phase EXCEPT ![t] = ph]
        /\ UNCHANGED <<escaped, userLane, agentLane>>
    BY DEF Goto, SlotInv, SlotTyped
  <1>2. phase'[t] = ph /\ \A u \in Turns : u # t => phase'[u] = phase[u]
    BY <1>1
  <1>3. TurnState(t)' = TurnState(t) /\ TurnAnswer(t)' = TurnAnswer(t)
    BY <1>1, <1>2 DEF TurnState, TurnAnswer, Released, Live
  <1>4. \A u \in Turns : TurnState(u)' = TurnState(u) /\ TurnAnswer(u)' = TurnAnswer(u)
    BY <1>1, <1>2, <1>3, SeenOfTurn
  <1> QED
    BY <1>1, <1>4, TurnsStutter

\* What leaves the queue and the outcomes alone is invisible.
LEMMA QueueStays ==
    ASSUME UNCHANGED <<queueVars, outcome>>
    PROVE  UNCHANGED Exclusive!exclusiveVars
  <1>1. \A u \in Turns : TurnState(u)' = TurnState(u) /\ TurnAnswer(u)' = TurnAnswer(u)
    BY SeenOfTurn DEF queueVars
  <1> QED
    BY <1>1, TurnsStutter DEF queueVars

\* The abstract view of the first state is an initial state of ExclusiveRuns.
LEMMA ConversationBeginsExclusive == ASSUME Init PROVE Exclusive!Init
  <1>1. \A t \in Turns : TurnState(t) = "new" /\ TurnAnswer(t) = "pending"
    BY DEF Init, QInit, TurnState, TurnAnswer, Released
  <1>2. States = [t \in Turns |-> "new"] /\ Answers = [t \in Turns |-> "pending"]
    BY <1>1 DEF States, Answers
  <1>3. Lines = [a \in {Recipient} |-> [l \in {"user", "agent", "background"} |-> <<>>]]
    BY DEF Init, QInit, Lines, Line
  <1>4. \A t \in Turns : TurnLane(t) \in {"user", "agent", "background"}
    BY DEF TurnLane
  <1> QED
    BY <1>2, <1>3, <1>4 DEF Exclusive!Init, Exclusive!Lanes, States, Answers, Lines

\* Every step of the user's turns.
LEMMA UserStepRefines ==
    ASSUME SlotInv, UserInv, NEW p \in Prompts, UserStep(p)
    PROVE  [Exclusive!Next]_(Exclusive!exclusiveVars)
  <1> USE TurnsAreApart
  <1>0. p \in Turns /\ outcome \in [Prompts -> {"none", "skipped", "answered", "aborted", "failed"}]
    BY DEF UserInv, UserTyped
  <1>1. CASE SendUserPrompt(p) \/ SettleSend(p) \/ RecoverSkippedMessages(p)
    BY <1>1, QueueStays DEF SendUserPrompt, SettleSend, RecoverSkippedMessages
  <1>2. CASE AcceptPrompt(p)
    <2>1. EnqueueUser(p) /\ UNCHANGED outcome /\ phase[p] = "new"
      BY <1>2 DEF AcceptPrompt, EnqueueTurn, UserInv, TurnsFollowSends
    <2>2. Exclusive!Accept(p)
      BY <1>0, <2>1, QueueAccepts
    <2> QED
      BY <1>0, <2>2 DEF Exclusive!Next
  <1>3. CASE StartUserTurn(p)
    <2>1. phase[p] \in Live /\ "running" \in Live
      BY <1>3 DEF StartUserTurn, Live
    <2>2. CASE StaleTurn(p)
      <3>1. EndTurn(p) /\ \A q \in Prompts : q # p => outcome'[q] = outcome[q]
        BY <1>0, <1>3, <2>2 DEF StartUserTurn
      <3>2. Exclusive!End(p)
        BY <1>0, <2>1, <3>1, TurnEnds
      <3> QED
        BY <1>0, <3>2 DEF Exclusive!Next
    <2>3. CASE ~StaleTurn(p)
      <3>1. Goto(p, "running") /\ UNCHANGED outcome
        BY <1>3, <2>3 DEF StartUserTurn
      <3> QED
        BY <1>0, <2>1, <3>1, TurnGoesOn
    <2> QED
      BY <2>2, <2>3
  <1>4. ASSUME NEW how \in {"answered", "failed"}, FinishUserTurn(p, how)
        PROVE  [Exclusive!Next]_(Exclusive!exclusiveVars)
    <2>1. phase[p] \in Live /\ EndTurn(p) /\ \A q \in Prompts : q # p => outcome'[q] = outcome[q]
      BY <1>0, <1>4 DEF FinishUserTurn, Live
    <2>2. Exclusive!End(p)
      BY <1>0, <2>1, TurnEnds
    <2> QED
      BY <1>0, <2>2 DEF Exclusive!Next
  <1> QED
    BY <1>1, <1>2, <1>3, <1>4 DEF UserStep

\* Every step of the inbox and its wakes.
LEMMA InboxStepRefines ==
    ASSUME SlotInv, InboxStep, UNCHANGED userVars
    PROVE  [Exclusive!Next]_(Exclusive!exclusiveVars)
  <1> USE TurnsAreApart
  <1>0. UNCHANGED outcome
    BY DEF userVars
  <1>1. CASE (\E m \in Messages : SendToAgent(m)) \/ ReviveContinues
    BY <1>0, <1>1, QueueStays DEF SendToAgent, Deliver, ReviveContinues
  <1>2. ASSUME NEW w \in Wakes,
               EnqueueWake(w) \/ StartWake(w) \/ NextMessage(w) \/ FinishWakeRun(w) \/ FailWakeRun(w)
        PROVE  [Exclusive!Next]_(Exclusive!exclusiveVars)
    <2>1. CASE EnqueueWake(w)
      <3>1. EnqueueAgent(w) /\ phase[w] = "new"
        BY <2>1 DEF EnqueueWake
      <3>2. Exclusive!Accept(w)
        BY <1>0, <3>1, QueueAccepts
      <3> QED
        BY <3>2 DEF Exclusive!Next
    <2>2. CASE ~EnqueueWake(w)
      <3>1. /\ phase[w] \in Live
            /\ EndTurn(w) \/ \E ph \in Live : Goto(w, ph)
        BY <1>2, <2>2 DEF StartWake, NextMessage, FinishWakeRun, FailWakeRun, Live
      <3>2. CASE EndTurn(w)
        <4>1. Exclusive!End(w)
          BY <1>0, <3>1, <3>2, TurnEnds
        <4> QED
          BY <4>1 DEF Exclusive!Next
      <3>3. CASE \E ph \in Live : Goto(w, ph)
        BY <1>0, <3>1, <3>3, TurnGoesOn
      <3> QED
        BY <3>1, <3>2, <3>3
    <2> QED
      BY <2>1, <2>2
  <1> QED
    BY <1>1, <1>2 DEF InboxStep

\* Every step of the conversation is a step of ExclusiveRuns or a stutter.
LEMMA ConversationStepRefines ==
    ASSUME ConversationInv, [Next]_vars
    PROVE  [Exclusive!Next]_(Exclusive!exclusiveVars)
  <1>0. SlotInv /\ UserInv
    BY DEF ConversationInv
  <1>1. CASE Pump /\ UNCHANGED <<userVars, inboxVars>>
    <2>1. UNCHANGED outcome
      BY <1>1 DEF userVars
    <2>2. PICK l \in {"user", "agent"} : Exclusive!Begin(Recipient, l)
      BY <1>0, <1>1, <2>1, QueueBegins
    <2> QED
      BY <2>2 DEF Exclusive!Next, Exclusive!Lanes
  <1>2. CASE Escape /\ UNCHANGED <<userVars, inboxVars>>
    <2>1. UNCHANGED outcome
      BY <1>2 DEF userVars
    <2> QED
      BY <1>0, <1>2, <2>1, WatchdogGivesUp DEF Exclusive!Next
  <1>3. CASE (\E p \in Prompts : UserStep(p)) /\ UNCHANGED inboxVars
    BY <1>0, <1>3, UserStepRefines
  <1>4. CASE InboxStep /\ UNCHANGED userVars
    BY <1>0, <1>4, InboxStepRefines
  <1>5. CASE UNCHANGED vars
    BY <1>5, QueueStays DEF vars, userVars
  <1> QED
    BY <1>1, <1>2, <1>3, <1>4, <1>5 DEF Next

\* SessionRuntime: the user's turns and the wakes of an agent share its slot as
\* ExclusiveRuns promises, for any prompts, nonces, messages and escapes.
THEOREM TurnsServedExclusively == Spec => TurnsAreExclusive
  <1>1. Init => Exclusive!Init
    BY ConversationBeginsExclusive
  <1>2. ConversationInv /\ [Next]_vars => [Exclusive!Next]_(Exclusive!exclusiveVars)
    BY ConversationStepRefines
  <1> QED
    BY <1>1, <1>2, ConversationInvariant, PTL DEF Spec, TurnsAreExclusive, Exclusive!Spec
=============================================================================
