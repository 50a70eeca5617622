----------------------------- MODULE TurnQueue -----------------------------
(***************************************************************************)
(* One agent's turns: the exclusive run queue as RunScheduler provides it  *)
(* (packages/core/src/run-scheduler.ts), with its user and agent lanes and  *)
(* its escapes, and the agent's AgentRunner                                *)
(* (packages/runner/src/agent-runner.ts), whose activeControllers map      *)
(* holds at most one AbortController: run() replaces it, interrupt() aborts *)
(* it and the finally block of any run deletes it.                         *)
(***************************************************************************)
EXTENDS Naturals, Sequences, FiniteSets

CONSTANTS
    Prompts,    \* user-lane turns: calls of sendUserPrompt() and recoveries
    MaxWakes,   \* how many agent-lane turns may ever be enqueued
    NoTurn,     \* no active turn, no controller
    MaxEscapes  \* how many turns the watchdog may escape

Wakes == 1..MaxWakes

ASSUME TurnsAssumption == MaxWakes \in Nat /\ Prompts \cap Wakes = {}
ASSUME NoTurnAssumption == NoTurn \notin Prompts \cup Wakes
ASSUME EscapesAssumption == MaxEscapes \in Nat

Turns == Prompts \cup Wakes

VARIABLES
    userLane,    \* pending user turns
    agentLane,   \* pending agent turns
    active,      \* the turn that holds the slot
    phase,       \* where each turn is
    escaped,     \* turns the watchdog gave up on
    controller,  \* the turn whose controller is in activeControllers
    aborted,     \* turns whose controller was aborted
    disarmed     \* history: turns whose controller another run replaced or deleted

queueVars == <<userLane, agentLane, active, phase, escaped>>
runnerVars == <<controller, aborted, disarmed>>

Phases == {"new", "queued", "taken", "running", "between", "done"}

QInit ==
    /\ userLane = <<>>
    /\ agentLane = <<>>
    /\ active = NoTurn
    /\ phase = [t \in Turns |-> "new"]
    /\ escaped = {}
    /\ controller = NoTurn
    /\ aborted = {}
    /\ disarmed = {}

-----------------------------------------------------------------------------
(* The queue *)

ActiveLane ==
    IF active = NoTurn THEN "none" ELSE IF active \in Prompts THEN "user" ELSE "agent"

EnqueueUser(p) ==
    /\ userLane' = Append(userLane, p)
    /\ phase' = [phase EXCEPT ![p] = "queued"]
    /\ UNCHANGED <<agentLane, active, escaped>>

EnqueueAgent(w) ==
    /\ agentLane' = Append(agentLane, w)
    /\ phase' = [phase EXCEPT ![w] = "queued"]
    /\ UNCHANGED <<userLane, active, escaped>>

\* pump(): the slot goes to the oldest turn of the best lane.  The turn starts one
\* microtask later.
Pump ==
    /\ active = NoTurn
    /\ \/ /\ userLane # <<>>
          /\ active' = Head(userLane)
          /\ userLane' = Tail(userLane)
          /\ UNCHANGED agentLane
       \/ /\ userLane = <<>>
          /\ agentLane # <<>>
          /\ active' = Head(agentLane)
          /\ agentLane' = Tail(agentLane)
          /\ UNCHANGED userLane
    /\ phase' = [phase EXCEPT ![active'] = "taken"]
    /\ UNCHANGED <<escaped, runnerVars>>

Goto(t, p) ==
    /\ phase' = [phase EXCEPT ![t] = p]
    /\ UNCHANGED <<userLane, agentLane, active, escaped>>

\* Fault: a turn that ends frees the slot, whoever holds it.
EndTurnFreeing(t) ==
    /\ phase' = [phase EXCEPT ![t] = "done"]
    /\ active' = NoTurn
    /\ UNCHANGED <<userLane, agentLane, escaped>>

\* The task of the turn returns or throws.
EndTurn(t) ==
    /\ phase' = [phase EXCEPT ![t] = "done"]
    /\ active' = IF active = t THEN NoTurn ELSE active
    /\ UNCHANGED <<userLane, agentLane, escaped>>

\* The watchdog escapes the active turn, which goes on.
Escape ==
    /\ active # NoTurn
    /\ phase[active] = "running"
    /\ Cardinality(escaped) < MaxEscapes
    /\ escaped' = escaped \cup {active}
    /\ active' = NoTurn
    /\ UNCHANGED <<userLane, agentLane, phase, runnerVars>>

\* The promise enqueue() returned has settled.
Released(t) == phase[t] = "done" \/ t \in escaped

-----------------------------------------------------------------------------
(* The runner *)

\* The entry of another run is lost.
Disarm(t) ==
    disarmed' = (disarmed \ {t}) \cup ({controller} \ {t, NoTurn})

\* run() up to its first await.
BeginRun(t) ==
    /\ controller' = t
    /\ aborted' = aborted \ {t}
    /\ Disarm(t)

\* The finally block deletes the agent's entry, whoever put it there.
EndRun(t) ==
    /\ controller' = NoTurn
    /\ Disarm(t)
    /\ UNCHANGED aborted

\* interrupt() returns whether a controller was there.
CanInterrupt == controller # NoTurn

Interrupt ==
    /\ aborted' = IF CanInterrupt THEN aborted \cup {controller} ELSE aborted
    /\ UNCHANGED <<controller, disarmed>>
=============================================================================
