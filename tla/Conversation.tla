---------------------------- MODULE Conversation ----------------------------
(***************************************************************************)
(* One agent as SessionRuntime wires it: user turns and wakes by other     *)
(* agents share the agent's run queue and its runner.                      *)
(***************************************************************************)
EXTENDS UserTurns, AgentInbox
LOCAL INSTANCE TLC

vars == <<queueVars, runnerVars, userVars, inboxVars>>

Init == QInit /\ UInit /\ IInit

Next ==
    \/ Pump /\ UNCHANGED <<userVars, inboxVars>>
    \/ Escape /\ UNCHANGED <<userVars, inboxVars>>
    \/ (\E p \in Prompts : UserStep(p)) /\ UNCHANGED inboxVars
    \/ InboxStep /\ UNCHANGED userVars

Spec == Init /\ [][Next]_vars

-----------------------------------------------------------------------------
(* Properties *)

\* Every variable has its type.
TypeOK ==
    /\ userLane \in Seq(Prompts)
    /\ agentLane \in Seq(Wakes)
    /\ active \in Turns \cup {NoTurn}
    /\ phase \in [Turns -> Phases]
    /\ escaped \subseteq Turns
    /\ controller \in Turns \cup {NoTurn}
    /\ aborted \subseteq Turns
    /\ disarmed \subseteq Turns
    /\ nonce \in [Prompts -> Nonces \cup {NoNonce}]
    /\ content \in [Prompts -> Prompts]
    /\ send \in [Prompts -> {"new", "merged", "appending", "waiting", "settled"}]
    /\ inFlight \in [Nonces -> Prompts \cup {NoTurn}]
    /\ epoch \in Nat
    /\ epochOf \in [Prompts -> Nat]
    /\ recovery \in Prompts \cup {NoTurn}
    /\ outcome \in [Prompts -> {"none", "skipped", "answered", "aborted", "failed"}]
    /\ sent \cup finished \cup failed \cup dropped \subseteq Messages
    /\ \A es \in {inbound, revive.batch} \cup {rest[w] : w \in Wakes} :
         \A i \in DOMAIN es : es[i] \in [msg : Messages, displayed : BOOLEAN, redriven : BOOLEAN]
    /\ begun \subseteq Wakes
    /\ shown \in [Messages -> Nat]

\* "Never interrupt user work": a user turn that holds the slot is aborted only by a
\* newer user message.
UserTurnsYieldOnlyToUser ==
    [][\A p \in Prompts : active = p /\ p \notin aborted /\ p \in aborted' => epoch' > epoch]_vars

\* The prompts that the user sends are alike.
Interchangeable == Permutations(Prompts \ Recoveries)

-----------------------------------------------------------------------------
(* Refinement: the user's turns and the wakes are the tasks of one agent.   *)

\* For its caller a task runs until it is given up or over, whatever the runner does.
TurnState(t) ==
    CASE phase[t] = "new" -> "new"
      [] phase[t] = "queued" -> "waiting"
      [] phase[t] = "done" -> "over"
      [] OTHER -> IF t \in escaped THEN "given up" ELSE "running"

\* A user turn that fails rejects, unless its caller was released before; a wake logs
\* its error.
TurnAnswer(t) ==
    IF ~Released(t) THEN "pending"
    ELSE IF t \in Prompts \ escaped /\ outcome[t] = "failed" THEN "rejected" ELSE "resolved"

TurnLane(t) == IF t \in Prompts THEN "user" ELSE "agent"

Line(l) == CASE l = "user" -> userLane [] l = "agent" -> agentLane [] OTHER -> <<>>

Recipient == "agent"

Exclusive == INSTANCE ExclusiveRuns WITH
    Agents <- {Recipient},
    Tasks <- Turns,
    owner <- [t \in Turns |-> Recipient],
    lane <- [t \in Turns |-> TurnLane(t)],
    lines <- [a \in {Recipient} |-> [l \in {"user", "agent", "background"} |-> Line(l)]],
    state <- [t \in Turns |-> TurnState(t)],
    answer <- [t \in Turns |-> TurnAnswer(t)],
    closed <- FALSE

\* The user's turns and the wakes of an agent run one at a time, but for a turn the
\* watchdog gave up; the user's go first and each lane keeps its order; every caller is
\* answered once; and a turn that was given up never takes or frees the slot of the one
\* after it, whichever of their ends comes first.
TurnsAreExclusive == Exclusive!Spec
=============================================================================
