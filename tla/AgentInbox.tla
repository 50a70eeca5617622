----------------------------- MODULE AgentInbox -----------------------------
(***************************************************************************)
(* packages/messaging/src/agent-messaging.ts for one recipient: messages   *)
(* of other agents queue in pendingAgentInbound, a revive loop takes them  *)
(* in batches, displays them and enqueues one wake turn per batch, and the *)
(* wake runs the recipient once per message.  A priority message interrupts *)
(* the wake; the interrupted batch is put back.                            *)
(***************************************************************************)
EXTENDS TurnQueue, Filters

CONSTANTS
    Messages,   \* the messages other agents may send, each once
    Priority    \* those sent with priority: true

ASSUME PriorityAssumption == Priority \subseteq Messages

VARIABLES
    inbound,   \* pendingAgentInbound of the recipient
    revive,    \* the revive loop: idle, or the batch it displays, or the wake it awaits
    rest,      \* the envelopes a wake has not finished: messages.slice(index)
    begun,     \* wakes with index > 0
    sent,      \* messages sendToAgent() accepted
    shown,     \* how many transcript entries each message has
    finished,  \* history: messages whose run returned without being aborted
    failed,    \* history: messages given up on because a run of their wake threw
    dropped    \* history: messages not re-driven because they had been before

inboxVars == <<inbound, revive, rest, begun, sent, shown, finished, failed, dropped>>

Envelope(m) == [msg |-> m, displayed |-> FALSE, redriven |-> FALSE]

IsPriority(e) == e.msg \in Priority

Idle == [at |-> "idle", batch |-> <<>>, wake |-> NoTurn]

IInit ==
    /\ inbound = <<>>
    /\ revive = Idle
    /\ rest = [w \in Wakes |-> <<>>]
    /\ begun = {}
    /\ sent = {}
    /\ shown = [m \in Messages |-> 0]
    /\ finished = {}
    /\ failed = {}
    /\ dropped = {}

-----------------------------------------------------------------------------
(* Envelopes *)

MessagesOf(es) == {es[i].msg : i \in DOMAIN es}

PriorityOf(es) == Kept(es, {i \in DOMAIN es : IsPriority(es[i])})

RestOf(es) == Kept(es, {i \in DOMAIN es : ~IsPriority(es[i])})

Displayed(es) == [i \in DOMAIN es |-> [es[i] EXCEPT !.displayed = TRUE]]

Redriven(es) == [i \in DOMAIN es |-> [es[i] EXCEPT !.displayed = TRUE, !.redriven = TRUE]]

Prioritize(es) == PriorityOf(es) \o RestOf(es)

\* Fault: messages that arrived during the wake are overwritten.
MergeOverwriting(queued, deferred) ==
    PriorityOf(queued) \o PriorityOf(deferred) \o RestOf(deferred)

MergeQueues(queued, deferred) ==
    PriorityOf(queued) \o PriorityOf(deferred) \o RestOf(deferred) \o RestOf(queued)

-----------------------------------------------------------------------------
(* sendToAgent() *)

\* The loop of reviveForAgentInbound() up to its next await.
ReviveLoop(es) ==
    IF es = <<>>
    THEN revive' = Idle /\ inbound' = <<>>
    ELSE revive' = [Idle EXCEPT !.at = "displaying", !.batch = Prioritize(es)] /\ inbound' = <<>>

\* The end of sendToAgent() without its steering.
Deliver(m) ==
    LET queued == IF m \in Priority THEN <<Envelope(m)>> \o inbound
                                    ELSE Append(inbound, Envelope(m))
    IN  /\ m \notin sent
        /\ sent' = sent \cup {m}
        /\ IF revive.at = "idle" THEN ReviveLoop(queued) ELSE inbound' = queued /\ UNCHANGED revive
        /\ UNCHANGED <<rest, begun, shown, finished, failed, dropped, queueVars>>

\* Fault: a priority message interrupts whatever runs.
SendToAgentSteeringAll(m) ==
    Deliver(m) /\ IF m \in Priority THEN Interrupt ELSE UNCHANGED runnerVars

\* A priority message steers the recipient unless a user turn holds the slot.
SendToAgent(m) ==
    /\ Deliver(m)
    /\ IF m \in Priority /\ ActiveLane # "user" THEN Interrupt ELSE UNCHANGED runnerVars

-----------------------------------------------------------------------------
(* The revive loop and the wakes *)

\* A re-driven message's entry exists already.
Fresh(es) == {es[i].msg : i \in {i \in DOMAIN es : ~es[i].displayed}}

\* The fresh entries are appended and the wake is enqueued.
EnqueueWake(w) ==
    /\ revive.at = "displaying"
    /\ phase[w] = "new"
    /\ \A v \in Wakes : v < w => phase[v] # "new"
    /\ shown' = [m \in Messages |->
                    IF m \in Fresh(revive.batch) THEN shown[m] + 1 ELSE shown[m]]
    /\ rest' = [rest EXCEPT ![w] = revive.batch]
    /\ revive' = [Idle EXCEPT !.at = "waiting", !.wake = w]
    /\ EnqueueAgent(w)
    /\ UNCHANGED <<inbound, begun, sent, finished, failed, dropped, runnerVars>>

\* Fault: the loop stops after one wake.
ReviveStops ==
    /\ revive.at = "waiting"
    /\ Released(revive.wake)
    /\ revive' = Idle
    /\ UNCHANGED <<inbound, rest, begun, sent, shown, finished, failed, dropped, queueVars, runnerVars>>

\* The wake's promise settles and the loop looks at the queue again.
ReviveContinues ==
    /\ revive.at = "waiting"
    /\ Released(revive.wake)
    /\ ReviveLoop(inbound)
    /\ UNCHANGED <<rest, begun, sent, shown, finished, failed, dropped, queueVars, runnerVars>>

StartWake(w) ==
    /\ phase[w] = "taken"
    /\ Goto(w, "between")
    /\ UNCHANGED <<inboxVars, runnerVars>>

\* A newer priority message preempts what is left of the batch.
Preempted(w) == w \in begun /\ PriorityOf(inbound) # <<>>

\* The wake's loop from one run to the next, or to its end.
NextMessage(w) ==
    /\ phase[w] = "between"
    /\ \/ /\ rest[w] = <<>>
          /\ EndTurn(w)
          /\ UNCHANGED <<inbound, rest, runnerVars>>
       \/ /\ rest[w] # <<>>
          /\ Preempted(w)
          /\ inbound' = MergeQueues(inbound, Displayed(rest[w]))
          /\ rest' = [rest EXCEPT ![w] = <<>>]
          /\ EndTurn(w)
          /\ UNCHANGED runnerVars
       \/ /\ rest[w] # <<>>
          /\ ~Preempted(w)
          /\ Goto(w, "running")
          /\ BeginRun(w)
          /\ UNCHANGED <<inbound, rest>>
    /\ UNCHANGED <<revive, begun, sent, shown, finished, failed, dropped>>

\* A run of the wake returns; interrupted, it puts back what was not re-driven before.
FinishWakeRun(w) ==
    LET redrivable == Kept(rest[w], {i \in DOMAIN rest[w] : ~rest[w][i].redriven}) IN
    /\ phase[w] = "running"
    /\ EndRun(w)
    /\ \/ /\ w \notin aborted
          /\ finished' = finished \cup {Head(rest[w]).msg}
          /\ rest' = [rest EXCEPT ![w] = Tail(@)]
          /\ begun' = begun \cup {w}
          /\ Goto(w, "between")
          /\ UNCHANGED <<inbound, dropped>>
       \/ /\ w \in aborted
          /\ inbound' = IF redrivable = <<>> THEN inbound
                        ELSE MergeQueues(inbound, Redriven(redrivable))
          /\ dropped' = dropped \cup (MessagesOf(rest[w]) \ MessagesOf(redrivable))
          /\ rest' = [rest EXCEPT ![w] = <<>>]
          /\ EndTurn(w)
          /\ UNCHANGED <<finished, begun>>
    /\ UNCHANGED <<revive, sent, shown, failed>>

\* A run of the wake throws: the error is logged and the rest of the batch is gone.
FailWakeRun(w) ==
    /\ phase[w] = "running"
    /\ w \notin aborted
    /\ EndRun(w)
    /\ failed' = failed \cup MessagesOf(rest[w])
    /\ rest' = [rest EXCEPT ![w] = <<>>]
    /\ EndTurn(w)
    /\ UNCHANGED <<inbound, revive, begun, sent, shown, finished, dropped>>

InboxStep ==
    \/ \E m \in Messages : SendToAgent(m)
    \/ ReviveContinues
    \/ \E w \in Wakes :
         EnqueueWake(w) \/ StartWake(w) \/ NextMessage(w) \/ FinishWakeRun(w) \/ FailWakeRun(w)

-----------------------------------------------------------------------------
(* Properties *)

\* How often a message waits: in the inbox, in the batch on display, in a wake.
Places(m) ==
    LET In(es) == Cardinality({i \in DOMAIN es : es[i].msg = m}) IN
    In(inbound) + In(revive.batch)
      + Cardinality({w \in Wakes : m \in MessagesOf(rest[w])})

\* No message waits without a revive loop that will come to it, unless an escaped
\* wake put it back after the loop had ended.
NoStrandedInbound == inbound # <<>> => revive # Idle \/ escaped \cap Wakes # {}

\* Through coalescing, preemption and re-driving every accepted message waits in one
\* place, or its run has returned, or it was given up on: none is duplicated, and
\* none is lost in any other way than by a failing run or a second interruption.  The
\* recipient's transcript shows each message once, however often it is re-driven, and
\* before the recipient is run on it.  And none waits with nobody to come for it.
MessagesAreKept ==
    /\ \A m \in Messages :
           /\ Places(m) <= 1
           /\ m \in sent => (Places(m) = 0 <=> m \in finished \cup failed \cup dropped)
           /\ shown[m] <= 1
    /\ \A w \in Wakes : \A m \in MessagesOf(rest[w]) : shown[m] = 1
    /\ NoStrandedInbound
=============================================================================
