----------------------------- MODULE UserTurns -----------------------------
(***************************************************************************)
(* sendUserPrompt() and recoverSkippedMessages() of                        *)
(* packages/runner/src/session-runtime.ts for one agent: the merging of    *)
(* sends that carry the same nonce, the supersede protocol (epochs) and    *)
(* the recovery of superseded messages.  A send awaits the append of its   *)
(* transcript entry, so several sends can be between their first line and  *)
(* the rest of doUserPrompt().                                             *)
(***************************************************************************)
EXTENDS TurnQueue

CONSTANTS
    Recoveries, \* the prompts that recoverSkippedMessages() may send
    Nonces,     \* client nonces
    NoNonce     \* a send without a nonce

ASSUME RecoveriesAssumption == Recoveries \subseteq Prompts
ASSUME NoNonceAssumption == NoNonce \notin Nonces

VARIABLES
    nonce,      \* the clientNonce argument of each send
    content,    \* the message a prompt carries, named after the prompt that first sent it
    send,       \* where each send is
    inFlight,   \* inFlightSends
    epoch,      \* epochs of the agent
    epochOf,    \* the epoch each send captured
    recovery,   \* latestRecoverySends of the agent
    outcome     \* what became of each user turn

userVars == <<nonce, content, send, inFlight, epoch, epochOf, recovery, outcome>>

UInit ==
    /\ nonce \in {f \in [Prompts -> Nonces \cup {NoNonce}] : \A p \in Recoveries : f[p] = NoNonce}
    /\ content = [p \in Prompts |-> p]
    /\ send = [p \in Prompts |-> "new"]
    /\ inFlight = [n \in Nonces |-> NoTurn]
    /\ epoch = 0
    /\ epochOf = [p \in Prompts |-> 0]
    /\ recovery = NoTurn
    /\ outcome = [p \in Prompts |-> "none"]

-----------------------------------------------------------------------------

\* sendUserPrompt() up to the first await of doUserPrompt(), or the pending send of
\* the same nonce.
SendUserPrompt(p) ==
    /\ p \notin Recoveries
    /\ send[p] = "new"
    /\ IF nonce[p] # NoNonce /\ inFlight[nonce[p]] # NoTurn
       THEN /\ send' = [send EXCEPT ![p] = "merged"]
            /\ UNCHANGED inFlight
       ELSE /\ send' = [send EXCEPT ![p] = "appending"]
            /\ inFlight' = [n \in Nonces |-> IF n = nonce[p] THEN p ELSE inFlight[n]]
    /\ UNCHANGED <<nonce, content, epoch, epochOf, recovery, outcome, queueVars, runnerVars>>

TakeEpoch(p) ==
    /\ epoch' = epoch + 1
    /\ epochOf' = [epochOf EXCEPT ![p] = epoch + 1]

\* The rest of doUserPrompt() after its entry is appended, up to the await of the turn.
EnqueueTurn(p) ==
    /\ send[p] = "appending"
    /\ send' = [send EXCEPT ![p] = "waiting"]
    /\ EnqueueUser(p)
    /\ UNCHANGED <<nonce, content, inFlight, outcome>>

\* Fault: the epoch is taken without interrupting the turn it supersedes.
AcceptPromptQuietly(p) ==
    EnqueueTurn(p) /\ TakeEpoch(p) /\ UNCHANGED <<recovery, runnerVars>>

\* The interrupted message is not known here: the content of the new one is kept.
AcceptPrompt(p) ==
    /\ EnqueueTurn(p)
    /\ TakeEpoch(p)
    /\ IF ActiveLane = "user"
       THEN /\ Interrupt
            /\ recovery' = IF CanInterrupt THEN content[p] ELSE recovery
       ELSE UNCHANGED <<recovery, runnerVars>>

\* Fault: a turn counts as stale because the one before it was superseded.
StaleTurnEver(p) == epochOf[p] > 1

\* A newer user message superseded this turn.
StaleTurn(p) == epoch # epochOf[p]

\* The task of the turn up to the first await of run(), or its early return.
StartUserTurn(p) ==
    /\ phase[p] = "taken"
    /\ IF StaleTurn(p)
       THEN /\ outcome' = [outcome EXCEPT ![p] = "skipped"]
            /\ EndTurn(p)
            /\ UNCHANGED runnerVars
       ELSE /\ Goto(p, "running")
            /\ BeginRun(p)
            /\ UNCHANGED outcome
    /\ UNCHANGED <<nonce, content, send, inFlight, epoch, epochOf, recovery>>

\* run() returns or throws.  An aborted run returns.
FinishUserTurn(p, how) ==
    /\ phase[p] = "running"
    /\ outcome' = [outcome EXCEPT ![p] = IF p \in aborted THEN "aborted" ELSE how]
    /\ EndRun(p)
    /\ EndTurn(p)
    /\ UNCHANGED <<nonce, content, send, inFlight, epoch, epochOf, recovery>>

\* The promise of the send settles, and its finally handler forgets the nonce.
SettleSend(p) ==
    /\ send[p] = "waiting"
    /\ Released(p)
    /\ send' = [send EXCEPT ![p] = "settled"]
    /\ inFlight' = [n \in Nonces |-> IF n = nonce[p] THEN NoTurn ELSE inFlight[n]]
    /\ UNCHANGED <<nonce, content, epoch, epochOf, recovery, outcome, queueVars, runnerVars>>

\* recoverSkippedMessages(): the recorded message is sent again, as p.
RecoverSkippedMessages(p) ==
    /\ recovery # NoTurn
    /\ active = NoTurn
    /\ p \in Recoveries
    /\ send[p] = "new"
    /\ recovery' = NoTurn
    /\ content' = [content EXCEPT ![p] = recovery]
    /\ send' = [send EXCEPT ![p] = "appending"]
    /\ UNCHANGED <<nonce, inFlight, epoch, epochOf, outcome, queueVars, runnerVars>>

UserStep(p) ==
    \/ SendUserPrompt(p)
    \/ AcceptPrompt(p)
    \/ StartUserTurn(p)
    \/ \E how \in {"answered", "failed"} : FinishUserTurn(p, how)
    \/ SettleSend(p)
    \/ RecoverSkippedMessages(p)

-----------------------------------------------------------------------------
(* Properties *)

\* The newest user message is served: its turn is never skipped, and never aborted
\* unless the watchdog escaped it (and a priority peer may then interrupt it).  It is
\* served once: two sends with one nonce are never in progress together.
NewestPromptIsServed ==
    /\ \A p \in Prompts :
           epochOf[p] > 0 /\ epochOf[p] = epoch =>
               /\ outcome[p] # "skipped"
               /\ outcome[p] = "aborted" => p \in escaped
    /\ \A p, q \in Prompts :
           /\ nonce[p] = nonce[q] /\ nonce[p] # NoNonce
           /\ send[p] \in {"appending", "waiting"} /\ send[q] \in {"appending", "waiting"}
           => p = q

\* A user turn that runs in the slot after a newer message was accepted has been told
\* to stop, unless an escaped run of the agent had replaced or deleted its controller.
SupersededTurnIsAborted ==
    active \in Prompts /\ phase[active] = "running" /\ StaleTurn(active) =>
        active \in aborted \cup disarmed

\* What the comment on latestRecoverySends says: "user messages skipped by supersede
\* land here and are re-enqueued once the agent drains".  A message that is kept to
\* be sent again is not one whose turn ran to its end.
RecoveryKeepsSkipped ==
    \A p \in Prompts : recovery = p => outcome[p] # "answered"
=============================================================================
