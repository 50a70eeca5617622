---------------------------- MODULE GatewaySends ----------------------------
(***************************************************************************)
(* Prompts on their way to the host: sendPrompt() of GatewaySseClient with *)
(* its deadline and its one retry, and the command route of the gateway    *)
(* server, packages/transport/src/sse.ts.                                  *)
(*                                                                         *)
(* A host that deduplicates by nonce answers `accepted'; the client learns *)
(* from such an answer that this base URL does, and only then sends a      *)
(* prompt again that the host may have had already.  The connection is     *)
(* resolved anew for every attempt, so a retry may go to another host.     *)
(***************************************************************************)
EXTENDS Naturals, FiniteSets

CONSTANTS
    Prompts,      \* each with its clientNonce
    Gateways,     \* base URLs
    MaxSwitches   \* how often another host takes over

ASSUME SendAssumption == MaxSwitches \in Nat

VARIABLES
    gateway,  \* the hosts: which one the client is led to, which deduplicate, what they took in
    posts,    \* requests under way to a host, also when their client has given up
    prompts,  \* prompt -> its sendPrompt()
    link      \* the client: closed, sendDedupeProvenBaseUrls

sendVars == <<gateway, posts, prompts, link>>

SendTypeOK ==
    /\ posts \subseteq [prompt : Prompts, to : Gateways, retry : BOOLEAN]
    /\ \A p \in Prompts : prompts[p].at \in {"idle", "resolving", "posted", "done", "failed"}
    /\ link.proven \subseteq Gateways

SendInit ==
    /\ gateway \in [current : Gateways, dedupes : SUBSET Gateways, taken : {[g \in Gateways |-> [p \in Prompts |-> 0]]}, switches : {0}]
    /\ posts = {}
    /\ prompts = [p \in Prompts |-> [at |-> "idle", to |-> gateway.current, retry |-> FALSE]]
    /\ link = [closed |-> FALSE, proven |-> {}]

\* sendPrompt() up to resolveConnection().
SendPrompt(p) ==
    /\ prompts[p].at = "idle"
    /\ prompts' = [prompts EXCEPT ![p].at = "resolving"]
    /\ UNCHANGED <<gateway, posts, link>>

Post(p) ==
    /\ prompts[p].at = "resolving"
    /\ prompts' = [prompts EXCEPT ![p].at = "posted", ![p].to = gateway.current]
    /\ posts' = posts \cup {[prompt |-> p, to |-> gateway.current, retry |-> prompts[p].retry]}
    /\ UNCHANGED <<gateway, link>>

\* handleRequest() runs the handler, which appends the prompt unless it knows the nonce.
TakenIn(m) ==
    IF m.to \in gateway.dedupes THEN [gateway EXCEPT !.taken[m.to][m.prompt] = 1]
    ELSE [gateway EXCEPT !.taken[m.to][m.prompt] = @ + 1]

Waiting(m) == prompts[m.prompt].at = "posted" /\ prompts[m.prompt].retry = m.retry

\* The answer comes in time, or late to nobody.  A failed handler may have appended the prompt.
HostAnswers(m, outcome) ==
    /\ m \in posts /\ outcome \in {"ok", "refused", "handler-failed"}
    /\ posts' = posts \ {m}
    /\ gateway' = IF outcome = "refused" THEN gateway ELSE TakenIn(m)
    /\ prompts' = IF Waiting(m) THEN [prompts EXCEPT ![m.prompt].at = IF outcome = "ok" THEN "done" ELSE "failed"] ELSE prompts
    /\ link' = IF Waiting(m) /\ outcome = "ok" /\ m.to \in gateway.dedupes THEN [link EXCEPT !.proven = @ \cup {m.to}] ELSE link

\* The host takes the prompt in, and its answer is lost; or the request is.
AnswerLost(m) ==
    /\ m \in posts
    /\ posts' = posts \ {m}
    /\ gateway' \in {gateway, TakenIn(m)}
    /\ UNCHANGED <<prompts, link>>

-----------------------------------------------------------------------------
\* Fault: a send with a nonce is always tried again.
RetryableByNonce(p, postStarted) == ~link.closed

\* The client knows that the host has not seen the prompt, or will not append it twice.
Retryable(p, postStarted) == ~link.closed /\ (~postStarted \/ prompts[p].to \in link.proven)

Fails(p, postStarted) ==
    prompts' = [prompts EXCEPT ![p].at = IF ~prompts[p].retry /\ Retryable(p, postStarted) THEN "resolving" ELSE "failed",
                               ![p].retry = TRUE]

ResolveFails(p) ==
    /\ prompts[p].at = "resolving"
    /\ Fails(p, FALSE)
    /\ UNCHANGED <<gateway, posts, link>>

\* The deadline, or an error of the connection, wherever the request is by now.
PostFails(p) ==
    /\ prompts[p].at = "posted"
    /\ Fails(p, TRUE)
    /\ UNCHANGED <<gateway, posts, link>>

CloseSends ==
    /\ ~link.closed
    /\ link' = [link EXCEPT !.closed = TRUE]
    /\ UNCHANGED <<gateway, posts, prompts>>

\* Another host takes over.
HostReplaced(g) ==
    /\ gateway.switches < MaxSwitches /\ g # gateway.current
    /\ gateway' = [gateway EXCEPT !.current = g, !.switches = @ + 1]
    /\ UNCHANGED <<posts, prompts, link>>

SendNext ==
    \/ \E p \in Prompts : SendPrompt(p) \/ Post(p) \/ ResolveFails(p) \/ PostFails(p)
    \/ \E m \in posts : AnswerLost(m) \/ \E outcome \in {"ok", "refused", "handler-failed"} : HostAnswers(m, outcome)
    \/ CloseSends
    \/ \E g \in Gateways : HostReplaced(g)

-----------------------------------------------------------------------------
\* No host appends a prompt twice, the ones that do not deduplicate included: a retry
\* after a lost or late answer only goes out when the host is known to.
PromptOncePerHost == \A g \in Gateways, p \in Prompts : gateway.taken[g][p] <= 1
=============================================================================
