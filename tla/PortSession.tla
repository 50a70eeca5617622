---------------------------- MODULE PortSession ----------------------------
(***************************************************************************)
(* Port sessions between the desktop process and its coordinator: the      *)
(* server and the client of packages/transport/src/port.ts, and the two    *)
(* planes that share one process pipe (spawnCoordinatorForkIpc of          *)
(* coordinator/src/parent.ts, bootstrapCoordinatorChild of coordinator.ts).*)
(*                                                                         *)
(* The pipe keeps the order of the messages of each direction.  Requests   *)
(* are dispatched concurrently, so their replies come in any order, and a  *)
(* client may have given one up meanwhile.                                 *)
(***************************************************************************)
EXTENDS Naturals, Sequences, FiniteSets

CONSTANTS MaxRequests, MaxStrays  \* requests of both planes, frames from outside

ASSUME PortAssumption == MaxRequests \in Nat /\ MaxStrays \in Nat

VARIABLES
    pipe,     \* up, and the messages under way: toChild, toParent
    servers,  \* plane -> ready, settled (or "open"), the requests being dispatched
    clients   \* plane -> settled, the waiters of requests, and how requests ended

portVars == <<pipe, servers, clients>>

Planes == {"control", "mainData"}
Requests == 1..MaxRequests   \* r1, r2, ... : the ids are those of the plane
NewServer == [ready |-> FALSE, settled |-> "open", running |-> {}]
NewClient == [ready |-> FALSE, settled |-> "open", asked |-> 0, pending |-> {}, late |-> {},
              ended |-> [r \in Requests |-> "never"], strays |-> 0]

PortTypeOK ==
    /\ \A p \in Planes :
          /\ servers[p].settled \in {"open", "clean", "breach"} /\ clients[p].settled \in {"open", "clean", "breach"}
          /\ clients[p].pending \subseteq Requests /\ servers[p].running \subseteq Requests

Frame(p, kind, r) == [channel |-> p, kind |-> kind, r |-> r, by |-> p]
Sent(msgs, frames) == IF pipe.up THEN msgs \o frames ELSE msgs

\* spawnCoordinatorForkIpc(): build() announces each plane as ready.
PortInit ==
    /\ pipe = [up |-> TRUE, toChild |-> <<Frame("control", "ready", 0), Frame("mainData", "ready", 0)>>, toParent |-> <<>>]
    /\ servers = [p \in Planes |-> NewServer]
    /\ clients = [p \in Planes |-> NewClient]

\* Fault: every message goes to the control plane.
DemuxBare(m) == "control"

\* demuxForkIpc(): the plane of an envelope; a bare frame is the control plane's.
Demux(m) == IF m.channel = "none" THEN "control" ELSE m.channel

-----------------------------------------------------------------------------
(* createPortServer *)

Reply(p, kind, r) == Sent(pipe.toParent, <<Frame(p, kind, r)>>)

\* handleMessage(): a frame out of turn is a breach, which settles the session.
Breaches(s, m) ==
    \/ m.kind = "malformed"
    \/ m.kind = "ready" /\ s.ready
    \/ m.kind = "request" /\ ~s.ready

ServerReceives ==
    /\ pipe.up /\ pipe.toChild # <<>>
    /\ LET m == Head(pipe.toChild)
           p == Demux(m)
           s == servers[p]
           rest == Tail(pipe.toChild)
           takes(t, answer) == /\ servers' = [servers EXCEPT ![p] = t]
                               /\ pipe' = [pipe EXCEPT !.toChild = rest, !.toParent = answer]
       IN  CASE s.settled # "open" -> takes(s, pipe.toParent)
             [] s.settled = "open" /\ Breaches(s, m) -> takes([s EXCEPT !.settled = "breach"], Reply(p, "protocol-error", 0))
             [] s.settled = "open" /\ m.kind = "shutdown" -> takes([s EXCEPT !.settled = "clean"], pipe.toParent)
             [] s.settled = "open" /\ m.kind = "ready" /\ ~s.ready -> takes([s EXCEPT !.ready = TRUE], Reply(p, "ready", 0))
             [] s.settled = "open" /\ m.kind = "request" /\ s.ready -> takes([s EXCEPT !.running = @ \cup {m.r}], pipe.toParent)
    /\ UNCHANGED clients

\* handleRequest(): the dispatch is done, well or with an error (an unknown method is
\* one of those); nothing is posted any more after the session settled.
DispatchEnds(p, r, kind) ==
    /\ pipe.up /\ r \in servers[p].running /\ kind \in {"ok", "error"}
    /\ servers' = [servers EXCEPT ![p].running = @ \ {r}]
    /\ pipe' = [pipe EXCEPT !.toParent = IF servers[p].settled = "open" THEN Reply(p, kind, r) ELSE @]
    /\ UNCHANGED clients

-----------------------------------------------------------------------------
(* createPortClient *)

\* Fault: the requests that wait are left waiting.
SettledLeaving(c, how) == IF c.settled # "open" THEN c ELSE [c EXCEPT !.settled = how]

\* settle(): the first time, all that wait are rejected.
Settled(c, how) ==
    IF c.settled # "open" THEN c
    ELSE [c EXCEPT !.settled = how, !.pending = {},
                   !.ended = [r \in Requests |-> IF r \in c.pending THEN "closed" ELSE @[r]]]

\* request(): it is posted whatever became of the session.
Request(p) ==
    /\ clients["control"].asked + clients["mainData"].asked < MaxRequests
    /\ LET r == clients[p].asked + 1 IN
          /\ clients' = [clients EXCEPT ![p].asked = r, ![p].pending = @ \cup {r},
                            ![p].late = IF clients[p].settled # "open" \/ ~pipe.up THEN @ \cup {r} ELSE @]
          /\ pipe' = [pipe EXCEPT !.toChild = Sent(@, <<Frame(p, "request", r)>>)]
    /\ UNCHANGED servers

RequestTimesOut(p, r) ==
    /\ r \in clients[p].pending
    /\ clients' = [clients EXCEPT ![p].pending = @ \ {r}, ![p].ended[r] = "timeout"]
    /\ UNCHANGED <<pipe, servers>>

\* A reply ends the request that waits under its id; one that came too late is dropped.
Resolved(c, m) ==
    IF m.r \in c.pending
    THEN [c EXCEPT !.pending = @ \ {m.r}, !.ended[m.r] = IF m.kind = "error" THEN "error" ELSE m.by]
    ELSE c

ClientReceives ==
    /\ pipe.toParent # <<>>
    /\ LET m == Head(pipe.toParent)
           p == Demux(m)
       IN  clients' = [clients EXCEPT ![p] =
             CASE m.kind = "protocol-error" -> Settled(@, "breach")
               [] m.kind = "ready" -> [@ EXCEPT !.ready = TRUE]
               [] m.kind \in {"ok", "error"} -> Resolved(@, m)]
    /\ pipe' = [pipe EXCEPT !.toParent = Tail(@)]
    /\ UNCHANGED servers

\* close(): the channel of this carrier stays open.
ClosePort(p) ==
    /\ clients[p].settled = "open"
    /\ clients' = [clients EXCEPT ![p] = Settled(@, "clean")]
    /\ pipe' = [pipe EXCEPT !.toChild = IF clients[p].ready THEN Sent(@, <<Frame(p, "shutdown", 0)>>) ELSE @]
    /\ UNCHANGED servers

-----------------------------------------------------------------------------
\* stop(), or the end of the child: nothing tells the clients.
PipeCloses ==
    /\ pipe.up
    /\ pipe' = [pipe EXCEPT !.up = FALSE, !.toChild = <<>>]
    /\ clients' = [p \in Planes |-> [clients[p] EXCEPT !.late = clients[p].pending]]
    /\ UNCHANGED servers

\* Something else in the process sends a frame of its own, without an envelope.
StrayFrame ==
    /\ clients["control"].strays < MaxStrays
    /\ clients' = [clients EXCEPT !["control"].strays = @ + 1]
    /\ pipe' = [pipe EXCEPT !.toChild = Sent(@, <<[channel |-> "none", kind |-> "malformed", r |-> 0, by |-> "none"]>>)]
    /\ UNCHANGED servers

PortNext ==
    \/ ServerReceives \/ ClientReceives \/ PipeCloses \/ StrayFrame
    \/ \E p \in Planes : Request(p) \/ ClosePort(p)
    \/ \E p \in Planes, r \in Requests :
          RequestTimesOut(p, r) \/ DispatchEnds(p, r, "ok") \/ DispatchEnds(p, r, "error")

-----------------------------------------------------------------------------
\* The two planes use the same request ids on one pipe and stay apart: a request is
\* resolved by its own plane, and a plane is only breached by a frame that was not
\* its client's.
PlanesStayApart ==
    \A p \in Planes :
        /\ \A r \in Requests : clients[p].ended[r] \in {"never", "timeout", "closed", "error", p}
        /\ (servers[p].settled = "breach" \/ clients[p].settled = "breach") => p = "control" /\ clients[p].strays > 0

\* When a client has settled, no request waits that was made while the session was
\* open (one made later, or caught by the end of the pipe, waits for its timeout).
SettledRequestsEnd ==
    \A p \in Planes : clients[p].settled # "open" => clients[p].pending \subseteq clients[p].late

\* What the users of the pipe may rely on, whatever comes late.
PortsAnswerTheirOwn == PlanesStayApart /\ SettledRequestsEnd
=============================================================================
