--------------------------- MODULE GatewayStream ---------------------------
(***************************************************************************)
(* The event stream between the coordinator and the gateway of the host:   *)
(* the event loop of GatewaySseClient, its SseBlockDecoder, and            *)
(* handleEvents() of the server, packages/transport/src/sse.ts.            *)
(*                                                                         *)
(* The loop connects, reads until the stream ends, and connects again,     *)
(* after a growing delay when it failed and at once when somebody asked    *)
(* for it: reconnectGeneration tells the two apart.  An event is two       *)
(* symbols on the wire, its text and the blank line that ends it, which    *)
(* may arrive in different reads.                                          *)
(***************************************************************************)
EXTENDS Naturals, Sequences, SequencesExt, Filters

CONSTANTS
    Events, Wanted,   \* what the host publishes, and the channels the client subscribed
    MaxPublished,     \* events on one connection
    MaxReconnects,    \* calls of requestReconnect()
    MaxConnections, MaxHostChanges,
    MaxFailures       \* attempts that are counted apart by the backoff

ASSUME StreamAssumption == Wanted \subseteq Events /\ MaxFailures \in Nat

VARIABLES
    loop,   \* runEventLoop() and streamEvents()
    host,   \* the server: up, subscribed, what it published on this connection
    wire,   \* the symbols under way, and whether the connection still works
    seen    \* what the client was told: events of this connection, transport events

streamVars == <<loop, host, wire, seen>>

Blank == "blank"

\* What is written for a subscription that is not an event are comments.
Comments == {"retry", "ping"}

ASSUME EventsAreNoComments == Events \cap (Comments \cup {Blank}) = {}

Text == Seq(Events \cup Comments \cup {Blank})

StreamTypeOK ==
    /\ loop \in [at : {"off", "connecting", "streaming", "backoff", "ended"}, closed : BOOLEAN, generation : Nat,
                 attempt : Nat, aborted : BOOLEAN, failed : 0..MaxFailures, connections : Nat]
    /\ loop.attempt <= loop.generation
    /\ host \in [up : BOOLEAN, subscribed : BOOLEAN, published : Seq(Events), count : Nat, changes : Nat]
    /\ wire \in [symbols : Text, buffer : Text, live : BOOLEAN]
    /\ seen \in [events : Seq(Events), connected : Nat, down : Nat]

StreamInit ==
    /\ loop = [at |-> "off", closed |-> FALSE, generation |-> 0, attempt |-> 0, aborted |-> FALSE, failed |-> 0, connections |-> 0]
    /\ host = [up |-> TRUE, subscribed |-> FALSE, published |-> <<>>, count |-> 0, changes |-> 0]
    /\ wire = [symbols |-> <<>>, buffer |-> <<>>, live |-> FALSE]
    /\ seen = [events |-> <<>>, connected |-> 0, down |-> 0]

-----------------------------------------------------------------------------
(* The host *)

\* The subscription of handleEvents(): the channels that were asked for are written.
Publish(e) ==
    /\ host.up /\ host.subscribed /\ host.count < MaxPublished
    /\ host' = [host EXCEPT !.count = @ + 1, !.published = IF e \in Wanted THEN Append(@, e) ELSE @]
    /\ wire' = [wire EXCEPT !.symbols = IF e \in Wanted /\ wire.live THEN @ \o <<e, Blank>> ELSE @]
    /\ UNCHANGED <<loop, seen>>

\* The retry hint and the heartbeat are comments to the client.
Heartbeat ==
    /\ host.up /\ host.subscribed /\ wire.live /\ Len(wire.symbols) < 2
    /\ wire' = [wire EXCEPT !.symbols = @ \o <<"ping", Blank>>]
    /\ UNCHANGED <<loop, host, seen>>

HostStops ==
    /\ host.up /\ host.changes < MaxHostChanges
    /\ host' = [host EXCEPT !.up = FALSE, !.subscribed = FALSE, !.changes = @ + 1]
    /\ UNCHANGED <<loop, wire, seen>>

HostStarts ==
    /\ ~host.up
    /\ host' = [host EXCEPT !.up = TRUE]
    /\ UNCHANGED <<loop, wire, seen>>

\* The connection dies without either side being told.
LinkDies ==
    /\ wire.live
    /\ wire' = [wire EXCEPT !.live = FALSE]
    /\ UNCHANGED <<loop, host, seen>>

-----------------------------------------------------------------------------
(* The loop *)

Attempt(l) == [l EXCEPT !.at = "connecting", !.attempt = l.generation, !.aborted = FALSE]

StartLoop ==
    /\ loop.at = "off"
    /\ loop' = IF loop.closed THEN [loop EXCEPT !.at = "ended"] ELSE Attempt(loop)
    /\ UNCHANGED <<host, wire, seen>>

\* close() and requestReconnect(): what the loop waits for is aborted.
Superseded(l) == [l EXCEPT !.generation = @ + 1, !.aborted = (l.at \in {"connecting", "streaming", "backoff"})]

CloseClient ==
    /\ ~loop.closed
    /\ loop' = [Superseded(loop) EXCEPT !.closed = TRUE]
    /\ UNCHANGED <<host, wire, seen>>

RequestReconnect ==
    /\ loop.generation < MaxReconnects
    /\ loop' = Superseded(loop)
    /\ UNCHANGED <<host, wire, seen>>

\* The response has come, in time and not superseded.
Connected ==
    /\ loop.at = "connecting" /\ host.up /\ ~loop.aborted /\ loop.connections < MaxConnections
    /\ loop.attempt = loop.generation
    /\ loop' = [loop EXCEPT !.at = "streaming", !.failed = 0, !.connections = @ + 1]
    /\ host' = [host EXCEPT !.subscribed = TRUE, !.published = <<>>, !.count = 0]
    /\ wire' = [symbols |-> <<"retry", Blank>>, buffer |-> <<>>, live |-> TRUE]
    /\ seen' = [seen EXCEPT !.events = <<>>, !.connected = @ + 1]

\* What follows an attempt: the end, another one, or the backoff.
After(l) ==
    IF l.closed THEN [l EXCEPT !.at = "ended"]
    ELSE IF l.attempt # l.generation THEN [Attempt(l) EXCEPT !.failed = 0]
    ELSE [l EXCEPT !.at = "backoff", !.aborted = FALSE, !.failed = IF @ < MaxFailures THEN @ + 1 ELSE @]

\* The deadline, an error, an HTTP status, an abort.
ConnectFails ==
    /\ loop.at = "connecting"
    /\ loop' = After(loop)
    /\ UNCHANGED <<host, wire, seen>>

Dropped ==
    /\ loop' = After(loop)
    /\ host' = [host EXCEPT !.subscribed = FALSE]
    /\ wire' = [symbols |-> <<>>, buffer |-> <<>>, live |-> FALSE]

\* Fault: only an end that nobody asked for is reported.
ReportedIfEnded == IF loop.aborted THEN seen ELSE [seen EXCEPT !.down = @ + 1]

ReportedDown == [seen EXCEPT !.down = @ + 1]

\* The stream ends: it is aborted, the host has gone, or it was silent until the watchdog.
StreamEnds ==
    /\ loop.at = "streaming"
    /\ loop.aborted \/ ~host.subscribed \/ ~wire.live
    /\ Dropped
    /\ seen' = ReportedDown

BackoffEnds ==
    /\ loop.at = "backoff"
    /\ loop' = IF loop.closed THEN [loop EXCEPT !.at = "ended"] ELSE Attempt(loop)
    /\ UNCHANGED <<host, wire, seen>>

\* Fault: what is left of a read is not kept for the next one.
RestDropped(text) == <<>>

\* SseBlockDecoder.push(): the blocks that are complete, and what is left of the text.
LastBlank(text) == Max({0} \cup {i \in DOMAIN text : text[i] = Blank})

Rest(text) == SubSeq(text, LastBlank(text) + 1, Len(text))

Blocks(text) == Among(SubSeq(text, 1, LastBlank(text)), Events)

Read(n) ==
    /\ loop.at = "streaming" /\ ~loop.aborted /\ n \in 1..Len(wire.symbols)
    /\ LET text == wire.buffer \o SubSeq(wire.symbols, 1, n) IN
          /\ seen' = [seen EXCEPT !.events = @ \o Blocks(text)]
          /\ wire' = [wire EXCEPT !.symbols = SubSeq(@, n + 1, Len(@)), !.buffer = Rest(text)]
    /\ UNCHANGED <<loop, host>>

StreamNext ==
    \/ StartLoop \/ CloseClient \/ RequestReconnect \/ Connected \/ ConnectFails \/ StreamEnds \/ BackoffEnds
    \/ \E e \in Events : Publish(e)
    \/ \E n \in 1..(2 * MaxPublished + 2) : Read(n)
    \/ Heartbeat \/ HostStops \/ HostStarts \/ LinkDies

-----------------------------------------------------------------------------
\* The events of a connection reach the client in the order they were published, none
\* twice and none left out: what is missing is still on the wire.
EventsInOrder ==
    loop.at = "streaming" =>
        /\ IsPrefix(seen.events, host.published)
        /\ (wire.live /\ wire.symbols = <<>>) => seen.events = host.published

\* transport-connected and transport-down alternate, and say whether there is a
\* stream, however it ends: abort, stall, the end of the host, close().
TransportIsReported == seen.connected - seen.down = IF loop.at = "streaming" THEN 1 ELSE 0

\* What a subscriber of the stream may rely on across reconnects.
StreamTellsAll == EventsInOrder /\ TransportIsReported
=============================================================================
