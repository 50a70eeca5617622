----------------------------- MODULE Terminals -----------------------------
(***************************************************************************)
(* The shells of the desktop's workspace bridge and the web sockets that   *)
(* watch them: Terminals, Terminal and TerminalClient of                   *)
(* apps/community/deploy/desktop/workspace-bridge.py.                      *)
(*                                                                         *)
(* One event loop runs everything: a handler may be overtaken only where   *)
(* it awaits, which is ws.prepare() between get() and attach(), every send *)
(* of a client, and close() of a terminal, which waits for its process.    *)
(***************************************************************************)
EXTENDS Naturals, Sequences, SequencesExt, FiniteSets

CONSTANTS
    Viewers, Keys,    \* web sockets, session ids
    MaxShells,        \* shells that are ever started
    MaxSessions,      \* max_sessions, 12 in the code
    MaxViewers,       \* 4
    MaxQueue,         \* events of a client's queue, 32 or MAX_PENDING bytes
    MaxReplay,        \* chunks of output that are replayed, MAX_REPLAY bytes
    MaxOutput         \* chunks a shell writes

\* The session ids that are ever asked for are finitely many.
ASSUME TerminalAssumption ==
    /\ MaxShells \in Nat /\ MaxQueue \in Nat /\ MaxReplay \in Nat \ {0} /\ MaxOutput \in Nat
    /\ IsFiniteSet(Keys)

VARIABLES
    shells,    \* the terminals: their process, what it wrote, what was emitted, idle, closing
    sessions,  \* session id -> its terminal
    sockets,   \* viewer -> its handler and its TerminalClient
    reaping    \* what is left of the snapshot of reap()

terminalVars == <<shells, sessions, sockets, reaping>>

NoShell == 0
NewShell == [alive |-> TRUE, ended |-> FALSE, unread |-> 0, emitted |-> 0, idle |-> FALSE, closing |-> FALSE]
NewSocket == [at |-> "idle", shell |-> NoShell, queue |-> <<>>, got |-> <<>>]
ClosedSocket == [NewSocket EXCEPT !.at = "closed"]

Shell == [alive : BOOLEAN, ended : BOOLEAN, unread : Nat, emitted : Nat, idle : BOOLEAN, closing : BOOLEAN]
Event == [type : {"ready", "output", "exit"}, chunks : Seq(Nat)]
Socket == [at : {"idle", "preparing", "open", "closed"}, shell : Nat, queue : Seq(Event), got : Seq(Nat)]

TerminalTypeOK ==
    /\ shells \in Seq(Shell)
    /\ sessions \in [Keys -> 0..Len(shells)]
    /\ sockets \in [Viewers -> Socket]
    /\ \A v \in Viewers : Len(sockets[v].queue) <= MaxQueue
    /\ reaping \in Seq([key : Keys, shell : DOMAIN shells])

TerminalInit ==
    /\ shells = <<>>
    /\ sessions = [k \in Keys |-> NoShell]
    /\ sockets = [v \in Viewers |-> NewSocket]
    /\ reaping = <<>>

Clients(t) == {v \in Viewers : sockets[v].at = "open" /\ sockets[v].shell = t}

\* offer() of events to a client, in turn; one whose queue is full is stopped.
Offered(c, events) ==
    IF c.at # "open" THEN c
    ELSE IF Len(c.queue) + Len(events) > MaxQueue THEN ClosedSocket
    ELSE [c EXCEPT !.queue = @ \o events]

OfferedToAll(t, events) == [v \in Viewers |-> IF v \in Clients(t) THEN Offered(sockets[v], events) ELSE sockets[v]]

-----------------------------------------------------------------------------
(* The handler of a web socket *)

\* get(): terminals that have ended are forgotten, and a new one is started when needed.
Known(k) == sessions[k] # NoShell /\ ~shells[sessions[k]].ended
Listed == [k \in Keys |-> IF Known(k) THEN sessions[k] ELSE NoShell]
Full(k) == ~Known(k) /\ Cardinality({j \in Keys : Known(j)}) >= MaxSessions

Refuse(v) == sockets' = [sockets EXCEPT ![v] = ClosedSocket]

\* terminal() up to ws.prepare().
Connect(v, k) ==
    /\ sockets[v].at = "idle" /\ (Known(k) \/ Full(k) \/ Len(shells) < MaxShells)
    /\ IF Full(k) \/ (Known(k) /\ Cardinality(Clients(sessions[k])) >= MaxViewers)
       THEN Refuse(v) /\ sessions' = Listed /\ UNCHANGED shells
       ELSE /\ shells' = IF Known(k) THEN shells ELSE Append(shells, NewShell)
            /\ sessions' = [Listed EXCEPT ![k] = IF Known(k) THEN @ ELSE Len(shells) + 1]
            /\ sockets' = [sockets EXCEPT ![v].at = "preparing", ![v].shell = sessions'[k],
                              ![v].got = <<shells'[sessions'[k]].emitted>>]
    /\ UNCHANGED reaping

\* Fault: the replay is what it was before ws.prepare().
ReplayAtRequest(v) ==
    LET last == sockets[v].got[1] IN [i \in 1..(IF last < MaxReplay THEN last ELSE MaxReplay) |->
        (IF last < MaxReplay THEN 0 ELSE last - MaxReplay) + i]

\* terminal.replay: the last chunks that were emitted.
Replay(v) ==
    LET last == shells[sockets[v].shell].emitted
        first == IF last < MaxReplay THEN 0 ELSE last - MaxReplay
    IN  [i \in 1..(last - first) |-> first + i]

Output(chunks) == [type |-> "output", chunks |-> chunks]
Ready == [type |-> "ready", chunks |-> <<>>]
Exit == [type |-> "exit", chunks |-> <<>>]

\* attach(): the socket joins, and is offered what there is.
Attach(v) ==
    /\ sockets[v].at = "preparing"
    /\ LET t == sockets[v].shell
           welcome == <<Ready>> \o (IF Replay(v) = <<>> THEN <<>> ELSE <<Output(Replay(v))>>)
                                \o (IF shells[t].ended THEN <<Exit>> ELSE <<>>)
       IN  IF Cardinality(Clients(t)) >= MaxViewers THEN Refuse(v) /\ UNCHANGED shells
           ELSE /\ sockets' = [sockets EXCEPT ![v] = Offered([@ EXCEPT !.at = "open", !.got = <<>>], welcome)]
                /\ shells' = [shells EXCEPT ![t].idle = FALSE]
    /\ UNCHANGED <<sessions, reaping>>

Stop(v) ==
    /\ sockets' = [sockets EXCEPT ![v] = ClosedSocket]
    /\ shells' = [shells EXCEPT ![sockets[v].shell].idle = FALSE]

\* send(): the next event goes out; after the exit the client stops.
SendEvent(v) ==
    /\ sockets[v].at = "open" /\ sockets[v].queue # <<>>
    /\ IF Head(sockets[v].queue) = Exit THEN Stop(v)
       ELSE /\ sockets' = [sockets EXCEPT ![v].queue = Tail(@), ![v].got = @ \o Head(sockets[v].queue).chunks]
            /\ UNCHANGED shells
    /\ UNCHANGED <<sessions, reaping>>

\* The socket closes, a send fails or takes too long, or a message is not valid.
LeaveTerminal(v) ==
    /\ sockets[v].at = "open"
    /\ Stop(v)
    /\ UNCHANGED <<sessions, reaping>>

\* feed() and resize() of a terminal that can take them.
Type(v) ==
    /\ sockets[v].at = "open" /\ ~shells[sockets[v].shell].ended /\ ~shells[sockets[v].shell].closing
    /\ shells[sockets[v].shell].idle
    /\ shells' = [shells EXCEPT ![sockets[v].shell].idle = FALSE]
    /\ UNCHANGED <<sessions, sockets, reaping>>

-----------------------------------------------------------------------------
(* The terminal *)

ShellWrites(t) ==
    /\ shells[t].alive /\ shells[t].emitted + shells[t].unread < MaxOutput
    /\ shells' = [shells EXCEPT ![t].unread = @ + 1]
    /\ UNCHANGED <<sessions, sockets, reaping>>

MayRead(t) == ~shells[t].ended /\ ~shells[t].closing /\ shells[t].unread > 0

\* read() and emit() of one chunk.
Read(t) ==
    /\ MayRead(t)
    /\ shells' = [shells EXCEPT ![t].unread = @ - 1, ![t].emitted = @ + 1, ![t].idle = FALSE]
    /\ sockets' = OfferedToAll(t, <<Output(<<shells[t].emitted + 1>>)>>)
    /\ UNCHANGED <<sessions, reaping>>

ShellEnds(t) ==
    /\ shells[t].alive
    /\ shells' = [shells EXCEPT ![t].alive = FALSE]
    /\ UNCHANGED <<sessions, sockets, reaping>>

\* watch(): a last read, which may leave some of the output, and the exit for all.
Watched(t) ==
    /\ ~shells[t].alive /\ ~shells[t].ended
    /\ LET last == IF MayRead(t) THEN 1 ELSE 0
           chunk == IF MayRead(t) THEN <<Output(<<shells[t].emitted + 1>>)>> ELSE <<>>
       IN  /\ shells' = [shells EXCEPT ![t].ended = TRUE, ![t].unread = 0, ![t].emitted = @ + last,
                                       ![t].idle = IF last = 1 THEN FALSE ELSE @]
           /\ sockets' = OfferedToAll(t, chunk \o <<Exit>>)
    /\ UNCHANGED <<sessions, reaping>>

-----------------------------------------------------------------------------
(* Idle terminals *)

GoIdle(t) ==
    /\ ~shells[t].idle
    /\ shells' = [shells EXCEPT ![t].idle = TRUE]
    /\ UNCHANGED <<sessions, sockets, reaping>>

\* reap() takes its snapshot.
BeginReap ==
    /\ reaping = <<>>
    /\ \E keys \in SetToSeqs({k \in Keys : sessions[k] # NoShell}) :
          keys # <<>> /\ reaping' = [i \in DOMAIN keys |-> [key |-> keys[i], shell |-> sessions[keys[i]]]]
    /\ UNCHANGED <<shells, sessions, sockets>>

\* The next one: an idle terminal is taken out under its key, and closed.
ReapNext ==
    /\ reaping # <<>> /\ ~shells[Head(reaping).shell].closing
    /\ IF shells[Head(reaping).shell].idle
       THEN /\ sessions' = [sessions EXCEPT ![Head(reaping).key] = NoShell]
            /\ shells' = [shells EXCEPT ![Head(reaping).shell].closing = TRUE]
            /\ UNCHANGED reaping
       ELSE reaping' = Tail(reaping) /\ UNCHANGED <<sessions, shells>>
    /\ UNCHANGED sockets

\* close(): its process has ended, on SIGHUP or SIGKILL; its clients are stopped.
ReapCloses ==
    /\ reaping # <<>> /\ shells[Head(reaping).shell].closing /\ shells[Head(reaping).shell].ended
    /\ sockets' = [v \in Viewers |-> IF v \in Clients(Head(reaping).shell)
                                     THEN ClosedSocket ELSE sockets[v]]
    /\ reaping' = Tail(reaping)
    /\ UNCHANGED <<shells, sessions>>

TerminalNext ==
    \/ \E v \in Viewers : Attach(v) \/ SendEvent(v) \/ LeaveTerminal(v) \/ Type(v) \/ \E k \in Keys : Connect(v, k)
    \/ \E t \in DOMAIN shells : ShellWrites(t) \/ Read(t) \/ ShellEnds(t) \/ Watched(t) \/ GoIdle(t)
    \/ BeginReap \/ ReapNext \/ ReapCloses

-----------------------------------------------------------------------------
Rising(s) == \A m, n \in DOMAIN s : m < n => s[m] < s[n]

Before(s, t) == \A m \in DOMAIN s, n \in DOMAIN t : s[m] < t[n]

\* No chunk twice, and none before an earlier one: in what was got and then in the queue.
InTurn(got, queue) ==
    /\ Rising(got)
    /\ \A i \in DOMAIN queue : Rising(queue[i].chunks) /\ Before(got, queue[i].chunks)
    /\ \A i, j \in DOMAIN queue : i < j => Before(queue[i].chunks, queue[j].chunks)

\* None is left out, from some chunk on up to the last one.
UpTo(got, queue, last) ==
    \E first \in 0..last :
        /\ ToSet(got) \cup UNION {ToSet(queue[i].chunks) : i \in DOMAIN queue} = (first + 1)..last
        /\ last > 0 => first < last

\* The exit is the last event, and there is one only when the shell has ended.
ExitsLast(queue, ended) == {i \in DOMAIN queue : queue[i] = Exit} = IF ended THEN {Len(queue)} ELSE {}

\* What a viewer has got, and what waits for it, is the output of its shell from some
\* chunk on up to the last one emitted, none twice and none left out, and then its exit
\* once: also for a socket that was opened while the shell wrote, ended or was reaped.
ViewersSeeAll ==
    \A v \in Viewers : sockets[v].at = "open" =>
        /\ InTurn(sockets[v].got, sockets[v].queue)
        /\ UpTo(sockets[v].got, sockets[v].queue, shells[sockets[v].shell].emitted)
        /\ ExitsLast(sockets[v].queue, shells[sockets[v].shell].ended)
=============================================================================
