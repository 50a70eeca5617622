------------------------------ MODULE RoomJobs ------------------------------
(***************************************************************************)
(* The rooms of apps/community/server.mjs: messages posted with a client   *)
(* nonce, the bot runs and compactions that hold a room, the title jobs,   *)
(* the quota and the first part of close().  Handlers run on one           *)
(* JavaScript thread and SQLite calls are synchronous: a handler is        *)
(* interrupted only at its awaits.                                         *)
(*                                                                         *)
(* A bot run is named after the post or the mail it answers, and the room  *)
(* that a mail task creates after its mail.  One user and one day are      *)
(* modelled; MaxTurns stands for both limits of reserve().                 *)
(* A message and its answer cost one turn: bots beyond the first, and what *)
(* further model calls of a run reserve, are left out.                     *)
(***************************************************************************)
EXTENDS Naturals, FiniteSets

CONSTANTS
    Posts,      \* requests to post a message, retries of one message included
    Mails,      \* mails in the mailbox
    Nonces,     \* client nonces
    Lobby,      \* a room that exists from the start
    NoRoom,     \* null
    MaxTurns,   \* COMMUNITY_DAILY_TURNS
    Compacted   \* bound: the rooms whose owners compact them

ASSUME RoomsAssumption == Lobby \notin Mails /\ NoRoom \notin Mails \cup {Lobby}
ASSUME JobsAssumption == Posts \cap Mails = {}
ASSUME TurnsAssumption == MaxTurns \in Nat

Rooms == {Lobby} \cup Mails

Runs == Posts \cup Mails

VARIABLES
    rooms,       \* table rooms
    messages,    \* table messages: the nonces stored in each room
    turns,       \* table usage
    nonce,       \* clientNonce of each post
    post,        \* where the handler of each post is
    roomOf,      \* the room of each post, and of the run of each mail
    named,       \* rooms that no longer have the name of a new conversation
    untitled,    \* posts whose handler read the room before it was named
    roomJobs,    \* roomJobs
    jobs,        \* the bot runs in jobs
    titles,      \* the title jobs in jobs
    compacting,  \* rooms with a compaction in progress
    run,         \* where each bot run is
    aborted,     \* runs whose controller is aborted
    closing      \* how far close() is

roomVars == <<rooms, messages, turns, nonce, post, roomOf, named, untitled, roomJobs,
              jobs, titles, compacting, run, aborted, closing>>

RInit ==
    /\ rooms = {Lobby}
    /\ messages = {}
    /\ turns = 0
    /\ nonce \in [Posts -> Nonces]
    /\ post = [p \in Posts |-> "new"]
    /\ roomOf = [j \in Runs |-> NoRoom]
    /\ named = {}
    /\ untitled = {}
    /\ roomJobs = {}
    /\ jobs = {}
    /\ titles = {}
    /\ compacting = {}
    /\ run = [j \in Runs |-> "none"]
    /\ aborted = {}
    /\ closing = "open"

-----------------------------------------------------------------------------
(* Shared by posts and mail tasks *)

\* jobs.size >= 2
JobsFull == Cardinality(jobs) + Cardinality(titles) >= 2

\* Fault: only the number of jobs is looked at.
CapacityOfJobs(r) == ~JobsFull

Capacity(r) == ~JobsFull /\ r \notin roomJobs

QuotaLeft == turns < MaxTurns

\* Fault: the table has no UNIQUE(room_id,client_nonce).
InsertableAlways(r, key) == TRUE

\* UNIQUE(room_id,client_nonce) of the table messages.
Insertable(r, key) == <<r, key>> \notin messages

\* botRun() up to its first await.
BotRun(j, r) ==
    /\ run' = [run EXCEPT ![j] = "running"]
    /\ roomJobs' = roomJobs \cup {r}
    /\ jobs' = jobs \cup {j}

-----------------------------------------------------------------------------
(* POST /api/rooms/:id/messages *)

Refuse(p, how) ==
    /\ post' = [post EXCEPT ![p] = how]
    /\ UNCHANGED <<messages, turns, named, titles, run, roomJobs, jobs>>

\* Reserve a turn, store the message, name a new room, start the bots.  fresh is what
\* the handler read of the room's name when it began.
Accept(p, r, bots, fresh) ==
    /\ post' = [post EXCEPT ![p] = "accepted"]
    /\ messages' = messages \cup {<<r, nonce[p]>>}
    /\ IF fresh
       THEN /\ named' = named \cup {r}
            /\ titles' = IF turns + 1 < MaxTurns THEN titles \cup {p} ELSE titles
            /\ turns' = IF turns + 1 < MaxTurns THEN turns + 2 ELSE turns + 1
       ELSE turns' = turns + 1 /\ UNCHANGED <<named, titles>>
    /\ IF bots THEN BotRun(p, r) ELSE UNCHANGED <<run, roomJobs, jobs>>

\* The handler from the await of the model list, or without bots from the nonce check,
\* to its reply.
Decide(p, r, bots, fresh) ==
    \/ bots /\ ~Capacity(r) /\ Refuse(p, "busy")
    \/ (bots => Capacity(r)) /\ ~(QuotaLeft /\ Insertable(r, nonce[p])) /\ Refuse(p, "failed")
    \/ (bots => Capacity(r)) /\ QuotaLeft /\ Insertable(r, nonce[p]) /\ Accept(p, r, bots, fresh)

\* The request arrives.  A message that is stored already is acknowledged again.
PostMessage(p, r, bots) ==
    /\ closing = "open"
    /\ post[p] = "new"
    /\ r \in rooms
    /\ roomOf' = [roomOf EXCEPT ![p] = r]
    /\ \/ <<r, nonce[p]>> \in messages /\ Refuse(p, "duplicate") /\ UNCHANGED untitled
       \/ /\ <<r, nonce[p]>> \notin messages
          /\ bots
          /\ Refuse(p, "awaiting")
          /\ untitled' = IF r \in named THEN untitled ELSE untitled \cup {p}
       \/ /\ <<r, nonce[p]>> \notin messages
          /\ ~bots
          /\ Decide(p, r, FALSE, r \notin named)
          /\ UNCHANGED untitled
    /\ UNCHANGED <<rooms, nonce, compacting, aborted, closing>>

\* ensureModels() returns.
ResumePost(p) ==
    /\ post[p] = "awaiting"
    /\ Decide(p, roomOf[p], TRUE, p \in untitled)
    /\ untitled' = untitled \ {p}
    /\ UNCHANGED <<rooms, nonce, roomOf, compacting, aborted, closing>>

\* The title job ends, by an answer or its timeout.
EndTitle(p) ==
    /\ p \in titles
    /\ titles' = titles \ {p}
    /\ UNCHANGED <<rooms, messages, turns, nonce, post, roomOf, named, untitled, roomJobs,
                   jobs, compacting, run, aborted, closing>>

-----------------------------------------------------------------------------
(* Bot runs and compactions *)

\* botRun() ends, with answers or with a notice; the removal of its directory, which it
\* awaits first, only delays the rest.
EndRun(j) ==
    /\ run[j] = "running"
    /\ run' = [run EXCEPT ![j] = "ended"]
    /\ roomJobs' = roomJobs \ {roomOf[j]}
    /\ aborted' = aborted \ {j}
    /\ UNCHANGED <<rooms, messages, turns, nonce, post, roomOf, named, untitled, jobs,
                   titles, compacting, closing>>

\* The finally handler of a post's job.
ForgetRun(p) ==
    /\ run[p] = "ended"
    /\ p \in jobs
    /\ jobs' = jobs \ {p}
    /\ UNCHANGED <<rooms, messages, turns, nonce, post, roomOf, named, untitled, roomJobs,
                   titles, compacting, run, aborted, closing>>

\* POST /api/rooms/:id/compact, up to the model call.  It holds the room, and is
\* neither counted in jobs nor aborted by close().
Compact(r) ==
    /\ closing = "open"
    /\ r \in rooms \cap Compacted
    /\ r \notin roomJobs
    /\ QuotaLeft
    /\ compacting' = compacting \cup {r}
    /\ roomJobs' = roomJobs \cup {r}
    /\ turns' = turns + 1
    /\ UNCHANGED <<rooms, messages, nonce, post, roomOf, named, untitled, jobs, titles,
                   run, aborted, closing>>

EndCompact(r) ==
    /\ r \in compacting
    /\ compacting' = compacting \ {r}
    /\ roomJobs' = roomJobs \ {r}
    /\ UNCHANGED <<rooms, messages, turns, nonce, post, roomOf, named, untitled, jobs,
                   titles, run, aborted, closing>>

PostStep(p) ==
    \/ \E r \in Rooms, bots \in BOOLEAN : PostMessage(p, r, bots)
    \/ ResumePost(p)
    \/ EndTitle(p)
    \/ EndRun(p)
    \/ ForgetRun(p)

RoomStep == \E r \in Rooms : Compact(r) \/ EndCompact(r)

-----------------------------------------------------------------------------
(* Properties *)

\* Posts, mail tasks and compactions never work on one room together, a room is busy
\* exactly while one of them does, and at most two bot runs are in progress: title jobs
\* and mail tasks take part in the count, and the checks are made before and after awaits.
RunsAreExclusive ==
    LET running == {j \in Runs : run[j] = "running"} IN
    /\ \A i, j \in running : roomOf[i] = roomOf[j] => i = j
    /\ \A j \in running : roomOf[j] \notin compacting
    /\ roomJobs = {roomOf[j] : j \in running} \cup compacting
    /\ Cardinality(running) <= 2

\* A message that a client posts again, while the first request waits for the model
\* list, after it was answered, or after a restart, is accepted once: stored, charged
\* and answered by the bots once.
AcceptedOnce ==
    \A p, q \in Posts :
        /\ post[p] = "accepted" /\ post[q] = "accepted"
        /\ roomOf[p] = roomOf[q] /\ nonce[p] = nonce[q]
        => p = q
=============================================================================
