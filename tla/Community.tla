----------------------------- MODULE Community -----------------------------
(***************************************************************************)
(* apps/community: the rooms, the mail agent, close() and restarts of the  *)
(* server process.  SQLite keeps the tables; everything else is lost.      *)
(***************************************************************************)
EXTENDS MailAgent

CONSTANTS
    MaxCloses,   \* bound: how often the server is closed
    MaxCrashes   \* bound: how often its process ends otherwise

ASSUME EndsAssumption == MaxCloses \in Nat /\ MaxCrashes \in Nat

VARIABLES
    awaited,   \* the jobs that close() waits for
    closes,    \* how often close() was called
    crashes    \* how often the process ended otherwise

vars == <<roomVars, mailVars, awaited, closes, crashes>>

Init == RInit /\ MInit /\ awaited = {} /\ closes = 0 /\ crashes = 0

-----------------------------------------------------------------------------
(* close() *)

\* New requests are refused; the media cleanup is awaited.
BeginClose ==
    /\ closing = "open"
    /\ closes < MaxCloses
    /\ closes' = closes + 1
    /\ closing' = "closing"
    /\ UNCHANGED <<mailVars, awaited, crashes, rooms, messages, turns, nonce, post, roomOf,
                   named, untitled, roomJobs, jobs, titles, compacting, run, aborted>>

\* The controllers are aborted and the mail agent is closed, which awaits its poll.
StopWork ==
    /\ closing = "closing"
    /\ closing' = "stopping"
    /\ aborted' = aborted \cup {j \in Runs : run[j] = "running"}
    /\ stopped' = \E m \in Mails : Active(m)
    /\ UNCHANGED <<rowVars, configVars, poll, todo, step, cur, wire, delivered, executed,
                   revoked, awaited, closes, crashes, rooms, messages, turns, nonce, post, roomOf,
                   named, untitled, roomJobs, jobs, titles, compacting, run>>

\* The poll has ended; the server stops listening and the jobs of that moment are awaited.
CloseServer ==
    /\ closing = "stopping" /\ poll = "idle"
    /\ closing' = "draining"
    /\ awaited' = jobs \cup titles
    /\ UNCHANGED <<mailVars, closes, crashes, rooms, messages, turns, nonce, post, roomOf, named,
                   untitled, roomJobs, jobs, titles, compacting, run, aborted>>

\* What the end of the process leaves of its memory, and of the requests it handled.
ForgetMemory ==
    /\ post' = [p \in Posts |-> IF post[p] = "awaiting" THEN "lost" ELSE post[p]]
    /\ run' = [j \in Runs |-> IF run[j] = "running" THEN "lost" ELSE run[j]]
    /\ roomJobs' = {} /\ jobs' = {} /\ titles' = {} /\ compacting' = {} /\ untitled' = {}
    /\ aborted' = {}
    /\ poll' = "idle" /\ todo' = {} /\ step' = "next" /\ cur' = NoMail /\ stopped' = FALSE
    /\ awaited' = {}
    /\ UNCHANGED <<rowVars, configVars, wire, delivered, executed, revoked, closes, rooms,
                   messages, turns, nonce, roomOf, named>>

\* The jobs have ended and no request is open.  A job that such a request started after
\* the snapshot is cut off.
CloseDatabase ==
    /\ closing = "draining"
    /\ awaited \cap (jobs \cup titles) = {}
    /\ \A p \in Posts : post[p] # "awaiting"
    /\ compacting = {}
    /\ closing' = "closed"
    /\ ForgetMemory
    /\ UNCHANGED crashes

Crash ==
    /\ closing \notin {"closed", "crashed"}
    /\ crashes < MaxCrashes
    /\ crashes' = crashes + 1
    /\ closing' = "crashed"
    /\ ForgetMemory

\* Fault: a task that was running is queued again.
RequeueRunning == [m \in Mails |-> IF status[m] = "running" THEN "queued" ELSE status[m]]

\* "A crash can occur after a tool has changed external state.  Never replay that task."
InterruptRunning ==
    [m \in Mails |-> IF status[m] = "running" THEN "interrupted" ELSE status[m]]

Restart ==
    /\ closing \in {"closed", "crashed"}
    /\ closing' = "open"
    /\ status' = InterruptRunning
    /\ UNCHANGED <<messageId, verified, roomId, attempts, age, configVars, pollVars, wire,
                   delivered, executed, revoked, awaited, closes, crashes, rooms, messages,
                   turns, nonce, post, roomOf, named, untitled, roomJobs, jobs, titles,
                   compacting, run, aborted>>

-----------------------------------------------------------------------------

ProcessStep == BeginClose \/ StopWork \/ CloseServer \/ CloseDatabase \/ Crash \/ Restart

Next ==
    \/ ((\E p \in Posts : PostStep(p)) \/ RoomStep) /\ UNCHANGED <<mailVars, awaited, closes, crashes>>
    \/ ((\E m \in Mails : MailStep(m)) \/ PollStep) /\ UNCHANGED <<awaited, closes, crashes>>
    \/ ProcessStep

Spec == Init /\ [][Next]_vars

\* The model list and an aborted run end, timers fire, and systemd restarts a process
\* that failed.  A run that is not aborted may never end.
Fairness ==
    /\ \A m \in Mails :
         /\ WF_vars(StartTask(m) /\ UNCHANGED <<awaited, closes, crashes>>)
         /\ WF_vars(Deadline(m) /\ UNCHANGED <<awaited, closes, crashes>>)
         /\ WF_vars(m \in aborted /\ EndRun(m) /\ UNCHANGED <<mailVars, awaited, closes, crashes>>)
         /\ WF_vars(ReturnTask(m) /\ UNCHANGED <<awaited, closes, crashes>>)
    /\ WF_vars(closing = "crashed" /\ Restart)

-----------------------------------------------------------------------------
(* Properties *)

\* Every variable has its type.
TypeOK ==
    /\ rooms \subseteq Rooms
    /\ messages \subseteq Rooms \X (Nonces \cup Mails)
    /\ turns \in 0..MaxTurns
    /\ nonce \in [Posts -> Nonces]
    /\ post \in [Posts -> {"new", "awaiting", "accepted", "duplicate", "busy", "failed", "lost"}]
    /\ roomOf \in [Runs -> Rooms \cup {NoRoom}]
    /\ named \subseteq Rooms /\ untitled \subseteq Posts
    /\ roomJobs \subseteq Rooms /\ jobs \subseteq Runs /\ titles \subseteq Posts
    /\ compacting \subseteq Rooms
    /\ run \in [Runs -> {"none", "running", "ended", "lost"}]
    /\ aborted \subseteq Runs
    /\ closing \in {"open", "closing", "stopping", "draining", "closed", "crashed"}
    /\ messageId \in [Mails -> MessageIds]
    /\ status \in [Mails -> {"absent", "queued", "ignored", "running", "reply_pending", "sent",
                             "interrupted", "failed", "uncertain"}]
    /\ verified \subseteq Mails
    /\ roomId \in [Mails -> Rooms \cup {NoRoom}]
    /\ attempts \in [Mails -> 0..MaxAttempts]
    /\ age \in [Mails -> {"young", "late", "expired"}]
    /\ mapped \in BOOLEAN /\ enabled \in BOOLEAN /\ changes \in 0..MaxChanges
    /\ poll \in {"idle", "listing", "replies", "tasks"}
    /\ todo \subseteq Mails
    /\ step \in {"next", "sending", "verifying", "starting", "executing"}
    /\ cur \in Mails \cup {NoMail}
    /\ stopped \in BOOLEAN
    /\ wire \subseteq Mails
    /\ delivered \in [Mails -> Nat] /\ executed \in [Mails -> Nat] /\ revoked \subseteq Mails
    /\ awaited \subseteq Runs
    /\ closes \in 0..MaxCloses /\ crashes \in 0..MaxCrashes

\* One room, one work: and a mail task's row is `running' just while its task is active;
\* only a process that ends in the middle leaves one behind, for the restart.
WorkIsExclusive ==
    /\ RunsAreExclusive
    /\ \A m \in Mails : status[m] = "running" => Active(m) \/ closing = "crashed"

\* A task always comes to an end, by its deadline if by nothing else, and its row with it.
TasksEnd == \A m \in Mails : status[m] = "running" ~> status[m] # "running"
=============================================================================
