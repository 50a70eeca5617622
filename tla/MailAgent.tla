----------------------------- MODULE MailAgent -----------------------------
(***************************************************************************)
(* The mail agent of apps/community/mail-agent.mjs: one poll at a time     *)
(* lists the mailbox, sends the replies that are pending and runs queued   *)
(* mails as tasks of the bot (runMailTask of server.mjs), one after the    *)
(* other.  Its rows are in SQLite; the poll is not.                        *)
(*                                                                         *)
(* All mails are from one sender, whom the configuration maps to a user or *)
(* not.  The poll is interrupted only at its awaits: `step' names the one  *)
(* it is at, `cur' the mail.  The mail service is external: it sends a     *)
(* reply with a request id once, and forgets the id after 24 hours; the    *)
(* agent gives up after 23.                                                *)
(***************************************************************************)
EXTENDS RoomJobs

CONSTANTS
    NoMail,
    MessageIds,   \* Message-ID headers
    References,   \* pairs of a mail and an earlier one that its headers name
    MaxAttempts,  \* 5 in the code
    MaxChanges    \* bound: changes of the configuration

ASSUME MailAssumption ==
    /\ NoMail \notin Mails /\ References \subseteq Mails \X Mails
    /\ MaxAttempts \in Nat \ {0} /\ MaxChanges \in Nat

VARIABLES
    messageId,  \* the Message-ID of each mail
    status,     \* table mail_agent_jobs: status ("absent": no row)
    verified,   \* ... the rows whose message_id is set
    roomId,     \* ... room_id
    attempts,   \* ... reply_attempts
    age,        \* ... how long ago reply_created_at is
    mapped, enabled, changes,  \* table mail_agent_config
    poll,       \* where check() is
    todo,       \* the rows of its query that are left
    step, cur,  \* what it awaits, and for which mail
    stopped,    \* the controller of the active task is aborted
    wire,       \* replies on their way to the mail service
    delivered,  \* ghost: replies that the service has sent
    executed,   \* ghost: how often each task was started
    revoked     \* ghost: tasks whose permission was withdrawn while they ran

rowVars == <<messageId, status, verified, roomId, attempts, age>>
configVars == <<mapped, enabled, changes>>
pollVars == <<poll, todo, step, cur, stopped>>
mailVars == <<rowVars, configVars, pollVars, wire, delivered, executed, revoked>>

MInit ==
    /\ messageId \in [Mails -> MessageIds]
    /\ status = [m \in Mails |-> "absent"]
    /\ verified = {}
    /\ roomId = [m \in Mails |-> NoRoom]
    /\ attempts = [m \in Mails |-> 0]
    /\ age = [m \in Mails |-> "young"]
    /\ mapped = TRUE /\ enabled = TRUE /\ changes = 0
    /\ poll = "idle" /\ todo = {} /\ step = "next" /\ cur = NoMail /\ stopped = FALSE
    /\ wire = {} /\ revoked = {}
    /\ delivered = [m \in Mails |-> 0]
    /\ executed = [m \in Mails |-> 0]

-----------------------------------------------------------------------------

\* close() of the agent has been called.
Closed == closing \notin {"open", "closing"}

Permitted == ~Closed /\ enabled /\ mapped

\* `active' is set.
Active(m) == cur = m /\ step \in {"starting", "executing"}

SetStatus(m, s) == status' = [status EXCEPT ![m] = s]

\* The poll is done with its mail, or goes on to an await for one.
Done == step' = "next" /\ cur' = NoMail /\ stopped' = FALSE /\ todo' = todo \ {cur} /\ UNCHANGED poll
Await(m, what) == step' = what /\ cur' = m /\ stopped' = FALSE /\ todo' = todo \ {m} /\ UNCHANGED poll

-----------------------------------------------------------------------------
(* check() *)

StartPoll ==
    /\ poll = "idle" /\ ~Closed /\ enabled
    /\ poll' = "listing"
    /\ UNCHANGED <<roomVars, rowVars, configVars, todo, step, cur, stopped, wire, delivered, executed, revoked>>

\* discover() has another page: rows that are there already are left alone.
ListPage ==
    /\ poll = "listing"
    /\ \E found \in SUBSET {m \in Mails : status[m] = "absent"} \ {{}} :
          status' = [m \in Mails |-> IF m \notin found THEN status[m] ELSE IF mapped THEN "queued" ELSE "ignored"]
    /\ UNCHANGED <<roomVars, messageId, verified, roomId, attempts, age, configVars, pollVars,
                   wire, delivered, executed, revoked>>

RowsWith(s) == {m \in Mails : status[m] = s}

\* The last page, or the mailbox does not answer.
EndListing ==
    /\ poll = "listing"
    /\ poll' = "replies" /\ todo' = RowsWith("reply_pending")
    /\ UNCHANGED <<roomVars, rowVars, configVars, step, cur, stopped, wire, delivered, executed, revoked>>

\* The rows of a query are handled, or a limit is reached.
EndStage ==
    /\ poll \in {"replies", "tasks"} /\ step = "next"
    /\ IF poll = "replies"
       THEN poll' = "tasks" /\ todo' = RowsWith("queued")
       ELSE poll' = "idle" /\ todo' = {}
    /\ UNCHANGED <<roomVars, rowVars, configVars, step, cur, stopped, wire, delivered, executed, revoked>>

\* The loop over the rows comes to m.
Takes(m, stage) == poll = stage /\ step = "next" /\ m \in todo /\ ~Closed /\ enabled

-----------------------------------------------------------------------------
(* Replies *)

\* Fault: only the number of a reply's attempts ends them.
ExhaustedAttempts(m) == attempts[m] >= MaxAttempts

Exhausted(m) == attempts[m] >= MaxAttempts \/ age[m] # "young"

\* The attempt is counted before the request is sent.
Attempt(m) ==
    /\ attempts' = [attempts EXCEPT ![m] = @ + 1]
    /\ wire' = wire \cup {m}
    /\ Await(m, "sending")

\* sendReply() of a pending row, up to the request; a row whose delay has not passed is skipped.
SendReply(m) ==
    /\ Takes(m, "replies")
    /\ \/ ~Permitted /\ SetStatus(m, "ignored") /\ todo' = todo \ {m} /\ UNCHANGED <<attempts, poll, step, cur, stopped, wire>>
       \/ Permitted /\ Exhausted(m) /\ SetStatus(m, "uncertain") /\ todo' = todo \ {m} /\ UNCHANGED <<attempts, poll, step, cur, stopped, wire>>
       \/ Permitted /\ ~Exhausted(m) /\ Attempt(m) /\ UNCHANGED status
    /\ UNCHANGED <<roomVars, messageId, verified, roomId, age, configVars, delivered, executed, revoked>>

\* The service sends a request id that it does not remember.
Sends(m) == delivered[m] = 0 \/ age[m] = "expired"

Deliver(m) ==
    /\ m \in wire
    /\ wire' = wire \ {m}
    /\ delivered' = IF Sends(m) THEN [delivered EXCEPT ![m] = @ + 1] ELSE delivered
    /\ UNCHANGED <<roomVars, rowVars, configVars, pollVars, executed, revoked>>

\* The answer; or a timeout, an error, an answer that was lost.
EndReply(m) ==
    /\ step = "sending" /\ cur = m
    /\ \/ m \notin wire /\ SetStatus(m, "sent")
       \/ SetStatus(m, IF attempts[m] >= MaxAttempts THEN "uncertain" ELSE "reply_pending")
    /\ Done
    /\ UNCHANGED <<roomVars, messageId, verified, roomId, attempts, age, configVars, wire, delivered, executed, revoked>>

\* 23 and 24 hours after a reply was saved; a request takes seconds.
PassTime(m) ==
    /\ status[m] = "reply_pending"
    /\ \/ age[m] = "young" /\ age' = [age EXCEPT ![m] = "late"]
       \/ age[m] = "late" /\ m \notin wire /\ age' = [age EXCEPT ![m] = "expired"]
    /\ UNCHANGED <<roomVars, messageId, status, verified, roomId, attempts, configVars, pollVars,
                   wire, delivered, executed, revoked>>

-----------------------------------------------------------------------------
(* execute() *)

CanRunTask == closing = "open" /\ ~JobsFull

\* execute() up to the mail and its verification.
TakeMail(m) ==
    /\ Takes(m, "tasks")
    /\ \/ ~Permitted /\ SetStatus(m, "ignored") /\ todo' = todo \ {m} /\ UNCHANGED <<poll, step, cur, stopped>>
       \/ Permitted /\ CanRunTask /\ Await(m, "verifying") /\ UNCHANGED status
    /\ UNCHANGED <<roomVars, messageId, verified, roomId, attempts, age, configVars, wire, delivered, executed, revoked>>

\* The mail cannot be read, is not what it claims to be, or is not for the agent.
RejectMail(m) ==
    /\ step = "verifying" /\ cur = m
    /\ \E s \in {"queued", "ignored"} : SetStatus(m, s)
    /\ Done
    /\ UNCHANGED <<roomVars, messageId, verified, roomId, attempts, age, configVars, wire, delivered, executed, revoked>>

Duplicate(m) == \E other \in verified \ {m} : messageId[other] = messageId[m]

\* The room of a mail that this one answers.
ThreadRoom(m) ==
    LET before == {o \in verified : <<m, o>> \in References /\ roomId[o] # NoRoom}
    IN  IF before = {} THEN {NoRoom} ELSE {roomId[o] : o \in before}

\* It is verified: it is left, answered (no usable text), or becomes the active task.
VerifyMail(m) ==
    /\ step = "verifying" /\ cur = m
    /\ \/ /\ ~Permitted
          /\ Done
          /\ UNCHANGED <<status, verified, roomId, attempts, age, wire>>
       \/ /\ Permitted /\ Duplicate(m)
          /\ SetStatus(m, "ignored")
          /\ Done
          /\ UNCHANGED <<verified, roomId, attempts, age, wire>>
       \/ /\ Permitted /\ ~Duplicate(m)
          /\ verified' = verified \cup {m}
          /\ \/ /\ SetStatus(m, "reply_pending")
                /\ \E r \in ThreadRoom(m) : roomId' = [roomId EXCEPT ![m] = r]
                /\ Attempt(m)
             \/ /\ ~CanRunTask
                /\ Done
                /\ UNCHANGED <<status, roomId, attempts, wire>>
             \/ /\ CanRunTask
                /\ SetStatus(m, "running")
                /\ \E r \in ThreadRoom(m) : roomId' = [roomId EXCEPT ![m] = r]
                /\ Await(m, "starting")
                /\ UNCHANGED <<attempts, wire>>
          /\ UNCHANGED age
    /\ UNCHANGED <<roomVars, messageId, configVars, delivered, executed, revoked>>

\* Fault: the result counts when the permission is there again.
KeepsResultIfPermitted == Permitted

KeepsResult == ~stopped /\ Permitted

\* runMailTask() fails before the bot runs: busy, which may be retried, or for good.
FailTask(m) ==
    /\ \/ /\ JobsFull \/ roomId[m] \in roomJobs
          /\ SetStatus(m, IF KeepsResult THEN "queued" ELSE IF stopped THEN "interrupted" ELSE "failed")
       \/ SetStatus(m, IF stopped THEN "interrupted" ELSE "failed")
    /\ Done
    /\ UNCHANGED <<roomVars, executed>>

TaskRoom(m) == IF roomId[m] = NoRoom THEN m ELSE roomId[m]

\* The bot runs, in a new room or in that of the thread, which must not have the mail yet.
RunTask(m) ==
    /\ ~JobsFull /\ TaskRoom(m) \notin roomJobs /\ QuotaLeft
    /\ roomId[m] # NoRoom => Insertable(roomId[m], m)
    /\ turns' = turns + 1
    /\ rooms' = rooms \cup {TaskRoom(m)}
    /\ messages' = messages \cup {<<TaskRoom(m), m>>}
    /\ roomOf' = [roomOf EXCEPT ![m] = TaskRoom(m)]
    /\ BotRun(m, TaskRoom(m))
    /\ aborted' = IF stopped THEN aborted \cup {m} ELSE aborted
    /\ executed' = [executed EXCEPT ![m] = @ + 1]
    /\ step' = "executing"
    /\ UNCHANGED <<nonce, post, named, untitled, titles, compacting, closing, status, poll, todo, cur, stopped>>

\* ensureModels() returns to runMailTask().
StartTask(m) ==
    /\ step = "starting" /\ cur = m
    /\ FailTask(m) \/ RunTask(m)
    /\ UNCHANGED <<messageId, verified, roomId, attempts, age, configVars, wire, delivered, revoked>>

\* The bot run of the task has ended: its answer is saved and sent, or it failed.
ReturnTask(m) ==
    /\ step = "executing" /\ cur = m /\ run[m] = "ended"
    /\ jobs' = jobs \ {m}
    /\ \/ /\ KeepsResult
          /\ SetStatus(m, "reply_pending")
          /\ roomId' = [roomId EXCEPT ![m] = roomOf[m]]
          /\ Attempt(m)
       \/ /\ SetStatus(m, IF stopped \/ ~Permitted THEN "interrupted" ELSE "failed")
          /\ Done
          /\ UNCHANGED <<roomId, attempts, wire>>
    /\ UNCHANGED <<rooms, messages, turns, nonce, post, roomOf, named, untitled, roomJobs, titles, compacting, run,
                   aborted, closing, messageId, verified, age, configVars, delivered, executed, revoked>>

\* Fault: the signal does not reach the bot run.
StopSignal(m) == stopped' = TRUE /\ UNCHANGED aborted

\* controller.abort(), which the bot run listens to.
StopTask(m) ==
    /\ stopped' = TRUE
    /\ aborted' = IF run[m] = "running" THEN aborted \cup {m} ELSE aborted

Deadline(m) ==
    /\ Active(m) /\ ~stopped
    /\ StopTask(m)
    /\ UNCHANGED <<rooms, messages, turns, nonce, post, roomOf, named, untitled, roomJobs, jobs, titles, compacting, run,
                   closing, rowVars, configVars, poll, todo, step, cur, wire, delivered, executed, revoked>>

\* configure(): the sender is mapped or not, the agent enabled or not.
Configure ==
    /\ closing = "open" /\ changes < MaxChanges
    /\ changes' = changes + 1
    /\ mapped' \in BOOLEAN /\ enabled' \in BOOLEAN
    /\ <<mapped', enabled'>> # <<mapped, enabled>>
    /\ IF cur # NoMail /\ Active(cur) /\ ~(mapped' /\ enabled')
       THEN StopTask(cur) /\ revoked' = revoked \cup {cur}
       ELSE UNCHANGED <<stopped, aborted, revoked>>
    /\ UNCHANGED <<rooms, messages, turns, nonce, post, roomOf, named, untitled, roomJobs, jobs, titles, compacting, run,
                   closing, rowVars, poll, todo, step, cur, wire, delivered, executed>>

PollStep == StartPoll \/ ListPage \/ EndListing \/ EndStage \/ Configure

MailStep(m) ==
    \/ SendReply(m) \/ Deliver(m) \/ EndReply(m) \/ PassTime(m)
    \/ TakeMail(m) \/ RejectMail(m) \/ VerifyMail(m) \/ StartTask(m) \/ ReturnTask(m) \/ Deadline(m)
    \/ EndRun(m) /\ UNCHANGED mailVars

-----------------------------------------------------------------------------
(* Properties *)

\* A mail runs as a task at most once, and so does a message that came in two copies,
\* whatever was interrupted, retried or restarted.
TaskRunsOnce ==
    \A m, n \in Mails :
        /\ executed[m] <= 1
        /\ (m # n /\ messageId[m] = messageId[n]) => executed[m] + executed[n] <= 1

\* The sender gets one reply, although answers of the mail service are lost, attempts
\* are repeated and the service forgets request ids.
RepliesOnce == \A m \in Mails : delivered[m] <= 1

\* A task whose permission was withdrawn while it ran stays silent, also when the
\* permission is given back before it ends.
RevokedTaskIsSilent == \A m \in revoked : delivered[m] = 0 /\ m \notin wire /\ status[m] # "reply_pending"
=============================================================================
