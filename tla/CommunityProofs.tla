-------------------------- MODULE CommunityProofs --------------------------
(***************************************************************************)
(* Proofs about the community server and its mail agent, for any posts,    *)
(* mails, rooms, crashes and restarts.                                     *)
(*                                                                         *)
(* The mail agent: a mail's task runs once, its sender gets one reply, and *)
(* a task whose permission was withdrawn stays silent.                     *)
(* A row moves from absent over queued and running to reply_pending and on *)
(* to a state it never leaves.  What the properties rest on is that the    *)
(* poll agrees with the row it is at (PollAgrees), that a task has been    *)
(* verified and is out of the queue before it runs (TasksAreVerified), and *)
(* that nothing was sent, and no time has passed, before a row waits for   *)
(* its reply (RepliesComeLast).                                            *)
(*                                                                         *)
(* The rooms: see the second half.  Both parts make up WorkInv.            *)
(***************************************************************************)
EXTENDS Community, FiniteSetTheorems, TLAPS

Statuses == {"absent", "queued", "ignored", "running", "reply_pending", "sent", "interrupted",
             "failed", "uncertain"}

MailTyped ==
    /\ status \in [Mails -> Statuses] /\ age \in [Mails -> {"young", "late", "expired"}]
    /\ delivered \in [Mails -> Nat] /\ executed \in [Mails -> Nat]
    /\ verified \subseteq Mails /\ todo \subseteq Mails /\ wire \subseteq Mails /\ revoked \subseteq Mails
    /\ cur \in Mails \cup {NoMail} /\ stopped \in BOOLEAN
    /\ poll \in {"idle", "listing", "replies", "tasks"}
    /\ step \in {"next", "sending", "verifying", "starting", "executing"}

\* Where the poll is, and the row it is at.
PollAgrees ==
    /\ poll \in {"idle", "listing"} => step = "next"
    /\ closing \in {"draining", "closed", "crashed"} => poll = "idle"
    /\ step # "next" => cur \in Mails \ todo
    /\ poll = "replies" => \A m \in todo : status[m] = "reply_pending"
    /\ poll = "tasks" => \A m \in todo : status[m] = "queued"
    /\ step = "sending" => status[cur] = "reply_pending"
    /\ step = "verifying" => status[cur] = "queued"
    /\ step \in {"starting", "executing"} => status[cur] = "running"
    /\ \A m \in Mails : status[m] = "running" => Active(m) \/ closing = "crashed"

\* A task is verified, and no other mail with its Message-ID is, before it runs.
TasksAreVerified ==
    /\ step \in {"starting", "executing"} => cur \in verified
    /\ step = "starting" => executed[cur] = 0
    /\ \A m \in Mails : executed[m] <= 1
    /\ \A m \in Mails : executed[m] # 0 => m \in verified /\ status[m] \notin {"absent", "queued"}
    /\ \A m, n \in verified : messageId[m] = messageId[n] => m = n

\* A reply is on its way only after its row waited for it, and not when it is too old.
RepliesComeLast ==
    /\ \A m \in Mails : status[m] \in {"absent", "queued", "running"}
                          => age[m] = "young" /\ delivered[m] = 0 /\ m \notin wire
    /\ \A m \in wire : age[m] # "expired"
    /\ \A m \in Mails : delivered[m] <= 1

\* A task that lost its permission has nothing sent, and is told to stop as long as it runs.
RevokedAreStopped ==
    /\ \A m \in revoked : status[m] \in {"running", "interrupted", "failed"} /\ delivered[m] = 0 /\ m \notin wire
    /\ \A m \in revoked : Active(m) => stopped

MailInv == MailTyped /\ PollAgrees /\ TasksAreVerified /\ RepliesComeLast /\ RevokedAreStopped

-----------------------------------------------------------------------------

\* What leaves the rows, the poll and the progress of close() alone keeps the invariant.
LEMMA MailFrame ==
    ASSUME MailInv, UNCHANGED <<mailVars, closing>>
    PROVE  MailInv'
  BY DEF MailInv, MailTyped, PollAgrees, TasksAreVerified, RepliesComeLast, RevokedAreStopped, Active,
         mailVars, rowVars, configVars, pollVars

\* The poll begins, lists its rows and goes from one query to the next.
LEMMA PollSteps ==
    ASSUME MailInv, StartPoll \/ ListPage \/ EndListing \/ EndStage
    PROVE  MailInv'
  <1> USE DEF MailInv, Closed, roomVars, rowVars, configVars, pollVars
  <1>1. CASE StartPoll
    BY <1>1 DEF StartPoll, MailTyped, PollAgrees, TasksAreVerified, RepliesComeLast, RevokedAreStopped, Active
  <1>2. CASE ListPage
    <2>1. PICK found \in SUBSET {m \in Mails : status[m] = "absent"} :
             status' = [m \in Mails |-> IF m \notin found THEN status[m] ELSE IF mapped THEN "queued" ELSE "ignored"]
      BY <1>2 DEF ListPage
    <2>2. /\ poll = "listing" /\ step = "next"
          /\ UNCHANGED <<closing, messageId, verified, age, poll, todo, step, cur, stopped, wire, delivered, executed, revoked>>
      BY <1>2 DEF ListPage, PollAgrees
    <2>3. ASSUME NEW m \in Mails
          PROVE  \/ status'[m] = status[m]
                 \/ status[m] = "absent" /\ status'[m] \in {"queued", "ignored"}
      BY <2>1
    <2>4. MailTyped'
      BY <2>1, <2>2 DEF MailTyped, Statuses
    <2>5. PollAgrees'
      BY <2>2, <2>3 DEF PollAgrees, Active
    <2>6. TasksAreVerified' /\ RepliesComeLast' /\ RevokedAreStopped'
      BY <2>2, <2>3 DEF MailTyped, TasksAreVerified, RepliesComeLast, RevokedAreStopped, Active
    <2>7. QED
      BY <2>4, <2>5, <2>6
  <1>3. CASE EndListing
    BY <1>3 DEF EndListing, RowsWith, MailTyped, PollAgrees, TasksAreVerified, RepliesComeLast, RevokedAreStopped, Active
  <1>4. CASE EndStage
    BY <1>4 DEF EndStage, RowsWith, MailTyped, PollAgrees, TasksAreVerified, RepliesComeLast, RevokedAreStopped, Active
  <1>5. QED
    BY <1>1, <1>2, <1>3, <1>4

\* The replies of pending rows: taken, answered, delivered, growing old.
LEMMA ReplySteps ==
    ASSUME MailInv, NEW m \in Mails, SendReply(m) \/ Deliver(m) \/ EndReply(m) \/ PassTime(m)
    PROVE  MailInv'
  <1> USE DEF MailInv, Closed, roomVars, rowVars, configVars, pollVars
  <1>1. CASE SendReply(m)
    <2>1. /\ poll = "replies" /\ step = "next" /\ m \in todo /\ status[m] = "reply_pending"
          /\ UNCHANGED <<closing, messageId, verified, age, poll, delivered, executed, revoked>>
      BY <1>1 DEF SendReply, Takes, PollAgrees, Attempt, Await
    <2>2. CASE /\ status' = [status EXCEPT ![m] = "ignored"] \/ status' = [status EXCEPT ![m] = "uncertain"]
               /\ todo' = todo \ {m} /\ UNCHANGED <<step, cur, stopped, wire>>
      BY <2>1, <2>2 DEF MailTyped, Statuses, PollAgrees, TasksAreVerified, RepliesComeLast, RevokedAreStopped, Active
    <2>3. CASE Permitted /\ ~Exhausted(m) /\ Attempt(m) /\ UNCHANGED status
      <3>1. /\ age[m] = "young" /\ status' = status /\ wire' = wire \cup {m} /\ step' = "sending"
            /\ cur' = m /\ stopped' = FALSE /\ todo' = todo \ {m}
        BY <2>3 DEF Attempt, Await, Exhausted
      <3>2. QED
        BY ZenonT(30), SMTT(30), <2>1, <3>1 DEF MailTyped, PollAgrees, TasksAreVerified, RepliesComeLast, RevokedAreStopped, Active
    <2>4. QED
      BY <1>1, <2>2, <2>3 DEF SendReply, SetStatus
  <1>2. CASE Deliver(m)
    <2>1. /\ m \in wire /\ wire' = wire \ {m} /\ delivered' \in [Mails -> Nat]
          /\ \A n \in Mails \ {m} : delivered'[n] = delivered[n]
          /\ delivered'[m] = IF delivered[m] = 0 THEN 1 ELSE delivered[m]
          /\ UNCHANGED <<closing, messageId, status, verified, age, pollVars, executed, revoked>>
      BY <1>2 DEF Deliver, Sends, MailTyped, RepliesComeLast
    <2>2. QED
      BY <2>1 DEF MailTyped, PollAgrees, TasksAreVerified, RepliesComeLast, RevokedAreStopped, Active
  <1>3. CASE EndReply(m)
    <2>1. PICK s \in {"sent", "uncertain", "reply_pending"} : status' = [status EXCEPT ![m] = s]
      BY <1>3 DEF EndReply, SetStatus
    <2>2. /\ step = "sending" /\ cur = m /\ step' = "next" /\ cur' = NoMail /\ stopped' = FALSE
          /\ todo' = todo \ {m} /\ m \notin todo /\ status[m] = "reply_pending"
          /\ UNCHANGED <<closing, messageId, verified, age, poll, wire, delivered, executed, revoked>>
      BY <1>3 DEF EndReply, Done, PollAgrees
    <2>3. /\ status' \in [Mails -> Statuses] /\ status'[m] = s
          /\ \A n \in Mails \ {m} : status'[n] = status[n]
      BY <2>1 DEF MailTyped, Statuses
    <2>4. MailTyped' /\ PollAgrees'
      BY <2>2, <2>3 DEF MailTyped, PollAgrees, Active
    <2>5. TasksAreVerified' /\ RepliesComeLast' /\ RevokedAreStopped'
      BY <2>2, <2>3 DEF MailTyped, TasksAreVerified, RepliesComeLast, RevokedAreStopped, Active
    <2> QED
      BY <2>4, <2>5
  <1>4. CASE PassTime(m)
    <2>1. /\ status[m] = "reply_pending" /\ age' \in [Mails -> {"young", "late", "expired"}]
          /\ \A n \in Mails \ {m} : age'[n] = age[n]
          /\ age'[m] = "late" \/ m \notin wire
          /\ UNCHANGED <<closing, messageId, status, verified, pollVars, wire, delivered, executed, revoked>>
      BY <1>4 DEF PassTime, MailTyped
    <2>2. QED
      BY <2>1 DEF MailTyped, PollAgrees, TasksAreVerified, RepliesComeLast, RevokedAreStopped, Active
  <1>5. QED
    BY <1>1, <1>2, <1>3, <1>4

\* A queued mail is taken, read and left, answered, or made the active task.
LEMMA VerifySteps ==
    ASSUME MailInv, NEW m \in Mails, TakeMail(m) \/ RejectMail(m) \/ VerifyMail(m)
    PROVE  MailInv'
  <1> USE DEF MailInv, Closed, roomVars, rowVars, configVars, pollVars
  <1>1. CASE TakeMail(m)
    <2>1. /\ poll = "tasks" /\ step = "next" /\ m \in todo /\ status[m] = "queued" /\ todo' = todo \ {m}
          /\ UNCHANGED <<closing, messageId, verified, age, poll, wire, delivered, executed, revoked>>
      BY <1>1 DEF TakeMail, Takes, PollAgrees, Await
    <2>2. CASE status' = [status EXCEPT ![m] = "ignored"] /\ UNCHANGED <<step, cur, stopped>>
      BY <2>1, <2>2 DEF MailTyped, Statuses, PollAgrees, TasksAreVerified, RepliesComeLast, RevokedAreStopped, Active
    <2>3. CASE status' = status /\ step' = "verifying" /\ cur' = m /\ stopped' = FALSE
      <3>1. MailTyped' /\ PollAgrees'
        BY <2>1, <2>3 DEF MailTyped, PollAgrees, Active
      <3>2. TasksAreVerified' /\ RepliesComeLast' /\ RevokedAreStopped'
        BY <2>1, <2>3 DEF MailTyped, TasksAreVerified, RepliesComeLast, RevokedAreStopped, Active
      <3>3. QED
        BY <3>1, <3>2
    <2>4. QED
      BY <1>1, <2>2, <2>3 DEF TakeMail, SetStatus, Await
  <1>2. CASE RejectMail(m)
    <2>1. PICK s \in {"queued", "ignored"} : status' = [status EXCEPT ![m] = s]
      BY <1>2 DEF RejectMail, SetStatus
    <2>2. /\ step = "verifying" /\ cur = m /\ step' = "next" /\ cur' = NoMail /\ stopped' = FALSE
          /\ todo' = todo \ {m} /\ m \notin todo /\ status[m] = "queued"
          /\ UNCHANGED <<closing, messageId, verified, age, poll, wire, delivered, executed, revoked>>
      BY <1>2 DEF RejectMail, Done, PollAgrees
    <2>3. /\ status' \in [Mails -> Statuses] /\ status'[m] = s
          /\ \A n \in Mails \ {m} : status'[n] = status[n]
      BY <2>1 DEF MailTyped, Statuses
    <2>4. MailTyped' /\ PollAgrees'
      BY <2>2, <2>3 DEF MailTyped, PollAgrees, Active
    <2>5. TasksAreVerified' /\ RepliesComeLast' /\ RevokedAreStopped'
      BY <2>2, <2>3 DEF MailTyped, TasksAreVerified, RepliesComeLast, RevokedAreStopped, Active
    <2> QED
      BY <2>4, <2>5
  <1>3. CASE VerifyMail(m)
    <2>1. /\ step = "verifying" /\ cur = m /\ m \notin todo /\ status[m] = "queued" /\ todo' = todo \ {m}
          /\ poll \in {"replies", "tasks"} /\ stopped' = FALSE
          /\ UNCHANGED <<closing, messageId, age, poll, delivered, executed, revoked>>
      BY <1>3 DEF VerifyMail, Done, Await, Attempt, PollAgrees, MailTyped
    <2>2. CASE /\ step' = "next" /\ cur' = NoMail /\ UNCHANGED <<verified, wire>>
               /\ status' = status \/ status' = [status EXCEPT ![m] = "ignored"]
      <3>1. /\ status' \in [Mails -> Statuses]
            /\ \A n \in Mails \ {m} : status'[n] = status[n]
            /\ status'[m] \in {"queued", "ignored"}
        BY <2>1, <2>2 DEF MailTyped, Statuses
      <3>2. MailTyped' /\ PollAgrees'
        BY ZenonT(30), SMTT(30), <2>1, <2>2, <3>1 DEF MailTyped, PollAgrees, Active
      <3>3. TasksAreVerified' /\ RepliesComeLast' /\ RevokedAreStopped'
        BY <2>1, <2>2, <3>1 DEF MailTyped, TasksAreVerified, RepliesComeLast, RevokedAreStopped, Active
      <3>4. QED
        BY <3>2, <3>3
    <2>3. CASE ~Duplicate(m) /\ verified' = verified \cup {m}
      <3>1. \A n, o \in verified' : messageId[n] = messageId[o] => n = o
        BY <2>3 DEF Duplicate, TasksAreVerified
      <3>2. CASE /\ status' = [status EXCEPT ![m] = "reply_pending"] /\ step' = "sending" /\ cur' = m
                 /\ wire' = wire \cup {m}
        BY ZenonT(30), SMTT(30), <2>1, <2>3, <3>1, <3>2 DEF MailTyped, Statuses, PollAgrees, TasksAreVerified, RepliesComeLast, RevokedAreStopped, Active
      <3>3. CASE status' = status /\ step' = "next" /\ cur' = NoMail /\ wire' = wire
        BY <2>1, <2>3, <3>1, <3>3 DEF MailTyped, PollAgrees, TasksAreVerified, RepliesComeLast, RevokedAreStopped, Active
      <3>4. CASE /\ status' = [status EXCEPT ![m] = "running"] /\ step' = "starting" /\ cur' = m
                 /\ wire' = wire
        BY ZenonT(30), SMTT(30), <2>1, <2>3, <3>1, <3>4 DEF MailTyped, Statuses, PollAgrees, TasksAreVerified, RepliesComeLast, RevokedAreStopped, Active
      <3>5. QED
        BY <1>3, <2>3, <3>2, <3>3, <3>4 DEF VerifyMail, SetStatus, Attempt, Await, Done
    <2>4. QED
      BY <1>3, <2>2, <2>3 DEF VerifyMail, SetStatus, Done
  <1>4. QED
    BY <1>1, <1>2, <1>3

\* The active task starts, returns, is stopped by its deadline or by the configuration.
LEMMA TaskSteps ==
    ASSUME MailInv, NEW m \in Mails, StartTask(m) \/ ReturnTask(m) \/ Deadline(m) \/ Configure
    PROVE  MailInv'
  <1> USE DEF MailInv, Closed, roomVars, rowVars, configVars, pollVars
  <1>1. CASE StartTask(m)
    <2>1. /\ step = "starting" /\ cur = m /\ status[m] = "running" /\ m \in verified /\ executed[m] = 0
          /\ age[m] = "young" /\ delivered[m] = 0 /\ m \notin wire /\ m \notin todo /\ Active(m)
          /\ m \in revoked => stopped
          /\ UNCHANGED <<messageId, verified, age, wire, delivered, revoked>>
      BY <1>1 DEF StartTask, PollAgrees, TasksAreVerified, RepliesComeLast, RevokedAreStopped, Active
    <2>2. CASE FailTask(m)
      <3>1. PICK s \in {"queued", "interrupted", "failed"} :
                 status' = [status EXCEPT ![m] = s] /\ (s = "queued" => ~stopped)
        BY <2>2 DEF FailTask, SetStatus, KeepsResult
      <3>2. /\ status' \in [Mails -> Statuses] /\ status'[m] = s
            /\ \A n \in Mails \ {m} : status'[n] = status[n]
            /\ step' = "next" /\ cur' = NoMail /\ stopped' = FALSE /\ todo' = todo \ {m}
            /\ UNCHANGED <<closing, poll, executed>>
        BY <2>1, <2>2, <3>1 DEF FailTask, Done, MailTyped, Statuses
      <3>3. MailTyped' /\ PollAgrees'
        BY ZenonT(30), SMTT(30), <2>1, <3>1, <3>2 DEF MailTyped, PollAgrees, Active
      <3>4. TasksAreVerified' /\ RepliesComeLast' /\ RevokedAreStopped'
        BY <2>1, <3>1, <3>2 DEF MailTyped, TasksAreVerified, RepliesComeLast, RevokedAreStopped, Active
      <3>5. QED
        BY <3>3, <3>4
    <2>3. CASE RunTask(m)
      <3>1. /\ executed' \in [Mails -> Nat] /\ executed'[m] = 1
            /\ \A n \in Mails \ {m} : executed'[n] = executed[n]
            /\ step' = "executing" /\ UNCHANGED <<closing, status, poll, todo, cur, stopped>>
        BY <2>1, <2>3 DEF RunTask, MailTyped
      <3>2. QED
        BY <2>1, <3>1 DEF MailTyped, PollAgrees, TasksAreVerified, RepliesComeLast, RevokedAreStopped, Active
    <2>4. QED
      BY <1>1, <2>2, <2>3 DEF StartTask
  <1>2. CASE ReturnTask(m)
    <2>1. /\ step = "executing" /\ cur = m /\ status[m] = "running" /\ m \in verified
          /\ age[m] = "young" /\ delivered[m] = 0 /\ m \notin wire /\ m \notin todo /\ Active(m)
          /\ m \in revoked => stopped
          /\ stopped' = FALSE /\ todo' = todo \ {m}
          /\ UNCHANGED <<closing, messageId, verified, age, poll, delivered, executed, revoked>>
      BY <1>2 DEF ReturnTask, PollAgrees, TasksAreVerified, RepliesComeLast, RevokedAreStopped, Active,
                  Attempt, Await, Done
    <2>2. CASE KeepsResult /\ SetStatus(m, "reply_pending") /\ Attempt(m)
      <3>1. /\ status' \in [Mails -> Statuses] /\ status'[m] = "reply_pending"
            /\ \A n \in Mails \ {m} : status'[n] = status[n]
            /\ m \notin revoked /\ wire' = wire \cup {m} /\ step' = "sending" /\ cur' = m
        BY <2>1, <2>2 DEF SetStatus, KeepsResult, Attempt, Await, MailTyped, Statuses
      <3>2. MailTyped' /\ PollAgrees'
        BY <2>1, <3>1 DEF MailTyped, PollAgrees, Active
      <3>3. TasksAreVerified' /\ RepliesComeLast' /\ RevokedAreStopped'
        BY <2>1, <3>1 DEF MailTyped, PollAgrees, TasksAreVerified, RepliesComeLast, RevokedAreStopped, Active
      <3>4. QED
        BY <3>2, <3>3
    <2>3. CASE SetStatus(m, IF stopped \/ ~Permitted THEN "interrupted" ELSE "failed") /\ Done /\ UNCHANGED wire
      <3>1. PICK s \in {"interrupted", "failed"} : status' = [status EXCEPT ![m] = s]
        BY <2>3 DEF SetStatus
      <3>2. /\ status' \in [Mails -> Statuses] /\ status'[m] \in {"interrupted", "failed"}
            /\ \A n \in Mails \ {m} : status'[n] = status[n]
            /\ wire' = wire /\ step' = "next" /\ cur' = NoMail
        BY <2>1, <2>3, <3>1 DEF Done, MailTyped, Statuses
      <3>3. MailTyped' /\ PollAgrees'
        BY <2>1, <3>2 DEF MailTyped, PollAgrees, Active
      <3>4. TasksAreVerified' /\ RepliesComeLast' /\ RevokedAreStopped'
        BY <2>1, <3>2 DEF MailTyped, TasksAreVerified, RepliesComeLast, RevokedAreStopped, Active
      <3>5. QED
        BY <3>3, <3>4
    <2>4. QED
      BY <1>2, <2>2, <2>3 DEF ReturnTask
  <1>3. CASE Deadline(m)
    <2>1. /\ stopped' = TRUE
          /\ UNCHANGED <<closing, rowVars, configVars, poll, todo, step, cur, wire, delivered, executed, revoked>>
      BY <1>3 DEF Deadline, StopTask
    <2>2. QED
      BY <2>1 DEF MailTyped, PollAgrees, TasksAreVerified, RepliesComeLast, RevokedAreStopped, Active
  <1>4. CASE Configure
    <2>1. UNCHANGED <<closing, rowVars, poll, todo, step, cur, wire, delivered, executed>>
      BY <1>4 DEF Configure
    <2>2. CASE UNCHANGED <<stopped, revoked>>
      BY <2>1, <2>2 DEF MailTyped, PollAgrees, TasksAreVerified, RepliesComeLast, RevokedAreStopped, Active
    <2>3. CASE cur # NoMail /\ Active(cur) /\ stopped' = TRUE /\ revoked' = revoked \cup {cur}
      <3>1. cur \in Mails /\ status[cur] = "running" /\ delivered[cur] = 0 /\ cur \notin wire
        BY <2>3 DEF MailTyped, PollAgrees, RepliesComeLast, Active
      <3>2. QED
        BY <2>1, <2>3, <3>1 DEF MailTyped, PollAgrees, TasksAreVerified, RepliesComeLast, RevokedAreStopped, Active
    <2>4. QED
      BY <1>4, <2>2, <2>3 DEF Configure, StopTask
  <1>5. QED
    BY <1>1, <1>2, <1>3, <1>4

\* The server is closed, its process ends, and starts again.
LEMMA ProcessSteps ==
    ASSUME MailInv, ProcessStep
    PROVE  MailInv'
  <1> USE DEF MailInv, Closed, roomVars, mailVars, rowVars, configVars, pollVars
  <1>1. CASE BeginClose
    BY <1>1 DEF BeginClose, MailTyped, PollAgrees, TasksAreVerified, RepliesComeLast, RevokedAreStopped, Active
  <1>2. CASE StopWork
    <2>1. /\ closing = "closing" /\ closing' = "stopping" /\ stopped' = (\E m \in Mails : Active(m))
          /\ UNCHANGED <<rowVars, poll, todo, step, cur, wire, delivered, executed, revoked>>
      BY <1>2 DEF StopWork
    <2>2. stopped' \in BOOLEAN /\ \A m \in Mails : Active(m) => stopped'
      BY <2>1
    <2>3. QED
      BY <2>1, <2>2 DEF MailTyped, PollAgrees, TasksAreVerified, RepliesComeLast, RevokedAreStopped, Active
  <1>3. CASE CloseServer
    BY <1>3 DEF CloseServer, MailTyped, PollAgrees, TasksAreVerified, RepliesComeLast, RevokedAreStopped, Active
  <1>4. CASE CloseDatabase \/ Crash
    <2>1. /\ \/ closing = "draining" /\ closing' = "closed"
             \/ closing \notin {"closed", "crashed"} /\ closing' = "crashed"
          /\ poll' = "idle" /\ todo' = {} /\ step' = "next" /\ cur' = NoMail /\ stopped' = FALSE
          /\ UNCHANGED <<rowVars, wire, delivered, executed, revoked>>
      BY <1>4 DEF CloseDatabase, Crash, ForgetMemory
    <2>2. QED
      BY ZenonT(30), SMTT(30), <2>1 DEF MailTyped, PollAgrees, TasksAreVerified, RepliesComeLast, RevokedAreStopped, Active
  <1>5. CASE Restart
    <2>1. /\ closing \in {"closed", "crashed"} /\ closing' = "open"
          /\ status' = [m \in Mails |-> IF status[m] = "running" THEN "interrupted" ELSE status[m]]
          /\ UNCHANGED <<messageId, verified, age, pollVars, wire, delivered, executed, revoked>>
      BY <1>5 DEF Restart, InterruptRunning
    <2>2. status' \in [Mails -> Statuses]
      BY <2>1 DEF MailTyped, Statuses
    <2>3. \A m \in Mails : \/ status[m] = "running" /\ status'[m] = "interrupted"
                           \/ status[m] # "running" /\ status'[m] = status[m]
      BY <2>1
    <2>4. MailTyped' /\ PollAgrees'
      BY <2>1, <2>2, <2>3 DEF MailTyped, PollAgrees, Active
    <2>5. TasksAreVerified' /\ RepliesComeLast' /\ RevokedAreStopped'
      BY <2>1, <2>2, <2>3 DEF MailTyped, PollAgrees, TasksAreVerified, RepliesComeLast, RevokedAreStopped, Active
    <2>6. QED
      BY <2>4, <2>5
  <1>6. QED
    BY <1>1, <1>2, <1>3, <1>4, <1>5 DEF ProcessStep

\* The invariant of the mail agent, from the first start on.
THEOREM MailInvariant == Spec => []MailInv
  <1>1. Init => MailInv
    <2> SUFFICES ASSUME Init
                 PROVE  MailInv
      OBVIOUS
    <2>1. /\ closing = "open" /\ poll = "idle" /\ todo = {} /\ step = "next" /\ cur = NoMail /\ stopped = FALSE
          /\ verified = {} /\ wire = {} /\ revoked = {}
      BY DEF Init, RInit, MInit
    <2>2. /\ status \in [Mails -> Statuses] /\ age \in [Mails -> {"young", "late", "expired"}]
          /\ delivered \in [Mails -> Nat] /\ executed \in [Mails -> Nat]
      BY SMTT(30) DEF Init, MInit, Statuses
    <2>3. \A m \in Mails : status[m] = "absent" /\ age[m] = "young" /\ delivered[m] = 0 /\ executed[m] = 0
      BY DEF Init, MInit
    <2>4. MailTyped
      BY <2>1, <2>2 DEF MailTyped
    <2>5. PollAgrees /\ TasksAreVerified
      BY <2>1, <2>3 DEF PollAgrees, TasksAreVerified
    <2>6. RepliesComeLast /\ RevokedAreStopped
      BY <2>1, <2>3 DEF RepliesComeLast, RevokedAreStopped
    <2>7. QED
      BY <2>4, <2>5, <2>6 DEF MailInv
  <1>2. MailInv /\ [Next]_vars => MailInv'
    <2> SUFFICES ASSUME MailInv, [Next]_vars
                 PROVE  MailInv'
      OBVIOUS
    <2>1. CASE UNCHANGED vars
      BY <2>1, MailFrame DEF vars, roomVars
    <2>2. CASE ((\E p \in Posts : PostStep(p)) \/ RoomStep) /\ UNCHANGED <<mailVars, awaited, closes, crashes>>
      <3>1. UNCHANGED closing
        BY <2>2 DEF PostStep, RoomStep, PostMessage, ResumePost, EndTitle, EndRun, ForgetRun, Compact, EndCompact
      <3>2. QED
        BY <2>2, <3>1, MailFrame
    <2>3. ASSUME NEW m \in Mails, MailStep(m)
          PROVE  MailInv'
      <3>1. CASE EndRun(m) /\ UNCHANGED mailVars
        BY <3>1, MailFrame DEF EndRun
      <3>2. QED
        BY <2>3, <3>1, ReplySteps, VerifySteps, TaskSteps DEF MailStep
    <2>4. CASE PollStep /\ Mails # {}
      <3>1. PICK m \in Mails : TRUE
        BY <2>4
      <3>2. QED
        BY <2>4, <3>1, PollSteps, TaskSteps DEF PollStep
    <2>5. CASE PollStep /\ Mails = {}
      BY ZenonT(30), SMTT(30), <2>5 DEF PollStep, StartPoll, ListPage, EndListing, EndStage, Configure, StopTask, RowsWith, MailInv,
                  MailTyped, PollAgrees, TasksAreVerified, RepliesComeLast, RevokedAreStopped, Active, Closed,
                  roomVars, rowVars, configVars, pollVars
    <2>6. CASE ProcessStep
      BY <2>6, ProcessSteps
    <2>7. QED
      BY <2>1, <2>2, <2>3, <2>4, <2>5, <2>6 DEF Next
  <1>3. QED
    BY <1>1, <1>2, PTL DEF Spec

\* A mail, or its second copy, runs as a task at most once, for any number of mails,
\* polls, changes of the configuration, crashes and restarts (execute() of mail-agent.mjs).
THEOREM TasksRunOnce == Spec => []TaskRunsOnce
  <1>1. MailInv => TaskRunsOnce
    BY DEF MailInv, MailTyped, TasksAreVerified, TaskRunsOnce
  <1>2. QED
    BY <1>1, MailInvariant, PTL

\* The sender of a mail gets one reply, for any number of attempts and lost answers.
THEOREM OneReply == Spec => []RepliesOnce
  <1>1. MailInv => RepliesOnce
    BY DEF MailInv, RepliesComeLast, RepliesOnce
  <1>2. QED
    BY <1>1, MailInvariant, PTL

\* A task whose permission was withdrawn while it ran never has a reply under way.
THEOREM RevokedStaysSilent == Spec => []RevokedTaskIsSilent
  <1>1. MailInv => RevokedTaskIsSilent
    BY DEF MailInv, RevokedAreStopped, RevokedTaskIsSilent
  <1>2. QED
    BY <1>1, MailInvariant, PTL

-----------------------------------------------------------------------------
(* The rooms: one work at a time, two bot runs, and a message accepted once.  What they
   rest on is that a bot run is counted in jobs as long as it is in progress, that a post
   runs only after it was accepted, and that the run of a mail is what the poll awaits. *)

RoomTyped ==
    /\ run \in [Runs -> {"none", "running", "ended", "lost"}]
    /\ post \in [Posts -> {"new", "awaiting", "accepted", "duplicate", "busy", "failed", "lost"}]
    /\ roomOf \in [Runs -> Rooms \cup {NoRoom}] /\ nonce \in [Posts -> Nonces]
    /\ jobs \subseteq Runs /\ compacting \subseteq Rooms

RunsAreCounted ==
    /\ IsFiniteSet(jobs) /\ IsFiniteSet(titles)
    /\ Cardinality(jobs) <= 2
    /\ \A j \in Runs : run[j] = "running" => j \in jobs

RunsHaveOwners ==
    /\ \A p \in Posts : run[p] # "none" => post[p] = "accepted"
    /\ \A m \in Mails : run[m] = "running" => cur = m /\ step = "executing"

AwaitingHaveRooms == \A p \in Posts : post[p] = "awaiting" => roomOf[p] \in Rooms

AcceptedAreStored == \A p \in Posts : post[p] = "accepted" => <<roomOf[p], nonce[p]>> \in messages

\* The conjuncts of RunsAreExclusive, room by room.
RoomsAreHeld ==
    /\ \A i, j \in Runs : run[i] = "running" /\ run[j] = "running" /\ roomOf[i] = roomOf[j] => i = j
    /\ \A j \in Runs : run[j] = "running" => roomOf[j] \notin compacting /\ roomOf[j] \in roomJobs
    /\ \A r \in roomJobs : r \in compacting \/ \E j \in Runs : run[j] = "running" /\ roomOf[j] = r
    /\ compacting \subseteq roomJobs

RoomInv ==
    RoomTyped /\ RunsAreCounted /\ RunsHaveOwners /\ AwaitingHaveRooms /\ AcceptedAreStored /\ AcceptedOnce
    /\ RoomsAreHeld

\* The room of a mail is a room.
RoomIds == roomId \in [Mails -> Rooms \cup {NoRoom}]

\* What leaves the rooms alone, and the poll as long as it awaits a bot run, keeps the invariant.
LEMMA RoomFrame ==
    ASSUME RoomInv, UNCHANGED <<run, post, roomOf, nonce, messages, jobs, titles, compacting, roomJobs>>,
           \A m \in Mails : run[m] = "running" => UNCHANGED <<cur, step>>
    PROVE  RoomInv'
  BY DEF RoomInv, RoomTyped, RunsAreCounted, RunsHaveOwners, AwaitingHaveRooms, AcceptedAreStored, AcceptedOnce, RoomsAreHeld

\* A bot run that begins in a free room, with a free slot, is counted and alone in its room.
LEMMA RunBegins ==
    ASSUME RoomInv, NEW j \in Runs, NEW r \in Rooms, Capacity(r), run[j] # "running", BotRun(j, r),
           roomOf' \in [Runs -> Rooms \cup {NoRoom}], roomOf'[j] = r,
           \A i \in Runs \ {j} : roomOf'[i] = roomOf[i],
           UNCHANGED compacting, IsFiniteSet(titles')
    PROVE  RunsAreCounted' /\ RoomsAreHeld'
  <1>1. /\ run' \in [Runs -> {"none", "running", "ended", "lost"}] /\ run'[j] = "running"
        /\ \A i \in Runs \ {j} : run'[i] = run[i]
        /\ roomJobs' = roomJobs \cup {r} /\ jobs' = jobs \cup {j}
    BY DEF BotRun, RoomInv, RoomTyped
  <1>2. /\ IsFiniteSet(jobs) /\ IsFiniteSet(titles) /\ r \notin roomJobs
        /\ ~(Cardinality(jobs) + Cardinality(titles) >= 2)
    BY DEF RoomInv, RunsAreCounted, Capacity, JobsFull
  <1>3. Cardinality(jobs) \in Nat /\ Cardinality(titles) \in Nat
    BY <1>2, FS_CardinalityType
  <1>4. IsFiniteSet(jobs') /\ (Cardinality(jobs') = Cardinality(jobs) \/ Cardinality(jobs') = Cardinality(jobs) + 1)
    BY <1>1, <1>2, FS_AddElement
  <1>5. Cardinality(jobs') <= 2
    BY <1>2, <1>3, <1>4
  <1>6. \A i \in Runs : run'[i] = "running" => i \in jobs'
    BY <1>1 DEF RoomInv, RunsAreCounted
  <1>7. RunsAreCounted'
    BY <1>4, <1>5, <1>6 DEF RunsAreCounted
  <1>8. RoomsAreHeld'
    BY <1>1, <1>2 DEF RoomInv, RoomsAreHeld
  <1>9. QED
    BY <1>7, <1>8

\* A post that is refused, or waits for the model list.
LEMMA PostRefused ==
    ASSUME RoomInv, NEW p \in Posts, NEW how \in {"awaiting", "duplicate", "busy", "failed"}, Refuse(p, how),
           post[p] \in {"new", "awaiting"},
           roomOf' \in [Runs -> Rooms \cup {NoRoom}], roomOf'[p] \in Rooms, \A i \in Runs \ {p} : roomOf'[i] = roomOf[i],
           UNCHANGED <<nonce, compacting, cur, step>>
    PROVE  RoomInv'
  <1>1. /\ post' \in [Posts -> {"new", "awaiting", "accepted", "duplicate", "busy", "failed", "lost"}]
        /\ post'[p] = how /\ \A q \in Posts \ {p} : post'[q] = post[q]
        /\ UNCHANGED <<messages, titles, run, roomJobs, jobs>>
    BY DEF Refuse, RoomInv, RoomTyped
  <1>2. run[p] = "none" /\ p \in Runs /\ \A q \in Posts : q \in Runs
    BY DEF RoomInv, RunsHaveOwners, RoomTyped, Runs
  <1>3. RoomTyped' /\ RunsAreCounted' /\ RunsHaveOwners'
    BY <1>1, <1>2 DEF RoomInv, RoomTyped, RunsAreCounted, RunsHaveOwners
  <1>4. AwaitingHaveRooms' /\ AcceptedAreStored' /\ AcceptedOnce'
    BY <1>1, <1>2 DEF RoomInv, AwaitingHaveRooms, AcceptedAreStored, AcceptedOnce
  <1>5. RoomsAreHeld'
    BY <1>1, <1>2 DEF RoomInv, RoomTyped, RoomsAreHeld
  <1>6. QED
    BY <1>3, <1>4, <1>5 DEF RoomInv

\* A post that is accepted: its key was not stored, and its run, if it has bots, begins.
LEMMA PostAccepted ==
    ASSUME RoomInv, NEW p \in Posts, NEW r \in Rooms, NEW bots \in BOOLEAN, NEW fresh \in BOOLEAN,
           Accept(p, r, bots, fresh), bots => Capacity(r), Insertable(r, nonce[p]),
           post[p] \in {"new", "awaiting"},
           roomOf' \in [Runs -> Rooms \cup {NoRoom}], roomOf'[p] = r, \A i \in Runs \ {p} : roomOf'[i] = roomOf[i],
           UNCHANGED <<nonce, compacting, cur, step>>
    PROVE  RoomInv'
  <1>1. /\ post' \in [Posts -> {"new", "awaiting", "accepted", "duplicate", "busy", "failed", "lost"}]
        /\ post'[p] = "accepted" /\ \A q \in Posts \ {p} : post'[q] = post[q]
        /\ messages' = messages \cup {<<r, nonce[p]>>} /\ <<r, nonce[p]>> \notin messages
        /\ titles' = titles \/ titles' = titles \cup {p}
    BY DEF Accept, Insertable, RoomInv, RoomTyped
  <1>2. run[p] = "none" /\ p \in Runs /\ \A q \in Posts : q \in Runs
    BY DEF RoomInv, RunsHaveOwners, RoomTyped, Runs
  <1>3. IsFiniteSet(titles')
    BY <1>1, FS_AddElement DEF RoomInv, RunsAreCounted
  <1>4. AwaitingHaveRooms' /\ AcceptedAreStored' /\ AcceptedOnce'
    BY <1>1, <1>2 DEF RoomInv, AwaitingHaveRooms, AcceptedAreStored, AcceptedOnce
  <1>5. CASE bots
    <2>1. /\ run' \in [Runs -> {"none", "running", "ended", "lost"}] /\ run'[p] = "running"
          /\ \A i \in Runs \ {p} : run'[i] = run[i]
          /\ roomJobs' = roomJobs \cup {r} /\ jobs' = jobs \cup {p}
      BY <1>2, <1>5 DEF Accept, BotRun, RoomInv, RoomTyped
    <2>2. BotRun(p, r) /\ Capacity(r) /\ run[p] # "running"
      BY <1>2, <1>5 DEF Accept
    <2>3. RunsAreCounted' /\ RoomsAreHeld'
      BY <1>2, <1>3, <2>2, RunBegins
    <2>4. p \notin Mails
      BY JobsAssumption
    <2>5. \A m \in Mails : run'[m] = "running" => cur' = m /\ step' = "executing"
      BY <2>1, <2>4 DEF RoomInv, RunsHaveOwners, Runs
    <2>6. RoomTyped' /\ RunsHaveOwners'
      BY <1>1, <1>2, <2>1, <2>5 DEF RoomInv, RoomTyped, RunsHaveOwners
    <2>7. QED
      BY <1>4, <2>3, <2>6 DEF RoomInv
  <1>6. CASE ~bots
    <2>1. UNCHANGED <<run, roomJobs, jobs>>
      BY <1>6 DEF Accept
    <2>2. RoomTyped' /\ RunsAreCounted' /\ RunsHaveOwners'
      BY <1>1, <1>2, <1>3, <2>1 DEF RoomInv, RoomTyped, RunsAreCounted, RunsHaveOwners
    <2>3. RoomsAreHeld'
      BY <1>2, <2>1 DEF RoomInv, RoomTyped, RoomsAreHeld
    <2>4. QED
      BY <1>4, <2>2, <2>3 DEF RoomInv
  <1>7. QED
    BY <1>5, <1>6

\* A run ends, is forgotten, a title job ends, a compaction begins or ends.
LEMMA RunSteps ==
    ASSUME RoomInv, NEW j \in Runs, NEW r \in Rooms,
           EndRun(j) \/ (j \in Posts /\ (ForgetRun(j) \/ EndTitle(j))) \/ Compact(r) \/ EndCompact(r),
           UNCHANGED <<cur, step>>
    PROVE  RoomInv'
  <1>1. CASE EndRun(j)
    <2>1. /\ run' \in [Runs -> {"none", "running", "ended", "lost"}] /\ run[j] = "running" /\ run'[j] = "ended"
          /\ \A i \in Runs \ {j} : run'[i] = run[i]
          /\ roomJobs' = roomJobs \ {roomOf[j]}
          /\ UNCHANGED <<messages, nonce, post, roomOf, jobs, titles, compacting>>
      BY <1>1 DEF EndRun, RoomInv, RoomTyped
    <2>2. \A q \in Posts : q \in Runs
      BY DEF Runs
    <2>3. RoomTyped' /\ RunsAreCounted' /\ RunsHaveOwners' /\ AwaitingHaveRooms' /\ AcceptedAreStored' /\ AcceptedOnce'
      BY <2>1, <2>2 DEF RoomInv, RoomTyped, RunsAreCounted, RunsHaveOwners, AwaitingHaveRooms, AcceptedAreStored, AcceptedOnce, Runs
    <2>4. RoomsAreHeld'
      BY <2>1 DEF RoomInv, RoomsAreHeld
    <2>5. QED
      BY <2>3, <2>4 DEF RoomInv
  <1>2. CASE j \in Posts /\ ForgetRun(j)
    <2>1. /\ run[j] = "ended" /\ jobs' = jobs \ {j}
          /\ UNCHANGED <<messages, nonce, post, roomOf, titles, compacting, run, roomJobs>>
      BY <1>2 DEF ForgetRun
    <2>2. IsFiniteSet(jobs') /\ Cardinality(jobs') <= 2
      BY <2>1, FS_Subset, FS_CardinalityType DEF RoomInv, RunsAreCounted
    <2>3. QED
      BY <2>1, <2>2 DEF RoomInv, RoomTyped, RunsAreCounted, RunsHaveOwners, AwaitingHaveRooms, AcceptedAreStored, AcceptedOnce, RoomsAreHeld
  <1>3. CASE j \in Posts /\ EndTitle(j)
    <2>1. /\ titles' = titles \ {j}
          /\ UNCHANGED <<messages, nonce, post, roomOf, jobs, compacting, run, roomJobs>>
      BY <1>3 DEF EndTitle
    <2>2. IsFiniteSet(titles')
      BY <2>1, FS_Subset DEF RoomInv, RunsAreCounted
    <2>3. QED
      BY <2>1, <2>2 DEF RoomInv, RoomTyped, RunsAreCounted, RunsHaveOwners, AwaitingHaveRooms, AcceptedAreStored, AcceptedOnce, RoomsAreHeld
  <1>4. CASE Compact(r)
    <2>1. /\ r \notin roomJobs /\ compacting' = compacting \cup {r} /\ roomJobs' = roomJobs \cup {r}
          /\ UNCHANGED <<messages, nonce, post, roomOf, jobs, titles, run>>
      BY <1>4 DEF Compact
    <2>2. QED
      BY <2>1 DEF RoomInv, RoomTyped, RunsAreCounted, RunsHaveOwners, AwaitingHaveRooms, AcceptedAreStored, AcceptedOnce, RoomsAreHeld
  <1>5. CASE EndCompact(r)
    <2>1. /\ r \in compacting /\ compacting' = compacting \ {r} /\ roomJobs' = roomJobs \ {r}
          /\ UNCHANGED <<messages, nonce, post, roomOf, jobs, titles, run>>
      BY <1>5 DEF EndCompact
    <2>2. QED
      BY <2>1 DEF RoomInv, RoomTyped, RunsAreCounted, RunsHaveOwners, AwaitingHaveRooms, AcceptedAreStored, AcceptedOnce, RoomsAreHeld
  <1>6. QED
    BY <1>1, <1>2, <1>3, <1>4, <1>5

\* The handlers of a post.
LEMMA PostSteps ==
    ASSUME RoomInv, NEW p \in Posts, PostStep(p), UNCHANGED <<cur, step>>
    PROVE  RoomInv'
  <1>1. p \in Runs /\ NoRoom \notin Rooms
    BY RoomsAssumption DEF Runs, Rooms
  <1>2. ASSUME NEW r \in Rooms, NEW bots \in BOOLEAN, NEW fresh \in BOOLEAN, Decide(p, r, bots, fresh),
               post[p] \in {"new", "awaiting"},
               roomOf' \in [Runs -> Rooms \cup {NoRoom}], roomOf'[p] = r, \A i \in Runs \ {p} : roomOf'[i] = roomOf[i],
               UNCHANGED <<nonce, compacting, cur, step>>
        PROVE  RoomInv'
    BY <1>2, PostRefused, PostAccepted DEF Decide
  <1>3. ASSUME NEW r \in Rooms, NEW bots \in BOOLEAN, PostMessage(p, r, bots)
        PROVE  RoomInv'
    <2>1. /\ post[p] = "new" /\ UNCHANGED <<nonce, compacting>>
          /\ roomOf' \in [Runs -> Rooms \cup {NoRoom}] /\ roomOf'[p] = r /\ \A i \in Runs \ {p} : roomOf'[i] = roomOf[i]
      BY <1>1, <1>3 DEF PostMessage, RoomInv, RoomTyped
    <2>2. CASE Refuse(p, "duplicate") \/ Refuse(p, "awaiting")
      BY <2>1, <2>2, PostRefused
    <2>3. CASE Decide(p, r, FALSE, r \notin named)
      <3>1. (r \notin named) \in BOOLEAN
        OBVIOUS
      <3>2. QED
        BY <1>2, <2>1, <2>3, <3>1
    <2>4. QED
      BY <1>3, <2>2, <2>3 DEF PostMessage
  <1>4. CASE ResumePost(p)
    <2>1. post[p] = "awaiting" /\ UNCHANGED <<nonce, compacting, roomOf>> /\ Decide(p, roomOf[p], TRUE, p \in untitled)
      BY <1>4 DEF ResumePost
    <2>2. roomOf[p] \in Rooms
      BY <2>1 DEF RoomInv, AwaitingHaveRooms
    <2>3. (p \in untitled) \in BOOLEAN
      OBVIOUS
    <2>4. QED
      BY <1>2, <2>1, <2>2, <2>3 DEF RoomInv, RoomTyped
  <1>5. QED
    BY <1>1, <1>3, <1>4, RunSteps DEF PostStep, Rooms

\* The poll, and its tasks: only the start of a task touches a room.
LEMMA TaskRooms ==
    ASSUME RoomInv, RoomIds, PollStep \/ \E m \in Mails : MailStep(m)
    PROVE  RoomInv'
  <1> USE DEF roomVars, rowVars, configVars, pollVars
  <1>1. CASE PollStep
    <2>1. \A m \in Mails : run[m] = "running" => UNCHANGED <<cur, step>>
      BY <1>1 DEF PollStep, StartPoll, ListPage, EndListing, EndStage, Configure, RoomInv, RunsHaveOwners
    <2>2. UNCHANGED <<run, post, roomOf, nonce, messages, jobs, titles, compacting, roomJobs>>
      BY <1>1 DEF PollStep, StartPoll, ListPage, EndListing, EndStage, Configure
    <2>3. QED
      BY <2>1, <2>2, RoomFrame
  <1>2. ASSUME NEW m \in Mails, MailStep(m)
        PROVE  RoomInv'
    <2>1. CASE SendReply(m) \/ Deliver(m) \/ EndReply(m) \/ PassTime(m) \/ TakeMail(m) \/ RejectMail(m)
               \/ VerifyMail(m) \/ Deadline(m)
      <3>1. \A n \in Mails : run[n] = "running" => UNCHANGED <<cur, step>>
        BY <2>1 DEF SendReply, Deliver, EndReply, PassTime, TakeMail, RejectMail, VerifyMail, Deadline, Takes,
                    RoomInv, RunsHaveOwners
      <3>2. UNCHANGED <<run, post, roomOf, nonce, messages, jobs, titles, compacting, roomJobs>>
        BY <2>1 DEF SendReply, Deliver, EndReply, PassTime, TakeMail, RejectMail, VerifyMail, Deadline
      <3>3. QED
        BY <3>1, <3>2, RoomFrame
    <2>2. CASE EndRun(m) /\ UNCHANGED mailVars
      <3>1. m \in Runs /\ Lobby \in Rooms /\ UNCHANGED <<cur, step>>
        BY <2>2 DEF mailVars, Runs, Rooms
      <3>2. QED
        BY <2>2, <3>1, RunSteps
    <2>3. CASE StartTask(m)
      <3>1. step = "starting" /\ \A n \in Mails : run[n] # "running"
        BY <2>3 DEF StartTask, RoomInv, RunsHaveOwners
      <3>2. CASE FailTask(m)
        <4>1. UNCHANGED <<run, post, roomOf, nonce, messages, jobs, titles, compacting, roomJobs>>
          BY <3>2 DEF FailTask
        <4>2. QED
          BY <3>1, <4>1, RoomFrame
      <3>3. CASE RunTask(m)
        <4> DEFINE r == TaskRoom(m)
        <4>1. /\ Capacity(r) /\ BotRun(m, r) /\ cur = m /\ step' = "executing" /\ messages \subseteq messages'
              /\ roomOf' = [roomOf EXCEPT ![m] = r]
              /\ UNCHANGED <<nonce, post, titles, compacting, cur>>
          BY <2>3, <3>3 DEF RunTask, StartTask, Capacity
        <4>2. m \in Runs /\ m \notin Posts /\ (\A p \in Posts : p \in Runs) /\ (\A n \in Mails : n \in Runs)
          BY JobsAssumption DEF Runs
        <4>3. r \in Rooms
          BY DEF TaskRoom, RoomIds, Rooms
        <4> HIDE DEF r
        <4>4. /\ run' \in [Runs -> {"none", "running", "ended", "lost"}] /\ run'[m] = "running"
              /\ \A i \in Runs \ {m} : run'[i] = run[i]
              /\ roomOf' \in [Runs -> Rooms \cup {NoRoom}] /\ roomOf'[m] = r
              /\ \A i \in Runs \ {m} : roomOf'[i] = roomOf[i]
              /\ jobs' = jobs \cup {m}
          BY <4>1, <4>2, <4>3 DEF BotRun, RoomInv, RoomTyped
        <4>5. RunsAreCounted' /\ RoomsAreHeld'
          BY <3>1, <4>1, <4>2, <4>3, <4>4, RunBegins DEF RoomInv, RunsAreCounted
        <4>6. RoomTyped' /\ AwaitingHaveRooms' /\ AcceptedAreStored' /\ AcceptedOnce'
          BY <4>1, <4>2, <4>4 DEF RoomInv, RoomTyped, AwaitingHaveRooms, AcceptedAreStored, AcceptedOnce
        <4>7. RunsHaveOwners'
          BY <3>1, <4>1, <4>2, <4>4 DEF RoomInv, RunsHaveOwners
        <4>8. QED
          BY <4>5, <4>6, <4>7 DEF RoomInv
      <3>4. QED
        BY <2>3, <3>2, <3>3 DEF StartTask
    <2>4. CASE ReturnTask(m)
      <3>1. /\ run[m] = "ended" /\ cur = m /\ jobs' = jobs \ {m}
            /\ UNCHANGED <<run, post, roomOf, nonce, messages, titles, compacting, roomJobs>>
        BY <2>4 DEF ReturnTask
      <3>2. \A n \in Mails : run[n] # "running"
        BY <3>1 DEF RoomInv, RunsHaveOwners
      <3>3. IsFiniteSet(jobs') /\ Cardinality(jobs') <= 2
        BY <3>1, FS_Subset, FS_CardinalityType DEF RoomInv, RunsAreCounted
      <3>4. QED
        BY <3>1, <3>2, <3>3 DEF RoomInv, RoomTyped, RunsAreCounted, RunsHaveOwners, AwaitingHaveRooms, AcceptedAreStored,
                                AcceptedOnce, RoomsAreHeld
    <2>5. QED
      BY <1>2, <2>1, <2>2, <2>3, <2>4 DEF MailStep
  <1>3. QED
    BY <1>1, <1>2

\* close(), the end of the process, and a restart.
LEMMA ProcessRooms ==
    ASSUME RoomInv, ProcessStep
    PROVE  RoomInv'
  <1> USE DEF roomVars, mailVars, rowVars, configVars, pollVars
  <1>1. CASE BeginClose \/ StopWork \/ CloseServer \/ Restart
    <2>1. UNCHANGED <<run, post, roomOf, nonce, messages, jobs, titles, compacting, roomJobs, cur, step>>
      BY <1>1 DEF BeginClose, StopWork, CloseServer, Restart
    <2>2. QED
      BY <2>1, RoomFrame
  <1>2. CASE CloseDatabase \/ Crash
    <2>1. /\ post' = [p \in Posts |-> IF post[p] = "awaiting" THEN "lost" ELSE post[p]]
          /\ run' = [j \in Runs |-> IF run[j] = "running" THEN "lost" ELSE run[j]]
          /\ roomJobs' = {} /\ jobs' = {} /\ titles' = {} /\ compacting' = {}
          /\ UNCHANGED <<messages, nonce, roomOf>>
      BY <1>2 DEF CloseDatabase, Crash, ForgetMemory
    <2>2. /\ \A p \in Posts : post'[p] = IF post[p] = "awaiting" THEN "lost" ELSE post[p]
          /\ \A j \in Runs : run'[j] # "running" /\ (run'[j] # "none" => run[j] # "none")
          /\ (\A p \in Posts : p \in Runs) /\ \A n \in Mails : n \in Runs
      BY <2>1 DEF Runs
    <2>3. RoomTyped'
      BY <2>1 DEF RoomInv, RoomTyped
    <2>4. RunsAreCounted'
      BY <2>1, <2>2, FS_EmptySet DEF RunsAreCounted
    <2>5. RunsHaveOwners' /\ AwaitingHaveRooms' /\ AcceptedAreStored' /\ AcceptedOnce'
      BY <2>1, <2>2 DEF RoomInv, RunsHaveOwners, AwaitingHaveRooms, AcceptedAreStored, AcceptedOnce
    <2>6. RoomsAreHeld'
      BY <2>1, <2>2 DEF RoomsAreHeld
    <2>7. QED
      BY <2>3, <2>4, <2>5, <2>6 DEF RoomInv
  <1>3. QED
    BY <1>1, <1>2 DEF ProcessStep

\* A mail gets the room of the mail it answers, or that of its run.
LEMMA RoomIdSteps ==
    ASSUME RoomIds, RoomTyped, MailTyped, [Next]_vars
    PROVE  RoomIds'
  <1> USE DEF roomVars, mailVars, rowVars, configVars, pollVars
  <1>1. CASE UNCHANGED roomId
    BY <1>1 DEF RoomIds
  <1>2. ASSUME NEW m \in Mails, VerifyMail(m)
        PROVE  RoomIds'
    <2>1. ThreadRoom(m) \subseteq Rooms \cup {NoRoom}
      BY DEF ThreadRoom, RoomIds, MailTyped
    <2>2. UNCHANGED roomId \/ \E r \in ThreadRoom(m) : roomId' = [roomId EXCEPT ![m] = r]
      BY <1>2 DEF VerifyMail
    <2>3. QED
      BY <1>1, <2>1, <2>2 DEF RoomIds
  <1>3. ASSUME NEW m \in Mails, ReturnTask(m)
        PROVE  RoomIds'
    <2>1. UNCHANGED roomId \/ roomId' = [roomId EXCEPT ![m] = roomOf[m]]
      BY <1>3 DEF ReturnTask
    <2>2. roomOf[m] \in Rooms \cup {NoRoom}
      BY DEF RoomTyped, Runs
    <2>3. QED
      BY <1>1, <2>1, <2>2 DEF RoomIds
  <1>4. ASSUME NEW m \in Mails, MailStep(m), ~VerifyMail(m), ~ReturnTask(m)
        PROVE  UNCHANGED roomId
    BY <1>4 DEF MailStep, SendReply, Deliver, EndReply, PassTime, TakeMail, RejectMail, StartTask, Deadline
  <1>5. CASE PollStep \/ ProcessStep
    BY <1>1, <1>5 DEF PollStep, StartPoll, ListPage, EndListing, EndStage, Configure, ProcessStep, BeginClose, StopWork,
                      CloseServer, CloseDatabase, Crash, ForgetMemory, Restart
  <1>6. QED
    BY <1>1, <1>2, <1>3, <1>4, <1>5 DEF Next, vars

WorkInv == MailInv /\ RoomInv /\ RoomIds

\* The invariant of the whole server.
THEOREM WorkInvariant == Spec => []WorkInv
  <1>1. Init => RoomInv /\ RoomIds
    <2> SUFFICES ASSUME Init
                 PROVE  RoomInv /\ RoomIds
      OBVIOUS
    <2>1. /\ run = [j \in Runs |-> "none"] /\ post = [p \in Posts |-> "new"] /\ roomOf = [j \in Runs |-> NoRoom]
          /\ nonce \in [Posts -> Nonces] /\ roomId = [m \in Mails |-> NoRoom]
          /\ jobs = {} /\ titles = {} /\ compacting = {} /\ roomJobs = {}
      BY DEF Init, RInit, MInit
    <2>2. RoomTyped /\ RoomIds
      BY <2>1 DEF RoomTyped, RoomIds
    <2>3. (\A j \in Runs : run[j] = "none") /\ (\A p \in Posts : post[p] = "new" /\ p \in Runs) /\ (\A m \in Mails : m \in Runs)
      BY <2>1 DEF Runs
    <2>4. RunsAreCounted /\ RunsHaveOwners
      BY <2>1, <2>3, FS_EmptySet DEF RunsAreCounted, RunsHaveOwners
    <2>5. AwaitingHaveRooms /\ AcceptedAreStored /\ AcceptedOnce /\ RoomsAreHeld
      BY <2>1, <2>3 DEF AwaitingHaveRooms, AcceptedAreStored, AcceptedOnce, RoomsAreHeld
    <2>6. QED
      BY <2>2, <2>4, <2>5 DEF RoomInv
  <1>2. MailInv /\ RoomInv /\ RoomIds /\ [Next]_vars => (RoomInv /\ RoomIds)'
    <2> SUFFICES ASSUME MailInv, RoomInv, RoomIds, [Next]_vars
                 PROVE  (RoomInv /\ RoomIds)'
      OBVIOUS
    <2>1. RoomIds'
      BY RoomIdSteps DEF MailInv, RoomInv
    <2>2. CASE UNCHANGED vars
      BY <2>1, <2>2, RoomFrame DEF vars, roomVars, mailVars, pollVars
    <2>3. CASE ((\E p \in Posts : PostStep(p)) \/ RoomStep) /\ UNCHANGED <<mailVars, awaited, closes, crashes>>
      <3>1. UNCHANGED <<cur, step>>
        BY <2>3 DEF mailVars, pollVars
      <3>2. CASE \E p \in Posts : PostStep(p)
        BY <2>1, <3>1, <3>2, PostSteps
      <3>3. ASSUME NEW r \in Rooms, Compact(r) \/ EndCompact(r)
            PROVE  RoomInv'
        <4>1. CASE Runs = {}
          BY <3>1, <3>3, <4>1 DEF Compact, EndCompact, RoomInv, RoomTyped, RunsAreCounted, RunsHaveOwners,
                AwaitingHaveRooms, AcceptedAreStored, AcceptedOnce, RoomsAreHeld, Runs
        <4>2. CASE Runs # {}
          BY <3>1, <3>3, <4>2, RunSteps
        <4>3. QED
          BY <4>1, <4>2
      <3>4. QED
        BY <2>1, <2>3, <3>2, <3>3 DEF RoomStep
    <2>4. CASE (\E m \in Mails : MailStep(m)) \/ PollStep
      BY <2>1, <2>4, TaskRooms
    <2>5. CASE ProcessStep
      BY <2>1, <2>5, ProcessRooms
    <2>6. QED
      BY <2>2, <2>3, <2>4, <2>5 DEF Next
  <1>3. QED
    BY <1>1, <1>2, MailInvariant, PTL DEF Spec, WorkInv

\* A message that is posted again is accepted once, for any number of posts, restarts and
\* orders of their handlers (POST /api/rooms/:id/messages).
THEOREM PostsAcceptedOnce == Spec => []AcceptedOnce
  <1>1. WorkInv => AcceptedOnce
    BY DEF WorkInv, RoomInv
  <1>2. QED
    BY <1>1, WorkInvariant, PTL

\* One work per room, two bot runs at most, and no row left running: for any posts, mails
\* and rooms (botRun(), the compaction and runMailTask() of server.mjs).
THEOREM RoomsAreExclusive == Spec => []WorkIsExclusive
  <1>1. WorkInv => WorkIsExclusive
    <2> SUFFICES ASSUME WorkInv
                 PROVE  WorkIsExclusive
      OBVIOUS
    <2> DEFINE running == {j \in Runs : run[j] = "running"}
    <2>1. running \subseteq jobs /\ IsFiniteSet(jobs) /\ Cardinality(jobs) <= 2
      BY DEF WorkInv, RoomInv, RunsAreCounted
    <2>2. IsFiniteSet(running) /\ Cardinality(running) <= Cardinality(jobs)
      BY <2>1, FS_Subset
    <2>3. Cardinality(running) <= 2
      BY <2>1, <2>2, FS_CardinalityType
    <2>4. roomJobs = {roomOf[j] : j \in running} \cup compacting
      BY DEF WorkInv, RoomInv, RoomsAreHeld
    <2>5. RunsAreExclusive
      BY <2>3, <2>4 DEF RunsAreExclusive, WorkInv, RoomInv, RoomsAreHeld
    <2>6. \A m \in Mails : status[m] = "running" => Active(m) \/ closing = "crashed"
      BY DEF WorkInv, MailInv, PollAgrees
    <2>7. QED
      BY <2>5, <2>6 DEF WorkIsExclusive
  <1>2. QED
    BY <1>1, WorkInvariant, PTL
=============================================================================
