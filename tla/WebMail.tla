------------------------------ MODULE WebMail ------------------------------
(***************************************************************************)
(* The mailbox dialog of an administrator: apps/community/public/mail.js.  *)
(*                                                                         *)
(* It lists and shows mails, sends one under a requestId that a retry      *)
(* keeps, and edits the senders mail tasks are accepted from while a timer *)
(* polls their state.  Each kind of request has a number, and closing the  *)
(* dialog moves the epoch on; a call in flight carries whether it is the   *)
(* `latest' of its kind and its epoch still `current'.                     *)
(***************************************************************************)
EXTENDS Naturals, FiniteSets

CONSTANTS
    Mails, NoMail, Bodies, NoBody,
    MaxMailCalls, MaxMailEdits, \* calls in flight, edits of the senders
    MaxMailClicks               \* how often the dialog is opened, and a mail begun or changed

ASSUME MailAssumption == MaxMailCalls \in Nat /\ MaxMailEdits \in Nat /\ MaxMailClicks \in Nat

VARIABLES
    mail,   \* the dialog
    box     \* the server: whether a mailbox is connected, its senders, what it accepted

mailVars == <<mail, box>>

MailCalls == [kind : {"list", "more", "detail", "agent", "poll", "send", "save"},
              arg : Mails \cup {NoMail} \cup (0..MaxMailEdits), latest : BOOLEAN, current : BOOLEAN,
              id : 0..MaxMailClicks, form : 0..MaxMailClicks, body : Bodies \cup {NoBody}]

NoPending == [sig |-> <<>>, id |-> 0]

\* The closed dialog.  form is the edit of the senders the form shows, dirty whether it
\* is still to be saved.
Closed(clicks, ids, calls) ==
    [clicks |-> clicks, ids |-> ids, calls |-> calls,
     open |-> FALSE, configured |-> FALSE, loading |-> FALSE, sending |-> FALSE,
     listed |-> FALSE, cursor |-> FALSE, selected |-> NoMail, shown |-> NoMail,
     compose |-> FALSE, reply |-> NoMail, body |-> NoBody, pending |-> NoPending,
     agent |-> FALSE, form |-> 0, dirty |-> FALSE, agentLoading |-> FALSE, agentSaving |-> FALSE, timer |-> FALSE]

MailInit ==
    /\ mail = Closed(0, 0, {})
    /\ box = [configured |-> TRUE, senders |-> 0, edits |-> 0, accepted |-> {}, failures |-> 0]

-----------------------------------------------------------------------------
MailCall(kind, arg) == [kind |-> kind, arg |-> arg, latest |-> TRUE, current |-> TRUE,
                        id |-> 0, form |-> 0, body |-> NoBody]

\* The sequence numbers a kind of request shares.
Lane(kind) == CASE kind \in {"list", "more"} -> "list" [] kind \in {"detail", "send"} -> "detail" [] OTHER -> "agent"

\* listRequest, detailRequest or agentRequest moves on.
Overtaken(cs, lane) == {IF Lane(c.kind) = lane THEN [c EXCEPT !.latest = FALSE] ELSE c : c \in cs}
Asking(m, c) == [m EXCEPT !.calls = Overtaken(@, Lane(c.kind)) \cup {c}]

MayCall == Cardinality(mail.calls) < MaxMailCalls
Clicks == mail.clicks < MaxMailClicks

\* clearPrivateState()
ClearPrivateState(m) == Closed(m.clicks, m.ids, {[c EXCEPT !.current = FALSE, !.latest = FALSE] : c \in m.calls})

-----------------------------------------------------------------------------
(* Opening and closing *)

LoadInbox(m) == IF m.loading \/ m.sending THEN m
                ELSE Asking([m EXCEPT !.loading = TRUE], MailCall("list", NoMail))

\* loadAgent(): while a load or a save is under way it only sets the timer.
LoadAgent(m, kind) ==
    IF m.agentLoading \/ m.agentSaving THEN [m EXCEPT !.timer = TRUE]
    ELSE Asking([m EXCEPT !.agentLoading = TRUE], MailCall(kind, NoMail))

OpenMail ==
    /\ ~mail.open /\ Clicks /\ MayCall
    /\ mail' = LoadAgent(LoadInbox([ClearPrivateState(mail) EXCEPT !.open = TRUE, !.clicks = @ + 1]), "agent")
    /\ UNCHANGED box

\* The close button, the "close" event, showAuth() and opening a task's room.
CloseMail == mail.open /\ mail' = ClearPrivateState(mail) /\ UNCHANGED box

RefreshMail ==
    /\ mail.open /\ ~mail.loading /\ ~mail.sending /\ MayCall
    /\ mail' = LoadAgent(LoadInbox(mail), "agent")
    /\ UNCHANGED box

LoadMore ==
    /\ mail.open /\ mail.cursor /\ ~mail.loading /\ ~mail.sending /\ MayCall
    /\ mail' = Asking([mail EXCEPT !.loading = TRUE], MailCall("more", NoMail))
    /\ UNCHANGED box

PollAgent ==
    /\ mail.timer /\ MayCall
    /\ mail' = LoadAgent([mail EXCEPT !.timer = FALSE], "poll")
    /\ UNCHANGED box

-----------------------------------------------------------------------------
(* Reading and writing a mail *)

SelectMessage(m) ==
    /\ mail.configured /\ mail.listed /\ ~mail.sending /\ MayCall
    /\ mail' = Asking([mail EXCEPT !.selected = m, !.shown = NoMail, !.pending = NoPending,
                                   !.compose = FALSE, !.body = NoBody], MailCall("detail", m))
    /\ UNCHANGED box

\* r: the mail that is answered, or none.
StartCompose(r) ==
    /\ mail.configured /\ ~mail.sending /\ Clicks
    /\ r # NoMail => mail.shown = r
    /\ mail' = [mail EXCEPT !.calls = Overtaken(@, "detail"), !.pending = NoPending, !.selected = r, !.reply = r,
                            !.compose = TRUE, !.body = NoBody, !.shown = NoMail, !.clicks = @ + 1]
    /\ UNCHANGED box

CancelCompose ==
    /\ mail.compose /\ ~mail.sending
    /\ mail' = [mail EXCEPT !.compose = FALSE, !.body = NoBody, !.pending = NoPending, !.shown = mail.reply]
    /\ UNCHANGED box

WriteBody(b) ==
    /\ mail.compose /\ ~mail.sending /\ mail.body # b /\ Clicks
    /\ mail' = [mail EXCEPT !.body = b, !.clicks = @ + 1]
    /\ UNCHANGED box

\* The requestId of a payload: the pending one's, if it is the same.
RequestId(m, sig) == IF m.pending.sig = sig THEN m.pending.id ELSE m.ids + 1

SubmitMail ==
    /\ mail.compose /\ ~mail.sending /\ mail.body # NoBody /\ MayCall
    /\ LET sig == <<mail.reply, mail.body>>
           id == RequestId(mail, sig)
       IN /\ id <= MaxMailClicks
          /\ mail' = [mail EXCEPT !.sending = TRUE, !.pending = [sig |-> sig, id |-> id],
                                  !.ids = IF id > @ THEN id ELSE @,
                                  !.calls = @ \cup {[MailCall("send", mail.reply) EXCEPT !.id = id, !.form = mail.clicks, !.body = mail.body]}]
    /\ UNCHANGED box

-----------------------------------------------------------------------------
(* The senders of mail tasks *)

\* markAgentDirty(): the fields are disabled during a save.
EditSenders ==
    /\ mail.agent /\ ~mail.agentSaving /\ box.edits < MaxMailEdits
    /\ mail' = [mail EXCEPT !.form = box.edits + 1, !.dirty = TRUE]
    /\ box' = [box EXCEPT !.edits = @ + 1]

SaveAgent ==
    /\ mail.agent /\ mail.dirty /\ ~mail.agentSaving /\ MayCall
    /\ mail' = Asking([mail EXCEPT !.agentLoading = FALSE, !.agentSaving = TRUE, !.timer = FALSE], MailCall("save", mail.form))
    /\ UNCHANGED box

\* Fault: a refresh renders the form whether it is dirty or not.
AgentLoadedRendering(m, c) == [m EXCEPT !.agent = TRUE, !.form = box.senders, !.dirty = FALSE]

\* The form is rendered when there is none, and by a refresh unless it is dirty.
AgentLoaded(m, c) ==
    IF ~m.agent \/ (c.kind = "agent" /\ ~m.dirty) THEN [m EXCEPT !.agent = TRUE, !.form = box.senders] ELSE m

-----------------------------------------------------------------------------
(* Answers.  Without `latest' and `current' nothing of an answer is used. *)

\* The mailbox turned out not to be connected: detailRequest moves on, also under a
\* mail that is being sent.
Unconfigured(m) ==
    [m EXCEPT !.configured = FALSE, !.listed = FALSE, !.cursor = FALSE, !.selected = NoMail, !.shown = NoMail,
              !.compose = FALSE, !.body = NoBody, !.pending = NoPending, !.calls = Overtaken(@, "detail")]

\* m: the dialog without the call that is answered.
MailAnswer(m, c) ==
    CASE Lane(c.kind) = "list" /\ ~box.configured -> Unconfigured([m EXCEPT !.loading = FALSE])
      [] Lane(c.kind) = "list" /\ box.configured ->
            [m EXCEPT !.loading = FALSE, !.configured = TRUE, !.listed = TRUE, !.cursor = (c.kind = "list")]
      [] c.kind = "detail" -> [m EXCEPT !.shown = c.arg]
      [] c.kind = "send" -> [m EXCEPT !.sending = FALSE, !.pending = NoPending, !.body = NoBody, !.compose = FALSE]
      [] c.kind = "save" -> [m EXCEPT !.agentSaving = FALSE, !.form = c.arg, !.dirty = FALSE, !.timer = TRUE]
      [] OTHER -> [AgentLoaded(m, c) EXCEPT !.agentLoading = FALSE, !.timer = TRUE]

MailFailure(m, c) ==
    CASE Lane(c.kind) = "list" -> [m EXCEPT !.loading = FALSE]
      [] c.kind = "send" -> [m EXCEPT !.sending = FALSE]
      [] c.kind = "save" -> [m EXCEPT !.agentSaving = FALSE, !.timer = TRUE]
      [] c.kind \in {"agent", "poll"} -> [m EXCEPT !.agentLoading = FALSE, !.timer = TRUE]
      [] OTHER -> m

\* What a request does at the server.
Handled(c) ==
    CASE c.kind = "save" -> [box EXCEPT !.senders = c.arg]
      [] c.kind = "send" /\ box.configured ->
            [box EXCEPT !.accepted = @ \cup {[id |-> c.id, form |-> c.form, sig |-> <<c.arg, c.body>>]}]
      [] OTHER -> box

\* A request is handled and answered, or its answer is lost, or the request itself.
MailReplied(c, handled, ok) ==
    /\ c \in mail.calls /\ (ok => handled)
    /\ ok \/ box.failures < 2
    /\ c.kind = "send" /\ ~box.configured => ~ok
    /\ LET m == [mail EXCEPT !.calls = @ \ {c}]
       IN mail' = CASE ~(c.latest /\ c.current) -> m
                    [] c.latest /\ c.current /\ ok -> MailAnswer(m, c)
                    [] c.latest /\ c.current /\ ~ok -> MailFailure(m, c)
    /\ box' = [(IF handled THEN Handled(c) ELSE box) EXCEPT !.failures = IF ok THEN @ ELSE @ + 1]

\* The server is restarted with another mail configuration.
Reconfigured == box.failures < 2 /\ box' = [box EXCEPT !.configured = ~@, !.failures = @ + 1] /\ UNCHANGED mail

-----------------------------------------------------------------------------
MailNext ==
    \/ OpenMail \/ CloseMail \/ RefreshMail \/ LoadMore \/ PollAgent \/ CancelCompose \/ SubmitMail
    \/ EditSenders \/ SaveAgent \/ Reconfigured
    \/ \E m \in Mails : SelectMessage(m)
    \/ \E r \in Mails \cup {NoMail} : StartCompose(r)
    \/ \E b \in Bodies : WriteBody(b)
    \/ \E c \in mail.calls, handled, ok \in BOOLEAN : MailReplied(c, handled, ok)

-----------------------------------------------------------------------------
(* Properties *)

MailTypeOK == mail.calls \subseteq MailCalls /\ mail.form \in 0..MaxMailEdits /\ mail.ids \in 0..MaxMailClicks

\* The senders an administrator has edited and not yet saved are replaced by nothing
\* but the answer to their own save or another edit, whatever polls, refreshes and saves
\* cross while the dialog is open (loadAgent, saveAgent: agentRequest, agentDirty).
SenderEditsAreKept ==
    [][mail.open /\ mail.dirty /\ mail'.open =>
          \/ mail'.dirty /\ (mail'.form = mail.form \/ box'.edits > box.edits)
          \/ \E c \in mail.calls \ mail'.calls : c.kind = "save" /\ c.arg = mail.form]_mailVars
=============================================================================
