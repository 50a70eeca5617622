---------------------------- MODULE WebComposer ----------------------------
(***************************************************************************)
(* Writing a message in a browser: the composers of                        *)
(* apps/community/public/app.js, with attachments, voice recordings and    *)
(* the change of a room's model.                                           *)
(*                                                                         *)
(* The main composer belongs to the selected room, the other one to an     *)
(* extra pane.  A message is sent under a nonce that a retry keeps, an     *)
(* upload or a recording remembers the room and the attachmentGeneration   *)
(* it was begun in (here: whether that is still the `fresh' one), and a    *)
(* model change holds the lock of its room until its dialog and its        *)
(* context reset are over.  The network may lose a request or its answer,  *)
(* and deliver a request after the page has given it up.                   *)
(***************************************************************************)
EXTENDS Naturals, Sequences, FiniteSets, SequencesExt

CONSTANTS
    ChatRooms, NoChat, Texts, NoText, Nothing,
    MaxNonces, MaxItems, \* how many nonces are drawn and files uploaded at most
    Drafts               \* how many nonces, files and changes (rooms opened, models
                         \* changed) there are together in a behaviour

ASSUME ComposerAssumption ==
    /\ MaxNonces \in Nat /\ MaxItems \in Nat
    /\ Drafts \subseteq [nonces : 0..MaxNonces, items : 0..MaxItems, changes : Nat]

VARIABLES
    page,    \* the selected room, the composers, the recording, the model locks
    uploads, \* the calls of uploadAttachments() in flight
    wire,    \* messages on their way to the server
    posts,   \* the messages the server has taken: one per nonce
    counts,  \* how many nonces, items and changes there were
    most     \* how many there may be

composerVars == <<page, uploads, wire, posts, counts, most>>

Places == {"main", "pane"}
Items == [id : 1..MaxItems, room : ChatRooms, status : {"uploading", "ready", "failed"}]
Uploads == [room : ChatRooms, item : 1..MaxItems, left : 0..MaxItems, fresh : BOOLEAN]
\* What is sent: intent numbers what the user means to say, so that a retry of the
\* same message has the same number.
Messages == [place : Places, nonce : 1..MaxNonces, room : ChatRooms, text : Texts \cup {NoText},
             items : SUBSET (1..MaxItems), intent : 0..MaxNonces]
\* state.pendingSend: the signature and the nonce of the last message that was not confirmed.
Signature(m) == <<m.room, m.text, m.items>>

Elements(q) == {q[i] : i \in DOMAIN q}

ComposerInit ==
    /\ page = [room |-> NoChat, pane |-> NoChat, items |-> <<>>,
               text |-> [p \in Places |-> NoText], sending |-> [p \in Places |-> Nothing],
               pendingSend |-> Nothing, intent |-> 0, last |-> [p \in Places |-> Nothing],
               recording |-> [phase |-> "idle", room |-> NoChat, fresh |-> FALSE, cancelled |-> FALSE],
               mic |-> FALSE, locks |-> [r \in ChatRooms |-> "free"], op |-> Nothing]
    /\ uploads = {} /\ wire = {} /\ posts = {}
    /\ counts = [nonces |-> 0, items |-> 0, changes |-> 0]
    /\ most \in Drafts

RoomOf(p) == IF p = "main" THEN page.room ELSE page.pane
Change == counts.changes < most.changes /\ counts' = [counts EXCEPT !.changes = @ + 1]

-----------------------------------------------------------------------------
(* Leaving a room *)

\* clearPendingAttachments(): a new generation.
ClearPendingAttachments(s) == [s EXCEPT !.items = <<>>, !.recording.fresh = FALSE]
Outdated == {[u EXCEPT !.fresh = FALSE] : u \in uploads}

\* cancelActiveRecording()
CancelActiveRecording(s) ==
    IF s.recording.phase \notin {"recording", "stopping"} THEN s
    ELSE [s EXCEPT !.recording.phase = "stopping", !.recording.cancelled = TRUE]

\* selectRoom(): the pane that showed the room takes the previous one.
OpenRoom(r) ==
    /\ r # page.room /\ Change
    /\ page' = ClearPendingAttachments(CancelActiveRecording(
                  [page EXCEPT !.room = r, !.pane = IF @ = r THEN page.room ELSE @]))
    /\ uploads' = Outdated
    /\ UNCHANGED <<wire, posts>>

\* placeDock(): the room may be the selected one.
DockRoom(r) ==
    /\ page.room # NoChat /\ page.pane = NoChat /\ page.sending["pane"] = Nothing /\ Change
    /\ page' = [page EXCEPT !.pane = r]
    /\ UNCHANGED <<uploads, wire, posts>>

\* showAuth(): the dialogs close, the locks are dropped.  The session is over at the
\* server, so that what is still on its way is refused there.
LogOut ==
    /\ page.room # NoChat /\ page.sending = [p \in Places |-> Nothing] /\ Change
    /\ page' = ClearPendingAttachments(CancelActiveRecording(
                  [page EXCEPT !.room = NoChat, !.pane = NoChat, !.pendingSend = Nothing, !.op = Nothing,
                               !.text = [p \in Places |-> NoText], !.last = [p \in Places |-> Nothing],
                               !.locks = [r \in ChatRooms |-> "free"]]))
    /\ uploads' = Outdated /\ wire' = {}
    /\ UNCHANGED posts

-----------------------------------------------------------------------------
(* Attachments *)

\* The next file of a call of uploadAttachments().
PushItem(s, u) ==
    [s EXCEPT !.items = Append(@, [id |-> u.item, room |-> u.room, status |-> "uploading"])]

\* uploadAttachments() of n files to its first await.
Upload(s, n) ==
    LET u == [room |-> s.room, item |-> counts.items + 1, left |-> n - 1, fresh |-> TRUE]
    IN /\ page' = PushItem(s, u)
       /\ uploads' = uploads \cup {u}
       /\ counts' = [counts EXCEPT !.items = @ + n]

UploadAttachments(n) ==
    /\ page.room # NoChat
    /\ counts.items + n <= most.items
    /\ Upload(page, n)
    /\ UNCHANGED <<wire, posts>>

Marked(s, u, status) ==
    [s EXCEPT !.items = [i \in DOMAIN @ |-> IF @[i].id = u.item THEN [@[i] EXCEPT !.status = status] ELSE @[i]]]

\* The loop stops when the room or the generation is another one, and goes on with
\* the next file otherwise.
UploadReplied(u, s) ==
    LET on == page.room = u.room /\ u.fresh /\ u.left > 0
    IN /\ page' = IF page.room # u.room \/ ~u.fresh THEN page
                  ELSE IF on THEN PushItem(s, [u EXCEPT !.item = @ + 1]) ELSE s
       /\ uploads' = (uploads \ {u}) \cup (IF on THEN {[u EXCEPT !.item = @ + 1, !.left = @ - 1]} ELSE {})

EndUpload(u, status) ==
    /\ u \in uploads
    /\ UploadReplied(u, Marked(page, u, status))
    /\ UNCHANGED <<wire, posts, counts>>

RemoveItem(i) ==
    /\ i \in DOMAIN page.items
    /\ page' = [page EXCEPT !.items = RemoveAt(@, i)]
    /\ UNCHANGED <<uploads, wire, posts, counts>>

-----------------------------------------------------------------------------
(* Voice recordings: toggleRecording() *)

Recording(phase) == page' = [page EXCEPT !.recording.phase = phase]

StartRecording ==
    /\ page.recording.phase = "idle" /\ page.room # NoChat /\ counts.items < most.items
    /\ page' = [page EXCEPT !.recording = [phase |-> "asking", room |-> page.room, fresh |-> TRUE, cancelled |-> FALSE]]
    /\ UNCHANGED <<uploads, wire, posts, counts>>

\* getUserMedia() rejects, or there is no recorder for what it gives.
MicrophoneRefused ==
    /\ page.recording.phase = "asking" /\ Recording("idle")
    /\ UNCHANGED <<uploads, wire, posts, counts>>

\* It resolves: the tracks are stopped again when the room was left meanwhile.
MicrophoneOpens ==
    /\ page.recording.phase = "asking"
    /\ page' = IF page.recording.room # page.room \/ ~page.recording.fresh
               THEN [page EXCEPT !.recording.phase = "idle"]
               ELSE [page EXCEPT !.recording.phase = "recording", !.mic = TRUE]
    /\ UNCHANGED <<uploads, wire, posts, counts>>

\* The button, the time limit, and the cancel button, the size limit and errors.
StopRecording(cancelled) ==
    /\ page.recording.phase = "recording"
    /\ page' = [page EXCEPT !.recording.phase = "stopping", !.recording.cancelled = @ \/ cancelled]
    /\ UNCHANGED <<uploads, wire, posts, counts>>

\* The "stop" event.
RecorderStops ==
    /\ page.recording.phase = "stopping"
    /\ LET s == [page EXCEPT !.recording.phase = "idle", !.mic = FALSE]
           keep == ~page.recording.cancelled /\ page.recording.fresh /\ page.recording.room = page.room
       IN IF keep /\ counts.items < most.items THEN Upload(s, 1)
          ELSE page' = s /\ UNCHANGED <<uploads, counts>>
    /\ UNCHANGED <<wire, posts>>

-----------------------------------------------------------------------------
(* Sending *)

Busy(p) == page.sending[p] # Nothing \/ (RoomOf(p) # NoChat /\ page.locks[RoomOf(p)] # "free")

Type(p, t) ==
    /\ RoomOf(p) # NoChat /\ page.text[p] = NoText /\ page.sending[p] = Nothing
    /\ page' = [page EXCEPT !.text[p] = t]
    /\ UNCHANGED <<uploads, wire, posts, counts>>

Ready == {it \in Elements(page.items) : it.status = "ready"}
Draft(p) ==
    [place |-> p, nonce |-> counts.nonces + 1, room |-> RoomOf(p), text |-> page.text[p],
     items |-> IF p = "main" THEN {it.id : it \in Ready} ELSE {}, intent |-> page.intent + 1]

\* Fault: every submit draws a new nonce.
FreshNonce(m) == m.nonce
\* The nonce of pendingSend is kept for the same signature.
NonceFor(m) == IF m.place = "main" /\ page.pendingSend # Nothing /\ Signature(page.pendingSend) = Signature(m)
               THEN page.pendingSend.nonce ELSE m.nonce

\* A message means the same as the one that was submitted before it and not confirmed.
IntentOf(m) == IF page.last[m.place] # Nothing /\ Signature(page.last[m.place]) = Signature(m)
               THEN page.last[m.place].intent ELSE m.intent

Send(m) ==
    /\ page' = [page EXCEPT !.sending[m.place] = m, !.last[m.place] = m,
                            !.intent = IF m.intent > @ THEN m.intent ELSE @,
                            !.pendingSend = IF m.place = "main" THEN m ELSE @]
    /\ wire' = wire \cup {m}
    /\ counts' = [counts EXCEPT !.nonces = IF m.nonce > @ THEN m.nonce ELSE @]
    /\ UNCHANGED <<uploads, posts>>

\* submitMessage() and submitPane() to their await.
Submit(p) ==
    /\ RoomOf(p) # NoChat /\ ~Busy(p)
    /\ page.text[p] # NoText \/ (p = "main" /\ Ready # {})
    /\ p = "main" => ~\E it \in Elements(page.items) : it.status = "uploading"
    /\ LET d == Draft(p)
           m == [d EXCEPT !.nonce = NonceFor(d), !.intent = IntentOf(d)]
       IN m.nonce <= most.nonces /\ Send(m)

Deliver(m) ==
    /\ m \in wire
    /\ wire' = wire \ {m} /\ posts' = posts \cup {m}
    /\ UNCHANGED <<page, uploads, counts>>
Lose(m) == m \in wire /\ wire' = wire \ {m} /\ UNCHANGED <<page, uploads, posts, counts>>

\* api() sends a request once more that failed: the body, and the nonce, are the same.
Retry(p) ==
    /\ page.sending[p] # Nothing /\ page.sending[p] \notin wire
    /\ wire' = wire \cup {page.sending[p]}
    /\ UNCHANGED <<page, uploads, posts, counts>>

\* The answer clears whatever the composer holds by now.
Confirmed(s, p) ==
    LET done == [s EXCEPT !.sending[p] = Nothing, !.last[p] = Nothing, !.text[p] = NoText]
    IN IF p = "main" THEN ClearPendingAttachments([done EXCEPT !.pendingSend = Nothing]) ELSE done

SendConfirmed(p) ==
    /\ page.sending[p] # Nothing /\ page.sending[p] \in posts
    /\ page' = Confirmed(page, p)
    /\ uploads' = IF p = "main" THEN Outdated ELSE uploads
    /\ UNCHANGED <<wire, posts, counts>>

SendFails(p) ==
    /\ page.sending[p] # Nothing
    /\ page' = [page EXCEPT !.sending[p] = Nothing]
    /\ UNCHANGED <<uploads, wire, posts, counts>>

-----------------------------------------------------------------------------
(* Changing the model of a room: requestModelChange() *)

StillCurrent(o) == RoomOf(o.place) = o.room

RequestModelChange(p) ==
    /\ RoomOf(p) # NoChat /\ ~Busy(p) /\ page.op = Nothing /\ Change
    /\ page' = [page EXCEPT !.op = [place |-> p, room |-> RoomOf(p), phase |-> "asking"],
                            !.locks[RoomOf(p)] = "held"]
    /\ UNCHANGED <<uploads, wire, posts>>

\* finally: the lock is released.
EndModelChange(o) == page' = [page EXCEPT !.op = Nothing, !.locks[o.room] = "free"]

MayReset(o) == page.sending[o.place] = Nothing

\* The dialog: change and keep the context, change and reset it, or cancel.
ChooseModel(choice) ==
    /\ page.op # Nothing /\ page.op.phase = "asking"
    /\ IF choice = "reset" /\ StillCurrent(page.op) /\ MayReset(page.op)
       THEN page' = [page EXCEPT !.op.phase = "resetting"]
       ELSE EndModelChange(page.op)
    /\ UNCHANGED <<uploads, wire, posts, counts>>

ContextReset ==
    /\ page.op # Nothing /\ page.op.phase = "resetting"
    /\ EndModelChange(page.op)
    /\ UNCHANGED <<uploads, wire, posts, counts>>

-----------------------------------------------------------------------------
ComposerSteps ==
    \/ \E r \in ChatRooms : OpenRoom(r) \/ DockRoom(r)
    \/ LogOut
    \/ \E n \in 1..2 : UploadAttachments(n)
    \/ \E u \in uploads, st \in {"ready", "failed"} : EndUpload(u, st)
    \/ \E i \in 1..MaxItems : RemoveItem(i)
    \/ StartRecording \/ MicrophoneRefused \/ MicrophoneOpens \/ RecorderStops
    \/ \E c \in BOOLEAN : StopRecording(c)
    \/ \E p \in Places : \/ \E t \in Texts : Type(p, t)
                         \/ Submit(p) \/ Retry(p) \/ SendConfirmed(p) \/ SendFails(p) \/ RequestModelChange(p)
    \/ \E m \in wire : Deliver(m) \/ Lose(m)
    \/ \E c \in {"keep", "reset", "cancel"} : ChooseModel(c)
    \/ ContextReset

ComposerNext == ComposerSteps /\ UNCHANGED most

-----------------------------------------------------------------------------
(* Properties *)

ComposerTypeOK ==
    /\ page.items \in Seq(Items) /\ uploads \subseteq Uploads
    /\ wire \subseteq Messages /\ posts \subseteq Messages

\* However often a message is retried, by api() or by pressing send again, and however
\* late a request arrives that was given up, the room gets what was meant once.
\* (submitMessage; submitPane draws a new nonce on each press, so not in a pane.)  And
\* nothing is attached that was chosen or recorded in another room.
MeantOnce ==
    /\ \A m, n \in posts : m.place = "main" /\ n.place = "main" /\ m.intent = n.intent => m.nonce = n.nonce
    /\ \A i \in DOMAIN page.items : page.items[i].room = page.room
=============================================================================
