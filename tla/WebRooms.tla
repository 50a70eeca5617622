------------------------------ MODULE WebRooms ------------------------------
(***************************************************************************)
(* The conversations a browser shows: apps/community/public/app.js.        *)
(*                                                                         *)
(* The page keeps one session, the list of its rooms, one selected room    *)
(* and the extra panes of a split view.  Everything it shows arrives late: *)
(* a request captures the user, the room and a request number, awaits, and *)
(* looks at them again before it writes its answer into the page, while    *)
(* clicks, other answers, a logout and the next login happen in between.   *)
(*                                                                         *)
(* The page is the record `web'.  JavaScript runs one callback at a time,  *)
(* so that an action is a callback up to its next await and the functions  *)
(* it calls are operators from page to page.  A request number is only     *)
(* compared with the current one: a call in flight carries whether it is   *)
(* the `latest' of its kind and whether the sidebarEpoch it was made in is *)
(* still `current'.                                                        *)
(***************************************************************************)
EXTENDS Filters

CONSTANTS
    Users, Rooms, None,
    OldRooms,    \* rooms that may exist when the page is loaded
    MaxVersion,  \* how often the rooms change
    MaxExtra,    \* how many extra panes there may be
    MaxCalls,    \* no click and no timer adds a request to so many
    Budgets      \* how many clicks and failures there are, with how many extra panes

ASSUME BoundsAssumption ==
    /\ OldRooms \subseteq Rooms /\ MaxVersion \in Nat /\ MaxExtra \in Nat /\ MaxCalls \in Nat
    /\ Budgets \subseteq [clicks : Nat, panes : 0..MaxExtra]
    /\ None \notin Users \cup Rooms

VARIABLES
    web,   \* the page: `state', the polling timer, the progress streams, the calls
    srv,   \* what the server holds: versions, running jobs, sessions, memberships
    budget \* how many clicks and failures are left, and how many panes there may be

roomsVars == <<web, srv, budget>>

PaneIds == 1..MaxExtra + 1
Kinds == {"session", "rooms", "room", "extra", "new", "login", "logout", "archive"}
\* An answer of GET /api/rooms/:id, and who it was given to.
Answers == [room : Rooms, user : Users, ver : 0..MaxVersion, busy : BOOLEAN]
\* An extra pane; `data' is the answer it shows, `busy' its request in flight.
Panes == [id : PaneIds, room : Rooms \cup {None}, data : Answers \cup {None}, busy : BOOLEAN]
\* An answer of GET /api/rooms: what the user is a member of, and has archived.
Lists == [member : SUBSET Rooms, archived : SUBSET Rooms]
\* room: the room the request is about, or that loadRooms() is followed by selecting;
\* pane, at: the pane that asks, 0 once it is closed, and its index; reply: "none" until the server has handled it, and what it says, with
\* what it gives.
Calls == [kind : Kinds, room : Rooms \cup {None}, user : Users \cup {None}, pane : PaneIds \cup {0}, at : 0..MaxExtra,
          latest : BOOLEAN, current : BOOLEAN, select : BOOLEAN,
          reply : {"none", "ok", "anon", "denied", "expired", "failed"}, got : Answers \cup Lists \cup Users \cup {None}]

Elems(s) == {s[i] : i \in DOMAIN s}

-----------------------------------------------------------------------------
(* Requests *)

Call(s, kind, room) ==
    [kind |-> kind, room |-> room, user |-> s.user, pane |-> 0, at |-> 0,
     latest |-> TRUE, current |-> TRUE, select |-> FALSE, reply |-> "none", got |-> None]

\* The calls of a kind (of some panes) are no longer the latest: the request number moved on.
Superseded(cs, kind, panes) ==
    {IF c.kind = kind /\ c.pane \in panes THEN [c EXCEPT !.latest = FALSE] ELSE c : c \in cs}

Request(s, c) == [s EXCEPT !.calls = @ \cup {c}]

NoStreams == [r \in {} |-> "open"]

\* The page is loaded, and asks who is logged in.  nobodys is a ghost: the answer it shows
\* was asked for while nobody was logged in.
Page == [user |-> None, rooms |-> {}, archived |-> {}, selected |-> None, data |-> None, nobodys |-> FALSE,
         pollBusy |-> FALSE, polling |-> FALSE, extra |-> <<>>, streams |-> NoStreams,
         calls |-> {}, creating |-> FALSE]
RoomsInit ==
    /\ web = Request(Page, Call(Page, "session", None))
    /\ srv \in [ver : {[r \in Rooms |-> 0]}, busy : SUBSET Rooms, session : Users \cup {None},
                member : {[u \in Users |-> m] : m \in SUBSET OldRooms}, archived : {[u \in Users |-> {}]}]
    /\ budget \in Budgets

-----------------------------------------------------------------------------
(* Progress streams: a room that is shown and busy has one EventSource. *)

VisibleProgressRooms(s) ==
    {r \in Rooms : /\ s.user # None
                   /\ \/ s.selected = r /\ s.data # None /\ s.data.busy
                      \/ \E p \in Elems(s.extra) :
                            p.room = r /\ p.data # None /\ p.data.room = r /\ p.data.busy}

\* An entry is "open", waits for its retryAt, or is "due" to be opened by the next sync.
SyncProgressStreams(s) ==
    [s EXCEPT !.streams =
        [r \in VisibleProgressRooms(s) |->
            IF r \in DOMAIN s.streams /\ s.streams[r] = "wait" THEN "wait" ELSE "open"]]

StopPolling(s) == [s EXCEPT !.polling = FALSE, !.streams = NoStreams]

-----------------------------------------------------------------------------
(* Refreshing the selected room and the extra panes *)

RefreshRoom(s, force, select) ==
    IF s.selected = None \/ (s.pollBusy /\ ~force)
    THEN s
    ELSE [s EXCEPT !.pollBusy = TRUE,
                   !.calls = Superseded(@, "room", {0}) \cup
                             {[Call(s, "room", s.selected) EXCEPT !.select = select]}]

PaneCall(s, i) == [Call(s, "extra", s.extra[i].room) EXCEPT !.pane = s.extra[i].id, !.at = i]

\* refreshExtra() for the panes at the indexes in is.
RefreshPanes(s, is) ==
    LET free == {i \in is \cap DOMAIN s.extra : s.extra[i].room # None /\ ~s.extra[i].busy}
    IN [s EXCEPT !.extra = [i \in DOMAIN @ |-> IF i \in free THEN [@[i] EXCEPT !.busy = TRUE] ELSE @[i]],
                 !.calls = Superseded(@, "extra", {s.extra[i].id : i \in free}) \cup
                           {PaneCall(s, i) : i \in free}]

RefreshExtras(s) == RefreshPanes(s, DOMAIN s.extra)

\* The calls of a pane that is gone have no pane.
Detached(cs, ids) == {IF c.pane \in ids THEN c ELSE [c EXCEPT !.pane = 0] : c \in cs}

\* state.extra = panes; renderExtraPanes()
WithPanes(s, panes) ==
    SyncProgressStreams([s EXCEPT !.extra = panes, !.calls = Detached(@, {p.id : p \in Elems(panes)})])

-----------------------------------------------------------------------------
(* Selecting *)

\* Fault: the data of the room that is left stays until the answer arrives.
SelectRoomKeepingData(s, id) ==
    RefreshRoom(RefreshExtras(SyncProgressStreams([s EXCEPT !.selected = id])), TRUE, TRUE)

\* selectRoom() to its await.  A pane that showed the room takes the previous one,
\* and keeps the data it has.
SelectRoom(s, id) ==
    LET other == IF s.selected # id THEN s.selected ELSE None
        moved == [s EXCEPT !.extra = [i \in DOMAIN @ |-> IF @[i].room = id THEN [@[i] EXCEPT !.room = other]
                                                                       ELSE @[i]],
                           !.selected = id, !.data = None]
        synced == SyncProgressStreams(moved)
    IN RefreshRoom(RefreshExtras(synced), TRUE, TRUE)

ShowEmpty(s) == StopPolling([s EXCEPT !.selected = None])

\* loadRooms() to its await; r is the room its caller selects afterwards, or None.
LoadRooms(s, r) == IF s.user # None THEN Request(s, Call(s, "rooms", r))
                   ELSE IF r # None THEN SelectRoom(s, r) ELSE s

-----------------------------------------------------------------------------
(* Sessions *)

\* sidebarEpoch += 1, roomRequest += 1: no call in flight is current any more.
Forgotten(cs) == 
    {[c EXCEPT !.current = FALSE, !.pane = 0, !.latest = (@ /\ c.kind # "room")] : c \in cs}

\* state.session = null; showAuth()
ShowAuth(s) ==
    [StopPolling(s) EXCEPT !.user = None, !.selected = None, !.data = None, !.rooms = {}, !.archived = {},
                           !.extra = <<>>, !.pollBusy = FALSE, !.calls = Forgotten(@)]

\* enterWorkspace() to its first await.
EnterWorkspace(s, u) ==
    LoadRooms([s EXCEPT !.user = u, !.calls = {[c EXCEPT !.current = FALSE] : c \in @}], None)

-----------------------------------------------------------------------------
(* Clicks *)

Click == budget.clicks > 0 /\ budget' = [budget EXCEPT !.clicks = @ - 1]
MoreCalls(s) == Cardinality(s.calls) < MaxCalls

\* What a click may start while the server is as it is.
User(next) == Click /\ MoreCalls(web) /\ web' = next /\ UNCHANGED srv

\* loadSession() on the retry button, after a failure.
LoadSession ==
    /\ web.user = None
    /\ ~\E c \in web.calls : c.kind \in {"session", "login"}
    /\ User(Request(web, Call(web, "session", None)))

\* authSubmit(): the submit button is disabled while a request is in flight.
AuthSubmit(u) ==
    /\ web.user = None
    /\ ~\E c \in web.calls : c.kind \in {"login", "session"}
    /\ User(Request(web, [Call(web, "login", None) EXCEPT !.user = u]))

Logout ==
    /\ web.user # None
    /\ User(Request(web, Call(web, "logout", None)))

ClickRoom(r) ==
    /\ web.user # None /\ r \in web.rooms
    /\ User(SelectRoom(web, r))

StartNewSession(r) ==
    /\ web.user # None /\ ~web.creating
    /\ \A u \in Users : r \notin srv.member[u]
    /\ User(Request([web EXCEPT !.creating = TRUE], Call(web, "new", r)))

\* updateRoomListPreference(room, {archived: true})
Archive(r) ==
    /\ web.user # None /\ r \in web.rooms \ web.archived
    /\ User(Request(web, Call(web, "archive", r)))

FreshId(s) == CHOOSE i \in PaneIds : i \notin {p.id : p \in Elems(s.extra)}
NewPane(s, r) == [id |-> FreshId(s), room |-> r, data |-> None, busy |-> FALSE]

\* showAuth() hides the panes and what is clicked to arrange them.
\* setLayout() of the count that is on, which closes the split view.
CloseSplit == web.user # None /\ web.extra # <<>> /\ User(WithPanes(web, <<>>))

\* setLayout(n + 1) of another count: new panes for the other rooms, as far as they go.
SetLayout(n) ==
    /\ web.user # None /\ web.selected # None /\ n <= budget.panes
    /\ \E q \in [1..n -> web.rooms \cup {None}] :
          /\ \A i, j \in 1..n : q[i] # None /\ q[i] = q[j] => i = j
          /\ web.selected \notin Elems(q)
          /\ None \in Elems(q) => web.rooms \ {web.selected} \subseteq Elems(q)
          /\ User(RefreshExtras(WithPanes([web EXCEPT !.calls = Detached(@, {})],
                                          [i \in 1..n |-> [NewPane(web, q[i]) EXCEPT !.id = i]])))

\* placeDock() of a room from the list: it may already be shown.
PlaceDock(r) ==
    /\ web.user # None /\ web.selected # None /\ r \in web.rooms
    /\ Len(web.extra) < budget.panes
    /\ User(RefreshExtras(WithPanes(web, Append(web.extra, NewPane(web, r)))))

\* assignExtra(): another pane that showed the room takes the one of this pane.
AssignExtra(i, r) ==
    /\ web.user # None /\ i \in DOMAIN web.extra /\ r \in web.rooms /\ r # web.selected
    /\ LET panes == [j \in DOMAIN web.extra |->
                        IF j = i THEN [web.extra[j] EXCEPT !.room = r, !.data = None, !.busy = FALSE]
                        ELSE IF web.extra[j].room = r THEN [web.extra[j] EXCEPT !.room = web.extra[i].room]
                        ELSE web.extra[j]]
       IN User(RefreshPanes(WithPanes(web, panes), {i}))

\* closeDockPane(): closing the main pane, 0, promotes the first extra one.
CloseDockPane(i) ==
    /\ web.user # None /\ web.extra # <<>> /\ i \in 0..Len(web.extra)
    /\ LET kept == WithPanes(web, Kept(web.extra, DOMAIN web.extra \ {IF i = 0 THEN 1 ELSE i}))
       IN User(IF i = 0 /\ web.extra[1].room # None THEN SelectRoom(kept, web.extra[1].room) ELSE kept)

-----------------------------------------------------------------------------
(* The polling timer, and the retry times of the streams *)

PollTick ==
    /\ web.polling
    /\ MoreCalls(web)
    /\ web' = RefreshExtras(RefreshRoom(web, FALSE, FALSE))
    /\ UNCHANGED <<srv, budget>>

\* The stream of r has waited for its retryAt: the next sync opens it again.
RetryDue(r) ==
    /\ r \in DOMAIN web.streams /\ web.streams[r] = "wait"
    /\ web' = [web EXCEPT !.streams[r] = "due"]
    /\ UNCHANGED <<srv, budget>>

\* refreshProgressRoom()
RefreshProgressRoom(s, r) ==
    RefreshPanes(IF s.selected = r THEN RefreshRoom(s, TRUE, FALSE) ELSE s, {i \in DOMAIN s.extra : s.extra[i].room = r})

\* The "done" event of a stream, which the server sends when no job runs.
StreamDone(r) ==
    /\ r \in DOMAIN web.streams /\ web.streams[r] = "open" /\ r \notin srv.busy
    /\ MoreCalls(web)
    /\ web' = RefreshProgressRoom([web EXCEPT !.streams[r] = "wait"], r)
    /\ UNCHANGED <<srv, budget>>

\* Its "error" event.
StreamError(r) ==
    /\ r \in DOMAIN web.streams /\ web.streams[r] = "open"
    /\ User(RefreshProgressRoom([web EXCEPT !.streams[r] = "wait"], r))

-----------------------------------------------------------------------------
(* The server, as far as the page can tell: apps/community/server.mjs *)

Ok(v) == [reply |-> "ok", got |-> v]
No(reply) == [reply |-> reply, got |-> None]

Answer(c) ==
    CASE c.kind = "session" -> IF srv.session = None THEN No("anon") ELSE Ok(srv.session)
      [] c.kind = "login" -> Ok(c.user)
      [] c.kind \notin {"session", "login"} /\ srv.session = None -> No("expired")
      [] c.kind \in {"room", "extra"} /\ srv.session # None ->
            IF c.room \notin srv.member[srv.session] THEN No("denied")
            ELSE Ok([room |-> c.room, user |-> srv.session, ver |-> srv.ver[c.room], busy |-> c.room \in srv.busy])
      [] c.kind = "rooms" /\ srv.session # None ->
            Ok([member |-> srv.member[srv.session], archived |-> srv.archived[srv.session]])
      [] OTHER -> Ok(srv.session)

Answered(c) == [c EXCEPT !.reply = Answer(c).reply, !.got = Answer(c).got]

\* What handling the call does to the server.
Effect(c) ==
    CASE c.kind = "login" -> [srv EXCEPT !.session = c.user]
      [] c.kind = "logout" -> [srv EXCEPT !.session = None]
      [] c.kind = "archive" /\ srv.session # None -> [srv EXCEPT !.archived[srv.session] = @ \cup {c.room}]
      [] c.kind = "new" /\ srv.session # None -> [srv EXCEPT !.member[srv.session] = @ \cup {c.room}]
      [] OTHER -> srv

\* An answer with the content of a room is a snapshot of when the server handled the
\* request; the others are handled when they are answered.
Snapshots == {"room", "extra"}
Serve(c) ==
    /\ c \in web.calls /\ c.kind \in Snapshots /\ c.reply = "none"
    /\ web' = [web EXCEPT !.calls = (@ \ {c}) \cup {Answered(c)}]
    /\ UNCHANGED <<srv, budget>>

\* The request never reached the server, or the server failed.
Fail(c) ==
    /\ c \in web.calls /\ c.reply = "none" /\ Click
    /\ web' = [web EXCEPT !.calls = (@ \ {c}) \cup {[c EXCEPT !.reply = "failed"]}]
    /\ UNCHANGED srv

\* A message arrives in a room, or its job ends.
RoomChanges(r) ==
    /\ \A q \in Rooms : srv.ver[q] < MaxVersion
    /\ \E b \in SUBSET {r} : srv' = [srv EXCEPT !.ver[r] = @ + 1, !.busy = (@ \ {r}) \cup b]
    /\ UNCHANGED <<web, budget>>

\* A session expires or is revoked, or a member leaves a room.
SessionEnds == srv.session # None /\ Click /\ srv' = [srv EXCEPT !.session = None] /\ UNCHANGED web
MemberLeaves(u, r) ==
    /\ r \in srv.member[u] /\ Click
    /\ srv' = [srv EXCEPT !.member[u] = @ \ {r}]
    /\ UNCHANGED web

-----------------------------------------------------------------------------
(* Answers.  s is the page without the call c that ends. *)

\* Fault: a request that failed holds the next ones back.
SettledUnlessFailed(s, c) ==
    LET free == IF c.latest /\ c.reply = "ok" THEN [s EXCEPT !.pollBusy = FALSE] ELSE s
    IN IF c.select THEN [free EXCEPT !.polling = TRUE] ELSE free

\* The rest of selectRoom() after its await, and the finally of refreshRoom().
Settled(s, c) ==
    LET free == IF c.latest THEN [s EXCEPT !.pollBusy = FALSE] ELSE s
    IN IF c.select THEN [free EXCEPT !.polling = TRUE] ELSE free

\* Fault: any answer for the selected room is taken.
RoomRepliedUnchecked(s, c) ==
    Settled(IF c.reply = "ok" /\ s.selected = c.room /\ s.user = c.user
            THEN SyncProgressStreams([s EXCEPT !.data = c.got, !.nobodys = (c.user = None)]) ELSE s, c)

RoomReplied(s, c) ==
    CASE c.reply = "ok" /\ s.selected = c.room /\ s.user = c.user /\ c.latest ->
            Settled(SyncProgressStreams([s EXCEPT !.data = c.got, !.nobodys = (c.user = None)]), c)
      [] c.reply = "expired" /\ c.latest -> Settled(ShowAuth(s), [c EXCEPT !.latest = FALSE])
      [] c.reply = "denied" /\ c.latest -> Settled(SyncProgressStreams([s EXCEPT !.data = None]), c)
      [] OTHER -> Settled(s, c)

\* The panes whose pane object made the call: a pane that was closed is in none.
PanesOf(s, c) == {i \in DOMAIN s.extra : s.extra[i].id = c.pane /\ c.current}

\* The panes at the indexes in is await nothing, or show v.
Freed(s, is) == [s EXCEPT !.extra = [i \in DOMAIN @ |-> IF i \in is THEN [@[i] EXCEPT !.busy = FALSE] ELSE @[i]]]
Showing(s, is, v) == [s EXCEPT !.extra = [i \in DOMAIN @ |-> IF i \in is THEN [@[i] EXCEPT !.data = v] ELSE @[i]]]

ExtraReplied(s, c) ==
    LET free == IF c.latest THEN Freed(s, PanesOf(s, c)) ELSE s
    IN CASE c.reply = "ok" /\ c.latest /\ s.user = c.user
            /\ \E i \in PanesOf(s, c) : i = c.at /\ s.extra[i].room = c.room -> SyncProgressStreams(Showing(free, PanesOf(s, c), c.got))
         [] c.reply = "expired" /\ c.latest -> ShowAuth(s)
         [] c.reply = "denied" /\ c.latest -> SyncProgressStreams(Showing(free, PanesOf(s, c), None))
         [] OTHER -> free

\* The rooms of which the page selects one: those that are not archived, if any.
Selectable(s) == IF s.rooms \subseteq s.archived THEN s.rooms ELSE s.rooms \ s.archived

\* Of the candidates, the one the page was asked for, remembers or finds first.
Pick(rs, r) == IF r \in rs THEN r ELSE CHOOSE q \in rs : TRUE

\* loadRooms() after its await; it selects a room unless a listed one is selected.
Listed(s, c, r) ==
    IF c.reply # "ok" \/ ~c.current THEN s
    ELSE LET listed == [s EXCEPT !.rooms = c.got.member, !.archived = c.got.archived]
         IN IF listed.rooms = {} THEN ShowEmpty(listed)
            ELSE IF s.selected \in listed.rooms THEN listed
            ELSE SelectRoom(listed, Pick(Selectable(listed), r))

RoomsReplied(s, c, r) == IF c.room = None THEN Listed(s, c, r) ELSE SelectRoom(Listed(s, c, r), c.room)

\* updateRoomListPreference() after its await.
ArchiveReplied(s, c, r) ==
    IF c.reply # "ok" \/ ~c.current \/ c.room \notin s.rooms THEN s
    ELSE LET kept == [s EXCEPT !.archived = @ \cup {c.room}]
             left == IF s.selected # c.room THEN kept
                     ELSE IF kept.rooms \subseteq kept.archived THEN ShowEmpty(kept)
                     ELSE SelectRoom(kept, Pick(Selectable(kept), r))
         IN WithPanes(left, Kept(left.extra, {i \in DOMAIN left.extra : left.extra[i].room # c.room}))

\* startNewSession(): loadRooms() and selectRoom() follow, whoever is logged in by now.
NewReplied(s, c) ==
    LET done == [s EXCEPT !.creating = FALSE]
    IN IF c.reply # "ok" THEN done ELSE LoadRooms(done, c.room)

Replied(s, c, r) ==
    CASE c.kind = "room" -> RoomReplied(s, c)
      [] c.kind = "extra" -> ExtraReplied(s, c)
      [] c.kind = "rooms" -> RoomsReplied(s, c, r)
      [] c.kind = "archive" -> ArchiveReplied(s, c, r)
      [] c.kind = "new" -> NewReplied(s, c)
      [] c.kind \in {"session", "login"} /\ c.reply = "ok" -> EnterWorkspace(s, c.got)
      [] c.kind = "session" /\ c.reply = "anon" -> ShowAuth(s)
      [] c.kind = "logout" /\ c.reply = "ok" -> ShowAuth(s)
      [] OTHER -> s

Reply(c) ==
    /\ c \in web.calls /\ (c.reply # "none" \/ c.kind \notin Snapshots)
    /\ LET d == IF c.reply = "none" THEN Answered(c) ELSE c
           s == [web EXCEPT !.calls = @ \ {c}]
       IN /\ web' \in {Replied(s, d, r) : r \in Rooms}
          /\ srv' = IF c.reply = "none" THEN Effect(c) ELSE srv
    /\ UNCHANGED budget

-----------------------------------------------------------------------------
UserActs ==
    \/ LoadSession \/ Logout \/ CloseSplit
    \/ \E u \in Users : AuthSubmit(u)
    \/ \E r \in Rooms : ClickRoom(r) \/ StartNewSession(r) \/ Archive(r) \/ PlaceDock(r)
    \/ \E n \in 1..MaxExtra : SetLayout(n)
    \/ \E i \in 0..MaxExtra : CloseDockPane(i) \/ \E r \in Rooms : AssignExtra(i, r)

ServerActs ==
    \/ \E c \in web.calls : Serve(c) \/ Fail(c)
    \/ SessionEnds
    \/ \E r \in Rooms : RoomChanges(r) \/ \E u \in Users : MemberLeaves(u, r)

Timers == PollTick \/ \E r \in Rooms : RetryDue(r) \/ StreamDone(r) \/ StreamError(r)

Replies == \E c \in web.calls : Reply(c)

RoomsNext == UserActs \/ ServerActs \/ Timers \/ Replies

-----------------------------------------------------------------------------
(* Properties *)

RoomsTypeOK ==
    /\ web.user \in Users \cup {None} /\ web.selected \in Rooms \cup {None}
    /\ web.rooms \subseteq Rooms /\ web.archived \subseteq Rooms
    /\ web.data \in Answers \cup {None} /\ web.extra \in Seq(Panes) /\ Len(web.extra) <= MaxExtra
    /\ web.calls \subseteq Calls
    /\ \A i, j \in DOMAIN web.extra : web.extra[i].id = web.extra[j].id => i = j

\* What the main pane shows is the selected room, as the user who is logged in may
\* see it: never the room that was left, never the previous user's answer (refreshRoom).
\* What was asked for while nobody was logged in is for whoever has the cookie: that is
\* when an old pane's answer has logged out a page whose session goes on.
MainPaneIsCurrent ==
    web.data # None =>
        /\ web.data.user = web.user \/ web.nobodys
        /\ web.selected # None => web.data.room = web.selected

\* A pane that keeps its room and user never goes back to an older answer, in
\* whatever order the answers to polls, clicks and stream events arrive.
NotOlder(d, e) == d # None /\ e # None /\ d.room = e.room /\ d.user = e.user => e.ver >= d.ver
ViewNeverGoesBack ==
    [][/\ NotOlder(web.data, web'.data)
       /\ \A p \in Elems(web.extra), q \in Elems(web'.extra) : p.id = q.id /\ p.room = q.room => NotOlder(p.data, q.data)]_roomsVars

\* Refreshing never wedges: what holds a refresh back is a request in flight whose
\* answer will release it (pollBusy, pane.busy), and the room a user has open is
\* polled, or will be when the answer it waits for arrives (refreshRoom, selectRoom).
RefreshNeverWedges ==
    /\ web.pollBusy => \E c \in web.calls : c.kind = "room" /\ c.latest
    /\ \A p \in Elems(web.extra) : p.busy => \E c \in web.calls : c.pane = p.id /\ c.latest
    /\ web.user # None /\ web.selected # None =>
          web.polling \/ \E c \in web.calls : c.kind = "room" /\ c.select
=============================================================================
