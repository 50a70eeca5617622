----------------------------- MODULE WebSidebar -----------------------------
(***************************************************************************)
(* The sidebar of apps/community/public/app.js - its width and the groups  *)
(* rooms are sorted into - and apps/community/sidebar.mjs, which keeps it. *)
(*                                                                         *)
(* saveSidebar() shows an edit at once, writes the configurations one      *)
(* after the other, and falls back to the last confirmed one when the      *)
(* newest write fails.  A room's group is a preference of its own, saved   *)
(* by requests the write queue does not order.  A configuration is the set *)
(* of group ids and the width; it carries the user it was made for, and a  *)
(* write whether it is the newest revision and its session still current.  *)
(***************************************************************************)
EXTENDS Naturals, Sequences, FiniteSets

CONSTANTS
    Owners, Groups, Widths, NoOne, NoGroup, DefaultWidth,
    MaxGroups,  \* how many groups there may be
    MaxEdits    \* how many edits, moves and logins there are

ASSUME SidebarAssumption == DefaultWidth \in Widths /\ MaxGroups \in Nat /\ MaxEdits \in Nat

VARIABLES
    bar,    \* the page: sidebarState, sidebarConfirmed, the preview, the write queue
    stored, \* the server: the configuration and the room's group of each user
    edits

sidebarVars == <<bar, stored, edits>>

Configs == [owner : Owners \cup {NoOne}, groups : SUBSET Groups, width : Widths]
Default(u) == [owner |-> u, groups |-> {}, width |-> DefaultWidth]
Writes == [config : Configs, drop : Groups \cup {NoGroup}, phase : {"queued", "sent", "applied"},
           newest : BOOLEAN, current : BOOLEAN, cookie : Owners \cup {NoOne}]

SidebarInit ==
    /\ bar = [user |-> NoOne, state |-> Default(NoOne), confirmed |-> Default(NoOne), loaded |-> FALSE,
              preview |-> DefaultWidth, drag |-> "none", queue |-> <<>>, loading |-> FALSE,
              group |-> NoGroup, moves |-> {}, unsure |-> FALSE]
    /\ stored = [config |-> [u \in Owners |-> Default(u)], group |-> [u \in Owners |-> NoGroup]]
    /\ edits = 0

Edit == edits < MaxEdits /\ edits' = edits + 1

-----------------------------------------------------------------------------
(* Sessions *)

\* Every write in flight belongs to an earlier sidebarEpoch now, and its cookie to a
\* session the server has ended.
Stale(ws) == [i \in DOMAIN ws |-> [ws[i] EXCEPT !.current = FALSE, !.cookie = NoOne]]

\* resetSidebarState(u)
ResetSidebarState(u) ==
    bar' = [bar EXCEPT !.user = u, !.state = Default(u), !.confirmed = Default(u), !.loaded = FALSE,
                       !.preview = DefaultWidth, !.drag = IF @ = "none" THEN @ ELSE "stale",
                       !.queue = Stale(@), !.loading = (u # NoOne), !.unsure = FALSE,
                       !.group = IF u = NoOne THEN NoGroup ELSE stored.group[u],
                       !.moves = {[m EXCEPT !.current = FALSE] : m \in @}]

EnterSidebar(u) == bar.user = NoOne /\ Edit /\ ResetSidebarState(u) /\ UNCHANGED stored
LeaveSidebar == bar.user # NoOne /\ ResetSidebarState(NoOne) /\ UNCHANGED <<stored, edits>>

\* loadSidebar() after its await: a failure leaves the sidebar unloaded.
SidebarLoads ==
    /\ bar.loading
    /\ \/ bar' = [bar EXCEPT !.loading = FALSE, !.loaded = TRUE,
                             !.state = stored.config[bar.user], !.confirmed = stored.config[bar.user]]
       \/ bar' = [bar EXCEPT !.loading = FALSE]
    /\ UNCHANGED <<stored, edits>>

-----------------------------------------------------------------------------
(* Edits *)

Write(c, g) == [config |-> c, drop |-> g, phase |-> "queued", newest |-> TRUE, current |-> TRUE, cookie |-> NoOne]

\* saveSidebar(c) to its await; g is the group the edit deletes.
SaveSidebar(s, c, g) ==
    [s EXCEPT !.state = c,
              !.queue = Append([i \in DOMAIN @ |-> [@[i] EXCEPT !.newest = FALSE]], Write(c, g))]

CreateGroup(g) ==
    /\ bar.loaded /\ Cardinality(bar.state.groups) < MaxGroups
    /\ g \notin bar.state.groups \cup stored.config[bar.user].groups
    /\ Edit
    /\ bar' = SaveSidebar(bar, [bar.state EXCEPT !.groups = @ \cup {g}], NoGroup)
    /\ UNCHANGED stored

DeleteGroup(g) ==
    /\ bar.loaded /\ g \in bar.state.groups /\ Edit
    /\ bar' = SaveSidebar(bar, [bar.state EXCEPT !.groups = @ \ {g}], g)
    /\ UNCHANGED stored

\* A pointer drag of the handle: it previews a width and commits it when it ends.
BeginDrag == bar.loaded /\ bar.drag = "none" /\ bar' = [bar EXCEPT !.drag = "current"] /\ UNCHANGED <<stored, edits>>
MoveDrag(w) ==
    /\ bar.drag # "none"
    /\ bar' = IF bar.drag = "stale" THEN [bar EXCEPT !.drag = "none"] ELSE [bar EXCEPT !.preview = w]
    /\ UNCHANGED <<stored, edits>>

\* commitSidebarWidth() of a drag whose session is still there.
FinishDrag ==
    /\ bar.drag # "none" /\ Edit
    /\ LET done == [bar EXCEPT !.drag = "none", !.preview = DefaultWidth]
       IN bar' = IF bar.drag = "current" /\ bar.loaded /\ bar.preview # bar.state.width
                 THEN SaveSidebar(done, [bar.state EXCEPT !.width = bar.preview], NoGroup)
                 ELSE done
    /\ UNCHANGED stored
CancelDrag == bar.drag # "none" /\ bar' = [bar EXCEPT !.drag = "none", !.preview = DefaultWidth] /\ UNCHANGED <<stored, edits>>

-----------------------------------------------------------------------------
(* The write queue *)

\* The head of the queue is sent, unless its session is over.
StartWrite ==
    /\ bar.queue # <<>> /\ Head(bar.queue).phase = "queued"
    /\ bar' = IF Head(bar.queue).current THEN [bar EXCEPT !.queue[1] = [@ EXCEPT !.phase = "sent", !.cookie = bar.user]]
                                         ELSE [bar EXCEPT !.queue = Tail(@)]
    /\ UNCHANGED <<stored, edits>>

\* sidebarStore.write(): one transaction with the preferences of the user's rooms.
StoreWrite(u, c) ==
    [stored EXCEPT !.config[u] = c, !.group[u] = IF @ \in c.groups THEN @ ELSE NoGroup]

ServeWrite ==
    /\ bar.queue # <<>> /\ Head(bar.queue).phase = "sent" /\ Head(bar.queue).cookie # NoOne
    /\ bar' = [bar EXCEPT !.queue[1] = [@ EXCEPT !.phase = "applied"]]
    /\ stored' = StoreWrite(Head(bar.queue).cookie, Head(bar.queue).config)
    /\ UNCHANGED edits

\* Fault: only the newest write is remembered as confirmed.
WriteSavedIfNewest(w, s) ==
    IF w.newest THEN [s EXCEPT !.confirmed = w.config, !.unsure = FALSE, !.state = w.config] ELSE s

WriteSaved(w, s) ==
    LET saved == [s EXCEPT !.confirmed = w.config, !.unsure = FALSE,
                           !.state = IF w.newest THEN w.config ELSE @]
    IN [saved EXCEPT !.group = IF w.drop # NoGroup /\ @ = w.drop THEN NoGroup ELSE @]

\* The newest edit falls back to what was confirmed.
WriteFailed(w, s) ==
    [s EXCEPT !.state = IF w.newest THEN s.confirmed ELSE @, !.unsure = (@ \/ w.phase = "applied")]

\* The answer of the head, or its failure: before the server got it, or on the way back.
EndWrite(ok) ==
    /\ bar.queue # <<>> /\ Head(bar.queue).phase \in (IF ok THEN {"applied"} ELSE {"sent", "applied"})
    /\ LET w == Head(bar.queue)
           s == [bar EXCEPT !.queue = Tail(@)]
       IN bar' = IF ~w.current THEN s ELSE IF ok THEN WriteSaved(w, s) ELSE WriteFailed(w, s)
    /\ UNCHANGED <<stored, edits>>

-----------------------------------------------------------------------------
(* Moving a room into a group: updateRoomListPreference() *)

MoveRoom(g) ==
    /\ bar.loaded /\ g \in bar.state.groups \cup {NoGroup} /\ g # bar.group /\ Edit
    /\ bar' = [bar EXCEPT !.moves = @ \cup {[user |-> bar.user, group |-> g, current |-> TRUE]}]
    /\ UNCHANGED stored

\* sidebarStore.group()
MoveAccepted(m) == m.current /\ m.group \in stored.config[m.user].groups \cup {NoGroup}

RoomMoved(m) ==
    /\ m \in bar.moves
    /\ stored' = IF MoveAccepted(m) THEN [stored EXCEPT !.group[m.user] = m.group] ELSE stored
    /\ bar' = [bar EXCEPT !.moves = @ \ {m},
                          !.group = IF MoveAccepted(m) THEN m.group ELSE @]
    /\ UNCHANGED edits

-----------------------------------------------------------------------------
SidebarNext ==
    \/ \E u \in Owners : EnterSidebar(u)
    \/ LeaveSidebar \/ SidebarLoads \/ BeginDrag \/ FinishDrag \/ CancelDrag
    \/ \E w \in Widths : MoveDrag(w)
    \/ \E g \in Groups : CreateGroup(g) \/ DeleteGroup(g)
    \/ StartWrite \/ ServeWrite \/ \E ok \in BOOLEAN : EndWrite(ok)
    \/ \E g \in Groups \cup {NoGroup} : MoveRoom(g)
    \/ \E m \in bar.moves : RoomMoved(m)

-----------------------------------------------------------------------------
(* Properties *)

SidebarTypeOK ==
    /\ bar.state \in Configs /\ bar.confirmed \in Configs /\ bar.preview \in Widths
    /\ bar.queue \in Seq(Writes) /\ edits \in 0..MaxEdits
    /\ stored.config \in [Owners -> Configs] /\ stored.group \in [Owners -> Groups \cup {NoGroup}]

\* Once no write is under way, the page shows what the server keeps - whichever of
\* several overlapping edits failed - except after a write was stored and its answer
\* lost (saveSidebar).  And in whatever order a group is deleted and a room moved into
\* it, what is kept is its owner's, and no room is in a group that is gone.
SidebarConverges ==
    /\ bar.loaded /\ bar.queue = <<>> /\ ~bar.unsure =>
           bar.state = bar.confirmed /\ bar.state = stored.config[bar.user]
    /\ \A u \in Owners : stored.config[u].owner = u /\ stored.group[u] \in stored.config[u].groups \cup {NoGroup}
=============================================================================
