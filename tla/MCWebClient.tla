----------------------------- MODULE MCWebClient ------------------------------
(***************************************************************************)
(* The page of apps/community/public/app.js: its conversations, its        *)
(* sidebar and its composers.  They share the session and the selected     *)
(* room, which each of the three modules has as far as it depends on them; *)
(* none of them reads what another one writes.  So they are checked as a   *)
(* sum: a behaviour is one of `part', and the other two keep still.        *)
(***************************************************************************)
EXTENDS WebRooms, WebSidebar, WebComposer, TLC

VARIABLE part

clientVars == <<part, roomsVars, sidebarVars, composerVars>>

\* Only a part that moves starts from all of its initial states.
Still ==
    /\ part # "rooms" =>
         /\ srv.session = None /\ srv.busy = {} /\ srv.member = [u \in Users |-> {}]
         /\ budget = CHOOSE b \in Budgets : TRUE
    /\ part # "composer" => most = CHOOSE d \in Drafts : TRUE

Init ==
    /\ part \in {"rooms", "sidebar", "composer"}
    /\ RoomsInit /\ SidebarInit /\ ComposerInit /\ Still

Next ==
    /\ UNCHANGED part
    /\ \/ part = "rooms" /\ RoomsNext /\ UNCHANGED <<sidebarVars, composerVars>>
       \/ part = "sidebar" /\ SidebarNext /\ UNCHANGED <<roomsVars, composerVars>>
       \/ part = "composer" /\ ComposerNext /\ UNCHANGED <<roomsVars, sidebarVars>>

Spec == Init /\ [][Next]_clientVars

-----------------------------------------------------------------------------
(* The instance. *)

\* Two clicks (or failures of requests) in a page with up to two extra panes.
BudgetsOf == {[clicks |-> 2, panes |-> 2]}

\* Two messages, one with a file, or two files; every time with two changes.
DraftsOf == {[nonces |-> 2, items |-> 0, changes |-> 2], [nonces |-> 1, items |-> 1, changes |-> 2],
             [nonces |-> 0, items |-> 2, changes |-> 2]}

Symmetry ==
    Permutations(Users) \cup Permutations(Rooms) \cup Permutations(Owners) \cup Permutations(Groups) \cup Permutations(ChatRooms)
=============================================================================
