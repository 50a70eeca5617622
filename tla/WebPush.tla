------------------------------ MODULE WebPush ------------------------------
(***************************************************************************)
(* Push notifications of one device: apps/community/public/pwa.js, the     *)
(* subscription routes of apps/community/server.mjs and the queue of       *)
(* apps/community/push.mjs.                                                *)
(*                                                                         *)
(* The page turns notifications on and off in several awaits; a login or a *)
(* logout moves its epoch on, after which an operation in flight writes    *)
(* nothing any more (here: it is not `current').  A request and its answer *)
(* are two steps, and either may be lost.  The server keeps for an         *)
(* endpoint the session that registered it, and looks at the session and   *)
(* the membership again when a queued notification is sent.                *)
(***************************************************************************)
EXTENDS Naturals, Sequences, FiniteSets

CONSTANTS
    Sessions,   \* logins on this device, each of another user
    Endpoints,  \* what pushManager.subscribe() returns, a new one every time
    Nobody, NoEndpoint,
    MaxPushQueue, MaxPushOps, \* notifications queued, operations in flight
    MaxPushClicks,            \* how many logins and clicks there are
    MaxNotices                \* how often a room changes, a member goes, a session expires

ASSUME PushAssumption ==
    /\ IsFiniteSet(Endpoints) /\ Nobody \notin Sessions /\ NoEndpoint \notin Endpoints
    /\ MaxPushQueue \in Nat /\ MaxPushOps \in Nat /\ MaxPushClicks \in Nat /\ MaxNotices \in Nat

VARIABLES
    pwa,     \* the page: its session, state.subscription, pushBusy, the operations in flight;
             \* closed (history): live logins a late logout took from the page
    device,  \* the browser: its subscription, and the endpoints it has had
    service  \* the server: live sessions, memberships, push_subscriptions, the send queue

pushVars == <<pwa, device, service>>

Ops == [kind : {"load", "enable", "disable", "test", "clear", "leave", "left"},
        at : {"asked", "posting", "stored", "refused", "deleting", "unsubscribing"},
        ep : Endpoints \cup {NoEndpoint}, current : BOOLEAN, by : Sessions]

PushInit ==
    /\ pwa = [session |-> Nobody, configured |-> FALSE, subscription |-> NoEndpoint, busy |-> FALSE,
              ops |-> {}, denied |-> FALSE, clicks |-> 0, closed |-> {}]
    /\ device = [sub |-> NoEndpoint, used |-> {}]
    /\ service = [live |-> {}, members |-> Sessions, row |-> [e \in Endpoints |-> Nobody], queue |-> <<>>, events |-> 0]

-----------------------------------------------------------------------------
(* Sessions *)

Op(kind, by) == [kind |-> kind, at |-> "asked", ep |-> NoEndpoint, current |-> TRUE, by |-> by]
NewEpoch(ops) == {[o EXCEPT !.current = FALSE] : o \in ops}
MayClick == Cardinality(pwa.ops) < MaxPushOps /\ pwa.clicks < MaxPushClicks
MayHappen == service.events < MaxNotices

\* setSession() of another session, which loads the configuration.
WithSession(s) == [pwa EXCEPT !.clicks = @ + 1, !.session = s, !.closed = @ \ {s}, !.configured = FALSE, !.subscription = NoEndpoint,
                              !.busy = FALSE, !.ops = NewEpoch(@) \cup {Op("load", s)}]

SetSession(s) ==
    /\ pwa.session = Nobody /\ s \notin service.live /\ MayClick
    /\ service.row \in [Endpoints -> (Sessions \cup {Nobody}) \ {s}]
    /\ pwa' = WithSession(s)
    /\ service' = [service EXCEPT !.live = @ \cup {s}]
    /\ UNCHANGED <<device>>

\* The page is loaded again, with nothing in flight.
Reload ==
    /\ pwa.session \in service.live /\ pwa.ops = {} /\ MayClick
    /\ pwa' = WithSession(pwa.session)
    /\ UNCHANGED <<device, service>>

\* showAuth(): setSession(null), after a 401.
LoseSession ==
    /\ pwa.session # Nobody /\ pwa.session \notin service.live
    /\ pwa' = [pwa EXCEPT !.session = Nobody, !.configured = FALSE, !.subscription = NoEndpoint, !.busy = FALSE,
                          !.ops = NewEpoch(@)]
    /\ UNCHANGED <<device, service>>

\* The logout button: clearSession({keepSession: true}).
BeginLogout ==
    /\ pwa.session # Nobody /\ MayClick
    /\ pwa' = [pwa EXCEPT !.clicks = @ + 1, !.busy = FALSE,
                          !.ops = NewEpoch(@) \cup {[Op("clear", pwa.session) EXCEPT !.ep =
                                     IF pwa.subscription # NoEndpoint THEN pwa.subscription ELSE device.sub]}]
    /\ UNCHANGED <<device, service>>

\* POST /api/logout
ServeLogout(s) ==
    [service EXCEPT !.live = @ \ {s}, !.row = [e \in Endpoints |-> IF @[e] = s THEN Nobody ELSE @[e]]]

\* The session expires or is revoked.
SessionExpires(s) ==
    /\ s \in service.live /\ MayHappen
    /\ service' = [service EXCEPT !.live = @ \ {s}, !.events = @ + 1]
    /\ UNCHANGED <<pwa, device>>

-----------------------------------------------------------------------------
(* The operations.  Ended is the finally of one. *)

Ended(p, o) == [p EXCEPT !.ops = @ \ {o}, !.busy = IF o.current /\ o.kind \in {"enable", "disable", "test"} THEN FALSE ELSE @]

Goes(p, o, n) == [p EXCEPT !.ops = (@ \ {o}) \cup {n}]

\* enablePush(), disablePush() and testPush() to their first await.
Begin(kind) ==
    /\ pwa.session # Nobody /\ ~pwa.busy /\ MayClick
    /\ CASE kind = "enable" -> pwa.subscription = NoEndpoint /\ pwa.configured /\ ~pwa.denied
         [] kind \in {"disable", "test"} -> pwa.subscription # NoEndpoint
    /\ pwa' = [pwa EXCEPT !.clicks = @ + 1, !.busy = TRUE,
                          !.ops = @ \cup {[Op(kind, pwa.session) EXCEPT !.ep = pwa.subscription,
                                             !.at = IF kind = "disable" THEN "deleting" ELSE "asked"]}]
    /\ UNCHANGED <<device, service>>

\* A click without a configuration loads it again.
LoadAgain ==
    /\ pwa.session # Nobody /\ ~pwa.busy /\ MayClick
    /\ pwa.subscription = NoEndpoint /\ ~pwa.configured
    /\ pwa' = [pwa EXCEPT !.clicks = @ + 1, !.ops = @ \cup {Op("load", pwa.session)}]
    /\ UNCHANGED <<device, service>>

\* The configuration has come, and the registration and its subscription after it.
ConfigLoaded(o) ==
    /\ o \in pwa.ops /\ o.kind = "load" /\ o.at = "asked"
    /\ pwa' = IF ~o.current THEN Ended(pwa, o)
              ELSE IF device.sub = NoEndpoint THEN [Ended(pwa, o) EXCEPT !.configured = TRUE]
              ELSE [Goes(pwa, o, [o EXCEPT !.at = "posting", !.ep = device.sub]) EXCEPT !.configured = TRUE]
    /\ UNCHANGED <<device, service>>

\* The end of a load that fails: the page knows no configuration.
LoadFailed(o) == [Ended(pwa, o) EXCEPT !.configured = @ /\ ~o.current]

ConfigFails(o) ==
    /\ o \in pwa.ops /\ o.kind = "load" /\ o.at = "asked"
    /\ pwa' = LoadFailed(o)
    /\ UNCHANGED <<device, service>>

\* The permission is there, and the browser has subscribed.
Subscribed(o) ==
    /\ o \in pwa.ops /\ o.kind = "enable" /\ o.at = "asked"
    /\ \E e \in Endpoints :
          /\ e = device.sub \/ (device.sub = NoEndpoint /\ e \notin device.used)
          /\ device' = [sub |-> e, used |-> device.used \cup {e}]
          /\ pwa' = IF o.current THEN Goes(pwa, o, [o EXCEPT !.at = "posting", !.ep = e]) ELSE Ended(pwa, o)
    /\ UNCHANGED service

Refused(o) ==
    /\ o \in pwa.ops /\ o.kind = "enable" /\ o.at = "asked"
    /\ \E d \in BOOLEAN : pwa' = [Ended(pwa, o) EXCEPT !.denied = d]
    /\ UNCHANGED <<device, service>>

\* POST /api/push/subscriptions: rows of sessions that are over are dropped first; an
\* endpoint stays with the session that has it, and an account has no more than ten
\* devices (full: it has them elsewhere).
Pruned(row) == [e \in Endpoints |-> IF row[e] \in service.live THEN row[e] ELSE Nobody]
MayRegister(o, full) == Pruned(service.row)[o.ep] \in IF full THEN {o.by} ELSE {Nobody, o.by}

PostHandled(o) ==
    /\ o \in pwa.ops /\ o.at = "posting" /\ o.by \in service.live
    /\ \E full \in BOOLEAN :
          /\ service' = [service EXCEPT !.row = IF MayRegister(o, full) THEN [Pruned(@) EXCEPT ![o.ep] = o.by] ELSE Pruned(@)]
          /\ pwa' = Goes(pwa, o, [o EXCEPT !.at = IF MayRegister(o, full) THEN "stored" ELSE "refused"])
    /\ UNCHANGED device

\* Fault: whatever became of the login it was sent under.
PostAnsweredLate(o) ==
    /\ o \in pwa.ops /\ o.at = "stored"
    /\ pwa' = [Ended(pwa, o) EXCEPT !.subscription = o.ep]
    /\ UNCHANGED <<device, service>>

PostAnswered(o) ==
    /\ o \in pwa.ops /\ o.at = "stored"
    /\ pwa' = [Ended(pwa, o) EXCEPT !.subscription = IF o.current THEN o.ep ELSE @]
    /\ UNCHANGED <<device, service>>

\* The request or its answer is lost, or it was refused: the browser gives the
\* subscription up, but for a load only in the last case.
PostFails(o) ==
    /\ o \in pwa.ops /\ o.at \in {"posting", "stored", "refused"}
    /\ pwa' = IF o.current /\ (o.kind = "enable" \/ o.at = "refused")
              THEN Goes(pwa, o, [o EXCEPT !.at = "unsubscribing"])
              ELSE IF o.kind = "load" THEN LoadFailed(o) ELSE Ended(pwa, o)
    /\ UNCHANGED <<device, service>>

\* DELETE /api/push/subscriptions, or clearSession() with nothing to delete.  Without an
\* answer (not ok) it may have been handled.
DeleteServed(o, ok) ==
    /\ o \in pwa.ops /\ (o.at = "deleting" \/ (o.kind = "clear" /\ o.at = "asked"))
    /\ LET deleted == IF o.ep # NoEndpoint /\ o.by \in service.live /\ service.row[o.ep] = o.by
                      THEN [service EXCEPT !.row[o.ep] = Nobody] ELSE service
       IN  service' \in IF ok THEN {deleted} ELSE {deleted, service}
    /\ pwa' = IF o.current /\ o.ep # NoEndpoint /\ (ok \/ o.kind = "clear")
              THEN Goes(pwa, o, [o EXCEPT !.at = "unsubscribing"])
              ELSE IF o.kind = "clear" THEN Goes(pwa, o, [o EXCEPT !.kind = "leave", !.at = "asked"]) ELSE Ended(pwa, o)
    /\ UNCHANGED device

\* showAuth() at the end of the logout.
Left(p, o) == [p EXCEPT !.session = Nobody, !.configured = FALSE, !.subscription = NoEndpoint,
                        !.busy = FALSE, !.ops = NewEpoch(@ \ {o})]

\* subscription.unsubscribe(), and what its operation does then.
Unsubscribed(o) ==
    /\ o \in pwa.ops /\ o.at = "unsubscribing"
    /\ device' = [device EXCEPT !.sub = IF @ = o.ep THEN NoEndpoint ELSE @]
    /\ LET p == CASE o.kind = "clear" -> Goes(pwa, o, [o EXCEPT !.kind = "leave", !.at = "asked"])
                  [] o.kind = "left" -> [Left(pwa, o) EXCEPT !.closed = @ \cup ({pwa.session} \cap service.live)]
                  [] OTHER -> Ended(pwa, o)
       IN pwa' = IF o.current THEN [p EXCEPT !.subscription = NoEndpoint] ELSE p
    /\ UNCHANGED <<service>>

\* The rest of the logout, of the session the page has by then: a second clearSession()
\* gives up a subscription made meanwhile.  The page stays logged in when the request
\* fails or its answer is lost.
Leave(o, ok) ==
    /\ o \in pwa.ops /\ o.kind = "leave"
    /\ ok => pwa.session \in service.live
    /\ service' \in IF ok THEN {ServeLogout(pwa.session)} ELSE {ServeLogout(pwa.session), service}
    /\ pwa' = IF ~ok THEN [pwa EXCEPT !.ops = @ \ {o}]
              ELSE IF device.sub = NoEndpoint THEN Left(pwa, o)
              ELSE [pwa EXCEPT !.busy = FALSE,
                               !.ops = NewEpoch(@ \ {o}) \cup {[o EXCEPT !.kind = "left", !.at = "unsubscribing",
                                                                       !.ep = device.sub, !.current = TRUE]}]
    /\ UNCHANGED <<device>>

\* POST /api/push/test: queued for the row of this session.
TestServed(o) ==
    /\ o \in pwa.ops /\ o.kind = "test"
    /\ pwa' = Ended(pwa, o)
    /\ service' = IF o.by \in service.live /\ service.row[o.ep] = o.by /\ Len(service.queue) < MaxPushQueue
                  THEN [service EXCEPT !.queue = Append(@, [ep |-> o.ep, session |-> o.by, room |-> FALSE])]
                  ELSE service
    /\ UNCHANGED <<device>>

-----------------------------------------------------------------------------
(* The server's queue *)

Rows == {[ep |-> e, session |-> service.row[e], room |-> TRUE] :
            e \in {x \in Endpoints : service.row[x] \in service.live \cap service.members}}

\* notifyRoom(): one task per row, dropped when the queue is full.
NotifyRoom ==
    /\ MayHappen
    /\ \E q \in [1..Cardinality(Rows) -> Rows] :
          /\ \A i, j \in DOMAIN q : q[i] = q[j] => i = j
          /\ service' = [service EXCEPT !.events = @ + 1,
                                        !.queue = IF Len(@ \o q) > MaxPushQueue THEN SubSeq(@ \o q, 1, MaxPushQueue)
                                                                                 ELSE @ \o q]
    /\ UNCHANGED <<pwa, device>>

MemberGoes(s) ==
    /\ s \in service.members /\ MayHappen
    /\ service' = [service EXCEPT !.members = @ \ {s}, !.events = @ + 1]
    /\ UNCHANGED <<pwa, device>>

\* currentRow()
CurrentRow(t) ==
    /\ service.row[t.ep] = t.session /\ t.session \in service.live
    /\ t.room => t.session \in service.members

\* sendRow(): an endpoint the browser has given up answers 410.
SendRow ==
    /\ service.queue # <<>>
    /\ LET t == Head(service.queue)
           gone == CurrentRow(t) /\ device.sub # t.ep
       IN service' = [service EXCEPT !.queue = Tail(@), !.row[t.ep] = IF gone THEN Nobody ELSE @]
    /\ UNCHANGED <<pwa, device>>

-----------------------------------------------------------------------------
PushNext ==
    \/ \E s \in Sessions : SetSession(s) \/ SessionExpires(s) \/ MemberGoes(s)
    \/ Reload \/ LoadAgain \/ LoseSession \/ BeginLogout \/ NotifyRoom \/ SendRow
    \/ \E k \in {"enable", "disable", "test"} : Begin(k)
    \/ \E o \in pwa.ops :
          \/ ConfigLoaded(o) \/ ConfigFails(o) \/ Subscribed(o) \/ Refused(o)
          \/ PostHandled(o) \/ PostAnswered(o) \/ PostFails(o)
          \/ Unsubscribed(o) \/ TestServed(o)
          \/ \E ok \in BOOLEAN : DeleteServed(o, ok) \/ Leave(o, ok)

-----------------------------------------------------------------------------
(* Properties *)

PushPages == [session : Sessions \cup {Nobody}, configured : BOOLEAN, subscription : Endpoints \cup {NoEndpoint},
          busy : BOOLEAN, ops : SUBSET Ops, denied : BOOLEAN, clicks : Nat, closed : SUBSET Sessions]
PushServices == [live : SUBSET Sessions, members : SUBSET Sessions, row : [Endpoints -> Sessions \cup {Nobody}],
             queue : Seq([ep : Endpoints \cup {NoEndpoint}, session : Sessions, room : BOOLEAN]), events : Nat]

PushTypeOK ==
    /\ pwa \in PushPages /\ service \in PushServices
    /\ device \in [sub : Endpoints \cup {NoEndpoint}, used : SUBSET Endpoints]

\* Logins, logouts and the answers they overtake leave the device to the account at its
\* page: a registration the server may still send to is of the login the page has, and
\* what the page shows as its own subscription is not registered for another.  The
\* exception are the logins that a logout of an earlier one closed on the page without
\* logging them out.
NotifiesItsAccount ==
    /\ \A e \in Endpoints : service.row[e] \in service.live => service.row[e] \in {pwa.session} \cup pwa.closed
    /\ pwa.subscription # NoEndpoint => service.row[pwa.subscription] \in {pwa.session, Nobody} \cup pwa.closed
=============================================================================
