----------------------------- MODULE ModelCalls -----------------------------
(***************************************************************************)
(* Calls of the models: the provider pool (apps/community/providers.mjs),  *)
(* the loop of ApiLlm.complete() over candidates and tool steps            *)
(* (model.mjs), and the turns they are charged (reserve() of server.mjs).  *)
(*                                                                         *)
(* A slot is a key; its provider may have several.  A message is answered  *)
(* by one bot after the other, each from the head of the list the message  *)
(* got, after a call that looks at its pictures: that one goes through the *)
(* keys once for every model that can see.  Messages share the catalogs,   *)
(* the cooldowns, the cursor and the quota, and interleave at every        *)
(* request to a provider.                                                  *)
(***************************************************************************)
EXTENDS Naturals, Sequences, FiniteSets

CONSTANTS
    Bots,         \* messages to be answered
    MaxSelected,  \* bots that answer one, 3 in the code
    Slots,        \* keys, in their order
    Names, NameOf, \* the provider of a key
    Default,      \* the key of the server itself, for a turn without a choice
    VisionModels, \* the models that see are 1..VisionModels, 4 in the code; 0 is the one chosen for answers
    Sees,         \* the models that see of a key
    MaxSteps,     \* 5 in the code
    MaxActions,   \* 4
    MaxAttempts,  \* 8
    Quota,        \* turns a day, of the user or of all
    MaxListings   \* bound: lists asked for by users, or grown old

ASSUME ModelAssumption ==
    /\ Slots \subseteq Nat \ {Default} /\ IsFiniteSet(Slots) /\ NameOf \in [Slots -> Names]
    /\ MaxSelected \in Nat /\ VisionModels \in Nat /\ Sees \in [Slots -> SUBSET (1..VisionModels)]
    /\ MaxSteps \in Nat \ {0} /\ MaxActions \in Nat /\ MaxAttempts \in Nat \ {0}
    /\ Quota \in Nat /\ MaxListings \in Nat

VARIABLES
    pool,   \* catalogs, cooldowns, cursor, whether lastListed is recent; the listings under way
    talks,  \* the turns
    used    \* table usage

modelVars == <<pool, talks, used>>

\* seeing: the call under way is the one about the pictures.  owed: bots that have not begun.
\* paid and asked: turns reserved, requests made; failed: the keys that failed in the call.
IdleTurn == [at |-> "new", seeing |-> FALSE, answers |-> <<>>, pictures |-> <<>>, index |-> 1, step |-> 0, actions |-> 0,
             owed |-> 0, paid |-> 0, asked |-> 0, failed |-> {}]

ModelInit ==
    /\ pool \in [fresh : BOOLEAN, catalogs : {Slots}, cooling : {{}}, cursor : {0}, listings : {{}}, lists : {0}]
    /\ talks = [t \in Bots |-> IdleTurn]
    /\ used = 0

-----------------------------------------------------------------------------
(* The pool *)

\* listModels() empties all catalogs before it asks the providers.
BeginListing(p, shared) ==
    [p EXCEPT !.catalogs = {}, !.listings = @ \cup {[shared |-> shared, left |-> Slots]}]

\* GET /api/models
ListModels ==
    /\ pool.lists < MaxListings /\ ~\E l \in pool.listings : ~l.shared
    /\ pool' = [BeginListing(pool, FALSE) EXCEPT !.lists = @ + 1]
    /\ UNCHANGED <<talks, used>>

SlotListed(l, s, listed) ==
    /\ l \in pool.listings /\ s \in l.left
    /\ pool' = [pool EXCEPT !.catalogs = IF listed THEN @ \cup {s} ELSE @,
                            !.listings = (@ \ {l}) \cup {[l EXCEPT !.left = @ \ {s}]}]
    /\ UNCHANGED <<talks, used>>

\* The turns that wait for a listing of ensureModels() go on.
ListingEnds(l) ==
    /\ l \in pool.listings /\ l.left = {}
    /\ pool' = [pool EXCEPT !.listings = @ \ {l}, !.fresh = TRUE]
    /\ talks' = IF l.shared
                THEN [t \in Bots |-> IF talks[t].at = "listing" THEN [talks[t] EXCEPT !.at = "choose"] ELSE talks[t]]
                ELSE talks
    /\ UNCHANGED used

CatalogAges ==
    /\ pool.fresh /\ pool.lists < MaxListings
    /\ pool' = [pool EXCEPT !.fresh = FALSE, !.lists = @ + 1]
    /\ UNCHANGED <<talks, used>>

\* A message arrives; all share the listing that is `pending'.
EnsureModels(t) ==
    /\ talks[t].at = "new"
    /\ talks' = [talks EXCEPT ![t].at = IF pool.fresh THEN "choose" ELSE "listing"]
    /\ pool' = IF pool.fresh \/ \E l \in pool.listings : l.shared THEN pool ELSE BeginListing(pool, TRUE)
    /\ UNCHANGED used

\* A cooldown is over.
Warms(s) ==
    /\ s \in pool.cooling
    /\ pool' = [pool EXCEPT !.cooling = @ \ {s}]
    /\ UNCHANGED <<talks, used>>

-----------------------------------------------------------------------------
(* choose() *)

Candidates == pool.catalogs \ pool.cooling

\* The keys that may be asked for a model, and what that makes of several models.
Able(model) == IF model = 0 THEN Candidates ELSE {s \in Candidates : model \in Sees[s]}
Attempts(models) == {a \in models \X Slots : a[2] \in Able(a[1])}
WithKeys(models) == {m \in models : Able(m) # {}}

\* How many keys of its model come before this one, counted from the cursor, which every
\* model with a key has moved.
Place(a, models) ==
    LET n == Cardinality(Able(a[1]))
        cursor == pool.cursor + Cardinality({m \in WithKeys(models) : m < a[1]})
    IN  (Cardinality({c \in Able(a[1]) : c < a[2]}) + n - (cursor % n)) % n

\* The first key of every provider is tried before the others.
FirstOfProvider(a, models) ==
    \A c \in Able(a[1]) : NameOf[c] = NameOf[a[2]] => Place(a, models) <= Place(<<a[1], c>>, models)
TriedBefore(a, b, models) ==
    IF FirstOfProvider(a, models) = FirstOfProvider(b, models)
    THEN Place(a, models) < Place(b, models) ELSE FirstOfProvider(a, models)

\* Of several models: their first keys, then the rest of every model.
Leads(a, models) == Place(a, models) = 0
AttemptedBefore(a, b, models) ==
    IF a[1] = b[1] THEN TriedBefore(a, b, models)
    ELSE IF Leads(a, models) = Leads(b, models) THEN a[1] < b[1] ELSE Leads(a, models)

\* There is one such list.
AttemptLists(models) ==
    {list \in [1..Cardinality(Attempts(models)) -> Attempts(models)] :
        \A i, j \in DOMAIN list : i < j => AttemptedBefore(list[i], list[j], models)}

AnswerLists == IF Candidates = {} THEN {<< <<0, Default>> >>} ELSE AttemptLists({0})

Advanced(models) == [pool EXCEPT !.cursor = @ + Cardinality(WithKeys(models))]

-----------------------------------------------------------------------------
(* The calls of a message *)

List(turn) == IF turn.seeing THEN turn.pictures ELSE turn.answers

\* The next bot begins, with a call of its own.
Answering(turn) ==
    [turn EXCEPT !.at = "fetch", !.seeing = FALSE, !.pictures = <<>>, !.index = 1, !.step = 0, !.actions = 0, !.failed = {}]

\* The turn of the first request of a bot was reserved with the message.
Begins(turn) == ~turn.seeing /\ turn.index = 1 /\ turn.step = 0

\* Nothing is kept of a message that was answered, or not.
Over == [IdleTurn EXCEPT !.at = "over"]

NextCall(turn) == IF turn.seeing \/ turn.owed > 0 THEN Answering(turn) ELSE Over

\* Pictures nobody could look at are answered all the same; a bot that fails ends the message.
AfterFailure(turn) == IF turn.seeing THEN Answering(turn) ELSE Over

NoQuota(cost) == used + cost > Quota

\* Fault: the call is made although the quota is used up.
PaidUnreserved(t, cost, next) ==
    IF NoQuota(cost) THEN talks' = [talks EXCEPT ![t] = next] /\ UNCHANGED used
    ELSE talks' = [talks EXCEPT ![t] = [next EXCEPT !.paid = @ + cost]] /\ used' = used + cost

\* reserve(), or the end of the call.
Paid(t, cost, next) ==
    IF NoQuota(cost) THEN talks' = [talks EXCEPT ![t] = AfterFailure(talks[t])] /\ UNCHANGED used
    ELSE talks' = [talks EXCEPT ![t] = [next EXCEPT !.paid = @ + cost]] /\ used' = used + cost

\* chooseModel(), and the acceptance of a message for so many bots.
Choose(t) ==
    /\ talks[t].at = "choose"
    /\ \E n \in 1..MaxSelected, images \in BOOLEAN, list \in AnswerLists :
          LET chosen == [talks[t] EXCEPT !.answers = list, !.owed = n]
          IN  Paid(t, n, IF images THEN [chosen EXCEPT !.at = "look", !.seeing = TRUE] ELSE Answering(chosen))
    /\ pool' = Advanced({0})

\* botRun() looks at the pictures first, if a model is known that can.
Look(t) ==
    /\ talks[t].at = "look"
    /\ IF Attempts(1..VisionModels) = {}
       THEN talks' = [talks EXCEPT ![t] = Answering(talks[t])] /\ UNCHANGED used
       ELSE \E list \in AttemptLists(1..VisionModels) : Paid(t, 1, [talks[t] EXCEPT !.at = "fetch", !.pictures = list])
    /\ pool' = Advanced(1..VisionModels)

-----------------------------------------------------------------------------
(* complete() *)

Limit(turn) == IF Len(List(turn)) < MaxAttempts THEN Len(List(turn)) ELSE MaxAttempts

UseTools(turn) == ~turn.seeing /\ turn.actions < MaxActions /\ turn.step < MaxSteps - 1

Fetch(t) ==
    /\ talks[t].at = "fetch"
    /\ talks' = [talks EXCEPT ![t].at = "calling", ![t].asked = @ + 1,
                              ![t].owed = IF Begins(talks[t]) THEN @ - 1 ELSE @]
    /\ UNCHANGED <<pool, used>>

\* A picture cannot be read after its turn was reserved.
PictureFails(t) ==
    /\ talks[t].at = "fetch" /\ talks[t].seeing /\ talks[t].index = 1
    /\ talks' = [talks EXCEPT ![t] = Answering(talks[t])]
    /\ UNCHANGED <<pool, used>>

\* No answer in time, or one that tells to try another key, which costs another turn.
CallFails(t) ==
    /\ talks[t].at = "calling"
    /\ LET turn == talks[t]
           key == List(turn)[turn.index][2]
       IN  /\ pool' = [pool EXCEPT !.cooling = IF key = Default THEN @ ELSE @ \cup {key}]
           /\ IF turn.index >= Limit(turn)
              THEN talks' = [talks EXCEPT ![t] = AfterFailure(turn)] /\ UNCHANGED used
              ELSE Paid(t, 1, [turn EXCEPT !.at = "fetch", !.index = @ + 1, !.failed = @ \cup {key}])

\* An answer that ends the call; the signal of the message ends all of it.
CallRejected(t) ==
    /\ talks[t].at = "calling"
    /\ \E after \in {AfterFailure(talks[t]), Over} : talks' = [talks EXCEPT ![t] = after]
    /\ UNCHANGED <<pool, used>>

CallAnswered(t) ==
    /\ talks[t].at = "calling"
    /\ talks' = [talks EXCEPT ![t].at = "reading"]
    /\ UNCHANGED <<pool, used>>

\* The body: an answer, an error, or calls of tools.
BodyRead(t) ==
    /\ talks[t].at = "reading"
    /\ \/ \E after \in {NextCall(talks[t]), AfterFailure(talks[t])} : talks' = [talks EXCEPT ![t] = after]
       \/ /\ UseTools(talks[t])
          /\ \E n \in 1..(MaxActions - talks[t].actions) :
                talks' = [talks EXCEPT ![t].at = "tools", ![t].actions = @ + n]
    /\ UNCHANGED <<pool, used>>

\* The tools are done; the next step begins with the key that answered.
ToolsRan(t) ==
    /\ talks[t].at = "tools"
    /\ IF talks[t].step + 1 >= MaxSteps
       THEN talks' = [talks EXCEPT ![t] = AfterFailure(talks[t])] /\ UNCHANGED used
       ELSE Paid(t, 1, [talks[t] EXCEPT !.at = "fetch", !.step = @ + 1])
    /\ UNCHANGED pool

ModelNext ==
    \/ ListModels \/ CatalogAges
    \/ \E l \in pool.listings : ListingEnds(l) \/ \E s \in Slots, listed \in BOOLEAN : SlotListed(l, s, listed)
    \/ \E s \in Slots : Warms(s)
    \/ \E t \in Bots :
          \/ EnsureModels(t) \/ Choose(t) \/ Look(t) \/ Fetch(t) \/ PictureFails(t) \/ CallFails(t)
          \/ CallRejected(t) \/ CallAnswered(t) \/ BodyRead(t) \/ ToolsRan(t)

ModelTypeOK ==
    /\ pool.catalogs \subseteq Slots /\ pool.cooling \subseteq Slots /\ used \in 0..Quota
    /\ \A t \in Bots :
          /\ talks[t].at \in {"new", "listing", "choose", "look", "fetch", "calling", "reading", "tools", "over"}
          /\ {talks[t].answers, talks[t].pictures} \subseteq Seq((0..VisionModels) \X (Slots \cup {Default}))
          /\ talks[t].step \in 0..MaxSteps

-----------------------------------------------------------------------------
\* Every request to a provider was reserved before it was made, and all messages together
\* stay within the quota.  Neither the pictures nor the failover and the tools of one bot
\* use up what was reserved for the bots after it.  A bot does not ask a key again that
\* failed in its call, though the cooldown may end meanwhile.
CallsAreReserved ==
    /\ used <= Quota
    /\ \A t \in Bots : talks[t].asked + talks[t].owed <= talks[t].paid
    /\ \A t \in Bots : talks[t].at \in {"fetch", "calling"} /\ ~talks[t].seeing
          => talks[t].answers[talks[t].index][2] \notin talks[t].failed
=============================================================================
