---------------------------- MODULE ClientProofs ----------------------------
(***************************************************************************)
(* Theorems about the modules of the browser client, apps/community/       *)
(* public: the sidebar's writes converge to what the server keeps, a       *)
(* message meant once goes under one nonce, what is edited in the mailbox  *)
(* dialog is not lost to what the page polls, and what a pane shows is     *)
(* that of its room and user and never goes back.                          *)
(***************************************************************************)
EXTENDS WebSidebar, WebComposer, WebMail, WebRooms, FilterProofs

-----------------------------------------------------------------------------
(* The sidebar: saveSidebar() and sidebar.mjs                                *)

SidebarSpec == SidebarInit /\ [][SidebarNext]_sidebarVars

Bars ==
    [user : Owners \cup {NoOne}, state : Configs, confirmed : Configs, loaded : BOOLEAN, preview : Widths,
     drag : {"none", "current", "stale"}, queue : Seq(Writes), loading : BOOLEAN, group : Groups \cup {NoGroup},
     moves : SUBSET [user : Owners, group : Groups \cup {NoGroup}, current : BOOLEAN], unsure : BOOLEAN]

SidebarTyped ==
    /\ bar \in Bars /\ edits \in Nat
    /\ stored \in [config : [Owners -> Configs], group : [Owners -> Groups \cup {NoGroup}]]

StoredApart ==
    \A u \in Owners : stored.config[u].owner = u /\ stored.group[u] \in stored.config[u].groups \cup {NoGroup}

\* The current writes are of the user u and come after those of earlier sessions; only
\* the first may be under way, and only the last is the newest.
QueueOf(q, u) ==
    /\ \A i \in 2 .. Len(q) : q[i].phase = "queued"
    /\ \A i \in 1 .. Len(q) : ~q[i].current => q[i].cookie = NoOne
    /\ \A i \in 1 .. Len(q) :
          q[i].current => q[i].config.owner = u /\ (q[i].phase # "queued" => q[i].cookie = u)
    /\ \A i, j \in 1 .. Len(q) : i < j /\ q[i].current => q[j].current
    /\ \A i \in 1 .. (Len(q) - 1) : q[i].current => ~q[i].newest

\* Every write belongs to an earlier session.
Earlier(q) == \A i \in 1 .. Len(q) : ~q[i].current

LastIsCurrent(q) == Len(q) # 0 /\ q[Len(q)].current
FirstIsApplied(q) == Len(q) # 0 /\ q[1].current /\ q[1].phase = "applied"

\* The page shows the newest edit, or else what was confirmed.
Shown(b) ==
    /\ LastIsCurrent(b.queue) => b.queue[Len(b.queue)].newest /\ b.queue[Len(b.queue)].config = b.state
    /\ ~LastIsCurrent(b.queue) => b.state = b.confirmed
    /\ b.state.owner = b.user /\ b.confirmed.owner = b.user

\* What was confirmed is kept, until the write under way is.
KeptConfirmed(b, kept) ==
    /\ FirstIsApplied(b.queue) => kept = b.queue[1].config
    /\ ~b.unsure /\ ~FirstIsApplied(b.queue) => b.confirmed = kept

BarKept(b, config) ==
    /\ QueueOf(b.queue, b.user) /\ (~b.loaded => Earlier(b.queue))
    /\ b.loaded \/ b.loading => b.user \in Owners /\ b.user # NoOne
    /\ b.loading => ~b.loaded
    /\ b.loaded => Shown(b) /\ KeptConfirmed(b, config[b.user])

SidebarInv == SidebarTyped /\ StoredApart /\ BarKept(bar, stored.config)

\* Nobody is logged in.
LEMMA SidebarStart == SidebarInit => SidebarInv
  <1> SUFFICES ASSUME SidebarInit PROVE SidebarInv
    OBVIOUS
  <1>1. \A u \in Owners \cup {NoOne} : Default(u) \in Configs /\ Default(u).owner = u
    BY SidebarAssumption DEF Default, Configs
  <1>2. PICK d \in Configs : d = Default(NoOne)
    BY <1>1
  <1>3. PICK q \in Seq(Writes) : q = <<>>
    <2>1. <<>> \in Seq(Writes)
      OBVIOUS
    <2>2. QED
      BY <2>1
  <1>4. bar = [user |-> NoOne, state |-> d, confirmed |-> d, loaded |-> FALSE, preview |-> DefaultWidth, drag |-> "none",
               queue |-> q, loading |-> FALSE, group |-> NoGroup, moves |-> {}, unsure |-> FALSE]
    BY <1>2, <1>3 DEF SidebarInit
  <1>5. bar \in Bars /\ bar.queue = q /\ ~bar.loaded /\ ~bar.loading
    BY <1>4, SidebarAssumption DEF Bars
  <1>6. Len(q) = 0
    BY <1>3
  <1>7. BarKept(bar, stored.config)
    BY <1>5, <1>6 DEF BarKept, QueueOf, Earlier
  <1>8. PICK c \in [Owners -> Configs], g \in [Owners -> Groups \cup {NoGroup}] :
            c = [u \in Owners |-> Default(u)] /\ g = [u \in Owners |-> NoGroup]
    BY <1>1
  <1>9. stored = [config |-> c, group |-> g] /\ edits = 0
    BY <1>8 DEF SidebarInit
  <1>10. SidebarTyped
    BY <1>5, <1>9 DEF SidebarTyped
  <1>11. StoredApart
    BY <1>1, <1>8, <1>9 DEF StoredApart
  <1>12. QED
    BY <1>7, <1>10, <1>11 DEF SidebarInv

\* The queue without its head.
LEMMA QueueGoesOn ==
    ASSUME NEW q \in Seq(Writes), q # <<>>
    PROVE  /\ Tail(q) \in Seq(Writes) /\ Len(Tail(q)) = Len(q) - 1 /\ Len(q) \in Nat \ {0} /\ Head(q) = q[1] /\ q[1] \in Writes
           /\ \A i \in 1 .. Len(Tail(q)) : Tail(q)[i] = q[i + 1]
           /\ \A u : QueueOf(q, u) => QueueOf(Tail(q), u)
           /\ Earlier(q) => Earlier(Tail(q))
           /\ \A u : QueueOf(q, u) => ~FirstIsApplied(Tail(q))
           /\ LastIsCurrent(Tail(q)) <=> Len(q) # 1 /\ LastIsCurrent(q)
           /\ Len(q) # 1 => Tail(q)[Len(Tail(q))] = q[Len(q)]
  <1>1. /\ Tail(q) \in Seq(Writes) /\ Len(Tail(q)) = Len(q) - 1 /\ Len(q) \in Nat \ {0} /\ Head(q) = q[1] /\ q[1] \in Writes
        /\ \A i \in 1 .. Len(Tail(q)) : Tail(q)[i] = q[i + 1]
    BY EmptySeq, HeadTailProperties
  <1>2. ASSUME NEW u, QueueOf(q, u)
        PROVE  QueueOf(Tail(q), u) /\ ~FirstIsApplied(Tail(q))
    <2>1. PICK t \in Seq(Writes) : t = Tail(q)
      BY <1>1
    <2>2. Len(t) = Len(q) - 1 /\ \A i \in 1 .. Len(t) : t[i] = q[i + 1]
      BY <1>1, <2>1
    <2>3. \A i \in 1 .. Len(t) : i + 1 \in 2 .. Len(q) /\ i + 1 \in 1 .. Len(q)
      BY <1>1, <2>2
    <2>4. \A i \in 1 .. Len(t) : t[i].phase = "queued"
      BY <1>2, <2>2, <2>3 DEF QueueOf
    <2>5. /\ \A i \in 1 .. Len(t) : ~t[i].current => t[i].cookie = NoOne
          /\ \A i \in 1 .. Len(t) : t[i].current => t[i].config.owner = u /\ (t[i].phase # "queued" => t[i].cookie = u)
      BY SMTT(30), ZenonT(30), <1>2, <2>2, <2>3 DEF QueueOf
    <2>6. \A i, j \in 1 .. Len(t) : i < j /\ t[i].current => t[j].current
      <3>1. ASSUME NEW i \in 1 .. Len(t), NEW j \in 1 .. Len(t), i < j, t[i].current
            PROVE  t[j].current
        <4>1. i + 1 < j + 1 /\ i + 1 \in 1 .. Len(q) /\ j + 1 \in 1 .. Len(q) /\ q[i + 1].current
          BY <2>2, <2>3, <3>1
        <4>2. q[j + 1].current
          BY <1>2, <4>1 DEF QueueOf
        <4>3. QED
          BY <2>2, <4>2
      <3>2. QED
        BY <3>1
    <2>7. \A i \in 1 .. (Len(t) - 1) : t[i].current => ~t[i].newest
      <3>1. ASSUME NEW i \in 1 .. (Len(t) - 1), t[i].current
            PROVE  ~t[i].newest
        <4>1. i \in 1 .. Len(t) /\ i + 1 \in 1 .. (Len(q) - 1)
          BY <1>1, <2>2
        <4>2. QED
          BY <1>2, <2>2, <3>1, <4>1 DEF QueueOf
      <3>2. QED
        BY <3>1
    <2>8. \A i \in 2 .. Len(t) : t[i].phase = "queued"
      BY <2>4
    <2>9. QueueOf(t, u)
      BY <2>5, <2>6, <2>7, <2>8 DEF QueueOf
    <2>10. ~FirstIsApplied(t)
      <3>1. Len(t) # 0 => t[1].phase = "queued"
        BY <1>1, <2>2, <2>4
      <3>2. QED
        BY <3>1 DEF FirstIsApplied
    <2>11. QED
      BY <2>1, <2>9, <2>10
  <1>3. Len(q) # 1 => Tail(q)[Len(Tail(q))] = q[Len(q)]
    BY <1>1
  <1>4. LastIsCurrent(Tail(q)) <=> Len(q) # 1 /\ LastIsCurrent(q)
    BY <1>1, <1>3 DEF LastIsCurrent
  <1>5. ASSUME Earlier(q)
        PROVE  Earlier(Tail(q))
    <2>1. \A i \in 1 .. Len(Tail(q)) : i + 1 \in 1 .. Len(q)
      BY <1>1
    <2>2. QED
      BY <1>1, <1>5, <2>1 DEF Earlier
  <1>6. QED
    BY <1>1, <1>2, <1>3, <1>4, <1>5

\* Logging in or out: every write belongs to an earlier session.
LEMMA ResetKeepsSidebar ==
    ASSUME SidebarInv, NEW u \in Owners \cup {NoOne}, ResetSidebarState(u), stored' = stored, edits' \in Nat
    PROVE  SidebarInv'
  <1>0. bar \in Bars /\ stored \in [config : [Owners -> Configs], group : [Owners -> Groups \cup {NoGroup}]]
    BY DEF SidebarInv, SidebarTyped
  <1>1. PICK d \in Configs : d = Default(u)
    BY SidebarAssumption DEF Default, Configs
  <1>2. PICK old \in Seq(Writes) : old = bar.queue
    BY <1>0 DEF Bars
  <1>2a. PICK q : q = [i \in DOMAIN old |-> [old[i] EXCEPT !.current = FALSE, !.cookie = NoOne]]
    OBVIOUS
  <1>2b. q = Stale(bar.queue)
    BY <1>2, <1>2a DEF Stale
  <1>2c. DOMAIN old = 1 .. Len(old) /\ Len(old) \in Nat
    BY <1>2
  <1>3. /\ q \in Seq(Writes) /\ Len(q) = Len(old)
        /\ \A i \in 1 .. Len(old) : ~q[i].current /\ q[i].cookie = NoOne /\ q[i].phase = old[i].phase
    <2>1. ASSUME NEW i \in 1 .. Len(old)
          PROVE  q[i] \in Writes /\ ~q[i].current /\ q[i].cookie = NoOne /\ q[i].phase = old[i].phase
      <3>1. PICK w \in Writes : w = old[i]
        BY <1>2c
      <3>2. q[i] = [w EXCEPT !.current = FALSE, !.cookie = NoOne]
        BY <1>2a, <1>2c, <3>1
      <3>3. QED
        BY <3>1, <3>2 DEF Writes
    <2>2. q = [i \in 1 .. Len(old) |-> q[i]]
      BY <1>2a, <1>2c
    <2>3. q \in Seq(Writes) /\ Len(q) = Len(old)
      BY <1>2c, <2>1, <2>2
    <2>4. QED
      BY <2>1, <2>3
  <1>4. QueueOf(q, u) /\ Earlier(q)
    <2>1. \A i \in 2 .. Len(old) : old[i].phase = "queued"
      BY <1>2 DEF SidebarInv, BarKept, QueueOf
    <2>2. \A i \in 2 .. Len(q) : i \in 1 .. Len(old) /\ i \in 2 .. Len(old)
      BY <1>2c, <1>3
    <2>3. \A i \in 2 .. Len(q) : q[i].phase = "queued"
      BY <1>3, <2>1, <2>2
    <2>4. \A i \in 1 .. (Len(q) - 1) : i \in 1 .. Len(q)
      BY <1>2c, <1>3
    <2>5. QED
      BY <1>3, <2>3, <2>4 DEF QueueOf, Earlier
  <1>5. PICK ms \in SUBSET [user : Owners, group : Groups \cup {NoGroup}, current : BOOLEAN] :
            ms = {[m EXCEPT !.current = FALSE] : m \in bar.moves}
    <2>1. ASSUME NEW m \in bar.moves
          PROVE  [m EXCEPT !.current = FALSE] \in [user : Owners, group : Groups \cup {NoGroup}, current : BOOLEAN]
      <3>1. m \in [user : Owners, group : Groups \cup {NoGroup}, current : BOOLEAN]
        BY <1>0 DEF Bars
      <3>2. PICK e : e = [m EXCEPT !.current = FALSE]
        OBVIOUS
      <3>3. e \in [user : Owners, group : Groups \cup {NoGroup}, current : BOOLEAN]
        BY <3>1, <3>2
      <3>4. QED
        BY <3>2, <3>3
    <2>2. QED
      BY <2>1
  <1>6. PICK g \in Groups \cup {NoGroup} : g = IF u = NoOne THEN NoGroup ELSE stored.group[u]
    <2>1. u # NoOne => stored.group[u] \in Groups \cup {NoGroup}
      BY <1>0
    <2>2. QED
      BY <2>1
  <1>7. PICK drag \in {"none", "current", "stale"} : drag = IF bar.drag = "none" THEN bar.drag ELSE "stale"
    OBVIOUS
  <1>8. PICK l \in BOOLEAN : l = (u # NoOne)
    OBVIOUS
  <1>9. bar' = [bar EXCEPT !.user = u, !.state = d, !.confirmed = d, !.loaded = FALSE, !.preview = DefaultWidth, !.drag = drag,
                           !.queue = q, !.loading = l, !.unsure = FALSE, !.group = g, !.moves = ms]
    BY <1>1, <1>2b, <1>5, <1>6, <1>7, <1>8 DEF ResetSidebarState
  <1>10. /\ bar' \in Bars /\ bar'.user = u /\ bar'.loaded = FALSE /\ bar'.queue = q /\ bar'.loading = l
    <2>1. bar' = [user |-> u, state |-> d, confirmed |-> d, loaded |-> FALSE, preview |-> DefaultWidth, drag |-> drag,
                  queue |-> q, loading |-> l, group |-> g, moves |-> ms, unsure |-> FALSE]
      BY <1>0, <1>9 DEF Bars
    <2>2. QED
      BY <1>3, <2>1, SidebarAssumption DEF Bars
  <1>11. BarKept(bar', stored.config)
    BY <1>4, <1>8, <1>10 DEF BarKept
  <1>12. QED
    BY <1>0, <1>10, <1>11 DEF SidebarInv, SidebarTyped, StoredApart, BarKept

\* A step that leaves the queue, what is shown and the session alone.
LEMMA RestKeepsSidebar ==
    ASSUME SidebarInv, bar' \in Bars, edits' \in Nat,
           bar'.user = bar.user, bar'.state = bar.state, bar'.confirmed = bar.confirmed, bar'.loaded = bar.loaded,
           bar'.queue = bar.queue, bar'.loading = bar.loading, bar'.unsure = bar.unsure,
           stored' \in [config : [Owners -> Configs], group : [Owners -> Groups \cup {NoGroup}]], stored'.config = stored.config,
           StoredApart'
    PROVE  SidebarInv'
  <1>1. SidebarTyped'
    BY DEF SidebarInv, SidebarTyped
  <1>2. BarKept(bar', stored'.config)
    BY DEF SidebarInv, BarKept, Shown, KeptConfirmed
  <1>3. QED
    BY <1>1, <1>2 DEF SidebarInv, BarKept

\* The sidebar is loaded, or not.
LEMMA LoadKeepsSidebar ==
    ASSUME SidebarInv, SidebarLoads
    PROVE  SidebarInv'
  <1>0. /\ bar \in Bars /\ stored \in [config : [Owners -> Configs], group : [Owners -> Groups \cup {NoGroup}]]
        /\ bar.loading /\ stored' = stored /\ edits' = edits /\ edits \in Nat
    BY DEF SidebarInv, SidebarTyped, SidebarLoads
  <1>1. bar.user \in Owners /\ bar.user # NoOne /\ ~bar.loaded /\ QueueOf(bar.queue, bar.user) /\ Earlier(bar.queue)
    BY <1>0 DEF SidebarInv, BarKept
  <1>2. PICK c \in Configs : c = stored.config[bar.user] /\ c.owner = bar.user
    BY <1>0, <1>1 DEF SidebarInv, StoredApart
  <1>3. bar.queue \in Seq(Writes) /\ Len(bar.queue) \in Nat
    BY <1>0 DEF Bars
  <1>4. ~LastIsCurrent(bar.queue) /\ ~FirstIsApplied(bar.queue)
    BY <1>1, <1>3 DEF Earlier, LastIsCurrent, FirstIsApplied
  <1>5. CASE bar' = [bar EXCEPT !.loading = FALSE, !.loaded = TRUE, !.state = stored.config[bar.user], !.confirmed = stored.config[bar.user]]
    <2>1. /\ bar' \in Bars /\ bar'.user = bar.user /\ bar'.queue = bar.queue /\ bar'.loaded /\ ~bar'.loading /\ bar'.state = c
          /\ bar'.confirmed = c
      BY <1>0, <1>2, <1>5 DEF Bars
    <2>3. BarKept(bar', stored.config)
      BY <1>1, <1>2, <1>4, <2>1 DEF BarKept, Shown, KeptConfirmed
    <2>4. QED
      BY <1>0, <2>1, <2>3 DEF SidebarInv, SidebarTyped, StoredApart, BarKept
  <1>6. CASE bar' = [bar EXCEPT !.loading = FALSE]
    <2>1. bar' \in Bars /\ bar'.user = bar.user /\ bar'.queue = bar.queue /\ ~bar'.loaded /\ ~bar'.loading
      <3>1. bar' \in Bars /\ bar'.user = bar.user /\ bar'.queue = bar.queue /\ bar'.loaded = bar.loaded /\ ~bar'.loading
        BY <1>0, <1>6 DEF Bars
      <3>2. QED
        BY <1>1, <3>1
    <2>2. BarKept(bar', stored.config)
      BY <1>1, <2>1 DEF BarKept
    <2>3. QED
      BY <1>0, <2>1, <2>2 DEF SidebarInv, SidebarTyped, StoredApart, BarKept
  <1>7. QED
    BY <1>0, <1>5, <1>6 DEF SidebarLoads

\* saveSidebar() of another configuration of the same user.
LEMMA SaveKeepsSidebar ==
    ASSUME SidebarInv, bar.loaded, NEW b \in Bars, stored' = stored, edits' \in Nat,
           b.user = bar.user, b.confirmed = bar.confirmed, b.loaded = bar.loaded, b.queue = bar.queue, b.loading = bar.loading,
           b.unsure = bar.unsure,
           NEW c \in Configs, c.owner = bar.user, NEW g \in Groups \cup {NoGroup}, bar' = SaveSidebar(b, c, g)
    PROVE  SidebarInv'
  <1>0. /\ bar \in Bars /\ stored \in [config : [Owners -> Configs], group : [Owners -> Groups \cup {NoGroup}]]
        /\ bar.user \in Owners /\ bar.user # NoOne /\ ~bar.loading
    BY DEF SidebarInv, SidebarTyped, BarKept
  <1>1. PICK q \in Seq(Writes) : q = bar.queue
    BY <1>0 DEF Bars
  <1>2. DOMAIN q = 1 .. Len(q) /\ Len(q) \in Nat /\ QueueOf(q, bar.user)
    BY <1>1 DEF SidebarInv, BarKept
  <1>3. PICK old : old = [i \in DOMAIN q |-> [q[i] EXCEPT !.newest = FALSE]]
    OBVIOUS
  <1>4. /\ old \in Seq(Writes) /\ Len(old) = Len(q)
        /\ \A i \in 1 .. Len(q) : /\ ~old[i].newest /\ old[i].current = q[i].current /\ old[i].config = q[i].config
                                  /\ old[i].phase = q[i].phase /\ old[i].cookie = q[i].cookie
    <2>1. ASSUME NEW i \in 1 .. Len(q)
          PROVE  /\ old[i] \in Writes
                 /\ ~old[i].newest /\ old[i].current = q[i].current /\ old[i].config = q[i].config
                 /\ old[i].phase = q[i].phase /\ old[i].cookie = q[i].cookie
      <3>1. PICK w \in Writes : w = q[i]
        BY <1>2
      <3>2. old[i] = [w EXCEPT !.newest = FALSE]
        BY <1>2, <1>3, <3>1
      <3>3. QED
        BY <3>1, <3>2 DEF Writes
    <2>2. old = [i \in 1 .. Len(q) |-> old[i]]
      BY <1>2, <1>3
    <2>3. old \in Seq(Writes) /\ Len(old) = Len(q)
      BY <1>2, <2>1, <2>2
    <2>4. QED
      BY <2>1, <2>3
  <1>5a. PICK w : w = [config |-> c, drop |-> g, phase |-> "queued", newest |-> TRUE, current |-> TRUE, cookie |-> NoOne]
    OBVIOUS
  <1>5c. w \in Writes
    BY <1>5a DEF Writes
  <1>5. w.config = c /\ w.phase = "queued" /\ w.newest /\ w.current
    BY <1>5a DEF Writes
  <1>5b. w = Write(c, g)
    BY <1>5a DEF Write
  <1>6. PICK n : n = Append(old, w)
    OBVIOUS
  <1>7. /\ n \in Seq(Writes) /\ Len(n) = Len(q) + 1 /\ n[Len(q) + 1] = w /\ \A i \in 1 .. Len(q) : n[i] = old[i]
    BY <1>2, <1>4, <1>5c, <1>6, AppendProperties
  <1>8. bar' = [b EXCEPT !.state = c, !.queue = n]
    BY <1>1, <1>3, <1>5b, <1>6 DEF SaveSidebar
  <1>9. /\ bar' \in Bars /\ bar'.user = bar.user /\ bar'.confirmed = bar.confirmed /\ bar'.loaded /\ bar'.queue = n
        /\ ~bar'.loading /\ bar'.unsure = bar.unsure /\ bar'.state = c
    BY <1>0, <1>7, <1>8 DEF Bars
  <1>10. \A i \in 1 .. Len(n) : i \in 1 .. Len(q) \/ i = Len(q) + 1
    BY <1>2, <1>7
  <1>11. QueueOf(n, bar.user)
    <2>1. \A i \in 2 .. Len(n) : n[i].phase = "queued"
      <3>1. ASSUME NEW i \in 2 .. Len(n)
            PROVE  n[i].phase = "queued"
        <4>1. (i \in 2 .. Len(q) /\ i \in 1 .. Len(q)) \/ i = Len(q) + 1
          BY <1>2, <1>7
        <4>2. QED
          BY <1>2, <1>4, <1>5, <1>7, <4>1 DEF QueueOf
      <3>2. QED
        BY <3>1
    <2>2. \A i \in 1 .. Len(n) : ~n[i].current => n[i].cookie = NoOne
      BY <1>2, <1>4, <1>5, <1>7, <1>10 DEF QueueOf
    <2>3. \A i \in 1 .. Len(n) :
             n[i].current => n[i].config.owner = bar.user /\ (n[i].phase # "queued" => n[i].cookie = bar.user)
      BY <1>2, <1>4, <1>5, <1>7, <1>10 DEF QueueOf
    <2>4. \A i, j \in 1 .. Len(n) : i < j /\ n[i].current => n[j].current
      <3>1. ASSUME NEW i \in 1 .. Len(n), NEW j \in 1 .. Len(n), i < j, n[i].current
            PROVE  n[j].current
        <4>1. CASE j = Len(q) + 1
          BY <1>5, <1>7, <4>1
        <4>2. CASE j # Len(q) + 1
          <5>1. i \in 1 .. Len(q) /\ j \in 1 .. Len(q)
            BY <1>2, <1>7, <3>1, <4>2
          <5>2. q[i].current
            BY <1>4, <1>7, <3>1, <5>1
          <5>3. q[j].current
            BY <1>2, <3>1, <5>1, <5>2 DEF QueueOf
          <5>4. QED
            BY <1>4, <1>7, <5>1, <5>3
        <4>3. QED
          BY <4>1, <4>2
      <3>2. QED
        BY <3>1
    <2>5. \A i \in 1 .. (Len(n) - 1) : n[i].current => ~n[i].newest
      BY <1>2, <1>4, <1>7
    <2> QED
      BY <2>1, <2>2, <2>3, <2>4, <2>5 DEF QueueOf
  <1>12. Shown(bar')
    <2>1. LastIsCurrent(n) /\ n[Len(n)] = w
      BY <1>2, <1>5, <1>7 DEF LastIsCurrent
    <2>2. bar.confirmed.owner = bar.user
      BY DEF SidebarInv, BarKept, Shown
    <2>3. QED
      BY <1>5, <1>9, <2>1, <2>2 DEF Shown
  <1>13. KeptConfirmed(bar', stored.config[bar.user])
    <2>1. KeptConfirmed(bar, stored.config[bar.user])
      BY DEF SidebarInv, BarKept
    <2>2. CASE Len(q) = 0
      <3>1. ~FirstIsApplied(n) /\ ~FirstIsApplied(q)
        BY <1>5, <1>7, <2>2 DEF FirstIsApplied
      <3>2. QED
        BY <1>1, <1>9, <2>1, <3>1 DEF KeptConfirmed
    <2>3. CASE Len(q) # 0
      <3>1. 1 \in 1 .. Len(q) /\ Len(n) # 0
        BY <1>2, <1>7, <2>3
      <3>2. n[1].current = q[1].current /\ n[1].phase = q[1].phase /\ n[1].config = q[1].config
        BY <1>4, <1>7, <3>1
      <3>3. FirstIsApplied(n) <=> FirstIsApplied(q)
        BY <2>3, <3>1, <3>2 DEF FirstIsApplied
      <3>4. QED
        BY <1>1, <1>9, <2>1, <3>2, <3>3 DEF KeptConfirmed
    <2>4. QED
      BY <2>2, <2>3
  <1>14. BarKept(bar', stored.config)
    BY <1>0, <1>9, <1>11, <1>12, <1>13 DEF BarKept
  <1>15. QED
    BY <1>0, <1>9, <1>14 DEF SidebarInv, SidebarTyped, StoredApart, BarKept

\* An edit is one more.
LEMMA EditCounts ==
    ASSUME SidebarInv, Edit
    PROVE  edits' \in Nat
  BY DEF SidebarInv, SidebarTyped, Edit

\* Groups and the width are edited.
LEMMA EditKeepsSidebar ==
    ASSUME SidebarInv, \/ \E g \in Groups : CreateGroup(g) \/ DeleteGroup(g)
                       \/ FinishDrag
    PROVE  SidebarInv'
  <1>0. bar \in Bars /\ edits' \in Nat /\ stored' = stored
    BY EditCounts DEF SidebarInv, SidebarTyped, CreateGroup, DeleteGroup, FinishDrag
  <1>1. PICK s \in Configs : s = bar.state
    BY <1>0 DEF Bars
  <1>2. bar.loaded => s.owner = bar.user
    BY <1>1 DEF SidebarInv, BarKept, Shown
  <1>3. ASSUME NEW g \in Groups, CreateGroup(g)
        PROVE  SidebarInv'
    <2>1. PICK gs \in SUBSET Groups : gs = s.groups \cup {g}
      BY DEF Configs
    <2>2. PICK c \in Configs : c = [s EXCEPT !.groups = gs] /\ c.owner = s.owner
      <3>1. PICK e : e = [s EXCEPT !.groups = gs]
        OBVIOUS
      <3>2. e \in Configs /\ e.owner = s.owner
        BY <3>1 DEF Configs
      <3>3. QED
        BY <3>1, <3>2
    <2>3. bar.loaded /\ bar' = SaveSidebar(bar, c, NoGroup)
      BY <1>1, <1>3, <2>1, <2>2 DEF CreateGroup
    <2>4. NoGroup \in Groups \cup {NoGroup} /\ c.owner = bar.user
      BY <1>2, <2>2, <2>3
    <2>5. QED
      BY <1>0, <2>3, <2>4, SaveKeepsSidebar
  <1>4. ASSUME NEW g \in Groups, DeleteGroup(g)
        PROVE  SidebarInv'
    <2>1. PICK gs \in SUBSET Groups : gs = s.groups \ {g}
      BY DEF Configs
    <2>2. PICK c \in Configs : c = [s EXCEPT !.groups = gs] /\ c.owner = s.owner
      <3>1. PICK e : e = [s EXCEPT !.groups = gs]
        OBVIOUS
      <3>2. e \in Configs /\ e.owner = s.owner
        BY <3>1 DEF Configs
      <3>3. QED
        BY <3>1, <3>2
    <2>3. bar.loaded /\ bar' = SaveSidebar(bar, c, g)
      BY <1>1, <1>4, <2>1, <2>2 DEF DeleteGroup
    <2>4. g \in Groups \cup {NoGroup} /\ c.owner = bar.user
      BY <1>2, <2>2, <2>3
    <2>5. QED
      BY <1>0, <2>3, <2>4, SaveKeepsSidebar
  <1>5. CASE FinishDrag
    <2>1. PICK b : b = [bar EXCEPT !.drag = "none", !.preview = DefaultWidth]
      OBVIOUS
    <2>2. /\ b \in Bars /\ b.user = bar.user /\ b.confirmed = bar.confirmed /\ b.loaded = bar.loaded /\ b.queue = bar.queue
          /\ b.loading = bar.loading /\ b.unsure = bar.unsure /\ b.state = bar.state
      BY <1>0, <2>1, SidebarAssumption DEF Bars
    <2>3. CASE bar.drag = "current" /\ bar.loaded /\ bar.preview # bar.state.width
      <3>1. PICK c \in Configs : c = [s EXCEPT !.width = bar.preview] /\ c.owner = s.owner
        <4>1. PICK e : e = [s EXCEPT !.width = bar.preview]
          OBVIOUS
        <4>2. bar.preview \in Widths
          BY <1>0 DEF Bars
        <4>3. e \in Configs /\ e.owner = s.owner
          BY <4>1, <4>2 DEF Configs
        <4>4. QED
          BY <4>1, <4>3
      <3>2. bar' = SaveSidebar(b, c, NoGroup)
        BY <1>1, <1>5, <2>1, <2>3, <3>1 DEF FinishDrag
      <3>3. NoGroup \in Groups \cup {NoGroup} /\ c.owner = bar.user
        BY <1>2, <2>3, <3>1
      <3>4. QED
        BY <1>0, <2>2, <2>3, <3>2, <3>3, SaveKeepsSidebar
    <2>4. CASE ~(bar.drag = "current" /\ bar.loaded /\ bar.preview # bar.state.width)
      <3>1. bar' = b
        BY <1>5, <2>1, <2>4 DEF FinishDrag
      <3>2. QED
        BY <1>0, <2>2, <3>1, RestKeepsSidebar DEF SidebarInv, SidebarTyped, StoredApart
    <2>5. QED
      BY <2>3, <2>4
  <1>6. QED
    BY <1>3, <1>4, <1>5

\* A drag, and a move of the room between groups.
LEMMA MovesKeepSidebar ==
    ASSUME SidebarInv, \/ BeginDrag \/ CancelDrag \/ \E w \in Widths : MoveDrag(w)
                       \/ \E g \in Groups \cup {NoGroup} : MoveRoom(g)
                       \/ \E m \in bar.moves : RoomMoved(m)
    PROVE  SidebarInv'
  <1>0. bar \in Bars /\ stored \in [config : [Owners -> Configs], group : [Owners -> Groups \cup {NoGroup}]] /\ StoredApart
        /\ edits \in Nat
    BY DEF SidebarInv, SidebarTyped
  <1>1. CASE BeginDrag \/ CancelDrag \/ \E w \in Widths : MoveDrag(w)
    <2>1. PICK drag \in {"none", "current", "stale"}, w \in Widths : bar' = [bar EXCEPT !.drag = drag, !.preview = w]
      <3>1. CASE BeginDrag
        <4>1. bar' = [bar EXCEPT !.drag = "current", !.preview = bar.preview]
          BY <1>0, <3>1 DEF BeginDrag, Bars
        <4>2. QED
          BY <1>0, <4>1 DEF Bars
      <3>2. CASE CancelDrag
        BY <3>2, SidebarAssumption DEF CancelDrag
      <3>3. CASE \E w \in Widths : MoveDrag(w)
        <4>1. PICK w \in Widths : MoveDrag(w)
          BY <3>3
        <4>2. bar' = [bar EXCEPT !.drag = "none", !.preview = bar.preview] \/ bar' = [bar EXCEPT !.drag = bar.drag, !.preview = w]
          BY <1>0, <4>1 DEF MoveDrag, Bars
        <4>3. QED
          BY <1>0, <4>2 DEF Bars
      <3>4. QED
        BY <1>1, <3>1, <3>2, <3>3
    <2>2. stored' = stored /\ edits' = edits
      BY <1>1 DEF BeginDrag, CancelDrag, MoveDrag
    <2>3. /\ bar' \in Bars /\ bar'.user = bar.user /\ bar'.confirmed = bar.confirmed /\ bar'.loaded = bar.loaded
          /\ bar'.queue = bar.queue /\ bar'.loading = bar.loading /\ bar'.unsure = bar.unsure /\ bar'.state = bar.state
      BY <1>0, <2>1 DEF Bars
    <2>4. QED
      BY <1>0, <2>2, <2>3, RestKeepsSidebar DEF StoredApart
  <1>2. CASE \E g \in Groups \cup {NoGroup} : MoveRoom(g)
    <2>1. PICK g \in Groups \cup {NoGroup} : MoveRoom(g)
      BY <1>2
    <2>2. bar.user \in Owners /\ edits' \in Nat /\ stored' = stored
      BY <2>1, EditCounts DEF MoveRoom, SidebarInv, BarKept
    <2>3. PICK m \in [user : Owners, group : Groups \cup {NoGroup}, current : BOOLEAN] :
              m = [user |-> bar.user, group |-> g, current |-> TRUE]
      BY <2>2
    <2>4. PICK ms \in SUBSET [user : Owners, group : Groups \cup {NoGroup}, current : BOOLEAN] : ms = bar.moves \cup {m}
      BY <1>0 DEF Bars
    <2>5. bar' = [bar EXCEPT !.moves = ms]
      BY <2>1, <2>3, <2>4 DEF MoveRoom
    <2>6. /\ bar' \in Bars /\ bar'.user = bar.user /\ bar'.confirmed = bar.confirmed /\ bar'.loaded = bar.loaded
          /\ bar'.queue = bar.queue /\ bar'.loading = bar.loading /\ bar'.unsure = bar.unsure /\ bar'.state = bar.state
      BY <1>0, <2>5 DEF Bars
    <2>7. QED
      BY <1>0, <2>2, <2>6, RestKeepsSidebar DEF StoredApart
  <1>3. CASE \E m \in bar.moves : RoomMoved(m)
    <2>1. PICK m \in bar.moves : RoomMoved(m)
      BY <1>3
    <2>2. m \in [user : Owners, group : Groups \cup {NoGroup}, current : BOOLEAN] /\ edits' = edits
      BY <1>0, <2>1 DEF Bars, RoomMoved
    <2>3. PICK ms \in SUBSET [user : Owners, group : Groups \cup {NoGroup}, current : BOOLEAN] : ms = bar.moves \ {m}
      BY <1>0 DEF Bars
    <2>4. PICK g \in Groups \cup {NoGroup} : g = IF MoveAccepted(m) THEN m.group ELSE bar.group
      BY <1>0, <2>2 DEF Bars
    <2>5. bar' = [bar EXCEPT !.moves = ms, !.group = g]
      BY <2>1, <2>3, <2>4 DEF RoomMoved
    <2>6. /\ bar' \in Bars /\ bar'.user = bar.user /\ bar'.confirmed = bar.confirmed /\ bar'.loaded = bar.loaded
          /\ bar'.queue = bar.queue /\ bar'.loading = bar.loading /\ bar'.unsure = bar.unsure /\ bar'.state = bar.state
      BY <1>0, <2>5 DEF Bars
    <2>7. CASE ~MoveAccepted(m)
      <3>1. stored' = stored
        BY <2>1, <2>7 DEF RoomMoved
      <3>2. QED
        BY <1>0, <2>2, <2>6, <3>1, RestKeepsSidebar DEF StoredApart
    <2>8. CASE MoveAccepted(m)
      <3>1. PICK kept \in [Owners -> Groups \cup {NoGroup}] : kept = [stored.group EXCEPT ![m.user] = m.group]
        BY <1>0, <2>2
      <3>2. stored' = [stored EXCEPT !.group = kept]
        BY <2>1, <2>8, <3>1 DEF RoomMoved
      <3>3. stored' \in [config : [Owners -> Configs], group : [Owners -> Groups \cup {NoGroup}]]
            /\ stored'.config = stored.config /\ stored'.group = kept
        BY <1>0, <3>2
      <3>4. StoredApart'
        <4>1. ASSUME NEW u \in Owners
              PROVE  stored'.config[u].owner = u /\ stored'.group[u] \in stored'.config[u].groups \cup {NoGroup}
          <5>1. stored'.group[u] = IF u = m.user THEN m.group ELSE stored.group[u]
            BY <1>0, <2>2, <3>1, <3>3
          <5>2. m.group \in stored.config[m.user].groups \cup {NoGroup}
            BY <2>8 DEF MoveAccepted
          <5>3. QED
            BY <1>0, <3>3, <5>1, <5>2 DEF StoredApart
        <4>2. QED
          BY <4>1 DEF StoredApart
      <3>5. QED
        BY <1>0, <2>2, <2>6, <3>3, <3>4, RestKeepsSidebar
    <2>9. QED
      BY <2>7, <2>8
  <1>4. QED
    BY <1>1, <1>2, <1>3

\* h is the first write of the session of u, under way; n is the queue with h in its place.
Marks(q, h, u) ==
    /\ q # <<>> /\ q[1].current /\ h \in Writes
    /\ h.current = q[1].current /\ h.config = q[1].config /\ h.newest = q[1].newest /\ h.cookie = u /\ h.phase # "queued"
HeadPut(q, h, n) == n = [q EXCEPT ![1] = h]
SameLast(q, n) ==
    /\ n \in Seq(Writes) /\ Len(n) = Len(q) /\ LastIsCurrent(n) /\ LastIsCurrent(q)
    /\ n[Len(n)].newest = q[Len(q)].newest /\ n[Len(n)].config = q[Len(q)].config

\* The first write is sent, or applied.
LEMMA HeadMarked ==
    ASSUME NEW q \in Seq(Writes), NEW u, QueueOf(q, u), NEW h, Marks(q, h, u), NEW n, HeadPut(q, h, n)
    PROVE  n[1] = h /\ QueueOf(n, u) /\ SameLast(q, n)
  <1>0. /\ q # <<>> /\ q[1].current /\ h \in Writes /\ n = [q EXCEPT ![1] = h]
        /\ h.current = q[1].current /\ h.config = q[1].config /\ h.newest = q[1].newest /\ h.cookie = u /\ h.phase # "queued"
    BY DEF Marks, HeadPut
  <1>1. Len(q) \in Nat \ {0} /\ DOMAIN q = 1 .. Len(q) /\ 1 \in 1 .. Len(q) /\ Len(q) \in 1 .. Len(q)
    BY <1>0, EmptySeq
  <1>2. n \in Seq(Writes) /\ Len(n) = Len(q)
    BY <1>0, <1>1
  <1>3. n[1] = h /\ \A i \in 1 .. Len(q) : i # 1 => n[i] = q[i]
    BY <1>0, <1>1
  <1>4. \A i \in 1 .. Len(q) : n[i].current = q[i].current /\ n[i].config = q[i].config /\ n[i].newest = q[i].newest
    <2>1. ASSUME NEW i \in 1 .. Len(q)
          PROVE  n[i].current = q[i].current /\ n[i].config = q[i].config /\ n[i].newest = q[i].newest
      <3>1. CASE i = 1
        BY <1>0, <1>3, <3>1
      <3>2. CASE i # 1
        BY <1>3, <3>2
      <3>3. QED
        BY <3>1, <3>2
    <2>2. QED
      BY <2>1
  <1>5. \A i \in 1 .. Len(q) : q[i].current
    <2>1. \A i \in 1 .. Len(q) : i # 1 => 1 < i
      BY <1>1
    <2>2. QED
      BY <1>0, <1>1, <2>1 DEF QueueOf
  <1>6. QueueOf(n, u)
    <2>1. \A i \in 2 .. Len(n) : n[i].phase = "queued"
      <3>1. \A i \in 2 .. Len(n) : i \in 1 .. Len(q) /\ i # 1 /\ i \in 2 .. Len(q)
        BY <1>1, <1>2
      <3>2. QED
        BY <1>3, <3>1 DEF QueueOf
    <2>2. \A i \in 1 .. Len(n) : ~n[i].current => n[i].cookie = NoOne
      BY <1>2, <1>4, <1>5
    <2>3. \A i \in 1 .. Len(n) :
             n[i].current => n[i].config.owner = u /\ (n[i].phase # "queued" => n[i].cookie = u)
      <3>1. ASSUME NEW i \in 1 .. Len(n)
            PROVE  n[i].config.owner = u /\ (n[i].phase # "queued" => n[i].cookie = u)
        <4>1. n[i].config.owner = u
          BY <1>2, <1>4, <1>5 DEF QueueOf
        <4>2. CASE i = 1
          BY <1>0, <1>3, <4>1, <4>2
        <4>3. CASE i # 1
          BY <1>2, <1>3, <1>5, <4>1, <4>3 DEF QueueOf
        <4>4. QED
          BY <4>2, <4>3
      <3>2. QED
        BY <3>1
    <2>4. \A i, j \in 1 .. Len(n) : i < j /\ n[i].current => n[j].current
      BY <1>2, <1>4, <1>5
    <2>5. \A i \in 1 .. (Len(n) - 1) : n[i].current => ~n[i].newest
      <3>1. \A i \in 1 .. (Len(n) - 1) : i \in 1 .. Len(q) /\ i \in 1 .. (Len(q) - 1)
        BY <1>1, <1>2
      <3>2. QED
        BY <1>4, <3>1 DEF QueueOf
    <2> QED
      BY <2>1, <2>2, <2>3, <2>4, <2>5 DEF QueueOf
  <1>7. LastIsCurrent(n) /\ LastIsCurrent(q)
    BY <1>1, <1>2, <1>4, <1>5 DEF LastIsCurrent
  <1>8. n[Len(n)].newest = q[Len(q)].newest /\ n[Len(n)].config = q[Len(q)].config
    BY <1>1, <1>2, <1>4
  <1>9. QED
    BY <1>2, <1>3, <1>6, <1>7, <1>8 DEF SameLast

\* A write of an earlier session leaves the queue.
LEMMA StaleKeepsSidebar ==
    ASSUME SidebarInv, stored' = stored, edits' = edits, NEW q, q = bar.queue, q # <<>>, ~q[1].current,
           NEW t, t = Tail(q), bar' = [bar EXCEPT !.queue = t]
    PROVE  SidebarInv'
  <1>0. /\ bar \in Bars /\ stored \in [config : [Owners -> Configs], group : [Owners -> Groups \cup {NoGroup}]]
        /\ edits \in Nat /\ StoredApart /\ q \in Seq(Writes) /\ QueueOf(q, bar.user)
    BY DEF SidebarInv, SidebarTyped, BarKept, Bars
  <1>1. /\ t \in Seq(Writes) /\ QueueOf(t, bar.user) /\ (Earlier(q) => Earlier(t)) /\ ~FirstIsApplied(t)
        /\ (LastIsCurrent(t) <=> Len(q) # 1 /\ LastIsCurrent(q)) /\ (Len(q) # 1 => t[Len(t)] = q[Len(q)])
    BY <1>0, QueueGoesOn
  <1>2. ~FirstIsApplied(q) /\ (LastIsCurrent(q) => Len(q) # 1)
    BY DEF FirstIsApplied, LastIsCurrent
  <1>3. /\ bar' \in Bars /\ bar'.user = bar.user /\ bar'.confirmed = bar.confirmed /\ bar'.loaded = bar.loaded
        /\ bar'.queue = t /\ bar'.loading = bar.loading /\ bar'.unsure = bar.unsure /\ bar'.state = bar.state
    BY <1>0, <1>1 DEF Bars
  <1>4. bar.loaded => Shown(bar')
    BY <1>1, <1>2, <1>3 DEF SidebarInv, BarKept, Shown
  <1>5. bar.loaded => KeptConfirmed(bar', stored.config[bar.user])
    BY <1>1, <1>2, <1>3 DEF SidebarInv, BarKept, KeptConfirmed
  <1>6. BarKept(bar', stored.config)
    BY <1>1, <1>3, <1>4, <1>5 DEF SidebarInv, BarKept
  <1>7. QED
    BY <1>0, <1>3, <1>6 DEF SidebarInv, SidebarTyped, StoredApart, BarKept

\* The first write is sent; one of an earlier session is dropped.
LEMMA StartKeepsSidebar ==
    ASSUME SidebarInv, StartWrite
    PROVE  SidebarInv'
  <1>0. /\ bar \in Bars /\ stored \in [config : [Owners -> Configs], group : [Owners -> Groups \cup {NoGroup}]]
        /\ stored' = stored /\ edits' = edits /\ edits \in Nat /\ StoredApart
    BY DEF SidebarInv, SidebarTyped, StartWrite
  <1>1. PICK q \in Seq(Writes) : q = bar.queue
    BY <1>0 DEF Bars
  <1>2. /\ q # <<>> /\ Head(q).phase = "queued" /\ Head(q) = q[1] /\ q[1] \in Writes /\ QueueOf(q, bar.user)
        /\ bar' = IF q[1].current THEN [bar EXCEPT !.queue[1] = [@ EXCEPT !.phase = "sent", !.cookie = bar.user]]
                                  ELSE [bar EXCEPT !.queue = Tail(q)]
    BY <1>1, QueueGoesOn DEF StartWrite, SidebarInv, BarKept
  <1>3. CASE q[1].current
    <2>1. PICK h : h = [q[1] EXCEPT !.phase = "sent", !.cookie = bar.user]
      OBVIOUS
    <2>2. h \in Writes /\ h.config = q[1].config /\ h.newest = q[1].newest /\ h.cookie = bar.user /\ h.phase = "sent"
          /\ h.current = q[1].current
      BY <1>0, <1>2, <2>1 DEF Writes, Bars
    <2>3. PICK n : n = [q EXCEPT ![1] = h]
      OBVIOUS
    <2>4. n[1] = h /\ QueueOf(n, bar.user) /\ SameLast(q, n)
      <3>1. Marks(q, h, bar.user)
        BY <1>2, <1>3, <2>2 DEF Marks
      <3>2. HeadPut(q, h, n)
        BY <2>3 DEF HeadPut
      <3>3. QED
        BY <1>2, <3>1, <3>2, HeadMarked
    <2>5. bar' = [bar EXCEPT !.queue = n]
      BY <1>0, <1>1, <1>2, <1>3, <2>1, <2>3 DEF Bars
    <2>6. /\ bar' \in Bars /\ bar'.user = bar.user /\ bar'.confirmed = bar.confirmed /\ bar'.loaded = bar.loaded
          /\ bar'.queue = n /\ bar'.loading = bar.loading /\ bar'.unsure = bar.unsure /\ bar'.state = bar.state
      BY <1>0, <2>4, <2>5 DEF Bars, SameLast
    <2>7. ~FirstIsApplied(n) /\ ~FirstIsApplied(q)
      BY <1>2, <2>2, <2>4 DEF FirstIsApplied, SameLast
    <2>8. Earlier(q) => FALSE
      <3>1. 1 \in 1 .. Len(q)
        BY <1>2, EmptySeq
      <3>2. QED
        BY <1>3, <3>1 DEF Earlier
    <2>9. bar.loaded => Shown(bar')
      BY <1>1, <2>4, <2>6 DEF SidebarInv, BarKept, Shown, SameLast
    <2>10. bar.loaded => KeptConfirmed(bar', stored.config[bar.user])
      BY <1>1, <2>6, <2>7 DEF SidebarInv, BarKept, KeptConfirmed
    <2>11. BarKept(bar', stored.config)
      BY <1>1, <2>4, <2>6, <2>8, <2>9, <2>10 DEF SidebarInv, BarKept
    <2>12. QED
      BY <1>0, <2>6, <2>11 DEF SidebarInv, SidebarTyped, StoredApart, BarKept
  <1>4. CASE ~q[1].current
    <2>1. PICK t : t = Tail(q)
      OBVIOUS
    <2>2. bar' = [bar EXCEPT !.queue = t]
      BY <1>2, <1>4, <2>1
    <2>3. QED
      BY <1>0, <1>1, <1>2, <1>4, <2>1, <2>2, StaleKeepsSidebar
  <1>5. QED
    BY <1>3, <1>4

\* The server keeps the first write, with the groups that are in it.
LEMMA ServeKeepsSidebar ==
    ASSUME SidebarInv, ServeWrite
    PROVE  SidebarInv'
  <1>0. /\ bar \in Bars /\ stored \in [config : [Owners -> Configs], group : [Owners -> Groups \cup {NoGroup}]]
        /\ edits' = edits /\ edits \in Nat /\ StoredApart
    BY DEF SidebarInv, SidebarTyped, ServeWrite
  <1>1. PICK q \in Seq(Writes) : q = bar.queue
    BY <1>0 DEF Bars
  <1>2. /\ q # <<>> /\ Head(q) = q[1] /\ q[1] \in Writes /\ QueueOf(q, bar.user) /\ Len(q) \in Nat \ {0}
        /\ q[1].phase = "sent" /\ q[1].cookie # NoOne
    BY <1>1, QueueGoesOn DEF ServeWrite, SidebarInv, BarKept
  <1>3. q[1].current
    BY <1>2 DEF QueueOf
  <1>4. q[1].cookie = bar.user /\ q[1].config.owner = bar.user
    BY <1>2, <1>3 DEF QueueOf
  <1>5. ~Earlier(q)
    BY <1>2, <1>3 DEF Earlier
  <1>6. bar.loaded /\ bar.user \in Owners
    BY <1>1, <1>5 DEF SidebarInv, BarKept
  <1>7. PICK c \in Configs : c = q[1].config
    BY <1>2 DEF Writes
  <1>8. PICK h : h = [q[1] EXCEPT !.phase = "applied"]
    OBVIOUS
  <1>9. h \in Writes /\ h.config = c /\ h.newest = q[1].newest /\ h.cookie = bar.user /\ h.phase = "applied"
        /\ h.current = q[1].current
    BY <1>2, <1>4, <1>7, <1>8 DEF Writes
  <1>10. PICK n : n = [q EXCEPT ![1] = h]
    OBVIOUS
  <1>11. n[1] = h /\ QueueOf(n, bar.user) /\ SameLast(q, n)
    <2>1. Marks(q, h, bar.user)
      BY <1>2, <1>3, <1>7, <1>9 DEF Marks
    <2>2. HeadPut(q, h, n)
      BY <1>10 DEF HeadPut
    <2>3. QED
      BY <1>2, <2>1, <2>2, HeadMarked
  <1>12. bar' = [bar EXCEPT !.queue = n]
    <2>1. bar' = [bar EXCEPT !.queue[1] = [@ EXCEPT !.phase = "applied"]]
      BY DEF ServeWrite
    <2>2. QED
      BY <1>0, <1>1, <1>8, <1>10, <2>1 DEF Bars
  <1>13. /\ bar' \in Bars /\ bar'.user = bar.user /\ bar'.confirmed = bar.confirmed /\ bar'.loaded = bar.loaded
         /\ bar'.queue = n /\ bar'.loading = bar.loading /\ bar'.unsure = bar.unsure /\ bar'.state = bar.state
    BY <1>0, <1>11, <1>12 DEF Bars, SameLast
  <1>14. stored' = StoreWrite(bar.user, c)
    BY <1>1, <1>2, <1>4, <1>7 DEF ServeWrite
  <1>15. PICK g \in Groups \cup {NoGroup} : g = IF stored.group[bar.user] \in c.groups THEN stored.group[bar.user] ELSE NoGroup
    BY <1>0, <1>6
  <1>16. PICK configs \in [Owners -> Configs], kept \in [Owners -> Groups \cup {NoGroup}] :
             configs = [stored.config EXCEPT ![bar.user] = c] /\ kept = [stored.group EXCEPT ![bar.user] = g]
    <2>1. [stored.config EXCEPT ![bar.user] = c] \in [Owners -> Configs]
      BY <1>0
    <2>2. [stored.group EXCEPT ![bar.user] = g] \in [Owners -> Groups \cup {NoGroup}]
      BY <1>0
    <2>3. QED
      BY <2>1, <2>2
  <1>17. stored' = [stored EXCEPT !.config = configs, !.group = kept]
    BY <1>0, <1>14, <1>15, <1>16 DEF StoreWrite
  <1>18. /\ stored' \in [config : [Owners -> Configs], group : [Owners -> Groups \cup {NoGroup}]]
         /\ stored'.config = configs /\ stored'.group = kept
    BY <1>0, <1>17
  <1>19. StoredApart'
    <2>1. ASSUME NEW u \in Owners
          PROVE  configs[u].owner = u /\ kept[u] \in configs[u].groups \cup {NoGroup}
      <3>1. CASE u = bar.user
        <4>1. configs[u] = c /\ kept[u] = g
          BY <1>0, <1>6, <1>16, <3>1
        <4>2. QED
          BY <1>4, <1>7, <1>15, <3>1, <4>1
      <3>2. CASE u # bar.user
        <4>1. configs[u] = stored.config[u] /\ kept[u] = stored.group[u]
          BY <1>0, <1>16, <3>2
        <4>2. QED
          BY <1>0, <4>1 DEF StoredApart
      <3>3. QED
        BY <3>1, <3>2
    <2>2. QED
      BY <1>18, <2>1 DEF StoredApart
  <1>20. configs[bar.user] = c
    BY <1>0, <1>6, <1>16
  <1>21. FirstIsApplied(n) /\ n[1].config = c
    <2>1. h.current
      BY <1>3, <1>9
    <2>2. QED
      BY <1>2, <1>9, <1>11, <2>1 DEF FirstIsApplied, SameLast
  <1>22. KeptConfirmed(bar', c)
    BY <1>13, <1>21 DEF KeptConfirmed
  <1>23. Shown(bar')
    BY <1>1, <1>6, <1>11, <1>13 DEF SidebarInv, BarKept, Shown, SameLast
  <1>24. BarKept(bar', configs)
    BY <1>1, <1>6, <1>11, <1>13, <1>20, <1>22, <1>23 DEF SidebarInv, BarKept
  <1>25. QED
    BY <1>0, <1>13, <1>18, <1>19, <1>24 DEF SidebarInv, SidebarTyped, BarKept

\* When the first write is of the page's session the last one is, and is the newest.
LEMMA CurrentHead ==
    ASSUME NEW q \in Seq(Writes), q # <<>>
    PROVE  \A u : QueueOf(q, u) /\ q[1].current => LastIsCurrent(q) /\ (q[Len(q)].newest => (q[1].newest <=> Len(q) = 1))
  <1>1. Len(q) \in Nat \ {0}
    BY EmptySeq, HeadTailProperties
  <1>2. Len(q) \in Nat /\ Len(q) # 0 /\ 1 \in 1 .. Len(q) /\ Len(q) \in 1 .. Len(q) /\ (1 = Len(q) \/ 1 < Len(q))
    <2>1. PICK n \in Nat : n = Len(q)
      BY <1>1
    <2>2. n # 0
      BY <1>1, <2>1
    <2>3. 1 \in 1 .. n /\ n \in 1 .. n
      BY <2>2
    <2>4. 1 = n \/ 1 < n
      BY <2>2
    <2>5. QED
      BY <2>1, <2>2, <2>3, <2>4
  <1>3. Len(q) # 1 => 1 \in 1 .. (Len(q) - 1)
    BY <1>2
  <1>4. ASSUME NEW u, QueueOf(q, u), q[1].current
        PROVE  LastIsCurrent(q) /\ (q[Len(q)].newest => (q[1].newest <=> Len(q) = 1))
    <2>1. LastIsCurrent(q)
      BY <1>2, <1>4 DEF QueueOf, LastIsCurrent
    <2>2. Len(q) # 1 => ~q[1].newest
      BY <1>3, <1>4 DEF QueueOf
    <2>3. CASE Len(q) = 1
      BY <2>1, <2>3
    <2>4. CASE Len(q) # 1
      BY <2>1, <2>2, <2>4
    <2>5. QED
      BY <2>3, <2>4
  <1>5. QED
    BY <1>4

\* The first write ends: the answer confirms it, or the newest edit falls back.
LEMMA EndKeepsSidebar ==
    ASSUME SidebarInv, NEW ok \in BOOLEAN, EndWrite(ok)
    PROVE  SidebarInv'
  <1>0. /\ bar \in Bars /\ stored \in [config : [Owners -> Configs], group : [Owners -> Groups \cup {NoGroup}]]
        /\ stored' = stored /\ edits' = edits /\ edits \in Nat /\ StoredApart
    BY DEF SidebarInv, SidebarTyped, EndWrite
  <1>1. PICK q \in Seq(Writes) : q = bar.queue
    BY <1>0 DEF Bars
  <1>2. PICK t : t = Tail(q)
    OBVIOUS
  <1>3. PICK s : s = [bar EXCEPT !.queue = t]
    OBVIOUS
  <1>4. PICK w : w = q[1]
    OBVIOUS
  <1>5. q # <<>> /\ Head(q) = w /\ w \in Writes /\ Len(q) \in Nat \ {0} /\ QueueOf(q, bar.user)
    BY <1>1, <1>4, QueueGoesOn DEF EndWrite, SidebarInv, BarKept
  <1>6. /\ t \in Seq(Writes) /\ QueueOf(t, bar.user) /\ (Earlier(q) => Earlier(t)) /\ ~FirstIsApplied(t)
        /\ (LastIsCurrent(t) <=> Len(q) # 1 /\ LastIsCurrent(q)) /\ (Len(q) # 1 => t[Len(t)] = q[Len(q)])
    BY <1>2, <1>5, QueueGoesOn
  <1>7. bar' = IF ~w.current THEN s ELSE IF ok THEN WriteSaved(w, s) ELSE WriteFailed(w, s)
    BY <1>1, <1>2, <1>3, <1>5 DEF EndWrite
  <1>8. CASE ~w.current
    <2>1. bar' = [bar EXCEPT !.queue = t]
      BY <1>3, <1>7, <1>8
    <2>2. QED
      BY <1>0, <1>1, <1>2, <1>4, <1>5, <1>8, <2>1, StaleKeepsSidebar
  <1>9. CASE w.current
    <2>1. /\ s \in Bars /\ s.user = bar.user /\ s.confirmed = bar.confirmed /\ s.loaded = bar.loaded
          /\ s.queue = t /\ s.loading = bar.loading /\ s.unsure = bar.unsure /\ s.state = bar.state /\ s.group = bar.group
      BY <1>0, <1>3, <1>6 DEF Bars
    <2>2. ~Earlier(q)
      BY <1>4, <1>5, <1>9 DEF Earlier
    <2>3. bar.loaded /\ bar.user \in Owners /\ bar.user # NoOne /\ ~bar.loading /\ Shown(bar)
          /\ KeptConfirmed(bar, stored.config[bar.user])
      BY <1>1, <2>2 DEF SidebarInv, BarKept
    <2>4. LastIsCurrent(q) /\ (q[Len(q)].newest => (w.newest <=> Len(q) = 1))
      BY <1>4, <1>5, <1>9, CurrentHead
    <2>5. /\ q[Len(q)].newest /\ q[Len(q)].config = bar.state
          /\ bar.state.owner = bar.user /\ bar.confirmed.owner = bar.user
      BY <1>1, <2>3, <2>4 DEF Shown
    <2>6. w.config \in Configs /\ w.config.owner = bar.user /\ bar.state \in Configs /\ bar.confirmed \in Configs
      BY <1>0, <1>4, <1>5, <1>9 DEF QueueOf, Writes, Bars
    <2>7. w.newest <=> Len(q) = 1
      BY <2>4, <2>5
    <2>8. LastIsCurrent(t) <=> ~w.newest
      BY <1>6, <2>4, <2>7
    <2>9. ~w.newest => t[Len(t)].newest /\ t[Len(t)].config = bar.state
      BY <1>6, <2>5, <2>7
    <2>10. SUFFICES /\ bar' \in Bars /\ bar'.user = bar.user /\ bar'.loaded = bar.loaded /\ bar'.queue = t
                    /\ bar'.loading = bar.loading /\ Shown(bar') /\ KeptConfirmed(bar', stored.config[bar.user])
      <3>1. ASSUME /\ bar' \in Bars /\ bar'.user = bar.user /\ bar'.loaded = bar.loaded /\ bar'.queue = t
                   /\ bar'.loading = bar.loading /\ Shown(bar') /\ KeptConfirmed(bar', stored.config[bar.user])
            PROVE  SidebarInv'
        <4>1. BarKept(bar', stored.config)
          BY <1>6, <2>3, <3>1 DEF BarKept
        <4>2. QED
          BY <1>0, <3>1, <4>1 DEF SidebarInv, SidebarTyped, StoredApart, BarKept
      <3>2. QED
        BY <3>1
    <2>11. CASE ok
      <3>1. w.phase = "applied"
        BY <1>1, <1>5, <2>11 DEF EndWrite
      <3>2. FirstIsApplied(q)
        BY <1>4, <1>5, <1>9, <3>1 DEF FirstIsApplied
      <3>3. stored.config[bar.user] = w.config
        BY <1>1, <1>4, <2>3, <3>2 DEF KeptConfirmed
      <3>4. PICK state \in Configs : state = IF w.newest THEN w.config ELSE bar.state
        BY <2>6
      <3>5. PICK g \in Groups \cup {NoGroup} : g = IF w.drop # NoGroup /\ bar.group = w.drop THEN NoGroup ELSE bar.group
        BY <1>0 DEF Bars
      <3>6. PICK c \in Configs : c = w.config
        BY <2>6
      <3>7. PICK saved : saved = [s EXCEPT !.confirmed = c, !.unsure = FALSE, !.state = state]
        OBVIOUS
      <3>8. /\ saved \in Bars /\ saved.user = bar.user /\ saved.confirmed = c /\ saved.loaded = bar.loaded
            /\ saved.queue = t /\ saved.loading = bar.loading /\ saved.unsure = FALSE /\ saved.state = state
            /\ saved.group = bar.group
        BY <2>1, <3>7 DEF Bars
      <3>9. bar' = [saved EXCEPT !.group = g]
        BY ZenonT(30), SMTT(30), <1>7, <1>9, <2>1, <2>11, <3>4, <3>5, <3>6, <3>7, <3>8 DEF WriteSaved
      <3>10. /\ bar' \in Bars /\ bar'.user = bar.user /\ bar'.loaded = bar.loaded /\ bar'.queue = t
             /\ bar'.loading = bar.loading /\ bar'.confirmed = c /\ bar'.state = state
        BY <3>8, <3>9 DEF Bars
      <3>11. Shown(bar')
        <4>1. CASE w.newest
          <5>1. bar'.state = c /\ c.owner = bar.user
            BY <2>6, <3>4, <3>6, <3>10, <4>1
          <5>2. QED
            BY <2>8, <3>10, <4>1, <5>1 DEF Shown
        <4>2. CASE ~w.newest
          <5>1. bar'.state = bar.state /\ c.owner = bar.user
            BY <2>6, <3>4, <3>6, <3>10, <4>2
          <5>2. QED
            BY <2>5, <2>8, <2>9, <3>10, <4>2, <5>1 DEF Shown
        <4>3. QED
          BY <4>1, <4>2
      <3>12. KeptConfirmed(bar', stored.config[bar.user])
        BY <1>6, <3>3, <3>6, <3>10 DEF KeptConfirmed
      <3>13. QED
        BY <3>10, <3>11, <3>12
    <2>12. CASE ~ok
      <3>1. PICK state \in Configs : state = IF w.newest THEN bar.confirmed ELSE bar.state
        BY <2>6
      <3>2. PICK unsure \in BOOLEAN : unsure = (bar.unsure \/ w.phase = "applied")
        BY <1>0 DEF Bars
      <3>3. bar' = [s EXCEPT !.state = state, !.unsure = unsure]
        BY <1>7, <1>9, <2>1, <2>12, <3>1, <3>2 DEF WriteFailed
      <3>4. /\ bar' \in Bars /\ bar'.user = bar.user /\ bar'.loaded = bar.loaded /\ bar'.queue = t
            /\ bar'.loading = bar.loading /\ bar'.confirmed = bar.confirmed /\ bar'.state = state /\ bar'.unsure = unsure
        BY <2>1, <3>3 DEF Bars
      <3>5. Shown(bar')
        <4>1. CASE w.newest
          <5>1. bar'.state = bar.confirmed
            BY <3>1, <3>4, <4>1
          <5>2. QED
            BY <2>5, <2>8, <3>4, <4>1, <5>1 DEF Shown
        <4>2. CASE ~w.newest
          <5>1. bar'.state = bar.state
            BY <3>1, <3>4, <4>2
          <5>2. QED
            BY <2>5, <2>8, <2>9, <3>4, <4>2, <5>1 DEF Shown
        <4>3. QED
          BY <4>1, <4>2
      <3>6. KeptConfirmed(bar', stored.config[bar.user])
        <4>1. CASE w.phase = "applied"
          BY <1>6, <3>2, <3>4, <4>1 DEF KeptConfirmed
        <4>2. CASE w.phase # "applied"
          <5>1. ~FirstIsApplied(q) /\ bar'.unsure = bar.unsure
            <6>1. unsure = bar.unsure
              BY <1>0, <3>2, <4>2 DEF Bars
            <6>2. QED
              BY <1>4, <3>4, <4>2, <6>1 DEF FirstIsApplied
          <5>2. QED
            BY <1>1, <1>6, <2>3, <3>4, <5>1 DEF KeptConfirmed
        <4>3. QED
          BY <4>1, <4>2
      <3>7. QED
        BY <3>4, <3>5, <3>6
    <2>13. QED
      BY <2>11, <2>12
  <1>10. QED
    BY <1>8, <1>9

\* One step for each action of SidebarNext.
LEMMA SidebarStep == SidebarInv /\ [SidebarNext]_sidebarVars => SidebarInv'
  <1> SUFFICES ASSUME SidebarInv, [SidebarNext]_sidebarVars PROVE SidebarInv'
    OBVIOUS
  <1>1. ASSUME NEW u \in Owners, EnterSidebar(u)
        PROVE  SidebarInv'
    <2>1. u \in Owners \cup {NoOne} /\ ResetSidebarState(u) /\ stored' = stored /\ Edit
      BY <1>1 DEF EnterSidebar
    <2>2. QED
      BY <2>1, EditCounts, ResetKeepsSidebar
  <1>2. CASE LeaveSidebar
    <2>1. NoOne \in Owners \cup {NoOne} /\ ResetSidebarState(NoOne) /\ stored' = stored /\ edits' \in Nat
      BY <1>2 DEF LeaveSidebar, SidebarInv, SidebarTyped
    <2>2. QED
      BY <2>1, ResetKeepsSidebar
  <1>3. CASE SidebarLoads
    BY <1>3, LoadKeepsSidebar
  <1>4. CASE BeginDrag \/ CancelDrag \/ \E w \in Widths : MoveDrag(w)
    BY <1>4, MovesKeepSidebar
  <1>5. CASE FinishDrag \/ \E g \in Groups : CreateGroup(g) \/ DeleteGroup(g)
    BY <1>5, EditKeepsSidebar
  <1>6. CASE StartWrite
    BY <1>6, StartKeepsSidebar
  <1>7. CASE ServeWrite
    BY <1>7, ServeKeepsSidebar
  <1>8. ASSUME NEW ok \in BOOLEAN, EndWrite(ok)
        PROVE  SidebarInv'
    BY <1>8, EndKeepsSidebar
  <1>9. CASE (\E g \in Groups \cup {NoGroup} : MoveRoom(g)) \/ \E m \in bar.moves : RoomMoved(m)
    BY <1>9, MovesKeepSidebar
  <1>10. CASE UNCHANGED sidebarVars
    BY <1>10 DEF sidebarVars, SidebarInv, SidebarTyped, StoredApart, BarKept
  <1>11. QED
    BY <1>1, <1>2, <1>3, <1>4, <1>5, <1>6, <1>7, <1>8, <1>9, <1>10 DEF SidebarNext

\* saveSidebar(): the writes of the page's session come last in the queue and only the
\* first of them is under way; the page shows the newest of them, and what it believes
\* confirmed is what the server keeps.
THEOREM SidebarInvariant == SidebarSpec => []SidebarInv
  <1>1. QED
    BY SidebarStart, SidebarStep, PTL DEF SidebarSpec

\* saveSidebar(): whatever fails on the way, a page with no write under way shows what is
\* kept, unless an answer was lost; and no room is kept in a group that is gone.
THEOREM SidebarShowsWhatIsKept == SidebarSpec => []SidebarConverges
  <1>1. SidebarInv => SidebarConverges
    <2>1. ASSUME SidebarInv, bar.loaded, bar.queue = <<>>, ~bar.unsure
          PROVE  bar.state = bar.confirmed /\ bar.state = stored.config[bar.user]
      <3>1. Shown(bar) /\ KeptConfirmed(bar, stored.config[bar.user])
        BY <2>1 DEF SidebarInv, BarKept
      <3>2. Len(bar.queue) = 0
        BY <2>1
      <3>3. ~LastIsCurrent(bar.queue) /\ ~FirstIsApplied(bar.queue)
        BY <3>2 DEF LastIsCurrent, FirstIsApplied
      <3>4. QED
        BY <2>1, <3>1, <3>3 DEF Shown, KeptConfirmed
    <2>2. QED
      BY <2>1 DEF SidebarInv, StoredApart, SidebarConverges
  <1>2. QED
    BY <1>1, SidebarInvariant, PTL

-----------------------------------------------------------------------------
(* The composers: submitMessage() and uploadAttachments()                    *)

ComposerSpec == ComposerInit /\ [][ComposerNext]_composerVars

AnyRoom == ChatRooms \cup {NoChat}
ItemsOf(r) == [id : Nat, room : {r}, status : {"uploading", "ready", "failed"}]
Sent == [place : Places, nonce : Nat, room : AnyRoom, text : Texts \cup {NoText}, items : SUBSET Nat, intent : Nat]
Records == [phase : {"idle", "asking", "recording", "stopping"}, room : AnyRoom, fresh : BOOLEAN, cancelled : BOOLEAN]
Ops == [place : Places, room : AnyRoom, phase : {"asking", "resetting"}]
UploadsOf == [room : AnyRoom, item : Nat, left : Nat, fresh : BOOLEAN]

\* The page, its items chosen or recorded in the room r.
Pages(r) ==
    [room : AnyRoom, pane : AnyRoom, items : Seq(ItemsOf(r)),
     text : [Places -> Texts \cup {NoText}], sending : [Places -> Sent \cup {Nothing}],
     pendingSend : Sent \cup {Nothing}, intent : Nat, last : [Places -> Sent \cup {Nothing}],
     recording : Records, mic : BOOLEAN, locks : [ChatRooms -> {"free", "held"}], op : Ops \cup {Nothing}]

ComposerTyped ==
    /\ page \in Pages(page.room) /\ uploads \subseteq UploadsOf /\ wire \subseteq Sent /\ posts \subseteq Sent
    /\ counts \in [nonces : Nat, items : Nat, changes : Nat]

\* The messages that are sent, are being sent or may be sent again; out: those that
\* have left the page.
Said(s, out) == out \cup {m \in {s.sending[p] : p \in Places} \cup {s.last[p] : p \in Places} : m # Nothing}

\* Messages of the main composer that mean the same have one nonce.
SaysOnce(s, out) ==
    /\ s.pendingSend = s.last["main"]
    /\ \A p \in Places : s.last[p] # Nothing => s.last[p].place = p
    /\ \A m \in Said(s, out) : m.intent <= s.intent
    /\ \A m, n \in Said(s, out) : m.place = "main" /\ n.place = "main" /\ m.intent = n.intent => m.nonce = n.nonce

ComposerInv == ComposerTyped /\ SaysOnce(page, wire \cup posts)

SameTalk(s, t) == t.sending = s.sending /\ t.last = s.last /\ t.pendingSend = s.pendingSend /\ t.intent = s.intent

\* Nothing is chosen and nothing is said.
LEMMA ComposerStart == ComposerInit => ComposerInv
  <1> SUFFICES ASSUME ComposerInit PROVE ComposerInv
    OBVIOUS
  <1>1. PICK items \in Seq(ItemsOf(NoChat)) : items = <<>>
    <2>1. <<>> \in Seq(ItemsOf(NoChat))
      OBVIOUS
    <2>2. QED
      BY <2>1
  <1>2. PICK text \in [Places -> Texts \cup {NoText}] : text = [p \in Places |-> NoText]
    OBVIOUS
  <1>3. PICK none \in [Places -> Sent \cup {Nothing}] : none = [p \in Places |-> Nothing]
    OBVIOUS
  <1>4. PICK rec \in Records : rec = [phase |-> "idle", room |-> NoChat, fresh |-> FALSE, cancelled |-> FALSE]
    <2>1. PICK e : e = [phase |-> "idle", room |-> NoChat, fresh |-> FALSE, cancelled |-> FALSE]
      OBVIOUS
    <2>2. e \in Records
      BY <2>1 DEF Records, AnyRoom
    <2>3. QED
      BY <2>1, <2>2
  <1>5. PICK locks \in [ChatRooms -> {"free", "held"}] : locks = [r \in ChatRooms |-> "free"]
    OBVIOUS
  <1>6. page = [room |-> NoChat, pane |-> NoChat, items |-> items, text |-> text, sending |-> none, pendingSend |-> Nothing,
                intent |-> 0, last |-> none, recording |-> rec, mic |-> FALSE, locks |-> locks, op |-> Nothing]
    BY <1>1, <1>2, <1>3, <1>4, <1>5 DEF ComposerInit
  <1>7. page \in Pages(NoChat) /\ page.room = NoChat
    BY <1>6 DEF Pages, AnyRoom
  <1>8. uploads = {} /\ wire = {} /\ posts = {} /\ counts \in [nonces : Nat, items : Nat, changes : Nat]
    BY DEF ComposerInit
  <1>9. ComposerTyped
    BY <1>7, <1>8 DEF ComposerTyped
  <1>10. page.pendingSend = Nothing /\ page.sending = none /\ page.last = none
    BY <1>6
  <1>11. \A p \in Places : none[p] = Nothing
    BY <1>3
  <1>12. Said(page, {}) = {}
    BY <1>10, <1>11 DEF Said
  <1>13. wire \cup posts = {} /\ "main" \in Places
    BY <1>8 DEF Places
  <1>14. SaysOnce(page, wire \cup posts)
    BY <1>10, <1>11, <1>12, <1>13 DEF SaysOnce
  <1>15. QED
    BY <1>9, <1>14 DEF ComposerInv

\* What is said less often is still said once.
LEMMA LessIsSaidOnce ==
    ASSUME NEW s, NEW out, SaysOnce(s, out), NEW t, NEW less, Said(t, less) \subseteq Said(s, out),
           t.intent = s.intent, t.pendingSend = t.last["main"], \A p \in Places : t.last[p] = s.last[p] \/ t.last[p] = Nothing
    PROVE  SaysOnce(t, less)
  BY DEF SaysOnce

\* A step that says nothing.
LEMMA RestKeepsComposer ==
    ASSUME ComposerInv, NEW r, page'.room = r, page' \in Pages(r), SameTalk(page, page'),
           uploads' \subseteq UploadsOf, wire' \subseteq wire \cup posts, posts' \subseteq wire \cup posts,
           counts' \in [nonces : Nat, items : Nat, changes : Nat]
    PROVE  ComposerInv'
  <1>1. ComposerTyped'
    BY DEF ComposerInv, ComposerTyped
  <1>2. Said(page', wire' \cup posts') \subseteq Said(page, wire \cup posts)
    BY DEF Said, SameTalk
  <1>3. SaysOnce(page', wire' \cup posts')
    BY <1>2 DEF ComposerInv, SaysOnce, SameTalk
  <1>4. QED
    BY <1>1, <1>3 DEF ComposerInv, SaysOnce, Said

\* clearPendingAttachments() after cancelActiveRecording().
LEMMA LeaveClears ==
    ASSUME NEW q, NEW s \in Pages(q), NEW t, t = ClearPendingAttachments(CancelActiveRecording(s))
    PROVE  t \in Pages(s.room) /\ t.room = s.room /\ SameTalk(s, t)
  <1>1. PICK rec \in Records : rec = s.recording
    BY DEF Pages
  <1>2. PICK rec2 \in Records : rec2 = IF rec.phase \notin {"recording", "stopping"} THEN rec
                                       ELSE [rec EXCEPT !.phase = "stopping", !.cancelled = TRUE]
    <2>1. PICK e : e = [rec EXCEPT !.phase = "stopping", !.cancelled = TRUE]
      OBVIOUS
    <2>2. e \in Records
      BY <2>1 DEF Records
    <2>3. QED
      BY <2>1, <2>2
  <1>3. PICK u : u = CancelActiveRecording(s)
    OBVIOUS
  <1>4. u = [s EXCEPT !.recording = rec2]
    <2>1. CASE rec.phase \notin {"recording", "stopping"}
      <3>1. u = s /\ rec2 = s.recording
        BY <1>1, <1>2, <1>3, <2>1 DEF CancelActiveRecording
      <3>2. QED
        BY <3>1 DEF Pages
    <2>2. CASE rec.phase \in {"recording", "stopping"}
      <3>1. u = [s EXCEPT !.recording.phase = "stopping", !.recording.cancelled = TRUE]
        BY <1>1, <1>3, <2>2 DEF CancelActiveRecording
      <3>2. rec2 = [rec EXCEPT !.phase = "stopping", !.cancelled = TRUE]
        BY <1>2, <2>2
      <3>3. QED
        BY <1>1, <3>1, <3>2 DEF Pages
    <2>3. QED
      BY <2>1, <2>2
  <1>5. u.recording = rec2 /\ u.room = s.room /\ SameTalk(s, u)
    BY <1>4 DEF Pages, SameTalk
  <1>6. PICK rec3 \in Records : rec3 = [rec2 EXCEPT !.fresh = FALSE]
    <2>1. PICK e : e = [rec2 EXCEPT !.fresh = FALSE]
      OBVIOUS
    <2>2. e \in Records
      BY <2>1 DEF Records
    <2>3. QED
      BY <2>1, <2>2
  <1>7. PICK items \in Seq(ItemsOf(s.room)) : items = <<>>
    <2>1. <<>> \in Seq(ItemsOf(s.room))
      OBVIOUS
    <2>2. QED
      BY <2>1
  <1>8. t = [u EXCEPT !.items = items, !.recording = rec3]
    BY <1>3, <1>4, <1>5, <1>6, <1>7 DEF ClearPendingAttachments, Pages
  <1>9. t = [s EXCEPT !.recording = rec3, !.items = items]
    BY <1>4, <1>8 DEF Pages
  <1>10. QED
    BY <1>9 DEF Pages, SameTalk

\* A step that says less: a message is confirmed, or given up, or on its way again.
LEMMA LessKeepsComposer ==
    ASSUME ComposerInv, NEW r, page'.room = r, page' \in Pages(r), page'.intent = page.intent,
           page'.pendingSend = page'.last["main"],
           \A p \in Places : /\ page'.last[p] = page.last[p] \/ page'.last[p] = Nothing
                             /\ page'.sending[p] = page.sending[p] \/ page'.sending[p] = Nothing,
           uploads' \subseteq UploadsOf, wire' \subseteq Said(page, wire \cup posts), wire' \subseteq Sent,
           posts' \subseteq wire \cup posts, counts' \in [nonces : Nat, items : Nat, changes : Nat]
    PROVE  ComposerInv'
  <1>1. ComposerTyped'
    BY DEF ComposerInv, ComposerTyped
  <1>2. Said(page', wire' \cup posts') \subseteq Said(page, wire \cup posts)
    BY DEF Said
  <1>3. SaysOnce(page, wire \cup posts)
    BY DEF ComposerInv
  <1>4. SaysOnce(page', wire' \cup posts')
    BY <1>2, <1>3 DEF SaysOnce
  <1>5. QED
    BY <1>1, <1>4 DEF ComposerInv, SaysOnce, Said

\* A change counts.
LEMMA ChangeCounts ==
    ASSUME ComposerInv, Change
    PROVE  counts' \in [nonces : Nat, items : Nat, changes : Nat]
  BY DEF ComposerInv, ComposerTyped, Change

\* The uploads of another generation.
LEMMA OutdatedTyped == ASSUME ComposerInv PROVE Outdated \subseteq UploadsOf
  <1>1. ASSUME NEW u \in uploads
        PROVE  [u EXCEPT !.fresh = FALSE] \in UploadsOf
    <2>1. u \in UploadsOf
      BY DEF ComposerInv, ComposerTyped
    <2>2. PICK e : e = [u EXCEPT !.fresh = FALSE]
      OBVIOUS
    <2>3. e \in UploadsOf
      BY <2>1, <2>2 DEF UploadsOf
    <2>4. QED
      BY <2>2, <2>3
  <1>2. QED
    BY <1>1 DEF Outdated

\* Another room, another pane, a logout: what was chosen is cleared.
LEMMA RoomsKeepComposer ==
    ASSUME ComposerInv, (\E r \in ChatRooms : OpenRoom(r) \/ DockRoom(r)) \/ LogOut
    PROVE  ComposerInv'
  <1>0. page \in Pages(page.room) /\ uploads \subseteq UploadsOf /\ wire \subseteq Sent /\ posts \subseteq Sent
    BY DEF ComposerInv, ComposerTyped
  <1>1. ASSUME NEW r \in ChatRooms, OpenRoom(r)
        PROVE  ComposerInv'
    <2>1. PICK s : s = [page EXCEPT !.room = r, !.pane = IF @ = r THEN page.room ELSE @]
      OBVIOUS
    <2>2. s \in Pages(page.room) /\ s.room = r /\ SameTalk(page, s)
      <3>1. PICK q \in AnyRoom : q = IF page.pane = r THEN page.room ELSE page.pane
        BY <1>0 DEF Pages
      <3>2. s = [page EXCEPT !.room = r, !.pane = q]
        BY <1>0, <2>1, <3>1 DEF Pages
      <3>3. QED
        BY <1>0, <3>2 DEF Pages, SameTalk, AnyRoom
    <2>3. page' = ClearPendingAttachments(CancelActiveRecording(s)) /\ uploads' = Outdated /\ wire' = wire /\ posts' = posts /\ Change
      BY <1>1, <2>1 DEF OpenRoom
    <2>4. page' \in Pages(r) /\ page'.room = r /\ SameTalk(s, page')
      BY <2>2, <2>3, LeaveClears
    <2>5. SameTalk(page, page')
      BY <2>2, <2>4 DEF SameTalk
    <2>6. QED
      BY <2>3, <2>4, <2>5, RestKeepsComposer, ChangeCounts, OutdatedTyped
  <1>2. ASSUME NEW r \in ChatRooms, DockRoom(r)
        PROVE  ComposerInv'
    <2>1. page' = [page EXCEPT !.pane = r] /\ uploads' = uploads /\ wire' = wire /\ posts' = posts /\ Change
      BY <1>2 DEF DockRoom
    <2>2. page' \in Pages(page.room) /\ page'.room = page.room /\ SameTalk(page, page')
      BY <1>0, <2>1 DEF Pages, SameTalk, AnyRoom
    <2>3. QED
      BY <1>0, <2>1, <2>2, RestKeepsComposer, ChangeCounts
  <1>3. CASE LogOut
    <2>1. PICK text \in [Places -> Texts \cup {NoText}] : text = [p \in Places |-> NoText]
      OBVIOUS
    <2>2. PICK none \in [Places -> Sent \cup {Nothing}] : none = [p \in Places |-> Nothing]
      OBVIOUS
    <2>3. PICK locks \in [ChatRooms -> {"free", "held"}] : locks = [r \in ChatRooms |-> "free"]
      OBVIOUS
    <2>4. PICK s : s = [page EXCEPT !.room = NoChat, !.pane = NoChat, !.pendingSend = Nothing, !.op = Nothing,
                                    !.text = text, !.last = none, !.locks = locks]
      OBVIOUS
    <2>5. s \in Pages(page.room) /\ s.room = NoChat /\ s.pendingSend = Nothing /\ s.last = none /\ s.sending = page.sending
          /\ s.intent = page.intent
      BY <1>0, <2>4 DEF Pages, AnyRoom
    <2>6. page' = ClearPendingAttachments(CancelActiveRecording(s)) /\ uploads' = Outdated /\ wire' = {} /\ posts' = posts /\ Change
      BY <1>3, <2>1, <2>2, <2>3, <2>4 DEF LogOut
    <2>7. page' \in Pages(NoChat) /\ page'.room = NoChat /\ SameTalk(s, page')
      BY <2>5, <2>6, LeaveClears
    <2>8. "main" \in Places /\ \A p \in Places : none[p] = Nothing
      BY <2>2 DEF Places
    <2>9. /\ page'.intent = page.intent /\ page'.pendingSend = page'.last["main"]
          /\ \A p \in Places : /\ page'.last[p] = page.last[p] \/ page'.last[p] = Nothing
                               /\ page'.sending[p] = page.sending[p] \/ page'.sending[p] = Nothing
      BY <2>5, <2>7, <2>8 DEF SameTalk
    <2>10. wire' \subseteq Said(page, wire \cup posts) /\ wire' \subseteq Sent /\ posts' \subseteq wire \cup posts
      BY <2>6
    <2>11. uploads' \subseteq UploadsOf /\ counts' \in [nonces : Nat, items : Nat, changes : Nat]
      BY <2>6, ChangeCounts, OutdatedTyped
    <2>12. QED
      BY <2>7, <2>9, <2>10, <2>11, LessKeepsComposer
  <1>4. QED
    BY <1>1, <1>2, <1>3

\* A file of the room that is selected is one more item.
LEMMA PushKeeps ==
    ASSUME NEW r, NEW s \in Pages(r), NEW u \in UploadsOf, u.room = r, NEW t, t = PushItem(s, u)
    PROVE  t \in Pages(r) /\ t.room = s.room /\ SameTalk(s, t)
  <1>1. PICK it : it = [id |-> u.item, room |-> u.room, status |-> "uploading"]
    OBVIOUS
  <1>2. it \in ItemsOf(r)
    BY <1>1 DEF ItemsOf, UploadsOf
  <1>3. PICK items \in Seq(ItemsOf(r)) : items = s.items
    BY DEF Pages
  <1>4. PICK more : more = Append(items, it)
    OBVIOUS
  <1>5. more \in Seq(ItemsOf(r))
    BY <1>2, <1>4, AppendProperties
  <1>6. t = [s EXCEPT !.items = more]
    BY <1>1, <1>3, <1>4 DEF PushItem
  <1>7. QED
    BY <1>5, <1>6 DEF Pages, SameTalk

\* An upload ends one way or the other.
LEMMA MarkKeeps ==
    ASSUME NEW r, NEW s \in Pages(r), NEW u, NEW status \in {"ready", "failed"}, NEW t, t = Marked(s, u, status)
    PROVE  t \in Pages(r) /\ t.room = s.room /\ SameTalk(s, t)
  <1>1. PICK items \in Seq(ItemsOf(r)) : items = s.items
    BY DEF Pages
  <1>2. DOMAIN items = 1 .. Len(items) /\ Len(items) \in Nat
    BY <1>1
  <1>3. PICK marked : marked = [i \in DOMAIN items |-> IF items[i].id = u.item THEN [items[i] EXCEPT !.status = status] ELSE items[i]]
    OBVIOUS
  <1>4. ASSUME NEW i \in 1 .. Len(items)
        PROVE  marked[i] \in ItemsOf(r)
    <2>1. PICK it \in ItemsOf(r) : it = items[i]
      BY <1>2
    <2>2. PICK e : e = [it EXCEPT !.status = status]
      OBVIOUS
    <2>3. e \in ItemsOf(r)
      BY <2>2 DEF ItemsOf
    <2>4. marked[i] = e \/ marked[i] = it
      BY <1>2, <1>3, <2>1, <2>2
    <2>5. QED
      BY <2>3, <2>4
  <1>5. marked = [i \in 1 .. Len(items) |-> marked[i]]
    BY <1>2, <1>3
  <1>6. marked \in Seq(ItemsOf(r))
    BY <1>2, <1>4, <1>5
  <1>7. t = [s EXCEPT !.items = marked]
    BY <1>1, <1>3 DEF Marked
  <1>8. QED
    BY <1>6, <1>7 DEF Pages, SameTalk

\* uploadAttachments() to its first await.
LEMMA UploadKeeps ==
    ASSUME ComposerInv, NEW s \in Pages(page.room), s.room = page.room, SameTalk(page, s), s.room \in AnyRoom,
           NEW n \in 1 .. 2, Upload(s, n), wire' = wire, posts' = posts
    PROVE  ComposerInv'
  <1>0. uploads \subseteq UploadsOf /\ counts \in [nonces : Nat, items : Nat, changes : Nat]
    BY DEF ComposerInv, ComposerTyped
  <1>1. PICK u : u = [room |-> s.room, item |-> counts.items + 1, left |-> n - 1, fresh |-> TRUE]
    OBVIOUS
  <1>2. u \in UploadsOf /\ u.room = page.room
    BY <1>0, <1>1 DEF UploadsOf
  <1>3. /\ page' = PushItem(s, u) /\ uploads' = uploads \cup {u}
        /\ counts' = [counts EXCEPT !.items = @ + n]
    BY <1>1 DEF Upload
  <1>4. page' \in Pages(page.room) /\ page'.room = page.room /\ SameTalk(s, page')
    BY <1>2, <1>3, PushKeeps
  <1>5. SameTalk(page, page')
    BY <1>4 DEF SameTalk
  <1>6. uploads' \subseteq UploadsOf
    BY <1>0, <1>2, <1>3
  <1>7. counts' \in [nonces : Nat, items : Nat, changes : Nat]
    BY <1>0, <1>3
  <1>8. QED
    BY <1>4, <1>5, <1>6, <1>7, RestKeepsComposer

\* Attachments.
LEMMA ItemsKeepComposer ==
    ASSUME ComposerInv,
           \/ \E n \in 1 .. 2 : UploadAttachments(n)
           \/ \E u \in uploads, st \in {"ready", "failed"} : EndUpload(u, st)
           \/ \E i \in 1 .. MaxItems : RemoveItem(i)
    PROVE  ComposerInv'
  <1>0. page \in Pages(page.room) /\ uploads \subseteq UploadsOf /\ counts \in [nonces : Nat, items : Nat, changes : Nat]
    BY DEF ComposerInv, ComposerTyped
  <1>a. page.room \in AnyRoom /\ SameTalk(page, page)
    BY <1>0 DEF Pages, SameTalk
  <1>1. ASSUME NEW n \in 1 .. 2, UploadAttachments(n)
        PROVE  ComposerInv'
    <2>1. Upload(page, n) /\ wire' = wire /\ posts' = posts
      BY <1>1 DEF UploadAttachments
    <2>2. QED
      BY <1>0, <1>a, <2>1, UploadKeeps
  <1>2. ASSUME NEW u \in uploads, NEW st \in {"ready", "failed"}, EndUpload(u, st)
        PROVE  ComposerInv'
    <2>1. wire' = wire /\ posts' = posts /\ counts' = counts /\ UploadReplied(u, Marked(page, u, st)) /\ u \in UploadsOf
      BY <1>0, <1>2 DEF EndUpload
    <2>2. PICK s : s = Marked(page, u, st)
      OBVIOUS
    <2>3. s \in Pages(page.room) /\ s.room = page.room /\ SameTalk(page, s)
      BY <1>0, <2>2, MarkKeeps
    <2>4. CASE page.room = u.room /\ u.fresh /\ u.left > 0
      <3>1. PICK v : v = [u EXCEPT !.item = @ + 1]
        OBVIOUS
      <3>2. v \in UploadsOf /\ v.room = page.room
        BY <2>1, <2>4, <3>1 DEF UploadsOf
      <3>3. PICK w : w = [u EXCEPT !.item = @ + 1, !.left = @ - 1]
        OBVIOUS
      <3>4. w \in UploadsOf
        <4>1. u.left \in Nat /\ u.item \in Nat
          BY <2>1 DEF UploadsOf
        <4>2. PICK l \in Nat : l = u.left - 1
          BY <2>4, <4>1
        <4>3. PICK k \in Nat : k = u.item + 1
          BY <4>1
        <4>4. w = [u EXCEPT !.item = k, !.left = l]
          BY <3>3, <4>2, <4>3
        <4>5. QED
          BY <2>1, <4>4 DEF UploadsOf
      <3>5. page' = PushItem(s, v) /\ uploads' = (uploads \ {u}) \cup {w}
        BY <2>1, <2>2, <2>4, <3>1, <3>3 DEF UploadReplied
      <3>6. page' \in Pages(page.room) /\ page'.room = page.room /\ SameTalk(s, page')
        BY <2>3, <3>2, <3>5, PushKeeps
      <3>7. SameTalk(page, page') /\ uploads' \subseteq UploadsOf
        BY <1>0, <2>3, <3>4, <3>5, <3>6 DEF SameTalk
      <3>8. QED
        BY <1>0, <2>1, <3>6, <3>7, RestKeepsComposer
    <2>5. CASE ~(page.room = u.room /\ u.fresh /\ u.left > 0)
      <3>1. uploads' = uploads \ {u} /\ (page' = page \/ page' = s)
        BY <2>1, <2>2, <2>5 DEF UploadReplied
      <3>2. page' \in Pages(page.room) /\ page'.room = page.room /\ SameTalk(page, page')
        BY <1>0, <1>a, <2>3, <3>1
      <3>3. QED
        BY <1>0, <2>1, <3>1, <3>2, RestKeepsComposer
    <2>6. QED
      BY <2>4, <2>5
  <1>3. ASSUME NEW i \in 1 .. MaxItems, RemoveItem(i)
        PROVE  ComposerInv'
    <2>1. /\ i \in DOMAIN page.items /\ page' = [page EXCEPT !.items = RemoveAt(@, i)]
          /\ uploads' = uploads /\ wire' = wire /\ posts' = posts /\ counts' = counts
      BY <1>3 DEF RemoveItem
    <2>2. PICK items \in Seq(ItemsOf(page.room)) : items = page.items
      BY <1>0 DEF Pages
    <2>3. DOMAIN items = 1 .. Len(items) /\ Len(items) \in Nat /\ i \in 1 .. Len(items)
      BY <2>1, <2>2
    <2>4. PICK left : left = RemoveAt(items, i)
      OBVIOUS
    <2>5. left \in Seq(ItemsOf(page.room))
      <3>1. \A j \in 1 .. (i - 1) : j \in 1 .. Len(items)
        BY <2>3
      <3>2. \A j \in (i + 1) .. Len(items) : j \in 1 .. Len(items)
        BY <2>3
      <3>3. SubSeq(items, 1, i - 1) \in Seq(ItemsOf(page.room))
        BY <2>3, <3>1, SubSeqProperties
      <3>4. SubSeq(items, i + 1, Len(items)) \in Seq(ItemsOf(page.room))
        BY <2>3, <3>2, SubSeqProperties
      <3>5. QED
        BY <2>4, <3>3, <3>4, ConcatProperties DEF RemoveAt
    <2>6. page' = [page EXCEPT !.items = left]
      BY <2>1, <2>2, <2>4
    <2>7. page' \in Pages(page.room) /\ page'.room = page.room /\ SameTalk(page, page')
      BY <1>0, <2>5, <2>6 DEF Pages, SameTalk
    <2>8. QED
      BY <1>0, <2>1, <2>7, RestKeepsComposer
  <1>4. QED
    BY <1>1, <1>2, <1>3

\* Voice recordings.
LEMMA RecordingsKeepComposer ==
    ASSUME ComposerInv, \/ StartRecording \/ MicrophoneRefused \/ MicrophoneOpens
                        \/ \E c \in BOOLEAN : StopRecording(c)
    PROVE  ComposerInv'
  <1>0. page \in Pages(page.room) /\ uploads \subseteq UploadsOf /\ counts \in [nonces : Nat, items : Nat, changes : Nat]
        /\ uploads' = uploads /\ wire' = wire /\ posts' = posts /\ counts' = counts
    BY DEF ComposerInv, ComposerTyped, StartRecording, MicrophoneRefused, MicrophoneOpens, StopRecording
  <1>1. PICK rec \in Records : rec = page.recording
    BY <1>0 DEF Pages
  <1>2. ASSUME NEW rec2 \in Records, NEW mic \in BOOLEAN, page' = [page EXCEPT !.recording = rec2, !.mic = mic]
        PROVE  ComposerInv'
    <2>1. page' \in Pages(page.room) /\ page'.room = page.room /\ SameTalk(page, page')
      BY <1>0, <1>2 DEF Pages, SameTalk
    <2>2. QED
      BY <1>0, <2>1, RestKeepsComposer
  <1>3. \A phase \in {"idle", "asking", "recording", "stopping"} : [rec EXCEPT !.phase = phase] \in Records
    <2>1. ASSUME NEW phase \in {"idle", "asking", "recording", "stopping"}
          PROVE  [rec EXCEPT !.phase = phase] \in Records
      BY DEF Records
    <2>2. QED
      BY <2>1
  <1>4. page.mic \in BOOLEAN
    BY <1>0 DEF Pages
  <1>5. ASSUME NEW phase \in {"idle", "asking", "recording", "stopping"}, page' = [page EXCEPT !.recording.phase = phase]
        PROVE  ComposerInv'
    <2>1. page' = [page EXCEPT !.recording = [rec EXCEPT !.phase = phase], !.mic = page.mic]
      BY <1>0, <1>1, <1>5 DEF Pages
    <2>2. QED
      BY <1>2, <1>3, <1>4, <2>1
  <1>6. CASE StartRecording
    <2>1. PICK e : e = [phase |-> "asking", room |-> page.room, fresh |-> TRUE, cancelled |-> FALSE]
      OBVIOUS
    <2>2. e \in Records
      BY <1>0, <2>1 DEF Records, Pages
    <2>3. page' = [page EXCEPT !.recording = e]
      BY <1>6, <2>1 DEF StartRecording
    <2>4. page' = [page EXCEPT !.recording = e, !.mic = page.mic]
      BY <1>0, <2>3 DEF Pages
    <2>5. QED
      BY <1>2, <1>4, <2>2, <2>4
  <1>7. CASE MicrophoneRefused
    BY <1>5, <1>7 DEF MicrophoneRefused, Recording
  <1>8. CASE MicrophoneOpens
    <2>1. CASE page.recording.room # page.room \/ ~page.recording.fresh
      BY <1>5, <1>8, <2>1 DEF MicrophoneOpens
    <2>2. CASE ~(page.recording.room # page.room \/ ~page.recording.fresh)
      <3>1. page' = [page EXCEPT !.recording.phase = "recording", !.mic = TRUE]
        BY <1>8, <2>2 DEF MicrophoneOpens
      <3>2. page' = [page EXCEPT !.recording = [rec EXCEPT !.phase = "recording"], !.mic = TRUE]
        BY <1>0, <1>1, <3>1 DEF Pages
      <3>3. QED
        BY <1>2, <1>3, <3>2
    <2>3. QED
      BY <2>1, <2>2
  <1>9. ASSUME NEW c \in BOOLEAN, StopRecording(c)
        PROVE  ComposerInv'
    <2>1. page' = [page EXCEPT !.recording.phase = "stopping", !.recording.cancelled = @ \/ c]
      BY <1>9 DEF StopRecording
    <2>2. PICK d \in BOOLEAN : d = (rec.cancelled \/ c)
      OBVIOUS
    <2>3. PICK e : e = [rec EXCEPT !.phase = "stopping", !.cancelled = d]
      OBVIOUS
    <2>4. e \in Records
      BY <2>3 DEF Records
    <2>5. page' = [page EXCEPT !.recording = e, !.mic = page.mic]
      BY <1>0, <1>1, <2>1, <2>2, <2>3 DEF Pages
    <2>6. QED
      BY <1>2, <1>4, <2>4, <2>5
  <1>10. QED
    BY <1>6, <1>7, <1>8, <1>9

\* The recorder stops: what was recorded is uploaded, or dropped.
LEMMA RecorderKeepsComposer ==
    ASSUME ComposerInv, RecorderStops
    PROVE  ComposerInv'
  <1>0. page \in Pages(page.room) /\ uploads \subseteq UploadsOf /\ counts \in [nonces : Nat, items : Nat, changes : Nat]
        /\ wire' = wire /\ posts' = posts
    BY DEF ComposerInv, ComposerTyped, RecorderStops
  <1>1. PICK s : s = [page EXCEPT !.recording.phase = "idle", !.mic = FALSE]
    OBVIOUS
  <1>2. s \in Pages(page.room) /\ s.room = page.room /\ SameTalk(page, s) /\ s.room \in AnyRoom
    <2>1. PICK rec \in Records : rec = page.recording
      BY <1>0 DEF Pages
    <2>2. PICK e : e = [rec EXCEPT !.phase = "idle"]
      OBVIOUS
    <2>3. e \in Records
      BY <2>2 DEF Records
    <2>4. s = [page EXCEPT !.recording = e, !.mic = FALSE]
      BY <1>0, <1>1, <2>1, <2>2 DEF Pages
    <2>5. QED
      BY <1>0, <2>3, <2>4 DEF Pages, SameTalk
  <1>3. Upload(s, 1) \/ (page' = s /\ UNCHANGED <<uploads, counts>>)
    <2>1. IF (~page.recording.cancelled /\ page.recording.fresh /\ page.recording.room = page.room) /\ counts.items < most.items
          THEN Upload([page EXCEPT !.recording.phase = "idle", !.mic = FALSE], 1)
          ELSE page' = [page EXCEPT !.recording.phase = "idle", !.mic = FALSE] /\ UNCHANGED <<uploads, counts>>
      BY Zenon DEF RecorderStops
    <2>2. IF (~page.recording.cancelled /\ page.recording.fresh /\ page.recording.room = page.room) /\ counts.items < most.items
          THEN Upload(s, 1)
          ELSE page' = s /\ UNCHANGED <<uploads, counts>>
      BY <1>1, <2>1, Zenon
    <2>3. QED
      BY <2>2, Zenon
  <1>4. CASE Upload(s, 1)
    BY <1>0, <1>2, <1>4, UploadKeeps
  <1>5. CASE page' = s /\ UNCHANGED <<uploads, counts>>
    BY <1>0, <1>2, <1>5, RestKeepsComposer
  <1>6. QED
    BY <1>3, <1>4, <1>5

\* A message of the place p: what is sent again has the nonce it had, what is new one of
\* its own.
SentFrom(p, m) ==
    /\ m.place = p /\ m \in Sent
    /\ \/ m.intent = page.intent + 1
       \/ /\ page.last[p] # Nothing /\ m.intent = page.last[p].intent
          /\ p = "main" => m.nonce = page.last[p].nonce

\* The next message means what the last one did, or is a new one.
LEMMA DraftIsSentFrom ==
    ASSUME ComposerInv, NEW p \in Places, RoomOf(p) # NoChat,
           NEW m, m = [Draft(p) EXCEPT !.nonce = NonceFor(Draft(p)), !.intent = IntentOf(Draft(p))]
    PROVE  SentFrom(p, m)
  <1>0. page \in Pages(page.room) /\ counts \in [nonces : Nat, items : Nat, changes : Nat]
    BY DEF ComposerInv, ComposerTyped
  <1>1. page.pendingSend = page.last["main"] /\ "main" \in Places
    BY DEF ComposerInv, SaysOnce, Places
  <1>2. page.last[p] \in Sent \cup {Nothing} /\ page.last["main"] \in Sent \cup {Nothing} /\ page.intent \in Nat
    BY <1>0, <1>1 DEF Pages
  <1>3. PICK items \in SUBSET Nat : items = IF p = "main" THEN {it.id : it \in Ready} ELSE {}
    <2>1. ASSUME NEW it \in Ready
          PROVE  it.id \in Nat
      <3>1. PICK q \in Seq(ItemsOf(page.room)) : q = page.items
        BY <1>0 DEF Pages
      <3>2. PICK i \in DOMAIN q : it = q[i]
        BY <3>1 DEF Ready, Elements
      <3>3. it \in ItemsOf(page.room)
        BY <3>1, <3>2
      <3>4. QED
        BY <3>3 DEF ItemsOf
    <2>2. QED
      BY <2>1
  <1>4. RoomOf(p) \in AnyRoom /\ page.text[p] \in Texts \cup {NoText}
    BY <1>0 DEF RoomOf, Pages
  <1>5. PICK nonce \in Nat, intent \in Nat : nonce = counts.nonces + 1 /\ intent = page.intent + 1
    BY <1>0, <1>2
  <1>6. PICK d : d = [place |-> p, nonce |-> nonce, room |-> RoomOf(p), text |-> page.text[p], items |-> items, intent |-> intent]
    OBVIOUS
  <1>7. d = Draft(p)
    BY <1>3, <1>5, <1>6 DEF Draft
  <1>8. d.place = p /\ d.nonce = nonce /\ d.intent = intent /\ d \in Sent
    BY <1>4, <1>6 DEF Sent
  <1>9. CASE page.last[p] # Nothing /\ Signature(page.last[p]) = Signature(d)
    <2>1. IntentOf(d) = page.last[p].intent /\ page.last[p].intent \in Nat
      BY <1>2, <1>8, <1>9 DEF IntentOf, Sent
    <2>2. p = "main" => NonceFor(d) = page.last[p].nonce
      BY <1>1, <1>8, <1>9 DEF NonceFor
    <2>3. p # "main" => NonceFor(d) = nonce
      BY <1>8 DEF NonceFor
    <2>4. NonceFor(d) \in Nat
      BY <1>2, <1>9, <2>2, <2>3 DEF Sent
    <2>5. PICK k \in Nat, n \in Nat : k = NonceFor(d) /\ n = IntentOf(d)
      BY <2>1, <2>4
    <2>6. m = [d EXCEPT !.nonce = k, !.intent = n]
      BY <1>7, <2>5
    <2>7. m \in Sent /\ m.place = p /\ m.nonce = k /\ m.intent = n
      BY <1>8, <2>6 DEF Sent
    <2>8. QED
      BY <1>9, <2>1, <2>2, <2>5, <2>7 DEF SentFrom
  <1>10. CASE ~(page.last[p] # Nothing /\ Signature(page.last[p]) = Signature(d))
    <2>1. IntentOf(d) = intent
      BY <1>8, <1>10 DEF IntentOf
    <2>2. NonceFor(d) \in Nat
      BY <1>1, <1>2, <1>8 DEF NonceFor, Sent
    <2>3. PICK k \in Nat : k = NonceFor(d)
      BY <2>2
    <2>4. m = [d EXCEPT !.nonce = k, !.intent = intent]
      BY <1>7, <2>1, <2>3
    <2>5. m \in Sent /\ m.place = p /\ m.intent = intent
      BY <1>8, <2>4 DEF Sent
    <2>6. QED
      BY <1>5, <2>5 DEF SentFrom
  <1>11. QED
    BY <1>9, <1>10

\* clearPendingAttachments() in the room that is selected.
LEMMA ClearKeeps ==
    ASSUME NEW r, NEW s \in Pages(r), s.room = r, NEW t, t = ClearPendingAttachments(s)
    PROVE  t \in Pages(r) /\ t.room = r /\ SameTalk(s, t)
  <1>1. PICK rec \in Records : rec = s.recording
    BY DEF Pages
  <1>2. PICK e : e = [rec EXCEPT !.fresh = FALSE]
    OBVIOUS
  <1>3. e \in Records
    BY <1>2 DEF Records
  <1>4. PICK items \in Seq(ItemsOf(r)) : items = <<>>
    <2>1. <<>> \in Seq(ItemsOf(r))
      OBVIOUS
    <2>2. QED
      BY <2>1
  <1>5. t = [s EXCEPT !.items = items, !.recording = e]
    BY <1>1, <1>2, <1>4 DEF ClearPendingAttachments, Pages
  <1>6. QED
    BY <1>3, <1>5 DEF Pages, SameTalk

\* A message is sent.
LEMMA SendKeepsComposer ==
    ASSUME ComposerInv, NEW p \in Places, NEW m, SentFrom(p, m), Send(m)
    PROVE  ComposerInv'
  <1>0. page \in Pages(page.room) /\ uploads \subseteq UploadsOf /\ wire \subseteq Sent /\ posts \subseteq Sent
        /\ counts \in [nonces : Nat, items : Nat, changes : Nat]
    BY DEF ComposerInv, ComposerTyped
  <1>1. m \in Sent /\ m.place = p /\ m.intent \in Nat /\ m.nonce \in Nat /\ page.intent \in Nat
    BY <1>0 DEF SentFrom, Sent, Pages
  <1>2. PICK n \in Nat : n = IF m.intent > page.intent THEN m.intent ELSE page.intent
    BY <1>1
  <1>3. m.intent <= n /\ page.intent <= n
    BY <1>1, <1>2
  <1>4. PICK sending \in [Places -> Sent \cup {Nothing}] : sending = [page.sending EXCEPT ![p] = m]
    <2>1. [page.sending EXCEPT ![p] = m] \in [Places -> Sent \cup {Nothing}]
      BY <1>0, <1>1 DEF Pages
    <2>2. QED
      BY <2>1
  <1>5. PICK last \in [Places -> Sent \cup {Nothing}] : last = [page.last EXCEPT ![p] = m]
    <2>1. [page.last EXCEPT ![p] = m] \in [Places -> Sent \cup {Nothing}]
      BY <1>0, <1>1 DEF Pages
    <2>2. QED
      BY <2>1
  <1>6. PICK pending \in Sent \cup {Nothing} : pending = IF p = "main" THEN m ELSE page.pendingSend
    BY <1>0, <1>1 DEF Pages
  <1>7. page' = [page EXCEPT !.sending = sending, !.last = last, !.intent = n, !.pendingSend = pending]
    BY <1>0, <1>1, <1>2, <1>4, <1>5, <1>6 DEF Send, Pages
  <1>8. /\ page' \in Pages(page.room) /\ page'.room = page.room /\ page'.sending = sending /\ page'.last = last
        /\ page'.intent = n /\ page'.pendingSend = pending
    BY <1>0, <1>7 DEF Pages
  <1>9. wire' = wire \cup {m} /\ uploads' = uploads /\ posts' = posts
    BY DEF Send
  <1>10. counts' \in [nonces : Nat, items : Nat, changes : Nat]
    <2>1. PICK k \in Nat : k = IF m.nonce > counts.nonces THEN m.nonce ELSE counts.nonces
      BY <1>0, <1>1
    <2>2. counts' = [counts EXCEPT !.nonces = k]
      BY <1>0, <2>1 DEF Send
    <2>3. QED
      BY <1>0, <2>2
  <1>11. ComposerTyped'
    BY <1>0, <1>1, <1>8, <1>9, <1>10 DEF ComposerTyped
  <1>12. \A q \in Places : /\ last[q] = IF q = p THEN m ELSE page.last[q]
                           /\ sending[q] = IF q = p THEN m ELSE page.sending[q]
    BY <1>0, <1>4, <1>5 DEF Pages
  <1>13. Said(page', wire' \cup posts') \subseteq Said(page, wire \cup posts) \cup {m}
    BY <1>8, <1>9, <1>12 DEF Said
  <1>14. SaysOnce(page, wire \cup posts)
    BY DEF ComposerInv
  <1>15. page'.pendingSend = page'.last["main"]
    <2>1. "main" \in Places /\ page.pendingSend = page.last["main"]
      BY <1>14 DEF SaysOnce, Places
    <2>2. QED
      BY <1>6, <1>8, <1>12, <2>1
  <1>16. \A q \in Places : page'.last[q] # Nothing => page'.last[q].place = q
    BY <1>1, <1>8, <1>12, <1>14 DEF SaysOnce
  <1>17. \A k \in Said(page', wire' \cup posts') : k.intent <= page'.intent
    <2>1. ASSUME NEW k \in Said(page, wire \cup posts)
          PROVE  k.intent <= n
      <3>1. k \in Sent
        BY <1>0 DEF Said, Pages
      <3>2. k.intent \in Nat /\ k.intent <= page.intent
        BY <1>14, <3>1 DEF SaysOnce, Sent
      <3>3. QED
        BY <1>1, <1>3, <3>2
    <2>2. QED
      BY <1>3, <1>8, <1>13, <2>1
  <1>18. \A k \in Said(page, wire \cup posts) :
            p = "main" /\ k.place = "main" /\ k.intent = m.intent => k.nonce = m.nonce
    <2>1. ASSUME NEW k \in Said(page, wire \cup posts), p = "main", k.place = "main", k.intent = m.intent
          PROVE  k.nonce = m.nonce
      <3>1. k.intent <= page.intent
        BY <1>14 DEF SaysOnce
      <3>2. m.intent # page.intent + 1
        BY <1>1, <2>1, <3>1
      <3>3. page.last[p] # Nothing /\ m.intent = page.last[p].intent /\ m.nonce = page.last[p].nonce
        BY <2>1, <3>2 DEF SentFrom
      <3>4. page.last[p] \in Said(page, wire \cup posts) /\ page.last[p].place = "main"
        BY <1>14, <2>1, <3>3 DEF Said, SaysOnce
      <3>5. QED
        BY <1>14, <2>1, <3>3, <3>4 DEF SaysOnce
    <2>2. QED
      BY <2>1
  <1>19. \A j, k \in Said(page', wire' \cup posts') :
            j.place = "main" /\ k.place = "main" /\ j.intent = k.intent => j.nonce = k.nonce
    <2>1. ASSUME NEW j \in Said(page', wire' \cup posts'), NEW k \in Said(page', wire' \cup posts'),
                 j.place = "main", k.place = "main", j.intent = k.intent
          PROVE  j.nonce = k.nonce
      <3>1. CASE j = m
        <4>1. CASE k = m
          BY <3>1, <4>1
        <4>2. CASE k # m
          <5>1. k \in Said(page, wire \cup posts) /\ p = "main" /\ k.intent = m.intent
            BY <1>1, <1>13, <2>1, <3>1, <4>2
          <5>2. QED
            BY <1>18, <2>1, <3>1, <5>1
        <4>3. QED
          BY <4>1, <4>2
      <3>2. CASE k = m /\ j # m
        <4>1. j \in Said(page, wire \cup posts) /\ p = "main" /\ j.intent = m.intent
          BY <1>1, <1>13, <2>1, <3>2
        <4>2. QED
          BY <1>18, <2>1, <3>2, <4>1
      <3>3. CASE k # m /\ j # m
        <4>1. j \in Said(page, wire \cup posts) /\ k \in Said(page, wire \cup posts)
          BY <1>13, <2>1, <3>3
        <4>2. QED
          BY <1>14, <2>1, <4>1 DEF SaysOnce
      <3>4. QED
        BY <3>1, <3>2, <3>3
    <2>2. QED
      BY <2>1
  <1>20. SaysOnce(page', wire' \cup posts')
    BY <1>15, <1>16, <1>17, <1>19 DEF SaysOnce
  <1>21. QED
    BY <1>11, <1>20 DEF ComposerInv, SaysOnce, Said

\* A message is typed, sent, delivered, lost, sent again, confirmed or given up.
LEMMA TalkKeepsComposer ==
    ASSUME ComposerInv,
           \/ \E p \in Places : (\E t \in Texts : Type(p, t)) \/ Submit(p) \/ Retry(p) \/ SendConfirmed(p) \/ SendFails(p)
           \/ \E m \in wire : Deliver(m) \/ Lose(m)
    PROVE  ComposerInv'
  <1>0. page \in Pages(page.room) /\ uploads \subseteq UploadsOf /\ wire \subseteq Sent /\ posts \subseteq Sent
        /\ counts \in [nonces : Nat, items : Nat, changes : Nat] /\ page.pendingSend = page.last["main"] /\ "main" \in Places
    BY DEF ComposerInv, ComposerTyped, SaysOnce, Places
  <1>1. ASSUME NEW p \in Places, NEW t \in Texts, Type(p, t)
        PROVE  ComposerInv'
    <2>1. PICK text \in [Places -> Texts \cup {NoText}] : text = [page.text EXCEPT ![p] = t]
      <3>1. [page.text EXCEPT ![p] = t] \in [Places -> Texts \cup {NoText}]
        BY <1>0 DEF Pages
      <3>2. QED
        BY <3>1
    <2>2. page' = [page EXCEPT !.text = text]
      BY <1>0, <1>1, <2>1 DEF Type, Pages
    <2>3. page' \in Pages(page.room) /\ page'.room = page.room /\ SameTalk(page, page')
      BY <1>0, <2>2 DEF Pages, SameTalk
    <2>4. uploads' = uploads /\ wire' = wire /\ posts' = posts /\ counts' = counts
      BY <1>1 DEF Type
    <2>5. QED
      BY <1>0, <2>3, <2>4, RestKeepsComposer
  <1>2. ASSUME NEW p \in Places, Submit(p)
        PROVE  ComposerInv'
    <2>1. PICK m : m = [Draft(p) EXCEPT !.nonce = NonceFor(Draft(p)), !.intent = IntentOf(Draft(p))]
      OBVIOUS
    <2>2. RoomOf(p) # NoChat /\ Send(m)
      BY <1>2, <2>1 DEF Submit
    <2>3. SentFrom(p, m)
      BY <2>1, <2>2, DraftIsSentFrom
    <2>4. QED
      BY <2>2, <2>3, SendKeepsComposer
  <1>3. ASSUME NEW m \in wire, Deliver(m) \/ Lose(m)
        PROVE  ComposerInv'
    <2>1. page' = page /\ uploads' = uploads /\ counts' = counts /\ wire' \subseteq wire \cup posts /\ posts' \subseteq wire \cup posts
      BY <1>3 DEF Deliver, Lose
    <2>2. SameTalk(page, page') /\ page' \in Pages(page.room) /\ page'.room = page.room
      BY <1>0, <2>1 DEF SameTalk
    <2>3. QED
      BY <1>0, <2>1, <2>2, RestKeepsComposer
  <1>4. ASSUME NEW p \in Places, Retry(p)
        PROVE  ComposerInv'
    <2>1. /\ page' = page /\ uploads' = uploads /\ counts' = counts /\ posts' = posts
          /\ page.sending[p] # Nothing /\ wire' = wire \cup {page.sending[p]}
      BY <1>4 DEF Retry
    <2>2. page.sending[p] \in Sent
      BY <1>0, <2>1 DEF Pages
    <2>3. wire' \subseteq Said(page, wire \cup posts) /\ wire' \subseteq Sent
      BY <1>0, <2>1, <2>2 DEF Said
    <2>4. QED
      BY <1>0, <2>1, <2>3, LessKeepsComposer
  <1>5. PICK idle \in Sent \cup {Nothing} : idle = Nothing
    OBVIOUS
  <1>6. ASSUME NEW p \in Places, SendConfirmed(p)
        PROVE  ComposerInv'
    <2>1. PICK sending \in [Places -> Sent \cup {Nothing}] : sending = [page.sending EXCEPT ![p] = idle]
      <3>1. [page.sending EXCEPT ![p] = idle] \in [Places -> Sent \cup {Nothing}]
        BY <1>0 DEF Pages
      <3>2. QED
        BY <3>1
    <2>2. PICK last \in [Places -> Sent \cup {Nothing}] : last = [page.last EXCEPT ![p] = idle]
      <3>1. [page.last EXCEPT ![p] = idle] \in [Places -> Sent \cup {Nothing}]
        BY <1>0 DEF Pages
      <3>2. QED
        BY <3>1
    <2>3. PICK text \in [Places -> Texts \cup {NoText}] : text = [page.text EXCEPT ![p] = NoText]
      <3>1. [page.text EXCEPT ![p] = NoText] \in [Places -> Texts \cup {NoText}]
        BY <1>0 DEF Pages
      <3>2. QED
        BY <3>1
    <2>4. PICK done : done = [page EXCEPT !.sending = sending, !.last = last, !.text = text]
      OBVIOUS
    <2>5. /\ done \in Pages(page.room) /\ done.room = page.room /\ done.sending = sending /\ done.last = last
          /\ done.intent = page.intent /\ done.pendingSend = page.pendingSend
      BY <1>0, <2>4 DEF Pages
    <2>6. page' = IF p = "main" THEN ClearPendingAttachments([done EXCEPT !.pendingSend = Nothing]) ELSE done
      BY <1>0, <1>5, <1>6, <2>1, <2>2, <2>3, <2>4 DEF SendConfirmed, Confirmed, Pages
    <2>7. \A q \in Places : /\ last[q] = IF q = p THEN Nothing ELSE page.last[q]
                            /\ sending[q] = IF q = p THEN Nothing ELSE page.sending[q]
      BY <1>0, <1>5, <2>1, <2>2 DEF Pages
    <2>8. uploads' \subseteq UploadsOf /\ wire' = wire /\ posts' = posts /\ counts' = counts
      BY <1>0, <1>6, OutdatedTyped DEF SendConfirmed
    <2>9. wire' \subseteq Said(page, wire \cup posts) /\ wire' \subseteq Sent /\ posts' \subseteq wire \cup posts
      BY <1>0, <2>8 DEF Said
    <2>10. CASE p = "main"
      <3>1. PICK s : s = [done EXCEPT !.pendingSend = idle]
        OBVIOUS
      <3>2. /\ s \in Pages(page.room) /\ s.room = page.room /\ s.sending = sending /\ s.last = last
            /\ s.intent = page.intent /\ s.pendingSend = Nothing
        BY <1>5, <2>5, <3>1 DEF Pages
      <3>3. page' = ClearPendingAttachments(s)
        BY <1>5, <2>6, <2>10, <3>1
      <3>4. page' \in Pages(page.room) /\ page'.room = page.room /\ SameTalk(s, page')
        BY <3>2, <3>3, ClearKeeps
      <3>5. /\ page'.intent = page.intent /\ page'.pendingSend = page'.last["main"]
            /\ \A q \in Places : /\ page'.last[q] = page.last[q] \/ page'.last[q] = Nothing
                                 /\ page'.sending[q] = page.sending[q] \/ page'.sending[q] = Nothing
        BY <1>0, <2>7, <2>10, <3>2, <3>4 DEF SameTalk
      <3>6. QED
        BY <1>0, <2>8, <2>9, <3>4, <3>5, LessKeepsComposer
    <2>11. CASE p # "main"
      <3>1. page' = done
        BY <2>6, <2>11
      <3>2. /\ page'.intent = page.intent /\ page'.pendingSend = page'.last["main"]
            /\ \A q \in Places : /\ page'.last[q] = page.last[q] \/ page'.last[q] = Nothing
                                 /\ page'.sending[q] = page.sending[q] \/ page'.sending[q] = Nothing
        BY <1>0, <2>5, <2>7, <2>11, <3>1
      <3>3. QED
        BY <1>0, <2>5, <2>8, <2>9, <3>1, <3>2, LessKeepsComposer
    <2>12. QED
      BY <2>10, <2>11
  <1>7. ASSUME NEW p \in Places, SendFails(p)
        PROVE  ComposerInv'
    <2>1. PICK sending \in [Places -> Sent \cup {Nothing}] : sending = [page.sending EXCEPT ![p] = idle]
      <3>1. [page.sending EXCEPT ![p] = idle] \in [Places -> Sent \cup {Nothing}]
        BY <1>0 DEF Pages
      <3>2. QED
        BY <3>1
    <2>2. page' = [page EXCEPT !.sending = sending]
      BY <1>0, <1>5, <1>7, <2>1 DEF SendFails, Pages
    <2>3. /\ page' \in Pages(page.room) /\ page'.room = page.room /\ page'.sending = sending /\ page'.last = page.last
          /\ page'.intent = page.intent /\ page'.pendingSend = page.pendingSend
      BY <1>0, <2>2 DEF Pages
    <2>4. \A q \in Places : sending[q] = page.sending[q] \/ sending[q] = Nothing
      BY <1>0, <1>5, <2>1 DEF Pages
    <2>5. uploads' = uploads /\ wire' = wire /\ posts' = posts /\ counts' = counts
      BY <1>7 DEF SendFails
    <2>6. wire' \subseteq Said(page, wire \cup posts) /\ wire' \subseteq Sent /\ posts' \subseteq wire \cup posts
      BY <1>0, <2>5 DEF Said
    <2>7. QED
      BY <1>0, <2>3, <2>4, <2>5, <2>6, LessKeepsComposer
  <1>8. QED
    BY <1>1, <1>2, <1>3, <1>4, <1>6, <1>7

\* Changing the model of a room.
LEMMA ModelsKeepComposer ==
    ASSUME ComposerInv, \/ \E p \in Places : RequestModelChange(p)
                        \/ \E c \in {"keep", "reset", "cancel"} : ChooseModel(c)
                        \/ ContextReset
    PROVE  ComposerInv'
  <1>0. page \in Pages(page.room) /\ uploads \subseteq UploadsOf /\ counts \in [nonces : Nat, items : Nat, changes : Nat]
    BY DEF ComposerInv, ComposerTyped
  <1>1. uploads' = uploads /\ wire' = wire /\ posts' = posts
    BY DEF RequestModelChange, ChooseModel, ContextReset
  <1>2. counts' \in [nonces : Nat, items : Nat, changes : Nat]
    <2>1. CASE \E p \in Places : RequestModelChange(p)
      BY <2>1, ChangeCounts DEF RequestModelChange
    <2>2. CASE (\E c \in {"keep", "reset", "cancel"} : ChooseModel(c)) \/ ContextReset
      BY <1>0, <2>2 DEF ChooseModel, ContextReset
    <2>3. QED
      BY <2>1, <2>2
  <1>3. ASSUME NEW o \in Ops \cup {Nothing}, NEW locks \in [ChatRooms -> {"free", "held"}],
               page' = [page EXCEPT !.op = o, !.locks = locks]
        PROVE  ComposerInv'
    <2>1. page' \in Pages(page.room) /\ page'.room = page.room /\ SameTalk(page, page')
      BY <1>0, <1>3 DEF Pages, SameTalk
    <2>2. QED
      BY <1>0, <1>1, <1>2, <2>1, RestKeepsComposer
  <1>4. page.locks \in [ChatRooms -> {"free", "held"}] /\ page.op \in Ops \cup {Nothing}
    BY <1>0 DEF Pages
  <1>5. \A r, lock : lock \in {"free", "held"} => [page.locks EXCEPT ![r] = lock] \in [ChatRooms -> {"free", "held"}]
    BY <1>4
  <1>6. ASSUME NEW p \in Places, RequestModelChange(p)
        PROVE  ComposerInv'
    <2>1. PICK e : e = [place |-> p, room |-> RoomOf(p), phase |-> "asking"]
      OBVIOUS
    <2>2. e \in Ops
      BY <1>0, <2>1 DEF Ops, RoomOf, Pages
    <2>3. PICK locks \in [ChatRooms -> {"free", "held"}] : locks = [page.locks EXCEPT ![RoomOf(p)] = "held"]
      BY <1>5
    <2>4. page' = [page EXCEPT !.op = e, !.locks = locks]
      BY <1>0, <1>6, <2>1, <2>3 DEF RequestModelChange, Pages
    <2>5. QED
      BY <1>3, <2>2, <2>4
  <1>7. ASSUME NEW o, EndModelChange(o)
        PROVE  ComposerInv'
    <2>1. PICK none \in Ops \cup {Nothing} : none = Nothing
      OBVIOUS
    <2>2. PICK locks \in [ChatRooms -> {"free", "held"}] : locks = [page.locks EXCEPT ![o.room] = "free"]
      BY <1>5
    <2>3. page' = [page EXCEPT !.op = none, !.locks = locks]
      BY <1>0, <1>7, <2>1, <2>2 DEF EndModelChange, Pages
    <2>4. QED
      BY <1>3, <2>3
  <1>8. ASSUME NEW c \in {"keep", "reset", "cancel"}, ChooseModel(c)
        PROVE  ComposerInv'
    <2>1. CASE EndModelChange(page.op)
      BY <1>7, <2>1
    <2>2. CASE page.op # Nothing /\ page' = [page EXCEPT !.op.phase = "resetting"]
      <3>1. PICK o \in Ops : o = page.op
        BY <1>4, <2>2
      <3>2. PICK e : e = [o EXCEPT !.phase = "resetting"]
        OBVIOUS
      <3>3. e \in Ops
        BY <3>2 DEF Ops
      <3>4. page' = [page EXCEPT !.op = e, !.locks = page.locks]
        BY <1>0, <2>2, <3>1, <3>2 DEF Pages
      <3>5. QED
        BY <1>3, <1>4, <3>3, <3>4
    <2>3. QED
      BY <1>8, <2>1, <2>2 DEF ChooseModel
  <1>9. CASE ContextReset
    BY <1>7, <1>9 DEF ContextReset
  <1>10. QED
    BY <1>6, <1>8, <1>9

\* One step for each action of ComposerNext.
LEMMA ComposerStep == ComposerInv /\ [ComposerNext]_composerVars => ComposerInv'
  <1> SUFFICES ASSUME ComposerInv, [ComposerNext]_composerVars PROVE ComposerInv'
    OBVIOUS
  <1>1. CASE (\E r \in ChatRooms : OpenRoom(r) \/ DockRoom(r)) \/ LogOut
    BY <1>1, RoomsKeepComposer
  <1>2. CASE \/ \E n \in 1 .. 2 : UploadAttachments(n)
             \/ \E u \in uploads, st \in {"ready", "failed"} : EndUpload(u, st)
             \/ \E i \in 1 .. MaxItems : RemoveItem(i)
    BY <1>2, ItemsKeepComposer
  <1>3. CASE StartRecording \/ MicrophoneRefused \/ MicrophoneOpens \/ \E c \in BOOLEAN : StopRecording(c)
    BY <1>3, RecordingsKeepComposer
  <1>4. CASE RecorderStops
    BY <1>4, RecorderKeepsComposer
  <1>5. CASE \/ \E p \in Places : (\E t \in Texts : Type(p, t)) \/ Submit(p) \/ Retry(p) \/ SendConfirmed(p) \/ SendFails(p)
             \/ \E m \in wire : Deliver(m) \/ Lose(m)
    BY <1>5, TalkKeepsComposer
  <1>6. CASE \/ \E p \in Places : RequestModelChange(p)
             \/ \E c \in {"keep", "reset", "cancel"} : ChooseModel(c)
             \/ ContextReset
    BY <1>6, ModelsKeepComposer
  <1>7. CASE UNCHANGED composerVars
    BY <1>7 DEF composerVars, ComposerInv, ComposerTyped, SaysOnce, Said
  <1>8. CASE ComposerSteps
    BY <1>1, <1>2, <1>3, <1>4, <1>5, <1>6, <1>8 DEF ComposerSteps
  <1>9. QED
    BY <1>7, <1>8 DEF ComposerNext

\* submitMessage(): a message that is sent, on its way or remembered has the nonce of
\* every other one of the main composer that means the same.
THEOREM ComposerInvariant == ComposerSpec => []ComposerInv
  <1>1. QED
    BY ComposerStart, ComposerStep, PTL DEF ComposerSpec

\* submitMessage(): the server is told what the user means under one nonce; and nothing is
\* attached that belongs to another room (uploadAttachments, toggleRecording).
THEOREM MessagesMeantOnce == ComposerSpec => []MeantOnce
  <1>1. ComposerInv => MeantOnce
    <2> SUFFICES ASSUME ComposerInv PROVE MeantOnce
      OBVIOUS
    <2>1. \A m, n \in posts : m.place = "main" /\ n.place = "main" /\ m.intent = n.intent => m.nonce = n.nonce
      BY DEF ComposerInv, SaysOnce, Said
    <2>2. \A i \in DOMAIN page.items : page.items[i].room = page.room
      <3>1. PICK items \in Seq(ItemsOf(page.room)) : items = page.items
        BY DEF ComposerInv, ComposerTyped, Pages
      <3>2. \A i \in DOMAIN items : items[i] \in ItemsOf(page.room)
        BY <3>1
      <3>3. QED
        BY <3>1, <3>2 DEF ItemsOf
    <2>3. QED
      BY <2>1, <2>2 DEF MeantOnce
  <1>2. QED
    BY <1>1, ComposerInvariant, PTL

-----------------------------------------------------------------------------
(* The mailbox dialog: the senders of mail tasks, loadAgent() and saveAgent()*)

MailSpec == MailInit /\ [][MailNext]_mailVars

SomeMail == Mails \cup {NoMail}
Args == SomeMail \cup Nat
Signatures == {<<>>} \cup (SomeMail \X (Bodies \cup {NoBody}))
MailKinds == {"list", "more", "detail", "agent", "poll", "send", "save"}
CallsOf == [kind : MailKinds, arg : Args, latest : BOOLEAN, current : BOOLEAN, id : Nat, form : Nat, body : Bodies \cup {NoBody}]

Dialogs ==
    [clicks : Nat, ids : Nat, calls : SUBSET CallsOf,
     open : BOOLEAN, configured : BOOLEAN, loading : BOOLEAN, sending : BOOLEAN, listed : BOOLEAN, cursor : BOOLEAN,
     selected : Args, shown : Args, compose : BOOLEAN, reply : SomeMail, body : Bodies \cup {NoBody},
     pending : [sig : Signatures, id : Nat],
     agent : BOOLEAN, form : Args, dirty : BOOLEAN, agentLoading : BOOLEAN, agentSaving : BOOLEAN, timer : BOOLEAN]

\* The requests for the senders whose answer will be used.
AgentAsks(cs) == {c \in cs : c.latest /\ Lane(c.kind) = "agent"}

\* At most one such request is out.  If it is a save, nothing else is loaded meanwhile
\* and the form is what it saves.
AgentInOrder(m) ==
    /\ m \in Dialogs
    /\ \A c, d \in AgentAsks(m.calls) : c = d
    /\ \A c \in AgentAsks(m.calls) : c.kind = "save" => m.agentSaving /\ c.arg = m.form
    /\ m.dirty => m.agent

BoxTyped == box.edits \in Nat /\ box.senders \in Args /\ DOMAIN box = {"configured", "senders", "edits", "accepted", "failures"}

MailKept == AgentInOrder(mail) /\ BoxTyped

\* What is edited and not saved stays in the form.
EditStays(m, n) == n.open = m.open /\ n.dirty = m.dirty /\ n.form = m.form

\* The dialog is closed.
LEMMA ClosedInOrder ==
    ASSUME NEW clicks \in Nat, NEW ids \in Nat, NEW calls \in SUBSET CallsOf, AgentAsks(calls) = {},
           NEW m, m = Closed(clicks, ids, calls)
    PROVE  AgentInOrder(m) /\ ~m.open /\ m.calls = calls
  <1>1. PICK pending \in [sig : Signatures, id : Nat] : pending = NoPending
    <2>1. PICK e : e = [sig |-> <<>>, id |-> 0]
      OBVIOUS
    <2>2. e \in [sig : Signatures, id : Nat]
      BY <2>1 DEF Signatures
    <2>3. QED
      BY <2>1, <2>2 DEF NoPending
  <1>2. m = [clicks |-> clicks, ids |-> ids, calls |-> calls,
             open |-> FALSE, configured |-> FALSE, loading |-> FALSE, sending |-> FALSE,
             listed |-> FALSE, cursor |-> FALSE, selected |-> NoMail, shown |-> NoMail,
             compose |-> FALSE, reply |-> NoMail, body |-> NoBody, pending |-> pending,
             agent |-> FALSE, form |-> 0, dirty |-> FALSE, agentLoading |-> FALSE, agentSaving |-> FALSE, timer |-> FALSE]
    BY <1>1 DEF Closed
  <1>3. m \in Dialogs /\ ~m.open /\ ~m.dirty /\ m.calls = calls
    BY <1>2 DEF Dialogs, Args, SomeMail
  <1>4. QED
    BY <1>3 DEF AgentInOrder

\* Requests of the dialog.
LEMMA MailCallTyped ==
    ASSUME NEW kind \in MailKinds, NEW arg \in Args, NEW c, c = MailCall(kind, arg)
    PROVE  c \in CallsOf /\ c.kind = kind /\ c.arg = arg
  BY DEF MailCall, CallsOf

\* A request overtakes those of its lane and leaves the others as they are.
LEMMA OvertakenInOrder ==
    ASSUME NEW cs \in SUBSET CallsOf, NEW lane, NEW os, os = Overtaken(cs, lane)
    PROVE  /\ os \in SUBSET CallsOf
           /\ lane # "agent" => AgentAsks(os) = AgentAsks(cs)
           /\ lane = "agent" => AgentAsks(os) = {}
  <1>1. ASSUME NEW c \in CallsOf
        PROVE  [c EXCEPT !.latest = FALSE] \in CallsOf /\ [c EXCEPT !.latest = FALSE].kind = c.kind
               /\ ~[c EXCEPT !.latest = FALSE].latest
    <2>1. PICK e : e = [c EXCEPT !.latest = FALSE]
      OBVIOUS
    <2>2. e \in CallsOf /\ e.kind = c.kind /\ ~e.latest
      BY <2>1 DEF CallsOf
    <2>3. QED
      BY <2>1, <2>2
  <1>2. os = {IF Lane(c.kind) = lane THEN [c EXCEPT !.latest = FALSE] ELSE c : c \in cs}
    BY DEF Overtaken
  <1>3. \A o \in os : \E c \in cs : IF Lane(c.kind) = lane THEN o \in CallsOf /\ o.kind = c.kind /\ ~o.latest ELSE o = c
    BY <1>1, <1>2
  <1>4. \A c \in cs : Lane(c.kind) # lane => c \in os
    BY <1>2
  <1>5. os \in SUBSET CallsOf
    BY <1>3
  <1>6. lane # "agent" => AgentAsks(os) = AgentAsks(cs)
    BY <1>3, <1>4 DEF AgentAsks
  <1>7. lane = "agent" => AgentAsks(os) = {}
    BY <1>3 DEF AgentAsks
  <1>8. QED
    BY <1>5, <1>6, <1>7

\* A request that is not about the senders.
LEMMA OtherAskInOrder ==
    ASSUME NEW m, AgentInOrder(m), NEW c \in CallsOf, Lane(c.kind) # "agent", NEW n, n = Asking(m, c)
    PROVE  AgentInOrder(n) /\ EditStays(m, n)
  <1>1. m \in Dialogs /\ m.calls \in SUBSET CallsOf
    BY DEF AgentInOrder, Dialogs
  <1>2. PICK os : os = Overtaken(m.calls, Lane(c.kind))
    OBVIOUS
  <1>3. os \in SUBSET CallsOf /\ AgentAsks(os) = AgentAsks(m.calls)
    BY <1>1, <1>2, OvertakenInOrder
  <1>4. PICK cs \in SUBSET CallsOf : cs = os \cup {c}
    BY <1>3
  <1>5. AgentAsks(cs) = AgentAsks(m.calls)
    BY <1>3, <1>4 DEF AgentAsks
  <1>6. n = [m EXCEPT !.calls = cs]
    BY <1>2, <1>4 DEF Asking
  <1>7. n \in Dialogs /\ n.calls = cs /\ EditStays(m, n) /\ n.agentSaving = m.agentSaving /\ n.agent = m.agent
    BY <1>1, <1>6 DEF Dialogs, EditStays
  <1>8. QED
    BY <1>5, <1>7 DEF AgentInOrder, EditStays

\* A request about the senders is the only one.
LEMMA AgentAskInOrder ==
    ASSUME NEW m, AgentInOrder(m), NEW c \in CallsOf, Lane(c.kind) = "agent", c.kind = "save" => m.agentSaving /\ c.arg = m.form,
           NEW n, n = Asking(m, c)
    PROVE  AgentInOrder(n) /\ EditStays(m, n)
  <1>1. m \in Dialogs /\ m.calls \in SUBSET CallsOf
    BY DEF AgentInOrder, Dialogs
  <1>2. PICK os : os = Overtaken(m.calls, Lane(c.kind))
    OBVIOUS
  <1>3. os \in SUBSET CallsOf /\ AgentAsks(os) = {}
    BY <1>1, <1>2, OvertakenInOrder
  <1>4. PICK cs \in SUBSET CallsOf : cs = os \cup {c}
    BY <1>3
  <1>5. AgentAsks(cs) \subseteq {c}
    BY <1>3, <1>4 DEF AgentAsks
  <1>6. n = [m EXCEPT !.calls = cs]
    BY <1>2, <1>4 DEF Asking
  <1>7. n \in Dialogs /\ n.calls = cs /\ EditStays(m, n) /\ n.agentSaving = m.agentSaving /\ n.agent = m.agent
    BY <1>1, <1>6 DEF Dialogs, EditStays
  <1>8. QED
    BY <1>5, <1>7 DEF AgentInOrder, EditStays

\* The dialog with other fields than those of the senders.
LEMMA RestInOrder ==
    ASSUME NEW m, AgentInOrder(m), NEW n \in Dialogs, EditStays(m, n), n.agent = m.agent, n.agentSaving = m.agentSaving,
           AgentAsks(n.calls) \subseteq AgentAsks(m.calls)
    PROVE  AgentInOrder(n)
  BY DEF AgentInOrder, EditStays

\* loadInbox() and loadAgent().
LEMMA LoadsInOrder ==
    ASSUME NEW m, AgentInOrder(m)
    PROVE  /\ AgentInOrder(LoadInbox(m)) /\ EditStays(m, LoadInbox(m))
           /\ \A kind \in {"agent", "poll"} : AgentInOrder(LoadAgent(m, kind)) /\ EditStays(m, LoadAgent(m, kind))
  <1>0. m \in Dialogs /\ EditStays(m, m)
    BY DEF AgentInOrder, EditStays
  <1>1. AgentInOrder(LoadInbox(m)) /\ EditStays(m, LoadInbox(m))
    <2>1. CASE m.loading \/ m.sending
      BY <1>0, <2>1 DEF LoadInbox
    <2>2. CASE ~(m.loading \/ m.sending)
      <3>1. PICK l : l = [m EXCEPT !.loading = TRUE]
        OBVIOUS
      <3>2. l \in Dialogs /\ EditStays(m, l) /\ l.agent = m.agent /\ l.agentSaving = m.agentSaving /\ l.calls = m.calls
        BY <1>0, <3>1 DEF Dialogs, EditStays
      <3>3. AgentInOrder(l)
        BY <3>2, RestInOrder
      <3>4. PICK c : c = MailCall("list", NoMail)
        OBVIOUS
      <3>5. c \in CallsOf /\ c.kind = "list"
        BY <3>4, MailCallTyped DEF MailKinds, Args, SomeMail
      <3>6. Lane(c.kind) # "agent"
        BY <3>5 DEF Lane
      <3>7. PICK n : n = Asking(l, c)
        OBVIOUS
      <3>8. AgentInOrder(n) /\ EditStays(l, n)
        BY <3>3, <3>5, <3>6, <3>7, OtherAskInOrder
      <3>9. LoadInbox(m) = n
        BY <2>2, <3>1, <3>4, <3>7 DEF LoadInbox
      <3>10. QED
        BY <3>2, <3>8, <3>9 DEF EditStays
    <2>3. QED
      BY <2>1, <2>2
  <1>2. ASSUME NEW kind \in {"agent", "poll"}
        PROVE  AgentInOrder(LoadAgent(m, kind)) /\ EditStays(m, LoadAgent(m, kind))
    <2>1. CASE m.agentLoading \/ m.agentSaving
      <3>1. PICK n : n = [m EXCEPT !.timer = TRUE]
        OBVIOUS
      <3>2. n \in Dialogs /\ EditStays(m, n) /\ n.agent = m.agent /\ n.agentSaving = m.agentSaving /\ n.calls = m.calls
        BY <1>0, <3>1 DEF Dialogs, EditStays
      <3>3. AgentInOrder(n)
        BY <3>2, RestInOrder
      <3>4. LoadAgent(m, kind) = n
        BY <2>1, <3>1 DEF LoadAgent
      <3>5. QED
        BY <3>2, <3>3, <3>4
    <2>2. CASE ~(m.agentLoading \/ m.agentSaving)
      <3>1. PICK l : l = [m EXCEPT !.agentLoading = TRUE]
        OBVIOUS
      <3>2. l \in Dialogs /\ EditStays(m, l) /\ l.agent = m.agent /\ l.agentSaving = m.agentSaving /\ l.calls = m.calls
        BY <1>0, <3>1 DEF Dialogs, EditStays
      <3>3. AgentInOrder(l)
        BY <3>2, RestInOrder
      <3>4. PICK c : c = MailCall(kind, NoMail)
        OBVIOUS
      <3>5. c \in CallsOf /\ c.kind = kind
        BY <3>4, MailCallTyped DEF MailKinds, Args, SomeMail
      <3>6. Lane(c.kind) = "agent" /\ c.kind # "save"
        BY <3>5 DEF Lane
      <3>7. PICK n : n = Asking(l, c)
        OBVIOUS
      <3>8. AgentInOrder(n) /\ EditStays(l, n)
        BY <3>3, <3>5, <3>6, <3>7, AgentAskInOrder
      <3>9. LoadAgent(m, kind) = n
        BY <2>2, <3>1, <3>4, <3>7 DEF LoadAgent
      <3>10. QED
        BY <3>2, <3>8, <3>9 DEF EditStays
    <2>3. QED
      BY <2>1, <2>2
  <1>3. QED
    BY <1>1, <1>2

\* clearPrivateState(): no answer will be used.
LEMMA ClearInOrder ==
    ASSUME NEW m, AgentInOrder(m), NEW n, n = ClearPrivateState(m)
    PROVE  AgentInOrder(n) /\ ~n.open
  <1>1. m.calls \in SUBSET CallsOf /\ m.clicks \in Nat /\ m.ids \in Nat
    BY DEF AgentInOrder, Dialogs
  <1>2. PICK cs : cs = {[c EXCEPT !.current = FALSE, !.latest = FALSE] : c \in m.calls}
    OBVIOUS
  <1>3. ASSUME NEW o \in cs
        PROVE  o \in CallsOf /\ ~o.latest
    <2>1. PICK c \in CallsOf : o = [c EXCEPT !.current = FALSE, !.latest = FALSE]
      BY <1>1, <1>2
    <2>2. QED
      BY <2>1 DEF CallsOf
  <1>4. cs \in SUBSET CallsOf /\ AgentAsks(cs) = {}
    BY <1>3 DEF AgentAsks
  <1>5. n = Closed(m.clicks, m.ids, cs)
    BY <1>2 DEF ClearPrivateState
  <1>6. QED
    BY <1>1, <1>4, <1>5, ClosedInOrder

\* No step but the answer to a save, or another edit, changes what is edited.
EditKept ==
    mail.open /\ mail.dirty /\ mail'.open =>
        \/ mail'.dirty /\ (mail'.form = mail.form \/ box'.edits > box.edits)
        \/ \E c \in mail.calls \ mail'.calls : c.kind = "save" /\ c.arg = mail.form

\* A step that leaves the edit alone.
LEMMA StaysIsKept == ASSUME EditStays(mail, mail') PROVE EditKept
  BY DEF EditStays, EditKept

\* Opening and closing the dialog, and the requests that load something.
LEMMA OpeningKeepsMail ==
    ASSUME MailKept, OpenMail \/ CloseMail \/ RefreshMail \/ LoadMore \/ PollAgent
    PROVE  MailKept' /\ EditKept
  <1>0. AgentInOrder(mail) /\ mail \in Dialogs /\ box' = box /\ BoxTyped'
    BY DEF MailKept, AgentInOrder, BoxTyped, OpenMail, CloseMail, RefreshMail, LoadMore, PollAgent
  <1>1. CASE OpenMail
    <2>1. PICK m : m = ClearPrivateState(mail)
      OBVIOUS
    <2>2. AgentInOrder(m)
      BY <1>0, <2>1, ClearInOrder
    <2>3. PICK n : n = [m EXCEPT !.open = TRUE, !.clicks = @ + 1]
      OBVIOUS
    <2>4. n \in Dialogs /\ n.calls = m.calls /\ n.form = m.form /\ n.dirty = m.dirty /\ n.agent = m.agent /\ n.agentSaving = m.agentSaving
      <3>1. PICK k \in Nat : k = m.clicks + 1
        BY <2>2 DEF AgentInOrder, Dialogs
      <3>2. n = [m EXCEPT !.open = TRUE, !.clicks = k]
        BY <2>3, <3>1
      <3>3. QED
        BY <2>2, <3>2 DEF AgentInOrder, Dialogs
    <2>5. AgentInOrder(n)
      BY <2>2, <2>4 DEF AgentInOrder
    <2>6. PICK l : l = LoadInbox(n)
      OBVIOUS
    <2>7. AgentInOrder(l)
      BY <2>5, <2>6, LoadsInOrder
    <2>8. PICK e : e = LoadAgent(l, "agent")
      OBVIOUS
    <2>9. AgentInOrder(e)
      BY <2>7, <2>8, LoadsInOrder
    <2>10. mail' = e /\ ~mail.open
      BY <1>1, <2>1, <2>3, <2>6, <2>8 DEF OpenMail
    <2>11. QED
      BY <1>0, <2>9, <2>10 DEF MailKept, EditKept
  <1>2. CASE CloseMail
    <2>1. AgentInOrder(mail') /\ ~mail'.open
      BY <1>0, <1>2, ClearInOrder DEF CloseMail
    <2>2. QED
      BY <1>0, <2>1 DEF MailKept, EditKept
  <1>3. CASE RefreshMail
    <2>1. PICK l : l = LoadInbox(mail)
      OBVIOUS
    <2>2. AgentInOrder(l) /\ EditStays(mail, l)
      BY <1>0, <2>1, LoadsInOrder
    <2>3. PICK e : e = LoadAgent(l, "agent")
      OBVIOUS
    <2>4. AgentInOrder(e) /\ EditStays(l, e)
      BY <2>2, <2>3, LoadsInOrder
    <2>5. mail' = e
      BY <1>3, <2>1, <2>3 DEF RefreshMail
    <2>6. EditStays(mail, mail')
      BY <2>2, <2>4, <2>5 DEF EditStays
    <2>7. QED
      BY <1>0, <2>4, <2>5, <2>6, StaysIsKept DEF MailKept
  <1>4. CASE LoadMore
    <2>1. PICK l : l = [mail EXCEPT !.loading = TRUE]
      OBVIOUS
    <2>2. l \in Dialogs /\ EditStays(mail, l) /\ l.agent = mail.agent /\ l.agentSaving = mail.agentSaving /\ l.calls = mail.calls
      BY <1>0, <2>1 DEF Dialogs, EditStays
    <2>3. AgentInOrder(l)
      BY <1>0, <2>2, RestInOrder
    <2>4. PICK c : c = MailCall("more", NoMail)
      OBVIOUS
    <2>5. c \in CallsOf /\ c.kind = "more"
      BY <2>4, MailCallTyped DEF MailKinds, Args, SomeMail
    <2>6. Lane(c.kind) # "agent"
      BY <2>5 DEF Lane
    <2>7. mail' = Asking(l, c)
      BY <1>4, <2>1, <2>4 DEF LoadMore
    <2>8. AgentInOrder(mail') /\ EditStays(l, mail')
      BY <2>3, <2>5, <2>6, <2>7, OtherAskInOrder
    <2>9. EditStays(mail, mail')
      BY <2>2, <2>8 DEF EditStays
    <2>10. QED
      BY <1>0, <2>8, <2>9, StaysIsKept DEF MailKept
  <1>5. CASE PollAgent
    <2>1. PICK l : l = [mail EXCEPT !.timer = FALSE]
      OBVIOUS
    <2>2. l \in Dialogs /\ EditStays(mail, l) /\ l.agent = mail.agent /\ l.agentSaving = mail.agentSaving /\ l.calls = mail.calls
      BY <1>0, <2>1 DEF Dialogs, EditStays
    <2>3. AgentInOrder(l)
      BY <1>0, <2>2, RestInOrder
    <2>4. PICK e : e = LoadAgent(l, "poll")
      OBVIOUS
    <2>5. AgentInOrder(e) /\ EditStays(l, e)
      BY <2>3, <2>4, LoadsInOrder
    <2>6. mail' = e
      BY <1>5, <2>1, <2>4 DEF PollAgent
    <2>7. EditStays(mail, mail')
      BY <2>2, <2>5, <2>6 DEF EditStays
    <2>8. QED
      BY <1>0, <2>5, <2>6, <2>7, StaysIsKept DEF MailKept
  <1>6. QED
    BY <1>1, <1>2, <1>3, <1>4, <1>5

\* Reading and writing a mail.
LEMMA ReadingKeepsMail ==
    ASSUME MailKept, \/ CancelCompose \/ SubmitMail \/ \E m \in Mails : SelectMessage(m)
                     \/ \E r \in Mails \cup {NoMail} : StartCompose(r)
                     \/ \E b \in Bodies : WriteBody(b)
    PROVE  MailKept' /\ EditKept
  <1>0. AgentInOrder(mail) /\ mail \in Dialogs /\ box' = box /\ BoxTyped'
    BY DEF MailKept, AgentInOrder, BoxTyped, CancelCompose, SubmitMail, SelectMessage, StartCompose, WriteBody
  <1>1. mail.calls \in SUBSET CallsOf /\ mail.clicks \in Nat /\ mail.ids \in Nat /\ mail.reply \in SomeMail
        /\ mail.body \in Bodies \cup {NoBody} /\ mail.pending \in [sig : Signatures, id : Nat]
    BY <1>0 DEF Dialogs
  <1>2. PICK none \in [sig : Signatures, id : Nat] : none = NoPending
    <2>1. PICK e : e = [sig |-> <<>>, id |-> 0]
      OBVIOUS
    <2>2. e \in [sig : Signatures, id : Nat]
      BY <2>1 DEF Signatures
    <2>3. QED
      BY <2>1, <2>2 DEF NoPending
  <1>3. PICK k \in Nat : k = mail.clicks + 1
    BY <1>1
  <1>4. ASSUME mail' \in Dialogs, EditStays(mail, mail'), mail'.agent = mail.agent, mail'.agentSaving = mail.agentSaving,
               AgentAsks(mail'.calls) \subseteq AgentAsks(mail.calls)
        PROVE  MailKept' /\ EditKept
    <2>1. AgentInOrder(mail')
      BY <1>0, <1>4, RestInOrder
    <2>2. QED
      BY <1>0, <1>4, <2>1, StaysIsKept DEF MailKept
  <1>5. CASE CancelCompose
    <2>1. mail' = [mail EXCEPT !.compose = FALSE, !.body = NoBody, !.pending = none, !.shown = mail.reply]
      BY <1>2, <1>5 DEF CancelCompose
    <2>2. /\ mail' \in Dialogs /\ EditStays(mail, mail') /\ mail'.agent = mail.agent /\ mail'.agentSaving = mail.agentSaving
          /\ mail'.calls = mail.calls
      BY <1>0, <1>1, <2>1 DEF Dialogs, EditStays, Args
    <2>3. QED
      BY <1>4, <2>2
  <1>6. ASSUME NEW b \in Bodies, WriteBody(b)
        PROVE  MailKept' /\ EditKept
    <2>1. mail' = [mail EXCEPT !.body = b, !.clicks = k]
      BY <1>3, <1>6 DEF WriteBody
    <2>2. /\ mail' \in Dialogs /\ EditStays(mail, mail') /\ mail'.agent = mail.agent /\ mail'.agentSaving = mail.agentSaving
          /\ mail'.calls = mail.calls
      BY <1>0, <2>1 DEF Dialogs, EditStays
    <2>3. QED
      BY <1>4, <2>2
  <1>7. ASSUME NEW r \in SomeMail, StartCompose(r)
        PROVE  MailKept' /\ EditKept
    <2>1. PICK cs : cs = Overtaken(mail.calls, "detail")
      OBVIOUS
    <2>2. cs \in SUBSET CallsOf /\ AgentAsks(cs) = AgentAsks(mail.calls)
      BY <1>1, <2>1, OvertakenInOrder
    <2>3. mail' = [mail EXCEPT !.calls = cs, !.pending = none, !.selected = r, !.reply = r,
                               !.compose = TRUE, !.body = NoBody, !.shown = NoMail, !.clicks = k]
      BY <1>2, <1>3, <1>7, <2>1 DEF StartCompose
    <2>4. /\ mail' \in Dialogs /\ EditStays(mail, mail') /\ mail'.agent = mail.agent /\ mail'.agentSaving = mail.agentSaving
          /\ mail'.calls = cs
      BY <1>0, <2>2, <2>3 DEF Dialogs, EditStays, Args, SomeMail
    <2>5. QED
      BY <1>4, <2>2, <2>4
  <1>8. ASSUME NEW m \in Mails, SelectMessage(m)
        PROVE  MailKept' /\ EditKept
    <2>1. PICK l : l = [mail EXCEPT !.selected = m, !.shown = NoMail, !.pending = none, !.compose = FALSE, !.body = NoBody]
      OBVIOUS
    <2>2. l \in Dialogs /\ EditStays(mail, l) /\ l.agent = mail.agent /\ l.agentSaving = mail.agentSaving /\ l.calls = mail.calls
      BY <1>0, <2>1 DEF Dialogs, EditStays, Args, SomeMail
    <2>3. AgentInOrder(l)
      BY <1>0, <2>2, RestInOrder
    <2>4. PICK c : c = MailCall("detail", m)
      OBVIOUS
    <2>5. c \in CallsOf /\ c.kind = "detail"
      BY <2>4, MailCallTyped DEF MailKinds, Args, SomeMail
    <2>6. Lane(c.kind) # "agent"
      BY <2>5 DEF Lane
    <2>7. mail' = Asking(l, c)
      BY <1>2, <1>8, <2>1, <2>4 DEF SelectMessage
    <2>8. AgentInOrder(mail') /\ EditStays(l, mail')
      BY <2>3, <2>5, <2>6, <2>7, OtherAskInOrder
    <2>9. EditStays(mail, mail')
      BY <2>2, <2>8 DEF EditStays
    <2>10. QED
      BY <1>0, <2>8, <2>9, StaysIsKept DEF MailKept
  <1>9. CASE SubmitMail
    <2>1. PICK sig \in Signatures : sig = <<mail.reply, mail.body>>
      BY <1>1 DEF Signatures
    <2>2. PICK id \in Nat : id = RequestId(mail, sig)
      <3>1. mail.pending.id \in Nat /\ mail.ids + 1 \in Nat
        BY <1>1
      <3>2. QED
        BY <3>1 DEF RequestId
    <2>3. PICK ids \in Nat : ids = IF id > mail.ids THEN id ELSE mail.ids
      BY <1>1
    <2>4. PICK d : d = MailCall("send", mail.reply)
      OBVIOUS
    <2>5. d \in CallsOf /\ d.kind = "send"
      BY <1>1, <2>4, MailCallTyped DEF MailKinds, Args
    <2>6. PICK c : c = [d EXCEPT !.id = id, !.form = mail.clicks, !.body = mail.body]
      OBVIOUS
    <2>7. c \in CallsOf /\ c.kind = "send"
      BY <1>1, <2>5, <2>6 DEF CallsOf
    <2>8. PICK cs \in SUBSET CallsOf : cs = mail.calls \cup {c}
      BY <1>1, <2>7
    <2>9. Lane("send") # "agent"
      BY DEF Lane
    <2>10. AgentAsks(cs) \subseteq AgentAsks(mail.calls)
      BY <2>7, <2>8, <2>9 DEF AgentAsks
    <2>11. PICK pending \in [sig : Signatures, id : Nat] : pending = [sig |-> sig, id |-> id]
      OBVIOUS
    <2>12. mail' = [mail EXCEPT !.sending = TRUE, !.pending = pending, !.ids = ids, !.calls = cs]
      BY <1>9, <2>1, <2>2, <2>3, <2>4, <2>6, <2>8, <2>11 DEF SubmitMail
    <2>13. /\ mail' \in Dialogs /\ EditStays(mail, mail') /\ mail'.agent = mail.agent /\ mail'.agentSaving = mail.agentSaving
           /\ mail'.calls = cs
      BY <1>0, <2>12 DEF Dialogs, EditStays
    <2>14. QED
      BY <1>4, <2>10, <2>13
  <1>10. QED
    BY <1>5, <1>6, <1>7, <1>8, <1>9 DEF SomeMail

\* The senders are edited and saved.
LEMMA SendersKeepMail ==
    ASSUME MailKept, EditSenders \/ SaveAgent \/ Reconfigured
    PROVE  MailKept' /\ EditKept
  <1>0. AgentInOrder(mail) /\ mail \in Dialogs /\ BoxTyped
    BY DEF MailKept, AgentInOrder
  <1>1. CASE EditSenders
    <2>1. PICK k \in Nat : k = box.edits + 1
      BY <1>0 DEF BoxTyped
    <2>2. mail' = [mail EXCEPT !.form = k, !.dirty = TRUE] /\ box' = [box EXCEPT !.edits = k]
      BY <1>1, <2>1 DEF EditSenders
    <2>3. /\ mail' \in Dialogs /\ mail'.calls = mail.calls /\ mail'.dirty /\ mail'.form = k
          /\ mail'.agent = mail.agent /\ mail'.agentSaving = mail.agentSaving
      BY <1>0, <2>2 DEF Dialogs, Args
    <2>4. box'.edits = k /\ BoxTyped'
      BY <1>0, <2>2 DEF BoxTyped
    <2>5. mail.agent /\ ~mail.agentSaving
      BY <1>1 DEF EditSenders
    <2>6. AgentInOrder(mail')
      BY <1>0, <2>3, <2>5 DEF AgentInOrder
    <2>7. box'.edits > box.edits
      BY <1>0, <2>1, <2>4 DEF BoxTyped
    <2>8. QED
      BY <2>3, <2>4, <2>6, <2>7 DEF MailKept, EditKept
  <1>2. CASE SaveAgent
    <2>1. PICK l : l = [mail EXCEPT !.agentLoading = FALSE, !.agentSaving = TRUE, !.timer = FALSE]
      OBVIOUS
    <2>2. /\ l \in Dialogs /\ EditStays(mail, l) /\ l.agent = mail.agent /\ l.agentSaving /\ l.calls = mail.calls
          /\ l.form \in Args /\ l.form = mail.form
      BY <1>0, <2>1 DEF Dialogs, EditStays
    <2>3. AgentInOrder(l)
      BY <1>0, <2>2 DEF AgentInOrder, EditStays
    <2>4. PICK c : c = MailCall("save", l.form)
      OBVIOUS
    <2>5. c \in CallsOf /\ c.kind = "save" /\ c.arg = l.form
      BY <2>2, <2>4, MailCallTyped DEF MailKinds
    <2>6. Lane(c.kind) = "agent"
      BY <2>5 DEF Lane
    <2>7. mail' = Asking(l, c)
      BY <1>2, <2>1, <2>2, <2>4 DEF SaveAgent
    <2>8. AgentInOrder(mail') /\ EditStays(l, mail')
      BY <2>2, <2>3, <2>5, <2>6, <2>7, AgentAskInOrder
    <2>9. EditStays(mail, mail')
      BY <2>2, <2>8 DEF EditStays
    <2>10. BoxTyped'
      BY <1>0, <1>2 DEF SaveAgent, BoxTyped
    <2>11. QED
      BY <2>8, <2>9, <2>10, StaysIsKept DEF MailKept
  <1>3. CASE Reconfigured
    <2>1. mail' = mail /\ box' = [box EXCEPT !.configured = ~@, !.failures = @ + 1]
      BY <1>3 DEF Reconfigured
    <2>2. PICK configured, failures : box' = [box EXCEPT !.configured = configured, !.failures = failures]
      BY <2>1
    <2>3. BoxTyped'
      BY <1>0, <2>2 DEF BoxTyped
    <2>4. EditStays(mail, mail')
      BY <2>1 DEF EditStays
    <2>5. QED
      BY <1>0, <2>1, <2>3, <2>4, StaysIsKept DEF MailKept
  <1>4. QED
    BY <1>1, <1>2, <1>3

\* A step that ends what was under way about the senders.
LEMMA EndInOrder ==
    ASSUME NEW n \in Dialogs, AgentAsks(n.calls) = {}, n.dirty => n.agent
    PROVE  AgentInOrder(n)
  BY DEF AgentInOrder

\* What a request does at the server.
LEMMA BoxStaysTyped ==
    ASSUME MailKept, NEW c \in CallsOf, NEW handled, NEW ok, MailReplied(c, handled, ok)
    PROVE  BoxTyped'
  <1>0. BoxTyped /\ c.arg \in Args
    BY DEF MailKept, CallsOf
  <1>1. PICK h : h = IF handled THEN Handled(c) ELSE box
    OBVIOUS
  <1>2. PICK f : box' = [h EXCEPT !.failures = f]
    BY <1>1 DEF MailReplied
  <1>3. h = box \/ h = [box EXCEPT !.senders = c.arg] \/ \E a : h = [box EXCEPT !.accepted = a]
    <2>1. Handled(c) = box \/ Handled(c) = [box EXCEPT !.senders = c.arg] \/ \E a : Handled(c) = [box EXCEPT !.accepted = a]
      BY DEF Handled
    <2>2. QED
      BY <1>1, <2>1
  <1>4. DOMAIN h = DOMAIN box /\ h.edits \in Nat /\ h.senders \in Args
    <2>1. CASE h = box
      BY <1>0, <2>1 DEF BoxTyped
    <2>2. CASE h = [box EXCEPT !.senders = c.arg]
      BY <1>0, <2>2 DEF BoxTyped
    <2>3. ASSUME NEW a, h = [box EXCEPT !.accepted = a]
          PROVE  DOMAIN h = DOMAIN box /\ h.edits \in Nat /\ h.senders \in Args
      BY <1>0, <2>3 DEF BoxTyped
    <2>4. QED
      BY <1>3, <2>1, <2>2, <2>3
  <1>5. QED
    BY <1>0, <1>2, <1>4 DEF BoxTyped

\* The lanes of the requests.
LEMMA Lanes ==
    /\ Lane("list") = "list" /\ Lane("more") = "list" /\ Lane("detail") = "detail" /\ Lane("send") = "detail"
    /\ Lane("agent") = "agent" /\ Lane("poll") = "agent" /\ Lane("save") = "agent"
  BY DEF Lane

\* Whatever is answered, or fails.
LEMMA RepliesKeepMail ==
    ASSUME MailKept, NEW c \in mail.calls, NEW handled \in BOOLEAN, NEW ok \in BOOLEAN, MailReplied(c, handled, ok)
    PROVE  MailKept' /\ EditKept
  <1>0. AgentInOrder(mail) /\ mail \in Dialogs /\ mail.calls \in SUBSET CallsOf /\ c \in CallsOf /\ c.kind \in MailKinds /\ c.arg \in Args
    BY DEF MailKept, AgentInOrder, Dialogs, CallsOf
  <1>1. BoxTyped'
    BY <1>0, BoxStaysTyped
  <1>2. box.senders \in Args
    BY DEF MailKept, BoxTyped
  <1>3. PICK cs \in SUBSET CallsOf : cs = mail.calls \ {c}
    BY <1>0
  <1>4. PICK m : m = [mail EXCEPT !.calls = cs]
    OBVIOUS
  <1>5. m \in Dialogs /\ m.calls = cs /\ EditStays(mail, m) /\ m.agent = mail.agent /\ m.agentSaving = mail.agentSaving
    BY <1>0, <1>4 DEF Dialogs, EditStays
  <1>6. AgentAsks(cs) \subseteq AgentAsks(mail.calls)
    BY <1>3 DEF AgentAsks
  <1>7. AgentInOrder(m)
    BY <1>0, <1>5, <1>6, RestInOrder
  <1>8. ASSUME AgentInOrder(mail'), EditStays(m, mail')
        PROVE  MailKept' /\ EditKept
    <2>1. EditStays(mail, mail')
      BY <1>5, <1>8 DEF EditStays
    <2>2. QED
      BY <1>1, <1>8, <2>1, StaysIsKept DEF MailKept
  <1>9. ASSUME mail' \in Dialogs, EditStays(m, mail'), mail'.agent = m.agent, mail'.agentSaving = m.agentSaving,
               AgentAsks(mail'.calls) \subseteq AgentAsks(cs)
        PROVE  MailKept' /\ EditKept
    <2>1. AgentInOrder(mail')
      BY <1>5, <1>7, <1>9, RestInOrder
    <2>2. QED
      BY <1>8, <1>9, <2>1
  <1>10. mail' = CASE ~(c.latest /\ c.current) -> m
                   [] c.latest /\ c.current /\ ok -> MailAnswer(m, c)
                   [] c.latest /\ c.current /\ ~ok -> MailFailure(m, c)
    BY <1>3, <1>4 DEF MailReplied
  <1>11. CASE ~(c.latest /\ c.current)
    <2>1. mail' = m
      BY <1>10, <1>11
    <2>2. QED
      BY <1>7, <1>8, <2>1 DEF EditStays
  <1>12. CASE c.latest /\ c.current
    <2>1. mail' = MailAnswer(m, c) \/ mail' = MailFailure(m, c)
      BY <1>10, <1>12
    <2>2. Lane(c.kind) = "agent" => AgentAsks(cs) = {}
      <3>1. Lane(c.kind) = "agent" => c \in AgentAsks(mail.calls)
        BY <1>12 DEF AgentAsks
      <3>2. c \notin AgentAsks(cs)
        BY <1>3 DEF AgentAsks
      <3>3. \A d \in AgentAsks(mail.calls) : Lane(c.kind) = "agent" => d = c
        BY <1>0, <3>1 DEF AgentInOrder
      <3>4. QED
        BY <1>6, <3>2, <3>3
    <2>3. PICK none \in [sig : Signatures, id : Nat] : none = NoPending
      <3>1. PICK e : e = [sig |-> <<>>, id |-> 0]
        OBVIOUS
      <3>2. e \in [sig : Signatures, id : Nat]
        BY <3>1 DEF Signatures
      <3>3. QED
        BY <3>1, <3>2 DEF NoPending
    <2>4. PICK os : os = Overtaken(cs, "detail")
      OBVIOUS
    <2>5. os \in SUBSET CallsOf /\ AgentAsks(os) = AgentAsks(cs)
      BY <2>4, OvertakenInOrder
    <2>6. CASE c.kind \in {"list", "more"}
      <3>1. Lane(c.kind) = "list"
        BY <2>6, Lanes
      <3>2. PICK l : l = [m EXCEPT !.loading = FALSE]
        OBVIOUS
      <3>3. l \in Dialogs /\ EditStays(m, l) /\ l.agent = m.agent /\ l.agentSaving = m.agentSaving /\ l.calls = cs
        BY <1>5, <3>2 DEF Dialogs, EditStays
      <3>11. c.kind \notin {"detail", "send", "save", "agent", "poll"}
        BY <2>6
      <3>4. MailFailure(m, c) = l
        BY <3>1, <3>2, <3>11, Zenon DEF MailFailure
      <3>5. CASE mail' = l
        BY <1>9, <3>3, <3>5
      <3>6. CASE mail' = Unconfigured(l)
        <4>1. mail' = [l EXCEPT !.configured = FALSE, !.listed = FALSE, !.cursor = FALSE, !.selected = NoMail, !.shown = NoMail,
                                !.compose = FALSE, !.body = NoBody, !.pending = none, !.calls = os]
          BY <2>3, <2>4, <3>3, <3>6 DEF Unconfigured
        <4>2. /\ mail' \in Dialogs /\ EditStays(m, mail') /\ mail'.agent = m.agent /\ mail'.agentSaving = m.agentSaving
              /\ mail'.calls = os
          BY ZenonT(30), SMTT(30), <2>5, <3>3, <4>1 DEF Dialogs, EditStays, Args, SomeMail
        <4>3. QED
          BY <1>9, <2>5, <4>2
      <3>7. CASE mail' = [m EXCEPT !.loading = FALSE, !.configured = TRUE, !.listed = TRUE, !.cursor = (c.kind = "list")]
        <4>1. PICK more \in BOOLEAN : more = (c.kind = "list")
          OBVIOUS
        <4>2. mail' = [m EXCEPT !.loading = FALSE, !.configured = TRUE, !.listed = TRUE, !.cursor = more]
          BY <3>7, <4>1
        <4>3. /\ mail' \in Dialogs /\ EditStays(m, mail') /\ mail'.agent = m.agent /\ mail'.agentSaving = m.agentSaving
              /\ mail'.calls = cs
          BY <1>5, <4>2 DEF Dialogs, EditStays
        <4>4. QED
          BY <1>9, <4>3
      <3>8. MailAnswer(m, c) = Unconfigured(l)
            \/ MailAnswer(m, c) = [m EXCEPT !.loading = FALSE, !.configured = TRUE, !.listed = TRUE, !.cursor = (c.kind = "list")]
        <4>1. CASE box.configured
          <5>1. MailAnswer(m, c) = [m EXCEPT !.loading = FALSE, !.configured = TRUE, !.listed = TRUE, !.cursor = (c.kind = "list")]
            BY <3>1, <3>11, <4>1, Zenon DEF MailAnswer
          <5>2. QED
            BY <5>1
        <4>2. CASE ~box.configured
          <5>1. MailAnswer(m, c) = Unconfigured([m EXCEPT !.loading = FALSE])
            BY <3>1, <3>11, <4>2, Zenon DEF MailAnswer
          <5>2. QED
            BY <3>2, <5>1
        <4>3. QED
          BY <4>1, <4>2
      <3>9. QED
        BY <2>1, <3>4, <3>5, <3>6, <3>7, <3>8
    <2>7. CASE c.kind = "detail"
      <3>1. Lane(c.kind) = "detail"
        BY <2>7, Lanes
      <3>2. MailFailure(m, c) = m
        BY <2>7, <3>1 DEF MailFailure
      <3>3. MailAnswer(m, c) = [m EXCEPT !.shown = c.arg]
        BY <2>7, <3>1 DEF MailAnswer
      <3>4. CASE mail' = m
        BY <1>7, <1>8, <3>4 DEF EditStays
      <3>5. CASE mail' = [m EXCEPT !.shown = c.arg]
        <4>1. /\ mail' \in Dialogs /\ EditStays(m, mail') /\ mail'.agent = m.agent /\ mail'.agentSaving = m.agentSaving
              /\ mail'.calls = cs
          BY <1>0, <1>5, <3>5 DEF Dialogs, EditStays
        <4>2. QED
          BY <1>9, <4>1
      <3>6. QED
        BY <2>1, <3>2, <3>3, <3>4, <3>5
    <2>8. CASE c.kind = "send"
      <3>1. Lane(c.kind) = "detail"
        BY <2>8, Lanes
      <3>2. MailFailure(m, c) = [m EXCEPT !.sending = FALSE]
        BY <2>8, <3>1 DEF MailFailure
      <3>3. MailAnswer(m, c) = [m EXCEPT !.sending = FALSE, !.pending = none, !.body = NoBody, !.compose = FALSE]
        BY <2>3, <2>8, <3>1 DEF MailAnswer
      <3>4. \/ mail' = [m EXCEPT !.sending = FALSE]
            \/ mail' = [m EXCEPT !.sending = FALSE, !.pending = none, !.body = NoBody, !.compose = FALSE]
        BY <2>1, <3>2, <3>3
      <3>5. CASE mail' = [m EXCEPT !.sending = FALSE]
        <4>1. /\ mail' \in Dialogs /\ EditStays(m, mail') /\ mail'.agent = m.agent /\ mail'.agentSaving = m.agentSaving
              /\ mail'.calls = cs
          BY <1>5, <3>5 DEF Dialogs, EditStays
        <4>2. QED
          BY <1>9, <4>1
      <3>6. CASE mail' = [m EXCEPT !.sending = FALSE, !.pending = none, !.body = NoBody, !.compose = FALSE]
        <4>1. /\ mail' \in Dialogs /\ EditStays(m, mail') /\ mail'.agent = m.agent /\ mail'.agentSaving = m.agentSaving
              /\ mail'.calls = cs
          BY ZenonT(30), SMTT(30), <1>5, <2>3, <3>6 DEF Dialogs, EditStays
        <4>2. QED
          BY <1>9, <4>1
      <3>7. QED
        BY <3>4, <3>5, <3>6
    <2>9. CASE c.kind = "save"
      <3>1. Lane(c.kind) = "agent"
        BY <2>9, Lanes
      <3>2. AgentAsks(cs) = {} /\ c \in AgentAsks(mail.calls)
        BY <1>12, <2>2, <3>1 DEF AgentAsks
      <3>3. c.arg = mail.form
        BY <1>0, <2>9, <3>2 DEF AgentInOrder
      <3>4. CASE mail' = MailAnswer(m, c)
        <4>1. mail' = [m EXCEPT !.agentSaving = FALSE, !.form = c.arg, !.dirty = FALSE, !.timer = TRUE]
          BY <2>9, <3>1, <3>4 DEF MailAnswer
        <4>2. mail' \in Dialogs /\ ~mail'.dirty /\ mail'.calls = cs
          BY ZenonT(30), SMTT(30), <1>0, <1>5, <4>1 DEF Dialogs
        <4>3. AgentInOrder(mail')
          BY <3>2, <4>2, EndInOrder
        <4>4. c \in mail.calls \ mail'.calls
          BY <1>3, <4>2
        <4>5. QED
          BY <1>1, <2>9, <3>3, <4>3, <4>4 DEF MailKept, EditKept
      <3>5. CASE mail' = MailFailure(m, c)
        <4>1. mail' = [m EXCEPT !.agentSaving = FALSE, !.timer = TRUE]
          BY <2>9, <3>1, <3>5 DEF MailFailure
        <4>2. mail' \in Dialogs /\ EditStays(m, mail') /\ mail'.agent = m.agent /\ mail'.calls = cs
          BY <1>5, <4>1 DEF Dialogs, EditStays
        <4>3. AgentInOrder(mail')
          BY <1>7, <3>2, <4>2, EndInOrder DEF AgentInOrder, EditStays
        <4>4. QED
          BY <1>8, <4>2, <4>3
      <3>6. QED
        BY <2>1, <3>4, <3>5
    <2>10. CASE c.kind \in {"agent", "poll"}
      <3>1. Lane(c.kind) = "agent"
        BY <2>10, Lanes
      <3>2. AgentAsks(cs) = {}
        BY <2>2, <3>1
      <3>3. CASE mail' = MailAnswer(m, c)
        <4>1. PICK l : l = AgentLoaded(m, c)
          OBVIOUS
        <4>2. mail' = [l EXCEPT !.agentLoading = FALSE, !.timer = TRUE]
          BY <2>10, <3>1, <3>3, <4>1 DEF MailAnswer
        <4>3. CASE l = m
          <5>1. mail' \in Dialogs /\ EditStays(m, mail') /\ mail'.agent = m.agent /\ mail'.calls = cs
            BY ZenonT(30), SMTT(30), <1>5, <4>2, <4>3 DEF Dialogs, EditStays
          <5>2. AgentInOrder(mail')
            BY <1>7, <3>2, <5>1, EndInOrder DEF AgentInOrder, EditStays
          <5>3. QED
            BY <1>8, <5>1, <5>2
        <4>4. CASE (~m.agent \/ ~m.dirty) /\ l = [m EXCEPT !.agent = TRUE, !.form = box.senders]
          <5>1. l \in Dialogs /\ l.agent /\ l.calls = cs
            BY <1>2, <1>5, <4>4 DEF Dialogs
          <5>2. mail' \in Dialogs /\ mail'.agent /\ mail'.calls = cs
            BY <4>2, <5>1 DEF Dialogs
          <5>3. AgentInOrder(mail')
            BY <3>2, <5>2, EndInOrder
          <5>4. ~m.dirty
            BY <1>7, <4>4 DEF AgentInOrder
          <5>5. ~mail.dirty
            BY <1>5, <5>4 DEF EditStays
          <5>6. QED
            BY <1>1, <5>3, <5>5 DEF MailKept, EditKept
        <4>5. QED
          BY <4>1, <4>3, <4>4 DEF AgentLoaded
      <3>4. CASE mail' = MailFailure(m, c)
        <4>1. mail' = [m EXCEPT !.agentLoading = FALSE, !.timer = TRUE]
          BY <2>10, <3>1, <3>4 DEF MailFailure
        <4>2. mail' \in Dialogs /\ EditStays(m, mail') /\ mail'.agent = m.agent /\ mail'.calls = cs
          BY <1>5, <4>1 DEF Dialogs, EditStays
        <4>3. AgentInOrder(mail')
          BY <1>7, <3>2, <4>2, EndInOrder DEF AgentInOrder, EditStays
        <4>4. QED
          BY <1>8, <4>2, <4>3
      <3>5. QED
        BY <2>1, <3>3, <3>4
    <2>11. QED
      BY <1>0, <2>6, <2>7, <2>8, <2>9, <2>10 DEF MailKinds
  <1>13. QED
    BY <1>11, <1>12

\* One step for each action of MailNext.
LEMMA MailStep == MailKept /\ [MailNext]_mailVars => MailKept' /\ (EditKept \/ UNCHANGED mailVars)
  <1> SUFFICES ASSUME MailKept, [MailNext]_mailVars PROVE MailKept' /\ (EditKept \/ UNCHANGED mailVars)
    OBVIOUS
  <1>1. CASE OpenMail \/ CloseMail \/ RefreshMail \/ LoadMore \/ PollAgent
    BY <1>1, OpeningKeepsMail
  <1>2. CASE \/ CancelCompose \/ SubmitMail \/ \E m \in Mails : SelectMessage(m)
             \/ \E r \in Mails \cup {NoMail} : StartCompose(r)
             \/ \E b \in Bodies : WriteBody(b)
    BY <1>2, ReadingKeepsMail
  <1>3. CASE EditSenders \/ SaveAgent \/ Reconfigured
    BY <1>3, SendersKeepMail
  <1>4. CASE \E c \in mail.calls, handled, ok \in BOOLEAN : MailReplied(c, handled, ok)
    <2>1. PICK c \in mail.calls, handled \in BOOLEAN, ok \in BOOLEAN : MailReplied(c, handled, ok)
      BY <1>4
    <2>2. QED
      BY <2>1, RepliesKeepMail
  <1>5. CASE UNCHANGED mailVars
    BY <1>5 DEF mailVars, MailKept, AgentInOrder, BoxTyped
  <1>6. QED
    BY <1>1, <1>2, <1>3, <1>4, <1>5 DEF MailNext

\* loadAgent() and saveAgent(): one request about the senders counts at a time, and while a
\* save is out the form is what it saves.
THEOREM MailInvariant == MailSpec => []MailKept
  <1>1. MailInit => MailKept
    <2> SUFFICES ASSUME MailInit PROVE MailKept
      OBVIOUS
    <2>1. PICK none \in SUBSET CallsOf : none = {}
      OBVIOUS
    <2>2. AgentAsks(none) = {}
      BY <2>1 DEF AgentAsks
    <2>3. mail = Closed(0, 0, none)
      BY <2>1 DEF MailInit
    <2>4. AgentInOrder(mail)
      BY <2>2, <2>3, ClosedInOrder
    <2>5. BoxTyped
      BY DEF MailInit, BoxTyped, Args
    <2>6. QED
      BY <2>4, <2>5 DEF MailKept
  <1>2. QED
    BY <1>1, MailStep, PTL DEF MailSpec

\* saveAgent(): what an administrator has edited stays in the form until it is saved or
\* edited again, or the dialog is closed.
THEOREM EditsAreKept == MailSpec => SenderEditsAreKept
  <1>1. MailKept /\ [MailNext]_mailVars =>
           [mail.open /\ mail.dirty /\ mail'.open =>
              \/ mail'.dirty /\ (mail'.form = mail.form \/ box'.edits > box.edits)
              \/ \E c \in mail.calls \ mail'.calls : c.kind = "save" /\ c.arg = mail.form]_mailVars
    BY MailStep DEF EditKept
  <1>2. QED
    BY <1>1, MailInvariant, PTL DEF MailSpec, SenderEditsAreKept

-----------------------------------------------------------------------------
(* The conversations: refreshRoom(), refreshExtra() and the sessions         *)

RoomsSpec == RoomsInit /\ [][RoomsNext]_roomsVars

Streams == UNION {[R -> {"open", "wait", "due"}] : R \in SUBSET Rooms}
RoomPages ==
    [user : Users \cup {None}, rooms : SUBSET Rooms, archived : SUBSET Rooms, selected : Rooms \cup {None},
     data : Answers \cup {None}, nobodys : BOOLEAN, pollBusy : BOOLEAN, polling : BOOLEAN, extra : Seq(Panes),
     streams : Streams, calls : SUBSET Calls, creating : BOOLEAN]
Servers ==
    [ver : [Rooms -> 0..MaxVersion], busy : SUBSET Rooms, session : Users \cup {None},
     member : [Users -> SUBSET Rooms], archived : [Users -> SUBSET Rooms]]
Entries == {"session", "login"}

\* A call in flight: only a pane that is open has its calls, what the server has
\* answered is about the room, and for the user who asked as long as it counts.
CallKept(c, user, ver) ==
    /\ c.kind = "room" => c.pane = 0
    /\ c.pane # 0 => c.kind = "extra" /\ c.current
    /\ c.kind \notin Snapshots => c.reply \in {"none", "failed"}
    /\ c.reply = "ok" => c.got \in Answers /\ c.got.room = c.room /\ c.got.ver <= ver[c.room]
    /\ c.kind = "room" /\ c.latest /\ c.user # None => c.user = user /\ (c.reply = "ok" => c.got.user = user)
    /\ c.kind = "login" => c.user \in Users
    /\ c.kind \in {"archive", "new"} => c.room \in Rooms
    /\ c.kind = "rooms" /\ c.current => user # None

\* Of the refreshes of the main pane, and of a pane, one is the latest.
LatestIsOne(cs) ==
    \A c, d \in cs : c.latest /\ d.latest /\ c.pane = d.pane =>
        /\ c.kind = "room" /\ d.kind = "room" => c = d
        /\ c.pane # 0 => c = d

\* Who is logged in has the session, if there is one.
SessionKept(s, session) ==
    /\ s.user # None => session \in {None, s.user} /\ \A c \in s.calls : c.kind \notin Entries
    /\ s.user = None => s.rooms = {} /\ DOMAIN s.extra = {} /\ \A c \in s.calls : c.pane = 0
    /\ \A c, d \in s.calls : c.kind \in Entries /\ d.kind \in Entries => c = d

\* What is shown is not newer than the server's, nor than the answer to the latest refresh.
Upto(d, c) == d # None /\ d.room = c.room /\ c.latest /\ c.reply = "ok" => d.ver <= c.got.ver

DataKept(s, ver) ==
    /\ s.data # None =>
          /\ s.data.user = s.user \/ s.nobodys
          /\ s.selected # None => s.data.room = s.selected
          /\ s.data.ver <= ver[s.data.room]
    /\ \A c \in s.calls : c.kind = "room" => Upto(s.data, c)

PanesKept(s, ver) ==
    /\ Len(s.extra) <= MaxExtra
    /\ \A i, j \in DOMAIN s.extra : s.extra[i].id = s.extra[j].id => i = j
    /\ \A i \in DOMAIN s.extra :
          /\ s.extra[i].data # None => s.extra[i].data.ver <= ver[s.extra[i].data.room]
          /\ \A c \in s.calls : c.pane = s.extra[i].id => Upto(s.extra[i].data, c)

\* Whatever waits has a call that will end it.
RoomAwaits(s, cs) == s.pollBusy => \E c \in cs : c.kind = "room" /\ c.latest
PanesAwait(es, cs) == \A i \in DOMAIN es : es[i].busy => \E c \in cs : c.pane = es[i].id /\ c.latest
Polled(s, cs) == s.selected # None => s.polling \/ \E c \in cs : c.kind = "room" /\ c.select

PageSound(s, v) ==
    /\ s \in RoomPages
    /\ \A c \in s.calls : CallKept(c, s.user, v.ver)
    /\ LatestIsOne(s.calls)
    /\ SessionKept(s, v.session)
    /\ DataKept(s, v.ver)
    /\ PanesKept(s, v.ver)

PageKept(s, v) == PageSound(s, v) /\ RoomAwaits(s, s.calls) /\ PanesAwait(s.extra, s.calls) /\ Polled(s, s.calls)

RoomsInv == srv \in Servers /\ budget \in [clicks : Nat, panes : 0..MaxExtra] /\ PageKept(web, srv)

-----------------------------------------------------------------------------
\* d is what became of the call c.
From(c, d) ==
    /\ d.kind = c.kind /\ d.room = c.room /\ d.user = c.user /\ d.reply = c.reply /\ d.got = c.got
    /\ d.latest => c.latest
    /\ d.current => c.current
    /\ d.pane \in {c.pane, 0}

\* d is a call that a user makes now.
Asks(d, user) ==
    /\ d.reply = "none"
    /\ d.kind = "room" => d.user = user
    /\ d.kind = "login" => d.user \in Users
    /\ d.kind \in {"archive", "new"} => d.room \in Rooms
    /\ d.kind = "rooms" => user # None

\* t shows nothing but what s shows, and its calls are those of s, or new.
Shows(s, t) ==
    /\ t.data \in {s.data, None} /\ t.nobodys = s.nobodys
    /\ \A j \in DOMAIN t.extra : t.extra[j].data # None =>
          \E i \in DOMAIN s.extra : s.extra[i].id = t.extra[j].id /\ s.extra[i].data = t.extra[j].data

Comes(s, t) ==
    \A d \in t.calls :
        /\ d.kind = "room" => d.pane = 0
        /\ d.pane # 0 => d.kind = "extra" /\ d.current
        /\ Asks(d, t.user) \/ \E c \in s.calls : From(c, d)

\* The same user, the first one, or none.
SameUser(s, t) ==
    \/ t.user = s.user
    \/ s.user = None
    \/ t.data = None /\ \A d \in t.calls : ~d.current /\ (d.kind = "room" => ~d.latest)

\* A page that shows nothing new is as sound as the one before it.
LEMMA FollowingIsSound ==
    ASSUME NEW s, NEW v \in Servers, NEW t, PageSound(s, v), t \in RoomPages, Shows(s, t), Comes(s, t), SameUser(s, t),
           t.data # None => t.selected \in {s.selected, None},
           LatestIsOne(t.calls), SessionKept(t, v.session), Len(t.extra) <= MaxExtra,
           \A i, j \in DOMAIN t.extra : t.extra[i].id = t.extra[j].id => i = j
    PROVE  PageSound(t, v)
  <1>1. ASSUME NEW d \in t.calls
        PROVE  CallKept(d, t.user, v.ver)
    <2>1. CASE Asks(d, t.user)
      BY <2>1 DEF Comes, Asks, CallKept, Snapshots
    <2>2. CASE \E c \in s.calls : From(c, d)
      <3>1. PICK c \in s.calls : From(c, d)
        BY <2>2
      <3>2. CallKept(c, s.user, v.ver)
        BY DEF PageSound
      <3>3. /\ d.kind = "room" => d.pane = 0
            /\ d.pane # 0 => d.kind = "extra" /\ d.current
        BY DEF Comes
      <3>4. /\ d.kind = "room" /\ d.latest => t.user = s.user \/ s.user = None
            /\ d.current => t.user = s.user \/ s.user = None
        BY DEF SameUser
      <3>5. QED
        BY <3>1, <3>2, <3>3, <3>4 DEF From, CallKept
    <2>3. QED
      BY <2>1, <2>2 DEF Comes
  <1>2. DataKept(t, v.ver)
    <2>1. ASSUME t.data # None
          PROVE  /\ t.data.user = t.user \/ t.nobodys
                 /\ t.selected # None => t.data.room = t.selected
                 /\ t.data.ver <= v.ver[t.data.room]
      <3>1. t.data = s.data /\ t.nobodys = s.nobodys /\ s.data.user # None
        BY <2>1, BoundsAssumption DEF Shows, PageSound, RoomPages, Answers
      <3>2. QED
        BY <2>1, <3>1 DEF PageSound, DataKept, SameUser
    <2>2. ASSUME NEW d \in t.calls, d.kind = "room"
          PROVE  Upto(t.data, d)
      <3>1. CASE Asks(d, t.user)
        BY <3>1 DEF Asks, Upto
      <3>2. CASE \E c \in s.calls : From(c, d)
        BY <2>2, <3>2 DEF From, Upto, Shows, PageSound, DataKept
      <3>3. QED
        BY <3>1, <3>2 DEF Comes
    <2>3. QED
      BY <2>1, <2>2 DEF DataKept
  <1>3. PanesKept(t, v.ver)
    <2>1. ASSUME NEW j \in DOMAIN t.extra, t.extra[j].data # None
          PROVE  /\ t.extra[j].data.ver <= v.ver[t.extra[j].data.room]
                 /\ \A d \in t.calls : d.pane = t.extra[j].id => Upto(t.extra[j].data, d)
      <3>1. PICK i \in DOMAIN s.extra : s.extra[i].id = t.extra[j].id /\ s.extra[i].data = t.extra[j].data
        BY <2>1 DEF Shows
      <3>2. t.extra[j] \in Panes
        BY ElementOfSeq, LenProperties DEF RoomPages
      <3>3. t.extra[j].id # 0
        BY <3>2, BoundsAssumption DEF Panes, PaneIds
      <3>4. ASSUME NEW d \in t.calls, d.pane = t.extra[j].id
            PROVE  Upto(t.extra[j].data, d)
        <4>1. CASE Asks(d, t.user)
          BY <4>1 DEF Asks, Upto
        <4>2. CASE \E c \in s.calls : From(c, d)
          <5>1. PICK c \in s.calls : From(c, d)
            BY <4>2
          <5>2. c.pane = s.extra[i].id
            BY <3>1, <3>3, <3>4, <5>1 DEF From
          <5>3. Upto(s.extra[i].data, c)
            BY <5>2 DEF PageSound, PanesKept
          <5>4. QED
            BY <3>1, <5>1, <5>3 DEF From, Upto
        <4>3. QED
          BY <4>1, <4>2 DEF Comes
      <3>5. QED
        BY <2>1, <3>1, <3>4 DEF PageSound, PanesKept
    <2>2. ASSUME NEW j \in DOMAIN t.extra, t.extra[j].data = None, NEW d \in t.calls
          PROVE  Upto(t.extra[j].data, d)
      BY <2>2 DEF Upto
    <2>3. QED
      BY <2>1, <2>2 DEF PanesKept
  <1>4. QED
    BY <1>1, <1>2, <1>3 DEF PageSound

LEMMA ShowsOn ==
    ASSUME NEW s, NEW t, NEW u, Shows(s, t), Shows(t, u)
    PROVE  Shows(s, u)
  <1>1. ASSUME NEW k \in DOMAIN u.extra, u.extra[k].data # None
        PROVE  \E i \in DOMAIN s.extra : s.extra[i].id = u.extra[k].id /\ s.extra[i].data = u.extra[k].data
    <2>1. PICK j \in DOMAIN t.extra : t.extra[j].id = u.extra[k].id /\ t.extra[j].data = u.extra[k].data
      BY <1>1 DEF Shows
    <2>2. PICK i \in DOMAIN s.extra : s.extra[i].id = t.extra[j].id /\ s.extra[i].data = t.extra[j].data
      BY <1>1, <2>1 DEF Shows
    <2>3. QED
      BY <2>1, <2>2
  <1>2. QED
    BY <1>1 DEF Shows

\* What became of a call that another one overtakes.
Overtaking(c, d, kind, panes) ==
    /\ From(c, d) /\ d.pane = c.pane /\ d.select = c.select /\ d.current = c.current
    /\ c.kind = kind /\ c.pane \in panes => ~d.latest
    /\ ~(c.kind = kind /\ c.pane \in panes) => d = c

\* A request number moves on: the calls stay, those of the kind as not the latest.
LEMMA SupersededCalls ==
    ASSUME NEW cs \in SUBSET Calls, NEW kind, NEW panes, NEW ds, ds = Superseded(cs, kind, panes)
    PROVE  /\ ds \in SUBSET Calls
           /\ \A d \in ds : \E c \in cs : Overtaking(c, d, kind, panes)
           /\ \A c \in cs : \E d \in ds : Overtaking(c, d, kind, panes)
  <1> DEFINE f(c) == IF c.kind = kind /\ c.pane \in panes THEN [c EXCEPT !.latest = FALSE] ELSE c
  <1>1. ds = {f(c) : c \in cs}
    BY DEF Superseded
  <1>2. ASSUME NEW c \in cs
        PROVE  f(c) \in Calls /\ Overtaking(c, f(c), kind, panes)
    <2>1. c \in Calls
      OBVIOUS
    <2>2. CASE c.kind = kind /\ c.pane \in panes
      <3>1. PICK e : e = [c EXCEPT !.latest = FALSE]
        OBVIOUS
      <3>2. f(c) = e
        BY <2>2, <3>1
      <3>3. e \in Calls /\ Overtaking(c, e, kind, panes)
        BY <2>1, <2>2, <3>1 DEF Calls, Overtaking, From
      <3>4. QED
        BY <3>2, <3>3
    <2>3. CASE ~(c.kind = kind /\ c.pane \in panes)
      <3>1. f(c) = c
        BY <2>3
      <3>2. QED
        BY <2>1, <2>3, <3>1 DEF Overtaking, From
    <2>4. QED
      BY <2>2, <2>3
  <1> HIDE DEF f
  <1>3. QED
    BY <1>1, <1>2

LEMMA CallTyped ==
    ASSUME NEW s \in RoomPages, NEW kind \in Kinds, NEW room \in Rooms \cup {None}, NEW c, c = Call(s, kind, room)
    PROVE  /\ c \in Calls
           /\ c.kind = kind /\ c.room = room /\ c.user = s.user /\ c.pane = 0 /\ c.latest /\ c.current /\ ~c.select
           /\ c.reply = "none"
  BY BoundsAssumption DEF Call, Calls, RoomPages

\* refreshRoom()
LEMMA RefreshRoomKeeps ==
    ASSUME NEW s, NEW v \in Servers, PageSound(s, v), RoomAwaits(s, s.calls), PanesAwait(s.extra, s.calls),
           NEW force \in BOOLEAN, NEW select \in BOOLEAN, NEW t, t = RefreshRoom(s, force, select)
    PROVE  /\ PageSound(t, v) /\ RoomAwaits(t, t.calls) /\ PanesAwait(t.extra, t.calls)
           /\ Polled(s, s.calls) \/ (force /\ select) => Polled(t, t.calls)
           /\ Shows(s, t) /\ t.user = s.user /\ t.extra = s.extra /\ t.selected = s.selected
  <1>0. s \in RoomPages /\ s.calls \in SUBSET Calls /\ s.selected \in Rooms \cup {None}
    BY DEF PageSound, RoomPages
  <1>1. CASE s.selected = None \/ (s.pollBusy /\ ~force)
    <2>1. t = s
      BY <1>1 DEF RefreshRoom
    <2>2. force => s.selected = None
      BY <1>1
    <2>3. Shows(s, s)
      BY DEF Shows
    <2>4. s.selected = None => Polled(s, s.calls)
      BY DEF Polled
    <2>5. QED
      BY <2>1, <2>2, <2>3, <2>4
  <1>2. CASE ~(s.selected = None \/ (s.pollBusy /\ ~force))
    <2>1. PICK ds : ds = Superseded(s.calls, "room", {0})
      OBVIOUS
    <2>2. PICK o : o = Call(s, "room", s.selected)
      OBVIOUS
    <2>3. PICK n : n = [o EXCEPT !.select = select]
      OBVIOUS
    <2>4. t = [s EXCEPT !.pollBusy = TRUE, !.calls = ds \cup {n}]
      BY <1>2, <2>1, <2>2, <2>3 DEF RefreshRoom
    <2>5. /\ ds \in SUBSET Calls
          /\ \A d \in ds : \E c \in s.calls : Overtaking(c, d, "room", {0})
          /\ \A c \in s.calls : \E d \in ds : Overtaking(c, d, "room", {0})
      BY <1>0, <2>1, SupersededCalls
    <2>6. /\ n \in Calls /\ n.kind = "room" /\ n.pane = 0 /\ n.latest /\ n.current /\ n.user = s.user
          /\ n.reply = "none" /\ n.select = select
      <3>1. /\ o \in Calls
            /\ o.kind = "room" /\ o.room = s.selected /\ o.user = s.user /\ o.pane = 0 /\ o.latest /\ o.current /\ ~o.select
            /\ o.reply = "none"
        <4>1. "room" \in Kinds
          BY DEF Kinds
        <4>2. QED
          BY <1>0, <2>2, <4>1, CallTyped
      <3>2. QED
        BY <2>3, <3>1 DEF Calls
    <2>7. /\ t \in RoomPages /\ t.pollBusy /\ t.calls = ds \cup {n}
          /\ t.user = s.user /\ t.extra = s.extra /\ t.selected = s.selected /\ t.data = s.data /\ t.nobodys = s.nobodys
          /\ t.polling = s.polling /\ t.rooms = s.rooms
      <3>1. PICK cs \in SUBSET Calls : cs = ds \cup {n}
        BY <2>5, <2>6
      <3>2. t = [s EXCEPT !.pollBusy = TRUE, !.calls = cs]
        BY <2>4, <3>1
      <3>3. QED
        BY <1>0, <3>1, <3>2 DEF RoomPages
    <2>8. Shows(s, t)
      BY <2>7 DEF Shows
    <2>9. \A c \in s.calls : CallKept(c, s.user, v.ver)
      BY DEF PageSound
    <2>10. Comes(s, t)
      <3>1. ASSUME NEW d \in ds
            PROVE  /\ d.kind = "room" => d.pane = 0
                   /\ d.pane # 0 => d.kind = "extra" /\ d.current
                   /\ \E c \in s.calls : From(c, d)
        <4>1. PICK c \in s.calls : Overtaking(c, d, "room", {0})
          BY <2>5
        <4>2. QED
          BY <2>9, <4>1 DEF Overtaking, From, CallKept
      <3>2. Asks(n, t.user)
        BY <2>6, <2>7 DEF Asks
      <3>3. QED
        BY <2>6, <2>7, <3>1, <3>2 DEF Comes
    <2>11. LatestIsOne(t.calls)
      <3>1. ASSUME NEW d \in ds, d.latest, d.kind = "room"
            PROVE  FALSE
        <4>1. PICK c \in s.calls : Overtaking(c, d, "room", {0})
          BY <2>5
        <4>2. QED
          BY <2>9, <3>1, <4>1 DEF Overtaking, From, CallKept
      <3>2. ASSUME NEW d \in ds, d.pane # 0
            PROVE  d \in s.calls
        <4>1. PICK c \in s.calls : Overtaking(c, d, "room", {0})
          BY <2>5
        <4>2. QED
          BY <2>9, <3>2, <4>1 DEF Overtaking, From, CallKept
      <3>3. LatestIsOne(s.calls)
        BY DEF PageSound
      <3>4. QED
        BY <2>6, <2>7, <3>1, <3>2, <3>3 DEF LatestIsOne
    <2>12. SessionKept(t, v.session)
      <3>1. ASSUME NEW d \in ds
            PROVE  \E c \in s.calls : c.kind = d.kind /\ c.pane = d.pane /\ (d.kind \in Entries => d = c)
        <4>1. PICK c \in s.calls : Overtaking(c, d, "room", {0})
          BY <2>5
        <4>2. QED
          BY <4>1 DEF Overtaking, From, Entries
      <3>2. SessionKept(s, v.session)
        BY DEF PageSound
      <3>3. n.kind \notin Entries
        BY <2>6 DEF Entries
      <3>4. /\ \A c \in t.calls : c.kind \in Entries => c \in s.calls
            /\ s.user # None => \A c \in t.calls : c.kind \notin Entries
            /\ s.user = None => \A c \in t.calls : c.pane = 0
        BY <2>6, <2>7, <3>1, <3>2, <3>3 DEF SessionKept
      <3>5. QED
        BY <2>7, <3>2, <3>4 DEF SessionKept
    <2>13. PageSound(t, v)
      <3>1. Len(t.extra) <= MaxExtra /\ \A i, j \in DOMAIN t.extra : t.extra[i].id = t.extra[j].id => i = j
        BY <2>7 DEF PageSound, PanesKept
      <3>2. SameUser(s, t) /\ (t.data # None => t.selected \in {s.selected, None})
        BY <2>7 DEF SameUser
      <3>3. QED
        BY <2>7, <2>8, <2>10, <2>11, <2>12, <3>1, <3>2, FollowingIsSound
    <2>14. RoomAwaits(t, t.calls)
      BY <2>6, <2>7 DEF RoomAwaits
    <2>15. PanesAwait(t.extra, t.calls)
      <3>1. ASSUME NEW i \in DOMAIN s.extra, NEW c \in s.calls, c.pane = s.extra[i].id
            PROVE  c \in ds
        <4>1. s.extra[i] \in Panes
          BY <1>0, ElementOfSeq, LenProperties DEF RoomPages
        <4>2. c.pane # 0
          BY <3>1, <4>1, BoundsAssumption DEF Panes, PaneIds
        <4>3. PICK d \in ds : Overtaking(c, d, "room", {0})
          BY <2>5
        <4>4. QED
          BY <4>2, <4>3 DEF Overtaking
      <3>2. QED
        BY <2>7, <3>1 DEF PanesAwait
    <2>16. Polled(s, s.calls) \/ (force /\ select) => Polled(t, t.calls)
      <3>1. ASSUME NEW c \in s.calls, c.kind = "room", c.select
            PROVE  \E d \in t.calls : d.kind = "room" /\ d.select
        <4>1. PICK d \in ds : Overtaking(c, d, "room", {0})
          BY <2>5
        <4>2. QED
          BY <2>7, <3>1, <4>1 DEF Overtaking, From
      <3>2. QED
        BY <2>6, <2>7, <3>1 DEF Polled
    <2>17. QED
      BY <2>7, <2>8, <2>13, <2>14, <2>15, <2>16
  <1>3. QED
    BY <1>1, <1>2

\* The panes of a page.
LEMMA PanesTyped ==
    ASSUME NEW s \in RoomPages
    PROVE  /\ DOMAIN s.extra = 1..Len(s.extra) /\ Len(s.extra) \in Nat
           /\ \A i \in DOMAIN s.extra : s.extra[i] \in Panes /\ s.extra[i].id \in PaneIds /\ s.extra[i].id # 0
  <1>1. s.extra \in Seq(Panes)
    BY DEF RoomPages
  <1>2. DOMAIN s.extra = 1..Len(s.extra) /\ Len(s.extra) \in Nat
    BY <1>1, LenProperties
  <1>3. \A i \in DOMAIN s.extra : s.extra[i] \in Panes
    BY <1>1, <1>2, ElementOfSeq
  <1>4. \A p \in Panes : p.id \in PaneIds /\ p.id # 0
    BY BoundsAssumption DEF Panes, PaneIds
  <1>5. QED
    BY <1>2, <1>3, <1>4

\* refreshExtra() for some panes.
LEMMA RefreshPanesKeeps ==
    ASSUME NEW s, NEW v \in Servers, PageSound(s, v), RoomAwaits(s, s.calls), PanesAwait(s.extra, s.calls),
           NEW is, NEW t, t = RefreshPanes(s, is)
    PROVE  /\ PageSound(t, v) /\ RoomAwaits(t, t.calls) /\ PanesAwait(t.extra, t.calls)
           /\ Polled(s, s.calls) => Polled(t, t.calls)
           /\ Shows(s, t) /\ t.user = s.user /\ t.selected = s.selected
  <1>0. s \in RoomPages /\ s.calls \in SUBSET Calls
    BY DEF PageSound, RoomPages
  <1>1. PICK free : free = {i \in is \cap DOMAIN s.extra : s.extra[i].room # None /\ ~s.extra[i].busy}
    OBVIOUS
  <1>2. PICK ids : ids = {s.extra[i].id : i \in free}
    OBVIOUS
  <1>3. PICK es : es = [i \in DOMAIN s.extra |-> IF i \in free THEN [s.extra[i] EXCEPT !.busy = TRUE] ELSE s.extra[i]]
    OBVIOUS
  <1>4. PICK ds : ds = Superseded(s.calls, "extra", ids)
    OBVIOUS
  <1>5. PICK ns : ns = {PaneCall(s, i) : i \in free}
    OBVIOUS
  <1>6. t = [s EXCEPT !.extra = es, !.calls = ds \cup ns]
    BY <1>1, <1>2, <1>3, <1>4, <1>5, Zenon DEF RefreshPanes
  <1>7. /\ DOMAIN s.extra = 1..Len(s.extra) /\ Len(s.extra) \in Nat
        /\ \A i \in DOMAIN s.extra : s.extra[i] \in Panes /\ s.extra[i].id \in PaneIds /\ s.extra[i].id # 0
    BY <1>0, PanesTyped
  <1>8. free \subseteq DOMAIN s.extra
    BY <1>1
  <1>9. /\ DOMAIN es = DOMAIN s.extra /\ es \in Seq(Panes) /\ Len(es) = Len(s.extra)
        /\ \A i \in DOMAIN s.extra : es[i].id = s.extra[i].id /\ es[i].data = s.extra[i].data
        /\ \A i \in DOMAIN s.extra : i \notin free => es[i] = s.extra[i]
    <2>1. ASSUME NEW i \in DOMAIN s.extra
          PROVE  /\ es[i] \in Panes /\ es[i].id = s.extra[i].id /\ es[i].data = s.extra[i].data
                 /\ i \notin free => es[i] = s.extra[i]
      <3>1. s.extra[i] \in Panes
        BY <1>7
      <3>2. es[i] = IF i \in free THEN [s.extra[i] EXCEPT !.busy = TRUE] ELSE s.extra[i]
        BY <1>3
      <3>3. CASE i \in free
        <4>1. es[i] = [s.extra[i] EXCEPT !.busy = TRUE]
          BY <3>2, <3>3
        <4>2. QED
          BY <3>1, <3>3, <4>1 DEF Panes
      <3>4. CASE i \notin free
        BY <3>1, <3>2, <3>4
      <3>5. QED
        BY <3>3, <3>4
    <2>2. DOMAIN es = 1..Len(s.extra) /\ \A i \in 1..Len(s.extra) : es[i] \in Panes
      BY <1>3, <1>7, <2>1
    <2>3. es = [i \in 1..Len(s.extra) |-> es[i]]
      BY <1>3, <1>7
    <2>4. es \in [1..Len(s.extra) -> Panes]
      BY <2>2, <2>3
    <2>5. es \in Seq(Panes) /\ Len(es) = Len(s.extra)
      BY <1>7, <2>4
    <2>6. QED
      BY <1>7, <2>1, <2>2, <2>5
  <1>10. /\ ds \in SUBSET Calls
         /\ \A d \in ds : \E c \in s.calls : Overtaking(c, d, "extra", ids)
         /\ \A c \in s.calls : \E d \in ds : Overtaking(c, d, "extra", ids)
    BY <1>0, <1>4, SupersededCalls
  <1>11. ASSUME NEW n \in ns
         PROVE  /\ n \in Calls /\ n.kind = "extra" /\ n.latest /\ n.current /\ n.reply = "none"
                /\ \E i \in free : n = PaneCall(s, i) /\ n.pane = s.extra[i].id
    <2>1. PICK i \in free : n = PaneCall(s, i)
      BY <1>5
    <2>2. PICK o : o = Call(s, "extra", s.extra[i].room)
      OBVIOUS
    <2>3. s.extra[i].room \in Rooms \cup {None} /\ s.extra[i].id \in PaneIds
      BY <1>7, <1>8 DEF Panes
    <2>4. o \in Calls /\ o.kind = "extra" /\ o.latest /\ o.current /\ o.reply = "none"
      <3>1. "extra" \in Kinds
        BY DEF Kinds
      <3>2. QED
        BY <1>0, <2>2, <2>3, <3>1, CallTyped
    <2>5. n = [o EXCEPT !.pane = s.extra[i].id, !.at = i] /\ i \in 0..MaxExtra
      <3>1. i \in 1..Len(s.extra) /\ Len(s.extra) <= MaxExtra
        BY <1>7, <1>8 DEF PageSound, PanesKept
      <3>2. QED
        BY <1>7, <2>1, <2>2, <3>1, BoundsAssumption DEF PaneCall
    <2>6. n \in Calls /\ n.kind = "extra" /\ n.latest /\ n.current /\ n.reply = "none" /\ n.pane = s.extra[i].id
      BY <2>3, <2>4, <2>5 DEF Calls
    <2>7. QED
      BY <2>1, <2>6
  <1>12. \A i \in free : \E n \in ns : n.pane = s.extra[i].id /\ n.latest
    <2>1. ASSUME NEW i \in free
          PROVE  \E n \in ns : n.pane = s.extra[i].id /\ n.latest
      <3>1. PICK n \in ns : n = PaneCall(s, i)
        BY <1>5
      <3>2. n.latest
        BY <1>11
      <3>3. PICK o : o = Call(s, "extra", s.extra[i].room)
        OBVIOUS
      <3>4. n = [o EXCEPT !.pane = s.extra[i].id, !.at = i] /\ "pane" \in DOMAIN o
        BY <3>1, <3>3 DEF Call, PaneCall
      <3>5. n.pane = s.extra[i].id
        BY <3>4
      <3>6. QED
        BY <3>2, <3>5
    <2>2. QED
      BY <2>1
  <1>13. PICK cs \in SUBSET Calls : cs = ds \cup ns
    BY <1>10, <1>11
  <1>14. /\ t \in RoomPages /\ t.extra = es /\ t.calls = cs
         /\ t.user = s.user /\ t.selected = s.selected /\ t.data = s.data /\ t.nobodys = s.nobodys
         /\ t.polling = s.polling /\ t.rooms = s.rooms /\ t.pollBusy = s.pollBusy
    <2>1. t = [s EXCEPT !.extra = es, !.calls = cs]
      BY <1>6, <1>13
    <2>2. QED
      BY <1>0, <1>9, <2>1 DEF RoomPages
  <1>15. Shows(s, t)
    BY <1>9, <1>14 DEF Shows
  <1>16. \A c \in s.calls : CallKept(c, s.user, v.ver)
    BY DEF PageSound
  <1>17. ids \subseteq PaneIds /\ 0 \notin ids
    BY <1>2, <1>7, <1>8
  <1>18. Comes(s, t)
    <2>1. ASSUME NEW d \in ds
          PROVE  /\ d.kind = "room" => d.pane = 0
                 /\ d.pane # 0 => d.kind = "extra" /\ d.current
                 /\ \E c \in s.calls : From(c, d)
      <3>1. PICK c \in s.calls : Overtaking(c, d, "extra", ids)
        BY <1>10
      <3>2. QED
        BY <1>16, <3>1 DEF Overtaking, From, CallKept
    <2>2. ASSUME NEW d \in ns
          PROVE  d.kind = "extra" /\ d.current /\ Asks(d, t.user)
      BY <1>11 DEF Asks
    <2>3. QED
      BY <1>13, <1>14, <2>1, <2>2 DEF Comes
  <1>19. \A i, j \in DOMAIN s.extra : s.extra[i].id = s.extra[j].id => i = j
    BY DEF PageSound, PanesKept
  <1>20. LatestIsOne(t.calls)
    <2>1. ASSUME NEW d \in ds, d.latest, d.pane # 0 \/ d.kind = "room"
          PROVE  d \in s.calls /\ d.pane \notin ids
      <3>1. PICK c \in s.calls : Overtaking(c, d, "extra", ids)
        BY <1>10
      <3>2. CASE d.pane # 0
        <4>1. c.kind = "extra" /\ c.pane = d.pane
          BY <1>16, <3>1, <3>2 DEF Overtaking, From, CallKept
        <4>2. QED
          BY <2>1, <3>1, <4>1 DEF Overtaking
      <3>3. CASE d.kind = "room"
        <4>1. c.kind = "room" /\ c.pane = d.pane /\ c.pane = 0
          BY <1>16, <3>1, <3>3 DEF Overtaking, From, CallKept
        <4>2. QED
          BY <1>17, <3>1, <4>1 DEF Overtaking
      <3>4. QED
        BY <2>1, <3>2, <3>3
    <2>2. ASSUME NEW d \in ns
          PROVE  d.kind = "extra" /\ d.pane \in ids /\ d.pane # 0
      BY <1>2, <1>11, <1>17
    <2>3. ASSUME NEW d \in ns, NEW e \in ns, d.pane = e.pane
          PROVE  d = e
      <3>1. PICK i \in free : d = PaneCall(s, i) /\ d.pane = s.extra[i].id
        BY <1>11
      <3>2. PICK j \in free : e = PaneCall(s, j) /\ e.pane = s.extra[j].id
        BY <1>11
      <3>3. i = j
        BY <1>8, <1>19, <2>3, <3>1, <3>2
      <3>4. QED
        BY <3>1, <3>2, <3>3
    <2>4. LatestIsOne(s.calls)
      BY DEF PageSound
    <2>5. ASSUME NEW d \in cs, NEW e \in cs, d.latest, e.latest, d.pane = e.pane, (d.kind = "room" /\ e.kind = "room") \/ d.pane # 0
          PROVE  d = e
      <3>1. CASE d \in ds /\ e \in ds
        <4>1. d \in s.calls /\ e \in s.calls
          BY <2>1, <2>5, <3>1
        <4>2. QED
          BY <2>4, <2>5, <4>1 DEF LatestIsOne
      <3>2. CASE d \in ns /\ e \in ns
        BY <2>3, <2>5, <3>2
      <3>3. CASE d \in ds /\ e \in ns
        BY <2>1, <2>2, <2>5, <3>3
      <3>4. CASE d \in ns /\ e \in ds
        BY <2>1, <2>2, <2>5, <3>4
      <3>5. QED
        BY <1>13, <3>1, <3>2, <3>3, <3>4
    <2>6. QED
      BY <1>14, <2>5 DEF LatestIsOne
  <1>21. SessionKept(t, v.session)
    <2>1. ASSUME NEW d \in ds
          PROVE  \E c \in s.calls : c.kind = d.kind /\ c.pane = d.pane /\ (d.kind \in Entries => d = c)
      <3>1. PICK c \in s.calls : Overtaking(c, d, "extra", ids)
        BY <1>10
      <3>2. QED
        BY <3>1 DEF Overtaking, From, Entries
    <2>2. SessionKept(s, v.session)
      BY DEF PageSound
    <2>3. ASSUME NEW n \in ns
          PROVE  n.kind \notin Entries /\ s.user # None
      <3>1. n.kind = "extra" /\ free # {}
        BY <1>11
      <3>2. DOMAIN s.extra # {}
        BY <1>8, <3>1
      <3>3. QED
        BY <2>2, <3>1, <3>2 DEF SessionKept, Entries
    <2>4. /\ \A c \in cs : c.kind \in Entries => c \in s.calls
          /\ s.user # None => \A c \in cs : c.kind \notin Entries
          /\ s.user = None => \A c \in cs : c.pane = 0
      BY <1>13, <2>1, <2>2, <2>3 DEF SessionKept
    <2>5. QED
      BY <1>9, <1>14, <2>2, <2>4 DEF SessionKept
  <1>22. PageSound(t, v)
    <2>1. Len(t.extra) <= MaxExtra /\ \A i, j \in DOMAIN t.extra : t.extra[i].id = t.extra[j].id => i = j
      BY <1>9, <1>14, <1>19 DEF PageSound, PanesKept
    <2>2. SameUser(s, t) /\ (t.data # None => t.selected \in {s.selected, None})
      BY <1>14 DEF SameUser
    <2>3. QED
      BY <1>14, <1>15, <1>18, <1>20, <1>21, <2>1, <2>2, FollowingIsSound
  <1>23. ASSUME NEW c \in s.calls, c.pane \notin ids \/ c.kind # "extra"
         PROVE  c \in t.calls
    <2>1. PICK d \in ds : Overtaking(c, d, "extra", ids)
      BY <1>10
    <2>2. QED
      BY <1>13, <1>14, <1>23, <2>1 DEF Overtaking
  <1>24. RoomAwaits(t, t.calls) /\ (Polled(s, s.calls) => Polled(t, t.calls))
    BY <1>14, <1>23 DEF RoomAwaits, Polled
  <1>25. PanesAwait(t.extra, t.calls)
    <2>1. ASSUME NEW i \in DOMAIN es, es[i].busy
          PROVE  \E c \in t.calls : c.pane = es[i].id /\ c.latest
      <3>1. CASE i \in free
        <4>1. PICK n \in ns : n.pane = s.extra[i].id /\ n.latest
          BY <1>12, <3>1
        <4>2. QED
          BY <1>9, <1>13, <1>14, <2>1, <4>1
      <3>2. CASE i \notin free
        <4>1. s.extra[i].busy /\ i \in DOMAIN s.extra
          BY <1>9, <2>1, <3>2
        <4>2. PICK c \in s.calls : c.pane = s.extra[i].id /\ c.latest
          BY <4>1 DEF PanesAwait
        <4>3. s.extra[i].id \notin ids
          BY <1>2, <1>8, <1>19, <3>2, <4>1
        <4>4. QED
          BY <1>9, <1>23, <4>1, <4>2, <4>3
      <3>3. QED
        BY <3>1, <3>2
    <2>2. QED
      BY <1>14, <2>1 DEF PanesAwait
  <1>26. QED
    BY <1>14, <1>15, <1>22, <1>24, <1>25

-----------------------------------------------------------------------------
\* What holds between any two callbacks, but for the poll that selectRoom() starts.
Live(s, v) == PageSound(s, v) /\ RoomAwaits(s, s.calls) /\ PanesAwait(s.extra, s.calls)

\* A page whose calls stay shows what it showed, in other rooms or panes.
LEMMA RearrangedIsSound ==
    ASSUME NEW s, NEW v \in Servers, NEW t, PageSound(s, v), t \in RoomPages, Shows(s, t), t.calls = s.calls, t.user = s.user,
           t.data # None => t.selected \in {s.selected, None}, Len(t.extra) <= MaxExtra,
           \A i, j \in DOMAIN t.extra : t.extra[i].id = t.extra[j].id => i = j,
           s.user = None => t.rooms = {} /\ DOMAIN t.extra = {}
    PROVE  PageSound(t, v)
  <1>1. Comes(s, t)
    BY DEF Comes, From, PageSound, CallKept
  <1>2. SameUser(s, t)
    BY DEF SameUser
  <1>3. LatestIsOne(t.calls) /\ SessionKept(t, v.session)
    BY DEF PageSound, LatestIsOne, SessionKept
  <1>4. QED
    BY <1>1, <1>2, <1>3, FollowingIsSound

LEMMA StreamsTyped ==
    ASSUME NEW s \in RoomPages
    PROVE  /\ SyncProgressStreams(s) \in RoomPages
           /\ \E f \in Streams : SyncProgressStreams(s) = [s EXCEPT !.streams = f]
           /\ NoStreams \in Streams
  <1>1. PICK f : f = [r \in VisibleProgressRooms(s) |->
                        IF r \in DOMAIN s.streams /\ s.streams[r] = "wait" THEN "wait" ELSE "open"]
    OBVIOUS
  <1>2. VisibleProgressRooms(s) \in SUBSET Rooms
    BY DEF VisibleProgressRooms
  <1>3. f \in [VisibleProgressRooms(s) -> {"open", "wait", "due"}]
    BY <1>1
  <1>4. f \in Streams
    BY <1>2, <1>3 DEF Streams
  <1>5. SyncProgressStreams(s) = [s EXCEPT !.streams = f]
    BY <1>1 DEF SyncProgressStreams
  <1>6. [s EXCEPT !.streams = f] \in RoomPages
    BY <1>4 DEF RoomPages
  <1>7. NoStreams \in [{} -> {"open", "wait", "due"}]
    BY DEF NoStreams
  <1>8. QED
    BY <1>4, <1>5, <1>6, <1>7 DEF Streams

\* Opening and closing progress streams changes nothing else.
LEMMA SyncKeeps ==
    ASSUME NEW s, NEW v \in Servers, PageSound(s, v), NEW t, t = SyncProgressStreams(s)
    PROVE  /\ PageSound(t, v) /\ Shows(s, t)
           /\ t.user = s.user /\ t.rooms = s.rooms /\ t.archived = s.archived /\ t.selected = s.selected /\ t.data = s.data
           /\ t.nobodys = s.nobodys /\ t.pollBusy = s.pollBusy /\ t.polling = s.polling /\ t.extra = s.extra
           /\ t.calls = s.calls
  <1>1. s \in RoomPages
    BY DEF PageSound
  <1>2. PICK f \in Streams : t = [s EXCEPT !.streams = f]
    BY <1>1, StreamsTyped
  <1>3. /\ t \in RoomPages
        /\ t.user = s.user /\ t.rooms = s.rooms /\ t.archived = s.archived /\ t.selected = s.selected /\ t.data = s.data
        /\ t.nobodys = s.nobodys /\ t.pollBusy = s.pollBusy /\ t.polling = s.polling /\ t.extra = s.extra
        /\ t.calls = s.calls
    BY <1>1, <1>2 DEF RoomPages
  <1>4. Shows(s, t)
    BY <1>3 DEF Shows
  <1>5. /\ Len(s.extra) <= MaxExtra /\ \A i, j \in DOMAIN s.extra : s.extra[i].id = s.extra[j].id => i = j
        /\ s.user = None => s.rooms = {} /\ DOMAIN s.extra = {}
    BY DEF PageSound, PanesKept, SessionKept
  <1>6. QED
    BY <1>3, <1>4, <1>5, RearrangedIsSound

\* selectRoom()
LEMMA SelectRoomKeeps ==
    ASSUME NEW s, NEW v \in Servers, Live(s, v), NEW id \in Rooms, NEW t, t = SelectRoom(s, id)
    PROVE  PageKept(t, v) /\ Shows(s, t) /\ t.user = s.user
  <1>0. s \in RoomPages /\ PageSound(s, v)
    BY DEF Live, PageSound
  <1>1. PICK other : other = IF s.selected # id THEN s.selected ELSE None
    OBVIOUS
  <1>2. PICK es : es = [i \in DOMAIN s.extra |-> IF s.extra[i].room = id THEN [s.extra[i] EXCEPT !.room = other]
                                               ELSE s.extra[i]]
    OBVIOUS
  <1>3. PICK m : m = [s EXCEPT !.extra = es, !.selected = id, !.data = None]
    OBVIOUS
  <1>4. t = RefreshRoom(RefreshExtras(SyncProgressStreams(m)), TRUE, TRUE)
    BY <1>1, <1>2, <1>3, Zenon DEF SelectRoom
  <1>5. other \in Rooms \cup {None}
    BY <1>0, <1>1 DEF RoomPages
  <1>6. /\ DOMAIN s.extra = 1..Len(s.extra) /\ Len(s.extra) \in Nat
        /\ \A i \in DOMAIN s.extra : s.extra[i] \in Panes
    BY <1>0, PanesTyped
  <1>7. /\ DOMAIN es = DOMAIN s.extra /\ es \in Seq(Panes) /\ Len(es) = Len(s.extra)
        /\ \A i \in DOMAIN s.extra : es[i].id = s.extra[i].id /\ es[i].data = s.extra[i].data /\ es[i].busy = s.extra[i].busy
    <2>1. ASSUME NEW i \in DOMAIN s.extra
          PROVE  /\ es[i] \in Panes
                 /\ es[i].id = s.extra[i].id /\ es[i].data = s.extra[i].data /\ es[i].busy = s.extra[i].busy
      <3>1. s.extra[i] \in Panes
        BY <1>6
      <3>2. es[i] = IF s.extra[i].room = id THEN [s.extra[i] EXCEPT !.room = other] ELSE s.extra[i]
        BY <1>2
      <3>3. CASE s.extra[i].room = id
        <4>1. es[i] = [s.extra[i] EXCEPT !.room = other]
          BY <3>2, <3>3
        <4>2. QED
          BY <1>5, <3>1, <4>1 DEF Panes
      <3>4. CASE s.extra[i].room # id
        BY <3>1, <3>2, <3>4
      <3>5. QED
        BY <3>3, <3>4
    <2>2. DOMAIN es = 1..Len(s.extra) /\ \A i \in 1..Len(s.extra) : es[i] \in Panes
      BY <1>2, <1>6, <2>1
    <2>3. es = [i \in 1..Len(s.extra) |-> es[i]]
      BY <1>2, <1>6
    <2>4. es \in [1..Len(s.extra) -> Panes]
      BY <2>2, <2>3
    <2>5. es \in Seq(Panes) /\ Len(es) = Len(s.extra)
      BY <1>6, <2>4
    <2>6. QED
      BY <1>6, <2>1, <2>2, <2>5
  <1>8. /\ m \in RoomPages /\ m.extra = es /\ m.selected = id /\ m.data = None /\ m.nobodys = s.nobodys
        /\ m.user = s.user /\ m.rooms = s.rooms /\ m.calls = s.calls /\ m.pollBusy = s.pollBusy
    BY <1>0, <1>3, <1>7 DEF RoomPages
  <1>9. Shows(s, m)
    BY <1>7, <1>8 DEF Shows
  <1>10. Live(m, v)
    <2>1. /\ Len(es) <= MaxExtra /\ \A i, j \in DOMAIN es : es[i].id = es[j].id => i = j
          /\ s.user = None => s.rooms = {} /\ DOMAIN es = {}
      BY <1>0, <1>7 DEF PageSound, PanesKept, SessionKept
    <2>2. PageSound(m, v)
      BY <1>0, <1>8, <1>9, <2>1, RearrangedIsSound
    <2>3. RoomAwaits(m, m.calls) /\ PanesAwait(m.extra, m.calls)
      BY <1>7, <1>8 DEF Live, RoomAwaits, PanesAwait
    <2>4. QED
      BY <2>2, <2>3 DEF Live
  <1>11. PICK n : n = SyncProgressStreams(m)
    OBVIOUS
  <1>12. /\ PageSound(n, v) /\ RoomAwaits(n, n.calls) /\ PanesAwait(n.extra, n.calls)
         /\ Shows(m, n) /\ n.user = m.user
    <2>1. PageSound(m, v) /\ RoomAwaits(m, m.calls) /\ PanesAwait(m.extra, m.calls)
      BY <1>10 DEF Live
    <2>2. /\ PageSound(n, v) /\ Shows(m, n) /\ n.user = m.user /\ n.pollBusy = m.pollBusy /\ n.extra = m.extra
          /\ n.calls = m.calls
      BY <1>11, <2>1, SyncKeeps
    <2>3. QED
      BY <2>1, <2>2 DEF RoomAwaits, PanesAwait
  <1>13. PICK o : o = RefreshPanes(n, DOMAIN n.extra)
    OBVIOUS
  <1>14. /\ PageSound(o, v) /\ RoomAwaits(o, o.calls) /\ PanesAwait(o.extra, o.calls)
         /\ Shows(n, o) /\ o.user = n.user
    BY <1>12, <1>13, RefreshPanesKeeps
  <1>15. t = RefreshRoom(o, TRUE, TRUE)
    BY <1>4, <1>11, <1>13 DEF RefreshExtras
  <1>16. /\ PageSound(t, v) /\ RoomAwaits(t, t.calls) /\ PanesAwait(t.extra, t.calls) /\ Polled(t, t.calls)
         /\ Shows(o, t) /\ t.user = o.user
    BY ZenonT(30), SMTT(30), <1>14, <1>15, RefreshRoomKeeps
  <1>17. Shows(s, t)
    BY <1>9, <1>12, <1>14, <1>16, ShowsOn
  <1>18. QED
    BY <1>8, <1>12, <1>14, <1>16, <1>17 DEF PageKept

-----------------------------------------------------------------------------
\* What became of a call when all panes but ids were closed.
Leaving(c, d, ids) ==
    /\ From(c, d) /\ d.select = c.select /\ d.latest = c.latest /\ d.current = c.current
    /\ d.pane # 0 => d = c /\ d.pane \in ids
    /\ c.pane \in ids => d = c
    /\ c.pane \notin ids => d = [c EXCEPT !.pane = 0]

\* The calls of the panes that are gone have no pane.
LEMMA LeftBehind ==
    ASSUME NEW cs \in SUBSET Calls, NEW ids, NEW ds, ds = Detached(cs, ids)
    PROVE  /\ ds \in SUBSET Calls
           /\ \A d \in ds : \E c \in cs : Leaving(c, d, ids)
           /\ \A c \in cs : \E d \in ds : Leaving(c, d, ids)
  <1> DEFINE f(c) == IF c.pane \in ids THEN c ELSE [c EXCEPT !.pane = 0]
  <1>1. ds = {f(c) : c \in cs}
    BY DEF Detached
  <1>2. ASSUME NEW c \in cs
        PROVE  f(c) \in Calls /\ Leaving(c, f(c), ids)
    <2>1. c \in Calls
      OBVIOUS
    <2>2. CASE c.pane \in ids
      <3>1. f(c) = c
        BY <2>2
      <3>2. QED
        BY <2>1, <2>2, <3>1 DEF From, Leaving
    <2>3. CASE c.pane \notin ids
      <3>1. PICK e : e = [c EXCEPT !.pane = 0]
        OBVIOUS
      <3>2. f(c) = e
        BY <2>3, <3>1
      <3>3. e \in Calls /\ Leaving(c, e, ids)
        BY <2>1, <2>3, <3>1 DEF Calls, From, Leaving
      <3>4. QED
        BY <3>2, <3>3
    <2>4. QED
      BY <2>2, <2>3
  <1> HIDE DEF f
  <1>3. /\ ds \in SUBSET Calls
        /\ \A d \in ds : \E c \in cs : Leaving(c, d, ids)
        /\ \A c \in cs : \E d \in ds : Leaving(c, d, ids)
    BY <1>1, <1>2
  <1>4. QED
    BY <1>3

\* The page with other panes, and the calls of the panes ids.
OtherPanes(s, es, ids) == [s EXCEPT !.extra = es, !.calls = Detached(@, ids)]

\* Closing panes: t has other panes, which show nothing new, and their calls.
LEMMA OtherPanesAreSound ==
    ASSUME NEW s, NEW v \in Servers, PageSound(s, v), s.user # None, NEW es \in Seq(Panes), NEW ids, NEW t,
           t = OtherPanes(s, es, ids),
           Len(es) <= MaxExtra, \A i, j \in DOMAIN es : es[i].id = es[j].id => i = j,
           \A j \in DOMAIN es : es[j].data # None => \E i \in DOMAIN s.extra : s.extra[i].id = es[j].id /\ s.extra[i].data = es[j].data
    PROVE  /\ PageSound(t, v) /\ Shows(s, t) /\ t.extra = es /\ t.calls = Detached(s.calls, ids)
           /\ t.user = s.user /\ t.rooms = s.rooms /\ t.archived = s.archived /\ t.selected = s.selected
           /\ RoomAwaits(s, s.calls) => RoomAwaits(t, t.calls)
           /\ Polled(s, s.calls) => Polled(t, t.calls)
           /\ PanesAwait(es, s.calls) /\ (\A i \in DOMAIN es : es[i].id \in ids) => PanesAwait(t.extra, t.calls)
           /\ \A c \in t.calls : c.pane # 0 => c \in s.calls /\ c.pane \in ids
  <1>0. s \in RoomPages /\ s.calls \in SUBSET Calls
    BY DEF PageSound, RoomPages
  <1>1. PICK ds : ds = Detached(s.calls, ids)
    OBVIOUS
  <1>2. /\ ds \in SUBSET Calls
        /\ \A d \in ds : \E c \in s.calls : Leaving(c, d, ids)
        /\ \A c \in s.calls : \E d \in ds : Leaving(c, d, ids)
    BY <1>0, <1>1, LeftBehind
  <1>3. t = [s EXCEPT !.extra = es, !.calls = ds]
    BY <1>1 DEF OtherPanes
  <1>4. /\ t \in RoomPages /\ t.extra = es /\ t.calls = ds
        /\ t.user = s.user /\ t.rooms = s.rooms /\ t.archived = s.archived /\ t.selected = s.selected /\ t.data = s.data
        /\ t.nobodys = s.nobodys /\ t.pollBusy = s.pollBusy /\ t.polling = s.polling
    BY <1>0, <1>2, <1>3 DEF RoomPages
  <1>5. Shows(s, t)
    BY <1>4 DEF Shows
  <1>6. \A c \in s.calls : CallKept(c, s.user, v.ver)
    BY DEF PageSound
  <1>7. Comes(s, t)
    <2>1. ASSUME NEW d \in ds
          PROVE  /\ d.kind = "room" => d.pane = 0
                 /\ d.pane # 0 => d.kind = "extra" /\ d.current
                 /\ \E c \in s.calls : From(c, d)
      <3>1. PICK c \in s.calls : Leaving(c, d, ids)
        BY <1>2
      <3>2. QED
        BY <1>6, <3>1 DEF Leaving, From, CallKept
    <2>2. QED
      BY <1>4, <2>1 DEF Comes
  <1>8. LatestIsOne(t.calls)
    <2>1. ASSUME NEW d \in ds, NEW e \in ds, d.latest, e.latest, d.pane = e.pane,
                 (d.kind = "room" /\ e.kind = "room") \/ d.pane # 0
          PROVE  d = e
      <3>1. PICK c \in s.calls : Leaving(c, d, ids)
        BY <1>2
      <3>2. PICK b \in s.calls : Leaving(b, e, ids)
        BY <1>2
      <3>3. LatestIsOne(s.calls)
        BY DEF PageSound
      <3>4. CASE d.pane # 0
        BY <2>1, <3>1, <3>2, <3>3, <3>4 DEF LatestIsOne, Leaving
      <3>5. CASE d.kind = "room" /\ e.kind = "room"
        <4>1. c.kind = "room" /\ b.kind = "room" /\ c.pane = 0 /\ b.pane = 0 /\ c.latest /\ b.latest
          BY <1>6, <2>1, <3>1, <3>2, <3>5 DEF From, CallKept, Leaving
        <4>2. c = b
          BY <3>3, <4>1 DEF LatestIsOne
        <4>3. QED
          BY <3>1, <3>2, <4>2 DEF Leaving
      <3>6. QED
        BY <2>1, <3>4, <3>5
    <2>2. QED
      BY <1>4, <2>1 DEF LatestIsOne
  <1>9. SessionKept(t, v.session)
    <2>1. SessionKept(s, v.session)
      BY DEF PageSound
    <2>2. \A d \in ds : d.kind \notin Entries
      BY <1>2, <2>1 DEF SessionKept, From, Leaving
    <2>3. QED
      BY <1>4, <2>1, <2>2 DEF SessionKept
  <1>10. PageSound(t, v)
    <2>1. SameUser(s, t) /\ (t.data # None => t.selected \in {s.selected, None})
      BY <1>4 DEF SameUser
    <2>2. Len(t.extra) <= MaxExtra /\ \A i, j \in DOMAIN t.extra : t.extra[i].id = t.extra[j].id => i = j
      BY <1>4
    <2>3. t \in RoomPages
      BY <1>4
    <2>4. QED
      BY <1>5, <1>7, <1>8, <1>9, <2>1, <2>2, <2>3, FollowingIsSound
  <1>11. /\ RoomAwaits(s, s.calls) => RoomAwaits(t, t.calls)
         /\ Polled(s, s.calls) => Polled(t, t.calls)
    <2>1. \A c \in s.calls : \E d \in t.calls : d.kind = c.kind /\ d.latest = c.latest /\ d.select = c.select
      BY <1>2, <1>4 DEF Leaving, From
    <2>2. t.pollBusy = s.pollBusy /\ t.polling = s.polling /\ t.selected = s.selected
      BY <1>4
    <2>3. QED
      BY <2>1, <2>2 DEF RoomAwaits, Polled
  <1>12. ASSUME PanesAwait(es, s.calls), \A i \in DOMAIN es : es[i].id \in ids
         PROVE  PanesAwait(t.extra, t.calls)
    <2>1. ASSUME NEW i \in DOMAIN es, es[i].busy
          PROVE  \E c \in ds : c.pane = es[i].id /\ c.latest
      <3>1. PICK c \in s.calls : c.pane = es[i].id /\ c.latest
        BY <1>12, <2>1 DEF PanesAwait
      <3>2. c.pane \in ids
        BY <1>12, <3>1
      <3>3. QED
        BY <1>2, <3>1, <3>2 DEF Leaving
    <2>2. QED
      BY <1>4, <2>1 DEF PanesAwait
  <1>13. \A c \in t.calls : c.pane # 0 => c \in s.calls /\ c.pane \in ids
    BY <1>2, <1>4 DEF Leaving
  <1>14. QED
    BY <1>1, <1>4, <1>5, <1>10, <1>11, <1>12, <1>13

\* state.extra = panes
LEMMA WithPanesKeeps ==
    ASSUME NEW s, NEW v \in Servers, PageSound(s, v), RoomAwaits(s, s.calls), s.user # None,
           NEW es \in Seq(Panes), NEW t, t = WithPanes(s, es),
           Len(es) <= MaxExtra, \A i, j \in DOMAIN es : es[i].id = es[j].id => i = j,
           \A j \in DOMAIN es : es[j].data # None => \E i \in DOMAIN s.extra : s.extra[i].id = es[j].id /\ s.extra[i].data = es[j].data,
           PanesAwait(es, s.calls)
    PROVE  /\ Live(t, v) /\ Shows(s, t) /\ t.user = s.user /\ t.selected = s.selected
           /\ Polled(s, s.calls) => Polled(t, t.calls)
  <1>1. PICK ids : ids = {p.id : p \in Elems(es)}
    OBVIOUS
  <1>2. PICK m : m = OtherPanes(s, es, ids)
    OBVIOUS
  <1>3. t = SyncProgressStreams(m)
    BY <1>1, <1>2, Zenon DEF WithPanes, OtherPanes
  <1>4. \A i \in DOMAIN es : es[i].id \in ids
    BY <1>1 DEF Elems
  <1>6. /\ PageSound(m, v) /\ Shows(s, m) /\ m.extra = es
        /\ m.user = s.user /\ m.selected = s.selected
        /\ RoomAwaits(m, m.calls) /\ PanesAwait(m.extra, m.calls)
        /\ Polled(s, s.calls) => Polled(m, m.calls)
    BY <1>2, <1>4, OtherPanesAreSound
  <1>7. /\ PageSound(t, v) /\ Shows(m, t)
        /\ t.user = m.user /\ t.selected = m.selected /\ t.pollBusy = m.pollBusy /\ t.polling = m.polling
        /\ t.extra = m.extra /\ t.calls = m.calls
    BY <1>3, <1>6, SyncKeeps
  <1>8. QED
    BY <1>6, <1>7, ShowsOn DEF Live, RoomAwaits, PanesAwait, Polled

\* showEmpty()
LEMMA ShowEmptyKeeps ==
    ASSUME NEW s, NEW v \in Servers, Live(s, v), NEW t, t = ShowEmpty(s)
    PROVE  PageKept(t, v) /\ Shows(s, t) /\ t.user = s.user /\ t.extra = s.extra
  <1>0. s \in RoomPages /\ PageSound(s, v)
    BY DEF Live, PageSound
  <1>1. NoStreams \in Streams
    BY <1>0, StreamsTyped
  <1>2. t = [s EXCEPT !.selected = None, !.polling = FALSE, !.streams = NoStreams]
    BY <1>0 DEF ShowEmpty, StopPolling, RoomPages
  <1>3. /\ t \in RoomPages /\ t.selected = None /\ t.user = s.user /\ t.rooms = s.rooms /\ t.data = s.data
        /\ t.nobodys = s.nobodys /\ t.pollBusy = s.pollBusy /\ t.extra = s.extra /\ t.calls = s.calls
    <2>1. PICK f \in Streams : f = NoStreams
      BY <1>1
    <2>2. t = [s EXCEPT !.selected = None, !.polling = FALSE, !.streams = f]
      BY <1>2, <2>1
    <2>3. QED
      BY <1>0, <2>2 DEF RoomPages
  <1>4. Shows(s, t)
    BY <1>3 DEF Shows
  <1>5. /\ Len(s.extra) <= MaxExtra /\ \A i, j \in DOMAIN s.extra : s.extra[i].id = s.extra[j].id => i = j
        /\ s.user = None => s.rooms = {} /\ DOMAIN s.extra = {}
    BY <1>0 DEF PageSound, PanesKept, SessionKept
  <1>6. PageSound(t, v)
    BY <1>0, <1>3, <1>4, <1>5, RearrangedIsSound
  <1>7. RoomAwaits(t, t.calls) /\ PanesAwait(t.extra, t.calls) /\ Polled(t, t.calls)
    BY <1>3 DEF Live, RoomAwaits, PanesAwait, Polled
  <1>8. QED
    BY <1>3, <1>4, <1>6, <1>7 DEF PageKept

\* showAuth()
LEMMA ShowAuthKeeps ==
    ASSUME NEW s, NEW v \in Servers, PageSound(s, v), NEW t, t = ShowAuth(s)
    PROVE  PageKept(t, v) /\ Shows(s, t) /\ t.user = None /\ t.selected = None /\ DOMAIN t.extra = {}
  <1>0. s \in RoomPages /\ s.calls \in SUBSET Calls
    BY DEF PageSound, RoomPages
  <1>1. PICK ds : ds = Forgotten(s.calls)
    OBVIOUS
  <1>2. /\ ds \in SUBSET Calls
        /\ \A d \in ds : \E c \in s.calls : From(c, d) /\ d = [c EXCEPT !.current = FALSE, !.pane = 0, !.latest = (@ /\ c.kind # "room")]
        /\ \A d \in ds : d.pane = 0 /\ ~d.current /\ (d.kind = "room" => ~d.latest)
    <2> DEFINE f(c) == [c EXCEPT !.current = FALSE, !.pane = 0, !.latest = (@ /\ c.kind # "room")]
    <2>1. ds = {f(c) : c \in s.calls}
      BY <1>1 DEF Forgotten
    <2>2. ASSUME NEW c \in s.calls
          PROVE  f(c) \in Calls /\ From(c, f(c)) /\ f(c).pane = 0 /\ ~f(c).current /\ (f(c).kind = "room" => ~f(c).latest)
      <3>1. c \in Calls
        BY <1>0
      <3>2. PICK l \in BOOLEAN : l = (c.latest /\ c.kind # "room")
        OBVIOUS
      <3>3. f(c) = [c EXCEPT !.current = FALSE, !.pane = 0, !.latest = l]
        BY <3>1, <3>2 DEF Calls
      <3>4. PICK e : e = [c EXCEPT !.current = FALSE, !.pane = 0, !.latest = l]
        OBVIOUS
      <3>5. e \in Calls /\ From(c, e) /\ e.pane = 0 /\ ~e.current /\ (e.kind = "room" => ~e.latest)
        BY ZenonT(30), SMTT(30), <3>1, <3>2, <3>4 DEF Calls, From
      <3>6. QED
        BY <3>3, <3>4, <3>5
    <2> DEFINE Gone(c, d) == d \in Calls /\ From(c, d) /\ d.pane = 0 /\ ~d.current /\ (d.kind = "room" => ~d.latest)
    <2>3. \A c \in s.calls : Gone(c, f(c))
      BY <2>2
    <2>4. \A d \in ds : \E c \in s.calls : d = f(c) /\ Gone(c, d)
      <3> HIDE DEF f, Gone
      <3> QED
        BY <2>1, <2>3
    <2>5. QED
      BY <2>4
  <1>3. NoStreams \in Streams
    BY <1>0, StreamsTyped
  <1>4. t = [s EXCEPT !.polling = FALSE, !.streams = NoStreams, !.user = None, !.selected = None, !.data = None, !.rooms = {},
                      !.archived = {}, !.extra = <<>>, !.pollBusy = FALSE, !.calls = ds]
    BY <1>0, <1>1 DEF ShowAuth, StopPolling, RoomPages
  <1>5. /\ t \in RoomPages /\ t.selected = None /\ t.user = None /\ t.rooms = {} /\ t.data = None
        /\ t.nobodys = s.nobodys /\ ~t.pollBusy /\ t.extra = <<>> /\ t.calls = ds
    <2>1. PICK f \in Streams : f = NoStreams
      BY <1>3
    <2>2. <<>> \in Seq(Panes)
      OBVIOUS
    <2>3. PICK es \in Seq(Panes) : es = <<>>
      BY <2>2
    <2>4. t = [s EXCEPT !.polling = FALSE, !.streams = f, !.user = None, !.selected = None, !.data = None, !.rooms = {},
                      !.archived = {}, !.extra = es, !.pollBusy = FALSE, !.calls = ds]
      BY <1>4, <2>1, <2>3
    <2>5. PICK p : p = [s EXCEPT !.polling = FALSE, !.streams = f, !.user = None, !.selected = None, !.data = None]
      OBVIOUS
    <2>6. p \in RoomPages /\ p.user = None /\ p.selected = None /\ p.data = None /\ p.nobodys = s.nobodys
      BY <1>0, <2>5 DEF RoomPages
    <2>0. PICK rs \in SUBSET Rooms : rs = {}
      OBVIOUS
    <2>7. PICK q : q = [p EXCEPT !.rooms = rs, !.archived = rs, !.pollBusy = FALSE]
      OBVIOUS
    <2>8. /\ q \in RoomPages /\ q.user = None /\ q.selected = None /\ q.data = None /\ q.nobodys = s.nobodys
          /\ q.rooms = rs /\ ~q.pollBusy
      BY <2>6, <2>7 DEF RoomPages
    <2>10. t = [q EXCEPT !.extra = es, !.calls = ds]
      BY <1>0, <2>0, <2>4, <2>5, <2>7 DEF RoomPages
    <2>11. /\ t \in RoomPages /\ t.extra = es /\ t.calls = ds /\ t.user = q.user /\ t.selected = q.selected
           /\ t.data = q.data /\ t.nobodys = q.nobodys /\ t.rooms = q.rooms /\ t.pollBusy = q.pollBusy
      <3>1. ds \in SUBSET Calls
        BY <1>2
      <3>2. QED
        BY <3>1, <2>8, <2>10 DEF RoomPages
    <2>9. QED
      BY <2>0, <2>3, <2>8, <2>11
  <1>6. DOMAIN t.extra = {} /\ Len(t.extra) = 0
    BY <1>5
  <1>7. Shows(s, t)
    BY <1>5, <1>6 DEF Shows
  <1>8. Comes(s, t) /\ SameUser(s, t)
    BY <1>2, <1>5 DEF Comes, SameUser
  <1>9. LatestIsOne(t.calls)
    BY <1>2, <1>5 DEF LatestIsOne
  <1>10. SessionKept(t, v.session)
    <2>1. ASSUME NEW d \in ds, NEW e \in ds, d.kind \in Entries, e.kind \in Entries
          PROVE  d = e
      <3>1. PICK c \in s.calls : From(c, d) /\ d = [c EXCEPT !.current = FALSE, !.pane = 0, !.latest = (@ /\ c.kind # "room")]
        BY <1>2
      <3>2. PICK b \in s.calls : From(b, e) /\ e = [b EXCEPT !.current = FALSE, !.pane = 0, !.latest = (@ /\ b.kind # "room")]
        BY <1>2
      <3>3. c.kind \in Entries /\ b.kind \in Entries
        BY <2>1, <3>1, <3>2 DEF From
      <3>4. c = b
        BY <3>3 DEF PageSound, SessionKept
      <3>5. QED
        BY <3>1, <3>2, <3>4
    <2>2. QED
      BY <1>2, <1>5, <1>6, <2>1 DEF SessionKept
  <1>11. PageSound(t, v)
    <2>1. Len(t.extra) <= MaxExtra
      BY <1>6, BoundsAssumption
    <2>2. QED
      BY <1>5, <1>6, <1>7, <1>8, <1>9, <1>10, <2>1, FollowingIsSound
  <1>12. RoomAwaits(t, t.calls) /\ PanesAwait(t.extra, t.calls) /\ Polled(t, t.calls)
    BY <1>5, <1>6 DEF RoomAwaits, PanesAwait, Polled
  <1>13. QED
    BY <1>5, <1>6, <1>7, <1>11, <1>12 DEF PageKept

-----------------------------------------------------------------------------
\* A request that is not a refresh.
LEMMA RequestKeeps ==
    ASSUME NEW s, NEW v \in Servers, PageSound(s, v), NEW n \in Calls, n.kind \notin Snapshots, n.pane = 0, Asks(n, s.user),
           n.kind \in Entries => s.user = None /\ \A c \in s.calls : c.kind \notin Entries,
           NEW t, t = Request(s, n)
    PROVE  /\ PageSound(t, v) /\ Shows(s, t) /\ t.user = s.user /\ t.rooms = s.rooms /\ t.selected = s.selected
           /\ Live(s, v) => Live(t, v)
           /\ Polled(s, s.calls) => Polled(t, t.calls)
  <1>0. s \in RoomPages /\ s.calls \in SUBSET Calls
    BY DEF PageSound, RoomPages
  <1>1. PICK cs \in SUBSET Calls : cs = s.calls \cup {n}
    BY <1>0
  <1>2. t = [s EXCEPT !.calls = cs]
    BY <1>1 DEF Request
  <1>3. /\ t \in RoomPages /\ t.extra = s.extra /\ t.calls = cs
        /\ t.user = s.user /\ t.rooms = s.rooms /\ t.selected = s.selected /\ t.data = s.data
        /\ t.nobodys = s.nobodys /\ t.pollBusy = s.pollBusy /\ t.polling = s.polling
    BY <1>0, <1>2 DEF RoomPages
  <1>4. Shows(s, t)
    BY <1>3 DEF Shows
  <1>5. Comes(s, t)
    <2>1. ASSUME NEW d \in s.calls
          PROVE  /\ d.kind = "room" => d.pane = 0
                 /\ d.pane # 0 => d.kind = "extra" /\ d.current
                 /\ From(d, d)
      BY DEF PageSound, CallKept, From
    <2>2. QED
      BY <1>1, <1>3, <2>1 DEF Comes, Snapshots
  <1>6. LatestIsOne(t.calls)
    BY <1>1, <1>3 DEF PageSound, LatestIsOne, Snapshots
  <1>7. SessionKept(t, v.session)
    BY <1>1, <1>3 DEF PageSound, SessionKept
  <1>8. SameUser(s, t) /\ (t.data # None => t.selected \in {s.selected, None})
    BY <1>3 DEF SameUser
  <1>9. Len(t.extra) <= MaxExtra /\ \A i, j \in DOMAIN t.extra : t.extra[i].id = t.extra[j].id => i = j
    BY <1>3 DEF PageSound, PanesKept
  <1>10. PageSound(t, v)
    BY <1>3, <1>4, <1>5, <1>6, <1>7, <1>8, <1>9, FollowingIsSound
  <1>11. Live(s, v) => Live(t, v)
    BY <1>1, <1>3, <1>10 DEF Live, RoomAwaits, PanesAwait
  <1>12. Polled(s, s.calls) => Polled(t, t.calls)
    BY <1>1, <1>3 DEF Polled
  <1>13. QED
    BY <1>3, <1>4, <1>10, <1>11, <1>12

\* A request of the user that is logged in, or of nobody.
LEMMA CallAsks ==
    ASSUME NEW s \in RoomPages, NEW kind \in Kinds, NEW room \in Rooms \cup {None}, NEW c, c = Call(s, kind, room),
           kind = "rooms" => s.user # None, kind # "login", kind \in {"archive", "new"} => room \in Rooms
    PROVE  c \in Calls /\ c.kind = kind /\ c.pane = 0 /\ Asks(c, s.user)
  BY CallTyped DEF Asks

\* loadRooms()
LEMMA LoadRoomsKeeps ==
    ASSUME NEW s, NEW v \in Servers, PageKept(s, v), NEW r \in Rooms \cup {None}, NEW t, t = LoadRooms(s, r)
    PROVE  PageKept(t, v) /\ Shows(s, t) /\ t.user = s.user
  <1>0. s \in RoomPages /\ PageSound(s, v) /\ Live(s, v) /\ Polled(s, s.calls)
    BY DEF PageKept, Live, PageSound
  <1>1. CASE s.user # None
    <2>1. PICK n : n = Call(s, "rooms", r)
      OBVIOUS
    <2>2. n \in Calls /\ n.kind = "rooms" /\ n.pane = 0 /\ Asks(n, s.user)
      <3>1. "rooms" \in Kinds
        BY DEF Kinds
      <3>2. QED
        BY <1>0, <1>1, <2>1, <3>1, CallAsks
    <2>3. t = Request(s, n)
      BY <1>1, <2>1 DEF LoadRooms
    <2>4. n.kind \notin Snapshots /\ n.kind \notin Entries
      BY <2>2 DEF Snapshots, Entries
    <2>5. Live(t, v) /\ Shows(s, t) /\ t.user = s.user /\ Polled(t, t.calls)
      BY <1>0, <2>2, <2>3, <2>4, RequestKeeps
    <2>6. QED
      BY <2>5 DEF PageKept, Live
  <1>2. CASE s.user = None /\ r # None
    <2>1. t = SelectRoom(s, r) /\ r \in Rooms
      BY <1>2 DEF LoadRooms
    <2>2. QED
      BY <1>0, <2>1, SelectRoomKeeps
  <1>3. CASE s.user = None /\ r = None
    <2>1. t = s
      BY <1>3 DEF LoadRooms
    <2>2. QED
      BY <2>1 DEF Shows
  <1>4. QED
    BY <1>1, <1>2, <1>3

\* sidebarEpoch += 1
OfEarlierEpoch(c, d) ==
    /\ From(c, d) /\ d.pane = c.pane /\ ~d.current /\ d.latest = c.latest /\ d.select = c.select
    /\ d = [c EXCEPT !.current = FALSE]

LEMMA Overdue ==
    ASSUME NEW cs \in SUBSET Calls, NEW ds, ds = {[c EXCEPT !.current = FALSE] : c \in cs}
    PROVE  /\ ds \in SUBSET Calls
           /\ \A d \in ds : \E c \in cs : OfEarlierEpoch(c, d)
           /\ \A c \in cs : \E d \in ds : OfEarlierEpoch(c, d)
  <1> DEFINE f(c) == [c EXCEPT !.current = FALSE]
  <1>1. ds = {f(c) : c \in cs}
    OBVIOUS
  <1>2. ASSUME NEW c \in cs
        PROVE  f(c) \in Calls /\ OfEarlierEpoch(c, f(c))
    <2>1. PICK e : e = [c EXCEPT !.current = FALSE]
      OBVIOUS
    <2>2. c \in Calls
      OBVIOUS
    <2>3. e \in Calls /\ OfEarlierEpoch(c, e)
      BY <2>1, <2>2 DEF Calls, From, OfEarlierEpoch
    <2>4. QED
      BY <2>1, <2>3
  <1>3. \A d \in ds : \E c \in cs : d = f(c) /\ d \in Calls /\ OfEarlierEpoch(c, d)
    <2> HIDE DEF f
    <2> QED
      BY <1>1, <1>2
  <1>4. \A c \in cs : \E d \in ds : OfEarlierEpoch(c, d)
    <2> HIDE DEF f
    <2> QED
      BY <1>1, <1>2
  <1>5. QED
    BY <1>3, <1>4

\* enterWorkspace()
LEMMA EnterWorkspaceKeeps ==
    ASSUME NEW s, NEW v \in Servers, PageKept(s, v), NEW u \in Users, s.user = None, \A c \in s.calls : c.kind \notin Entries,
           v.session \in {None, u}, NEW t, t = EnterWorkspace(s, u)
    PROVE  PageKept(t, v) /\ Shows(s, t)
  <1>0. s \in RoomPages /\ PageSound(s, v) /\ s.calls \in SUBSET Calls
    BY DEF PageKept, PageSound, RoomPages
  <1>1. PICK ds : ds = {[c EXCEPT !.current = FALSE] : c \in s.calls}
    OBVIOUS
  <1>2. /\ ds \in SUBSET Calls
        /\ \A d \in ds : \E c \in s.calls : OfEarlierEpoch(c, d)
        /\ \A c \in s.calls : \E d \in ds : OfEarlierEpoch(c, d)
    BY ZenonT(30), SMTT(30), <1>0, <1>1, Overdue
  <1>3. PICK m : m = [s EXCEPT !.user = u, !.calls = ds]
    OBVIOUS
  <1>4. t = LoadRooms(m, None)
    BY <1>1, <1>3, Zenon DEF EnterWorkspace
  <1>5. /\ m \in RoomPages /\ m.extra = s.extra /\ m.calls = ds
        /\ m.user = u /\ m.rooms = s.rooms /\ m.selected = s.selected /\ m.data = s.data
        /\ m.nobodys = s.nobodys /\ m.pollBusy = s.pollBusy /\ m.polling = s.polling
    BY <1>0, <1>2, <1>3 DEF RoomPages
  <1>6. Shows(s, m)
    BY <1>5 DEF Shows
  <1>7. SessionKept(s, v.session) /\ LatestIsOne(s.calls) /\ \A c \in s.calls : CallKept(c, s.user, v.ver)
    BY <1>0 DEF PageSound
  <1>8. Comes(s, m)
    <2>1. ASSUME NEW d \in ds
          PROVE  d.pane = 0 /\ \E c \in s.calls : From(c, d)
      BY <1>2, <1>7 DEF SessionKept, OfEarlierEpoch
    <2>2. QED
      BY <1>5, <2>1 DEF Comes
  <1>9. LatestIsOne(m.calls)
    <2>1. ASSUME NEW d \in ds, NEW e \in ds, d.latest, e.latest, d.kind = "room", e.kind = "room"
          PROVE  d = e
      <3>1. PICK c \in s.calls : OfEarlierEpoch(c, d)
        BY <1>2
      <3>2. PICK b \in s.calls : OfEarlierEpoch(b, e)
        BY <1>2
      <3>3. c.latest /\ b.latest /\ c.kind = "room" /\ b.kind = "room" /\ c.pane = b.pane
        BY <1>7, <2>1, <3>1, <3>2 DEF From, SessionKept, OfEarlierEpoch
      <3>4. c = b
        BY <1>7, <3>3 DEF LatestIsOne
      <3>5. QED
        BY <3>1, <3>2, <3>4 DEF OfEarlierEpoch
    <2>2. \A d \in ds : d.pane = 0
      BY <1>2, <1>7 DEF SessionKept, OfEarlierEpoch
    <2>3. QED
      BY <1>5, <2>1, <2>2 DEF LatestIsOne
  <1>10. SessionKept(m, v.session)
    <2>1. \A d \in ds : d.kind \notin Entries
      BY <1>2 DEF From, OfEarlierEpoch
    <2>2. QED
      BY <1>5, <2>1, BoundsAssumption DEF SessionKept
  <1>11. PageSound(m, v)
    <2>1. SameUser(s, m) /\ (m.data # None => m.selected \in {s.selected, None})
      BY <1>5 DEF SameUser
    <2>2. Len(m.extra) <= MaxExtra /\ \A i, j \in DOMAIN m.extra : m.extra[i].id = m.extra[j].id => i = j
      BY <1>0, <1>5 DEF PageSound, PanesKept
    <2>3. QED
      BY <1>0, <1>5, <1>6, <1>8, <1>9, <1>10, <2>1, <2>2, FollowingIsSound
  <1>12. RoomAwaits(m, m.calls) /\ PanesAwait(m.extra, m.calls) /\ Polled(m, m.calls)
    <2>1. RoomAwaits(s, s.calls) /\ Polled(s, s.calls)
      BY DEF PageKept
    <2>2. \A c \in s.calls : \E d \in m.calls : d.kind = c.kind /\ d.latest = c.latest /\ d.select = c.select
      BY <1>2, <1>5 DEF From, OfEarlierEpoch
    <2>3. DOMAIN m.extra = {}
      BY <1>5, <1>7 DEF SessionKept
    <2>4. QED
      BY <1>5, <2>1, <2>2, <2>3 DEF RoomAwaits, PanesAwait, Polled
  <1>13. PageKept(m, v)
    BY <1>11, <1>12 DEF PageKept
  <1>14. PageKept(t, v) /\ Shows(m, t)
    BY <1>4, <1>13, LoadRoomsKeeps
  <1>15. QED
    BY <1>6, <1>14, ShowsOn

\* A call that has ended.
LEMMA EndedCallKeeps ==
    ASSUME NEW s, NEW v \in Servers, PageSound(s, v), NEW c \in s.calls, NEW t, t = [s EXCEPT !.calls = @ \ {c}]
    PROVE  /\ PageSound(t, v) /\ Shows(s, t) /\ t.calls = s.calls \ {c}
           /\ t.user = s.user /\ t.rooms = s.rooms /\ t.archived = s.archived /\ t.selected = s.selected /\ t.data = s.data
           /\ t.nobodys = s.nobodys /\ t.pollBusy = s.pollBusy /\ t.polling = s.polling /\ t.extra = s.extra
  <1>0. s \in RoomPages /\ s.calls \in SUBSET Calls
    BY DEF PageSound, RoomPages
  <1>1. PICK cs \in SUBSET Calls : cs = s.calls \ {c}
    BY <1>0
  <1>2. t = [s EXCEPT !.calls = cs]
    BY <1>1
  <1>3. /\ t \in RoomPages /\ t.calls = cs
        /\ t.user = s.user /\ t.rooms = s.rooms /\ t.archived = s.archived /\ t.selected = s.selected /\ t.data = s.data
        /\ t.nobodys = s.nobodys /\ t.pollBusy = s.pollBusy /\ t.polling = s.polling /\ t.extra = s.extra
    BY <1>0, <1>2 DEF RoomPages
  <1>4. Shows(s, t)
    BY <1>3 DEF Shows
  <1>5. \A d \in cs : d \in s.calls
    BY <1>1
  <1>6. PageSound(t, v)
    BY <1>3, <1>5 DEF PageSound, LatestIsOne, SessionKept, DataKept, PanesKept
  <1>7. QED
    BY <1>1, <1>3, <1>4, <1>6

\* The server answers a call, or it fails.
LEMMA AnsweredCallKeeps ==
    ASSUME NEW s, NEW v \in Servers, PageKept(s, v), NEW c \in s.calls, NEW d \in Calls,
           d.kind = c.kind /\ d.latest = c.latest /\ d.pane = c.pane /\ d.select = c.select,
           CallKept(d, s.user, v.ver),
           d.reply = "ok" => d.got.ver = v.ver[d.room],
           NEW t, t = [s EXCEPT !.calls = (@ \ {c}) \cup {d}]
    PROVE  PageKept(t, v) /\ Shows(s, t)
  <1>0. s \in RoomPages /\ s.calls \in SUBSET Calls /\ PageSound(s, v)
    BY DEF PageKept, PageSound, RoomPages
  <1>1. PICK cs \in SUBSET Calls : cs = (s.calls \ {c}) \cup {d}
    BY <1>0
  <1>2. t = [s EXCEPT !.calls = cs]
    BY <1>1
  <1>3. /\ t \in RoomPages /\ t.calls = cs
        /\ t.user = s.user /\ t.rooms = s.rooms /\ t.archived = s.archived /\ t.selected = s.selected /\ t.data = s.data
        /\ t.nobodys = s.nobodys /\ t.pollBusy = s.pollBusy /\ t.polling = s.polling /\ t.extra = s.extra
    BY <1>0, <1>2 DEF RoomPages
  <1>4. Shows(s, t)
    BY <1>3 DEF Shows
  <1>5. \A e \in t.calls : CallKept(e, t.user, v.ver)
    BY <1>0, <1>1, <1>3 DEF PageSound
  <1>6. LatestIsOne(t.calls)
    <2>1. LatestIsOne(s.calls)
      BY <1>0 DEF PageSound
    <2>2. QED
      BY <1>1, <1>3, <2>1 DEF LatestIsOne
  <1>7. SessionKept(t, v.session)
    <2>1. SessionKept(s, v.session)
      BY <1>0 DEF PageSound
    <2>2. QED
      BY <1>1, <1>3, <2>1 DEF SessionKept
  <1>8. DataKept(t, v.ver)
    <2>1. DataKept(s, v.ver)
      BY <1>0 DEF PageSound
    <2>2. d.kind = "room" => Upto(s.data, d)
      BY <2>1 DEF DataKept, Upto
    <2>3. QED
      BY <1>1, <1>3, <2>1, <2>2 DEF DataKept
  <1>9. PanesKept(t, v.ver)
    <2>1. PanesKept(s, v.ver)
      BY <1>0 DEF PageSound
    <2>2. \A i \in DOMAIN s.extra : Upto(s.extra[i].data, d)
      BY <2>1 DEF PanesKept, Upto
    <2>3. QED
      BY <1>1, <1>3, <2>1, <2>2 DEF PanesKept
  <1>10. \A e \in s.calls : \E f \in cs : f.kind = e.kind /\ f.latest = e.latest /\ f.pane = e.pane /\ f.select = e.select
    BY <1>1
  <1>11. RoomAwaits(t, t.calls) /\ PanesAwait(t.extra, t.calls) /\ Polled(t, t.calls)
    <2>1. RoomAwaits(s, s.calls) /\ PanesAwait(s.extra, s.calls) /\ Polled(s, s.calls)
      BY DEF PageKept
    <2>2. QED
      BY <1>3, <1>10, <2>1 DEF RoomAwaits, PanesAwait, Polled
  <1>12. QED
    BY <1>3, <1>4, <1>5, <1>6, <1>7, <1>8, <1>9, <1>11 DEF PageSound, PageKept

\* The rooms and the sessions of the server move on.
LEMMA ServerMovesOn ==
    ASSUME NEW s, NEW v \in Servers, PageSound(s, v), NEW w \in Servers, \A r \in Rooms : v.ver[r] <= w.ver[r],
           s.user # None => w.session \in {None, s.user}
    PROVE  PageSound(s, w)
  <1>0. s \in RoomPages /\ s.calls \in SUBSET Calls
    BY DEF PageSound, RoomPages
  <1>1. \A r \in Rooms : v.ver[r] \in Nat /\ w.ver[r] \in Nat
    BY BoundsAssumption DEF Servers
  <1>2. ASSUME NEW a \in Answers, a.ver <= v.ver[a.room]
        PROVE  a.ver <= w.ver[a.room]
    <2>1. a.room \in Rooms /\ a.ver \in Nat
      BY BoundsAssumption DEF Answers
    <2>2. QED
      BY <1>1, <1>2, <2>1
  <1>3. \A c \in s.calls : CallKept(c, s.user, w.ver)
    BY <1>2 DEF PageSound, CallKept
  <1>4. DataKept(s, w.ver)
    <2>1. s.data # None => s.data \in Answers
      BY <1>0 DEF RoomPages
    <2>2. QED
      BY <1>2, <2>1 DEF PageSound, DataKept
  <1>5. PanesKept(s, w.ver)
    <2>1. \A i \in DOMAIN s.extra : s.extra[i].data # None => s.extra[i].data \in Answers
      BY <1>0, PanesTyped DEF Panes
    <2>2. QED
      BY <1>2, <2>1 DEF PageSound, PanesKept
  <1>6. SessionKept(s, w.session)
    BY DEF PageSound, SessionKept
  <1>7. QED
    BY <1>3, <1>4, <1>5, <1>6 DEF PageSound

-----------------------------------------------------------------------------
\* filter() and splice() give some of the panes, each at one place.
LEMMA KeptPanes ==
    ASSUME NEW es \in Seq(Panes), NEW I \in SUBSET (DOMAIN es), NEW fs, fs = Kept(es, I)
    PROVE  /\ fs \in Seq(Panes) /\ Len(fs) <= Len(es)
           /\ \A k \in DOMAIN fs : \E i \in I : fs[k] = es[i]
           /\ (\A i, j \in DOMAIN es : es[i].id = es[j].id => i = j) => \A k, l \in DOMAIN fs : fs[k].id = fs[l].id => k = l
  <1>1. I \in SUBSET (1..Len(es)) /\ DOMAIN es = 1..Len(es)
    BY LenProperties
  <1>2. /\ fs \in Seq(Panes) /\ Len(fs) <= Len(es)
        /\ \E at \in [DOMAIN fs -> I] :
              /\ \A k \in DOMAIN fs : fs[k] = es[at[k]]
              /\ \A k, l \in DOMAIN fs : at[k] = at[l] => k = l
    <2>1. /\ Kept(es, I) \in Seq(Panes) /\ Len(Kept(es, I)) <= Len(es)
          /\ \E at \in [DOMAIN Kept(es, I) -> I] :
                /\ \A k \in DOMAIN Kept(es, I) : Kept(es, I)[k] = es[at[k]]
                /\ \A i \in I : \E k \in DOMAIN Kept(es, I) : at[k] = i
                /\ \A k, l \in DOMAIN Kept(es, I) : at[k] = at[l] => k = l
                /\ \A k, l \in DOMAIN Kept(es, I) : k < l => at[k] < at[l]
      BY <1>1, KeptGives, Zenon
    <2>2. QED
      BY <2>1
  <1>3. PICK at \in [DOMAIN fs -> I] :
              /\ \A k \in DOMAIN fs : fs[k] = es[at[k]]
              /\ \A k, l \in DOMAIN fs : at[k] = at[l] => k = l
    BY <1>2
  <1>4. \A k \in DOMAIN fs : at[k] \in I /\ at[k] \in DOMAIN es /\ fs[k] = es[at[k]]
    BY <1>1, <1>3
  <1>5. QED
    BY <1>2, <1>3, <1>4

\* There is an id that no pane has.
LEMMA FreshIdIsFresh ==
    ASSUME NEW s \in RoomPages, Len(s.extra) <= MaxExtra
    PROVE  FreshId(s) \in PaneIds /\ \A i \in DOMAIN s.extra : s.extra[i].id # FreshId(s)
  <1>1. DOMAIN s.extra = 1..Len(s.extra) /\ Len(s.extra) \in Nat
    BY PanesTyped
  <1> DEFINE used == {p.id : p \in Elems(s.extra)}
             f == [i \in DOMAIN s.extra |-> s.extra[i].id]
  <1>2. used = {f[i] : i \in DOMAIN s.extra}
    BY DEF Elems
  <1>3. IsFiniteSet(used) /\ Cardinality(used) <= Len(s.extra) /\ Cardinality(used) \in Nat
    <2>1. IsFiniteSet(1..Len(s.extra)) /\ Cardinality(1..Len(s.extra)) = Len(s.extra)
      BY <1>1, FS_Interval
    <2>2. f \in Surjection(DOMAIN s.extra, used)
      BY <1>2 DEF Surjection
    <2>3. QED
      BY <1>1, <2>1, <2>2, FS_Surjection, FS_CardinalityType
  <1>4. IsFiniteSet(PaneIds) /\ Cardinality(PaneIds) = MaxExtra + 1
    BY BoundsAssumption, FS_Interval DEF PaneIds
  <1>5. ~(PaneIds \subseteq used)
    <2>1. SUFFICES ASSUME PaneIds \subseteq used
                   PROVE  FALSE
      OBVIOUS
    <2>2. Cardinality(PaneIds) <= Cardinality(used)
      BY <1>3, <2>1, FS_Subset
    <2>3. QED
      BY <1>1, <1>3, <1>4, <2>2, BoundsAssumption
  <1>6. \E i \in PaneIds : i \notin used
    BY <1>5
  <1>7. FreshId(s) \in PaneIds /\ FreshId(s) \notin used
    <2> HIDE DEF used
    <2>1. FreshId(s) = CHOOSE i \in PaneIds : i \notin used
      BY DEF FreshId, used
    <2>2. QED
      BY <1>6, <2>1
  <1>8. QED
    BY <1>2, <1>7

-----------------------------------------------------------------------------
\* What a step does: the page stays sound, and shows nothing that was not asked for.
Moves(s, t, w) == w \in Servers /\ PageKept(t, w) /\ Shows(s, t)

BudgetOK(b) == b \in [clicks : Nat, panes : 0..MaxExtra]

LEMMA ClickTyped ==
    ASSUME BudgetOK(budget), Click
    PROVE  BudgetOK(budget')
  <1>1. PICK n \in Nat : n = budget.clicks - 1
    BY DEF Click, BudgetOK
  <1>2. budget' = [budget EXCEPT !.clicks = n]
    BY <1>1 DEF Click
  <1>3. QED
    BY <1>2 DEF BudgetOK

\* What the clicks on a page that is kept may rely on.
LEMMA PageFacts ==
    ASSUME NEW s, NEW v, PageKept(s, v)
    PROVE  /\ s \in RoomPages /\ PageSound(s, v) /\ Live(s, v) /\ Polled(s, s.calls)
           /\ RoomAwaits(s, s.calls) /\ PanesAwait(s.extra, s.calls)
           /\ s.calls \in SUBSET Calls /\ s.rooms \in SUBSET Rooms /\ s.archived \in SUBSET Rooms
           /\ s.extra \in Seq(Panes) /\ s.selected \in Rooms \cup {None} /\ s.user \in Users \cup {None}
           /\ Len(s.extra) <= MaxExtra /\ \A i, j \in DOMAIN s.extra : s.extra[i].id = s.extra[j].id => i = j
  <1>1. PageSound(s, v) /\ RoomAwaits(s, s.calls) /\ PanesAwait(s.extra, s.calls) /\ Polled(s, s.calls)
    BY DEF PageKept
  <1>2. s \in RoomPages
    BY <1>1 DEF PageSound
  <1>3. /\ s.calls \in SUBSET Calls /\ s.rooms \in SUBSET Rooms /\ s.archived \in SUBSET Rooms
        /\ s.extra \in Seq(Panes) /\ s.selected \in Rooms \cup {None} /\ s.user \in Users \cup {None}
    BY <1>2 DEF RoomPages
  <1>4. Len(s.extra) <= MaxExtra /\ \A i, j \in DOMAIN s.extra : s.extra[i].id = s.extra[j].id => i = j
    BY <1>1 DEF PageSound, PanesKept
  <1>5. QED
    BY <1>1, <1>2, <1>3, <1>4 DEF Live

\* loadSession(), authSubmit() and the logout button.
LEMMA SessionCallsKeep ==
    ASSUME srv \in Servers, PageKept(web, srv), LoadSession \/ Logout \/ \E u \in Users : AuthSubmit(u)
    PROVE  Moves(web, web', srv')
  <1>0. /\ web \in RoomPages /\ PageSound(web, srv) /\ Live(web, srv) /\ Polled(web, web.calls)
    BY PageFacts
  <1>1. PICK n \in Calls : /\ n.kind \notin Snapshots /\ n.pane = 0 /\ Asks(n, web.user) /\ web' = Request(web, n)
                           /\ n.kind \in Entries => web.user = None /\ \A c \in web.calls : c.kind \notin Entries
    <2>1. CASE LoadSession
      <3>1. PICK n : n = Call(web, "session", None)
        OBVIOUS
      <3>2. n \in Calls /\ n.kind = "session" /\ n.pane = 0 /\ Asks(n, web.user)
        <4>1. "session" \in Kinds
          BY DEF Kinds
        <4>2. QED
          BY <1>0, <3>1, <4>1, CallAsks
      <3>3. web' = Request(web, n) /\ web.user = None /\ \A c \in web.calls : c.kind \notin Entries
        BY <2>1, <3>1 DEF LoadSession, User, Entries
      <3>4. QED
        BY <3>2, <3>3 DEF Snapshots
    <2>2. CASE Logout
      <3>1. PICK n : n = Call(web, "logout", None)
        OBVIOUS
      <3>2. n \in Calls /\ n.kind = "logout" /\ n.pane = 0 /\ Asks(n, web.user)
        <4>1. "logout" \in Kinds
          BY DEF Kinds
        <4>2. QED
          BY <1>0, <3>1, <4>1, CallAsks
      <3>3. web' = Request(web, n)
        BY <2>2, <3>1 DEF Logout, User
      <3>4. QED
        BY <3>2, <3>3 DEF Snapshots, Entries
    <2>3. ASSUME NEW u \in Users, AuthSubmit(u)
          PROVE  \E n \in Calls : /\ n.kind \notin Snapshots /\ n.pane = 0 /\ Asks(n, web.user) /\ web' = Request(web, n)
                                  /\ n.kind \in Entries => web.user = None /\ \A c \in web.calls : c.kind \notin Entries
      <3>1. PICK o : o = Call(web, "login", None)
        OBVIOUS
      <3>2. o \in Calls /\ o.kind = "login" /\ o.pane = 0 /\ o.reply = "none"
        <4>1. "login" \in Kinds
          BY DEF Kinds
        <4>2. QED
          BY <1>0, <3>1, <4>1, CallTyped
      <3>3. PICK n : n = [o EXCEPT !.user = u]
        OBVIOUS
      <3>4. n \in Calls /\ n.kind = "login" /\ n.pane = 0 /\ n.reply = "none" /\ n.user = u
        BY <3>2, <3>3 DEF Calls
      <3>5. web' = Request(web, n) /\ web.user = None /\ \A c \in web.calls : c.kind \notin Entries
        BY <2>3, <3>1, <3>3 DEF AuthSubmit, User, Entries
      <3>6. QED
        BY <3>4, <3>5 DEF Snapshots, Asks
    <2>4. QED
      BY <2>1, <2>2, <2>3
  <1>2. srv' = srv
    BY DEF LoadSession, Logout, AuthSubmit, User
  <1>3. Live(web', srv) /\ Shows(web, web') /\ Polled(web', web'.calls)
    BY <1>0, <1>1, RequestKeeps
  <1>4. QED
    BY <1>2, <1>3 DEF Moves, Live, PageKept

\* updateRoomListPreference() and startNewSession().
LEMMA RoomCallsKeep ==
    ASSUME srv \in Servers, PageKept(web, srv), NEW r \in Rooms, Archive(r) \/ StartNewSession(r)
    PROVE  Moves(web, web', srv')
  <1>0. web \in RoomPages /\ PageSound(web, srv) /\ Live(web, srv) /\ Polled(web, web.calls)
    BY PageFacts
  <1>1. srv' = srv
    BY DEF Archive, StartNewSession, User
  <1>2. CASE Archive(r)
    <2>1. PICK n : n = Call(web, "archive", r)
      OBVIOUS
    <2>2. n \in Calls /\ n.kind = "archive" /\ n.pane = 0 /\ Asks(n, web.user)
      <3>1. "archive" \in Kinds
        BY DEF Kinds
      <3>2. QED
        BY <1>0, <2>1, <3>1, CallAsks
    <2>3. web' = Request(web, n) /\ n.kind \notin Snapshots /\ n.kind \notin Entries
      BY <1>2, <2>1, <2>2 DEF Archive, User, Snapshots, Entries
    <2>4. Live(web', srv) /\ Shows(web, web') /\ Polled(web', web'.calls)
      BY <1>0, <2>2, <2>3, RequestKeeps
    <2>5. QED
      BY <1>1, <2>4 DEF Moves, Live, PageKept
  <1>3. CASE StartNewSession(r)
    <2>1. PICK s : s = [web EXCEPT !.creating = TRUE]
      OBVIOUS
    <2>2. /\ s \in RoomPages /\ s.user = web.user /\ s.rooms = web.rooms /\ s.selected = web.selected /\ s.data = web.data
          /\ s.nobodys = web.nobodys /\ s.pollBusy = web.pollBusy /\ s.polling = web.polling /\ s.extra = web.extra
          /\ s.calls = web.calls
      BY <1>0, <2>1 DEF RoomPages
    <2>3. PageSound(s, srv) /\ Shows(web, s)
      <3>1. Shows(web, s)
        BY <2>2 DEF Shows
      <3>2. /\ Len(s.extra) <= MaxExtra /\ \A i, j \in DOMAIN s.extra : s.extra[i].id = s.extra[j].id => i = j
            /\ web.user = None => s.rooms = {} /\ DOMAIN s.extra = {}
        BY <1>0, <2>2 DEF PageSound, PanesKept, SessionKept
      <3>3. QED
        BY <1>0, <2>2, <3>1, <3>2, RearrangedIsSound
    <2>4. Live(s, srv) /\ Polled(s, s.calls)
      BY <1>0, <2>2, <2>3 DEF Live, RoomAwaits, PanesAwait, Polled
    <2>5. PICK n : n = Call(web, "new", r)
      OBVIOUS
    <2>6. n \in Calls /\ n.kind = "new" /\ n.pane = 0 /\ Asks(n, s.user)
      <3>1. "new" \in Kinds
        BY DEF Kinds
      <3>2. QED
        BY <1>0, <2>2, <2>5, <3>1, CallAsks
    <2>7. web' = Request(s, n) /\ n.kind \notin Snapshots /\ n.kind \notin Entries
      BY <1>3, <2>1, <2>5, <2>6 DEF StartNewSession, User, Snapshots, Entries
    <2>8. Live(web', srv) /\ Shows(s, web') /\ Polled(web', web'.calls)
      BY <2>3, <2>4, <2>6, <2>7, RequestKeeps
    <2>9. QED
      BY <1>1, <2>3, <2>8, ShowsOn DEF Moves, Live, PageKept
  <1>4. QED
    BY <1>2, <1>3

LEMMA ClickRoomKeeps ==
    ASSUME srv \in Servers, PageKept(web, srv), NEW r \in Rooms, ClickRoom(r)
    PROVE  Moves(web, web', srv')
  <1>1. web' = SelectRoom(web, r) /\ srv' = srv
    BY DEF ClickRoom, User
  <1>2. Live(web, srv)
    BY PageFacts
  <1>3. QED
    BY <1>1, <1>2, SelectRoomKeeps DEF Moves

LEMMA CloseSplitKeeps ==
    ASSUME srv \in Servers, PageKept(web, srv), CloseSplit
    PROVE  Moves(web, web', srv')
  <1>1. web' = WithPanes(web, <<>>) /\ srv' = srv /\ web.user # None
    BY DEF CloseSplit, User
  <1>2. PageSound(web, srv) /\ RoomAwaits(web, web.calls) /\ Polled(web, web.calls)
    BY PageFacts
  <1>3. PICK es \in Seq(Panes) : es = <<>>
    <2>1. <<>> \in Seq(Panes)
      OBVIOUS
    <2>2. QED
      BY <2>1
  <1>4. DOMAIN es = {} /\ Len(es) <= MaxExtra
    BY <1>3, BoundsAssumption
  <1>5. PanesAwait(es, web.calls)
    BY <1>4 DEF PanesAwait
  <1>6. web' = WithPanes(web, es)
    BY <1>1, <1>3
  <1>7. Live(web', srv) /\ Shows(web, web') /\ Polled(web', web'.calls)
    BY <1>1, <1>2, <1>4, <1>5, <1>6, WithPanesKeeps
  <1>8. QED
    BY <1>1, <1>7 DEF Moves, Live, PageKept

\* renderExtraPanes() and refreshExtra(), after the panes were changed.
LEMMA NewPanesKeep ==
    ASSUME NEW s, NEW v \in Servers, PageSound(s, v), RoomAwaits(s, s.calls), Polled(s, s.calls), s.user # None,
           NEW es \in Seq(Panes), Len(es) <= MaxExtra, \A i, j \in DOMAIN es : es[i].id = es[j].id => i = j,
           \A j \in DOMAIN es : es[j].data # None => \E i \in DOMAIN s.extra : s.extra[i].id = es[j].id /\ s.extra[i].data = es[j].data,
           PanesAwait(es, s.calls),
           NEW is, NEW t, t = RefreshPanes(WithPanes(s, es), is) \/ t = RefreshExtras(WithPanes(s, es))
    PROVE  PageKept(t, v) /\ Shows(s, t)
  <1>1. PICK m : m = WithPanes(s, es)
    OBVIOUS
  <1>2. Live(m, v) /\ Shows(s, m) /\ Polled(m, m.calls)
    BY <1>1, WithPanesKeeps
  <1>3. PICK js : t = RefreshPanes(m, js)
    BY <1>1 DEF RefreshExtras
  <1>4. PageSound(m, v) /\ RoomAwaits(m, m.calls) /\ PanesAwait(m.extra, m.calls)
    BY <1>2 DEF Live
  <1>5. PageSound(t, v) /\ RoomAwaits(t, t.calls) /\ PanesAwait(t.extra, t.calls) /\ Polled(t, t.calls) /\ Shows(m, t)
    BY <1>2, <1>3, <1>4, RefreshPanesKeeps
  <1>6. QED
    BY <1>2, <1>5, ShowsOn DEF PageKept

LEMMA SetLayoutKeeps ==
    ASSUME srv \in Servers, PageKept(web, srv), BudgetOK(budget), NEW n \in 1..MaxExtra, SetLayout(n)
    PROVE  Moves(web, web', srv')
  <1>0. /\ web \in RoomPages /\ PageSound(web, srv) /\ RoomAwaits(web, web.calls) /\ Polled(web, web.calls)
        /\ web.rooms \in SUBSET Rooms /\ web.extra \in Seq(Panes)
        /\ Len(web.extra) <= MaxExtra /\ \A i, j \in DOMAIN web.extra : web.extra[i].id = web.extra[j].id => i = j
    BY PageFacts
  <1>1. srv' = srv /\ web.user # None
    BY DEF SetLayout, User
  <1>2. PICK q \in [1..n -> web.rooms \cup {None}] :
            web' = RefreshExtras(WithPanes([web EXCEPT !.calls = Detached(@, {})],
                                           [i \in 1..n |-> [NewPane(web, q[i]) EXCEPT !.id = i]]))
    BY Zenon DEF SetLayout, User
  <1>3. PICK m : m = OtherPanes(web, web.extra, {})
    OBVIOUS
  <1>4. m = [web EXCEPT !.calls = Detached(@, {})]
    BY <1>0, <1>3 DEF OtherPanes, RoomPages
  <1>5. PICK es : es = [i \in 1..n |-> [NewPane(web, q[i]) EXCEPT !.id = i]]
    OBVIOUS
  <1>6. web' = RefreshExtras(WithPanes(m, es))
    BY <1>2, <1>4, <1>5
  <1>7. \A j \in DOMAIN web.extra : web.extra[j].data # None =>
            \E i \in DOMAIN web.extra : web.extra[i].id = web.extra[j].id /\ web.extra[i].data = web.extra[j].data
    OBVIOUS
  <1>8. PageSound(m, srv) /\ Shows(web, m) /\ m.user # None /\ RoomAwaits(m, m.calls) /\ Polled(m, m.calls)
    BY <1>0, <1>1, <1>3, <1>7, OtherPanesAreSound
  <1>9. n \in Nat /\ n <= MaxExtra
    BY BoundsAssumption
  <1>10. \A i \in 1..n : es[i] = [id |-> i, room |-> q[i], data |-> None, busy |-> FALSE]
    BY <1>5 DEF NewPane
  <1>11. \A i \in 1..n : es[i] \in Panes
    <2>1. ASSUME NEW i \in 1..n
          PROVE  es[i] \in Panes
      <3>1. i \in PaneIds /\ q[i] \in Rooms \cup {None}
        BY <1>0, <1>9, BoundsAssumption DEF PaneIds
      <3>2. PICK k \in PaneIds : k = i
        BY <3>1
      <3>3. PICK room \in Rooms \cup {None} : room = q[i]
        BY <3>1
      <3>4. es[i] = [id |-> k, room |-> room, data |-> None, busy |-> FALSE]
        BY <1>10, <3>2, <3>3
      <3>5. QED
        BY <3>4 DEF Panes
    <2>2. QED
      BY <2>1
  <1>12. es \in [1..n -> Panes]
    <2>1. es = [i \in 1..n |-> es[i]]
      BY <1>5
    <2>2. QED
      BY <1>11, <2>1
  <1>13. es \in Seq(Panes) /\ Len(es) = n /\ DOMAIN es = 1..n
    BY <1>9, <1>12
  <1>14. /\ \A i, j \in DOMAIN es : es[i].id = es[j].id => i = j
         /\ \A j \in DOMAIN es : es[j].data = None /\ ~es[j].busy
    BY <1>10, <1>13
  <1>15. PanesAwait(es, m.calls)
    BY <1>14 DEF PanesAwait
  <1>16. PageKept(web', srv) /\ Shows(m, web')
    BY <1>6, <1>8, <1>9, <1>13, <1>14, <1>15, NewPanesKeep
  <1>17. QED
    BY <1>1, <1>8, <1>16, ShowsOn DEF Moves

LEMMA PlaceDockKeeps ==
    ASSUME srv \in Servers, PageKept(web, srv), BudgetOK(budget), NEW r \in Rooms, PlaceDock(r)
    PROVE  Moves(web, web', srv')
  <1>0. /\ web \in RoomPages /\ PageSound(web, srv) /\ RoomAwaits(web, web.calls) /\ Polled(web, web.calls)
        /\ PanesAwait(web.extra, web.calls) /\ web.extra \in Seq(Panes)
        /\ Len(web.extra) <= MaxExtra /\ \A i, j \in DOMAIN web.extra : web.extra[i].id = web.extra[j].id => i = j
    BY PageFacts
  <1>1. srv' = srv /\ web.user # None /\ Len(web.extra) < budget.panes
    BY DEF PlaceDock, User
  <1>2. PICK p : p = NewPane(web, r)
    OBVIOUS
  <1>3. FreshId(web) \in PaneIds /\ \A i \in DOMAIN web.extra : web.extra[i].id # FreshId(web)
    BY <1>0, FreshIdIsFresh
  <1>4. p \in Panes /\ p.data = None /\ ~p.busy /\ \A i \in DOMAIN web.extra : web.extra[i].id # p.id
    BY <1>2, <1>3 DEF NewPane, Panes
  <1>5. PICK es : es = Append(web.extra, p)
    OBVIOUS
  <1>6. web' = RefreshExtras(WithPanes(web, es))
    BY <1>2, <1>5, Zenon DEF PlaceDock, User
  <1>7. Len(web.extra) \in Nat /\ DOMAIN web.extra = 1..Len(web.extra)
    BY <1>0, PanesTyped
  <1>8. /\ es \in Seq(Panes) /\ Len(es) = Len(web.extra) + 1 /\ DOMAIN es = 1..(Len(web.extra) + 1)
        /\ \A i \in DOMAIN web.extra : es[i] = web.extra[i]
        /\ es[Len(web.extra) + 1] = p
    BY <1>0, <1>4, <1>5, <1>7, AppendProperties
  <1>9. Len(es) <= MaxExtra
    <2>1. budget.panes \in Nat /\ budget.panes <= MaxExtra
      BY BoundsAssumption DEF BudgetOK
    <2>2. PICK l \in Nat : l = Len(web.extra)
      BY <1>7
    <2>3. l < budget.panes /\ Len(es) = l + 1
      BY <1>1, <1>8, <2>2
    <2>4. QED
      BY <2>1, <2>3, BoundsAssumption
  <1>10. \A j \in DOMAIN es : \/ j \in DOMAIN web.extra /\ es[j] = web.extra[j]
                              \/ j = Len(web.extra) + 1 /\ es[j] = p
    <2>1. PICK l \in Nat : l = Len(web.extra)
      BY <1>7
    <2>2. DOMAIN web.extra = 1..l /\ DOMAIN es = 1..(l + 1) /\ es[l + 1] = p
      BY <1>7, <1>8, <2>1
    <2>3. \A j \in 1..(l + 1) : j \in 1..l \/ j = l + 1
      OBVIOUS
    <2>4. QED
      BY <1>8, <2>1, <2>2, <2>3
  <1>11. \A i, j \in DOMAIN es : es[i].id = es[j].id => i = j
    BY <1>0, <1>4, <1>10
  <1>12. \A j \in DOMAIN es : es[j].data # None =>
             \E i \in DOMAIN web.extra : web.extra[i].id = es[j].id /\ web.extra[i].data = es[j].data
    BY <1>4, <1>10
  <1>13. PanesAwait(es, web.calls)
    BY <1>0, <1>4, <1>10 DEF PanesAwait
  <1>14. PageKept(web', srv) /\ Shows(web, web')
    BY <1>0, <1>1, <1>6, <1>8, <1>9, <1>11, <1>12, <1>13, NewPanesKeep
  <1>15. QED
    BY <1>1, <1>14 DEF Moves

LEMMA AssignExtraKeeps ==
    ASSUME srv \in Servers, PageKept(web, srv), NEW i \in 0..MaxExtra, NEW r \in Rooms, AssignExtra(i, r)
    PROVE  Moves(web, web', srv')
  <1>0. /\ web \in RoomPages /\ PageSound(web, srv) /\ RoomAwaits(web, web.calls) /\ Polled(web, web.calls)
        /\ PanesAwait(web.extra, web.calls) /\ web.extra \in Seq(Panes)
        /\ Len(web.extra) <= MaxExtra /\ \A j, k \in DOMAIN web.extra : web.extra[j].id = web.extra[k].id => j = k
    BY PageFacts
  <1>1. srv' = srv /\ web.user # None /\ i \in DOMAIN web.extra
    BY DEF AssignExtra, User
  <1>2. PICK es : es = [j \in DOMAIN web.extra |->
                        IF j = i THEN [web.extra[j] EXCEPT !.room = r, !.data = None, !.busy = FALSE]
                        ELSE IF web.extra[j].room = r THEN [web.extra[j] EXCEPT !.room = web.extra[i].room]
                        ELSE web.extra[j]]
    OBVIOUS
  <1>3. web' = RefreshPanes(WithPanes(web, es), {i})
    BY <1>2, Zenon DEF AssignExtra, User
  <1>4. /\ Len(web.extra) \in Nat /\ DOMAIN web.extra = 1..Len(web.extra)
        /\ \A j \in DOMAIN web.extra : web.extra[j] \in Panes
    BY <1>0, PanesTyped
  <1>5. ASSUME NEW j \in DOMAIN web.extra
        PROVE  /\ es[j] \in Panes /\ es[j].id = web.extra[j].id
               /\ es[j].data \in {web.extra[j].data, None} /\ (es[j].busy => web.extra[j].busy)
    <2>1. web.extra[j] \in Panes /\ web.extra[i].room \in Rooms \cup {None}
      BY <1>1, <1>4 DEF Panes
    <2>2. CASE j = i
      <3>1. es[j] = [web.extra[j] EXCEPT !.room = r, !.data = None, !.busy = FALSE]
        BY <1>2, <2>2
      <3>2. QED
        BY <2>1, <3>1 DEF Panes
    <2>3. CASE j # i /\ web.extra[j].room = r
      <3>1. PICK room \in Rooms \cup {None} : room = web.extra[i].room
        BY <2>1
      <3>2. es[j] = [web.extra[j] EXCEPT !.room = room]
        BY <1>2, <2>3, <3>1
      <3>3. QED
        BY <2>1, <3>2 DEF Panes
    <2>4. CASE j # i /\ web.extra[j].room # r
      <3>1. es[j] = web.extra[j]
        BY <1>2, <2>4
      <3>2. QED
        BY <2>1, <3>1
    <2>5. QED
      BY <2>2, <2>3, <2>4
  <1>6. es \in [1..Len(web.extra) -> Panes]
    <2>1. es = [j \in 1..Len(web.extra) |-> es[j]]
      BY <1>2, <1>4
    <2>2. QED
      BY <1>4, <1>5, <2>1
  <1>7. es \in Seq(Panes) /\ Len(es) = Len(web.extra) /\ DOMAIN es = DOMAIN web.extra
    BY <1>4, <1>6
  <1>8. \A j, k \in DOMAIN es : es[j].id = es[k].id => j = k
    BY <1>0, <1>5, <1>7
  <1>9. \A j \in DOMAIN es : es[j].data # None =>
            \E k \in DOMAIN web.extra : web.extra[k].id = es[j].id /\ web.extra[k].data = es[j].data
    BY <1>5, <1>7
  <1>10. PanesAwait(es, web.calls)
    BY <1>0, <1>5, <1>7 DEF PanesAwait
  <1>11. Len(es) <= MaxExtra
    BY <1>0, <1>7
  <1>12. PageKept(web', srv) /\ Shows(web, web')
    BY <1>0, <1>1, <1>3, <1>7, <1>8, <1>9, <1>10, <1>11, NewPanesKeep
  <1>13. QED
    BY <1>1, <1>12 DEF Moves

\* The panes that stay.
LEMMA KeptPanesKeep ==
    ASSUME NEW s, NEW v \in Servers, Live(s, v), s.user # None, NEW I \in SUBSET (DOMAIN s.extra),
           NEW t, t = WithPanes(s, Kept(s.extra, I))
    PROVE  /\ Live(t, v) /\ Shows(s, t) /\ t.user = s.user
           /\ Polled(s, s.calls) => Polled(t, t.calls)
  <1>1. /\ s.extra \in Seq(Panes) /\ Len(s.extra) <= MaxExtra /\ Len(s.extra) \in Nat
        /\ \A i, j \in DOMAIN s.extra : s.extra[i].id = s.extra[j].id => i = j
    BY LenProperties DEF Live, PageSound, PanesKept, RoomPages
  <1>2. PICK fs : fs = Kept(s.extra, I)
    OBVIOUS
  <1>3. /\ fs \in Seq(Panes) /\ Len(fs) <= Len(s.extra)
        /\ \A k \in DOMAIN fs : \E i \in I : fs[k] = s.extra[i]
        /\ \A k, l \in DOMAIN fs : fs[k].id = fs[l].id => k = l
    BY <1>1, <1>2, KeptPanes
  <1>4. Len(fs) <= MaxExtra
    BY <1>1, <1>3, LenProperties, BoundsAssumption
  <1>5. PageSound(s, v) /\ RoomAwaits(s, s.calls) /\ PanesAwait(s.extra, s.calls)
    BY DEF Live
  <1>6. PanesAwait(fs, s.calls)
    BY <1>3, <1>5 DEF PanesAwait
  <1>7. \A j \in DOMAIN fs : fs[j].data # None =>
            \E i \in DOMAIN s.extra : s.extra[i].id = fs[j].id /\ s.extra[i].data = fs[j].data
    BY <1>3
  <1>8. t = WithPanes(s, fs)
    BY <1>2
  <1>9. QED
    BY <1>3, <1>4, <1>5, <1>6, <1>7, <1>8, WithPanesKeeps

LEMMA CloseDockPaneKeeps ==
    ASSUME srv \in Servers, PageKept(web, srv), NEW i \in 0..MaxExtra, CloseDockPane(i)
    PROVE  Moves(web, web', srv')
  <1>0. web \in RoomPages /\ Live(web, srv) /\ Polled(web, web.calls)
    BY PageFacts
  <1>1. srv' = srv /\ web.user # None /\ web.extra # <<>>
    BY DEF CloseDockPane, User
  <1>2. PICK I \in SUBSET (DOMAIN web.extra) : I = DOMAIN web.extra \ {IF i = 0 THEN 1 ELSE i}
    OBVIOUS
  <1>3. PICK m : m = WithPanes(web, Kept(web.extra, I))
    OBVIOUS
  <1>4. web' = IF i = 0 /\ web.extra[1].room # None THEN SelectRoom(m, web.extra[1].room) ELSE m
    BY <1>2, <1>3, Zenon DEF CloseDockPane, User
  <1>5. Live(m, srv) /\ Shows(web, m) /\ Polled(m, m.calls)
    BY <1>0, <1>1, <1>3, KeptPanesKeep
  <1>6. CASE i = 0 /\ web.extra[1].room # None
    <2>1. web.extra[1].room \in Rooms
      <3>1. 1 \in DOMAIN web.extra
        BY <1>0, <1>1, EmptySeq DEF RoomPages
      <3>2. web.extra[1] \in Panes
        BY <1>0, <3>1, PanesTyped
      <3>3. QED
        BY <1>6, <3>2 DEF Panes
    <2>2. PICK room \in Rooms : room = web.extra[1].room
      BY <2>1
    <2>3. web' = SelectRoom(m, room)
      BY <1>4, <1>6, <2>2
    <2>4. PageKept(web', srv) /\ Shows(m, web')
      BY <1>5, <2>3, SelectRoomKeeps
    <2>5. QED
      BY <1>1, <1>5, <2>4, ShowsOn DEF Moves
  <1>7. CASE ~(i = 0 /\ web.extra[1].room # None)
    <2>1. web' = m
      BY <1>4, <1>7
    <2>2. QED
      BY <1>1, <1>5, <2>1 DEF Moves, Live, PageKept
  <1>8. QED
    BY <1>6, <1>7

-----------------------------------------------------------------------------
\* An event of a progress stream.
LEMMA StreamKeeps ==
    ASSUME NEW s, NEW v \in Servers, PageKept(s, v), NEW r, r \in DOMAIN s.streams, NEW x \in {"open", "wait", "due"},
           NEW t, t = [s EXCEPT !.streams[r] = x]
    PROVE  PageKept(t, v) /\ Shows(s, t)
  <1>0. s \in RoomPages /\ PageSound(s, v) /\ RoomAwaits(s, s.calls) /\ PanesAwait(s.extra, s.calls) /\ Polled(s, s.calls)
    BY PageFacts
  <1>1. s.streams \in Streams
    BY <1>0 DEF RoomPages
  <1>2. PICK D \in SUBSET Rooms : s.streams \in [D -> {"open", "wait", "due"}]
    BY <1>1 DEF Streams
  <1>3. PICK f : f = [s.streams EXCEPT ![r] = x]
    OBVIOUS
  <1>4. f \in [D -> {"open", "wait", "due"}]
    BY <1>2, <1>3
  <1>5. f \in Streams
    BY <1>4 DEF Streams
  <1>6. t = [s EXCEPT !.streams = f]
    BY <1>3
  <1>7. /\ t \in RoomPages
        /\ t.user = s.user /\ t.rooms = s.rooms /\ t.archived = s.archived /\ t.selected = s.selected /\ t.data = s.data
        /\ t.nobodys = s.nobodys /\ t.pollBusy = s.pollBusy /\ t.polling = s.polling /\ t.extra = s.extra
        /\ t.calls = s.calls
    BY <1>0, <1>5, <1>6 DEF RoomPages
  <1>8. Shows(s, t)
    BY <1>7 DEF Shows
  <1>9. /\ Len(s.extra) <= MaxExtra /\ \A i, j \in DOMAIN s.extra : s.extra[i].id = s.extra[j].id => i = j
        /\ s.user = None => s.rooms = {} /\ DOMAIN s.extra = {}
    BY <1>0 DEF PageSound, PanesKept, SessionKept
  <1>10. PageSound(t, v)
    <2>1. /\ Len(t.extra) <= MaxExtra /\ \A i, j \in DOMAIN t.extra : t.extra[i].id = t.extra[j].id => i = j
          /\ s.user = None => t.rooms = {} /\ DOMAIN t.extra = {}
          /\ t.data # None => t.selected \in {s.selected, None}
      BY <1>7, <1>9
    <2>2. t \in RoomPages /\ t.calls = s.calls /\ t.user = s.user
      BY <1>7
    <2>3. QED
      BY <1>0, <1>8, <2>1, <2>2, RearrangedIsSound
  <1>11. RoomAwaits(t, t.calls) /\ PanesAwait(t.extra, t.calls) /\ Polled(t, t.calls)
    BY <1>0, <1>7 DEF RoomAwaits, PanesAwait, Polled
  <1>12. QED
    BY <1>8, <1>10, <1>11 DEF PageKept

LEMMA RefreshProgressKeeps ==
    ASSUME NEW s, NEW v \in Servers, PageKept(s, v), NEW r, NEW t, t = RefreshProgressRoom(s, r)
    PROVE  PageKept(t, v) /\ Shows(s, t)
  <1>1. PICK m : m = IF s.selected = r THEN RefreshRoom(s, TRUE, FALSE) ELSE s
    OBVIOUS
  <1>2. /\ PageSound(s, v) /\ RoomAwaits(s, s.calls) /\ PanesAwait(s.extra, s.calls) /\ Polled(s, s.calls)
    BY PageFacts
  <1>3. PageSound(m, v) /\ RoomAwaits(m, m.calls) /\ PanesAwait(m.extra, m.calls) /\ Polled(m, m.calls) /\ Shows(s, m)
    <2>1. CASE s.selected = r
      <3>1. m = RefreshRoom(s, TRUE, FALSE)
        BY <1>1, <2>1
      <3>2. QED
        BY <1>2, <3>1, RefreshRoomKeeps
    <2>2. CASE s.selected # r
      <3>1. m = s
        BY <1>1, <2>2
      <3>2. QED
        BY <1>2, <3>1 DEF Shows
    <2>3. QED
      BY <2>1, <2>2
  <1>4. PICK is : t = RefreshPanes(m, is)
    <2>1. t = RefreshPanes(m, {i \in DOMAIN s.extra : s.extra[i].room = r})
      BY <1>1, Zenon DEF RefreshProgressRoom
    <2>2. QED
      BY <2>1
  <1>5. PageSound(t, v) /\ RoomAwaits(t, t.calls) /\ PanesAwait(t.extra, t.calls) /\ Polled(t, t.calls) /\ Shows(m, t)
    BY <1>3, <1>4, RefreshPanesKeeps
  <1>6. QED
    BY <1>3, <1>5, ShowsOn DEF PageKept

LEMMA TimersKeep ==
    ASSUME srv \in Servers, PageKept(web, srv), BudgetOK(budget), Timers
    PROVE  Moves(web, web', srv') /\ BudgetOK(budget')
  <1>0. PageSound(web, srv) /\ RoomAwaits(web, web.calls) /\ PanesAwait(web.extra, web.calls) /\ Polled(web, web.calls)
    BY PageFacts
  <1>1. CASE PollTick
    <2>1. web' = RefreshExtras(RefreshRoom(web, FALSE, FALSE)) /\ srv' = srv /\ budget' = budget
      BY <1>1 DEF PollTick
    <2>2. PICK m : m = RefreshRoom(web, FALSE, FALSE)
      OBVIOUS
    <2>3. PageSound(m, srv) /\ RoomAwaits(m, m.calls) /\ PanesAwait(m.extra, m.calls) /\ Polled(m, m.calls) /\ Shows(web, m)
      BY <1>0, <2>2, RefreshRoomKeeps
    <2>4. PICK is : web' = RefreshPanes(m, is)
      BY <2>1, <2>2 DEF RefreshExtras
    <2>5. /\ PageSound(web', srv) /\ RoomAwaits(web', web'.calls) /\ PanesAwait(web'.extra, web'.calls)
          /\ Polled(web', web'.calls) /\ Shows(m, web')
      BY <2>3, <2>4, RefreshPanesKeeps
    <2>6. QED
      BY <2>1, <2>3, <2>5, ShowsOn DEF Moves, PageKept
  <1>2. ASSUME NEW r \in Rooms, RetryDue(r)
        PROVE  Moves(web, web', srv') /\ BudgetOK(budget')
    <2>1. r \in DOMAIN web.streams /\ web' = [web EXCEPT !.streams[r] = "due"] /\ srv' = srv /\ budget' = budget
      BY <1>2 DEF RetryDue
    <2>2. QED
      BY <2>1, StreamKeeps DEF Moves
  <1>3. ASSUME NEW r \in Rooms, StreamDone(r) \/ StreamError(r)
        PROVE  Moves(web, web', srv') /\ BudgetOK(budget')
    <2>1. /\ r \in DOMAIN web.streams /\ web' = RefreshProgressRoom([web EXCEPT !.streams[r] = "wait"], r) /\ srv' = srv
          /\ budget' = budget \/ Click
      BY <1>3 DEF StreamDone, StreamError, User
    <2>2. PICK m : m = [web EXCEPT !.streams[r] = "wait"]
      OBVIOUS
    <2>3. PageKept(m, srv) /\ Shows(web, m)
      BY <2>1, <2>2, StreamKeeps
    <2>4. PageKept(web', srv) /\ Shows(m, web')
      BY <2>1, <2>2, <2>3, RefreshProgressKeeps
    <2>5. BudgetOK(budget')
      BY <2>1, ClickTyped
    <2>6. QED
      BY <2>1, <2>3, <2>4, <2>5, ShowsOn DEF Moves
  <1>4. QED
    BY <1>1, <1>2, <1>3 DEF Timers

LEMMA UserActsKeep ==
    ASSUME srv \in Servers, PageKept(web, srv), BudgetOK(budget), UserActs
    PROVE  Moves(web, web', srv') /\ BudgetOK(budget')
  <1>1. CASE LoadSession \/ Logout \/ \E u \in Users : AuthSubmit(u)
    <2>1. Click
      BY <1>1 DEF LoadSession, Logout, AuthSubmit, User
    <2>2. QED
      BY <1>1, <2>1, ClickTyped, SessionCallsKeep
  <1>2. CASE CloseSplit
    <2>1. Click
      BY <1>2 DEF CloseSplit, User
    <2>2. QED
      BY <1>2, <2>1, ClickTyped, CloseSplitKeeps
  <1>3. ASSUME NEW r \in Rooms, ClickRoom(r) \/ StartNewSession(r) \/ Archive(r) \/ PlaceDock(r)
        PROVE  Moves(web, web', srv') /\ BudgetOK(budget')
    <2>1. Click
      BY <1>3 DEF ClickRoom, StartNewSession, Archive, PlaceDock, User
    <2>2. QED
      BY <1>3, <2>1, ClickTyped, ClickRoomKeeps, RoomCallsKeep, PlaceDockKeeps
  <1>4. ASSUME NEW n \in 1..MaxExtra, SetLayout(n)
        PROVE  Moves(web, web', srv') /\ BudgetOK(budget')
    <2>1. Click
      BY <1>4 DEF SetLayout, User
    <2>2. QED
      BY <1>4, <2>1, ClickTyped, SetLayoutKeeps
  <1>5. ASSUME NEW i \in 0..MaxExtra, CloseDockPane(i)
        PROVE  Moves(web, web', srv') /\ BudgetOK(budget')
    <2>1. Click
      BY <1>5, Zenon DEF CloseDockPane, User
    <2>2. QED
      BY <1>5, <2>1, ClickTyped, CloseDockPaneKeeps
  <1>6. ASSUME NEW i \in 0..MaxExtra, NEW r \in Rooms, AssignExtra(i, r)
        PROVE  Moves(web, web', srv') /\ BudgetOK(budget')
    <2>1. Click
      BY <1>6, Zenon DEF AssignExtra, User
    <2>2. QED
      BY <1>6, <2>1, ClickTyped, AssignExtraKeeps
  <1>7. QED
    BY <1>1, <1>2, <1>3, <1>4, <1>5, <1>6, Zenon DEF UserActs

-----------------------------------------------------------------------------
\* GET /api/rooms/:id, for the selected room or a pane.
LEMMA SnapshotAnswer ==
    ASSUME srv \in Servers, NEW c \in Calls, c.kind \in Snapshots, NEW d, d = Answered(c)
    PROVE  /\ d \in Calls
           /\ d.kind = c.kind /\ d.room = c.room /\ d.user = c.user /\ d.pane = c.pane /\ d.latest = c.latest
           /\ d.current = c.current /\ d.select = c.select
           /\ d.reply # "none"
           /\ d.reply = "ok" => /\ d.got \in Answers /\ d.got.room = c.room /\ d.got.ver = srv.ver[c.room]
                                /\ d.got.user = srv.session /\ srv.session # None
  <1>1. PICK a : a = Answer(c)
    OBVIOUS
  <1>2. /\ a.reply \in {"ok", "denied", "expired"} /\ a.got \in Answers \cup {None}
        /\ a.reply = "ok" => /\ a.got \in Answers /\ a.got.room = c.room /\ a.got.ver = srv.ver[c.room]
                             /\ a.got.user = srv.session /\ srv.session # None
    <2>1. CASE srv.session = None
      <3>1. a = No("expired")
        BY <1>1, <2>1 DEF Answer, Snapshots
      <3>2. QED
        BY <3>1 DEF No
    <2>2. CASE srv.session # None /\ c.room \notin srv.member[srv.session]
      <3>1. a = No("denied")
        BY <1>1, <2>2 DEF Answer, Snapshots
      <3>2. QED
        BY <3>1 DEF No
    <2>3. CASE srv.session # None /\ c.room \in srv.member[srv.session]
      <3>1. a = Ok([room |-> c.room, user |-> srv.session, ver |-> srv.ver[c.room], busy |-> c.room \in srv.busy])
        BY <1>1, <2>3 DEF Answer, Snapshots
      <3>2. PICK u \in Users : u = srv.session
        BY <2>3 DEF Servers
      <3>3. PICK r \in Rooms : r = c.room
        BY <2>3, <3>2 DEF Servers
      <3>4. PICK n \in 0..MaxVersion : n = srv.ver[r]
        BY DEF Servers
      <3>5. PICK b \in BOOLEAN : b = (c.room \in srv.busy)
        <4>1. (c.room \in srv.busy) \in BOOLEAN
          OBVIOUS
        <4>2. QED
          BY <4>1, Zenon
      <3>6. PICK g : g = [room |-> r, user |-> u, ver |-> n, busy |-> b]
        OBVIOUS
      <3>7. g \in Answers
        BY <3>6 DEF Answers
      <3>8. a.reply = "ok" /\ a.got = g
        BY <3>1, <3>2, <3>3, <3>4, <3>5, <3>6 DEF Ok
      <3>9. QED
        BY <2>3, <3>2, <3>3, <3>4, <3>6, <3>7, <3>8
    <2>4. QED
      BY <2>1, <2>2, <2>3
  <1>3. d = [c EXCEPT !.reply = a.reply, !.got = a.got]
    BY <1>1 DEF Answered
  <1>4. PICK reply \in {"ok", "denied", "expired"} : reply = a.reply
    BY <1>2
  <1>5. PICK got \in Answers \cup {None} : got = a.got
    BY <1>2
  <1>6. d = [c EXCEPT !.reply = reply, !.got = got]
    BY <1>3, <1>4, <1>5
  <1>7. /\ d \in Calls
        /\ d.kind = c.kind /\ d.room = c.room /\ d.user = c.user /\ d.pane = c.pane /\ d.latest = c.latest
        /\ d.current = c.current /\ d.select = c.select /\ d.reply = reply /\ d.got = got
    BY ZenonT(30), SMTT(30), <1>6 DEF Calls
  <1>8. QED
    BY <1>2, <1>4, <1>5, <1>7

LEMMA ServeKeeps ==
    ASSUME srv \in Servers, PageKept(web, srv), NEW c \in web.calls, Serve(c)
    PROVE  Moves(web, web', srv') /\ budget' = budget
  <1>0. PageSound(web, srv) /\ c \in Calls /\ CallKept(c, web.user, srv.ver) /\ SessionKept(web, srv.session)
    <2>1. PageSound(web, srv) /\ web.calls \in SUBSET Calls
      BY PageFacts
    <2>2. QED
      BY <2>1 DEF PageSound
  <1>1. PICK d : d = Answered(c)
    OBVIOUS
  <1>2. c.kind \in Snapshots /\ web' = [web EXCEPT !.calls = (@ \ {c}) \cup {d}] /\ srv' = srv /\ budget' = budget
    BY <1>1 DEF Serve
  <1>3. /\ d \in Calls
        /\ d.kind = c.kind /\ d.room = c.room /\ d.user = c.user /\ d.pane = c.pane /\ d.latest = c.latest
        /\ d.current = c.current /\ d.select = c.select
        /\ d.reply = "ok" => /\ d.got \in Answers /\ d.got.room = c.room /\ d.got.ver = srv.ver[c.room]
                             /\ d.got.user = srv.session /\ srv.session # None
    BY <1>0, <1>1, <1>2, SnapshotAnswer
  <1>4. CallKept(d, web.user, srv.ver)
    <2>1. d.reply = "ok" => d.got.ver <= srv.ver[d.room]
      <3>1. d.reply = "ok" => d.got.ver = srv.ver[d.room] /\ d.got.ver \in Nat
        BY <1>3, BoundsAssumption DEF Answers
      <3>2. QED
        BY <3>1
    <2>2. d.kind = "room" /\ d.latest /\ d.user # None => d.user = web.user /\ (d.reply = "ok" => d.got.user = web.user)
      BY <1>0, <1>3 DEF CallKept, SessionKept
    <2>3. QED
      BY <1>0, <1>2, <1>3, <2>1, <2>2 DEF CallKept, Snapshots
  <1>5. PageKept(web', srv) /\ Shows(web, web')
    BY <1>2, <1>3, <1>4, AnsweredCallKeeps
  <1>6. QED
    BY <1>2, <1>5 DEF Moves

LEMMA FailKeeps ==
    ASSUME srv \in Servers, PageKept(web, srv), BudgetOK(budget), NEW c \in web.calls, Fail(c)
    PROVE  Moves(web, web', srv') /\ BudgetOK(budget')
  <1>0. PageSound(web, srv) /\ c \in Calls /\ CallKept(c, web.user, srv.ver)
    <2>1. PageSound(web, srv) /\ web.calls \in SUBSET Calls
      BY PageFacts
    <2>2. QED
      BY <2>1 DEF PageSound
  <1>1. PICK d : d = [c EXCEPT !.reply = "failed"]
    OBVIOUS
  <1>2. web' = [web EXCEPT !.calls = (@ \ {c}) \cup {d}] /\ srv' = srv /\ BudgetOK(budget')
    BY <1>1, ClickTyped DEF Fail
  <1>3. /\ d \in Calls
        /\ d.kind = c.kind /\ d.room = c.room /\ d.user = c.user /\ d.pane = c.pane /\ d.latest = c.latest
        /\ d.current = c.current /\ d.select = c.select /\ d.reply = "failed"
    BY <1>0, <1>1 DEF Calls
  <1>4. CallKept(d, web.user, srv.ver)
    BY <1>0, <1>3 DEF CallKept
  <1>5. PageKept(web', srv) /\ Shows(web, web')
    BY <1>2, <1>3, <1>4, AnsweredCallKeeps
  <1>6. QED
    BY <1>2, <1>5 DEF Moves

\* The page is kept whatever the server does.
LEMMA ServerMovesKeep ==
    ASSUME NEW s, NEW v \in Servers, PageKept(s, v), NEW w \in Servers, \A r \in Rooms : v.ver[r] <= w.ver[r],
           w.session \in {None, v.session} \/ s.user = None
    PROVE  PageKept(s, w)
  <1>1. PageSound(s, v) /\ SessionKept(s, v.session)
    BY DEF PageKept, PageSound
  <1>2. s.user # None => w.session \in {None, s.user}
    BY <1>1 DEF SessionKept
  <1>3. PageSound(s, w)
    BY <1>1, <1>2, ServerMovesOn
  <1>4. QED
    BY <1>3 DEF PageKept

LEMMA SameVersions ==
    ASSUME NEW v \in Servers, NEW w, w.ver = v.ver
    PROVE  \A r \in Rooms : v.ver[r] <= w.ver[r]
  <1>1. \A r \in Rooms : v.ver[r] \in Nat
    BY BoundsAssumption DEF Servers
  <1>2. QED
    BY <1>1

\* A membership that changes.
LEMMA MembershipTyped ==
    ASSUME NEW v \in Servers, NEW u \in Users, NEW m \in SUBSET Rooms, NEW w, w = [v EXCEPT !.member[u] = m]
    PROVE  w \in Servers /\ w.ver = v.ver /\ w.session = v.session
  <1>1. PICK f : f = [v.member EXCEPT ![u] = m]
    OBVIOUS
  <1>2. f \in [Users -> SUBSET Rooms]
    BY <1>1 DEF Servers
  <1>3. w = [v EXCEPT !.member = f]
    BY <1>1
  <1>4. QED
    BY <1>2, <1>3 DEF Servers

\* A preference that changes.
LEMMA ArchiveTyped ==
    ASSUME NEW v \in Servers, NEW u \in Users, NEW m \in SUBSET Rooms, NEW w, w = [v EXCEPT !.archived[u] = m]
    PROVE  w \in Servers /\ w.ver = v.ver /\ w.session = v.session
  <1>1. PICK f : f = [v.archived EXCEPT ![u] = m]
    OBVIOUS
  <1>2. f \in [Users -> SUBSET Rooms]
    BY <1>1 DEF Servers
  <1>3. w = [v EXCEPT !.archived = f]
    BY <1>1
  <1>4. QED
    BY <1>2, <1>3 DEF Servers

LEMMA ShowsItself ==
    ASSUME NEW s
    PROVE  Shows(s, s)
  BY DEF Shows

LEMMA ServerActsKeep ==
    ASSUME srv \in Servers, PageKept(web, srv), BudgetOK(budget), ServerActs
    PROVE  Moves(web, web', srv') /\ BudgetOK(budget')
  <1>1. ASSUME NEW c \in web.calls, Serve(c) \/ Fail(c)
        PROVE  Moves(web, web', srv') /\ BudgetOK(budget')
    BY <1>1, ServeKeeps, FailKeeps
  <1>2. CASE SessionEnds
    <2>1. web' = web /\ BudgetOK(budget') /\ srv' = [srv EXCEPT !.session = None]
      BY <1>2, ClickTyped DEF SessionEnds
    <2>2. srv' \in Servers /\ srv'.ver = srv.ver /\ srv'.session = None
      BY <2>1 DEF Servers
    <2>3. \A r \in Rooms : srv.ver[r] <= srv'.ver[r]
      BY <2>2, SameVersions
    <2>4. PageKept(web', srv')
      BY <2>1, <2>2, <2>3, ServerMovesKeep
    <2>5. QED
      BY <2>1, <2>2, <2>4, ShowsItself DEF Moves
  <1>3. ASSUME NEW r \in Rooms, RoomChanges(r)
        PROVE  Moves(web, web', srv') /\ BudgetOK(budget')
    <2>1. web' = web /\ budget' = budget
      BY <1>3 DEF RoomChanges
    <2>2. PICK b \in SUBSET {r} : srv' = [srv EXCEPT !.ver[r] = @ + 1, !.busy = (@ \ {r}) \cup b]
      BY <1>3 DEF RoomChanges
    <2>3. PICK n \in 0..MaxVersion : n = srv.ver[r] + 1
      <3>1. srv.ver[r] \in Nat /\ srv.ver[r] < MaxVersion
        BY <1>3, BoundsAssumption DEF RoomChanges, Servers
      <3>2. QED
        BY <3>1, BoundsAssumption
    <2>4. PICK f : f = [srv.ver EXCEPT ![r] = n]
      OBVIOUS
    <2>5. PICK bs \in SUBSET Rooms : bs = (srv.busy \ {r}) \cup b
      BY DEF Servers
    <2>6. srv' = [srv EXCEPT !.ver = f, !.busy = bs]
      BY <2>2, <2>3, <2>4, <2>5 DEF Servers
    <2>7. f \in [Rooms -> 0..MaxVersion]
      BY <2>4 DEF Servers
    <2>8. srv' \in Servers /\ srv'.ver = f /\ srv'.session = srv.session
      BY <2>6, <2>7 DEF Servers
    <2>9. ASSUME NEW q \in Rooms
          PROVE  srv.ver[q] <= f[q]
      <3>1. srv.ver[q] \in Nat
        BY BoundsAssumption DEF Servers
      <3>2. f[q] = IF q = r THEN srv.ver[r] + 1 ELSE srv.ver[q]
        BY <2>3, <2>4 DEF Servers
      <3>3. QED
        BY <3>1, <3>2
    <2>10. PageKept(web', srv')
      BY <2>1, <2>8, <2>9, ServerMovesKeep
    <2>11. QED
      BY <2>1, <2>8, <2>10, ShowsItself DEF Moves
  <1>4. ASSUME NEW r \in Rooms, NEW u \in Users, MemberLeaves(u, r)
        PROVE  Moves(web, web', srv') /\ BudgetOK(budget')
    <2>1. web' = web /\ BudgetOK(budget') /\ srv' = [srv EXCEPT !.member[u] = @ \ {r}]
      BY <1>4, ClickTyped DEF MemberLeaves
    <2>2. PICK m \in SUBSET Rooms : m = srv.member[u] \ {r}
      BY DEF Servers
    <2>3. srv' = [srv EXCEPT !.member[u] = m]
      BY <2>1, <2>2 DEF Servers
    <2>0. PICK w : w = srv'
      OBVIOUS
    <2>4. srv' \in Servers /\ srv'.ver = srv.ver /\ srv'.session = srv.session
      <3>1. w = [srv EXCEPT !.member[u] = m]
        BY <2>0, <2>3
      <3>2. w \in Servers /\ w.ver = srv.ver /\ w.session = srv.session
        BY <3>1, MembershipTyped
      <3>3. QED
        BY <2>0, <3>2
    <2>5. \A q \in Rooms : srv.ver[q] <= srv'.ver[q]
      BY <2>4, SameVersions
    <2>6. PageKept(web', srv')
      BY <2>1, <2>4, <2>5, ServerMovesKeep
    <2>7. QED
      BY <2>1, <2>4, <2>6, ShowsItself DEF Moves
  <1>5. QED
    BY <1>1, <1>2, <1>3, <1>4 DEF ServerActs

-----------------------------------------------------------------------------
\* No pane goes back to an older answer.
Forward(s, t) ==
    /\ NotOlder(s.data, t.data)
    /\ \A p \in Elems(s.extra), q \in Elems(t.extra) : p.id = q.id /\ p.room = q.room => NotOlder(p.data, q.data)

LEMMA ShowsIsForward ==
    ASSUME NEW s, NEW v \in Servers, PageSound(s, v), NEW t, Shows(s, t)
    PROVE  Forward(s, t)
  <1>0. s \in RoomPages /\ \A i, j \in DOMAIN s.extra : s.extra[i].id = s.extra[j].id => i = j
    BY DEF PageSound, PanesKept
  <1>1. \A a \in Answers \cup {None} : a # None => a.ver \in Nat
    BY BoundsAssumption DEF Answers
  <1>2. \A a \in Answers \cup {None} : NotOlder(a, a)
    BY <1>1 DEF NotOlder
  <1>3. s.data \in Answers \cup {None} /\ \A i \in DOMAIN s.extra : s.extra[i].data \in Answers \cup {None}
    BY <1>0, PanesTyped DEF RoomPages, Panes
  <1>4. NotOlder(s.data, t.data)
    BY <1>2, <1>3 DEF Shows, NotOlder
  <1>5. ASSUME NEW p \in Elems(s.extra), NEW q \in Elems(t.extra), p.id = q.id
        PROVE  NotOlder(p.data, q.data)
    <2>1. PICK i \in DOMAIN s.extra : p = s.extra[i]
      BY DEF Elems
    <2>2. PICK j \in DOMAIN t.extra : q = t.extra[j]
      BY DEF Elems
    <2>3. CASE q.data = None
      BY <2>3 DEF NotOlder
    <2>4. CASE q.data # None
      <3>1. PICK k \in DOMAIN s.extra : s.extra[k].id = q.id /\ s.extra[k].data = q.data
        BY <2>2, <2>4 DEF Shows
      <3>2. k = i
        BY <1>0, <1>5, <2>1, <3>1
      <3>3. QED
        BY <1>2, <1>3, <2>1, <3>1, <3>2
    <2>5. QED
      BY <2>3, <2>4
  <1>6. QED
    BY <1>4, <1>5 DEF Forward

\* The rest of selectRoom() and the finally of refreshRoom().
LEMMA SettledKeeps ==
    ASSUME NEW s, NEW v \in Servers, PageSound(s, v), NEW c, c.latest \in BOOLEAN, c.select \in BOOLEAN, NEW t, t = Settled(s, c)
    PROVE  /\ PageSound(t, v) /\ Shows(s, t)
           /\ t.user = s.user /\ t.rooms = s.rooms /\ t.archived = s.archived /\ t.selected = s.selected /\ t.data = s.data
           /\ t.nobodys = s.nobodys /\ t.extra = s.extra /\ t.calls = s.calls
           /\ (t.pollBusy => s.pollBusy /\ ~c.latest) /\ (s.polling \/ c.select => t.polling)
  <1>0. s \in RoomPages
    BY DEF PageSound
  <1>1. PICK free : free = IF c.latest THEN [s EXCEPT !.pollBusy = FALSE] ELSE s
    OBVIOUS
  <1>2. /\ free \in RoomPages
        /\ free.user = s.user /\ free.rooms = s.rooms /\ free.archived = s.archived /\ free.selected = s.selected
        /\ free.data = s.data /\ free.nobodys = s.nobodys /\ free.extra = s.extra /\ free.calls = s.calls
        /\ (free.pollBusy => s.pollBusy /\ ~c.latest) /\ free.polling = s.polling
    BY <1>0, <1>1 DEF RoomPages
  <1>3. t = IF c.select THEN [free EXCEPT !.polling = TRUE] ELSE free
    BY <1>1 DEF Settled
  <1>4. /\ t \in RoomPages
        /\ t.user = free.user /\ t.rooms = free.rooms /\ t.archived = free.archived /\ t.selected = free.selected
        /\ t.data = free.data /\ t.nobodys = free.nobodys /\ t.extra = free.extra /\ t.calls = free.calls
        /\ t.pollBusy = free.pollBusy /\ (free.polling \/ c.select => t.polling)
    BY <1>2, <1>3 DEF RoomPages
  <1>5. /\ t.user = s.user /\ t.rooms = s.rooms /\ t.archived = s.archived /\ t.selected = s.selected /\ t.data = s.data
        /\ t.nobodys = s.nobodys /\ t.extra = s.extra /\ t.calls = s.calls
        /\ (t.pollBusy => s.pollBusy /\ ~c.latest) /\ (s.polling \/ c.select => t.polling)
    BY <1>2, <1>4
  <1>6. Shows(s, t)
    BY <1>5 DEF Shows
  <1>7. PageSound(t, v)
    <2>1. /\ Len(t.extra) <= MaxExtra /\ \A i, j \in DOMAIN t.extra : t.extra[i].id = t.extra[j].id => i = j
          /\ s.user = None => t.rooms = {} /\ DOMAIN t.extra = {}
          /\ t.data # None => t.selected \in {s.selected, None}
      BY <1>5 DEF PageSound, PanesKept, SessionKept
    <2>2. t \in RoomPages /\ t.calls = s.calls /\ t.user = s.user
      BY <1>4, <1>5
    <2>3. QED
      BY <1>6, <2>1, <2>2, RearrangedIsSound
  <1>8. QED
    BY <1>5, <1>6, <1>7

\* The page without a call that ends.
Without(p, c) == [p EXCEPT !.calls = @ \ {c}]

LEMMA WithoutCall ==
    ASSUME NEW v \in Servers, NEW p, PageKept(p, v), NEW c \in p.calls, NEW s, s = Without(p, c)
    PROVE  /\ PageSound(s, v) /\ Shows(p, s) /\ s.calls = p.calls \ {c} /\ c \in Calls /\ CallKept(c, s.user, v.ver)
           /\ c.latest \in BOOLEAN /\ c.select \in BOOLEAN
           /\ s.user = p.user /\ s.rooms = p.rooms /\ s.archived = p.archived /\ s.selected = p.selected /\ s.data = p.data
           /\ s.nobodys = p.nobodys /\ s.pollBusy = p.pollBusy /\ s.polling = p.polling /\ s.extra = p.extra
           /\ c.kind # "room" \/ ~c.latest => RoomAwaits(s, s.calls)
           /\ c.pane = 0 => PanesAwait(s.extra, s.calls)
           /\ c.kind # "room" \/ ~c.select => Polled(s, s.calls)
           /\ c.latest => /\ c.kind = "room" => \A d \in s.calls : d.kind = "room" => ~d.latest
                          /\ c.pane # 0 => \A d \in s.calls : d.pane = c.pane => ~d.latest
           /\ \A i \in DOMAIN s.extra : s.extra[i].busy /\ (s.extra[i].id # c.pane \/ ~c.latest) =>
                 \E d \in s.calls : d.pane = s.extra[i].id /\ d.latest
  <1>0. PageSound(p, v) /\ RoomAwaits(p, p.calls) /\ PanesAwait(p.extra, p.calls) /\ Polled(p, p.calls)
    BY DEF PageKept
  <1>1. p \in RoomPages /\ p.calls \in SUBSET Calls /\ LatestIsOne(p.calls) /\ \A d \in p.calls : CallKept(d, p.user, v.ver)
    BY <1>0 DEF PageSound, RoomPages
  <1>2. c \in Calls /\ c.latest \in BOOLEAN /\ c.select \in BOOLEAN
    BY <1>1 DEF Calls
  <1>3. /\ PageSound(s, v) /\ Shows(p, s) /\ s.calls = p.calls \ {c}
        /\ s.user = p.user /\ s.rooms = p.rooms /\ s.archived = p.archived /\ s.selected = p.selected /\ s.data = p.data
        /\ s.nobodys = p.nobodys /\ s.pollBusy = p.pollBusy /\ s.polling = p.polling /\ s.extra = p.extra
    BY <1>0, EndedCallKeeps DEF Without
  <1>4. \A i \in DOMAIN p.extra : p.extra[i].id # 0
    BY <1>1, PanesTyped
  <1>5. c.kind # "room" \/ ~c.latest => RoomAwaits(s, s.calls)
    BY <1>0, <1>3 DEF RoomAwaits
  <1>6. \A i \in DOMAIN s.extra : s.extra[i].busy /\ (s.extra[i].id # c.pane \/ ~c.latest) =>
                 \E d \in s.calls : d.pane = s.extra[i].id /\ d.latest
    BY <1>0, <1>3 DEF PanesAwait
  <1>7. c.pane = 0 => PanesAwait(s.extra, s.calls)
    BY <1>3, <1>4, <1>6 DEF PanesAwait
  <1>8. c.kind # "room" \/ ~c.select => Polled(s, s.calls)
    BY <1>0, <1>3 DEF Polled
  <1>9. ASSUME c.latest, c.kind = "room", NEW d \in s.calls, d.kind = "room", d.latest
        PROVE  FALSE
    <2>1. c.pane = 0 /\ d.pane = 0 /\ d \in p.calls /\ d # c
      BY <1>1, <1>3, <1>9 DEF CallKept
    <2>2. QED
      BY <1>1, <1>9, <2>1 DEF LatestIsOne
  <1>10. ASSUME c.latest, c.pane # 0, NEW d \in s.calls, d.pane = c.pane, d.latest
         PROVE  FALSE
    BY <1>1, <1>3, <1>10 DEF LatestIsOne
  <1>11. QED
    BY <1>1, <1>2, <1>3, <1>5, <1>6, <1>7, <1>8, <1>9, <1>10

\* refreshRoom() after its await.
LEMMA RoomRepliedKeeps ==
    ASSUME NEW v \in Servers, NEW p, PageKept(p, v), NEW c \in p.calls, c.kind = "room",
           NEW s, s = Without(p, c), NEW t, t = RoomReplied(s, c)
    PROVE  PageKept(t, v) /\ Forward(p, t)
  <1>0. /\ PageSound(s, v) /\ Shows(p, s) /\ s.calls = p.calls \ {c} /\ c \in Calls /\ CallKept(c, s.user, v.ver)
        /\ c.latest \in BOOLEAN /\ c.select \in BOOLEAN
        /\ s.data = p.data /\ s.extra = p.extra
        /\ ~c.latest => RoomAwaits(s, s.calls)
        /\ c.pane = 0 => PanesAwait(s.extra, s.calls)
        /\ ~c.select => Polled(s, s.calls)
        /\ c.latest => \A d \in s.calls : d.kind = "room" => ~d.latest
    BY WithoutCall
  <1>1. s \in RoomPages /\ PageSound(p, v)
    BY <1>0 DEF PageSound, PageKept
  <1>2. PanesAwait(s.extra, s.calls)
    BY <1>0 DEF CallKept
  \* what is left of the page settles
  <1>3. ASSUME NEW n, PageSound(n, v), n.calls = s.calls, n.extra = s.extra, n.pollBusy = s.pollBusy, n.polling = s.polling,
               n.selected = s.selected, t = Settled(n, c)
        PROVE  PageKept(t, v) /\ Shows(n, t)
    <2>1. /\ PageSound(t, v) /\ Shows(n, t) /\ t.extra = n.extra /\ t.calls = n.calls /\ t.selected = n.selected
          /\ (t.pollBusy => n.pollBusy /\ ~c.latest) /\ (n.polling \/ c.select => t.polling)
      BY <1>0, <1>3, SettledKeeps
    <2>2. RoomAwaits(t, t.calls)
      BY <1>0, <1>3, <2>1 DEF RoomAwaits
    <2>3. PanesAwait(t.extra, t.calls)
      BY <1>2, <1>3, <2>1
    <2>4. Polled(t, t.calls)
      BY <1>0, <1>3, <2>1 DEF Polled
    <2>5. QED
      BY <2>1, <2>2, <2>3, <2>4 DEF PageKept
  <1>4. CASE c.reply = "ok" /\ s.selected = c.room /\ s.user = c.user /\ c.latest
    <2>1. PICK nobody \in BOOLEAN : nobody = (c.user = None)
      OBVIOUS
    <2>2. PICK m : m = [s EXCEPT !.data = c.got, !.nobodys = nobody]
      OBVIOUS
    <2>3. t = Settled(SyncProgressStreams(m), c)
      BY <1>4, <2>1, <2>2 DEF RoomReplied
    <2>4. c.got \in Answers /\ c.got.room = c.room /\ c.got.ver <= v.ver[c.room] /\ (c.user # None => c.got.user = s.user)
      BY <1>0, <1>4 DEF CallKept
    <2>5. /\ m \in RoomPages
          /\ m.user = s.user /\ m.rooms = s.rooms /\ m.selected = s.selected /\ m.data = c.got
          /\ m.nobodys = nobody /\ m.pollBusy = s.pollBusy /\ m.polling = s.polling /\ m.extra = s.extra
          /\ m.calls = s.calls
      BY <1>1, <2>2, <2>4 DEF RoomPages
    <2>6. DataKept(m, v.ver)
      <3>1. m.data.user = m.user \/ m.nobodys
        BY <2>1, <2>4, <2>5
      <3>2. m.data.room = m.selected /\ m.data.ver <= v.ver[m.data.room]
        BY <1>4, <2>4, <2>5
      <3>3. \A d \in m.calls : d.kind = "room" => Upto(m.data, d)
        BY <1>0, <1>4, <2>5 DEF Upto
      <3>4. QED
        BY <3>1, <3>2, <3>3 DEF DataKept
    <2>7. PageSound(m, v)
      BY <1>0, <2>5, <2>6 DEF PageSound, SessionKept, PanesKept
    <2>8. PICK n : n = SyncProgressStreams(m)
      OBVIOUS
    <2>9. /\ PageSound(n, v) /\ n.calls = m.calls /\ n.extra = m.extra /\ n.pollBusy = m.pollBusy /\ n.polling = m.polling
          /\ n.selected = m.selected /\ n.data = m.data
      BY <2>7, <2>8, SyncKeeps
    <2>10. PageKept(t, v) /\ Shows(n, t)
      BY <1>3, <2>3, <2>5, <2>8, <2>9
    <2>11. t.data = c.got /\ t.extra = s.extra
      BY <1>0, <2>3, <2>5, <2>8, <2>9, SettledKeeps
    <2>12. NotOlder(p.data, t.data)
      <3>1. Upto(p.data, c)
        BY <1>1 DEF PageSound, DataKept
      <3>2. QED
        BY <1>4, <2>4, <2>11, <3>1 DEF Upto, NotOlder
    <2>13. Forward(p, s)
      BY <1>0, <1>1, ShowsIsForward
    <2>14. QED
      BY <1>0, <2>10, <2>11, <2>12, <2>13 DEF Forward
  <1>5. CASE c.reply = "expired" /\ c.latest
    <2>1. PICK m : m = ShowAuth(s)
      OBVIOUS
    <2>2. PICK d : d = [c EXCEPT !.latest = FALSE]
      OBVIOUS
    <2>3. t = Settled(m, d)
      BY <1>5, <2>1, <2>2 DEF RoomReplied
    <2>4. d.latest \in BOOLEAN /\ ~d.latest /\ d.select \in BOOLEAN
      BY <1>0, <2>2 DEF Calls
    <2>5. PageKept(m, v) /\ Shows(s, m)
      BY <1>0, <2>1, ShowAuthKeeps
    <2>6. PageSound(m, v) /\ RoomAwaits(m, m.calls) /\ PanesAwait(m.extra, m.calls) /\ Polled(m, m.calls)
      BY <2>5 DEF PageKept
    <2>7. /\ PageSound(t, v) /\ Shows(m, t) /\ t.extra = m.extra /\ t.calls = m.calls /\ t.selected = m.selected
          /\ (t.pollBusy => m.pollBusy /\ ~d.latest) /\ (m.polling \/ d.select => t.polling)
      BY <2>3, <2>4, <2>6, SettledKeeps
    <2>8. RoomAwaits(t, t.calls) /\ PanesAwait(t.extra, t.calls) /\ Polled(t, t.calls)
      BY <2>6, <2>7 DEF RoomAwaits, PanesAwait, Polled
    <2>9. Shows(p, t)
      BY <1>0, <2>5, <2>7, ShowsOn
    <2>10. QED
      BY <1>1, <2>7, <2>8, <2>9, ShowsIsForward DEF PageKept
  <1>6. CASE c.reply = "denied" /\ c.latest
    <2>1. PICK m : m = [s EXCEPT !.data = None]
      OBVIOUS
    <2>2. t = Settled(SyncProgressStreams(m), c)
      BY <1>6, <2>1 DEF RoomReplied
    <2>3. /\ m \in RoomPages
          /\ m.user = s.user /\ m.rooms = s.rooms /\ m.selected = s.selected /\ m.data = None
          /\ m.nobodys = s.nobodys /\ m.pollBusy = s.pollBusy /\ m.polling = s.polling /\ m.extra = s.extra
          /\ m.calls = s.calls
      BY <1>1, <2>1 DEF RoomPages
    <2>4. Shows(s, m)
      BY <2>3 DEF Shows
    <2>5. PageSound(m, v)
      <3>1. /\ Len(m.extra) <= MaxExtra /\ \A i, j \in DOMAIN m.extra : m.extra[i].id = m.extra[j].id => i = j
            /\ s.user = None => m.rooms = {} /\ DOMAIN m.extra = {}
            /\ m.data # None => m.selected \in {s.selected, None}
        BY <1>0, <2>3 DEF PageSound, PanesKept, SessionKept
      <3>2. m \in RoomPages /\ m.calls = s.calls /\ m.user = s.user
        BY <2>3
      <3>3. QED
        BY <1>0, <2>4, <3>1, <3>2, RearrangedIsSound
    <2>6. PICK n : n = SyncProgressStreams(m)
      OBVIOUS
    <2>7. /\ PageSound(n, v) /\ Shows(m, n) /\ n.calls = m.calls /\ n.extra = m.extra /\ n.pollBusy = m.pollBusy
          /\ n.polling = m.polling /\ n.selected = m.selected
      BY <2>5, <2>6, SyncKeeps
    <2>8. PageKept(t, v) /\ Shows(n, t)
      BY <1>3, <2>2, <2>3, <2>6, <2>7
    <2>9. Shows(p, t)
      BY <1>0, <2>4, <2>7, <2>8, ShowsOn
    <2>10. QED
      BY <1>1, <2>8, <2>9, ShowsIsForward
  <1>7. CASE /\ ~(c.reply = "ok" /\ s.selected = c.room /\ s.user = c.user /\ c.latest)
             /\ ~(c.reply = "expired" /\ c.latest)
             /\ ~(c.reply = "denied" /\ c.latest)
    <2>1. t = Settled(s, c)
      BY <1>7 DEF RoomReplied
    <2>2. PageKept(t, v) /\ Shows(s, t)
      BY <1>0, <1>3, <2>1
    <2>3. Shows(p, t)
      BY <1>0, <2>2, ShowsOn
    <2>4. QED
      BY <1>1, <2>2, <2>3, ShowsIsForward
  <1>8. QED
    BY <1>4, <1>5, <1>6, <1>7

-----------------------------------------------------------------------------
\* The panes with what they show, or wait for, changed.
Repaned(s, es) == [s EXCEPT !.extra = es]

LEMMA RepanedKeeps ==
    ASSUME NEW s, NEW v \in Servers, PageSound(s, v), RoomAwaits(s, s.calls), Polled(s, s.calls),
           NEW es \in [DOMAIN s.extra -> Panes],
           \A i \in DOMAIN s.extra : es[i].id = s.extra[i].id,
           PanesAwait(es, s.calls),
           \A i \in DOMAIN s.extra : \/ es[i].data \in {s.extra[i].data, None}
                                    \/ /\ es[i].data.ver <= v.ver[es[i].data.room]
                                       /\ \A c \in s.calls : c.pane = es[i].id => ~c.latest,
           NEW t, t = Repaned(s, es)
    PROVE  PageKept(t, v) /\ t.data = s.data /\ t.nobodys = s.nobodys /\ t.extra = es /\ t.calls = s.calls /\ t.user = s.user
  <1>0. s \in RoomPages
    BY DEF PageSound
  <1>1. DOMAIN s.extra = 1..Len(s.extra) /\ Len(s.extra) \in Nat
    BY <1>0, PanesTyped
  <1>2. es \in [1..Len(s.extra) -> Panes]
    BY <1>1
  <1>3. es \in Seq(Panes) /\ Len(es) = Len(s.extra) /\ DOMAIN es = DOMAIN s.extra
    BY <1>1, <1>2
  <1>4. /\ t \in RoomPages /\ t.extra = es
        /\ t.user = s.user /\ t.rooms = s.rooms /\ t.selected = s.selected /\ t.data = s.data
        /\ t.nobodys = s.nobodys /\ t.pollBusy = s.pollBusy /\ t.polling = s.polling /\ t.calls = s.calls
    BY <1>0, <1>3 DEF Repaned, RoomPages
  <1>5. PanesKept(t, v.ver)
    <2>1. Len(es) <= MaxExtra /\ \A i, j \in DOMAIN es : es[i].id = es[j].id => i = j
      <3>1. /\ Len(s.extra) <= MaxExtra
            /\ \A i, j \in DOMAIN s.extra : s.extra[i].id = s.extra[j].id => i = j
        BY DEF PageSound, PanesKept
      <3>2. QED
        BY <1>3, <3>1
    <2>2. ASSUME NEW i \in DOMAIN es
          PROVE  /\ es[i].data # None => es[i].data.ver <= v.ver[es[i].data.room]
                 /\ \A c \in s.calls : c.pane = es[i].id => Upto(es[i].data, c)
      <3>1. CASE es[i].data \in {s.extra[i].data, None}
        <4>1. PanesKept(s, v.ver) /\ es[i].id = s.extra[i].id
          BY <1>3 DEF PageSound
        <4>2. QED
          BY <1>3, <3>1, <4>1 DEF PanesKept, Upto
      <3>2. CASE es[i].data.ver <= v.ver[es[i].data.room] /\ \A c \in s.calls : c.pane = es[i].id => ~c.latest
        BY <3>2 DEF Upto
      <3>3. QED
        BY <1>3, <3>1, <3>2
    <2>3. QED
      BY <1>4, <2>1, <2>2 DEF PanesKept
  <1>6. PageSound(t, v)
    <2>1. SessionKept(t, v.session)
      BY <1>4 DEF PageSound, SessionKept
    <2>2. DataKept(t, v.ver)
      BY <1>4 DEF PageSound, DataKept
    <2>3. LatestIsOne(t.calls) /\ \A c \in t.calls : CallKept(c, t.user, v.ver)
      BY <1>4 DEF PageSound
    <2>4. QED
      BY <1>4, <1>5, <2>1, <2>2, <2>3 DEF PageSound
  <1>7. RoomAwaits(t, t.calls) /\ PanesAwait(t.extra, t.calls) /\ Polled(t, t.calls)
    BY <1>4 DEF RoomAwaits, Polled
  <1>8. QED
    BY <1>4, <1>6, <1>7 DEF PageKept

\* The panes at some indexes await nothing.
LEMMA FreedKeeps ==
    ASSUME NEW s, NEW v \in Servers, PageSound(s, v), RoomAwaits(s, s.calls), Polled(s, s.calls), NEW is, NEW t, t = Freed(s, is),
           \A i \in DOMAIN s.extra : i \notin is /\ s.extra[i].busy => \E d \in s.calls : d.pane = s.extra[i].id /\ d.latest
    PROVE  /\ PageKept(t, v) /\ Shows(s, t) /\ t.data = s.data /\ t.calls = s.calls /\ t.user = s.user
           /\ DOMAIN t.extra = DOMAIN s.extra
           /\ \A i \in DOMAIN s.extra : /\ t.extra[i].id = s.extra[i].id /\ t.extra[i].room = s.extra[i].room
                                        /\ t.extra[i].data = s.extra[i].data
  <1>0. s \in RoomPages
    BY DEF PageSound
  <1>1. PICK es : es = [i \in DOMAIN s.extra |-> IF i \in is THEN [s.extra[i] EXCEPT !.busy = FALSE] ELSE s.extra[i]]
    OBVIOUS
  <1>2. t = Repaned(s, es)
    BY <1>1, Zenon DEF Freed, Repaned
  <1>3. ASSUME NEW i \in DOMAIN s.extra
        PROVE  /\ es[i] \in Panes /\ es[i].id = s.extra[i].id /\ es[i].data = s.extra[i].data
               /\ es[i].room = s.extra[i].room
               /\ es[i].busy => s.extra[i].busy /\ i \notin is
    <2>1. s.extra[i] \in Panes
      BY <1>0, PanesTyped
    <2>2. CASE i \in is
      <3>1. es[i] = [s.extra[i] EXCEPT !.busy = FALSE]
        BY <1>1, <2>2
      <3>2. QED
        BY <2>1, <3>1 DEF Panes
    <2>3. CASE i \notin is
      <3>1. es[i] = s.extra[i]
        BY <1>1, <2>3
      <3>2. QED
        BY <2>1, <2>3, <3>1
    <2>4. QED
      BY <2>2, <2>3
  <1>4. DOMAIN es = DOMAIN s.extra /\ es \in [DOMAIN s.extra -> Panes]
    BY <1>1, <1>3
  <1>5. PanesAwait(es, s.calls)
    <2>1. ASSUME NEW i \in DOMAIN es, es[i].busy
          PROVE  \E d \in s.calls : d.pane = es[i].id /\ d.latest
      <3>1. i \in DOMAIN s.extra /\ i \notin is /\ s.extra[i].busy /\ es[i].id = s.extra[i].id
        BY <1>3, <1>4, <2>1
      <3>2. QED
        BY <3>1
    <2>2. QED
      BY <2>1 DEF PanesAwait
  <1>7. \A i \in DOMAIN s.extra : es[i].id = s.extra[i].id /\ es[i].data \in {s.extra[i].data, None}
    BY <1>3
  <1>8. PageKept(t, v) /\ t.data = s.data /\ t.nobodys = s.nobodys /\ t.extra = es /\ t.calls = s.calls /\ t.user = s.user
    BY <1>2, <1>4, <1>5, <1>7, RepanedKeeps
  <1>10. Shows(s, t)
    BY <1>3, <1>4, <1>8 DEF Shows
  <1>9. QED
    BY <1>3, <1>4, <1>8, <1>10

\* The panes at some indexes, which await nothing, show an answer, or nothing.
LEMMA ShowingKeeps ==
    ASSUME NEW s, NEW v \in Servers, PageKept(s, v), NEW is, NEW a \in Answers \cup {None}, NEW t, t = Showing(s, is, a),
           a = None \/ (a.ver <= v.ver[a.room] /\ \A i \in is, c \in s.calls : c.pane = s.extra[i].id => ~c.latest),
           is \subseteq DOMAIN s.extra
    PROVE  /\ PageKept(t, v) /\ t.data = s.data
           /\ DOMAIN t.extra = DOMAIN s.extra
           /\ \A i \in DOMAIN s.extra : /\ t.extra[i].id = s.extra[i].id /\ t.extra[i].room = s.extra[i].room
                                        /\ t.extra[i].data = IF i \in is THEN a ELSE s.extra[i].data
  <1>0. s \in RoomPages /\ PageSound(s, v) /\ RoomAwaits(s, s.calls) /\ Polled(s, s.calls) /\ PanesAwait(s.extra, s.calls)
    BY DEF PageKept, PageSound
  <1>1. PICK es : es = [i \in DOMAIN s.extra |-> IF i \in is THEN [s.extra[i] EXCEPT !.data = a] ELSE s.extra[i]]
    OBVIOUS
  <1>2. t = Repaned(s, es)
    BY <1>1, Zenon DEF Showing, Repaned
  <1>3. ASSUME NEW i \in DOMAIN s.extra
        PROVE  /\ es[i] \in Panes /\ es[i].id = s.extra[i].id /\ es[i].room = s.extra[i].room
               /\ es[i].data = IF i \in is THEN a ELSE s.extra[i].data
               /\ es[i].busy => s.extra[i].busy
    <2>1. s.extra[i] \in Panes
      BY <1>0, PanesTyped
    <2>2. CASE i \in is
      <3>1. es[i] = [s.extra[i] EXCEPT !.data = a]
        BY <1>1, <2>2
      <3>2. QED
        BY <2>1, <2>2, <3>1 DEF Panes
    <2>3. CASE i \notin is
      <3>1. es[i] = s.extra[i]
        BY <1>1, <2>3
      <3>2. QED
        BY <2>1, <2>3, <3>1
    <2>4. QED
      BY <2>2, <2>3
  <1>4. DOMAIN es = DOMAIN s.extra /\ es \in [DOMAIN s.extra -> Panes]
    BY <1>1, <1>3
  <1>5. PanesAwait(es, s.calls)
    <2>1. ASSUME NEW i \in DOMAIN es, es[i].busy
          PROVE  \E d \in s.calls : d.pane = es[i].id /\ d.latest
      <3>1. i \in DOMAIN s.extra /\ s.extra[i].busy /\ es[i].id = s.extra[i].id
        BY <1>3, <1>4, <2>1
      <3>2. QED
        BY <1>0, <3>1 DEF PanesAwait
    <2>2. QED
      BY <2>1 DEF PanesAwait
  <1>7. \A i \in DOMAIN s.extra : /\ es[i].id = s.extra[i].id
                                 /\ \/ es[i].data \in {s.extra[i].data, None}
                                    \/ /\ es[i].data.ver <= v.ver[es[i].data.room]
                                       /\ \A c \in s.calls : c.pane = es[i].id => ~c.latest
    <2>1. ASSUME NEW i \in DOMAIN s.extra
          PROVE  \/ es[i].data \in {s.extra[i].data, None}
                 \/ /\ es[i].data.ver <= v.ver[es[i].data.room]
                    /\ \A c \in s.calls : c.pane = es[i].id => ~c.latest
      <3>1. CASE i \in is /\ a # None
        BY <1>3, <3>1
      <3>2. CASE ~(i \in is /\ a # None)
        BY <1>3, <3>2
      <3>3. QED
        BY <3>1, <3>2
    <2>2. QED
      BY <1>3, <2>1
  <1>8. PageKept(t, v) /\ t.data = s.data /\ t.extra = es
    BY <1>0, <1>2, <1>4, <1>5, <1>7, RepanedKeeps
  <1>9. QED
    BY <1>3, <1>4, <1>8

\* refreshExtra() after its await.
LEMMA ExtraRepliedKeeps ==
    ASSUME NEW v \in Servers, NEW p, PageKept(p, v), NEW c \in p.calls, c.kind = "extra",
           NEW s, s = Without(p, c), NEW t, t = ExtraReplied(s, c)
    PROVE  PageKept(t, v) /\ Forward(p, t)
  <1>0. /\ PageSound(s, v) /\ Shows(p, s) /\ s.calls = p.calls \ {c} /\ c \in Calls /\ CallKept(c, s.user, v.ver)
        /\ c.latest \in BOOLEAN
        /\ s.data = p.data /\ s.extra = p.extra
        /\ RoomAwaits(s, s.calls) /\ Polled(s, s.calls)
        /\ c.latest => (c.pane # 0 => \A d \in s.calls : d.pane = c.pane => ~d.latest)
        /\ \A i \in DOMAIN s.extra : s.extra[i].busy /\ (s.extra[i].id # c.pane \/ ~c.latest) =>
              \E d \in s.calls : d.pane = s.extra[i].id /\ d.latest
    BY WithoutCall
  <1>1. s \in RoomPages /\ PageSound(p, v)
    BY <1>0 DEF PageSound, PageKept
  <1>2. \A i \in DOMAIN s.extra : s.extra[i].id # 0
    BY <1>1, PanesTyped
  <1>3. PICK mine : mine = PanesOf(s, c)
    OBVIOUS
  <1>4. mine \subseteq DOMAIN s.extra /\ \A i \in DOMAIN s.extra : i \in mine <=> s.extra[i].id = c.pane
    BY <1>0, <1>2, <1>3 DEF CallKept, PanesOf
  <1>5. PICK free : free = IF c.latest THEN Freed(s, mine) ELSE s
    OBVIOUS
  <1>6. /\ PageKept(free, v) /\ Shows(s, free) /\ free.data = s.data /\ free.calls = s.calls /\ free.user = s.user
        /\ DOMAIN free.extra = DOMAIN s.extra
        /\ \A i \in DOMAIN s.extra : /\ free.extra[i].id = s.extra[i].id /\ free.extra[i].room = s.extra[i].room
                                     /\ free.extra[i].data = s.extra[i].data
    <2>1. CASE c.latest
      <3>1. free = Freed(s, mine)
        BY <1>5, <2>1
      <3>2. \A i \in DOMAIN s.extra : i \notin mine /\ s.extra[i].busy => \E d \in s.calls : d.pane = s.extra[i].id /\ d.latest
        BY <1>0, <1>4
      <3>3. PageSound(s, v) /\ RoomAwaits(s, s.calls) /\ Polled(s, s.calls)
        BY <1>0
      <3>4. QED
        BY <3>1, <3>2, <3>3, FreedKeeps
    <2>2. CASE ~c.latest
      <3>1. free = s
        BY <1>5, <2>2
      <3>2. PanesAwait(s.extra, s.calls)
        BY <1>0, <2>2 DEF PanesAwait
      <3>3. QED
        BY <1>0, <3>1, <3>2, ShowsItself DEF PageKept
    <2>3. QED
      BY <2>1, <2>2
  <1>7. t = CASE c.reply = "ok" /\ c.latest /\ s.user = c.user
                  /\ \E i \in mine : i = c.at /\ s.extra[i].room = c.room -> SyncProgressStreams(Showing(free, mine, c.got))
               [] c.reply = "expired" /\ c.latest -> ShowAuth(s)
               [] c.reply = "denied" /\ c.latest -> SyncProgressStreams(Showing(free, mine, None))
               [] OTHER -> free
    BY <1>3, <1>5, Zenon DEF ExtraReplied
  <1>8. ASSUME NEW a \in Answers \cup {None}, a = None \/ (c.latest /\ a.ver <= v.ver[a.room]),
               \A d \in Answers : a # None /\ Upto(d, c) /\ d # None /\ d.room = a.room => d.ver <= a.ver,
               t = SyncProgressStreams(Showing(free, mine, a))
        PROVE  PageKept(t, v) /\ Forward(p, t)
    <2>1. PICK m : m = Showing(free, mine, a)
      OBVIOUS
    <2>2. a = None \/ (a.ver <= v.ver[a.room] /\ \A i \in mine, d \in free.calls : d.pane = free.extra[i].id => ~d.latest)
      <3>1. ASSUME c.latest, NEW i \in mine, NEW d \in free.calls, d.pane = free.extra[i].id
            PROVE  ~d.latest
        <4>1. i \in DOMAIN s.extra /\ free.extra[i].id = s.extra[i].id /\ s.extra[i].id = c.pane /\ c.pane # 0
          BY <1>2, <1>4, <1>6
        <4>2. d \in s.calls /\ d.pane = c.pane
          BY <1>6, <3>1, <4>1
        <4>3. QED
          BY <1>0, <3>1, <4>1, <4>2
      <3>2. CASE a = None
        BY <3>2
      <3>3. CASE a # None
        <4>1. c.latest /\ a.ver <= v.ver[a.room]
          BY <1>8, <3>3
        <4>2. QED
          BY <3>1, <4>1
      <3>4. QED
        BY <3>2, <3>3
    <2>3. /\ PageKept(m, v) /\ m.data = free.data
          /\ DOMAIN m.extra = DOMAIN free.extra
          /\ \A i \in DOMAIN free.extra : /\ m.extra[i].id = free.extra[i].id /\ m.extra[i].room = free.extra[i].room
                                          /\ m.extra[i].data = IF i \in mine THEN a ELSE free.extra[i].data
      BY <1>4, <1>6, <2>1, <2>2, ShowingKeeps
    <2>4. PageSound(m, v) /\ RoomAwaits(m, m.calls) /\ PanesAwait(m.extra, m.calls) /\ Polled(m, m.calls)
      BY <2>3 DEF PageKept
    <2>5. /\ PageSound(t, v) /\ t.selected = m.selected /\ t.data = m.data /\ t.pollBusy = m.pollBusy
          /\ t.polling = m.polling /\ t.extra = m.extra /\ t.calls = m.calls
      BY <1>8, <2>1, <2>4, SyncKeeps
    <2>6. PageKept(t, v)
      BY <2>4, <2>5 DEF PageKept, RoomAwaits, Polled
    <2>7. ASSUME NEW x \in Elems(p.extra), NEW y \in Elems(t.extra), x.id = y.id, x.room = y.room
          PROVE  NotOlder(x.data, y.data)
      <3>1. PICK i \in DOMAIN p.extra : x = p.extra[i]
        BY DEF Elems
      <3>2. PICK j \in DOMAIN t.extra : y = t.extra[j]
        BY DEF Elems
      <3>3. j \in DOMAIN p.extra /\ y.id = p.extra[j].id /\ y.data = IF j \in mine THEN a ELSE p.extra[j].data
        BY <1>0, <1>6, <2>3, <2>5, <3>2
      <3>4. i = j
        BY <1>1, <2>7, <3>1, <3>3 DEF PageSound, PanesKept
      <3>5. CASE j \in mine
        <4>1. Upto(x.data, c)
          BY <1>0, <1>1, <1>4, <3>1, <3>4, <3>5 DEF PageSound, PanesKept
        <4>2. y.data = a /\ x.data \in Answers \cup {None}
          BY <1>1, <3>1, <3>3, <3>5, PanesTyped DEF PageSound, Panes
        <4>3. QED
          BY <1>8, <4>1, <4>2 DEF NotOlder
      <3>6. CASE j \notin mine
        <4>1. x.data = y.data /\ x.data \in Answers \cup {None}
          BY <1>0, <1>1, <3>1, <3>3, <3>4, <3>6, PanesTyped DEF Panes
        <4>2. x.data # None => x.data.ver \in Nat
          BY <4>1, BoundsAssumption DEF Answers
        <4>3. QED
          BY <4>1, <4>2 DEF NotOlder
      <3>7. QED
        BY <3>5, <3>6
    <2>8. NotOlder(p.data, t.data)
      <3>1. Forward(p, s) /\ t.data = s.data
        BY <1>0, <1>1, <1>6, <2>3, <2>5, ShowsIsForward
      <3>2. QED
        BY <3>1 DEF Forward
    <2>9. QED
      BY <2>6, <2>7, <2>8 DEF Forward
  <1>9. CASE c.reply = "ok" /\ c.latest /\ s.user = c.user /\ \E i \in mine : i = c.at /\ s.extra[i].room = c.room
    <2>1. t = SyncProgressStreams(Showing(free, mine, c.got))
      BY <1>7, <1>9
    <2>2. c.got \in Answers /\ c.got.room = c.room /\ c.got.ver <= v.ver[c.room]
      BY <1>0, <1>9 DEF CallKept
    <2>3. \A d \in Answers : Upto(d, c) /\ d # None /\ d.room = c.got.room => d.ver <= c.got.ver
      BY <1>9, <2>2 DEF Upto
    <2>4. PICK a \in Answers \cup {None} : a = c.got
      BY <2>2
    <2>5. QED
      BY <1>8, <1>9, <2>1, <2>2, <2>3, <2>4
  <1>10. CASE c.reply = "expired" /\ c.latest
    <2>1. t = ShowAuth(s)
      BY <1>7, <1>10
    <2>2. PageKept(t, v) /\ Shows(s, t)
      BY <1>0, <2>1, ShowAuthKeeps
    <2>3. Shows(p, t)
      BY <1>0, <2>2, ShowsOn
    <2>4. QED
      BY <1>1, <2>2, <2>3, ShowsIsForward
  <1>11. CASE c.reply = "denied" /\ c.latest
    <2>1. t = SyncProgressStreams(Showing(free, mine, None))
      BY <1>7, <1>11
    <2>2. PICK a \in Answers \cup {None} : a = None
      OBVIOUS
    <2>3. t = SyncProgressStreams(Showing(free, mine, a))
      BY <2>1, <2>2
    <2>4. QED
      BY <1>8, <2>2, <2>3
  <1>12. CASE /\ ~(c.reply = "ok" /\ c.latest /\ s.user = c.user /\ \E i \in mine : i = c.at /\ s.extra[i].room = c.room)
              /\ ~(c.reply = "expired" /\ c.latest)
              /\ ~(c.reply = "denied" /\ c.latest)
    <2>1. t = free
      BY <1>7, <1>12
    <2>2. Shows(p, t)
      BY <1>0, <1>6, <2>1, ShowsOn
    <2>3. QED
      BY <1>1, <1>6, <2>1, <2>2, ShowsIsForward
  <1>13. QED
    BY <1>9, <1>10, <1>11, <1>12

-----------------------------------------------------------------------------
Relisted(s, rooms, archived, creating) == [s EXCEPT !.rooms = rooms, !.archived = archived, !.creating = creating]

\* The page with another list of rooms, or without the flag of a request that has ended.
LEMMA ListKeeps ==
    ASSUME NEW s, NEW v \in Servers, PageKept(s, v), NEW rooms \in SUBSET Rooms, NEW archived \in SUBSET Rooms, NEW creating \in BOOLEAN,
           s.user = None => rooms = {},
           NEW t, t = Relisted(s, rooms, archived, creating)
    PROVE  /\ PageKept(t, v) /\ Shows(s, t) /\ t.user = s.user /\ t.selected = s.selected /\ t.rooms = rooms
           /\ t.archived = archived /\ t.calls = s.calls
  <1>0. s \in RoomPages /\ PageSound(s, v) /\ RoomAwaits(s, s.calls) /\ PanesAwait(s.extra, s.calls) /\ Polled(s, s.calls)
    BY PageFacts
  <1>1. /\ t \in RoomPages
        /\ t.user = s.user /\ t.rooms = rooms /\ t.archived = archived /\ t.selected = s.selected /\ t.data = s.data
        /\ t.nobodys = s.nobodys /\ t.pollBusy = s.pollBusy /\ t.polling = s.polling /\ t.extra = s.extra
        /\ t.calls = s.calls
    BY <1>0 DEF RoomPages, Relisted
  <1>2. Shows(s, t)
    BY <1>1 DEF Shows
  <1>3. /\ Len(t.extra) <= MaxExtra /\ \A i, j \in DOMAIN t.extra : t.extra[i].id = t.extra[j].id => i = j
        /\ s.user = None => t.rooms = {} /\ DOMAIN t.extra = {}
        /\ t.data # None => t.selected \in {s.selected, None}
    BY <1>0, <1>1 DEF PageSound, PanesKept, SessionKept
  <1>4. PageSound(t, v)
    <2>1. t \in RoomPages /\ t.calls = s.calls /\ t.user = s.user
      BY <1>1
    <2>2. QED
      BY <1>0, <1>2, <1>3, <2>1, RearrangedIsSound
  <1>5. RoomAwaits(t, t.calls) /\ PanesAwait(t.extra, t.calls) /\ Polled(t, t.calls)
    BY <1>0, <1>1 DEF RoomAwaits, PanesAwait, Polled
  <1>6. QED
    BY <1>1, <1>2, <1>4, <1>5 DEF PageKept

LEMMA PickGives ==
    ASSUME NEW rs \in SUBSET Rooms, rs # {}, NEW r
    PROVE  Pick(rs, r) \in rs
  BY DEF Pick

LEMMA SelectableGives ==
    ASSUME NEW s, s.rooms \in SUBSET Rooms, s.rooms # {}
    PROVE  Selectable(s) \in SUBSET Rooms /\ Selectable(s) # {}
  BY DEF Selectable

\* The page selects one of its rooms.
LEMMA SelectAnyKeeps ==
    ASSUME NEW s, NEW v \in Servers, PageKept(s, v), s.rooms # {}, NEW r, NEW t, t = SelectRoom(s, Pick(Selectable(s), r))
    PROVE  PageKept(t, v) /\ Shows(s, t) /\ t.user = s.user
  <1>1. Live(s, v) /\ s.rooms \in SUBSET Rooms
    BY PageFacts
  <1>2. Selectable(s) \in SUBSET Rooms /\ Selectable(s) # {}
    BY <1>1, SelectableGives
  <1>3. PICK id \in Rooms : id = Pick(Selectable(s), r)
    BY <1>2, PickGives
  <1>4. t = SelectRoom(s, id)
    BY <1>3
  <1>5. QED
    BY <1>1, <1>4, SelectRoomKeeps

\* What the server has answered to a call that is not for a room's content.
Told(c) ==
    c.reply = "ok" =>
        /\ c.kind \in Entries => c.got \in Users
        /\ c.kind = "rooms" => c.got.member \in SUBSET Rooms /\ c.got.archived \in SUBSET Rooms

\* loadRooms() after its await.
LEMMA ListedKeeps ==
    ASSUME NEW s, NEW v \in Servers, PageKept(s, v), NEW c, c.kind = "rooms", Told(c), c.current => s.user # None,
           NEW r, NEW t, t = Listed(s, c, r)
    PROVE  PageKept(t, v) /\ Shows(s, t) /\ t.user = s.user
  <1>1. CASE c.reply # "ok" \/ ~c.current
    <2>1. t = s
      BY <1>1 DEF Listed
    <2>2. QED
      BY <2>1, ShowsItself
  <1>2. CASE c.reply = "ok" /\ c.current
    <2>1. PICK rooms \in SUBSET Rooms : rooms = c.got.member
      BY <1>2 DEF Told
    <2>2. PICK archived \in SUBSET Rooms : archived = c.got.archived
      BY <1>2 DEF Told
    <2>3. PICK m : m = [s EXCEPT !.rooms = rooms, !.archived = archived]
      OBVIOUS
    <2>4. t = IF m.rooms = {} THEN ShowEmpty(m)
              ELSE IF s.selected \in m.rooms THEN m ELSE SelectRoom(m, Pick(Selectable(m), r))
      BY <1>2, <2>1, <2>2, <2>3 DEF Listed
    <2>5. PageKept(m, v) /\ Shows(s, m) /\ m.user = s.user
      <3>1. s \in RoomPages
        BY PageFacts
      <3>2. PICK creating \in BOOLEAN : creating = s.creating
        BY <3>1 DEF RoomPages
      <3>3. m = Relisted(s, rooms, archived, creating)
        BY <2>3, <3>1, <3>2 DEF RoomPages, Relisted
      <3>4. s.user # None
        BY <1>2
      <3>5. QED
        BY <3>3, <3>4, ListKeeps
    <2>6. Live(m, v)
      BY <2>5, PageFacts
    <2>7. PageKept(t, v) /\ Shows(m, t) /\ t.user = m.user
      <3>1. CASE m.rooms = {}
        BY <2>4, <2>6, <3>1, ShowEmptyKeeps
      <3>2. CASE m.rooms # {} /\ s.selected \in m.rooms
        BY <2>4, <2>5, <3>2, ShowsItself
      <3>3. CASE m.rooms # {} /\ s.selected \notin m.rooms
        <4>1. t = SelectRoom(m, Pick(Selectable(m), r))
          BY <2>4, <3>3
        <4>2. QED
          BY <2>5, <3>3, <4>1, SelectAnyKeeps
      <3>4. QED
        BY <3>1, <3>2, <3>3
    <2>8. QED
      BY <2>5, <2>7, ShowsOn
  <1>3. QED
    BY <1>1, <1>2

LEMMA RoomsRepliedKeeps ==
    ASSUME NEW s, NEW v \in Servers, PageKept(s, v), NEW c, c.kind = "rooms", Told(c), c.current => s.user # None,
           c.room \in Rooms \cup {None}, NEW r, NEW t, t = RoomsReplied(s, c, r)
    PROVE  PageKept(t, v) /\ Shows(s, t)
  <1>1. PICK m : m = Listed(s, c, r)
    OBVIOUS
  <1>2. PageKept(m, v) /\ Shows(s, m)
    BY <1>1, ListedKeeps
  <1>3. CASE c.room = None
    BY <1>1, <1>2, <1>3 DEF RoomsReplied
  <1>4. CASE c.room # None
    <2>1. PICK id \in Rooms : id = c.room
      BY <1>4
    <2>2. t = SelectRoom(m, id)
      BY <1>1, <1>4, <2>1 DEF RoomsReplied
    <2>3. Live(m, v)
      BY <1>2, PageFacts
    <2>4. PageKept(t, v) /\ Shows(m, t)
      BY <2>2, <2>3, SelectRoomKeeps
    <2>5. QED
      BY <1>2, <2>4, ShowsOn
  <1>5. QED
    BY <1>3, <1>4

\* updateRoomListPreference() after its await.
LEMMA ArchiveRepliedKeeps ==
    ASSUME NEW s, NEW v \in Servers, PageKept(s, v), NEW c, NEW r, NEW t, t = ArchiveReplied(s, c, r)
    PROVE  PageKept(t, v) /\ Shows(s, t)
  <1>0. s \in RoomPages /\ PageSound(s, v) /\ s.rooms \in SUBSET Rooms /\ s.archived \in SUBSET Rooms
    BY PageFacts
  <1>1. CASE c.reply # "ok" \/ ~c.current \/ c.room \notin s.rooms
    <2>1. t = s
      BY <1>1 DEF ArchiveReplied
    <2>2. QED
      BY <2>1, ShowsItself
  <1>2. CASE c.reply = "ok" /\ c.current /\ c.room \in s.rooms
    <2>1. s.user # None /\ s.rooms # {}
      BY <1>0, <1>2 DEF PageSound, SessionKept
    <2>2. PICK archived \in SUBSET Rooms : archived = s.archived \cup {c.room}
      BY <1>0, <1>2
    <2>3. PICK kept : kept = [s EXCEPT !.archived = archived]
      OBVIOUS
    <2>4. PageKept(kept, v) /\ Shows(s, kept) /\ kept.user = s.user /\ kept.rooms = s.rooms
      <3>1. PICK creating \in BOOLEAN : creating = s.creating
        BY <1>0 DEF RoomPages
      <3>2. PICK rooms \in SUBSET Rooms : rooms = s.rooms
        BY <1>0
      <3>3. kept = Relisted(s, rooms, archived, creating)
        BY <1>0, <2>3, <3>1, <3>2 DEF RoomPages, Relisted
      <3>4. QED
        BY <2>1, <3>2, <3>3, ListKeeps
    <2>5. PICK left : left = IF s.selected # c.room THEN kept
                             ELSE IF kept.rooms \subseteq kept.archived THEN ShowEmpty(kept)
                             ELSE SelectRoom(kept, Pick(Selectable(kept), r))
      OBVIOUS
    <2>6. PageKept(left, v) /\ Shows(kept, left) /\ left.user = s.user
      <3>1. Live(kept, v)
        BY <2>4, PageFacts
      <3>2. CASE s.selected # c.room
        <4>1. left = kept
          BY <2>5, <3>2
        <4>2. QED
          BY <2>4, <4>1, ShowsItself
      <3>3. CASE s.selected = c.room /\ kept.rooms \subseteq kept.archived
        <4>1. left = ShowEmpty(kept)
          BY <2>5, <3>3
        <4>2. QED
          BY <2>4, <3>1, <4>1, ShowEmptyKeeps
      <3>4. CASE s.selected = c.room /\ ~(kept.rooms \subseteq kept.archived)
        <4>1. left = SelectRoom(kept, Pick(Selectable(kept), r))
          BY <2>5, <3>4
        <4>2. QED
          BY <2>1, <2>4, <4>1, SelectAnyKeeps
      <3>5. QED
        BY <3>2, <3>3, <3>4
    <2>7. PICK I \in SUBSET (DOMAIN left.extra) : I = {i \in DOMAIN left.extra : left.extra[i].room # c.room}
      OBVIOUS
    <2>8. t = WithPanes(left, Kept(left.extra, I))
      <3>1. [s EXCEPT !.archived = @ \cup {c.room}] = kept
        BY <2>2, <2>3
      <3>2. QED
        BY <1>2, <2>5, <2>7, <3>1, Zenon DEF ArchiveReplied
    <2>9. Live(left, v) /\ left.user # None /\ Polled(left, left.calls)
      BY <2>1, <2>6, PageFacts
    <2>10. Live(t, v) /\ Shows(left, t) /\ Polled(t, t.calls)
      BY <2>8, <2>9, KeptPanesKeep
    <2>11. Shows(s, t)
      BY <2>4, <2>6, <2>10, ShowsOn
    <2>12. QED
      BY <2>10, <2>11 DEF PageKept, Live
  <1>3. QED
    BY <1>1, <1>2

LEMMA NewRepliedKeeps ==
    ASSUME NEW s, NEW v \in Servers, PageKept(s, v), NEW c, c.room \in Rooms \cup {None}, NEW t, t = NewReplied(s, c)
    PROVE  PageKept(t, v) /\ Shows(s, t)
  <1>0. s \in RoomPages /\ PageSound(s, v) /\ s.rooms \in SUBSET Rooms /\ s.archived \in SUBSET Rooms
    BY PageFacts
  <1>1. PICK done : done = [s EXCEPT !.creating = FALSE]
    OBVIOUS
  <1>2. PageKept(done, v) /\ Shows(s, done)
    <2>1. PICK rooms \in SUBSET Rooms : rooms = s.rooms
      BY <1>0
    <2>2. PICK archived \in SUBSET Rooms : archived = s.archived
      BY <1>0
    <2>3. PICK creating \in BOOLEAN : creating = FALSE
      OBVIOUS
    <2>4. done = Relisted(s, rooms, archived, creating)
      BY <1>0, <1>1, <2>1, <2>2, <2>3 DEF RoomPages, Relisted
    <2>5. s.user = None => rooms = {}
      BY <1>0, <2>1 DEF PageSound, SessionKept
    <2>6. QED
      BY <2>4, <2>5, ListKeeps
  <1>3. CASE c.reply # "ok"
    BY <1>1, <1>2, <1>3 DEF NewReplied
  <1>4. CASE c.reply = "ok"
    <2>1. PICK id \in Rooms \cup {None} : id = c.room
      OBVIOUS
    <2>2. t = LoadRooms(done, id)
      BY <1>1, <1>4, <2>1 DEF NewReplied
    <2>3. PageKept(t, v) /\ Shows(done, t)
      BY <1>2, <2>2, LoadRoomsKeeps
    <2>4. QED
      BY <1>2, <2>3, ShowsOn
  <1>5. QED
    BY <1>3, <1>4

-----------------------------------------------------------------------------
\* What handling a call does to the server.
LEMMA EffectKeeps ==
    ASSUME srv \in Servers, NEW c \in Calls, NEW user, NEW ver, CallKept(c, user, ver), NEW w, w = Effect(c)
    PROVE  /\ w \in Servers /\ w.ver = srv.ver
           /\ c.kind = "login" => w.session = c.user
           /\ c.kind # "login" => w.session \in {None, srv.session}
           /\ c.kind = "session" => w = srv
  <1>1. CASE c.kind = "login"
    <2>1. w = [srv EXCEPT !.session = c.user]
      BY <1>1 DEF Effect
    <2>2. PICK u \in Users : u = c.user
      BY <1>1 DEF CallKept
    <2>3. w = [srv EXCEPT !.session = u]
      BY <2>1, <2>2
    <2>4. QED
      BY <1>1, <2>2, <2>3 DEF Servers
  <1>2. CASE c.kind = "logout"
    <2>1. w = [srv EXCEPT !.session = None]
      BY <1>2 DEF Effect
    <2>2. QED
      BY <1>2, <2>1 DEF Servers
  <1>3. CASE c.kind = "archive" /\ srv.session # None
    <2>1. PICK u \in Users : u = srv.session
      BY <1>3 DEF Servers
    <2>2. c.room \in Rooms
      BY <1>3 DEF CallKept
    <2>3. PICK m \in SUBSET Rooms : m = srv.archived[u] \cup {c.room}
      BY <2>2 DEF Servers
    <2>4. w = [srv EXCEPT !.archived[u] = m]
      BY <1>3, <2>1, <2>3 DEF Effect, Servers
    <2>5. w \in Servers /\ w.ver = srv.ver /\ w.session = srv.session
      BY SMTT(30), ZenonT(30), <2>4, ArchiveTyped
    <2>6. QED
      BY <1>3, <2>5
  <1>4. CASE c.kind = "new" /\ srv.session # None
    <2>1. PICK u \in Users : u = srv.session
      BY <1>4 DEF Servers
    <2>2. c.room \in Rooms
      BY <1>4 DEF CallKept
    <2>3. PICK m \in SUBSET Rooms : m = srv.member[u] \cup {c.room}
      BY <2>2 DEF Servers
    <2>4. w = [srv EXCEPT !.member[u] = m]
      BY <1>4, <2>1, <2>3 DEF Effect, Servers
    <2>5. w \in Servers /\ w.ver = srv.ver /\ w.session = srv.session
      BY <2>4, MembershipTyped
    <2>6. QED
      BY <1>4, <2>5
  <1>5. CASE c.kind \notin {"login", "logout"} /\ (c.kind \notin {"archive", "new"} \/ srv.session = None)
    <2>1. w = srv
      BY <1>5 DEF Effect
    <2>2. QED
      BY <1>5, <2>1
  <1>6. QED
    BY <1>1, <1>2, <1>3, <1>4, <1>5

\* What the server answers to it.
LEMMA OtherAnswer ==
    ASSUME srv \in Servers, NEW c \in Calls, c.kind \notin Snapshots, NEW user, NEW ver, CallKept(c, user, ver), NEW d, d = Answered(c)
    PROVE  /\ d.kind = c.kind /\ d.room = c.room /\ d.user = c.user /\ d.pane = c.pane /\ d.latest = c.latest
           /\ d.current = c.current /\ d.select = c.select
           /\ Told(d)
           /\ d.reply = "ok" /\ c.kind = "session" => d.got = srv.session
           /\ d.reply = "ok" /\ c.kind = "login" => d.got = c.user
  <1>1. PICK a : a = Answer(c)
    OBVIOUS
  <1>2. d = [c EXCEPT !.reply = a.reply, !.got = a.got]
    BY <1>1 DEF Answered
  <1>3. /\ d.kind = c.kind /\ d.room = c.room /\ d.user = c.user /\ d.pane = c.pane /\ d.latest = c.latest
        /\ d.current = c.current /\ d.select = c.select /\ d.reply = a.reply /\ d.got = a.got
    BY <1>2 DEF Calls
  <1>4. CASE c.kind = "session"
    <2>1. a = IF srv.session = None THEN No("anon") ELSE Ok(srv.session)
      BY <1>1, <1>4 DEF Answer
    <2>2. a.reply = "ok" => srv.session # None /\ a.got = srv.session
      BY <2>1 DEF No, Ok
    <2>3. srv.session # None => srv.session \in Users
      BY DEF Servers
    <2>4. QED
      BY <1>3, <1>4, <2>2, <2>3 DEF Told
  <1>5. CASE c.kind = "login"
    <2>1. a = Ok(c.user)
      BY <1>1, <1>5 DEF Answer
    <2>2. a.got = c.user /\ c.user \in Users
      BY <1>5, <2>1 DEF Ok, CallKept
    <2>3. QED
      BY <1>3, <1>5, <2>2 DEF Told
  <1>6. CASE c.kind = "rooms"
    <2>1. CASE srv.session = None
      <3>1. a = No("expired")
        BY <1>1, <1>6, <2>1 DEF Answer
      <3>2. QED
        BY <1>3, <1>6, <3>1 DEF Told, No
    <2>2. CASE srv.session # None
      <3>1. a = Ok([member |-> srv.member[srv.session], archived |-> srv.archived[srv.session]])
        BY <1>1, <1>6, <2>2 DEF Answer
      <3>2. srv.member[srv.session] \in SUBSET Rooms /\ srv.archived[srv.session] \in SUBSET Rooms
        BY <2>2 DEF Servers
      <3>3. a.got.member \in SUBSET Rooms /\ a.got.archived \in SUBSET Rooms
        BY <3>1, <3>2 DEF Ok
      <3>4. QED
        BY <1>3, <1>6, <3>3 DEF Told, Entries
    <2>3. QED
      BY <2>1, <2>2
  <1>7. CASE c.kind \notin {"session", "login", "rooms"}
    BY <1>3, <1>7 DEF Told, Entries
  <1>8. QED
    BY <1>4, <1>5, <1>6, <1>7

-----------------------------------------------------------------------------
\* The end of a call that is not for a room's content: the server handles it, or it has failed.
LEMMA OtherRepliedKeeps ==
    ASSUME srv \in Servers, PageKept(web, srv), NEW c \in web.calls, c.kind \notin Snapshots,
           NEW d, d = IF c.reply = "none" THEN Answered(c) ELSE c,
           NEW w, w = IF c.reply = "none" THEN Effect(c) ELSE srv,
           NEW s, s = Without(web, c), NEW r \in Rooms, NEW t, t = Replied(s, d, r)
    PROVE  w \in Servers /\ PageKept(t, w) /\ Shows(web, t)
  <1>1. /\ PageSound(s, srv) /\ Shows(web, s) /\ s.calls = web.calls \ {c} /\ c \in Calls /\ CallKept(c, s.user, srv.ver)
        /\ s.user = web.user
    BY WithoutCall
  <1>2. c.pane = 0 /\ c.kind # "room" /\ c.kind # "extra" /\ c.reply \in {"none", "failed"}
    BY <1>1 DEF CallKept, Snapshots
  <1>3. PageKept(s, srv)
    BY <1>2, WithoutCall DEF PageKept
  \* who is in has no call of a session
  <1>4. c.kind \in Entries => s.user = None /\ \A e \in s.calls : e.kind \notin Entries
    BY <1>1 DEF PageKept, PageSound, SessionKept
  <1>5. /\ w \in Servers /\ w.ver = srv.ver
        /\ c.kind = "login" /\ c.reply = "none" => w.session = c.user
        /\ c.kind # "login" => w.session \in {None, srv.session}
        /\ c.kind = "session" => w = srv
        /\ c.reply # "none" => w = srv
    BY <1>1, EffectKeeps
  <1>6. /\ d.kind = c.kind /\ d.room = c.room /\ d.current = c.current /\ Told(d)
        /\ d.reply = "ok" /\ c.kind = "session" => d.got = srv.session
        /\ d.reply = "ok" /\ c.kind = "login" => d.got = c.user /\ c.reply = "none"
    BY <1>1, <1>2, OtherAnswer DEF Told
  <1>7. PageKept(s, w)
    <2>1. \A q \in Rooms : srv.ver[q] <= w.ver[q]
      BY <1>5, SameVersions
    <2>2. w.session \in {None, srv.session} \/ s.user = None
      BY <1>4, <1>5 DEF Entries
    <2>3. QED
      BY <1>3, <1>5, <2>1, <2>2, ServerMovesKeep
  <1>8. c.room \in Rooms \cup {None} /\ (c.kind = "rooms" /\ c.current => s.user # None)
    BY <1>1 DEF Calls, CallKept
  <1>9. PageKept(t, w) /\ Shows(s, t)
    <2>1. CASE c.kind = "rooms"
      <3>1. t = RoomsReplied(s, d, r)
        BY <1>6, <2>1 DEF Replied
      <3>2. QED
        BY <1>5, <1>6, <1>7, <1>8, <2>1, <3>1, RoomsRepliedKeeps
    <2>2. CASE c.kind = "archive"
      <3>1. t = ArchiveReplied(s, d, r)
        BY <1>6, <2>2 DEF Replied
      <3>2. QED
        BY <1>5, <1>7, <3>1, ArchiveRepliedKeeps
    <2>3. CASE c.kind = "new"
      <3>1. t = NewReplied(s, d)
        BY <1>6, <2>3 DEF Replied
      <3>2. QED
        BY <1>5, <1>6, <1>7, <1>8, <3>1, NewRepliedKeeps
    <2>4. CASE c.kind \in Entries /\ d.reply = "ok"
      <3>1. t = EnterWorkspace(s, d.got)
        BY <1>6, <2>4 DEF Replied, Entries
      <3>2. d.got \in Users
        BY <1>6, <2>4 DEF Told
      <3>3. w.session \in {None, d.got}
        BY <1>5, <1>6, <2>4 DEF Entries
      <3>4. QED
        BY <1>4, <1>5, <1>7, <2>4, <3>1, <3>2, <3>3, EnterWorkspaceKeeps
    <2>5. CASE \/ c.kind = "session" /\ d.reply = "anon"
               \/ c.kind = "logout" /\ d.reply = "ok"
      <3>1. t = ShowAuth(s)
        BY <1>6, <2>5 DEF Replied
      <3>2. QED
        BY <1>5, <1>7, <3>1, ShowAuthKeeps, PageFacts
    <2>6. CASE /\ c.kind \notin {"room", "extra", "rooms", "archive", "new"}
               /\ ~(c.kind \in Entries /\ d.reply = "ok")
               /\ ~(c.kind = "session" /\ d.reply = "anon")
               /\ ~(c.kind = "logout" /\ d.reply = "ok")
      <3>1. t = s
        BY <1>6, <2>6 DEF Replied, Entries
      <3>2. QED
        BY <1>7, <3>1, ShowsItself
    <2>7. QED
      BY <1>2, <2>1, <2>2, <2>3, <2>4, <2>5, <2>6
  <1>10. QED
    BY <1>1, <1>5, <1>9, ShowsOn

LEMMA ReplyKeeps ==
    ASSUME srv \in Servers, PageKept(web, srv), NEW c \in web.calls, Reply(c)
    PROVE  srv' \in Servers /\ PageKept(web', srv') /\ Forward(web, web') /\ budget' = budget
  <1>1. PICK d : d = IF c.reply = "none" THEN Answered(c) ELSE c
    OBVIOUS
  <1>2. PICK s : s = Without(web, c)
    OBVIOUS
  <1>3. /\ c.reply # "none" \/ c.kind \notin Snapshots
        /\ web' \in {Replied(s, d, r) : r \in Rooms}
        /\ srv' = IF c.reply = "none" THEN Effect(c) ELSE srv
        /\ budget' = budget
    BY <1>1, <1>2, Zenon DEF Reply, Without
  <1>4. PICK r \in Rooms : web' = Replied(s, d, r)
    BY <1>3
  <1>5. CASE c.kind \in Snapshots
    <2>1. d = c /\ srv' = srv
      BY <1>1, <1>3, <1>5
    <2>2. CASE c.kind = "room"
      <3>1. web' = RoomReplied(s, c)
        BY <1>4, <2>1, <2>2 DEF Replied
      <3>2. QED
        BY <1>2, <1>3, <2>1, <2>2, <3>1, RoomRepliedKeeps
    <2>3. CASE c.kind = "extra"
      <3>1. web' = ExtraReplied(s, c)
        BY <1>4, <2>1, <2>3 DEF Replied
      <3>2. QED
        BY <1>2, <1>3, <2>1, <2>3, <3>1, ExtraRepliedKeeps
    <2>4. QED
      BY <1>5, <2>2, <2>3 DEF Snapshots
  <1>6. CASE c.kind \notin Snapshots
    <2>1. srv' \in Servers /\ PageKept(web', srv') /\ Shows(web, web')
      BY <1>1, <1>2, <1>3, <1>4, <1>6, OtherRepliedKeeps
    <2>2. PageSound(web, srv)
      BY PageFacts
    <2>3. QED
      BY <1>3, <2>1, <2>2, ShowsIsForward
  <1>7. QED
    BY <1>5, <1>6

-----------------------------------------------------------------------------
LEMMA RoomsStart ==
    ASSUME RoomsInit
    PROVE  RoomsInv
  <1>1. srv \in Servers
    <2>1. PICK ms \in SUBSET OldRooms : srv.member = [u \in Users |-> ms]
      BY DEF RoomsInit
    <2>2. srv.member \in [Users -> SUBSET Rooms]
      BY <2>1, BoundsAssumption
    <2>3. srv.ver \in [Rooms -> 0..MaxVersion]
      <3>1. srv.ver = [q \in Rooms |-> 0]
        BY DEF RoomsInit
      <3>2. QED
        BY <3>1, BoundsAssumption
    <2>4. srv.archived \in [Users -> SUBSET Rooms]
      BY DEF RoomsInit
    <2>5. QED
      BY <2>2, <2>3, <2>4 DEF RoomsInit, Servers
  <1>2. budget \in [clicks : Nat, panes : 0..MaxExtra]
    BY BoundsAssumption DEF RoomsInit
  <1>3. PICK p : p = Page
    OBVIOUS
  <1>4. NoStreams \in Streams
    <2>1. {} \in SUBSET Rooms /\ NoStreams \in [{} -> {"open", "wait", "due"}]
      BY DEF NoStreams
    <2>2. QED
      BY <2>1 DEF Streams
  <1>5. /\ p.user = None /\ p.rooms = {} /\ p.archived = {} /\ p.selected = None /\ p.data = None /\ ~p.pollBusy
        /\ p.extra = <<>> /\ p.calls = {}
    BY <1>3 DEF Page
  <1>6. p \in RoomPages
    <2>1. <<>> \in Seq(Panes)
      BY EmptySeq
    <2>2. QED
      BY <1>3, <1>4, <2>1 DEF Page, RoomPages
  <1>7. DOMAIN p.extra = {} /\ Len(p.extra) = 0
    BY <1>5
  <1>8. PageSound(p, srv)
    <2>1. Len(p.extra) <= MaxExtra
      BY <1>7, BoundsAssumption
    <2>2. LatestIsOne(p.calls) /\ SessionKept(p, srv.session) /\ DataKept(p, srv.ver) /\ PanesKept(p, srv.ver)
      BY <1>5, <1>7, <2>1 DEF LatestIsOne, SessionKept, DataKept, PanesKept
    <2>3. QED
      BY <1>5, <1>6, <2>2 DEF PageSound
  <1>9. Live(p, srv) /\ Polled(p, p.calls)
    BY <1>5, <1>7, <1>8 DEF Live, RoomAwaits, PanesAwait, Polled
  <1>10. PICK c : c = Call(p, "session", None)
    OBVIOUS
  <1>11. c \in Calls /\ c.kind = "session" /\ c.pane = 0 /\ Asks(c, p.user)
    BY <1>6, <1>10, CallAsks DEF Kinds
  <1>12. web = Request(p, c)
    BY <1>3, <1>10 DEF RoomsInit
  <1>13. Live(web, srv) /\ Polled(web, web.calls)
    BY <1>1, <1>5, <1>8, <1>9, <1>11, <1>12, RequestKeeps DEF Snapshots
  <1>14. QED
    BY <1>1, <1>2, <1>13 DEF RoomsInv, PageKept, Live

LEMMA RoomsStep ==
    ASSUME RoomsInv, [RoomsNext]_roomsVars
    PROVE  RoomsInv' /\ Forward(web, web')
  <1>0. srv \in Servers /\ PageKept(web, srv) /\ BudgetOK(budget) /\ PageSound(web, srv)
    BY PageFacts DEF RoomsInv, BudgetOK
  <1>1. ASSUME Moves(web, web', srv'), BudgetOK(budget')
        PROVE  RoomsInv' /\ Forward(web, web')
    BY <1>0, <1>1, ShowsIsForward DEF Moves, RoomsInv, BudgetOK
  <1>2. CASE UserActs
    BY <1>0, <1>1, <1>2, UserActsKeep
  <1>3. CASE ServerActs
    BY <1>0, <1>1, <1>3, ServerActsKeep
  <1>4. CASE Timers
    BY <1>0, <1>1, <1>4, TimersKeep
  <1>5. ASSUME NEW c \in web.calls, Reply(c)
        PROVE  RoomsInv' /\ Forward(web, web')
    <2>1. srv' \in Servers /\ PageKept(web', srv') /\ Forward(web, web') /\ budget' = budget
      BY <1>0, <1>5, ReplyKeeps
    <2>2. QED
      BY <1>0, <2>1 DEF RoomsInv, BudgetOK
  <1>6. CASE UNCHANGED roomsVars
    <2>1. web' = web /\ srv' = srv /\ budget' = budget
      BY <1>6 DEF roomsVars
    <2>2. Moves(web, web', srv')
      BY <1>0, <2>1, ShowsItself DEF Moves
    <2>3. QED
      BY <1>0, <1>1, <2>1, <2>2
  <1>7. QED
    BY <1>2, <1>3, <1>4, <1>5, <1>6 DEF RoomsNext, Replies

\* In every state of the page, whatever waits is held by a call that ends the wait, what
\* is shown is not newer than the answer to its latest refresh, and a call knows its user.
THEOREM RoomsInvariant == RoomsSpec => []RoomsInv
  <1>1. RoomsInit => RoomsInv
    BY RoomsStart
  <1>2. RoomsInv /\ [RoomsNext]_roomsVars => RoomsInv'
    BY RoomsStep
  <1>3. QED
    BY <1>1, <1>2, PTL DEF RoomsSpec

\* The page's state, its requests and its panes are always well formed, and no two panes
\* have one id (state of app.js).
THEOREM RoomsTyped == RoomsSpec => []RoomsTypeOK
  <1>1. RoomsInv => RoomsTypeOK
    BY PageFacts DEF RoomsInv, RoomsTypeOK, RoomPages
  <1>2. QED
    BY <1>1, RoomsInvariant, PTL

\* The main pane never shows the room that was left, nor what the previous user asked
\* for (refreshRoom() of app.js).
THEOREM MainPaneCurrent == RoomsSpec => []MainPaneIsCurrent
  <1>1. RoomsInv => MainPaneIsCurrent
    BY DEF RoomsInv, PageKept, PageSound, DataKept, MainPaneIsCurrent
  <1>2. QED
    BY <1>1, RoomsInvariant, PTL

\* A refresh is held back only by one in flight, and the open room is polled, or will be
\* when its answer arrives (refreshRoom(), refreshExtra() and selectRoom() of app.js).
THEOREM RefreshesNeverWedge == RoomsSpec => []RefreshNeverWedges
  <1>1. RoomsInv => RefreshNeverWedges
    BY DEF RoomsInv, PageKept, RoomAwaits, PanesAwait, Polled, RefreshNeverWedges, Elems
  <1>2. QED
    BY <1>1, RoomsInvariant, PTL

\* No pane goes back to an older answer while it keeps its room and user, in whatever
\* order the answers arrive (refreshRoom() and refreshExtra() of app.js).
THEOREM ViewsNeverGoBack == RoomsSpec => ViewNeverGoesBack
  <1>1. RoomsInv /\ [RoomsNext]_roomsVars => Forward(web, web')
    BY RoomsStep
  <1>2. Forward(web, web') =>
            [/\ NotOlder(web.data, web'.data)
             /\ \A p \in Elems(web.extra), q \in Elems(web'.extra) :
                   p.id = q.id /\ p.room = q.room => NotOlder(p.data, q.data)]_roomsVars
    BY DEF Forward
  <1>3. QED
    BY <1>1, <1>2, RoomsInvariant, PTL DEF RoomsSpec, ViewNeverGoesBack
=============================================================================
