--------------------------- MODULE ServicesProofs ---------------------------
(***************************************************************************)
(* Proofs about what stands beside the conversations of apps/community:    *)
(* releases, the setup of the bot, the broker of desktops, the calls of    *)
(* the models, push notifications and terminals, each under a              *)
(* specification of its own and for any values of its constants.           *)
(*                                                                         *)
(* ReleaseInv follows a deploy: what it has already made new on the way    *)
(* forward (Forward), and, as long as no deploy was cut off before it,     *)
(* that what it noted at the start is what ran, and is still what the way  *)
(* back needs (Untouched, WayBack).  SetupInv keeps memory, vault, the key *)
(* in memory and its file apart, and says that the files have what was     *)
(* acknowledged, and the key of it unless writing it failed (Sound).       *)
(* DesktopInv says how far the room under LOCK is (Made), that whatever    *)
(* runs has a lease, is about to get one or is a stray (Leased), and that  *)
(* there is room for the container in hand (Limited).  ModelInv keeps what *)
(* a message has paid above what it asked for and what it owes the bots    *)
(* that wait (KeptWith).  TerminalInv is that a socket of a terminal has   *)
(* got, or has in its queue, the output of its shell (Watches).  PushInv   *)
(* has every live login at the page, or closed there by a logout begun     *)
(* before it, and lets an operation of the present epoch act for no other  *)
(* login (OpIsOwn).                                                        *)
(***************************************************************************)
EXTENDS Release, BotSetup, DesktopPool, ModelCalls, WebPush, Terminals, FiniteSetTheorems, SequenceTheorems, TLAPS

-----------------------------------------------------------------------------
(* release.py                                                                *)

ReleaseSpec == ReleaseInit /\ [][ReleaseNext]_releaseVars

ReleaseSteps == {"none", "build", "env", "tag", "tag desktop", "tag managed", "desktop", "app", "verify",
          "hash", "release", "restore", "untag", "up"}

\* The steps from which the deploy can still fail and be undone.
Undoable == {"env", "tag", "tag desktop", "tag managed", "desktop", "app", "verify"}

Digests == {DesktopOf(c) : c \in Commits}
Pairs == [app : Commits, desktop : Digests]
Envs == {"before", "views"}

ReleaseTyped ==
    /\ main \in Commits /\ deploys \in Nat /\ tainted \in BOOLEAN
    /\ running \in [app : Commits, desktop : Digests, env : Envs]
    /\ tags \in [app : Commits, desktop : Digests, managed : Digests]
    /\ files \in [env : Envs, hash : Digests, release : Commits]
    /\ deploy \in [at : ReleaseSteps, sha : Commits, changed : BOOLEAN, old : Pairs, oldEnv : Envs]

AtRest ==
    /\ running.app = tags.app /\ running.app = files.release
    /\ running.desktop = tags.desktop /\ running.desktop = files.hash
    /\ running.desktop = DesktopOf(running.app)
    /\ running.env = files.env

\* What a deploy made new stays new until it ends or turns back.
Forward ==
    /\ deploy.at \in {"tag desktop", "tag managed", "desktop"} => deploy.changed
    /\ deploy.at \in {"tag desktop", "tag managed", "desktop", "app", "verify", "hash", "release"}
         => tags.app = deploy.sha
    /\ deploy.at \in {"tag managed", "desktop"} => tags.desktop = DesktopOf(deploy.sha)
    /\ deploy.at \in {"app", "verify", "hash", "release"} /\ deploy.changed
         => tags.desktop = DesktopOf(deploy.sha) /\ running.desktop = DesktopOf(deploy.sha)
    /\ deploy.at \in {"verify", "hash", "release"}
         => running.app = deploy.sha /\ running.env = files.env
    /\ deploy.at = "release" => files.hash = DesktopOf(deploy.sha)

\* Whether the desktop changes was rightly decided, and the old release is what ran.
Noted ==
    /\ deploy.at \in Undoable \cup {"hash", "restore", "untag", "up"} =>
         /\ deploy.changed <=> files.hash # DesktopOf(deploy.sha)
         /\ deploy.old.app = files.release /\ deploy.old.desktop = files.hash
         /\ deploy.old.desktop = DesktopOf(deploy.old.app)
    /\ deploy.at = "build" => deploy.changed <=> files.hash # DesktopOf(deploy.sha)

\* What a deploy has not touched yet, and what it never touches.
Untouched ==
    /\ deploy.at \in {"none", "build", "env"} => AtRest
    /\ deploy.at = "env" => deploy.oldEnv = files.env
    /\ deploy.at \in {"tag", "tag desktop", "tag managed", "desktop"} => running.desktop = deploy.old.desktop
    /\ deploy.at \in {"tag", "tag desktop"} => tags.desktop = deploy.old.desktop
    /\ ~deploy.changed /\ deploy.at \in Undoable \cup {"hash", "release", "restore", "untag", "up"} =>
         running.desktop = tags.desktop /\ running.desktop = files.hash /\ files.hash = DesktopOf(deploy.sha)

WayBack ==
    deploy.at = "up" => tags.app = deploy.old.app /\ tags.desktop = deploy.old.desktop

ReleaseInv ==
    /\ ReleaseTyped /\ Forward
    /\ ~tainted => Noted /\ Untouched /\ WayBack

-----------------------------------------------------------------------------

\* What is at rest when a run begins is consistent.
LEMMA InitReleaseInv == ReleaseInit => ReleaseInv
  <1> SUFFICES ASSUME ReleaseInit PROVE ReleaseInv
    OBVIOUS
  <1>1. DesktopOf(FirstCommit) \in Digests /\ FirstCommit \in Commits
    BY ReleaseAssumption DEF Digests
  <1>2. ReleaseTyped
    BY <1>1 DEF ReleaseInit, ReleaseTyped, NoDeploy, Pairs, Envs, ReleaseSteps
  <1>3. Forward /\ Noted /\ Untouched /\ WayBack
    BY <1>1 DEF ReleaseInit, NoDeploy, Forward, Noted, Untouched, AtRest, WayBack, Undoable
  <1>4. QED
    BY <1>2, <1>3 DEF ReleaseInv

\* No deploy is a deploy that does nothing.
LEMMA NoDeployTyped ==
    /\ NoDeploy \in [at : ReleaseSteps, sha : Commits, changed : BOOLEAN, old : Pairs, oldEnv : Envs]
    /\ NoDeploy.at = "none"
  BY ReleaseAssumption DEF NoDeploy, ReleaseSteps, Digests, Pairs, Envs

\* The two tags of the desktop, each as a step of its own.
LEMMA TwoTags ==
    ASSUME TagDesktop, NEW d, d = DesktopOf(deploy.sha)
    PROVE  \/ /\ deploy.at = "tag desktop"
              /\ tags' = [tags EXCEPT !.desktop = d]
              /\ deploy' = [deploy EXCEPT !.at = "tag managed"]
              /\ UNCHANGED <<main, running, files, deploys, tainted>>
           \/ /\ deploy.at = "tag managed"
              /\ tags' = [tags EXCEPT !.managed = d]
              /\ deploy' = [deploy EXCEPT !.at = "desktop"]
              /\ UNCHANGED <<main, running, files, deploys, tainted>>
  BY DEF TagDesktop

\* The two files, each as a step of its own.
LEMMA TwoFiles ==
    ASSUME WriteState, NEW d, d = DesktopOf(deploy.sha), NEW n, n = NoDeploy
    PROVE  \/ /\ deploy.at = "hash"
              /\ files' = [files EXCEPT !.hash = d]
              /\ deploy' = [deploy EXCEPT !.at = "release"]
              /\ UNCHANGED <<main, running, tags, deploys, tainted>>
           \/ /\ deploy.at = "release"
              /\ files' = [files EXCEPT !.release = deploy.sha]
              /\ deploy' = n
              /\ tainted' = (tainted /\ ~deploy.changed)
              /\ UNCHANGED <<main, running, tags, deploys>>
  BY DEF WriteState

\* The deploys are counted.
LEMMA OneMore ==
    ASSUME deploys \in Nat, NEW c \in Commits, BeginDeploy(c)
    PROVE  deploys' \in Nat
  <1>1. deploys' = deploys + 1
    BY DEF BeginDeploy
  <1>2. QED
    BY <1>1

\* Every step of a release keeps the types.
LEMMA StepKeepsReleaseTyped ==
    ASSUME ReleaseInv, ReleaseNext
    PROVE  ReleaseTyped'
  <1> USE ReleaseAssumption DEF ReleaseInv, ReleaseTyped, Pairs, Envs, ReleaseSteps
  <1>1. /\ FirstCommit \in Commits /\ \A c \in Commits : DesktopOf(c) \in Digests
        /\ NoDeploy \in [at : ReleaseSteps, sha : Commits, changed : BOOLEAN, old : Pairs, oldEnv : Envs]
    BY NoDeployTyped DEF Digests
  <1>2. ASSUME NEW c \in Commits, Push(c) PROVE ReleaseTyped'
    BY <1>2 DEF Push
  <1>3. ASSUME NEW c \in Commits, BeginDeploy(c) PROVE ReleaseTyped'
    <2>1. PICK b \in BOOLEAN : b = (files.hash # DesktopOf(c))
      OBVIOUS
    <2>2. PICK n \in [at : ReleaseSteps, sha : Commits, changed : BOOLEAN, old : Pairs, oldEnv : Envs] :
            n = NoDeploy
      BY NoDeployTyped
    <2>3. deploy' = [n EXCEPT !.at = "build", !.sha = c, !.changed = b]
      BY <1>3, <2>1, <2>2 DEF BeginDeploy
    <2>4. deploy' \in [at : ReleaseSteps, sha : Commits, changed : BOOLEAN, old : Pairs, oldEnv : Envs]
      BY <1>1, <2>3
    <2>5. deploys' = deploys + 1 /\ UNCHANGED <<main, running, tags, files, tainted>>
      BY <1>3 DEF BeginDeploy
    <2>6. deploys' \in Nat
      BY <1>3, OneMore
    <2>7. QED
      BY <2>4, <2>5, <2>6
  <1>4. CASE Build
    BY <1>4 DEF Build
  <1>5. CASE UpdateEnv
    BY <1>5 DEF UpdateEnv
  <1>6. CASE TagApp
    BY <1>6 DEF TagApp
  <1>7. CASE TagDesktop
    <2>1. PICK d \in Digests : d = DesktopOf(deploy.sha)
      BY DEF Digests
    <2>2. CASE deploy.at = "tag desktop"
      <3>1. /\ tags' = [tags EXCEPT !.desktop = d] /\ deploy' = [deploy EXCEPT !.at = "tag managed"]
            /\ UNCHANGED <<main, running, files, deploys, tainted>>
        BY <1>7, <2>1, <2>2, TwoTags
      <3>2. tags' \in [app : Commits, desktop : Digests, managed : Digests]
        BY <3>1
      <3>3. deploy' \in [at : ReleaseSteps, sha : Commits, changed : BOOLEAN, old : Pairs, oldEnv : Envs]
        BY <3>1
      <3>4. QED
        BY <3>1, <3>2, <3>3
    <2>3. CASE deploy.at = "tag managed"
      <3>1. /\ tags' = [tags EXCEPT !.managed = d] /\ deploy' = [deploy EXCEPT !.at = "desktop"]
            /\ UNCHANGED <<main, running, files, deploys, tainted>>
        BY <1>7, <2>1, <2>3, TwoTags
      <3>4. QED
        BY <3>1
    <2>4. QED
      BY <1>7, <2>1, <2>2, <2>3, TwoTags
  <1>8. CASE UpDesktop \/ UpApp
    BY ZenonT(30), SMTT(30), <1>8 DEF UpDesktop, UpApp
  <1>9. CASE Verify \/ StepFails
    BY ZenonT(30), SMTT(30), <1>9 DEF Verify, StepFails
  <1>10. CASE WriteState
    <2>1. PICK d \in Digests : d = DesktopOf(deploy.sha)
      BY DEF Digests
    <2>2. CASE deploy.at = "hash"
      <3>1. /\ files' = [files EXCEPT !.hash = d] /\ deploy' = [deploy EXCEPT !.at = "release"]
            /\ UNCHANGED <<main, running, tags, deploys, tainted>>
        BY <1>10, <2>1, <2>2, TwoFiles
      <3>2. files' \in [env : Envs, hash : Digests, release : Commits]
        BY <3>1
      <3>3. deploy' \in [at : ReleaseSteps, sha : Commits, changed : BOOLEAN, old : Pairs, oldEnv : Envs]
        BY <3>1
      <3>4. QED
        BY <3>1, <3>2, <3>3
    <2>3. CASE deploy.at = "release"
      <3>1. /\ files' = [files EXCEPT !.release = deploy.sha] /\ deploy' = NoDeploy
            /\ tainted' \in BOOLEAN /\ UNCHANGED <<main, running, tags, deploys>>
        BY <1>10, <2>1, <2>3, TwoFiles
      <3>2. QED
        BY <1>1, <3>1
    <2>4. QED
      BY <1>10, <2>1, <2>2, <2>3, TwoFiles
  <1>11. CASE RestoreEnv
    BY <1>11 DEF RestoreEnv
  <1>12. CASE RestoreTags
    BY <1>12 DEF RestoreTags
  <1>13. CASE UpAgain
    BY <1>1, <1>13 DEF UpAgain
  <1>14. CASE GivesUp
    BY <1>1, <1>14 DEF GivesUp
  <1>15. QED
    BY <1>2, <1>3, <1>4, <1>5, <1>6, <1>7, <1>8, <1>9, <1>10, <1>11, <1>12, <1>13, <1>14
    DEF ReleaseNext

\* The steps forward, one after the other.
LEMMA ForwardStepsKeepReleaseInv ==
    ASSUME ReleaseInv, ReleaseTyped',
           \/ Build \/ UpdateEnv \/ TagApp \/ TagDesktop \/ UpDesktop \/ UpApp \/ Verify \/ WriteState
    PROVE  ReleaseInv'
  <1> USE DEF ReleaseInv, ReleaseTyped, Forward, Noted, Untouched, WayBack, AtRest, Undoable, Pairs
  <1>1. CASE Build
    BY <1>1 DEF Build
  <1>2. CASE UpdateEnv
    BY <1>2 DEF UpdateEnv
  <1>3. CASE TagApp
    BY <1>3 DEF TagApp
  <1>4. CASE TagDesktop
    <2>1. PICK d \in Digests : d = DesktopOf(deploy.sha)
      BY DEF Digests
    <2>2. CASE deploy.at = "tag desktop"
      <3>1. /\ tags' = [tags EXCEPT !.desktop = d] /\ deploy' = [deploy EXCEPT !.at = "tag managed"]
            /\ UNCHANGED <<main, running, files, deploys, tainted>>
        BY <1>4, <2>1, <2>2, TwoTags
      <3>2. /\ tags'.app = tags.app /\ tags'.desktop = DesktopOf(deploy.sha)
            /\ deploy'.at = "tag managed" /\ deploy'.sha = deploy.sha /\ deploy'.changed = deploy.changed
            /\ deploy'.old = deploy.old
        BY <2>1, <3>1
      <3>3. UNCHANGED <<running, files, tainted>>
        BY <3>1
      <3>4. QED
        BY <2>2, <3>2, <3>3
    <2>3. CASE deploy.at = "tag managed"
      <3>1. /\ tags' = [tags EXCEPT !.managed = d] /\ deploy' = [deploy EXCEPT !.at = "desktop"]
            /\ UNCHANGED <<main, running, files, deploys, tainted>>
        BY <1>4, <2>1, <2>3, TwoTags
      <3>2. QED
        BY <2>3, <3>1
    <2>4. QED
      BY <1>4, <2>1, <2>2, <2>3, TwoTags
  <1>5. CASE UpDesktop
    BY <1>5 DEF UpDesktop
  <1>6. CASE UpApp
    BY <1>6 DEF UpApp
  <1>7. CASE Verify
    BY <1>7 DEF Verify
  <1>8. CASE WriteState
    <2>1. PICK d \in Digests : d = DesktopOf(deploy.sha)
      BY DEF Digests
    <2>2. CASE deploy.at = "hash"
      <3>1. /\ files' = [files EXCEPT !.hash = d] /\ deploy' = [deploy EXCEPT !.at = "release"]
            /\ UNCHANGED <<main, running, tags, deploys, tainted>>
        BY <1>8, <2>1, <2>2, TwoFiles
      <3>2. /\ files'.hash = DesktopOf(deploy.sha) /\ files'.env = files.env
            /\ deploy'.at = "release" /\ deploy'.sha = deploy.sha /\ deploy'.changed = deploy.changed
        BY <2>1, <3>1
      <3>3. UNCHANGED <<running, tags, tainted>>
        BY <3>1
      <3>4. QED
        BY <2>2, <3>2, <3>3
    <2>3. CASE deploy.at = "release"
      <3>1. /\ files' = [files EXCEPT !.release = deploy.sha] /\ deploy' = NoDeploy
            /\ tainted' = (tainted /\ ~deploy.changed) /\ UNCHANGED <<running, tags>>
        BY <1>8, <2>1, <2>3, TwoFiles
      <3>2. /\ files'.release = deploy.sha /\ files'.env = files.env /\ files'.hash = files.hash
            /\ deploy'.at = "none"
        BY <3>1, NoDeployTyped
      <3>3. /\ tags'.app = deploy.sha /\ running'.app = deploy.sha /\ running'.env = files'.env
            /\ files'.hash = DesktopOf(deploy.sha)
        BY <2>3, <3>1, <3>2
      <3>4. CASE deploy.changed
        BY <2>3, <3>1, <3>2, <3>3, <3>4
      <3>5. CASE ~deploy.changed
        BY <2>3, <3>1, <3>2, <3>3, <3>5
      <3>6. QED
        BY <3>4, <3>5
    <2>4. QED
      BY <1>8, <2>1, <2>2, <2>3, TwoFiles
  <1>9. QED
    BY <1>1, <1>2, <1>3, <1>4, <1>5, <1>6, <1>7, <1>8

\* The way back, and the ends of a deploy.
LEMMA BackStepsKeepReleaseInv ==
    ASSUME ReleaseInv, ReleaseTyped',
           \/ StepFails \/ RestoreEnv \/ RestoreTags \/ UpAgain \/ GivesUp
           \/ \E c \in Commits : Push(c) \/ BeginDeploy(c)
    PROVE  ReleaseInv'
  <1> USE DEF ReleaseInv, ReleaseTyped, Forward, Noted, Untouched, WayBack, AtRest, Undoable, Pairs
  <1>1. CASE StepFails
    BY <1>1 DEF StepFails
  <1>2. CASE RestoreEnv
    BY <1>2 DEF RestoreEnv
  <1>3. CASE RestoreTags
    BY <1>3 DEF RestoreTags
  <1>4. CASE UpAgain
    BY <1>4 DEF UpAgain, Services, NoDeploy
  <1>5. CASE GivesUp
    BY <1>5 DEF GivesUp, NoDeploy
  <1>6. ASSUME NEW c \in Commits, Push(c) PROVE ReleaseInv'
    BY <1>6 DEF Push
  <1>7. ASSUME NEW c \in Commits, BeginDeploy(c) PROVE ReleaseInv'
    BY <1>7 DEF BeginDeploy, NoDeploy
  <1>8. QED
    BY <1>1, <1>2, <1>3, <1>4, <1>5, <1>6, <1>7

\* After any number of deploys that failed at any step and were undone, and after a whole
\* desktop release that follows one that was cut off, what runs is what the tags and files
\* name.
THEOREM Consistency == ReleaseSpec => []RestIsConsistent
  <1>1. ASSUME ReleaseInv, [ReleaseNext]_releaseVars PROVE ReleaseInv'
    <2>1. CASE UNCHANGED releaseVars
      BY <1>1, <2>1 DEF releaseVars, ReleaseInv, ReleaseTyped, Forward, Noted, Untouched, WayBack, AtRest
    <2>2. CASE ReleaseNext
      <3>1. ReleaseTyped'
        BY <1>1, <2>2, StepKeepsReleaseTyped
      <3>2. QED
        BY <1>1, <2>2, <3>1, ForwardStepsKeepReleaseInv, BackStepsKeepReleaseInv DEF ReleaseNext
    <2>3. QED
      BY <1>1, <2>1, <2>2
  <1>2. ReleaseInv => RestIsConsistent
    BY DEF ReleaseInv, Untouched, AtRest, RestIsConsistent
  <1>3. QED
    BY <1>1, <1>2, InitReleaseInv, PTL DEF ReleaseSpec

-----------------------------------------------------------------------------
(* setup-vault.mjs and setup.js                                              *)

SetupSpec == SetupInit /\ [][SetupNext]_setupVars

VaultStates ==
    [mem : Settings, disk : Settings, hasKey : BOOLEAN, key : {"absent", "torn", "written"},
     unkeyed : BOOLEAN, up : BOOLEAN, jobs : BOOLEAN, stops : Nat]

SetupStates ==
    [user : Admins \cup {NoAdmin}, open : BOOLEAN, form : BOOLEAN, busy : BOOLEAN, prompted : SUBSET (Admins \cup {NoAdmin}),
     calls : SUBSET SetupCalls]

\* A vault v that lost nothing up to change k: the key is in its file before the first
\* vault, unless writing it failed; without a key there is no vault yet.
Sound(v, k) ==
    /\ v.disk.serial >= k
    /\ ~v.unkeyed /\ v.disk # NoSettings => v.key = "written"
    /\ v.up => v.mem = v.disk
    /\ v.up /\ v.hasKey /\ ~v.unkeyed => v.key = "written"
    /\ v.up /\ ~v.hasKey => v.disk = NoSettings /\ ~v.unkeyed

SetupInv ==
    /\ setup \in SetupStates
    /\ vault \in VaultStates
    /\ kept \in 0..MaxSaves
    /\ \A c \in setup.calls : c.kind = "save" => c.what # ""
    /\ Sound(vault, kept)

\* Nothing has been set up.
LEMMA SetupStart == SetupInit => SetupInv
  <1> SUFFICES ASSUME SetupInit PROVE SetupInv
    OBVIOUS
  <1>1. NoSettings \in Settings /\ NoSettings.serial = 0
    BY SetupAssumption DEF NoSettings, Settings, Backends
  <1>2. PICK n : n = NoSettings
    OBVIOUS
  <1>3. vault \in VaultStates /\ vault.disk = n /\ vault.mem = n /\ ~vault.hasKey /\ ~vault.unkeyed
    <2>1. /\ vault = [mem |-> n, disk |-> n, hasKey |-> FALSE, key |-> "absent",
                      unkeyed |-> FALSE, up |-> TRUE, jobs |-> FALSE, stops |-> 0]
          /\ n \in Settings
      BY <1>1, <1>2 DEF SetupInit
    <2>2. QED
      BY <2>1 DEF VaultStates
  <1>4. setup \in SetupStates /\ setup.calls = {}
    BY DEF SetupInit, SetupStates
  <1>5. kept = 0 /\ kept \in 0 .. MaxSaves
    BY SetupAssumption DEF SetupInit
  <1>6. Sound(vault, kept)
    BY <1>1, <1>2, <1>3, <1>5 DEF Sound
  <1>7. QED
    BY <1>3, <1>4, <1>5, <1>6 DEF SetupInv

\* A change of the settings counts them on.
LEMMA ChangedIsNext ==
    ASSUME SetupInv, NEW what \in {"profile", "api", "gateway", "use-api", "use-gateway"}, MayChange(what)
    PROVE  /\ Changed(what) \in Settings /\ Changed(what) # NoSettings
           /\ Changed(what).serial = vault.mem.serial + 1 /\ Changed(what).serial \in 0 .. MaxSaves
  <1>1. vault.mem \in Settings /\ vault.mem.serial < MaxSaves
    BY DEF SetupInv, VaultStates, MayChange
  <1>2. PICK k \in 0 .. MaxSaves : k = vault.mem.serial + 1
    BY <1>1, SetupAssumption DEF Settings
  <1>3. PICK s : s = [vault.mem EXCEPT !.serial = k]
    OBVIOUS
  <1>4. s \in Settings /\ s.serial = k
    BY <1>1, <1>2, <1>3 DEF Settings
  <1>5. Changed(what) = CASE what = "profile" -> [s EXCEPT !.completed = TRUE]
                          [] what \in {"api", "gateway"} -> [s EXCEPT !.connected = @ \cup {what}]
                          [] what = "use-api" -> [s EXCEPT !.backend = "api"]
                          [] what = "use-gateway" -> [s EXCEPT !.backend = "gateway"]
    BY <1>2, <1>3 DEF Changed
  <1>6. Changed(what) \in Settings /\ Changed(what).serial = k
    <2>1. CASE what = "profile"
      BY <1>4, <1>5, <2>1 DEF Settings
    <2>2. CASE what \in {"api", "gateway"}
      <3>1. PICK cs \in SUBSET {"api", "gateway"} : cs = s.connected \cup {what}
        BY <1>4, <2>2 DEF Settings
      <3>2. Changed(what) = [s EXCEPT !.connected = cs]
        BY <1>5, <2>2, <3>1
      <3>3. QED
        BY <1>4, <3>2 DEF Settings
    <2>3. CASE what = "use-api"
      BY <1>4, <1>5, <2>3 DEF Settings, Backends
    <2>4. CASE what = "use-gateway"
      BY <1>4, <1>5, <2>4 DEF Settings, Backends
    <2>5. QED
      BY <2>1, <2>2, <2>3, <2>4
  <1>7. k # 0
    BY <1>1, <1>2 DEF Settings
  <1>8. NoSettings.serial = 0
    BY DEF NoSettings
  <1>9. QED
    BY <1>2, <1>6, <1>7, <1>8

\* The server stops, comes back or is busy.
LEMMA ServerKeepsSetup ==
    ASSUME SetupInv, \/ StopServer \/ StartServer \/ JobChanges
    PROVE  SetupInv'
  <1>1. /\ vault \in VaultStates /\ Sound(vault, kept) /\ setup' = setup /\ kept' = kept
    BY DEF SetupInv, StopServer, StartServer, JobChanges
  <1>2. CASE StopServer
    <2>1. PICK n \in Nat : n = vault.stops + 1
      BY <1>1 DEF VaultStates
    <2>2. vault' = [vault EXCEPT !.up = FALSE, !.jobs = FALSE, !.stops = n]
      BY <1>2, <2>1 DEF StopServer
    <2>3. vault' \in VaultStates /\ Sound(vault', kept)
      BY <1>1, <2>2 DEF VaultStates, Sound
    <2>4. QED
      BY <1>1, <2>3 DEF SetupInv, Sound
  <1>3. CASE StartServer
    <2>1. PICK d \in Settings : d = vault.disk
      BY <1>1 DEF VaultStates
    <2>2. PICK b \in BOOLEAN : b <=> vault.key = "written"
      OBVIOUS
    <2>3. b = (vault.key = "written")
      BY <2>2
    <2>4. vault' = [vault EXCEPT !.up = TRUE, !.mem = d, !.hasKey = b, !.unkeyed = FALSE]
      BY <1>3, <2>1, <2>3 DEF StartServer
    <2>5. vault.disk # NoSettings => vault.key = "written"
      BY <1>3 DEF StartServer, Readable
    <2>6. vault' \in VaultStates /\ Sound(vault', kept)
      BY <1>1, <2>1, <2>2, <2>4, <2>5 DEF VaultStates, Sound
    <2>7. QED
      BY <1>1, <2>6 DEF SetupInv, Sound
  <1>4. CASE JobChanges
    <2>1. PICK b \in BOOLEAN : vault' = [vault EXCEPT !.jobs = b]
      BY <1>1, <1>4 DEF JobChanges, VaultStates
    <2>2. vault' \in VaultStates /\ Sound(vault', kept)
      BY <1>1, <2>1 DEF VaultStates, Sound
    <2>3. QED
      BY <1>1, <2>2 DEF SetupInv, Sound
  <1>5. QED
    BY <1>2, <1>3, <1>4

\* A call of the dialog has its answer, or none any more.
LEMMA ServedIsCall ==
    ASSUME SetupInv, NEW c \in setup.calls, NEW how \in {"ok", "refused", "lost"}, Served(c, how)
    PROVE  setup' \in SetupStates /\ \A d \in setup'.calls : d.kind = "save" => d.what # ""
  <1>1. PICK b \in BOOLEAN : b = (c.kind = "onboard" /\ ~vault.mem.completed /\ Connected = {})
    OBVIOUS
  <1>2. PICK d : d = [c EXCEPT !.served = how, !.required = b]
    OBVIOUS
  <1>3. c \in SetupCalls /\ (c.kind = "save" => c.what # "")
    BY DEF SetupInv, SetupStates
  <1>4. d \in SetupCalls /\ d.kind = c.kind /\ d.what = c.what
    BY <1>1, <1>2, <1>3 DEF SetupCalls
  <1>5. PICK cs : cs = (setup.calls \ {c}) \cup {d}
    OBVIOUS
  <1>6. cs \in SUBSET SetupCalls /\ \A e \in cs : e.kind = "save" => e.what # ""
    BY <1>3, <1>4, <1>5 DEF SetupInv, SetupStates
  <1>7. setup' = [setup EXCEPT !.calls = cs]
    BY <1>1, <1>2, <1>5 DEF Served
  <1>8. QED
    BY <1>6, <1>7 DEF SetupInv, SetupStates

\* A setting is saved, or a write of it fails.
LEMMA SaveKeepsSetup ==
    ASSUME SetupInv, NEW c \in setup.calls, ServeSave(c) \/ SaveFails(c)
    PROVE  SetupInv'
  <1>1. /\ vault \in VaultStates /\ Sound(vault, kept) /\ kept \in 0 .. MaxSaves
        /\ vault.up /\ c.what \in {"profile", "api", "gateway", "use-api", "use-gateway"}
    <2>1. c \in SetupCalls /\ c.kind = "save" /\ c.what # "" /\ vault.up
      BY DEF SetupInv, SetupStates, ServeSave, SaveFails
    <2>2. QED
      BY <2>1 DEF SetupCalls, SetupInv
  <1>2. CASE ServeSave(c) /\ MayChange(c.what)
    <2>1. PICK s : s = Changed(c.what)
      OBVIOUS
    <2>2. s \in Settings /\ s.serial \in 0 .. MaxSaves /\ s # NoSettings
      BY <1>1, <1>2, <2>1, ChangedIsNext
    <2>3. PICK k : k = KeyFile
      OBVIOUS
    <2>4. k \in {"absent", "torn", "written"} /\ (vault.hasKey => k = vault.key) /\ (~vault.hasKey => k = "written")
      BY <1>1, <2>3 DEF KeyFile, VaultStates
    <2>5. /\ vault' = [vault EXCEPT !.hasKey = TRUE, !.key = k, !.disk = s, !.mem = s]
          /\ kept' = s.serial /\ Served(c, "ok")
      BY <1>2, <2>1, <2>3 DEF ServeSave, SaveVault
    <2>6. /\ vault' \in VaultStates /\ vault'.disk = s /\ vault'.mem = s /\ vault'.key = k
          /\ vault'.hasKey /\ vault'.unkeyed = vault.unkeyed
      BY <1>1, <2>2, <2>4, <2>5 DEF VaultStates
    <2>7. ~vault.unkeyed => k = "written"
      BY <1>1, <2>4 DEF Sound
    <2>8. s.serial >= s.serial
      BY <2>2, SetupAssumption
    <2>9. Sound(vault', s.serial)
      BY <2>6, <2>7, <2>8 DEF Sound
    <2>10. QED
      BY <2>2, <2>5, <2>6, <2>9, ServedIsCall DEF SetupInv, Sound
  <1>3. CASE ServeSave(c) /\ ~MayChange(c.what)
    <2>1. vault' = vault /\ kept' = kept /\ Served(c, "refused")
      BY <1>3 DEF ServeSave
    <2>2. QED
      BY <1>1, <2>1, ServedIsCall DEF SetupInv, Sound
  <1>4. CASE SaveFails(c)
    <2>1. vault' \in SaveThrows /\ kept' = kept /\ Served(c, "refused")
      BY <1>4 DEF SaveFails
    <2>2. CASE vault.hasKey
      <3>1. vault' = vault
        BY <2>1, <2>2 DEF SaveThrows
      <3>2. QED
        BY <1>1, <2>1, <3>1, ServedIsCall DEF SetupInv, Sound
    <2>3. CASE ~vault.hasKey
      <3>1. PICK k \in {"absent", "torn", "written"} :
               vault' = [vault EXCEPT !.hasKey = TRUE, !.key = k, !.unkeyed = (k # "written")]
        BY <2>1, <2>3 DEF SaveThrows
      <3>2. PICK b \in BOOLEAN : b = (k # "written")
        OBVIOUS
      <3>3. vault' = [vault EXCEPT !.hasKey = TRUE, !.key = k, !.unkeyed = b]
        BY <3>1, <3>2
      <3>4. vault' \in VaultStates /\ Sound(vault', kept)
        BY <1>1, <2>3, <3>2, <3>3 DEF VaultStates, Sound
      <3>5. QED
        BY <1>1, <2>1, <3>4, ServedIsCall DEF SetupInv, Sound
    <2>4. QED
      BY <2>2, <2>3
  <1>5. QED
    BY <1>2, <1>3, <1>4

\* What a stop during a save leaves.
LEMMA StepsAreSound ==
    ASSUME SetupInv, vault.up, NEW s \in Settings, s # NoSettings, s.serial = vault.mem.serial + 1, NEW v \in Steps(s)
    PROVE  /\ v \in VaultStates /\ v.disk.serial >= kept
           /\ ~v.unkeyed /\ v.disk # NoSettings => v.key = "written"
  <1>1. /\ vault \in VaultStates /\ Sound(vault, kept) /\ kept \in 0 .. MaxSaves
        /\ vault.mem = vault.disk /\ vault.mem.serial \in 0 .. MaxSaves
    <2>1. vault \in VaultStates /\ Sound(vault, kept) /\ kept \in 0 .. MaxSaves
      BY DEF SetupInv
    <2>2. vault.mem = vault.disk /\ vault.mem \in Settings
      BY <2>1 DEF Sound, VaultStates
    <2>3. QED
      BY <2>1, <2>2 DEF Settings
  <1>2. vault.disk.serial >= kept /\ s.serial >= kept
    BY <1>1, SetupAssumption DEF Sound
  <1>3. CASE ~vault.hasKey /\ \E k \in {"absent", "torn", "written"} : v = [vault EXCEPT !.key = k]
    BY <1>1, <1>3 DEF VaultStates, Sound
  <1>4. CASE v = [vault EXCEPT !.key = "written", !.disk = s]
    <2>1. v \in VaultStates /\ v.disk = s /\ v.key = "written"
      BY <1>1, <1>4 DEF VaultStates
    <2>2. QED
      BY <1>2, <2>1
  <1>5. CASE vault.hasKey /\ \E d \in {vault.disk, s} : v = [vault EXCEPT !.disk = d]
    <2>1. PICK d \in {vault.disk, s} : v = [vault EXCEPT !.disk = d]
      BY <1>5
    <2>2. d \in Settings /\ d.serial >= kept
      BY <1>1, <1>2 DEF VaultStates
    <2>3. v \in VaultStates /\ v.disk = d /\ v.key = vault.key /\ v.unkeyed = vault.unkeyed
      BY <1>1, <2>1, <2>2 DEF VaultStates
    <2>4. ~vault.unkeyed => vault.key = "written"
      BY <1>1, <1>5 DEF Sound
    <2>5. QED
      BY <2>2, <2>3, <2>4
  <1>6. QED
    BY <1>3, <1>4, <1>5 DEF Steps

\* The server stops while it saves.
LEMMA CrashKeepsSetup ==
    ASSUME SetupInv, NEW c \in setup.calls, CrashInSave(c)
    PROVE  SetupInv'
  <1>1. vault.up /\ MayChange(c.what) /\ c.what \in {"profile", "api", "gateway", "use-api", "use-gateway"}
    <2>1. c \in SetupCalls /\ c.kind = "save" /\ c.what # ""
      BY DEF SetupInv, SetupStates, CrashInSave
    <2>2. QED
      BY <2>1 DEF SetupCalls, CrashInSave
  <1>2. PICK s : s = Changed(c.what)
    OBVIOUS
  <1>3. StopDuring(s) /\ Served(c, "lost") /\ kept' = kept
    BY <1>2 DEF CrashInSave
  <1>4. s \in Settings /\ s # NoSettings /\ s.serial = vault.mem.serial + 1
    BY <1>1, <1>2, ChangedIsNext
  <1>5. PICK v \in Steps(s) : vault' = [v EXCEPT !.up = FALSE, !.jobs = FALSE, !.stops = @ + 1]
    BY <1>3 DEF StopDuring
  <1>6. /\ v \in VaultStates /\ v.disk.serial >= kept
        /\ ~v.unkeyed /\ v.disk # NoSettings => v.key = "written"
    BY <1>1, <1>4, StepsAreSound
  <1>7. PICK n \in Nat : n = v.stops + 1
    BY <1>6 DEF VaultStates
  <1>8. vault' = [v EXCEPT !.up = FALSE, !.jobs = FALSE, !.stops = n]
    BY <1>5, <1>7
  <1>9. vault' \in VaultStates /\ Sound(vault', kept)
    BY <1>6, <1>8 DEF VaultStates, Sound
  <1>10. QED
    BY <1>3, <1>9, ServedIsCall DEF SetupInv, Sound

\* A dialog with its calls.
Dialog(s) == s \in SetupStates /\ \A c \in s.calls : c.kind = "save" => c.what # ""

\* An epoch of the dialog ends: its calls stay what they are.
LEMMA EpochIsDialog ==
    ASSUME NEW s, Dialog(s)
    PROVE  Dialog(NextEpoch(s)) /\ Dialog(ResetSetup(s))
  <1>1. PICK cs : cs = {[c EXCEPT !.current = FALSE] : c \in s.calls}
    OBVIOUS
  <1>2. cs \in SUBSET SetupCalls /\ \A d \in cs : d.kind = "save" => d.what # ""
    <2> SUFFICES ASSUME NEW d \in cs PROVE d \in SetupCalls /\ (d.kind = "save" => d.what # "")
      OBVIOUS
    <2>1. PICK c \in s.calls : d = [c EXCEPT !.current = FALSE]
      BY <1>1
    <2>2. c \in SetupCalls /\ (c.kind = "save" => c.what # "")
      BY DEF Dialog, SetupStates
    <2>3. QED
      BY <2>1, <2>2 DEF SetupCalls
  <1>3. NextEpoch(s) = [s EXCEPT !.calls = cs]
    BY <1>1 DEF NextEpoch
  <1>4. PICK t : t = NextEpoch(s)
    OBVIOUS
  <1>5. t \in SetupStates /\ t.calls = cs
    BY <1>2, <1>3, <1>4 DEF Dialog, SetupStates
  <1>6. ResetSetup(s) = [t EXCEPT !.busy = FALSE, !.open = FALSE, !.form = FALSE]
    BY <1>4 DEF ResetSetup
  <1>7. ResetSetup(s) \in SetupStates /\ ResetSetup(s).calls = cs
    BY <1>5, <1>6 DEF SetupStates
  <1>8. QED
    BY <1>2, <1>4, <1>5, <1>7 DEF Dialog

\* A call is added.
LEMMA CallIsDialog ==
    ASSUME NEW s, Dialog(s), NEW kind \in {"open", "onboard", "save", "probe"},
           NEW what \in {"profile", "api", "gateway", "use-api", "use-gateway", ""}, kind = "save" => what # "",
           NEW t, NEW cs, cs = s.calls \cup {SetupCall(kind, what)}, t = [s EXCEPT !.calls = cs]
    PROVE  Dialog(t)
  <1>1. PICK c : c = SetupCall(kind, what)
    OBVIOUS
  <1>2. c \in SetupCalls /\ c.kind = kind /\ c.what = what
    BY <1>1 DEF SetupCall, SetupCalls
  <1>3. cs \in SUBSET SetupCalls /\ \A d \in cs : d.kind = "save" => d.what # ""
    BY <1>1, <1>2 DEF Dialog, SetupStates
  <1>4. t \in SetupStates /\ t.calls = cs
    BY <1>3 DEF Dialog, SetupStates
  <1>5. QED
    BY <1>3, <1>4 DEF Dialog

\* The dialog opens.
LEMMA OpenIsDialog ==
    ASSUME NEW s, Dialog(s), NEW kind \in {"open", "onboard"}
    PROVE  Dialog(OpenSetup(s, kind))
  <1>1. PICK n : n = NextEpoch(s)
    OBVIOUS
  <1>2. Dialog(n)
    BY <1>1, EpochIsDialog
  <1>3. PICK b \in BOOLEAN : b = (kind = "open")
    OBVIOUS
  <1>4. PICK m : m = [n EXCEPT !.open = b, !.form = FALSE]
    OBVIOUS
  <1>5. Dialog(m) /\ m.calls = n.calls
    BY <1>2, <1>3, <1>4 DEF Dialog, SetupStates
  <1>6. PICK cs : cs = n.calls \cup {SetupCall(kind, "")}
    OBVIOUS
  <1>7. OpenSetup(s, kind) = [n EXCEPT !.open = b, !.form = FALSE, !.calls = cs]
    BY <1>1, <1>3, <1>6 DEF OpenSetup
  <1>8. PICK t : t = [m EXCEPT !.calls = cs]
    OBVIOUS
  <1>9. t = OpenSetup(s, kind)
    BY <1>2, <1>4, <1>7, <1>8 DEF Dialog, SetupStates
  <1>10. Dialog(t)
    BY <1>5, <1>6, <1>8, CallIsDialog
  <1>11. QED
    BY <1>9, <1>10

\* What the administrator does, and an answer that reaches the dialog, changes nothing
\* at the server.
LEMMA DialogKeepsSetup ==
    ASSUME SetupInv,
           \/ \E a \in Admins : AdminEnters(a)
           \/ AdminLeaves \/ MaybePrompt \/ ClickOpen \/ ClickClose
           \/ \E kind \in {"save", "probe"}, what \in {"profile", "api", "gateway", "use-api", "use-gateway", ""} :
                 ClickSetup(kind, what)
           \/ \E c \in setup.calls : SetupReplied(c)
    PROVE  SetupInv'
  <1>1. Dialog(setup) /\ setup \in SetupStates
    BY DEF SetupInv, Dialog
  <1>2. CASE \E a \in Admins : AdminEnters(a)
    <2>1. PICK a \in Admins : AdminEnters(a)
      BY <1>2
    <2>2. setup' = [setup EXCEPT !.user = a] /\ UNCHANGED <<vault, kept>>
      BY <2>1 DEF AdminEnters
    <2>3. Dialog(setup')
      BY <1>1, <2>2 DEF Dialog, SetupStates
    <2>4. QED
      BY <2>2, <2>3 DEF SetupInv, Dialog, Sound
  <1>3. CASE AdminLeaves
    <2>1. PICK t : t = ResetSetup(setup)
      OBVIOUS
    <2>2. setup' = [t EXCEPT !.user = NoAdmin] /\ UNCHANGED <<vault, kept>>
      BY <1>3, <2>1 DEF AdminLeaves
    <2>3. Dialog(t)
      BY <1>1, <2>1, EpochIsDialog
    <2>4. Dialog(setup')
      BY <2>2, <2>3 DEF Dialog, SetupStates
    <2>5. QED
      BY <2>2, <2>4 DEF SetupInv, Dialog, Sound
  <1>4. CASE MaybePrompt
    <2>1. PICK u : u = setup.prompted \cup {setup.user}
      OBVIOUS
    <2>2. u \in SUBSET (Admins \cup {NoAdmin})
      BY <1>1, <2>1 DEF SetupStates
    <2>3. PICK t : t = [setup EXCEPT !.prompted = u]
      OBVIOUS
    <2>4. Dialog(t)
      BY <1>1, <2>2, <2>3 DEF Dialog, SetupStates
    <2>5. setup' = OpenSetup(t, "onboard") /\ UNCHANGED <<vault, kept>>
      BY <1>4, <2>1, <2>3 DEF MaybePrompt
    <2>6. Dialog(setup')
      BY <2>4, <2>5, OpenIsDialog
    <2>7. QED
      BY <2>5, <2>6 DEF SetupInv, Dialog, Sound
  <1>5. CASE ClickOpen
    <2>1. setup' = OpenSetup(setup, "open") /\ UNCHANGED <<vault, kept>>
      BY <1>5 DEF ClickOpen
    <2>2. Dialog(setup')
      BY <1>1, <2>1, OpenIsDialog
    <2>3. QED
      BY <2>1, <2>2 DEF SetupInv, Dialog, Sound
  <1>6. CASE ClickClose
    <2>1. setup' = ResetSetup(setup) /\ UNCHANGED <<vault, kept>>
      BY <1>6 DEF ClickClose
    <2>2. Dialog(setup')
      BY <1>1, <2>1, EpochIsDialog
    <2>3. QED
      BY <2>1, <2>2 DEF SetupInv, Dialog, Sound
  <1>7. CASE \E kind \in {"save", "probe"}, what \in {"profile", "api", "gateway", "use-api", "use-gateway", ""} :
                ClickSetup(kind, what)
    <2>1. PICK kind \in {"save", "probe"}, what \in {"profile", "api", "gateway", "use-api", "use-gateway", ""} :
              ClickSetup(kind, what)
      BY <1>7
    <2>2. PICK cs : cs = setup.calls \cup {SetupCall(kind, what)}
      OBVIOUS
    <2>3. setup' = [setup EXCEPT !.busy = TRUE, !.calls = cs] /\ UNCHANGED <<vault, kept>> /\ (kind = "save" => what # "")
      BY <2>1, <2>2 DEF ClickSetup
    <2>4. PICK t : t = [setup EXCEPT !.calls = cs]
      OBVIOUS
    <2>5. Dialog(t)
      BY <1>1, <2>2, <2>3, <2>4, CallIsDialog
    <2>6. setup' = [t EXCEPT !.busy = TRUE]
      BY <1>1, <2>3, <2>4 DEF SetupStates
    <2>7. Dialog(setup')
      BY <2>5, <2>6 DEF Dialog, SetupStates
    <2>8. QED
      BY <2>3, <2>7 DEF SetupInv, Dialog, Sound
  <1>8. CASE \E c \in setup.calls : SetupReplied(c)
    <2>1. PICK c \in setup.calls : SetupReplied(c)
      BY <1>8
    <2>2. PICK cs : cs = setup.calls \ {c}
      OBVIOUS
    <2>3. PICK s : s = [setup EXCEPT !.calls = cs]
      OBVIOUS
    <2>4. Dialog(s)
      <3>1. cs \in SUBSET SetupCalls /\ \A d \in cs : d.kind = "save" => d.what # ""
        BY <1>1, <2>2 DEF Dialog, SetupStates
      <3>2. s \in SetupStates /\ s.calls = cs
        BY <1>1, <2>3, <3>1 DEF SetupStates
      <3>3. QED
        BY <3>1, <3>2 DEF Dialog
    <2>5. setup' = Answered(s, c) /\ UNCHANGED <<vault, kept>>
      BY <2>1, <2>2, <2>3 DEF SetupReplied
    <2>6. c \in SetupCalls
      BY <1>1 DEF SetupStates
    <2>7. c.current \in BOOLEAN /\ c.kind \in {"open", "onboard", "save", "probe"}
      BY <2>6 DEF SetupCalls
    <2>8. Dialog(Answered(s, c))
      <3>1. PICK b \in BOOLEAN : b = (c.served = "ok")
        OBVIOUS
      <3>2. Dialog([s EXCEPT !.open = TRUE, !.form = TRUE]) /\ Dialog([s EXCEPT !.form = b]) /\ Dialog([s EXCEPT !.busy = FALSE])
        BY <2>4, <3>1 DEF Dialog, SetupStates
      <3>3. Answered(s, c) \in {s, [s EXCEPT !.open = TRUE, !.form = TRUE], [s EXCEPT !.form = b], [s EXCEPT !.busy = FALSE]}
        <4>1. CASE ~c.current
          BY <4>1 DEF Answered
        <4>2. CASE c.current /\ c.kind = "onboard"
          BY <4>2 DEF Answered
        <4>3. CASE c.current /\ c.kind = "open"
          BY <3>1, <4>3 DEF Answered
        <4>4. CASE c.current /\ c.kind \in {"save", "probe"}
          BY <4>4 DEF Answered
        <4>5. QED
          BY <2>7, <4>1, <4>2, <4>3, <4>4
      <3>4. QED
        BY <2>4, <3>2, <3>3
    <2>9. QED
      BY <2>5, <2>8 DEF SetupInv, Dialog, Sound
  <1>9. QED
    BY <1>2, <1>3, <1>4, <1>5, <1>6, <1>7, <1>8

\* setup-vault.mjs: the vault is written before its change is acknowledged, and the key
\* before the first vault, unless writing the key failed and the server went on.
THEOREM SetupInvariant == SetupSpec => []SetupInv
  <1>1. SetupInit => SetupInv
    BY SetupStart
  <1>2. SetupInv /\ [SetupNext]_setupVars => SetupInv'
    <2> SUFFICES ASSUME SetupInv, [SetupNext]_setupVars PROVE SetupInv'
      OBVIOUS
    <2>1. CASE StopServer \/ StartServer \/ JobChanges
      BY <2>1, ServerKeepsSetup
    <2>2. CASE AdminLeaves \/ MaybePrompt \/ ClickOpen \/ ClickClose \/ \E a \in Admins : AdminEnters(a)
      BY <2>2, DialogKeepsSetup
    <2>3. CASE \/ \E w \in {"profile", "api", "gateway", "use-api", "use-gateway"} : ClickSetup("save", w)
               \/ ClickSetup("probe", "")
      <3>1. \E kind \in {"save", "probe"}, what \in {"profile", "api", "gateway", "use-api", "use-gateway", ""} :
                ClickSetup(kind, what)
        BY <2>3
      <3>2. QED
        BY <3>1, DialogKeepsSetup
    <2>4. ASSUME NEW c \in setup.calls, ServeSave(c) \/ SaveFails(c) \/ CrashInSave(c) PROVE SetupInv'
      BY <2>4, SaveKeepsSetup, CrashKeepsSetup
    <2>5. ASSUME NEW c \in setup.calls, ServeOther(c) \/ CallLost(c) PROVE SetupInv'
      <3>1. (Served(c, "ok") \/ Served(c, "lost")) /\ UNCHANGED <<vault, kept>>
        BY <2>5 DEF ServeOther, CallLost
      <3>2. setup' \in SetupStates /\ \A d \in setup'.calls : d.kind = "save" => d.what # ""
        BY <3>1, ServedIsCall
      <3>3. QED
        BY <3>1, <3>2 DEF SetupInv, Sound
    <2>6. ASSUME NEW c \in setup.calls, SetupReplied(c) PROVE SetupInv'
      BY <2>6, DialogKeepsSetup
    <2>7. CASE UNCHANGED setupVars
      BY <2>7 DEF setupVars, SetupInv, Sound
    <2>8. QED
      BY <2>1, <2>2, <2>3, <2>4, <2>5, <2>6, <2>7 DEF SetupNext
  <1>3. QED
    BY <1>1, <1>2, PTL DEF SetupSpec

\* setup-vault.mjs: whenever the server stops, also in the middle of a save or after one
\* that threw, it can be started again and has every setting it acknowledged - unless it
\* could not write its key and saved under it, or a stop during the very first save tore
\* the key.
THEOREM SettingsSurvive == SetupSpec => []SavedSettingsSurvive
  <1>1. SetupInv => SavedSettingsSurvive
    <2> SUFFICES ASSUME SetupInv PROVE SavedSettingsSurvive
      OBVIOUS
    <2>1. vault \in VaultStates /\ Sound(vault, kept)
      BY DEF SetupInv
    <2>2. vault.disk # Torn
      <3>1. vault.disk.backend \in Backends
        BY <2>1 DEF VaultStates, Settings
      <3>2. Torn.backend = "torn"
        BY DEF Torn, NoSettings
      <3>3. QED
        BY <3>1, <3>2 DEF Backends
    <2>3. QED
      BY <2>1, <2>2 DEF SavedSettingsSurvive, Readable, Sound, VaultStates
  <1>2. QED
    BY <1>1, SetupInvariant, PTL

-----------------------------------------------------------------------------
(* service.py                                                                *)

DesktopSpec == DesktopInit /\ [][DesktopNext]_desktopVars

FolderStates == [made : {"none", "folder", "slot", "disk"}, slot : 0..MaxStored, mounted : BOOLEAN]

ContainerStates == {"none", "stopped", "running"}

Locks ==
    [kind : {"free", "ensure", "reap"}, room : Desktops \cup {NoDesktop},
     step : {"", "folder", "slot", "home", "create", "start", "lease"}, info : ContainerStates, rest : Seq(Desktops)]

DesktopTyped ==
    /\ folders \in [Desktops -> FolderStates]
    /\ containers \in [Desktops -> ContainerStates]
    /\ leases \in [Desktops -> {"none", "fresh", "old"}]
    /\ broker \in [up : BOOLEAN, lates : Nat, lock : Locks]
    /\ asked \in [Desktops -> Nat]
    /\ pending \subseteq Desktops
    /\ late \subseteq [command : {"create", "start", "stop"}, room : Desktops]
    /\ strays \subseteq Desktops

HasSlot(folder) == folder.made \in {"slot", "disk"}

SlotsApart(made) == \A r, s \in Desktops : HasSlot(made[r]) /\ HasSlot(made[s]) /\ made[r].slot = made[s].slot => r = s

\* A slot is written before the disk is made, no two rooms have the same, and a lease or
\* a container is for a room that has both, a lease for one that has it mounted.
RoomsMade ==
    /\ \A r \in Desktops :
          /\ HasSlot(folders[r]) <=> folders[r].slot # 0
          /\ containers[r] # "none" => folders[r].made = "disk"
          /\ leases[r] # "none" => folders[r].made = "disk" /\ folders[r].mounted
    /\ SlotsApart(folders)

\* How far the room in hand is.
Made(lock) ==
    CASE lock.step = "folder" -> folders[lock.room].made = "none"
      [] lock.step = "slot" -> folders[lock.room].made = "folder"
      [] lock.step = "home" -> folders[lock.room].made # "none"
      [] OTHER -> folders[lock.room].made = "disk" /\ folders[lock.room].mounted

LockKept(b) ==
    /\ ~b.up => b.lock = Free /\ \A r \in Desktops : leases[r] = "none"
    /\ b.lock.kind = "ensure" => b.lock.room \in Desktops /\ b.lock.step # "" /\ Made(b.lock)
    /\ b.lock.kind = "reap" => b.lock.rest # <<>>

\* A command that was given up is for a room that has its disk.
LateKept(b) ==
    /\ \A l \in late : folders[l.room].made = "disk"
    /\ b.lates = 0 => late = {}

\* Whatever runs is leased, or about to be, or a stray.
Leased(b) ==
    /\ b.up => \A r \in InUse : leases[r] # "none" \/ r \in strays \/ (b.lock.kind = "ensure" /\ b.lock.step = "lease" /\ b.lock.room = r)
    /\ \A r \in InUse : r \in strays \/ folders[r].mounted

\* There is room for one more until the container in hand is started.
Limited(b) ==
    b.lates = 0 =>
        /\ Cardinality(InUse) <= MaxRunning
        /\ b.lock.kind = "ensure" /\ b.lock.step # "lease" /\ containers[b.lock.room] # "running" =>
              Cardinality(InUse) < MaxRunning

DesktopInv == DesktopTyped /\ RoomsMade /\ LockKept(broker) /\ LateKept(broker) /\ Leased(broker) /\ Limited(broker)

\* LOCK, free.
LEMMA FreeIsLock == Free \in Locks /\ Free.kind = "free"
  <1>1. <<>> \in Seq(Desktops)
    OBVIOUS
  <1>2. PICK e \in Seq(Desktops) : e = <<>>
    BY <1>1
  <1>3. Free = [kind |-> "free", room |-> NoDesktop, step |-> "", info |-> "none", rest |-> e]
    BY <1>2 DEF Free
  <1>4. QED
    BY <1>3 DEF Locks, ContainerStates

\* Nothing is stored and nothing runs.
LEMMA DesktopStart == DesktopInit => DesktopInv
  <1> SUFFICES ASSUME DesktopInit PROVE DesktopInv
    OBVIOUS
  <1>1. Free \in Locks /\ Free.kind = "free"
    BY FreeIsLock
  <1>2. broker \in [up : BOOLEAN, lates : Nat, lock : Locks] /\ broker.lock = Free /\ broker.up /\ broker.lates = 0
    <2>1. PICK f \in Locks : f = Free
      BY <1>1
    <2>2. broker = [up |-> TRUE, lates |-> 0, lock |-> f]
      BY <2>1 DEF DesktopInit
    <2>3. QED
      BY <2>1, <2>2
  <1>3. folders \in [Desktops -> FolderStates]
    BY DesktopAssumption DEF DesktopInit, FolderStates
  <1>4. DesktopTyped
    BY <1>2, <1>3 DEF DesktopInit, DesktopTyped, ContainerStates
  <1>5. RoomsMade
    BY DEF DesktopInit, RoomsMade, HasSlot, SlotsApart
  <1>6. InUse = {}
    BY DEF DesktopInit, InUse
  <1>7. Cardinality(InUse) = 0
    BY <1>6, FS_EmptySet
  <1>8. LockKept(broker) /\ LateKept(broker) /\ Leased(broker) /\ Limited(broker)
    <2>1. late = {} /\ broker.lock.kind = "free"
      BY <1>1, <1>2 DEF DesktopInit
    <2>2. LockKept(broker) /\ LateKept(broker)
      BY <1>2, <2>1 DEF LockKept, LateKept
    <2>3. Leased(broker)
      BY <1>6 DEF Leased
    <2>4. 0 <= MaxRunning
      BY DesktopAssumption
    <2>5. QED
      BY <1>7, <2>1, <2>2, <2>3, <2>4 DEF Limited
  <1>9. QED
    BY <1>4, <1>5, <1>8 DEF DesktopInv

\* What runs is a finite set, and one container changes it by one room at most.
LEMMA OneContainer ==
    ASSUME DesktopTyped, NEW r \in Desktops, NEW x \in ContainerStates, containers' = [containers EXCEPT ![r] = x]
    PROVE  /\ containers' \in [Desktops -> ContainerStates]
           /\ InUse' = IF x = "running" THEN InUse \cup {r} ELSE InUse \ {r}
           /\ Cardinality(InUse) \in Nat /\ Cardinality(InUse') \in Nat
           /\ r \in InUse <=> containers[r] = "running"
           /\ x # "running" => /\ Cardinality(InUse') <= Cardinality(InUse)
                               /\ r \in InUse => Cardinality(InUse') < Cardinality(InUse)
           /\ x = "running" => /\ Cardinality(InUse') <= Cardinality(InUse) + 1
                               /\ r \in InUse => Cardinality(InUse') = Cardinality(InUse)
  <1>1. containers' \in [Desktops -> ContainerStates]
    BY DEF DesktopTyped
  <1>2. InUse' = IF x = "running" THEN InUse \cup {r} ELSE InUse \ {r}
    BY DEF DesktopTyped, InUse
  <1>3. IsFiniteSet(InUse)
    BY DesktopAssumption, FS_Subset DEF InUse
  <1>4. Cardinality(InUse) \in Nat
    BY <1>3, FS_CardinalityType
  <1>5. /\ Cardinality(InUse \cup {r}) = (IF r \in InUse THEN Cardinality(InUse) ELSE Cardinality(InUse) + 1)
        /\ Cardinality(InUse \ {r}) = (IF r \in InUse THEN Cardinality(InUse) - 1 ELSE Cardinality(InUse))
        /\ IsFiniteSet(InUse \ {r}) /\ IsFiniteSet(InUse \cup {r})
    BY <1>3, FS_AddElement, FS_RemoveElement
  <1>6. Cardinality(InUse \ {r}) \in Nat /\ Cardinality(InUse \cup {r}) \in Nat
    BY <1>5, FS_CardinalityType
  <1>7. r \in InUse <=> containers[r] = "running"
    BY DEF InUse
  <1>8. QED
    BY <1>1, <1>2, <1>4, <1>5, <1>6, <1>7

\* A step that changes neither rooms nor containers nor what is late: the broker after it
\* holds LOCK for what is there.
LEMMA LockMoves ==
    ASSUME DesktopInv, UNCHANGED <<folders, containers, leases, late, strays>>,
           NEW b \in [up : BOOLEAN, lates : Nat, lock : Locks], broker' = b,
           asked' \in [Desktops -> Nat], pending' \subseteq Desktops,
           LockKept(b), b.lates = broker.lates, Leased(b), Limited(b)
    PROVE  DesktopInv'
  <1>1. InUse' = InUse
    BY DEF InUse
  <1>2. DesktopTyped' /\ RoomsMade'
    BY DEF DesktopInv, DesktopTyped, RoomsMade
  <1>3. LockKept(broker)'
    BY DEF LockKept, Made
  <1>4. LateKept(broker)'
    BY DEF LateKept, DesktopInv
  <1>5. Leased(broker)'
    BY <1>1 DEF Leased
  <1>6. Limited(broker)'
    BY <1>1 DEF Limited
  <1>7. QED
    BY <1>2, <1>3, <1>4, <1>5, <1>6 DEF DesktopInv

\* LOCK is given back, unless a container was just started under it.
LEMMA LockFreed ==
    ASSUME DesktopInv, broker.lock.kind # "ensure" \/ broker.lock.step # "lease"
    PROVE  /\ [broker EXCEPT !.lock = Free] \in [up : BOOLEAN, lates : Nat, lock : Locks]
           /\ LockKept([broker EXCEPT !.lock = Free]) /\ Leased([broker EXCEPT !.lock = Free])
           /\ Limited([broker EXCEPT !.lock = Free])
  <1>1. PICK f \in Locks : f = Free
    BY FreeIsLock
  <1>2. f.kind = "free"
    BY <1>1, FreeIsLock
  <1>3. PICK b : b = [broker EXCEPT !.lock = f]
    OBVIOUS
  <1>4. b \in [up : BOOLEAN, lates : Nat, lock : Locks] /\ b.lock = f /\ b.up = broker.up /\ b.lates = broker.lates
    BY <1>1, <1>3 DEF DesktopInv, DesktopTyped
  <1>5. LockKept(b) /\ Leased(b) /\ Limited(b)
    BY <1>1, <1>2, <1>4 DEF DesktopInv, LockKept, Leased, Limited
  <1>6. QED
    BY <1>1, <1>3, <1>4, <1>5

\* What a handler asks for, or no longer waits for.
LEMMA AskingKeepsDesktops ==
    ASSUME DesktopInv, NEW r \in Desktops, AskDesktop(r) \/ AskTimesOut(r)
    PROVE  DesktopInv'
  <1>1. /\ UNCHANGED <<folders, containers, leases, late, strays>> /\ broker' = broker
        /\ broker \in [up : BOOLEAN, lates : Nat, lock : Locks]
    BY DEF AskDesktop, AskTimesOut, DesktopInv, DesktopTyped
  <1>2. asked' \in [Desktops -> Nat] /\ pending' \subseteq Desktops
    <2>1. asked \in [Desktops -> Nat] /\ pending \subseteq Desktops
      BY DEF DesktopInv, DesktopTyped
    <2>2. PICK n \in Nat : n = asked[r] + 1
      BY <2>1
    <2>3. asked' = asked \/ asked' = [asked EXCEPT ![r] = n]
      BY <2>2 DEF AskDesktop, AskTimesOut
    <2>4. QED
      BY <2>1, <2>3 DEF AskDesktop, AskTimesOut
  <1>3. LockKept(broker) /\ Leased(broker) /\ Limited(broker)
    BY DEF DesktopInv
  <1>4. QED
    BY <1>1, <1>2, <1>3, LockMoves

\* A handler takes LOCK for its room, or has to give up.
LEMMA BeginKeepsDesktops ==
    ASSUME DesktopInv, NEW r \in Desktops, BeginEnsure(r)
    PROVE  DesktopInv'
  <1>1. /\ UNCHANGED <<folders, containers, leases, late, strays>>
        /\ broker \in [up : BOOLEAN, lates : Nat, lock : Locks] /\ containers[r] \in ContainerStates
        /\ broker.up /\ broker.lock = Free
    BY DEF BeginEnsure, DesktopInv, DesktopTyped, Lock
  <1>2. asked' \in [Desktops -> Nat] /\ pending' \subseteq Desktops
    <2>1. asked \in [Desktops -> Nat] /\ pending \subseteq Desktops /\ asked[r] > 0
      BY DEF DesktopInv, DesktopTyped, BeginEnsure
    <2>2. PICK n \in Nat : n = asked[r] - 1
      BY <2>1
    <2>3. asked' = [asked EXCEPT ![r] = n]
      BY <2>2 DEF BeginEnsure
    <2>4. pending' \subseteq pending
      BY DEF BeginEnsure
    <2>5. QED
      BY <2>1, <2>3, <2>4
  <1>3. CASE MayHave(r)
    <2>1. PICK f \in Locks : f = Free
      BY FreeIsLock
    <2>2. PICK step : step = IF folders[r].made = "none" THEN "folder" ELSE "home"
      OBVIOUS
    <2>3. PICK k : k = [f EXCEPT !.kind = "ensure", !.room = r, !.info = containers[r], !.step = step]
      OBVIOUS
    <2>4. k \in Locks /\ k.kind = "ensure" /\ k.room = r /\ k.step = step /\ step \in {"folder", "home"}
      BY <1>1, <2>1, <2>2, <2>3 DEF Locks
    <2>5. PICK b : b = [broker EXCEPT !.lock = k]
      OBVIOUS
    <2>6. b \in [up : BOOLEAN, lates : Nat, lock : Locks] /\ b.lock = k /\ b.up = broker.up /\ b.lates = broker.lates
      BY <1>1, <2>4, <2>5
    <2>7. broker' = b
      BY <1>3, <2>1, <2>2, <2>3, <2>5 DEF BeginEnsure
    <2>8. LockKept(b)
      <3>1. Made(k)
        BY <2>2, <2>4 DEF Made
      <3>2. QED
        BY <1>1, <2>4, <2>6, <3>1 DEF LockKept
    <2>9. Leased(b)
      BY <1>1, <2>4, <2>6, FreeIsLock DEF DesktopInv, Leased
    <2>10. Limited(b)
      <3>1. containers[r] # "running" => Cardinality(InUse) < MaxRunning
        BY <1>3 DEF MayHave
      <3>2. broker.lates = 0 => Cardinality(InUse) <= MaxRunning
        BY DEF DesktopInv, Limited
      <3>3. QED
        BY <2>4, <2>6, <3>1, <3>2 DEF Limited
    <2>11. QED
      BY <1>1, <1>2, <2>6, <2>7, <2>8, <2>9, <2>10, LockMoves
  <1>4. CASE ~MayHave(r)
    <2>1. broker' = broker
      BY <1>4 DEF BeginEnsure
    <2>2. LockKept(broker) /\ Leased(broker) /\ Limited(broker)
      BY DEF DesktopInv
    <2>3. QED
      BY <1>1, <1>2, <2>1, <2>2, LockMoves
  <1>5. QED
    BY <1>3, <1>4

\* The next step of the room in hand.
LEMMA Went ==
    ASSUME DesktopTyped, NEW step \in {"slot", "home", "create", "start", "lease"},
           broker' = [broker EXCEPT !.lock.step = step]
    PROVE  /\ broker' \in [up : BOOLEAN, lates : Nat, lock : Locks]
           /\ broker'.up = broker.up /\ broker'.lates = broker.lates
           /\ broker'.lock.kind = broker.lock.kind /\ broker'.lock.room = broker.lock.room /\ broker'.lock.step = step
           /\ broker'.lock.rest = broker.lock.rest
  <1>1. PICK k : k = [broker.lock EXCEPT !.step = step]
    OBVIOUS
  <1>2. broker.lock \in Locks /\ broker \in [up : BOOLEAN, lates : Nat, lock : Locks]
    BY DEF DesktopTyped
  <1>3. k \in Locks /\ k.kind = broker.lock.kind /\ k.room = broker.lock.room /\ k.step = step /\ k.rest = broker.lock.rest
    BY <1>1, <1>2 DEF Locks
  <1>4. broker' = [broker EXCEPT !.lock = k]
    BY <1>1
  <1>5. QED
    BY <1>2, <1>3, <1>4

\* A folder was made further: nothing of it is undone, and a slot is a new one.
Grown(was, e) ==
    /\ HasSlot(e) <=> e.slot # 0
    /\ was.made = "disk" => e.made = "disk"
    /\ was.mounted => e.mounted
    /\ HasSlot(e) => (HasSlot(was) /\ e.slot = was.slot) \/ \A s \in Desktops : HasSlot(folders[s]) => folders[s].slot # e.slot

\* Only room r may have changed, and its slot, if new, was nobody's.
OneGiven(was, is, r) ==
    /\ \A x \in Desktops : x # r => is[x] = was[x]
    /\ HasSlot(is[r]) => (HasSlot(was[r]) /\ is[r].slot = was[r].slot)
                          \/ \A x \in Desktops : HasSlot(was[x]) => was[x].slot # is[r].slot

\* A slot that was nobody's leaves all slots apart.
LEMMA GivenApart ==
    ASSUME NEW was, NEW is, NEW r \in Desktops, SlotsApart(was), OneGiven(was, is, r)
    PROVE  SlotsApart(is)
  <1> SUFFICES ASSUME NEW s \in Desktops, NEW t \in Desktops, HasSlot(is[s]), HasSlot(is[t]), is[s].slot = is[t].slot
               PROVE  s = t
    BY DEF SlotsApart
  <1>1. CASE s = r
    BY <1>1 DEF SlotsApart, OneGiven
  <1>2. CASE t = r
    BY <1>2 DEF SlotsApart, OneGiven
  <1>3. CASE s # r /\ t # r
    BY <1>3 DEF SlotsApart, OneGiven
  <1>4. QED
    BY <1>1, <1>2, <1>3

\* One folder changes, of the room in hand, which nothing runs in yet.
LEMMA FolderKeepsDesktops ==
    ASSUME DesktopInv, broker.lock.kind = "ensure", NEW e \in FolderStates,
           folders' = [folders EXCEPT ![broker.lock.room] = e],
           UNCHANGED <<containers, leases, late, strays, asked, pending>>,
           broker' \in [up : BOOLEAN, lates : Nat, lock : Locks],
           broker'.up = broker.up, broker'.lates = broker.lates, broker.lock.step # "lease",
           broker'.lock.kind = "ensure", broker'.lock.room = broker.lock.room, broker'.lock.step # "",
           Grown(folders[broker.lock.room], e), Made(broker.lock)'
    PROVE  DesktopInv'
  <1>1. PICK r \in Desktops : r = broker.lock.room
    BY DEF DesktopInv, LockKept
  <1>2. /\ folders \in [Desktops -> FolderStates] /\ folders' \in [Desktops -> FolderStates] /\ folders'[r] = e
        /\ \A s \in Desktops : s # r => folders'[s] = folders[s]
    BY <1>1 DEF DesktopInv, DesktopTyped
  <1>3. DesktopTyped'
    BY <1>2 DEF DesktopInv, DesktopTyped
  <1>4. /\ e.made \in {"slot", "disk"} <=> e.slot # 0
        /\ folders[r].made = "disk" => e.made = "disk"
        /\ folders[r].mounted => e.mounted
        /\ HasSlot(e) => (HasSlot(folders[r]) /\ e.slot = folders[r].slot)
                         \/ \A s \in Desktops : HasSlot(folders[s]) => folders[s].slot # e.slot
    BY <1>1 DEF Grown, HasSlot
  <1>5. RoomsMade'
    <2>1. RoomsMade
      BY DEF DesktopInv
    <2>2. ASSUME NEW s \in Desktops
          PROVE  /\ HasSlot(folders'[s]) <=> folders'[s].slot # 0
                 /\ containers[s] # "none" => folders'[s].made = "disk"
                 /\ leases[s] # "none" => folders'[s].made = "disk" /\ folders'[s].mounted
      <3>1. CASE s = r
        BY <1>2, <1>4, <2>1, <3>1 DEF RoomsMade, HasSlot
      <3>2. CASE s # r
        BY ZenonT(30), SMTT(30), <1>2, <2>1, <3>2 DEF RoomsMade
      <3>3. QED
        BY <3>1, <3>2
    <2>3. SlotsApart(folders')
      <3>1. SlotsApart(folders)
        BY <2>1 DEF RoomsMade
      <3>2. OneGiven(folders, folders', r)
        BY <1>2, <1>4 DEF OneGiven
      <3>3. PICK f, g : f = folders /\ g = folders'
        OBVIOUS
      <3>4. QED
        BY <3>1, <3>2, <3>3, GivenApart
    <2>4. QED
      BY <2>2, <2>3 DEF RoomsMade
  <1>6. LockKept(broker)'
    <2>1. broker.up
      <3>1. ~broker.up => broker.lock = Free
        BY DEF DesktopInv, LockKept
      <3>2. QED
        BY <3>1, FreeIsLock
    <2>2. QED
      BY <1>1, <2>1 DEF LockKept
  <1>7. InUse' = InUse
    BY DEF InUse
  <1>8. LateKept(broker)'
    <2>1. LateKept(broker)
      BY DEF DesktopInv
    <2>2. ASSUME NEW l \in late PROVE folders'[l.room].made = "disk"
      <3>1. folders[l.room].made = "disk" /\ l.room \in Desktops
        BY <2>1 DEF LateKept, DesktopInv, DesktopTyped
      <3>2. CASE l.room = r
        BY <1>2, <1>4, <3>1, <3>2
      <3>3. CASE l.room # r
        BY <1>2, <3>1, <3>3
      <3>4. QED
        BY <3>2, <3>3
    <2>3. QED
      BY <2>1, <2>2 DEF LateKept
  <1>9. Leased(broker)'
    <2>1. Leased(broker)
      BY DEF DesktopInv
    <2>2. \A s \in InUse : s \in Desktops /\ (folders[s].mounted => folders'[s].mounted)
      BY <1>2, <1>4 DEF InUse
    <2>3. \A s \in InUse' : s \in strays' \/ folders'[s].mounted
      BY <1>7, <2>1, <2>2 DEF Leased
    <2>4. broker'.up => \A s \in InUse' : leases'[s] # "none" \/ s \in strays'
      BY <1>7, <2>1 DEF Leased
    <2>5. QED
      BY <2>3, <2>4 DEF Leased
  <1>10. Limited(broker)'
    BY <1>7 DEF DesktopInv, Limited
  <1>11. QED
    BY <1>3, <1>5, <1>6, <1>8, <1>9, <1>10 DEF DesktopInv

\* ensure() makes the folder, writes the slot, makes and mounts the disk.
LEMMA FoldersKeepDesktops ==
    ASSUME DesktopInv, \/ MakeFolder \/ WriteSlot \/ MakeHome
    PROVE  DesktopInv'
  <1>0. broker.lock.kind = "ensure" /\ DesktopTyped
    BY DEF MakeFolder, WriteSlot, MakeHome, Ensuring, Lock, DesktopInv
  <1>1. PICK r \in Desktops : r = broker.lock.room
    BY <1>0 DEF DesktopInv, LockKept
  <1>2. PICK w \in FolderStates : w = folders[r]
    BY <1>0 DEF DesktopTyped
  <1>3. (HasSlot(w) <=> w.slot # 0) /\ Made(broker.lock)
    BY <1>0, <1>1, <1>2 DEF DesktopInv, RoomsMade, LockKept
  <1>4. folders \in [Desktops -> FolderStates] /\ broker \in [up : BOOLEAN, lates : Nat, lock : Locks]
    BY <1>0 DEF DesktopTyped
  <1>5. CASE MakeFolder
    <2>1. PICK e : e = [w EXCEPT !.made = "folder"]
      OBVIOUS
    <2>2. e \in FolderStates /\ e.made = "folder" /\ e.slot = w.slot /\ e.mounted = w.mounted
      BY <1>2, <2>1 DEF FolderStates
    <2>3. folders' = [folders EXCEPT ![r] = e] /\ broker' = [broker EXCEPT !.lock.step = "slot"] /\ broker.lock.step = "folder"
          /\ UNCHANGED <<containers, leases, late, strays, asked, pending>>
      BY <1>1, <1>2, <1>5, <2>1 DEF MakeFolder, Ensuring, Goto, Lock
    <2>4. w.made = "none"
      BY <1>1, <1>2, <1>3, <2>3 DEF Made
    <2>5. Grown(w, e)
      BY <1>3, <2>2, <2>4 DEF Grown, HasSlot
    <2>6. /\ broker' \in [up : BOOLEAN, lates : Nat, lock : Locks] /\ broker'.up = broker.up /\ broker'.lates = broker.lates
          /\ broker'.lock.kind = "ensure" /\ broker'.lock.room = broker.lock.room /\ broker'.lock.step = "slot"
      BY <1>0, <2>3, Went
    <2>7. Made(broker.lock)'
      BY <1>1, <1>4, <2>2, <2>3, <2>6 DEF Made
    <2>8. QED
      BY <1>0, <1>1, <1>2, <2>2, <2>3, <2>5, <2>6, <2>7, FolderKeepsDesktops
  <1>6. CASE WriteSlot
    <2>1. PICK slot \in 1..MaxStored : /\ slot \notin {folders[p].slot : p \in Stored}
                                       /\ folders' = [folders EXCEPT ![r].slot = slot, ![r].made = "slot"]
      BY <1>1, <1>6 DEF WriteSlot, Lock
    <2>2. slot \in 0..MaxStored /\ slot # 0
      BY DesktopAssumption
    <2>3. PICK e : e = [w EXCEPT !.slot = slot, !.made = "slot"]
      OBVIOUS
    <2>4. e \in FolderStates /\ e.made = "slot" /\ e.slot = slot /\ e.mounted = w.mounted
      BY <1>2, <2>2, <2>3 DEF FolderStates
    <2>5. folders' = [folders EXCEPT ![r] = e]
      BY <1>2, <2>1, <2>3
    <2>6. broker' = [broker EXCEPT !.lock.step = "home"] /\ broker.lock.step = "slot"
          /\ UNCHANGED <<containers, leases, late, strays, asked, pending>>
      BY <1>6 DEF WriteSlot, Ensuring, Goto, Lock
    <2>7. w.made = "folder"
      BY <1>1, <1>2, <1>3, <2>6 DEF Made
    <2>8. \A s \in Desktops : HasSlot(folders[s]) => folders[s].slot # e.slot
      BY <2>1, <2>4 DEF HasSlot, Stored
    <2>9. Grown(w, e)
      BY <2>2, <2>4, <2>7, <2>8 DEF Grown, HasSlot
    <2>10. /\ broker' \in [up : BOOLEAN, lates : Nat, lock : Locks] /\ broker'.up = broker.up /\ broker'.lates = broker.lates
           /\ broker'.lock.kind = "ensure" /\ broker'.lock.room = broker.lock.room /\ broker'.lock.step = "home"
      BY <1>0, <2>6, Went
    <2>11. Made(broker.lock)'
      BY <1>1, <1>4, <2>4, <2>5, <2>10 DEF Made
    <2>12. QED
      BY <1>0, <1>1, <1>2, <2>4, <2>5, <2>6, <2>9, <2>10, <2>11, FolderKeepsDesktops
  <1>7. CASE MakeHome
    <2>1. broker.lock.step = "home" /\ w.made # "folder" /\ w.made # "none"
          /\ UNCHANGED <<containers, leases, late, strays, asked, pending>>
      BY <1>1, <1>2, <1>3, <1>7 DEF MakeHome, Ensuring, Lock, Made
    <2>2. CASE w.made = "slot"
      <3>1. PICK e : e = [w EXCEPT !.made = "disk"]
        OBVIOUS
      <3>2. e \in FolderStates /\ e.made = "disk" /\ e.slot = w.slot /\ e.mounted = w.mounted
        BY <1>2, <3>1 DEF FolderStates
      <3>3. folders' = [folders EXCEPT ![r] = e] /\ broker' = broker
        BY <1>1, <1>2, <1>7, <2>2, <3>1 DEF MakeHome, Lock
      <3>4. Grown(w, e)
        BY <1>3, <2>2, <3>2 DEF Grown, HasSlot
      <3>5. Made(broker.lock)'
        BY <1>1, <1>4, <2>1, <3>2, <3>3 DEF Made
      <3>6. QED
        BY <1>0, <1>1, <1>2, <1>4, <2>1, <3>2, <3>3, <3>4, <3>5, FolderKeepsDesktops
    <2>3. CASE w.made # "slot"
      <3>1. PICK e : e = [w EXCEPT !.mounted = TRUE]
        OBVIOUS
      <3>2. e \in FolderStates /\ e.made = w.made /\ e.slot = w.slot /\ e.mounted
        BY <1>2, <3>1 DEF FolderStates
      <3>3. e.made = "disk"
        BY <1>2, <2>1, <2>3, <3>2 DEF FolderStates
      <3>4. PICK step : step = CASE Lock.info = "none" -> "create" [] Lock.info = "stopped" -> "start" [] OTHER -> "lease"
        OBVIOUS
      <3>5. step \in {"create", "start", "lease"}
        BY <3>4
      <3>6. folders' = [folders EXCEPT ![r] = e] /\ broker' = [broker EXCEPT !.lock.step = step]
        BY <1>1, <1>2, <1>7, <2>3, <3>1, <3>4 DEF MakeHome, Lock, Goto
      <3>7. Grown(w, e)
        BY <1>3, <3>2 DEF Grown, HasSlot
      <3>8. /\ broker' \in [up : BOOLEAN, lates : Nat, lock : Locks] /\ broker'.up = broker.up /\ broker'.lates = broker.lates
            /\ broker'.lock.kind = "ensure" /\ broker'.lock.room = broker.lock.room /\ broker'.lock.step = step
        BY <1>0, <3>5, <3>6, Went
      <3>9. Made(broker.lock)'
        BY <1>1, <1>4, <3>2, <3>3, <3>5, <3>6, <3>8 DEF Made
      <3>10. QED
        BY <1>0, <1>1, <1>2, <2>1, <3>2, <3>5, <3>6, <3>7, <3>8, <3>9, FolderKeepsDesktops
    <2>4. QED
      BY <2>2, <2>3
  <1>8. QED
    BY <1>5, <1>6, <1>7

\* docker makes or starts the container of the room in hand.
LEMMA ContainersKeepDesktops ==
    ASSUME DesktopInv, CreateContainer \/ StartContainer
    PROVE  DesktopInv'
  <1>0. broker.lock.kind = "ensure" /\ broker.lock.step \in {"create", "start"} /\ DesktopTyped
        /\ UNCHANGED <<folders, leases, late, strays, asked, pending>>
    BY DEF CreateContainer, StartContainer, Ensuring, Lock, DesktopInv
  <1>1. PICK r \in Desktops : r = broker.lock.room
    BY <1>0 DEF DesktopInv, LockKept
  <1>2. folders[r].made = "disk" /\ folders[r].mounted
    BY <1>0, <1>1 DEF DesktopInv, LockKept, Made
  <1>3. PICK x \in ContainerStates, step \in {"start", "lease"} :
            /\ containers' = [containers EXCEPT ![r] = x] /\ broker' = [broker EXCEPT !.lock.step = step]
            /\ x = "running" => step = "lease"
            /\ step = "start" => containers[r] = "none" /\ broker.lock.step = "create"
            /\ step = "lease" => broker.lock.step = "start"
    <2>1. containers[r] \in ContainerStates
      BY <1>0 DEF DesktopTyped
    <2>2. CASE CreateContainer
      <3>1. PICK x : x = Outcome(containers[r], "create")
        OBVIOUS
      <3>2. x = "stopped"
        BY <1>1, <2>2, <3>1 DEF CreateContainer, Lock, Outcome
      <3>3. containers' = [containers EXCEPT ![r] = x] /\ broker' = [broker EXCEPT !.lock.step = "start"]
            /\ containers[r] = "none" /\ broker.lock.step = "create"
        BY <1>1, <2>2, <3>1 DEF CreateContainer, Docker, Goto, Ensuring, Lock
      <3>4. QED
        BY <3>2, <3>3 DEF ContainerStates
    <2>3. CASE StartContainer
      <3>1. PICK x : x = Outcome(containers[r], "start")
        OBVIOUS
      <3>2. x \in ContainerStates
        BY <2>1, <3>1 DEF Outcome, ContainerStates
      <3>3. containers' = [containers EXCEPT ![r] = x] /\ broker' = [broker EXCEPT !.lock.step = "lease"]
            /\ broker.lock.step = "start"
        BY <1>1, <2>3, <3>1 DEF StartContainer, Docker, Goto, Ensuring, Lock
      <3>4. QED
        BY <3>2, <3>3
    <2>4. QED
      BY <2>2, <2>3
  <1>4. /\ broker' \in [up : BOOLEAN, lates : Nat, lock : Locks] /\ broker'.up = broker.up /\ broker'.lates = broker.lates
        /\ broker'.lock.kind = "ensure" /\ broker'.lock.room = r /\ broker'.lock.step = step
    BY <1>0, <1>1, <1>3, Went
  <1>5. /\ containers' \in [Desktops -> ContainerStates]
        /\ InUse' = IF x = "running" THEN InUse \cup {r} ELSE InUse \ {r}
        /\ Cardinality(InUse) \in Nat /\ Cardinality(InUse') \in Nat
        /\ r \in InUse <=> containers[r] = "running"
        /\ x # "running" => Cardinality(InUse') <= Cardinality(InUse)
        /\ x = "running" => /\ Cardinality(InUse') <= Cardinality(InUse) + 1
                            /\ r \in InUse => Cardinality(InUse') = Cardinality(InUse)
    BY <1>0, <1>3, OneContainer
  <1>6. DesktopTyped'
    BY <1>0, <1>4, <1>5 DEF DesktopTyped
  <1>7. RoomsMade'
    <2>1. RoomsMade /\ \A s \in Desktops : s # r => containers'[s] = containers[s]
      BY <1>0, <1>3 DEF DesktopInv, DesktopTyped
    <2>2. QED
      BY <1>0, <1>2, <2>1 DEF RoomsMade
  <1>8. LockKept(broker)'
    <2>1. broker.up
      <3>1. ~broker.up => broker.lock = Free
        BY DEF DesktopInv, LockKept
      <3>2. QED
        BY <1>0, <3>1, FreeIsLock
    <2>2. Made(broker.lock)'
      BY <1>0, <1>2, <1>3, <1>4 DEF Made
    <2>3. QED
      BY <1>1, <1>4, <2>1, <2>2 DEF LockKept
  <1>9. LateKept(broker)'
    BY <1>0, <1>4 DEF DesktopInv, LateKept
  <1>10. Leased(broker)'
    <2>1. Leased(broker)
      BY DEF DesktopInv
    <2>2. \A s \in InUse' : s \in InUse \/ (s = r /\ x = "running")
      BY <1>5
    <2>3. QED
      BY <1>0, <1>2, <1>3, <1>4, <2>1, <2>2 DEF Leased
  <1>11. Limited(broker)'
    <2>1. Limited(broker)
      BY DEF DesktopInv
    <2>2. CASE step = "lease"
      <3>1. broker.lates = 0 => /\ Cardinality(InUse) <= MaxRunning
                                /\ containers[r] # "running" => Cardinality(InUse) < MaxRunning
        BY <1>0, <1>1, <1>3, <2>1, <2>2 DEF Limited
      <3>2. broker.lates = 0 => Cardinality(InUse') <= MaxRunning
        BY <1>5, <3>1, DesktopAssumption
      <3>3. QED
        BY <1>4, <2>2, <3>2 DEF Limited
    <2>3. CASE step = "start"
      <3>1. broker.lates = 0 => Cardinality(InUse) < MaxRunning
        BY <1>0, <1>1, <1>3, <2>1, <2>3 DEF Limited
      <3>2. broker.lates = 0 => Cardinality(InUse') < MaxRunning
        BY <1>3, <1>5, <2>3, <3>1, DesktopAssumption
      <3>3. QED
        BY <1>4, <3>2, <1>5, DesktopAssumption DEF Limited
    <2>4. QED
      BY <2>2, <2>3
  <1>12. QED
    BY <1>6, <1>7, <1>8, <1>9, <1>10, <1>11 DEF DesktopInv

\* A command that was given up is carried out, or the processes of a desktop end.
LEMMA DaemonKeepsDesktops ==
    ASSUME DesktopInv, \/ \E l \in late : CarriedOut(l)
                       \/ \E r \in Desktops : ContainerEnds(r)
    PROVE  DesktopInv'
  <1>0. DesktopTyped /\ UNCHANGED <<folders, leases, broker, asked, pending>>
    BY DEF CarriedOut, ContainerEnds, DesktopInv
  <1>1. PICK r \in Desktops, x \in ContainerStates :
            /\ containers' = [containers EXCEPT ![r] = x]
            /\ x # "none" => folders[r].made = "disk"
            /\ late' \subseteq late
            /\ strays' \subseteq Desktops
            /\ \A s \in Desktops : s # r => (s \in strays' <=> s \in strays)
            /\ x = "running" => (r \in strays => r \in strays') /\ broker.lates # 0
                                /\ (containers[r] = "running" \/ r \in strays' \/ leases[r] # "none")
    <2>1. CASE \E l \in late : CarriedOut(l)
      <3>1. PICK l \in late : CarriedOut(l)
        BY <2>1
      <3>2. l \in [command : {"create", "start", "stop"}, room : Desktops] /\ folders[l.room].made = "disk" /\ broker.lates # 0
        BY <1>0 DEF DesktopTyped, DesktopInv, LateKept
      <3>3. PICK r \in Desktops : r = l.room
        BY <3>2
      <3>4. containers[r] \in ContainerStates
        BY <1>0 DEF DesktopTyped
      <3>5. PICK x : x = Outcome(containers[r], l.command)
        OBVIOUS
      <3>6. x \in ContainerStates /\ (x = "running" => l.command # "stop" /\ (containers[r] = "running" \/ l.command = "start"))
        BY <3>2, <3>4, <3>5 DEF Outcome, ContainerStates
      <3>7. /\ containers' = [containers EXCEPT ![r] = x] /\ late' \subseteq late
            /\ l.command = "start" /\ leases[r] = "none" => strays' = strays \cup {r}
            /\ l.command = "start" /\ leases[r] # "none" => strays' = strays
            /\ l.command = "stop" => strays' = strays \ {r}
            /\ l.command = "create" => strays' = strays
        BY <3>1, <3>3, <3>5 DEF CarriedOut, Docker
      <3>8. strays \subseteq Desktops
        BY <1>0 DEF DesktopTyped
      <3>9. QED
        BY <3>2, <3>3, <3>6, <3>7, <3>8
    <2>2. CASE \E r \in Desktops : ContainerEnds(r)
      <3>1. PICK r \in Desktops : ContainerEnds(r)
        BY <2>2
      <3>2. containers[r] = "running" /\ containers' = [containers EXCEPT ![r] = "stopped"] /\ strays' = strays \ {r} /\ late' = late
        BY <3>1 DEF ContainerEnds
      <3>3. folders[r].made = "disk"
        BY <3>2 DEF DesktopInv, RoomsMade
      <3>4. "stopped" \in ContainerStates /\ strays \subseteq Desktops
        BY <1>0 DEF DesktopTyped, ContainerStates
      <3>5. QED
        BY <3>2, <3>3, <3>4
    <2>3. QED
      BY <2>1, <2>2
  <1>2. /\ containers' \in [Desktops -> ContainerStates]
        /\ InUse' = IF x = "running" THEN InUse \cup {r} ELSE InUse \ {r}
        /\ Cardinality(InUse) \in Nat /\ Cardinality(InUse') \in Nat
        /\ r \in InUse <=> containers[r] = "running"
        /\ x # "running" => /\ Cardinality(InUse') <= Cardinality(InUse)
                            /\ r \in InUse => Cardinality(InUse') < Cardinality(InUse)
    BY <1>0, <1>1, OneContainer
  <1>3. DesktopTyped'
    BY <1>0, <1>1, <1>2 DEF DesktopTyped
  <1>4. containers'[r] = x /\ \A s \in Desktops : s # r => containers'[s] = containers[s]
    BY <1>0, <1>1 DEF DesktopTyped
  <1>5. RoomsMade'
    BY <1>0, <1>1, <1>4 DEF DesktopInv, RoomsMade
  <1>6. LockKept(broker)'
    BY <1>0 DEF DesktopInv, LockKept, Made
  <1>7. LateKept(broker)'
    BY <1>0, <1>1 DEF DesktopInv, LateKept
  <1>8. Leased(broker)'
    <2>1. Leased(broker) /\ RoomsMade
      BY DEF DesktopInv
    <2>2. ASSUME NEW s \in InUse'
          PROVE  /\ broker.up => \/ leases[s] # "none" \/ s \in strays'
                                 \/ broker.lock.kind = "ensure" /\ broker.lock.step = "lease" /\ broker.lock.room = s
                 /\ s \in strays' \/ folders[s].mounted
      <3>1. s \in Desktops
        BY DEF InUse
      <3>2. CASE s # r
        <4>1. s \in InUse /\ (s \in strays' <=> s \in strays)
          BY <1>1, <1>2, <3>1, <3>2
        <4>2. QED
          BY <2>1, <4>1 DEF Leased
      <3>3. CASE s = r
        <4>1. x = "running"
          BY <1>2, <3>3
        <4>2. CASE r \in InUse
          BY <1>1, <2>1, <3>3, <4>1, <4>2 DEF Leased
        <4>3. CASE r \notin InUse
          <5>1. r \in strays' \/ leases[r] # "none"
            BY <1>1, <1>2, <4>1, <4>3
          <5>2. leases[r] # "none" => folders[r].mounted
            BY <2>1 DEF RoomsMade
          <5>3. QED
            BY <3>3, <5>1, <5>2
        <4>4. QED
          BY <4>2, <4>3
      <3>4. QED
        BY <3>2, <3>3
    <2>3. QED
      BY <1>0, <2>2 DEF Leased
  <1>9. Limited(broker)'
    <2>1. Limited(broker)
      BY DEF DesktopInv
    <2>2. CASE broker.lates # 0
      BY <1>0, <2>2 DEF Limited
    <2>3. CASE broker.lates = 0
      <3>1. x # "running" /\ Cardinality(InUse) <= MaxRunning
        BY <1>1, <2>1, <2>3 DEF Limited
      <3>2. Cardinality(InUse') <= MaxRunning
        BY <1>2, <3>1, DesktopAssumption
      <3>3. ASSUME broker.lock.kind = "ensure", broker.lock.step # "lease", containers'[broker.lock.room] # "running"
            PROVE  Cardinality(InUse') < MaxRunning
        <4>1. broker.lock.room \in Desktops
          BY <3>3 DEF DesktopInv, LockKept
        <4>2. CASE containers[broker.lock.room] # "running"
          <5>1. Cardinality(InUse) < MaxRunning
            BY <2>1, <2>3, <3>3, <4>2 DEF Limited
          <5>2. QED
            BY <1>2, <3>1, <5>1, DesktopAssumption
        <4>3. CASE containers[broker.lock.room] = "running"
          <5>1. broker.lock.room = r
            BY <1>4, <3>3, <4>1, <4>3
          <5>2. r \in InUse
            BY <1>2, <4>3, <5>1
          <5>3. QED
            BY <1>2, <3>1, <5>2, DesktopAssumption
        <4>4. QED
          BY <4>2, <4>3
      <3>4. QED
        BY <1>0, <3>2, <3>3 DEF Limited
    <2>4. QED
      BY <2>2, <2>3
  <1>10. QED
    BY <1>3, <1>5, <1>6, <1>7, <1>8, <1>9 DEF DesktopInv

\* ensure() ends with the lease of its room.
LEMMA LeaseKeepsDesktops ==
    ASSUME DesktopInv, Lease
    PROVE  DesktopInv'
  <1>0. broker.lock.kind = "ensure" /\ broker.lock.step = "lease" /\ DesktopTyped
        /\ UNCHANGED <<folders, containers, asked, late>>
    BY DEF Lease, Ensuring, Lock, DesktopInv
  <1>1. PICK r \in Desktops : r = broker.lock.room
    BY <1>0 DEF DesktopInv, LockKept
  <1>2. folders[r].made = "disk" /\ folders[r].mounted
    BY <1>0, <1>1 DEF DesktopInv, LockKept, Made
  <1>3. PICK f \in Locks : f = Free /\ f.kind = "free"
    BY FreeIsLock
  <1>4. /\ leases' = [leases EXCEPT ![r] = "fresh"] /\ strays' = strays \ {r} /\ pending' = pending \ {r}
        /\ broker' = [broker EXCEPT !.lock = f]
    BY <1>1, <1>3 DEF Lease, Lock
  <1>5. /\ broker' \in [up : BOOLEAN, lates : Nat, lock : Locks] /\ broker'.up = broker.up /\ broker'.lates = broker.lates
        /\ broker'.lock = f
    BY <1>0, <1>3, <1>4 DEF DesktopTyped
  <1>6. leases' \in [Desktops -> {"none", "fresh", "old"}] /\ leases'[r] = "fresh"
        /\ \A s \in Desktops : s # r => leases'[s] = leases[s]
    BY <1>0, <1>4 DEF DesktopTyped
  <1>7. DesktopTyped'
    BY <1>0, <1>4, <1>5, <1>6 DEF DesktopTyped
  <1>8. RoomsMade'
    BY <1>0, <1>2, <1>6 DEF DesktopInv, RoomsMade
  <1>9. broker.up
    <2>1. ~broker.up => broker.lock = Free
      BY DEF DesktopInv, LockKept
    <2>2. QED
      BY <1>0, <2>1, FreeIsLock
  <1>10. LockKept(broker)'
    BY <1>3, <1>5, <1>9 DEF LockKept
  <1>11. LateKept(broker)'
    BY <1>0, <1>5 DEF DesktopInv, LateKept
  <1>12. InUse' = InUse
    BY <1>0 DEF InUse
  <1>13. Leased(broker)'
    <2>1. Leased(broker)
      BY DEF DesktopInv
    <2>2. ASSUME NEW s \in InUse
          PROVE  (leases'[s] # "none" \/ s \in strays') /\ (s \in strays' \/ folders'[s].mounted)
      <3>1. s \in Desktops
        BY DEF InUse
      <3>2. CASE s = r
        BY <1>0, <1>2, <1>6, <3>2
      <3>3. CASE s # r
        <4>1. leases'[s] = leases[s] /\ (s \in strays' <=> s \in strays) /\ folders'[s] = folders[s]
          BY <1>0, <1>4, <1>6, <3>1, <3>3
        <4>2. (leases[s] # "none" \/ s \in strays) /\ (s \in strays \/ folders[s].mounted)
          BY <1>1, <1>9, <2>1, <3>3 DEF Leased
        <4>3. QED
          BY <4>1, <4>2
      <3>4. QED
        BY <3>2, <3>3
    <2>3. QED
      BY <1>12, <2>2 DEF Leased
  <1>14. Limited(broker)'
    BY <1>3, <1>5, <1>12 DEF DesktopInv, Limited
  <1>15. QED
    BY <1>7, <1>8, <1>10, <1>11, <1>13, <1>14 DEF DesktopInv

\* A command is given up, with LOCK and maybe the broker itself.
LEMMA GivenUpKeepsDesktops ==
    ASSUME DesktopInv, UNCHANGED <<folders, containers, strays>>,
           NEW f \in Locks, f = Free, NEW up \in {broker.up, FALSE},
           broker' = [broker EXCEPT !.up = up, !.lock = f, !.lates = @ + 1],
           asked' \in [Desktops -> Nat], pending' \subseteq Desktops,
           leases' \in [Desktops -> {"none", "fresh", "old"}], \A r \in Desktops : leases'[r] = leases[r] \/ leases'[r] = "none",
           up => leases' = leases, ~up => \A r \in Desktops : leases'[r] = "none",
           NEW c \in {"create", "start", "stop"}, NEW r \in Desktops, folders[r].made = "disk",
           late' = late \cup {[command |-> c, room |-> r]},
           broker.lock.kind # "ensure" \/ broker.lock.step # "lease"
    PROVE  DesktopInv'
  <1>1. PICK n \in Nat : n = broker.lates + 1 /\ n # 0
    BY DEF DesktopInv, DesktopTyped
  <1>2. broker' = [broker EXCEPT !.up = up, !.lock = f, !.lates = n]
    BY <1>1
  <1>3. /\ broker' \in [up : BOOLEAN, lates : Nat, lock : Locks] /\ broker'.up = up /\ broker'.lates = n
        /\ broker'.lock = f /\ f.kind = "free"
    BY ZenonT(30), SMTT(30), <1>2, FreeIsLock DEF DesktopInv, DesktopTyped
  <1>4. late' \subseteq [command : {"create", "start", "stop"}, room : Desktops]
    BY DEF DesktopInv, DesktopTyped
  <1>5. DesktopTyped'
    BY <1>3, <1>4 DEF DesktopInv, DesktopTyped
  <1>6. RoomsMade'
    BY DEF DesktopInv, RoomsMade
  <1>7. LockKept(broker)'
    BY <1>3 DEF LockKept
  <1>8. LateKept(broker)'
    BY <1>1, <1>3 DEF DesktopInv, LateKept
  <1>9. InUse' = InUse
    BY DEF InUse
  <1>10. Leased(broker)'
    <2>1. Leased(broker) /\ (up => broker.up)
      BY DEF DesktopInv
    <2>2. QED
      BY <1>3, <1>9, <2>1 DEF Leased
  <1>11. Limited(broker)'
    BY <1>1, <1>3 DEF Limited
  <1>12. QED
    BY <1>5, <1>6, <1>7, <1>8, <1>10, <1>11 DEF DesktopInv

\* A step of ensure() fails, or is given up.
LEMMA FailureKeepsDesktops ==
    ASSUME DesktopInv, EnsureFails
    PROVE  DesktopInv'
  <1>0. broker.lock.kind = "ensure" /\ broker.lock.step # "lease" /\ DesktopTyped
        /\ UNCHANGED <<folders, containers, leases, asked, strays>>
    BY DEF EnsureFails, Lock, DesktopInv
  <1>1. PICK r \in Desktops : r = broker.lock.room
    BY <1>0 DEF DesktopInv, LockKept
  <1>2. asked' \in [Desktops -> Nat] /\ pending' \subseteq Desktops /\ leases' \in [Desktops -> {"none", "fresh", "old"}]
    BY <1>0 DEF EnsureFails, DesktopTyped
  <1>3. CASE late' = late /\ broker' = [broker EXCEPT !.lock = Free]
    BY <1>0, <1>2, <1>3, LockFreed, LockMoves DEF DesktopTyped
  <1>4. CASE /\ broker.lock.step \in {"create", "start"} /\ GivenUp(broker.lock.step, broker.lock.room)
             /\ broker' = [broker EXCEPT !.lock = Free, !.lates = @ + 1]
    <2>1. folders[r].made = "disk"
      BY <1>0, <1>1, <1>4 DEF DesktopInv, LockKept, Made
    <2>2. PICK f \in Locks : f = Free
      BY FreeIsLock
    <2>3. broker.up
      <3>1. ~broker.up => broker.lock = Free
        BY DEF DesktopInv, LockKept
      <3>2. QED
        BY <1>0, <3>1, FreeIsLock
    <2>4. PICK up \in {broker.up, FALSE} : up = broker.up
      OBVIOUS
    <2>5. broker' = [broker EXCEPT !.up = up, !.lock = f, !.lates = @ + 1]
      <3>1. broker = [broker EXCEPT !.up = up]
        BY <1>0, <2>4 DEF DesktopTyped
      <3>2. broker' = [broker EXCEPT !.lock = f, !.lates = broker.lates + 1]
        BY <1>4, <2>2
      <3>3. PICK n : n = broker.lates + 1
        OBVIOUS
      <3>4. broker' = [broker EXCEPT !.up = up, !.lock = f, !.lates = n]
        BY <1>0, <2>4, <3>2, <3>3 DEF DesktopTyped
      <3>5. QED
        BY <3>3, <3>4
    <2>6. PICK c \in {"create", "start", "stop"} : c = broker.lock.step
      BY <1>4
    <2>7. late' = late \cup {[command |-> c, room |-> r]}
      BY <1>1, <1>4, <2>6 DEF GivenUp
    <2>8. UNCHANGED <<folders, containers, strays>> /\ leases' = leases
      BY <1>0
    <2>9. up
      BY <2>3, <2>4
    <2>10. broker.lock.kind # "ensure" \/ broker.lock.step # "lease"
      BY <1>0
    <2>11. QED
      BY <1>2, <2>1, <2>2, <2>5, <2>7, <2>8, <2>9, <2>10, GivenUpKeepsDesktops
  <1>5. QED
    BY <1>3, <1>4 DEF EnsureFails, Lock

\* A lease gets old, or is touched again.
LEMMA TouchKeepsDesktops ==
    ASSUME DesktopInv, NEW r \in Desktops, Touch(r) \/ IdleTooLong(r)
    PROVE  DesktopInv'
  <1>0. DesktopTyped /\ UNCHANGED <<folders, containers, broker, asked, pending, late, strays>> /\ broker.up /\ leases[r] # "none"
    BY DEF Touch, IdleTooLong, DesktopInv
  <1>1. /\ leases' \in [Desktops -> {"none", "fresh", "old"}] /\ leases'[r] # "none"
        /\ \A s \in Desktops : s # r => leases'[s] = leases[s]
    BY <1>0 DEF Touch, IdleTooLong, DesktopTyped
  <1>2. \A s \in Desktops : leases'[s] # "none" <=> leases[s] # "none"
    BY <1>0, <1>1
  <1>3. DesktopTyped' /\ RoomsMade'
    BY <1>0, <1>1, <1>2 DEF DesktopInv, DesktopTyped, RoomsMade
  <1>4. LockKept(broker)'
    BY <1>0 DEF DesktopInv, LockKept, Made
  <1>5. InUse' = InUse /\ \A s \in InUse : s \in Desktops
    BY <1>0 DEF InUse
  <1>6. Leased(broker)'
    BY <1>0, <1>2, <1>5 DEF DesktopInv, Leased
  <1>7. LateKept(broker)' /\ Limited(broker)'
    BY <1>0, <1>5 DEF DesktopInv, LateKept, Limited
  <1>8. QED
    BY <1>3, <1>4, <1>6, <1>7 DEF DesktopInv

\* The rest of the rooms reap_once() looks at.
LEMMA ReapingGoesOn ==
    ASSUME DesktopInv, broker.lock.kind = "reap"
    PROVE  /\ Head(broker.lock.rest) \in Desktops
           /\ [broker EXCEPT !.lock = NextLease] \in [up : BOOLEAN, lates : Nat, lock : Locks]
           /\ [broker EXCEPT !.lock = NextLease].up = broker.up /\ [broker EXCEPT !.lock = NextLease].lates = broker.lates
           /\ [broker EXCEPT !.lock = NextLease].lock = NextLease
           /\ NextLease \in Locks /\ NextLease.kind # "ensure" /\ (NextLease.kind = "reap" => NextLease.rest # <<>>)
  <1>1. broker \in [up : BOOLEAN, lates : Nat, lock : Locks] /\ broker.lock.rest # <<>>
    BY DEF DesktopInv, DesktopTyped, LockKept
  <1>2. PICK k \in Locks : k = broker.lock
    BY <1>1
  <1>3. k.rest \in Seq(Desktops) /\ k.rest # <<>> /\ k.kind = "reap"
    BY <1>1, <1>2 DEF Locks
  <1>4. Head(k.rest) \in Desktops /\ Tail(k.rest) \in Seq(Desktops) /\ Len(Tail(k.rest)) = Len(k.rest) - 1 /\ Len(k.rest) \in Nat
    BY <1>3, HeadTailProperties
  <1>5. PICK n : n = NextLease
    OBVIOUS
  <1>6. n \in Locks /\ n.kind # "ensure" /\ (n.kind = "reap" => n.rest # <<>>)
    <2>1. CASE Len(k.rest) > 1
      <3>1. PICK rest \in Seq(Desktops) : rest = Tail(k.rest)
        BY <1>4
      <3>2. n = [k EXCEPT !.rest = rest]
        BY <1>2, <1>5, <2>1, <3>1 DEF NextLease, Lock
      <3>3. n \in Locks /\ n.kind = "reap" /\ n.rest = rest
        BY <1>2, <1>3, <3>1, <3>2 DEF Locks
      <3>4. Len(rest) > 0
        BY <1>4, <2>1, <3>1
      <3>5. rest # <<>>
        <4>1. ASSUME rest = <<>> PROVE FALSE
          <5>1. Len(rest) = 0
            BY <4>1, EmptySeq
          <5>2. QED
            BY <3>4, <5>1
        <4>2. QED
          BY <4>1
      <3>6. QED
        BY <3>3, <3>5
    <2>2. CASE ~(Len(k.rest) > 1)
      <3>1. n = Free
        BY <1>2, <1>5, <2>2 DEF NextLease, Lock
      <3>2. QED
        BY <3>1, FreeIsLock
    <2>3. QED
      BY <2>1, <2>2
  <1>7. PICK b : b = [broker EXCEPT !.lock = n]
    OBVIOUS
  <1>8. b \in [up : BOOLEAN, lates : Nat, lock : Locks] /\ b.up = broker.up /\ b.lates = broker.lates /\ b.lock = n
    BY <1>1, <1>6, <1>7
  <1>9. QED
    BY <1>2, <1>4, <1>5, <1>6, <1>7, <1>8

\* reap_once() begins, or goes on to the next room.
LEMMA ReapingKeepsDesktops ==
    ASSUME DesktopInv, BeginReaping \/ KeepLease
    PROVE  DesktopInv'
  <1>0. DesktopTyped /\ UNCHANGED <<folders, containers, leases, asked, pending, late, strays>>
    BY DEF BeginReaping, KeepLease, DesktopInv
  <1>1. PICK k \in Locks : /\ broker' = [broker EXCEPT !.lock = k] /\ k.kind # "ensure" /\ (k.kind = "reap" => k.rest # <<>>)
                           /\ (k = Free \/ broker.up)
    <2>1. CASE BeginReaping
      <3>1. PICK rooms \in SetToSeqs({r \in Desktops : leases[r] # "none"}) :
                /\ rooms # <<>> /\ broker' = [broker EXCEPT !.lock = [Free EXCEPT !.kind = "reap", !.rest = rooms]] /\ broker.up
        BY <2>1 DEF BeginReaping
      <3>2. rooms \in Seq(Desktops)
        <4>1. IsFiniteSet({r \in Desktops : leases[r] # "none"})
          BY DesktopAssumption, FS_Subset
        <4>2. PICK n \in Nat : n = Cardinality({r \in Desktops : leases[r] # "none"})
          BY <4>1, FS_CardinalityType
        <4>3. rooms \in [1 .. n -> {r \in Desktops : leases[r] # "none"}]
          BY <4>2 DEF SetToSeqs
        <4>4. rooms \in [1 .. n -> Desktops]
          BY <4>3
        <4>5. QED
          BY <4>4
      <3>3. PICK f \in Locks : f = Free
        BY FreeIsLock
      <3>4. PICK k : k = [f EXCEPT !.kind = "reap", !.rest = rooms]
        OBVIOUS
      <3>5. k \in Locks /\ k.kind = "reap" /\ k.rest = rooms
        BY <3>2, <3>3, <3>4 DEF Locks
      <3>6. QED
        BY <3>1, <3>3, <3>4, <3>5
    <2>2. CASE KeepLease
      <3>1. broker.lock.kind = "reap" /\ broker' = [broker EXCEPT !.lock = NextLease]
        BY <2>2 DEF KeepLease, Lock
      <3>2. broker.up
        <4>1. ~broker.up => broker.lock = Free
          BY DEF DesktopInv, LockKept
        <4>2. QED
          BY <3>1, <4>1, FreeIsLock
      <3>3. QED
        BY <3>1, <3>2, ReapingGoesOn
    <2>3. QED
      BY <2>1, <2>2
  <1>2. broker.lock.kind # "ensure"
    BY FreeIsLock DEF BeginReaping, KeepLease, Lock
  <1>3. PICK b : b = [broker EXCEPT !.lock = k]
    OBVIOUS
  <1>4. b \in [up : BOOLEAN, lates : Nat, lock : Locks] /\ b.up = broker.up /\ b.lates = broker.lates /\ b.lock = k
    BY <1>0, <1>3 DEF DesktopTyped
  <1>5. LockKept(b)
    BY <1>1, <1>4 DEF DesktopInv, LockKept
  <1>6. Leased(b) /\ Limited(b)
    BY <1>1, <1>2, <1>4 DEF DesktopInv, Leased, Limited
  <1>7. asked' \in [Desktops -> Nat] /\ pending' \subseteq Desktops
    BY <1>0 DEF DesktopTyped
  <1>8. QED
    BY <1>0, <1>1, <1>3, <1>4, <1>5, <1>6, <1>7, LockMoves

\* reap_once() stops the container of a room that was idle.
LEMMA StoppingKeepsDesktops ==
    ASSUME DesktopInv, StopContainer
    PROVE  DesktopInv'
  <1>0. /\ broker.lock.kind = "reap" /\ DesktopTyped /\ UNCHANGED <<folders, asked, pending>>
        /\ leases[Head(broker.lock.rest)] = "old"
    BY DEF StopContainer, Lock, DesktopInv
  <1>1. PICK r \in Desktops : r = Head(broker.lock.rest)
    BY <1>0, ReapingGoesOn
  <1>2. folders[r].made = "disk" /\ folders[r].mounted
    BY <1>0, <1>1 DEF DesktopInv, RoomsMade
  <1>3. asked' \in [Desktops -> Nat] /\ pending' \subseteq Desktops
    BY <1>0 DEF DesktopTyped
  <1>4. broker.up
    <2>1. ~broker.up => broker.lock = Free
      BY DEF DesktopInv, LockKept
    <2>2. QED
      BY <1>0, <2>1, FreeIsLock
  <1>5. CASE /\ Docker("stop", r) /\ leases' = LeaseEnded(TRUE, r) /\ strays' = strays \ {r}
             /\ broker' = [broker EXCEPT !.lock = NextLease] /\ late' = late
    <2>1. PICK x : x = Outcome(containers[r], "stop")
      OBVIOUS
    <2>2. x \in ContainerStates /\ x # "running"
      <3>1. containers[r] \in ContainerStates
        BY <1>0 DEF DesktopTyped
      <3>2. QED
        BY <2>1, <3>1 DEF Outcome, ContainerStates
    <2>3. containers' = [containers EXCEPT ![r] = x]
      BY <1>5, <2>1 DEF Docker
    <2>4. /\ containers' \in [Desktops -> ContainerStates]
          /\ InUse' = IF x = "running" THEN InUse \cup {r} ELSE InUse \ {r}
          /\ Cardinality(InUse) \in Nat /\ Cardinality(InUse') \in Nat
          /\ x # "running" => Cardinality(InUse') <= Cardinality(InUse)
      BY <1>0, <2>2, <2>3, OneContainer
    <2>5. containers'[r] = x /\ \A s \in Desktops : s # r => containers'[s] = containers[s]
      BY <1>0, <2>3 DEF DesktopTyped
    <2>6. /\ leases' \in [Desktops -> {"none", "fresh", "old"}] /\ leases'[r] = "none"
          /\ \A s \in Desktops : s # r => leases'[s] = leases[s]
      <3>1. leases' = [leases EXCEPT ![r] = "none"]
        BY <1>5 DEF LeaseEnded
      <3>2. QED
        BY <1>0, <3>1 DEF DesktopTyped
    <2>7. PICK k \in Locks : k = NextLease /\ k.kind # "ensure" /\ (k.kind = "reap" => k.rest # <<>>)
      BY <1>0, ReapingGoesOn
    <2>8. broker' = [broker EXCEPT !.lock = k]
      BY <1>5, <2>7
    <2>9. /\ broker' \in [up : BOOLEAN, lates : Nat, lock : Locks] /\ broker'.up /\ broker'.lates = broker.lates
          /\ broker'.lock = k
      BY <1>0, <1>4, <2>8 DEF DesktopTyped
    <2>10. DesktopTyped'
      BY <1>0, <1>5, <2>4, <2>6, <2>9 DEF DesktopTyped
    <2>11. RoomsMade'
      BY <1>0, <1>2, <2>5, <2>6 DEF DesktopInv, RoomsMade
    <2>12. LockKept(broker)'
      BY <2>7, <2>9 DEF LockKept
    <2>13. LateKept(broker)'
      BY <1>0, <1>5, <2>9 DEF DesktopInv, LateKept
    <2>14. Leased(broker)'
      <3>1. ASSUME NEW s \in InUse'
            PROVE  (leases'[s] # "none" \/ s \in strays') /\ (s \in strays' \/ folders'[s].mounted)
        <4>1. s \in InUse /\ s # r /\ s \in Desktops
          BY <2>2, <2>4 DEF InUse
        <4>2. leases[s] # "none" \/ s \in strays
          BY <1>0, <1>4, <4>1 DEF DesktopInv, Leased
        <4>3. s \in strays \/ folders[s].mounted
          BY <4>1 DEF DesktopInv, Leased
        <4>4. QED
          BY <1>0, <1>5, <2>6, <4>1, <4>2, <4>3
      <3>2. QED
        BY <3>1 DEF Leased
    <2>15. Limited(broker)'
      <3>1. broker.lates = 0 => Cardinality(InUse) <= MaxRunning
        BY DEF DesktopInv, Limited
      <3>2. broker.lates = 0 => Cardinality(InUse') <= MaxRunning
        BY <2>2, <2>4, <3>1, DesktopAssumption
      <3>3. QED
        BY <2>7, <2>9, <3>2 DEF Limited
    <2>16. QED
      BY <2>10, <2>11, <2>12, <2>13, <2>14, <2>15 DEF DesktopInv
  <1>6. broker.lock.kind # "ensure" \/ broker.lock.step # "lease"
    BY <1>0
  <1>7. CASE /\ leases' = LeaseEnded(FALSE, r) /\ broker' = [broker EXCEPT !.lock = Free]
             /\ UNCHANGED <<containers, strays, late>>
    <2>1. leases' = leases
      BY <1>7 DEF LeaseEnded
    <2>2. QED
      BY <1>0, <1>3, <1>6, <1>7, <2>1, LockFreed, LockMoves DEF DesktopTyped
  <1>8. CASE /\ leases' = LeaseEnded(FALSE, r) /\ GivenUp("stop", r)
             /\ broker' = [broker EXCEPT !.lock = Free, !.lates = @ + 1] /\ UNCHANGED <<containers, strays>>
    <2>1. leases' = leases
      BY <1>8 DEF LeaseEnded
    <2>2. PICK f \in Locks : f = Free
      BY FreeIsLock
    <2>3. PICK up \in {broker.up, FALSE} : up = broker.up
      OBVIOUS
    <2>4. broker' = [broker EXCEPT !.up = up, !.lock = f, !.lates = @ + 1]
      <3>1. PICK n : n = broker.lates + 1
        OBVIOUS
      <3>2. broker' = [broker EXCEPT !.lock = f, !.lates = n]
        BY <1>8, <2>2, <3>1
      <3>3. broker' = [broker EXCEPT !.up = up, !.lock = f, !.lates = n]
        BY <1>0, <2>3, <3>2 DEF DesktopTyped
      <3>4. QED
        BY <3>1, <3>3
    <2>5. PICK c \in {"create", "start", "stop"} : c = "stop"
      OBVIOUS
    <2>6. late' = late \cup {[command |-> c, room |-> r]}
      BY <1>8, <2>5 DEF GivenUp
    <2>7. UNCHANGED <<folders, containers, strays>> /\ leases' \in [Desktops -> {"none", "fresh", "old"}]
      BY <1>0, <1>8, <2>1 DEF DesktopTyped
    <2>8. up
      BY <1>4, <2>3
    <2>9. QED
      BY <1>2, <1>3, <1>6, <2>1, <2>2, <2>4, <2>6, <2>7, <2>8, GivenUpKeepsDesktops
  <1>9. QED
    BY <1>1, <1>5, <1>7, <1>8 DEF StopContainer, Lock

\* The broker ends, between any two steps.
LEMMA EndKeepsDesktops ==
    ASSUME DesktopInv, BrokerEnds
    PROVE  DesktopInv'
  <1>0. DesktopTyped /\ broker.up /\ UNCHANGED <<folders, containers, strays>>
    BY DEF BrokerEnds, DesktopInv
  <1>1. /\ leases' \in [Desktops -> {"none", "fresh", "old"}] /\ \A r \in Desktops : leases'[r] = "none"
        /\ asked' \in [Desktops -> Nat] /\ pending' \subseteq Desktops
    BY DEF BrokerEnds
  <1>2. PICK f \in Locks : f = Free /\ f.kind = "free"
    BY FreeIsLock
  <1>3. CASE late' = late /\ broker' = [broker EXCEPT !.up = FALSE, !.lock = Free]
    <2>1. broker' = [broker EXCEPT !.up = FALSE, !.lock = f]
      BY <1>2, <1>3
    <2>2. /\ broker' \in [up : BOOLEAN, lates : Nat, lock : Locks] /\ ~broker'.up /\ broker'.lates = broker.lates
          /\ broker'.lock = f
      BY <1>0, <2>1 DEF DesktopTyped
    <2>3. DesktopTyped'
      BY <1>0, <1>1, <1>3, <2>2 DEF DesktopTyped
    <2>4. RoomsMade'
      BY <1>0, <1>1 DEF DesktopInv, RoomsMade
    <2>5. LockKept(broker)'
      BY <1>1, <1>2, <2>2 DEF LockKept
    <2>6. LateKept(broker)'
      BY <1>0, <1>3, <2>2 DEF DesktopInv, LateKept
    <2>7. InUse' = InUse
      BY <1>0 DEF InUse
    <2>8. Leased(broker)'
      BY <1>0, <2>2, <2>7 DEF DesktopInv, Leased
    <2>9. Limited(broker)'
      BY <1>2, <2>2, <2>7 DEF DesktopInv, Limited
    <2>10. QED
      BY <2>3, <2>4, <2>5, <2>6, <2>8, <2>9 DEF DesktopInv
  <1>4. CASE /\ InHand # {} /\ late' = late \cup InHand
             /\ broker' = [broker EXCEPT !.up = FALSE, !.lock = Free, !.lates = @ + 1]
    <2>1. /\ broker.lock.kind = "ensure" /\ broker.lock.step \in {"create", "start"}
          /\ InHand = {[command |-> broker.lock.step, room |-> broker.lock.room]}
      BY <1>4 DEF InHand, Lock
    <2>2. PICK r \in Desktops : r = broker.lock.room
      BY <2>1 DEF DesktopInv, LockKept
    <2>3. folders[r].made = "disk"
      BY <2>1, <2>2 DEF DesktopInv, LockKept, Made
    <2>4. PICK c \in {"create", "start", "stop"} : c = broker.lock.step
      BY <2>1
    <2>5. late' = late \cup {[command |-> c, room |-> r]}
      BY <1>4, <2>1, <2>2, <2>4
    <2>6. PICK up \in {broker.up, FALSE} : up = FALSE
      OBVIOUS
    <2>7. broker' = [broker EXCEPT !.up = up, !.lock = f, !.lates = @ + 1]
      BY <1>2, <1>4, <2>6
    <2>8. broker.lock.kind # "ensure" \/ broker.lock.step # "lease"
      BY <2>1
    <2>9. QED
      BY <1>0, <1>1, <1>2, <2>3, <2>5, <2>6, <2>7, <2>8, GivenUpKeepsDesktops
  <1>5. QED
    BY <1>3, <1>4 DEF BrokerEnds

\* The host restarts, or the broker stops whatever runs before it listens.
LEMMA StartKeepsDesktops ==
    ASSUME DesktopInv, HostRestarts \/ BrokerStarts
    PROVE  DesktopInv'
  <1>0. /\ DesktopTyped /\ ~broker.up /\ UNCHANGED <<leases, asked, pending>> /\ strays' = {} /\ late' \subseteq late
        /\ containers' = [r \in Desktops |-> Outcome(containers[r], "stop")]
    BY DEF HostRestarts, BrokerStarts, DesktopInv
  <1>1. broker.lock = Free /\ \A r \in Desktops : leases[r] = "none"
    BY <1>0 DEF DesktopInv, LockKept
  <1>2. /\ containers' \in [Desktops -> ContainerStates]
        /\ \A r \in Desktops : containers'[r] # "running" /\ (containers'[r] # "none" => containers[r] # "none")
    <2>1. ASSUME NEW r \in Desktops
          PROVE  /\ containers'[r] \in ContainerStates
                 /\ containers'[r] # "running" /\ (containers'[r] # "none" => containers[r] # "none")
      <3>1. PICK x : x = Outcome(containers[r], "stop")
        OBVIOUS
      <3>2. containers[r] \in ContainerStates
        BY <1>0 DEF DesktopTyped
      <3>3. x \in ContainerStates /\ x # "running" /\ (x # "none" => containers[r] # "none")
        BY <3>1, <3>2 DEF Outcome, ContainerStates
      <3>4. QED
        BY <1>0, <3>1, <3>3
    <2>2. containers' = [r \in Desktops |-> containers'[r]]
      BY <1>0
    <2>3. QED
      BY <2>1, <2>2
  <1>3. InUse' = {}
    BY <1>2 DEF InUse
  <1>4. /\ folders' \in [Desktops -> FolderStates]
        /\ \A r \in Desktops : folders'[r].made = folders[r].made /\ folders'[r].slot = folders[r].slot
    <2>1. folders \in [Desktops -> FolderStates]
      BY <1>0 DEF DesktopTyped
    <2>2. CASE HostRestarts
      <3>1. folders' = [r \in Desktops |-> [folders[r] EXCEPT !.mounted = FALSE]]
        BY <2>2 DEF HostRestarts
      <3>2. ASSUME NEW r \in Desktops
            PROVE  /\ folders'[r] \in FolderStates /\ folders'[r].made = folders[r].made
                   /\ folders'[r].slot = folders[r].slot
        <4>1. PICK w \in FolderStates : w = folders[r]
          BY <2>1
        <4>2. folders'[r] = [w EXCEPT !.mounted = FALSE]
          BY <3>1, <4>1
        <4>3. QED
          BY <4>1, <4>2 DEF FolderStates
      <3>3. folders' = [r \in Desktops |-> folders'[r]]
        BY <3>1
      <3>4. QED
        BY <3>2, <3>3
    <2>3. CASE BrokerStarts
      BY <2>1, <2>3 DEF BrokerStarts
    <2>4. QED
      BY <2>2, <2>3
  <1>5. /\ broker' \in [up : BOOLEAN, lates : Nat, lock : Locks] /\ broker'.lock = Free /\ broker'.lates = broker.lates
    BY <1>0, <1>1 DEF HostRestarts, BrokerStarts, DesktopTyped
  <1>6. DesktopTyped'
    BY <1>0, <1>2, <1>4, <1>5 DEF DesktopTyped
  <1>7. RoomsMade'
    <2>1. RoomsMade
      BY DEF DesktopInv
    <2>2. SlotsApart(folders')
      BY <1>4, <2>1 DEF RoomsMade, SlotsApart, HasSlot
    <2>3. \A r \in Desktops : /\ HasSlot(folders'[r]) <=> folders'[r].slot # 0
                              /\ containers'[r] # "none" => folders'[r].made = "disk"
                              /\ leases'[r] = "none"
      BY <1>0, <1>1, <1>2, <1>4, <2>1 DEF RoomsMade, HasSlot
    <2>4. QED
      BY <2>2, <2>3 DEF RoomsMade
  <1>8. LockKept(broker)'
    BY <1>0, <1>1, <1>5, FreeIsLock DEF LockKept
  <1>9. LateKept(broker)'
    <2>1. \A l \in late : l \in [command : {"create", "start", "stop"}, room : Desktops]
      BY <1>0 DEF DesktopTyped
    <2>2. QED
      BY <1>0, <1>4, <1>5, <2>1 DEF DesktopInv, LateKept
  <1>10. Leased(broker)'
    BY <1>3 DEF Leased
  <1>11. Limited(broker)'
    <2>1. Cardinality(InUse') = 0
      BY <1>3, FS_EmptySet
    <2>2. QED
      BY <1>5, <2>1, FreeIsLock, DesktopAssumption DEF Limited
  <1>12. QED
    BY <1>6, <1>7, <1>8, <1>9, <1>10, <1>11 DEF DesktopInv

\* Every step of the broker, of docker and of the handlers keeps it.
LEMMA DesktopStep == DesktopInv /\ [DesktopNext]_desktopVars => DesktopInv'
  <1> SUFFICES ASSUME DesktopInv, [DesktopNext]_desktopVars PROVE DesktopInv'
    OBVIOUS
  <1>1. ASSUME NEW r \in Desktops, AskDesktop(r) \/ AskTimesOut(r) PROVE DesktopInv'
    BY <1>1, AskingKeepsDesktops
  <1>2. ASSUME NEW r \in Desktops, BeginEnsure(r) PROVE DesktopInv'
    BY <1>2, BeginKeepsDesktops
  <1>3. ASSUME NEW r \in Desktops, Touch(r) \/ IdleTooLong(r) PROVE DesktopInv'
    BY <1>3, TouchKeepsDesktops
  <1>4. CASE MakeFolder \/ WriteSlot \/ MakeHome
    BY <1>4, FoldersKeepDesktops
  <1>5. CASE CreateContainer \/ StartContainer
    BY <1>5, ContainersKeepDesktops
  <1>6. CASE Lease
    BY <1>6, LeaseKeepsDesktops
  <1>7. CASE EnsureFails
    BY <1>7, FailureKeepsDesktops
  <1>8. CASE BeginReaping \/ KeepLease
    BY <1>8, ReapingKeepsDesktops
  <1>9. CASE StopContainer
    BY <1>9, StoppingKeepsDesktops
  <1>10. CASE BrokerEnds
    BY <1>10, EndKeepsDesktops
  <1>11. CASE HostRestarts \/ BrokerStarts
    BY <1>11, StartKeepsDesktops
  <1>12. CASE (\E l \in late : CarriedOut(l)) \/ \E r \in Desktops : ContainerEnds(r)
    BY <1>12, DaemonKeepsDesktops
  <1>13. CASE UNCHANGED desktopVars
    BY <1>13 DEF desktopVars, DesktopInv, DesktopTyped, RoomsMade, LockKept, Made, LateKept, Leased, Limited, InUse
  <1>14. QED
    BY <1>1, <1>2, <1>3, <1>4, <1>5, <1>6, <1>7, <1>8, <1>9, <1>10, <1>11, <1>12, <1>13 DEF DesktopNext

\* Whatever fails, ends or restarts, the rooms, their containers, the leases and LOCK fit.
THEOREM DesktopInvariant == DesktopSpec => []DesktopInv
  <1>1. DesktopInit => DesktopInv
    BY DesktopStart
  <1>2. DesktopInv /\ [DesktopNext]_desktopVars => DesktopInv'
    BY DesktopStep
  <1>3. QED
    BY <1>1, <1>2, PTL DEF DesktopSpec

\* What runs has a lease by which it will be stopped, a slot of its own and its disk, and
\* no more run than MAX_RUNNING while no call of docker took too long.
THEOREM RunningLeased == DesktopSpec => []RunningIsLeased
  <1>1. DesktopInv => RunningIsLeased
    <2> SUFFICES ASSUME DesktopInv PROVE RunningIsLeased
      OBVIOUS
    <2>1. broker.up /\ Lock.kind # "ensure" => InUse \subseteq {r \in Desktops : leases[r] # "none"} \cup strays
      <3>1. \A r \in InUse : r \in Desktops
        BY DEF InUse
      <3>2. QED
        BY <3>1 DEF DesktopInv, Leased, Lock
    <2>2. \A r \in InUse : folders[r].made = "disk" /\ (r \notin strays => folders[r].mounted)
      <3>1. \A r \in InUse : r \in Desktops /\ containers[r] # "none"
        BY DEF InUse
      <3>2. QED
        BY <3>1 DEF DesktopInv, RoomsMade, Leased
    <2>3. \A r, s \in Stored : folders[r].made # "folder" /\ folders[r].slot = folders[s].slot => r = s
      <3>1. ASSUME NEW r \in Stored, NEW s \in Stored, folders[r].made # "folder", folders[r].slot = folders[s].slot
            PROVE  r = s
        <4>1. r \in Desktops /\ s \in Desktops /\ folders[r].made # "none"
          BY DEF Stored
        <4>2. folders[r].made \in {"none", "folder", "slot", "disk"}
          BY <4>1 DEF DesktopInv, DesktopTyped, FolderStates
        <4>3. HasSlot(folders[r])
          BY <3>1, <4>1, <4>2 DEF HasSlot
        <4>4. HasSlot(folders[s])
          BY <3>1, <4>1, <4>3 DEF DesktopInv, RoomsMade
        <4>5. QED
          BY <3>1, <4>1, <4>3, <4>4 DEF DesktopInv, RoomsMade, SlotsApart
      <3>2. QED
        BY <3>1
    <2>4. broker.lates = 0 => Cardinality(InUse) <= MaxRunning
      BY DEF DesktopInv, Limited
    <2>5. QED
      BY <2>1, <2>2, <2>3, <2>4 DEF RunningIsLeased
  <1>2. QED
    BY <1>1, DesktopInvariant, PTL

-----------------------------------------------------------------------------
(* providers.mjs and model.mjs                                               *)

ModelSpec == ModelInit /\ [][ModelNext]_modelVars

Pools ==
    [fresh : BOOLEAN, catalogs : SUBSET Slots, cooling : SUBSET Slots, cursor : Nat,
     listings : SUBSET [shared : BOOLEAN, left : SUBSET Slots], lists : Nat]

Calls == {"fetch", "calling", "reading", "tools"}
Attempted == (0 .. VisionModels) \X (Slots \cup {Default})

Turns ==
    [at : {"new", "listing", "choose", "look", "over"} \cup Calls, seeing : BOOLEAN,
     answers : Seq(Attempted), pictures : Seq(Attempted), index : Nat \ {0}, step : Nat, actions : Nat,
     owed : Nat, paid : Nat, asked : Nat, failed : SUBSET (Slots \cup {Default})]

\* The list for answers names no key twice.
KeysDiffer(list) ==
    /\ 1 <= Len(list)
    /\ \A i, j \in 1 .. Len(list) : list[i][2] = list[j][2] => i = j

\* In a call for an answer only keys before the one in use have failed.
Trying(turn) ==
    /\ turn.index <= Len(List(turn))
    /\ ~turn.seeing => \A key \in turn.failed : \E i \in 1 .. Len(turn.answers) : i < turn.index /\ turn.answers[i][2] = key

\* What a message has paid covers the requests made, the one about to be made, and a
\* turn for every bot that has not begun.
KeptWith(turn, paid) ==
    /\ turn.asked + turn.owed <= paid
    /\ turn.seeing => 1 <= turn.owed /\ KeysDiffer(turn.answers)
    /\ turn.at \in {"new", "listing", "choose", "look"} => turn.index = 1
    /\ turn.at = "look" => turn.seeing
    /\ turn.at = "fetch" => IF Begins(turn) THEN 1 <= turn.owed ELSE turn.asked + turn.owed < paid
    /\ turn.at \in Calls => KeysDiffer(turn.answers) /\ Trying(turn)

TurnKept(turn) == turn \in Turns /\ KeptWith(turn, turn.paid)

ModelInv ==
    /\ pool \in Pools /\ used \in 0 .. Quota
    /\ talks \in [Bots -> Turns] /\ \A t \in Bots : TurnKept(talks[t])

\* A message that has not begun, or of which nothing is left.
LEMMA EmptyTurns == TurnKept(IdleTurn) /\ TurnKept(Over)
  <1>1. <<>> \in Seq(Attempted)
    OBVIOUS
  <1>2. PICK none \in Seq(Attempted) : none = <<>>
    BY <1>1
  <1>3. ASSUME NEW at \in {"new", "over"}, NEW e,
               e = [at |-> at, seeing |-> FALSE, answers |-> none, pictures |-> none, index |-> 1, step |-> 0, actions |-> 0,
                    owed |-> 0, paid |-> 0, asked |-> 0, failed |-> {}]
        PROVE  TurnKept(e)
    <2>1. e \in Turns
      BY <1>3 DEF Turns
    <2>2. e.at = at /\ ~e.seeing /\ e.index = 1 /\ e.asked + e.owed <= e.paid
      BY <1>3
    <2>3. QED
      BY <2>1, <2>2 DEF TurnKept, KeptWith, Calls
  <1>4. QED
    BY <1>2, <1>3 DEF IdleTurn, Over

\* Nothing was asked for.
LEMMA ModelStart == ModelInit => ModelInv
  <1> SUFFICES ASSUME ModelInit PROVE ModelInv
    OBVIOUS
  <1>1. pool \in Pools
    BY ModelAssumption DEF ModelInit, Pools
  <1>2. used \in 0 .. Quota
    BY ModelAssumption DEF ModelInit
  <1>3. talks \in [Bots -> Turns] /\ \A t \in Bots : TurnKept(talks[t])
    BY EmptyTurns DEF ModelInit, TurnKept
  <1>4. QED
    BY <1>1, <1>2, <1>3 DEF ModelInv

\* A remainder is below its divisor.
LEMMA Remainder ==
    ASSUME NEW a \in Int, NEW n \in Nat \ {0}
    PROVE  a % n \in 0 .. (n - 1)
  OBVIOUS

\* The models that have keys are counted.
LEMMA CursorAdvances ==
    ASSUME pool \in Pools, NEW models \in SUBSET (0 .. VisionModels)
    PROVE  Advanced(models) \in Pools
  <1>0. 0 \in Int /\ VisionModels \in Int
    BY ModelAssumption
  <1>1. IsFiniteSet(0 .. VisionModels) /\ WithKeys(models) \in SUBSET (0 .. VisionModels)
    BY <1>0, FS_Interval DEF WithKeys
  <1>2. PICK n \in Nat : n = Cardinality(WithKeys(models))
    BY <1>1, FS_Subset, FS_CardinalityType
  <1>3. PICK c \in Nat : c = pool.cursor + n
    BY DEF Pools
  <1>4. Advanced(models) = [pool EXCEPT !.cursor = c]
    BY <1>2, <1>3 DEF Advanced
  <1>5. QED
    BY <1>4 DEF Pools

\* A list of attempts is one of keys that have the model.
LEMMA ListsAreSequences ==
    ASSUME pool \in Pools, NEW models \in SUBSET (0 .. VisionModels), Attempts(models) # {}, NEW list \in AttemptLists(models)
    PROVE  /\ list \in Seq(Attempted) /\ 1 <= Len(list)
           /\ \A i \in 1 .. Len(list) : list[i] \in Attempts(models)
           /\ \A i, j \in 1 .. Len(list) : i < j => AttemptedBefore(list[i], list[j], models)
  <1>1. Attempts(models) \subseteq Attempted /\ Attempts(models) \in SUBSET ((0 .. VisionModels) \X Slots)
    BY DEF Attempts, Attempted
  <1>2. IsFiniteSet(Attempts(models))
    <2>1. 0 \in Int /\ VisionModels \in Int /\ IsFiniteSet(Slots)
      BY ModelAssumption
    <2>2. IsFiniteSet(0 .. VisionModels)
      BY <2>1, FS_Interval
    <2>3. IsFiniteSet((0 .. VisionModels) \X Slots)
      BY <2>1, <2>2, FS_Product
    <2>4. QED
      BY <1>1, <2>3, FS_Subset
  <1>3. PICK n \in Nat \ {0} : n = Cardinality(Attempts(models))
    BY <1>2, FS_EmptySet, FS_CardinalityType
  <1>4. /\ list \in [1 .. n -> Attempts(models)]
        /\ \A i, j \in 1 .. n : i < j => AttemptedBefore(list[i], list[j], models)
    BY <1>3 DEF AttemptLists
  <1>5. list \in [1 .. n -> Attempted]
    BY <1>1, <1>4
  <1>6. list \in Seq(Attempted) /\ Len(list) = n
    BY <1>5
  <1>7. QED
    BY <1>4, <1>6

\* The keys that are tried for an answer, each once.
LEMMA AttemptsDiffer ==
    ASSUME pool \in Pools, NEW list \in AnswerLists
    PROVE  list \in Seq(Attempted) /\ KeysDiffer(list)
  <1>1. Candidates \subseteq Slots /\ pool.cursor \in Nat /\ {0} \in SUBSET (0 .. VisionModels)
    BY ModelAssumption DEF Pools, Candidates
  <1>2. CASE Candidates = {}
    <2>1. list = << <<0, Default>> >>
      BY <1>2 DEF AnswerLists
    <2>2. <<0, Default>> \in Attempted
      BY <1>1 DEF Attempted
    <2>3. list \in Seq(Attempted) /\ Len(list) = 1
      BY <2>1, <2>2
    <2>4. QED
      BY <2>3 DEF KeysDiffer
  <1>3. CASE Candidates # {}
    <2>1. Attempts({0}) = {0} \X Candidates
      <3>1. ASSUME NEW a
            PROVE  a \in Attempts({0}) <=> a \in {0} \X Candidates
        BY <1>1 DEF Attempts, Able
      <3>2. QED
        BY <3>1
    <2>2. Attempts({0}) # {} /\ list \in AttemptLists({0})
      <3>1. PICK c \in Candidates : TRUE
        BY <1>3
      <3>2. <<0, c>> \in Attempts({0})
        BY <2>1
      <3>3. QED
        BY <1>3, <3>2 DEF AnswerLists
    <2>3. /\ list \in Seq(Attempted) /\ 1 <= Len(list) /\ Len(list) \in Nat
          /\ \A i \in 1 .. Len(list) : list[i] \in Attempts({0})
          /\ \A i, j \in 1 .. Len(list) : i < j => AttemptedBefore(list[i], list[j], {0})
      BY <1>1, <2>2, ListsAreSequences
    <2>4. ASSUME NEW a \in Attempts({0})
          PROVE  ~AttemptedBefore(a, a, {0})
      <3>1. PICK key \in Candidates : a = <<0, key>>
        BY <2>1
      <3>2. PICK n \in Nat \ {0} : n = Cardinality(Candidates)
        BY <1>1, <1>3, ModelAssumption, FS_Subset, FS_EmptySet, FS_CardinalityType
      <3>3. IsFiniteSet({c \in Candidates : c < key})
        BY <1>1, ModelAssumption, FS_Subset
      <3>4. PICK k \in Nat : k = Cardinality({c \in Candidates : c < key})
        BY <3>3, FS_CardinalityType
      <3>5. {m \in WithKeys({0}) : m < 0} = {}
        <4>1. \A m \in WithKeys({0}) : m = 0
          BY DEF WithKeys
        <4>2. ~(0 < 0)
          OBVIOUS
        <4>3. QED
          BY <4>1, <4>2
      <3>6. PICK cursor \in Nat : cursor = pool.cursor + Cardinality({m \in WithKeys({0}) : m < 0})
        <4>1. PICK none : none = {m \in WithKeys({0}) : m < 0}
          OBVIOUS
        <4>2. Cardinality(none) = 0
          BY <3>5, <4>1, FS_EmptySet
        <4>3. \E c \in Nat : c = pool.cursor + Cardinality(none)
          BY <1>1, <4>2
        <4>4. QED
          BY <4>1, <4>3, Zenon
      <3>7. PICK m \in 0 .. (n - 1) : m = cursor % n
        BY Remainder
      <3>8. k + n - m \in Int
        OBVIOUS
      <3>9. (k + n - m) % n \in 0 .. (n - 1)
        BY <3>8, Remainder
      <3>10. Able(0) = Candidates
        BY DEF Able
      <3>11. Place(a, {0}) = (k + n - m) % n
        BY <3>1, <3>2, <3>4, <3>6, <3>7, <3>10 DEF Place
      <3>12. ~(Place(a, {0}) < Place(a, {0}))
        BY <3>9, <3>11
      <3>13. QED
        BY <3>12 DEF AttemptedBefore, TriedBefore
    <2>5. ASSUME NEW i \in 1 .. Len(list), NEW j \in 1 .. Len(list), list[i][2] = list[j][2]
          PROVE  i = j
      <3>1. list[i] = list[j]
        BY <2>1, <2>3, <2>5
      <3>2. ~(i < j) /\ ~(j < i)
        BY <2>3, <2>4, <3>1
      <3>3. QED
        BY <2>3, <3>2
    <2>6. QED
      BY <2>3, <2>5 DEF KeysDiffer
  <1>4. QED
    BY <1>2, <1>3

\* One turn changes.
LEMMA OneTurn ==
    ASSUME ModelInv, NEW t \in Bots, NEW e, TurnKept(e), talks' = [talks EXCEPT ![t] = e],
           pool' \in Pools, used' \in 0 .. Quota
    PROVE  ModelInv'
  <1>1. e \in Turns
    BY DEF TurnKept
  <1>2. talks' \in [Bots -> Turns]
    BY <1>1 DEF ModelInv
  <1>3. ASSUME NEW u \in Bots
        PROVE  TurnKept(talks'[u])
    <2>1. talks'[u] = IF u = t THEN e ELSE talks[u]
      BY DEF ModelInv
    <2>2. TurnKept(talks[u])
      BY DEF ModelInv
    <2>3. QED
      BY <2>1, <2>2
  <1>4. QED
    BY <1>2, <1>3 DEF ModelInv

\* The next bot begins with the first key.
LEMMA BotBegins ==
    ASSUME NEW turn \in Turns, NEW paid \in Nat, turn.asked + turn.owed <= paid, 1 <= turn.owed, KeysDiffer(turn.answers)
    PROVE  /\ Answering(turn) \in Turns /\ Answering(turn).paid = turn.paid
           /\ KeptWith(Answering(turn), paid)
  <1>1. <<>> \in Seq(Attempted)
    OBVIOUS
  <1>2. PICK none \in Seq(Attempted) : none = <<>>
    BY <1>1
  <1>3. PICK e : e = [turn EXCEPT !.at = "fetch", !.seeing = FALSE, !.pictures = none, !.index = 1, !.step = 0,
                                  !.actions = 0, !.failed = {}]
    OBVIOUS
  <1>4. e = Answering(turn)
    BY <1>2, <1>3 DEF Answering
  <1>5. e \in Turns
    <2>1. PICK no \in BOOLEAN : no = FALSE
      OBVIOUS
    <2>2. PICK at \in Calls : at = "fetch"
      BY DEF Calls
    <2>3. PICK nothing \in SUBSET (Slots \cup {Default}) : nothing = {}
      OBVIOUS
    <2>4. PICK d : d = [turn EXCEPT !.at = at, !.seeing = no, !.pictures = none]
      OBVIOUS
    <2>5. d \in Turns
      BY <2>4 DEF Turns
    <2>6. PICK one \in Nat \ {0}, zero \in Nat : one = 1 /\ zero = 0
      OBVIOUS
    <2>7. e = [d EXCEPT !.index = one, !.step = zero, !.actions = zero, !.failed = nothing]
      BY <1>3, <2>1, <2>2, <2>3, <2>4, <2>6 DEF Turns
    <2>8. QED
      BY <2>5, <2>7 DEF Turns
  <1>6. /\ e.at = "fetch" /\ ~e.seeing /\ e.answers = turn.answers /\ e.index = 1 /\ e.step = 0 /\ e.failed = {}
        /\ e.owed = turn.owed /\ e.asked = turn.asked /\ e.paid = turn.paid
    BY <1>3 DEF Turns
  <1>7. Trying(e) /\ Begins(e)
    BY <1>6 DEF Trying, List, KeysDiffer, Begins
  <1>8. KeptWith(e, paid)
    BY <1>6, <1>7 DEF KeptWith, Calls
  <1>9. QED
    BY <1>4, <1>5, <1>6, <1>8

\* A call has ended, well or not.
LEMMA CallEnds ==
    ASSUME NEW turn, TurnKept(turn)
    PROVE  TurnKept(AfterFailure(turn)) /\ (turn.at \in Calls => TurnKept(NextCall(turn)))
  <1>1. turn \in Turns /\ turn.paid \in Nat /\ turn.owed \in Nat /\ turn.asked + turn.owed <= turn.paid
    BY DEF TurnKept, KeptWith, Turns
  <1>2. ASSUME 1 <= turn.owed, KeysDiffer(turn.answers)
        PROVE  TurnKept(Answering(turn))
    BY <1>1, <1>2, BotBegins DEF TurnKept
  <1>3. turn.seeing => 1 <= turn.owed /\ KeysDiffer(turn.answers)
    BY DEF TurnKept, KeptWith
  <1>4. TurnKept(AfterFailure(turn))
    BY <1>2, <1>3, EmptyTurns DEF AfterFailure
  <1>5. ASSUME turn.at \in Calls
        PROVE  TurnKept(NextCall(turn))
    <2>1. KeysDiffer(turn.answers)
      BY <1>5 DEF TurnKept, KeptWith
    <2>2. turn.owed > 0 => 1 <= turn.owed
      BY <1>1
    <2>3. QED
      BY <1>2, <1>3, <2>1, <2>2, EmptyTurns DEF NextCall
  <1>6. QED
    BY <1>4, <1>5

\* Turns are reserved, and then the request may be made.
LEMMA PaidKeepsModels ==
    ASSUME ModelInv, NEW t \in Bots, NEW cost \in Nat, NEW next \in Turns, KeptWith(next, next.paid + cost),
           Paid(t, cost, next), pool' \in Pools
    PROVE  ModelInv'
  <1>1. TurnKept(talks[t]) /\ used \in 0 .. Quota /\ talks \in [Bots -> Turns]
    BY DEF ModelInv
  <1>2. CASE NoQuota(cost)
    <2>1. PICK e : e = AfterFailure(talks[t])
      OBVIOUS
    <2>2. TurnKept(e)
      BY <1>1, <2>1, CallEnds
    <2>3. talks' = [talks EXCEPT ![t] = e] /\ used' = used
      BY <1>2, <2>1 DEF Paid
    <2>4. QED
      BY <1>1, <2>2, <2>3, OneTurn
  <1>3. CASE ~NoQuota(cost)
    <2>1. PICK n \in Nat : n = next.paid + cost
      BY DEF Turns
    <2>2. PICK e : e = [next EXCEPT !.paid = n]
      OBVIOUS
    <2>3. /\ e \in Turns /\ e.at = next.at /\ e.seeing = next.seeing /\ e.answers = next.answers /\ e.pictures = next.pictures
          /\ e.index = next.index /\ e.step = next.step /\ e.owed = next.owed /\ e.asked = next.asked
          /\ e.failed = next.failed /\ e.paid = n
      BY <2>2 DEF Turns
    <2>4. (Trying(next) => Trying(e)) /\ (Begins(e) <=> Begins(next))
      BY <2>3 DEF Trying, List, Begins
    <2>5. KeptWith(e, n)
      BY <2>1, <2>3, <2>4 DEF KeptWith
    <2>6. TurnKept(e)
      BY <2>3, <2>5 DEF TurnKept
    <2>7. talks' = [talks EXCEPT ![t] = e] /\ used' = used + cost
      BY <1>3, <2>1, <2>2 DEF Paid
    <2>8. used' \in 0 .. Quota
      BY <1>1, <1>3, <2>7, ModelAssumption DEF NoQuota
    <2>9. QED
      BY <2>6, <2>7, <2>8, OneTurn
  <1>4. QED
    BY <1>2, <1>3

\* The pool lists models, and its cooldowns end.
LEMMA PoolKeepsModels ==
    ASSUME ModelInv,
           \/ ListModels \/ CatalogAges
           \/ \E l \in pool.listings : \E s \in Slots, listed \in BOOLEAN : SlotListed(l, s, listed)
           \/ \E s \in Slots : Warms(s)
    PROVE  ModelInv'
  <1>0. pool \in Pools
    BY DEF ModelInv
  <1>1. UNCHANGED <<talks, used>>
    BY DEF ListModels, CatalogAges, SlotListed, Warms
  <1>2. pool' \in Pools
    <2>1. CASE ListModels
      <3>1. PICK n \in Nat : n = pool.lists + 1
        BY <1>0 DEF Pools
      <3>2. PICK ls \in SUBSET [shared : BOOLEAN, left : SUBSET Slots] : ls = pool.listings \cup {[shared |-> FALSE, left |-> Slots]}
        <4>1. PICK l \in [shared : BOOLEAN, left : SUBSET Slots] : l = [shared |-> FALSE, left |-> Slots]
          OBVIOUS
        <4>2. pool.listings \cup {l} \subseteq [shared : BOOLEAN, left : SUBSET Slots]
          BY <1>0, <4>1 DEF Pools
        <4>3. QED
          BY <4>1, <4>2
      <3>3. pool' = [pool EXCEPT !.catalogs = {}, !.listings = ls, !.lists = n]
        BY <1>0, <2>1, <3>1, <3>2 DEF ListModels, BeginListing, Pools
      <3>4. QED
        BY <1>0, <3>3 DEF Pools
    <2>2. CASE CatalogAges
      <3>1. PICK n \in Nat : n = pool.lists + 1
        BY <1>0 DEF Pools
      <3>2. pool' = [pool EXCEPT !.fresh = FALSE, !.lists = n]
        BY <2>2, <3>1 DEF CatalogAges
      <3>3. QED
        BY <1>0, <3>2 DEF Pools
    <2>3. CASE \E l \in pool.listings : \E s \in Slots, listed \in BOOLEAN : SlotListed(l, s, listed)
      <3>1. PICK l \in pool.listings, s \in Slots, listed \in BOOLEAN : SlotListed(l, s, listed)
        BY <2>3
      <3>2. l \in [shared : BOOLEAN, left : SUBSET Slots]
        BY <1>0 DEF Pools
      <3>3. PICK left \in SUBSET Slots : left = l.left \ {s}
        BY <3>2
      <3>4. PICK n \in [shared : BOOLEAN, left : SUBSET Slots] : n = [l EXCEPT !.left = left]
        BY <3>2
      <3>5. PICK ls \in SUBSET [shared : BOOLEAN, left : SUBSET Slots] : ls = (pool.listings \ {l}) \cup {n}
        BY <1>0 DEF Pools
      <3>6. PICK c \in SUBSET Slots : c = IF listed THEN pool.catalogs \cup {s} ELSE pool.catalogs
        BY <1>0 DEF Pools
      <3>7. pool' = [pool EXCEPT !.catalogs = c, !.listings = ls]
        BY <3>1, <3>3, <3>4, <3>5, <3>6 DEF SlotListed
      <3>8. QED
        BY <1>0, <3>7 DEF Pools
    <2>4. CASE \E s \in Slots : Warms(s)
      <3>1. PICK s \in Slots : pool' = [pool EXCEPT !.cooling = pool.cooling \ {s}]
        BY <2>4 DEF Warms
      <3>2. PICK c \in SUBSET Slots : c = pool.cooling \ {s}
        BY <1>0 DEF Pools
      <3>3. pool' = [pool EXCEPT !.cooling = c]
        BY <3>1, <3>2
      <3>4. QED
        BY <1>0, <3>3 DEF Pools
    <2>5. QED
      BY <2>1, <2>2, <2>3, <2>4
  <1>3. QED
    BY <1>1, <1>2 DEF ModelInv

\* A turn waits for a listing, and goes on when it has ended.
LEMMA ListingsKeepModels ==
    ASSUME ModelInv, \/ \E l \in pool.listings : ListingEnds(l)
                     \/ \E t \in Bots : EnsureModels(t)
    PROVE  ModelInv'
  <1>0. pool \in Pools /\ talks \in [Bots -> Turns] /\ used \in 0 .. Quota /\ \A t \in Bots : TurnKept(talks[t])
    BY DEF ModelInv
  <1>1. ASSUME NEW turn, TurnKept(turn), turn.at \in {"new", "listing"}, NEW at \in {"listing", "choose"},
               NEW e, e = [turn EXCEPT !.at = at]
        PROVE  TurnKept(e)
    <2>1. e \in Turns /\ e.at = at /\ e.seeing = turn.seeing /\ e.answers = turn.answers /\ e.owed = turn.owed
          /\ e.index = turn.index /\ e.paid = turn.paid /\ e.asked = turn.asked
      BY <1>1 DEF TurnKept, Turns
    <2>2. QED
      BY <1>1, <2>1 DEF TurnKept, KeptWith, Calls
  <1>2. CASE \E l \in pool.listings : ListingEnds(l)
    <2>1. PICK l \in pool.listings : ListingEnds(l)
      BY <1>2
    <2>2. PICK ls \in SUBSET [shared : BOOLEAN, left : SUBSET Slots] : ls = pool.listings \ {l}
      BY <1>0 DEF Pools
    <2>3. pool' = [pool EXCEPT !.listings = ls, !.fresh = TRUE] /\ used' = used
      BY <2>1, <2>2 DEF ListingEnds
    <2>4. pool' \in Pools
      BY <1>0, <2>3 DEF Pools
    <2>5. CASE ~l.shared
      <3>1. talks' = talks
        BY <2>1, <2>5 DEF ListingEnds
      <3>2. QED
        BY <1>0, <2>3, <2>4, <3>1 DEF ModelInv
    <2>6. CASE l.shared
      <3>1. talks' = [t \in Bots |-> IF talks[t].at = "listing" THEN [talks[t] EXCEPT !.at = "choose"] ELSE talks[t]]
        BY <2>1, <2>6 DEF ListingEnds
      <3>2. ASSUME NEW t \in Bots
            PROVE  TurnKept(talks'[t])
        <4>1. CASE talks[t].at = "listing"
          <5>1. PICK at \in {"listing", "choose"} : at = "choose"
            OBVIOUS
          <5>2. PICK e : e = [talks[t] EXCEPT !.at = at]
            OBVIOUS
          <5>3. talks'[t] = e
            BY <3>1, <4>1, <5>1, <5>2
          <5>4. QED
            BY <1>0, <1>1, <4>1, <5>2, <5>3
        <4>2. CASE talks[t].at # "listing"
          <5>1. talks'[t] = talks[t]
            BY <3>1, <4>2
          <5>2. QED
            BY <1>0, <5>1
        <4>3. QED
          BY <4>1, <4>2
      <3>3. \A t \in Bots : talks'[t] \in Turns
        BY <3>2 DEF TurnKept
      <3>4. talks' \in [Bots -> Turns]
        BY <3>1, <3>3
      <3>5. QED
        BY <1>0, <2>3, <2>4, <3>2, <3>4 DEF ModelInv
    <2>7. QED
      BY <2>5, <2>6
  <1>3. CASE \E t \in Bots : EnsureModels(t)
    <2>1. PICK t \in Bots : EnsureModels(t)
      BY <1>3
    <2>2. PICK at \in {"listing", "choose"} : at = IF pool.fresh THEN "choose" ELSE "listing"
      OBVIOUS
    <2>3. PICK e : e = [talks[t] EXCEPT !.at = at]
      OBVIOUS
    <2>4. talks' = [talks EXCEPT ![t] = e] /\ used' = used /\ talks[t].at = "new"
      BY <2>1, <2>2, <2>3 DEF EnsureModels
    <2>5. TurnKept(e)
      BY <1>0, <1>1, <2>3, <2>4
    <2>6. pool' \in Pools
      <3>1. PICK ls \in SUBSET [shared : BOOLEAN, left : SUBSET Slots] : ls = pool.listings \cup {[shared |-> TRUE, left |-> Slots]}
        <4>1. PICK l \in [shared : BOOLEAN, left : SUBSET Slots] : l = [shared |-> TRUE, left |-> Slots]
          OBVIOUS
        <4>2. pool.listings \cup {l} \subseteq [shared : BOOLEAN, left : SUBSET Slots]
          BY <1>0, <4>1 DEF Pools
        <4>3. QED
          BY <4>1, <4>2
      <3>2. pool' = pool \/ pool' = [pool EXCEPT !.catalogs = {}, !.listings = ls]
        BY <2>1, <3>1 DEF EnsureModels, BeginListing
      <3>3. QED
        BY <1>0, <3>2 DEF Pools
    <2>7. QED
      BY <1>0, <2>4, <2>5, <2>6, OneTurn
  <1>4. QED
    BY <1>2, <1>3

\* A message begins with a list of its own, and a turn for each of its bots.
LEMMA ChooseKeepsModels ==
    ASSUME ModelInv, NEW t \in Bots, Choose(t)
    PROVE  ModelInv'
  <1>0. /\ pool \in Pools /\ talks[t] \in Turns /\ talks[t].paid \in Nat /\ talks[t].asked \in Nat /\ talks[t].owed \in Nat
        /\ talks[t].asked + talks[t].owed <= talks[t].paid /\ talks[t].index = 1
    BY DEF ModelInv, TurnKept, KeptWith, Turns, Choose
  <1>1. PICK n \in 1 .. MaxSelected, images \in BOOLEAN, list \in AnswerLists :
          LET chosen == [talks[t] EXCEPT !.answers = list, !.owed = n]
          IN  Paid(t, n, IF images THEN [chosen EXCEPT !.at = "look", !.seeing = TRUE] ELSE Answering(chosen))
    BY DEF Choose
  <1>2. list \in Seq(Attempted) /\ KeysDiffer(list)
    BY <1>0, AttemptsDiffer
  <1>3. n \in Nat /\ 1 <= n
    BY ModelAssumption
  <1>4. pool' \in Pools
    <2>1. {0} \in SUBSET (0 .. VisionModels)
      BY ModelAssumption
    <2>2. QED
      BY <1>0, <2>1, CursorAdvances DEF Choose
  <1>5. PICK chosen : chosen = [talks[t] EXCEPT !.answers = list, !.owed = n]
    OBVIOUS
  <1>6. /\ chosen \in Turns /\ chosen.answers = list /\ chosen.owed = n /\ chosen.asked = talks[t].asked
        /\ chosen.paid = talks[t].paid /\ chosen.index = 1
    BY <1>0, <1>2, <1>3, <1>5 DEF Turns
  <1>7. PICK paid \in Nat : paid = talks[t].paid + n
    BY <1>0, <1>3
  <1>8. chosen.asked + chosen.owed <= paid
    BY <1>0, <1>3, <1>6, <1>7
  <1>9. CASE images
    <2>1. PICK next : next = [chosen EXCEPT !.at = "look", !.seeing = TRUE]
      OBVIOUS
    <2>2. Paid(t, n, next)
      BY <1>1, <1>5, <1>9, <2>1
    <2>3. next \in Turns /\ next.at = "look" /\ next.seeing /\ next.answers = list /\ next.owed = n /\ next.index = 1
          /\ next.asked = chosen.asked /\ next.paid = talks[t].paid
      BY <1>6, <2>1 DEF Turns
    <2>4. KeptWith(next, next.paid + n)
      BY <1>2, <1>3, <1>6, <1>7, <1>8, <2>3 DEF KeptWith, Calls
    <2>5. QED
      BY <1>3, <1>4, <2>2, <2>3, <2>4, PaidKeepsModels
  <1>10. CASE ~images
    <2>1. PICK next : next = Answering(chosen)
      OBVIOUS
    <2>2. Paid(t, n, next)
      BY <1>1, <1>5, <1>10, <2>1
    <2>3. next \in Turns /\ next.paid = talks[t].paid /\ KeptWith(next, paid)
      BY <1>2, <1>3, <1>6, <1>8, <2>1, BotBegins
    <2>4. QED
      BY <1>3, <1>4, <1>7, <2>2, <2>3, PaidKeepsModels
  <1>11. QED
    BY <1>9, <1>10

\* The pictures get a list of their own, and a turn that the bots do not pay.
LEMMA LookKeepsModels ==
    ASSUME ModelInv, NEW t \in Bots, Look(t)
    PROVE  ModelInv'
  <1>0. /\ pool \in Pools /\ used \in 0 .. Quota /\ talks[t] \in Turns /\ TurnKept(talks[t]) /\ talks[t].at = "look"
        /\ talks[t].seeing /\ 1 <= talks[t].owed /\ KeysDiffer(talks[t].answers)
        /\ talks[t].asked + talks[t].owed <= talks[t].paid
        /\ talks[t].paid \in Nat /\ talks[t].asked \in Nat /\ talks[t].owed \in Nat /\ talks[t].index = 1
    BY DEF Look, ModelInv, TurnKept, KeptWith, Turns
  <1>1. 1 .. VisionModels \in SUBSET (0 .. VisionModels)
    BY ModelAssumption
  <1>2. pool' \in Pools
    BY <1>0, <1>1, CursorAdvances DEF Look
  <1>3. CASE Attempts(1 .. VisionModels) = {}
    <2>1. PICK e : e = Answering(talks[t])
      OBVIOUS
    <2>2. TurnKept(e)
      BY <1>0, <2>1, BotBegins DEF TurnKept
    <2>3. talks' = [talks EXCEPT ![t] = e] /\ used' = used
      BY <1>3, <2>1 DEF Look
    <2>4. QED
      BY <1>0, <1>2, <2>2, <2>3, OneTurn
  <1>4. CASE Attempts(1 .. VisionModels) # {}
    <2>1. PICK list \in AttemptLists(1 .. VisionModels) : Paid(t, 1, [talks[t] EXCEPT !.at = "fetch", !.pictures = list])
      BY <1>4 DEF Look
    <2>2. list \in Seq(Attempted) /\ 1 <= Len(list)
      BY <1>0, <1>1, <1>4, ListsAreSequences
    <2>3. PICK next : next = [talks[t] EXCEPT !.at = "fetch", !.pictures = list]
      OBVIOUS
    <2>4. Paid(t, 1, next)
      BY <2>1, <2>3
    <2>5. /\ next \in Turns /\ next.at = "fetch" /\ next.seeing /\ next.answers = talks[t].answers /\ next.pictures = list
          /\ next.index = talks[t].index /\ next.owed = talks[t].owed /\ next.asked = talks[t].asked /\ next.paid = talks[t].paid
      BY <1>0, <2>2, <2>3 DEF Turns, Calls
    <2>6. Trying(next) /\ ~Begins(next)
      <3>1. List(next) = list /\ next.index = 1
        BY <1>0, <2>5 DEF List
      <3>2. QED
        BY <2>2, <2>5, <3>1 DEF Trying, Begins
    <2>7. next.asked + next.owed < next.paid + 1 /\ next.asked + next.owed <= next.paid + 1
      BY <1>0, <2>5
    <2>8. KeptWith(next, next.paid + 1)
      BY <1>0, <2>5, <2>6, <2>7 DEF KeptWith
    <2>9. QED
      BY <1>2, <2>4, <2>5, <2>8, PaidKeepsModels
  <1>5. QED
    BY <1>3, <1>4

\* A request is made, which was reserved.
LEMMA FetchKeepsModels ==
    ASSUME ModelInv, NEW t \in Bots, Fetch(t)
    PROVE  ModelInv'
  <1>0. /\ pool \in Pools /\ used \in 0 .. Quota /\ talks[t] \in Turns /\ KeptWith(talks[t], talks[t].paid) /\ talks[t].at = "fetch"
        /\ pool' = pool /\ used' = used /\ talks[t].paid \in Nat /\ talks[t].asked \in Nat /\ talks[t].owed \in Nat
    BY DEF ModelInv, TurnKept, Turns, Fetch
  <1>1. PICK n \in Nat : n = talks[t].asked + 1
    BY <1>0
  <1>2. PICK owed \in Nat : owed = IF Begins(talks[t]) THEN talks[t].owed - 1 ELSE talks[t].owed
    BY <1>0 DEF KeptWith
  <1>3. PICK e : e = [talks[t] EXCEPT !.at = "calling", !.asked = n, !.owed = owed]
    OBVIOUS
  <1>4. talks' = [talks EXCEPT ![t] = e]
    BY <1>1, <1>2, <1>3 DEF Fetch
  <1>5. /\ e \in Turns /\ e.at = "calling" /\ e.seeing = talks[t].seeing /\ e.answers = talks[t].answers
        /\ e.pictures = talks[t].pictures /\ e.index = talks[t].index /\ e.paid = talks[t].paid
        /\ e.asked = n /\ e.owed = owed /\ e.failed = talks[t].failed
    BY <1>0, <1>1, <1>2, <1>3 DEF Turns, Calls
  <1>6. n + owed <= talks[t].paid
    BY <1>0, <1>1, <1>2 DEF KeptWith
  <1>7. talks[t].seeing => 1 <= owed
    BY <1>0, <1>2 DEF KeptWith, Begins
  <1>8. Trying(e)
    BY <1>0, <1>5 DEF KeptWith, Calls, Trying, List
  <1>9. TurnKept(e)
    BY <1>0, <1>5, <1>6, <1>7, <1>8 DEF TurnKept, KeptWith, Calls
  <1>10. QED
    BY <1>0, <1>4, <1>9, OneTurn

\* A key has failed, and the next of the list is tried; of answers it is another one.
LEMMA FailedCallKeepsModels ==
    ASSUME ModelInv, NEW t \in Bots, CallFails(t)
    PROVE  ModelInv'
  <1>0. /\ pool \in Pools /\ used \in 0 .. Quota /\ talks[t] \in Turns /\ TurnKept(talks[t]) /\ talks[t].at = "calling"
        /\ Trying(talks[t]) /\ KeysDiffer(talks[t].answers) /\ (talks[t].seeing => 1 <= talks[t].owed)
        /\ talks[t].asked + talks[t].owed <= talks[t].paid
        /\ talks[t].paid \in Nat /\ talks[t].asked \in Nat /\ talks[t].owed \in Nat
    BY DEF ModelInv, CallFails, TurnKept, KeptWith, Turns, Calls
  <1>1. PICK i \in Nat \ {0} : i = talks[t].index /\ i \in 1 .. Len(List(talks[t])) /\ List(talks[t]) \in Seq(Attempted)
    <2>1. talks[t].index \in Nat \ {0} /\ List(talks[t]) \in Seq(Attempted) /\ talks[t].index <= Len(List(talks[t]))
      BY <1>0 DEF Turns, Trying, List
    <2>2. Len(List(talks[t])) \in Nat
      BY <2>1
    <2>3. QED
      BY <2>1, <2>2
  <1>2. PICK key \in Slots \cup {Default} : key = List(talks[t])[i][2]
    <2>1. List(talks[t])[i] \in Attempted
      BY <1>1
    <2>2. QED
      BY <2>1 DEF Attempted
  <1>3. pool' \in Pools
    <2>1. PICK c : c = IF key = Default THEN pool.cooling ELSE pool.cooling \cup {key}
      OBVIOUS
    <2>2. c \in SUBSET Slots
      BY <1>0, <2>1 DEF Pools
    <2>3. pool' = [pool EXCEPT !.cooling = c]
      BY <1>1, <1>2, <2>1 DEF CallFails
    <2>4. QED
      BY <1>0, <2>2, <2>3 DEF Pools
  <1>4. PICK f \in SUBSET (Slots \cup {Default}) : f = talks[t].failed \cup {key}
    BY <1>0 DEF Turns
  <1>5. CASE talks[t].index >= Limit(talks[t])
    <2>1. PICK e : e = AfterFailure(talks[t])
      OBVIOUS
    <2>2. talks' = [talks EXCEPT ![t] = e] /\ used' = used
      BY <1>5, <2>1 DEF CallFails
    <2>3. TurnKept(e)
      BY <1>0, <2>1, CallEnds
    <2>4. QED
      BY <1>0, <1>3, <2>2, <2>3, OneTurn
  <1>6. CASE ~(talks[t].index >= Limit(talks[t]))
    <2>1. PICK j \in Nat \ {0} : j = i + 1
      OBVIOUS
    <2>2. PICK next : next = [talks[t] EXCEPT !.at = "fetch", !.index = j, !.failed = f]
      OBVIOUS
    <2>3. Paid(t, 1, next)
      BY <1>1, <1>2, <1>4, <1>6, <2>1, <2>2 DEF CallFails
    <2>4. /\ next \in Turns /\ next.at = "fetch" /\ next.seeing = talks[t].seeing /\ next.answers = talks[t].answers
          /\ next.pictures = talks[t].pictures /\ next.index = j /\ next.owed = talks[t].owed
          /\ next.paid = talks[t].paid /\ next.asked = talks[t].asked /\ next.failed = f
      BY <1>0, <2>2 DEF Turns, Calls
    <2>5. List(next) = List(talks[t])
      BY <2>4 DEF List
    <2>6. j <= Len(List(talks[t]))
      <3>1. Len(List(talks[t])) \in Nat
        BY <1>1
      <3>2. i < Len(List(talks[t]))
        BY <1>1, <1>6, <3>1, ModelAssumption DEF Limit
      <3>3. QED
        BY <2>1, <3>1, <3>2
    <2>7. Trying(next)
      <3>1. ASSUME ~talks[t].seeing, NEW k \in f
            PROVE  \E n \in 1 .. Len(talks[t].answers) : n < j /\ talks[t].answers[n][2] = k
        <4>1. CASE k = key
          BY <1>1, <1>2, <2>1, <3>1, <4>1 DEF List
        <4>2. CASE k \in talks[t].failed
          <5>1. PICK n \in 1 .. Len(talks[t].answers) : n < talks[t].index /\ talks[t].answers[n][2] = k
            BY <1>0, <3>1, <4>2 DEF Trying
          <5>2. QED
            BY <1>1, <2>1, <5>1
        <4>3. QED
          BY <1>4, <3>1, <4>1, <4>2
      <3>2. QED
        BY <2>4, <2>5, <2>6, <3>1 DEF Trying
    <2>8. ~Begins(next)
      BY <2>1, <2>4 DEF Begins
    <2>9. next.asked + next.owed < next.paid + 1 /\ next.asked + next.owed <= next.paid + 1
      BY <1>0, <2>4
    <2>10. KeptWith(next, next.paid + 1)
      BY <1>0, <2>4, <2>7, <2>8, <2>9 DEF KeptWith
    <2>11. QED
      BY <1>3, <2>3, <2>4, <2>10, PaidKeepsModels
  <1>7. QED
    BY <1>5, <1>6

\* A picture cannot be read, or a request is answered, and the answer is read.
LEMMA AnswerKeepsModels ==
    ASSUME ModelInv, NEW t \in Bots, PictureFails(t) \/ CallRejected(t) \/ CallAnswered(t) \/ BodyRead(t)
    PROVE  ModelInv'
  <1>0. /\ pool \in Pools /\ used \in 0 .. Quota /\ talks[t] \in Turns /\ TurnKept(talks[t])
        /\ pool' = pool /\ used' = used /\ talks[t].at \in Calls
    BY DEF ModelInv, PictureFails, CallRejected, CallAnswered, BodyRead, Calls
  <1>1. KeysDiffer(talks[t].answers) /\ Trying(talks[t]) /\ (talks[t].seeing => 1 <= talks[t].owed)
        /\ talks[t].asked + talks[t].owed <= talks[t].paid
    BY <1>0 DEF TurnKept, KeptWith
  <1>2. ASSUME NEW e, TurnKept(e), talks' = [talks EXCEPT ![t] = e]
        PROVE  ModelInv'
    BY <1>0, <1>2, OneTurn
  <1>3. CASE PictureFails(t)
    <2>1. PICK e : e = AfterFailure(talks[t])
      OBVIOUS
    <2>2. talks' = [talks EXCEPT ![t] = e]
      BY <1>3, <2>1 DEF PictureFails, AfterFailure
    <2>3. TurnKept(e)
      BY <1>0, <2>1, CallEnds
    <2>4. QED
      BY <1>2, <2>2, <2>3
  <1>4. CASE CallRejected(t)
    <2>1. PICK e \in {AfterFailure(talks[t]), Over} : talks' = [talks EXCEPT ![t] = e]
      BY <1>4 DEF CallRejected
    <2>2. TurnKept(e)
      BY <1>0, <2>1, CallEnds, EmptyTurns
    <2>3. QED
      BY <1>2, <2>1, <2>2
  <1>5. ASSUME NEW e \in Turns, e.at \in {"reading", "tools"}, e.seeing = talks[t].seeing, e.answers = talks[t].answers,
               e.pictures = talks[t].pictures, e.index = talks[t].index, e.owed = talks[t].owed,
               e.asked = talks[t].asked, e.paid = talks[t].paid, e.failed = talks[t].failed
        PROVE  TurnKept(e)
    <2>1. Trying(e)
      BY <1>1, <1>5 DEF Trying, List
    <2>2. QED
      BY <1>1, <1>5, <2>1 DEF TurnKept, KeptWith
  <1>6. CASE CallAnswered(t)
    <2>1. PICK e : e = [talks[t] EXCEPT !.at = "reading"]
      OBVIOUS
    <2>2. talks' = [talks EXCEPT ![t] = e]
      BY <1>6, <2>1 DEF CallAnswered
    <2>3. TurnKept(e)
      BY <1>0, <1>5, <2>1 DEF Turns, Calls
    <2>4. QED
      BY <1>2, <2>2, <2>3
  <1>7. CASE \E e \in {NextCall(talks[t]), AfterFailure(talks[t])} : talks' = [talks EXCEPT ![t] = e]
    <2>1. PICK e \in {NextCall(talks[t]), AfterFailure(talks[t])} : talks' = [talks EXCEPT ![t] = e]
      BY <1>7
    <2>2. TurnKept(e)
      BY <1>0, <2>1, CallEnds
    <2>3. QED
      BY <1>2, <2>1, <2>2
  <1>8. CASE \E n \in 1..(MaxActions - talks[t].actions) :
                talks' = [talks EXCEPT ![t].at = "tools", ![t].actions = @ + n]
    <2>1. PICK n \in 1..(MaxActions - talks[t].actions) : talks' = [talks EXCEPT ![t].at = "tools", ![t].actions = @ + n]
      BY <1>8
    <2>2. PICK a \in Nat : a = talks[t].actions + n
      <3>1. talks[t].actions \in Nat
        BY <1>0 DEF Turns
      <3>2. n \in Nat
        BY <3>1, ModelAssumption
      <3>3. QED
        BY <3>1, <3>2
    <2>3. PICK e : e = [talks[t] EXCEPT !.at = "tools", !.actions = a]
      OBVIOUS
    <2>4. talks' = [talks EXCEPT ![t] = e]
      BY <2>1, <2>2, <2>3
    <2>5. TurnKept(e)
      BY <1>0, <1>5, <2>3 DEF Turns, Calls
    <2>6. QED
      BY <1>2, <2>4, <2>5
  <1>9. QED
    BY <1>3, <1>4, <1>6, <1>7, <1>8 DEF BodyRead

\* The tools are done, and the next step is reserved.
LEMMA ToolsKeepModels ==
    ASSUME ModelInv, NEW t \in Bots, ToolsRan(t)
    PROVE  ModelInv'
  <1>0. /\ pool \in Pools /\ used \in 0 .. Quota /\ talks[t] \in Turns /\ TurnKept(talks[t])
        /\ pool' = pool /\ talks[t].at = "tools"
        /\ Trying(talks[t]) /\ KeysDiffer(talks[t].answers) /\ (talks[t].seeing => 1 <= talks[t].owed)
        /\ talks[t].asked + talks[t].owed <= talks[t].paid
        /\ talks[t].paid \in Nat /\ talks[t].asked \in Nat /\ talks[t].owed \in Nat /\ talks[t].step \in Nat
    BY DEF ModelInv, ToolsRan, TurnKept, KeptWith, Turns, Calls
  <1>1. CASE talks[t].step + 1 >= MaxSteps
    <2>1. PICK e : e = AfterFailure(talks[t])
      OBVIOUS
    <2>2. talks' = [talks EXCEPT ![t] = e] /\ used' = used
      BY <1>1, <2>1 DEF ToolsRan
    <2>3. TurnKept(e)
      BY <1>0, <2>1, CallEnds
    <2>4. QED
      BY <1>0, <2>2, <2>3, OneTurn
  <1>2. CASE ~(talks[t].step + 1 >= MaxSteps)
    <2>1. PICK k \in Nat : k = talks[t].step + 1
      BY <1>0
    <2>2. PICK next : next = [talks[t] EXCEPT !.at = "fetch", !.step = k]
      OBVIOUS
    <2>3. Paid(t, 1, next)
      BY <1>2, <2>1, <2>2 DEF ToolsRan
    <2>4. /\ next \in Turns /\ next.at = "fetch" /\ next.seeing = talks[t].seeing /\ next.answers = talks[t].answers
          /\ next.pictures = talks[t].pictures /\ next.index = talks[t].index /\ next.step = k /\ next.owed = talks[t].owed
          /\ next.paid = talks[t].paid /\ next.asked = talks[t].asked /\ next.failed = talks[t].failed
      BY <1>0, <2>2 DEF Turns, Calls
    <2>5. Trying(next)
      BY <1>0, <2>4 DEF Trying, List
    <2>6. ~Begins(next)
      BY <1>0, <2>1, <2>4 DEF Begins
    <2>7. next.asked + next.owed < next.paid + 1 /\ next.asked + next.owed <= next.paid + 1
      BY <1>0, <2>4
    <2>8. KeptWith(next, next.paid + 1)
      BY <1>0, <2>4, <2>5, <2>6, <2>7 DEF KeptWith
    <2>9. QED
      BY <1>0, <2>3, <2>4, <2>8, PaidKeepsModels
  <1>3. QED
    BY <1>1, <1>2

\* Messages that interleave at every request, a listing or a cooldown keep what each has paid.
THEOREM ModelInvariant == ModelSpec => []ModelInv
  <1>1. ModelInv /\ [ModelNext]_modelVars => ModelInv'
    <2> SUFFICES ASSUME ModelInv, [ModelNext]_modelVars PROVE ModelInv'
      OBVIOUS
    <2>1. CASE \/ ListModels \/ CatalogAges
               \/ \E l \in pool.listings : \E s \in Slots, listed \in BOOLEAN : SlotListed(l, s, listed)
               \/ \E s \in Slots : Warms(s)
      BY <2>1, PoolKeepsModels
    <2>2. CASE (\E l \in pool.listings : ListingEnds(l)) \/ \E t \in Bots : EnsureModels(t)
      BY <2>2, ListingsKeepModels
    <2>3. ASSUME NEW t \in Bots, Choose(t) \/ Look(t) PROVE ModelInv'
      BY <2>3, ChooseKeepsModels, LookKeepsModels
    <2>4. ASSUME NEW t \in Bots, Fetch(t) PROVE ModelInv'
      BY <2>4, FetchKeepsModels
    <2>5. ASSUME NEW t \in Bots, CallFails(t) PROVE ModelInv'
      BY <2>5, FailedCallKeepsModels
    <2>6. ASSUME NEW t \in Bots, PictureFails(t) \/ CallRejected(t) \/ CallAnswered(t) \/ BodyRead(t) PROVE ModelInv'
      BY <2>6, AnswerKeepsModels
    <2>7. ASSUME NEW t \in Bots, ToolsRan(t) PROVE ModelInv'
      BY <2>7, ToolsKeepModels
    <2>8. CASE UNCHANGED modelVars
      BY <2>8 DEF modelVars, ModelInv
    <2>9. QED
      BY <2>1, <2>2, <2>3, <2>4, <2>5, <2>6, <2>7, <2>8 DEF ModelNext
  <1>2. QED
    BY <1>1, ModelStart, PTL DEF ModelSpec

\* Every request to a provider was reserved and all stay within the quota; what was reserved
\* for the bots of a message is there for each of them, whatever the pictures and the bots
\* before cost; and no bot asks a key again that failed in its call.
THEOREM CallsReserved == ModelSpec => []CallsAreReserved
  <1>1. ModelInv => CallsAreReserved
    <2> SUFFICES ASSUME ModelInv PROVE CallsAreReserved
      OBVIOUS
    <2>1. used <= Quota
      BY ModelAssumption DEF ModelInv
    <2>2. \A t \in Bots : talks[t].asked + talks[t].owed <= talks[t].paid
      BY DEF ModelInv, TurnKept, KeptWith
    <2>3. ASSUME NEW t \in Bots, talks[t].at \in {"fetch", "calling"}, ~talks[t].seeing,
                 talks[t].answers[talks[t].index][2] \in talks[t].failed
          PROVE  FALSE
      <3>1. Trying(talks[t]) /\ KeysDiffer(talks[t].answers) /\ talks[t] \in Turns
        BY <2>3 DEF ModelInv, TurnKept, KeptWith, Calls
      <3>2. PICK i \in 1 .. Len(talks[t].answers) :
                i < talks[t].index /\ talks[t].answers[i][2] = talks[t].answers[talks[t].index][2]
        BY <2>3, <3>1 DEF Trying
      <3>3. /\ talks[t].index \in Nat \ {0} /\ talks[t].answers \in Seq(Attempted)
            /\ talks[t].index <= Len(talks[t].answers)
        BY <2>3, <3>1 DEF Turns, Trying, List
      <3>4. Len(talks[t].answers) \in Nat
        BY <3>3
      <3>5. talks[t].index \in 1 .. Len(talks[t].answers)
        BY <3>3, <3>4
      <3>6. i = talks[t].index
        BY <3>1, <3>2, <3>5 DEF KeysDiffer
      <3>7. QED
        BY <3>2, <3>3, <3>6
    <2>4. QED
      BY <2>1, <2>2, <2>3 DEF CallsAreReserved
  <1>2. QED
    BY <1>1, ModelInvariant, PTL

-----------------------------------------------------------------------------
(* push.mjs                                                                  *)

PushSpec == PushInit /\ [][PushNext]_pushVars

\* Whose a registration the page knows of may be.
Own(e) == e # NoEndpoint => service.row[e] \in {pwa.session, Nobody} \cup pwa.closed

\* An operation of the present epoch acts for the login of the page, and its registration
\* that was accepted has stayed that login's.
OpIsOwn(o) ==
    /\ o.at = "stored" /\ o.current => Own(o.ep)
    /\ o.at \in {"posting", "stored", "refused"} => o.kind \in {"load", "enable"}
    /\ o.current /\ o.kind # "left" => o.by = pwa.session

PushInv ==
    /\ PushTypeOK
    /\ service.live \subseteq {pwa.session} \cup pwa.closed
    /\ Own(pwa.subscription)
    /\ \A o \in pwa.ops : OpIsOwn(o)

\* An operation of an earlier epoch is one there was, and not current any more.
LEMMA EpochOver ==
    ASSUME NEW S \in SUBSET Ops
    PROVE  NewEpoch(S) \in SUBSET Ops
           /\ \A o \in NewEpoch(S) : ~o.current /\ \E x \in S : o.at = x.at /\ o.kind = x.kind
  <1>1. ASSUME NEW o \in NewEpoch(S)
        PROVE  o \in Ops /\ ~o.current /\ \E x \in S : o.at = x.at /\ o.kind = x.kind
    <2>1. PICK x \in S : o = [x EXCEPT !.current = FALSE]
      BY DEF NewEpoch
    <2>2. x \in Ops
      OBVIOUS
    <2>3. o \in Ops /\ ~o.current /\ o.at = x.at /\ o.kind = x.kind
      BY <2>1, <2>2 DEF Ops
    <2>4. QED
      BY <2>3
  <1>2. QED
    BY <1>1

\* An operation begun is of the login of the page.
LEMMA OpBegins ==
    ASSUME NEW k \in {"load", "enable", "disable", "test", "clear"}, NEW s \in Sessions
    PROVE  /\ Op(k, s) \in Ops /\ Op(k, s).current /\ Op(k, s).by = s
           /\ Op(k, s).at = "asked" /\ Op(k, s).kind = k
  BY DEF Op, Ops

\* The page of a login begins with nothing of an earlier one.
LEMMA LoginKeepsPush ==
    ASSUME PushInv, NEW s \in Sessions, pwa' = WithSession(s), device' = device,
           service'.live \subseteq service.live \cup {s}, service'.row = service.row,
           pwa.session \in {s, Nobody}, service' \in PushServices
    PROVE  PushInv'
  <1>1. PICK old : old = NewEpoch(pwa.ops)
    OBVIOUS
  <1>2. PICK new : new = Op("load", s)
    OBVIOUS
  <1>3. /\ old \in SUBSET Ops /\ new \in Ops
        /\ \A o \in old : ~o.current /\ \E x \in pwa.ops : o.at = x.at /\ o.kind = x.kind
    BY <1>1, <1>2, EpochOver, OpBegins DEF PushInv, PushTypeOK, PushPages
  <1>4. pwa \in PushPages
    BY DEF PushInv, PushTypeOK
  <1>5. PICK n \in Nat : n = pwa.clicks + 1
    BY <1>4 DEF PushPages
  <1>6. /\ pwa'.session = s /\ pwa'.closed = pwa.closed \ {s} /\ pwa'.subscription = NoEndpoint
        /\ pwa'.ops = old \cup {new} /\ pwa' \in PushPages
    <2>1. pwa' = [pwa EXCEPT !.clicks = n, !.session = s, !.closed = @ \ {s}, !.configured = FALSE,
                             !.subscription = NoEndpoint, !.busy = FALSE, !.ops = old \cup {new}]
      BY <1>1, <1>2, <1>5 DEF WithSession
    <2>2. PICK c \in SUBSET Sessions : c = pwa.closed \ {s}
      BY <1>4 DEF PushPages
    <2>3. PICK ops \in SUBSET Ops : ops = old \cup {new}
      BY <1>3
    <2>4. pwa' = [pwa EXCEPT !.clicks = n, !.session = s, !.closed = c, !.configured = FALSE,
                             !.subscription = NoEndpoint, !.busy = FALSE, !.ops = ops]
      BY <2>1, <2>2, <2>3
    <2>5. QED
      BY <1>4, <1>5, <2>2, <2>3, <2>4 DEF PushPages
  <1>7. PushTypeOK'
    BY <1>6 DEF PushInv, PushTypeOK
  <1>8. service'.live \subseteq {s} \cup (pwa.closed \ {s})
    BY PushAssumption DEF PushInv, PushTypeOK, PushServices
  <1>9. ASSUME NEW o \in old \cup {new} PROVE OpIsOwn(o)'
    BY <1>2, <1>3, <1>6, <1>9, OpBegins DEF PushInv, OpIsOwn
  <1>10. QED
    BY <1>6, <1>7, <1>8, <1>9 DEF PushInv, Own

\* The end of an operation takes it away, and may let the next one begin.
LEMMA OpEnds ==
    ASSUME NEW p \in PushPages, NEW o \in Ops
    PROVE  /\ Ended(p, o) \in PushPages /\ Ended(p, o).session = p.session /\ Ended(p, o).closed = p.closed
           /\ Ended(p, o).subscription = p.subscription /\ Ended(p, o).ops = p.ops \ {o}
  <1>1. PICK b \in BOOLEAN : b = IF o.current /\ o.kind \in {"enable", "disable", "test"} THEN FALSE ELSE p.busy
    BY DEF PushPages
  <1>2. Ended(p, o) = [p EXCEPT !.ops = @ \ {o}, !.busy = b]
    BY <1>1 DEF Ended
  <1>3. QED
    BY <1>2 DEF PushPages

\* An operation goes on as another.
LEMMA GoesOn ==
    ASSUME pwa \in PushPages, NEW o \in Ops, NEW n \in Ops, pwa' = Goes(pwa, o, n)
    PROVE  /\ pwa' \in PushPages /\ pwa'.session = pwa.session /\ pwa'.closed = pwa.closed
           /\ pwa'.subscription = pwa.subscription /\ pwa'.ops = (pwa.ops \ {o}) \cup {n}
  BY DEF Goes, PushPages

\* While the login stays, it is enough that registrations change to what the page may know of.
LEMMA OwnStays ==
    ASSUME PushInv, pwa' \in PushPages, service' \in PushServices, PushTypeOK',
           pwa'.session = pwa.session, pwa.closed \subseteq pwa'.closed, service'.live \subseteq service.live,
           \A e \in Endpoints : service'.row[e] = service.row[e] \/ service'.row[e] \in {Nobody} \cup service.live,
           pwa'.subscription \in {pwa.subscription, NoEndpoint} \/ Own(pwa'.subscription),
           \A o \in pwa'.ops : \/ o \in pwa.ops
                               \/ ~o.current /\ o.at \notin {"posting", "stored", "refused"}
                               \/ /\ o.at = "stored" /\ o.current => (Own(o.ep))'
                                  /\ o.at \in {"posting", "stored", "refused"} => o.kind \in {"load", "enable"}
                                  /\ o.current /\ o.kind # "left" => o.by = pwa.session
    PROVE  PushInv'
  <1>1. ASSUME NEW e \in Endpoints \cup {NoEndpoint}, Own(e) PROVE (Own(e))'
    BY <1>1 DEF Own, PushInv
  <1>2. (Own(pwa.subscription))'
    <2>1. CASE pwa'.subscription = NoEndpoint
      BY <2>1 DEF Own
    <2>2. CASE Own(pwa'.subscription) \/ pwa'.subscription = pwa.subscription
      BY <2>2 DEF Own, PushInv, PushPages
    <2>3. QED
      BY <2>1, <2>2
  <1>3. ASSUME NEW o \in pwa'.ops PROVE OpIsOwn(o)'
    <2>1. o.ep \in Endpoints \cup {NoEndpoint}
      BY DEF PushPages, Ops
    <2>2. CASE o \in pwa.ops
      BY <1>1, <2>1, <2>2 DEF PushInv, OpIsOwn
    <2>3. CASE o \notin pwa.ops
      BY <2>3 DEF OpIsOwn
    <2>4. QED
      BY <2>2, <2>3
  <1>4. service'.live \subseteq {pwa'.session} \cup pwa'.closed
    BY DEF PushInv
  <1>5. QED
    BY <1>2, <1>3, <1>4 DEF PushInv

\* A page without a login knows of nothing, and no operation is current.
LEMMA NobodyKeepsPush ==
    ASSUME PushInv, PushTypeOK', pwa'.session = Nobody, pwa'.subscription = NoEndpoint,
           service'.live \subseteq pwa'.closed,
           \A o \in pwa'.ops : ~o.current /\ \E x \in pwa.ops : o.at = x.at /\ o.kind = x.kind
    PROVE  PushInv'
  BY DEF PushInv, OpIsOwn, Own

\* The page after showAuth().
LEMMA LeftPage ==
    ASSUME NEW p \in PushPages, NEW o \in Ops
    PROVE  /\ Left(p, o) \in PushPages /\ Left(p, o).session = Nobody /\ Left(p, o).subscription = NoEndpoint
           /\ Left(p, o).closed = p.closed /\ Left(p, o).ops = NewEpoch(p.ops \ {o})
  <1>1. PICK ops : ops = NewEpoch(p.ops \ {o})
    OBVIOUS
  <1>2. ops \in SUBSET Ops
    BY <1>1, EpochOver DEF PushPages
  <1>3. Left(p, o) = [p EXCEPT !.session = Nobody, !.configured = FALSE, !.subscription = NoEndpoint,
                               !.busy = FALSE, !.ops = ops]
    BY <1>1 DEF Left
  <1>4. QED
    BY <1>1, <1>2, <1>3 DEF PushPages

\* A step of the server alone: what it registers anew is of a live login.
LEMMA ServerKeepsPush ==
    ASSUME PushInv, UNCHANGED <<pwa, device>>, service' \in PushServices, service'.live \subseteq service.live,
           \A e \in Endpoints : service'.row[e] \in {service.row[e], Nobody}
    PROVE  PushInv'
  <1>1. PushTypeOK'
    BY DEF PushInv, PushTypeOK
  <1>2. QED
    BY <1>1, OwnStays DEF PushInv, PushTypeOK

\* Expiry, the end of a membership and what is sent only take registrations away.
LEMMA QueueKeepsPush ==
    ASSUME PushInv, \/ \E s \in Sessions : SessionExpires(s) \/ MemberGoes(s)
                    \/ NotifyRoom \/ SendRow
    PROVE  PushInv'
  <1>1. service \in PushServices
    BY DEF PushInv, PushTypeOK
  <1>2. PICK n \in Nat : n = service.events + 1
    BY <1>1 DEF PushServices
  <1>3. ASSUME NEW s \in Sessions, SessionExpires(s) PROVE PushInv'
    <2>1. service' = [service EXCEPT !.live = @ \ {s}, !.events = n]
      BY <1>2, <1>3 DEF SessionExpires
    <2>2. service' \in PushServices /\ service'.live = service.live \ {s} /\ service'.row = service.row
      BY <1>1, <1>2, <2>1 DEF PushServices
    <2>3. QED
      BY <1>3, <2>2, ServerKeepsPush DEF SessionExpires
  <1>4. ASSUME NEW s \in Sessions, MemberGoes(s) PROVE PushInv'
    <2>1. service' = [service EXCEPT !.members = @ \ {s}, !.events = n]
      BY <1>2, <1>4 DEF MemberGoes
    <2>2. service' \in PushServices /\ service'.live = service.live /\ service'.row = service.row
      BY <1>1, <1>2, <2>1 DEF PushServices
    <2>3. QED
      BY <1>4, <2>2, ServerKeepsPush DEF MemberGoes
  <1>5. CASE NotifyRoom
    <2>1. PICK q \in [1..Cardinality(Rows) -> Rows] :
              service' = [service EXCEPT !.events = @ + 1,
                                         !.queue = IF Len(@ \o q) > MaxPushQueue THEN SubSeq(@ \o q, 1, MaxPushQueue)
                                                                                  ELSE @ \o q]
      BY <1>5 DEF NotifyRoom
    <2>2. PICK r : r = IF Len(service.queue \o q) > MaxPushQueue THEN SubSeq(service.queue \o q, 1, MaxPushQueue)
                       ELSE service.queue \o q
      OBVIOUS
    <2>3. service' = [service EXCEPT !.events = n, !.queue = r]
      BY <1>2, <2>1, <2>2
    <2>4. Rows \subseteq [ep : Endpoints \cup {NoEndpoint}, session : Sessions, room : BOOLEAN]
      <3>1. ASSUME NEW x \in Rows PROVE x \in [ep : Endpoints \cup {NoEndpoint}, session : Sessions, room : BOOLEAN]
        <4>1. PICK e \in Endpoints : x = [ep |-> e, session |-> service.row[e], room |-> TRUE]
                                      /\ service.row[e] \in service.live \cap service.members
          BY <3>1 DEF Rows
        <4>2. service.row[e] \in Sessions
          BY <1>1, <4>1 DEF PushServices
        <4>3. QED
          BY <4>1, <4>2
      <3>2. QED
        BY <3>1
    <2>5. r \in Seq([ep : Endpoints \cup {NoEndpoint}, session : Sessions, room : BOOLEAN])
      <3>1. PICK T : T = [ep : Endpoints \cup {NoEndpoint}, session : Sessions, room : BOOLEAN]
        OBVIOUS
      <3>2. Cardinality(Rows) \in Nat
        <4>1. IsFiniteSet(Endpoints)
          BY PushAssumption
        <4>2. PICK g : g = [e \in Endpoints |-> [ep |-> e, session |-> service.row[e], room |-> TRUE]]
          OBVIOUS
        <4>3. Rows \subseteq {g[e] : e \in Endpoints}
          BY <4>2 DEF Rows
        <4>4. IsFiniteSet({g[e] : e \in Endpoints})
          <5>1. PICK G : G = {g[e] : e \in Endpoints}
            OBVIOUS
          <5>2. g \in Surjection(Endpoints, G)
            BY <4>2, <5>1 DEF Surjection
          <5>3. QED
            BY <4>1, <5>1, <5>2, FS_Surjection
        <4>5. QED
          BY <4>3, <4>4, FS_Subset, FS_CardinalityType
      <3>3. q \in Seq(T) /\ service.queue \in Seq(T)
        <4>1. q \in [1..Cardinality(Rows) -> T]
          BY <2>1, <2>4, <3>1
        <4>2. q \in Seq(T)
          BY <3>2, <4>1
        <4>3. QED
          BY <1>1, <3>1, <4>2 DEF PushServices
      <3>4. service.queue \o q \in Seq(T)
        BY <3>3
      <3>5. QED
        <4>1. PICK w : w = service.queue \o q
          OBVIOUS
        <4>2. w \in Seq(T) /\ Len(w) \in Nat
          BY <3>4, <4>1
        <4>3. CASE Len(w) > MaxPushQueue
          <5>1. r = SubSeq(w, 1, MaxPushQueue)
            BY <2>2, <4>1, <4>3
          <5>2. QED
            <6>1. \A i \in 1..MaxPushQueue : w[i] \in T
              BY <4>2, <4>3, PushAssumption
            <6>2. QED
              BY <3>1, <5>1, <6>1, SubSeqProperties, PushAssumption
        <4>4. CASE ~(Len(w) > MaxPushQueue)
          BY <2>2, <3>1, <4>1, <4>2, <4>4
        <4>5. QED
          BY <4>3, <4>4
    <2>6. service' \in PushServices /\ service'.live = service.live /\ service'.row = service.row
      BY <1>1, <1>2, <2>3, <2>5 DEF PushServices
    <2>7. QED
      BY <1>5, <2>6, ServerKeepsPush DEF NotifyRoom
  <1>6. CASE SendRow
    <2>1. PICK t : /\ t = Head(service.queue)
                   /\ service' = [service EXCEPT !.queue = Tail(@),
                                      !.row[t.ep] = IF CurrentRow(t) /\ device.sub # t.ep THEN Nobody ELSE @]
      BY <1>6 DEF SendRow
    <2>2. PICK r : r = [service.row EXCEPT ![t.ep] = IF CurrentRow(t) /\ device.sub # t.ep THEN Nobody ELSE @]
      OBVIOUS
    <2>3. PICK q : q = Tail(service.queue)
      OBVIOUS
    <2>4. service' = [service EXCEPT !.queue = q, !.row = r]
      BY <1>1, <2>1, <2>2, <2>3 DEF PushServices
    <2>5. r \in [Endpoints -> Sessions \cup {Nobody}] /\ \A e \in Endpoints : r[e] \in {service.row[e], Nobody}
      BY <1>1, <2>2 DEF PushServices
    <2>6. q \in Seq([ep : Endpoints \cup {NoEndpoint}, session : Sessions, room : BOOLEAN])
      BY <1>1, <1>6, <2>3 DEF PushServices, SendRow
    <2>7. service' \in PushServices /\ service'.live = service.live /\ service'.row = r
      BY <1>1, <2>4, <2>5, <2>6 DEF PushServices
    <2>8. QED
      BY <1>6, <2>5, <2>7, ServerKeepsPush DEF SendRow
  <1>7. QED
    BY <1>3, <1>4, <1>5, <1>6

\* A step of the page alone that ends or moves an operation, or begins one.
LEMMA PageKeepsPush ==
    ASSUME PushInv, pwa' \in PushPages, UNCHANGED service,
           device' \in [sub : Endpoints \cup {NoEndpoint}, used : SUBSET Endpoints],
           pwa'.session = pwa.session, pwa.closed \subseteq pwa'.closed,
           pwa'.subscription \in {pwa.subscription, NoEndpoint} \/ Own(pwa'.subscription),
           \A o \in pwa'.ops : \/ o \in pwa.ops
                               \/ ~o.current /\ o.at \notin {"posting", "stored", "refused"}
                               \/ /\ o.at # "stored"
                                  /\ o.at \in {"posting", "stored", "refused"} => o.kind \in {"load", "enable"}
                                  /\ o.current /\ o.kind # "left" => o.by = pwa.session
    PROVE  PushInv'
  <1>1. PushTypeOK'
    BY DEF PushInv, PushTypeOK
  <1>2. QED
    BY <1>1, OwnStays DEF PushInv, PushTypeOK

\* The page and its operations are what they are declared to be.
LEMMA PageTyped ==
    ASSUME PushInv, NEW o \in pwa.ops
    PROVE  /\ pwa \in PushPages /\ service \in PushServices /\ o \in Ops /\ OpIsOwn(o)
           /\ device \in [sub : Endpoints \cup {NoEndpoint}, used : SUBSET Endpoints]
  BY DEF PushInv, PushTypeOK, PushPages

\* A logout or the end of a login leaves no operation current; a click begins one.
LEMMA ClicksKeepPush ==
    ASSUME PushInv, LoseSession \/ BeginLogout \/ LoadAgain \/ \E k \in {"enable", "disable", "test"} : Begin(k)
    PROVE  PushInv'
  <1>1. pwa \in PushPages /\ device \in [sub : Endpoints \cup {NoEndpoint}, used : SUBSET Endpoints]
    BY DEF PushInv, PushTypeOK
  <1>2. PICK n \in Nat : n = pwa.clicks + 1
    BY <1>1 DEF PushPages
  <1>3. PICK old : old = NewEpoch(pwa.ops)
    OBVIOUS
  <1>4. old \in SUBSET Ops /\ \A o \in old : ~o.current /\ \E x \in pwa.ops : o.at = x.at /\ o.kind = x.kind
    BY <1>1, <1>3, EpochOver DEF PushPages
  <1>5. CASE LoseSession
    <2>1. pwa' = [pwa EXCEPT !.session = Nobody, !.configured = FALSE, !.subscription = NoEndpoint, !.busy = FALSE,
                             !.ops = old]
      BY <1>3, <1>5 DEF LoseSession
    <2>2. /\ pwa' \in PushPages /\ pwa'.session = Nobody /\ pwa'.subscription = NoEndpoint /\ pwa'.ops = old
          /\ pwa'.closed = pwa.closed
      BY <1>1, <1>4, <2>1 DEF PushPages
    <2>3. UNCHANGED <<device, service>> /\ pwa.session \notin service.live
      BY <1>5 DEF LoseSession
    <2>4. PushTypeOK' /\ service'.live \subseteq pwa'.closed
      BY <2>2, <2>3 DEF PushInv, PushTypeOK
    <2>5. QED
      BY <1>4, <2>2, <2>4, NobodyKeepsPush
  <1>6. CASE BeginLogout
    <2>1. PICK e : e = IF pwa.subscription # NoEndpoint THEN pwa.subscription ELSE device.sub
      OBVIOUS
    <2>2. PICK new : new = [Op("clear", pwa.session) EXCEPT !.ep = e]
      OBVIOUS
    <2>3. pwa.session \in Sessions /\ e \in Endpoints \cup {NoEndpoint}
      BY <1>1, <1>6, <2>1 DEF BeginLogout, PushPages
    <2>4. new \in Ops /\ new.current /\ new.by = pwa.session /\ new.at = "asked" /\ new.kind = "clear"
      BY <2>2, <2>3, OpBegins DEF Ops
    <2>5. PICK ops \in SUBSET Ops : ops = old \cup {new}
      BY <1>4, <2>4
    <2>6. pwa' = [pwa EXCEPT !.clicks = n, !.busy = FALSE, !.ops = ops]
      BY <1>2, <1>3, <1>6, <2>1, <2>2, <2>5 DEF BeginLogout
    <2>7. /\ pwa' \in PushPages /\ pwa'.session = pwa.session /\ pwa'.subscription = pwa.subscription
          /\ pwa'.closed = pwa.closed /\ pwa'.ops = ops
      BY <1>1, <1>2, <2>5, <2>6 DEF PushPages
    <2>8. ASSUME NEW o \in pwa'.ops PROVE OpIsOwn(o)'
      <3>1. CASE o = new
        BY <2>4, <2>7, <3>1 DEF OpIsOwn
      <3>2. CASE o \in old
        BY <1>4, <2>7, <3>2 DEF PushInv, OpIsOwn
      <3>3. QED
        BY <2>5, <2>7, <2>8, <3>1, <3>2
    <2>9. UNCHANGED <<device, service>>
      BY <1>6 DEF BeginLogout
    <2>10. QED
      BY <2>7, <2>8, <2>9 DEF PushInv, PushTypeOK, Own
  <1>7. CASE LoadAgain
    <2>1. PICK new : new = Op("load", pwa.session)
      OBVIOUS
    <2>2. pwa.session \in Sessions
      BY <1>1, <1>7 DEF LoadAgain, PushPages
    <2>3. new \in Ops /\ new.current /\ new.by = pwa.session /\ new.at = "asked"
      BY <2>1, <2>2, OpBegins
    <2>4. pwa' = [pwa EXCEPT !.clicks = n, !.ops = @ \cup {new}]
      BY <1>2, <1>7, <2>1 DEF LoadAgain
    <2>5. /\ pwa' \in PushPages /\ pwa'.session = pwa.session /\ pwa'.subscription = pwa.subscription
          /\ pwa'.closed = pwa.closed /\ pwa'.ops = pwa.ops \cup {new}
      BY <1>1, <1>2, <2>3, <2>4 DEF PushPages
    <2>6. UNCHANGED <<device, service>>
      BY <1>7 DEF LoadAgain
    <2>7. QED
      BY <1>1, <2>3, <2>5, <2>6, PageKeepsPush
  <1>8. ASSUME NEW k \in {"enable", "disable", "test"}, Begin(k) PROVE PushInv'
    <2>1. PICK new : new = [Op(k, pwa.session) EXCEPT !.ep = pwa.subscription,
                                                     !.at = IF k = "disable" THEN "deleting" ELSE "asked"]
      OBVIOUS
    <2>2. pwa.session \in Sessions
      BY <1>1, <1>8 DEF Begin, PushPages
    <2>3. new \in Ops /\ new.current /\ new.by = pwa.session /\ new.at \in {"asked", "deleting"}
      <3>1. PICK at \in {"asked", "deleting"} : at = IF k = "disable" THEN "deleting" ELSE "asked"
        OBVIOUS
      <3>2. pwa.subscription \in Endpoints \cup {NoEndpoint}
        BY <1>1 DEF PushPages
      <3>3. new = [Op(k, pwa.session) EXCEPT !.ep = pwa.subscription, !.at = at]
        BY <2>1, <3>1
      <3>4. PICK op \in Ops : op = Op(k, pwa.session) /\ op.current /\ op.by = pwa.session
        BY <2>2, OpBegins
      <3>5. new = [op EXCEPT !.ep = pwa.subscription, !.at = at]
        BY <3>3, <3>4
      <3>6. QED
        BY <3>1, <3>2, <3>4, <3>5 DEF Ops
    <2>4. pwa' = [pwa EXCEPT !.clicks = n, !.busy = TRUE, !.ops = @ \cup {new}]
      BY <1>2, <1>8, <2>1 DEF Begin
    <2>5. /\ pwa' \in PushPages /\ pwa'.session = pwa.session /\ pwa'.subscription = pwa.subscription
          /\ pwa'.closed = pwa.closed /\ pwa'.ops = pwa.ops \cup {new}
      BY <1>1, <1>2, <2>3, <2>4 DEF PushPages
    <2>6. UNCHANGED <<device, service>>
      BY <1>8 DEF Begin
    <2>7. QED
      BY <1>1, <2>3, <2>5, <2>6, PageKeepsPush
  <1>9. QED
    BY <1>5, <1>6, <1>7, <1>8

\* Only the configuration may change beside.
LEMMA LoadPage ==
    ASSUME NEW p \in PushPages, NEW b \in BOOLEAN
    PROVE  /\ [p EXCEPT !.configured = b] \in PushPages /\ [p EXCEPT !.configured = b].session = p.session
           /\ [p EXCEPT !.configured = b].closed = p.closed /\ [p EXCEPT !.configured = b].subscription = p.subscription
           /\ [p EXCEPT !.configured = b].ops = p.ops
  BY DEF PushPages

\* A load that fails ends.
LEMMA LoadFails ==
    ASSUME PushInv, NEW o \in pwa.ops
    PROVE  /\ LoadFailed(o) \in PushPages /\ LoadFailed(o).session = pwa.session /\ LoadFailed(o).closed = pwa.closed
           /\ LoadFailed(o).subscription = pwa.subscription /\ LoadFailed(o).ops = pwa.ops \ {o}
  <1>1. pwa \in PushPages /\ o \in Ops
    BY PageTyped
  <1>2. PICK b \in BOOLEAN : b = (Ended(pwa, o).configured /\ ~o.current)
    BY <1>1 DEF PushPages, Ops
  <1>3. LoadFailed(o) = [Ended(pwa, o) EXCEPT !.configured = b]
    BY <1>2 DEF LoadFailed
  <1>4. QED
    BY <1>1, <1>3, OpEnds, LoadPage

\* Loading, subscribing and the failures of requests keep the registrations as they are.
LEMMA LoadingKeepsPush ==
    ASSUME PushInv, NEW o \in pwa.ops,
           ConfigLoaded(o) \/ ConfigFails(o) \/ Subscribed(o) \/ Refused(o) \/ PostFails(o)
    PROVE  PushInv'
  <1>1. /\ pwa \in PushPages /\ o \in Ops /\ OpIsOwn(o)
        /\ device \in [sub : Endpoints \cup {NoEndpoint}, used : SUBSET Endpoints]
    BY PageTyped
  <1>2. CASE pwa' = Ended(pwa, o) /\ UNCHANGED service
             /\ device' \in [sub : Endpoints \cup {NoEndpoint}, used : SUBSET Endpoints]
    BY <1>1, <1>2, OpEnds, PageKeepsPush
  <1>3. CASE pwa' = LoadFailed(o) /\ UNCHANGED <<service, device>>
    BY <1>1, <1>3, LoadFails, PageKeepsPush
  <1>4. CASE ConfigLoaded(o)
    <2>1. PICK n : n = [o EXCEPT !.at = "posting", !.ep = device.sub]
      OBVIOUS
    <2>2. n \in Ops /\ n.at = "posting" /\ n.kind = o.kind /\ n.current = o.current /\ n.by = o.by
      BY <1>1, <2>1 DEF Ops
    <2>3. o.kind = "load" /\ UNCHANGED <<device, service>>
          /\ pwa' \in {Ended(pwa, o), [Ended(pwa, o) EXCEPT !.configured = TRUE], [Goes(pwa, o, n) EXCEPT !.configured = TRUE]}
      BY <1>4, <2>1 DEF ConfigLoaded
    <2>4. CASE pwa' = [Ended(pwa, o) EXCEPT !.configured = TRUE]
      <3>1. PICK p \in PushPages : p = Ended(pwa, o) /\ p.session = pwa.session /\ p.closed = pwa.closed
                                   /\ p.subscription = pwa.subscription /\ p.ops = pwa.ops \ {o}
        BY <1>1, OpEnds
      <3>2. /\ pwa' \in PushPages /\ pwa'.session = pwa.session /\ pwa'.closed = pwa.closed
            /\ pwa'.subscription = pwa.subscription /\ pwa'.ops = pwa.ops \ {o}
        BY <2>4, <3>1, LoadPage
      <3>3. QED
        BY <1>1, <2>3, <3>2, PageKeepsPush
    <2>5. CASE pwa' = [Goes(pwa, o, n) EXCEPT !.configured = TRUE]
      <3>1. /\ pwa' \in PushPages /\ pwa'.session = pwa.session /\ pwa'.closed = pwa.closed
            /\ pwa'.subscription = pwa.subscription /\ pwa'.ops = (pwa.ops \ {o}) \cup {n}
        <4>1. PICK p : p = Goes(pwa, o, n)
          OBVIOUS
        <4>2. p \in PushPages /\ p.session = pwa.session /\ p.closed = pwa.closed
              /\ p.subscription = pwa.subscription /\ p.ops = (pwa.ops \ {o}) \cup {n}
          BY <1>1, <2>2, <4>1 DEF Goes, PushPages
        <4>3. QED
          BY <2>5, <4>1, <4>2, LoadPage
      <3>2. n.current => n.by = pwa.session
        BY <1>1, <2>2, <2>3 DEF OpIsOwn
      <3>3. QED
        BY <1>1, <2>2, <2>3, <3>1, <3>2, PageKeepsPush
    <2>6. QED
      BY <1>1, <1>2, <2>3, <2>4, <2>5
  <1>5. CASE ConfigFails(o)
    BY <1>3, <1>5 DEF ConfigFails
  <1>6. CASE Subscribed(o)
    <2>1. PICK e \in Endpoints :
             /\ device' = [sub |-> e, used |-> device.used \cup {e}]
             /\ pwa' = IF o.current THEN Goes(pwa, o, [o EXCEPT !.at = "posting", !.ep = e]) ELSE Ended(pwa, o)
      BY <1>6 DEF Subscribed
    <2>2. PICK n : n = [o EXCEPT !.at = "posting", !.ep = e]
      OBVIOUS
    <2>3. n \in Ops /\ n.at = "posting" /\ n.kind = o.kind /\ n.current = o.current /\ n.by = o.by
      BY <1>1, <2>2 DEF Ops
    <2>4. device' \in [sub : Endpoints \cup {NoEndpoint}, used : SUBSET Endpoints] /\ UNCHANGED service
          /\ o.kind = "enable"
      BY <1>1, <1>6, <2>1 DEF Subscribed
    <2>5. CASE pwa' = Goes(pwa, o, n)
      <3>1. n.current => n.by = pwa.session
        BY <1>1, <2>3, <2>4 DEF OpIsOwn
      <3>2. QED
        <4>1. /\ pwa' \in PushPages /\ pwa'.session = pwa.session /\ pwa'.closed = pwa.closed
              /\ pwa'.subscription = pwa.subscription /\ pwa'.ops = (pwa.ops \ {o}) \cup {n}
          BY <1>1, <2>3, <2>5 DEF Goes, PushPages
        <4>2. QED
          BY <1>1, <2>3, <2>4, <3>1, <4>1, PageKeepsPush
    <2>6. QED
      BY <1>2, <2>1, <2>2, <2>4, <2>5
  <1>7. CASE Refused(o)
    <2>1. PICK d \in BOOLEAN : pwa' = [Ended(pwa, o) EXCEPT !.denied = d]
      BY <1>7 DEF Refused
    <2>2. /\ pwa' \in PushPages /\ pwa'.session = pwa.session /\ pwa'.closed = pwa.closed
          /\ pwa'.subscription = pwa.subscription /\ pwa'.ops = pwa.ops \ {o}
      <3>1. PICK p \in PushPages : p = Ended(pwa, o)
        BY <1>1, OpEnds
      <3>2. pwa' \in PushPages /\ pwa'.session = p.session /\ pwa'.closed = p.closed
            /\ pwa'.subscription = p.subscription /\ pwa'.ops = p.ops
        BY <2>1, <3>1 DEF PushPages
      <3>3. QED
        BY <1>1, <3>1, <3>2, OpEnds
    <2>3. UNCHANGED <<device, service>>
      BY <1>7 DEF Refused
    <2>4. QED
      BY <1>1, <2>2, <2>3, PageKeepsPush
  <1>8. CASE PostFails(o)
    <2>1. PICK n : n = [o EXCEPT !.at = "unsubscribing"]
      OBVIOUS
    <2>2. n \in Ops /\ n.at = "unsubscribing" /\ n.kind = o.kind /\ n.current = o.current /\ n.by = o.by
      BY <1>1, <2>1 DEF Ops
    <2>3. UNCHANGED <<device, service>> /\ pwa' \in {Goes(pwa, o, n), LoadFailed(o), Ended(pwa, o)}
      BY <1>8, <2>1 DEF PostFails
    <2>4. CASE pwa' = Goes(pwa, o, n)
      <3>1. n.current /\ n.kind # "left" => n.by = pwa.session
        BY <1>1, <2>2 DEF OpIsOwn
      <3>2. QED
        <4>1. /\ pwa' \in PushPages /\ pwa'.session = pwa.session /\ pwa'.closed = pwa.closed
              /\ pwa'.subscription = pwa.subscription /\ pwa'.ops = (pwa.ops \ {o}) \cup {n}
          BY <1>1, <2>2, <2>4 DEF Goes, PushPages
        <4>2. QED
          BY <1>1, <2>2, <2>3, <3>1, <4>1, PageKeepsPush
    <2>5. QED
      BY <1>1, <1>2, <1>3, <2>3, <2>4
  <1>9. QED
    BY <1>4, <1>5, <1>6, <1>7, <1>8

\* The answer of a registration tells the page of its own login's subscription.
LEMMA AnswerKeepsPush ==
    ASSUME PushInv, NEW o \in pwa.ops, PostAnswered(o)
    PROVE  PushInv'
  <1>1. /\ pwa \in PushPages /\ o \in Ops /\ OpIsOwn(o)
        /\ device \in [sub : Endpoints \cup {NoEndpoint}, used : SUBSET Endpoints]
    BY PageTyped
  <1>2. PICK e \in Endpoints \cup {NoEndpoint} : e = IF o.current THEN o.ep ELSE pwa.subscription
    BY <1>1 DEF PushPages, Ops
  <1>3. PICK p \in PushPages : p = Ended(pwa, o) /\ p.session = pwa.session /\ p.closed = pwa.closed
                               /\ p.subscription = pwa.subscription /\ p.ops = pwa.ops \ {o}
    BY <1>1, OpEnds
  <1>4. pwa' = [p EXCEPT !.subscription = e] /\ UNCHANGED <<device, service>> /\ o.at = "stored"
    BY <1>2, <1>3 DEF PostAnswered
  <1>5. /\ pwa' \in PushPages /\ pwa'.session = pwa.session /\ pwa'.closed = pwa.closed
        /\ pwa'.subscription = e /\ pwa'.ops = pwa.ops \ {o}
    BY <1>3, <1>4 DEF PushPages
  <1>6. e = pwa.subscription \/ Own(e)
    BY <1>1, <1>2, <1>4 DEF OpIsOwn
  <1>7. QED
    BY <1>1, <1>4, <1>5, <1>6, PageKeepsPush

\* What the server registers is of a live login, which is the page's or one it closed.
LEMMA PostKeepsPush ==
    ASSUME PushInv, NEW o \in pwa.ops, PostHandled(o)
    PROVE  PushInv'
  <1>1. /\ pwa \in PushPages /\ service \in PushServices /\ o \in Ops /\ OpIsOwn(o)
        /\ device \in [sub : Endpoints \cup {NoEndpoint}, used : SUBSET Endpoints]
    BY PageTyped
  <1>2. PICK full \in BOOLEAN :
           /\ service' = [service EXCEPT !.row = IF MayRegister(o, full) THEN [Pruned(@) EXCEPT ![o.ep] = o.by] ELSE Pruned(@)]
           /\ pwa' = Goes(pwa, o, [o EXCEPT !.at = IF MayRegister(o, full) THEN "stored" ELSE "refused"])
    BY DEF PostHandled
  <1>3. PICK a \in {"stored", "refused"} : a = IF MayRegister(o, full) THEN "stored" ELSE "refused"
    OBVIOUS
  <1>4. PICK n : n = [o EXCEPT !.at = a]
    OBVIOUS
  <1>5. n \in Ops /\ n.at = a /\ n.kind = o.kind /\ n.current = o.current /\ n.by = o.by /\ n.ep = o.ep
    BY <1>1, <1>3, <1>4 DEF Ops
  <1>6. /\ pwa' \in PushPages /\ pwa'.session = pwa.session /\ pwa'.closed = pwa.closed
        /\ pwa'.subscription = pwa.subscription /\ pwa'.ops = (pwa.ops \ {o}) \cup {n}
    <2>1. pwa' = Goes(pwa, o, n)
      BY <1>2, <1>3, <1>4
    <2>2. n \in Ops
      BY <1>5
    <2>3. QED
      BY <1>1, <2>1, <2>2, GoesOn
  <1>7. PICK w : w = Pruned(service.row)
    OBVIOUS
  <1>8. w \in [Endpoints -> Sessions \cup {Nobody}] /\ \A e \in Endpoints : w[e] \in {service.row[e], Nobody}
    BY <1>1, <1>7 DEF Pruned, PushServices
  <1>9. PICK r : r = IF a = "stored" THEN [w EXCEPT ![o.ep] = o.by] ELSE w
    OBVIOUS
  <1>10. service' = [service EXCEPT !.row = r]
    BY <1>2, <1>3, <1>7, <1>9
  <1>11. o.by \in service.live /\ o.at = "posting" /\ UNCHANGED device
    BY DEF PostHandled
  <1>12. /\ r \in [Endpoints -> Sessions \cup {Nobody}]
         /\ \A e \in Endpoints : r[e] \in {service.row[e], Nobody, o.by}
         /\ a = "stored" => \A e \in Endpoints : e = o.ep => r[e] = o.by
    BY <1>1, <1>8, <1>9, <1>11 DEF PushServices
  <1>13. service' \in PushServices /\ service'.row = r /\ service'.live = service.live
    BY <1>1, <1>10, <1>12 DEF PushServices
  <1>14. PushTypeOK'
    BY <1>1, <1>6, <1>11, <1>13 DEF PushTypeOK
  <1>15. n.at = "stored" /\ n.current => (Own(n.ep))'
    <2>1. SUFFICES ASSUME a = "stored", o.current PROVE (Own(o.ep))'
      BY <1>5
    <2>2. o.by = pwa.session
      BY <1>1, <1>11, <2>1 DEF OpIsOwn
    <2>3. QED
      BY <1>1, <1>6, <1>12, <1>13, <2>1, <2>2 DEF Own, Ops
  <1>16. o.kind \in {"load", "enable"} /\ (n.current => n.by = pwa.session)
    BY <1>1, <1>5, <1>11 DEF OpIsOwn
  <1>17. QED
    BY <1>5, <1>6, <1>11, <1>12, <1>13, <1>14, <1>15, <1>16, OwnStays

\* A step in which registrations only go and an operation goes on as n, or ends.
LEMMA EndsServed ==
    ASSUME PushInv, device' = device, service' \in PushServices, service'.live \subseteq service.live,
           \A e \in Endpoints : service'.row[e] \in {service.row[e], Nobody},
           pwa' \in PushPages, pwa'.session = pwa.session, pwa'.closed = pwa.closed,
           pwa'.subscription \in {pwa.subscription, NoEndpoint},
           \A n \in pwa'.ops : \/ n \in pwa.ops
                               \/ /\ n.at \notin {"posting", "stored", "refused"}
                                  /\ n.current /\ n.kind # "left" => n.by = pwa.session
    PROVE  PushInv'
  <1>1. PushTypeOK'
    BY DEF PushInv, PushTypeOK
  <1>2. QED
    BY <1>1, OwnStays

\* A deletion takes a registration away, a test puts a notification in the queue.
LEMMA DeletesKeepPush ==
    ASSUME PushInv, NEW o \in pwa.ops, TestServed(o) \/ \E ok \in BOOLEAN : DeleteServed(o, ok)
    PROVE  PushInv'
  <1>1. /\ pwa \in PushPages /\ service \in PushServices /\ o \in Ops /\ OpIsOwn(o)
        /\ device \in [sub : Endpoints \cup {NoEndpoint}, used : SUBSET Endpoints]
    BY PageTyped
  <1>3. CASE TestServed(o)
    <2>1. /\ pwa' \in PushPages /\ pwa'.session = pwa.session /\ pwa'.closed = pwa.closed
          /\ pwa'.subscription = pwa.subscription /\ pwa'.ops = pwa.ops \ {o}
      BY <1>1, <1>3, OpEnds DEF TestServed
    <2>2. PICK t : t = [ep |-> o.ep, session |-> o.by, room |-> FALSE]
      OBVIOUS
    <2>3. t \in [ep : Endpoints \cup {NoEndpoint}, session : Sessions, room : BOOLEAN]
      BY <1>1, <2>2 DEF Ops
    <2>4. PICK q : q = Append(service.queue, t)
      OBVIOUS
    <2>5. q \in Seq([ep : Endpoints \cup {NoEndpoint}, session : Sessions, room : BOOLEAN])
      BY <1>1, <2>3, <2>4 DEF PushServices
    <2>6. service' = service \/ service' = [service EXCEPT !.queue = q]
      BY <1>3, <2>2, <2>4 DEF TestServed
    <2>7. service' \in PushServices /\ service'.live = service.live /\ service'.row = service.row
      BY <1>1, <2>5, <2>6 DEF PushServices
    <2>8. device' = device
      BY <1>3 DEF TestServed
    <2>9. PushTypeOK'
      BY <1>1, <2>1, <2>7, <2>8 DEF PushTypeOK
    <2>10. QED
      BY <1>1, <2>1, <2>7, <2>9, OwnStays
  <1>4. ASSUME NEW ok \in BOOLEAN, DeleteServed(o, ok) PROVE PushInv'
    <2>1. PICK m : m = [o EXCEPT !.at = "unsubscribing"]
      OBVIOUS
    <2>2. PICK l : l = [o EXCEPT !.kind = "leave", !.at = "asked"]
      OBVIOUS
    <2>3. /\ m \in Ops /\ m.at = "unsubscribing" /\ m.kind = o.kind /\ m.current = o.current /\ m.by = o.by
          /\ l \in Ops /\ l.at = "asked" /\ l.current = o.current /\ l.by = o.by
      BY <1>1, <2>1, <2>2 DEF Ops
    <2>4. /\ device' = device
          /\ pwa' \in {Goes(pwa, o, m), Ended(pwa, o)} \/ (pwa' = Goes(pwa, o, l) /\ o.kind = "clear")
      BY <1>4, <2>1, <2>2 DEF DeleteServed
    <2>5. PICK r : r = [service.row EXCEPT ![o.ep] = Nobody]
      OBVIOUS
    <2>6. r \in [Endpoints -> Sessions \cup {Nobody}] /\ \A e \in Endpoints : r[e] \in {service.row[e], Nobody}
      BY <1>1, <2>5 DEF PushServices
    <2>7. service' = service \/ service' = [service EXCEPT !.row = r]
      <3>1. service' = service \/ service' = [service EXCEPT !.row[o.ep] = Nobody]
        BY <1>4 DEF DeleteServed
      <3>2. QED
        BY <1>1, <2>5, <3>1 DEF PushServices
    <2>8. service' \in PushServices /\ service'.live = service.live
          /\ \A e \in Endpoints : service'.row[e] \in {service.row[e], Nobody}
      BY <1>1, <2>6, <2>7 DEF PushServices
    <2>9. CASE pwa' = Ended(pwa, o)
      <3>1. /\ pwa' \in PushPages /\ pwa'.session = pwa.session /\ pwa'.closed = pwa.closed
            /\ pwa'.subscription = pwa.subscription /\ pwa'.ops = pwa.ops \ {o}
        BY <1>1, <2>9, OpEnds
      <3>2. QED
        BY <2>3, <2>4, <2>8, <3>1, EndsServed
    <2>10. CASE pwa' = Goes(pwa, o, m)
      <3>1. /\ pwa' \in PushPages /\ pwa'.session = pwa.session /\ pwa'.closed = pwa.closed
            /\ pwa'.subscription = pwa.subscription /\ pwa'.ops = (pwa.ops \ {o}) \cup {m}
        BY <1>1, <2>3, <2>10, GoesOn
      <3>2. m.current /\ m.kind # "left" => m.by = pwa.session
        BY <1>1, <2>3 DEF OpIsOwn
      <3>3. QED
        BY <2>3, <2>4, <2>8, <3>1, <3>2, EndsServed
    <2>11. CASE pwa' = Goes(pwa, o, l) /\ o.kind = "clear"
      <3>1. /\ pwa' \in PushPages /\ pwa'.session = pwa.session /\ pwa'.closed = pwa.closed
            /\ pwa'.subscription = pwa.subscription /\ pwa'.ops = (pwa.ops \ {o}) \cup {l}
        BY <1>1, <2>3, <2>11, GoesOn
      <3>2. l.current => l.by = pwa.session
        BY <1>1, <2>3, <2>11 DEF OpIsOwn
      <3>3. QED
        BY <2>3, <2>4, <2>8, <3>1, <3>2, EndsServed
    <2>12. QED
      BY <2>4, <2>9, <2>10, <2>11
  <1>5. QED
    BY <1>3, <1>4

\* A subscription is given up; at the end of a logout the page closes what login it has.
LEMMA UnsubscribingKeepsPush ==
    ASSUME PushInv, NEW o \in pwa.ops, Unsubscribed(o)
    PROVE  PushInv'
  <1>1. /\ pwa \in PushPages /\ service \in PushServices /\ o \in Ops /\ OpIsOwn(o)
        /\ device \in [sub : Endpoints \cup {NoEndpoint}, used : SUBSET Endpoints]
    BY PageTyped
  <1>2. PICK l : l = [o EXCEPT !.kind = "leave", !.at = "asked"]
    OBVIOUS
  <1>3. l \in Ops /\ l.at = "asked" /\ l.current = o.current /\ l.by = o.by /\ l.kind = "leave"
    BY <1>1, <1>2 DEF Ops
  <1>4. UNCHANGED service /\ device' \in [sub : Endpoints \cup {NoEndpoint}, used : SUBSET Endpoints]
    <2>1. PICK e \in Endpoints \cup {NoEndpoint} : e = IF device.sub = o.ep THEN NoEndpoint ELSE device.sub
      BY <1>1
    <2>2. device' = [device EXCEPT !.sub = e] /\ UNCHANGED service
      BY <2>1 DEF Unsubscribed
    <2>3. QED
      BY <1>1, <2>1, <2>2
  <1>5. PICK p : /\ p = CASE o.kind = "clear" -> Goes(pwa, o, l)
                          [] o.kind = "left" -> [Left(pwa, o) EXCEPT !.closed = @ \cup ({pwa.session} \cap service.live)]
                          [] OTHER -> Ended(pwa, o)
                 /\ pwa' = IF o.current THEN [p EXCEPT !.subscription = NoEndpoint] ELSE p
    BY <1>2 DEF Unsubscribed
  <1>6. ASSUME p \in PushPages
        PROVE  /\ pwa' \in PushPages /\ pwa'.session = p.session /\ pwa'.closed = p.closed /\ pwa'.ops = p.ops
               /\ pwa'.subscription \in {p.subscription, NoEndpoint}
    BY <1>5, <1>6 DEF PushPages
  <1>7. CASE o.kind = "left"
    <2>1. PICK q \in PushPages : q = Left(pwa, o) /\ q.session = Nobody /\ q.subscription = NoEndpoint
                                 /\ q.closed = pwa.closed /\ q.ops = NewEpoch(pwa.ops \ {o})
      BY <1>1, LeftPage
    <2>2. PICK c \in SUBSET Sessions : c = q.closed \cup ({pwa.session} \cap service.live)
      BY <1>1, <2>1 DEF PushPages, PushServices
    <2>3. p = [q EXCEPT !.closed = c]
      BY <1>5, <1>7, <2>1, <2>2
    <2>4. p \in PushPages /\ p.session = Nobody /\ p.subscription = NoEndpoint /\ p.closed = c
          /\ p.ops = NewEpoch(pwa.ops \ {o})
      BY <2>1, <2>2, <2>3 DEF PushPages
    <2>5. service.live \subseteq c
      BY <2>1, <2>2 DEF PushInv
    <2>6. \A x \in pwa'.ops : ~x.current /\ \E y \in pwa.ops : x.at = y.at /\ x.kind = y.kind
      BY <1>1, <1>6, <2>4, EpochOver DEF PushPages
    <2>7. PushTypeOK'
      BY <1>1, <1>4, <1>6, <2>4 DEF PushTypeOK
    <2>8. QED
      BY <1>4, <1>6, <2>4, <2>5, <2>6, <2>7, NobodyKeepsPush
  <1>8. CASE o.kind = "clear"
    <2>1. p = Goes(pwa, o, l)
      BY <1>5, <1>8
    <2>2. p \in PushPages /\ p.session = pwa.session /\ p.closed = pwa.closed
          /\ p.subscription = pwa.subscription /\ p.ops = (pwa.ops \ {o}) \cup {l}
      BY <1>1, <1>3, <2>1 DEF Goes, PushPages
    <2>3. l.current => l.by = pwa.session
      BY <1>1, <1>3, <1>8 DEF OpIsOwn
    <2>4. QED
      BY <1>3, <1>4, <1>6, <2>2, <2>3, PageKeepsPush
  <1>9. CASE o.kind \notin {"clear", "left"}
    <2>1. p = Ended(pwa, o)
      BY <1>5, <1>9
    <2>2. p \in PushPages /\ p.session = pwa.session /\ p.closed = pwa.closed
          /\ p.subscription = pwa.subscription /\ p.ops = pwa.ops \ {o}
      BY <1>1, <2>1, OpEnds
    <2>3. QED
      BY <1>4, <1>6, <2>2, PageKeepsPush
  <1>10. QED
    BY <1>7, <1>8, <1>9

\* The logout ends the login the page has; the page closes it only when it is told so.
LEMMA LeavingKeepsPush ==
    ASSUME PushInv, NEW o \in pwa.ops, NEW ok \in BOOLEAN, Leave(o, ok)
    PROVE  PushInv'
  <1>1. /\ pwa \in PushPages /\ service \in PushServices /\ o \in Ops /\ OpIsOwn(o) /\ device' = device
        /\ device \in [sub : Endpoints \cup {NoEndpoint}, used : SUBSET Endpoints]
    BY PageTyped DEF Leave
  <1>2. PICK v : v = ServeLogout(pwa.session)
    OBVIOUS
  <1>3. v \in PushServices /\ v.live = service.live \ {pwa.session}
        /\ \A e \in Endpoints : v.row[e] \in {service.row[e], Nobody}
    <2>1. PICK r : r = [e \in Endpoints |-> IF service.row[e] = pwa.session THEN Nobody ELSE service.row[e]]
      OBVIOUS
    <2>2. r \in [Endpoints -> Sessions \cup {Nobody}] /\ \A e \in Endpoints : r[e] \in {service.row[e], Nobody}
      BY <1>1, <2>1 DEF PushServices
    <2>3. v = [service EXCEPT !.live = @ \ {pwa.session}, !.row = r]
      BY <1>2, <2>1 DEF ServeLogout
    <2>4. QED
      BY <1>1, <2>2, <2>3 DEF PushServices
  <1>4. service' \in {v, service} /\ (ok => service' = v)
    BY <1>2 DEF Leave
  <1>5. service' \in PushServices /\ service'.live \subseteq service.live
        /\ \A e \in Endpoints : service'.row[e] \in {service.row[e], Nobody}
    BY <1>1, <1>3, <1>4
  <1>6. CASE ~ok
    <2>1. pwa' = [pwa EXCEPT !.ops = @ \ {o}]
      BY <1>6 DEF Leave
    <2>2. /\ pwa' \in PushPages /\ pwa'.session = pwa.session /\ pwa'.closed = pwa.closed
          /\ pwa'.subscription = pwa.subscription /\ pwa'.ops = pwa.ops \ {o}
      BY <1>1, <2>1 DEF PushPages
    <2>3. QED
      BY <1>1, <1>5, <2>2, EndsServed
  <1>7. CASE ok /\ device.sub = NoEndpoint
    <2>1. pwa' = Left(pwa, o)
      BY <1>7 DEF Leave
    <2>2. /\ pwa' \in PushPages /\ pwa'.session = Nobody /\ pwa'.subscription = NoEndpoint
          /\ pwa'.closed = pwa.closed /\ pwa'.ops = NewEpoch(pwa.ops \ {o})
      BY <1>1, <2>1, LeftPage
    <2>3. \A x \in pwa'.ops : ~x.current /\ \E y \in pwa.ops : x.at = y.at /\ x.kind = y.kind
      BY <1>1, <2>2, EpochOver DEF PushPages
    <2>4. PushTypeOK' /\ service'.live \subseteq pwa'.closed
      BY <1>1, <1>3, <1>4, <1>5, <1>7, <2>2 DEF PushInv, PushTypeOK
    <2>5. QED
      BY <2>2, <2>3, <2>4, NobodyKeepsPush
  <1>8. CASE ok /\ device.sub # NoEndpoint
    <2>1. PICK old : old = NewEpoch(pwa.ops \ {o})
      OBVIOUS
    <2>2. old \in SUBSET Ops /\ \A x \in old : ~x.current /\ \E y \in pwa.ops : x.at = y.at /\ x.kind = y.kind
      BY <1>1, <2>1, EpochOver DEF PushPages
    <2>3. PICK l : l = [o EXCEPT !.kind = "left", !.at = "unsubscribing", !.ep = device.sub, !.current = TRUE]
      OBVIOUS
    <2>4. l \in Ops /\ l.kind = "left" /\ l.at = "unsubscribing"
      BY <1>1, <2>3 DEF Ops
    <2>5. PICK ops \in SUBSET Ops : ops = old \cup {l}
      BY <2>2, <2>4
    <2>6. pwa' = [pwa EXCEPT !.busy = FALSE, !.ops = ops]
      BY <1>8, <2>1, <2>3, <2>5 DEF Leave
    <2>7. /\ pwa' \in PushPages /\ pwa'.session = pwa.session /\ pwa'.closed = pwa.closed
          /\ pwa'.subscription = pwa.subscription /\ pwa'.ops = ops
      BY <1>1, <2>5, <2>6 DEF PushPages
    <2>8. PushTypeOK'
      BY <1>1, <1>5, <2>7 DEF PushTypeOK
    <2>9. service'.live \subseteq {pwa'.session} \cup pwa'.closed
      BY <1>5, <2>7 DEF PushInv
    <2>10. (Own(pwa.subscription))'
      BY <1>1, <1>5, <2>7 DEF PushInv, Own, PushPages
    <2>11. ASSUME NEW x \in pwa'.ops PROVE OpIsOwn(x)'
      <3>1. CASE x = l
        BY <2>4, <3>1 DEF OpIsOwn
      <3>2. CASE x \in old
        BY <2>2, <2>7, <3>2 DEF PushInv, OpIsOwn
      <3>3. QED
        BY <2>5, <2>7, <2>11, <3>1, <3>2
    <2>12. QED
      BY <2>8, <2>9, <2>10, <2>11 DEF PushInv
  <1>9. QED
    BY <1>6, <1>7, <1>8

\* Whatever logins, logouts, expiries, lost and late answers come together: what the
\* server may still send to, and what the page shows, is of the login the page has, or of
\* one that a logout begun before it closed on the page.
THEOREM NotifiesOwn == PushSpec => []NotifiesItsAccount
  <1>1. PushInit => PushInv
    <2> SUFFICES ASSUME PushInit PROVE PushInv
      OBVIOUS
    <2>1. /\ pwa.session = Nobody /\ pwa.subscription = NoEndpoint /\ pwa.ops = {} /\ pwa.closed = {}
          /\ pwa \in PushPages
      BY DEF PushInit, PushPages
    <2>2. service \in PushServices /\ service.live = {}
      BY DEF PushInit, PushServices
    <2>3. device \in [sub : Endpoints \cup {NoEndpoint}, used : SUBSET Endpoints]
      BY DEF PushInit
    <2>4. QED
      BY <2>1, <2>2, <2>3 DEF PushInv, PushTypeOK, Own
  <1>2. PushInv /\ [PushNext]_pushVars => PushInv'
    <2> SUFFICES ASSUME PushInv, [PushNext]_pushVars PROVE PushInv'
      OBVIOUS
    <2>1. ASSUME NEW s \in Sessions, SetSession(s) PROVE PushInv'
      <3>1. service \in PushServices
        BY DEF PushInv, PushTypeOK
      <3>2. service'.live = service.live \cup {s} /\ service'.row = service.row
        BY <2>1, <3>1 DEF SetSession, PushServices
      <3>3. service' \in PushServices
        BY <2>1, <3>1 DEF SetSession, PushServices
      <3>4. QED
        BY <2>1, <3>2, <3>3, LoginKeepsPush DEF SetSession
    <2>2. CASE Reload
      <3>1. pwa.session \in Sessions /\ service \in PushServices
        BY <2>2 DEF PushInv, PushTypeOK, PushServices, Reload
      <3>2. QED
        BY <2>2, <3>1, LoginKeepsPush DEF Reload
    <2>3. CASE LoseSession \/ BeginLogout \/ LoadAgain \/ \E k \in {"enable", "disable", "test"} : Begin(k)
      BY <2>3, ClicksKeepPush
    <2>4. CASE (\E s \in Sessions : SessionExpires(s) \/ MemberGoes(s)) \/ NotifyRoom \/ SendRow
      BY <2>4, QueueKeepsPush
    <2>5. ASSUME NEW o \in pwa.ops,
                 ConfigLoaded(o) \/ ConfigFails(o) \/ Subscribed(o) \/ Refused(o) \/ PostFails(o)
          PROVE  PushInv'
      BY <2>5, LoadingKeepsPush
    <2>6. ASSUME NEW o \in pwa.ops, PostHandled(o) \/ PostAnswered(o) \/ Unsubscribed(o) PROVE PushInv'
      BY <2>6, PostKeepsPush, AnswerKeepsPush, UnsubscribingKeepsPush
    <2>7. ASSUME NEW o \in pwa.ops, TestServed(o) \/ \E ok \in BOOLEAN : DeleteServed(o, ok) PROVE PushInv'
      BY <2>7, DeletesKeepPush
    <2>8. ASSUME NEW o \in pwa.ops, NEW ok \in BOOLEAN, Leave(o, ok) PROVE PushInv'
      BY <2>8, LeavingKeepsPush
    <2>9. CASE UNCHANGED pushVars
      BY <2>9 DEF pushVars, PushInv, PushTypeOK, Own, OpIsOwn
    <2>10. QED
      BY <2>1, <2>2, <2>3, <2>4, <2>5, <2>6, <2>7, <2>8, <2>9 DEF PushNext
  <1>3. PushInv => NotifiesItsAccount
    BY PushAssumption DEF PushInv, PushTypeOK, PushServices, Own, NotifiesItsAccount
  <1>4. QED
    BY <1>1, <1>2, <1>3, PTL DEF PushSpec

-----------------------------------------------------------------------------
(* workspace-bridge.py                                                       *)

TerminalSpec == TerminalInit /\ [][TerminalNext]_terminalVars

\* A socket may join a shell that was started, and an open one is told all of it.
Watches(c, list) ==
    /\ c \in Socket /\ Len(c.queue) <= MaxQueue
    /\ c.at \in {"preparing", "open"} => c.shell \in DOMAIN list
    /\ c.at # "open" => c.queue = <<>>
    /\ c.at = "open" =>
        /\ InTurn(c.got, c.queue)
        /\ UpTo(c.got, c.queue, list[c.shell].emitted)
        /\ ExitsLast(c.queue, list[c.shell].ended)

TerminalInv ==
    /\ shells \in Seq(Shell)
    /\ sessions \in [Keys -> 0..Len(shells)]
    /\ reaping \in Seq([key : Keys, shell : DOMAIN shells])
    /\ sockets \in [Viewers -> Socket]
    /\ \A v \in Viewers : Watches(sockets[v], shells)

\* One more chunk is offered: it is the next one, and nothing was to come after the exit.
LEMMA NextIsOffered ==
    ASSUME NEW got \in Seq(Nat), NEW queue \in Seq(Event), NEW last \in Nat,
           InTurn(got, queue), UpTo(got, queue, last), ExitsLast(queue, FALSE)
    PROVE  /\ queue \o <<Output(<<last + 1>>)>> \in Seq(Event)
           /\ Len(queue \o <<Output(<<last + 1>>)>>) = Len(queue) + 1
           /\ InTurn(got, queue \o <<Output(<<last + 1>>)>>)
           /\ UpTo(got, queue \o <<Output(<<last + 1>>)>>, last + 1)
           /\ ExitsLast(queue \o <<Output(<<last + 1>>)>>, FALSE)
<1> DEFINE chunk == <<last + 1>>
           e == Output(chunk)
           more == queue \o <<e>>
<1>1. /\ e \in Event /\ e.chunks = chunk /\ e # Exit
      /\ chunk \in Seq(Nat) /\ DOMAIN chunk = {1} /\ chunk[1] = last + 1 /\ ToSet(chunk) = {last + 1}
  BY DEF Event, Output, Exit, ToSet
<1> HIDE DEF e, chunk
<1>2. /\ more \in Seq(Event) /\ Len(more) = Len(queue) + 1
      /\ DOMAIN queue = 1..Len(queue) /\ DOMAIN more = 1..(Len(queue) + 1)
      /\ \A i \in 1..Len(queue) : more[i] = queue[i]
      /\ more[Len(queue) + 1] = e
  BY <1>1
<1>3. Len(queue) \in Nat /\ DOMAIN got = 1..Len(got) /\ \A m \in DOMAIN got : got[m] \in Nat
  OBVIOUS
<1>4. \A i \in DOMAIN queue : queue[i].chunks \in Seq(Nat)
  <2>1. \A i \in DOMAIN queue : queue[i] \in Event
    BY <1>2, <1>3
  <2> QED BY <2>1 DEF Event
<1>5. PICK first \in 0..last :
          /\ ToSet(got) \cup UNION {ToSet(queue[i].chunks) : i \in DOMAIN queue} = (first + 1)..last
          /\ last > 0 => first < last
  BY DEF UpTo
<1>6. /\ \A m \in DOMAIN got : got[m] <= last
      /\ \A i \in DOMAIN queue : \A m \in DOMAIN queue[i].chunks : queue[i].chunks[m] <= last
  <2>1. \A m \in DOMAIN got : got[m] \in (first + 1)..last
    BY <1>5 DEF ToSet
  <2>2. \A i \in DOMAIN queue : \A m \in DOMAIN queue[i].chunks : queue[i].chunks[m] \in (first + 1)..last
    BY <1>5 DEF ToSet
  <2> QED BY <2>1, <2>2
<1> HIDE DEF more
<1>7. InTurn(got, more)
  <2>1. Rising(chunk) /\ Before(got, chunk) /\ \A i \in DOMAIN queue : Before(queue[i].chunks, chunk)
    BY SMTT(30), ZenonT(30), <1>1, <1>3, <1>4, <1>6 DEF Rising, Before
  <2>2. \A i \in DOMAIN more : Rising(more[i].chunks) /\ Before(got, more[i].chunks)
    <3> TAKE i \in DOMAIN more
    <3>1. CASE i = Len(queue) + 1
      BY <3>1, <2>1, <1>1, <1>2
    <3>2. CASE i # Len(queue) + 1
      <4>1. i \in DOMAIN queue /\ more[i] = queue[i]
        BY <3>2, <1>2, <1>3
      <4> QED BY <4>1 DEF InTurn
    <3> QED BY <3>1, <3>2
  <2>3. \A i, j \in DOMAIN more : i < j => Before(more[i].chunks, more[j].chunks)
    <3> TAKE i, j \in DOMAIN more
    <3> HAVE i < j
    <3>1. i \in DOMAIN queue /\ more[i] = queue[i]
      BY <1>2, <1>3
    <3>2. CASE j = Len(queue) + 1
      BY <3>1, <3>2, <2>1, <1>1, <1>2
    <3>3. CASE j # Len(queue) + 1
      <4>1. j \in DOMAIN queue /\ more[j] = queue[j]
        BY <3>3, <1>2, <1>3
      <4> QED BY <3>1, <4>1 DEF InTurn
    <3> QED BY <3>2, <3>3
  <2> QED BY <2>2, <2>3 DEF InTurn
<1>8. UpTo(got, more, last + 1)
  <2>1. UNION {ToSet(more[i].chunks) : i \in DOMAIN more}
          = {last + 1} \cup UNION {ToSet(queue[i].chunks) : i \in DOMAIN queue}
    <3>1. DOMAIN more = DOMAIN queue \cup {Len(queue) + 1}
      BY <1>2, <1>3
    <3>2. ToSet(more[Len(queue) + 1].chunks) = {last + 1}
      BY <1>1, <1>2
    <3>3. \A i \in DOMAIN queue : more[i].chunks = queue[i].chunks
      BY <1>2
    <3>4. \A x : x \in UNION {ToSet(more[i].chunks) : i \in DOMAIN more}
                   <=> \E i \in DOMAIN more : x \in ToSet(more[i].chunks)
      OBVIOUS
    <3>5. \A x : x \in UNION {ToSet(queue[i].chunks) : i \in DOMAIN queue}
                   <=> \E i \in DOMAIN queue : x \in ToSet(queue[i].chunks)
      OBVIOUS
    <3>6. ASSUME NEW x
          PROVE  (\E i \in DOMAIN more : x \in ToSet(more[i].chunks))
                   <=> x = last + 1 \/ \E i \in DOMAIN queue : x \in ToSet(queue[i].chunks)
      BY <3>1, <3>2, <3>3
    <3> QED BY <3>4, <3>5, <3>6
  <2>2. ((first + 1)..last) \cup {last + 1} = (first + 1)..(last + 1) /\ first \in 0..(last + 1) /\ first < last + 1
    BY <1>5
  <2>3. ToSet(got) \cup UNION {ToSet(more[i].chunks) : i \in DOMAIN more} = (first + 1)..(last + 1)
    BY <2>1, <2>2, <1>5
  <2> QED BY <2>2, <2>3 DEF UpTo
<1>9. ExitsLast(more, FALSE)
  BY SMTT(30), ZenonT(30), <1>1, <1>2, <1>3 DEF ExitsLast
<1> QED BY <1>2, <1>7, <1>8, <1>9 DEF more, e, chunk

\* The exit is offered: it is the last event, and carries no output.
LEMMA ExitIsOffered ==
    ASSUME NEW got \in Seq(Nat), NEW queue \in Seq(Event), NEW last \in Nat,
           InTurn(got, queue), UpTo(got, queue, last), ExitsLast(queue, FALSE)
    PROVE  /\ queue \o <<Exit>> \in Seq(Event)
           /\ Len(queue \o <<Exit>>) = Len(queue) + 1
           /\ InTurn(got, queue \o <<Exit>>)
           /\ UpTo(got, queue \o <<Exit>>, last)
           /\ ExitsLast(queue \o <<Exit>>, TRUE)
<1> DEFINE more == queue \o <<Exit>>
<1>1. Exit \in Event /\ Exit.chunks = <<>> /\ DOMAIN (<<>>) = {} /\ ToSet(<<>>) = {}
  BY DEF Event, Exit, ToSet
<1>2. /\ more \in Seq(Event) /\ Len(more) = Len(queue) + 1
      /\ DOMAIN queue = 1..Len(queue) /\ DOMAIN more = 1..(Len(queue) + 1)
      /\ \A i \in 1..Len(queue) : more[i] = queue[i]
      /\ more[Len(queue) + 1] = Exit
  BY <1>1
<1>3. Len(queue) \in Nat
  OBVIOUS
<1> HIDE DEF more
<1>4. \A i \in DOMAIN more : i = Len(queue) + 1 \/ (i \in DOMAIN queue /\ more[i] = queue[i])
  BY <1>2, <1>3
<1>5. Rising(<<>>) /\ \A s : Before(s, <<>>)
  BY <1>1 DEF Rising, Before
<1>6. InTurn(got, more)
  <2>1. \A i \in DOMAIN more : Rising(more[i].chunks) /\ Before(got, more[i].chunks)
    BY <1>1, <1>2, <1>4, <1>5 DEF InTurn
  <2>2. \A i, j \in DOMAIN more : i < j => Before(more[i].chunks, more[j].chunks)
    <3> TAKE i, j \in DOMAIN more
    <3> HAVE i < j
    <3>1. i \in DOMAIN queue /\ more[i] = queue[i]
      BY <1>2, <1>3
    <3> QED BY <3>1, <1>1, <1>2, <1>4, <1>5 DEF InTurn
  <2> QED BY <2>1, <2>2 DEF InTurn
<1>7. UpTo(got, more, last)
  <2>1. UNION {ToSet(more[i].chunks) : i \in DOMAIN more} = UNION {ToSet(queue[i].chunks) : i \in DOMAIN queue}
    <3>1. DOMAIN more = DOMAIN queue \cup {Len(queue) + 1}
      BY <1>2, <1>3
    <3>2. ToSet(more[Len(queue) + 1].chunks) = {}
      BY <1>1, <1>2
    <3>3. \A i \in DOMAIN queue : more[i].chunks = queue[i].chunks
      BY <1>2
    <3> QED BY <3>1, <3>2, <3>3
  <2> QED BY <2>1 DEF UpTo
<1>8. ExitsLast(more, TRUE)
  <2>1. \A i \in DOMAIN queue : queue[i] # Exit
    BY DEF ExitsLast
  <2> QED BY <2>1, <1>2, <1>3, <1>4 DEF ExitsLast
<1> QED BY <1>2, <1>6, <1>7, <1>8 DEF more

\* The first event goes out: its output is got, before what waits.
LEMMA FirstGoesOut ==
    ASSUME NEW got \in Seq(Nat), NEW queue \in Seq(Event), NEW last \in Nat, NEW ended \in BOOLEAN,
           queue # <<>>, Head(queue) # Exit,
           InTurn(got, queue), UpTo(got, queue, last), ExitsLast(queue, ended)
    PROVE  /\ got \o Head(queue).chunks \in Seq(Nat)
           /\ Tail(queue) \in Seq(Event) /\ Len(Tail(queue)) <= Len(queue)
           /\ InTurn(got \o Head(queue).chunks, Tail(queue))
           /\ UpTo(got \o Head(queue).chunks, Tail(queue), last)
           /\ ExitsLast(Tail(queue), ended)
<1> DEFINE out == queue[1].chunks
           rest == Tail(queue)
           had == got \o out
<1>1. /\ Len(queue) \in Nat /\ Len(queue) >= 1 /\ DOMAIN queue = 1..Len(queue)
      /\ rest \in Seq(Event) /\ Len(rest) = Len(queue) - 1 /\ DOMAIN rest = 1..(Len(queue) - 1)
      /\ \A i \in 1..(Len(queue) - 1) : rest[i] = queue[i + 1]
      /\ Head(queue) = queue[1] /\ 1 \in DOMAIN queue
  OBVIOUS
<1>2. out \in Seq(Nat) /\ DOMAIN out = 1..Len(out) /\ Len(out) \in Nat /\ Len(got) \in Nat /\ DOMAIN got = 1..Len(got)
  <2>1. queue[1] \in Event
    BY <1>1
  <2>2. out \in Seq(Nat)
    BY <2>1 DEF Event
  <2> QED BY <2>2
<1> HIDE DEF out, rest
<1>3. /\ had \in Seq(Nat) /\ DOMAIN had = 1..(Len(got) + Len(out))
      /\ \A m \in 1..Len(got) : had[m] = got[m]
      /\ \A m \in 1..Len(out) : had[Len(got) + m] = out[m]
  BY <1>2
<1> HIDE DEF had
<1>4. \A m \in DOMAIN had : \/ m \in DOMAIN got /\ had[m] = got[m]
                            \/ m - Len(got) \in DOMAIN out /\ had[m] = out[m - Len(got)]
  <2> TAKE m \in DOMAIN had
  <2>1. CASE m <= Len(got)
    BY <2>1, <1>2, <1>3
  <2>2. CASE m > Len(got)
    <3>1. m - Len(got) \in 1..Len(out) /\ m = Len(got) + (m - Len(got))
      BY SMTT(30), ZenonT(30), <2>2, <1>2, <1>3
    <3> QED BY <3>1, <1>2, <1>3
  <2> QED BY <2>1, <2>2, <1>2, <1>3
<1>5. \A i \in DOMAIN rest : i + 1 \in DOMAIN queue /\ rest[i] = queue[i + 1] /\ 1 < i + 1
  BY <1>1
<1>6. \A i \in DOMAIN rest : Before(got, rest[i].chunks) /\ Before(out, rest[i].chunks) /\ Rising(rest[i].chunks)
  BY <1>1, <1>5 DEF InTurn, out
<1>7. Rising(had)
  <2>1. Rising(got) /\ Rising(out) /\ Before(got, out)
    BY <1>1 DEF InTurn, out
  <2>2. SUFFICES ASSUME NEW m \in DOMAIN had, NEW n \in DOMAIN had, m < n PROVE had[m] < had[n]
    BY DEF Rising
  <2>3. CASE n <= Len(got)
    <3>1. m \in DOMAIN got /\ n \in DOMAIN got /\ had[m] = got[m] /\ had[n] = got[n]
      BY SMTT(30), ZenonT(30), <2>2, <2>3, <1>2, <1>3
    <3> QED BY <3>1, <2>1, <2>2 DEF Rising
  <2>4. CASE n > Len(got) /\ m <= Len(got)
    <3>1. m \in DOMAIN got /\ had[m] = got[m] /\ n - Len(got) \in DOMAIN out /\ had[n] = out[n - Len(got)]
      BY SMTT(30), ZenonT(30), <2>2, <2>4, <1>2, <1>3, <1>4
    <3> QED BY <3>1, <2>1 DEF Before
  <2>5. CASE m > Len(got)
    <3>1. /\ m - Len(got) \in DOMAIN out /\ had[m] = out[m - Len(got)]
          /\ n - Len(got) \in DOMAIN out /\ had[n] = out[n - Len(got)]
      BY SMTT(30), ZenonT(30), <2>2, <2>5, <1>2, <1>3, <1>4
    <3>2. m - Len(got) < n - Len(got)
      BY <2>2, <1>2, <1>3
    <3> QED BY <3>1, <3>2, <2>1 DEF Rising
  <2> QED BY SMTT(30), ZenonT(30), <2>3, <2>4, <2>5, <1>2, <1>3
<1>8. InTurn(had, rest)
  <2>1. \A i \in DOMAIN rest : Before(had, rest[i].chunks)
    BY <1>4, <1>6 DEF Before
  <2>2. \A i, j \in DOMAIN rest : i < j => Before(rest[i].chunks, rest[j].chunks)
    <3> TAKE i, j \in DOMAIN rest
    <3> HAVE i < j
    <3>1. i + 1 < j + 1
      BY <1>1
    <3> QED BY <3>1, <1>5 DEF InTurn
  <2> QED BY <1>6, <1>7, <2>1, <2>2 DEF InTurn
<1>9. UpTo(had, rest, last)
  <2>1. ToSet(had) = ToSet(got) \cup ToSet(out)
    <3>1. \A x \in ToSet(had) : x \in ToSet(got) \cup ToSet(out)
      BY <1>4, Zenon DEF ToSet
    <3>2. \A m \in DOMAIN got : m \in DOMAIN had /\ had[m] = got[m]
      BY <1>2, <1>3
    <3>3. \A m \in DOMAIN out : Len(got) + m \in DOMAIN had /\ had[Len(got) + m] = out[m]
      BY SMTT(30), ZenonT(30), <1>2, <1>3
    <3> QED BY SMTT(30), ZenonT(30), <3>1, <3>2, <3>3 DEF ToSet
  <2>2. UNION {ToSet(queue[i].chunks) : i \in DOMAIN queue} = ToSet(out) \cup UNION {ToSet(rest[i].chunks) : i \in DOMAIN rest}
    <3>1. \A i \in DOMAIN queue : i = 1 \/ (i - 1 \in DOMAIN rest /\ rest[i - 1] = queue[i])
      BY <1>1
    <3>2. \A i \in DOMAIN rest : i + 1 \in DOMAIN queue /\ rest[i] = queue[i + 1]
      BY <1>5
    <3>3. \A x : (\E i \in DOMAIN queue : x \in ToSet(queue[i].chunks))
                    <=> x \in ToSet(out) \/ \E i \in DOMAIN rest : x \in ToSet(rest[i].chunks)
      BY <3>1, <3>2, <1>1, Zenon DEF out
    <3> QED BY <3>3, Zenon
  <2>3. ToSet(had) \cup UNION {ToSet(rest[i].chunks) : i \in DOMAIN rest}
           = ToSet(got) \cup UNION {ToSet(queue[i].chunks) : i \in DOMAIN queue}
    BY <2>1, <2>2, Zenon
  <2> QED BY <2>3 DEF UpTo
<1>10. ExitsLast(rest, ended)
  <2>1. CASE ended
    <3>1. \A i \in DOMAIN queue : queue[i] = Exit <=> i = Len(queue)
      BY <2>1, <1>1 DEF ExitsLast
    <3>2. \A i \in DOMAIN rest : rest[i] = Exit <=> i = Len(rest)
      BY <3>1, <1>1, <1>5
    <3>3. Len(rest) \in DOMAIN rest
      BY <3>1, <1>1
    <3> QED BY <3>2, <3>3, <2>1 DEF ExitsLast
  <2>2. CASE ~ended
    BY <2>2, <1>5 DEF ExitsLast
  <2> QED BY <2>1, <2>2
<1> QED BY <1>1, <1>3, <1>8, <1>9, <1>10 DEF out, rest, had

LEMMA TwoInTurn ==
    ASSUME NEW e \in Event, NEW f \in Event
    PROVE  /\ <<e>> \o <<f>> \in Seq(Event) /\ DOMAIN (<<e>> \o <<f>>) = {1, 2}
           /\ (<<e>> \o <<f>>)[1] = e /\ (<<e>> \o <<f>>)[2] = f
OBVIOUS

\* What a socket that joins is offered is the output from some chunk on.
LEMMA WelcomeTells ==
    ASSUME NEW last \in Nat, NEW ended \in BOOLEAN, NEW replay,
           NEW first \in Nat, first = (IF last < MaxReplay THEN 0 ELSE last - MaxReplay),
           replay = [i \in 1..(last - first) |-> first + i],
           NEW welcome, welcome = <<Ready>> \o (IF replay = <<>> THEN <<>> ELSE <<Output(replay)>>)
                                            \o (IF ended THEN <<Exit>> ELSE <<>>)
    PROVE  /\ welcome \in Seq(Event)
           /\ InTurn(<<>>, welcome) /\ UpTo(<<>>, welcome, last) /\ ExitsLast(welcome, ended)
<1> DEFINE met == <<Ready>> \o (IF replay = <<>> THEN <<>> ELSE <<Output(replay)>>)
<1>1. first \in 0..last /\ (last > 0 => first < last)
  BY TerminalAssumption
<1>2. /\ last - first \in Nat /\ DOMAIN replay = 1..(last - first) /\ replay \in Seq(Nat)
      /\ \A i \in 1..(last - first) : replay[i] = first + i
  <2>1. last - first \in Nat /\ replay \in [1..(last - first) -> Nat]
    BY <1>1
  <2>2. replay \in Seq(Nat)
    BY <2>1, IsASeq
  <2> QED BY <2>1, <2>2
<1>3. ToSet(replay) = (first + 1)..last
  <2>1. \A x \in (first + 1)..last : x - first \in 1..(last - first) /\ x = first + (x - first)
    BY <1>1
  <2>2. \A i \in 1..(last - first) : first + i \in (first + 1)..last
    BY <1>1
  <2> QED BY <2>1, <2>2, <1>2 DEF ToSet
<1>4. Rising(replay)
  BY <1>1, <1>2 DEF Rising
<1>5. /\ Ready \in Event /\ Ready.chunks = <<>> /\ Ready # Exit /\ Output(replay).chunks = replay
      /\ Output(replay) \in Event /\ Output(replay) # Exit
  BY <1>2 DEF Ready, Output, Exit, Event
<1>6. /\ <<>> \in Seq(Nat) /\ Rising(<<>>) /\ (\A s : Before(s, <<>>) /\ Before(<<>>, s))
      /\ ToSet(<<>>) = {}
  BY DEF Rising, Before, ToSet
<1>7. met \in Seq(Event) /\ InTurn(<<>>, met) /\ UpTo(<<>>, met, last) /\ ExitsLast(met, FALSE)
  <2>1. CASE replay = <<>>
    <3>1. met = <<Ready>>
      BY <2>1, <1>5
    <3>2. /\ met \in Seq(Event) /\ DOMAIN met = {1} /\ met[1] = Ready
      BY <3>1, <1>5
    <3> HIDE DEF met
    <3>3. InTurn(<<>>, met)
      BY <3>2, <1>5, <1>6 DEF InTurn
    <3>4. UpTo(<<>>, met, last)
      <4>1. last = 0
        <5>1. 1..(last - first) = {}
          BY <2>1, <1>2
        <5>2. ~(1 \in 1..(last - first))
          BY <5>1
        <5>3. last - first = 0
          BY <5>2, <1>2
        <5> QED BY <5>3, <1>1
      <4>2. ToSet(<<>>) \cup UNION {ToSet(met[i].chunks) : i \in DOMAIN met} = {}
        BY <3>2, <1>5, <1>6
      <4>3. (0 + 1)..last = {} /\ 0 \in 0..last /\ ~(last > 0)
        BY <4>1
      <4> QED BY <4>2, <4>3 DEF UpTo
    <3>5. ExitsLast(met, FALSE)
      BY <3>2, <1>5 DEF ExitsLast
    <3> QED BY <3>2, <3>3, <3>4, <3>5
  <2>2. CASE replay # <<>>
    <3>1. met = <<Ready>> \o <<Output(replay)>>
      BY <2>2
    <3> HIDE DEF met
    <3>2. /\ met \in Seq(Event) /\ DOMAIN met = {1, 2} /\ met[1] = Ready /\ met[2] = Output(replay)
      <4>1. Ready \in Event /\ Output(replay) \in Event
        BY <1>5
      <4> HIDE DEF Ready
      <4> QED BY <3>1, <4>1, TwoInTurn
    <3>3. InTurn(<<>>, met)
      BY <3>2, <1>4, <1>5, <1>6 DEF InTurn
    <3>4. UpTo(<<>>, met, last)
      <4>1. ToSet(met[1].chunks) = {} /\ ToSet(met[2].chunks) = (first + 1)..last
        BY <3>2, <1>3, <1>5, <1>6
      <4>2. \A x : (\E i \in DOMAIN met : x \in ToSet(met[i].chunks)) <=> x \in (first + 1)..last
        <5>1. (\A i \in DOMAIN met : i = 1 \/ i = 2) /\ 1 \in DOMAIN met /\ 2 \in DOMAIN met
          BY <3>2
        <5> QED BY <5>1, <4>1, Zenon
      <4>3. ToSet(<<>>) \cup UNION {ToSet(met[i].chunks) : i \in DOMAIN met} = (first + 1)..last
        BY <4>2, <1>6, Zenon
      <4> QED BY <4>3, <1>1 DEF UpTo
    <3>5. ExitsLast(met, FALSE)
      BY <3>2, <1>5 DEF ExitsLast
    <3> QED BY <3>2, <3>3, <3>4, <3>5
  <2> QED BY <2>1, <2>2
<1>8. CASE ended
  <2>1. welcome = met \o <<Exit>>
    BY <1>8
  <2> HIDE DEF met
  <2> QED BY <2>1, <1>6, <1>7, <1>8, ExitIsOffered
<1>9. CASE ~ended
  <2>1. welcome = met \o <<>>
    BY <1>9
  <2> HIDE DEF met
  <2>2. welcome = met
    BY <2>1, <1>7
  <2> QED BY <2>2, <1>7, <1>9
<1> QED BY <1>8, <1>9

\* A socket that is closed, or was never opened, is told nothing.
LEMMA ClosedWatches ==
    ASSUME NEW list
    PROVE  Watches(NewSocket, list) /\ Watches(ClosedSocket, list)
<1>1. /\ NewSocket \in Socket /\ NewSocket.at = "idle" /\ NewSocket.queue = <<>>
      /\ ClosedSocket \in Socket /\ ClosedSocket.at = "closed" /\ ClosedSocket.queue = <<>>
  <2>1. <<>> \in Seq(Event) /\ <<>> \in Seq(Nat)
    OBVIOUS
  <2>2. /\ NewSocket \in Socket /\ NewSocket.at = "idle" /\ NewSocket.queue = <<>>
    BY <2>1 DEF NewSocket, NoShell, Socket
  <2>3. ClosedSocket = [at |-> "closed", shell |-> NoShell, queue |-> <<>>, got |-> <<>>]
    BY DEF ClosedSocket, NewSocket
  <2> QED BY <2>1, <2>2, <2>3 DEF NoShell, Socket
<1> QED BY <1>1, TerminalAssumption DEF Watches

\* What the other handlers do to the shells is not seen by a socket.
SameOutput(list, new) ==
    \A t \in DOMAIN list : t \in DOMAIN new /\ new[t].emitted = list[t].emitted /\ new[t].ended = list[t].ended

LEMMA StillWatches ==
    ASSUME NEW c, NEW list, NEW new, Watches(c, list), SameOutput(list, new)
    PROVE  Watches(c, new)
BY DEF Watches, SameOutput

\* One shell changes.
LEMMA OneShell ==
    ASSUME NEW list \in Seq(Shell), NEW t \in DOMAIN list, NEW s \in Shell,
           NEW new, new = [list EXCEPT ![t] = s]
    PROVE  /\ new \in Seq(Shell) /\ Len(new) = Len(list) /\ DOMAIN new = DOMAIN list
           /\ new[t] = s /\ \A u \in DOMAIN list : u # t => new[u] = list[u]
BY ExceptSeq

\* A socket is offered the chunk its shell emitted, a socket of another shell is not.
LEMMA ChunkKeepsWatching ==
    ASSUME NEW c, NEW list, NEW new, NEW t, Watches(c, list), c.at = "open" /\ c.shell = t,
           t \in DOMAIN new, list[t].emitted \in Nat, list[t].ended = FALSE,
           new[t].emitted = list[t].emitted + 1, new[t].ended = FALSE
    PROVE  Watches(Offered(c, <<Output(<<list[t].emitted + 1>>)>>), new)
<1> DEFINE more == c.queue \o <<Output(<<list[t].emitted + 1>>)>>
           d == [c EXCEPT !.queue = more]
<1>1. c \in Socket /\ c.got \in Seq(Nat) /\ c.queue \in Seq(Event)
  BY DEF Watches, Socket
<1>2. more \in Seq(Event) /\ Len(more) = Len(c.queue) + 1 /\ InTurn(c.got, more)
      /\ UpTo(c.got, more, list[t].emitted + 1) /\ ExitsLast(more, FALSE)
  BY <1>1, NextIsOffered DEF Watches
<1>3. Len(<<Output(<<list[t].emitted + 1>>)>>) = 1
  OBVIOUS
<1> HIDE DEF more
<1>4. d \in Socket /\ d.at = "open" /\ d.shell = t /\ d.queue = more /\ d.got = c.got
  BY <1>1, <1>2 DEF Socket
<1>5. CASE Len(c.queue) + 1 > MaxQueue
  <2>1. Offered(c, <<Output(<<list[t].emitted + 1>>)>>) = ClosedSocket
    BY <1>3, <1>5 DEF Offered
  <2> QED BY <2>1, ClosedWatches
<1>6. CASE ~(Len(c.queue) + 1 > MaxQueue)
  <2>1. Offered(c, <<Output(<<list[t].emitted + 1>>)>>) = d
    BY <1>3, <1>6 DEF Offered, more
  <2> HIDE DEF d
  <2>2. Len(more) <= MaxQueue
    BY <1>1, <1>2, <1>6, TerminalAssumption
  <2> QED BY <2>1, <2>2, <1>2, <1>4 DEF Watches
<1> QED BY <1>5, <1>6

LEMMA AppendsJoin ==
    ASSUME NEW q \in Seq(Event), NEW s \in Seq(Event), NEW e \in Event
    PROVE  /\ q \o (s \o <<e>>) = (q \o s) \o <<e>>
           /\ Len(s) \in Nat /\ Len(q) \in Nat /\ Len(s \o <<e>>) = Len(s) + 1
           /\ Len((q \o s) \o <<e>>) = Len(q) + Len(s \o <<e>>)
<1>1. <<e>> \in Seq(Event) /\ Len(<<e>>) = 1
  OBVIOUS
<1>2. q \o (s \o <<e>>) = (q \o s) \o <<e>>
  BY <1>1, ConcatAssociative
<1>3. Len(s) \in Nat /\ Len(q) \in Nat /\ Len(s \o <<e>>) = Len(s) + 1 /\ q \o s \in Seq(Event)
  BY <1>1
<1>4. Len((q \o s) \o <<e>>) = Len(q) + Len(s) + 1
  BY <1>1, <1>3
<1> QED BY <1>2, <1>3, <1>4

\* A socket is offered the exit, after the last chunk if there was one.
LEMMA ExitKeepsWatching ==
    ASSUME NEW c, NEW list, NEW new, NEW t, Watches(c, list), c.at = "open" /\ c.shell = t,
           t \in DOMAIN new, list[t].emitted \in Nat, list[t].ended = FALSE,
           NEW chunk,
           \/ chunk = <<>> /\ new[t].emitted = list[t].emitted
           \/ chunk = <<Output(<<list[t].emitted + 1>>)>> /\ new[t].emitted = list[t].emitted + 1,
           new[t].ended = TRUE
    PROVE  Watches(Offered(c, chunk \o <<Exit>>), new)
<1>1. c \in Socket /\ c.got \in Seq(Nat) /\ c.queue \in Seq(Event)
  BY DEF Watches, Socket
<1>2. PICK last \in Nat, queue \in Seq(Event) :
          /\ last = new[t].emitted /\ c.queue \o chunk = queue /\ Len(queue) = Len(c.queue) + Len(chunk)
          /\ InTurn(c.got, queue) /\ UpTo(c.got, queue, last) /\ ExitsLast(queue, FALSE)
          /\ chunk \in Seq(Event)
  <2>1. CASE chunk = <<>> /\ new[t].emitted = list[t].emitted
    <3>1. c.queue \o chunk = c.queue /\ Len(c.queue) = Len(c.queue) + Len(chunk) /\ chunk \in Seq(Event)
      BY <2>1, <1>1
    <3> QED BY <2>1, <3>1, <1>1 DEF Watches
  <2>2. CASE chunk = <<Output(<<list[t].emitted + 1>>)>> /\ new[t].emitted = list[t].emitted + 1
    <3>1. /\ c.queue \o chunk \in Seq(Event) /\ Len(c.queue \o chunk) = Len(c.queue) + 1
          /\ InTurn(c.got, c.queue \o chunk)
          /\ UpTo(c.got, c.queue \o chunk, list[t].emitted + 1) /\ ExitsLast(c.queue \o chunk, FALSE)
      BY <1>1, <2>2, NextIsOffered DEF Watches
    <3>2. Len(chunk) = 1
      BY <2>2
    <3>3. Output(<<list[t].emitted + 1>>) \in Event
      BY DEF Output, Event
    <3>4. chunk \in Seq(Event)
      BY <2>2, <3>3
    <3>5. list[t].emitted + 1 \in Nat
      OBVIOUS
    <3> QED BY <2>2, <3>1, <3>2, <3>4, <3>5
  <2> QED BY <2>1, <2>2
<1> DEFINE more == queue \o <<Exit>>
           events == chunk \o <<Exit>>
           d == [c EXCEPT !.queue = more]
<1>3. more \in Seq(Event) /\ Len(more) = Len(queue) + 1 /\ InTurn(c.got, more)
      /\ UpTo(c.got, more, last) /\ ExitsLast(more, TRUE)
  BY <1>1, <1>2, ExitIsOffered
<1>4. Exit \in Event /\ <<Exit>> \in Seq(Event) /\ Len(<<Exit>>) = 1
  BY DEF Exit, Event
<1>5. /\ c.queue \o events = more /\ Len(more) = Len(c.queue) + Len(events)
      /\ Len(c.queue) \in Nat /\ Len(events) \in Nat
  <2>1. chunk \in Seq(Event)
    BY <1>2
  <2>2. /\ c.queue \o events = (c.queue \o chunk) \o <<Exit>>
        /\ Len((c.queue \o chunk) \o <<Exit>>) = Len(c.queue) + Len(events)
        /\ Len(c.queue) \in Nat /\ Len(chunk) \in Nat /\ Len(events) = Len(chunk) + 1
    BY ZenonT(30), SMTT(30), <2>1, <1>1, <1>4, AppendsJoin
  <2>3. more = (c.queue \o chunk) \o <<Exit>>
    BY <1>2
  <2> HIDE DEF more, events
  <2>4. Len(more) = Len(c.queue) + Len(events) /\ c.queue \o events = more
    BY <2>2, <2>3
  <2>5. Len(events) \in Nat
    BY <2>2
  <2> QED BY <2>2, <2>4, <2>5
<1> HIDE DEF more
<1>6. d \in Socket /\ d.at = "open" /\ d.shell = t /\ d.queue = more /\ d.got = c.got
  BY <1>1, <1>3 DEF Socket
<1> HIDE DEF events
<1>7. CASE Len(c.queue) + Len(events) > MaxQueue
  <2>1. Offered(c, events) = ClosedSocket
    BY <1>7 DEF Offered
  <2> QED BY <2>1, ClosedWatches DEF events
<1>8. CASE ~(Len(c.queue) + Len(events) > MaxQueue)
  <2>1. Offered(c, events) = d
    BY <1>5, <1>8 DEF Offered
  <2> HIDE DEF d
  <2>2. Len(more) <= MaxQueue
    BY <1>5, <1>8, TerminalAssumption
  <2>3. Watches(d, new)
    BY <2>2, <1>2, <1>3, <1>6 DEF Watches
  <2> QED BY <2>1, <2>3 DEF events
<1> QED BY <1>7, <1>8

\* The steps of a handler that only change a shell.
LEMMA ShellKeepsTerminals ==
    ASSUME TerminalInv, NEW t \in DOMAIN shells, NEW s \in Shell, shells' = [shells EXCEPT ![t] = s],
           s.emitted = shells[t].emitted, s.ended = shells[t].ended,
           UNCHANGED <<sessions, sockets, reaping>>
    PROVE  TerminalInv'
<1>1. /\ shells' \in Seq(Shell) /\ Len(shells') = Len(shells) /\ DOMAIN shells' = DOMAIN shells
      /\ SameOutput(shells, shells')
  BY OneShell DEF TerminalInv, SameOutput
<1>2. \A v \in Viewers : Watches(sockets[v], shells')
  BY <1>1, StillWatches DEF TerminalInv
<1> QED BY <1>1, <1>2 DEF TerminalInv

\* A socket closes, and its shell is looked after again.
LEMMA StopKeepsTerminals ==
    ASSUME TerminalInv, NEW v \in Viewers, sockets[v].at = "open", Stop(v), UNCHANGED <<sessions, reaping>>
    PROVE  TerminalInv'
<1> DEFINE t == sockets[v].shell
<1>1. t \in DOMAIN shells /\ shells[t] \in Shell
  BY DEF TerminalInv, Watches
<1>2. PICK s \in Shell : /\ shells' = [shells EXCEPT ![t] = s]
                         /\ s.emitted = shells[t].emitted /\ s.ended = shells[t].ended
  <2> DEFINE s == [shells[t] EXCEPT !.idle = FALSE]
  <2>1. s \in Shell /\ s.emitted = shells[t].emitted /\ s.ended = shells[t].ended
    BY <1>1 DEF Shell
  <2>2. shells' = [shells EXCEPT ![t] = s]
    BY DEF Stop
  <2> QED BY <2>1, <2>2
<1>3. /\ shells' \in Seq(Shell) /\ Len(shells') = Len(shells) /\ DOMAIN shells' = DOMAIN shells
      /\ SameOutput(shells, shells')
  BY <1>1, <1>2, OneShell DEF TerminalInv, SameOutput
<1>4. sockets' = [sockets EXCEPT ![v] = ClosedSocket] /\ ClosedSocket \in Socket
  BY ClosedWatches DEF Stop, Watches
<1>5. \A w \in Viewers : Watches(sockets'[w], shells')
  <2> TAKE w \in Viewers
  <2>1. CASE w = v
    BY <2>1, <1>4, ClosedWatches DEF TerminalInv
  <2>2. CASE w # v
    <3>1. sockets'[w] = sockets[w]
      BY <2>2, <1>4 DEF TerminalInv
    <3> QED BY <3>1, <1>3, StillWatches DEF TerminalInv
  <2> QED BY <2>1, <2>2
<1>6. sockets' \in [Viewers -> Socket]
  BY <1>4 DEF TerminalInv
<1> QED BY <1>3, <1>5, <1>6 DEF TerminalInv

\* One socket changes, and the shells as far as it cannot be seen.
LEMMA SocketKeepsTerminals ==
    ASSUME TerminalInv, NEW v \in Viewers, NEW c, sockets' = [sockets EXCEPT ![v] = c],
           shells' \in Seq(Shell), Len(shells') = Len(shells), SameOutput(shells, shells'), Watches(c, shells'),
           UNCHANGED <<sessions, reaping>>
    PROVE  TerminalInv'
<1>1. c \in Socket /\ sockets' \in [Viewers -> Socket]
  BY DEF TerminalInv, Watches
<1>2. DOMAIN shells' = DOMAIN shells
  BY LenProperties DEF TerminalInv
<1>3. \A w \in Viewers : Watches(sockets'[w], shells')
  <2> TAKE w \in Viewers
  <2>1. CASE w = v
    BY <2>1 DEF TerminalInv
  <2>2. CASE w # v
    <3>1. sockets'[w] = sockets[w]
      BY <2>2 DEF TerminalInv
    <3> QED BY <3>1, StillWatches DEF TerminalInv
  <2> QED BY <2>1, <2>2
<1> QED BY <1>1, <1>2, <1>3 DEF TerminalInv

LEMMA SameStays == ASSUME NEW list PROVE SameOutput(list, list)
BY DEF SameOutput

LEMMA RefuseKeepsTerminals ==
    ASSUME TerminalInv, NEW v \in Viewers, Refuse(v), UNCHANGED <<shells, sessions, reaping>>
    PROVE  TerminalInv'
<1>1. sockets' = [sockets EXCEPT ![v] = ClosedSocket]
  BY DEF Refuse
<1> QED BY <1>1, SocketKeepsTerminals, SameStays, ClosedWatches DEF TerminalInv

LEMMA AttachKeepsTerminals ==
    ASSUME TerminalInv, NEW v \in Viewers, Attach(v)
    PROVE  TerminalInv'
<1> DEFINE t == sockets[v].shell
           c == [sockets[v] EXCEPT !.at = "open", !.got = <<>>]
           welcome == <<Ready>> \o (IF Replay(v) = <<>> THEN <<>> ELSE <<Output(Replay(v))>>)
                                \o (IF shells[t].ended THEN <<Exit>> ELSE <<>>)
<1>1. /\ sockets[v].at = "preparing" /\ t \in DOMAIN shells /\ shells[t] \in Shell
      /\ sockets[v] \in Socket /\ sockets[v].queue = <<>>
  BY DEF Attach, TerminalInv, Watches
<1>2. CASE Refuse(v) /\ UNCHANGED shells
  BY <1>2, RefuseKeepsTerminals DEF Attach
<1>3. CASE /\ sockets' = [sockets EXCEPT ![v] = Offered(c, welcome)]
           /\ shells' = [shells EXCEPT ![t].idle = FALSE]
  <2>1. PICK s \in Shell : /\ shells' = [shells EXCEPT ![t] = s]
                           /\ s.emitted = shells[t].emitted /\ s.ended = shells[t].ended
    <3> DEFINE s == [shells[t] EXCEPT !.idle = FALSE]
    <3>1. s \in Shell /\ s.emitted = shells[t].emitted /\ s.ended = shells[t].ended
      BY <1>1 DEF Shell
    <3>2. shells' = [shells EXCEPT ![t] = s]
      BY <1>3
    <3> QED BY <3>1, <3>2
  <2>2. /\ shells' \in Seq(Shell) /\ Len(shells') = Len(shells) /\ DOMAIN shells' = DOMAIN shells
        /\ SameOutput(shells, shells') /\ shells'[t] = s
    BY <1>1, <2>1, OneShell DEF TerminalInv, SameOutput
  <2>3. PICK last \in Nat, ended \in BOOLEAN : last = shells[t].emitted /\ ended = shells[t].ended
    BY <1>1 DEF Shell
  <2>4. PICK first \in Nat : /\ first = (IF last < MaxReplay THEN 0 ELSE last - MaxReplay)
                             /\ Replay(v) = [i \in 1..(last - first) |-> first + i]
    <3>1. (IF last < MaxReplay THEN 0 ELSE last - MaxReplay) \in Nat
      BY TerminalAssumption
    <3> QED BY <3>1, <2>3 DEF Replay
  <2>5. PICK events : events = welcome
    OBVIOUS
  <2>6. events \in Seq(Event) /\ InTurn(<<>>, events) /\ UpTo(<<>>, events, last) /\ ExitsLast(events, ended)
    <3>1. PICK replay : replay = Replay(v)
      OBVIOUS
    <3>2. replay = [i \in 1..(last - first) |-> first + i]
      BY <2>4, <3>1
    <3>3. events = <<Ready>> \o (IF replay = <<>> THEN <<>> ELSE <<Output(replay)>>) \o (IF ended THEN <<Exit>> ELSE <<>>)
      BY <2>3, <2>5, <3>1, Zenon
    <3>4. first = (IF last < MaxReplay THEN 0 ELSE last - MaxReplay)
      BY <2>4
    <3> QED BY <3>2, <3>3, <3>4, WelcomeTells, ZenonT(30)
  <2>7. /\ c \in Socket /\ c.at = "open" /\ c.shell = t /\ c.queue = <<>> /\ c.got = <<>>
    <3>1. <<>> \in Seq(Nat)
      OBVIOUS
    <3> QED BY <1>1, <3>1 DEF Socket
  <2> HIDE DEF c, welcome
  <2>8. PICK d : d = Offered(c, events)
    OBVIOUS
  <2>9. Watches(d, shells')
    <3>1. CASE Len(c.queue) + Len(events) > MaxQueue
      BY <2>7, <2>8, <3>1, ClosedWatches DEF Offered
    <3>2. CASE ~(Len(c.queue) + Len(events) > MaxQueue)
      <4>1. d = [c EXCEPT !.queue = c.queue \o events]
        BY <2>7, <2>8, <3>2 DEF Offered
      <4>2. c.queue \o events = events /\ Len(events) <= MaxQueue
        BY <2>6, <2>7, <3>2, TerminalAssumption
      <4>3. d \in Socket /\ d.at = "open" /\ d.shell = t /\ d.queue = events /\ d.got = <<>>
        BY <2>6, <2>7, <4>1, <4>2 DEF Socket
      <4> QED BY <1>1, <2>1, <2>2, <2>3, <2>6, <4>2, <4>3 DEF Watches
    <3> QED BY <3>1, <3>2
  <2>10. sockets' = [sockets EXCEPT ![v] = d]
    BY <1>3, <2>5, <2>8
  <2> QED BY <2>2, <2>9, <2>10, SocketKeepsTerminals DEF Attach
<1> QED BY <1>2, <1>3, Zenon DEF Attach

LEMMA SendKeepsTerminals ==
    ASSUME TerminalInv, NEW v \in Viewers, SendEvent(v)
    PROVE  TerminalInv'
<1>1. CASE Head(sockets[v].queue) = Exit
  BY <1>1, StopKeepsTerminals DEF SendEvent
<1>2. CASE Head(sockets[v].queue) # Exit
  <2> DEFINE t == sockets[v].shell
             queue == sockets[v].queue
             had == sockets[v].got \o Head(queue).chunks
             d == [sockets[v] EXCEPT !.queue = Tail(queue), !.got = had]
  <2>1. /\ sockets[v] \in Socket /\ t \in DOMAIN shells /\ shells[t] \in Shell /\ Len(queue) <= MaxQueue
        /\ queue # <<>> /\ sockets[v].at = "open"
        /\ InTurn(sockets[v].got, queue) /\ UpTo(sockets[v].got, queue, shells[t].emitted)
        /\ ExitsLast(queue, shells[t].ended)
    BY DEF SendEvent, TerminalInv, Watches
  <2>2. /\ queue \in Seq(Event) /\ sockets[v].got \in Seq(Nat)
        /\ shells[t].emitted \in Nat /\ shells[t].ended \in BOOLEAN
    BY <2>1 DEF Socket, Shell
  <2>3. had \in Seq(Nat) /\ Tail(queue) \in Seq(Event) /\ Len(Tail(queue)) <= Len(queue)
        /\ InTurn(had, Tail(queue)) /\ UpTo(had, Tail(queue), shells[t].emitted)
        /\ ExitsLast(Tail(queue), shells[t].ended)
    BY <1>2, <2>1, <2>2, FirstGoesOut
  <2>4. Len(Tail(queue)) <= MaxQueue
    BY <2>1, <2>2, <2>3, TerminalAssumption
  <2>5. sockets' = [sockets EXCEPT ![v] = d] /\ UNCHANGED <<shells, sessions, reaping>>
    BY <1>2 DEF SendEvent
  <2> HIDE DEF had
  <2>6. d \in Socket /\ d.at = "open" /\ d.shell = t /\ d.queue = Tail(queue) /\ d.got = had
    BY <2>1, <2>3 DEF Socket
  <2> HIDE DEF d
  <2>7. Watches(d, shells)
    BY <2>1, <2>3, <2>4, <2>6 DEF Watches
  <2> QED BY <2>5, <2>7, SocketKeepsTerminals, SameStays DEF TerminalInv
<1> QED BY <1>1, <1>2

\* The steps that only change a shell: input, its process, the passing of time.
LEMMA OwnStepsKeepTerminals ==
    ASSUME TerminalInv,
           \/ \E v \in Viewers : Type(v)
           \/ \E t \in DOMAIN shells : ShellWrites(t) \/ ShellEnds(t) \/ GoIdle(t)
    PROVE  TerminalInv'
<1>1. \A t \in DOMAIN shells : shells[t] \in Shell
  BY DEF TerminalInv
<1>2. PICK t \in DOMAIN shells, s \in Shell :
          /\ shells' = [shells EXCEPT ![t] = s] /\ s.emitted = shells[t].emitted /\ s.ended = shells[t].ended
          /\ UNCHANGED <<sessions, sockets, reaping>>
  <2>1. CASE \E v \in Viewers : Type(v)
    <3>1. PICK v \in Viewers : Type(v)
      BY <2>1
    <3> DEFINE t == sockets[v].shell
               s == [shells[t] EXCEPT !.idle = FALSE]
    <3>2. t \in DOMAIN shells
      BY <3>1 DEF Type, TerminalInv, Watches
    <3>3. s \in Shell /\ s.emitted = shells[t].emitted /\ s.ended = shells[t].ended
      BY <1>1, <3>2 DEF Shell
    <3>4. shells' = [shells EXCEPT ![t] = s] /\ UNCHANGED <<sessions, sockets, reaping>>
      BY <3>1 DEF Type
    <3> QED BY <3>2, <3>3, <3>4
  <2>2. CASE \E t \in DOMAIN shells : ShellWrites(t)
    <3>1. PICK t \in DOMAIN shells : ShellWrites(t)
      BY <2>2
    <3> DEFINE s == [shells[t] EXCEPT !.unread = @ + 1]
    <3>2. s \in Shell /\ s.emitted = shells[t].emitted /\ s.ended = shells[t].ended
      BY <1>1 DEF Shell
    <3>3. shells' = [shells EXCEPT ![t] = s] /\ UNCHANGED <<sessions, sockets, reaping>>
      BY <3>1 DEF ShellWrites
    <3> QED BY <3>2, <3>3
  <2>3. CASE \E t \in DOMAIN shells : ShellEnds(t)
    <3>1. PICK t \in DOMAIN shells : ShellEnds(t)
      BY <2>3
    <3> DEFINE s == [shells[t] EXCEPT !.alive = FALSE]
    <3>2. s \in Shell /\ s.emitted = shells[t].emitted /\ s.ended = shells[t].ended
      BY <1>1 DEF Shell
    <3>3. shells' = [shells EXCEPT ![t] = s] /\ UNCHANGED <<sessions, sockets, reaping>>
      BY <3>1 DEF ShellEnds
    <3> QED BY <3>2, <3>3
  <2>4. CASE \E t \in DOMAIN shells : GoIdle(t)
    <3>1. PICK t \in DOMAIN shells : GoIdle(t)
      BY <2>4
    <3> DEFINE s == [shells[t] EXCEPT !.idle = TRUE]
    <3>2. s \in Shell /\ s.emitted = shells[t].emitted /\ s.ended = shells[t].ended
      BY <1>1 DEF Shell
    <3>3. shells' = [shells EXCEPT ![t] = s] /\ UNCHANGED <<sessions, sockets, reaping>>
      BY <3>1 DEF GoIdle
    <3> QED BY <3>2, <3>3
  <2> QED BY <2>1, <2>2, <2>3, <2>4
<1> QED BY <1>2, ShellKeepsTerminals

LEMMA ConnectKeepsTerminals ==
    ASSUME TerminalInv, NEW v \in Viewers, NEW k \in Keys, Connect(v, k)
    PROVE  TerminalInv'
<1>1. Listed \in [Keys -> 0..Len(shells)] /\ Len(shells) \in Nat /\ DOMAIN shells = 1..Len(shells)
  BY DEF TerminalInv, Listed, NoShell
<1>2. /\ sockets[v] \in Socket /\ sockets[v].at = "idle" /\ sockets[v].queue = <<>>
      /\ sockets[v] \in Socket /\ UNCHANGED reaping
  BY DEF Connect, TerminalInv, Watches
<1>3. CASE Refuse(v) /\ sessions' = Listed /\ UNCHANGED shells
  <2>1. sockets' = [sockets EXCEPT ![v] = ClosedSocket] /\ ClosedSocket \in Socket
    BY <1>3, ClosedWatches DEF Refuse, Watches
  <2>2. sockets' \in [Viewers -> Socket]
    BY <2>1 DEF TerminalInv
  <2>3. \A w \in Viewers : Watches(sockets'[w], shells')
    <3> TAKE w \in Viewers
    <3>1. CASE w = v
      BY <2>1, <3>1, ClosedWatches DEF TerminalInv
    <3>2. CASE w # v
      BY <2>1, <3>2, <1>3 DEF TerminalInv
    <3> QED BY <3>1, <3>2
  <2> QED BY <1>1, <1>2, <1>3, <2>2, <2>3 DEF TerminalInv
<1>4. CASE /\ shells' = IF Known(k) THEN shells ELSE Append(shells, NewShell)
           /\ sessions' = [Listed EXCEPT ![k] = IF Known(k) THEN @ ELSE Len(shells) + 1]
           /\ sockets' = [sockets EXCEPT ![v].at = "preparing", ![v].shell = sessions'[k],
                             ![v].got = <<shells'[sessions'[k]].emitted>>]
  <2>1. NewShell \in Shell
    BY DEF NewShell, Shell
  <2>2. /\ shells' \in Seq(Shell) /\ Len(shells) <= Len(shells') /\ SameOutput(shells, shells')
        /\ Len(shells') \in Nat /\ DOMAIN shells' = 1..Len(shells')
        /\ sessions' \in [Keys -> 0..Len(shells')] /\ sessions'[k] \in DOMAIN shells'
    <3>1. CASE Known(k)
      <4>1. Listed[k] = sessions[k] /\ sessions[k] \in 1..Len(shells)
        BY <3>1 DEF Listed, Known, NoShell, TerminalInv
      <4>2. shells' = shells /\ sessions' = [Listed EXCEPT ![k] = Listed[k]]
        BY <1>4, <3>1
      <4>3. sessions' \in [Keys -> 0..Len(shells)] /\ sessions'[k] = sessions[k]
        BY <1>1, <4>1, <4>2
      <4> QED BY <1>1, <4>1, <4>2, <4>3, SameStays DEF TerminalInv
    <3>2. CASE ~Known(k)
      <4>1. shells' = Append(shells, NewShell) /\ sessions' = [Listed EXCEPT ![k] = Len(shells) + 1]
        BY <1>4, <3>2
      <4>2. /\ shells' \in Seq(Shell) /\ Len(shells') = Len(shells) + 1 /\ DOMAIN shells' = 1..(Len(shells) + 1)
            /\ \A u \in 1..Len(shells) : shells'[u] = shells[u]
        BY <2>1, <4>1, AppendProperties DEF TerminalInv
      <4>3. SameOutput(shells, shells')
        BY <4>2, <1>1 DEF SameOutput
      <4>4. sessions' \in [Keys -> 0..(Len(shells) + 1)] /\ sessions'[k] = Len(shells) + 1
        <5>1. 0..Len(shells) \subseteq 0..(Len(shells) + 1) /\ Len(shells) + 1 \in 0..(Len(shells) + 1)
          BY <1>1
        <5> QED BY <1>1, <4>1, <5>1
      <4> QED BY <1>1, <4>2, <4>3, <4>4
    <3> QED BY <3>1, <3>2
  <2>3. shells'[sessions'[k]].emitted \in Nat
    <3>1. shells'[sessions'[k]] \in Shell
      BY <2>2
    <3> QED BY <3>1 DEF Shell
  <2>4. PICK t \in Nat, n \in Nat : t = sessions'[k] /\ n = shells'[t].emitted /\ t \in DOMAIN shells'
    BY <2>2, <2>3
  <2>5. PICK c : c = [sockets[v] EXCEPT !.at = "preparing", !.shell = t, !.got = <<n>>]
    OBVIOUS
  <2>6. sockets' = [sockets EXCEPT ![v] = c]
    <3>1. sockets' = [sockets EXCEPT ![v].at = "preparing", ![v].shell = t, ![v].got = <<n>>]
      BY <1>4, <2>4
    <3> QED BY <2>5, <3>1
  <2>7. c \in Socket /\ c.at = "preparing" /\ c.shell = t /\ c.queue = <<>>
    <3>1. <<n>> \in Seq(Nat)
      OBVIOUS
    <3> QED BY <3>1, <1>2, <2>4, <2>5 DEF Socket
  <2>8. Watches(c, shells')
    BY <2>4, <2>7, TerminalAssumption DEF Watches
  <2>9. sockets' \in [Viewers -> Socket]
    BY <2>6, <2>7 DEF TerminalInv
  <2>10. \A w \in Viewers : Watches(sockets'[w], shells')
    <3> TAKE w \in Viewers
    <3>1. CASE w = v
      BY <2>6, <2>8, <3>1 DEF TerminalInv
    <3>2. CASE w # v
      <4>1. sockets'[w] = sockets[w]
        BY <2>6, <3>2 DEF TerminalInv
      <4> QED BY <4>1, <2>2, StillWatches DEF TerminalInv
    <3> QED BY <3>1, <3>2
  <2>11. reaping' \in Seq([key : Keys, shell : DOMAIN shells'])
    <3>1. DOMAIN shells \subseteq DOMAIN shells'
      BY <1>1, <2>2
    <3>2. [key : Keys, shell : DOMAIN shells] \subseteq [key : Keys, shell : DOMAIN shells']
      BY <3>1
    <3> QED BY <1>2, <3>2, SeqMonotonic DEF TerminalInv
  <2> QED BY <2>2, <2>9, <2>10, <2>11 DEF TerminalInv
<1> QED BY <1>3, <1>4, Zenon DEF Connect

\* What is offered to all that watch a shell.
LEMMA OfferedKeepsTerminals ==
    ASSUME TerminalInv, NEW t \in DOMAIN shells, NEW s \in Shell, NEW events,
           shells' = [shells EXCEPT ![t] = s], sockets' = OfferedToAll(t, events),
           \A c : Watches(c, shells) /\ c.at = "open" /\ c.shell = t => Watches(Offered(c, events), shells'),
           UNCHANGED <<sessions, reaping>>
    PROVE  TerminalInv'
<1>1. /\ shells' \in Seq(Shell) /\ Len(shells') = Len(shells) /\ DOMAIN shells' = DOMAIN shells
      /\ shells'[t] = s /\ \A u \in DOMAIN shells : u # t => shells'[u] = shells[u]
  BY OneShell DEF TerminalInv
<1>2. \A w \in Viewers : Watches(sockets'[w], shells')
  <2> TAKE w \in Viewers
  <2>1. CASE sockets[w].at = "open" /\ sockets[w].shell = t
    <3>1. sockets'[w] = Offered(sockets[w], events)
      BY <2>1 DEF OfferedToAll, Clients
    <3> QED BY <2>1, <3>1 DEF TerminalInv
  <2>2. CASE ~(sockets[w].at = "open" /\ sockets[w].shell = t)
    <3>1. sockets'[w] = sockets[w]
      BY <2>2 DEF OfferedToAll, Clients
    <3>2. Watches(sockets[w], shells)
      BY DEF TerminalInv
    <3>3. Watches(sockets[w], shells')
      BY <3>2, <2>2, <1>1 DEF Watches
    <3> QED BY <3>1, <3>3
  <2> QED BY <2>1, <2>2
<1>3. sockets' \in [Viewers -> Socket]
  <2>1. \A w \in Viewers : sockets'[w] \in Socket
    BY <1>2 DEF Watches
  <2>2. sockets' = [w \in Viewers |-> sockets'[w]]
    BY DEF OfferedToAll
  <2> QED BY <2>1, <2>2
<1> QED BY <1>1, <1>2, <1>3 DEF TerminalInv

LEMMA ReadKeepsTerminals ==
    ASSUME TerminalInv, NEW t \in DOMAIN shells, Read(t)
    PROVE  TerminalInv'
<1> DEFINE s == [shells[t] EXCEPT !.unread = @ - 1, !.emitted = @ + 1, !.idle = FALSE]
           events == <<Output(<<shells[t].emitted + 1>>)>>
<1>1. shells[t] \in Shell /\ shells[t].unread > 0 /\ shells[t].ended = FALSE
  <2>1. shells[t] \in Shell /\ shells[t].unread > 0 /\ ~shells[t].ended
    BY DEF TerminalInv, Read, MayRead
  <2>2. shells[t].ended \in BOOLEAN
    BY <2>1 DEF Shell
  <2> QED BY <2>1, <2>2, Zenon
<1>2. s \in Shell /\ s.emitted = shells[t].emitted + 1 /\ s.ended = FALSE /\ shells[t].emitted \in Nat
  <2>1. /\ shells[t].unread \in Nat /\ shells[t].unread - 1 \in Nat
        /\ shells[t].emitted \in Nat /\ shells[t].emitted + 1 \in Nat
    BY <1>1 DEF Shell
  <2>2. s \in Shell /\ s.emitted = shells[t].emitted + 1 /\ s.ended = shells[t].ended
    BY <1>1, <2>1 DEF Shell
  <2> QED BY <1>1, <2>1, <2>2, Zenon
<1>3. shells' = [shells EXCEPT ![t] = s] /\ sockets' = OfferedToAll(t, events) /\ UNCHANGED <<sessions, reaping>>
  BY DEF Read
<1> HIDE DEF s
<1>4. t \in DOMAIN shells' /\ shells'[t] = s
  BY <1>2, <1>3, OneShell DEF TerminalInv
<1>5. \A c : Watches(c, shells) /\ c.at = "open" /\ c.shell = t => Watches(Offered(c, events), shells')
  BY <1>1, <1>2, <1>4, ChunkKeepsWatching
<1> HIDE DEF events
<1> QED BY <1>2, <1>3, <1>5, OfferedKeepsTerminals

EndsAs(x, s, n, b) == s = [x EXCEPT !.ended = TRUE, !.unread = 0, !.emitted = n, !.idle = b]

LEMMA EndedShell ==
    ASSUME NEW x \in Shell, NEW n \in Nat, NEW b \in BOOLEAN, NEW s, EndsAs(x, s, n, b)
    PROVE  s \in Shell /\ s.emitted = n /\ s.ended
BY DEF Shell, EndsAs

LEMMA WatchedKeepsTerminals ==
    ASSUME TerminalInv, NEW t \in DOMAIN shells, Watched(t)
    PROVE  TerminalInv'
<1>1. shells[t] \in Shell /\ shells[t].ended = FALSE
  <2>1. shells[t] \in Shell /\ ~shells[t].ended
    BY DEF TerminalInv, Watched
  <2>2. shells[t].ended \in BOOLEAN
    BY <2>1 DEF Shell
  <2> QED BY <2>1, <2>2, Zenon
<1>2. PICK chunk \in Seq(Event), s \in Shell :
          /\ \/ chunk = <<>> /\ s.emitted = shells[t].emitted
             \/ chunk = <<Output(<<shells[t].emitted + 1>>)>> /\ s.emitted = shells[t].emitted + 1
          /\ s.ended
          /\ shells' = [shells EXCEPT ![t] = s] /\ sockets' = OfferedToAll(t, chunk \o <<Exit>>)
  <2>1. shells[t].emitted \in Nat /\ shells[t].emitted + 1 \in Nat /\ shells[t].idle \in BOOLEAN
    BY <1>1 DEF Shell
  <2>2. CASE MayRead(t)
    <3>1. PICK n \in Nat, chunk \in Seq(Event) : n = shells[t].emitted + 1 /\ chunk = <<Output(<<n>>)>>
      <4>1. <<shells[t].emitted + 1>> \in Seq(Nat)
        BY <2>1
      <4>2. Output(<<shells[t].emitted + 1>>) \in Event
        BY <4>1 DEF Output, Event
      <4>3. <<Output(<<shells[t].emitted + 1>>)>> \in Seq(Event)
        BY <4>2
      <4> QED BY <2>1, <4>3
    <3>2. PICK s : EndsAs(shells[t], s, n, FALSE)
      BY DEF EndsAs
    <3>3. s \in Shell /\ s.emitted = n /\ s.ended
      BY <1>1, <3>2, EndedShell
    <3>4. shells' = [shells EXCEPT ![t] = s]
      BY <2>2, <3>1, <3>2 DEF Watched, EndsAs
    <3>5. sockets' = OfferedToAll(t, chunk \o <<Exit>>)
      BY <2>2, <3>1 DEF Watched
    <3>6. chunk = <<Output(<<shells[t].emitted + 1>>)>> /\ s.emitted = shells[t].emitted + 1
      BY <3>1, <3>3
    <3> QED BY <3>3, <3>4, <3>5, <3>6, Zenon
  <2>3. CASE ~MayRead(t)
    <3>1. PICK n \in Nat, b \in BOOLEAN, chunk \in Seq(Event) : n = shells[t].emitted /\ b = shells[t].idle /\ chunk = <<>>
      <4>1. <<>> \in Seq(Event)
        OBVIOUS
      <4> QED BY <2>1, <4>1
    <3>2. PICK s : EndsAs(shells[t], s, n, b)
      BY DEF EndsAs
    <3>3. s \in Shell /\ s.emitted = n /\ s.ended
      BY <1>1, <3>2, EndedShell
    <3>4. n + 0 = n
      OBVIOUS
    <3>5. shells' = [shells EXCEPT ![t].ended = TRUE, ![t].unread = 0, ![t].emitted = @ + 0, ![t].idle = @]
      BY <2>3 DEF Watched
    <3>6. shells' = [shells EXCEPT ![t] = s]
      <4>1. [shells[t] EXCEPT !.ended = TRUE, !.unread = 0, !.emitted = @ + 0, !.idle = @] = s
        BY <1>1, <3>1, <3>2, <3>4 DEF EndsAs, Shell
      <4> QED BY <3>5, <4>1
    <3>7. sockets' = OfferedToAll(t, chunk \o <<Exit>>)
      BY <2>3, <3>1 DEF Watched
    <3>8. s.emitted = shells[t].emitted
      BY <3>1, <3>3
    <3> QED BY <3>1, <3>3, <3>6, <3>7, <3>8, Zenon
  <2> QED BY <2>2, <2>3
<1>3. shells[t].emitted \in Nat
  BY <1>1 DEF Shell
<1>4. UNCHANGED <<sessions, reaping>>
  BY DEF Watched
<1>5. t \in DOMAIN shells' /\ shells'[t] = s
  BY <1>2, OneShell DEF TerminalInv
<1>6. \/ chunk = <<>> /\ shells'[t].emitted = shells[t].emitted
      \/ chunk = <<Output(<<shells[t].emitted + 1>>)>> /\ shells'[t].emitted = shells[t].emitted + 1
  BY <1>2, <1>5
<1>7. \A c : Watches(c, shells) /\ c.at = "open" /\ c.shell = t => Watches(Offered(c, chunk \o <<Exit>>), shells')
  <2> TAKE c
  <2> HAVE Watches(c, shells) /\ c.at = "open" /\ c.shell = t
  <2>1. s.ended \in BOOLEAN
    BY DEF Shell
  <2>2. shells'[t].ended = TRUE
    BY <2>1, <1>2, <1>5, Zenon
  <2>3. shells[t].ended = FALSE
    BY <1>1
  <2> QED BY <2>2, <2>3, <1>3, <1>5, <1>6, ExitKeepsWatching, Zenon
<1>8. PICK events : events = chunk \o <<Exit>>
  OBVIOUS
<1>9. \A c : Watches(c, shells) /\ c.at = "open" /\ c.shell = t => Watches(Offered(c, events), shells')
  BY <1>7, <1>8
<1>10. sockets' = OfferedToAll(t, events)
  BY <1>2, <1>8
<1> QED BY <1>2, <1>4, <1>9, <1>10, OfferedKeepsTerminals

\* The rounds of reap().
LEMMA ReapKeepsTerminals ==
    ASSUME TerminalInv, BeginReap \/ ReapNext \/ ReapCloses
    PROVE  TerminalInv'
<1> DEFINE Taken == [key : Keys, shell : DOMAIN shells]
<1>1. reaping \in Seq(Taken) /\ Len(shells) \in Nat /\ DOMAIN shells = 1..Len(shells)
  BY DEF TerminalInv
<1>2. ASSUME reaping # <<>>
      PROVE  Tail(reaping) \in Seq(Taken) /\ Head(reaping).key \in Keys /\ Head(reaping).shell \in DOMAIN shells
  <2> HIDE DEF Taken
  <2>1. Head(reaping) \in Taken /\ Tail(reaping) \in Seq(Taken)
    BY <1>1, <1>2
  <2> USE DEF Taken
  <2> QED BY <2>1
<1>3. CASE BeginReap
  <2> DEFINE Held == {k \in Keys : sessions[k] # NoShell}
  <2>1. PICK keys \in SetToSeqs(Held) :
            reaping' = [i \in DOMAIN keys |-> [key |-> keys[i], shell |-> sessions[keys[i]]]]
    BY <1>3 DEF BeginReap
  <2>2. Cardinality(Held) \in Nat
    BY TerminalAssumption, FS_Subset, FS_CardinalityType
  <2>3. keys \in [1..Cardinality(Held) -> Held]
    BY <2>1 DEF SetToSeqs
  <2>4. \A i \in 1..Cardinality(Held) : [key |-> keys[i], shell |-> sessions[keys[i]]] \in Taken
    <3> TAKE i \in 1..Cardinality(Held)
    <3>1. keys[i] \in Keys /\ sessions[keys[i]] # NoShell
      BY <2>3
    <3>2. sessions[keys[i]] \in DOMAIN shells
      BY <3>1, <1>1 DEF TerminalInv, NoShell
    <3> QED BY <3>1, <3>2
  <2> HIDE DEF Taken
  <2>5. reaping' \in [1..Cardinality(Held) -> Taken]
    BY <2>1, <2>3, <2>4
  <2> HIDE DEF Held
  <2>6. reaping' \in Seq(Taken)
    BY <2>2, <2>5, IsASeq
  <2> QED BY <1>3, <2>6 DEF BeginReap, TerminalInv, Taken
<1>4. CASE ReapNext
  <2> DEFINE t == Head(reaping).shell
  <2>1. reaping # <<>>
    BY <1>4 DEF ReapNext
  <2>2. Head(reaping).key \in Keys /\ t \in DOMAIN shells /\ shells[t] \in Shell /\ Tail(reaping) \in Seq(Taken)
    BY <2>1, <1>2 DEF TerminalInv
  <2>3. CASE shells[t].idle
    <3> DEFINE s == [shells[t] EXCEPT !.closing = TRUE]
    <3>1. s \in Shell /\ s.emitted = shells[t].emitted /\ s.ended = shells[t].ended
      BY <2>2 DEF Shell
    <3>2. /\ shells' = [shells EXCEPT ![t] = s] /\ UNCHANGED <<sockets, reaping>>
          /\ sessions' = [sessions EXCEPT ![Head(reaping).key] = NoShell]
      BY <1>4, <2>3 DEF ReapNext
    <3> HIDE DEF s
    <3>3. /\ shells' \in Seq(Shell) /\ Len(shells') = Len(shells) /\ DOMAIN shells' = DOMAIN shells
          /\ SameOutput(shells, shells')
      BY <2>2, <3>1, <3>2, OneShell DEF TerminalInv, SameOutput
    <3>4. \A v \in Viewers : Watches(sockets[v], shells')
      BY <3>3, StillWatches DEF TerminalInv
    <3>5. sessions' \in [Keys -> 0..Len(shells)]
      BY <2>2, <3>2, <1>1 DEF TerminalInv, NoShell
    <3> QED BY <3>2, <3>3, <3>4, <3>5 DEF TerminalInv
  <2>4. CASE ~shells[t].idle
    BY <1>4, <2>2, <2>4 DEF ReapNext, TerminalInv
  <2> QED BY <2>3, <2>4
<1>5. CASE ReapCloses
  <2> DEFINE t == Head(reaping).shell
  <2>1. Tail(reaping) \in Seq(Taken) /\ reaping' = Tail(reaping) /\ UNCHANGED <<shells, sessions>>
    BY <1>2, <1>5 DEF ReapCloses
  <2>2. ClosedSocket \in Socket /\ Watches(ClosedSocket, shells)
    BY ClosedWatches DEF Watches
  <2>3. \A v \in Viewers : sockets'[v] = ClosedSocket \/ sockets'[v] = sockets[v]
    BY <1>5 DEF ReapCloses
  <2>4. sockets' = [v \in Viewers |-> sockets'[v]]
    BY <1>5 DEF ReapCloses
  <2>5. \A v \in Viewers : sockets'[v] \in Socket /\ Watches(sockets'[v], shells)
    BY <2>2, <2>3 DEF TerminalInv
  <2>6. sockets' \in [Viewers -> Socket]
    BY <2>4, <2>5
  <2> QED BY <2>1, <2>5, <2>6 DEF TerminalInv
<1> QED BY <1>3, <1>4, <1>5

\* Every handler keeps it, so a socket that is open is told the output of its shell.
THEOREM TerminalInvariant == TerminalSpec => []TerminalInv
<1>1. TerminalInit => TerminalInv
  <2> SUFFICES ASSUME TerminalInit PROVE TerminalInv
    OBVIOUS
  <2>1. shells \in Seq(Shell) /\ Len(shells) = 0 /\ reaping \in Seq([key : Keys, shell : DOMAIN shells])
    BY DEF TerminalInit
  <2>2. sessions \in [Keys -> 0..Len(shells)]
    BY <2>1 DEF TerminalInit, NoShell
  <2>3. sockets \in [Viewers -> Socket] /\ \A v \in Viewers : Watches(sockets[v], shells)
    BY ClosedWatches DEF TerminalInit, Watches
  <2> QED BY <2>1, <2>2, <2>3 DEF TerminalInv
<1>2. TerminalInv /\ [TerminalNext]_terminalVars => TerminalInv'
  <2> SUFFICES ASSUME TerminalInv, [TerminalNext]_terminalVars PROVE TerminalInv'
    OBVIOUS
  <2>1. ASSUME NEW v \in Viewers, LeaveTerminal(v) PROVE TerminalInv'
    BY <2>1, StopKeepsTerminals DEF LeaveTerminal
  <2>2. CASE UNCHANGED terminalVars
    BY <2>2 DEF terminalVars, TerminalInv, Watches
  <2> QED BY <2>1, <2>2, AttachKeepsTerminals, SendKeepsTerminals, ConnectKeepsTerminals, OwnStepsKeepTerminals,
             ReadKeepsTerminals, WatchedKeepsTerminals, ReapKeepsTerminals, Zenon DEF TerminalNext
<1> QED BY <1>1, <1>2, PTL DEF TerminalSpec

\* A web socket of a terminal gets the output of its shell from some chunk on, in order,
\* none twice and none left out, and then its exit, whatever the shell, the other sockets
\* and reap() do while it is opened.
THEOREM ViewersSee == TerminalSpec => []ViewersSeeAll
<1>1. TerminalInv => ViewersSeeAll
  BY DEF TerminalInv, Watches, ViewersSeeAll
<1> QED BY <1>1, TerminalInvariant, PTL
=============================================================================
