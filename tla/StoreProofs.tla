---------------------------- MODULE StoreProofs -----------------------------
(***************************************************************************)
(* Proofs about the stores, for any devices, agents, nonces and calls.     *)
(*                                                                         *)
(* Edits of several devices (EditsConverge): a put replaces the whole      *)
(* value.  What keeps the edits is that a put which is not refused was     *)
(* computed from the value it replaces: the etag grows with every version, *)
(* so a device whose etag is the current one has read the current value    *)
(* (ReadIsCurrent).                                                        *)
(*                                                                         *)
(* The directory of agents (AgentsAreWhole): every agent that is not being *)
(* deleted is in one of four stages, and each says who may be writing its  *)
(* files and what they are worth (Stage).                                  *)
(*                                                                         *)
(* The acceptance ledger (SentOncePerNonce): a nonce has one holder at a   *)
(* time; the records in memory account for its dispatches, the snapshot of *)
(* a write for those that will have happened when it is done, and the file *)
(* for those after a restart (MemoryAccounts, FileAccounts).               *)
(*                                                                         *)
(* The transcript (AcknowledgedEntriesStay): as long as no write collided  *)
(* with a rewrite, a rewrite is the only write under way and the store is  *)
(* what it writes (RewriteIsAlone), and the entries in the file, those on  *)
(* their way to it and the fresh ones are apart (EntriesAreApart).         *)
(*                                                                         *)
(* Automations (FiresWhatIsDue): as long as no load or restart lost a      *)
(* change, the store agrees with what users asked for and runs have done   *)
(* (Told), and so do the snapshot of a sweep, but for the one that was     *)
(* just dispatched (SweepIsTold), and the file that is yet to be read      *)
(* (FileIsTold).                                                           *)
(***************************************************************************)
EXTENDS StoreSync, AgentFiles, SendLedger, TranscriptFile, Automations, FilterProofs

-----------------------------------------------------------------------------
(* agent-store-sync.ts                                                       *)

SyncSpec == SyncInit /\ [][SyncNext]_syncVars

DeviceStates ==
    [at : {"rest", "task", "get", "put"}, etag : Nat, local : SUBSET Nat, edit : Nat,
     tries : {0, 1}, locked : BOOLEAN]

SyncTyped ==
    /\ remote \in [etag : Nat, value : SUBSET Nat, lock : SUBSET Devices, lapsed : BOOLEAN]
    /\ devices \in [Devices -> DeviceStates]
    /\ synced \in [edits : SUBSET Nat, updates : Nat, overrun : SUBSET Devices]

\* Nobody holds an etag that was not handed out yet.
EtagsAreOld == \A d \in Devices : devices[d].etag <= remote.etag

\* The local value has the edit of its device from the first mutation on.
OwnEditIsIn ==
    \A d \in Devices :
        devices[d].at = "put" \/ (devices[d].at = "get" /\ devices[d].tries = 1)
          => devices[d].edit \in devices[d].local

\* A device about to put on the current version has that version in its value.
ReadIsCurrent ==
    Merging => \A d \in Devices :
        devices[d].at = "put" /\ devices[d].etag = remote.etag => remote.value \subseteq devices[d].local

SyncInv == SyncTyped /\ EtagsAreOld /\ OwnEditIsIn /\ ReadIsCurrent /\ EditsConverge

-----------------------------------------------------------------------------

\* A device that ends an update is at rest, or back in its task, and keeps no etag.
LEMMA EndedTyped ==
    ASSUME NEW d \in Devices, SyncTyped
    PROVE  Ended(d) \in DeviceStates /\ Ended(d).etag = 0 /\ Ended(d).at \in {"rest", "task"}
  BY DEF SyncTyped, DeviceStates, Ended, Resting

\* A step that moves one device, adds no version and acknowledges nothing keeps the
\* invariant if the device still has its edit and read what it is about to replace.
LEMMA OneDeviceMoves ==
    ASSUME NEW d \in Devices, NEW v \in DeviceStates, SyncInv,
           devices' = [devices EXCEPT ![d] = v],
           remote' \in [etag : {remote.etag}, value : {remote.value}, lock : SUBSET Devices,
                        lapsed : BOOLEAN],
           synced' \in [edits : {synced.edits}, updates : Nat, overrun : SUBSET Devices],
           v.etag <= remote.etag,
           v.at = "put" \/ (v.at = "get" /\ v.tries = 1) => v.edit \in v.local,
           Merging /\ v.at = "put" /\ v.etag = remote.etag => remote.value \subseteq v.local
    PROVE  SyncInv'
  <1>1. remote'.etag = remote.etag /\ remote'.value = remote.value /\ synced'.edits = synced.edits
    OBVIOUS
  <1>2. remote.etag \in Nat /\ remote.value \in SUBSET Nat /\ synced.edits \in SUBSET Nat
    BY DEF SyncInv, SyncTyped
  <1>3. SyncTyped'
    BY <1>2 DEF SyncInv, SyncTyped
  <1>4. ASSUME NEW e \in Devices PROVE devices'[e] = IF e = d THEN v ELSE devices[e]
    BY DEF SyncInv, SyncTyped
  <1>5. EtagsAreOld'
    BY <1>1, <1>4 DEF SyncInv, EtagsAreOld
  <1>6. OwnEditIsIn'
    BY <1>4 DEF SyncInv, OwnEditIsIn
  <1>7. ReadIsCurrent'
    BY <1>1, <1>4 DEF SyncInv, ReadIsCurrent
  <1>8. EditsConverge'
    BY <1>1 DEF SyncInv, EditsConverge
  <1>9. QED
    BY <1>3, <1>5, <1>6, <1>7, <1>8 DEF SyncInv

\* The device that rests, or has its lock.
LEMMA RestTyped ==
    /\ Resting \in DeviceStates /\ Resting.etag = 0 /\ Resting.at = "rest"
    /\ [Resting EXCEPT !.at = "task", !.locked = TRUE] \in DeviceStates
    /\ [Resting EXCEPT !.at = "task", !.locked = TRUE].etag = 0
    /\ [Resting EXCEPT !.at = "task", !.locked = TRUE].at = "task"
  BY DEF Resting, DeviceStates

\* The lock, its lapse and its release touch no value.
LEMMA LockStepsKeepSyncInv ==
    ASSUME SyncInv, \/ LockLapses \/ \E d \in Devices : Lock(d) \/ Unlock(d)
    PROVE  SyncInv'
  <1> USE DEF SyncInv, SyncTyped
  <1>1. CASE LockLapses
    BY <1>1 DEF LockLapses, EtagsAreOld, OwnEditIsIn, ReadIsCurrent, EditsConverge
  <1>2. ASSUME NEW d \in Devices, Lock(d) PROVE SyncInv'
    <2> DEFINE v == [Resting EXCEPT !.at = "task", !.locked = TRUE]
    <2>1. v \in DeviceStates /\ v.etag = 0 /\ v.at = "task"
      BY RestTyped
    <2> HIDE DEF v
    <2>2. /\ devices' = [devices EXCEPT ![d] = v]
          /\ remote' = [remote EXCEPT !.lock = {d}, !.lapsed = FALSE]
          /\ synced' = [synced EXCEPT !.overrun = @ \cup remote.lock]
      BY <1>2 DEF Lock, v
    <2>3. /\ remote' \in [etag : {remote.etag}, value : {remote.value}, lock : SUBSET Devices,
                           lapsed : BOOLEAN]
          /\ synced' \in [edits : {synced.edits}, updates : Nat, overrun : SUBSET Devices]
      BY <2>2
    <2>4. v.etag <= remote.etag
      BY <2>1
    <2>5. QED
      BY <2>1, <2>2, <2>3, <2>4, OneDeviceMoves
  <1>3. ASSUME NEW d \in Devices, Unlock(d) PROVE SyncInv'
    <2>1. /\ devices' = [devices EXCEPT ![d] = Resting]
          /\ remote' = [remote EXCEPT !.lock = remote.lock \ {d}, !.lapsed = @ /\ remote.lock \ {d} # {}]
          /\ synced' = [synced EXCEPT !.overrun = @ \ {d}]
      BY <1>3 DEF Unlock, Released
    <2>2. /\ remote' \in [etag : {remote.etag}, value : {remote.value}, lock : SUBSET Devices,
                           lapsed : BOOLEAN]
          /\ synced' \in [edits : {synced.edits}, updates : Nat, overrun : SUBSET Devices]
      BY <2>1
    <2>3. Resting.etag <= remote.etag
      BY RestTyped
    <2>4. QED
      BY <2>1, <2>2, <2>3, RestTyped, OneDeviceMoves
  <1>4. QED
    BY <1>1, <1>2, <1>3

\* update() begins with a new edit and no local value to rely on.
LEMMA BeginKeepsSyncInv ==
    ASSUME NEW d \in Devices, SyncInv, BeginUpdate(d)
    PROVE  SyncInv'
  <1>1. PICK n \in Nat : n = synced.updates + 1
    BY DEF SyncInv, SyncTyped
  <1> DEFINE v == [devices[d] EXCEPT !.at = "get", !.edit = n, !.tries = 0]
  <1>2. v \in DeviceStates /\ v.at = "get" /\ v.tries = 0 /\ v.etag = devices[d].etag
    BY ZenonT(30), SMTT(30) DEF DeviceStates, SyncInv, SyncTyped
  <1>3. devices' = [devices EXCEPT ![d] = v]
    BY <1>1 DEF BeginUpdate
  <1> HIDE DEF v
  <1>4. /\ remote' \in [etag : {remote.etag}, value : {remote.value}, lock : SUBSET Devices,
                         lapsed : BOOLEAN]
        /\ synced' \in [edits : {synced.edits}, updates : Nat, overrun : SUBSET Devices]
    BY DEF BeginUpdate, SyncInv, SyncTyped
  <1>5. v.etag <= remote.etag
    BY <1>2 DEF SyncInv, EtagsAreOld
  <1>6. ~(v.at = "put") /\ ~(v.at = "get" /\ v.tries = 1)
    BY <1>2
  <1>7. QED
    BY <1>2, <1>3, <1>4, <1>5, <1>6, OneDeviceMoves

\* What get() answers is merged with what the device has.
LEMMA GotKeepsSyncInv ==
    ASSUME NEW d \in Devices, SyncInv, Got(d)
    PROVE  SyncInv'
  <1> DEFINE v == [devices[d] EXCEPT !.at = "put", !.etag = remote.etag, !.local = Combined(d)]
  <1>1. devices[d] \in DeviceStates /\ remote.etag \in Nat /\ remote.value \in SUBSET Nat
    BY DEF SyncInv, SyncTyped
  <1>2. /\ Combined(d) \in SUBSET Nat /\ devices[d].edit \in Combined(d)
        /\ Merging => remote.value \subseteq Combined(d)
    BY <1>1 DEF Got, Combined, SyncInv, OwnEditIsIn, DeviceStates
  <1>3. /\ v \in DeviceStates /\ v.at = "put" /\ v.etag = remote.etag
        /\ v.edit = devices[d].edit /\ v.local = Combined(d)
    BY <1>1, <1>2 DEF DeviceStates
  <1>4. devices' = [devices EXCEPT ![d] = v]
    BY DEF Got
  <1> HIDE DEF v
  <1>5. /\ remote' \in [etag : {remote.etag}, value : {remote.value}, lock : SUBSET Devices,
                         lapsed : BOOLEAN]
        /\ synced' \in [edits : {synced.edits}, updates : Nat, overrun : SUBSET Devices]
    BY DEF Got, SyncInv, SyncTyped
  <1>6. v.etag <= remote.etag
    BY <1>1, <1>3
  <1>7. QED
    BY ZenonT(30), SMTT(30), <1>2, <1>3, <1>4, <1>5, <1>6, OneDeviceMoves

\* A put on the current version keeps every edit in it and makes all other etags old.
LEMMA PutKeepsSyncInv ==
    ASSUME NEW d \in Devices, SyncInv, Put(d)
    PROVE  SyncInv'
  <1>1. /\ devices[d].at = "put" /\ devices[d].etag = remote.etag
        /\ remote' = [remote EXCEPT !.etag = @ + 1, !.value = devices[d].local]
        /\ devices' = [devices EXCEPT ![d] = Ended(d)]
        /\ synced' = [synced EXCEPT !.edits = @ \cup {devices[d].edit}]
    BY DEF Put, Conflict
  <1>2. Ended(d) \in DeviceStates /\ Ended(d).etag = 0 /\ Ended(d).at \in {"rest", "task"}
    BY EndedTyped DEF SyncInv
  <1>3. devices[d].local \in SUBSET Nat /\ devices[d].edit \in Nat /\ devices[d].edit \in devices[d].local
    BY <1>1 DEF DeviceStates, SyncInv, SyncTyped, OwnEditIsIn
  <1>4. /\ remote.etag \in Nat /\ remote'.etag = remote.etag + 1
        /\ remote'.value = devices[d].local /\ synced'.edits = synced.edits \cup {devices[d].edit}
    BY <1>1 DEF SyncInv, SyncTyped
  <1>5. ASSUME NEW e \in Devices
        PROVE  /\ devices[e].etag \in Nat /\ devices[e].etag <= remote.etag
               /\ devices'[e] = IF e = d THEN Ended(d) ELSE devices[e]
    BY <1>1 DEF SyncInv, SyncTyped, DeviceStates, EtagsAreOld
  <1>6. SyncTyped'
    <2>1. /\ remote.etag + 1 \in Nat
          /\ remote \in [etag : Nat, value : SUBSET Nat, lock : SUBSET Devices, lapsed : BOOLEAN]
          /\ remote' = [remote EXCEPT !.etag = remote.etag + 1, !.value = devices[d].local]
      BY <1>1, <1>4 DEF SyncInv, SyncTyped
    <2>2. remote' \in [etag : Nat, value : SUBSET Nat, lock : SUBSET Devices, lapsed : BOOLEAN]
      BY <1>3, <2>1
    <2>3. devices' \in [Devices -> DeviceStates]
      BY <1>1, <1>2 DEF SyncInv, SyncTyped
    <2>4. synced' \in [edits : SUBSET Nat, updates : Nat, overrun : SUBSET Devices]
      BY <1>1, <1>3 DEF SyncInv, SyncTyped
    <2>5. QED
      BY <2>2, <2>3, <2>4 DEF SyncTyped
  <1>7. \A e \in Devices : devices'[e].etag <= remote'.etag /\ devices'[e].etag # remote'.etag
    BY <1>2, <1>4, <1>5
  <1>8. EtagsAreOld' /\ ReadIsCurrent'
    BY <1>7 DEF EtagsAreOld, ReadIsCurrent
  <1>9. OwnEditIsIn'
    BY <1>2, <1>5 DEF SyncInv, OwnEditIsIn
  <1>10. EditsConverge'
    BY <1>1, <1>3, <1>4 DEF SyncInv, ReadIsCurrent, EditsConverge
  <1>11. QED
    BY <1>6, <1>8, <1>9, <1>10 DEF SyncInv

\* A refused put is tried once more with what it read and wrote, or given up.
LEMMA ConflictKeepsSyncInv ==
    ASSUME NEW d \in Devices, SyncInv, PutConflicts(d)
    PROVE  SyncInv'
  <1>1. /\ remote' \in [etag : {remote.etag}, value : {remote.value}, lock : SUBSET Devices,
                         lapsed : BOOLEAN]
        /\ synced' \in [edits : {synced.edits}, updates : Nat, overrun : SUBSET Devices]
    BY DEF PutConflicts, SyncInv, SyncTyped
  <1>2. CASE devices[d].tries = 0
    <2> DEFINE v == [devices[d] EXCEPT !.at = "get", !.tries = 1]
    <2>1. devices[d] \in DeviceStates /\ devices[d].at = "put"
      BY DEF PutConflicts, SyncInv, SyncTyped
    <2>2. /\ v \in DeviceStates /\ v.at = "get" /\ v.etag = devices[d].etag
          /\ v.edit = devices[d].edit /\ v.local = devices[d].local
      BY <2>1 DEF DeviceStates
    <2>3. devices' = [devices EXCEPT ![d] = v]
      BY <1>2 DEF PutConflicts
    <2> HIDE DEF v
    <2>4. v.etag <= remote.etag /\ v.edit \in v.local
      BY <2>1, <2>2 DEF SyncInv, EtagsAreOld, OwnEditIsIn
    <2>5. QED
      BY <1>1, <2>2, <2>3, <2>4, OneDeviceMoves
  <1>3. CASE devices[d].tries # 0
    <2>1. devices' = [devices EXCEPT ![d] = Ended(d)]
      BY <1>3 DEF PutConflicts
    <2>2. Ended(d) \in DeviceStates /\ Ended(d).etag = 0 /\ Ended(d).at \in {"rest", "task"}
      BY EndedTyped DEF SyncInv
    <2>3. Ended(d).etag <= remote.etag
      BY <2>2 DEF SyncInv, SyncTyped
    <2>4. QED
      BY <1>1, <2>1, <2>2, <2>3, OneDeviceMoves
  <1>4. QED
    BY <1>2, <1>3

\* The invariant holds in every behaviour.
THEOREM SyncInvariant == SyncSpec => []SyncInv
  <1>1. SyncInit => SyncInv
    BY DEF SyncInit, SyncInv, SyncTyped, DeviceStates, Resting, EtagsAreOld, OwnEditIsIn,
           ReadIsCurrent, EditsConverge
  <1>2. ASSUME SyncInv, [SyncNext]_syncVars PROVE SyncInv'
    <2>1. CASE UNCHANGED syncVars
      BY <1>2, <2>1 DEF syncVars, SyncInv, SyncTyped, EtagsAreOld, OwnEditIsIn, ReadIsCurrent,
                        EditsConverge
    <2>2. CASE SyncNext
      BY <1>2, <2>2, LockStepsKeepSyncInv, BeginKeepsSyncInv, GotKeepsSyncInv, PutKeepsSyncInv,
         ConflictKeepsSyncInv DEF SyncNext
    <2>3. QED
      BY <1>2, <2>1, <2>2
  <1>3. QED
    BY <1>1, <1>2, PTL DEF SyncSpec

\* Under a merge that keeps both sides no acknowledged edit is ever lost, however many
\* devices write and however often the lock lapses.
THEOREM Convergence == SyncSpec => []EditsConverge
  BY SyncInvariant, PTL DEF SyncInv

\* One device holds the lock, and a task that runs under it without holding it has been
\* overtaken: its lock lapsed and was taken over.
HoldersAreKnown ==
    /\ \A d, e \in remote.lock : d = e
    /\ \A d \in Devices : devices[d].locked => d \in remote.lock \cup synced.overrun

\* A step that keeps the lock, and who works under it, keeps the holders known.
LEMMA SameLock ==
    ASSUME HoldersAreKnown, remote'.lock = remote.lock, synced'.overrun = synced.overrun,
           \A e \in Devices : devices'[e].locked = devices[e].locked
    PROVE  HoldersAreKnown'
  BY DEF HoldersAreKnown

\* Tasks under the lock are alone, except for those the lock lapsed under; and edits
\* are kept.
THEOREM Agreement == SyncSpec => []DevicesAgree
  <1>1. SyncInit => HoldersAreKnown
    BY DEF SyncInit, HoldersAreKnown, Resting
  <1>2. ASSUME HoldersAreKnown, SyncTyped, [SyncNext]_syncVars PROVE HoldersAreKnown'
    <2>1. CASE UNCHANGED syncVars
      BY <1>2, <2>1 DEF syncVars, HoldersAreKnown
    <2>2. CASE LockLapses
      BY <1>2, <2>2 DEF LockLapses, HoldersAreKnown, SyncTyped
    <2>3. ASSUME NEW d \in Devices, Lock(d) PROVE HoldersAreKnown'
      <3>1. /\ remote'.lock = {d} /\ synced'.overrun = synced.overrun \cup remote.lock
            /\ \A e \in Devices \ {d} : devices'[e] = devices[e]
        BY <1>2, <2>3 DEF Lock, SyncTyped
      <3>2. QED
        BY <1>2, <3>1 DEF HoldersAreKnown
    <2>4. ASSUME NEW d \in Devices, Unlock(d) PROVE HoldersAreKnown'
      <3>1. /\ remote'.lock = remote.lock \ {d} /\ synced'.overrun = synced.overrun \ {d}
            /\ devices'[d] = Resting /\ \A e \in Devices \ {d} : devices'[e] = devices[e]
        BY <1>2, <2>4 DEF Unlock, Released, SyncTyped
      <3>2. Resting.locked = FALSE
        BY DEF Resting
      <3>3. QED
        BY <1>2, <3>1, <3>2 DEF HoldersAreKnown
    <2>5. ASSUME NEW d \in Devices, BeginUpdate(d) \/ Got(d) PROVE HoldersAreKnown'
      <3>1. remote' = remote /\ synced'.overrun = synced.overrun
        BY <1>2, <2>5 DEF BeginUpdate, Got, SyncTyped
      <3>2. \A e \in Devices : devices'[e].locked = devices[e].locked
        BY <1>2, <2>5 DEF BeginUpdate, Got, SyncTyped, DeviceStates
      <3>3. QED
        BY <1>2, <3>1, <3>2, SameLock
    <2>6. ASSUME NEW d \in Devices PROVE devices[d] \in DeviceStates /\ Ended(d).locked = devices[d].locked
      BY <1>2 DEF SyncTyped, DeviceStates, Ended, Resting
    <2>7. ASSUME NEW d \in Devices, Put(d) PROVE HoldersAreKnown'
      <3>1. remote'.lock = remote.lock /\ synced'.overrun = synced.overrun
        BY <1>2, <2>7 DEF Put, SyncTyped
      <3>2. \A e \in Devices : devices'[e].locked = devices[e].locked
        BY <1>2, <2>6, <2>7 DEF Put, SyncTyped
      <3>3. QED
        BY <1>2, <3>1, <3>2, SameLock
    <2>8. ASSUME NEW d \in Devices, PutConflicts(d) PROVE HoldersAreKnown'
      <3>1. remote' = remote /\ synced' = synced
        BY <2>8 DEF PutConflicts
      <3>2. \A e \in Devices : devices'[e].locked = devices[e].locked
        BY <1>2, <2>6, <2>8 DEF PutConflicts, SyncTyped, DeviceStates
      <3>3. QED
        BY <1>2, <3>1, <3>2, SameLock
    <2>9. QED
      BY <1>2, <2>1, <2>2, <2>3, <2>4, <2>5, <2>7, <2>8 DEF SyncNext
  <1>3. HoldersAreKnown => LockedTasksAlone
    BY DEF HoldersAreKnown, LockedTasksAlone
  <1>4. SyncSpec => []SyncInv
    BY SyncInvariant
  <1>5. SyncInv => SyncTyped /\ EditsConverge
    BY DEF SyncInv
  <1>6. EditsConverge /\ LockedTasksAlone => DevicesAgree
    BY DEF DevicesAgree
  <1>7. QED
    BY <1>1, <1>2, <1>3, <1>4, <1>5, <1>6, PTL DEF SyncSpec

-----------------------------------------------------------------------------
(* agent-store.ts                                                            *)

AgentFilesSpec == AgentFilesInit /\ [][AgentFilesNext]_agentFileVars

StoreCalls ==
    {c \in [id : Nat, kind : {"create", "update", "delete"}, agent : AgentIds, at : {"next", "open"},
            left : Seq(FileNames)] : c.at = "open" => c.left # <<>>}

StoreAgents ==
    [fresh : SUBSET AgentIds, groups : SUBSET AgentIds, created : SUBSET AgentIds,
     deleting : SUBSET AgentIds, harmed : SUBSET AgentIds, calls : Nat, crashes : Nat]

AgentFilesTyped ==
    /\ dirs \in [AgentIds -> [there : BOOLEAN, file : [FileNames -> FileStates]]]
    /\ calls \subseteq StoreCalls
    /\ agents \in StoreAgents

NeededFirst == {"profile", "settings", "meta"}

\* The agent has not been created.
NotYet(a) ==
    /\ a \in agents.fresh /\ a \notin agents.created \cup agents.harmed \cup agents.groups
    /\ dirs[a].file["meta"] # "whole"
    /\ \A c \in calls : c.agent # a

\* What a create() call has left to write ends with agent.json, and the files that are
\* not left are whole.
CreatesIt(c, a) ==
    /\ c.kind = "create" /\ c.left # <<>>
    /\ \A i \in DOMAIN c.left : c.left[i] = "meta" <=> i = Len(c.left)
    /\ \A f \in FileNames \ {"meta"} :
          (f = "group" => a \in agents.groups) =>
              dirs[a].file[f] = "whole" \/ \E i \in DOMAIN c.left : c.left[i] = f
    /\ c.at = "open" => dirs[a].file[Head(c.left)] # "absent"

\* One call writes the agent.
Creating(a) ==
    /\ a \notin agents.fresh \cup agents.created \cup agents.harmed
    /\ dirs[a].file["meta"] # "whole"
    /\ \E c \in calls : c.agent = a /\ CreatesIt(c, a) /\ \A d \in calls : d.agent = a => d = c

\* Updates alone write the agent: they leave group.json alone, and what is not whole is
\* open, unless the agent was harmed.
Created(a) ==
    /\ a \in agents.created /\ a \notin agents.fresh
    /\ a \in agents.groups => dirs[a].file["group"] = "whole"
    /\ \A f \in NeededFirst :
          /\ dirs[a].file[f] # "absent"
          /\ a \notin agents.harmed =>
               dirs[a].file[f] = "whole" \/ \E c \in calls : c.agent = a /\ c.at = "open" /\ Head(c.left) = f
    /\ \A c \in calls : c.agent = a =>
          c.kind = "update" /\ c.left # <<>> /\ \A i \in DOMAIN c.left : c.left[i] \in NeededFirst

\* Its creation was cut off.
CutOff(a) ==
    /\ a \notin agents.fresh \cup agents.created
    /\ dirs[a].file["meta"] # "whole"
    /\ \A c \in calls : c.agent # a

Stage(a) == NotYet(a) \/ Creating(a) \/ Created(a) \/ CutOff(a)

AgentFilesInv == AgentFilesTyped /\ \A a \in AgentIds \ agents.deleting : Stage(a)

\* A step on one agent leaves the stages of the others.
LEMMA OthersStay ==
    ASSUME NEW a, Stage(a), dirs'[a] = dirs[a],
           \A c : c.agent = a => (c \in calls' <=> c \in calls),
           a \in agents'.fresh <=> a \in agents.fresh, a \in agents'.groups <=> a \in agents.groups,
           a \in agents'.created <=> a \in agents.created, a \in agents'.harmed <=> a \in agents.harmed
    PROVE  Stage(a)'
  <1>1. CASE NotYet(a)
    <2>1. NotYet(a)'
      BY <1>1 DEF NotYet
    <2>2. QED
      BY <2>1 DEF Stage
  <1>2. CASE Creating(a)
    <2>1. \A c : CreatesIt(c, a) => CreatesIt(c, a)'
      BY DEF CreatesIt
    <2>2. Creating(a)'
      BY <1>2, <2>1 DEF Creating
    <2>3. QED
      BY <2>2 DEF Stage
  <1>3. CASE Created(a)
    <2>1. Created(a)'
      BY <1>3 DEF Created
    <2>2. QED
      BY <2>1 DEF Stage
  <1>4. CASE CutOff(a)
    <2>1. CutOff(a)'
      BY <1>4 DEF CutOff
    <2>2. QED
      BY <2>1 DEF Stage
  <1>5. QED
    BY <1>1, <1>2, <1>3, <1>4 DEF Stage

\* No agent has been created.
LEMMA AgentFilesStart == AgentFilesInit => AgentFilesInv
  <1> SUFFICES ASSUME AgentFilesInit PROVE AgentFilesInv
    OBVIOUS
  <1>1. AgentFilesTyped
    BY DEF AgentFilesInit, AgentFilesTyped, StoreAgents, NoDir, FileNames, FileStates
  <1>2. \A a \in AgentIds : NotYet(a)
    BY DEF AgentFilesInit, NotYet, NoDir, FileNames
  <1>3. QED
    BY <1>1, <1>2 DEF AgentFilesInv, Stage

\* create() writes agent.json last, and group.json for a group.
LEMMA FilesEndWithMeta ==
    ASSUME NEW group \in BOOLEAN
    PROVE  /\ Files(group) \in Seq(FileNames) /\ Files(group) # <<>>
           /\ \A i \in DOMAIN Files(group) : Files(group)[i] = "meta" <=> i = Len(Files(group))
           /\ \A f \in FileNames \ {"meta"} : (f = "group" => group) => \E i \in DOMAIN Files(group) : Files(group)[i] = f
  <1> DEFINE g == IF group THEN <<"group">> ELSE <<>>
             s == <<"profile", "settings">>
             m == <<"meta">>
  <1>1. /\ s \in Seq(FileNames) /\ Len(s) = 2 /\ s[1] = "profile" /\ s[2] = "settings"
        /\ m \in Seq(FileNames) /\ Len(m) = 1 /\ m[1] = "meta"
    BY DEF FileNames
  <1>2. g \in Seq(FileNames) /\ Len(g) = (IF group THEN 1 ELSE 0) /\ (group => g[1] = "group")
    <2>1. CASE group
      BY <2>1 DEF FileNames
    <2>2. CASE ~group
      BY <2>2
    <2>3. QED
      BY <2>1, <2>2
  <1>3. Files(group) = (s \o g) \o m
    BY DEF Files
  <1> HIDE DEF g, s, m
  <1>4. /\ s \o g \in Seq(FileNames) /\ Len(s \o g) = 2 + Len(g)
        /\ (s \o g)[1] = "profile" /\ (s \o g)[2] = "settings" /\ (group => (s \o g)[3] = "group")
    <2>1. s \o g \in Seq(FileNames) /\ Len(s \o g) = Len(s) + Len(g)
          /\ \A i \in 1 .. Len(s) + Len(g) : (s \o g)[i] = IF i <= Len(s) THEN s[i] ELSE g[i - Len(s)]
      BY <1>1, <1>2, ConcatProperties
    <2>2. Len(g) \in Nat /\ (group => Len(g) = 1)
      BY <1>2
    <2>3. (s \o g)[1] = s[1] /\ (s \o g)[2] = s[2] /\ (group => (s \o g)[3] = g[1])
      BY <1>1, <2>1, <2>2
    <2>4. QED
      BY <1>1, <1>2, <2>1, <2>3
  <1>5. PICK h \in Seq(FileNames) : h = s \o g
    BY <1>4
  <1>6. /\ Files(group) \in Seq(FileNames) /\ Len(Files(group)) = Len(h) + 1 /\ Files(group)[Len(h) + 1] = "meta"
        /\ \A i \in 1 .. Len(h) : Files(group)[i] = h[i]
    <2>1. h \o m \in Seq(FileNames) /\ Len(h \o m) = Len(h) + Len(m)
          /\ \A i \in 1 .. Len(h) + Len(m) : (h \o m)[i] = IF i <= Len(h) THEN h[i] ELSE m[i - Len(h)]
      BY <1>1, <1>5, ConcatProperties
    <2>2. Len(h) \in Nat
      OBVIOUS
    <2>3. Files(group) = h \o m
      BY <1>3, <1>5
    <2>4. QED
      BY <1>1, <2>1, <2>2, <2>3
  <1>7. /\ Len(h) = (IF group THEN 3 ELSE 2) /\ h[1] = "profile" /\ h[2] = "settings" /\ (group => h[3] = "group")
    BY <1>2, <1>4, <1>5
  <1>8. CASE group
    <2>0. Len(h) = 3 /\ 1 \in 1 .. 3 /\ 2 \in 1 .. 3 /\ 3 \in 1 .. 3
      BY <1>7, <1>8
    <2>1. /\ Len(Files(group)) = 4 /\ Files(group)[1] = "profile" /\ Files(group)[2] = "settings"
          /\ Files(group)[3] = "group" /\ Files(group)[4] = "meta"
      <3>1. Len(Files(group)) = 4 /\ Files(group)[4] = "meta"
        BY <1>6, <2>0
      <3>2. Files(group)[1] = h[1] /\ Files(group)[2] = h[2] /\ Files(group)[3] = h[3]
        BY <1>6, <2>0
      <3>3. QED
        BY <1>7, <1>8, <3>1, <3>2
    <2>2. DOMAIN Files(group) = 1 .. 4
      BY <1>6, <2>1
    <2>3. \A i \in 1 .. 4 : i = 1 \/ i = 2 \/ i = 3 \/ i = 4
      OBVIOUS
    <2>4. QED
      BY <1>6, <2>1, <2>2, <2>3 DEF FileNames
  <1>9. CASE ~group
    <2>1. /\ Len(Files(group)) = 3 /\ Files(group)[1] = "profile" /\ Files(group)[2] = "settings"
          /\ Files(group)[3] = "meta"
      BY <1>6, <1>7, <1>9
    <2>2. DOMAIN Files(group) = 1 .. 3
      BY <1>6, <2>1
    <2>3. \A i \in 1 .. 3 : i = 1 \/ i = 2 \/ i = 3
      OBVIOUS
    <2>4. QED
      BY <1>6, <1>9, <2>1, <2>2, <2>3 DEF FileNames
  <1>10. QED
    BY <1>8, <1>9

\* create(), an update and delete() begin.
LEMMA BeginsKeepFiles ==
    ASSUME AgentFilesInv, NEW a \in AgentIds,
           \/ \E group \in BOOLEAN : CreateAgent(a, group)
           \/ \E f \in {"profile", "settings"} : Change(a, f)
           \/ BeginDelete(a)
    PROVE  AgentFilesInv'
  <1> USE DEF AgentFilesInv
  <1>1. ASSUME NEW b \in AgentIds \ {a}, b \notin agents'.deleting, agents'.deleting = agents.deleting \/ agents'.deleting = agents.deleting \cup {a},
               dirs'[b] = dirs[b], NEW k, k.agent = a, calls' = calls \cup {k},
               b \in agents'.fresh <=> b \in agents.fresh, b \in agents'.groups <=> b \in agents.groups,
               b \in agents'.created <=> b \in agents.created, b \in agents'.harmed <=> b \in agents.harmed
        PROVE  Stage(b)'
    BY <1>1, OthersStay
  <1>2. ASSUME NEW group \in BOOLEAN, CreateAgent(a, group) PROVE AgentFilesInv'
    <2>1. PICK k : k = [id |-> agents.calls, kind |-> "create", agent |-> a, at |-> "next", left |-> Files(group)]
      OBVIOUS
    <2>2. k \in StoreCalls /\ k.agent = a /\ k.kind = "create" /\ k.at = "next" /\ k.left = Files(group)
      BY <2>1, FilesEndWithMeta DEF StoreCalls, AgentFilesTyped, StoreAgents
    <2>3. /\ calls' = calls \cup {k}
          /\ dirs' = [dirs EXCEPT ![a].there = TRUE]
          /\ agents' = [agents EXCEPT !.fresh = @ \ {a}, !.groups = IF group THEN @ \cup {a} ELSE @, !.calls = @ + 1]
          /\ a \in agents.fresh
      BY <1>2, <2>1 DEF CreateAgent, Called
    <2>4. dirs'[a].file = dirs[a].file /\ \A b \in AgentIds \ {a} : dirs'[b] = dirs[b]
      BY <2>3 DEF AgentFilesTyped, StoreAgents
    <2>5. /\ agents'.fresh = agents.fresh \ {a} /\ agents'.created = agents.created /\ agents'.deleting = agents.deleting
          /\ agents'.harmed = agents.harmed /\ agents'.groups = (IF group THEN agents.groups \cup {a} ELSE agents.groups)
      BY <2>3 DEF AgentFilesTyped, StoreAgents
    <2>6. AgentFilesTyped'
      <3>1. dirs' \in [AgentIds -> [there : BOOLEAN, file : [FileNames -> FileStates]]]
        BY <2>3 DEF AgentFilesTyped, StoreAgents
      <3>2. PICK G \in SUBSET AgentIds : G = (IF group THEN agents.groups \cup {a} ELSE agents.groups)
        BY DEF AgentFilesTyped, StoreAgents
      <3>3. agents' = [agents EXCEPT !.fresh = agents.fresh \ {a}, !.groups = G, !.calls = agents.calls + 1]
        BY <2>3, <3>2
      <3>4. agents' \in StoreAgents
        <4>0. agents.fresh \ {a} \in SUBSET AgentIds /\ agents.calls + 1 \in Nat
          BY DEF AgentFilesTyped, StoreAgents
        <4>1. PICK F \in SUBSET AgentIds, n \in Nat : F = agents.fresh \ {a} /\ n = agents.calls + 1
          BY <4>0
        <4>2. agents' = [agents EXCEPT !.fresh = F, !.groups = G, !.calls = n]
          BY <3>3, <4>1
        <4>3. QED
          BY <4>2 DEF AgentFilesTyped, StoreAgents
      <3>5. calls' \subseteq StoreCalls
        BY <2>2, <2>3 DEF AgentFilesTyped
      <3>6. QED
        BY <3>1, <3>4, <3>5 DEF AgentFilesTyped
    <2>7. ASSUME a \notin agents.deleting PROVE Creating(a)'
      <3>1. NotYet(a)
        BY <2>3, <2>7 DEF Stage, Creating, Created, CutOff
      <3>2. CreatesIt(k, a)'
        BY <2>2, <2>4, <2>5, <3>1, FilesEndWithMeta DEF CreatesIt, NotYet
      <3>3. QED
        BY <2>2, <2>3, <2>4, <2>5, <3>1, <3>2 DEF Creating, NotYet
    <2>8. \A b \in AgentIds \ agents'.deleting : Stage(b)'
      BY <1>1, <2>2, <2>3, <2>4, <2>5, <2>7 DEF Stage
    <2>9. QED
      BY <2>6, <2>8
  <1>3. ASSUME NEW f \in {"profile", "settings"}, Change(a, f) PROVE AgentFilesInv'
    <2>1. PICK k : k = [id |-> agents.calls, kind |-> "update", agent |-> a, at |-> "next", left |-> <<f, "meta">>]
      OBVIOUS
    <2>2. /\ k \in StoreCalls /\ k.agent = a /\ k.kind = "update" /\ k.at = "next" /\ k.left # <<>>
          /\ \A i \in DOMAIN k.left : k.left[i] \in NeededFirst
      BY <2>1 DEF StoreCalls, AgentFilesTyped, StoreAgents, FileNames, NeededFirst
    <2>3. calls' = calls \cup {k} /\ dirs' = dirs /\ agents' = [agents EXCEPT !.calls = @ + 1]
      BY <1>3, <2>1 DEF Change, Called
    <2>4. AgentFilesTyped'
      BY SMTT(30), ZenonT(30), <2>2, <2>3 DEF AgentFilesTyped, StoreAgents
    <2>5. ASSUME a \notin agents.deleting PROVE Created(a)'
      <3>1. Created(a)
        BY <1>3, <2>5 DEF Stage, Creating, NotYet, CutOff, Change, Readable
      <3>2. QED
        BY <2>2, <2>3, <3>1 DEF Created, AgentFilesTyped, StoreAgents
    <2>6. \A b \in AgentIds \ agents'.deleting : Stage(b)'
      BY <1>1, <2>2, <2>3, <2>5 DEF Stage, AgentFilesTyped, StoreAgents
    <2>7. QED
      BY <2>4, <2>6
  <1>4. CASE BeginDelete(a)
    <2>1. PICK k : k = [id |-> agents.calls, kind |-> "delete", agent |-> a, at |-> "next", left |-> <<>>]
      OBVIOUS
    <2>2. k \in StoreCalls /\ k.agent = a
      BY <2>1 DEF StoreCalls, AgentFilesTyped, StoreAgents
    <2>3. /\ calls' = calls \cup {k} /\ dirs' = dirs
          /\ agents' = [agents EXCEPT !.calls = @ + 1, !.created = @ \ {a}, !.deleting = @ \cup {a}]
      BY <1>4, <2>1 DEF BeginDelete, Called
    <2>4. /\ agents'.fresh = agents.fresh /\ agents'.created = agents.created \ {a}
          /\ agents'.deleting = agents.deleting \cup {a}
          /\ agents'.harmed = agents.harmed /\ agents'.groups = agents.groups
      BY <2>3 DEF AgentFilesTyped, StoreAgents
    <2>5. AgentFilesTyped'
      <3>0. agents.created \ {a} \in SUBSET AgentIds /\ agents.deleting \cup {a} \in SUBSET AgentIds /\ agents.calls + 1 \in Nat
        BY DEF AgentFilesTyped, StoreAgents
      <3>1. PICK C \in SUBSET AgentIds, D \in SUBSET AgentIds, n \in Nat :
               C = agents.created \ {a} /\ D = agents.deleting \cup {a} /\ n = agents.calls + 1
        BY <3>0
      <3>2. agents' = [agents EXCEPT !.calls = n, !.created = C, !.deleting = D]
        BY <2>3, <3>1
      <3>3. agents' \in StoreAgents
        BY <3>2 DEF AgentFilesTyped, StoreAgents
      <3>4. calls' \subseteq StoreCalls /\ dirs' = dirs
        BY <2>2, <2>3 DEF AgentFilesTyped
      <3>5. QED
        BY <3>3, <3>4 DEF AgentFilesTyped
    <2>6. \A b \in AgentIds \ agents'.deleting : Stage(b)'
      BY <1>1, <2>2, <2>3, <2>4
    <2>7. QED
      BY <2>5, <2>6
  <1>5. QED
    BY <1>2, <1>3, <1>4

\* A call of a store that does not delete goes on for an agent that is created or being so.
LEMMA CallsHaveStages ==
    ASSUME AgentFilesInv, NEW c \in calls, c.agent \notin agents.deleting
    PROVE  /\ c.agent \in AgentIds /\ c.left \in Seq(FileNames) /\ c.left # <<>>
           /\ \/ /\ Created(c.agent) /\ c.kind = "update"
                 /\ \A i \in DOMAIN c.left : c.left[i] \in NeededFirst
              \/ /\ Creating(c.agent) /\ CreatesIt(c, c.agent)
                 /\ \A d \in calls : d.agent = c.agent => d = c
  <1>1. c \in StoreCalls
    BY DEF AgentFilesInv, AgentFilesTyped, StoreAgents
  <1>2. c.agent \in AgentIds /\ c.left \in Seq(FileNames)
    BY <1>1 DEF StoreCalls
  <1>3. Stage(c.agent) /\ ~NotYet(c.agent) /\ ~CutOff(c.agent)
    <2>1. Stage(c.agent)
      BY <1>2 DEF AgentFilesInv
    <2>2. QED
      BY <2>1 DEF NotYet, CutOff
  <1>4. CASE Created(c.agent)
    <2>0. \A d \in calls : d.agent = c.agent =>
             d.kind = "update" /\ d.left # <<>> /\ \A i \in DOMAIN d.left : d.left[i] \in NeededFirst
      BY <1>4 DEF Created
    <2>1. c.kind = "update" /\ c.left # <<>> /\ \A i \in DOMAIN c.left : c.left[i] \in NeededFirst
      BY <2>0
    <2>2. c.agent \in AgentIds /\ c.left \in Seq(FileNames) /\ c.left # <<>>
      BY <1>2, <2>1
    <2>3. QED
      BY <1>4, <2>1, <2>2
  <1>5. CASE Creating(c.agent)
    <2>1. CreatesIt(c, c.agent) /\ \A d \in calls : d.agent = c.agent => d = c
      BY <1>5 DEF Creating
    <2>2. c.left # <<>>
      BY <2>1 DEF CreatesIt
    <2>3. QED
      BY <1>2, <1>5, <2>1, <2>2
  <1>6. QED
    BY <1>3, <1>4, <1>5 DEF Stage

\* What is left after the head.
LEMMA TailElements ==
    ASSUME NEW S, NEW s \in Seq(S), s # <<>>
    PROVE  /\ Head(s) \in S /\ Tail(s) \in Seq(S)
           /\ Len(s) # 1 => Tail(s) # <<>>
           /\ \A f : (\E i \in DOMAIN s : s[i] = f) => f = Head(s) \/ \E i \in DOMAIN Tail(s) : Tail(s)[i] = f
           /\ \A i \in DOMAIN Tail(s) : i + 1 \in DOMAIN s /\ Tail(s)[i] = s[i + 1]
           /\ \A i \in DOMAIN Tail(s) : i = Len(Tail(s)) <=> i + 1 = Len(s)
           /\ 1 \in DOMAIN s /\ Head(s) = s[1]
  <1>1. /\ DOMAIN s = 1 .. Len(s) /\ Len(s) \in Nat /\ Len(s) > 0 /\ Head(s) = s[1]
        /\ Tail(s) \in Seq(S) /\ DOMAIN Tail(s) = 1 .. Len(s) - 1 /\ Len(Tail(s)) = Len(s) - 1
    OBVIOUS
  <1>2. \A i \in 1 .. Len(s) - 1 : Tail(s)[i] = s[i + 1]
    OBVIOUS
  <1>3. ASSUME NEW f, NEW i \in DOMAIN s, s[i] = f
        PROVE  f = Head(s) \/ \E k \in DOMAIN Tail(s) : Tail(s)[k] = f
    <2>1. CASE i = 1
      BY <1>1, <1>3, <2>1
    <2>2. CASE i # 1
      <3>1. i - 1 \in 1 .. Len(s) - 1 /\ (i - 1) + 1 = i
        BY <1>1, <2>2
      <3>2. QED
        BY <1>1, <1>2, <1>3, <3>1
    <2>3. QED
      BY <2>1, <2>2
  <1>4. Len(s) # 1 => Tail(s) # <<>>
    <2>1. SUFFICES ASSUME Len(s) # 1 PROVE Len(Tail(s)) # 0
      OBVIOUS
    <2>2. QED
      BY <1>1, <2>1
  <1>5. QED
    BY <1>1, <1>2, <1>3, <1>4

\* writeFile() empties the next file.
LEMMA OpenKeepsFiles ==
    ASSUME AgentFilesInv, NEW c \in calls, OpenNext(c)
    PROVE  AgentFilesInv'
  <1> USE DEF AgentFilesInv
  <1>1. c \in StoreCalls /\ c.agent \in AgentIds /\ c.left \in Seq(FileNames) /\ c.left # <<>> /\ c.at = "next"
    BY DEF AgentFilesTyped, StoreCalls, OpenNext
  <1>2. PICK a \in AgentIds, f \in FileNames : a = c.agent /\ f = Head(c.left)
    BY <1>1, TailElements
  <1>3. agents' = agents
    BY DEF OpenNext
  <1>4. CASE ~dirs[a].there
    <2>1. calls' = calls \ {c} /\ dirs' = dirs
      BY <1>2, <1>4 DEF OpenNext
    <2>2. AgentFilesTyped'
      BY <1>3, <2>1 DEF AgentFilesTyped
    <2>3. \A b \in AgentIds \ ({a} \cup agents.deleting) : Stage(b)'
      BY <1>2, <1>3, <2>1, OthersStay
    <2>4. ASSUME a \notin agents.deleting PROVE Stage(a)'
      <3>1. CASE Created(a)
        <4>1. Created(a)'
          BY <1>1, <1>2, <1>3, <2>1, <3>1 DEF Created
        <4>2. QED
          BY <4>1 DEF Stage
      <3>2. CASE Creating(a) /\ \A d \in calls : d.agent = a => d = c
        <4>1. CutOff(a)'
          BY <1>1, <1>2, <1>3, <2>1, <3>2 DEF Creating, CutOff
        <4>2. QED
          BY <4>1 DEF Stage
      <3>3. QED
        BY <1>2, <2>4, <3>1, <3>2, CallsHaveStages
    <2>5. QED
      BY <1>3, <2>2, <2>3, <2>4
  <1>5. CASE dirs[a].there
    <2>1. PICK e : e = [c EXCEPT !.at = "open"]
      OBVIOUS
    <2>2. /\ e \in StoreCalls /\ e.agent = a /\ e.kind = c.kind /\ e.left = c.left /\ e.at = "open" /\ e # c
      BY <1>1, <1>2, <2>1 DEF StoreCalls
    <2>3. calls' = (calls \ {c}) \cup {e} /\ dirs' = [dirs EXCEPT ![a].file[f] = "torn"]
      BY <1>2, <1>5, <2>1 DEF OpenNext
    <2>4. /\ \A b \in AgentIds \ {a} : dirs'[b] = dirs[b]
          /\ dirs'[a].file[f] = "torn" /\ \A g \in FileNames \ {f} : dirs'[a].file[g] = dirs[a].file[g]
      BY <2>3 DEF AgentFilesTyped
    <2>5. AgentFilesTyped'
      <3>1. dirs' \in [AgentIds -> [there : BOOLEAN, file : [FileNames -> FileStates]]]
        BY <2>3 DEF AgentFilesTyped, FileStates
      <3>2. QED
        BY <1>3, <2>2, <2>3, <3>1 DEF AgentFilesTyped
    <2>6. \A b \in AgentIds \ ({a} \cup agents.deleting) : Stage(b)'
      <3>1. \A b \in AgentIds \ {a} : \A d : d.agent = b => (d \in calls' <=> d \in calls)
        BY <1>2, <2>2, <2>3
      <3>2. QED
        BY <1>3, <2>4, <3>1, OthersStay
    <2>7. ASSUME a \notin agents.deleting PROVE Stage(a)'
      <3>1. ASSUME Created(a), c.kind = "update", \A i \in DOMAIN c.left : c.left[i] \in NeededFirst PROVE Created(a)'
        <4>1. f \in NeededFirst
          BY <1>1, <1>2, <3>1, TailElements
        <4>2. a \in agents.groups => dirs'[a].file["group"] = "whole"
          BY <2>4, <3>1, <4>1 DEF Created, NeededFirst, FileNames
        <4>3. \A g \in NeededFirst :
                 /\ dirs'[a].file[g] # "absent"
                 /\ a \notin agents.harmed =>
                       dirs'[a].file[g] = "whole" \/ \E d \in calls' : d.agent = a /\ d.at = "open" /\ Head(d.left) = g
          <5>1. SUFFICES ASSUME NEW g \in NeededFirst
                PROVE  /\ dirs'[a].file[g] # "absent"
                       /\ a \notin agents.harmed =>
                            dirs'[a].file[g] = "whole" \/ \E d \in calls' : d.agent = a /\ d.at = "open" /\ Head(d.left) = g
            OBVIOUS
          <5>2. CASE g = f
            BY <1>2, <2>2, <2>3, <2>4, <5>2
          <5>3. CASE g # f
            <6>1. g \in FileNames /\ dirs'[a].file[g] = dirs[a].file[g]
              BY <2>4, <5>3 DEF NeededFirst, FileNames
            <6>2. \A d \in calls : d.at = "open" => d \in calls'
              BY <1>1, <2>3
            <6>3. QED
              BY <3>1, <6>1, <6>2 DEF Created
          <5>4. QED
            BY <5>2, <5>3
        <4>4. \A d \in calls' : d.agent = a =>
                 d.kind = "update" /\ d.left # <<>> /\ \A i \in DOMAIN d.left : d.left[i] \in NeededFirst
          BY <1>1, <2>2, <2>3, <3>1 DEF Created
        <4>5. QED
          BY <1>3, <3>1, <4>2, <4>3, <4>4 DEF Created
      <3>2. ASSUME Creating(a), CreatesIt(c, a), \A d \in calls : d.agent = a => d = c PROVE Creating(a)'
        <4>1. CreatesIt(e, a)'
          <5>1. \A g \in FileNames \ {"meta"} :
                   (g = "group" => a \in agents.groups) =>
                      dirs'[a].file[g] = "whole" \/ \E i \in DOMAIN c.left : c.left[i] = g
            <6>1. SUFFICES ASSUME NEW g \in FileNames \ {"meta"}, g = "group" => a \in agents.groups
                  PROVE  dirs'[a].file[g] = "whole" \/ \E i \in DOMAIN c.left : c.left[i] = g
              OBVIOUS
            <6>2. CASE g = f
              BY <1>1, <1>2, <6>2, TailElements
            <6>3. CASE g # f
              BY <2>4, <3>2, <6>1, <6>3 DEF CreatesIt
            <6>4. QED
              BY <6>2, <6>3
          <5>2. dirs'[a].file[Head(c.left)] # "absent"
            BY <1>2, <2>4
          <5>3. QED
            BY <1>3, <2>2, <3>2, <5>1, <5>2 DEF CreatesIt
        <4>2. \A d \in calls' : d.agent = a => d = e
          BY <2>3, <3>2
        <4>3. dirs'[a].file["meta"] # "whole"
          BY <2>4, <3>2 DEF Creating, FileNames
        <4>4. QED
          BY <1>3, <2>2, <2>3, <3>2, <4>1, <4>2, <4>3 DEF Creating
      <3>3. QED
        BY <1>2, <2>7, <3>1, <3>2, CallsHaveStages DEF Stage
    <2>8. QED
      BY <1>3, <2>5, <2>6, <2>7
  <1>6. QED
    BY <1>4, <1>5

\* A file is written.
LEMMA FillKeepsFiles ==
    ASSUME AgentFilesInv, NEW c \in calls, FillFile(c)
    PROVE  AgentFilesInv'
  <1> USE DEF AgentFilesInv
  <1> DEFINE Met == \E d \in calls \ {c} : d.agent = c.agent /\ d.at = "open" /\ Head(d.left) = Head(c.left)
  <1>1. /\ c \in StoreCalls /\ c.agent \in AgentIds /\ c.left \in Seq(FileNames) /\ c.at = "open" /\ c.left # <<>>
        /\ c.kind \in {"create", "update", "delete"}
    BY DEF AgentFilesTyped, StoreCalls, FillFile
  <1>2. PICK a \in AgentIds : a = c.agent
    BY <1>1
  <1>f. PICK f : f = Head(c.left)
    OBVIOUS
  <1>t. PICK text \in {"whole", "torn"} :
           /\ dirs' = [dirs EXCEPT ![a].file[f] = IF @ = "absent" THEN @ ELSE text]
           /\ ~Met /\ a \notin agents.harmed => text = "whole"
    BY <1>2, <1>f DEF FillFile
  <1>g. agents' = [agents EXCEPT !.harmed = IF Met THEN @ \cup {a} ELSE @,
                       !.created = IF c.kind = "create" /\ Len(c.left) = 1 /\ a \notin agents.deleting
                                   THEN @ \cup {a} ELSE @]
    BY <1>2 DEF FillFile
  <1>c. calls' = (calls \ {c}) \cup (IF Len(c.left) = 1 THEN {} ELSE {[c EXCEPT !.at = "next", !.left = Tail(@)]})
    BY DEF FillFile
  <1>m. PICK met \in BOOLEAN : met <=> Met
    OBVIOUS
  <1>mm. met <=> \E d \in calls : d # c /\ d.agent = a /\ d.at = "open" /\ Head(d.left) = f
    BY <1>2, <1>f, <1>m
  <1>ff. ~met /\ a \notin agents.harmed => text = "whole"
    BY <1>t, <1>m
  <1>3. PICK H \in SUBSET AgentIds, C \in SUBSET AgentIds :
           /\ H = (IF met THEN agents.harmed \cup {a} ELSE agents.harmed)
           /\ C = (IF c.kind = "create" /\ Len(c.left) = 1 /\ a \notin agents.deleting
                   THEN agents.created \cup {a} ELSE agents.created)
    <2>1. agents.harmed \in SUBSET AgentIds /\ agents.created \in SUBSET AgentIds
      BY DEF AgentFilesTyped, StoreAgents
    <2>2. QED
      BY <2>1
  <1>4. /\ agents' \in StoreAgents /\ agents'.harmed = H /\ agents'.created = C /\ agents'.fresh = agents.fresh
        /\ agents'.groups = agents.groups /\ agents'.deleting = agents.deleting
    <2>1. agents' = [agents EXCEPT !.harmed = H, !.created = C]
      BY <1>g, <1>m, <1>3
    <2>2. QED
      BY <2>1 DEF AgentFilesTyped, StoreAgents
  <1> HIDE DEF Met
  <1>5. /\ dirs' \in [AgentIds -> [there : BOOLEAN, file : [FileNames -> FileStates]]]
        /\ \A b \in AgentIds \ {a} : dirs'[b] = dirs[b]
        /\ \A g \in FileNames : dirs'[a].file[g] =
              (IF g = f /\ dirs[a].file[g] # "absent" THEN text ELSE dirs[a].file[g])
    <2>1. CASE f \in FileNames
      <3>1. PICK x \in FileStates : x = IF dirs[a].file[f] = "absent" THEN dirs[a].file[f] ELSE text
        BY <2>1 DEF AgentFilesTyped, FileStates
      <3>2. dirs' = [dirs EXCEPT ![a].file[f] = x]
        BY <1>t, <3>1
      <3>3. QED
        BY <2>1, <3>1, <3>2 DEF AgentFilesTyped
    <2>2. CASE f \notin FileNames
      <3>1. dirs' = dirs
        BY <1>t, <2>2 DEF AgentFilesTyped
      <3>2. QED
        BY <2>2, <3>1 DEF AgentFilesTyped
    <2>3. QED
      BY <2>1, <2>2
  <1>6. \A d \in calls' : d \in calls \/ (d.agent = a /\ d.kind = c.kind /\ d.at = "next" /\ d.left = Tail(c.left) /\ Len(c.left) # 1)
    BY <1>1, <1>2, <1>c DEF StoreCalls
  <1>7. calls' \subseteq StoreCalls
    <2>1. ASSUME Len(c.left) # 1 PROVE [c EXCEPT !.at = "next", !.left = Tail(@)] \in StoreCalls
      <3>1. Tail(c.left) \in Seq(FileNames)
        BY <1>1, TailElements
      <3>2. QED
        BY <1>1, <3>1 DEF StoreCalls
    <2>2. QED
      BY <1>c, <2>1 DEF AgentFilesTyped
  <1>8. AgentFilesTyped'
    BY <1>4, <1>5, <1>7 DEF AgentFilesTyped
  <1>9. \A b \in AgentIds \ ({a} \cup agents.deleting) : Stage(b)'
    <2>1. \A b \in AgentIds \ {a} : \A d : d.agent = b => (d \in calls' <=> d \in calls)
      BY <1>2, <1>6, <1>c
    <2>2. \A b \in AgentIds \ {a} : (b \in C <=> b \in agents.created) /\ (b \in H <=> b \in agents.harmed)
      BY <1>3
    <2>3. QED
      BY <1>4, <1>5, <2>1, <2>2, OthersStay
  <1>10. ASSUME a \notin agents.deleting PROVE Stage(a)'
    <2>0. c.left # <<>> /\ f \in FileNames
      BY <1>1, <1>2, <1>f, <1>10, CallsHaveStages, TailElements
    <2>1. ASSUME Created(a), c.kind = "update", \A i \in DOMAIN c.left : c.left[i] \in NeededFirst PROVE Created(a)'
      <3>1. f \in NeededFirst /\ C = agents.created
        BY <1>1, <1>3, <1>f, <2>0, <2>1, TailElements
      <3>2. a \in agents.groups => dirs'[a].file["group"] = "whole"
        BY <1>5, <2>1, <3>1 DEF Created, NeededFirst, FileNames
      <3>3. ASSUME NEW g \in NeededFirst
            PROVE  /\ dirs'[a].file[g] # "absent"
                   /\ a \notin H =>
                        dirs'[a].file[g] = "whole" \/ \E d \in calls' : d.agent = a /\ d.at = "open" /\ Head(d.left) = g
        <4>1. g \in FileNames /\ dirs[a].file[g] # "absent"
          BY <2>1 DEF Created, NeededFirst, FileNames
        <4>2. CASE g = f
          BY <1>3, <1>5, <1>ff, <4>1, <4>2
        <4>3. CASE g # f
          <5>1. dirs'[a].file[g] = dirs[a].file[g]
            BY <1>5, <4>1, <4>3
          <5>2. \A d \in calls : d.agent = a /\ d.at = "open" /\ Head(d.left) = g => d \in calls'
            BY <1>c, <1>f, <4>3
          <5>3. a \notin H => a \notin agents.harmed
            BY <1>3
          <5>4. QED
            BY <2>1, <4>1, <5>1, <5>2, <5>3 DEF Created
        <4>4. QED
          BY <4>2, <4>3
      <3>4. ASSUME NEW d \in calls', d.agent = a
            PROVE  d.kind = "update" /\ d.left # <<>> /\ \A i \in DOMAIN d.left : d.left[i] \in NeededFirst
        <4>1. CASE d \in calls
          BY <2>1, <3>4, <4>1 DEF Created
        <4>2. CASE d \notin calls
          <5>1. d.kind = "update" /\ d.left = Tail(c.left) /\ Len(c.left) # 1
            BY <1>6, <2>1, <4>2
          <5>2. QED
            BY <1>1, <2>0, <2>1, <5>1, TailElements
        <4>3. QED
          BY <4>1, <4>2
      <3>5. QED
        BY <1>4, <2>1, <3>1, <3>2, <3>3, <3>4 DEF Created
    <2>2. ASSUME Creating(a), CreatesIt(c, a), \A d \in calls : d.agent = a => d = c PROVE Creating(a)' \/ Created(a)'
      <3>1. ~met /\ a \notin agents.harmed /\ text = "whole" /\ H = agents.harmed
        BY <1>3, <1>mm, <1>ff, <2>2 DEF Creating
      <3>2. dirs[a].file[f] # "absent" /\ dirs'[a].file[f] = "whole" /\ \A g \in FileNames \ {f} : dirs'[a].file[g] = dirs[a].file[g]
        BY <1>1, <1>5, <1>f, <2>0, <2>2, <3>1 DEF CreatesIt
      <3>3. 1 \in DOMAIN c.left /\ f = c.left[1] /\ (f = "meta" <=> Len(c.left) = 1)
        <4>1. 1 \in DOMAIN c.left /\ f = c.left[1]
          BY <1>1, <1>f, <2>0, TailElements
        <4>2. QED
          BY <2>2, <4>1 DEF CreatesIt
      <3>4. CASE Len(c.left) = 1
        <4>1. \A d \in calls' : d.agent # a
          BY <1>c, <2>2, <3>4
        <4>2. ASSUME NEW g \in FileNames \ {"meta"}, g = "group" => a \in agents.groups
              PROVE  dirs'[a].file[g] = "whole"
          <5>1. \A i \in DOMAIN c.left : c.left[i] = "meta"
            BY <1>1, <2>2, <3>4 DEF CreatesIt
          <5>2. dirs[a].file[g] = "whole"
            BY <2>2, <4>2, <5>1 DEF CreatesIt
          <5>3. QED
            BY <3>2, <5>2
        <4>3. dirs'[a].file["meta"] = "whole"
          BY <3>2, <3>3, <3>4
        <4>4. a \in C /\ a \notin agents.fresh
          BY <1>2, <1>3, <1>10, <2>2, <3>4 DEF Creating, CreatesIt
        <4>5. Created(a)'
          BY <1>4, <3>1, <4>1, <4>2, <4>3, <4>4 DEF Created, NeededFirst, FileNames
        <4>6. QED
          BY <4>5
      <3>5. CASE Len(c.left) # 1
        <4>1. PICK e : e = [c EXCEPT !.at = "next", !.left = Tail(@)]
          OBVIOUS
        <4>2. e \in calls' /\ e.agent = a /\ e.kind = c.kind /\ e.at = "next" /\ e.left = Tail(c.left)
              /\ \A d \in calls' : d.agent = a => d = e
          BY <1>1, <1>2, <1>c, <2>2, <3>5, <4>1 DEF StoreCalls
        <4>3. C = agents.created /\ f # "meta"
          BY <1>3, <3>3, <3>5
        <4>4. CreatesIt(e, a)'
          <5>1. e.left # <<>> /\ \A i \in DOMAIN e.left : e.left[i] = "meta" <=> i = Len(e.left)
            <6>1. \A i \in DOMAIN c.left : c.left[i] = "meta" <=> i = Len(c.left)
              BY <2>2 DEF CreatesIt
            <6>2. QED
              BY <1>1, <2>0, <3>5, <4>2, <6>1, TailElements
          <5>2. ASSUME NEW g \in FileNames \ {"meta"}, g = "group" => a \in agents.groups
                PROVE  dirs'[a].file[g] = "whole" \/ \E i \in DOMAIN e.left : e.left[i] = g
            <6>1. CASE g = f
              BY <3>2, <6>1
            <6>2. CASE g # f
              <7>1. dirs[a].file[g] = "whole" \/ \E i \in DOMAIN c.left : c.left[i] = g
                BY <2>2, <5>2 DEF CreatesIt
              <7>2. (\E i \in DOMAIN c.left : c.left[i] = g) => \E i \in DOMAIN Tail(c.left) : Tail(c.left)[i] = g
                <8> SUFFICES ASSUME NEW i \in DOMAIN c.left, c.left[i] = g PROVE \E j \in DOMAIN Tail(c.left) : Tail(c.left)[j] = g
                  OBVIOUS
                <8>1. /\ DOMAIN c.left = 1 .. Len(c.left) /\ DOMAIN Tail(c.left) = 1 .. Len(Tail(c.left))
                      /\ Len(Tail(c.left)) = Len(c.left) - 1 /\ Len(c.left) \in Nat /\ f = c.left[1]
                      /\ \A j \in 1 .. Len(Tail(c.left)) : Tail(c.left)[j] = c.left[j + 1]
                  BY <1>1, <3>3, HeadTailProperties
                <8>2. i # 1 /\ i \in 1 .. Len(c.left)
                  BY <6>2, <8>1
                <8>3. i - 1 \in 1 .. Len(Tail(c.left)) /\ (i - 1) + 1 = i
                  BY <8>1, <8>2
                <8>4. Tail(c.left)[i - 1] = g
                  BY <8>1, <8>3
                <8>5. QED
                  BY <8>1, <8>3, <8>4
              <7>3. QED
                BY <3>2, <4>2, <6>2, <7>1, <7>2
            <6>3. QED
              BY <6>1, <6>2
          <5>3. e.kind = "create"
            BY <2>2, <4>2 DEF CreatesIt
          <5>4. QED
            BY <1>4, <4>2, <5>1, <5>2, <5>3 DEF CreatesIt
        <4>5. dirs'[a].file["meta"] # "whole"
          BY <2>2, <3>2, <4>3 DEF Creating, FileNames
        <4>6. Creating(a)'
          BY <1>4, <2>2, <3>1, <4>2, <4>3, <4>4, <4>5 DEF Creating
        <4>7. QED
          BY <4>6
      <3>6. QED
        BY <3>4, <3>5
    <2>3. QED
      BY <1>2, <1>10, <2>1, <2>2, CallsHaveStages DEF Stage
  <1>11. QED
    BY <1>4, <1>8, <1>9, <1>10

\* rm -r touches only agents that are being deleted.
LEMMA RemovalKeepsFiles ==
    ASSUME AgentFilesInv, NEW c \in calls, RemoveFile(c) \/ DeleteEnds(c)
    PROVE  AgentFilesInv'
  <1> USE DEF AgentFilesInv
  <1>1. c.agent \in AgentIds /\ c.kind = "delete"
    BY DEF AgentFilesTyped, StoreCalls, RemoveFile, DeleteEnds
  <1>2. c.agent \in agents.deleting
    <2>1. ASSUME c.agent \notin agents.deleting PROVE FALSE
      BY <1>1, <2>1, CallsHaveStages DEF CreatesIt
    <2>2. QED
      BY <2>1
  <1>3. agents' = agents /\ (calls' = calls \/ calls' = calls \ {c})
    BY DEF RemoveFile, DeleteEnds
  <1>4. dirs' \in [AgentIds -> [there : BOOLEAN, file : [FileNames -> FileStates]]]
        /\ \A b \in AgentIds : b # c.agent => dirs'[b] = dirs[b]
    <2>1. CASE RemoveFile(c)
      <3>1. PICK f \in FileNames : dirs' = [dirs EXCEPT ![c.agent].file[f] = "absent"]
        BY <2>1 DEF RemoveFile
      <3>2. PICK x \in FileStates : x = "absent"
        BY DEF FileStates
      <3>3. PICK a \in AgentIds : a = c.agent
        BY <1>1
      <3>4. dirs' = [dirs EXCEPT ![a].file[f] = x]
        BY <3>1, <3>2, <3>3
      <3>5. QED
        BY <3>3, <3>4 DEF AgentFilesTyped
    <2>2. CASE DeleteEnds(c)
      <3>1. NoDir \in [there : BOOLEAN, file : [FileNames -> FileStates]]
        BY DEF NoDir, FileStates
      <3>2. dirs' = dirs \/ dirs' = [dirs EXCEPT ![c.agent] = NoDir]
        BY <2>2 DEF DeleteEnds
      <3> HIDE DEF AgentFilesInv
      <3>3. QED
        BY <1>1, <3>1, <3>2 DEF AgentFilesTyped, AgentFilesInv
    <2>3. QED
      BY <2>1, <2>2
  <1>5. AgentFilesTyped'
    BY <1>3, <1>4 DEF AgentFilesTyped
  <1>6. ASSUME NEW b \in AgentIds \ agents.deleting PROVE Stage(b)'
    <2>1. dirs'[b] = dirs[b] /\ \A d : d.agent = b => (d \in calls' <=> d \in calls)
      BY <1>2, <1>3, <1>4
    <2>2. QED
      BY <1>3, <2>1, OthersStay
  <1>7. QED
    BY <1>3, <1>5, <1>6

\* The host ends.
LEMMA CrashKeepsFiles ==
    ASSUME AgentFilesInv, StoreCrashes
    PROVE  AgentFilesInv'
  <1> USE DEF AgentFilesInv
  <1>1. calls' = {} /\ dirs' = dirs
    BY DEF StoreCrashes
  <1>2. PICK H \in SUBSET AgentIds : H = agents.harmed \cup {c.agent : c \in {d \in calls : d.at = "open"}}
    BY ZenonT(30), SMTT(30) DEF AgentFilesTyped, StoreAgents, StoreCalls
  <1>3. agents' = [agents EXCEPT !.crashes = @ + 1, !.harmed = H]
    BY <1>2 DEF StoreCrashes
  <1>4. /\ agents' \in StoreAgents /\ agents'.fresh = agents.fresh /\ agents'.groups = agents.groups
        /\ agents'.created = agents.created /\ agents'.deleting = agents.deleting /\ agents'.harmed = H
    <2>0. agents.crashes + 1 \in Nat
      BY DEF AgentFilesTyped, StoreAgents
    <2>1. PICK n \in Nat : n = agents.crashes + 1
      BY <2>0
    <2>2. agents' = [agents EXCEPT !.crashes = n, !.harmed = H]
      BY <1>3, <2>1
    <2>3. QED
      BY <2>2 DEF AgentFilesTyped, StoreAgents
  <1>5. AgentFilesTyped'
    BY <1>1, <1>4 DEF AgentFilesTyped
  <1>6. ASSUME NEW a \in AgentIds \ agents.deleting PROVE Stage(a)'
    <2>1. CASE NotYet(a)
      <3>1. a \notin H
        BY <1>2, <2>1 DEF NotYet
      <3>2. NotYet(a)'
        BY <1>1, <1>4, <2>1, <3>1 DEF NotYet
      <3>3. QED
        BY <3>2 DEF Stage
    <2>2. CASE Creating(a) \/ CutOff(a)
      <3>1. CutOff(a)'
        BY <1>1, <1>4, <2>2 DEF Creating, CutOff
      <3>2. QED
        BY <3>1 DEF Stage
    <2>3. CASE Created(a)
      <3>1. a \notin H => a \notin agents.harmed /\ \A c \in calls : ~(c.agent = a /\ c.at = "open")
        BY <1>2
      <3>2. \A f \in NeededFirst : dirs[a].file[f] # "absent" /\ (a \notin H => dirs[a].file[f] = "whole")
        BY <2>3, <3>1 DEF Created
      <3>3. Created(a)'
        BY <1>1, <1>4, <2>3, <3>2 DEF Created
      <3>4. QED
        BY <3>3 DEF Stage
    <2>4. QED
      BY <2>1, <2>2, <2>3 DEF Stage
  <1>7. QED
    BY <1>4, <1>5, <1>6

\* The stages of the agents that are not being deleted.
THEOREM AgentFilesInvariant == AgentFilesSpec => []AgentFilesInv
  <1>1. AgentFilesInv /\ [AgentFilesNext]_agentFileVars => AgentFilesInv'
    <2> SUFFICES ASSUME AgentFilesInv, [AgentFilesNext]_agentFileVars PROVE AgentFilesInv'
      OBVIOUS
    <2>1. CASE UNCHANGED agentFileVars
      <3>1. AgentFilesTyped' /\ agents' = agents
        BY <2>1 DEF agentFileVars, AgentFilesInv, AgentFilesTyped
      <3>2. \A a \in AgentIds \ agents.deleting : Stage(a)'
        BY <2>1, OthersStay DEF agentFileVars, AgentFilesInv
      <3>3. QED
        BY <3>1, <3>2 DEF AgentFilesInv
    <2>2. QED
      BY <2>1, BeginsKeepFiles, OpenKeepsFiles, FillKeepsFiles, RemovalKeepsFiles, CrashKeepsFiles DEF AgentFilesNext
  <1>2. QED
    BY AgentFilesStart, <1>1, PTL DEF AgentFilesSpec

\* A readable agent that is not being deleted is whole, and a created one stays readable
\* between its writes unless a crash or two updates met in a file, for any agents and calls.
THEOREM WholeAgents == AgentFilesSpec => []AgentsAreWhole
  <1>1. AgentFilesInv => AgentsAreWhole
    <2> SUFFICES ASSUME AgentFilesInv, NEW a \in AgentIds \ agents.deleting
                 PROVE  /\ (Readable(a) /\ a \in agents.groups) => dirs[a].file["group"] = "whole"
                        /\ (a \in agents.created \ agents.harmed) => Readable(a) \/ \E c \in calls : c.agent = a /\ c.at = "open"
      BY DEF AgentsAreWhole
    <2>1. Stage(a)
      BY DEF AgentFilesInv
    <2>2. CASE ~Created(a)
      BY <2>1, <2>2 DEF Stage, NotYet, Creating, CutOff, Readable
    <2>3. CASE Created(a)
      BY <2>3 DEF Created, Readable, NeededFirst
    <2>4. QED
      BY <2>2, <2>3
  <1>2. QED
    BY <1>1, AgentFilesInvariant, PTL

-----------------------------------------------------------------------------
(* acceptance-ledger.ts                                                      *)

LedgerSpec == LedgerInit /\ [][LedgerNext]_ledgerVars

Snapshots == [Nonces -> Records \cup {None}]

LedgerSends ==
    [id : Nat, nonce : Nonces, digest : Digests, op : {"admit", "mark", "clear"},
     at : {"reading", "admit", "mkdir", "writing", "dispatched"}]

SendsTyped ==
    /\ sends \subseteq LedgerSends
    /\ \A s \in sends : /\ s.id <= ledger.sends
                        /\ s.op = "admit" \/ s.at \in {"mkdir", "writing"}
                        /\ \A t \in sends : s.id = t.id => s = t

LedgerTyped ==
    /\ ledger \in [records : Snapshots, loaded : BOOLEAN, sends : Nat, restarts : Nat]
    /\ ledgerFile \in [text : Snapshots \cup {Torn}, writing : SUBSET [by : Nat, snap : Snapshots], mixed : BOOLEAN]
    /\ admitted \in [dispatched : [Nonces -> Nat], cleared : [Nonces -> Nat], harmed : BOOLEAN]
    /\ SendsTyped

\* The send was admitted and has not been settled.
Holds(s, n) == s.nonce = n /\ s.op = "admit" /\ s.at \in {"mkdir", "writing", "dispatched"}

\* A nonce has one holder, and a record while it has one.
HoldersAlone ==
    \A s \in sends, n \in Nonces : Holds(s, n) => Known(n) /\ \A t \in sends : Holds(t, n) => t = s

\* The first send reads the file, and while it does so no other has got further.
ReaderFirst ==
    /\ ~ledger.loaded => sends = {} /\ ledger.records = NoRecords
    /\ \A s \in sends : s.at = "reading" =>
          /\ \A t \in sends : t.at = "reading" => t = s
          /\ ~admitted.harmed => ledger.records = NoRecords /\ \A t \in sends : t.at \in {"reading", "admit"}

\* The writes of the file are those of the sends that write.
WritersWrite ==
    /\ \A w \in ledgerFile.writing : \E s \in sends : s.id = w.by /\ s.at = "writing"
    /\ \A s \in sends : s.at = "writing" => \E w \in ledgerFile.writing : w.by = s.id
    /\ ~ledgerFile.mixed => \A v, w \in ledgerFile.writing : v = w
    /\ ~admitted.harmed => ~ledgerFile.mixed

\* What a text says of a nonce accounts for its dispatches.
Accounts(text, n) ==
    /\ admitted.dispatched[n] <= admitted.cleared[n] + 1
    /\ text[n] = None => admitted.dispatched[n] <= admitted.cleared[n]

\* An admission in front of its dispatch has a place left for it.
MemoryAccounts ==
    ~admitted.harmed /\ ledger.loaded /\ (\A s \in sends : s.at # "reading") =>
        \A n \in Nonces :
            /\ Accounts(ledger.records, n)
            /\ \A s \in sends : Holds(s, n) /\ s.at # "dispatched" => admitted.dispatched[n] <= admitted.cleared[n]

FileAccounts ==
    ~admitted.harmed =>
        /\ ledgerFile.writing = {} => ledgerFile.text # Torn /\ \A n \in Nonces : Accounts(ledgerFile.text, n)
        /\ \A w \in ledgerFile.writing, n \in Nonces :
              /\ Accounts(w.snap, n)
              /\ \A s \in sends : s.id = w.by /\ Holds(s, n) =>
                    w.snap[n] # None /\ admitted.dispatched[n] <= admitted.cleared[n]

LedgerInv == LedgerTyped /\ HoldersAlone /\ ReaderFirst /\ WritersWrite /\ MemoryAccounts /\ FileAccounts

\* The ledger starts empty.
LEMMA LedgerStart == LedgerInit => LedgerInv
  <1> SUFFICES ASSUME LedgerInit PROVE LedgerInv
    OBVIOUS
  <1>1. NoRecords \in Snapshots /\ NoRecords # Torn
    BY LedgerAssumption DEF NoRecords, Snapshots
  <1>2. LedgerTyped
    <2>1. ledgerFile \in [text : Snapshots \cup {Torn}, writing : SUBSET [by : Nat, snap : Snapshots], mixed : BOOLEAN]
      BY <1>1 DEF LedgerInit, NewFile
    <2>2. QED
      BY <1>1, <2>1 DEF LedgerInit, LedgerTyped, SendsTyped
  <1>3. FileAccounts
    BY <1>1 DEF LedgerInit, FileAccounts, NewFile, Accounts
  <1>4. QED
    BY <1>2, <1>3 DEF LedgerInit, LedgerInv, HoldersAlone, ReaderFirst, WritersWrite, MemoryAccounts, NewFile

\* A send goes on: what every such step keeps of the types.
LEMMA SendGoesOn ==
    ASSUME LedgerTyped, NEW s \in sends, NEW at \in {"admit", "mkdir", "writing", "dispatched"},
           NEW op \in {"admit", "mark", "clear"}, op = "admit" \/ at \in {"mkdir", "writing"},
           NEW t, t.id = s.id, t.nonce = s.nonce, t.op = op, t.at = at, t \in LedgerSends,
           sends' = (sends \ {s}) \cup {t}, ledger'.sends = ledger.sends
    PROVE  SendsTyped'
  BY DEF LedgerTyped, SendsTyped

\* The same of a send that only moves.
LEMMA SendMoves ==
    ASSUME LedgerTyped, NEW s \in sends, NEW at \in {"admit", "mkdir", "writing", "dispatched"},
           s.op = "admit" \/ at \in {"mkdir", "writing"},
           Moves(s, at), ledger'.sends = ledger.sends
    PROVE  /\ \E t : /\ sends' = (sends \ {s}) \cup {t}
                     /\ t.id = s.id /\ t.nonce = s.nonce /\ t.op = s.op /\ t.at = at
           /\ SendsTyped'
  <1>1. s \in LedgerSends
    BY DEF LedgerTyped, SendsTyped
  <1>2. PICK t : t = [s EXCEPT !.at = at]
    OBVIOUS
  <1>3. t \in LedgerSends /\ t.id = s.id /\ t.nonce = s.nonce /\ t.op = s.op /\ t.at = at /\ s.op \in {"admit", "mark", "clear"}
    BY <1>1, <1>2 DEF LedgerSends
  <1>4. sends' = (sends \ {s}) \cup {t}
    BY <1>2 DEF Moves
  <1>5. SendsTyped'
    BY <1>3, <1>4, SendGoesOn
  <1>6. QED
    BY <1>3, <1>4, <1>5

\* And of one that ends.
LEMMA SendEnds ==
    ASSUME LedgerTyped, NEW s \in sends, sends' = sends \ {s}, ledger'.sends = ledger.sends
    PROVE  SendsTyped'
  BY DEF LedgerTyped, SendsTyped

\* Steps away from the file.
LEMMA WritersStay ==
    ASSUME WritersWrite, UNCHANGED ledgerFile, admitted.harmed => admitted'.harmed,
           \A r : r.at = "writing" => (r \in sends' <=> r \in sends)
    PROVE  WritersWrite'
  BY DEF WritersWrite

\* A send arrives.
LEMMA ArrivalKeepsLedger ==
    ASSUME LedgerInv, NEW n \in Nonces, NEW d \in Digests, SendArrives(n, d)
    PROVE  LedgerInv'
  <1> USE DEF LedgerInv
  <1>1. PICK t : /\ t = [id |-> ledger.sends + 1, nonce |-> n, digest |-> d, op |-> "admit",
                         at |-> IF ledger.loaded THEN "admit" ELSE "reading"]
                 /\ sends' = sends \cup {t}
    BY DEF SendArrives
  <1>2. /\ ledger.sends \in Nat /\ ledger' \in [records : Snapshots, loaded : BOOLEAN, sends : Nat, restarts : Nat]
        /\ ledger'.records = ledger.records /\ ledger'.loaded = TRUE /\ ledger'.sends = ledger.sends + 1
    <2>1. ledger.sends + 1 \in Nat /\ ledger.sends \in Nat
      BY DEF LedgerTyped
    <2>2. PICK k \in Nat : k = ledger.sends + 1
      BY <2>1
    <2>3. ledger' = [ledger EXCEPT !.sends = k, !.loaded = TRUE]
      BY <2>2 DEF SendArrives
    <2>4. QED
      BY <2>1, <2>2, <2>3 DEF LedgerTyped
  <1>3. /\ t \in LedgerSends /\ t.id = ledger.sends + 1 /\ t.op = "admit" /\ t.nonce = n
        /\ t.at = IF ledger.loaded THEN "admit" ELSE "reading"
    BY <1>1, <1>2 DEF LedgerSends
  <1>4. UNCHANGED <<ledgerFile, admitted>>
    BY DEF SendArrives
  <1>5. \A s \in sends : s.id # t.id
    BY <1>2, <1>3 DEF LedgerTyped, SendsTyped, LedgerSends
  <1>6. LedgerTyped'
    <2>1. SendsTyped'
      BY <1>1, <1>2, <1>3, <1>5 DEF LedgerTyped, SendsTyped, LedgerSends
    <2>2. QED
      BY <1>2, <1>4, <2>1 DEF LedgerTyped
  <1>7. \A m : ~Holds(t, m)
    BY <1>3 DEF Holds
  <1>8. HoldersAlone'
    BY <1>1, <1>2, <1>7 DEF HoldersAlone, Holds, Known
  <1>9. ReaderFirst'
    BY <1>1, <1>2, <1>3, <1>4 DEF ReaderFirst
  <1>10. WritersWrite'
    BY <1>1, <1>3, <1>4 DEF WritersWrite
  <1>11. MemoryAccounts'
    <2>1. CASE ledger.loaded
      BY <1>1, <1>2, <1>4, <1>7, <2>1 DEF MemoryAccounts, Accounts, Holds
    <2>2. CASE ~ledger.loaded
      BY <1>1, <1>3, <2>2 DEF MemoryAccounts
    <2>3. QED
      BY <2>1, <2>2
  <1>12. FileAccounts'
    BY <1>1, <1>4, <1>7 DEF FileAccounts, Accounts, Holds
  <1>13. QED
    BY <1>6, <1>8, <1>9, <1>10, <1>11, <1>12

\* The read is done.
LEMMA LoadKeepsLedger ==
    ASSUME LedgerInv, NEW s \in sends, Loaded(s)
    PROVE  LedgerInv'
  <1> USE DEF LedgerInv
  <1>1. Moves(s, "admit")
    BY DEF Loaded
  <1>2. UNCHANGED <<ledgerFile, admitted>> /\ s.at = "reading"
    BY DEF Loaded
  <1>3. PICK R \in Snapshots : R = [n \in Nonces |->
           IF ledgerFile.text # Torn /\ ledgerFile.text[n] # None THEN ledgerFile.text[n] ELSE ledger.records[n]]
    BY DEF LedgerTyped, Snapshots
  <1>4. /\ ledger' \in [records : Snapshots, loaded : BOOLEAN, sends : Nat, restarts : Nat]
        /\ ledger'.records = R /\ ledger'.loaded = ledger.loaded /\ ledger'.sends = ledger.sends
    BY <1>3 DEF Loaded, LedgerTyped
  <1>5. s.op = "admit"
    BY <1>2 DEF LedgerTyped, SendsTyped
  <1>s. SendsTyped'
    BY <1>1, <1>4, <1>5, SendMoves
  <1>6. PICK t : /\ sends' = (sends \ {s}) \cup {t}
                 /\ t.id = s.id /\ t.nonce = s.nonce /\ t.op = "admit" /\ t.at = "admit"
    BY <1>1, <1>4, <1>5, SendMoves
  <1>7. LedgerTyped'
    BY <1>2, <1>4, <1>s DEF LedgerTyped
  <1>8. \A m : ~Holds(t, m)
    BY <1>6 DEF Holds
  <1>9. HoldersAlone'
    <2>1. \A n \in Nonces : ledger.records[n] # None => R[n] # None
      BY <1>3
    <2>2. ASSUME NEW r \in sends', NEW n \in Nonces, Holds(r, n)
          PROVE  Known(n)' /\ \A q \in sends' : Holds(q, n) => q = r
      <3>1. r \in sends
        BY <1>6, <1>8, <2>2
      <3>2. Known(n) /\ \A q \in sends : Holds(q, n) => q = r
        BY <2>2, <3>1 DEF HoldersAlone
      <3>3. \A q \in sends' : Holds(q, n) => q \in sends
        BY <1>6, <1>8
      <3>4. Known(n)'
        BY <1>4, <2>1, <3>2 DEF Known
      <3>5. QED
        BY <3>2, <3>3, <3>4
    <2>3. QED
      BY <2>2 DEF HoldersAlone, Holds
  <1>10. \A r \in sends' : r.at # "reading"
    BY <1>2, <1>6 DEF ReaderFirst
  <1>11. ReaderFirst'
    BY <1>4, <1>10 DEF ReaderFirst
  <1>12. WritersWrite'
    <2>1. \A r : r.at = "writing" => (r \in sends' <=> r \in sends)
      BY <1>2, <1>6
    <2>2. QED
      BY <1>2, <2>1, WritersStay
  <1>13. FileAccounts'
    BY <1>6, <1>2, <1>8 DEF FileAccounts, Accounts, Holds
  <1>14. MemoryAccounts'
    <2> SUFFICES ASSUME ~admitted.harmed, NEW n \in Nonces
                 PROVE  /\ Accounts(ledger.records, n)'
                        /\ \A r \in sends' : ~Holds(r, n)
      BY <1>2 DEF MemoryAccounts, Holds
    <2>1. ledger.records = NoRecords /\ \A r \in sends : r.at \in {"reading", "admit"}
      BY <1>2 DEF ReaderFirst
    <2>2. ledgerFile.writing = {}
      BY <2>1 DEF WritersWrite
    <2>3. ledgerFile.text # Torn /\ Accounts(ledgerFile.text, n)
      BY <2>2 DEF FileAccounts
    <2>4. R[n] = ledgerFile.text[n]
      BY <1>3, <2>1, <2>3 DEF NoRecords
    <2>5. Accounts(ledger.records, n)'
      BY <1>2, <1>4, <2>3, <2>4 DEF Accounts
    <2>6. QED
      BY <1>6, <1>8, <2>1, <2>5 DEF Holds
  <1>15. QED
    BY <1>7, <1>9, <1>11, <1>12, <1>13, <1>14

\* A duplicate ends the send; a new nonce gets its record.
LEMMA AdmitKeepsLedger ==
    ASSUME LedgerInv, NEW s \in sends, Admit(s)
    PROVE  LedgerInv'
  <1> USE DEF LedgerInv
  <1>1. s.at = "admit" /\ s.nonce \in Nonces /\ s.digest \in Digests /\ s.op = "admit" /\ UNCHANGED ledgerFile
    BY DEF Admit, LedgerTyped, SendsTyped, LedgerSends
  <1>2. CASE Known(s.nonce)
    <2>1. sends' = sends \ {s} /\ UNCHANGED <<ledger, ledgerFile, admitted>>
      BY <1>2 DEF Admit, Ends
    <2>2. LedgerTyped'
      BY <2>1, SendEnds DEF LedgerTyped
    <2>3. HoldersAlone' /\ ReaderFirst'
      BY <2>1 DEF HoldersAlone, ReaderFirst, Holds, Known
    <2>4. WritersWrite'
      BY <1>1, <2>1 DEF WritersWrite
    <2>5. MemoryAccounts'
      <3>1. CASE \A r \in sends : r.at # "reading"
        BY <2>1, <3>1 DEF MemoryAccounts, Accounts, Holds
      <3>2. CASE \E r \in sends : r.at = "reading"
        <4>1. \E r \in sends' : r.at = "reading"
          BY <1>1, <2>1, <3>2
        <4>2. QED
          BY <4>1 DEF MemoryAccounts
      <3>3. QED
        BY <3>1, <3>2
    <2>6. FileAccounts'
      BY <2>1 DEF FileAccounts, Accounts, Holds
    <2>7. QED
      BY <2>2, <2>3, <2>4, <2>5, <2>6
  <1>3. CASE ~Known(s.nonce)
    <2>1. Moves(s, "mkdir")
      BY <1>3 DEF Admit
    <2>2. PICK x \in Records : x = [digest |-> s.digest, state |-> "pending"]
      BY <1>1 DEF Records, States
    <2>3. ledger' = [ledger EXCEPT !.records[s.nonce] = x]
      BY <1>3, <2>2 DEF Admit
    <2>4. /\ ledger' \in [records : Snapshots, loaded : BOOLEAN, sends : Nat, restarts : Nat]
          /\ ledger'.loaded = ledger.loaded /\ ledger'.sends = ledger.sends
          /\ \A n \in Nonces : ledger'.records[n] = IF n = s.nonce THEN x ELSE ledger.records[n]
      BY <1>1, <2>2, <2>3 DEF LedgerTyped, Snapshots
    <2>5. x # None
      BY LedgerAssumption
    <2>s. SendsTyped'
      BY <1>1, <2>1, <2>4, SendMoves
    <2>6. PICK t : /\ sends' = (sends \ {s}) \cup {t}
                   /\ t.id = s.id /\ t.nonce = s.nonce /\ t.op = "admit" /\ t.at = "mkdir"
      BY <1>1, <2>1, <2>4, SendMoves
    <2>7. PICK reads \in BOOLEAN : reads <=> \E r \in sends : r.at = "reading"
      OBVIOUS
    <2>8. PICK h \in BOOLEAN : h <=> (admitted.harmed \/ reads)
      OBVIOUS
    <2>9. /\ admitted' \in [dispatched : [Nonces -> Nat], cleared : [Nonces -> Nat], harmed : BOOLEAN]
          /\ admitted'.dispatched = admitted.dispatched /\ admitted'.cleared = admitted.cleared
          /\ admitted'.harmed = h
      <3>1. admitted' = [admitted EXCEPT !.harmed = admitted.harmed \/ \E r \in sends : r.at = "reading"]
        BY <1>3 DEF Admit
      <3>2. admitted.harmed \in BOOLEAN
        BY DEF LedgerTyped
      <3>3. h = (admitted.harmed \/ \E r \in sends : r.at = "reading")
        BY <2>7, <2>8, <3>2
      <3>4. admitted' = [admitted EXCEPT !.harmed = h]
        BY <3>1, <3>3
      <3>5. QED
        BY <3>4 DEF LedgerTyped
    <2>10. LedgerTyped'
      BY <1>1, <2>4, <2>s, <2>9 DEF LedgerTyped
    <2>11. \A r \in sends : ~Holds(r, s.nonce)
      BY <1>1, <1>3 DEF HoldersAlone
    <2>12. HoldersAlone'
      <3>1. ASSUME NEW r \in sends', NEW n \in Nonces, Holds(r, n)
            PROVE  Known(n)' /\ \A q \in sends' : Holds(q, n) => q = r
        <4>1. CASE n = s.nonce
          <5>1. \A q \in sends' : Holds(q, n) => q = t
            BY <2>6, <2>11, <4>1
          <5>2. QED
            BY <2>4, <2>5, <3>1, <4>1, <5>1 DEF Known
        <4>2. CASE n # s.nonce
          <5>1. \A q \in sends' : Holds(q, n) => q \in sends
            BY <2>6, <4>2 DEF Holds
          <5>2. Known(n) /\ \A q \in sends : Holds(q, n) => q = r
            BY <3>1, <5>1 DEF HoldersAlone
          <5>3. QED
            BY <2>4, <4>2, <5>1, <5>2 DEF Known
        <4>3. QED
          BY <4>1, <4>2
      <3>2. QED
        BY <3>1 DEF HoldersAlone, Holds
    <2>13. ~h => ~admitted.harmed /\ \A r \in sends : r.at # "reading"
      BY <2>7, <2>8
    <2>14. ReaderFirst'
      <3>1. ledger.loaded
        BY DEF ReaderFirst
      <3>2. \A r \in sends' : r.at = "reading" => r \in sends /\ h
        BY <2>6, <2>7, <2>8
      <3>3. QED
        BY <2>4, <2>9, <3>1, <3>2 DEF ReaderFirst
    <2>15. WritersWrite'
      <3>1. \A r : r.at = "writing" => (r \in sends' <=> r \in sends)
        BY <1>1, <2>6
      <3>2. admitted.harmed => admitted'.harmed
        BY <2>8, <2>9
      <3>3. QED
        BY <1>1, <3>1, <3>2, WritersStay
    <2>16. MemoryAccounts'
      <3> SUFFICES ASSUME ~h, ledger.loaded, NEW n \in Nonces
                   PROVE  /\ Accounts(ledger.records, n)'
                          /\ \A r \in sends' : Holds(r, n) /\ r.at # "dispatched" =>
                                admitted.dispatched[n] <= admitted.cleared[n]
        BY <2>4, <2>9 DEF MemoryAccounts, Holds
      <3>1. Accounts(ledger.records, n) /\ \A r \in sends : Holds(r, n) /\ r.at # "dispatched" =>
                                admitted.dispatched[n] <= admitted.cleared[n]
        BY <2>13 DEF MemoryAccounts
      <3>2. CASE n = s.nonce
        <4>1. admitted.dispatched[n] <= admitted.cleared[n]
          BY <1>3, <3>1, <3>2 DEF Accounts, Known
        <4>2. Accounts(ledger.records, n)'
          BY <2>4, <2>5, <2>9, <3>1, <3>2 DEF Accounts
        <4>3. QED
          BY <4>1, <4>2
      <3>3. CASE n # s.nonce
        <4>1. Accounts(ledger.records, n)'
          BY <2>4, <2>9, <3>1, <3>3 DEF Accounts
        <4>2. \A r \in sends' : Holds(r, n) => r \in sends
          BY <2>6, <3>3 DEF Holds
        <4>3. QED
          BY <3>1, <4>1, <4>2
      <3>4. QED
        BY <3>2, <3>3
    <2>17. FileAccounts'
      <3>1. \A r \in sends' : (\E w \in ledgerFile.writing : r.id = w.by) => r.at # "mkdir" /\ r \in sends
        <4>1. \A r \in sends : r.id = s.id => r = s
          BY DEF LedgerTyped, SendsTyped
        <4>2. \A w \in ledgerFile.writing : w.by # s.id
          BY <1>1, <4>1 DEF WritersWrite
        <4>3. \A r \in sends : (\E w \in ledgerFile.writing : r.id = w.by) => r.at = "writing"
          BY DEF WritersWrite, LedgerTyped, SendsTyped
        <4>4. QED
          BY <2>6, <4>2, <4>3
      <3>2. QED
        BY <1>1, <2>9, <2>13, <3>1 DEF FileAccounts, Accounts, Holds
    <2>18. QED
      BY <2>10, <2>12, <2>14, <2>15, <2>16, <2>17
  <1>4. QED
    BY <1>2, <1>3

\* The file is opened with the records of the moment.
LEMMA OpenKeepsLedger ==
    ASSUME LedgerInv, NEW s \in sends, OpenLedger(s)
    PROVE  LedgerInv'
  <1> USE DEF LedgerInv
  <1>1. /\ s.at = "mkdir" /\ s.id \in Nat /\ s.nonce \in Nonces /\ s.op \in {"admit", "mark", "clear"}
        /\ UNCHANGED ledger /\ Moves(s, "writing")
    BY DEF OpenLedger, LedgerTyped, SendsTyped, LedgerSends
  <1>s. SendsTyped'
    BY <1>1, SendMoves
  <1>2. PICK t : /\ sends' = (sends \ {s}) \cup {t}
                 /\ t.id = s.id /\ t.nonce = s.nonce /\ t.op = s.op /\ t.at = "writing"
    BY <1>1, SendMoves
  <1>3. PICK v : v = [by |-> s.id, snap |-> ledger.records]
    OBVIOUS
  <1>4. ledger.records \in Snapshots /\ v \in [by : Nat, snap : Snapshots] /\ v.by = s.id /\ v.snap = ledger.records
    BY <1>1, <1>3 DEF LedgerTyped
  <1>5. PICK m \in BOOLEAN : m <=> (ledgerFile.mixed \/ ledgerFile.writing # {})
    OBVIOUS
  <1>6. ledgerFile' = [text |-> Torn, writing |-> ledgerFile.writing \cup {v}, mixed |-> m]
    <2>1. ledgerFile.mixed \in BOOLEAN
      BY DEF LedgerTyped
    <2>2. m = (ledgerFile.mixed \/ ledgerFile.writing # {})
      BY <1>5, <2>1
    <2>3. QED
      BY <1>3, <2>2 DEF OpenLedger, Opened
  <1>7. /\ ledgerFile'.writing = ledgerFile.writing \cup {v} /\ ledgerFile'.text = Torn /\ ledgerFile'.mixed = m
        /\ ledgerFile' \in [text : Snapshots \cup {Torn}, writing : SUBSET [by : Nat, snap : Snapshots], mixed : BOOLEAN]
    <2>1. PICK W \in SUBSET [by : Nat, snap : Snapshots] : W = ledgerFile.writing \cup {v}
      BY <1>4 DEF LedgerTyped
    <2>2. ledgerFile' = [text |-> Torn, writing |-> W, mixed |-> m]
      BY <1>6, <2>1
    <2>3. QED
      BY <2>1, <2>2
  <1>8. PICK h \in BOOLEAN : h <=> (admitted.harmed \/ m)
    OBVIOUS
  <1>9. /\ admitted' \in [dispatched : [Nonces -> Nat], cleared : [Nonces -> Nat], harmed : BOOLEAN]
        /\ admitted'.dispatched = admitted.dispatched /\ admitted'.cleared = admitted.cleared
        /\ admitted'.harmed = h
    <2>1. admitted.harmed \in BOOLEAN
      BY DEF LedgerTyped
    <2>2. h = (admitted.harmed \/ ledgerFile'.mixed)
      BY <1>7, <1>8, <2>1
    <2>3. admitted' = [admitted EXCEPT !.harmed = h]
      BY <2>2 DEF OpenLedger
    <2>4. QED
      BY <2>3 DEF LedgerTyped
  <1>10. LedgerTyped'
    BY <1>1, <1>7, <1>9, <1>s DEF LedgerTyped
  <1>11. \A n \in Nonces : Holds(t, n) <=> Holds(s, n)
    BY <1>1, <1>2 DEF Holds
  <1>12. HoldersAlone'
    <2>1. ASSUME NEW r \in sends', NEW n \in Nonces, Holds(r, n)
          PROVE  Known(n)' /\ \A q \in sends' : Holds(q, n) => q = r
      <3>1. CASE Holds(s, n)
        <4>1. Known(n) /\ \A q \in sends : Holds(q, n) => q = s
          BY <3>1 DEF HoldersAlone
        <4>2. \A q \in sends' : Holds(q, n) => q = t
          BY <1>2, <4>1
        <4>3. QED
          BY <1>1, <2>1, <4>1, <4>2 DEF Known
      <3>2. CASE ~Holds(s, n)
        <4>1. \A q \in sends' : Holds(q, n) => q \in sends
          BY <1>2, <1>11, <3>2
        <4>2. Known(n) /\ \A q \in sends : Holds(q, n) => q = r
          BY <2>1, <4>1 DEF HoldersAlone
        <4>3. QED
          BY <1>1, <4>1, <4>2 DEF Known
      <3>3. QED
        BY <3>1, <3>2
    <2>2. QED
      BY <2>1 DEF HoldersAlone, Holds
  <1>13. ~h => ~admitted.harmed /\ ledgerFile.writing = {} /\ ~ledgerFile.mixed /\ ~m
    BY <1>5, <1>8
  <1>14. ~h => \A r \in sends : r.at # "reading"
    BY <1>1, <1>13 DEF ReaderFirst
  <1>15. ReaderFirst'
    <2>1. ledger.loaded
      BY DEF ReaderFirst
    <2>2. \A r \in sends' : r.at = "reading" => r \in sends /\ h
      BY <1>2, <1>14
    <2>3. \A r \in sends' : r.at = "reading" => \A q \in sends' : q.at = "reading" => q = r
      BY <1>2 DEF ReaderFirst
    <2>4. QED
      BY <1>1, <1>9, <2>1, <2>2, <2>3 DEF ReaderFirst
  <1>16. WritersWrite'
    <2>1. \A w \in ledgerFile'.writing : \E r \in sends' : r.id = w.by /\ r.at = "writing"
      <3>1. ASSUME NEW w \in ledgerFile.writing PROVE \E r \in sends' : r.id = w.by /\ r.at = "writing"
        BY <1>1, <1>2 DEF WritersWrite
      <3>2. QED
        BY <1>2, <1>4, <1>7, <3>1
    <2>2. \A r \in sends' : r.at = "writing" => \E w \in ledgerFile'.writing : w.by = r.id
      BY <1>2, <1>4, <1>7 DEF WritersWrite
    <2>3. ~m => \A u, w \in ledgerFile'.writing : u = w
      BY <1>5, <1>7
    <2>4. ~h => ~m
      BY <1>8
    <2>5. QED
      BY <1>7, <1>9, <2>1, <2>2, <2>3, <2>4 DEF WritersWrite
  <1>17. ~h => \A n \in Nonces : /\ Accounts(ledger.records, n)
                                 /\ \A r \in sends : Holds(r, n) /\ r.at # "dispatched" => admitted.dispatched[n] <= admitted.cleared[n]
    <2>1. ledger.loaded
      BY DEF ReaderFirst
    <2>2. QED
      BY <1>13, <1>14, <2>1 DEF MemoryAccounts
  <1>18. MemoryAccounts'
    <2> SUFFICES ASSUME ~h, NEW n \in Nonces
                 PROVE  /\ Accounts(ledger.records, n)'
                        /\ \A r \in sends' : Holds(r, n) /\ r.at # "dispatched" => admitted.dispatched[n] <= admitted.cleared[n]
      BY <1>9 DEF MemoryAccounts, Holds
    <2>1. Accounts(ledger.records, n)'
      BY <1>1, <1>9, <1>17 DEF Accounts
    <2>2. QED
      BY <1>1, <1>2, <1>11, <1>17, <2>1
  <1>19. FileAccounts'
    <2> SUFFICES ASSUME ~h, NEW w \in ledgerFile'.writing, NEW n \in Nonces
                 PROVE  /\ Accounts(w.snap, n)'
                        /\ \A r \in sends' : r.id = w.by /\ Holds(r, n) =>
                              w.snap[n] # None /\ admitted.dispatched[n] <= admitted.cleared[n]
      BY <1>7, <1>9 DEF FileAccounts, Holds
    <2>1. w = v
      BY <1>7, <1>13
    <2>2. Accounts(w.snap, n)'
      BY <1>4, <1>9, <1>17, <2>1 DEF Accounts
    <2>3. ASSUME NEW r \in sends', r.id = w.by, Holds(r, n)
          PROVE  w.snap[n] # None /\ admitted.dispatched[n] <= admitted.cleared[n]
      <3>1. r = t
        BY <1>2, <1>4, <1>s, <2>1, <2>3 DEF SendsTyped
      <3>2. Holds(s, n)
        BY <1>11, <2>3, <3>1
      <3>3. ledger.records[n] # None
        BY <3>2 DEF HoldersAlone, Known
      <3>4. QED
        BY <1>1, <1>4, <1>17, <2>1, <3>2, <3>3
    <2>4. QED
      BY <2>2, <2>3
  <1>20. QED
    BY <1>10, <1>12, <1>15, <1>16, <1>18, <1>19

\* The file is written: an admitted send is dispatched, another one ends.
LEMMA WriteKeepsLedger ==
    ASSUME LedgerInv, NEW s \in sends, Persisted(s)
    PROVE  LedgerInv'
  <1> USE DEF LedgerInv
  <1>1. /\ s.at = "writing" /\ s.id \in Nat /\ s.nonce \in Nonces /\ s.op \in {"admit", "mark", "clear"}
        /\ UNCHANGED ledger
    BY DEF Persisted, LedgerTyped, SendsTyped, LedgerSends
  <1>2. PICK W \in SUBSET [by : Nat, snap : Snapshots] : W = {w \in ledgerFile.writing : w.by # s.id}
    BY DEF LedgerTyped
  <1>3. /\ ledgerFile' \in [text : Snapshots \cup {Torn}, writing : SUBSET [by : Nat, snap : Snapshots], mixed : BOOLEAN]
        /\ ledgerFile'.writing = W
        /\ ledgerFile'.mixed => ledgerFile.mixed /\ W # {}
        /\ ledgerFile.mixed /\ W # {} => ledgerFile'.mixed
        /\ ~ledgerFile.mixed => \E w \in ledgerFile.writing : w.by = s.id /\ ledgerFile'.text = w.snap
    <2>1. PICK T \in SUBSET (Snapshots \cup {Torn}) :
             T = {w.snap : w \in ledgerFile.writing \ W}
      <3>1. \A w \in ledgerFile.writing : w.snap \in Snapshots
        BY DEF LedgerTyped
      <3>2. {w.snap : w \in ledgerFile.writing \ W} \subseteq Snapshots \cup {Torn}
        BY <3>1
      <3>3. QED
        BY <3>2
    <2>2. PICK U \in SUBSET (Snapshots \cup {Torn}) : U = IF ledgerFile.mixed THEN T \cup {Torn} ELSE T
      BY <2>1
    <2>3. PICK m \in BOOLEAN : m = (ledgerFile.mixed /\ W # {})
      OBVIOUS
    <2>4. ledgerFile' \in [text : U, writing : {W}, mixed : {m}]
      BY <1>2, <2>1, <2>2, <2>3 DEF Persisted, Written
    <2>5. /\ ledgerFile' \in [text : Snapshots \cup {Torn}, writing : SUBSET [by : Nat, snap : Snapshots], mixed : BOOLEAN]
          /\ ledgerFile'.writing = W /\ ledgerFile'.mixed = m /\ ledgerFile'.text \in U
      BY <2>4
    <2>6. (m => ledgerFile.mixed /\ W # {}) /\ (ledgerFile.mixed /\ W # {} => m)
      BY <2>3
    <2>7. ~ledgerFile.mixed => \E w \in ledgerFile.writing : w.by = s.id /\ ledgerFile'.text = w.snap
      BY <1>2, <2>1, <2>2, <2>5
    <2>8. QED
      BY <2>5, <2>6, <2>7
  <1>4. PICK A : /\ A \in [Nonces -> Nat]
                 /\ \A n \in Nonces : A[n] = IF s.op = "admit" /\ n = s.nonce THEN admitted.dispatched[n] + 1 ELSE admitted.dispatched[n]
                 /\ admitted' \in [dispatched : [Nonces -> Nat], cleared : [Nonces -> Nat], harmed : BOOLEAN]
                 /\ admitted'.dispatched = A /\ admitted'.cleared = admitted.cleared
                 /\ admitted'.harmed = admitted.harmed
    <2>1. CASE s.op # "admit"
      BY <2>1 DEF Persisted, LedgerTyped
    <2>2. CASE s.op = "admit"
      <3>0. admitted.dispatched \in [Nonces -> Nat] /\ admitted.dispatched[s.nonce] + 1 \in Nat
        BY <1>1 DEF LedgerTyped
      <3>1. PICK k \in Nat : k = admitted.dispatched[s.nonce] + 1
        BY <3>0
      <3>2. admitted' = [admitted EXCEPT !.dispatched[s.nonce] = k]
        BY <2>2, <3>1 DEF Persisted
      <3>3. QED
        BY <1>1, <2>2, <3>0, <3>1, <3>2 DEF LedgerTyped
    <2>3. QED
      BY <2>1, <2>2
  <1>5. /\ SendsTyped' /\ sends \ {s} \subseteq sends'
        /\ \A r \in sends' : r \in sends \ {s} \/ (r.id = s.id /\ r.nonce = s.nonce /\ r.op = "admit" /\ s.op = "admit" /\ r.at = "dispatched")
        /\ \A q, r \in sends' : q \notin sends \ {s} /\ r \notin sends \ {s} => q = r
    <2>1. CASE s.op = "admit"
      <3>1. Moves(s, "dispatched")
        BY <2>1 DEF Persisted
      <3>2. SendsTyped'
        BY <1>1, <2>1, <3>1, SendMoves
      <3>3. PICK t : /\ sends' = (sends \ {s}) \cup {t}
                     /\ t.id = s.id /\ t.nonce = s.nonce /\ t.op = s.op /\ t.at = "dispatched"
        BY <1>1, <2>1, <3>1, SendMoves
      <3>4. QED
        BY <2>1, <3>2, <3>3
    <2>2. CASE s.op # "admit"
      <3>1. sends' = sends \ {s}
        BY <2>2 DEF Persisted, Ends
      <3>2. SendsTyped'
        BY <1>1, <3>1, SendEnds
      <3>3. QED
        BY <3>1, <3>2
    <2>3. QED
      BY <2>1, <2>2
  <1>6. LedgerTyped'
    BY <1>1, <1>3, <1>4, <1>5 DEF LedgerTyped
  <1>7. ASSUME NEW n \in Nonces, NEW r \in sends', Holds(r, n)
        PROVE  Known(n) /\ (r \in sends \ {s} \/ (r \notin sends \ {s} /\ Holds(s, n))) /\ \A q \in sends' : Holds(q, n) => q = r
    <2>1. CASE Holds(s, n)
      <3>1. Known(n) /\ \A q \in sends \ {s} : ~Holds(q, n)
        BY <2>1 DEF HoldersAlone
      <3>2. QED
        BY <1>5, <1>7, <2>1, <3>1
    <2>2. CASE ~Holds(s, n)
      <3>1. \A q \in sends' : Holds(q, n) => q \in sends \ {s}
        BY <1>1, <1>5, <2>2 DEF Holds
      <3>2. Known(n) /\ \A q \in sends : Holds(q, n) => q = r
        BY <1>7, <3>1 DEF HoldersAlone
      <3>3. QED
        BY <1>7, <3>1, <3>2
    <2>3. QED
      BY <2>1, <2>2
  <1>8. HoldersAlone'
    BY <1>1, <1>7 DEF HoldersAlone, Holds, Known
  <1>9. ~admitted.harmed => \A r \in sends : r.at # "reading"
    BY <1>1 DEF ReaderFirst
  <1>10. ReaderFirst'
    <2>1. ledger.loaded
      BY DEF ReaderFirst
    <2>2. \A r \in sends' : r.at = "reading" => r \in sends
      BY <1>5
    <2>3. \A r \in sends' : r.at = "reading" => \A q \in sends' : q.at = "reading" => q = r
      BY <2>2 DEF ReaderFirst
    <2>4. QED
      BY <1>1, <1>4, <1>9, <2>1, <2>2, <2>3 DEF ReaderFirst
  <1>11. \A r \in sends : r.id = s.id => r = s
    BY DEF LedgerTyped, SendsTyped
  <1>12. WritersWrite'
    <2>1. ASSUME NEW w \in W PROVE \E r \in sends' : r.id = w.by /\ r.at = "writing"
      <3>1. PICK r \in sends : r.id = w.by /\ r.at = "writing"
        BY <1>2, <2>1 DEF WritersWrite
      <3>2. r \in sends \ {s}
        BY <1>2, <2>1, <3>1
      <3>3. QED
        BY <1>5, <3>1, <3>2
    <2>2. ASSUME NEW r \in sends', r.at = "writing" PROVE \E w \in W : w.by = r.id
      <3>1. r \in sends \ {s}
        BY <1>5, <2>2
      <3>2. PICK w \in ledgerFile.writing : w.by = r.id
        BY <2>2, <3>1 DEF WritersWrite
      <3>3. w.by # s.id
        BY <1>11, <3>1, <3>2
      <3>4. QED
        BY <1>2, <3>2, <3>3
    <2>3. ~ledgerFile'.mixed => \A u, w \in W : u = w
      <3>1. CASE ledgerFile.mixed
        BY <1>3, <3>1
      <3>2. CASE ~ledgerFile.mixed
        BY <1>2, <3>2 DEF WritersWrite
      <3>3. QED
        BY <3>1, <3>2
    <2>4. ~admitted.harmed => ~ledgerFile'.mixed
      BY <1>3 DEF WritersWrite
    <2>5. QED
      BY <1>3, <1>4, <2>1, <2>2, <2>3, <2>4 DEF WritersWrite
  <1>13. ~admitted.harmed => W = {} /\ \E w \in ledgerFile.writing : w.by = s.id /\ ledgerFile'.text = w.snap
    <2> SUFFICES ASSUME ~admitted.harmed PROVE W = {} /\ \E w \in ledgerFile.writing : w.by = s.id /\ ledgerFile'.text = w.snap
      OBVIOUS
    <2>1. ~ledgerFile.mixed
      BY DEF WritersWrite
    <2>2. \A u, w \in ledgerFile.writing : u = w
      BY <2>1 DEF WritersWrite
    <2>3. PICK w \in ledgerFile.writing : w.by = s.id /\ ledgerFile'.text = w.snap
      BY <1>3, <2>1
    <2>4. QED
      BY <1>2, <2>2, <2>3
  <1>14. FileAccounts'
    <2>0. SUFFICES ASSUME ~admitted.harmed
                   PROVE  ledgerFile'.text # Torn /\ \A n \in Nonces : Accounts(ledgerFile.text, n)'
      <3>1. ~admitted.harmed => ledgerFile'.writing = {}
        BY <1>3, <1>13
      <3>2. ~admitted'.harmed => ~admitted.harmed
        BY <1>4
      <3>3. QED
        BY <2>0, <3>1, <3>2 DEF FileAccounts
    <2> SUFFICES ASSUME NEW n \in Nonces PROVE ledgerFile'.text # Torn /\ Accounts(ledgerFile.text, n)'
      <3>1. PICK w \in ledgerFile.writing : ledgerFile'.text = w.snap
        BY <1>13, <2>0
      <3>2. ledgerFile'.text # Torn
        BY <3>1, LedgerAssumption DEF Snapshots, LedgerTyped
      <3>3. QED
        BY <3>2
    <2>1. PICK w \in ledgerFile.writing : w.by = s.id /\ ledgerFile'.text = w.snap
      BY <1>13, <2>0
    <2>2. w.snap \in Snapshots
      BY DEF LedgerTyped
    <2>3. ledgerFile'.text # Torn
      BY <2>1, <2>2, LedgerAssumption DEF Snapshots
    <2>4. Accounts(w.snap, n) /\ (Holds(s, n) => w.snap[n] # None /\ admitted.dispatched[n] <= admitted.cleared[n])
      BY <2>0, <2>1 DEF FileAccounts
    <2>5. admitted.dispatched[n] \in Nat /\ admitted.cleared[n] \in Nat
      BY DEF LedgerTyped
    <2>6. s.op = "admit" /\ n = s.nonce => Holds(s, n)
      BY <1>1 DEF Holds
    <2>7. Accounts(w.snap, n)'
      BY <1>4, <2>4, <2>5, <2>6 DEF Accounts
    <2>8. QED
      BY <2>1, <2>3, <2>7 DEF Accounts
  <1>15. MemoryAccounts'
    <2> SUFFICES ASSUME ~admitted.harmed, NEW n \in Nonces
                 PROVE  /\ Accounts(ledger.records, n)'
                        /\ \A r \in sends' : Holds(r, n) /\ r.at # "dispatched" =>
                              admitted'.dispatched[n] <= admitted'.cleared[n]
      BY <1>4 DEF MemoryAccounts, Holds
    <2>1. ledger.loaded
      BY DEF ReaderFirst
    <2>2. /\ Accounts(ledger.records, n)
          /\ \A r \in sends : Holds(r, n) /\ r.at # "dispatched" => admitted.dispatched[n] <= admitted.cleared[n]
      BY <1>9, <2>1 DEF MemoryAccounts
    <2>3. admitted.dispatched[n] \in Nat /\ admitted.cleared[n] \in Nat
      BY DEF LedgerTyped
    <2>4. CASE s.op = "admit" /\ n = s.nonce
      <3>1. Holds(s, n) /\ Known(n)
        BY <1>1, <2>4 DEF Holds, HoldersAlone
      <3>2. admitted.dispatched[n] <= admitted.cleared[n]
        BY <1>1, <2>2, <3>1
      <3>3. Accounts(ledger.records, n)'
        BY <1>1, <1>4, <2>3, <2>4, <3>1, <3>2 DEF Accounts, Known
      <3>4. \A r \in sends' : Holds(r, n) => r.at = "dispatched"
        BY <1>5, <3>1 DEF HoldersAlone
      <3>5. QED
        BY <3>3, <3>4
    <2>5. CASE ~(s.op = "admit" /\ n = s.nonce)
      <3>1. Accounts(ledger.records, n)'
        BY <1>1, <1>4, <2>2, <2>5 DEF Accounts
      <3>2. \A r \in sends' : Holds(r, n) => r \in sends
        BY <1>5, <2>5 DEF Holds
      <3>3. QED
        BY <1>4, <2>2, <2>5, <3>1, <3>2
    <2>6. QED
      BY <2>4, <2>5
  <1>16. QED
    BY <1>6, <1>8, <1>10, <1>12, <1>14, <1>15

\* A mark and a clear settle the holder of a nonce.
LEMMA SettleKeepsLedger ==
    ASSUME LedgerInv, NEW s \in sends, Clear(s) \/ \E state \in {"accepted", "rejected"} : Mark(s, state)
    PROVE  LedgerInv'
  <1> USE DEF LedgerInv
  <1>1. s.at = "dispatched" /\ s \in LedgerSends /\ s.nonce \in Nonces /\ s.op = "admit" /\ UNCHANGED ledgerFile
    BY DEF Clear, Mark, LedgerTyped, SendsTyped, LedgerSends
  <1>2. Holds(s, s.nonce) /\ Known(s.nonce) /\ \A r \in sends : Holds(r, s.nonce) => r = s
    BY <1>1 DEF Holds, HoldersAlone
  <1>3. PICK clears \in BOOLEAN : clears <=> Clear(s)
    OBVIOUS
  <1>4. PICK t : /\ t = [s EXCEPT !.op = IF clears THEN "clear" ELSE "mark", !.at = "mkdir"]
                 /\ sends' = (sends \ {s}) \cup {t}
    BY <1>2, <1>3 DEF Clear, Mark
  <1>5. t \in LedgerSends /\ t.id = s.id /\ t.nonce = s.nonce /\ t.op # "admit" /\ t.op \in {"mark", "clear"} /\ t.at = "mkdir"
    <2>1. PICK op \in {"mark", "clear"} : op = IF clears THEN "clear" ELSE "mark"
      OBVIOUS
    <2>2. t = [s EXCEPT !.op = op, !.at = "mkdir"]
      BY <1>4, <2>1
    <2>3. QED
      BY <1>1, <2>2 DEF LedgerSends
  <1>6. PICK x \in Records \cup {None} :
           ledger' = [ledger EXCEPT !.records[s.nonce] = x] /\ (clears <=> x = None)
    <2>1. CASE Clear(s)
      BY <1>3, <2>1 DEF Clear
    <2>2. CASE ~Clear(s)
      <3>1. PICK state \in {"accepted", "rejected"} : Mark(s, state)
        BY <2>2
      <3>2. ledger.records[s.nonce] \in Records
        BY <1>1, <1>2 DEF Known, LedgerTyped, Snapshots
      <3>3. PICK y : y = [ledger.records[s.nonce] EXCEPT !.state = state]
        OBVIOUS
      <3>4. y \in Records /\ y # None
        BY <3>2, <3>3, LedgerAssumption DEF Records, States
      <3>5. ledger' = [ledger EXCEPT !.records[s.nonce] = y]
        BY <1>2, <3>1, <3>3 DEF Mark
      <3>6. QED
        BY <1>3, <2>2, <3>4, <3>5
    <2>3. QED
      BY <2>1, <2>2
  <1>7. /\ ledger' \in [records : Snapshots, loaded : BOOLEAN, sends : Nat, restarts : Nat]
        /\ ledger'.loaded = ledger.loaded /\ ledger'.sends = ledger.sends
        /\ \A n \in Nonces : ledger'.records[n] = IF n = s.nonce THEN x ELSE ledger.records[n]
    <2>1. x \in Records \cup {None} /\ s.nonce \in Nonces
      BY <1>1
    <2>2. QED
      BY <1>6, <2>1 DEF LedgerTyped, Snapshots
  <1>8. PICK C : /\ C \in [Nonces -> Nat]
                 /\ \A n \in Nonces : C[n] = IF clears /\ n = s.nonce THEN admitted.cleared[n] + 1 ELSE admitted.cleared[n]
                 /\ admitted' \in [dispatched : [Nonces -> Nat], cleared : [Nonces -> Nat], harmed : BOOLEAN]
                 /\ admitted'.cleared = C /\ admitted'.dispatched = admitted.dispatched
                 /\ admitted'.harmed = admitted.harmed
    <2>1. CASE ~clears
      <3>1. admitted' = admitted
        BY <1>3, <2>1 DEF Mark
      <3>2. QED
        BY <2>1, <3>1 DEF LedgerTyped
    <2>2. CASE clears
      <3>0. admitted.cleared \in [Nonces -> Nat] /\ admitted.cleared[s.nonce] + 1 \in Nat
        BY <1>1 DEF LedgerTyped
      <3>1. PICK k \in Nat : k = admitted.cleared[s.nonce] + 1
        BY <3>0
      <3>2. admitted' = [admitted EXCEPT !.cleared[s.nonce] = k]
        BY <1>3, <2>2, <3>1 DEF Clear
      <3>3. QED
        BY <1>1, <2>2, <3>0, <3>1, <3>2 DEF LedgerTyped
    <2>3. QED
      BY <2>1, <2>2
  <1>9. LedgerTyped'
    <2>1. SendsTyped'
      <3>1. SendsTyped /\ sends' = (sends \ {s}) \cup {t} /\ ledger'.sends = ledger.sends
        BY <1>4, <1>7 DEF LedgerTyped
      <3>2. t \in LedgerSends /\ t.id = s.id /\ t.at = "mkdir"
        BY <1>5
      <3> HIDE DEF LedgerInv
      <3>3. QED
        BY <3>1, <3>2 DEF SendsTyped
    <2>2. QED
      BY <1>1, <1>7, <1>8, <2>1 DEF LedgerTyped
  <1>10. \A n : ~Holds(t, n)
    BY <1>5 DEF Holds
  <1>11. \A n \in Nonces : \A r \in sends' : Holds(r, n) => r \in sends /\ n # s.nonce
    BY <1>2, <1>4, <1>10
  <1>12. HoldersAlone'
    <2>1. ASSUME NEW r \in sends', NEW n \in Nonces, Holds(r, n)
          PROVE  Known(n)' /\ \A q \in sends' : Holds(q, n) => q = r
      <3>1. r \in sends /\ n # s.nonce /\ \A q \in sends' : Holds(q, n) => q \in sends
        BY <1>11, <2>1
      <3>2. Known(n) /\ \A q \in sends : Holds(q, n) => q = r
        BY <2>1, <3>1 DEF HoldersAlone
      <3>3. QED
        BY <1>7, <3>1, <3>2 DEF Known
    <2>2. QED
      BY <2>1 DEF HoldersAlone, Holds
  <1>13. ~admitted.harmed => \A r \in sends : r.at # "reading"
    BY <1>1 DEF ReaderFirst
  <1>14. ReaderFirst'
    <2>1. ledger.loaded
      BY DEF ReaderFirst
    <2>2. \A r \in sends' : r.at = "reading" => r \in sends
      BY <1>4, <1>5
    <2>3. \A r \in sends' : r.at = "reading" => \A q \in sends' : q.at = "reading" => q = r
      BY <2>2 DEF ReaderFirst
    <2>4. QED
      BY <1>7, <1>8, <1>13, <2>1, <2>2, <2>3 DEF ReaderFirst
  <1>15. WritersWrite'
    <2>1. \A r : r.at = "writing" => (r \in sends' <=> r \in sends)
      BY <1>1, <1>4, <1>5
    <2>2. QED
      BY <1>1, <1>8, <2>1, WritersStay
  <1>16. \A n \in Nonces : /\ admitted.dispatched[n] \in Nat /\ admitted.cleared[n] \in Nat
                           /\ admitted'.dispatched[n] = admitted.dispatched[n] /\ admitted.cleared[n] <= admitted'.cleared[n]
                           /\ n = s.nonce /\ x = None => admitted'.cleared[n] = admitted.cleared[n] + 1
    BY <1>6, <1>8 DEF LedgerTyped
  <1>17. MemoryAccounts'
    <2> SUFFICES ASSUME ~admitted.harmed, NEW n \in Nonces
                 PROVE  /\ Accounts(ledger.records, n)'
                        /\ \A r \in sends' : Holds(r, n) /\ r.at # "dispatched" =>
                              admitted'.dispatched[n] <= admitted'.cleared[n]
      BY <1>8 DEF MemoryAccounts, Holds
    <2>1. ledger.loaded
      BY DEF ReaderFirst
    <2>2. /\ Accounts(ledger.records, n)
          /\ \A r \in sends : Holds(r, n) /\ r.at # "dispatched" => admitted.dispatched[n] <= admitted.cleared[n]
      BY <1>13, <2>1 DEF MemoryAccounts
    <2>3. admitted'.cleared[n] \in Nat
      BY <1>8
    <2>4. admitted'.dispatched[n] <= admitted'.cleared[n] + 1
      BY <1>16, <2>2, <2>3 DEF Accounts
    <2>5. ledger'.records[n] = None => admitted'.dispatched[n] <= admitted'.cleared[n]
      BY <1>7, <1>16, <2>2, <2>3 DEF Accounts
    <2>6. \A r \in sends' : Holds(r, n) /\ r.at # "dispatched" => admitted'.dispatched[n] <= admitted'.cleared[n]
      BY <1>11, <1>16, <2>2, <2>3
    <2>7. QED
      BY <2>4, <2>5, <2>6 DEF Accounts
  <1>18. FileAccounts'
    <2>1. \A n \in Nonces : /\ admitted.dispatched[n] <= admitted.cleared[n] + 1 => admitted'.dispatched[n] <= admitted'.cleared[n] + 1
                            /\ admitted.dispatched[n] <= admitted.cleared[n] => admitted'.dispatched[n] <= admitted'.cleared[n]
      <3>1. \A n \in Nonces : admitted'.cleared[n] \in Nat
        BY <1>8
      <3>2. QED
        BY <1>16, <3>1
    <2>3. ~admitted.harmed /\ ledgerFile.writing = {} =>
             ledgerFile.text # Torn /\ \A n \in Nonces : Accounts(ledgerFile.text, n)'
      <3> SUFFICES ASSUME ~admitted.harmed, ledgerFile.writing = {}, NEW n \in Nonces
                   PROVE  ledgerFile.text # Torn /\ Accounts(ledgerFile.text, n)'
        BY DEF FileAccounts
      <3>1. ledgerFile.text # Torn /\ Accounts(ledgerFile.text, n)
        BY DEF FileAccounts
      <3>2. Accounts(ledgerFile.text, n)'
        BY <1>1, <2>1, <3>1 DEF Accounts
      <3>3. QED
        BY <3>1, <3>2
    <2>4. ASSUME ~admitted.harmed, NEW w \in ledgerFile.writing, NEW n \in Nonces
          PROVE  /\ Accounts(w.snap, n)'
                 /\ \A r \in sends' : r.id = w.by /\ Holds(r, n) =>
                      w.snap[n] # None /\ admitted'.dispatched[n] <= admitted'.cleared[n]
      <3>1. /\ Accounts(w.snap, n)
            /\ \A r \in sends : r.id = w.by /\ Holds(r, n) =>
                 w.snap[n] # None /\ admitted.dispatched[n] <= admitted.cleared[n]
        BY <2>4 DEF FileAccounts
      <3>2. Accounts(w.snap, n)'
        BY <2>1, <3>1 DEF Accounts
      <3>3. QED
        BY <1>11, <2>1, <3>1, <3>2
    <2>5. QED
      BY <1>1, <1>8, <2>3, <2>4 DEF FileAccounts, Holds, Accounts
  <1>19. QED
    BY <1>9, <1>12, <1>14, <1>15, <1>17, <1>18

\* The host starts again.
LEMMA RestartKeepsLedger ==
    ASSUME LedgerInv, LedgerRestarts
    PROVE  LedgerInv'
  <1> USE DEF LedgerInv
  <1>1. sends' = {}
    BY DEF LedgerRestarts
  <1>2. NoRecords \in Snapshots
    BY DEF NoRecords, Snapshots
  <1>3. /\ ledger' \in [records : Snapshots, loaded : BOOLEAN, sends : Nat, restarts : Nat]
        /\ ledger'.records = NoRecords /\ ledger'.loaded = FALSE
    <2>1. ledger.restarts + 1 \in Nat
      BY DEF LedgerTyped
    <2>2. PICK k \in Nat, R \in Snapshots : k = ledger.restarts + 1 /\ R = NoRecords
      BY <1>2, <2>1
    <2>3. ledger' = [ledger EXCEPT !.records = R, !.loaded = FALSE, !.restarts = k]
      BY <2>2 DEF LedgerRestarts
    <2>4. QED
      BY <2>2, <2>3 DEF LedgerTyped
  <1>4. PICK text \in Snapshots \cup {Torn} : text = IF ledgerFile.writing = {} THEN ledgerFile.text ELSE Torn
    BY DEF LedgerTyped
  <1>5. ledgerFile' = [text |-> text, writing |-> {}, mixed |-> FALSE]
    BY <1>4 DEF LedgerRestarts, Abandoned, NewFile
  <1>6. PICK h \in BOOLEAN : h <=> (admitted.harmed \/ ledgerFile.writing # {})
    OBVIOUS
  <1>7. /\ admitted' \in [dispatched : [Nonces -> Nat], cleared : [Nonces -> Nat], harmed : BOOLEAN]
        /\ admitted'.dispatched = admitted.dispatched /\ admitted'.cleared = admitted.cleared
        /\ admitted'.harmed = h
    <2>1. admitted.harmed \in BOOLEAN
      BY DEF LedgerTyped
    <2>2. h = (admitted.harmed \/ ledgerFile.writing # {})
      BY <1>6, <2>1
    <2>3. admitted' = [admitted EXCEPT !.harmed = h]
      BY <2>2 DEF LedgerRestarts
    <2>4. QED
      BY <2>3 DEF LedgerTyped
  <1>8. LedgerTyped'
    BY <1>1, <1>3, <1>5, <1>7 DEF LedgerTyped, SendsTyped
  <1>9. HoldersAlone' /\ ReaderFirst'
    BY <1>1, <1>3 DEF HoldersAlone, ReaderFirst
  <1>10. WritersWrite'
    BY <1>1, <1>5 DEF WritersWrite
  <1>11. MemoryAccounts'
    BY <1>3 DEF MemoryAccounts
  <1>12. FileAccounts'
    <2>1. ~h => ~admitted.harmed /\ ledgerFile.writing = {}
      BY <1>6
    <2>2. ~h => text # Torn /\ \A n \in Nonces : Accounts(text, n)
      BY <1>4, <2>1 DEF FileAccounts
    <2>3. QED
      BY <1>5, <1>7, <2>2 DEF FileAccounts, Accounts
  <1>13. QED
    BY <1>8, <1>9, <1>10, <1>11, <1>12

\* What the records and the file account for, in every state.
THEOREM LedgerInvariant == LedgerSpec => []LedgerInv
  <1>1. LedgerInv /\ [LedgerNext]_ledgerVars => LedgerInv'
    <2> SUFFICES ASSUME LedgerInv, [LedgerNext]_ledgerVars PROVE LedgerInv'
      OBVIOUS
    <2>1. CASE UNCHANGED ledgerVars
      BY <2>1 DEF ledgerVars, LedgerInv, LedgerTyped, SendsTyped, HoldersAlone, Known, ReaderFirst, WritersWrite,
                  MemoryAccounts, FileAccounts, Accounts
    <2>2. CASE LedgerNext
      BY <2>2, ArrivalKeepsLedger, LoadKeepsLedger, AdmitKeepsLedger, OpenKeepsLedger, WriteKeepsLedger,
         SettleKeepsLedger, RestartKeepsLedger DEF LedgerNext
    <2>3. QED
      BY <2>1, <2>2
  <1>2. QED
    BY LedgerStart, <1>1, PTL DEF LedgerSpec

\* A nonce is dispatched once, and once more for every time it was cleared, for any sends,
\* retries and restarts, unless the file let the ledger down.
THEOREM SentOnce == LedgerSpec => []SentOncePerNonce
  <1>1. LedgerInv => SentOncePerNonce
    <2> SUFFICES ASSUME LedgerInv, ~admitted.harmed, NEW n \in Nonces
                 PROVE  admitted.dispatched[n] <= 1 + admitted.cleared[n]
      BY DEF SentOncePerNonce
    <2>0. admitted.dispatched[n] \in Nat /\ admitted.cleared[n] \in Nat
      BY DEF LedgerInv, LedgerTyped
    <2>1. CASE ledger.loaded /\ \A s \in sends : s.at # "reading"
      BY <2>0, <2>1 DEF LedgerInv, MemoryAccounts, Accounts
    <2>2. CASE ~(ledger.loaded /\ \A s \in sends : s.at # "reading")
      <3>1. \A s \in sends : s.at # "writing"
        BY <2>2 DEF LedgerInv, ReaderFirst
      <3>2. ledgerFile.writing = {}
        BY <3>1 DEF LedgerInv, WritersWrite
      <3>3. QED
        BY <2>0, <3>2 DEF LedgerInv, FileAccounts, Accounts
    <2>3. QED
      BY <2>1, <2>2
  <1>2. QED
    BY <1>1, LedgerInvariant, PTL

-----------------------------------------------------------------------------
(* The transcript: transcript.ts                                             *)

TranscriptSpec == TranscriptInit /\ [][TranscriptNext]_transcriptVars

Apart(a, b, es) == Contents(a) \cap Contents(b) \cap es = {}

Transcripts == [entries : Seq(Entries), loaded : BOOLEAN, rewrites : Nat, restarts : Nat]
LineFiles == [lines : Seq(Lines), ended : BOOLEAN]
Appends == [kind : {"append"}, batch : Seq(Entries) \ {<<>>}, at : {"mkdir"}]
Rewrites == [kind : {"rewrite"}, batch : Seq(Nat), at : {"mkdir"}] \cup [kind : {"rewrite"}, batch : Seq(Entries), at : {"opened"}]
Ghosts == [fresh : SUBSET Entries, acked : SUBSET Entries, collided : BOOLEAN]

TranscriptTyped ==
    /\ transcript \in Transcripts /\ jsonl \in LineFiles
    /\ persists \subseteq Appends \cup Rewrites
    /\ kept \in Ghosts
    /\ persists # {} => transcript.loaded

\* A rewrite is alone, and writes what is in the store to an empty file.
RewriteIsAlone ==
    \A p \in persists : p.kind = "rewrite" =>
        /\ persists = {p}
        /\ p.at = "opened" => p.batch = transcript.entries /\ jsonl.lines = <<>> /\ jsonl.ended

\* No entry is twice in the store, in the file, or on its way to it.
EntriesAreApart ==
    /\ EachOnce(transcript.entries, Entries)
    /\ Rewriting \/ EachOnce(jsonl.lines, Entries)
    /\ \A p \in persists : p.kind = "append" =>
          /\ EachOnce(p.batch, Entries)
          /\ Apart(p.batch, jsonl.lines, Entries)
          /\ Contents(p.batch) \subseteq Contents(transcript.entries)
          /\ \A q \in persists : q.kind = "append" /\ q # p => Apart(p.batch, q.batch, Entries)

FreshAreNowhere == kept.fresh \cap (Contents(transcript.entries) \cup Contents(jsonl.lines)) = {}

AckedAreThere ==
    /\ Rewriting \/ kept.acked \subseteq Contents(jsonl.lines)
    /\ transcript.loaded => kept.acked \subseteq Contents(transcript.entries)

EndsTorn(file) == file.lines # <<>> /\ file.lines[Len(file.lines)] = Corrupt
TornIsLast == ~jsonl.ended => EndsTorn(jsonl)

TranscriptSound == RewriteIsAlone /\ EntriesAreApart /\ FreshAreNowhere /\ AckedAreThere
TranscriptInv == TranscriptTyped /\ TornIsLast /\ (~kept.collided => TranscriptSound)

-----------------------------------------------------------------------------
(* Lines *)

\* What becomes of a and b in c.
Joined(a, b, c, es) ==
    /\ Contents(c) = Contents(a) \cup Contents(b)
    /\ b # <<>> => c # <<>> /\ c[Len(c)] = b[Len(b)]
    /\ EachOnce(a, es) /\ EachOnce(b, es) /\ Apart(a, b, es) => EachOnce(c, es)

LEMMA ConcatGives ==
    ASSUME NEW T, NEW a \in Seq(T), NEW b \in Seq(T), NEW c, c = a \o b, NEW es
    PROVE  c \in Seq(T) /\ Joined(a, b, c, es)
  <1>1. /\ Len(a) \in Nat /\ Len(b) \in Nat /\ DOMAIN a = 1..Len(a) /\ DOMAIN b = 1..Len(b)
    BY LenProperties
  <1>2. /\ c \in Seq(T) /\ Len(c) = Len(a) + Len(b) /\ DOMAIN c = 1..(Len(a) + Len(b))
        /\ \A i \in 1..(Len(a) + Len(b)) : c[i] = IF i <= Len(a) THEN a[i] ELSE b[i - Len(a)]
    BY <1>1, ConcatProperties, LenProperties
  <1>3. \A i \in DOMAIN c : \/ i \in DOMAIN a /\ c[i] = a[i]
                            \/ i - Len(a) \in DOMAIN b /\ c[i] = b[i - Len(a)]
    BY <1>1, <1>2
  <1>4. /\ \A i \in DOMAIN a : i \in DOMAIN c /\ c[i] = a[i]
        /\ \A i \in DOMAIN b : i + Len(a) \in DOMAIN c /\ c[i + Len(a)] = b[i]
    BY <1>1, <1>2
  <1>5. Contents(c) = Contents(a) \cup Contents(b)
    <2>1. Contents(c) \subseteq Contents(a) \cup Contents(b)
      BY <1>3 DEF Contents
    <2>2. Contents(a) \subseteq Contents(c) /\ Contents(b) \subseteq Contents(c)
      BY ZenonT(30), SMTT(30), <1>4 DEF Contents
    <2>3. QED
      BY <2>1, <2>2
  <1>6. b # <<>> => c # <<>> /\ c[Len(c)] = b[Len(b)]
    <2>1. b # <<>> => Len(b) \in DOMAIN b /\ Len(b) # 0
      BY <1>1, EmptySeq
    <2>2. c # <<>> <=> Len(c) # 0
      BY <1>2, EmptySeq
    <2>3. QED
      BY <1>1, <1>2, <1>4, <2>1, <2>2
  <1>7. ASSUME EachOnce(a, es), EachOnce(b, es), Contents(a) \cap Contents(b) \cap es = {},
               NEW i \in DOMAIN c, NEW j \in DOMAIN c, c[i] = c[j], c[i] \in es
        PROVE  i = j
    <2>0. i \in Nat /\ j \in Nat
      BY <1>1, <1>2
    <2>1. CASE i \in DOMAIN a /\ c[i] = a[i] /\ j \in DOMAIN a /\ c[j] = a[j]
      BY <1>7, <2>1 DEF EachOnce
    <2>2. CASE i \in DOMAIN a /\ c[i] = a[i] /\ j - Len(a) \in DOMAIN b /\ c[j] = b[j - Len(a)]
      BY <1>7, <2>2 DEF Contents
    <2>3. CASE j \in DOMAIN a /\ c[j] = a[j] /\ i - Len(a) \in DOMAIN b /\ c[i] = b[i - Len(a)]
      BY <1>7, <2>3 DEF Contents
    <2>4. CASE i - Len(a) \in DOMAIN b /\ c[i] = b[i - Len(a)] /\ j - Len(a) \in DOMAIN b /\ c[j] = b[j - Len(a)]
      <3>1. i - Len(a) = j - Len(a)
        BY <1>7, <2>4 DEF EachOnce
      <3>2. QED
        BY <1>1, <2>0, <3>1
    <2>5. QED
      BY <1>3, <2>1, <2>2, <2>3, <2>4
  <1>8. QED
    BY <1>2, <1>5, <1>6, <1>7 DEF EachOnce, Joined, Apart

\* What c has of a, from m to n.
PartOf(a, m, n, c, es) ==
    /\ Contents(c) \subseteq Contents(a) /\ \A i \in m..n : a[i] \in Contents(c)
    /\ EachOnce(a, es) => EachOnce(c, es)

LEMMA PartGives ==
    ASSUME NEW T, NEW a \in Seq(T), NEW m \in Nat \ {0}, NEW n \in Nat, n <= Len(a), NEW c, c = SubSeq(a, m, n), NEW es
    PROVE  c \in Seq(T) /\ PartOf(a, m, n, c, es)
  <1>1. Len(a) \in Nat /\ DOMAIN a = 1..Len(a)
    BY LenProperties
  <1>2. /\ c \in Seq(T) /\ Len(c) = (IF m <= n THEN n - m + 1 ELSE 0) /\ DOMAIN c = 1..Len(c)
        /\ \A i \in DOMAIN c : c[i] = a[m + i - 1]
    <2>1. c \in Seq(T)
      <3>1. \A i \in m..n : a[i] \in T
        BY <1>1, ElementOfSeq
      <3>2. QED
        BY <3>1, SubSeqProperties
    <2>2. QED
      BY <2>1, SubSeqProperties, LenProperties
  <1>3. \A i \in DOMAIN c : m + i - 1 \in DOMAIN a /\ m + i - 1 \in m..n
    BY <1>1, <1>2
  <1>4. \A i \in m..n : i - m + 1 \in DOMAIN c /\ c[i - m + 1] = a[i]
    BY <1>1, <1>2
  <1>5. EachOnce(a, es) => EachOnce(c, es)
    <2>1. ASSUME EachOnce(a, es), NEW i \in DOMAIN c, NEW j \in DOMAIN c, c[i] = c[j], c[i] \in es
          PROVE  i = j
      <3>1. m + i - 1 = m + j - 1
        BY <1>2, <1>3, <2>1 DEF EachOnce
      <3>2. i \in Nat /\ j \in Nat
        BY <1>2
      <3>3. QED
        BY <3>1, <3>2
    <2>2. QED
      BY <2>1 DEF EachOnce
  <1>6. Contents(c) \subseteq Contents(a)
    BY <1>2, <1>3 DEF Contents
  <1>7. \A i \in m..n : a[i] \in Contents(c)
    BY <1>4 DEF Contents
  <1>8. QED
    BY <1>2, <1>5, <1>6, <1>7 DEF PartOf

LEMMA SameContents == \A s : ToSet(s) = Contents(s)
  BY DEF ToSet, Contents

LEMMA OneGives ==
    ASSUME NEW T, NEW e \in T
    PROVE  <<e>> \in Seq(T) /\ Contents(<<e>>) = {e} /\ \A es : EachOnce(<<e>>, es)
  BY DEF Contents, EachOnce

\* The lines of a file whose last one may be torn are those before it and that one.
LEMMA FrontGives ==
    ASSUME NEW T, NEW a \in Seq(T), a # <<>>, NEW c, c = Front(a)
    PROVE  /\ c \in Seq(T) /\ Contents(a) = Contents(c) \cup {a[Len(a)]}
           /\ \A es : EachOnce(a, es) => EachOnce(c, es)
  <1>1. Len(a) \in Nat \ {0} /\ DOMAIN a = 1..Len(a)
    BY LenProperties, EmptySeq
  <1>2. PICK n \in Nat : n = Len(a) - 1
    <2>1. PICK l \in Nat \ {0} : l = Len(a)
      BY <1>1
    <2>2. l - 1 \in Nat
      OBVIOUS
    <2>3. QED
      BY <2>1, <2>2
  <1>3. c = SubSeq(a, 1, n) /\ n <= Len(a) /\ 1 \in Nat \ {0}
    BY <1>1, <1>2 DEF Front
  <1>4. /\ c \in Seq(T) /\ Contents(c) \subseteq Contents(a) /\ \A i \in 1..n : a[i] \in Contents(c)
        /\ \A es : EachOnce(a, es) => EachOnce(c, es)
    <2>1. \A es : c \in Seq(T) /\ PartOf(a, 1, n, c, es)
      BY <1>3, PartGives
    <2>2. QED
      BY <2>1 DEF PartOf
  <1>5. Contents(a) \subseteq Contents(c) \cup {a[Len(a)]}
    <2>1. \A i \in DOMAIN a : i \in 1..n \/ i = Len(a)
      BY <1>1, <1>2
    <2>2. QED
      BY <1>4, <2>1 DEF Contents
  <1>6. a[Len(a)] \in Contents(a)
    BY <1>1 DEF Contents
  <1>7. QED
    BY <1>4, <1>5, <1>6

LEMMA TailGives ==
    ASSUME NEW T, NEW a \in Seq(T), a # <<>>, NEW c, c = Tail(a)
    PROVE  /\ c \in Seq(T) /\ Contents(c) \subseteq Contents(a)
           /\ \A es : EachOnce(a, es) => EachOnce(c, es)
           /\ c # <<>> => c[Len(c)] = a[Len(a)]
  <1>1. Len(a) \in Nat \ {0} /\ DOMAIN a = 1..Len(a)
    BY LenProperties, EmptySeq
  <1>2. c \in Seq(T) /\ Len(c) = Len(a) - 1 /\ \A i \in 1..Len(c) : c[i] = a[i + 1]
    BY HeadTailProperties
  <1>3. DOMAIN c = 1..Len(c) /\ Len(c) \in Nat
    BY <1>2, LenProperties
  <1>4. \A i \in DOMAIN c : i + 1 \in DOMAIN a /\ c[i] = a[i + 1]
    BY <1>1, <1>2, <1>3
  <1>5. Contents(c) \subseteq Contents(a)
    BY <1>4 DEF Contents
  <1>6. ASSUME NEW es, EachOnce(a, es) PROVE EachOnce(c, es)
    <2>1. ASSUME NEW i \in DOMAIN c, NEW j \in DOMAIN c, c[i] = c[j], c[i] \in es
          PROVE  i = j
      <3>1. i + 1 = j + 1
        BY <1>4, <1>6, <2>1 DEF EachOnce
      <3>2. i \in Nat /\ j \in Nat
        BY <1>3
      <3>3. QED
        BY <3>1, <3>2
    <2>2. QED
      BY <2>1 DEF EachOnce
  <1>7. ASSUME c # <<>> PROVE c[Len(c)] = a[Len(a)]
    <2>1. Len(c) # 0
      BY <1>2, <1>7, EmptySeq
    <2>2. QED
      BY <1>1, <1>2, <1>3, <2>1
  <1>8. QED
    BY <1>2, <1>5, <1>6, <1>7

\* What an append leaves: the entries there were, those it wrote, and no torn line.
Grown(file, batch, wrote, f) ==
    /\ f \in LineFiles /\ f.ended
    /\ batch[Len(batch)] = Corrupt => EndsTorn(f)
    /\ Contents(f.lines) \cap Entries = (Contents(file.lines) \cup Contents(wrote)) \cap Entries
    /\ Contents(wrote) \subseteq Contents(batch)
    /\ EachOnce(file.lines, Entries) /\ EachOnce(batch, Entries) /\ Apart(file.lines, batch, Entries) => EachOnce(f.lines, Entries)

LEMMA ExtendedGives ==
    ASSUME NEW file \in LineFiles, ~file.ended => EndsTorn(file),
           NEW batch \in Seq(Lines), batch # <<>>,
           NEW wrote, wrote = IF file.ended THEN batch ELSE Tail(batch), NEW f, f = Extended(file, batch)
    PROVE  Grown(file, batch, wrote, f)
  <1>1. CASE file.ended
    <2>1. PICK ls \in Seq(Lines) : ls = file.lines
      BY DEF LineFiles
    <2>2. PICK new : new = ls \o batch
      OBVIOUS
    <2>3. f.lines = new /\ f.ended = TRUE /\ f = [lines |-> new, ended |-> TRUE]
      BY <1>1, <2>1, <2>2 DEF Extended
    <2>4. /\ new \in Seq(Lines) /\ Contents(new) = Contents(ls) \cup Contents(batch)
          /\ new # <<>> /\ new[Len(new)] = batch[Len(batch)]
          /\ EachOnce(ls, Entries) /\ EachOnce(batch, Entries) /\ Contents(ls) \cap Contents(batch) \cap Entries = {} => EachOnce(new, Entries)
      <3>1. new \in Seq(Lines) /\ Joined(ls, batch, new, Entries)
        BY <2>2, ConcatGives
      <3>2. QED
        BY <3>1 DEF Joined, Apart
    <2>5. f \in LineFiles
      BY <2>3, <2>4 DEF LineFiles
    <2>6. wrote = batch
      BY <1>1
    <2>7. QED
      BY <2>1, <2>3, <2>4, <2>5, <2>6 DEF Grown, EndsTorn, Apart
  <1>2. CASE ~file.ended
    <2>1. PICK ls \in Seq(Lines) : ls = file.lines /\ ls # <<>> /\ ls[Len(ls)] = Corrupt
      BY <1>2 DEF LineFiles, EndsTorn
    <2>2. PICK front : front = Front(ls)
      OBVIOUS
    <2>3. /\ front \in Seq(Lines) /\ Contents(ls) = Contents(front) \cup {Corrupt}
          /\ EachOnce(ls, Entries) => EachOnce(front, Entries)
      BY <2>1, <2>2, FrontGives
    <2>4. wrote = Tail(batch)
      BY <1>2
    <2>5. /\ wrote \in Seq(Lines) /\ Contents(wrote) \subseteq Contents(batch)
          /\ EachOnce(batch, Entries) => EachOnce(wrote, Entries)
          /\ wrote # <<>> => wrote[Len(wrote)] = batch[Len(batch)]
      BY <2>4, TailGives
    <2>6. PICK torn \in Seq(Lines) : torn = <<Corrupt>> /\ Contents(torn) = {Corrupt} /\ \A es : EachOnce(torn, es)
      <3>1. Corrupt \in Lines
        BY DEF Lines
      <3>2. QED
        BY <3>1, OneGives
    <2>7. PICK base : base = front \o torn
      OBVIOUS
    <2>8. /\ base \in Seq(Lines) /\ Contents(base) = Contents(front) \cup Contents(torn)
          /\ torn # <<>> /\ base # <<>> /\ base[Len(base)] = Corrupt
          /\ EachOnce(front, Entries) /\ EachOnce(torn, Entries) /\ Contents(front) \cap Contents(torn) \cap Entries = {} => EachOnce(base, Entries)
      <3>1. torn # <<>> /\ torn[Len(torn)] = Corrupt
        BY <2>6
      <3>2. base \in Seq(Lines) /\ Joined(front, torn, base, Entries)
        BY <2>3, <2>6, <2>7, ConcatGives
      <3>3. QED
        BY <3>1, <3>2 DEF Joined, Apart
    <2>9. Contents(front) \cap Contents(torn) \cap Entries = {}
      BY <2>6, TranscriptAssumption
    <2>10. PICK new : new = base \o wrote
      OBVIOUS
    <2>11. /\ new \in Seq(Lines) /\ Contents(new) = Contents(base) \cup Contents(wrote)
           /\ wrote # <<>> => new # <<>> /\ new[Len(new)] = wrote[Len(wrote)]
           /\ EachOnce(base, Entries) /\ EachOnce(wrote, Entries) /\ Contents(base) \cap Contents(wrote) \cap Entries = {} => EachOnce(new, Entries)
      <3>1. new \in Seq(Lines) /\ Joined(base, wrote, new, Entries)
        BY <2>5, <2>8, <2>10, ConcatGives
      <3>2. QED
        BY <3>1 DEF Joined, Apart
    <2>12. wrote = <<>> => new = base
      BY <2>8, <2>10, ConcatEmptySeq
    <2>13. f = [lines |-> new, ended |-> TRUE]
      BY <1>2, <2>1, <2>2, <2>4, <2>6, <2>7, <2>10 DEF Extended
    <2>14. f \in LineFiles /\ f.ended /\ f.lines = new
      BY <2>11, <2>13 DEF LineFiles
    <2>15. new # <<>> /\ (batch[Len(batch)] = Corrupt => new[Len(new)] = Corrupt)
      BY <2>5, <2>8, <2>11, <2>12
    <2>16. Contents(new) = Contents(ls) \cup Contents(wrote)
      BY <2>3, <2>6, <2>8, <2>11
    <2>17. ASSUME EachOnce(ls, Entries), EachOnce(batch, Entries), Contents(ls) \cap Contents(batch) \cap Entries = {}
           PROVE  EachOnce(new, Entries)
      <3>1. EachOnce(base, Entries)
        BY <2>3, <2>6, <2>8, <2>9, <2>17
      <3>2. EachOnce(wrote, Entries)
        BY <2>5, <2>17
      <3>3. Contents(base) \cap Contents(wrote) \cap Entries = {}
        BY <2>3, <2>5, <2>6, <2>8, <2>17
      <3>4. QED
        BY <2>11, <3>1, <3>2, <3>3
    <2>18. QED
      BY <2>1, <2>5, <2>14, <2>15, <2>16, <2>17 DEF Grown, EndsTorn, Apart
  <1>3. QED
    BY <1>1, <1>2

-----------------------------------------------------------------------------
(* The steps *)

LEMMA TranscriptStart == ASSUME TranscriptInit PROVE TranscriptInv
  <1>1. <<>> \in Seq(Entries) /\ <<>> \in Seq(Lines) /\ Contents(<<>>) = {} /\ EachOnce(<<>>, Entries)
    BY EmptySeq DEF Contents, EachOnce
  <1>2. TranscriptTyped /\ TornIsLast
    BY <1>1 DEF TranscriptInit, TranscriptTyped, TornIsLast, Transcripts, LineFiles, Ghosts
  <1>3. TranscriptSound
    BY <1>1 DEF TranscriptInit, TranscriptSound, RewriteIsAlone, EntriesAreApart, FreshAreNowhere, AckedAreThere, Rewriting
  <1>4. QED
    BY <1>2, <1>3 DEF TranscriptInv

LEMMA LoadKeeps == ASSUME TranscriptInv, LoadTranscript PROVE TranscriptInv'
  <1>1. /\ transcript \in Transcripts /\ jsonl \in LineFiles /\ persists = {} /\ ~transcript.loaded
        /\ jsonl' = jsonl /\ persists' = persists /\ kept' = kept /\ kept \in Ghosts
    BY DEF LoadTranscript, TranscriptInv, TranscriptTyped
  <1>2. PICK lines \in Seq(Lines) : lines = jsonl.lines
    BY <1>1 DEF LineFiles
  <1>3. PICK es : es = Among(lines, Entries)
    OBVIOUS
  <1>4. /\ es \in Seq(Entries) /\ Contents(es) = Contents(lines) \cap Entries
        /\ EachOnce(lines, Entries) => EachOnce(es, Entries)
    <2>1. /\ es \in Seq(Lines) /\ Contents(es) = Contents(lines) \cap Entries
          /\ EachOnce(lines, Entries) => NoneTwice(es)
      BY <1>3, AmongGives
    <2>2. DOMAIN es = 1..Len(es) /\ Len(es) \in Nat /\ \A i \in DOMAIN es : es[i] \in Entries
      BY <2>1, LenProperties DEF Contents
    <2>3. es \in Seq(Entries)
      <3>1. es \in [1..Len(es) -> Entries]
        BY <2>1, <2>2
      <3>2. QED
        BY <2>2, <3>1
    <2>4. QED
      BY <2>1, <2>3 DEF NoneTwice, EachOnce
  <1>5. transcript' = [transcript EXCEPT !.loaded = TRUE, !.entries = es]
    BY <1>2, <1>3 DEF LoadTranscript, Loadable
  <1>6. transcript' \in Transcripts /\ transcript'.entries = es /\ transcript'.loaded
    BY <1>1, <1>4, <1>5 DEF Transcripts
  <1>7. TranscriptTyped' /\ TornIsLast'
    BY <1>1, <1>6 DEF TranscriptInv, TranscriptTyped, TornIsLast, EndsTorn
  <1>8. ASSUME ~kept'.collided PROVE TranscriptSound'
    <2>1. /\ EachOnce(lines, Entries) /\ kept.acked \subseteq Contents(lines) /\ kept.fresh \cap Contents(lines) = {}
      BY <1>1, <1>2, <1>8 DEF TranscriptInv, TranscriptSound, EntriesAreApart, FreshAreNowhere, AckedAreThere, Rewriting
    <2>2. kept.acked \subseteq Contents(es)
      BY <1>1, <1>4, <2>1 DEF Ghosts
    <2>3. QED
      BY <1>1, <1>2, <1>4, <1>6, <2>1, <2>2
      DEF TranscriptSound, RewriteIsAlone, EntriesAreApart, FreshAreNowhere, AckedAreThere, Rewriting
  <1>9. QED
    BY <1>7, <1>8 DEF TranscriptInv

LEMMA AppendEntriesKeeps ==
    ASSUME TranscriptInv, NEW new, AppendEntries(new)
    PROVE  TranscriptInv'
  <1>1. /\ transcript \in Transcripts /\ jsonl \in LineFiles /\ persists \subseteq Appends \cup Rewrites /\ kept \in Ghosts
        /\ transcript.loaded /\ new # {} /\ new \subseteq kept.fresh /\ new \subseteq Entries /\ jsonl' = jsonl
    BY DEF AppendEntries, TranscriptInv, TranscriptTyped, Ghosts
  <1>2. PICK batch \in InOrder(new) :
            /\ transcript' = [transcript EXCEPT !.entries = @ \o batch]
            /\ persists' = persists \cup {[kind |-> "append", batch |-> batch, at |-> "mkdir"]}
    BY DEF AppendEntries
  <1>3. /\ batch \in Seq(Entries) \ {<<>>} /\ Contents(batch) \subseteq new /\ EachOnce(batch, Entries)
    <2>1. PICK n \in Nat \ {0} : n = Cardinality(new)
      <3>1. IsFiniteSet(new)
        BY <1>1, TranscriptAssumption, FS_Subset
      <3>2. Cardinality(new) \in Nat /\ Cardinality(new) # 0
        BY <1>1, <3>1, FS_CardinalityType, FS_EmptySet
      <3>3. QED
        BY <3>2
    <2>2. batch \in [1..n -> new] /\ \A i, j \in 1..n : i # j => batch[i] # batch[j]
      BY <1>2, <2>1 DEF InOrder, SetToSeqs
    <2>3. batch \in [1..n -> Entries] /\ DOMAIN batch = 1..n
      BY <1>1, <2>2
    <2>4. batch \in Seq(Entries) /\ Len(batch) = n
      BY <2>1, <2>3
    <2>5. batch # <<>>
      BY <2>1, <2>4, EmptySeq
    <2>6. Contents(batch) \subseteq new
      BY <2>2, <2>3 DEF Contents
    <2>7. EachOnce(batch, Entries)
      BY <2>2, <2>3 DEF EachOnce
    <2>8. QED
      BY <2>4, <2>5, <2>6, <2>7
  <1>4. PICK p \in Appends : p = [kind |-> "append", batch |-> batch, at |-> "mkdir"] /\ p.kind = "append" /\ p.batch = batch
    <2>1. [kind |-> "append", batch |-> batch, at |-> "mkdir"] \in Appends
      BY <1>3 DEF Appends
    <2>2. QED
      BY <2>1
  <1>5. PICK old \in Seq(Entries) : old = transcript.entries
    BY <1>1 DEF Transcripts
  <1>6. PICK es : es = old \o batch
    OBVIOUS
  <1>7. es \in Seq(Entries) /\ Joined(old, batch, es, Entries)
    BY <1>3, <1>5, <1>6, ConcatGives
  <1>8. transcript' \in Transcripts /\ transcript'.entries = es /\ transcript'.loaded
    BY <1>1, <1>2, <1>5, <1>6, <1>7 DEF Transcripts
  <1>9. persists' = persists \cup {p}
    BY <1>2, <1>4
  <1>10. PICK fresh \in SUBSET Entries : fresh = kept.fresh \ new
    BY <1>1 DEF Ghosts
  <1>11. /\ kept' \in Ghosts /\ kept'.fresh = kept.fresh \ new /\ kept'.acked = kept.acked
         /\ ~kept'.collided => ~kept.collided /\ ~Rewriting
    <2>1. PICK c \in BOOLEAN : c <=> (kept.collided \/ Rewriting)
      OBVIOUS
    <2>2. kept' = [kept EXCEPT !.fresh = @ \ new, !.collided = @ \/ Rewriting]
      BY DEF AppendEntries
    <2>3. QED
      BY <1>1, <2>2 DEF Ghosts
  <1>12. TranscriptTyped' /\ TornIsLast'
    BY <1>1, <1>4, <1>8, <1>9, <1>11 DEF TranscriptInv, TranscriptTyped, TornIsLast, EndsTorn
  <1>13. ASSUME ~kept'.collided PROVE TranscriptSound'
    <2>1. /\ ~Rewriting /\ EachOnce(old, Entries) /\ EachOnce(jsonl.lines, Entries)
          /\ kept.fresh \cap (Contents(old) \cup Contents(jsonl.lines)) = {}
          /\ kept.acked \subseteq Contents(jsonl.lines) /\ kept.acked \subseteq Contents(old)
          /\ EntriesAreApart
      BY <1>1, <1>5, <1>11, <1>13 DEF TranscriptInv, TranscriptSound, EntriesAreApart, FreshAreNowhere, AckedAreThere
    <2>2. \A q \in persists : q.kind # "rewrite"
      BY <2>1 DEF Rewriting
    <2>3. ~Rewriting' /\ RewriteIsAlone'
      BY <1>4, <1>9, <2>2 DEF Rewriting, RewriteIsAlone
    <2>4. Contents(batch) \cap (Contents(old) \cup Contents(jsonl.lines)) = {}
      BY <1>1, <1>3, <2>1
    <2>5. EachOnce(es, Entries) /\ Contents(es) = Contents(old) \cup Contents(batch)
      BY <1>3, <1>7, <2>1, <2>4 DEF Joined, Apart
    <2>6. ASSUME NEW q \in persists', q.kind = "append"
          PROVE  /\ EachOnce(q.batch, Entries) /\ Apart(q.batch, jsonl.lines, Entries) /\ Contents(q.batch) \subseteq Contents(es)
                 /\ \A r \in persists' : r.kind = "append" /\ r # q => Apart(q.batch, r.batch, Entries)
      <3>1. \A r \in persists : r.kind = "append" => Apart(batch, r.batch, Entries) /\ Apart(r.batch, batch, Entries)
        BY <1>5, <2>1, <2>4 DEF EntriesAreApart, Apart
      <3>2. CASE q \in persists
        BY <1>4, <1>5, <1>9, <2>1, <2>5, <2>6, <3>1, <3>2 DEF EntriesAreApart
      <3>3. CASE q = p
        BY <1>3, <1>4, <1>9, <2>4, <2>5, <3>1, <3>3 DEF Apart
      <3>4. QED
        BY <1>9, <2>6, <3>2, <3>3
    <2>7. EntriesAreApart'
      BY <1>1, <1>8, <2>1, <2>5, <2>6 DEF EntriesAreApart
    <2>8. FreshAreNowhere'
      BY <1>1, <1>3, <1>8, <1>11, <2>1, <2>5 DEF FreshAreNowhere
    <2>9. AckedAreThere'
      BY <1>1, <1>8, <1>11, <2>1, <2>5 DEF AckedAreThere
    <2>10. QED
      BY <2>3, <2>7, <2>8, <2>9 DEF TranscriptSound
  <1>14. QED
    BY <1>12, <1>13 DEF TranscriptInv

LEMMA AppendedKeeps ==
    ASSUME TranscriptInv, NEW p \in persists, Appended(p)
    PROVE  TranscriptInv'
  <1>1. /\ transcript \in Transcripts /\ jsonl \in LineFiles /\ kept \in Ghosts /\ p \in Appends /\ p.kind = "append"
        /\ persists \subseteq Appends \cup Rewrites
        /\ persists' = persists \ {p} /\ transcript' = transcript /\ transcript.loaded
    BY DEF Appended, TranscriptInv, TranscriptTyped, Rewrites
  <1>2. PICK batch \in Seq(Entries) : batch = p.batch /\ batch # <<>>
    BY <1>1 DEF Appends
  <1>3. PICK wrote \in Seq(Entries) : wrote = IF jsonl.ended THEN batch ELSE Tail(batch)
    BY <1>2, TailGives
  <1>4. PICK f : f = Extended(jsonl, batch)
    OBVIOUS
  <1>5. PICK wide \in Seq(Lines) : wide = batch
    BY <1>2 DEF Lines
  <1>6. /\ f \in LineFiles /\ f.ended
        /\ Contents(f.lines) \cap Entries = (Contents(jsonl.lines) \cup Contents(wrote)) \cap Entries
        /\ Contents(wrote) \subseteq Contents(batch)
        /\ EachOnce(jsonl.lines, Entries) /\ EachOnce(batch, Entries) /\ Contents(jsonl.lines) \cap Contents(batch) \cap Entries = {}
             => EachOnce(f.lines, Entries)
    <2>1. ~jsonl.ended => EndsTorn(jsonl)
      BY DEF TranscriptInv, TornIsLast
    <2>2. wrote = (IF jsonl.ended THEN wide ELSE Tail(wide)) /\ f = Extended(jsonl, wide) /\ wide # <<>>
      BY <1>2, <1>3, <1>4, <1>5
    <2>3. Grown(jsonl, wide, wrote, f)
      BY <1>1, <2>1, <2>2, ExtendedGives
    <2>4. QED
      BY <1>5, <2>3 DEF Grown, Apart
  <1>7. jsonl' = f
    BY <1>2, <1>4 DEF Appended
  <1>8. Contents(batch) \subseteq Entries /\ Contents(wrote) \subseteq Entries
    BY <1>2, <1>3 DEF Contents
  <1>9. PICK told \in SUBSET Entries : told = kept.acked \cup Contents(wrote)
    BY <1>1, <1>8 DEF Ghosts
  <1>10. kept' = [kept EXCEPT !.acked = told]
    BY <1>2, <1>3, <1>9, SameContents DEF Appended
  <1>11. kept' \in Ghosts /\ kept'.acked = kept.acked \cup Contents(wrote) /\ kept'.fresh = kept.fresh /\ kept'.collided = kept.collided
    BY <1>1, <1>9, <1>10 DEF Ghosts
  <1>12. TranscriptTyped' /\ TornIsLast'
    BY <1>1, <1>6, <1>7, <1>11 DEF TranscriptInv, TranscriptTyped, TornIsLast, EndsTorn
  <1>13. ASSUME ~kept'.collided PROVE TranscriptSound'
    <2>1. RewriteIsAlone /\ EntriesAreApart /\ FreshAreNowhere /\ AckedAreThere
      BY <1>11, <1>13 DEF TranscriptInv, TranscriptSound
    <2>2. \A q \in persists : q.kind # "rewrite"
      BY <1>1, <2>1 DEF RewriteIsAlone
    <2>3. ~Rewriting /\ ~Rewriting' /\ RewriteIsAlone'
      BY <1>1, <2>2 DEF Rewriting, RewriteIsAlone
    <2>4. /\ EachOnce(batch, Entries) /\ Apart(batch, jsonl.lines, Entries) /\ Contents(batch) \subseteq Contents(transcript.entries)
          /\ EachOnce(jsonl.lines, Entries) /\ EachOnce(transcript.entries, Entries)
      BY <1>1, <1>2, <2>1, <2>3 DEF EntriesAreApart
    <2>5. EachOnce(f.lines, Entries)
      BY <1>6, <2>4 DEF Apart
    <2>6. ASSUME NEW q \in persists', q.kind = "append"
          PROVE  /\ EachOnce(q.batch, Entries) /\ Apart(q.batch, f.lines, Entries) /\ Contents(q.batch) \subseteq Contents(transcript.entries)
                 /\ \A r \in persists' : r.kind = "append" /\ r # q => Apart(q.batch, r.batch, Entries)
      <3>1. q \in persists /\ q # p /\ \A r \in persists' : r \in persists
        BY <1>1
      <3>2. Apart(q.batch, batch, Entries) /\ Apart(q.batch, jsonl.lines, Entries)
        BY <1>1, <1>2, <2>1, <2>6, <3>1 DEF EntriesAreApart
      <3>3. Apart(q.batch, f.lines, Entries)
        BY <1>6, <3>2 DEF Apart
      <3>4. QED
        BY <2>1, <2>6, <3>1, <3>3 DEF EntriesAreApart
    <2>7. EntriesAreApart'
      BY <1>1, <1>7, <2>4, <2>5, <2>6 DEF EntriesAreApart
    <2>8. FreshAreNowhere'
      <3>1. kept.fresh \subseteq Entries /\ kept.fresh \cap Contents(wrote) = {}
        BY <1>1, <1>6, <2>1, <2>4 DEF FreshAreNowhere, Ghosts
      <3>2. QED
        BY <1>1, <1>6, <1>7, <1>11, <2>1, <3>1 DEF FreshAreNowhere
    <2>9. AckedAreThere'
      <3>1. kept.acked \subseteq Contents(jsonl.lines) /\ kept.acked \subseteq Entries /\ kept.acked \subseteq Contents(transcript.entries)
        BY <1>1, <2>1, <2>3 DEF AckedAreThere, Ghosts
      <3>2. QED
        BY <1>1, <1>6, <1>7, <1>8, <1>11, <2>4, <3>1 DEF AckedAreThere
    <2>10. QED
      BY <2>3, <2>7, <2>8, <2>9 DEF TranscriptSound
  <1>14. QED
    BY <1>12, <1>13 DEF TranscriptInv

LEMMA RemoveEntriesKeeps ==
    ASSUME TranscriptInv, NEW gone, RemoveEntries(gone)
    PROVE  TranscriptInv'
  <1>1. /\ transcript \in Transcripts /\ jsonl \in LineFiles /\ kept \in Ghosts /\ persists \subseteq Appends \cup Rewrites
        /\ transcript.loaded /\ jsonl' = jsonl
    BY DEF RemoveEntries, TranscriptInv, TranscriptTyped
  <1>2. PICK old \in Seq(Entries) : old = transcript.entries
    BY <1>1 DEF Transcripts
  <1>3. PICK es : es = Among(old, Entries \ gone)
    OBVIOUS
  <1>4. /\ es \in Seq(Entries) /\ Contents(es) = Contents(old) \cap (Entries \ gone)
        /\ EachOnce(old, Entries) => EachOnce(es, Entries)
    <2>1. /\ es \in Seq(Entries) /\ Contents(es) = Contents(old) \cap (Entries \ gone)
          /\ EachOnce(old, Entries \ gone) => NoneTwice(es)
      BY <1>2, <1>3, AmongGives
    <2>2. EachOnce(old, Entries) => EachOnce(old, Entries \ gone)
      BY DEF EachOnce
    <2>3. NoneTwice(es) => EachOnce(es, Entries)
      BY DEF NoneTwice, EachOnce
    <2>4. QED
      BY <2>1, <2>2, <2>3
  <1>5. PICK n \in Nat : n = transcript.rewrites
    BY <1>1 DEF Transcripts
  <1>6. PICK m \in Nat : m = n + 1
    OBVIOUS
  <1>7. transcript' = [transcript EXCEPT !.entries = es, !.rewrites = m]
    BY <1>2, <1>3, <1>5, <1>6 DEF RemoveEntries
  <1>8. transcript' \in Transcripts /\ transcript'.entries = es /\ transcript'.loaded
    BY <1>1, <1>4, <1>7 DEF Transcripts
  <1>9. PICK r \in Rewrites : r = [kind |-> "rewrite", batch |-> <<n>>, at |-> "mkdir"] /\ r.kind = "rewrite" /\ r.at = "mkdir"
    <2>1. <<n>> \in Seq(Nat)
      BY <1>5
    <2>2. [kind |-> "rewrite", batch |-> <<n>>, at |-> "mkdir"] \in Rewrites
      BY <2>1 DEF Rewrites
    <2>3. QED
      BY <2>2
  <1>10. persists' = persists \cup {r}
    BY <1>5, <1>9 DEF RemoveEntries
  <1>11. /\ kept' \in Ghosts /\ kept'.fresh = kept.fresh /\ kept'.acked = kept.acked \ gone
         /\ ~kept'.collided => ~kept.collided /\ persists = {}
    <2>1. kept' = [kept EXCEPT !.acked = @ \ gone, !.collided = @ \/ persists # {}]
      BY DEF RemoveEntries
    <2>2. QED
      BY <1>1, <2>1 DEF Ghosts
  <1>12. TranscriptTyped' /\ TornIsLast'
    BY <1>1, <1>8, <1>9, <1>10, <1>11 DEF TranscriptInv, TranscriptTyped, TornIsLast, EndsTorn
  <1>13. ASSUME ~kept'.collided PROVE TranscriptSound'
    <2>1. EntriesAreApart /\ FreshAreNowhere /\ AckedAreThere /\ persists' = {r}
      BY <1>10, <1>11, <1>13 DEF TranscriptInv, TranscriptSound
    <2>2. Rewriting' /\ RewriteIsAlone'
      BY <1>9, <2>1 DEF Rewriting, RewriteIsAlone
    <2>3. EntriesAreApart'
      BY <1>2, <1>4, <1>8, <1>9, <2>1, <2>2 DEF EntriesAreApart
    <2>4. FreshAreNowhere'
      BY <1>1, <1>2, <1>4, <1>8, <1>11, <2>1 DEF FreshAreNowhere
    <2>5. AckedAreThere'
      BY <1>1, <1>2, <1>4, <1>8, <1>11, <2>1, <2>2 DEF AckedAreThere, Ghosts
    <2>6. QED
      BY <2>2, <2>3, <2>4, <2>5 DEF TranscriptSound
  <1>14. QED
    BY <1>12, <1>13 DEF TranscriptInv

LEMMA OpenRewriteKeeps ==
    ASSUME TranscriptInv, NEW p \in persists, OpenRewrite(p)
    PROVE  TranscriptInv'
  <1>1. /\ transcript \in Transcripts /\ kept \in Ghosts /\ persists \subseteq Appends \cup Rewrites
        /\ transcript' = transcript /\ transcript.loaded /\ kept' = kept /\ p \in Rewrites /\ p.kind = "rewrite"
        /\ jsonl' = [lines |-> <<>>, ended |-> TRUE]
    BY DEF OpenRewrite, TranscriptInv, TranscriptTyped, Appends
  <1>2. PICK old \in Seq(Entries) : old = transcript.entries
    BY <1>1 DEF Transcripts
  <1>3. PICK r : r = [p EXCEPT !.at = "opened", !.batch = old]
    OBVIOUS
  <1>4. r \in Rewrites /\ r.kind = "rewrite" /\ r.at = "opened" /\ r.batch = old
    BY <1>1, <1>3 DEF Rewrites
  <1>5. persists' = (persists \ {p}) \cup {r}
    BY <1>2, <1>3 DEF OpenRewrite
  <1>6. /\ jsonl' \in LineFiles /\ jsonl'.lines = <<>> /\ jsonl'.ended /\ Contents(<<>>) = {}
    BY <1>1, EmptySeq DEF LineFiles, Contents
  <1>7. TranscriptTyped' /\ TornIsLast'
    BY <1>1, <1>4, <1>5, <1>6 DEF TranscriptInv, TranscriptTyped, TornIsLast, EndsTorn
  <1>8. ASSUME ~kept'.collided PROVE TranscriptSound'
    <2>1. RewriteIsAlone /\ EntriesAreApart /\ FreshAreNowhere /\ AckedAreThere
      BY <1>1, <1>8 DEF TranscriptInv, TranscriptSound
    <2>2. persists' = {r}
      BY <1>1, <1>5, <2>1 DEF RewriteIsAlone
    <2>3. Rewriting' /\ RewriteIsAlone'
      BY <1>1, <1>2, <1>4, <1>6, <2>2 DEF Rewriting, RewriteIsAlone
    <2>4. EntriesAreApart'
      BY <1>1, <1>4, <2>1, <2>2, <2>3 DEF EntriesAreApart
    <2>5. FreshAreNowhere' /\ AckedAreThere'
      BY <1>1, <1>6, <2>1, <2>3 DEF FreshAreNowhere, AckedAreThere
    <2>6. QED
      BY <2>3, <2>4, <2>5 DEF TranscriptSound
  <1>9. QED
    BY <1>7, <1>8 DEF TranscriptInv

LEMMA RewrittenKeeps ==
    ASSUME TranscriptInv, NEW p \in persists, Rewritten(p)
    PROVE  TranscriptInv'
  <1>1. /\ transcript \in Transcripts /\ jsonl \in LineFiles /\ kept \in Ghosts /\ persists \subseteq Appends \cup Rewrites
        /\ transcript' = transcript /\ transcript.loaded /\ kept' = kept /\ p.kind = "rewrite" /\ p.at = "opened"
        /\ persists' = persists \ {p}
    BY DEF Rewritten, TranscriptInv, TranscriptTyped
  <1>2. PICK batch \in Seq(Entries) : batch = p.batch
    BY <1>1 DEF Appends, Rewrites
  <1>3. PICK old \in Seq(Lines) : old = jsonl.lines
    BY <1>1 DEF LineFiles
  <1>4. PICK text \in Over(batch, old) : jsonl' = [lines |-> text, ended |-> TRUE]
    BY <1>2, <1>3 DEF Rewritten
  <1>5. text \in Seq(Lines) /\ (old = <<>> => text = batch)
    <2>1. batch \in Seq(Lines)
      BY DEF Lines
    <2>2. CASE text = batch
      BY <2>1, <2>2
    <2>3. CASE text # batch
      <3>1. PICK k \in 2..(IF old = <<>> THEN 0 ELSE Len(old) + 1) : text = batch \o <<Corrupt>> \o SubSeq(old, k, Len(old))
        BY <1>4, <2>3 DEF Over
      <3>2. old # <<>> /\ k \in Nat \ {0} /\ Len(old) \in Nat
        BY LenProperties
      <3>3. SubSeq(old, k, Len(old)) \in Seq(Lines)
        BY <3>2, PartGives
      <3>4. <<Corrupt>> \in Seq(Lines)
        BY DEF Lines
      <3>5. batch \o <<Corrupt>> \in Seq(Lines)
        BY <2>1, <3>4, ConcatProperties
      <3>6. text \in Seq(Lines)
        BY <3>1, <3>3, <3>5, ConcatProperties
      <3>7. QED
        BY <3>2, <3>6
    <2>4. QED
      BY <2>2, <2>3
  <1>6. jsonl' \in LineFiles /\ jsonl'.lines = text /\ jsonl'.ended
    BY <1>4, <1>5 DEF LineFiles
  <1>7. TranscriptTyped' /\ TornIsLast'
    BY <1>1, <1>6 DEF TranscriptInv, TranscriptTyped, TornIsLast, EndsTorn
  <1>8. ASSUME ~kept'.collided PROVE TranscriptSound'
    <2>1. RewriteIsAlone /\ EntriesAreApart /\ FreshAreNowhere /\ AckedAreThere
      BY <1>1, <1>8 DEF TranscriptInv, TranscriptSound
    <2>2. persists' = {} /\ text = transcript.entries
      BY <1>1, <1>2, <1>3, <1>5, <2>1 DEF RewriteIsAlone
    <2>3. QED
      BY <1>1, <1>6, <2>1, <2>2
      DEF TranscriptSound, RewriteIsAlone, EntriesAreApart, FreshAreNowhere, AckedAreThere, Rewriting
  <1>9. QED
    BY <1>7, <1>8 DEF TranscriptInv

LEMMA TranscriptRestartsKeeps ==
    ASSUME TranscriptInv, TranscriptRestarts
    PROVE  TranscriptInv'
  <1>1. /\ transcript \in Transcripts /\ jsonl \in LineFiles /\ kept \in Ghosts /\ persists \subseteq Appends \cup Rewrites
        /\ persists' = {}
    BY DEF TranscriptRestarts, TranscriptInv, TranscriptTyped
  <1>2. /\ transcript' \in Transcripts /\ transcript'.entries = <<>> /\ ~transcript'.loaded
    <2>1. PICK n \in Nat : n = transcript.restarts + 1
      BY <1>1 DEF Transcripts
    <2>2. transcript' = [transcript EXCEPT !.entries = <<>>, !.loaded = FALSE, !.restarts = n]
      BY <2>1 DEF TranscriptRestarts
    <2>3. <<>> \in Seq(Entries)
      BY EmptySeq
    <2>4. QED
      BY <1>1, <2>1, <2>2, <2>3 DEF Transcripts
  <1>3. /\ kept' \in Ghosts /\ kept'.fresh = kept.fresh /\ kept'.acked = kept.acked
        /\ ~kept'.collided => ~kept.collided /\ ~Rewriting
    <2>1. kept' = [kept EXCEPT !.collided = @ \/ Rewriting]
      BY DEF TranscriptRestarts
    <2>2. QED
      BY <1>1, <2>1 DEF Ghosts
  <1>4. /\ jsonl' \in LineFiles
        /\ TornIsLast'
        /\ ~kept'.collided => /\ Contents(jsonl.lines) \cap Entries \subseteq Contents(jsonl'.lines)
                              /\ kept.fresh \cap Contents(jsonl'.lines) = {}
                              /\ EachOnce(jsonl'.lines, Entries)
    <2>1. ASSUME ~kept'.collided
          PROVE  /\ kept.fresh \cap Contents(jsonl.lines) = {} /\ kept.fresh \cap Contents(transcript.entries) = {}
                 /\ EachOnce(jsonl.lines, Entries) /\ EntriesAreApart
      BY <1>3, <2>1 DEF TranscriptInv, TranscriptSound, EntriesAreApart, FreshAreNowhere
    <2>2. CASE jsonl' = jsonl
      BY <1>1, <2>1, <2>2 DEF TranscriptInv, TornIsLast
    <2>3. ASSUME NEW p \in persists, p.kind = "append", NEW k \in 0..(Len(p.batch) - 1),
                 jsonl' = [Extended(jsonl, SubSeq(p.batch, 1, k) \o <<Corrupt>>) EXCEPT !.ended = FALSE]
          PROVE  /\ jsonl' \in LineFiles
                 /\ TornIsLast'
                 /\ ~kept'.collided => /\ Contents(jsonl.lines) \cap Entries \subseteq Contents(jsonl'.lines)
                                       /\ kept.fresh \cap Contents(jsonl'.lines) = {}
                                       /\ EachOnce(jsonl'.lines, Entries)
      <3>1. PICK batch \in Seq(Entries) : batch = p.batch /\ batch # <<>>
        BY <1>1, <2>3 DEF Appends, Rewrites
      <3>2. k \in Nat /\ k <= Len(batch) /\ Len(batch) \in Nat
        BY <2>3, <3>1, LenProperties
      <3>3. PICK some \in Seq(Entries) : some = SubSeq(batch, 1, k)
        <4>1. \A i \in 1..k : batch[i] \in Entries
          BY <3>2, ElementOfSeq
        <4>2. SubSeq(batch, 1, k) \in Seq(Entries)
          BY <3>2, <4>1, SubSeqProperties
        <4>3. QED
          BY <4>2
      <3>4. Contents(some) \subseteq Contents(batch) /\ (EachOnce(batch, Entries) => EachOnce(some, Entries))
        <4>1. some = SubSeq(batch, 1, k) /\ k <= Len(batch) /\ k \in Nat /\ 1 \in Nat \ {0}
          BY <3>2, <3>3
        <4>2. PartOf(batch, 1, k, some, Entries)
          BY <4>1, PartGives
        <4>3. QED
          BY <4>2 DEF PartOf
      <3>5. PICK torn \in Seq(Lines) : torn = <<Corrupt>> /\ Contents(torn) = {Corrupt} /\ \A es : EachOnce(torn, es)
        <4>1. Corrupt \in Lines
          BY DEF Lines
        <4>2. QED
          BY <4>1, OneGives
      <3>6. PICK wide \in Seq(Lines) : wide = some
        BY DEF Lines
      <3>7. PICK text : text = wide \o torn
        OBVIOUS
      <3>8. text \in Seq(Lines) /\ Joined(wide, torn, text, Entries)
        BY <3>5, <3>6, <3>7, ConcatGives
      <3>9. torn # <<>> /\ torn[Len(torn)] = Corrupt /\ Contents(some) \subseteq Entries
        BY <3>3, <3>5 DEF Contents
      <3>10. /\ text # <<>> /\ text[Len(text)] = Corrupt
             /\ Contents(text) \cap Entries = Contents(some)
             /\ EachOnce(some, Entries) => EachOnce(text, Entries)
        BY <3>5, <3>6, <3>8, <3>9, TranscriptAssumption DEF Joined, Apart
      <3>11. PICK f : f = Extended(jsonl, text)
        OBVIOUS
      <3>12. PICK wrote : wrote = IF jsonl.ended THEN text ELSE Tail(text)
        OBVIOUS
      <3>13. f \in LineFiles /\ EndsTorn(f) /\ Grown(jsonl, text, wrote, f)
        <4>1. ~jsonl.ended => EndsTorn(jsonl)
          BY DEF TranscriptInv, TornIsLast
        <4>2. Grown(jsonl, text, wrote, f)
          BY <1>1, <3>8, <3>10, <3>11, <3>12, <4>1, ExtendedGives
        <4>3. QED
          BY <3>10, <4>2 DEF Grown
      <3>14. jsonl' = [f EXCEPT !.ended = FALSE]
        BY <2>3, <3>1, <3>3, <3>5, <3>6, <3>7, <3>11
      <3>15. jsonl' \in LineFiles /\ jsonl'.lines = f.lines
        BY <3>13, <3>14 DEF LineFiles
      <3>16. TornIsLast'
        BY <3>13, <3>15 DEF TornIsLast, EndsTorn
      <3>17. ASSUME ~kept'.collided
             PROVE  /\ Contents(jsonl.lines) \cap Entries \subseteq Contents(f.lines) /\ kept.fresh \cap Contents(f.lines) = {}
                    /\ EachOnce(f.lines, Entries)
        <4>1. /\ EachOnce(batch, Entries) /\ Apart(batch, jsonl.lines, Entries) /\ Contents(batch) \subseteq Contents(transcript.entries)
          BY <2>1, <2>3, <3>1, <3>17 DEF EntriesAreApart
        <4>2. EachOnce(f.lines, Entries)
          BY <2>1, <3>4, <3>10, <3>13, <3>17, <4>1 DEF Apart, Grown
        <4>3. kept.fresh \subseteq Entries
          BY <1>1 DEF Ghosts
        <4>4. kept.fresh \cap Contents(f.lines) = {}
          BY <2>1, <3>4, <3>10, <3>13, <3>17, <4>1, <4>3 DEF Apart, Grown
        <4>5. QED
          BY <3>13, <4>2, <4>4 DEF Grown
      <3>18. QED
        BY <3>15, <3>16, <3>17
    <2>4. QED
      BY <2>2, <2>3 DEF TranscriptRestarts
  <1>5. TranscriptTyped'
    BY <1>1, <1>2, <1>3, <1>4 DEF TranscriptTyped
  <1>6. ASSUME ~kept'.collided PROVE TranscriptSound'
    <2>1. ~Rewriting' /\ RewriteIsAlone'
      BY <1>1 DEF Rewriting, RewriteIsAlone
    <2>2. Contents(<<>>) = {} /\ EachOnce(<<>>, Entries)
      BY DEF Contents, EachOnce
    <2>3. EntriesAreApart' /\ FreshAreNowhere'
      BY <1>1, <1>2, <1>3, <1>4, <1>6, <2>2 DEF EntriesAreApart, FreshAreNowhere
    <2>4. kept.acked \subseteq Contents(jsonl.lines) /\ kept.acked \subseteq Entries
      BY <1>1, <1>3, <1>6 DEF TranscriptInv, TranscriptSound, AckedAreThere, Ghosts
    <2>5. AckedAreThere'
      BY <1>2, <1>3, <1>4, <1>6, <2>4 DEF AckedAreThere
    <2>6. QED
      BY <2>1, <2>3, <2>5 DEF TranscriptSound
  <1>7. QED
    BY <1>4, <1>5, <1>6 DEF TranscriptInv

\* The strengthening of the transcript.
THEOREM TranscriptInvariant == TranscriptSpec => []TranscriptInv
  <1>1. TranscriptInit => TranscriptInv
    BY TranscriptStart
  <1>2. TranscriptInv /\ [TranscriptNext]_transcriptVars => TranscriptInv'
    <2>1. TranscriptInv /\ TranscriptNext => TranscriptInv'
      BY LoadKeeps, AppendEntriesKeeps, RemoveEntriesKeeps, AppendedKeeps, OpenRewriteKeeps, RewrittenKeeps, TranscriptRestartsKeeps
      DEF TranscriptNext
    <2>2. TranscriptInv /\ UNCHANGED transcriptVars => TranscriptInv'
      BY DEF transcriptVars, TranscriptInv, TranscriptTyped, TornIsLast, EndsTorn, TranscriptSound, RewriteIsAlone, EntriesAreApart,
             FreshAreNowhere, AckedAreThere, Rewriting
    <2>3. QED
      BY <2>1, <2>2
  <1>3. QED
    BY <1>1, <1>2, PTL DEF TranscriptSpec

\* An entry whose append has returned is in the file once until it is removed (transcript.ts).
THEOREM EntriesStay == TranscriptSpec => []AcknowledgedEntriesStay
  <1>1. TranscriptInv => AcknowledgedEntriesStay
    <2> SUFFICES ASSUME TranscriptInv, ~kept.collided, NEW e \in kept.acked
                 PROVE  /\ Rewriting \/ Cardinality({i \in DOMAIN jsonl.lines : jsonl.lines[i] = e}) = 1
                        /\ transcript.loaded => e \in ToSet(transcript.entries)
      BY DEF AcknowledgedEntriesStay
    <2>1. e \in Entries /\ EntriesAreApart /\ AckedAreThere
      BY DEF TranscriptInv, TranscriptTyped, TranscriptSound, Ghosts
    <2>2. ASSUME ~Rewriting PROVE Cardinality({i \in DOMAIN jsonl.lines : jsonl.lines[i] = e}) = 1
      <3>1. EachOnce(jsonl.lines, Entries) /\ e \in Contents(jsonl.lines)
        BY <2>1, <2>2 DEF EntriesAreApart, AckedAreThere
      <3>2. PICK i \in DOMAIN jsonl.lines : jsonl.lines[i] = e
        BY <3>1 DEF Contents
      <3>3. {j \in DOMAIN jsonl.lines : jsonl.lines[j] = e} = {i}
        BY <2>1, <3>1, <3>2 DEF EachOnce
      <3>4. QED
        BY <3>3, FS_Singleton
    <2>3. transcript.loaded => e \in ToSet(transcript.entries)
      BY <2>1, SameContents DEF AckedAreThere
    <2>4. QED
      BY <2>2, <2>3
  <1>2. QED
    BY <1>1, TranscriptInvariant, PTL

-----------------------------------------------------------------------------
(* automations.ts                                                            *)

USE DEF AutoStates, AutoFiles, Sweeps, Pasts

\* When it was last fired, or made.
LastFired(a) == IF a.runs = 0 THEN a.created ELSE a.lastRun

\* What is stored, or about to be fired, is what users and runs have left.
Told(all, next, p) ==
    \A i \in Ids : all[i] # NoAutomation =>
        i < next /\ (all[i].enabled => i \in p.wanted) /\ p.done[i] = LastFired(all[i])

\* A sweep has one to handle.
SweepHasOne == sweep.at \in {"dispatching", "mkdir", "writing"} => sweep.left # <<>>

\* What is left of a sweep was wanted when it began, and only the one that was just
\* dispatched has been fired since.
SweepIsTold ==
    /\ \A k \in DOMAIN sweep.left :
          /\ sweep.left[k].id < autos.next
          /\ sweep.left[k].auto.enabled => sweep.left[k].id \in sweep.wanted
          /\ (k = 1 /\ sweep.at \in {"mkdir", "writing"}) \/ past.done[sweep.left[k].id] = LastFired(sweep.left[k].auto)
    /\ \A k, l \in DOMAIN sweep.left : sweep.left[k].id = sweep.left[l].id => k = l
    /\ sweep.at = "dispatching" => Current.auto.enabled /\ Due(Current.auto, sweep.now)

\* As long as the store has given out no id, nothing is written, and a file that
\* can be read holds what users and runs have left.
FileIsTold ==
    /\ ~autos.loaded => autos.next = 1 /\ autos.edits = {} /\ sweep.at = "idle"
    /\ autos.next = 1 =>
          /\ autoFile.text = Torn \/ Told(autoFile.text.all, autoFile.text.next, past)
          /\ autoFile.writing = {}
          /\ \A e \in autos.edits : e.at \in {"reading", "edit"}

AutoInv ==
    /\ AutomationTypeOK
    /\ SweepHasOne
    /\ past.harmed \/ (Told(autos.all, autos.next, past) /\ SweepIsTold /\ FileIsTold)

-----------------------------------------------------------------------------

\* A sequence of one kind of elements whose elements are of another.
LEMMA ElementsIn ==
    ASSUME NEW S, NEW T, NEW s \in Seq(T), \A k \in 1..Len(s) : s[k] \in S
    PROVE  s \in Seq(S)
  <1>1. PICK n \in Nat : n = Len(s) /\ s \in [1..n -> T]
    BY LenProperties
  <1>2. s \in [1..n -> S]
    BY <1>1
  <1>3. QED
    BY <1>2

\* The snapshot of a sweep has each automation of the store once.
LEMMA ListedGives ==
    ASSUME NEW all \in [Ids -> Automation \cup {NoAutomation}]
    PROVE  /\ Listed(all) \in Seq([id : Ids, auto : Automation])
           /\ \A k \in DOMAIN Listed(all) :
                 all[Listed(all)[k].id] # NoAutomation /\ Listed(all)[k].auto = all[Listed(all)[k].id]
           /\ \A k, l \in DOMAIN Listed(all) : Listed(all)[k].id = Listed(all)[l].id => k = l
  <1>0. PICK T : T = [id : Ids, auto : Automation \cup {NoAutomation}]
    OBVIOUS
  <1>1. PICK s \in [Ids -> T] :
            s = [i \in Ids |-> [id |-> i, auto |-> all[i]]] /\ \A i \in Ids : s[i].id = i /\ s[i].auto = all[i]
    <2>1. \A i \in Ids : [id |-> i, auto |-> all[i]] \in T
      BY <1>0
    <2>2. [i \in Ids |-> [id |-> i, auto |-> all[i]]] \in [Ids -> T]
      BY <2>1
    <2>3. QED
      BY <2>2
  <1>2. PICK I \in SUBSET Ids : I = {i \in Ids : all[i] # NoAutomation}
    OBVIOUS
  <1>3. s \in Seq(T) /\ Len(s) = MaxAutomations
    BY <1>1, AutomationAssumption DEF Ids
  <1>4. /\ Kept(s, I) \in Seq(T)
        /\ Len(Kept(s, I)) <= Len(s)
        /\ \E at \in [DOMAIN Kept(s, I) -> I] :
              /\ \A k \in DOMAIN Kept(s, I) : Kept(s, I)[k] = s[at[k]]
              /\ \A i \in I : \E k \in DOMAIN Kept(s, I) : at[k] = i
              /\ \A k, l \in DOMAIN Kept(s, I) : at[k] = at[l] => k = l
              /\ \A k, l \in DOMAIN Kept(s, I) : k < l => at[k] < at[l]
    <2>1. I \in SUBSET (1..Len(s))
      BY <1>3 DEF Ids
    <2>2. s \in Seq(T)
      BY <1>3
    <2>3. QED
      BY <2>1, <2>2, KeptGives, Zenon
  <1>5. PICK f \in Seq(T) : f = Kept(s, I) /\ f = Listed(all)
    BY <1>1, <1>2, <1>4, Zenon DEF Listed
  <1>6. PICK at \in [DOMAIN f -> I] :
            /\ \A k \in DOMAIN f : f[k] = s[at[k]]
            /\ \A k, l \in DOMAIN f : at[k] = at[l] => k = l
    BY <1>4, <1>5
  <1>7. ASSUME NEW k \in DOMAIN f
        PROVE  at[k] \in Ids /\ all[at[k]] # NoAutomation /\ f[k].id = at[k] /\ f[k].auto = all[at[k]]
    <2>1. at[k] \in I /\ f[k] = s[at[k]]
      BY <1>6
    <2>2. at[k] \in Ids /\ all[at[k]] # NoAutomation
      BY <1>2, <2>1
    <2>3. s[at[k]].id = at[k] /\ s[at[k]].auto = all[at[k]]
      BY <1>1, <2>2
    <2>4. QED
      BY <2>1, <2>2, <2>3
  <1>8. f \in Seq([id : Ids, auto : Automation])
    <2>1. \A k \in DOMAIN f : f[k] \in [id : Ids, auto : Automation]
      <3>1. \A k \in DOMAIN f : f[k] \in [id : Ids, auto : Automation \cup {NoAutomation}]
        BY ZenonT(30), SMTT(30), <1>0, ElementOfSeq, LenProperties
      <3>2. QED
        BY <1>7, <3>1
    <2>2. \A k \in 1..Len(f) : f[k] \in [id : Ids, auto : Automation]
      BY <2>1, LenProperties
    <2>3. QED
      BY <2>2, ElementsIn
  <1>9. QED
    BY <1>5, <1>6, <1>7, <1>8

\* One fewer is left of a sweep.
LEMMA HeadAndTail ==
    ASSUME NEW T, NEW s \in Seq(T), s # <<>>
    PROVE  /\ Head(s) = s[1] /\ Head(s) \in T /\ 1 \in DOMAIN s
           /\ Tail(s) \in Seq(T)
           /\ \A k \in DOMAIN Tail(s) : k \in Nat /\ k + 1 \in DOMAIN s /\ k + 1 # 1 /\ Tail(s)[k] = s[k + 1]
  <1>1. Len(s) \in Nat /\ Len(s) # 0 /\ Len(Tail(s)) = Len(s) - 1 /\ Tail(s) \in Seq(T) /\ Head(s) = s[1]
    BY EmptySeq, HeadTailProperties, LenProperties
  <1>2. DOMAIN s = 1..Len(s) /\ DOMAIN Tail(s) = 1..(Len(s) - 1)
    BY <1>1, LenProperties
  <1>3. \A k \in 1..(Len(s) - 1) : Tail(s)[k] = s[k + 1]
    BY <1>1
  <1>4. 1 \in DOMAIN s /\ s[1] \in T
    BY <1>1, <1>2, ElementOfSeq
  <1>5. QED
    BY <1>1, <1>2, <1>3, <1>4

\* Going on to the next one of the snapshot.
LEMMA NextOneGives ==
    ASSUME AutomationTypeOK, sweep.left # <<>>, sweep' = NextOne,
           autos'.next = autos.next,
           past.harmed \/ SweepIsTold,
           past.harmed \/ \A i \in Ids : i = Current.id \/ past'.done[i] = past.done[i]
    PROVE  /\ sweep' \in Sweeps
           /\ SweepHasOne'
           /\ past.harmed \/ SweepIsTold'
  <1>1. PICK left \in Seq([id : Ids, auto : Automation]) : left = sweep.left
    BY DEF AutomationTypeOK
  <1>2. PICK rest \in Seq([id : Ids, auto : Automation]) : rest = Tail(left)
    BY <1>1, HeadAndTail
  <1>3. /\ sweep'.left = rest /\ sweep'.at = "checking" /\ sweep'.wanted = sweep.wanted
        /\ sweep' \in Sweeps
    BY <1>1, <1>2 DEF AutomationTypeOK, NextOne
  <1>4. /\ Current = left[1] /\ 1 \in DOMAIN left
        /\ \A k \in DOMAIN rest : k \in Nat /\ k + 1 \in DOMAIN left /\ k + 1 # 1 /\ rest[k] = left[k + 1]
    BY <1>1, <1>2, HeadAndTail DEF Current
  <1>5. \A k \in DOMAIN left : left[k] \in [id : Ids, auto : Automation]
    BY ElementOfSeq, LenProperties
  <1>6. SweepHasOne'
    BY <1>3 DEF SweepHasOne
  <1>7. ASSUME ~past.harmed PROVE SweepIsTold'
    <2>1. \A k \in DOMAIN rest : rest[k].id # Current.id /\ rest[k].id \in Ids
      BY <1>1, <1>4, <1>5, <1>7 DEF SweepIsTold
    <2>2. \A k \in DOMAIN rest :
             /\ rest[k].id < autos.next
             /\ rest[k].auto.enabled => rest[k].id \in sweep.wanted
             /\ past.done[rest[k].id] = LastFired(rest[k].auto)
      BY <1>1, <1>4, <1>7 DEF SweepIsTold
    <2>3. \A k \in DOMAIN rest : past'.done[rest[k].id] = LastFired(rest[k].auto)
      BY <1>7, <2>1, <2>2
    <2>4. \A k, l \in DOMAIN rest : rest[k].id = rest[l].id => k = l
      <3>1. \A k, l \in DOMAIN rest : left[k + 1].id = left[l + 1].id => k + 1 = l + 1
        BY <1>1, <1>4, <1>7 DEF SweepIsTold
      <3>2. QED
        BY SMTT(30), ZenonT(30), <1>4, <3>1
    <2>5. QED
      BY SMTT(30), ZenonT(30), <1>3, <2>2, <2>3, <2>4 DEF SweepIsTold, LastFired
  <1>8. QED
    BY <1>3, <1>6, <1>7

\* A file that is read for the first time may bring automations back, and hide others.
LEMMA MergeGives ==
    ASSUME AutoInv
    PROVE  /\ Merged \in AutoStates
           /\ Merged.loaded = autos.loaded /\ Merged.edits = autos.edits /\ Merged.count = autos.count
           /\ MergeHarms \/ (~past.harmed /\ autos.next = 1 /\ Told(Merged.all, Merged.next, past))
  <1>0. /\ autos \in AutoStates
        /\ autoFile.text \in Stored \cup {Torn}
    BY DEF AutoInv, AutomationTypeOK
  <1>1. CASE autoFile.text = Torn
    <2>1. Merged = autos
      BY <1>1 DEF Merged
    <2>2. MergeHarms \/ (~past.harmed /\ autos.next = 1 /\ Told(autos.all, autos.next, past))
      BY DEF AutoInv, MergeHarms
    <2>3. QED
      BY <1>0, <2>1, <2>2
  <1>2. CASE autoFile.text # Torn
    <2>1. PICK all \in [Ids -> Automation \cup {NoAutomation}], next \in Nat \ {0} :
              autoFile.text.all = all /\ autoFile.text.next = next
      BY <1>0, <1>2 DEF Stored
    <2>a. PICK old \in [Ids -> Automation \cup {NoAutomation}] : autos.all = old
      BY <1>0
    <2>2. PICK as \in [Ids -> Automation \cup {NoAutomation}] :
              /\ as = [i \in Ids |-> IF all[i] # NoAutomation THEN all[i] ELSE autos.all[i]]
              /\ \A i \in Ids : as[i] = IF all[i] # NoAutomation THEN all[i] ELSE autos.all[i]
      <3>1. \A i \in Ids : (IF all[i] # NoAutomation THEN all[i] ELSE old[i]) \in Automation \cup {NoAutomation}
        OBVIOUS
      <3>2. [i \in Ids |-> IF all[i] # NoAutomation THEN all[i] ELSE old[i]] \in [Ids -> Automation \cup {NoAutomation}]
        BY <3>1
      <3>3. QED
        BY <2>a, <3>2
    <2>3. Merged = [autos EXCEPT !.all = as, !.next = next]
      BY <1>2, <2>1, <2>2 DEF Merged
    <2>4. Merged = [all |-> as, next |-> next, loaded |-> autos.loaded, edits |-> autos.edits, count |-> autos.count]
      BY <1>0, <2>3
    <2>5. ASSUME ~MergeHarms PROVE ~past.harmed /\ autos.next = 1 /\ Told(as, next, past)
      <3>1. ~past.harmed /\ autos.next = 1 /\ autos.all = NoAutomations
        BY <2>5 DEF MergeHarms
      <3>2. Told(all, next, past)
        BY <1>2, <2>1, <3>1 DEF AutoInv, FileIsTold
      <3>3. \A i \in Ids : as[i] # NoAutomation => as[i] = all[i] /\ all[i] # NoAutomation
        BY <2>2, <3>1 DEF NoAutomations
      <3>4. Told(as, next, past)
        BY <3>2, <3>3 DEF Told
      <3>5. QED
        BY <3>1, <3>4
    <2>6. Merged.all = as /\ Merged.next = next
      BY <2>4
    <2>7. QED
      BY <1>0, <2>4, <2>5, <2>6
  <1>3. QED
    BY <1>1, <1>2

\* What users asked for and runs have done is as before; a load may only harm.
LEMMA HarmGives ==
    ASSUME AutomationTypeOK, past' = [past EXCEPT !.harmed = MergeHarms]
    PROVE  /\ past' \in Pasts
           /\ past'.done = past.done /\ past'.wanted = past.wanted
           /\ past'.harmed \/ ~MergeHarms
  <1>1. past \in Pasts
    BY DEF AutomationTypeOK
  <1>2. CASE MergeHarms
    <2>1. MergeHarms = TRUE
      BY <1>2 DEF MergeHarms
    <2>2. past' = [past EXCEPT !.harmed = TRUE]
      BY <2>1
    <2>3. QED
      BY <1>1, <2>2
  <1>3. CASE ~MergeHarms
    <2>1. MergeHarms = FALSE
      BY <1>1, <1>3 DEF MergeHarms
    <2>2. past' = [past EXCEPT !.harmed = FALSE]
      BY <2>1
    <2>3. QED
      BY <1>1, <1>3, <2>2
  <1>4. QED
    BY <1>2, <1>3

\* Facts that depend on what users asked for and runs have done.
LEMMA ToldStays ==
    ASSUME NEW all, NEW next, Told(all, next, past), past'.done = past.done, past'.wanted = past.wanted
    PROVE  Told(all, next, past')
  BY DEF Told

\* The edits after a step of one.
EditsWith(e, at) == (autos.edits \ {e}) \cup {[e EXCEPT !.at = at]}

LEMMA EditGives ==
    ASSUME AutomationTypeOK, NEW e \in autos.edits, NEW at \in {"reading", "edit", "mkdir", "writing"}
    PROVE  /\ EditsWith(e, at) \in SUBSET Edit
           /\ \A d \in EditsWith(e, at) : d.target \in Ids \/ d.kind = "create"
           /\ \A d \in EditsWith(e, at) : d \in autos.edits \/ d.at = at
  <1>1. e \in Edit /\ autos.edits \in SUBSET Edit /\ \A d \in autos.edits : d.target \in Ids \/ d.kind = "create"
    BY DEF AutomationTypeOK
  <1>2. PICK d \in Edit : d = [e EXCEPT !.at = at] /\ d.at = at /\ d.target = e.target /\ d.kind = e.kind
    <2>1. e = [id |-> e.id, kind |-> e.kind, target |-> e.target, at |-> e.at] /\ e.id \in Nat /\ e.target \in Nat
      BY <1>1 DEF Edit
    <2>2. [e EXCEPT !.at = at] = [id |-> e.id, kind |-> e.kind, target |-> e.target, at |-> at]
      BY <2>1
    <2>3. [id |-> e.id, kind |-> e.kind, target |-> e.target, at |-> at] \in Edit
      BY <1>1 DEF Edit
    <2>4. QED
      BY <2>2, <2>3
  <1>3. EditsWith(e, at) = (autos.edits \ {e}) \cup {d}
    BY <1>2 DEF EditsWith
  <1>4. QED
    BY <1>1, <1>2, <1>3

\* While the store has given out no id, a sweep has nothing to do.
LEMMA NoneLeft ==
    ASSUME AutomationTypeOK, SweepIsTold, autos.next = 1
    PROVE  sweep.left = <<>>
  <1>1. PICK left \in Seq([id : Ids, auto : Automation]) : left = sweep.left
    BY DEF AutomationTypeOK
  <1>2. CASE left # <<>>
    <2>1. left[1] \in [id : Ids, auto : Automation] /\ 1 \in DOMAIN left
      BY <1>1, <1>2, HeadAndTail
    <2>2. left[1].id < 1
      BY <1>1, <2>1 DEF SweepIsTold
    <2>3. left[1].id \in Nat /\ left[1].id >= 1
      BY <2>1, AutomationAssumption DEF Ids
    <2>4. QED
      BY <2>2, <2>3
  <1>3. QED
    BY <1>1, <1>2

\* What is left of a sweep names automations.
LEMMA LeftTyped ==
    ASSUME AutomationTypeOK
    PROVE  \A k \in DOMAIN sweep.left : sweep.left[k] \in [id : Ids, auto : Automation] /\ sweep.left[k].id \in Ids
  <1>1. sweep.left \in Seq([id : Ids, auto : Automation])
    BY DEF AutomationTypeOK
  <1>2. \A k \in DOMAIN sweep.left : sweep.left[k] \in [id : Ids, auto : Automation]
    BY <1>1, ElementOfSeq, LenProperties
  <1>3. QED
    BY <1>2

-----------------------------------------------------------------------------

\* An edit begins.
LEMMA KeepBeginEdit ==
    ASSUME AutoInv, NEW kind \in {"create", "enable", "disable", "delete"}, NEW i \in Nat,
           i \in Ids \/ kind = "create", BeginEdit(kind, i)
    PROVE  AutoInv'
  <1>1. autos \in AutoStates
    BY DEF AutoInv, AutomationTypeOK
  <1>2. PICK e \in Edit : /\ e = [id |-> autos.count + 1, kind |-> kind, target |-> i, at |-> IF autos.loaded THEN "edit" ELSE "reading"]
                          /\ e.at \in {"reading", "edit"} /\ e.kind = kind /\ e.target = i
    <2>1. [id |-> autos.count + 1, kind |-> kind, target |-> i, at |-> IF autos.loaded THEN "edit" ELSE "reading"] \in Edit
      BY <1>1 DEF Edit
    <2>2. QED
      BY <2>1
  <1>b. PICK n \in Nat : n = autos.count + 1
    BY <1>1
  <1>a. PICK es \in SUBSET Edit : es = autos.edits \cup {e}
    BY <1>1
  <1>3. /\ autos' = [autos EXCEPT !.count = n, !.loaded = TRUE, !.edits = es]
        /\ autoFile' = autoFile /\ sweep' = sweep /\ past' = past
    BY <1>2, <1>a, <1>b DEF BeginEdit
  <1>4. /\ autos' \in AutoStates
        /\ autos'.all = autos.all /\ autos'.next = autos.next /\ autos'.loaded /\ autos'.edits = es
    BY <1>1, <1>3
  <1>5. AutomationTypeOK'
    BY SMTT(30), ZenonT(30), <1>2, <1>a, <1>3, <1>4 DEF AutoInv, AutomationTypeOK
  <1>6. SweepHasOne'
    BY <1>3 DEF AutoInv, SweepHasOne
  <1>7. ASSUME ~past'.harmed PROVE (Told(autos.all, autos.next, past) /\ SweepIsTold /\ FileIsTold)'
    <2>1. ~past.harmed /\ Told(autos.all, autos.next, past) /\ SweepIsTold /\ FileIsTold
      BY <1>3, <1>7 DEF AutoInv
    <2>2. SweepIsTold'
      BY <1>3, <1>4, <2>1 DEF SweepIsTold, Current
    <2>3. FileIsTold'
      BY <1>2, <1>a, <1>3, <1>4, <2>1 DEF FileIsTold, Told
    <2>4. QED
      BY <1>3, <1>4, <2>1, <2>2, <2>3
  <1>8. QED
    BY <1>5, <1>6, <1>7 DEF AutoInv

\* load() ends, for an edit.
LEMMA KeepEditLoaded ==
    ASSUME AutoInv, NEW e, EditLoaded(e)
    PROVE  AutoInv'
  <1>0. AutomationTypeOK /\ e \in autos.edits
    BY DEF AutoInv, EditLoaded
  <1>1. PICK ds \in SUBSET Edit :
            /\ ds = EditsWith(e, "edit")
            /\ \A d \in ds : d.target \in Ids \/ d.kind = "create"
            /\ \A d \in ds : d \in autos.edits \/ d.at = "edit"
    BY <1>0, EditGives
  <1>2. PICK m \in AutoStates :
            /\ m = Merged /\ m.loaded = autos.loaded /\ m.edits = autos.edits
            /\ MergeHarms \/ (~past.harmed /\ autos.next = 1 /\ Told(m.all, m.next, past))
    BY MergeGives
  <1>3. autos' = [m EXCEPT !.edits = ds] /\ autoFile' = autoFile /\ sweep' = sweep
    BY <1>1, <1>2 DEF EditLoaded, EditsWith
  <1>4. /\ past' \in Pasts
        /\ past'.done = past.done /\ past'.wanted = past.wanted
        /\ past'.harmed \/ ~MergeHarms
    BY <1>0, HarmGives DEF EditLoaded
  <1>5. /\ autos' \in AutoStates
        /\ autos'.all = m.all /\ autos'.next = m.next /\ autos'.loaded = autos.loaded /\ autos'.edits = ds
    BY <1>2, <1>3
  <1>6. AutomationTypeOK'
    BY <1>0, <1>1, <1>3, <1>4, <1>5 DEF AutomationTypeOK
  <1>7. SweepHasOne'
    BY <1>3 DEF AutoInv, SweepHasOne
  <1>8. ASSUME ~past'.harmed PROVE (Told(autos.all, autos.next, past) /\ SweepIsTold /\ FileIsTold)'
    <2>1. ~past.harmed /\ autos.next = 1 /\ Told(m.all, m.next, past) /\ SweepIsTold /\ FileIsTold
      BY <1>2, <1>4, <1>8 DEF AutoInv
    <2>2. Told(autos'.all, autos'.next, past')
      BY <1>4, <1>5, <2>1 DEF Told
    <2>3. sweep.left = <<>>
      BY <1>0, <2>1, NoneLeft
    <2>4. SweepIsTold'
      BY <1>3, <2>1, <2>3 DEF SweepIsTold, AutoInv, SweepHasOne
    <2>5. FileIsTold'
      <3>1. autoFile.text = Torn \/ Told(autoFile.text.all, autoFile.text.next, past')
        BY <1>4, <2>1 DEF FileIsTold, Told
      <3>2. \A d \in autos'.edits : d.at \in {"reading", "edit"}
        BY <1>1, <1>5, <2>1 DEF FileIsTold
      <3>3. autos'.loaded
        BY <1>0, <1>5, <2>1 DEF FileIsTold
      <3>4. QED
        BY <1>3, <2>1, <3>1, <3>2, <3>3 DEF FileIsTold
    <2>6. QED
      BY <2>2, <2>4, <2>5
  <1>9. QED
    BY <1>6, <1>7, <1>8 DEF AutoInv

\* An edit that is to be saved; it was begun, so the store is loaded.
LEMMA SavesGives ==
    ASSUME AutoInv, NEW e \in autos.edits
    PROVE  /\ Saves(e) \in SUBSET Edit
           /\ \A d \in Saves(e) : d.target \in Ids \/ d.kind = "create"
           /\ \E ds \in SUBSET Edit : ds = autos.edits \ {e} /\ \A d \in ds : d.target \in Ids \/ d.kind = "create"
           /\ past.harmed \/ autos.loaded
  <1>1. Saves(e) = EditsWith(e, "mkdir")
    BY DEF Saves, EditsWith
  <1>2. AutomationTypeOK
    BY DEF AutoInv
  <1>3. EditsWith(e, "mkdir") \in SUBSET Edit /\ \A d \in EditsWith(e, "mkdir") : d.target \in Ids \/ d.kind = "create"
    BY <1>2, EditGives
  <1>4. \E ds \in SUBSET Edit : ds = autos.edits \ {e} /\ \A d \in ds : d.target \in Ids \/ d.kind = "create"
    <2>1. autos.edits \ {e} \in SUBSET Edit /\ \A d \in autos.edits \ {e} : d.target \in Ids \/ d.kind = "create"
      BY <1>2 DEF AutomationTypeOK
    <2>2. QED
      BY <2>1
  <1>5. past.harmed \/ autos.loaded
    BY DEF AutoInv, FileIsTold
  <1>6. QED
    BY <1>1, <1>3, <1>4, <1>5

\* Once an id was given out, the file matters no more.
LEMMA FileStays ==
    ASSUME autos'.loaded, autos'.next # 1
    PROVE  FileIsTold'
  BY DEF FileIsTold

\* create()
LEMMA KeepCreate ==
    ASSUME AutoInv, NEW e, NEW trigger \in Triggers, Create(e, trigger)
    PROVE  AutoInv'
  <1>1. /\ autos \in AutoStates
        /\ past \in Pasts
        /\ AutomationTypeOK /\ e \in autos.edits /\ autos.next \in Ids
    BY DEF AutoInv, AutomationTypeOK, Create
  <1>2. PICK ds \in SUBSET Edit : ds = Saves(e) /\ \A d \in ds : d.target \in Ids \/ d.kind = "create"
    BY <1>1, SavesGives
  <1>3. PICK n \in Ids, m \in Nat \ {0} : n = autos.next /\ m = n + 1
    BY <1>1
  <1>4. PICK a \in Automation :
            /\ a = [trigger |-> trigger, enabled |-> TRUE, created |-> past.clock, lastRun |-> 0, runs |-> 0]
            /\ LastFired(a) = past.clock /\ a.enabled
    <2>1. PICK c \in Nat : c = past.clock
      BY <1>1
    <2>2. [trigger |-> trigger, enabled |-> TRUE, created |-> c, lastRun |-> 0, runs |-> 0] \in Automation
      BY DEF Automation
    <2>3. QED
      BY <2>1, <2>2 DEF LastFired
  <1>5. PICK old \in [Ids -> Automation \cup {NoAutomation}] : old = autos.all
    BY <1>1
  <1>a. PICK as : as = [old EXCEPT ![n] = a]
    OBVIOUS
  <1>6. as \in [Ids -> Automation \cup {NoAutomation}] /\ as[n] = a /\ \A i \in Ids : i # n => as[i] = old[i]
    BY <1>a
  <1>7. autos' = [autos EXCEPT !.next = m, !.edits = ds, !.all = as]
    BY <1>1, <1>2, <1>3, <1>4, <1>5, <1>a DEF Create
  <1>8. /\ autos' \in AutoStates
        /\ autos'.all = as /\ autos'.next = m /\ autos'.loaded = autos.loaded /\ autos'.edits = ds
    BY <1>1, <1>6, <1>7
  <1>b. PICK clock \in Nat, past0 \in [Ids -> Nat], wanted0 \in SUBSET Ids :
            clock = past.clock /\ past0 = past.done /\ wanted0 = past.wanted
    BY <1>1
  <1>c. PICK done, wanted : done = [past0 EXCEPT ![n] = clock] /\ wanted = wanted0 \cup {n}
    OBVIOUS
  <1>9. /\ done \in [Ids -> Nat] /\ done[n] = clock /\ \A i \in Ids : i # n => done[i] = past0[i]
        /\ wanted \in SUBSET Ids
    BY <1>c
  <1>10. past' = [past EXCEPT !.wanted = wanted, !.done = done] /\ autoFile' = autoFile /\ sweep' = sweep
    BY <1>1, <1>3, <1>b, <1>c DEF Create
  <1>11. /\ past' \in Pasts
         /\ past'.wanted = wanted /\ past'.done = done /\ past'.harmed = past.harmed
    BY <1>1, <1>9, <1>10
  <1>12. AutomationTypeOK'
    BY <1>1, <1>2, <1>8, <1>10, <1>11 DEF AutomationTypeOK
  <1>13. SweepHasOne'
    BY <1>10 DEF AutoInv, SweepHasOne
  <1>14. ASSUME ~past.harmed PROVE (Told(autos.all, autos.next, past) /\ SweepIsTold /\ FileIsTold)'
    <2>1. Told(old, n, past) /\ SweepIsTold
      BY <1>3, <1>5, <1>14 DEF AutoInv
    <2>2. n \in Nat \ {0} /\ m # 1 /\ \A i \in Ids : i \in Nat /\ (i < n \/ i = n => i < m)
      BY <1>3, AutomationAssumption DEF Ids
    <2>3. Told(as, m, past')
      <3>1. ASSUME NEW i \in Ids, as[i] # NoAutomation
            PROVE  i < m /\ (as[i].enabled => i \in past'.wanted) /\ past'.done[i] = LastFired(as[i])
        <4>1. CASE i = n
          BY <1>4, <1>6, <1>9, <1>b, <1>c, <1>11, <2>2, <4>1
        <4>2. CASE i # n
          BY ZenonT(30), SMTT(30), <1>6, <1>9, <1>b, <1>c, <1>11, <2>1, <2>2, <3>1, <4>2 DEF Told
        <4>3. QED
          BY <4>1, <4>2
      <3>2. QED
        BY <3>1 DEF Told
    <2>4. SweepIsTold'
      <3>1. \A k \in DOMAIN sweep.left : sweep.left[k].id \in Ids
        BY <1>1, LeftTyped
      <3>2. \A k \in DOMAIN sweep.left :
               /\ sweep.left[k].id < n
               /\ sweep.left[k].auto.enabled => sweep.left[k].id \in sweep.wanted
               /\ (k = 1 /\ sweep.at \in {"mkdir", "writing"}) \/ past.done[sweep.left[k].id] = LastFired(sweep.left[k].auto)
        BY <1>3, <2>1 DEF SweepIsTold
      <3>3. \A k \in DOMAIN sweep.left :
               sweep.left[k].id < m /\ past'.done[sweep.left[k].id] = past.done[sweep.left[k].id]
        <4>1. \A i \in Ids : i < n => i # n /\ i < m
          BY <2>2
        <4>2. \A i \in Ids : i < n => past'.done[i] = past.done[i]
          BY <1>9, <1>b, <1>11, <4>1
        <4>3. QED
          BY <3>1, <3>2, <4>1, <4>2
      <3>4. QED
        BY SMTT(30), ZenonT(30), <1>8, <1>10, <2>1, <3>2, <3>3 DEF SweepIsTold, Current, LastFired
    <2>5. FileIsTold'
      <3>1. autos'.loaded /\ autos'.next # 1
        BY <1>1, <1>8, <1>14, <2>2, SavesGives
      <3>2. QED
        BY <3>1, FileStays
    <2>6. QED
      BY <1>8, <2>3, <2>4, <2>5
  <1>15. QED
    BY <1>11, <1>12, <1>13, <1>14 DEF AutoInv

\* update() and delete(): the entry of the target changes, and whether it is wanted.
EntryIs(as, i, a) == as = [autos.all EXCEPT ![i] = a]
StoreIs(as, e) == autos' = [autos EXCEPT !.all = as, !.edits = Saves(e)]
WantedAre(wanted) == past' = [past EXCEPT !.wanted = wanted]

LEMMA EntryChanges ==
    ASSUME AutoInv, NEW e \in autos.edits, NEW i \in Ids, autos.all[i] # NoAutomation,
           NEW a \in Automation \cup {NoAutomation}, NEW wanted \in SUBSET Ids,
           NEW as, EntryIs(as, i, a), StoreIs(as, e), WantedAre(wanted),
           \A j \in Ids : j # i => (j \in wanted <=> j \in past.wanted),
           a # NoAutomation => (a.enabled => i \in wanted) /\ LastFired(a) = LastFired(autos.all[i]),
           autoFile' = autoFile, sweep' = sweep
    PROVE  AutoInv'
  <1>1. /\ autos \in AutoStates
        /\ past \in Pasts
        /\ AutomationTypeOK
    BY DEF AutoInv, AutomationTypeOK
  <1>2. PICK ds \in SUBSET Edit : ds = Saves(e) /\ \A d \in ds : d.target \in Ids \/ d.kind = "create"
    BY <1>1, SavesGives
  <1>3. PICK old \in [Ids -> Automation \cup {NoAutomation}] : old = autos.all
    BY <1>1
  <1>4. as \in [Ids -> Automation \cup {NoAutomation}] /\ as[i] = a /\ \A j \in Ids : j # i => as[j] = old[j]
    BY <1>3 DEF EntryIs
  <1>5. /\ autos' \in AutoStates
        /\ autos'.all = as /\ autos'.next = autos.next /\ autos'.loaded = autos.loaded /\ autos'.edits = ds
    BY <1>1, <1>2, <1>4 DEF StoreIs
  <1>6. /\ past' \in Pasts
        /\ past'.wanted = wanted /\ past'.done = past.done /\ past'.harmed = past.harmed
    BY <1>1 DEF WantedAre
  <1>7. AutomationTypeOK'
    BY <1>1, <1>2, <1>5, <1>6 DEF AutomationTypeOK
  <1>8. SweepHasOne'
    BY DEF AutoInv, SweepHasOne
  <1>9. ASSUME ~past.harmed PROVE (Told(autos.all, autos.next, past) /\ SweepIsTold /\ FileIsTold)'
    <2>1. Told(old, autos.next, past) /\ SweepIsTold
      BY <1>3, <1>9 DEF AutoInv
    <2>2. i < autos.next /\ autos.next # 1 /\ past.done[i] = LastFired(old[i])
      BY <1>1, <1>3, <2>1, AutomationAssumption DEF Told, Ids
    <2>3. ASSUME NEW j \in Ids, as[j] # NoAutomation
          PROVE  j < autos.next /\ (as[j].enabled => j \in past'.wanted) /\ past'.done[j] = LastFired(as[j])
      <3>1. CASE j = i
        BY <1>3, <1>4, <1>6, <2>2, <2>3, <3>1
      <3>2. CASE j # i
        BY <1>4, <1>6, <2>1, <2>3, <3>2 DEF Told
      <3>3. QED
        BY <3>1, <3>2
    <2>4. Told(as, autos.next, past')
      BY <2>3 DEF Told
    <2>5. SweepIsTold'
      BY <1>5, <1>6, <2>1 DEF SweepIsTold, Current, LastFired
    <2>6. autos'.loaded /\ autos'.next # 1
      BY <1>1, <1>5, <1>9, <2>2, SavesGives
    <2>7. FileIsTold'
      BY <2>6, FileStays
    <2>8. QED
      BY <1>5, <2>4, <2>5, <2>7
  <1>10. QED
    BY <1>6, <1>7, <1>8, <1>9 DEF AutoInv

\* An edit that ends, or is saved.
EditsAre(ds) == autos' = [autos EXCEPT !.edits = ds]

LEMMA EditEnds ==
    ASSUME AutoInv, NEW e \in autos.edits,
           NEW ds \in SUBSET Edit, \A d \in ds : d.target \in Ids \/ d.kind = "create", EditsAre(ds),
           past' = past, sweep' = sweep,
           autoFile' \in AutoFiles,
           (autoFile' = autoFile /\ ds \subseteq autos.edits) \/ past.harmed \/ autos.next # 1
    PROVE  AutoInv'
  <1>1. /\ autos \in AutoStates
        /\ AutomationTypeOK /\ \A d \in autos.edits : d.target \in Ids \/ d.kind = "create"
    BY DEF AutoInv, AutomationTypeOK
  <1>3. /\ autos' \in AutoStates
        /\ autos'.all = autos.all /\ autos'.next = autos.next /\ autos'.loaded = autos.loaded /\ autos'.edits = ds
    BY <1>1 DEF EditsAre
  <1>4. AutomationTypeOK'
    BY <1>1, <1>3 DEF AutomationTypeOK
  <1>5. SweepHasOne'
    BY DEF AutoInv, SweepHasOne
  <1>6. ASSUME ~past.harmed PROVE (Told(autos.all, autos.next, past) /\ SweepIsTold /\ FileIsTold)'
    <2>1. Told(autos.all, autos.next, past) /\ SweepIsTold /\ FileIsTold /\ autos.loaded
      BY <1>6, SavesGives DEF AutoInv
    <2>2. SweepIsTold'
      BY <1>3, <2>1 DEF SweepIsTold, Current
    <2>3. FileIsTold'
      <3>1. CASE autoFile' = autoFile /\ ds \subseteq autos.edits
        BY <1>3, <2>1, <3>1 DEF FileIsTold, Told
      <3>2. CASE autos.next # 1
        BY <1>3, <2>1, <3>2, FileStays
      <3>3. QED
        BY <1>6, <3>1, <3>2
    <2>4. QED
      BY <1>3, <2>1, <2>2, <2>3
  <1>7. QED
    BY <1>4, <1>5, <1>6 DEF AutoInv

\* update() of isEnabled
LEMMA KeepUpdate ==
    ASSUME AutoInv, NEW e, Update(e)
    PROVE  AutoInv'
  <1>1. /\ autos \in AutoStates
        /\ past \in Pasts
        /\ AutomationTypeOK /\ e \in autos.edits /\ e.kind \in {"enable", "disable"} /\ e.target \in Ids
    BY DEF AutoInv, AutomationTypeOK, Update
  <1>2. PICK i \in Ids : i = e.target
    BY <1>1
  <1>3. CASE autos.all[i] = NoAutomation
    <2>1. PICK ds \in SUBSET Edit : ds = autos.edits \ {e} /\ \A d \in ds : d.target \in Ids \/ d.kind = "create"
      BY <1>1, SavesGives
    <2>2. EditsAre(ds) /\ past' = past /\ sweep' = sweep /\ autoFile' = autoFile
      BY <1>2, <1>3, <2>1 DEF Update, EditsAre
    <2>3. autoFile' \in AutoFiles
      BY <1>1, <2>2 DEF AutomationTypeOK
    <2>4. QED
      BY <1>1, <2>1, <2>2, <2>3, EditEnds
  <1>4. CASE autos.all[i] # NoAutomation
    <2>1. PICK b \in BOOLEAN : b = (e.kind = "enable")
      OBVIOUS
    <2>2. PICK x \in Automation : x = autos.all[i]
      BY <1>1, <1>4
    <2>3. PICK a \in Automation : a = [x EXCEPT !.enabled = b] /\ a.enabled = b /\ LastFired(a) = LastFired(x)
      <3>1. /\ x = [trigger |-> x.trigger, enabled |-> x.enabled, created |-> x.created, lastRun |-> x.lastRun, runs |-> x.runs]
            /\ x.trigger \in Triggers /\ x.created \in Nat /\ x.lastRun \in Nat /\ x.runs \in Nat
        BY DEF Automation
      <3>2. PICK a : a = [trigger |-> x.trigger, enabled |-> b, created |-> x.created, lastRun |-> x.lastRun, runs |-> x.runs]
        OBVIOUS
      <3>3. a = [x EXCEPT !.enabled = b]
        BY <3>1, <3>2
      <3>4. a \in Automation
        BY <3>1, <3>2 DEF Automation
      <3>5. QED
        BY <3>2, <3>3, <3>4 DEF LastFired
    <2>4. PICK wanted \in SUBSET Ids :
              /\ wanted = IF e.kind = "enable" THEN past.wanted \cup {i} ELSE past.wanted \ {i}
              /\ \A j \in Ids : j # i => (j \in wanted <=> j \in past.wanted)
              /\ b => i \in wanted
      <3>1. PICK ws \in SUBSET Ids : ws = past.wanted
        BY <1>1
      <3>2. ws \cup {i} \in SUBSET Ids /\ ws \ {i} \in SUBSET Ids
        OBVIOUS
      <3>3. CASE e.kind = "enable"
        BY <2>1, <3>1, <3>2, <3>3
      <3>4. CASE e.kind # "enable"
        BY <2>1, <3>1, <3>2, <3>4
      <3>5. QED
        BY <3>3, <3>4
    <2>5. PICK as : EntryIs(as, i, a)
      BY DEF EntryIs
    <2>6. StoreIs(as, e)
      BY <1>1, <1>2, <1>4, <2>1, <2>2, <2>3, <2>5 DEF Update, EntryIs, StoreIs
    <2>7. WantedAre(wanted) /\ autoFile' = autoFile /\ sweep' = sweep
      BY <1>1, <1>2, <1>4, <2>4 DEF Update, WantedAre
    <2>8. (a.enabled => i \in wanted) /\ LastFired(a) = LastFired(autos.all[i]) /\ a \in Automation \cup {NoAutomation}
      BY <2>2, <2>3, <2>4
    <2>9. QED
      BY <1>1, <1>4, <2>4, <2>5, <2>6, <2>7, <2>8, EntryChanges
  <1>5. QED
    BY <1>3, <1>4

\* delete()
LEMMA KeepDelete ==
    ASSUME AutoInv, NEW e, Delete(e)
    PROVE  AutoInv'
  <1>1. /\ autos \in AutoStates
        /\ past \in Pasts
        /\ AutomationTypeOK /\ e \in autos.edits /\ e.target \in Ids
    BY DEF AutoInv, AutomationTypeOK, Delete
  <1>2. PICK i \in Ids : i = e.target
    BY <1>1
  <1>3. CASE autos.all[i] = NoAutomation
    <2>1. PICK ds \in SUBSET Edit : ds = autos.edits \ {e} /\ \A d \in ds : d.target \in Ids \/ d.kind = "create"
      BY <1>1, SavesGives
    <2>2. EditsAre(ds) /\ past' = past /\ sweep' = sweep /\ autoFile' = autoFile
      BY <1>2, <1>3, <2>1 DEF Delete, EditsAre
    <2>3. autoFile' \in AutoFiles
      BY <1>1, <2>2 DEF AutomationTypeOK
    <2>4. QED
      BY <1>1, <2>1, <2>2, <2>3, EditEnds
  <1>4. CASE autos.all[i] # NoAutomation
    <2>1. PICK wanted \in SUBSET Ids : wanted = past.wanted \ {i}
      BY <1>1
    <2>2. PICK as : EntryIs(as, i, NoAutomation)
      BY DEF EntryIs
    <2>3. StoreIs(as, e)
      BY <1>1, <1>2, <1>4, <2>2 DEF Delete, EntryIs, StoreIs
    <2>4. WantedAre(wanted) /\ autoFile' = autoFile /\ sweep' = sweep
      BY <1>1, <1>2, <1>4, <2>1 DEF Delete, WantedAre
    <2>5. \A j \in Ids : j # i => (j \in wanted <=> j \in past.wanted)
      BY <2>1
    <2>6. PICK a \in Automation \cup {NoAutomation} : a = NoAutomation
      OBVIOUS
    <2>7. QED
      BY <1>1, <1>4, <2>1, <2>2, <2>3, <2>4, <2>5, <2>6, EntryChanges
  <1>5. QED
    BY <1>3, <1>4

\* What the file may be after it was opened, and written.
LEMMA OpenedTyped ==
    ASSUME AutomationTypeOK, NEW by \in Nat
    PROVE  Opened(autoFile, by, Snapshot) \in AutoFiles
  <1>1. autoFile \in AutoFiles
    BY DEF AutomationTypeOK
  <1>2. Snapshot \in Stored
    BY DEF Snapshot, Stored, AutomationTypeOK
  <1>3. PICK ws \in SUBSET [by : Nat, snap : Stored] : ws = autoFile.writing \cup {[by |-> by, snap |-> Snapshot]}
    <2>1. [by |-> by, snap |-> Snapshot] \in [by : Nat, snap : Stored]
      BY <1>2
    <2>2. QED
      BY <1>1, <2>1
  <1>4. PICK mixed \in BOOLEAN : mixed = (autoFile.mixed \/ autoFile.writing # {})
    OBVIOUS
  <1>5. Opened(autoFile, by, Snapshot) = [text |-> Torn, writing |-> ws, mixed |-> mixed]
    BY <1>3, <1>4 DEF Opened
  <1>6. QED
    BY <1>5

\* The file once a text was written, or torn.
LEMMA WrittenTyped ==
    ASSUME AutomationTypeOK, NEW by \in Nat, NEW f \in Written(autoFile, by)
    PROVE  f \in AutoFiles
  <1>1. autoFile \in AutoFiles
    BY DEF AutomationTypeOK
  <1>2. PICK left, mine : /\ left = {w \in autoFile.writing : w.by # by}
                          /\ mine = {w.snap : w \in autoFile.writing \ left}
                          /\ f \in [text : IF autoFile.mixed THEN mine \cup {Torn} ELSE mine, writing : {left},
                                    mixed : {autoFile.mixed /\ left # {}}]
    BY DEF Written
  <1>3. mine \in SUBSET Stored /\ left \in SUBSET [by : Nat, snap : Stored]
    BY <1>1, <1>2
  <1>4. f.text \in Stored \cup {Torn}
    BY <1>2, <1>3
  <1>5. f.mixed \in BOOLEAN
    <2>1. PICK b \in BOOLEAN : b = (autoFile.mixed /\ left # {})
      OBVIOUS
    <2>2. f.mixed = b
      BY <1>2, <2>1
    <2>3. QED
      BY <2>2
  <1>6. f = [text |-> f.text, writing |-> f.writing, mixed |-> f.mixed] /\ f.writing = left
    BY <1>2
  <1>7. QED
    BY <1>3, <1>4, <1>5, <1>6

\* persist() of an edit opens the file.
LEMMA KeepOpenFile ==
    ASSUME AutoInv, NEW e, OpenFile(e)
    PROVE  AutoInv'
  <1>1. AutomationTypeOK /\ e \in autos.edits /\ e.id \in Nat /\ e.at = "mkdir"
    BY DEF AutoInv, AutomationTypeOK, OpenFile, Edit
  <1>2. PICK ds \in SUBSET Edit : ds = EditsWith(e, "writing") /\ \A d \in ds : d.target \in Ids \/ d.kind = "create"
    BY <1>1, EditGives
  <1>3. EditsAre(ds) /\ past' = past /\ sweep' = sweep
    BY <1>2 DEF OpenFile, EditsAre, EditsWith
  <1>4. autoFile' \in AutoFiles
    BY <1>1, OpenedTyped DEF OpenFile
  <1>5. past.harmed \/ autos.next # 1
    BY <1>1 DEF AutoInv, FileIsTold
  <1>6. QED
    BY <1>1, <1>2, <1>3, <1>4, <1>5, EditEnds

\* persist() of an edit is done.
LEMMA KeepEditSaved ==
    ASSUME AutoInv, NEW e, EditSaved(e)
    PROVE  AutoInv'
  <1>1. AutomationTypeOK /\ e \in autos.edits /\ e.id \in Nat /\ e.at = "writing"
    BY DEF AutoInv, AutomationTypeOK, EditSaved, Edit
  <1>2. PICK ds \in SUBSET Edit : ds = autos.edits \ {e} /\ \A d \in ds : d.target \in Ids \/ d.kind = "create"
    BY <1>1, SavesGives
  <1>3. EditsAre(ds) /\ past' = past /\ sweep' = sweep
    BY <1>2 DEF EditSaved, EditsAre
  <1>4. autoFile' \in AutoFiles
    BY <1>1, WrittenTyped DEF EditSaved
  <1>5. past.harmed \/ autos.next # 1
    BY <1>1 DEF AutoInv, FileIsTold
  <1>6. QED
    BY <1>1, <1>2, <1>3, <1>4, <1>5, EditEnds

-----------------------------------------------------------------------------

\* A sweep that begins takes what is stored.
LEMMA SweepBegins ==
    ASSUME NEW all \in [Ids -> Automation \cup {NoAutomation}], Told(all, autos'.next, past'),
           sweep'.left = Listed(all), sweep'.at = "checking", sweep'.wanted = past'.wanted
    PROVE  SweepIsTold'
  <1>1. PICK left \in Seq([id : Ids, auto : Automation]) :
            /\ left = sweep'.left
            /\ \A k \in DOMAIN left : all[left[k].id] # NoAutomation /\ left[k].auto = all[left[k].id]
            /\ \A k, l \in DOMAIN left : left[k].id = left[l].id => k = l
    BY ListedGives
  <1>2. \A k \in DOMAIN left : left[k].id \in Ids
    <2>1. \A k \in DOMAIN left : left[k] \in [id : Ids, auto : Automation]
      BY ElementOfSeq, LenProperties
    <2>2. QED
      BY <2>1
  <1>3. ASSUME NEW k \in DOMAIN left
        PROVE  /\ left[k].id < autos'.next
               /\ left[k].auto.enabled => left[k].id \in past'.wanted
               /\ past'.done[left[k].id] = LastFired(left[k].auto)
    <2>1. PICK i \in Ids : i = left[k].id /\ all[i] # NoAutomation /\ left[k].auto = all[i]
      BY <1>1, <1>2
    <2>2. QED
      BY <2>1 DEF Told
  <1>4. QED
    BY <1>1, <1>3 DEF SweepIsTold, LastFired

\* tick() begins a sweep, unless one is on its way.
LEMMA KeepMinutePasses ==
    ASSUME AutoInv, MinutePasses
    PROVE  AutoInv'
  <1>1. /\ autos \in AutoStates
        /\ past \in Pasts
        /\ sweep \in Sweeps
        /\ AutomationTypeOK
    BY DEF AutoInv, AutomationTypeOK
  <1>2. PICK c \in Nat : c = past.clock + 1
    BY <1>1
  <1>3. past' = [past EXCEPT !.clock = c] /\ autoFile' = autoFile
    BY <1>2 DEF MinutePasses
  <1>4. /\ past' \in Pasts
        /\ past'.done = past.done /\ past'.wanted = past.wanted /\ past'.harmed = past.harmed
    BY <1>1, <1>3
  <1>5. CASE ~(sweep.timer /\ ~sweep.firing)
    <2>1. autos' = autos /\ sweep' = sweep
      BY <1>5 DEF MinutePasses
    <2>2. AutomationTypeOK' /\ SweepHasOne'
      BY <1>1, <1>3, <1>4, <2>1 DEF AutomationTypeOK, AutoInv, SweepHasOne
    <2>3. ASSUME ~past.harmed PROVE (Told(autos.all, autos.next, past) /\ SweepIsTold /\ FileIsTold)'
      BY <1>3, <1>4, <2>1, <2>3 DEF AutoInv, Told, SweepIsTold, FileIsTold, Current
    <2>4. QED
      BY <1>4, <2>2, <2>3 DEF AutoInv
  <1>6. CASE sweep.timer /\ ~sweep.firing
    <2>1. PICK left \in Seq([id : Ids, auto : Automation]) : left = IF autos.loaded THEN Listed(autos.all) ELSE <<>>
      <3>1. PICK all \in [Ids -> Automation \cup {NoAutomation}] : all = autos.all
        BY <1>1
      <3>2. Listed(all) \in Seq([id : Ids, auto : Automation])
        BY ListedGives
      <3>3. QED
        BY <3>1, <3>2, EmptySeq
    <2>2. PICK at \in {"reading", "checking"} : at = IF autos.loaded THEN "checking" ELSE "reading"
      OBVIOUS
    <2>3. /\ autos' = [autos EXCEPT !.loaded = TRUE]
          /\ sweep' = [sweep EXCEPT !.firing = TRUE, !.now = c, !.at = at, !.left = left, !.wanted = past.wanted]
      BY <1>2, <1>6, <2>1, <2>2 DEF MinutePasses
    <2>4. /\ autos' \in AutoStates
          /\ autos'.all = autos.all /\ autos'.next = autos.next /\ autos'.loaded /\ autos'.edits = autos.edits
      BY <1>1, <2>3
    <2>5. /\ sweep' \in Sweeps
          /\ sweep'.left = left /\ sweep'.at = at /\ sweep'.wanted = past.wanted
      BY <1>1, <2>3
    <2>6. AutomationTypeOK' /\ SweepHasOne'
      BY <1>1, <1>3, <1>4, <2>4, <2>5 DEF AutomationTypeOK, SweepHasOne
    <2>7. ASSUME ~past.harmed PROVE (Told(autos.all, autos.next, past) /\ SweepIsTold /\ FileIsTold)'
      <3>1. Told(autos.all, autos.next, past) /\ FileIsTold
        BY <2>7 DEF AutoInv
      <3>2. Told(autos.all, autos'.next, past')
        BY <1>4, <2>4, <3>1 DEF Told
      <3>3. SweepIsTold'
        <4>1. CASE autos.loaded
          <5>1. left = Listed(autos.all) /\ at = "checking" /\ autos.all \in [Ids -> Automation \cup {NoAutomation}]
            BY <1>1, <2>1, <2>2, <4>1
          <5>2. QED
            BY <1>4, <2>5, <3>2, <5>1, SweepBegins
        <4>2. CASE ~autos.loaded
          BY <2>1, <2>2, <2>5, <4>2, EmptySeq DEF SweepIsTold
        <4>3. QED
          BY <4>1, <4>2
      <3>4. FileIsTold'
        BY <1>3, <1>4, <2>4, <3>1 DEF FileIsTold, Told
      <3>5. QED
        BY <2>4, <3>2, <3>3, <3>4
    <2>8. QED
      BY <1>4, <2>6, <2>7 DEF AutoInv
  <1>7. QED
    BY <1>5, <1>6

\* Start, Stop, CheckNext and EndSweep leave the store and the file alone.
LEMMA OnlySweep ==
    ASSUME AutoInv, autos' = autos, autoFile' = autoFile, past' = past,
           sweep' \in Sweeps,
           SweepHasOne', past.harmed \/ SweepIsTold', past.harmed \/ autos.loaded \/ sweep'.at = "idle"
    PROVE  AutoInv'
  <1>1. AutomationTypeOK'
    BY DEF AutoInv, AutomationTypeOK
  <1>2. ASSUME ~past.harmed PROVE (Told(autos.all, autos.next, past) /\ SweepIsTold /\ FileIsTold)'
    BY <1>2 DEF AutoInv, Told, FileIsTold
  <1>3. QED
    BY <1>1, <1>2 DEF AutoInv

\* start() and stop()
LEMMA KeepTimer ==
    ASSUME AutoInv, Start \/ Stop
    PROVE  AutoInv'
  <1>1. /\ sweep \in Sweeps
    BY DEF AutoInv, AutomationTypeOK
  <1>2. PICK b \in BOOLEAN : sweep' = [sweep EXCEPT !.timer = b]
    BY DEF Start, Stop
  <1>3. /\ sweep' \in Sweeps
        /\ sweep'.left = sweep.left /\ sweep'.at = sweep.at /\ sweep'.wanted = sweep.wanted /\ sweep'.now = sweep.now
    BY <1>1, <1>2
  <1>4. autos' = autos /\ autoFile' = autoFile /\ past' = past
    BY DEF Start, Stop
  <1>5. SweepHasOne'
    BY <1>3 DEF AutoInv, SweepHasOne
  <1>6. past.harmed \/ SweepIsTold'
    BY <1>3, <1>4 DEF AutoInv, SweepIsTold, Current
  <1>7. past.harmed \/ autos.loaded \/ sweep'.at = "idle"
    BY <1>3 DEF AutoInv, FileIsTold
  <1>8. QED
    BY <1>3, <1>4, <1>5, <1>6, <1>7, OnlySweep

\* load() ends, for a sweep.
LEMMA KeepSweepLoaded ==
    ASSUME AutoInv, SweepLoaded
    PROVE  AutoInv'
  <1>1. /\ AutomationTypeOK
        /\ past.wanted \in SUBSET Ids
        /\ sweep \in Sweeps
    BY DEF AutoInv, AutomationTypeOK
  <1>2. PICK m \in AutoStates :
            /\ m = Merged /\ m.loaded = autos.loaded /\ m.edits = autos.edits
            /\ MergeHarms \/ (~past.harmed /\ autos.next = 1 /\ Told(m.all, m.next, past))
    BY MergeGives
  <1>3. PICK all \in [Ids -> Automation \cup {NoAutomation}] : all = m.all
    BY <1>2
  <1>4. PICK left \in Seq([id : Ids, auto : Automation]) : left = Listed(all)
    BY ListedGives
  <1>5. /\ autos' = m /\ autoFile' = autoFile
        /\ sweep' = [sweep EXCEPT !.at = "checking", !.left = left, !.wanted = past.wanted]
    BY <1>2, <1>3, <1>4 DEF SweepLoaded
  <1>6. /\ sweep' \in Sweeps
        /\ sweep'.left = left /\ sweep'.at = "checking" /\ sweep'.wanted = past.wanted
    BY <1>1, <1>5
  <1>7. /\ past' \in Pasts
        /\ past'.done = past.done /\ past'.wanted = past.wanted
        /\ past'.harmed \/ ~MergeHarms
    BY <1>1, HarmGives DEF SweepLoaded
  <1>8. AutomationTypeOK' /\ SweepHasOne'
    BY <1>1, <1>2, <1>5, <1>6, <1>7 DEF AutomationTypeOK, SweepHasOne
  <1>9. ASSUME ~past'.harmed PROVE (Told(autos.all, autos.next, past) /\ SweepIsTold /\ FileIsTold)'
    <2>1. ~past.harmed /\ autos.next = 1 /\ Told(all, m.next, past) /\ FileIsTold
      BY <1>2, <1>3, <1>7, <1>9 DEF AutoInv
    <2>2. Told(all, autos'.next, past')
      BY <1>5, <1>7, <2>1 DEF Told
    <2>3. SweepIsTold'
      BY <1>4, <1>6, <1>7, <2>2, SweepBegins
    <2>4. autos.loaded
      BY <2>1 DEF FileIsTold, SweepLoaded
    <2>5. FileIsTold'
      <3>1. autoFile.text = Torn \/ Told(autoFile.text.all, autoFile.text.next, past')
        BY <1>7, <2>1 DEF FileIsTold, Told
      <3>2. autoFile.writing = {} /\ \A d \in autos'.edits : d.at \in {"reading", "edit"}
        BY <1>2, <1>5, <2>1 DEF FileIsTold
      <3>3. autos'.loaded
        BY <1>2, <1>5, <2>4
      <3>4. QED
        BY <1>5, <3>1, <3>2, <3>3 DEF FileIsTold
    <2>6. QED
      BY <1>3, <1>5, <2>2, <2>3, <2>5
  <1>10. QED
    BY <1>8, <1>9 DEF AutoInv

\* A sweep that is on its way: the store is loaded, and has given out ids.
LEMMA OnTheWay ==
    ASSUME AutoInv, sweep.at \in {"checking", "dispatching", "mkdir", "writing"}
    PROVE  /\ past.harmed \/ autos.loaded
           /\ sweep.left = <<>> \/ past.harmed \/ autos.next # 1
           /\ sweep.left = <<>> \/ Current \in [id : Ids, auto : Automation]
  <1>1. past.harmed \/ autos.loaded
    BY DEF AutoInv, FileIsTold
  <1>2. sweep.left = <<>> \/ past.harmed \/ autos.next # 1
    BY NoneLeft DEF AutoInv
  <1>3. sweep.left = <<>> \/ Current \in [id : Ids, auto : Automation]
    <2>1. PICK left \in Seq([id : Ids, auto : Automation]) : left = sweep.left
      BY DEF AutoInv, AutomationTypeOK
    <2>2. QED
      BY <2>1, HeadAndTail DEF Current
  <1>4. QED
    BY <1>1, <1>2, <1>3

\* isDue() of the next one.
LEMMA KeepCheckNext ==
    ASSUME AutoInv, CheckNext
    PROVE  AutoInv'
  <1>1. /\ AutomationTypeOK /\ sweep.at = "checking" /\ sweep.left # <<>>
        /\ autos' = autos /\ autoFile' = autoFile /\ past' = past
        /\ sweep \in Sweeps
    BY DEF AutoInv, AutomationTypeOK, CheckNext
  <1>2. past.harmed \/ autos.loaded
    BY <1>1, OnTheWay
  <1>3. CASE Current.auto.enabled /\ Due(Current.auto, sweep.now)
    <2>1. sweep' = [sweep EXCEPT !.at = "dispatching"]
      BY <1>3 DEF CheckNext
    <2>2. /\ sweep' \in Sweeps
          /\ sweep'.left = sweep.left /\ sweep'.at = "dispatching" /\ sweep'.wanted = sweep.wanted /\ sweep'.now = sweep.now
      BY <1>1, <2>1
    <2>3. SweepHasOne'
      BY <1>1, <2>2 DEF SweepHasOne
    <2>4. past.harmed \/ SweepIsTold'
      BY <1>1, <1>3, <2>2 DEF AutoInv, SweepIsTold, Current
    <2>5. QED
      BY <1>1, <1>2, <2>2, <2>3, <2>4, OnlySweep
  <1>4. CASE ~(Current.auto.enabled /\ Due(Current.auto, sweep.now))
    <2>1. sweep' = NextOne
      BY <1>4 DEF CheckNext
    <2>2. /\ sweep' \in Sweeps
          /\ SweepHasOne' /\ (past.harmed \/ SweepIsTold')
      BY <1>1, <2>1, NextOneGives DEF AutoInv
    <2>3. QED
      BY <1>1, <1>2, <2>2, OnlySweep
  <1>5. QED
    BY <1>3, <1>4

\* A dispatch fails.
LEMMA KeepDispatchFails ==
    ASSUME AutoInv, DispatchFails
    PROVE  AutoInv'
  <1>1. /\ AutomationTypeOK /\ sweep.at = "dispatching" /\ sweep.left # <<>>
        /\ autos' = autos /\ autoFile' = autoFile /\ past' = past /\ sweep' = NextOne
    BY DEF AutoInv, SweepHasOne, DispatchFails
  <1>2. past.harmed \/ autos.loaded
    BY <1>1, OnTheWay
  <1>3. /\ sweep' \in Sweeps
        /\ SweepHasOne' /\ (past.harmed \/ SweepIsTold')
    BY <1>1, NextOneGives DEF AutoInv
  <1>4. QED
    BY <1>1, <1>2, <1>3, OnlySweep

\* No sweep.
LEMMA IdleGives ==
    ASSUME NEW timer \in BOOLEAN, sweep' = Idle(timer)
    PROVE  /\ sweep' \in Sweeps
           /\ sweep'.at = "idle" /\ sweep'.left = <<>> /\ SweepHasOne' /\ SweepIsTold'
  <1>1. <<>> \in Seq([id : Ids, auto : Automation])
    BY EmptySeq
  <1>2. /\ sweep' = [timer |-> timer, firing |-> FALSE, at |-> "idle", left |-> <<>>, now |-> 0, wanted |-> {}]
        /\ sweep'.at = "idle" /\ sweep'.left = <<>>
    BY DEF Idle
  <1>3. sweep' \in Sweeps
    BY <1>1, <1>2
  <1>4. SweepHasOne' /\ SweepIsTold'
    BY <1>2 DEF SweepHasOne, SweepIsTold
  <1>5. QED
    BY <1>2, <1>3, <1>4

\* The sweep ends.
LEMMA KeepEndSweep ==
    ASSUME AutoInv, EndSweep
    PROVE  AutoInv'
  <1>1. sweep.timer \in BOOLEAN /\ autos' = autos /\ autoFile' = autoFile /\ past' = past /\ sweep' = Idle(sweep.timer)
    BY DEF AutoInv, AutomationTypeOK, EndSweep
  <1>2. /\ sweep' \in Sweeps
        /\ sweep'.at = "idle" /\ SweepHasOne' /\ SweepIsTold'
    BY <1>1, IdleGives
  <1>3. QED
    BY <1>1, <1>2, OnlySweep

\* A step of a sweep that is on its way: the store has given out ids, so the file
\* matters no more.
LEMMA SweepGoesOn ==
    ASSUME AutoInv, sweep.at \in {"checking", "dispatching", "mkdir", "writing"}, sweep.left # <<>>,
           AutomationTypeOK', SweepHasOne', past'.harmed = past.harmed,
           autos'.next = autos.next, autos'.loaded = autos.loaded,
           past.harmed \/ Told(autos'.all, autos'.next, past'), past.harmed \/ SweepIsTold'
    PROVE  AutoInv'
  <1>1. ASSUME ~past.harmed PROVE FileIsTold'
    <2>1. autos'.loaded /\ autos'.next # 1
      BY <1>1, OnTheWay
    <2>2. QED
      BY <2>1, FileStays
  <1>2. QED
    BY <1>1 DEF AutoInv

\* persist() of recordRun() opens the file.
LEMMA KeepOpenRecord ==
    ASSUME AutoInv, OpenRecord
    PROVE  AutoInv'
  <1>1. /\ AutomationTypeOK /\ sweep.at = "mkdir" /\ sweep.left # <<>>
        /\ autos' = autos /\ past' = past /\ sweep' = [sweep EXCEPT !.at = "writing"]
        /\ sweep \in Sweeps
    BY DEF AutoInv, AutomationTypeOK, SweepHasOne, OpenRecord
  <1>2. autoFile' \in AutoFiles
    <2>1. 0 \in Nat
      OBVIOUS
    <2>2. QED
      BY <1>1, <2>1, OpenedTyped DEF OpenRecord
  <1>3. /\ sweep' \in Sweeps
        /\ sweep'.left = sweep.left /\ sweep'.at = "writing" /\ sweep'.wanted = sweep.wanted /\ sweep'.now = sweep.now
    BY <1>1
  <1>4. AutomationTypeOK' /\ SweepHasOne'
    BY <1>1, <1>2, <1>3 DEF AutomationTypeOK, SweepHasOne
  <1>5. past.harmed \/ SweepIsTold'
    BY <1>1, <1>3 DEF AutoInv, SweepIsTold
  <1>6. past.harmed \/ Told(autos'.all, autos'.next, past')
    BY <1>1 DEF AutoInv
  <1>7. QED
    BY <1>1, <1>4, <1>5, <1>6, SweepGoesOn

\* persist() of recordRun() is done.
LEMMA KeepRecordSaved ==
    ASSUME AutoInv, RecordSaved
    PROVE  AutoInv'
  <1>1. /\ AutomationTypeOK /\ sweep.at = "writing" /\ sweep.left # <<>>
        /\ autos' = autos /\ past' = past /\ sweep' = NextOne
    BY DEF AutoInv, SweepHasOne, RecordSaved
  <1>2. autoFile' \in AutoFiles
    <2>1. 0 \in Nat
      OBVIOUS
    <2>2. QED
      BY <1>1, <2>1, WrittenTyped DEF RecordSaved
  <1>3. /\ sweep' \in Sweeps
        /\ SweepHasOne' /\ (past.harmed \/ SweepIsTold')
    BY <1>1, NextOneGives DEF AutoInv
  <1>4. AutomationTypeOK'
    BY <1>1, <1>2, <1>3 DEF AutomationTypeOK
  <1>5. past.harmed \/ Told(autos'.all, autos'.next, past')
    BY <1>1 DEF AutoInv
  <1>6. QED
    BY <1>1, <1>3, <1>4, <1>5, SweepGoesOn

\* A dispatch is done, and recorded if the automation is still there.
LEMMA KeepDispatched ==
    ASSUME AutoInv, Dispatched
    PROVE  AutoInv'
  <1>1. /\ autos \in AutoStates
        /\ past \in Pasts
        /\ sweep \in Sweeps
        /\ AutomationTypeOK /\ sweep.at = "dispatching" /\ sweep.left # <<>> /\ autoFile' = autoFile
    BY DEF AutoInv, AutomationTypeOK, SweepHasOne, Dispatched
  <1>2. PICK i \in Ids : i = Current.id
    BY <1>1, OnTheWay
  <1>3. PICK c \in Nat, done0 \in [Ids -> Nat], old \in [Ids -> Automation \cup {NoAutomation}] :
            c = past.clock /\ done0 = past.done /\ old = autos.all
    BY <1>1
  <1>4. PICK done : done = [done0 EXCEPT ![i] = c]
    OBVIOUS
  <1>5. done \in [Ids -> Nat] /\ done[i] = c /\ \A j \in Ids : j # i => done[j] = done0[j]
    BY <1>4
  <1>6. past' = [past EXCEPT !.done = done]
    BY <1>2, <1>3, <1>4 DEF Dispatched
  <1>7. /\ past' \in Pasts
        /\ past'.done = done /\ past'.wanted = past.wanted /\ past'.harmed = past.harmed
    BY <1>1, <1>5, <1>6
  <1>8. CASE old[i] = NoAutomation
    <2>1. sweep' = NextOne /\ autos' = autos
      BY <1>2, <1>3, <1>8 DEF Dispatched
    <2>2. /\ sweep' \in Sweeps
          /\ SweepHasOne' /\ (past.harmed \/ SweepIsTold')
      <3>1. \A j \in Ids : j = Current.id \/ past'.done[j] = past.done[j]
        BY <1>2, <1>3, <1>5, <1>7
      <3>2. autos'.next = autos.next
        BY <2>1
      <3>3. QED
        BY <1>1, <2>1, <3>1, <3>2, NextOneGives DEF AutoInv
    <2>3. AutomationTypeOK'
      BY <1>1, <1>7, <2>1, <2>2 DEF AutomationTypeOK
    <2>4. past.harmed \/ Told(autos'.all, autos'.next, past')
      <3>1. ASSUME ~past.harmed PROVE Told(old, autos.next, past')
        <4>1. Told(old, autos.next, past)
          BY <1>3, <3>1 DEF AutoInv
        <4>2. QED
          BY <1>3, <1>5, <1>7, <1>8, <4>1 DEF Told
      <3>2. QED
        BY <1>3, <2>1, <3>1
    <2>5. QED
      BY <1>1, <1>7, <2>1, <2>2, <2>3, <2>4, SweepGoesOn
  <1>9. CASE old[i] # NoAutomation
    <2>1. PICK x \in Automation : x = old[i]
      BY <1>9
    <2>2. PICK a \in Automation : a = [x EXCEPT !.lastRun = c, !.runs = @ + 1] /\ a.enabled = x.enabled /\ LastFired(a) = c
      <3>1. x \in [trigger : Triggers, enabled : BOOLEAN, created : Nat, lastRun : Nat, runs : Nat]
        BY DEF Automation
      <3>2. PICK r \in Nat : r = x.runs + 1 /\ r # 0
        BY <3>1
      <3>3. PICK a : a = [x EXCEPT !.lastRun = c, !.runs = r]
        OBVIOUS
      <3>4. a \in [trigger : Triggers, enabled : BOOLEAN, created : Nat, lastRun : Nat, runs : Nat]
        BY <3>1, <3>3
      <3>5. a.enabled = x.enabled /\ a.runs = r /\ a.lastRun = c
        BY <3>1, <3>3
      <3>6. a = [x EXCEPT !.lastRun = c, !.runs = @ + 1]
        BY <3>2, <3>3
      <3>7. QED
        BY <3>2, <3>4, <3>5, <3>6 DEF Automation, LastFired
    <2>3. PICK as : as = [old EXCEPT ![i] = a]
      OBVIOUS
    <2>4. as \in [Ids -> Automation \cup {NoAutomation}] /\ as[i] = a /\ \A j \in Ids : j # i => as[j] = old[j]
      BY <2>3
    <2>5. autos' = [autos EXCEPT !.all = as] /\ sweep' = [sweep EXCEPT !.at = "mkdir"]
      BY <1>2, <1>3, <1>9, <2>1, <2>2, <2>3 DEF Dispatched, Recorded
    <2>6. /\ autos' \in AutoStates
          /\ autos'.all = as /\ autos'.next = autos.next /\ autos'.loaded = autos.loaded /\ autos'.edits = autos.edits
      BY <1>1, <2>4, <2>5
    <2>7. /\ sweep' \in Sweeps
          /\ sweep'.left = sweep.left /\ sweep'.at = "mkdir" /\ sweep'.wanted = sweep.wanted
      BY <1>1, <2>5
    <2>8. AutomationTypeOK' /\ SweepHasOne'
      BY <1>1, <1>7, <2>6, <2>7 DEF AutomationTypeOK, SweepHasOne
    <2>9. ASSUME ~past.harmed PROVE Told(as, autos.next, past')
      <3>1. Told(old, autos.next, past)
        BY <1>3, <2>9 DEF AutoInv
      <3>2. i < autos.next /\ (x.enabled => i \in past.wanted)
        BY <1>9, <2>1, <3>1 DEF Told
      <3>3. ASSUME NEW j \in Ids, as[j] # NoAutomation
            PROVE  j < autos.next /\ (as[j].enabled => j \in past'.wanted) /\ past'.done[j] = LastFired(as[j])
        <4>1. CASE j = i
          BY <1>5, <1>7, <2>2, <2>4, <3>2, <4>1
        <4>2. CASE j # i
          BY <1>3, <1>5, <1>7, <2>4, <3>1, <3>3, <4>2 DEF Told
        <4>3. QED
          BY <4>1, <4>2
      <3>4. QED
        BY <3>3 DEF Told
    <2>10. ASSUME ~past.harmed PROVE SweepIsTold'
      <3>1. SweepIsTold
        BY <2>10 DEF AutoInv
      <3>2. PICK left \in Seq([id : Ids, auto : Automation]) : left = sweep.left /\ Current = left[1] /\ 1 \in DOMAIN left
        <4>1. PICK left \in Seq([id : Ids, auto : Automation]) : left = sweep.left
          BY <1>1
        <4>2. QED
          BY <1>1, <4>1, HeadAndTail DEF Current
      <3>3. \A k \in DOMAIN left : left[k].id \in Ids
        BY <1>1, <3>2, LeftTyped
      <3>4. \A k \in DOMAIN left : k = 1 \/ (left[k].id # i /\ past.done[left[k].id] = LastFired(left[k].auto))
        BY <1>1, <1>2, <3>1, <3>2 DEF SweepIsTold
      <3>5. \A k \in DOMAIN left : k = 1 \/ past'.done[left[k].id] = LastFired(left[k].auto)
        BY <1>3, <1>5, <1>7, <3>3, <3>4
      <3>6. QED
        BY <2>6, <2>7, <3>1, <3>2, <3>5 DEF SweepIsTold, LastFired
    <2>11. QED
      BY <1>1, <1>7, <2>6, <2>8, <2>9, <2>10, SweepGoesOn
  <1>10. QED
    BY <1>8, <1>9

\* The empty store.
LEMMA NoneStored == NoAutomations \in [Ids -> Automation \cup {NoAutomation}] /\ \A i \in Ids : NoAutomations[i] = NoAutomation
  BY DEF NoAutomations

\* The host ends, and starts with what is on file.
LEMMA KeepAutomationRestarts ==
    ASSUME AutoInv, AutomationRestarts
    PROVE  AutoInv'
  <1>1. /\ autos \in AutoStates
        /\ past \in Pasts
        /\ autoFile \in AutoFiles
        /\ AutomationTypeOK
    BY DEF AutoInv, AutomationTypeOK
  <1>2. PICK none \in [Ids -> Automation \cup {NoAutomation}] : none = NoAutomations /\ \A i \in Ids : none[i] = NoAutomation
    BY NoneStored
  <1>3. autos' = [autos EXCEPT !.all = none, !.next = 1, !.loaded = FALSE, !.edits = {}]
    BY <1>2 DEF AutomationRestarts
  <1>4. /\ autos' \in AutoStates
        /\ autos'.all = none /\ autos'.next = 1 /\ ~autos'.loaded /\ autos'.edits = {}
    <2>1. 1 \in Nat \ {0}
      OBVIOUS
    <2>2. QED
      BY <1>1, <1>3, <2>1
  <1>5. /\ autoFile' \in AutoFiles
        /\ autoFile'.writing = {} /\ (autoFile'.text = Torn \/ autoFile'.text = autoFile.text)
    <2>1. PICK text \in Stored \cup {Torn} : text = IF autoFile.writing = {} THEN autoFile.text ELSE Torn
      BY <1>1
    <2>2. autoFile' = [text |-> text, writing |-> {}, mixed |-> FALSE]
      BY <2>1 DEF AutomationRestarts, Abandoned, NewFile
    <2>3. QED
      BY <2>1, <2>2
  <1>6. PICK b \in BOOLEAN : b = (past.harmed \/ (autos.loaded /\ autoFile.text # Snapshot) \/ autoFile.text = Torn)
    OBVIOUS
  <1>7. PICK r \in Nat : r = past.restarts + 1
    BY <1>1
  <1>8. past' = [past EXCEPT !.restarts = r, !.harmed = b]
    BY <1>1, <1>6, <1>7 DEF AutomationRestarts
  <1>9. /\ past' \in Pasts
        /\ past'.done = past.done /\ past'.wanted = past.wanted /\ past'.harmed = b
    BY <1>1, <1>8
  <1>10. /\ sweep' \in Sweeps
         /\ sweep'.at = "idle" /\ SweepHasOne' /\ SweepIsTold'
    <2>1. FALSE \in BOOLEAN /\ sweep' = Idle(FALSE)
      BY DEF AutomationRestarts
    <2>2. QED
      BY <2>1, IdleGives
  <1>11. AutomationTypeOK'
    BY <1>4, <1>5, <1>9, <1>10 DEF AutomationTypeOK
  <1>12. ASSUME ~past'.harmed PROVE (Told(autos.all, autos.next, past) /\ FileIsTold)'
    <2>1. ~past.harmed /\ autoFile.text # Torn /\ (autos.loaded => autoFile.text = Snapshot)
      BY <1>6, <1>9, <1>12
    <2>2. Told(autos.all, autos.next, past) /\ FileIsTold
      BY <2>1 DEF AutoInv
    <2>3. Told(autoFile.text.all, autoFile.text.next, past)
      <3>1. CASE autos.loaded
        <4>1. autoFile.text.all = autos.all /\ autoFile.text.next = autos.next
          BY <2>1, <3>1 DEF Snapshot
        <4>2. QED
          BY <2>2, <4>1
      <3>2. CASE ~autos.loaded
        BY <2>1, <2>2, <3>2 DEF FileIsTold
      <3>3. QED
        BY <3>1, <3>2
    <2>4. autoFile'.text = Torn \/ Told(autoFile'.text.all, autoFile'.text.next, past')
      BY <1>5, <1>9, <2>3 DEF Told
    <2>5. Told(none, autos'.next, past')
      BY <1>2 DEF Told
    <2>6. QED
      BY <1>4, <1>5, <1>10, <2>4, <2>5 DEF FileIsTold
  <1>13. QED
    BY <1>10, <1>11, <1>12 DEF AutoInv

AutomationSpec == AutomationInit /\ [][AutomationNext]_autoVars

\* Whatever the edits, sweeps, overlapping writes and restarts: as long as none lost
\* a change, the store, the sweep under way, and the file that is yet to be read are
\* what users asked for and runs have left (AutomationStore, AutomationScheduler).
THEOREM AutomationInvariant == AutomationSpec => []AutoInv
  <1>1. ASSUME AutomationInit PROVE AutoInv
    <2>1. PICK none \in [Ids -> Automation \cup {NoAutomation}] : none = NoAutomations /\ \A i \in Ids : none[i] = NoAutomation
      BY NoneStored
    <2>2. 1 \in Nat \ {0} /\ 0 \in Nat /\ <<>> \in Seq([id : Ids, auto : Automation])
      BY EmptySeq
    <2>3. /\ autos = [all |-> none, next |-> 1, loaded |-> FALSE, edits |-> {}, count |-> 0]
          /\ autoFile = [text |-> [all |-> none, next |-> 1], writing |-> {}, mixed |-> FALSE]
          /\ sweep = [timer |-> FALSE, firing |-> FALSE, at |-> "idle", left |-> <<>>, now |-> 0, wanted |-> {}]
          /\ past = [clock |-> 0, done |-> [i \in Ids |-> 0], wanted |-> {}, restarts |-> 0, harmed |-> FALSE]
      BY <1>1, <2>1 DEF AutomationInit, NewFile, Idle
    <2>4. [all |-> none, next |-> 1] \in Stored
      BY <2>2 DEF Stored
    <2>5. AutomationTypeOK
      BY <2>2, <2>3, <2>4 DEF AutomationTypeOK
    <2>6. SweepHasOne /\ SweepIsTold
      BY <2>3 DEF SweepHasOne, SweepIsTold
    <2>7. Told(none, 1, past)
      BY <2>1 DEF Told
    <2>8. autos.all = none /\ autos.next = 1 /\ autos.edits = {} /\ autoFile.writing = {} /\ sweep.at = "idle"
          /\ autoFile.text.all = none /\ autoFile.text.next = 1
      BY <2>3
    <2>9. FileIsTold
      BY <2>7, <2>8 DEF FileIsTold
    <2>10. QED
      BY <2>5, <2>6, <2>7, <2>8, <2>9 DEF AutoInv
  <1>2. ASSUME AutoInv, [AutomationNext]_autoVars PROVE AutoInv'
    <2>1. CASE UNCHANGED autoVars
      BY SMTT(30), ZenonT(30), <1>2, <2>1 DEF autoVars, AutoInv, AutomationTypeOK, SweepHasOne, Told, SweepIsTold, FileIsTold, Current
    <2>2. CASE MinutePasses \/ Start \/ Stop \/ SweepLoaded \/ CheckNext \/ EndSweep
      BY <1>2, <2>2, KeepMinutePasses, KeepTimer, KeepSweepLoaded, KeepCheckNext, KeepEndSweep
    <2>3. CASE Dispatched \/ DispatchFails \/ OpenRecord \/ RecordSaved \/ AutomationRestarts
      BY <1>2, <2>3, KeepDispatched, KeepDispatchFails, KeepOpenRecord, KeepRecordSaved, KeepAutomationRestarts
    <2>4. CASE BeginEdit("create", 1)
      <3>1. 1 \in Nat
        OBVIOUS
      <3>2. QED
        BY <1>2, <2>4, <3>1, KeepBeginEdit
    <2>5. ASSUME NEW kind \in {"enable", "disable", "delete"}, NEW i \in Ids, BeginEdit(kind, i) PROVE AutoInv'
      <3>1. i \in Nat /\ kind \in {"create", "enable", "disable", "delete"}
        BY AutomationAssumption DEF Ids
      <3>2. QED
        BY <1>2, <2>5, <3>1, KeepBeginEdit
    <2>6. ASSUME NEW e \in autos.edits, EditLoaded(e) \/ Update(e) \/ Delete(e) \/ OpenFile(e) \/ EditSaved(e) PROVE AutoInv'
      BY <1>2, <2>6, KeepEditLoaded, KeepUpdate, KeepDelete, KeepOpenFile, KeepEditSaved
    <2>7. ASSUME NEW e \in autos.edits, NEW trigger \in Triggers, Create(e, trigger) PROVE AutoInv'
      BY <1>2, <2>7, KeepCreate
    <2>8. QED
      BY <1>2, <2>1, <2>2, <2>3, <2>4, <2>5, <2>6, <2>7 DEF AutomationNext
  <1>3. QED
    BY <1>1, <1>2, PTL DEF AutomationSpec

\* What the scheduler fires, its user wanted when the sweep began, and an interval
\* has passed since it was last fired (AutomationScheduler.tick, isDue).
THEOREM FiresDue == AutomationSpec => []FiresWhatIsDue
  <1>1. ASSUME AutoInv PROVE FiresWhatIsDue
    <2>1. SUFFICES ASSUME sweep.at = "dispatching", ~past.harmed
                   PROVE  /\ Current.id \in sweep.wanted
                          /\ Current.auto.trigger = "interval" => sweep.now - past.done[Current.id] >= Period
      BY DEF FiresWhatIsDue
    <2>2. SweepIsTold /\ sweep.left # <<>>
      BY <1>1, <2>1 DEF AutoInv, SweepHasOne
    <2>3. PICK left \in Seq([id : Ids, auto : Automation]) : left = sweep.left /\ Current = left[1] /\ 1 \in DOMAIN left
      <3>1. PICK left \in Seq([id : Ids, auto : Automation]) : left = sweep.left
        BY <1>1 DEF AutoInv, AutomationTypeOK
      <3>2. QED
        BY <2>2, <3>1, HeadAndTail DEF Current
    <2>4. /\ Current.auto.enabled => Current.id \in sweep.wanted
          /\ past.done[Current.id] = LastFired(Current.auto)
          /\ Current.auto.enabled /\ Due(Current.auto, sweep.now)
      BY <2>1, <2>2, <2>3 DEF SweepIsTold
    <2>5. Current.auto.trigger = "interval" => sweep.now - LastFired(Current.auto) >= Period
      BY <2>4 DEF Due, LastFired
    <2>6. QED
      BY <2>4, <2>5
  <1>2. QED
    BY <1>1, AutomationInvariant, PTL

HIDE DEF AutoStates, AutoFiles, Sweeps, Pasts
=============================================================================
