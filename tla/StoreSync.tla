----------------------------- MODULE StoreSync -----------------------------
(***************************************************************************)
(* Edits of one agent on several devices, against a store that hands out   *)
(* an etag per version: packages/state/src/agent-store-sync.ts.            *)
(*                                                                         *)
(* A value is the set of the edits in it.  update() reads, mutates and     *)
(* puts; on a conflict it reads once more, merges, puts once more, and     *)
(* gives up after that.  withLock() runs a task under a lock that lapses   *)
(* after a while, whether its task is done or not.                         *)
(***************************************************************************)
EXTENDS Naturals

CONSTANTS
    Devices,
    Merging,      \* TRUE: options.merge keeps both sides; FALSE: the default, the local value
    MaxUpdates, MaxVersions

ASSUME SyncAssumption == Merging \in BOOLEAN /\ MaxUpdates \in Nat /\ MaxVersions \in Nat

VARIABLES
    remote,   \* the backend: etag, value, lock
    devices,  \* what a device is doing
    synced    \* ghost: edits that were acknowledged; counters

syncVars == <<remote, devices, synced>>

Resting == [at |-> "rest", etag |-> 0, local |-> {}, edit |-> 0, tries |-> 0, locked |-> FALSE]

SyncTypeOK ==
    /\ remote.etag \in 0..MaxVersions /\ remote.value \subseteq 1..MaxUpdates
    /\ \A d \in Devices : devices[d].at \in {"rest", "task", "get", "put"}

SyncInit ==
    /\ remote = [etag |-> 0, value |-> {}, lock |-> {}, lapsed |-> FALSE]
    /\ devices = [d \in Devices |-> Resting]
    /\ synced = [edits |-> {}, updates |-> 0, overrun |-> {}]

-----------------------------------------------------------------------------
(* The lock *)

\* withLock(): the lock is had when nobody holds it, or its holder's has lapsed.
Lock(d) ==
    /\ devices[d].at = "rest" /\ synced.updates < MaxUpdates
    /\ remote.lock = {} \/ remote.lapsed
    /\ remote' = [remote EXCEPT !.lock = {d}, !.lapsed = FALSE]
    /\ devices' = [devices EXCEPT ![d] = [Resting EXCEPT !.at = "task", !.locked = TRUE]]
    /\ synced' = [synced EXCEPT !.overrun = @ \cup remote.lock]

\* Time passes: lockTtlMs after it was had.
LockLapses ==
    /\ remote.lock # {} /\ ~remote.lapsed
    /\ remote' = [remote EXCEPT !.lapsed = TRUE]
    /\ UNCHANGED <<devices, synced>>

\* The lock that is released when a device is done: its own only.
\* Fault: whoever holds it.
ReleasedByAnyone(d) == {}

Released(d) == remote.lock \ {d}

\* The task ends, well or badly: the finally of withLock().
Unlock(d) ==
    /\ devices[d].at = "task" /\ devices[d].locked
    /\ remote' = [remote EXCEPT !.lock = Released(d), !.lapsed = @ /\ Released(d) # {}]
    /\ devices' = [devices EXCEPT ![d] = Resting]
    /\ synced' = [synced EXCEPT !.overrun = @ \ {d}]

-----------------------------------------------------------------------------
(* update() *)

BeginUpdate(d) ==
    /\ devices[d].at \in {"rest", "task"} /\ synced.updates < MaxUpdates
    /\ synced' = [synced EXCEPT !.updates = @ + 1]
    /\ devices' = [devices EXCEPT ![d].at = "get", ![d].edit = synced.updates + 1, ![d].tries = 0]
    /\ UNCHANGED remote

\* The first answer is mutated, the second one merged with what that gave.
Combined(d) ==
    IF devices[d].tries = 0 THEN remote.value \cup {devices[d].edit}
    ELSE IF Merging THEN remote.value \cup devices[d].local
    ELSE devices[d].local

Got(d) ==
    /\ devices[d].at = "get"
    /\ devices' = [devices EXCEPT ![d].at = "put", ![d].etag = remote.etag, ![d].local = Combined(d)]
    /\ UNCHANGED <<remote, synced>>

Ended(d) == IF devices[d].locked THEN [Resting EXCEPT !.at = "task", !.locked = TRUE] ELSE Resting

\* Fault: the second put does not say which version it read.
ConflictOnce(d) == devices[d].tries = 0 /\ devices[d].etag # remote.etag

Conflict(d) == devices[d].etag # remote.etag

Put(d) ==
    /\ devices[d].at = "put" /\ ~Conflict(d) /\ remote.etag < MaxVersions
    /\ remote' = [remote EXCEPT !.etag = @ + 1, !.value = devices[d].local]
    /\ devices' = [devices EXCEPT ![d] = Ended(d)]
    /\ synced' = [synced EXCEPT !.edits = @ \cup {devices[d].edit}]

PutConflicts(d) ==
    /\ devices[d].at = "put" /\ Conflict(d)
    /\ devices' = [devices EXCEPT ![d] = IF devices[d].tries = 0 THEN [@ EXCEPT !.at = "get", !.tries = 1] ELSE Ended(d)]
    /\ UNCHANGED <<remote, synced>>

SyncNext ==
    \/ LockLapses
    \/ \E d \in Devices : Lock(d) \/ Unlock(d) \/ BeginUpdate(d) \/ Got(d) \/ Put(d) \/ PutConflicts(d)

-----------------------------------------------------------------------------
\* With a merge that keeps both sides, an edit that update() has acknowledged is
\* part of every later version, whatever the other devices write meanwhile.
EditsConverge == Merging => synced.edits \subseteq remote.value

\* Tasks under the lock are alone, unless the lock of one lapsed under it: a device
\* that is done late does not free the lock of the one that has it now.
LockedTasksAlone ==
    \A d, e \in Devices :
        devices[d].locked /\ devices[e].locked /\ {d, e} \cap synced.overrun = {} => d = e

\* What several devices may rely on when they change one agent.
DevicesAgree == EditsConverge /\ LockedTasksAlone
=============================================================================
