---------------------------- MODULE DesktopPool ----------------------------
(***************************************************************************)
(* The broker of the rooms' own desktops: ensure(), reap_once() and the    *)
(* handler of apps/community/deploy/provisioner/service.py, and the calls  *)
(* of it in apps/community/provisioner.mjs.                                *)
(*                                                                         *)
(* Whatever the broker does, it does under LOCK; but it may end between    *)
(* two steps, every step may fail, and a call of docker that takes too     *)
(* long is given up, while the daemon may still carry it out.              *)
(***************************************************************************)
EXTENDS Naturals, Sequences, SequencesExt, FiniteSets

CONSTANTS
    Desktops,      \* rooms with a desktop of their own
    NoDesktop,
    MaxStored,     \* MAX_STORED, and the slots there are
    MaxRunning,    \* MAX_RUNNING
    MaxAsked,      \* handlers that wait for the lock for one room
    MaxLate        \* calls of docker that take too long

ASSUME DesktopAssumption ==
    /\ IsFiniteSet(Desktops) /\ NoDesktop \notin Desktops
    /\ MaxStored \in Nat \ {0} /\ MaxRunning \in Nat \ {0} /\ MaxLate \in Nat /\ MaxAsked \in Nat

VARIABLES
    folders,      \* room -> how far its folder is made, its slot, whether home is mounted
    containers,   \* room -> "none", "stopped" or "running"
    leases,       \* LEASES, as "none", "fresh" or "old" (for more than IDLE)
    broker,       \* whether the broker runs, and what holds LOCK
    asked,        \* room -> its handlers that wait for LOCK
    pending,      \* the rooms whose call createProvisioner() waits for
    late,         \* the commands that were given up and are not carried out yet
    strays        \* containers such a command started

desktopVars == <<folders, containers, leases, broker, asked, pending, late, strays>>

Free == [kind |-> "free", room |-> NoDesktop, step |-> "", info |-> "none", rest |-> <<>>]

DesktopTypeOK ==
    /\ folders \in [Desktops -> [made : {"none", "folder", "slot", "disk"}, slot : 0..MaxStored, mounted : BOOLEAN]]
    /\ containers \in [Desktops -> {"none", "stopped", "running"}]
    /\ leases \in [Desktops -> {"none", "fresh", "old"}]

DesktopInit ==
    /\ folders = [r \in Desktops |-> [made |-> "none", slot |-> 0, mounted |-> FALSE]]
    /\ containers = [r \in Desktops |-> "none"]
    /\ leases = [r \in Desktops |-> "none"]
    /\ broker = [up |-> TRUE, lates |-> 0, lock |-> Free]
    /\ asked = [r \in Desktops |-> 0]
    /\ pending = {}
    /\ late = {}
    /\ strays = {}

Stored == {r \in Desktops : folders[r].made # "none"}
InUse == {r \in Desktops : containers[r] = "running"}
Lock == broker.lock

-----------------------------------------------------------------------------
(* docker *)

Outcome(state, command) ==
    CASE command = "create" /\ state = "none" -> "stopped"
      [] command = "start" /\ state # "none" -> "running"
      [] command = "stop" /\ state # "none" -> "stopped"
      [] OTHER -> state

Docker(command, r) == containers' = [containers EXCEPT ![r] = Outcome(@, command)]

GivenUp(command, r) ==
    /\ broker.lates < MaxLate
    /\ late' = late \cup {[command |-> command, room |-> r]}

CarriedOut(l) ==
    /\ l \in late
    /\ Docker(l.command, l.room)
    /\ late' = late \ {l}
    /\ strays' = CASE l.command = "start" /\ leases[l.room] = "none" -> strays \cup {l.room}
                   [] l.command = "stop" -> strays \ {l.room}
                   [] OTHER -> strays
    /\ UNCHANGED <<folders, leases, broker, asked, pending>>

ContainerEnds(r) ==
    /\ containers[r] = "running"
    /\ containers' = [containers EXCEPT ![r] = "stopped"]
    /\ strays' = strays \ {r}
    /\ UNCHANGED <<folders, leases, broker, asked, pending, late>>

-----------------------------------------------------------------------------
(* provisioner.mjs *)

AskDesktop(r) ==
    /\ broker.up /\ r \notin pending /\ asked[r] < MaxAsked
    /\ pending' = pending \cup {r}
    /\ asked' = [asked EXCEPT ![r] = @ + 1]
    /\ UNCHANGED <<folders, containers, leases, broker, late, strays>>

\* After 55 seconds; the handler goes on.
AskTimesOut(r) ==
    /\ r \in pending
    /\ pending' = pending \ {r}
    /\ UNCHANGED <<folders, containers, leases, broker, asked, late, strays>>

-----------------------------------------------------------------------------
(* ensure() *)

\* The limits, and a folder without a slot, which fails every new room.
MayHave(r) ==
    /\ containers[r] # "running" => Cardinality(InUse) < MaxRunning
    /\ folders[r].made = "none" => Cardinality(Stored) < MaxStored /\ \A p \in Stored : folders[p].made # "folder"

BeginEnsure(r) ==
    /\ broker.up /\ Lock = Free /\ asked[r] > 0
    /\ asked' = [asked EXCEPT ![r] = @ - 1]
    /\ IF MayHave(r)
       THEN /\ broker' = [broker EXCEPT !.lock = [Free EXCEPT !.kind = "ensure", !.room = r, !.info = containers[r],
                                                     !.step = IF folders[r].made = "none" THEN "folder" ELSE "home"]]
            /\ UNCHANGED pending
       ELSE pending' = pending \ {r} /\ UNCHANGED broker
    /\ UNCHANGED <<folders, containers, leases, late, strays>>

Ensuring(step) == Lock.kind = "ensure" /\ Lock.step = step
Goto(step) == broker' = [broker EXCEPT !.lock.step = step]

MakeFolder ==
    /\ Ensuring("folder")
    /\ folders' = [folders EXCEPT ![Lock.room].made = "folder"]
    /\ Goto("slot")
    /\ UNCHANGED <<containers, leases, asked, pending, late, strays>>

WriteSlot ==
    /\ Ensuring("slot")
    /\ \E slot \in 1..MaxStored :
          /\ slot \notin {folders[p].slot : p \in Stored} /\ \A i \in 1..(slot - 1) : i \in {folders[p].slot : p \in Stored}
          /\ folders' = [folders EXCEPT ![Lock.room].slot = slot, ![Lock.room].made = "slot"]
    /\ Goto("home")
    /\ UNCHANGED <<containers, leases, asked, pending, late, strays>>

\* The disk is made under another name; then it is mounted.
MakeHome ==
    /\ Ensuring("home") /\ folders[Lock.room].made # "folder"
    /\ IF folders[Lock.room].made = "slot"
       THEN folders' = [folders EXCEPT ![Lock.room].made = "disk"] /\ UNCHANGED broker
       ELSE /\ folders' = [folders EXCEPT ![Lock.room].mounted = TRUE]
            /\ Goto(CASE Lock.info = "none" -> "create" [] Lock.info = "stopped" -> "start" [] OTHER -> "lease")
    /\ UNCHANGED <<containers, leases, asked, pending, late, strays>>

CreateContainer ==
    /\ Ensuring("create") /\ containers[Lock.room] = "none"
    /\ Docker("create", Lock.room)
    /\ Goto("start")
    /\ UNCHANGED <<folders, leases, asked, pending, late, strays>>

StartContainer ==
    /\ Ensuring("start")
    /\ Docker("start", Lock.room)
    /\ Goto("lease")
    /\ UNCHANGED <<folders, leases, asked, pending, late, strays>>

Lease ==
    /\ Ensuring("lease")
    /\ leases' = [leases EXCEPT ![Lock.room] = "fresh"]
    /\ strays' = strays \ {Lock.room}
    /\ broker' = [broker EXCEPT !.lock = Free]
    /\ pending' = pending \ {Lock.room}
    /\ UNCHANGED <<folders, containers, asked, late>>

\* A step fails, or is given up: what was done before it stays.
EnsureFails ==
    /\ Lock.kind = "ensure" /\ Lock.step # "lease"
    /\ \/ UNCHANGED late /\ broker' = [broker EXCEPT !.lock = Free]
       \/ /\ Lock.step \in {"create", "start"} /\ GivenUp(Lock.step, Lock.room)
          /\ broker' = [broker EXCEPT !.lock = Free, !.lates = @ + 1]
    /\ pending' = pending \ {Lock.room}
    /\ UNCHANGED <<folders, containers, leases, asked, strays>>

Touch(r) ==
    /\ broker.up /\ Lock = Free /\ leases[r] = "old"
    /\ leases' = [leases EXCEPT ![r] = "fresh"]
    /\ UNCHANGED <<folders, containers, broker, asked, pending, late, strays>>

-----------------------------------------------------------------------------
(* reap_once() *)

IdleTooLong(r) ==
    /\ broker.up /\ leases[r] = "fresh"
    /\ leases' = [leases EXCEPT ![r] = "old"]
    /\ UNCHANGED <<folders, containers, broker, asked, pending, late, strays>>

BeginReaping ==
    /\ broker.up /\ Lock = Free
    /\ \E rooms \in SetToSeqs({r \in Desktops : leases[r] # "none"}) :
          rooms # <<>> /\ broker' = [broker EXCEPT !.lock = [Free EXCEPT !.kind = "reap", !.rest = rooms]]
    /\ UNCHANGED <<folders, containers, leases, asked, pending, late, strays>>

NextLease == IF Len(Lock.rest) > 1 THEN [Lock EXCEPT !.rest = Tail(@)] ELSE Free

KeepLease ==
    /\ Lock.kind = "reap" /\ leases[Head(Lock.rest)] = "fresh"
    /\ broker' = [broker EXCEPT !.lock = NextLease]
    /\ UNCHANGED <<folders, containers, leases, asked, pending, late, strays>>

\* Fault: the lease goes first.
LeaseEndedFirst(stopped, r) == [leases EXCEPT ![r] = "none"]

\* A lease ends when its container was stopped.
LeaseEnded(stopped, r) == IF stopped THEN [leases EXCEPT ![r] = "none"] ELSE leases

StopContainer ==
    LET r == Head(Lock.rest) IN
    /\ Lock.kind = "reap" /\ leases[r] = "old"
    /\ \/ /\ Docker("stop", r)
          /\ leases' = LeaseEnded(TRUE, r) /\ strays' = strays \ {r}
          /\ broker' = [broker EXCEPT !.lock = NextLease]
          /\ UNCHANGED late
       \/ /\ leases' = LeaseEnded(FALSE, r)
          /\ broker' = [broker EXCEPT !.lock = Free]
          /\ UNCHANGED <<containers, strays, late>>
       \/ /\ leases' = LeaseEnded(FALSE, r) /\ GivenUp("stop", r)
          /\ broker' = [broker EXCEPT !.lock = Free, !.lates = @ + 1]
          /\ UNCHANGED <<containers, strays>>
    /\ UNCHANGED <<folders, asked, pending>>

-----------------------------------------------------------------------------
(* The broker and its host *)

InHand == IF Lock.kind = "ensure" /\ Lock.step \in {"create", "start"} THEN {[command |-> Lock.step, room |-> Lock.room]} ELSE {}

\* It ends; the daemon may have the command that was in hand.
BrokerEnds ==
    /\ broker.up
    /\ \/ UNCHANGED late /\ broker' = [broker EXCEPT !.up = FALSE, !.lock = Free]
       \/ /\ broker.lates < MaxLate /\ InHand # {}
          /\ late' = late \cup InHand /\ broker' = [broker EXCEPT !.up = FALSE, !.lock = Free, !.lates = @ + 1]
    /\ leases' = [r \in Desktops |-> "none"]
    /\ asked' = [r \in Desktops |-> 0]
    /\ pending' = {}
    /\ UNCHANGED <<folders, containers, strays>>

HostRestarts ==
    /\ ~broker.up
    /\ folders' = [r \in Desktops |-> [folders[r] EXCEPT !.mounted = FALSE]]
    /\ containers' = [r \in Desktops |-> Outcome(containers[r], "stop")]
    /\ late' = {}
    /\ strays' = {}
    /\ UNCHANGED <<leases, broker, asked, pending>>

\* Whatever runs is stopped before it listens.
BrokerStarts ==
    /\ ~broker.up
    /\ broker' = [broker EXCEPT !.up = TRUE]
    /\ containers' = [r \in Desktops |-> Outcome(containers[r], "stop")]
    /\ strays' = {}
    /\ UNCHANGED <<folders, leases, asked, pending, late>>

DesktopNext ==
    \/ \E r \in Desktops : AskDesktop(r) \/ AskTimesOut(r) \/ BeginEnsure(r) \/ Touch(r) \/ IdleTooLong(r) \/ ContainerEnds(r)
    \/ MakeFolder \/ WriteSlot \/ MakeHome \/ CreateContainer \/ StartContainer \/ Lease \/ EnsureFails
    \/ BeginReaping \/ KeepLease \/ StopContainer
    \/ BrokerEnds \/ HostRestarts \/ BrokerStarts \/ \E l \in late : CarriedOut(l)

-----------------------------------------------------------------------------
\* A desktop that runs has a lease, by which it will be stopped, a slot of its own and its
\* disk mounted, unless a start that was given up began it later: after any failed step,
\* any end of the broker and any restart of the host.  And while no call of docker took
\* too long, no more run than MAX_RUNNING.
RunningIsLeased ==
    /\ broker.up /\ Lock.kind # "ensure" => InUse \subseteq {r \in Desktops : leases[r] # "none"} \cup strays
    /\ \A r \in InUse : folders[r].made = "disk" /\ (r \notin strays => folders[r].mounted)
    /\ \A r, s \in Stored : folders[r].made # "folder" /\ folders[r].slot = folders[s].slot => r = s
    /\ broker.lates = 0 => Cardinality(InUse) <= MaxRunning
=============================================================================
