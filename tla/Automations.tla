---------------------------- MODULE Automations ----------------------------
(***************************************************************************)
(* Automations of agents: the store and the scheduler of                   *)
(* packages/state/src/automations.ts.  A unit of time is a minute, the     *)
(* interval of the scheduler's timer.                                      *)
(*                                                                         *)
(* A sweep takes a snapshot of the automations, and fires the due ones one *)
(* after the other, awaiting each; users create, change and delete them    *)
(* meanwhile.  Every change is made in memory at once, and persisted by    *)
(* writes that may overlap.                                                *)
(***************************************************************************)
EXTENDS Persistence, Filters

CONSTANTS
    NoAutomation,
    Triggers,        \* "interval", "schedule", and "manual" for those fired from elsewhere
    MaxAutomations,  \* ids that are given out
    Period, Day, DueMinute,  \* an interval trigger's, the length of a day, a schedule's minute of it
    MaxMinutes, MaxEdits, MaxAutomationRestarts

ASSUME AutomationAssumption ==
    /\ MaxAutomations \in Nat /\ Period \in Nat \ {0} /\ Day \in Nat \ {0} /\ DueMinute \in 0..(Day - 1)
    /\ MaxMinutes \in Nat /\ MaxEdits \in Nat /\ MaxAutomationRestarts \in Nat

VARIABLES
    autos,     \* the store: automations, nextId, loaded, the edits under way
    autoFile,  \* automations.json
    sweep,     \* the scheduler: timer, firing, the sweep under way
    past       \* time, and ghosts: what users asked for, when runs ended, whether a restart lost anything

autoVars == <<autos, autoFile, sweep, past>>

Ids == 1..MaxAutomations
NoAutomations == [i \in Ids |-> NoAutomation]
Idle(timer) == [timer |-> timer, firing |-> FALSE, at |-> "idle", left |-> <<>>, now |-> 0, wanted |-> {}]

Automation == [trigger : Triggers, enabled : BOOLEAN, created : Nat, lastRun : Nat, runs : Nat]
Stored == [all : [Ids -> Automation \cup {NoAutomation}], next : Nat \ {0}]  \* what persist() writes
Edit == [id : Nat, kind : {"create", "enable", "disable", "delete"}, target : Nat, at : {"reading", "edit", "mkdir", "writing"}]

AutoStates == [all : [Ids -> Automation \cup {NoAutomation}], next : Nat \ {0}, loaded : BOOLEAN,
               edits : SUBSET Edit, count : Nat]
AutoFiles == [text : Stored \cup {Torn}, writing : SUBSET [by : Nat, snap : Stored], mixed : BOOLEAN]
Sweeps == [timer : BOOLEAN, firing : BOOLEAN, left : Seq([id : Ids, auto : Automation]), now : Nat, wanted : SUBSET Ids,
           at : {"idle", "reading", "checking", "dispatching", "mkdir", "writing"}]
Pasts == [clock : Nat, done : [Ids -> Nat], wanted : SUBSET Ids, restarts : Nat, harmed : BOOLEAN]

AutomationTypeOK ==
    /\ autos \in AutoStates /\ \A e \in autos.edits : e.target \in Ids \/ e.kind = "create"
    /\ autoFile \in AutoFiles /\ sweep \in Sweeps /\ past \in Pasts

AutomationInit ==
    /\ autos = [all |-> NoAutomations, next |-> 1, loaded |-> FALSE, edits |-> {}, count |-> 0]
    /\ autoFile = NewFile([all |-> NoAutomations, next |-> 1])
    /\ sweep = Idle(FALSE)
    /\ past = [clock |-> 0, done |-> [i \in Ids |-> 0], wanted |-> {}, restarts |-> 0, harmed |-> FALSE]

-----------------------------------------------------------------------------
(* The store *)

Snapshot == [all |-> autos.all, next |-> autos.next]

\* create(), update() of isEnabled (setEnabled) and delete(), up to load().
BeginEdit(kind, i) ==
    /\ autos.count < MaxEdits
    /\ autos' = [autos EXCEPT !.count = @ + 1, !.loaded = TRUE,
                    !.edits = @ \cup {[id |-> autos.count + 1, kind |-> kind, target |-> i,
                                       at |-> IF autos.loaded THEN "edit" ELSE "reading"]}]
    /\ UNCHANGED <<autoFile, sweep, past>>

\* load() has read the file: its automations replace those of the same id.
Merged ==
    IF autoFile.text = Torn THEN autos
    ELSE [autos EXCEPT !.all = [i \in Ids |-> IF autoFile.text.all[i] # NoAutomation THEN autoFile.text.all[i] ELSE @[i]],
                       !.next = autoFile.text.next]
MergeHarms == past.harmed \/ autos.all # NoAutomations \/ autos.next # 1

EditLoaded(e) ==
    /\ e \in autos.edits /\ e.at = "reading"
    /\ autos' = [Merged EXCEPT !.edits = (@ \ {e}) \cup {[e EXCEPT !.at = "edit"]}]
    /\ past' = [past EXCEPT !.harmed = MergeHarms]
    /\ UNCHANGED <<autoFile, sweep>>

Saves(e) == (autos.edits \ {e}) \cup {[e EXCEPT !.at = "mkdir"]}

Create(e, trigger) ==
    /\ e \in autos.edits /\ e.at = "edit" /\ e.kind = "create" /\ autos.next \in Ids
    /\ autos' = [autos EXCEPT !.next = @ + 1, !.edits = Saves(e),
                    !.all[autos.next] = [trigger |-> trigger, enabled |-> TRUE, created |-> past.clock, lastRun |-> 0, runs |-> 0]]
    /\ past' = [past EXCEPT !.wanted = @ \cup {autos.next}, !.done[autos.next] = past.clock]
    /\ UNCHANGED <<autoFile, sweep>>

Update(e) ==
    /\ e \in autos.edits /\ e.at = "edit" /\ e.kind \in {"enable", "disable"}
    /\ IF autos.all[e.target] = NoAutomation
       THEN autos' = [autos EXCEPT !.edits = @ \ {e}] /\ UNCHANGED past
       ELSE /\ autos' = [autos EXCEPT !.all[e.target].enabled = (e.kind = "enable"), !.edits = Saves(e)]
            /\ past' = [past EXCEPT !.wanted = IF e.kind = "enable" THEN @ \cup {e.target} ELSE @ \ {e.target}]
    /\ UNCHANGED <<autoFile, sweep>>

Delete(e) ==
    /\ e \in autos.edits /\ e.at = "edit" /\ e.kind = "delete"
    /\ IF autos.all[e.target] = NoAutomation
       THEN autos' = [autos EXCEPT !.edits = @ \ {e}] /\ UNCHANGED past
       ELSE /\ autos' = [autos EXCEPT !.all[e.target] = NoAutomation, !.edits = Saves(e)]
            /\ past' = [past EXCEPT !.wanted = @ \ {e.target}]
    /\ UNCHANGED <<autoFile, sweep>>

\* persist() of an edit
OpenFile(e) ==
    /\ e \in autos.edits /\ e.at = "mkdir"
    /\ autoFile' = Opened(autoFile, e.id, Snapshot)
    /\ autos' = [autos EXCEPT !.edits = (@ \ {e}) \cup {[e EXCEPT !.at = "writing"]}]
    /\ UNCHANGED <<sweep, past>>

EditSaved(e) ==
    /\ e \in autos.edits /\ e.at = "writing"
    /\ autoFile' \in Written(autoFile, e.id)
    /\ autos' = [autos EXCEPT !.edits = @ \ {e}]
    /\ UNCHANGED <<sweep, past>>

-----------------------------------------------------------------------------
(* The scheduler *)

Start == ~sweep.timer /\ sweep' = [sweep EXCEPT !.timer = TRUE] /\ UNCHANGED <<autos, autoFile, past>>
Stop == sweep.timer /\ sweep' = [sweep EXCEPT !.timer = FALSE] /\ UNCHANGED <<autos, autoFile, past>>

Due(a, now) ==
    CASE a.trigger = "interval" -> now - (IF a.runs = 0 THEN a.created ELSE a.lastRun) >= Period
      [] a.trigger = "schedule" -> now % Day = DueMinute /\ (a.runs = 0 \/ now - a.lastRun >= 1)
      [] OTHER -> FALSE

\* The snapshot, in the order of the map.
Listed(all) == Kept([i \in Ids |-> [id |-> i, auto |-> all[i]]], {i \in Ids : all[i] # NoAutomation})

\* A minute passes: the timer calls tick(), which does nothing while another sweep
\* is on its way, and goes on to the answer of store.list().
MinutePasses ==
    /\ past.clock < MaxMinutes
    /\ past' = [past EXCEPT !.clock = @ + 1]
    /\ IF sweep.timer /\ ~sweep.firing
       THEN /\ autos' = [autos EXCEPT !.loaded = TRUE]
            /\ sweep' = [sweep EXCEPT !.firing = TRUE, !.now = past.clock + 1,
                            !.at = IF autos.loaded THEN "checking" ELSE "reading",
                            !.left = IF autos.loaded THEN Listed(autos.all) ELSE <<>>, !.wanted = past.wanted]
       ELSE UNCHANGED <<autos, sweep>>
    /\ UNCHANGED autoFile

SweepLoaded ==
    /\ sweep.at = "reading"
    /\ autos' = Merged
    /\ sweep' = [sweep EXCEPT !.at = "checking", !.left = Listed(Merged.all), !.wanted = past.wanted]
    /\ past' = [past EXCEPT !.harmed = MergeHarms]
    /\ UNCHANGED autoFile

Current == Head(sweep.left)
NextOne == [sweep EXCEPT !.at = "checking", !.left = Tail(@)]

\* The next one of the snapshot: skipped, or dispatched.
CheckNext ==
    /\ sweep.at = "checking" /\ sweep.left # <<>>
    /\ sweep' = IF Current.auto.enabled /\ Due(Current.auto, sweep.now) THEN [sweep EXCEPT !.at = "dispatching"] ELSE NextOne
    /\ UNCHANGED <<autos, autoFile, past>>

EndSweep ==
    /\ sweep.at = "checking" /\ sweep.left = <<>>
    /\ sweep' = Idle(sweep.timer)
    /\ UNCHANGED <<autos, autoFile, past>>

\* Fault: the run is recorded on the automation of the snapshot.
RecordedOnSnapshot(i) == [Current.auto EXCEPT !.lastRun = past.clock, !.runs = @ + 1]

Recorded(i) == [autos.all[i] EXCEPT !.lastRun = past.clock, !.runs = @ + 1]

\* The dispatch is done: recordRun().
Dispatched ==
    /\ sweep.at = "dispatching"
    /\ IF autos.all[Current.id] = NoAutomation
       THEN sweep' = NextOne /\ UNCHANGED autos
       ELSE /\ autos' = [autos EXCEPT !.all[Current.id] = Recorded(Current.id)]
            /\ sweep' = [sweep EXCEPT !.at = "mkdir"]
    /\ past' = [past EXCEPT !.done[Current.id] = past.clock]
    /\ UNCHANGED autoFile

\* It fails: the next sweep tries again.
DispatchFails ==
    /\ sweep.at = "dispatching"
    /\ sweep' = NextOne
    /\ UNCHANGED <<autos, autoFile, past>>

OpenRecord ==
    /\ sweep.at = "mkdir"
    /\ autoFile' = Opened(autoFile, 0, Snapshot)
    /\ sweep' = [sweep EXCEPT !.at = "writing"]
    /\ UNCHANGED <<autos, past>>

RecordSaved ==
    /\ sweep.at = "writing"
    /\ autoFile' \in Written(autoFile, 0)
    /\ sweep' = NextOne
    /\ UNCHANGED <<autos, past>>

\* The host ends anywhere; what was not on file, or a torn file, is lost.
AutomationRestarts ==
    /\ past.restarts < MaxAutomationRestarts
    /\ autos' = [autos EXCEPT !.all = NoAutomations, !.next = 1, !.loaded = FALSE, !.edits = {}]
    /\ autoFile' = Abandoned(autoFile)
    /\ sweep' = Idle(FALSE)
    /\ past' = [past EXCEPT !.restarts = @ + 1,
                            !.harmed = @ \/ (autos.loaded /\ autoFile.text # Snapshot) \/ autoFile.text = Torn]

AutomationNext ==
    \/ MinutePasses \/ Start \/ Stop \/ SweepLoaded \/ CheckNext \/ EndSweep
    \/ Dispatched \/ DispatchFails \/ OpenRecord \/ RecordSaved \/ AutomationRestarts
    \/ BeginEdit("create", 1) \/ \E kind \in {"enable", "disable", "delete"}, i \in Ids : BeginEdit(kind, i)
    \/ \E e \in autos.edits :
          \/ EditLoaded(e) \/ Update(e) \/ Delete(e) \/ OpenFile(e) \/ EditSaved(e)
          \/ \E trigger \in Triggers : Create(e, trigger)

-----------------------------------------------------------------------------
\* What the scheduler fires, its user wanted when the sweep took its snapshot, and
\* an interval has passed since it was last fired (or created), for all edits and
\* restarts in between that lost nothing (`harmed': a restart with changes that
\* were not on file, an edit while the file is read for the first time).
FiresWhatIsDue ==
    (sweep.at = "dispatching" /\ ~past.harmed) =>
        /\ Current.id \in sweep.wanted
        /\ Current.auto.trigger = "interval" => sweep.now - past.done[Current.id] >= Period
=============================================================================
