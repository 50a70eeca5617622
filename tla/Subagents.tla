----------------------------- MODULE Subagents -----------------------------
(***************************************************************************)
(* Background runs of sub-agents: packages/messaging/src/subagent-runtime.ts. *)
(* The host starts a run and gives a handle that is live some time later;  *)
(* a run that is aborted ends later still, and its id may have been given  *)
(* to another run by then.                                                 *)
(***************************************************************************)
EXTENDS Naturals, Sequences, FiniteSets

CONSTANTS Subs, MaxSubRuns, MaxSteers

ASSUME SubagentAssumption == MaxSubRuns \in Nat /\ MaxSteers \in Nat

VARIABLES
    subs,     \* id -> its record's status, the run in backgroundSubagentRuns, the handle, a queued steer
    subRuns,  \* the runs that were dispatched, in order
    reused    \* ghost: ids that were dispatched again while a run of theirs went on

subVars == <<subs, subRuns, reused>>

NoRun == 0   \* runs are numbered from 1
NewSub == [status |-> "none", active |-> NoRun, handle |-> NoRun, queued |-> FALSE]

SubTypeOK ==
    /\ \A i \in Subs : subs[i].active \in 0..Len(subRuns) /\ subs[i].handle \in 0..Len(subRuns)
    /\ reused \subseteq Subs

SubInit ==
    /\ subs = [i \in Subs |-> NewSub]
    /\ subRuns = <<>>
    /\ reused = {}

\* dispatchBackgroundSubagent(): nothing while the id has a run.
DispatchSub(i) ==
    /\ Len(subRuns) < MaxSubRuns /\ subs[i].active = NoRun
    /\ subRuns' = Append(subRuns, [id |-> i, at |-> "starting", aborted |-> FALSE, result |-> "none", steers |-> 0])
    /\ subs' = [subs EXCEPT ![i].status = "running", ![i].active = Len(subRuns) + 1]
    /\ reused' = IF \E r \in DOMAIN subRuns : subRuns[r].id = i /\ subRuns[r].at # "over" THEN reused \cup {i} ELSE reused

\* The handle is there; a steer that came before goes first.
RunGoesLive(r) ==
    /\ subRuns[r].at = "starting"
    /\ LET i == subRuns[r].id IN
          /\ subs' = [subs EXCEPT ![i].handle = r, ![i].queued = FALSE]
          /\ subRuns' = [subRuns EXCEPT ![r].at = "live", ![r].steers = IF subs[i].queued THEN @ + 1 ELSE @]
    /\ UNCHANGED reused

\* The run ends; the runtime hears of it later.
RunIsOver(r) ==
    /\ subRuns[r].at = "live"
    /\ subRuns' = [subRuns EXCEPT ![r].at = "ended"]
    /\ UNCHANGED <<subs, reused>>

\* Fault: the state is set whatever it was.
SettledAlways(s, status) == [s EXCEPT !.status = status, !.handle = NoRun, !.active = NoRun]

\* settle(): a terminal state stays.
SettledSub(s, status) ==
    IF s.status # "running" THEN s ELSE [s EXCEPT !.status = status, !.handle = NoRun, !.active = NoRun]

RunSettles(r) ==
    /\ subRuns[r].at = "ended"
    /\ subs' = [subs EXCEPT ![subRuns[r].id] = SettledSub(@, "completed")]
    /\ subRuns' = [subRuns EXCEPT ![r].at = "over", ![r].result = "completed"]
    /\ UNCHANGED reused

\* The start, or the run, is rejected.
RunFails(r) ==
    /\ subRuns[r].at \in {"starting", "live"}
    /\ subs' = [subs EXCEPT ![subRuns[r].id] = SettledSub(@, "failed")]
    /\ subRuns' = [subRuns EXCEPT ![r].at = "over", ![r].result = "failed"]
    /\ UNCHANGED reused

Steerable(i) == subs[i].handle # NoRun /\ subRuns[subs[i].handle].at = "live" /\ ~subRuns[subs[i].handle].aborted

\* steerSubagent(): to the run that is live, or queued for the one that will be.
SteerSub(i) ==
    IF Steerable(i)
    THEN /\ subRuns[subs[i].handle].steers < MaxSteers
         /\ subRuns' = [subRuns EXCEPT ![subs[i].handle].steers = @ + 1]
         /\ UNCHANGED <<subs, reused>>
    ELSE subs' = [subs EXCEPT ![i].queued = TRUE] /\ UNCHANGED <<subRuns, reused>>

\* abortSubagent(): the record is settled at once, the run ends in its own time.
AbortSub(i) ==
    /\ Steerable(i)
    /\ subRuns' = [subRuns EXCEPT ![subs[i].handle].aborted = TRUE]
    /\ subs' = [subs EXCEPT ![i] = SettledSub(@, "aborted")]
    /\ UNCHANGED reused

SubNext ==
    \/ \E i \in Subs : DispatchSub(i) \/ SteerSub(i) \/ AbortSub(i)
    \/ \E r \in DOMAIN subRuns : RunGoesLive(r) \/ RunIsOver(r) \/ RunSettles(r) \/ RunFails(r)

-----------------------------------------------------------------------------
LastRun(i) == CHOOSE r \in DOMAIN subRuns : subRuns[r].id = i /\ \A q \in (r + 1)..Len(subRuns) : subRuns[q].id # i

Outcome(r) ==
    IF subRuns[r].aborted THEN "aborted"
    ELSE IF subRuns[r].at = "over" THEN subRuns[r].result ELSE "running"

\* The record of a sub-agent says what became of its latest run, and an abort that
\* was answered with true is never turned into a completion or a failure by the end
\* of that run.  (Not for an id dispatched again while an aborted run goes on: the
\* late end of that run settles the record of its successor.)
RecordTellsOutcome ==
    \A i \in Subs \ reused :
        subs[i].status # "none" =>
            /\ subs[i].status = Outcome(LastRun(i))
            /\ subs[i].status = "running" <=> subs[i].active = LastRun(i)
=============================================================================
