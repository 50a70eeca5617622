--------------------------- MODULE ExclusiveRuns ---------------------------
(***************************************************************************)
(* What a caller of the run scheduler is promised, without pumps, timers,  *)
(* zombies or drains: an agent serves its lines one task at a time, user   *)
(* before agent before background and each line in order; a task may be    *)
(* given up, which releases its caller and lets the next one begin while   *)
(* it still runs; a caller is answered once; nothing begins after the      *)
(* scheduler was closed.  RunScheduler is shown to implement it.           *)
(***************************************************************************)
EXTENDS Sequences

CONSTANTS Agents, Tasks

VARIABLES
    owner, lane,   \* for whom, and in which lane, a task is enqueued
    lines,         \* the tasks that wait, by agent and lane
    state,         \* "new", "waiting", "running", "given up" or "over"
    answer,        \* what the caller of a task was answered, or "pending"
    closed

exclusiveVars == <<owner, lane, lines, state, answer, closed>>

Lanes == {"user", "agent", "background"}

Init ==
    /\ owner \in [Tasks -> Agents] /\ lane \in [Tasks -> Lanes]
    /\ lines = [a \in Agents |-> [l \in Lanes |-> <<>>]]
    /\ state = [t \in Tasks |-> "new"]
    /\ answer = [t \in Tasks |-> "pending"]
    /\ closed = FALSE

Accept(t) ==
    /\ state[t] = "new"
    /\ state' = [state EXCEPT ![t] = "waiting"]
    /\ lines' = [lines EXCEPT ![owner[t]][lane[t]] = Append(@, t)]
    /\ UNCHANGED <<owner, lane, answer, closed>>

\* No lane of the agent that goes before this one has a task.
First(a, l) ==
    /\ l # "user" => lines[a]["user"] = <<>>
    /\ l = "background" => lines[a]["agent"] = <<>>

Begin(a, l) ==
    /\ ~closed /\ lines[a][l] # <<>> /\ First(a, l)
    /\ \A u \in Tasks : owner[u] = a => state[u] # "running"
    /\ state' = [state EXCEPT ![Head(lines[a][l])] = "running"]
    /\ lines' = [lines EXCEPT ![a][l] = Tail(@)]
    /\ UNCHANGED <<owner, lane, answer, closed>>

GiveUp(t) ==
    /\ ~closed /\ state[t] = "running" /\ answer[t] = "pending"
    /\ state' = [state EXCEPT ![t] = "given up"]
    /\ answer' = [answer EXCEPT ![t] = "resolved"]
    /\ UNCHANGED <<owner, lane, lines, closed>>

End(t) ==
    /\ \/ state[t] = "running" /\ answer[t] = "pending"
          /\ \E value \in {"resolved", "rejected"} : answer' = [answer EXCEPT ![t] = value]
       \/ state[t] = "given up" /\ UNCHANGED answer
    /\ state' = [state EXCEPT ![t] = "over"]
    /\ UNCHANGED <<owner, lane, lines, closed>>

Close == ~closed /\ closed' = TRUE /\ UNCHANGED <<owner, lane, lines, state, answer>>

Next ==
    \/ \E t \in Tasks : Accept(t) \/ GiveUp(t) \/ End(t)
    \/ \E a \in Agents, l \in Lanes : Begin(a, l)
    \/ Close

Spec == Init /\ [][Next]_exclusiveVars
=============================================================================
