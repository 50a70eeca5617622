--------------------------- MODULE MCRunScheduler ---------------------------
(* Instances of the run scheduler with its lifecycle for TLC. *)
EXTENDS RunLifecycle, TLC

Interchangeable == Permutations(Tasks) \cup Permutations(Agents)

\* drain() is called only when all tasks are of one agent: it waits for one queue, and
\* the tasks of another would only multiply the states.
DrainsOfOneAgent == drains' # drains => \A t, u \in Tasks : owner[t] = owner[u]

SafetySpec == LInit /\ [][LNext /\ DrainsOfOneAgent]_allVars
=============================================================================
