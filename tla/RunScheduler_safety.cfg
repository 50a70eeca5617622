CONSTANTS
    Agents = {a1, a2}
    Tasks = {t1, t2, t3}
    Drains = {d1}
    NoTask = NoTask
SPECIFICATION SafetySpec
INVARIANTS OneRunAtATime NoLostWakeup ReportsAreTrue
PROPERTIES ServesExclusively
CHECK_DEADLOCK FALSE
SYMMETRY Interchangeable
