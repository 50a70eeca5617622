CONSTANTS
    Agents = {a1}
    Tasks = {t1, t2}
    Drains = {d1}
    NoTask = NoTask
SPECIFICATION FairSpec
PROPERTIES SendsNeverHang
CHECK_DEADLOCK FALSE
