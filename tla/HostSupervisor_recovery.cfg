CONSTANTS
    MaxSpawns = 4
    MaxSpawnFailures = 2
    BaseMs = 1
    MaxMs = 2
SPECIFICATION FairSpec
INVARIANTS HostsAreKnown
PROPERTIES CrashesAreRecovered
CHECK_DEADLOCK FALSE
