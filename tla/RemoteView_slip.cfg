\* The wall clock is set back.
SPECIFICATION Spec
CONSTANTS
    SNAPSHOT_HISTORY_SIZE = 2
    INTERP_DELAY = 1
    ENTITY_STALE = 2
    ClockModulus = 100
    RemoteIds = {r1}
    Entities = {a}
    StartTime = 1
    MaxTime = 5
    MaxQueued = 2
PROPERTY HiddenOnlyIfStale
CHECK_DEADLOCK FALSE
