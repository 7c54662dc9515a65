\* An id is given to another player while its history is remembered.
SPECIFICATION Spec
CONSTANTS
    SNAPSHOT_HISTORY_SIZE = 2
    INTERP_DELAY = 1
    ENTITY_STALE = 2
    ClockModulus = 100
    RemoteIds = {r1}
    Entities = {a, b}
    StartTime = 1
    MaxTime = 5
    MaxQueued = 2
INVARIANT OneEntityPerHistory
CHECK_DEADLOCK FALSE
