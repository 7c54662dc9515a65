\* One seat for two clients: refusal, and an id that is given away again.
SPECIFICATION Spec
CONSTANTS
    Conns = {c1, c2}
    MAX_PLAYERS = 1
    TICKS_PER_SNAPSHOT = 1
    MaxPending = 1
    Latency = 1
    Lossy = TRUE
    Move <- MCMove
    MaxSeq = 2
    MaxTick = 2
    MaxTime = 2
    ARENA_WIDTH = 0
    ARENA_HEIGHT = 0
    StraightStep = 0
    DiagonalStep = 0
INVARIANTS BaselineTypeOK WorldMatchesClients StreamsFramed AcksAreOwn
PROPERTIES PendingLeavesForCause GoneIsRemoved
CHECK_DEADLOCK FALSE
