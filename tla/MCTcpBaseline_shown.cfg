\* A player leaves, and the other client gets the next snapshot.
SPECIFICATION Spec
CONSTANTS
    Conns = {c1, c2}
    MAX_PLAYERS = 2
    TICKS_PER_SNAPSHOT = 1
    MaxPending = 256
    Latency = 1
    Lossy = FALSE
    Move <- MCMove
    MaxSeq = 1
    MaxTick = 2
    MaxTime = 2
    ARENA_WIDTH = 0
    ARENA_HEIGHT = 0
    StraightStep = 0
    DiagonalStep = 0
PROPERTY ShowsTheNewest
CHECK_DEADLOCK FALSE
