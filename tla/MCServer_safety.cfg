\* More endpoints than seats; ids are reused; tick numbers wrap at a value
\* that, like 2^32, is 1 modulo TICKS_PER_SNAPSHOT; both step lengths, walls and
\* a direction to clamp.
SPECIFICATION HistorySpec
CONSTANTS
    Endpoints = {e1, e2, e3}
    MAX_PLAYERS = 2
    CLIENT_TIMEOUT = 1
    MaxSeq = 2
    ARENA_WIDTH = 3
    ARENA_HEIGHT = 1
    StraightStep = 2
    DiagonalStep = 1
    MoveInputs <- MCMoveInputs
    TickModulus = 4
    TICKS_PER_SNAPSHOT = 3
SYMMETRY MCSymmetry
INVARIANTS TypeOK IndexesAgree WorldMatchesSessions
PROPERTIES SnapshotReachesAll NewSeatIsFresh OnlyOwnerSteers AckMonotone LeavesForCause SpeedLimit AllocatesSeats
