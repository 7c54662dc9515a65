\* A client and a stranger for one seat: refusal, reaping, and an id given
\* away while its last owner still plays.
SPECIFICATION LinkFairSpec
CONSTANTS
    Endpoints = {e1, e2}
    Clients = {e1}
    MAX_PLAYERS = 1
    CLIENT_TIMEOUT = 0
    MaxSeq = 2
    ARENA_WIDTH = 3
    ARENA_HEIGHT = 0
    StraightStep = 1
    DiagonalStep = 1
    Directions <- MCDirections
    MoveInputs <- MCMoveInputs
    Durations = {1}
    MaxInputs = 2
    TickModulus = 1
    TICKS_PER_SNAPSHOT = 1
    INPUT_HISTORY_SIZE = 1
    MaxPending = 1
    MaxUp = 2
    MaxDown = 2
INVARIANTS LinkTypeOK StatesAreOwn SteeredByNewest
PROPERTIES RetiredWereSeen GoneIsUnseated Settles
CHECK_DEADLOCK FALSE
