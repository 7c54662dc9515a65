\* A ring of two slots that wraps twice; up to five inputs on their way,
\* snapshots of any of them in any order; F3.
SPECIFICATION PathSpec
CONSTANTS
    ARENA_WIDTH = 3
    ARENA_HEIGHT = 1
    StraightStep = 2
    DiagonalStep = 1
    Directions <- MCDirections
    Durations = {1}
    MaxInputs = 5
    INPUT_HISTORY_SIZE = 2
INVARIANTS LocalTypeOK FindsWhatIsHeld
PROPERTIES RemembersInputs ConfirmedPredictionStays
