\* Three players make a snapshot that the joining client's buffer truncates.
SPECIFICATION WireSpec
CONSTANTS
    Base = 6
    MAX_PLAYERS = 3
    MAX_PACKET_BYTES = 100
    Shorts <- MCShorts
    Longs <- MCLongs
    Moves <- MCMoves
    States <- MCStates
INVARIANT TruncatedFails
PROPERTIES RoundTrip FitsOrRefused
