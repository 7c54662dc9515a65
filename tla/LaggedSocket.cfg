\* Latency with and without jitter, loss, both threads: delays of 0 to 2 one way,
\* of 0 or 1, negative jitter clamped, the other.
SPECIFICATION SocketFairSpec
CONSTANTS
    add_latency_ms_send = 1
    add_latency_ms_recv = 0
    MaxJitter = 1
    Lossy = TRUE
    MaxSends = 2
    MaxArrivals = 2
    MaxTime = 3
INVARIANT SocketTypeOK
PROPERTIES OutboundIsChannel InboundIsChannel DueOrderKept OutboundLeaves InboundDelivered
