\* A delay on the send side, as with --add-latency=2 or more.
SPECIFICATION Spec
CONSTANTS
    add_latency_ms_send = 2
    add_latency_ms_recv = 1
    MaxJitter = 0
    Lossy = FALSE
    MaxSends = 2
    MaxArrivals = 1
    MaxTime = 3
INVARIANT NoticeLeaves
CHECK_DEADLOCK FALSE
