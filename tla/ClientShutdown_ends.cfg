\* The threads at the exit, with a delay on the send side.
SPECIFICATION Spec
CONSTANTS
    add_latency_ms_send = 2
    add_latency_ms_recv = 1
    MaxJitter = 0
    Lossy = FALSE
    MaxSends = 2
    MaxArrivals = 1
    MaxTime = 2
PROPERTY ExitEnds
CHECK_DEADLOCK FALSE
