\* An event held by a dead replica outlives the gap budget of its successor.
SPECIFICATION Spec
CONSTANTS
    Aggregate = {a}
    Relay = {r1}
    Replica = {p1, p2}
    APPLY_CONCURRENCY = 1
    MAX_ACK_PENDING = 2
    MAX_GAP_WAIT = 3
    Slow = FALSE
    MaxVersion = 3
    MaxStream = 4
    MaxFaults = 1
    Null = Null
SYMMETRY Interchangeable
INVARIANT NoEventLost
CHECK_DEADLOCK FALSE
