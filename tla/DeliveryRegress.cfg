\* Two copies of a create race on a missing row.
SPECIFICATION Spec
CONSTANTS
    Aggregate = {a}
    Relay = {r1, r2}
    Replica = {p1, p2}
    APPLY_CONCURRENCY = 1
    MAX_ACK_PENDING = 3
    MAX_GAP_WAIT = 3
    Slow = FALSE
    MaxVersion = 2
    MaxStream = 3
    MaxFaults = 1
    Null = Null
SYMMETRY Interchangeable
PROPERTY VersionNeverRegresses
CHECK_DEADLOCK FALSE
