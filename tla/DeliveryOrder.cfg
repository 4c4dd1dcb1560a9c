\* Crashes, lost and late acks, copies and stale batches against one relay and two replicas.
SPECIFICATION FairSpec
CONSTANTS
    Aggregate = {a}
    Relay = {r1}
    Replica = {p1, p2}
    APPLY_CONCURRENCY = 1
    MAX_ACK_PENDING = 2
    MAX_GAP_WAIT = 2
    Slow = TRUE
    MaxVersion = 2
    MaxStream = 3
    MaxFaults = 1
    Null = Null
INVARIANTS TypeOK ProjectedInOrder AckedIsProjected NoEventStranded
PROPERTIES ImplementsProjection EventuallyProjected
CHECK_DEADLOCK FALSE
