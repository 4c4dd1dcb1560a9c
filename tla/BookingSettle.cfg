\* Every writer of one booking at once; a lapsed hold ends whatever they do.
CONSTANTS
    host = host
    Null = Null
    SpotId = {s1}
    BookingId = {b1}
    Person = {host, renter}
    Handler = {h1, h2}
    Sweeper = {w1}
    Worker = {k1}
    HostOf <- MCHostOf
    MaxSlot = 0
    DayLen = 2
    HOLD = 1
    CUTOFF = 0
    MAX_PER_SWEEP = 1
    MaxTime = 2
    MaxSpotVersion = 3
SPECIFICATION FairSpec
CHECK_DEADLOCK FALSE
INVARIANTS TypeOK VersionsGapless ToldVersionsExist ConfirmedFitsSpot
PROPERTIES ImplementsLifecycle LapsedHoldEnds
