\* A hold taken before its spot was deleted is still confirmed by a payment.
CONSTANTS
    host = host
    Null = Null
    SpotId = {s1}
    BookingId = {b1}
    Person = {host, renter}
    Handler = {h1}
    Sweeper = {}
    Worker = {k1}
    HostOf <- MCHostOf
    MaxSlot = 0
    DayLen = 2
    HOLD = 1
    CUTOFF = 1
    MAX_PER_SWEEP = 1
    MaxTime = 1
    MaxSpotVersion = 2
SPECIFICATION Spec
CHECK_DEADLOCK FALSE
PROPERTY DeletedSpotNeverConfirms
