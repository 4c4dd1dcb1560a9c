\* Two requests race the slots of one spot, across an edit; a sweeper frees lapsed holds.
CONSTANTS
    host = host
    Null = Null
    SpotId = {s1}
    BookingId = {b1, b2}
    Person = {host, renter}
    Handler = {h1, h2}
    Sweeper = {w1}
    Worker = {}
    HostOf <- MCHostOf
    MaxSlot = 1
    DayLen = 2
    HOLD = 1
    CUTOFF = 1
    MAX_PER_SWEEP = 1
    MaxTime = 2
    MaxSpotVersion = 2
SYMMETRY Interchangeable
SPECIFICATION Spec
CHECK_DEADLOCK FALSE
INVARIANT NoDoubleBooking
