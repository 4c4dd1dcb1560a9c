\* Two deliveries of one payout, and a Stripe that refuses a key in use: paid twice.
SPECIFICATION Spec
CONSTANTS
    host = h1
    cents = 1
    Host = {h1}
    Booking = {b1}
    HostOf <- MCHostOf
    Amount <- MCAmount
    Payout = {p1, p2}
    Withdrawal = {x1}
    Worker = {w1, w2}
    MIN_CENTS = 1
    MAX_DELIVER = 3
    KeyConflicts = TRUE
    MaxFaults = 1
    Null = Null
SYMMETRY Interchangeable
INVARIANT WithdrawnWasEarned
CHECK_DEADLOCK FALSE
