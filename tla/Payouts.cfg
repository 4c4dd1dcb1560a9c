\* Two withdrawals at once against two replicas, late acks and crashes.
SPECIFICATION FairSpec
CONSTANTS
    host = h1
    cents = 1
    Host = {h1}
    Booking = {b1, b2}
    HostOf <- MCHostOf
    Amount <- MCAmount
    Payout = {p1, p2}
    Withdrawal = {x1, x2}
    Worker = {w1, w2}
    MIN_CENTS = 1
    MAX_DELIVER = 2
    KeyConflicts = FALSE
    MaxFaults = 1
    Null = Null
INVARIANTS TypeOK OutcomeMatchesTransfer OneOutcome
PROPERTIES NoOverdraft EventuallyPaidOut
CHECK_DEADLOCK FALSE
