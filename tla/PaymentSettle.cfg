\* One booking's money, with one checkout request at a time: the two workers' replicas,
\* the webhooks, a decline, a crash or a late ack, and a booking that ends at any point.
SPECIFICATION FairSpec
CONSTANTS
    Booking = {b1}
    Checkout = {c1}
    Worker = {w1, w2}
    MAX_DELIVER = 4
    MaxVersion = 5
    MaxFaults = 2
    Null = Null
INVARIANTS TypeOK RefundOnlyEnded RowAgreesWithStripe VersionsGapless
PROPERTIES SettledMoneyStays EventuallyRefunded
CHECK_DEADLOCK FALSE
