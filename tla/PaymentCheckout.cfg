\* Two create_session requests of one booking at once.
SPECIFICATION Spec
CONSTANTS
    Booking = {b1}
    Checkout = {c1, c2}
    Worker = {w1}
    MAX_DELIVER = 4
    MaxVersion = 4
    MaxFaults = 0
    Null = Null
SYMMETRY Interchangeable
PROPERTY SettledMoneyStays
CHECK_DEADLOCK FALSE
