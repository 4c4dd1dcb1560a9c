\* One booking with its users, listing and notifications, and the money of two others.
SPECIFICATION FairSpec
CONSTANTS
    host = host
    renter = renter
    guest = guest
    s1 = s1
    s2 = s2
    s3 = s3
    s4 = s4
    b1 = b1
    b2 = b2
    b3 = b3
    b4 = b4
    b5 = b5
    p1 = p1
    r1 = r1
    near = near
    Null = Null
    Spots = {s1, s2, s3, s4}
    Users = {host, renter, guest}
    Titles = {t1}
    Names = {n1}
    Addresses = {near, nowhere}
    Points = {near}
    SpotRequests = {q1}
    Bookings = {b1, b2, b3, b4, b5}
    Payouts = {p1}
    Ratings = {5}
    Charged = {b3}
    Readers = {r1}
    SETTLEMENT = 1
    MaxTime = 3
    DEFAULT_LIMIT = 1
    MAX_LIMIT = 2
    MONTH = 1
    HostOf <- MCHostOf
    PointOf <- MCPointOf
    MaxSpotVersion <- MCMaxSpotVersion
    SpotOf <- MCSpotOf
    RenterOf <- MCRenterOf
    StartsAt <- MCStartsAt
    EndsAt <- MCEndsAt
    MaxCharges <- MCMaxCharges
    Amount <- MCAmount
    MaxUserVersion <- MCMaxUserVersion
    SpotOrder <- MCSpotOrder
    Near <- MCNear
    Focus <- MCFocus
INVARIANTS TypeOK ReadModelAgrees ReadYourWrites NotificationsAgree
INVARIANTS ListsAgree CursorsReachAll MoneyAgrees
PROPERTIES SeenStaysSeen EventuallyCurrent
CHECK_DEADLOCK FALSE
