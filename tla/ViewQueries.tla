---------------------------- MODULE ViewQueries ----------------------------
(***************************************************************************)
(* The reads of view-service's repositories, and its policies, as          *)
(* functions of the tables and of `now`.  A read is scoped to its caller   *)
(* by its own WHERE.  A projection keeps the columns something turns on.   *)
(***************************************************************************)
EXTENDS ViewService, SequencesExt

CONSTANTS
    StartsAt,       \* StartsAt[b]: the first instant b books
    SpotOrder,      \* SpotOrder[s]: where s stands by (created_at, id)
    Near,           \* Near[c]: the points within the caller's radius of c
    DEFAULT_LIMIT,
    MAX_LIMIT,
    MONTH           \* instants per month

ASSUME QueryAssumption ==
    /\ StartsAt \in [Bookings -> Nat] /\ \A b \in Bookings : StartsAt[b] < EndsAt[b]
    /\ SpotOrder \in [Spots -> Nat]
    /\ \A r, s \in Spots : SpotOrder[r] = SpotOrder[s] => r = s
    /\ Near \in [Points -> SUBSET Points]
    /\ MAX_LIMIT \in Nat /\ DEFAULT_LIMIT \in 1..MAX_LIMIT
    /\ MONTH \in Nat \ {0}

Rows(table) == {k \in DOMAIN table : table[k] # Null}

-----------------------------------------------------------------------------
(* policy::page *)

\* Nothing is clamped; an absent parameter has its default.
window(limit, offset) ==
    LET l == IF limit = Null THEN DEFAULT_LIMIT ELSE limit
        o == IF offset = Null THEN 0 ELSE offset
    IN IF l \in 1..MAX_LIMIT /\ o >= 0 THEN <<l, o>> ELSE Null

\* Mutant of next_offset: a full last page is followed by an empty one.
next_offset_full(offset, limit, total) ==
    IF offset + limit <= total THEN offset + limit ELSE Null

next_offset(offset, limit, total) ==
    IF offset + limit < total THEN offset + limit ELSE Null

\* ORDER BY; rows that tie come in any order, the same one in every read of a state.
Sorted(S, Before(_, _)) ==
    CHOOSE rows \in [1..Cardinality(S) -> S] :
        \A i, j \in 1..Cardinality(S) : i < j => rows[i] # rows[j] /\ ~Before(rows[j], rows[i])

\* LIMIT and OFFSET.
Windowed(S, Before(_, _), win) ==
    SubSeq(Sorted(S, Before), win[2] + 1, Min({win[1] + win[2], Cardinality(S)}))

-----------------------------------------------------------------------------
(* People *)

\* A LEFT JOIN on a user that is not projected yet is null.
UserPublicProjection(u) ==
    IF app_user[u] = Null THEN Null ELSE [id |-> u, name |-> app_user[u].name]

find_for_account(u) == UserPublicProjection(u)

-----------------------------------------------------------------------------
(* Spots *)

PublicSpotProjection(s) ==
    [id |-> s, title |-> spot[s].title, host |-> UserPublicProjection(spot[s].host)]
PublicSpotPinProjection(s) == [id |-> s, title |-> spot[s].title, point |-> spot[s].point]
RenterSpotProjection(s) ==
    [id |-> s, title |-> spot[s].title, host |-> UserPublicProjection(spot[s].host)]
HostSpotProjection(s) == [id |-> s, title |-> spot[s].title, active |-> spot[s].active]

find_for_public(s) == s \in Rows(spot) /\ spot[s].active

find_for_host(s, u) == s \in Rows(spot) /\ spot[s].host = u

\* A past guest keeps a spot that is no longer listed.
find_for_renter(s, u) ==
    s \in Rows(spot) /\ \E b \in Rows(booking) : booking[b].spot = s /\ booking[b].renter = u

HostSpots(u) == {s \in Rows(spot) : spot[s].host = u /\ ~spot[s].deleted}

count_for_host(u) == Cardinality(HostSpots(u))

counts_for_host(u) ==
    <<Cardinality(HostSpots(u)), Cardinality({s \in HostSpots(u) : spot[s].active})>>

Newer(r, s) == SpotOrder[r] > SpotOrder[s]

find_page_for_host(u, win) == Windowed(HostSpots(u), Newer, win)

\* Never the caller's own. The bounding box and the 500 rows are left out.
find_pins_for_public(u, centre) ==
    {s \in Rows(spot) : /\ ~spot[s].deleted /\ spot[s].active
                        /\ spot[s].host # u
                        /\ spot[s].point \in Near[centre]}

-----------------------------------------------------------------------------
(* Bookings *)

STATUSES == {"reserved", "confirmed", "cancelled", "released"}
TAKEN == {"reserved", "confirmed"}

\* Mutant of InTab: a booking that ends now is still upcoming.
InTabTwice(b, past) ==
    IF past THEN booking[b].ends_at <= now ELSE booking[b].ends_at >= now

InTab(b, past) == IF past THEN booking[b].ends_at <= now ELSE booking[b].ends_at > now

BookingsOf(s) == {b \in Rows(booking) : booking[b].spot = s}

\* Mutant of Taken: a hold does not show.
TakenOnceConfirmed(s) ==
    {b \in BookingsOf(s) : booking[b].ends_at > now /\ booking[b].status = "confirmed"}

Taken(s) == {b \in BookingsOf(s) : booking[b].ends_at > now /\ booking[b].status \in TAKEN}

PublicBookingProjection(b) ==
    [id |-> b, status |-> booking[b].status, ends_at |-> booking[b].ends_at]
HostBookingProjection(b) ==
    [id |-> b, status |-> booking[b].status, ends_at |-> booking[b].ends_at,
     renter |-> UserPublicProjection(booking[b].renter)]

\* The one booking that carries its spot, null while that is not projected.
RenterBookingSpotProjection(s) == IF spot[s] = Null THEN Null ELSE spot[s].title
RenterBookingProjection(b) ==
    [id |-> b, status |-> booking[b].status, ends_at |-> booking[b].ends_at,
     spot_id |-> booking[b].spot, spot |-> RenterBookingSpotProjection(booking[b].spot)]

find_for_public_spot(s) == {PublicBookingProjection(b) : b \in Taken(s)}

find_booked_for_host_spot(s) == Taken(s)

Sooner(a, b) == booking[a].ends_at < booking[b].ends_at
Newest(a, b) == booking[a].ends_at > booking[b].ends_at

Listed(S, past, statuses) == {b \in S : InTab(b, past) /\ booking[b].status \in statuses}

\* Upcoming ones soonest first, past ones newest first.
BookingPage(S, past, win) ==
    IF past THEN Windowed(S, Newest, win) ELSE Windowed(S, Sooner, win)

count_for_host_spot(s, past, statuses) == Cardinality(Listed(BookingsOf(s), past, statuses))

find_page_for_host_spot(s, past, statuses, win) ==
    BookingPage(Listed(BookingsOf(s), past, statuses), past, win)

BookingsBy(u) == {b \in Rows(booking) : booking[b].renter = u}

count_for_renter(u, past, statuses) == Cardinality(Listed(BookingsBy(u), past, statuses))

find_page_for_renter(u, past, statuses, win) ==
    BookingPage(Listed(BookingsBy(u), past, statuses), past, win)

find_next_for_renter(u) ==
    LET coming == {b \in BookingsBy(u) : booking[b].status = "confirmed" /\ booking[b].ends_at > now}
    IN IF coming = {} THEN Null ELSE Sorted(coming, Sooner)[1]

find_booking_for_renter(b, u) == b \in BookingsBy(u)

\* bookings: confirmed and over; a rating counts whatever the booking is now.
BookingStatsProjection(S) ==
    LET rated == {b \in S : booking[b].rating # Null} IN
    [bookings |-> Cardinality({b \in S : booking[b].status = "confirmed" /\ booking[b].ends_at <= now}),
     rating_sum |-> SumFunction([b \in rated |-> booking[b].rating]),
     ratings |-> Cardinality(rated)]

stats_for_host(u) == BookingStatsProjection({b \in Rows(booking) : booking[b].host = u})

stats_for_spot(s) == BookingStatsProjection(BookingsOf(s))

\* A fraction; nothing at all when nobody has rated.
average(stats) == IF stats.ratings > 0 THEN <<stats.rating_sum, stats.ratings>> ELSE Null

\* occupancy::active_now, on the spot's own clock.
active_now(b) == StartsAt[b] <= now /\ now < EndsAt[b]

\* The spot is inner joined for its time zone.
find_unfinished_for_host(u) ==
    {b \in Rows(booking) : /\ booking[b].host = u /\ booking[b].spot \in Rows(spot)
                           /\ booking[b].status = "confirmed" /\ booking[b].ends_at > now}

-----------------------------------------------------------------------------
(* Notifications *)

find_open_for_account(u) ==
    {n \in notification : n.user = u /\ ~n.handled /\ n.visible_from <= now}

seen_at(u) == IF app_user[u] = Null THEN Null ELSE app_user[u].seen_at

-----------------------------------------------------------------------------
(* The wallet *)

\* policy::wallet: months are half-open ranges of instants.
label(at) == at \div MONTH
bounds(month) == <<month * MONTH, (month + 1) * MONTH>>
Within(at, range) == at # Null /\ range[1] <= at /\ at < range[2]

\* JOIN booking: PAYMENTS and BOOKINGS advance apart.
Joined == {b \in Rows(payment) : payment[b].booking \in Rows(booking)}
BookingOf(b) == booking[payment[b].booking]

MOVED == {"succeeded", "refunded"}

Entry(b, role, kind, cents, at, settles_at, pending_now) ==
    [id |-> <<b, role>>, kind |-> kind, amount_cents |-> cents, occurred_at |-> at,
     settles_at |-> settles_at, pending_now |-> pending_now]

Charges(range) == {b \in Joined : payment[b].status \in MOVED /\ Within(payment[b].created_at, range)}

Refunds(range) == {b \in Joined : Within(payment[b].refunded_at, range)}

\* Only a charge on a booking that still stands can ripen.
Ripens(b) ==
    IF payment[b].status = "succeeded" /\ BookingOf(b).status = "confirmed"
    THEN BookingOf(b).ends_at ELSE Null

\* Mutant of PayoutRows: a refused withdrawal stays in the history.
EveryPayoutRow(u, range) ==
    {Entry(p, "payout", "payout", -payout[p].amount, payout[p].created_at, Null,
           payout[p].status = "requested") :
        p \in {q \in Rows(payout) : payout[q].host = u /\ Within(payout[q].created_at, range)}}

PayoutRows(u, range) ==
    {Entry(p, "payout", "payout", -payout[p].amount, payout[p].created_at, Null,
           payout[p].status = "requested") :
        p \in {q \in Rows(payout) : /\ payout[q].host = u /\ payout[q].status # "failed"
                                    /\ Within(payout[q].created_at, range)}}

MoneyIn(u, range) ==
    {Entry(b, "in", "in", payment[b].amount, payment[b].created_at, Ripens(b), FALSE) :
        b \in {c \in Charges(range) : payment[c].host = u}}

MoneyOut(u, range) ==
    {Entry(b, "out", "out", -payment[b].amount, payment[b].created_at, Null, FALSE) :
        b \in {c \in Charges(range) : payment[c].renter = u}}

RefundOut(u, range) ==
    {Entry(b, "refund-out", "refund", -payment[b].amount, payment[b].refunded_at, Null, FALSE) :
        b \in {c \in Refunds(range) : payment[c].host = u}}

RefundIn(u, range) ==
    {Entry(b, "refund-in", "refund", payment[b].amount, payment[b].refunded_at, Null, FALSE) :
        b \in {c \in Refunds(range) : payment[c].renter = u}}

\* Five branches, the sign by role.
find_month_for_account(u, range) ==
    MoneyIn(u, range) \cup MoneyOut(u, range) \cup RefundOut(u, range) \cup RefundIn(u, range)
        \cup PayoutRows(u, range)

\* Mutant of Dated: the cursor forgets the join its page has.
DatedUnjoined(u) ==
    LET mine == {b \in Rows(payment) : payment[b].host = u \/ payment[b].renter = u} IN
    {payment[b].created_at : b \in {c \in mine : payment[c].status \in MOVED}} \cup
    {payment[b].refunded_at : b \in {c \in mine : payment[c].refunded_at # Null}} \cup
    {payout[p].created_at : p \in {q \in Rows(payout) : payout[q].host = u /\ payout[q].status # "failed"}}

\* The instants the cursor's four branches range over.
Dated(u) ==
    LET mine == {b \in Joined : payment[b].host = u \/ payment[b].renter = u} IN
    {payment[b].created_at : b \in {c \in mine : payment[c].status \in MOVED}} \cup
    {payment[b].refunded_at : b \in {c \in mine : payment[c].refunded_at # Null}} \cup
    {payout[p].created_at : p \in {q \in Rows(payout) : payout[q].host = u /\ payout[q].status # "failed"}}

find_newest_before(u, start) ==
    LET older == {at \in Dated(u) : at < start} IN IF older = {} THEN Null ELSE Max(older)

pending(row) == row.pending_now \/ (row.settles_at # Null /\ row.settles_at >= settled_before)

\* totals: a withdrawal is neither money in nor money out.
TotalIn(rows) ==
    SumFunction([r \in {row \in rows : row.amount_cents >= 0} |-> r.amount_cents])
TotalOut(rows) ==
    SumFunction([r \in {row \in rows : row.amount_cents < 0 /\ row.kind # "payout"} |->
                     -r.amount_cents])

-----------------------------------------------------------------------------
(* What a host has earned *)

Earning(u) ==
    {b \in Joined : /\ payment[b].host = u
                    /\ payment[b].status = "succeeded" /\ BookingOf(b).status = "confirmed"}

Cents(S) == SumFunction([b \in S |-> payment[b].amount])

earned_for_host(u) == Cents(Earning(u))

\* Mutant of earned_for_host_spot: a cancelled booking still earns.
paid_for_host_spot(u, s) ==
    Cents({b \in Joined : /\ payment[b].host = u /\ payment[b].status \in MOVED
                          /\ BookingOf(b).spot = s})

earned_for_host_spot(u, s) == Cents({b \in Earning(u) : BookingOf(b).spot = s})

\* This month and the one before, by the date of the charge.
earned_by_month_for_host(u, this, last) ==
    <<Cents({b \in Earning(u) : Within(payment[b].created_at, this)}),
      Cents({b \in Earning(u) : Within(payment[b].created_at, last)})>>

\* Mutant of balance_for_host: only a finished withdrawal is taken off.
balance_late_for_host(u) ==
    LET earned == Cents({b \in Earning(u) : BookingOf(b).ends_at < settled_before})
        paid_out == SumFunction([p \in {q \in Rows(payout) : payout[q].host = u /\ payout[q].status = "paid"} |->
                                     payout[p].amount])
    IN [available |-> earned - paid_out, earned |-> earned, paid_out |-> paid_out,
        pending |-> Cents({b \in Earning(u) : BookingOf(b).ends_at >= settled_before})]

balance_for_host(u) ==
    LET earned == Cents({b \in Earning(u) : BookingOf(b).ends_at < settled_before})
        paid_out == SumFunction([p \in {q \in Rows(payout) : payout[q].host = u /\ payout[q].status # "failed"} |->
                                     payout[p].amount])
    IN [available |-> earned - paid_out, earned |-> earned, paid_out |-> paid_out,
        pending |-> Cents({b \in Earning(u) : BookingOf(b).ends_at >= settled_before})]
=============================================================================
