---------------------------- MODULE ViewAnswers ----------------------------
(***************************************************************************)
(* What view-service answers, by namespace: /public, /host, /renter and    *)
(* /account.  The caller of a route is the id of the verified token, never *)
(* a parameter.  An answer is built of the repositories' reads; Null is    *)
(* the 404 of what is not there or not the caller's, and the 400 of a      *)
(* request that is no window of a list.                                    *)
(***************************************************************************)
EXTENDS ViewQueries

OrNull(S) == S \cup {Null}

\* A list's rows as its audience sees them.
Shown(rows, Project(_)) == [i \in DOMAIN rows |-> Project(rows[i])]

PageOf(rows, win, total) ==
    [rows |-> rows, next_offset |-> next_offset(win[2], win[1], total), total |-> total]

PageResponse(Row) == [rows : Seq(Row), next_offset : OrNull(Nat), total : Nat]

-----------------------------------------------------------------------------
(* /public *)

Rating == {r \in Nat \X (Nat \ {0}) : r[1] <= Max(Ratings) * r[2]}
UserPublicResponse == [id : Users, name : Names]
PublicSpotResponse == [id : Spots, title : Titles, host : OrNull(UserPublicResponse)]
NearbyResponse == [id : Spots, title : Titles, point : Points]
PublicBookingResponse == [id : Bookings, status : TAKEN, ends_at : Nat]
UserSummaryResponse == [bookings : Nat, rating : OrNull(Rating), ratings : Nat]
SpotSummaryResponse == [rating : OrNull(Rating), ratings : Nat]

public_spot(s) == IF find_for_public(s) THEN PublicSpotProjection(s) ELSE Null

\* Zeroes, and no 404, for an id that is nobody's.
user_summary(u) ==
    LET stats == stats_for_host(u) IN
    [bookings |-> stats.bookings, rating |-> average(stats), ratings |-> stats.ratings]

public_spot_summary(s) ==
    LET stats == stats_for_spot(s) IN [rating |-> average(stats), ratings |-> stats.ratings]

\* The taken slots, gated on the same read as the spot.
public_spot_bookings(s) == IF find_for_public(s) THEN find_for_public_spot(s) ELSE Null

nearby(u, centre) == {PublicSpotPinProjection(s) : s \in find_pins_for_public(u, centre)}

PublicRoutes(u) ==
    [spot |-> [s \in Spots |-> public_spot(s)],
     spot_summary |-> [s \in Spots |-> public_spot_summary(s)],
     user_summary |-> [v \in Users |-> user_summary(v)],
     spot_bookings |-> [s \in Spots |-> public_spot_bookings(s)],
     nearby |-> [c \in Points |-> nearby(u, c)]]

-----------------------------------------------------------------------------
(* /host *)

HostSpotResponse == [id : Spots, title : Titles, active : BOOLEAN]
HostBookingResponse == [id : Bookings, status : STATUSES, ends_at : Nat, renter : OrNull(UserPublicResponse)]
HostBookingsPageResponse == PageResponse(HostBookingResponse)
HostSpotSummaryResponse == [bookings : Nat, earned : Nat, rating : OrNull(Rating), ratings : Nat]
HostSummaryResponse ==
    [spots : Nat, active_spots : Nat, booked_now : Nat, bookings : Nat,
     earned : Nat, earned_this_month : Nat, earned_last_month : Nat]
\* Withdrawals may be ahead of the charges they were paid from.
BalanceProjection == [available : Int, earned : Nat, paid_out : Nat, pending : Nat]
BalanceResponse == [available : Int, pending : Nat]

host_spots(u, limit, offset) ==
    LET win == window(limit, offset) IN
    IF win = Null THEN Null
    ELSE PageOf(Shown(find_page_for_host(u, win), HostSpotProjection), win, count_for_host(u))

\* Listings, not bookings: two at once in one driveway are one.
host_summary(u) ==
    LET counts == counts_for_host(u)
        month == label(now)
        earned == earned_by_month_for_host(u, bounds(month), bounds(month - 1))
        busy == {b \in find_unfinished_for_host(u) : active_now(b)}
    IN [spots |-> counts[1], active_spots |-> counts[2],
        booked_now |-> Cardinality({booking[b].spot : b \in busy}),
        bookings |-> stats_for_host(u).bookings,
        earned |-> earned_for_host(u),
        earned_this_month |-> earned[1], earned_last_month |-> earned[2]]

\* The first statement is the authorization, here and below.
host_spot_summary(s, u) ==
    IF ~find_for_host(s, u) THEN Null
    ELSE LET stats == stats_for_spot(s) IN
         [bookings |-> stats.bookings, earned |-> earned_for_host_spot(u, s),
          rating |-> average(stats), ratings |-> stats.ratings]

host_spot(s, u) == IF find_for_host(s, u) THEN HostSpotProjection(s) ELSE Null

booked(s, u) == IF find_for_host(s, u) THEN find_booked_for_host_spot(s) ELSE Null

\* One instant for the count and the window.
host_spot_bookings(s, u, past, statuses, limit, offset) ==
    LET win == window(limit, offset) IN
    IF win = Null \/ ~find_for_host(s, u) THEN Null
    ELSE PageOf(Shown(find_page_for_host_spot(s, past, statuses, win), HostBookingProjection),
                win, count_for_host_spot(s, past, statuses))

balance(u) ==
    LET b == balance_for_host(u) IN [available |-> b.available, pending |-> b.pending]

HostRoutes(u) ==
    [spots |-> host_spots(u, Null, Null),
     spot |-> [s \in Spots |-> host_spot(s, u)],
     summary |-> host_summary(u),
     spot_summary |-> [s \in Spots |-> host_spot_summary(s, u)],
     booked |-> [s \in Spots |-> booked(s, u)],
     bookings |-> [s \in Spots |-> host_spot_bookings(s, u, FALSE, STATUSES, Null, Null)],
     balance |-> balance(u)]

-----------------------------------------------------------------------------
(* /renter *)

RenterBookingResponse ==
    [id : Bookings, status : STATUSES, ends_at : Nat, spot_id : Spots, spot : OrNull(Titles)]

RenterSpotResponse == [id : Spots, title : Titles, host : OrNull(UserPublicResponse)]
RenterBookingsPageResponse == PageResponse(RenterBookingResponse)
\* The card says neither where the booking stands nor when it ends.
NextBookingResponse == [id : Bookings, spot_id : Spots, spot : OrNull(Titles)]

renter_spot(s, u) == IF find_for_renter(s, u) THEN RenterSpotProjection(s) ELSE Null

renter_bookings(u, past, statuses, limit, offset) ==
    LET win == window(limit, offset) IN
    IF win = Null THEN Null
    ELSE PageOf(Shown(find_page_for_renter(u, past, statuses, win), RenterBookingProjection),
                win, count_for_renter(u, past, statuses))

next(u) ==
    LET b == find_next_for_renter(u)
        card == RenterBookingProjection(b)
    IN IF b = Null THEN Null ELSE [id |-> card.id, spot_id |-> card.spot_id, spot |-> card.spot]

renter_booking(b, u) == IF find_booking_for_renter(b, u) THEN RenterBookingProjection(b) ELSE Null

RenterRoutes(u) ==
    [bookings |-> renter_bookings(u, FALSE, STATUSES, Null, Null),
     spot |-> [s \in Spots |-> renter_spot(s, u)],
     next |-> next(u),
     booking |-> [b \in Bookings |-> renter_booking(b, u)]]

-----------------------------------------------------------------------------
(* /account *)

AccountResponse == [id : Users, user : OrNull(UserPublicResponse)]
NotificationResponse == [subject : Bookings, kind : Kinds, at : Nat, seen : BOOLEAN]
WalletTransactionResponse ==
    [id : (Bookings \cup Payouts) \X {"in", "out", "refund-out", "refund-in", "payout"},
     kind : {"in", "out", "refund", "payout"}, amount_cents : Int, occurred_at : Nat,
     pending : BOOLEAN]
WalletResponse ==
    [transactions : SUBSET WalletTransactionResponse, in_cents : Nat, out_cents : Nat,
     next_month : OrNull(Nat)]

\* The id is the token's; the row may still be on its way.
account(u) == [id |-> u, user |-> find_for_account(u)]

notifications(u) ==
    {[subject |-> n.subject, kind |-> n.kind, at |-> n.visible_from,
      seen |-> seen_at(u) # Null /\ n.visible_from <= seen_at(u)] : n \in find_open_for_account(u)}

\* Totals over the rows of the page, and the month the cursor leads to.
wallet(u, month) ==
    LET rows == find_month_for_account(u, bounds(month))
        cursor == find_newest_before(u, bounds(month)[1])
    IN [transactions |->
            {[id |-> r.id, kind |-> r.kind, amount_cents |-> r.amount_cents,
              occurred_at |-> r.occurred_at, pending |-> pending(r)] : r \in rows},
        in_cents |-> TotalIn(rows), out_cents |-> TotalOut(rows),
        next_month |-> IF cursor = Null THEN Null ELSE label(cursor)]

AccountRoutes(u) ==
    [account |-> account(u), notifications |-> notifications(u), wallet |-> wallet(u, label(now))]

-----------------------------------------------------------------------------

\* Null is the 404 and the 400 as well, and no answer.
ASSUME AnswerAssumption ==
    /\ Null \notin Bookings \cup (Nat \X Nat)
    /\ Null \notin PublicSpotResponse \cup HostSpotResponse \cup RenterSpotResponse
    /\ Null \notin NextBookingResponse \cup RenterBookingResponse
    /\ Null \notin PageResponse(HostSpotResponse) \cup PageResponse(HostBookingResponse)
                     \cup PageResponse(RenterBookingResponse)

\* Every route answers what its response says.
AnswersTypeOK ==
    \A u \in Users :
        /\ PublicRoutes(u) \in
               [spot : [Spots -> OrNull(PublicSpotResponse)],
                spot_summary : [Spots -> SpotSummaryResponse],
                user_summary : [Users -> UserSummaryResponse],
                spot_bookings : [Spots -> OrNull(SUBSET PublicBookingResponse)],
                nearby : [Points -> SUBSET NearbyResponse]]
        /\ HostRoutes(u) \in
               [spots : PageResponse(HostSpotResponse),
                spot : [Spots -> OrNull(HostSpotResponse)],
                summary : HostSummaryResponse,
                spot_summary : [Spots -> OrNull(HostSpotSummaryResponse)],
                booked : [Spots -> OrNull(SUBSET Bookings)],
                bookings : [Spots -> OrNull(HostBookingsPageResponse)],
                balance : BalanceResponse]
        /\ balance_for_host(u) \in BalanceProjection
        /\ RenterRoutes(u) \in
               [bookings : RenterBookingsPageResponse,
                spot : [Spots -> OrNull(RenterSpotResponse)],
                next : OrNull(NextBookingResponse),
                booking : [Bookings -> OrNull(RenterBookingResponse)]]
        /\ AccountRoutes(u) \in
               [account : AccountResponse, notifications : SUBSET NotificationResponse,
                wallet : WalletResponse]
=============================================================================
