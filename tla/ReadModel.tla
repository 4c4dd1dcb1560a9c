----------------------------- MODULE ReadModel -----------------------------
(***************************************************************************)
(* The read side as a whole: the writing services append to their logs,    *)
(* view-service projects every aggregate at its own pace, clients wait for *)
(* the versions their writes were answered with, and then read.            *)
(*                                                                         *)
(* `focus` is a bound and no state of the program: a behaviour writes to   *)
(* the aggregates of one focus only, which keeps apart what never meets    *)
(* (the notifications of one booking, the money of others).                *)
(***************************************************************************)
EXTENDS ViewAnswers

CONSTANTS
    Readers,        \* reads in flight at once
    Focus           \* bound: the sets of aggregates a behaviour may write to

ASSUME FocusAssumption ==
    \A f \in Focus :
        /\ f.users \subseteq Users /\ f.spots \subseteq Spots
        /\ f.bookings \subseteq Bookings /\ f.payouts \subseteq Payouts
        /\ f.readers \subseteq Readers /\ f.until \in 0..MaxTime

VARIABLES reader, focus

vars == <<upstreamVars, viewVars, reader, focus>>

Aggregates == {"spot", "booking", "session"} \X (Spots \cup Bookings)

\* version_reader!: every table of the read model, and no sessions.
StoredVersions ==
    [a \in Aggregates |->
        IF a[1] = "spot" /\ a[2] \in Spots THEN Stored(spot[a[2]])
        ELSE IF a[1] = "booking" /\ a[2] \in Bookings THEN Stored(booking[a[2]])
        ELSE 0]

Wait == INSTANCE AwaitVersion WITH
            Reader <- Readers, Aggregate <- Aggregates, stored <- StoredVersions,
            Kept <- {a \in Aggregates : a[1] # "session"}

Init ==
    /\ UpstreamInit /\ ViewInit
    /\ Wait!AwaitInit
    /\ focus \in Focus

WriterStep ==
    \/ now < focus.until /\ Tick
    \/ UserStep(focus.users, focus.bookings) \/ SpotStep(focus.spots)
    \/ BookingStep(focus.bookings) \/ PaymentStep(focus.bookings \cap Charged)
    \/ PayoutStep(focus.payouts)

\* The newest versions the writers have answered with.
Written ==
    {[of |-> <<"spot", s>>, at |-> Len(spots_log[s])] :
        s \in {x \in focus.spots : spots_log[x] # << >>}} \cup
    {[of |-> <<"booking", b>>, at |-> Len(bookings_log[b])] :
        b \in {x \in focus.bookings : bookings_log[x] # << >>}} \cup
    {[of |-> <<"session", b>>, at |-> 1] : b \in focus.bookings}

ReaderStep ==
    \E r \in focus.readers :
        \/ \E listing \in Written, other \in Written :
               /\ listing.of[1] = "spot" /\ other.of[1] # "spot"
               /\ \/ Wait!Ask(r, <<listing, other>>)
                  \/ Wait!Ask(r, <<other, listing>>)
        \/ Wait!WaitStep(r)

Next ==
    /\ \/ WriterStep /\ UNCHANGED <<viewVars, reader>>
       \/ ProjectionStep /\ UNCHANGED <<upstreamVars, reader>>
       \/ ReaderStep /\ UNCHANGED <<upstreamVars, viewVars>>
    /\ UNCHANGED focus

Spec == Init /\ [][Next]_vars

(***************************************************************************)
(* A projector loops for ever and the gate hands it the next event of      *)
(* every aggregate (EventuallyProjected of Delivery).  No write, tick or   *)
(* read is ever owed.                                                      *)
(***************************************************************************)
Apart == UNCHANGED <<upstreamVars, reader, focus>>

Fairness ==
    /\ \A u \in Users : WF_vars(ProjectUser(u) /\ Apart)
    /\ \A s \in Spots : WF_vars(ProjectSpot(s) /\ Apart)
    /\ \A b \in Bookings : WF_vars(ProjectBooking(b) /\ Apart) /\ WF_vars(ProjectPayment(b) /\ Apart)
    /\ \A p \in Payouts : WF_vars(ProjectPayout(p) /\ Apart)

FairSpec == Spec /\ Fairness

-----------------------------------------------------------------------------
(* The tables *)

\* Every variable has its type, and every answer its response's.
TypeOK == SpotTypeOK /\ UpstreamTypeOK /\ ViewTypeOK /\ Wait!AwaitTypeOK /\ AnswersTypeOK

(***************************************************************************)
(* A row of the read model at the version of its owner's row says what its *)
(* owner's row says, although each side patches its own copy by its own    *)
(* guards and only ever sees single events.                                *)
(***************************************************************************)
RowsAgree ==
    /\ \A u \in Rows(app_user) :
        Stored(app_user[u]) = Len(users_log[u]) => app_user[u].name = user_db[u]
    /\ \A s \in Rows(spot) : Stored(spot[s]) = Len(spots_log[s]) => spot[s] = spot_db[s]
    /\ \A b \in Rows(booking) :
        Stored(booking[b]) = Len(bookings_log[b]) =>
            \A c \in DOMAIN booking_db[b] : booking[b][c] = booking_db[b][c]
    /\ \A b \in Rows(payment) :
        Stored(payment[b]) = Len(payments_log[b]) =>
            \A c \in DOMAIN payment_db[b] : payment[b][c] = payment_db[b][c]
    /\ \A p \in Rows(payout) :
        Stored(payout[p]) = Len(payouts_log[p]) =>
            \A c \in DOMAIN payout_db[p] : payout[p][c] = payout_db[p][c]

(***************************************************************************)
(* Once view-service has caught up, the calendar it shows strangers is     *)
(* what booking-service holds: a hold as well as a booking, until it ends. *)
(***************************************************************************)
CalendarAgrees ==
    \A s \in Spots :
        CaughtUp /\ public_spot(s) # Null =>
            {b.id : b \in public_spot_bookings(s)}
                = {b \in Bookings : /\ SpotOf[b] = s /\ now < EndsAt[b]
                                    /\ BookingIs(b, "reserved") \/ BookingIs(b, "confirmed")}

(***************************************************************************)
(* What view-service stores, and what it shows strangers of it, is what    *)
(* the owners of the rows decided.                                         *)
(***************************************************************************)
ReadModelAgrees == RowsAgree /\ CalendarAgrees

(***************************************************************************)
(* A read that was not cut short sees every write its client named, all of *)
(* them at once: an entry reached early still holds when the last one is,  *)
(* because no row of the read model ever steps back.                       *)
(***************************************************************************)
ReadYourWrites ==
    \A r \in Readers :
        reader[r].pc = "served" /\ ~reader[r].late =>
            \A i \in DOMAIN reader[r].header :
                LET entry == reader[r].header[i] IN
                entry.of[1] # "session" => StoredVersions[entry.of] >= entry.at

(***************************************************************************)
(* Every event is projected in the end, the ones that store nothing too: a *)
(* client that waits for the version of one is not left to its timeout.    *)
(***************************************************************************)
EventuallyCurrent == []<>CaughtUp

-----------------------------------------------------------------------------
(* Notifications *)

Addressee(b, kind) == IF kind = "spot_booked" THEN booking[b].host ELSE booking[b].renter

\* Still news to its host, or still to be rated by its renter.
Relevant(b, kind) ==
    booking[b].status = "confirmed" /\ (kind = "rate_booking" => booking[b].rating = Null)

(***************************************************************************)
(* Nobody is told of a booking that was cancelled, nor asked to rate one   *)
(* that was cancelled, rated already, or is not over: the prompt is dated  *)
(* when the booking is confirmed and no timer ever looks at it again.      *)
(***************************************************************************)
OpenIsRelevant ==
    \A u \in Users : \A n \in notifications(u) :
        /\ Relevant(n.subject, n.kind) /\ u = Addressee(n.subject, n.kind)
        /\ n.kind = "rate_booking" => booking[n.subject].ends_at <= now

(***************************************************************************)
(* A notification its user has seen never lights the bell again, whatever  *)
(* else happens to the account's row, on which the watermark is kept.      *)
(***************************************************************************)
SeenStaysSeen ==
    [][\A u \in Users : seen_at(u) # Null => seen_at(u)' # Null /\ seen_at(u) <= seen_at(u)']_vars

DismissedBy(u, b, kind) ==
    \E i \in 1..Stored(app_user[u]) :
        LET e == users_log[u][i] IN
        e.type = "NotificationDismissed" /\ e.kind = kind /\ e.subject = b

(***************************************************************************)
(* A notification that is still relevant is there, and is only closed when *)
(* its own user dismissed it: USERS and BOOKINGS advance apart, and a      *)
(* dismissal names nothing but a kind and a booking.                       *)
(***************************************************************************)
ClosedForAReason ==
    \A b \in Rows(booking), kind \in Kinds :
        Relevant(b, kind) =>
            \E n \in notification :
                /\ n.subject = b /\ n.kind = kind /\ n.user = Addressee(b, kind)
                /\ n.handled => DismissedBy(n.user, b, kind)

(***************************************************************************)
(* Told of what matters, of nothing else, and until they say otherwise.    *)
(***************************************************************************)
NotificationsAgree == OpenIsRelevant /\ ClosedForAReason

-----------------------------------------------------------------------------
(* Lists *)

InPage(b, page) == page # Null /\ \E i \in DOMAIN page.rows : page.rows[i].id = b

\* On one of the pages of a tab: of its renter's bookings, of its spot's for their host.
Rented(b, past) ==
    \E offset \in 0..Cardinality(Rows(booking)) :
        InPage(b, renter_bookings(booking[b].renter, past, STATUSES, MAX_LIMIT, offset))
Hosted(b, past) ==
    \E offset \in 0..Cardinality(Rows(booking)) :
        InPage(b, host_spot_bookings(booking[b].spot, booking[b].host, past, STATUSES, MAX_LIMIT, offset))

(***************************************************************************)
(* A booking is in one tab of its renter and in the same tab of its host,  *)
(* a taken slot is in the upcoming one, the renter's next booking is too,  *)
(* a pin on the map can be opened, and a guest can open the spot.          *)
(***************************************************************************)
ListsAgree ==
    /\ \A b \in Rows(booking) :
        LET s == booking[b].spot
        IN /\ Rented(b, TRUE) # Rented(b, FALSE)
           /\ host_spot(s, booking[b].host) # Null =>
                  \A past \in BOOLEAN : Hosted(b, past) = Rented(b, past)
           /\ s \in Rows(spot) => renter_spot(s, booking[b].renter) # Null
           /\ b \in Taken(s) => Rented(b, FALSE)
    /\ \A u \in Users : next(u) # Null =>
           /\ InPage(next(u).id, renter_bookings(u, FALSE, {"confirmed"}, 1, 0))
           /\ \A c \in DOMAIN next(u) : next(u)[c] = renter_booking(next(u).id, u)[c]
    /\ \A u \in Users, c \in Points : \A pin \in nearby(u, c) : public_spot(pin.id) # Null

\* The offsets next_offset leads to, from the first page on.
Reached(PageAt(_), total) ==
    LET reach[n \in 0..total] ==
            IF n = 0 THEN {0}
            ELSE reach[n - 1] \cup ({PageAt(o).next_offset : o \in reach[n - 1]} \ {Null})
    IN reach[total]

\* Every row on one page, and no page empty but the only one.
Partitions(PageAt(_), S) ==
    LET offsets == Reached(PageAt, Cardinality(S)) IN
    /\ \A x \in S : \E o \in offsets : InPage(x, PageAt(o))
    /\ \A o \in offsets : o # 0 => PageAt(o).rows # << >>
    /\ SumFunctionOnSet([o \in offsets |-> Len(PageAt(o).rows)], offsets) = Cardinality(S)

(***************************************************************************)
(* Following next_offset shows every listing and every booking once, and   *)
(* never leads to an empty page.                                           *)
(***************************************************************************)
PagesPartition ==
    \A u \in Users, limit \in 1..MAX_LIMIT :
        /\ Partitions(LAMBDA o : host_spots(u, limit, o), HostSpots(u))
        /\ \A past \in BOOLEAN :
            Partitions(LAMBDA o : renter_bookings(u, past, STATUSES, limit, o),
                       {b \in BookingsBy(u) : InTab(b, past)})

-----------------------------------------------------------------------------
(* Money *)

Months == 0..label(MaxTime)

(***************************************************************************)
(* The cursor of a wallet page leads to every older month that has a row   *)
(* to show and to no empty one, while charges, bookings and withdrawals    *)
(* are projected apart.                                                    *)
(***************************************************************************)
HistoryReached ==
    \A u \in Users :
        LET reach[n \in Months] ==
                IF n = 0 THEN {label(now)}
                ELSE reach[n - 1] \cup ({wallet(u, m).next_month : m \in reach[n - 1]} \ {Null})
        IN reach[label(MaxTime)] \ {label(now)}
               = {m \in 0..(label(now) - 1) : wallet(u, m).transactions # {}}

(***************************************************************************)
(* Whoever follows the cursors of a list sees all of it: next_offset of    *)
(* the pages, next_month of the wallet.                                    *)
(***************************************************************************)
CursorsReachAll == PagesPartition /\ HistoryReached

\* The host's side of what the wallet shows, over all months.
HostRows(u) ==
    {r \in UNION {wallet(u, m).transactions : m \in Months} :
        r.id[2] \in {"in", "refund-out", "payout"}}

(***************************************************************************)
(* What a host's history shows adds up to the figure beside the withdraw   *)
(* button: charges that are not pending, minus refunds, minus withdrawals. *)
(* While a paid booking is not confirmed (any more) they differ, until its *)
(* confirmation or its refund is projected.                                *)
(***************************************************************************)
WalletExplainsBalance ==
    \A u \in Users :
        (\A b \in Joined : payment[b].host = u /\ payment[b].status = "succeeded" =>
                              BookingOf(b).status = "confirmed") =>
            SumFunction([r \in {row \in HostRows(u) : row.kind = "payout" \/ ~row.pending} |->
                             r.amount_cents])
                = balance(u).available

(***************************************************************************)
(* Once caught up, the balance shown is the one payment-service pays out   *)
(* from: the same arithmetic over two databases.                           *)
(***************************************************************************)
BalanceAgrees ==
    \A u \in Users : CaughtUp => balance(u).available = Earned(u) - PaidOut(u)

(***************************************************************************)
(* A host's figures are the sums of the figures of the host's spots, and   *)
(* what is earned is what has settled plus what is pending.                *)
(***************************************************************************)
SummariesAddUp ==
    \A u \in Users :
        LET shown == {s \in Spots : host_spot(s, u) # Null}
            whole == host_summary(u)
        IN
        /\ (\A b \in Rows(booking) : booking[b].host = u => booking[b].spot \in shown) =>
               /\ whole.earned = SumFunction([s \in shown |-> host_spot_summary(s, u).earned])
               /\ whole.bookings = SumFunction([s \in shown |-> host_spot_summary(s, u).bookings])
               /\ user_summary(u).ratings =
                      SumFunction([s \in shown |-> public_spot_summary(s).ratings])
        /\ whole.earned = balance_for_host(u).earned + balance_for_host(u).pending
        /\ whole.earned_this_month + whole.earned_last_month <= whole.earned
        /\ whole.bookings = user_summary(u).bookings
        /\ whole.booked_now =
               Cardinality({s \in shown : \E b \in booked(s, u) :
                                booking[b].status = "confirmed" /\ active_now(b)})

(***************************************************************************)
(* Every figure of a host's money is one sum, whichever query adds it up:  *)
(* the balance, the wallet, the summaries and payment-service's own.       *)
(***************************************************************************)
MoneyAgrees == WalletExplainsBalance /\ BalanceAgrees /\ SummariesAddUp
=============================================================================
