------------------------------ MODULE Upstream ------------------------------
(***************************************************************************)
(* What view-service subscribes to: the rows and the logs of the four      *)
(* writing services.  Spots are SpotService in full; users, bookings,      *)
(* payments and payouts are what their own modules promise, one action per *)
(* event.  An event is on its log once its transaction commits, so the     *)
(* version of an aggregate is the length of its log.                       *)
(*                                                                         *)
(* A booking has one payment, and a payment is named by its booking.       *)
(***************************************************************************)
EXTENDS SpotService, FiniteSets, FiniteSetsExt

CONSTANTS
    Names,
    Bookings,       \* the ids reservations mint
    SpotOf,         \* SpotOf[b], RenterOf[b], EndsAt[b], Amount[b]: what b asks for
    RenterOf,
    EndsAt,
    Amount,
    Ratings,
    Charged,        \* bookings whose payment is modelled
    Payouts,        \* the ids withdrawals mint
    SETTLEMENT,     \* SETTLEMENT_SECS, one value for both services
    MaxTime,        \* bound: the clock
    MaxUserVersion, \* bound: MaxUserVersion[u], writes to one account
    MaxCharges      \* bound: MaxCharges[b], events of one payment

ASSUME UpstreamAssumption ==
    /\ SpotOf \in [Bookings -> Spots] /\ RenterOf \in [Bookings -> Users]
    /\ EndsAt \in [Bookings -> Nat] /\ Amount \in [Bookings -> Nat]
    /\ Charged \subseteq Bookings
    /\ SETTLEMENT \in Nat
    /\ Ratings \subseteq Nat /\ IsFiniteSet(Ratings) /\ Null \notin Ratings
    /\ MaxTime \in Nat /\ MaxUserVersion \in [Users -> Nat] /\ MaxCharges \in [Bookings -> Nat]

VARIABLES
    now,
    user_db, users_log,        \* the account's name, Null before it registers
    booking_db, bookings_log,
    payment_db, payments_log,
    payout_db, payouts_log

userVars == <<user_db, users_log>>
bookingVars == <<booking_db, bookings_log>>
paymentVars == <<payment_db, payments_log>>
payoutVars == <<payout_db, payouts_log>>
upstreamVars == <<spotServiceVars, now, userVars, bookingVars, paymentVars, payoutVars>>

Kinds == {"spot_booked", "rate_booking"}

BookingRow == [status : {"reserved", "confirmed", "cancelled", "released"},
               hold : BOOLEAN, rating : Ratings \cup {Null}]
PaymentRow == [status : {"created", "succeeded", "failed", "expired", "refunded"},
               created_at : Nat, refunded_at : Nat \cup {Null}]
PayoutRow == [host : Users, amount : Nat, created_at : Nat,
              status : {"requested", "paid", "failed"}]

UpstreamTypeOK ==
    /\ now \in 0..MaxTime
    /\ user_db \in [Users -> Names \cup {Null}]
    /\ booking_db \in [Bookings -> BookingRow \cup {Null}]
    /\ payment_db \in [Bookings -> PaymentRow \cup {Null}]
    /\ payout_db \in [Payouts -> PayoutRow \cup {Null}]

UpstreamInit ==
    /\ SpotInit
    /\ now = 0
    /\ user_db = [u \in Users |-> Null] /\ users_log = [u \in Users |-> << >>]
    /\ booking_db = [b \in Bookings |-> Null] /\ bookings_log = [b \in Bookings |-> << >>]
    /\ payment_db = [b \in Bookings |-> Null] /\ payments_log = [b \in Bookings |-> << >>]
    /\ payout_db = [p \in Payouts |-> Null] /\ payouts_log = [p \in Payouts |-> << >>]

Tick ==
    /\ now < MaxTime
    /\ now' = now + 1
    /\ UNCHANGED <<spotServiceVars, userVars, bookingVars, paymentVars, payoutVars>>

-----------------------------------------------------------------------------
(* USERS *)

WriteUser(u, name, event) ==
    /\ Len(users_log[u]) < MaxUserVersion[u]
    /\ user_db' = [user_db EXCEPT ![u] = name]
    /\ users_log' = [users_log EXCEPT ![u] = Append(@, event)]
    /\ UNCHANGED <<spotServiceVars, now, bookingVars, paymentVars, payoutVars>>

Register(u, name) ==
    /\ user_db[u] = Null
    /\ WriteUser(u, name, [type |-> "Registered", name |-> name])

Rename(u, name) ==
    /\ user_db[u] # Null
    /\ WriteUser(u, name, [type |-> "Updated", name |-> name])

\* A password changed, an address confirmed, a mail asked for: nothing to project.
UserMarker(u) ==
    /\ user_db[u] # Null
    /\ WriteUser(u, user_db[u], [type |-> "Marker"])

SeeNotifications(u) ==
    /\ user_db[u] # Null
    /\ WriteUser(u, user_db[u], [type |-> "NotificationsSeen", at |-> now])

\* user-service checks the kind and nothing else: it has no notifications.
DismissNotification(u, kind, b) ==
    /\ user_db[u] # Null
    /\ WriteUser(u, user_db[u],
           [type |-> "NotificationDismissed", user |-> u, kind |-> kind, subject |-> b])

-----------------------------------------------------------------------------
(* BOOKINGS *)

WriteBooking(b, row, event) ==
    /\ booking_db' = [booking_db EXCEPT ![b] = row]
    /\ bookings_log' = [bookings_log EXCEPT ![b] = Append(@, event)]
    /\ UNCHANGED <<spotServiceVars, now, userVars, paymentVars, payoutVars>>

BookingIs(b, status) == booking_db[b] # Null /\ booking_db[b].status = status

\* booking-service's own mirror of the spot may be any number of events behind.
Reserve(b) ==
    /\ booking_db[b] = Null
    /\ spot_db[SpotOf[b]] # Null
    /\ now < EndsAt[b]
    /\ WriteBooking(b, [status |-> "reserved", hold |-> TRUE, rating |-> Null],
           [type |-> "Created", spot |-> SpotOf[b], host |-> HostOf[SpotOf[b]],
            renter |-> RenterOf[b], ends_at |-> EndsAt[b]])

\* confirm_paid, on a payment that succeeded.
Confirm(b) ==
    /\ BookingIs(b, "reserved")
    /\ b \in Charged => payment_db[b] # Null /\ payment_db[b].status = "succeeded"
    /\ WriteBooking(b, [booking_db[b] EXCEPT !.status = "confirmed", !.hold = FALSE],
           [type |-> "Confirmed", at |-> now])

\* The renter, a declined payment or the sweeper.
Release(b) ==
    /\ BookingIs(b, "reserved")
    /\ WriteBooking(b, [booking_db[b] EXCEPT !.status = "released", !.hold = FALSE],
           [type |-> "Released"])

\* The renter before it is over, or react, whose scan goes by the spot event's own time.
Cancel(b) ==
    /\ BookingIs(b, "confirmed")
    /\ WriteBooking(b, [booking_db[b] EXCEPT !.status = "cancelled", !.hold = FALSE],
           [type |-> "Cancelled"])

Rate(b, rating) ==
    /\ BookingIs(b, "confirmed")
    /\ EndsAt[b] <= now
    /\ booking_db[b].rating = Null
    /\ WriteBooking(b, [booking_db[b] EXCEPT !.rating = rating],
           [type |-> "Rated", rating |-> rating])

-----------------------------------------------------------------------------
(* PAYMENTS: a charge *)

WritePayment(b, row, event) ==
    /\ Len(payments_log[b]) < MaxCharges[b]
    /\ payment_db' = [payment_db EXCEPT ![b] = row]
    /\ payments_log' = [payments_log EXCEPT ![b] = Append(@, event)]
    /\ UNCHANGED <<spotServiceVars, now, userVars, bookingVars, payoutVars>>

PaymentIs(b, statuses) == payment_db[b] # Null /\ payment_db[b].status \in statuses

\* A first session, or another one after an unpaid end; dated by the request.
OpenCharge(b) ==
    /\ b \in Charged /\ BookingIs(b, "reserved")
    /\ payment_db[b] = Null \/ PaymentIs(b, {"failed", "expired"})
    /\ WritePayment(b, [status |-> "created", created_at |-> now, refunded_at |-> Null],
           [type |-> "Created", booking |-> b, host |-> HostOf[SpotOf[b]],
            renter |-> RenterOf[b], amount |-> Amount[b], at |-> now])

\* The webhook's outcome, and the worker's expiry of an abandoned session.
SettleCharge(b, status) ==
    /\ PaymentIs(b, {"created", "failed"})
    /\ payment_db[b].status # status
    /\ WritePayment(b, [payment_db[b] EXCEPT !.status = status], [type |-> status])

\* The booking ended unconfirmed, or was cancelled.
Refund(b) ==
    /\ PaymentIs(b, {"succeeded"})
    /\ BookingIs(b, "released") \/ BookingIs(b, "cancelled")
    /\ WritePayment(b, [payment_db[b] EXCEPT !.status = "refunded", !.refunded_at = now],
           [type |-> "refunded", at |-> now])

-----------------------------------------------------------------------------
(* PAYMENTS: a withdrawal *)

WritePayout(p, row, event) ==
    /\ payout_db' = [payout_db EXCEPT ![p] = row]
    /\ payouts_log' = [payouts_log EXCEPT ![p] = Append(@, event)]
    /\ UNCHANGED <<spotServiceVars, now, userVars, bookingVars, paymentVars>>

settled_before == now - SETTLEMENT

\* earnings: paid, still confirmed, and over since before the cutoff.
Earned(u) ==
    SumFunctionOnSet(Amount,
        {b \in Charged : /\ HostOf[SpotOf[b]] = u
                         /\ PaymentIs(b, {"succeeded"}) /\ BookingIs(b, "confirmed")
                         /\ EndsAt[b] < settled_before})

PaidOut(u) ==
    SumFunction([p \in {q \in Payouts : /\ payout_db[q] # Null /\ payout_db[q].host = u
                                        /\ payout_db[q].status # "failed"} |->
                     payout_db[p].amount])

\* Never more than there is.
RequestPayout(p, u, cents) ==
    /\ payout_db[p] = Null
    /\ cents <= Earned(u) - PaidOut(u)
    /\ WritePayout(p, [host |-> u, amount |-> cents, created_at |-> now, status |-> "requested"],
           [type |-> "PayoutRequested", host |-> u, amount |-> cents, at |-> now])

FinishPayout(p, status) ==
    /\ payout_db[p] # Null /\ payout_db[p].status = "requested"
    /\ WritePayout(p, [payout_db[p] EXCEPT !.status = status], [type |-> status])

-----------------------------------------------------------------------------

(* A step of one of the writers, on the aggregates named *)

UserStep(U, B) ==
    \E u \in U :
        \/ \E name \in Names : Register(u, name) \/ Rename(u, name)
        \/ UserMarker(u) \/ SeeNotifications(u)
        \/ \E kind \in Kinds, b \in B : DismissNotification(u, kind, b)

SpotStep(S) == SpotNext(S) /\ UNCHANGED <<now, userVars, bookingVars, paymentVars, payoutVars>>

BookingStep(B) ==
    \E b \in B :
        \/ Reserve(b) \/ Confirm(b) \/ Release(b) \/ Cancel(b)
        \/ \E rating \in Ratings : Rate(b, rating)

PaymentStep(B) ==
    \E b \in B :
        \/ OpenCharge(b) \/ Refund(b)
        \/ \E status \in {"succeeded", "failed", "expired"} : SettleCharge(b, status)

PayoutStep(P) ==
    \E p \in P :
        \/ \E u \in Users : \E cents \in 1..Earned(u) : RequestPayout(p, u, cents)
        \/ \E status \in {"paid", "failed"} : FinishPayout(p, status)
=============================================================================
