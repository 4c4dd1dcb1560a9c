---------------------------- MODULE ViewService ----------------------------
(***************************************************************************)
(* view-service's projectors: five tables that mirror the logs, and the    *)
(* notifications derived on the way.  The gate of the bus hands a          *)
(* projector the next event of one aggregate and no other, and what it     *)
(* writes commits with the stored version; aggregates advance in any       *)
(* order.  Every column that only travels (names of a host, addresses,     *)
(* the titles a notification copies) is left out.                          *)
(***************************************************************************)
EXTENDS Upstream

VARIABLES
    app_user,       \* a row each, or Null
    spot,
    booking,
    payment,
    payout,
    notification    \* a set of rows, keyed by (subject, kind, user)

viewVars == <<app_user, spot, booking, payment, payout, notification>>

ViewUser == [version : Nat, name : Names, seen_at : Nat \cup {Null}]
ViewSpot == [version : Nat, host : Users, title : Titles, active : BOOLEAN,
             deleted : BOOLEAN, point : Points]
ViewBooking ==
    [version : Nat, spot : Spots, host : Users, renter : Users, ends_at : Nat,
     status : {"reserved", "confirmed", "cancelled", "released"},
     hold : BOOLEAN, rating : Ratings \cup {Null}]
ViewPayment ==
    [version : Nat, booking : Bookings, host : Users, renter : Users, amount : Nat,
     status : {"created", "succeeded", "failed", "expired", "refunded"},
     created_at : Nat, refunded_at : Nat \cup {Null}]
ViewPayout ==
    [version : Nat, host : Users, amount : Nat, created_at : Nat,
     status : {"requested", "paid", "failed"}]
ViewNotification ==
    [subject : Bookings, kind : Kinds, user : Users, visible_from : Nat, handled : BOOLEAN]

\* Null is the absent row and the absent column, and no value of either.
ASSUME NullAssumption ==
    /\ Null \notin Names \cup Nat
    /\ Null \notin {"reserved", "confirmed", "cancelled", "released", "created", "succeeded", "failed",
                   "expired", "refunded", "requested", "paid"}
    /\ Null \notin Listing \cup SpotCall \cup UpdateSpotRequest
    /\ Null \notin BookingRow \cup PaymentRow \cup PayoutRow
    /\ Null \notin ViewUser \cup ViewSpot \cup ViewBooking \cup ViewPayment \cup ViewPayout

ViewTypeOK ==
    /\ app_user \in [Users -> ViewUser \cup {Null}]
    /\ spot \in [Spots -> ViewSpot \cup {Null}]
    /\ booking \in [Bookings -> ViewBooking \cup {Null}]
    /\ payment \in [Bookings -> ViewPayment \cup {Null}]
    /\ payout \in [Payouts -> ViewPayout \cup {Null}]
    /\ notification \subseteq ViewNotification

ViewInit ==
    /\ app_user = [u \in Users |-> Null]
    /\ spot = [s \in Spots |-> Null]
    /\ booking = [b \in Bookings |-> Null]
    /\ payment = [b \in Bookings |-> Null]
    /\ payout = [p \in Payouts |-> Null]
    /\ notification = {}

-----------------------------------------------------------------------------
(* The gate *)

\* version_of_at: a row that is not there yet is at no version.
Stored(row) == IF row = Null THEN 0 ELSE row.version

\* Only the next event applies; an older one is a duplicate, a newer one waits.
Due(row, v) == v = Stored(row) + 1

\* set_version!, after every arm.
At(row, v) == [row EXCEPT !.version = v]

(* Writes.  A column a changeset does not carry, or carries as Null, stays. *)

Set(row, changes) ==
    [c \in DOMAIN row |->
        IF c \in DOMAIN changes /\ changes[c] # Null THEN changes[c] ELSE row[c]]

\* ON CONFLICT DO UPDATE: a replay keeps what the new row has no value for.
Upsert(old, row) == IF old = Null THEN row ELSE Set(old, row)

-----------------------------------------------------------------------------
(* NotificationRepository *)

Notice(b, kind, user, at) ==
    [subject |-> b, kind |-> kind, user |-> user, visible_from |-> at, handled |-> FALSE]

SameKey(m, n) == m.subject = n.subject /\ m.kind = n.kind /\ m.user = n.user

\* ON CONFLICT DO NOTHING: a replay does not reopen what was handled.
Insert(rows) ==
    notification \cup {n \in rows : \A m \in notification : ~SameKey(m, n)}

\* insert_for_confirmed, off the row: the host's shows now, the renter's at the end.
InsertForConfirmed(b, row, at) ==
    notification' =
        IF row.status # "confirmed" THEN notification
        ELSE Insert({Notice(b, "spot_booked", row.host, at),
                     Notice(b, "rate_booking", row.renter, row.ends_at)})

Close(Matches(_)) ==
    notification' = {IF Matches(n) THEN [n EXCEPT !.handled = TRUE] ELSE n : n \in notification}

\* handle: whoever it belongs to.
Handle(b, kinds) == Close(LAMBDA n : n.subject = b /\ n.kind \in kinds)

\* Mutant of Dismiss: the subject and the kind decide alone.
AnyonesDismiss(u, e) == Handle(e.subject, {e.kind})

\* dismiss: one's own row, if there is one.
Dismiss(u, e) == Close(LAMBDA n : n.subject = e.subject /\ n.kind = e.kind /\ n.user = u)

\* mark_seen: the watermark never moves back.
MarkSeen(row, at) ==
    IF row.seen_at = Null \/ row.seen_at < at THEN [row EXCEPT !.seen_at = at] ELSE row

-----------------------------------------------------------------------------
(* UserProjector *)

RegisteredUser(e, v) == [version |-> v, name |-> e.name, seen_at |-> Null]

UpsertUser(u, row) == app_user' = [app_user EXCEPT ![u] = Upsert(@, row)]

UserRegistered(u, v, e) ==
    /\ e.type = "Registered"
    /\ UpsertUser(u, RegisteredUser(e, v))
    /\ UNCHANGED notification

ViewUserPatch(e) == [name |-> e.name]

\* Mutant of PatchedUser: a whole new row.
ReplacedUser(row, patch) == [version |-> row.version, name |-> patch.name, seen_at |-> Null]

PatchedUser(row, patch) == Set(row, patch)

UserUpdated(u, v, e) ==
    /\ e.type = "Updated"
    /\ app_user' = [app_user EXCEPT ![u] = At(PatchedUser(@, ViewUserPatch(e)), v)]
    /\ UNCHANGED notification

\* Mutant of UserIgnored: an event that stores nothing leaves the version behind.
UserSkipped(u, v, e) == e.type = "Marker" /\ UNCHANGED <<app_user, notification>>

\* "Applied" is seen and decided about, not changed a column.
UserIgnored(u, v, e) ==
    /\ e.type = "Marker"
    /\ app_user' = [app_user EXCEPT ![u] = At(@, v)]
    /\ UNCHANGED notification

UserSeen(u, v, e) ==
    /\ e.type = "NotificationsSeen"
    /\ app_user' = [app_user EXCEPT ![u] = At(MarkSeen(@, e.at), v)]
    /\ UNCHANGED notification

UserDismissed(u, v, e) ==
    /\ e.type = "NotificationDismissed"
    /\ app_user' = [app_user EXCEPT ![u] = At(@, v)]
    /\ Dismiss(u, e)

ProjectUser(u) ==
    \E v \in DOMAIN users_log[u] :
        /\ Due(app_user[u], v)
        /\ LET e == users_log[u][v] IN
           \/ UserRegistered(u, v, e) \/ UserUpdated(u, v, e) \/ UserIgnored(u, v, e)
           \/ UserSeen(u, v, e) \/ UserDismissed(u, v, e)
        /\ UNCHANGED <<spot, booking, payment, payout>>

-----------------------------------------------------------------------------
(* SpotProjector *)

NoPatch == [host |-> Null, title |-> Null, active |-> Null, deleted |-> Null, point |-> Null]

CreatedPatch(e) ==
    [host |-> e.host, title |-> e.title, active |-> TRUE, deleted |-> FALSE, point |-> e.point]

UpdatedPatch(e) == [NoPatch EXCEPT !.title = e.patch.title, !.active = e.patch.active]

\* Mutant of DeletedPatch: the live switch is left as it was.
DeletedOnlyPatch == [NoPatch EXCEPT !.deleted = TRUE]

\* Also a deactivation: a list that filters `active` hides it.
DeletedPatch == [NoPatch EXCEPT !.active = FALSE, !.deleted = TRUE]

\* The column defaults of the table, which the columns an insert omits get.
DefaultSpot ==
    [version |-> 0, host |-> Null, title |-> Null, active |-> TRUE, deleted |-> FALSE,
     point |-> Null]

\* merge: Created alone may bring a row into existence.
MergeSpot(row, patch) == Set(IF row = Null THEN DefaultSpot ELSE row, patch)

\* patch: no row, no effect.
PatchSpot(row, patch) == IF row = Null THEN Null ELSE Set(row, patch)

SpotCreated(s, v, e) ==
    /\ e.type = "Created"
    /\ spot' = [spot EXCEPT ![s] = At(MergeSpot(@, CreatedPatch(e)), v)]

SpotUpdated(s, v, e) ==
    /\ e.type = "Updated"
    /\ spot' = [spot EXCEPT ![s] = At(PatchSpot(@, UpdatedPatch(e)), v)]

SpotDeleted(s, v, e) ==
    /\ e.type = "Deleted"
    /\ spot' = [spot EXCEPT ![s] = At(PatchSpot(@, DeletedPatch), v)]

ProjectSpot(s) ==
    \E v \in DOMAIN spots_log[s] :
        /\ Due(spot[s], v)
        /\ LET e == spots_log[s][v] IN
           SpotCreated(s, v, e) \/ SpotUpdated(s, v, e) \/ SpotDeleted(s, v, e)
        /\ UNCHANGED <<app_user, booking, payment, payout, notification>>

-----------------------------------------------------------------------------
(* BookingProjector *)

CreatedBooking(e, v) ==
    [version |-> v, spot |-> e.spot, host |-> e.host, renter |-> e.renter,
     ends_at |-> e.ends_at, status |-> "reserved", hold |-> TRUE, rating |-> Null]

UpsertBooking(b, row) == booking' = [booking EXCEPT ![b] = Upsert(@, row)]

BookingCreated(b, v, e) ==
    /\ e.type = "Created"
    /\ UpsertBooking(b, CreatedBooking(e, v))
    /\ UNCHANGED notification

\* confirmed, released and cancelled; why is not kept.
ViewBookingPatch(to) == [status |-> to]

\* A row that is not in the status the event leaves is left alone.  The hold is
\* cleared beside the patch, which can clear nothing.
Settle(b, v, from, to) ==
    booking' = [booking EXCEPT ![b] =
        At(IF @.status = from THEN [Set(@, ViewBookingPatch(to)) EXCEPT !.hold = FALSE] ELSE @, v)]

BookingConfirmed(b, v, e) ==
    /\ e.type = "Confirmed"
    /\ Settle(b, v, "reserved", "confirmed")
    /\ InsertForConfirmed(b, booking'[b], e.at)

BookingReleased(b, v, e) ==
    /\ e.type = "Released"
    /\ Settle(b, v, "reserved", "released")
    /\ UNCHANGED notification

\* Mutant of BookingCancelled: the renter is still asked to rate it.
BookingCancelledQuietly(b, v, e) ==
    /\ e.type = "Cancelled"
    /\ Settle(b, v, "confirmed", "cancelled")
    /\ Handle(b, {"spot_booked"})

\* It cannot be rated, and is no longer news to its host.
BookingCancelled(b, v, e) ==
    /\ e.type = "Cancelled"
    /\ Settle(b, v, "confirmed", "cancelled")
    /\ Handle(b, {"rate_booking", "spot_booked"})

Rated(row, rating) ==
    IF row.status = "confirmed" THEN [row EXCEPT !.rating = rating] ELSE row

BookingRated(b, v, e) ==
    /\ e.type = "Rated"
    /\ booking' = [booking EXCEPT ![b] = At(Rated(@, e.rating), v)]
    /\ Handle(b, {"rate_booking"})

ProjectBooking(b) ==
    \E v \in DOMAIN bookings_log[b] :
        /\ Due(booking[b], v)
        /\ LET e == bookings_log[b][v] IN
           \/ BookingCreated(b, v, e) \/ BookingConfirmed(b, v, e) \/ BookingReleased(b, v, e)
           \/ BookingCancelled(b, v, e) \/ BookingRated(b, v, e)
        /\ UNCHANGED <<app_user, spot, payment, payout>>

-----------------------------------------------------------------------------
(* PaymentProjector *)

CreatedPayment(e, v) ==
    [version |-> v, booking |-> e.booking, host |-> e.host, renter |-> e.renter,
     amount |-> e.amount, status |-> "created", created_at |-> e.at, refunded_at |-> Null]

\* A refund date that is there survives the upsert.
UpsertPayment(b, row) == payment' = [payment EXCEPT ![b] = Upsert(@, row)]

PaymentCreated(b, v, e) ==
    /\ e.type = "Created"
    /\ UpsertPayment(b, CreatedPayment(e, v))

ViewPaymentPatch(e) ==
    [status |-> e.type, refunded_at |-> IF e.type = "refunded" THEN e.at ELSE Null]

\* No guard on the status: the order of the log is the guard.
Transition(row, e) == Set(row, ViewPaymentPatch(e))

PaymentTurned(b, v, e) ==
    /\ e.type \in {"succeeded", "failed", "expired", "refunded"}
    /\ payment' = [payment EXCEPT ![b] = At(Transition(@, e), v)]

ProjectPayment(b) ==
    \E v \in DOMAIN payments_log[b] :
        /\ Due(payment[b], v)
        /\ LET e == payments_log[b][v] IN
           PaymentCreated(b, v, e) \/ PaymentTurned(b, v, e)
        /\ UNCHANGED <<app_user, spot, booking, payout, notification>>

UpsertPayout(p, row) == payout' = [payout EXCEPT ![p] = Upsert(@, row)]

PayoutRequested(p, v, e) ==
    /\ e.type = "PayoutRequested"
    /\ UpsertPayout(p, [version |-> v, host |-> e.host, amount |-> e.amount,
                        created_at |-> e.at, status |-> "requested"])

SetStatus(row, status) == [row EXCEPT !.status = status]

PayoutFinished(p, v, e) ==
    /\ e.type \in {"paid", "failed"}
    /\ payout' = [payout EXCEPT ![p] = At(SetStatus(@, e.type), v)]

ProjectPayout(p) ==
    \E v \in DOMAIN payouts_log[p] :
        /\ Due(payout[p], v)
        /\ LET e == payouts_log[p][v] IN PayoutRequested(p, v, e) \/ PayoutFinished(p, v, e)
        /\ UNCHANGED <<app_user, spot, booking, payment, notification>>

ProjectionStep ==
    \/ \E u \in Users : ProjectUser(u)
    \/ \E s \in Spots : ProjectSpot(s)
    \/ \E b \in Bookings : ProjectBooking(b) \/ ProjectPayment(b)
    \/ \E p \in Payouts : ProjectPayout(p)

CaughtUp ==
    /\ \A u \in Users : Stored(app_user[u]) = Len(users_log[u])
    /\ \A s \in Spots : Stored(spot[s]) = Len(spots_log[s])
    /\ \A b \in Bookings : Stored(booking[b]) = Len(bookings_log[b])
                           /\ Stored(payment[b]) = Len(payments_log[b])
    /\ \A p \in Payouts : Stored(payout[p]) = Len(payouts_log[p])
=============================================================================
