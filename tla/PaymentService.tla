--------------------------- MODULE PaymentService ---------------------------
(***************************************************************************)
(* payment-service, a renter's money: checkout, Stripe's webhooks, and the *)
(* settlement of a booking that ended -- request handlers, webhooks, the   *)
(* BOOKINGS projector and the replicas of BookingWorker and PaymentWorker, *)
(* all writing one database and calling Stripe.                            *)
(*                                                                         *)
(* A read outside a transaction and a call to Stripe are steps of their    *)
(* own. A transaction on an existing row is one step, because              *)
(* next_version! locks the row first; one that finds no row locks nothing, *)
(* and is two.                                                             *)
(*                                                                         *)
(* booking-service, the clock, the renter and Stripe are external: they do *)
(* what this code relies on, in any order.                                 *)
(***************************************************************************)
EXTENDS Integers, Sequences

CONSTANTS
    Booking,
    Checkout,       \* concurrent create_session requests
    Worker,         \* replicas of the workers' loops
    MAX_DELIVER,
    MaxVersion,     \* bound: transitions per payment
    MaxFaults,      \* bound: crashes, unanswered calls, late acks, declines, repeated webhooks
    Null

ASSUME PaymentConstants ==
    /\ MAX_DELIVER \in Nat \ {0}
    /\ MaxVersion \in Nat /\ MaxFaults \in Nat

VARIABLES
    booking,    \* booking[b]: the statuses b went through, by version (booking-service)
    mirror,     \* mirror[b]: the version of b this service has projected
    lapsed,     \* bookings whose hold_until has passed
    payment,    \* payment[b]: b's payment row
    events,     \* events[b]: the payment events enqueued, in commit order
    session,    \* session[b]: the Checkout Session Stripe has for b
    offered,    \* bookings whose client secret a renter holds
    captured,   \* bookings Stripe took money for
    refunds,    \* bookings Stripe gave the money back for
    hooks,      \* hooks[b]: webhooks about b that Stripe still has to deliver
    checkout,   \* checkout[c]: where request c is
    inbox,      \* worker messages published and not acked
    tries,      \* tries[m]: deliveries of m
    job,        \* job[w]: what worker w is doing
    faults

bookingVars == <<booking, mirror, lapsed>>
paymentVars == <<payment, events>>
stripeVars == <<session, offered, captured, refunds, hooks>>
workerVars == <<inbox, tries, job>>
vars == <<bookingVars, paymentVars, stripeVars, checkout, workerVars, faults>>

BookingStatus == {"reserved", "confirmed", "released", "cancelled"}
Status == {"created", "failed", "succeeded", "refunded", "expired"}
\* Mutant of UNPAID: a paid session counts as unpaid.
UnpaidOrPaid == {"created", "failed", "succeeded"}

UNPAID == {"created", "failed"}
Row == [status : Status, version : 1..MaxVersion, refunded : BOOLEAN]
PaymentEvent == [kind : Status, version : 1..MaxVersion]

\* The events a worker acts on; the others are acked as they come.
Message ==
    [kind : {"ended"}, id : Booking, version : 2..3] \cup
    [kind : {"succeeded"}, id : Booking, version : 1..MaxVersion]

Idle == [pc |-> "idle"]
Request == [pc : {"checked", "calling", "called", "inserting"}, id : Booking]
Job ==
    [pc : {"taken", "refund", "refunded", "expire", "expired", "done"}, msg : Message] \cup
    [pc : {"deciding"}, msg : Message, status : Status, refunded : BOOLEAN]

ASSUME PaymentNull == Null \notin Row

TypeOK ==
    /\ booking \in [Booking -> Seq(BookingStatus)]
    /\ mirror \in [Booking -> 0..3]
    /\ lapsed \subseteq Booking
    /\ payment \in [Booking -> Row \cup {Null}]
    /\ events \in [Booking -> Seq(PaymentEvent)]
    /\ session \in [Booking -> {"none", "open", "complete", "expired"}]
    /\ offered \subseteq Booking /\ captured \subseteq Booking /\ refunds \subseteq Booking
    /\ hooks \in [Booking -> SUBSET {"succeeded", "failed"}]
    /\ checkout \in [Checkout -> Request \cup {Idle}]
    /\ inbox \subseteq Message
    /\ tries \in [Message -> 0..MAX_DELIVER]
    /\ job \in [Worker -> Job \cup {Idle}]
    /\ faults \in 0..MaxFaults

Init ==
    /\ booking = [b \in Booking |-> << >>]
    /\ mirror = [b \in Booking |-> 0]
    /\ lapsed = {}
    /\ payment = [b \in Booking |-> Null]
    /\ events = [b \in Booking |-> << >>]
    /\ session = [b \in Booking |-> "none"]
    /\ offered = {} /\ captured = {} /\ refunds = {}
    /\ hooks = [b \in Booking |-> {}]
    /\ checkout = [c \in Checkout |-> Idle]
    /\ inbox = {}
    /\ tries = [m \in Message |-> 0]
    /\ job = [w \in Worker |-> Idle]
    /\ faults = 0

Fault == faults < MaxFaults /\ faults' = faults + 1

-----------------------------------------------------------------------------
(* booking-service and the clock, as this service sees them *)

BookingIs(b, s) == booking[b] # << >> /\ booking[b][Len(booking[b])] = s

Ended(b) == BookingIs(b, "released") \/ BookingIs(b, "cancelled")

\* Only a succeeded payment confirms a booking, and only while it is reserved.
BookingStep(b, s) ==
    \/ booking[b] = << >> /\ s = "reserved"
    \/ /\ BookingIs(b, "reserved") /\ s = "confirmed"
       /\ \E i \in DOMAIN events[b] : events[b][i].kind = "succeeded"
    \/ BookingIs(b, "reserved") /\ s = "released"
    \/ BookingIs(b, "confirmed") /\ s = "cancelled"

BookingMoves(b) ==
    \E s \in BookingStatus :
        /\ BookingStep(b, s)
        /\ booking' = [booking EXCEPT ![b] = Append(@, s)]
        /\ inbox' = inbox \cup
                    {[kind |-> "ended", id |-> b, version |-> Len(booking[b]) + 1] :
                        ended \in {s} \cap {"released", "cancelled"}}
        /\ UNCHANGED <<mirror, lapsed, paymentVars, stripeVars, checkout, tries, job, faults>>

HoldLapses(b) ==
    /\ BookingIs(b, "reserved")
    /\ lapsed' = lapsed \cup {b}
    /\ UNCHANGED <<booking, mirror, paymentVars, stripeVars, checkout, workerVars, faults>>

\* BookingProjector: the gate hands it the next event, whose guard then matches.
ProjectBooking(b) ==
    /\ mirror[b] < Len(booking[b])
    /\ mirror' = [mirror EXCEPT ![b] = @ + 1]
    /\ UNCHANGED <<booking, lapsed, paymentVars, stripeVars, checkout, workerVars, faults>>

MirrorStatus(b) == IF mirror[b] = 0 THEN "none" ELSE booking[b][mirror[b]]

-----------------------------------------------------------------------------
(* The payment row *)

NextVersion(b) == IF payment[b] = Null THEN 1 ELSE payment[b].version + 1

\* The row and its event commit together.
Write(b, row) ==
    /\ row.version <= MaxVersion
    /\ payment' = [payment EXCEPT ![b] = row]
    /\ events' = [events EXCEPT ![b] =
                     Append(@, [kind |-> row.status, version |-> row.version])]

\* The whole-row upsert, whatever status the row has: Option columns that are None are
\* left as they are, so a refund id survives it.
Upsert(b, version) ==
    Write(b, [status |-> "created", version |-> version,
              refunded |-> payment[b] # Null /\ payment[b].refunded])

\* Mutant of Transition: a refused transition still commits its version.
TransitionVersioned(b, from, to) ==
    IF payment[b] # Null /\ payment[b].status \in from
    THEN Write(b, [status |-> to, version |-> NextVersion(b),
                   refunded |-> payment[b].refunded \/ to = "refunded"])
    ELSE /\ payment' = IF payment[b] = Null THEN payment
                       ELSE [payment EXCEPT ![b].version = NextVersion(b)]
         /\ UNCHANGED events

Applies(b, from) == payment[b] # Null /\ payment[b].status \in from

\* Guarded on the status; a refused transition writes and publishes nothing.
Transition(b, from, to) ==
    IF Applies(b, from)
    THEN Write(b, [status |-> to, version |-> NextVersion(b),
                   refunded |-> payment[b].refunded \/ to = "refunded"])
    ELSE UNCHANGED paymentVars

-----------------------------------------------------------------------------
(* Checkout *)

At(c, pc) == checkout[c] # Idle /\ checkout[c].pc = pc

Goto(c, pc) == checkout' = [checkout EXCEPT ![c].pc = pc]

Answer(c) ==
    /\ offered' = offered \cup {checkout[c].id}
    /\ checkout' = [checkout EXCEPT ![c] = Idle]

\* create_session: the mirror says reserved, and the hold has not lapsed.
BeginCheckout(c, b) ==
    /\ checkout[c] = Idle
    /\ MirrorStatus(b) = "reserved" /\ b \notin lapsed
    /\ checkout' = [checkout EXCEPT ![c] = [pc |-> "checked", id |-> b]]
    /\ UNCHANGED <<bookingVars, paymentVars, stripeVars, workerVars, faults>>

\* A payment already known is resumed while Stripe still has a secret for its session.
FindPayment(c) ==
    /\ At(c, "checked")
    /\ LET b == checkout[c].id IN
       \/ /\ payment[b] # Null /\ session[b] # "expired"
          /\ Answer(c)
       \/ /\ payment[b] = Null \/ session[b] = "expired"
          /\ Goto(c, "calling")
          /\ UNCHANGED offered
    /\ UNCHANGED <<bookingVars, paymentVars, session, captured, refunds, hooks, workerVars, faults>>

\* Keyed on the booking: Stripe answers every call with the first session.
CreateSession(c) ==
    /\ At(c, "calling")
    /\ session' = [session EXCEPT ![checkout[c].id] = IF @ = "none" THEN "open" ELSE @]
    /\ Goto(c, "called")
    /\ UNCHANGED <<bookingVars, paymentVars, offered, captured, refunds, hooks, workerVars, faults>>

\* next_version! finds the row and locks it, and the transaction is one step; it finds
\* none, and nothing is locked.
LockPayment(c) ==
    /\ At(c, "called")
    /\ LET b == checkout[c].id IN
       \/ /\ payment[b] # Null
          /\ Upsert(b, NextVersion(b))
          /\ Answer(c)
       \/ /\ payment[b] = Null
          /\ Goto(c, "inserting")
          /\ UNCHANGED <<paymentVars, offered>>
    /\ UNCHANGED <<bookingVars, session, captured, refunds, hooks, workerVars, faults>>

\* Mutant of InsertPayment: a fresh row starts at the version it does not have.
InsertPaymentAtZero(c) ==
    /\ At(c, "inserting")
    /\ Upsert(checkout[c].id, 0)
    /\ Answer(c)
    /\ UNCHANGED <<bookingVars, session, captured, refunds, hooks, workerVars, faults>>

\* The version was read when there was no row.
InsertPayment(c) ==
    /\ At(c, "inserting")
    /\ Upsert(checkout[c].id, 1)
    /\ Answer(c)
    /\ UNCHANGED <<bookingVars, session, captured, refunds, hooks, workerVars, faults>>

\* A crash, or an error from Stripe with or without its effect.
CheckoutFails(c) ==
    /\ Fault
    /\ checkout[c] # Idle
    /\ checkout' = [checkout EXCEPT ![c] = Idle]
    /\ UNCHANGED <<bookingVars, paymentVars, stripeVars, workerVars>>

-----------------------------------------------------------------------------
(* The renter, Stripe and its webhooks *)

Pay(b) ==
    /\ b \in offered /\ session[b] = "open"
    /\ session' = [session EXCEPT ![b] = "complete"]
    /\ captured' = captured \cup {b}
    /\ hooks' = [hooks EXCEPT ![b] = @ \cup {"succeeded"}]
    /\ UNCHANGED <<bookingVars, paymentVars, offered, refunds, checkout, workerVars, faults>>

\* Not terminal: the session stays open.
Decline(b) ==
    /\ Fault
    /\ b \in offered /\ session[b] = "open"
    /\ hooks' = [hooks EXCEPT ![b] = @ \cup {"failed"}]
    /\ UNCHANGED <<bookingVars, paymentVars, session, offered, captured, refunds, checkout,
                   workerVars>>

\* record_webhook: one transaction, a no-op unless the row is still unpaid.
Webhook(b, outcome) ==
    /\ outcome \in hooks[b]
    /\ hooks' = [hooks EXCEPT ![b] = @ \ {outcome}]
    /\ Transition(b, UNPAID, outcome)
    /\ inbox' = IF Applies(b, UNPAID) /\ outcome = "succeeded"
                THEN inbox \cup {[kind |-> "succeeded", id |-> b, version |-> NextVersion(b)]}
                ELSE inbox
    /\ UNCHANGED <<bookingVars, session, offered, captured, refunds, checkout, tries, job, faults>>

\* Stripe sends again a webhook it has already delivered.
Resend(b, outcome) ==
    /\ Fault
    /\ \E i \in DOMAIN events[b] : events[b][i].kind = outcome
    /\ hooks' = [hooks EXCEPT ![b] = @ \cup {outcome}]
    /\ UNCHANGED <<bookingVars, paymentVars, session, offered, captured, refunds, checkout,
                   workerVars>>

-----------------------------------------------------------------------------
(* BookingWorker and PaymentWorker *)

Working(w, pc) == job[w] # Idle /\ job[w].pc = pc

Step(w, pc) == job' = [job EXCEPT ![w] = [pc |-> pc, msg |-> job[w].msg]]

\* An Err: the message is not acked and comes back, MAX_DELIVER deliveries in all.
Nak(w) == job' = [job EXCEPT ![w] = Idle]

Deliver(w, m) ==
    /\ job[w] = Idle
    /\ m \in inbox /\ tries[m] < MAX_DELIVER
    /\ tries' = [tries EXCEPT ![m] = @ + 1]
    /\ job' = [job EXCEPT ![w] = [pc |-> "taken", msg |-> m]]
    /\ UNCHANGED <<bookingVars, paymentVars, stripeVars, checkout, inbox>>

\* The retry budget (MAX_DELIVER tries, NAK_DELAY apart) outlasts the projection's lag:
\* the last tries find the mirror caught up.
Take(w, m) ==
    /\ \A v \in Worker : job[v] # Idle => job[v].msg # m
    /\ MAX_DELIVER - tries[m] <= MaxFaults + 1 /\ m.kind = "ended" => mirror[m.id] >= m.version
    /\ Deliver(w, m)
    /\ UNCHANGED faults

\* ACK_WAIT passes while another replica is still at work.
TakeAgain(w, m) ==
    /\ Fault
    /\ \E v \in Worker : job[v] # Idle /\ job[v].msg = m
    /\ Deliver(w, m)

\* Mutant of ReadPayment: BookingWorker does not wait for its mirror.
ReadPaymentAtOnce(w) ==
    /\ Working(w, "taken")
    /\ LET m == job[w].msg IN
       IF payment[m.id] = Null
       THEN Step(w, "done")
       ELSE job' = [job EXCEPT ![w] =
                        [pc |-> "deciding", msg |-> m, status |-> payment[m.id].status,
                         refunded |-> payment[m.id].refunded]]
    /\ UNCHANGED <<bookingVars, paymentVars, stripeVars, checkout, inbox, tries, faults>>

\* BookingWorker waits for the mirror to include the event, then settle_up reads the
\* payment. A payment never heard of is nothing to settle.
ReadPayment(w) ==
    /\ Working(w, "taken")
    /\ LET m == job[w].msg IN
       \/ /\ m.kind = "ended" /\ mirror[m.id] < m.version
          /\ Nak(w)
       \/ /\ m.kind = "ended" => mirror[m.id] >= m.version
          /\ IF payment[m.id] = Null
             THEN Step(w, "done")
             ELSE job' = [job EXCEPT ![w] =
                              [pc |-> "deciding", msg |-> m, status |-> payment[m.id].status,
                               refunded |-> payment[m.id].refunded]]
    /\ UNCHANGED <<bookingVars, paymentVars, stripeVars, checkout, inbox, tries, faults>>

\* Mutant of Decision: only a confirmed booking is still in play.
DecisionUnlessConfirmed(bookingStatus, paymentStatus, refunded) ==
    IF refunded \/ bookingStatus = "confirmed" THEN "done"
    ELSE IF paymentStatus = "succeeded" THEN "refund"
    ELSE IF paymentStatus \in UNPAID THEN "expire"
    ELSE "done"

\* decide: what becomes of the money, from the two statuses.
Decision(bookingStatus, paymentStatus, refunded) ==
    IF refunded \/ bookingStatus \notin {"released", "cancelled"} THEN "done"
    ELSE IF paymentStatus = "succeeded" THEN "refund"
    ELSE IF paymentStatus \in UNPAID THEN "expire"
    ELSE "done"

\* The mirror is read after the payment; a booking not projected yet is an Err.
Decide(w) ==
    /\ Working(w, "deciding")
    /\ LET b == job[w].msg.id IN
       IF mirror[b] = 0
       THEN Nak(w)
       ELSE Step(w, Decision(MirrorStatus(b), job[w].status, job[w].refunded))
    /\ UNCHANGED <<bookingVars, paymentVars, stripeVars, checkout, inbox, tries, faults>>

\* Keyed on the payment: Stripe answers every call with the first refund.
Refund(w) ==
    /\ Working(w, "refund")
    /\ refunds' = refunds \cup {job[w].msg.id}
    /\ Step(w, "refunded")
    /\ UNCHANGED <<bookingVars, paymentVars, session, offered, captured, hooks, checkout, inbox,
                   tries, faults>>

\* Mutant of ExpireSession: Stripe's refusal is taken for success.
ExpireSessionRegardless(w) ==
    /\ Working(w, "expire")
    /\ session' = [session EXCEPT ![job[w].msg.id] = IF @ = "open" THEN "expired" ELSE @]
    /\ Step(w, "expired")
    /\ UNCHANGED <<bookingVars, paymentVars, offered, captured, refunds, hooks, checkout, inbox,
                   tries, faults>>

\* Stripe refuses to expire a session that is not open.
ExpireSession(w) ==
    /\ Working(w, "expire")
    /\ LET b == job[w].msg.id IN
       \/ /\ session[b] = "open"
          /\ session' = [session EXCEPT ![b] = "expired"]
          /\ Step(w, "expired")
       \/ /\ session[b] # "open"
          /\ Nak(w)
          /\ UNCHANGED session
    /\ UNCHANGED <<bookingVars, paymentVars, offered, captured, refunds, hooks, checkout, inbox,
                   tries, faults>>

\* The transaction that records what Stripe did.
CommitSettlement(w) ==
    /\ \/ Working(w, "refunded") /\ Transition(job[w].msg.id, {"succeeded"}, "refunded")
       \/ Working(w, "expired") /\ Transition(job[w].msg.id, UNPAID, "expired")
    /\ Step(w, "done")
    /\ UNCHANGED <<bookingVars, stripeVars, checkout, inbox, tries, faults>>

Ack(w) ==
    /\ Working(w, "done")
    /\ inbox' = inbox \ {job[w].msg}
    /\ job' = [job EXCEPT ![w] = Idle]
    /\ UNCHANGED <<bookingVars, paymentVars, stripeVars, checkout, tries, faults>>

\* A crash before the ack, or a call to Stripe or the database that fails.
WorkerFails(w) ==
    /\ Fault
    /\ job[w] # Idle
    /\ Nak(w)
    /\ UNCHANGED <<bookingVars, paymentVars, stripeVars, checkout, inbox, tries>>

-----------------------------------------------------------------------------

CheckoutStep(c) ==
    FindPayment(c) \/ CreateSession(c) \/ LockPayment(c) \/ InsertPayment(c)

WorkerStep(w) ==
    \/ \E m \in inbox : Take(w, m)
    \/ ReadPayment(w) \/ Decide(w) \/ Refund(w) \/ ExpireSession(w) \/ CommitSettlement(w)
    \/ Ack(w)

Next ==
    \/ \E b \in Booking : BookingMoves(b) \/ HoldLapses(b) \/ ProjectBooking(b)
    \/ \E b \in Booking : Pay(b) \/ Decline(b)
    \/ \E b \in Booking, outcome \in {"succeeded", "failed"} :
          Webhook(b, outcome) \/ Resend(b, outcome)
    \/ \E c \in Checkout : CheckoutStep(c) \/ CheckoutFails(c) \/ \E b \in Booking : BeginCheckout(c, b)
    \/ \E w \in Worker :
          WorkerStep(w) \/ WorkerFails(w) \/ \E m \in inbox : TakeAgain(w, m)

Spec == Init /\ [][Next]_vars

\* The loops run, and Stripe retries a webhook until it is answered.
Fairness ==
    /\ \A b \in Booking : WF_vars(ProjectBooking(b))
    /\ \A b \in Booking, outcome \in {"succeeded", "failed"} : WF_vars(Webhook(b, outcome))
    /\ \A w \in Worker : WF_vars(WorkerStep(w))

FairSpec == Spec /\ Fairness

-----------------------------------------------------------------------------
(* Properties *)

\* Money states only ever move forwards: nothing puts a payment that succeeded back among
\* the unpaid, or takes a refund back (PaymentRepository::transition, create_session).
SettledMoneyStays ==
    [][\A b \in Booking : payment[b] # Null =>
          /\ payment[b].status = "succeeded" => payment'[b].status \in {"succeeded", "refunded"}
          /\ payment[b].status = "refunded" => payment'[b].status = "refunded"]_vars

\* A row agrees with what Stripe did: `refunded` only when the money went back, and
\* `expired` never hides money that was taken (settle_up's two outcomes).
RowAgreesWithStripe ==
    \A b \in Booking : payment[b] # Null =>
        /\ payment[b].status = "refunded" => b \in refunds
        /\ payment[b].status = "expired" => b \notin captured

\* The money of a booking that has not ended is never given back (decide).
RefundOnlyEnded == \A b \in refunds : b \in captured /\ Ended(b)

\* Every version of a payment is carried by exactly one event, in order.
VersionsGapless ==
    \A b \in Booking :
        /\ \A i \in DOMAIN events[b] : events[b][i].version = i
        /\ Len(events[b]) = IF payment[b] = Null THEN 0 ELSE payment[b].version

\* A renter whose booking ended after Stripe took the money gets it back, whichever of
\* the two came first (BookingWorker, PaymentWorker, settle_up).
EventuallyRefunded ==
    \A b \in Booking : b \in captured /\ Ended(b) ~> b \in refunds
=============================================================================
