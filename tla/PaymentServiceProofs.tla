------------------------ MODULE PaymentServiceProofs ------------------------
(***************************************************************************)
(* What holds of PaymentService for every number of bookings, checkouts    *)
(* and worker replicas, and however often anything is delivered, repeated  *)
(* or fails.                                                               *)
(***************************************************************************)
EXTENDS PaymentService, SequenceTheorems, TLAPS

\* booking-service's events spell a life: what follows what.
LifeShape ==
    \A b \in Booking :
        LET life == booking[b] IN
        /\ Len(life) <= 3
        /\ Len(life) >= 1 => life[1] = "reserved"
        /\ Len(life) = 2 => life[2] \in {"confirmed", "released"}
        /\ Len(life) = 3 => life[2] = "confirmed" /\ life[3] = "cancelled"

\* Nothing is projected before it was committed.
MirrorBehind == \A b \in Booking : mirror[b] <= Len(booking[b])

\* A session takes money once, and is complete for good.
CapturedComplete == \A b \in captured : session[b] = "complete"

\* A row says `expired` only once its session is, and a session expires for good.
ExpiredSession ==
    \A b \in Booking : payment[b] # Null /\ payment[b].status = "expired" => session[b] = "expired"

\* Nobody learns of a success that was not one: rows, events and webhooks.
SuccessCaptured ==
    \A b \in Booking :
        /\ payment[b] # Null /\ payment[b].status = "succeeded" => b \in captured
        /\ \A i \in DOMAIN events[b] : events[b][i].kind = "succeeded" => b \in captured
        /\ "succeeded" \in hooks[b] => b \in captured

\* What a worker has read or done is still a reason for what it does next.
Justified(j, b) ==
    /\ j.pc = "deciding" /\ j.status = "succeeded" => b \in captured
    /\ j.pc \in {"refund", "refunded"} => b \in captured /\ Ended(b)
    /\ j.pc = "refunded" => b \in refunds
    /\ j.pc = "expired" => session[b] = "expired"

JobsJustified == \A w \in Worker : job[w] # Idle => Justified(job[w], job[w].msg.id)

IInv ==
    /\ TypeOK
    /\ LifeShape
    /\ MirrorBehind
    /\ CapturedComplete
    /\ ExpiredSession
    /\ SuccessCaptured
    /\ JobsJustified
    /\ RefundOnlyEnded
    /\ RowAgreesWithStripe

\* At most one checkout request runs at a time.
OneCheckout == \A c, d \in Checkout : c = d

\* What a lone checkout found when it looked is still so when it writes.
CheckoutCurrent ==
    \A c \in Checkout : checkout[c] # Idle =>
        LET b == checkout[c].id IN
        /\ checkout[c].pc \in {"calling", "called"} => payment[b] = Null \/ session[b] = "expired"
        /\ checkout[c].pc = "inserting" => payment[b] = Null

-----------------------------------------------------------------------------
(* Steps of one kind *)

\* The record sets of Job, told apart by pc.
LEMMA JobCases ==
    ASSUME NEW j \in Job
    PROVE  /\ j.msg \in Message
           /\ j.pc = "deciding" => j.status \in Status /\ j.refunded \in BOOLEAN
           /\ j.pc \in {"taken", "refund", "refunded", "expire", "expired", "done", "deciding"}
           /\ \A pc \in {"taken", "refund", "refunded", "expire", "expired", "done"} :
                 [pc |-> pc, msg |-> j.msg] \in Job
BY DEF Job

\* Both kinds of message are about a booking.
LEMMA MessageId ==
    ASSUME NEW m \in Message
    PROVE  m.id \in Booking
BY DEF Message

\* A payment row in hand is a row.
LEMMA RowOf ==
    ASSUME TypeOK, NEW b \in Booking, payment[b] # Null
    PROVE  /\ payment[b] \in Row
           /\ payment[b].status \in Status
           /\ payment[b].version \in Nat \ {0}
           /\ payment[b].refunded \in BOOLEAN
           /\ NextVersion(b) = payment[b].version + 1
BY DEF TypeOK, Row, NextVersion

\* What Write does, and that it keeps the types.
LEMMA WriteEffect ==
    ASSUME TypeOK, NEW b \in Booking, NEW status \in Status, NEW version \in Nat \ {0},
           NEW refunded \in BOOLEAN,
           Write(b, [status |-> status, version |-> version, refunded |-> refunded])
    PROVE  /\ payment'[b] # Null /\ payment'[b].status = status /\ payment'[b].version = version
           /\ \A a \in Booking \ {b} : payment'[a] = payment[a] /\ events'[a] = events[a]
           /\ events'[b] = Append(events[b], [kind |-> status, version |-> version])
           /\ payment' \in [Booking -> Row \cup {Null}]
           /\ events' \in [Booking -> Seq(PaymentEvent)]
           /\ version \in 1..MaxVersion
<1> DEFINE row == [status |-> status, version |-> version, refunded |-> refunded]
           event == [kind |-> status, version |-> version]
<1>1. version \in 1..MaxVersion
    BY PaymentConstants DEF Write
<1>2. row \in Row /\ event \in PaymentEvent
    BY <1>1 DEF Row, PaymentEvent
<1>3. payment' = [payment EXCEPT ![b] = row] /\ events' = [events EXCEPT ![b] = Append(events[b], event)]
    BY DEF Write
<1>4. row.status = status /\ row.version = version /\ row # Null
    BY <1>2, PaymentNull
<1>5. events[b] \in Seq(PaymentEvent)
    BY DEF TypeOK
<1>6. Append(events[b], event) \in Seq(PaymentEvent)
    BY <1>2, <1>5
<1> HIDE DEF row, event
<1>7. payment'[b] = row /\ events'[b] = Append(events[b], event)
    BY <1>3 DEF TypeOK
<1>8. \A a \in Booking \ {b} : payment'[a] = payment[a] /\ events'[a] = events[a]
    BY <1>3 DEF TypeOK
<1>9. payment' \in [Booking -> Row \cup {Null}] /\ events' \in [Booking -> Seq(PaymentEvent)]
    BY <1>2, <1>3, <1>6 DEF TypeOK
<1> QED BY <1>1, <1>4, <1>7, <1>8, <1>9 DEF event

\* The upsert of a checkout.
LEMMA UpsertEffect ==
    ASSUME TypeOK, NEW b \in Booking, NEW version \in Nat \ {0}, Upsert(b, version)
    PROVE  /\ payment'[b] # Null /\ payment'[b].status = "created" /\ payment'[b].version = version
           /\ \A a \in Booking \ {b} : payment'[a] = payment[a] /\ events'[a] = events[a]
           /\ events'[b] = Append(events[b], [kind |-> "created", version |-> version])
           /\ payment' \in [Booking -> Row \cup {Null}]
           /\ events' \in [Booking -> Seq(PaymentEvent)]
<1> DEFINE refunded == payment[b] # Null /\ payment[b].refunded
<1>1. refunded \in BOOLEAN
    BY RowOf
<1>2. "created" \in Status
    BY DEF Status
<1>3. Write(b, [status |-> "created", version |-> version, refunded |-> refunded])
    BY DEF Upsert
<1> HIDE DEF refunded
<1> QED BY <1>1, <1>2, <1>3, WriteEffect

\* A guarded transition of the row applies or does nothing.
LEMMA TransitionEffect ==
    ASSUME TypeOK, NEW b \in Booking, NEW from, NEW to \in Status, Transition(b, from, to)
    PROVE  \/ /\ Applies(b, from)
              /\ payment'[b] # Null /\ payment'[b].status = to
              /\ payment'[b].version = payment[b].version + 1
              /\ \A a \in Booking \ {b} : payment'[a] = payment[a] /\ events'[a] = events[a]
              /\ events'[b] = Append(events[b], [kind |-> to, version |-> payment[b].version + 1])
              /\ payment' \in [Booking -> Row \cup {Null}]
              /\ events' \in [Booking -> Seq(PaymentEvent)]
              /\ NextVersion(b) \in 1..MaxVersion
           \/ ~Applies(b, from) /\ UNCHANGED paymentVars
<1>1. CASE Applies(b, from)
  <2> DEFINE refunded == payment[b].refunded \/ to = "refunded"
             version == NextVersion(b)
  <2>1. version = payment[b].version + 1 /\ version \in Nat \ {0} /\ refunded \in BOOLEAN
    BY <1>1, RowOf DEF Applies
  <2>2. Write(b, [status |-> to, version |-> version, refunded |-> refunded])
    BY <1>1 DEF Transition
  <2> HIDE DEF refunded, version
  <2>3. /\ payment'[b] # Null /\ payment'[b].status = to /\ payment'[b].version = version
        /\ \A a \in Booking \ {b} : payment'[a] = payment[a] /\ events'[a] = events[a]
        /\ events'[b] = Append(events[b], [kind |-> to, version |-> version])
        /\ payment' \in [Booking -> Row \cup {Null}]
        /\ events' \in [Booking -> Seq(PaymentEvent)]
        /\ version \in 1..MaxVersion
    BY <2>1, <2>2, WriteEffect
  <2> QED BY <1>1, <2>1, <2>3 DEF version
<1>2. CASE ~Applies(b, from)
    BY <1>2 DEF Transition
<1> QED BY <1>1, <1>2

-----------------------------------------------------------------------------
(* booking-service's side *)

\* How far a booking and its mirror have come are numbers.
LEMMA Lengths ==
    ASSUME TypeOK, NEW b \in Booking
    PROVE  booking[b] \in Seq(BookingStatus) /\ Len(booking[b]) \in Nat /\ mirror[b] \in Nat
<1>1. booking[b] \in Seq(BookingStatus) /\ mirror[b] \in 0..3
    BY DEF TypeOK
<1> QED BY <1>1

\* What one event adds to a booking's life.
LEMMA LifeGrows ==
    ASSUME TypeOK, LifeShape, NEW b \in Booking, NEW s \in BookingStatus, BookingStep(b, s)
    PROVE  LET next == Append(booking[b], s) IN
           /\ next \in Seq(BookingStatus)
           /\ Len(next) = Len(booking[b]) + 1 /\ Len(next) <= 3
           /\ \A i \in 1..Len(booking[b]) : next[i] = booking[b][i]
           /\ Len(next) = 1 => next[1] = "reserved"
           /\ Len(next) = 2 => next[2] \in {"confirmed", "released"}
           /\ Len(next) = 3 => next[2] = "confirmed" /\ next[3] = "cancelled"
           /\ s \in {"released", "cancelled"} => Len(next) \in 2..3
           /\ ~Ended(b)
<1> DEFINE life == booking[b]
           next == Append(life, s)
<1>1. life \in Seq(BookingStatus) /\ Len(life) \in Nat
    BY DEF TypeOK
<1>2. /\ next \in Seq(BookingStatus) /\ Len(next) = Len(life) + 1
      /\ \A i \in 1..Len(life) : next[i] = life[i]
      /\ next[Len(life) + 1] = s
    BY <1>1, AppendProperties
<1>3. /\ Len(life) <= 3
      /\ Len(life) >= 1 => life[1] = "reserved"
      /\ Len(life) = 2 => life[2] \in {"confirmed", "released"}
      /\ Len(life) = 3 => life[2] = "confirmed" /\ life[3] = "cancelled"
    BY DEF LifeShape
<1>4. \/ life = << >> /\ s = "reserved"
      \/ life # << >> /\ life[Len(life)] = "reserved" /\ s \in {"confirmed", "released"}
      \/ life # << >> /\ life[Len(life)] = "confirmed" /\ s = "cancelled"
    BY DEF BookingStep, BookingIs
<1>5. life = << >> <=> Len(life) = 0
    BY <1>1, EmptySeq
<1>6. \/ Len(life) = 0 /\ s = "reserved"
      \/ Len(life) = 1 /\ s \in {"confirmed", "released"}
      \/ Len(life) = 2 /\ life[2] = "confirmed" /\ s = "cancelled"
  <2> DEFINE n == Len(life)
  <2>0. n \in Nat /\ n <= 3
    BY <1>1, <1>3
  <2> HIDE DEF life
  <2>1. CASE Len(life) = 0
    BY ONLY <1>4, <1>5, <2>1
  <2>2. CASE Len(life) = 1
    BY ONLY <1>3, <1>4, <1>5, <2>2
  <2>3. CASE Len(life) = 2
    BY ONLY <1>3, <1>4, <1>5, <2>3
  <2>4. CASE Len(life) = 3
    BY ONLY <1>3, <1>4, <1>5, <2>4
  <2>5. Len(life) = 0 \/ Len(life) = 1 \/ Len(life) = 2 \/ Len(life) = 3
    <3> HIDE DEF n
    <3>1. n = 0 \/ n = 1 \/ n = 2 \/ n = 3
      BY ONLY <2>0
    <3> QED BY <3>1 DEF n
  <2> QED BY ONLY <2>1, <2>2, <2>3, <2>4, <2>5
<1>7. ~Ended(b)
    BY <1>4 DEF Ended, BookingIs
<1> HIDE DEF life, next
<1>8. /\ Len(next) <= 3
      /\ Len(next) = 1 => next[1] = "reserved"
      /\ Len(next) = 2 => next[2] \in {"confirmed", "released"}
      /\ Len(next) = 3 => next[2] = "confirmed" /\ next[3] = "cancelled"
      /\ s \in {"released", "cancelled"} => Len(next) \in 2..3
  <2>1. CASE Len(life) = 0 /\ s = "reserved"
    BY <1>2, <2>1
  <2>2. CASE Len(life) = 1 /\ s \in {"confirmed", "released"}
    BY <1>2, <2>2
  <2>3. CASE Len(life) = 2 /\ life[2] = "confirmed" /\ s = "cancelled"
    BY <1>2, <2>3
  <2> QED BY <1>6, <2>1, <2>2, <2>3
<1> QED BY <1>2, <1>7, <1>8 DEF next, life

\* A booking that ended stays ended: its last status is final.
LEMMA EndedFinal ==
    ASSUME TypeOK, LifeShape, [Next]_vars, NEW b \in Booking, Ended(b)
    PROVE  booking'[b] = booking[b] /\ Ended(b)'
<1>1. ASSUME NEW a \in Booking, BookingMoves(a)
      PROVE  booking'[b] = booking[b]
    BY <1>1, LifeGrows DEF BookingMoves, TypeOK
<1>2. ASSUME UNCHANGED booking
      PROVE  booking'[b] = booking[b]
    BY <1>2
<1>3. booking'[b] = booking[b]
    BY <1>1, <1>2
    DEF Next, vars, bookingVars, CheckoutStep, WorkerStep, HoldLapses, ProjectBooking, Pay, Decline, Webhook,
        Resend, BeginCheckout, FindPayment, CreateSession, LockPayment, InsertPayment, CheckoutFails,
        Take, TakeAgain, Deliver, ReadPayment, Decide, Refund, ExpireSession, CommitSettlement, Ack,
        WorkerFails
<1> QED BY <1>3 DEF Ended, BookingIs

\* The booking's life and its mirror keep their shape.
LEMMA LifeStep ==
    ASSUME TypeOK, LifeShape, MirrorBehind, [Next]_vars
    PROVE  LifeShape' /\ MirrorBehind'
<1>1. ASSUME NEW b \in Booking, BookingMoves(b)
      PROVE  LifeShape' /\ MirrorBehind'
  <2>1. PICK s \in BookingStatus : BookingStep(b, s) /\ booking' = [booking EXCEPT ![b] = Append(booking[b], s)]
    BY <1>1 DEF BookingMoves
  <2>2. mirror' = mirror
    BY <1>1 DEF BookingMoves
  <2>3. booking'[b] = Append(booking[b], s) /\ \A a \in Booking \ {b} : booking'[a] = booking[a]
    BY <2>1 DEF TypeOK
  <2>4. Len(booking[b]) \in Nat /\ mirror[b] \in Nat
    BY Lengths
  <2>5. /\ Len(booking'[b]) = Len(booking[b]) + 1 /\ Len(booking'[b]) <= 3
        /\ \A i \in 1..Len(booking[b]) : booking'[b][i] = booking[b][i]
        /\ Len(booking'[b]) = 1 => booking'[b][1] = "reserved"
        /\ Len(booking'[b]) = 2 => booking'[b][2] \in {"confirmed", "released"}
        /\ Len(booking'[b]) = 3 => booking'[b][2] = "confirmed" /\ booking'[b][3] = "cancelled"
    BY <2>1, <2>3, LifeGrows
  <2>6. Len(booking'[b]) >= 1 => booking'[b][1] = "reserved"
    <3>1. CASE Len(booking[b]) = 0
      BY <2>4, <2>5, <3>1
    <3>2. CASE Len(booking[b]) >= 1
      BY <2>4, <2>5, <3>2 DEF LifeShape
    <3> QED BY <2>4, <3>1, <3>2
  <2>7. LifeShape'
    BY <2>3, <2>5, <2>6 DEF LifeShape
  <2>8. MirrorBehind'
    BY <2>2, <2>3, <2>4, <2>5 DEF MirrorBehind
  <2> QED BY <2>7, <2>8
<1>2. ASSUME NEW b \in Booking, ProjectBooking(b)
      PROVE  LifeShape' /\ MirrorBehind'
  <2>1. mirror[b] \in Nat /\ Len(booking[b]) \in Nat
    BY Lengths
  <2> QED BY <1>2, <2>1 DEF ProjectBooking, LifeShape, MirrorBehind, TypeOK
<1>3. CASE UNCHANGED <<booking, mirror>>
    BY <1>3 DEF LifeShape, MirrorBehind
<1> QED
    BY <1>1, <1>2, <1>3
    DEF Next, vars, bookingVars, CheckoutStep, WorkerStep, HoldLapses, Pay, Decline, Webhook, Resend,
        BeginCheckout, FindPayment, CreateSession, LockPayment, InsertPayment, CheckoutFails, Take,
        TakeAgain, Deliver, ReadPayment, Decide, Refund, ExpireSession, CommitSettlement, Ack, WorkerFails

-----------------------------------------------------------------------------
(* Types *)

\* A worker's next step, about the message it holds.
LEMMA StepType ==
    ASSUME TypeOK, NEW w \in Worker, job[w] # Idle,
           NEW pc \in {"taken", "refund", "refunded", "expire", "expired", "done"}, Step(w, pc)
    PROVE  job' \in [Worker -> Job \cup {Idle}]
<1>1. job[w] \in Job
    BY DEF TypeOK
<1>2. [pc |-> pc, msg |-> job[w].msg] \in Job
    BY <1>1, JobCases
<1>3. job' = [job EXCEPT ![w] = [pc |-> pc, msg |-> job[w].msg]]
    BY DEF Step
<1> QED BY <1>2, <1>3 DEF TypeOK

\* The service starts with an empty database, and Stripe knows nothing of it.
LEMMA InitIInv == Init => IInv
<1> SUFFICES ASSUME Init
             PROVE  IInv
    OBVIOUS
<1> USE DEF Init
<1>1. TypeOK
  <2>1. /\ << >> \in Seq(BookingStatus) /\ << >> \in Seq(PaymentEvent)
        /\ 0 \in 0..3 /\ 0 \in 0..MAX_DELIVER /\ 0 \in 0..MaxFaults
    BY PaymentConstants
  <2> QED BY <2>1 DEF TypeOK
<1>2. LifeShape /\ MirrorBehind
  <2>1. \A b \in Booking : booking[b] = << >> /\ Len(booking[b]) = 0 /\ mirror[b] = 0
    OBVIOUS
  <2> QED BY <2>1 DEF LifeShape, MirrorBehind
<1>3. CapturedComplete /\ ExpiredSession /\ SuccessCaptured /\ JobsJustified /\ RefundOnlyEnded /\ RowAgreesWithStripe
  <2>1. DOMAIN << >> = {}
    OBVIOUS
  <2>2. \A b \in Booking : DOMAIN events[b] = {}
    BY <2>1, Zenon
  <2> QED BY <2>2
      DEF CapturedComplete, ExpiredSession, SuccessCaptured, JobsJustified, RefundOnlyEnded, RowAgreesWithStripe
<1> QED BY <1>1, <1>2, <1>3 DEF IInv

\* The external steps keep the types.
LEMMA TypeOKWorldStep ==
    ASSUME TypeOK, LifeShape, MirrorBehind, NEW b \in Booking, NEW outcome \in {"succeeded", "failed"},
           BookingMoves(b) \/ HoldLapses(b) \/ ProjectBooking(b) \/ Pay(b) \/ Decline(b)
             \/ Webhook(b, outcome) \/ Resend(b, outcome)
    PROVE  TypeOK'
<1> USE DEF TypeOK
<1>1. CASE BookingMoves(b)
  <2>1. PICK s \in BookingStatus :
           /\ BookingStep(b, s)
           /\ booking' = [booking EXCEPT ![b] = Append(booking[b], s)]
           /\ inbox' = inbox \cup {[kind |-> "ended", id |-> b, version |-> Len(booking[b]) + 1] :
                                       ended \in {s} \cap {"released", "cancelled"}}
    BY <1>1 DEF BookingMoves
  <2>2. /\ Append(booking[b], s) \in Seq(BookingStatus)
        /\ s \in {"released", "cancelled"} => Len(booking[b]) + 1 \in 2..3
    BY <2>1, LifeGrows
  <2>3. booking' \in [Booking -> Seq(BookingStatus)]
    BY <2>1, <2>2
  <2>4. ASSUME s \in {"released", "cancelled"}
        PROVE  [kind |-> "ended", id |-> b, version |-> Len(booking[b]) + 1] \in Message
    BY <2>2, <2>4 DEF Message
  <2>5. inbox' \subseteq Message
    BY <2>1, <2>4
  <2> QED BY <1>1, <2>3, <2>5 DEF BookingMoves, paymentVars, stripeVars
<1>2. CASE HoldLapses(b)
    BY <1>2 DEF HoldLapses, paymentVars, stripeVars, workerVars
<1>3. CASE ProjectBooking(b)
  <2>1. mirror[b] \in Nat /\ Len(booking[b]) \in Nat /\ Len(booking[b]) <= 3 /\ mirror[b] < Len(booking[b])
    BY <1>3, Lengths DEF ProjectBooking, LifeShape
  <2>2. mirror[b] + 1 \in 0..3
    BY <2>1
  <2>3. mirror' \in [Booking -> 0..3]
    BY <1>3, <2>2 DEF ProjectBooking
  <2> QED BY <1>3, <2>3 DEF ProjectBooking, paymentVars, stripeVars, workerVars
<1>4. CASE Pay(b)
    BY <1>4 DEF Pay, bookingVars, paymentVars, workerVars
<1>5. CASE Decline(b)
    BY <1>5, PaymentConstants DEF Decline, Fault, bookingVars, paymentVars, workerVars
<1>6. CASE Webhook(b, outcome)
  <2>1. outcome \in Status
    BY DEF Status
  <2>2. payment' \in [Booking -> Row \cup {Null}] /\ events' \in [Booking -> Seq(PaymentEvent)]
    BY <1>6, <2>1, TransitionEffect DEF Webhook, paymentVars
  <2>3. Applies(b, UNPAID) => NextVersion(b) \in 1..MaxVersion
    BY <1>6, <2>1, TransitionEffect DEF Webhook
  <2>4. Applies(b, UNPAID) => [kind |-> "succeeded", id |-> b, version |-> NextVersion(b)] \in Message
    BY <2>3 DEF Message
  <2>5. inbox' \subseteq Message
    BY <1>6, <2>4 DEF Webhook
  <2>6. hooks' \in [Booking -> SUBSET {"succeeded", "failed"}]
    BY <1>6 DEF Webhook
  <2> QED BY <1>6, <2>2, <2>5, <2>6 DEF Webhook, bookingVars
<1>7. CASE Resend(b, outcome)
    BY <1>7, PaymentConstants DEF Resend, Fault, bookingVars, paymentVars, workerVars
<1> QED BY <1>1, <1>2, <1>3, <1>4, <1>5, <1>6, <1>7

\* A checkout's steps keep the types.
LEMMA TypeOKCheckoutStep ==
    ASSUME TypeOK, NEW c \in Checkout,
           CheckoutStep(c) \/ CheckoutFails(c) \/ \E b \in Booking : BeginCheckout(c, b)
    PROVE  TypeOK'
<1> USE DEF TypeOK
<1>1. ASSUME NEW b \in Booking, BeginCheckout(c, b)
      PROVE  TypeOK'
    BY <1>1 DEF BeginCheckout, Request, bookingVars, paymentVars, stripeVars, workerVars
<1>2. CASE CheckoutFails(c)
    BY <1>2, PaymentConstants DEF CheckoutFails, Fault, bookingVars, paymentVars, stripeVars, workerVars
<1>3. CASE CheckoutStep(c)
  <2>1. checkout[c] \in Request /\ checkout[c].id \in Booking
    BY <1>3
    DEF CheckoutStep, FindPayment, CreateSession, LockPayment, InsertPayment, At, Request
  <2>2. ASSUME NEW pc \in {"checked", "calling", "called", "inserting"}, Goto(c, pc)
        PROVE  checkout' \in [Checkout -> Request \cup {Idle}]
    <3>1. [checkout[c] EXCEPT !.pc = pc] \in Request
      BY <2>1 DEF Request
    <3> QED BY <2>2, <3>1 DEF Goto
  <2>3. ASSUME Answer(c)
        PROVE  checkout' \in [Checkout -> Request \cup {Idle}] /\ offered' \subseteq Booking
    BY <2>1, <2>3 DEF Answer
  <2>4. CASE FindPayment(c)
    BY <2>2, <2>3, <2>4 DEF FindPayment, bookingVars, paymentVars, workerVars
  <2>5. CASE CreateSession(c)
    BY <2>1, <2>2, <2>5 DEF CreateSession, bookingVars, paymentVars, workerVars
  <2>6. CASE LockPayment(c)
    <3>1. CASE payment[checkout[c].id] # Null /\ Upsert(checkout[c].id, NextVersion(checkout[c].id)) /\ Answer(c)
      <4>1. NextVersion(checkout[c].id) \in Nat \ {0}
        <5> DEFINE b == checkout[c].id
        <5>1. NextVersion(b) = payment[b].version + 1 /\ payment[b].version \in Nat
          BY <2>1, <3>1, RowOf
        <5> HIDE DEF b
        <5>2. NextVersion(b) \in Nat \ {0}
          BY ONLY <5>1
        <5> QED BY <5>2 DEF b
      <4>2. payment' \in [Booking -> Row \cup {Null}] /\ events' \in [Booking -> Seq(PaymentEvent)]
        BY <2>1, <3>1, <4>1, UpsertEffect
      <4> QED BY <2>3, <2>6, <3>1, <4>2 DEF LockPayment, bookingVars, workerVars
    <3>2. CASE Goto(c, "inserting") /\ UNCHANGED <<paymentVars, offered>>
      BY <2>2, <2>6, <3>2 DEF LockPayment, bookingVars, paymentVars, workerVars
    <3> QED BY <2>6, <3>1, <3>2 DEF LockPayment
  <2>7. CASE InsertPayment(c)
    <3>1. payment' \in [Booking -> Row \cup {Null}] /\ events' \in [Booking -> Seq(PaymentEvent)]
      <4>1. 1 \in Nat \ {0}
        OBVIOUS
      <4> QED BY <2>1, <2>7, <4>1, UpsertEffect DEF InsertPayment
    <3> QED BY <2>3, <2>7, <3>1 DEF InsertPayment, bookingVars, workerVars
  <2> QED BY <1>3, <2>4, <2>5, <2>6, <2>7 DEF CheckoutStep
<1> QED BY <1>1, <1>2, <1>3

\* A worker's steps keep the types.
LEMMA TypeOKWorkerStep ==
    ASSUME TypeOK, NEW w \in Worker,
           WorkerStep(w) \/ WorkerFails(w) \/ \E m \in inbox : TakeAgain(w, m)
    PROVE  TypeOK'
<1> USE DEF TypeOK
<1>1. ASSUME NEW m \in inbox, Take(w, m) \/ TakeAgain(w, m)
      PROVE  TypeOK'
  <2>1. Deliver(w, m) /\ faults' \in 0..MaxFaults
    BY <1>1, PaymentConstants DEF Take, TakeAgain, Fault
  <2>2. [pc |-> "taken", msg |-> m] \in Job
    BY DEF Job
  <2>3. tries' \in [Message -> 0..MAX_DELIVER]
    BY <2>1, PaymentConstants DEF Deliver
  <2>4. job' \in [Worker -> Job \cup {Idle}]
    BY <2>1, <2>2 DEF Deliver
  <2> QED BY <2>1, <2>3, <2>4 DEF Deliver, bookingVars, paymentVars, stripeVars
<1>2. ASSUME Nak(w)
      PROVE  job' \in [Worker -> Job \cup {Idle}]
    BY <1>2 DEF Nak
<1>3. CASE ReadPayment(w)
  <2>1. job[w] # Idle /\ job[w] \in Job
    BY <1>3 DEF ReadPayment, Working
  <2>2. job[w].msg \in Message /\ job[w].msg.id \in Booking
    BY <2>1, JobCases, MessageId
  <2>3. ASSUME payment[job[w].msg.id] # Null
        PROVE  [pc |-> "deciding", msg |-> job[w].msg, status |-> payment[job[w].msg.id].status,
                refunded |-> payment[job[w].msg.id].refunded] \in Job
    BY <2>2, <2>3, RowOf DEF Job
  <2>4. job' \in [Worker -> Job \cup {Idle}]
    BY <1>2, <1>3, <2>1, <2>3, StepType DEF ReadPayment
  <2> QED BY <1>3, <2>4 DEF ReadPayment, bookingVars, paymentVars, stripeVars
<1>4. CASE Decide(w)
  <2>1. job[w] # Idle /\ job[w] \in Job
    BY <1>4 DEF Decide, Working
  <2>2. Decision(MirrorStatus(job[w].msg.id), job[w].status, job[w].refunded)
          \in {"taken", "refund", "refunded", "expire", "expired", "done"}
    BY DEF Decision
  <2>3. job' \in [Worker -> Job \cup {Idle}]
    BY <1>2, <1>4, <2>1, <2>2, StepType DEF Decide
  <2> QED BY <1>4, <2>3 DEF Decide, bookingVars, paymentVars, stripeVars
<1>5. CASE Refund(w)
  <2>1. job[w] # Idle /\ job[w] \in Job
    BY <1>5 DEF Refund, Working
  <2>2. job[w].msg.id \in Booking
    BY <2>1, JobCases, MessageId
  <2>3. job' \in [Worker -> Job \cup {Idle}]
    BY <1>5, <2>1, StepType DEF Refund
  <2> QED BY <1>5, <2>2, <2>3 DEF Refund, bookingVars, paymentVars
<1>6. CASE ExpireSession(w)
  <2>1. job[w] # Idle
    BY <1>6 DEF ExpireSession, Working
  <2>2. job' \in [Worker -> Job \cup {Idle}]
    BY <1>2, <1>6, <2>1, StepType DEF ExpireSession
  <2> QED BY <1>6, <2>2 DEF ExpireSession, bookingVars, paymentVars
<1>7. CASE CommitSettlement(w)
  <2>1. job[w] # Idle /\ job[w] \in Job
    BY <1>7 DEF CommitSettlement, Working
  <2>2. job[w].msg.id \in Booking
    BY <2>1, JobCases, MessageId
  <2>3. job' \in [Worker -> Job \cup {Idle}]
    BY <1>7, <2>1, StepType DEF CommitSettlement
  <2>4. {"refunded", "expired"} \subseteq Status
    BY DEF Status
  <2>5. payment' \in [Booking -> Row \cup {Null}] /\ events' \in [Booking -> Seq(PaymentEvent)]
    BY <1>7, <2>2, <2>4, TransitionEffect DEF CommitSettlement, paymentVars
  <2> QED BY <1>7, <2>3, <2>5 DEF CommitSettlement, bookingVars, stripeVars
<1>8. CASE Ack(w)
    BY <1>8 DEF Ack, bookingVars, paymentVars, stripeVars
<1>9. CASE WorkerFails(w)
    BY <1>2, <1>9, PaymentConstants DEF WorkerFails, Fault, bookingVars, paymentVars, stripeVars
<1> QED BY <1>1, <1>3, <1>4, <1>5, <1>6, <1>7, <1>8, <1>9 DEF WorkerStep

\* Every step keeps the types.
LEMMA TypeOKStep ==
    ASSUME TypeOK, LifeShape, MirrorBehind, [Next]_vars
    PROVE  TypeOK'
<1>1. CASE UNCHANGED vars
    BY <1>1
    DEF TypeOK, vars, bookingVars, paymentVars, stripeVars, workerVars
<1>2. CASE Next
    BY <1>2, TypeOKWorldStep, TypeOKCheckoutStep, TypeOKWorkerStep DEF Next
<1> QED BY <1>1, <1>2

-----------------------------------------------------------------------------
(* What a step may do to one payment *)

\* b's row is written with this status, and its event says so.
Recorded(b, status) ==
    /\ payment'[b] # Null /\ payment'[b].status = status
    /\ events'[b] = Append(events[b], [kind |-> status, version |-> payment'[b].version])
    /\ UNCHANGED <<session, captured, refunds>>

\* A checkout writes b's row, over the one it locked or over none that it saw.
CreatedBy(c, b) ==
    /\ checkout[c] # Idle /\ checkout[c].id = b /\ checkout'[c] = Idle
    /\ Recorded(b, "created")
    /\ \/ checkout[c].pc = "called" /\ payment[b] # Null /\ payment'[b].version = payment[b].version + 1
       \/ checkout[c].pc = "inserting" /\ payment'[b].version = 1

\* A guarded transition of b's row.
Moved(b, from, to) ==
    /\ payment[b] # Null /\ payment[b].status \in from
    /\ Recorded(b, to)
    /\ payment'[b].version = payment[b].version + 1

Settled(w, b) ==
    /\ job[w] # Idle /\ job[w].msg.id = b
    /\ \/ job[w].pc = "refunded" /\ Moved(b, {"succeeded"}, "refunded")
       \/ job[w].pc = "expired" /\ Moved(b, UNPAID, "expired")

\* Whatever happens, a payment is left alone or moves in one of these ways.
LEMMA PaymentMoves ==
    ASSUME TypeOK, [Next]_vars, NEW b \in Booking
    PROVE  \/ payment'[b] = payment[b] /\ events'[b] = events[b]
           \/ \E c \in Checkout : CreatedBy(c, b)
           \/ \E outcome \in {"succeeded", "failed"} : outcome \in hooks[b] /\ Moved(b, UNPAID, outcome)
           \/ \E w \in Worker : Settled(w, b)
<1>1. ASSUME NEW c \in Checkout, LockPayment(c)
      PROVE  (payment'[b] = payment[b] /\ events'[b] = events[b]) \/ CreatedBy(c, b)
  <2> DEFINE a == checkout[c].id
  <2>1. checkout[c] # Idle /\ checkout[c].pc = "called" /\ a \in Booking
    BY <1>1 DEF LockPayment, At, TypeOK, Request
  <2>2. CASE payment[a] # Null /\ Upsert(a, NextVersion(a)) /\ Answer(c)
    <3>1. payment[a].version \in Nat /\ NextVersion(a) = payment[a].version + 1
      BY <2>1, <2>2, RowOf
    <3>0. checkout'[c] = Idle
      BY <2>2 DEF Answer, TypeOK
    <3> HIDE DEF a
    <3>2. NextVersion(a) \in Nat \ {0}
      BY ONLY <3>1
    <3>3. /\ payment'[a] # Null /\ payment'[a].status = "created" /\ payment'[a].version = NextVersion(a)
          /\ \A d \in Booking \ {a} : payment'[d] = payment[d] /\ events'[d] = events[d]
          /\ events'[a] = Append(events[a], [kind |-> "created", version |-> NextVersion(a)])
      BY <2>1, <2>2, <3>2, UpsertEffect
    <3>4. UNCHANGED <<session, captured, refunds>>
      BY <1>1 DEF LockPayment
    <3>5. CASE b = a
      BY <2>1, <2>2, <3>0, <3>1, <3>3, <3>4, <3>5 DEF CreatedBy, Recorded, a
    <3>6. CASE b # a
      BY <3>3, <3>6
    <3> QED BY <3>5, <3>6
  <2>3. CASE UNCHANGED paymentVars
    BY <2>3 DEF paymentVars
  <2> QED BY <1>1, <2>2, <2>3 DEF LockPayment, paymentVars
<1>2. ASSUME NEW c \in Checkout, InsertPayment(c)
      PROVE  (payment'[b] = payment[b] /\ events'[b] = events[b]) \/ CreatedBy(c, b)
  <2> DEFINE a == checkout[c].id
  <2>1. checkout[c] # Idle /\ checkout[c].pc = "inserting" /\ a \in Booking
    BY <1>2 DEF InsertPayment, At, TypeOK, Request
  <2>2. Upsert(a, 1) /\ 1 \in Nat \ {0} /\ checkout'[c] = Idle
    BY <1>2 DEF InsertPayment, Answer, TypeOK
  <2> HIDE DEF a
  <2>3. /\ payment'[a] # Null /\ payment'[a].status = "created" /\ payment'[a].version = 1
        /\ \A d \in Booking \ {a} : payment'[d] = payment[d] /\ events'[d] = events[d]
        /\ events'[a] = Append(events[a], [kind |-> "created", version |-> 1])
    BY <2>1, <2>2, UpsertEffect
  <2>4. UNCHANGED <<session, captured, refunds>>
    BY <1>2 DEF InsertPayment
  <2>5. CASE b = a
    BY <2>1, <2>2, <2>3, <2>4, <2>5 DEF CreatedBy, Recorded, a
  <2>6. CASE b # a
    BY <2>3, <2>6
  <2> QED BY <2>5, <2>6
<1>3. ASSUME NEW a \in Booking, NEW from, NEW to \in Status, Transition(a, from, to),
             UNCHANGED <<session, captured, refunds>>
      PROVE  (payment'[b] = payment[b] /\ events'[b] = events[b]) \/ (a = b /\ Moved(b, from, to))
  <2>1. CASE ~Applies(a, from)
    BY <1>3, <2>1, TransitionEffect DEF paymentVars
  <2>2. CASE Applies(a, from)
    <3>1. /\ payment'[a] # Null /\ payment'[a].status = to
          /\ payment'[a].version = payment[a].version + 1
          /\ \A d \in Booking \ {a} : payment'[d] = payment[d] /\ events'[d] = events[d]
          /\ events'[a] = Append(events[a], [kind |-> to, version |-> payment[a].version + 1])
      BY <1>3, <2>2, TransitionEffect
    <3>2. payment[a] # Null /\ payment[a].status \in from
      BY <2>2 DEF Applies
    <3>3. CASE b = a
      BY <1>3, <3>1, <3>2, <3>3 DEF Moved, Recorded
    <3>4. CASE b # a
      BY <3>1, <3>4
    <3> QED BY <3>3, <3>4
  <2> QED BY <2>1, <2>2
<1>4. ASSUME NEW a \in Booking, NEW outcome \in {"succeeded", "failed"}, Webhook(a, outcome)
      PROVE  \/ payment'[b] = payment[b] /\ events'[b] = events[b]
             \/ outcome \in hooks[b] /\ Moved(b, UNPAID, outcome)
  <2>1. outcome \in Status
    BY DEF Status
  <2>2. outcome \in hooks[a] /\ Transition(a, UNPAID, outcome) /\ UNCHANGED <<session, captured, refunds>>
    BY <1>4 DEF Webhook
  <2> QED BY <1>3, <2>1, <2>2
<1>5. ASSUME NEW w \in Worker, CommitSettlement(w)
      PROVE  (payment'[b] = payment[b] /\ events'[b] = events[b]) \/ Settled(w, b)
  <2>1. job[w] # Idle /\ job[w].msg.id \in Booking
    BY <1>5, JobCases, MessageId DEF CommitSettlement, Working, TypeOK
  <2>2. UNCHANGED <<session, captured, refunds>> /\ {"refunded", "expired"} \subseteq Status
    BY <1>5 DEF CommitSettlement, stripeVars, Status
  <2>3. CASE job[w].pc = "refunded" /\ Transition(job[w].msg.id, {"succeeded"}, "refunded")
    BY <1>3, <2>1, <2>2, <2>3 DEF Settled
  <2>4. CASE job[w].pc = "expired" /\ Transition(job[w].msg.id, UNPAID, "expired")
    BY <1>3, <2>1, <2>2, <2>4 DEF Settled
  <2> QED BY <1>5, <2>3, <2>4 DEF CommitSettlement, Working
<1>6. ASSUME UNCHANGED paymentVars
      PROVE  payment'[b] = payment[b] /\ events'[b] = events[b]
    BY <1>6 DEF paymentVars
<1> QED
    BY <1>1, <1>2, <1>4, <1>5, <1>6
    DEF Next, vars, CheckoutStep, WorkerStep, BookingMoves, HoldLapses, ProjectBooking, Pay, Decline,
        Resend, BeginCheckout, FindPayment, CreateSession, CheckoutFails, Take, TakeAgain, Deliver,
        ReadPayment, Decide, Refund, ExpireSession, Ack, WorkerFails

\* Money taken is never untaken, and a session that is complete or expired stays so.
LEMMA StripeFinal ==
    ASSUME TypeOK, [Next]_vars
    PROVE  /\ captured \subseteq captured' /\ refunds \subseteq refunds'
           /\ \A b \in Booking : session[b] \in {"complete", "expired"} => session'[b] = session[b]
<1>1. ASSUME NEW a \in Booking, Pay(a)
      PROVE  \A b \in Booking : session[b] \in {"complete", "expired"} => session'[b] = session[b]
    BY <1>1 DEF Pay, TypeOK
<1>2. ASSUME NEW c \in Checkout, CreateSession(c)
      PROVE  \A b \in Booking : session[b] \in {"complete", "expired"} => session'[b] = session[b]
    BY <1>2 DEF CreateSession, TypeOK
<1>3. ASSUME NEW w \in Worker, ExpireSession(w)
      PROVE  \A b \in Booking : session[b] \in {"complete", "expired"} => session'[b] = session[b]
    BY <1>3 DEF ExpireSession, TypeOK
<1>4. \A b \in Booking : session[b] \in {"complete", "expired"} => session'[b] = session[b]
    BY <1>1, <1>2, <1>3
    DEF Next, vars, stripeVars, CheckoutStep, WorkerStep, BookingMoves, HoldLapses, ProjectBooking,
        Decline, Webhook, Resend, BeginCheckout, FindPayment, LockPayment, InsertPayment, CheckoutFails,
        Take, TakeAgain, Deliver, ReadPayment, Decide, Refund, CommitSettlement, Ack, WorkerFails
<1>5. captured \subseteq captured' /\ refunds \subseteq refunds'
    BY DEF Next, vars, stripeVars, CheckoutStep, WorkerStep, BookingMoves, HoldLapses, ProjectBooking, Pay,
        Decline, Webhook, Resend, BeginCheckout, FindPayment, CreateSession, LockPayment, InsertPayment,
        CheckoutFails, Take, TakeAgain, Deliver, ReadPayment, Decide, Refund, ExpireSession,
        CommitSettlement, Ack, WorkerFails
<1> QED BY <1>4, <1>5

-----------------------------------------------------------------------------
(* The inductive invariant *)

\* An event recorded is the last one; the others are as they were.
LEMMA EventAdded ==
    ASSUME NEW s \in Seq(PaymentEvent), NEW e, NEW i \in DOMAIN Append(s, e)
    PROVE  \/ i \in DOMAIN s /\ Append(s, e)[i] = s[i]
           \/ i = Len(s) + 1 /\ Append(s, e)[i] = e
OBVIOUS

\* A session that takes the money is complete.
LEMMA CapturedCompleteStep ==
    ASSUME TypeOK, CapturedComplete, [Next]_vars
    PROVE  CapturedComplete'
<1>1. ASSUME NEW b \in Booking, Pay(b)
      PROVE  CapturedComplete'
    BY <1>1 DEF Pay, TypeOK, CapturedComplete
<1>2. ASSUME captured' = captured
      PROVE  CapturedComplete'
    BY <1>2, StripeFinal DEF CapturedComplete, TypeOK
<1> QED
    BY <1>1, <1>2
    DEF Next, vars, stripeVars, CheckoutStep, WorkerStep, BookingMoves, HoldLapses, ProjectBooking,
        Decline, Webhook, Resend, BeginCheckout, FindPayment, CreateSession, LockPayment, InsertPayment,
        CheckoutFails, Take, TakeAgain, Deliver, ReadPayment, Decide, Refund, ExpireSession,
        CommitSettlement, Ack, WorkerFails

\* A success is recorded from a webhook, and a webhook comes from Stripe or from the record.
LEMMA SuccessCapturedStep ==
    ASSUME TypeOK, SuccessCaptured, [Next]_vars
    PROVE  SuccessCaptured'
<1>1. SUFFICES ASSUME NEW b \in Booking, b \notin captured'
               PROVE  /\ ~(payment'[b] # Null /\ payment'[b].status = "succeeded")
                      /\ \A i \in DOMAIN events'[b] : events'[b][i].kind # "succeeded"
                      /\ "succeeded" \notin hooks'[b]
    BY DEF SuccessCaptured
<1>2. b \notin captured
    BY <1>1, StripeFinal
<1>3. /\ ~(payment[b] # Null /\ payment[b].status = "succeeded")
      /\ \A i \in DOMAIN events[b] : events[b][i].kind # "succeeded"
      /\ "succeeded" \notin hooks[b]
    BY <1>2 DEF SuccessCaptured
<1>4. ASSUME NEW status \in Status \ {"succeeded"}, Recorded(b, status)
      PROVE  /\ ~(payment'[b] # Null /\ payment'[b].status = "succeeded")
             /\ \A i \in DOMAIN events'[b] : events'[b][i].kind # "succeeded"
  <2> DEFINE e == [kind |-> status, version |-> payment'[b].version]
  <2>1. payment'[b].status # "succeeded"
    BY <1>4 DEF Recorded
  <2>2. e.kind # "succeeded" /\ events'[b] = Append(events[b], e)
    BY <1>4 DEF Recorded
  <2>3. events[b] \in Seq(PaymentEvent)
    BY DEF TypeOK
  <2> HIDE DEF e
  <2>4. \A i \in DOMAIN events'[b] : events'[b][i].kind # "succeeded"
    BY <1>3, <2>2, <2>3, EventAdded
  <2> QED BY <2>1, <2>4
<1>5. "succeeded" \notin hooks'[b]
  <2>1. ASSUME NEW a \in Booking, Pay(a)
        PROVE  "succeeded" \notin hooks'[b]
    BY <1>1, <1>3, <2>1 DEF Pay, TypeOK
  <2>2. ASSUME NEW a \in Booking, Decline(a)
        PROVE  "succeeded" \notin hooks'[b]
    BY <1>3, <2>2 DEF Decline, TypeOK
  <2>3. ASSUME NEW a \in Booking, NEW outcome \in {"succeeded", "failed"},
               Webhook(a, outcome) \/ Resend(a, outcome)
        PROVE  "succeeded" \notin hooks'[b]
    <3>1. CASE Webhook(a, outcome)
      BY <1>3, <3>1 DEF Webhook, TypeOK
    <3>2. CASE Resend(a, outcome)
      <4>1. PICK i \in DOMAIN events[a] : events[a][i].kind = outcome
        BY <3>2 DEF Resend
      <4>2. a = b => outcome # "succeeded"
        BY <1>3, <4>1
      <4>3. hooks' = [hooks EXCEPT ![a] = @ \cup {outcome}]
        BY <3>2 DEF Resend
      <4> QED BY <1>3, <4>2, <4>3 DEF TypeOK
    <3> QED BY <2>3, <3>1, <3>2
  <2> QED
    BY <1>3, <2>1, <2>2, <2>3
    DEF Next, vars, stripeVars, CheckoutStep, WorkerStep, BookingMoves, HoldLapses, ProjectBooking,
        BeginCheckout, FindPayment, CreateSession, LockPayment, InsertPayment, CheckoutFails, Take,
        TakeAgain, Deliver, ReadPayment, Decide, Refund, ExpireSession, CommitSettlement, Ack, WorkerFails
<1>6. {"created", "failed", "refunded", "expired"} \subseteq Status \ {"succeeded"}
    BY DEF Status
<1> QED BY <1>3, <1>4, <1>5, <1>6, PaymentMoves DEF CreatedBy, Moved, Settled

\* A mirror that shows a booking ended shows its last status.
LEMMA MirrorEnded ==
    ASSUME TypeOK, LifeShape, MirrorBehind, NEW b \in Booking,
           MirrorStatus(b) \in {"released", "cancelled"}
    PROVE  Ended(b)
<1> DEFINE life == booking[b]
           n == Len(booking[b])
           i == mirror[b]
<1>1. n \in Nat /\ i \in Nat /\ i <= n /\ life \in Seq(BookingStatus)
    BY Lengths DEF MirrorBehind
<1>2. i # 0 /\ life[i] \in {"released", "cancelled"}
    BY DEF MirrorStatus
<1>3. /\ n <= 3
      /\ n >= 1 => life[1] = "reserved"
      /\ n = 2 => life[2] \in {"confirmed", "released"}
      /\ n = 3 => life[2] = "confirmed" /\ life[3] = "cancelled"
    BY DEF LifeShape
<1>4. n # 0 /\ life # << >>
    BY <1>1, <1>2
<1>5. life[n] \in {"released", "cancelled"}
  <2> HIDE DEF life, n, i
  <2>1. i = 1 \/ i = 2 \/ i = 3
    BY <1>1, <1>2, <1>3
  <2>2. CASE i = 1
    BY <1>1, <1>2, <1>3, <2>2
  <2>3. CASE i = 2
    BY <1>1, <1>2, <1>3, <2>3
  <2>4. CASE i = 3
    BY <1>1, <1>2, <1>3, <2>4
  <2> QED BY <2>1, <2>2, <2>3, <2>4
<1> QED BY <1>4, <1>5 DEF Ended, BookingIs

\* What justified a job goes on justifying it.
LEMMA JustifiedKept ==
    ASSUME IInv, [Next]_vars, NEW j, NEW b \in Booking, Justified(j, b)
    PROVE  Justified(j, b)'
<1>1. Ended(b) => Ended(b)'
    BY EndedFinal DEF IInv
<1>2. /\ b \in captured => b \in captured'
      /\ b \in refunds => b \in refunds'
      /\ session[b] = "expired" => session'[b] = "expired"
    BY StripeFinal DEF IInv
<1> QED BY <1>1, <1>2 DEF Justified

\* The job a worker holds, and the booking it is about.
LEMMA JobHeld ==
    ASSUME IInv, NEW w \in Worker, job[w] # Idle
    PROVE  job[w] \in Job /\ job[w].msg.id \in Booking /\ Justified(job[w], job[w].msg.id)
BY JobCases, MessageId DEF IInv, TypeOK, JobsJustified

\* Every step of a worker follows from what it read, and what it read still holds.
LEMMA JobsJustifiedStep ==
    ASSUME IInv, [Next]_vars
    PROVE  JobsJustified'
<1>1. SUFFICES ASSUME NEW v \in Worker, NEW j, j = job'[v], j # Idle, NEW b, b = j.msg.id
               PROVE  Justified(j, b)'
    BY DEF JobsJustified
<1>2. ASSUME job'[v] = job[v]
      PROVE  Justified(j, b)'
    BY <1>1, <1>2, JobHeld, JustifiedKept
<1>3. ASSUME j.pc \in {"taken", "expire", "done"}
      PROVE  Justified(j, b)'
    BY <1>3 DEF Justified
<1>4. ASSUME NEW w \in Worker, NEW h, h = job[w], h # Idle, NEW pc, Step(w, pc)
      PROVE  job'[v] = job[v] \/ (j.pc = pc /\ b = h.msg.id)
    BY <1>1, <1>4 DEF Step, IInv, TypeOK
<1>5. ASSUME NEW w \in Worker, Nak(w)
      PROVE  job'[v] = job[v]
    BY <1>1, <1>5 DEF Nak, IInv, TypeOK
<1>6. ASSUME NEW w \in Worker, ReadPayment(w)
      PROVE  Justified(j, b)'
  <2>1. PICK h : h = job[w]
    OBVIOUS
  <2>2. PICK a : a = h.msg.id
    OBVIOUS
  <2>3. h # Idle /\ a \in Booking
    BY <1>6, <2>1, <2>2, JobHeld DEF ReadPayment, Working
  <2>4. \/ job'[v] = job[v]
        \/ j.pc = "done"
        \/ payment[a] # Null /\ j.pc = "deciding" /\ j.status = payment[a].status /\ b = a
    BY <1>1, <1>4, <1>5, <1>6, <2>1, <2>2, <2>3 DEF ReadPayment, IInv, TypeOK
  <2>5. payment[a] # Null /\ payment[a].status = "succeeded" => a \in captured'
    BY <1>6, <2>3 DEF IInv, SuccessCaptured, ReadPayment, stripeVars
  <2>6. CASE payment[a] # Null /\ j.pc = "deciding" /\ j.status = payment[a].status /\ b = a
    BY <2>5, <2>6 DEF Justified
  <2> QED BY <1>2, <1>3, <2>4, <2>6
<1>7. ASSUME NEW w \in Worker, Decide(w)
      PROVE  Justified(j, b)'
  <2>1. PICK h : h = job[w]
    OBVIOUS
  <2>2. PICK a : a = h.msg.id
    OBVIOUS
  <2>3. h # Idle /\ h.pc = "deciding" /\ a \in Booking /\ Justified(h, a)
    BY <1>7, <2>1, <2>2, JobHeld DEF Decide, Working
  <2>4. PICK d : d = Decision(MirrorStatus(a), h.status, h.refunded)
    OBVIOUS
  <2>5. d \in {"refund", "expire", "done"}
    BY <2>4 DEF Decision
  <2>6. ASSUME d = "refund"
        PROVE  a \in captured /\ Ended(a)
    <3>1. MirrorStatus(a) \in {"released", "cancelled"} /\ h.status = "succeeded"
      BY <2>4, <2>6 DEF Decision
    <3> QED BY <2>3, <3>1, MirrorEnded DEF IInv, Justified
  <2>7. job'[v] = job[v] \/ (j.pc = d /\ b = a)
    BY <1>1, <1>4, <1>5, <1>7, <2>1, <2>2, <2>3, <2>4 DEF Decide
  <2>8. ASSUME d = "refund"
        PROVE  a \in captured' /\ Ended(a)'
    BY <2>3, <2>6, <2>8, StripeFinal, EndedFinal DEF IInv
  <2>9. CASE j.pc = d /\ b = a
    BY <2>5, <2>8, <2>9 DEF Justified
  <2> QED BY <1>2, <2>7, <2>9
<1>8. ASSUME NEW w \in Worker, Refund(w)
      PROVE  Justified(j, b)'
  <2>1. PICK h : h = job[w]
    OBVIOUS
  <2>2. PICK a : a = h.msg.id
    OBVIOUS
  <2>3. h # Idle /\ h.pc = "refund" /\ a \in Booking /\ Justified(h, a)
    BY <1>8, <2>1, <2>2, JobHeld DEF Refund, Working
  <2>4. job'[v] = job[v] \/ (j.pc = "refunded" /\ b = a)
    BY <1>1, <1>4, <1>8, <2>1, <2>2, <2>3 DEF Refund
  <2>5. a \in captured /\ Ended(a)
    BY <2>3 DEF Justified
  <2>6. a \in captured' /\ Ended(a)'
    BY <2>3, <2>5, StripeFinal, EndedFinal DEF IInv
  <2>7. a \in refunds'
    BY <1>8, <2>1, <2>2 DEF Refund
  <2>8. CASE j.pc = "refunded" /\ b = a
    BY <2>6, <2>7, <2>8 DEF Justified
  <2> QED BY <1>2, <2>4, <2>8
<1>9. ASSUME NEW w \in Worker, ExpireSession(w)
      PROVE  Justified(j, b)'
  <2>1. PICK h : h = job[w]
    OBVIOUS
  <2>2. PICK a : a = h.msg.id
    OBVIOUS
  <2>3. h # Idle /\ a \in Booking
    BY <1>9, <2>1, <2>2, JobHeld DEF ExpireSession, Working
  <2>4. CASE session[a] = "open" /\ session' = [session EXCEPT ![a] = "expired"] /\ Step(w, "expired")
    <3>1. session'[a] = "expired"
      BY <2>3, <2>4 DEF IInv, TypeOK
    <3>2. job'[v] = job[v] \/ (j.pc = "expired" /\ b = a)
      BY <1>4, <2>1, <2>2, <2>3, <2>4
    <3>3. CASE j.pc = "expired" /\ b = a
      BY <3>1, <3>3 DEF Justified
    <3> QED BY <1>2, <3>2, <3>3
  <2>5. CASE Nak(w)
    BY <1>2, <1>5, <2>5
  <2> QED BY <1>9, <2>1, <2>2, <2>4, <2>5 DEF ExpireSession
<1>10. ASSUME NEW w \in Worker, CommitSettlement(w)
      PROVE  Justified(j, b)'
  <2>1. PICK h : h = job[w]
    OBVIOUS
  <2>2. h # Idle /\ Step(w, "done")
    BY <1>10, <2>1 DEF CommitSettlement, Working
  <2> QED BY <1>2, <1>3, <1>4, <2>1, <2>2
<1>11. ASSUME NEW w \in Worker, Ack(w) \/ WorkerFails(w) \/ \E m \in inbox : Take(w, m) \/ TakeAgain(w, m)
      PROVE  Justified(j, b)'
  <2>1. job'[v] = job[v] \/ j.pc = "taken"
    BY <1>1, <1>5, <1>11 DEF Ack, WorkerFails, Take, TakeAgain, Deliver, IInv, TypeOK
  <2> QED BY <1>2, <1>3, <2>1
<1>12. ASSUME UNCHANGED job
      PROVE  Justified(j, b)'
    BY <1>2, <1>12
<1> QED
    BY <1>6, <1>7, <1>8, <1>9, <1>10, <1>11, <1>12
    DEF Next, vars, workerVars, CheckoutStep, WorkerStep, BookingMoves, HoldLapses, ProjectBooking, Pay,
        Decline, Webhook, Resend, BeginCheckout, FindPayment, CreateSession, LockPayment, InsertPayment,
        CheckoutFails

\* A refund is given for a reason, and the reason stays.
LEMMA RefundOnlyEndedStep ==
    ASSUME IInv, [Next]_vars
    PROVE  RefundOnlyEnded'
<1>1. ASSUME NEW b \in refunds
      PROVE  b \in captured' /\ Ended(b)'
    BY <1>1, StripeFinal, EndedFinal DEF IInv, TypeOK, RefundOnlyEnded
<1>2. ASSUME NEW w \in Worker, Refund(w)
      PROVE  RefundOnlyEnded'
  <2>1. PICK b : b = job[w].msg.id
    OBVIOUS
  <2>2. b \in Booking /\ Justified(job[w], b) /\ job[w].pc = "refund"
    BY <1>2, <2>1, JobHeld DEF Refund, Working
  <2>3. b \in captured' /\ Ended(b)'
    BY <2>2, StripeFinal, EndedFinal DEF IInv, Justified
  <2>4. refunds' = refunds \cup {b}
    BY <1>2, <2>1 DEF Refund
  <2> QED BY <1>1, <2>3, <2>4 DEF RefundOnlyEnded
<1>3. ASSUME refunds' = refunds
      PROVE  RefundOnlyEnded'
    BY <1>1, <1>3 DEF RefundOnlyEnded
<1> QED
    BY <1>2, <1>3
    DEF Next, vars, stripeVars, CheckoutStep, WorkerStep, BookingMoves, HoldLapses, ProjectBooking, Pay,
        Decline, Webhook, Resend, BeginCheckout, FindPayment, CreateSession, LockPayment, InsertPayment,
        CheckoutFails, Take, TakeAgain, Deliver, ReadPayment, Decide, ExpireSession, CommitSettlement,
        Ack, WorkerFails

\* A row says `refunded` or `expired` after Stripe did, and Stripe does not undo it.
LEMMA RowAgreesStep ==
    ASSUME IInv, [Next]_vars
    PROVE  RowAgreesWithStripe' /\ ExpiredSession'
<1>1. SUFFICES ASSUME NEW b \in Booking, payment'[b] # Null
               PROVE  /\ payment'[b].status = "refunded" => b \in refunds'
                      /\ payment'[b].status = "expired" => session'[b] = "expired"
    <2>1. CapturedComplete'
      BY CapturedCompleteStep DEF IInv
    <2> QED BY <2>1 DEF RowAgreesWithStripe, ExpiredSession, CapturedComplete
<1>2. CASE payment'[b] = payment[b] /\ events'[b] = events[b]
    BY <1>1, <1>2, StripeFinal DEF IInv, RowAgreesWithStripe, ExpiredSession
<1>3. ASSUME NEW c \in Checkout, CreatedBy(c, b)
      PROVE  payment'[b].status = "created"
    BY <1>3 DEF CreatedBy, Recorded
<1>4. ASSUME NEW outcome \in {"succeeded", "failed"}, Moved(b, UNPAID, outcome)
      PROVE  payment'[b].status = outcome
    BY <1>4 DEF Moved, Recorded
<1>5. ASSUME NEW w \in Worker, Settled(w, b)
      PROVE  /\ payment'[b].status = "refunded" => b \in refunds'
             /\ payment'[b].status = "expired" => session'[b] = "expired"
  <2>1. job[w] # Idle /\ job[w].msg.id = b /\ Justified(job[w], b)
    BY <1>5, JobHeld DEF Settled
  <2>2. \/ job[w].pc = "refunded" /\ payment'[b].status = "refunded"
        \/ job[w].pc = "expired" /\ payment'[b].status = "expired"
    BY <1>5 DEF Settled, Moved, Recorded
  <2> QED BY <2>1, <2>2, StripeFinal DEF Justified, IInv
<1> QED BY <1>2, <1>3, <1>4, <1>5, PaymentMoves DEF IInv

\* IInv is inductive.
LEMMA NextIInv == IInv /\ [Next]_vars => IInv'
<1> SUFFICES ASSUME IInv, [Next]_vars
             PROVE  IInv'
    OBVIOUS
<1>1. TypeOK' /\ LifeShape' /\ MirrorBehind'
    BY TypeOKStep, LifeStep DEF IInv
<1>2. CapturedComplete' /\ SuccessCaptured'
    BY CapturedCompleteStep, SuccessCapturedStep DEF IInv
<1>3. JobsJustified' /\ RefundOnlyEnded' /\ RowAgreesWithStripe' /\ ExpiredSession'
    BY JobsJustifiedStep, RefundOnlyEndedStep, RowAgreesStep
<1> QED BY <1>1, <1>2, <1>3 DEF IInv

-----------------------------------------------------------------------------
(* The theorems *)

(***************************************************************************)
(* Every state satisfies the inductive invariant: what is recorded, and    *)
(* what a worker is about to do, has its reason at Stripe and in the       *)
(* booking's life.                                                         *)
(***************************************************************************)
THEOREM Invariance == Spec => []IInv
BY InitIInv, NextIInv, PTL DEF Spec

\* The rows, requests, messages and jobs stay well typed.
THEOREM TypeCorrectness == Spec => []TypeOK
<1>1. IInv => TypeOK
    BY DEF IInv
<1> QED BY <1>1, Invariance, PTL

\* Nobody is refunded whose booking is still in play, whatever the workers read, and when
\* (decide).
THEOREM RefundOnlyEndedHolds == Spec => []RefundOnlyEnded
<1>1. IInv => RefundOnlyEnded
    BY DEF IInv
<1> QED BY <1>1, Invariance, PTL

\* A payment is recorded as refunded only after the refund, and as expired only if Stripe
\* never took the money (settle_up).
THEOREM RowAgreesWithStripeHolds == Spec => []RowAgreesWithStripe
<1>1. IInv => RowAgreesWithStripe
    BY DEF IInv
<1> QED BY <1>1, Invariance, PTL

-----------------------------------------------------------------------------
(* One checkout at a time *)

LoneInv == IInv /\ CheckoutCurrent /\ VersionsGapless

\* What a lone checkout saw holds until it writes: nobody else creates a row.
LEMMA CheckoutCurrentStep ==
    ASSUME OneCheckout, IInv, CheckoutCurrent, [Next]_vars
    PROVE  CheckoutCurrent'
<1> DEFINE Current(r, b) ==
        /\ r.pc \in {"calling", "called"} => payment[b] = Null \/ session[b] = "expired"
        /\ r.pc = "inserting" => payment[b] = Null
<1>1. SUFFICES ASSUME NEW c \in Checkout, NEW r, r = checkout'[c], r # Idle, NEW b, b = r.id
               PROVE  Current(r, b)'
    BY DEF CheckoutCurrent
<1>2. \A d \in Checkout : d = c
    BY DEF OneCheckout
<1>3. CASE r.pc = "checked"
    BY <1>3
<1>4. ASSUME NEW a \in Booking, BeginCheckout(c, a)
      PROVE  r.pc = "checked"
    BY <1>1, <1>4 DEF BeginCheckout, IInv, TypeOK
<1>5. ASSUME CheckoutStep(c)
      PROVE  Current(r, b)'
  <2>1. PICK a \in Booking : a = checkout[c].id
    BY <1>5 DEF CheckoutStep, FindPayment, CreateSession, LockPayment, InsertPayment, At, IInv, TypeOK, Request
  <2>2. checkout[c] # Idle /\ checkout[c] \in Request
    BY <1>5 DEF CheckoutStep, FindPayment, CreateSession, LockPayment, InsertPayment, At, IInv, TypeOK
  <2>3. ASSUME NEW pc, Goto(c, pc)
        PROVE  r.pc = pc /\ b = a
    BY <1>1, <2>1, <2>2, <2>3 DEF Goto, IInv, TypeOK, Request
  <2>4. ASSUME Answer(c)
        PROVE  FALSE
    BY <1>1, <2>4 DEF Answer, IInv, TypeOK
  <2>5. CASE FindPayment(c)
    BY <2>1, <2>3, <2>4, <2>5 DEF FindPayment, paymentVars
  <2>6. CASE CreateSession(c)
    <3>1. payment[a] = Null \/ session[a] = "expired"
      BY <2>1, <2>2, <2>6 DEF CreateSession, At, CheckoutCurrent
    <3>2. session[a] = "expired" => session'[a] = "expired"
      BY StripeFinal DEF IInv
    <3> QED BY <2>3, <2>6, <3>1, <3>2 DEF CreateSession, paymentVars
  <2>7. CASE LockPayment(c)
    BY <2>1, <2>3, <2>4, <2>7 DEF LockPayment, paymentVars
  <2>8. CASE InsertPayment(c)
    BY <2>4, <2>8 DEF InsertPayment
  <2> QED BY <1>5, <2>5, <2>6, <2>7, <2>8 DEF CheckoutStep
<1>6. ASSUME CheckoutFails(c)
      PROVE  FALSE
    BY <1>1, <1>6 DEF CheckoutFails, IInv, TypeOK
<1>7. ASSUME UNCHANGED checkout
      PROVE  Current(r, b)'
  <2>1. checkout[c] = r /\ r # Idle /\ b \in Booking
    BY <1>1, <1>7 DEF IInv, TypeOK, Request
  <2>2. Current(r, b)
    BY <1>1, <2>1 DEF CheckoutCurrent
  <2>3. session[b] = "expired" => session'[b] = "expired"
    BY <2>1, StripeFinal DEF IInv
  <2>4. payment[b] = Null => payment'[b] = Null
    <3>1. ASSUME NEW d \in Checkout, CreatedBy(d, b)
          PROVE  FALSE
      BY <1>2, <1>7, <2>1, <3>1 DEF CreatedBy
    <3> QED BY <2>1, <3>1, PaymentMoves DEF Moved, Settled, IInv
  <2> QED BY <2>2, <2>3, <2>4
<1> QED
    BY <1>2, <1>3, <1>4, <1>5, <1>6, <1>7
    DEF Next, vars, WorkerStep, BookingMoves, HoldLapses, ProjectBooking, Pay, Decline, Webhook, Resend,
        Take, TakeAgain, Deliver, ReadPayment, Decide, Refund, ExpireSession, CommitSettlement, Ack,
        WorkerFails

\* One version, one event, however the row is written.
LEMMA VersionsGaplessStep ==
    ASSUME IInv, CheckoutCurrent, VersionsGapless, [Next]_vars
    PROVE  VersionsGapless'
<1>1. SUFFICES ASSUME NEW b \in Booking
               PROVE  /\ \A i \in DOMAIN events'[b] : events'[b][i].version = i
                      /\ Len(events'[b]) = IF payment'[b] = Null THEN 0 ELSE payment'[b].version
    BY DEF VersionsGapless
<1>2. /\ \A i \in DOMAIN events[b] : events[b][i].version = i
      /\ Len(events[b]) = IF payment[b] = Null THEN 0 ELSE payment[b].version
      /\ events[b] \in Seq(PaymentEvent)
    BY DEF VersionsGapless, IInv, TypeOK
<1>3. CASE payment'[b] = payment[b] /\ events'[b] = events[b]
    BY <1>2, <1>3
<1>4. ASSUME NEW status \in Status, Recorded(b, status), payment'[b].version = Len(events[b]) + 1
      PROVE  /\ \A i \in DOMAIN events'[b] : events'[b][i].version = i
             /\ Len(events'[b]) = IF payment'[b] = Null THEN 0 ELSE payment'[b].version
  <2>1. PICK e : e = [kind |-> status, version |-> payment'[b].version]
    OBVIOUS
  <2>2. payment'[b] # Null /\ events'[b] = Append(events[b], e) /\ e.version = Len(events[b]) + 1
    BY <1>4, <2>1 DEF Recorded
  <2>3. \A i \in DOMAIN events'[b] : events'[b][i].version = i
    BY <1>2, <2>2, EventAdded
  <2>4. Len(events'[b]) = Len(events[b]) + 1
    BY <1>2, <2>2
  <2> QED BY <1>4, <2>2, <2>3, <2>4
<1>5. ASSUME NEW c \in Checkout, CreatedBy(c, b)
      PROVE  payment'[b].version = Len(events[b]) + 1
    BY <1>2, <1>5 DEF CreatedBy, CheckoutCurrent
<1>6. ASSUME NEW from, NEW to, Moved(b, from, to)
      PROVE  payment'[b].version = Len(events[b]) + 1
    BY <1>2, <1>6 DEF Moved
<1>7. Status = {"created", "failed", "succeeded", "refunded", "expired"}
    BY DEF Status
<1> QED BY <1>3, <1>4, <1>5, <1>6, <1>7, PaymentMoves DEF IInv, CreatedBy, Moved, Settled

\* The invariant with what a lone checkout may rely on.
LEMMA LoneInvariance ==
    ASSUME OneCheckout
    PROVE  Spec => []LoneInv
<1>1. Init => LoneInv
  <2> SUFFICES ASSUME Init
               PROVE  CheckoutCurrent /\ VersionsGapless
    BY InitIInv DEF LoneInv
  <2>1. DOMAIN << >> = {} /\ Len(<< >>) = 0
    OBVIOUS
  <2>2. \A b \in Booking : events[b] = << >> /\ payment[b] = Null
    BY DEF Init
  <2> QED BY <2>1, <2>2 DEF Init, CheckoutCurrent, VersionsGapless
<1>2. LoneInv /\ [Next]_vars => LoneInv'
  <2> SUFFICES ASSUME LoneInv, [Next]_vars
               PROVE  LoneInv'
    OBVIOUS
  <2>1. IInv'
    BY NextIInv DEF LoneInv
  <2>2. CheckoutCurrent' /\ VersionsGapless'
    BY CheckoutCurrentStep, VersionsGaplessStep DEF LoneInv
  <2> QED BY <2>1, <2>2 DEF LoneInv
<1> QED BY <1>1, <1>2, PTL DEF Spec

(***************************************************************************)
(* As long as one checkout runs at a time, every version of a payment is   *)
(* carried by exactly one event (next_version!, create_session).           *)
(***************************************************************************)
THEOREM VersionsGaplessHolds ==
    ASSUME OneCheckout
    PROVE  Spec => []VersionsGapless
<1>1. LoneInv => VersionsGapless
    BY DEF LoneInv
<1> QED BY <1>1, LoneInvariance, PTL

\* What a step does to a settled payment.
LEMMA SettledStep ==
    ASSUME LoneInv, [Next]_vars, NEW b \in Booking, payment[b] # Null,
           payment[b].status \in {"succeeded", "refunded"}
    PROVE  \/ payment'[b] = payment[b]
           \/ payment[b].status = "succeeded" /\ payment'[b].status = "refunded"
<1>1. session[b] = "complete"
  <2>1. b \in captured
    BY DEF LoneInv, IInv, SuccessCaptured, RowAgreesWithStripe, RefundOnlyEnded
  <2> QED BY <2>1 DEF LoneInv, IInv, CapturedComplete
<1>2. ASSUME NEW c \in Checkout, CreatedBy(c, b)
      PROVE  FALSE
    BY <1>1, <1>2 DEF CreatedBy, LoneInv, CheckoutCurrent
<1>3. ASSUME NEW to, Moved(b, UNPAID, to)
      PROVE  FALSE
    BY <1>3 DEF Moved, UNPAID
<1>4. ASSUME Moved(b, {"succeeded"}, "refunded")
      PROVE  payment[b].status = "succeeded" /\ payment'[b].status = "refunded"
    BY <1>4 DEF Moved, Recorded
<1> QED BY <1>2, <1>3, <1>4, PaymentMoves DEF LoneInv, IInv, Settled

(***************************************************************************)
(* As long as one checkout runs at a time, nothing puts a payment that     *)
(* succeeded back among the unpaid, or takes a refund back: a checkout     *)
(* that resumes one finds its session complete. The run payment_checkout   *)
(* shows the hypothesis is needed.                                         *)
(***************************************************************************)
THEOREM SettledMoneyStaysHolds ==
    ASSUME OneCheckout
    PROVE  Spec => SettledMoneyStays
<1> DEFINE Stays ==
        \A b \in Booking : payment[b] # Null =>
            /\ payment[b].status = "succeeded" => payment'[b].status \in {"succeeded", "refunded"}
            /\ payment[b].status = "refunded" => payment'[b].status = "refunded"
<1>1. LoneInv /\ [Next]_vars => [Stays]_vars
    BY SettledStep
<1>2. Spec => [][Stays]_vars
    BY <1>1, LoneInvariance, PTL DEF Spec
<1> QED BY <1>2 DEF SettledMoneyStays
=============================================================================
