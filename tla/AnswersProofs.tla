--------------------------- MODULE AnswersProofs ---------------------------
(***************************************************************************)
(* What view-service answers, for every value of ReadModel's constants:    *)
(* figures of money that agree, cursors that lead everywhere, and lists.   *)
(*                                                                         *)
(* An answer is computed from the tables of one state.  What the proofs    *)
(* need of the tables beyond what each row says is that they are finite,   *)
(* that only a modelled payment is there, and that no row is dated ahead   *)
(* of the clock.                                                           *)
(***************************************************************************)
EXTENDS ReadModelProofs, FiniteSums

-----------------------------------------------------------------------------
(* The tables that figures are taken from *)

FiniteRows ==
    /\ IsFiniteSet(Rows(spot)) /\ IsFiniteSet(Rows(booking))
    /\ IsFiniteSet(Rows(payment)) /\ IsFiniteSet(Rows(payout))

ChargedOnly == \A b \in Bookings : payment_db[b] # Null => b \in Charged

LogPast(log, t) ==
    \A i \in DOMAIN log : log[i].type \in {"Created", "refunded", "PayoutRequested"} => log[i].at <= t

ChargePast(row, t) ==
    row # Null => row.created_at <= t /\ (row.refunded_at # Null => row.refunded_at <= t)

PayoutPast(row, t) == row # Null => row.created_at <= t

DatesPast ==
    /\ \A b \in Bookings : LogPast(payments_log[b], now) /\ ChargePast(payment[b], now)
    /\ \A p \in Payouts : LogPast(payouts_log[p], now) /\ PayoutPast(payout[p], now)

\* A table with one row changed has one row more at most.
LEMMA RowChanged ==
    ASSUME NEW t, IsFiniteSet(Rows(t)), NEW u, NEW k, u = [t EXCEPT ![k] = u[k]]
    PROVE  IsFiniteSet(Rows(u))
<1>1. PICK S : S = Rows(t) \cup {k}
    OBVIOUS
<1>2. IsFiniteSet(S)
    BY <1>1, FS_AddElement
<1>3. Rows(u) \subseteq S
    BY <1>1 DEF Rows
<1> QED BY <1>2, <1>3, FS_Subset

\* A log with an event more.
LEMMA LogStaysPast ==
    ASSUME NEW S, NEW log \in Seq(S), NEW t, LogPast(log, t), NEW e \in S,
           e.type \in {"Created", "refunded", "PayoutRequested"} => e.at <= t
    PROVE  LogPast(Append(log, e), t)
<1>1. PICK longer : longer = Append(log, e)
    OBVIOUS
<1>2. /\ Len(log) \in Nat /\ DOMAIN log = 1..Len(log) /\ DOMAIN longer = 1..(Len(log) + 1)
      /\ longer[Len(log) + 1] = e
      /\ \A i \in 1..Len(log) : longer[i] = log[i]
  <2>1. Len(log) \in Nat /\ DOMAIN log = 1..Len(log)
    BY LenProperties
  <2>2. /\ Append(log, e) \in Seq(S) /\ Len(Append(log, e)) = Len(log) + 1
        /\ Append(log, e)[Len(log) + 1] = e
        /\ \A i \in 1..Len(log) : Append(log, e)[i] = log[i]
    BY AppendProperties
  <2>3. DOMAIN Append(log, e) = 1..Len(Append(log, e))
    BY <2>2, LenProperties
  <2> QED BY <1>1, <2>1, <2>2, <2>3
<1>3. ASSUME NEW i \in DOMAIN longer, longer[i].type \in {"Created", "refunded", "PayoutRequested"}
      PROVE  longer[i].at <= t
  <2>1. i \in 1..Len(log) \/ i = Len(log) + 1
    BY <1>2
  <2>2. CASE i \in 1..Len(log)
    BY <1>2, <1>3, <2>2 DEF LogPast
  <2>3. CASE i = Len(log) + 1
    BY <1>2, <1>3, <2>3
  <2> QED BY <2>1, <2>2, <2>3
<1> QED BY <1>1, <1>3 DEF LogPast

\* A projected charge is dated by an event.
LEMMA ChargeStaysPast ==
    ASSUME NEW b \in Bookings, NEW log \in Seq(PaymentEvent), NEW charge, NEW h,
           NEW row \in ViewPayment \cup {Null}, PaymentFollows(b, h, log, charge, row),
           NEW v \in DOMAIN log, Due(row, v),
           NEW succ \in ViewPayment, succ.version = v, PaymentFollows(b, h, log, charge, succ),
           NEW t, LogPast(log, t), ChargePast(row, t)
    PROVE  ChargePast(succ, t)
<1>1. PICK e : e = log[v]
    OBVIOUS
<1>2. v \in 1..Len(log) /\ Len(log) \in Nat
    BY LenProperties
<1>3. <<h[v - 1], e, h[v]>> \in PaymentMoves(b) /\ h[0] = Null
    BY <1>1, <1>2 DEF PaymentFollows, History
<1>4. succ # Null
    BY NullAssumption
<1>5. succ = ShownPayment(b, h[v], v)
    BY <1>4 DEF PaymentFollows, PaymentMirrors
<1>6. succ.created_at = h[v].created_at /\ succ.refunded_at = h[v].refunded_at
    BY <1>5 DEF ShownPayment
<1>7. e.type \in {"Created", "refunded"} => e.at <= t
    BY <1>1 DEF LogPast
<1>8. CASE e = PaymentCreation(b, h[v].created_at) /\ h[v].refunded_at = Null
  <2>1. e.type = "Created" /\ e.at = h[v].created_at
    BY <1>8 DEF PaymentCreation
  <2> QED BY <1>6, <1>7, <1>8, <2>1 DEF ChargePast
<1>9. ASSUME h[v - 1] # Null
      PROVE  row # Null /\ row.created_at = h[v - 1].created_at /\ row.created_at <= t
  <2>1. v - 1 # 0
    BY <1>3, <1>9
  <2>2. row # Null
    BY <1>2, <2>1 DEF Due, Stored
  <2>3. row.version = v - 1 /\ row = ShownPayment(b, h[row.version], row.version)
    BY <1>2, <2>2 DEF Due, Stored, PaymentFollows, PaymentMirrors, ViewPayment
  <2> QED BY <2>2, <2>3 DEF ShownPayment, ChargePast
<1>10. CASE h[v - 1] # Null /\ h[v].created_at = h[v - 1].created_at /\ h[v].refunded_at = Null
    BY <1>6, <1>9, <1>10 DEF ChargePast
<1>11. CASE /\ h[v - 1] # Null /\ h[v].created_at = h[v - 1].created_at
            /\ e.type = "refunded" /\ h[v].refunded_at = e.at
    BY <1>6, <1>7, <1>9, <1>11 DEF ChargePast
<1> QED BY <1>3, <1>8, <1>10, <1>11 DEF PaymentMoves

\* A projected withdrawal is dated by its request.
LEMMA PayoutStaysPast ==
    ASSUME NEW log \in Seq(PayoutEvent), NEW withdrawal, NEW h,
           NEW row \in ViewPayout \cup {Null}, PayoutFollows(h, log, withdrawal, row),
           NEW v \in DOMAIN log, Due(row, v),
           NEW succ \in ViewPayout, succ.version = v, PayoutFollows(h, log, withdrawal, succ),
           NEW t, LogPast(log, t), PayoutPast(row, t)
    PROVE  PayoutPast(succ, t)
<1>1. PICK e : e = log[v]
    OBVIOUS
<1>2. v \in 1..Len(log) /\ Len(log) \in Nat
    BY LenProperties
<1>3. <<h[v - 1], e, h[v]>> \in PayoutMoves /\ h[0] = Null
    BY <1>1, <1>2 DEF PayoutFollows, History
<1>4. succ # Null
    BY NullAssumption
<1>5. succ = ShownPayout(h[v], v)
    BY <1>4 DEF PayoutFollows, PayoutMirrors
<1>6. succ.created_at = h[v].created_at
    BY <1>5 DEF ShownPayout
<1>7. CASE e = Withdrawal(h[v])
  <2>1. e.type = "PayoutRequested" /\ e.at = h[v].created_at
    BY <1>7 DEF Withdrawal
  <2> QED BY <1>1, <1>6, <2>1 DEF LogPast, PayoutPast
<1>8. CASE h[v - 1] # Null /\ h[v].created_at = h[v - 1].created_at
  <2>1. v - 1 # 0
    BY <1>3, <1>8
  <2>2. row # Null
    BY <1>2, <2>1 DEF Due, Stored
  <2>3. row.version = v - 1 /\ row = ShownPayout(h[row.version], row.version)
    BY <1>2, <2>2 DEF Due, Stored, PayoutFollows, PayoutMirrors, ViewPayout
  <2> QED BY <1>6, <1>8, <2>2, <2>3 DEF ShownPayout, PayoutPast
<1> QED BY <1>3, <1>7, <1>8 DEF PayoutMoves

\* A projection of a charge writes its row, dated like its events.
LEMMA ChargeProjected ==
    ASSUME PaymentsInv, NEW b \in Bookings, ProjectPayment(b),
           LogPast(payments_log[b], now), ChargePast(payment[b], now)
    PROVE  payment' = [payment EXCEPT ![b] = payment'[b]] /\ ChargePast(payment'[b], now)
<1> DEFINE row == payment[b]
           log == payments_log[b]
           succ == payment'[b]
<1>1. row \in ViewPayment \cup {Null} /\ log \in Seq(PaymentEvent) /\ DOMAIN payment = Bookings
    BY DEF PaymentsInv
<1>2. PICK v \in DOMAIN log :
          Due(row, v) /\ (PaymentCreated(b, v, log[v]) \/ PaymentTurned(b, v, log[v]))
    BY DEF ProjectPayment
<1>3. payment' = [payment EXCEPT ![b] = succ] /\ PaymentArm(row, v, log[v], succ)
    BY <1>1, <1>2 DEF PaymentCreated, PaymentTurned, UpsertPayment, PaymentArm
<1>4. PICK charge : charge = payment_db[b]
    OBVIOUS
<1>5. PICK t : t = now
    OBVIOUS
<1>6. LogPast(log, t) /\ ChargePast(row, t)
    BY <1>5
<1> HIDE DEF row, log, succ
<1>7. \E h : PaymentFollows(b, h, log, charge, row)
    BY <1>4 DEF PaymentsInv, row, log
<1>8. PICK h : PaymentFollows(b, h, log, charge, row)
    BY <1>7
<1>9. /\ succ \in ViewPayment /\ succ.version = Stored(row) + 1
      /\ PaymentFollows(b, h, log, charge, succ)
    BY <1>1, <1>2, <1>3, <1>8, PaymentProjected
<1>10. succ.version = v
    BY <1>2, <1>9 DEF Due
<1>11. ChargePast(succ, t)
    BY <1>1, <1>2, <1>6, <1>8, <1>9, <1>10, ChargeStaysPast
<1> QED BY <1>3, <1>5, <1>11 DEF row, succ

\* So does that of a withdrawal.
LEMMA WithdrawalProjected ==
    ASSUME PayoutsInv, NEW p \in Payouts, ProjectPayout(p),
           LogPast(payouts_log[p], now), PayoutPast(payout[p], now)
    PROVE  payout' = [payout EXCEPT ![p] = payout'[p]] /\ PayoutPast(payout'[p], now)
<1> DEFINE row == payout[p]
           log == payouts_log[p]
           succ == payout'[p]
<1>1. row \in ViewPayout \cup {Null} /\ log \in Seq(PayoutEvent) /\ DOMAIN payout = Payouts
    BY DEF PayoutsInv
<1>2. PICK v \in DOMAIN log :
          Due(row, v) /\ (PayoutRequested(p, v, log[v]) \/ PayoutFinished(p, v, log[v]))
    BY DEF ProjectPayout
<1>3. payout' = [payout EXCEPT ![p] = succ] /\ PayoutArm(row, v, log[v], succ)
    BY <1>1, <1>2 DEF PayoutRequested, PayoutFinished, UpsertPayout, PayoutArm
<1>4. PICK withdrawal : withdrawal = payout_db[p]
    OBVIOUS
<1>5. PICK t : t = now
    OBVIOUS
<1>6. LogPast(log, t) /\ PayoutPast(row, t)
    BY <1>5
<1> HIDE DEF row, log, succ
<1>7. \E h : PayoutFollows(h, log, withdrawal, row)
    BY <1>4 DEF PayoutsInv, row, log
<1>8. PICK h : PayoutFollows(h, log, withdrawal, row)
    BY <1>7
<1>9. /\ succ \in ViewPayout /\ succ.version = Stored(row) + 1
      /\ PayoutFollows(h, log, withdrawal, succ)
    BY <1>1, <1>2, <1>3, <1>8, PayoutProjected
<1>10. succ.version = v
    BY <1>2, <1>9 DEF Due
<1>11. PayoutPast(succ, t)
    BY <1>1, <1>2, <1>6, <1>8, <1>9, <1>10, PayoutStaysPast
<1> QED BY <1>3, <1>5, <1>11 DEF row, succ

Opens(b) ==
    \/ OpenCharge(b) \/ Refund(b)
    \/ \E status \in {"succeeded", "failed", "expired"} : SettleCharge(b, status)

Requests(p) ==
    \/ \E u \in Users : \E cents \in 1..Earned(u) : RequestPayout(p, u, cents)
    \/ \E status \in {"paid", "failed"} : FinishPayout(p, status)

\* What a step does to the rows and the logs of money, and to the other tables.
LEMMA MoneySteps ==
    ASSUME Scope, [Next]_vars
    PROVE  /\ \/ UNCHANGED <<paymentVars, payoutVars>>
              \/ \E b \in Bookings \cap Charged : Opens(b)
              \/ \E p \in Payouts : Requests(p)
           /\ \/ UNCHANGED <<payment, payout>>
              \/ \E b \in Bookings : ProjectPayment(b) /\ UNCHANGED upstreamVars
              \/ \E p \in Payouts : ProjectPayout(p) /\ UNCHANGED upstreamVars
           /\ \/ UNCHANGED <<spot, booking>>
              \/ \E s \in Spots : ProjectSpot(s)
              \/ \E b \in Bookings : ProjectBooking(b)
           /\ now' = now \/ now' = now + 1
           /\ UNCHANGED upstreamVars \/ UNCHANGED viewVars
<1>1. CASE WriterStep /\ UNCHANGED viewVars
  <2>1. \/ UNCHANGED <<paymentVars, payoutVars>>
        \/ \E b \in Bookings \cap Charged : Opens(b)
        \/ \E p \in Payouts : Requests(p)
    <3>1. CASE PaymentStep(focus.bookings \cap Charged)
      BY <3>1, InScope DEF PaymentStep, Opens
    <3>2. CASE PayoutStep(focus.payouts)
      BY <3>2, InScope DEF PayoutStep, Requests
    <3>3. ASSUME ~PaymentStep(focus.bookings \cap Charged), ~PayoutStep(focus.payouts)
          PROVE  UNCHANGED <<paymentVars, payoutVars>>
      BY <1>1, <3>3
      DEF WriterStep, Tick, UserStep, SpotStep, BookingStep, Register, Rename, UserMarker,
          SeeNotifications, DismissNotification, WriteUser, Reserve, Confirm, Release, Cancel,
          Rate, WriteBooking
    <3> QED BY <3>1, <3>2, <3>3
  <2>2. now' = now \/ now' = now + 1
    BY <1>1
    DEF WriterStep, Tick, UserStep, SpotStep, BookingStep, PaymentStep, PayoutStep, Register, Rename,
        UserMarker, SeeNotifications, DismissNotification, WriteUser, Reserve, Confirm, Release, Cancel,
        Rate, WriteBooking, OpenCharge, SettleCharge, Refund, WritePayment, RequestPayout, FinishPayout,
        WritePayout
  <2> QED BY <1>1, <2>1, <2>2 DEF viewVars
<1>2. CASE ProjectionStep /\ UNCHANGED upstreamVars
  <2>1. UNCHANGED <<paymentVars, payoutVars>> /\ now' = now
    BY <1>2 DEF upstreamVars
  <2>2. \/ UNCHANGED <<payment, payout>>
        \/ \E b \in Bookings : ProjectPayment(b) /\ UNCHANGED upstreamVars
        \/ \E p \in Payouts : ProjectPayout(p) /\ UNCHANGED upstreamVars
    BY <1>2 DEF ProjectionStep, ProjectUser, ProjectSpot, ProjectBooking
  <2>3. \/ UNCHANGED <<spot, booking>>
        \/ \E s \in Spots : ProjectSpot(s)
        \/ \E b \in Bookings : ProjectBooking(b)
    BY <1>2 DEF ProjectionStep, ProjectUser, ProjectPayment, ProjectPayout
  <2> QED BY <1>2, <2>1, <2>2, <2>3
<1>3. CASE UNCHANGED <<upstreamVars, viewVars>>
    BY <1>3 DEF upstreamVars, viewVars
<1> QED BY <1>1, <1>2, <1>3 DEF Next, vars

\* One row more at a time.
LEMMA FiniteRowsStep ==
    ASSUME TablesInv, FiniteRows, [Next]_vars
    PROVE  FiniteRows'
<1>0. Scope
    BY DEF TablesInv
<1>1. IsFiniteSet(Rows(spot')) /\ IsFiniteSet(Rows(booking'))
  <2>1. CASE UNCHANGED <<spot, booking>>
    BY <2>1 DEF FiniteRows
  <2>2. ASSUME NEW s \in Spots, ProjectSpot(s)
        PROVE  IsFiniteSet(Rows(spot')) /\ IsFiniteSet(Rows(booking'))
    <3>1. spot' = [spot EXCEPT ![s] = spot'[s]]
      BY <2>2, SpotProjection DEF TablesInv
    <3>2. IsFiniteSet(Rows(spot'))
      BY <3>1, RowChanged DEF FiniteRows
    <3> QED BY <2>2, <3>2 DEF ProjectSpot, FiniteRows
  <2>3. ASSUME NEW b \in Bookings, ProjectBooking(b)
        PROVE  IsFiniteSet(Rows(spot')) /\ IsFiniteSet(Rows(booking'))
    <3>1. booking' = [booking EXCEPT ![b] = booking'[b]]
      BY <2>3, BookingProjection DEF TablesInv
    <3>2. IsFiniteSet(Rows(booking'))
      BY <3>1, RowChanged DEF FiniteRows
    <3> QED BY <2>3, <3>2 DEF ProjectBooking, FiniteRows
  <2> QED BY <1>0, <2>1, <2>2, <2>3, MoneySteps
<1>2. IsFiniteSet(Rows(payment')) /\ IsFiniteSet(Rows(payout'))
  <2>1. CASE UNCHANGED <<payment, payout>>
    BY <2>1 DEF FiniteRows
  <2>2. ASSUME NEW b \in Bookings, ProjectPayment(b)
        PROVE  IsFiniteSet(Rows(payment')) /\ IsFiniteSet(Rows(payout'))
    <3>1. payment' = [payment EXCEPT ![b] = payment'[b]]
      BY <2>2, PaymentProjection DEF TablesInv
    <3>2. IsFiniteSet(Rows(payment'))
      BY <3>1, RowChanged DEF FiniteRows
    <3> QED BY <2>2, <3>2 DEF ProjectPayment, FiniteRows
  <2>3. ASSUME NEW p \in Payouts, ProjectPayout(p)
        PROVE  IsFiniteSet(Rows(payment')) /\ IsFiniteSet(Rows(payout'))
    <3>1. payout' = [payout EXCEPT ![p] = payout'[p]]
      BY <2>3, PayoutProjection DEF TablesInv
    <3>2. IsFiniteSet(Rows(payout'))
      BY <3>1, RowChanged DEF FiniteRows
    <3> QED BY <2>3, <3>2 DEF ProjectPayout, FiniteRows
  <2> QED BY <1>0, <2>1, <2>2, <2>3, MoneySteps
<1> QED BY <1>1, <1>2 DEF FiniteRows

\* Nobody charges for a booking whose payment is not modelled.
LEMMA ChargedOnlyStep ==
    ASSUME TablesInv, ChargedOnly, [Next]_vars
    PROVE  ChargedOnly'
<1>1. CASE UNCHANGED payment_db
    BY <1>1 DEF ChargedOnly
<1>2. ASSUME NEW b \in Bookings \cap Charged, Opens(b)
      PROVE  ChargedOnly'
  <2>1. \A c \in Bookings : payment_db'[c] # Null => c = b \/ payment_db[c] # Null
    BY <1>2 DEF Opens, OpenCharge, Refund, SettleCharge, WritePayment, TablesInv, PaymentsInv
  <2> QED BY <2>1 DEF ChargedOnly
<1>3. ASSUME NEW p \in Payouts, Requests(p)
      PROVE  UNCHANGED payment_db
    BY <1>3 DEF Requests, RequestPayout, FinishPayout, WritePayout, paymentVars
<1> QED BY <1>1, <1>2, <1>3, MoneySteps DEF TablesInv, paymentVars

\* What was not later than t is not later than a later t.
LEMMA StillPast ==
    ASSUME NEW t \in Nat, NEW u, u = t \/ u = t + 1
    PROVE  /\ \A log \in Seq(PaymentEvent) : LogPast(log, t) => LogPast(log, u)
           /\ \A log \in Seq(PayoutEvent) : LogPast(log, t) => LogPast(log, u)
           /\ \A row \in ViewPayment \cup {Null} : ChargePast(row, t) => ChargePast(row, u)
           /\ \A row \in ViewPayout \cup {Null} : PayoutPast(row, t) => PayoutPast(row, u)
<1>1. \A n \in Nat : n <= t => n <= u
    OBVIOUS
<1>2. ASSUME NEW log \in Seq(PaymentEvent), LogPast(log, t)
      PROVE  LogPast(log, u)
  <2>1. ASSUME NEW i \in DOMAIN log, log[i].type \in {"Created", "refunded", "PayoutRequested"}
        PROVE  log[i].at <= u
    <3>1. log[i] \in PaymentEvent
      OBVIOUS
    <3>2. log[i].at \in Nat
      BY <2>1, <3>1 DEF PaymentEvent
    <3> QED BY <1>1, <1>2, <2>1, <3>2 DEF LogPast
  <2> QED BY <2>1 DEF LogPast
<1>3. ASSUME NEW log \in Seq(PayoutEvent), LogPast(log, t)
      PROVE  LogPast(log, u)
  <2>1. ASSUME NEW i \in DOMAIN log, log[i].type \in {"Created", "refunded", "PayoutRequested"}
        PROVE  log[i].at <= u
    <3>1. log[i] \in PayoutEvent
      OBVIOUS
    <3>2. log[i].at \in Nat
      BY <2>1, <3>1 DEF PayoutEvent
    <3> QED BY <1>1, <1>3, <2>1, <3>2 DEF LogPast
  <2> QED BY <2>1 DEF LogPast
<1>4. \A row \in ViewPayment \cup {Null} : ChargePast(row, t) => ChargePast(row, u)
    BY <1>1 DEF ChargePast, ViewPayment
<1>5. \A row \in ViewPayout \cup {Null} : PayoutPast(row, t) => PayoutPast(row, u)
    BY <1>1 DEF PayoutPast, ViewPayout
<1> QED BY <1>2, <1>3, <1>4, <1>5

\* An event is dated by the clock.
LEMMA EventsDated ==
    ASSUME TablesInv, NEW b \in Bookings, LogPast(payments_log[b], now), Opens(b)
    PROVE  /\ payments_log' = [payments_log EXCEPT ![b] = payments_log'[b]]
           /\ LogPast(payments_log'[b], now)
           /\ UNCHANGED payouts_log
<1>1. PaymentsInv /\ now \in Nat
    BY InScope DEF TablesInv
<1>2. PICK e \in PaymentEvent, succ \in Charge :
          <<payment_db[b], e, succ>> \in PaymentMoves(b) /\ WritePayment(b, succ, e)
    BY <1>1, PaymentMoved DEF Opens
<1>3. payments_log' = [payments_log EXCEPT ![b] = Append(payments_log[b], e)] /\ UNCHANGED payouts_log
    BY <1>2 DEF WritePayment, payoutVars
<1>4. /\ payments_log'[b] = Append(payments_log[b], e)
      /\ payments_log' = [payments_log EXCEPT ![b] = payments_log'[b]]
    BY <1>1, <1>3 DEF PaymentsInv
<1>5. PICK log : log = payments_log[b]
    OBVIOUS
<1>6. Append(log, e)[Len(log) + 1] = e /\ Len(log) \in Nat /\ log \in Seq(PaymentEvent)
    BY <1>1, <1>5, AppendProperties DEF PaymentsInv
<1>7. e.type \in {"Created", "refunded", "PayoutRequested"} => e.at <= now
  <2>1. payments_log'[b][Len(log) + 1] = e
    BY <1>4, <1>5, <1>6
  <2>2. CASE OpenCharge(b)
    <3> DEFINE c == [type |-> "Created", booking |-> b, host |-> HostOf[SpotOf[b]],
                     renter |-> RenterOf[b], amount |-> Amount[b], at |-> now]
    <3>1. payments_log'[b] = Append(payments_log[b], c)
      BY <1>1, <2>2 DEF OpenCharge, WritePayment, PaymentsInv
    <3>2. Append(log, c)[Len(log) + 1] = c
      BY <1>6, AppendProperties
    <3>3. e = c
      BY <1>5, <2>1, <3>1, <3>2
    <3> QED BY <1>1, <3>3
  <2>3. CASE Refund(b)
    <3> DEFINE c == [type |-> "refunded", at |-> now]
    <3>1. payments_log'[b] = Append(payments_log[b], c)
      BY <1>1, <2>3 DEF Refund, WritePayment, PaymentsInv
    <3>2. Append(log, c)[Len(log) + 1] = c
      BY <1>6, AppendProperties
    <3>3. e = c
      BY <1>5, <2>1, <3>1, <3>2
    <3> QED BY <1>1, <3>3
  <2>4. ASSUME NEW status \in {"succeeded", "failed", "expired"}, SettleCharge(b, status)
        PROVE  e.type \notin {"Created", "refunded", "PayoutRequested"}
    <3> DEFINE c == [type |-> status]
    <3>1. payments_log'[b] = Append(payments_log[b], c)
      BY <1>1, <2>4 DEF SettleCharge, WritePayment, PaymentsInv
    <3>2. Append(log, c)[Len(log) + 1] = c
      BY <1>6, AppendProperties
    <3>3. e = c
      BY <1>5, <2>1, <3>1, <3>2
    <3> QED BY <3>3
  <2> QED BY <2>2, <2>3, <2>4 DEF Opens
<1>8. LogPast(Append(log, e), now)
  <2>1. PICK t : t = now
    OBVIOUS
  <2>2. LogPast(log, t) /\ (e.type \in {"Created", "refunded", "PayoutRequested"} => e.at <= t)
    BY <1>5, <1>7, <2>1
  <2>3. LogPast(Append(log, e), t)
    BY <1>6, <2>2, LogStaysPast
  <2> QED BY <2>1, <2>3
<1> QED BY <1>3, <1>4, <1>5, <1>8

\* A withdrawal by the clock, too.
LEMMA RequestsDated ==
    ASSUME TablesInv, NEW p \in Payouts, LogPast(payouts_log[p], now), Requests(p)
    PROVE  /\ payouts_log' = [payouts_log EXCEPT ![p] = payouts_log'[p]]
           /\ LogPast(payouts_log'[p], now)
           /\ UNCHANGED payments_log
<1>1. PayoutsInv /\ now \in Nat
    BY InScope DEF TablesInv
<1>2. PICK e \in PayoutEvent, succ \in PayoutRow :
          <<payout_db[p], e, succ>> \in PayoutMoves /\ WritePayout(p, succ, e)
    BY <1>1, PayoutMoved DEF Requests
<1>3. payouts_log' = [payouts_log EXCEPT ![p] = Append(payouts_log[p], e)] /\ UNCHANGED payments_log
    BY <1>2 DEF WritePayout, paymentVars
<1>4. /\ payouts_log'[p] = Append(payouts_log[p], e)
      /\ payouts_log' = [payouts_log EXCEPT ![p] = payouts_log'[p]]
    BY <1>1, <1>3 DEF PayoutsInv
<1>5. PICK log : log = payouts_log[p]
    OBVIOUS
<1>6. Append(log, e)[Len(log) + 1] = e /\ Len(log) \in Nat /\ log \in Seq(PayoutEvent)
    BY <1>1, <1>5, AppendProperties DEF PayoutsInv
<1>7. e.type \in {"Created", "refunded", "PayoutRequested"} => e.at <= now
  <2>1. payouts_log'[p][Len(log) + 1] = e
    BY <1>4, <1>5, <1>6
  <2>2. ASSUME NEW u \in Users, NEW cents \in 1..Earned(u), RequestPayout(p, u, cents)
        PROVE  e.at <= now
    <3> DEFINE c == [type |-> "PayoutRequested", host |-> u, amount |-> cents, at |-> now]
    <3>1. payouts_log'[p] = Append(payouts_log[p], c)
      BY <1>1, <2>2 DEF RequestPayout, WritePayout, PayoutsInv
    <3>2. Append(log, c)[Len(log) + 1] = c
      BY <1>6, AppendProperties
    <3>3. e = c
      BY <1>5, <2>1, <3>1, <3>2
    <3> QED BY <1>1, <3>3
  <2>3. ASSUME NEW status \in {"paid", "failed"}, FinishPayout(p, status)
        PROVE  e.type \notin {"Created", "refunded", "PayoutRequested"}
    <3> DEFINE c == [type |-> status]
    <3>1. payouts_log'[p] = Append(payouts_log[p], c)
      BY <1>1, <2>3 DEF FinishPayout, WritePayout, PayoutsInv
    <3>2. Append(log, c)[Len(log) + 1] = c
      BY <1>6, AppendProperties
    <3>3. e = c
      BY <1>5, <2>1, <3>1, <3>2
    <3> QED BY <3>3
  <2> QED BY <2>2, <2>3 DEF Requests
<1>8. LogPast(Append(log, e), now)
  <2>1. PICK t : t = now
    OBVIOUS
  <2>2. LogPast(log, t) /\ (e.type \in {"Created", "refunded", "PayoutRequested"} => e.at <= t)
    BY <1>5, <1>7, <2>1
  <2>3. LogPast(Append(log, e), t)
    BY <1>6, <2>2, LogStaysPast
  <2> QED BY <2>1, <2>3
<1> QED BY <1>3, <1>4, <1>5, <1>8

\* Time passes, or somebody writes, or something is projected.
LEMMA DatesPastStep ==
    ASSUME TablesInv, DatesPast, [Next]_vars
    PROVE  DatesPast'
<1>1. Scope /\ PaymentsInv /\ PayoutsInv /\ now \in Nat
    BY InScope DEF TablesInv
<1>2. PICK t : t = now
    OBVIOUS
<1>3. /\ payments_log \in [Bookings -> Seq(PaymentEvent)] /\ payment \in [Bookings -> ViewPayment \cup {Null}]
      /\ payouts_log \in [Payouts -> Seq(PayoutEvent)] /\ payout \in [Payouts -> ViewPayout \cup {Null}]
    BY <1>1 DEF PaymentsInv, PayoutsInv
<1>4. /\ \A b \in Bookings : LogPast(payments_log'[b], t)
      /\ \A p \in Payouts : LogPast(payouts_log'[p], t)
  <2>1. CASE UNCHANGED <<paymentVars, payoutVars>>
    BY <1>2, <2>1 DEF DatesPast, paymentVars, payoutVars
  <2>2. ASSUME NEW c \in Bookings, Opens(c)
        PROVE  /\ \A b \in Bookings : LogPast(payments_log'[b], t)
               /\ \A p \in Payouts : LogPast(payouts_log'[p], t)
    <3>1. LogPast(payments_log[c], now)
      BY DEF DatesPast
    <3>2. /\ payments_log' = [payments_log EXCEPT ![c] = payments_log'[c]]
          /\ LogPast(payments_log'[c], t) /\ UNCHANGED payouts_log
      BY <1>2, <2>2, <3>1, EventsDated
    <3> QED BY <1>2, <1>3, <3>2 DEF DatesPast
  <2>3. ASSUME NEW q \in Payouts, Requests(q)
        PROVE  /\ \A b \in Bookings : LogPast(payments_log'[b], t)
               /\ \A p \in Payouts : LogPast(payouts_log'[p], t)
    <3>1. LogPast(payouts_log[q], now)
      BY DEF DatesPast
    <3>2. /\ payouts_log' = [payouts_log EXCEPT ![q] = payouts_log'[q]]
          /\ LogPast(payouts_log'[q], t) /\ UNCHANGED payments_log
      BY <1>2, <2>3, <3>1, RequestsDated
    <3> QED BY <1>2, <1>3, <3>2 DEF DatesPast
  <2> QED BY <1>1, <2>1, <2>2, <2>3, MoneySteps
<1>5. /\ \A b \in Bookings : ChargePast(payment'[b], t)
      /\ \A p \in Payouts : PayoutPast(payout'[p], t)
  <2>1. CASE UNCHANGED <<payment, payout>>
    BY <1>2, <2>1 DEF DatesPast
  <2>2. ASSUME NEW c \in Bookings, ProjectPayment(c)
        PROVE  /\ \A b \in Bookings : ChargePast(payment'[b], t)
               /\ \A p \in Payouts : PayoutPast(payout'[p], t)
    <3>1. LogPast(payments_log[c], now) /\ ChargePast(payment[c], now)
      BY DEF DatesPast
    <3>2. payment' = [payment EXCEPT ![c] = payment'[c]] /\ ChargePast(payment'[c], t)
      BY <1>1, <1>2, <2>2, <3>1, ChargeProjected
    <3>3. payout' = payout
      BY <2>2 DEF ProjectPayment
    <3> QED BY <1>2, <1>3, <3>2, <3>3 DEF DatesPast
  <2>3. ASSUME NEW q \in Payouts, ProjectPayout(q)
        PROVE  /\ \A b \in Bookings : ChargePast(payment'[b], t)
               /\ \A p \in Payouts : PayoutPast(payout'[p], t)
    <3>1. LogPast(payouts_log[q], now) /\ PayoutPast(payout[q], now)
      BY DEF DatesPast
    <3>2. payout' = [payout EXCEPT ![q] = payout'[q]] /\ PayoutPast(payout'[q], t)
      BY <1>1, <1>2, <2>3, <3>1, WithdrawalProjected
    <3>3. payment' = payment
      BY <2>3 DEF ProjectPayout
    <3> QED BY <1>2, <1>3, <3>2, <3>3 DEF DatesPast
  <2> QED BY <1>1, <2>1, <2>2, <2>3, MoneySteps
<1>6. PICK u : u = now'
    OBVIOUS
<1>7. t \in Nat /\ (u = t \/ u = t + 1)
    BY <1>1, <1>2, <1>6, MoneySteps
<1>8. /\ payments_log' \in [Bookings -> Seq(PaymentEvent)] /\ payment' \in [Bookings -> ViewPayment \cup {Null}]
      /\ payouts_log' \in [Payouts -> Seq(PayoutEvent)] /\ payout' \in [Payouts -> ViewPayout \cup {Null}]
  <2>1. PaymentsInv' /\ PayoutsInv'
    BY PaymentsStep, PayoutsStep DEF TablesInv
  <2> QED BY <2>1 DEF PaymentsInv, PayoutsInv
<1>9. /\ \A log \in Seq(PaymentEvent) : LogPast(log, t) => LogPast(log, u)
      /\ \A log \in Seq(PayoutEvent) : LogPast(log, t) => LogPast(log, u)
      /\ \A row \in ViewPayment \cup {Null} : ChargePast(row, t) => ChargePast(row, u)
      /\ \A row \in ViewPayout \cup {Null} : PayoutPast(row, t) => PayoutPast(row, u)
    BY <1>7, StillPast
<1>10. ASSUME NEW b \in Bookings
       PROVE  LogPast(payments_log'[b], u) /\ ChargePast(payment'[b], u)
    BY <1>4, <1>5, <1>8, <1>9
<1>11. ASSUME NEW p \in Payouts
       PROVE  LogPast(payouts_log'[p], u) /\ PayoutPast(payout'[p], u)
    BY <1>4, <1>5, <1>8, <1>9
<1> QED BY <1>6, <1>10, <1>11 DEF DatesPast

-----------------------------------------------------------------------------
(* Whose listing it is *)

MintedFor(u, log) == \A i \in DOMAIN log : log[i].type = "Created" => log[i].host = u

HostsKept ==
    \A s \in Spots : /\ MintedFor(HostOf[s], spots_log[s])
                     /\ spot[s] # Null => spot[s].host = HostOf[s]

\* A log with an event more.
LEMMA StillMintedFor ==
    ASSUME NEW S, NEW log \in Seq(S), NEW u, MintedFor(u, log), NEW e \in S,
           e.type = "Created" => e.host = u
    PROVE  MintedFor(u, Append(log, e))
<1>1. PICK longer : longer = Append(log, e)
    OBVIOUS
<1>2. /\ Len(log) \in Nat /\ DOMAIN log = 1..Len(log) /\ DOMAIN longer = 1..(Len(log) + 1)
      /\ longer[Len(log) + 1] = e
      /\ \A i \in 1..Len(log) : longer[i] = log[i]
  <2>1. Len(log) \in Nat /\ DOMAIN log = 1..Len(log)
    BY LenProperties
  <2>2. /\ Append(log, e) \in Seq(S) /\ Len(Append(log, e)) = Len(log) + 1
        /\ Append(log, e)[Len(log) + 1] = e
        /\ \A i \in 1..Len(log) : Append(log, e)[i] = log[i]
    BY AppendProperties
  <2>3. DOMAIN Append(log, e) = 1..Len(Append(log, e))
    BY <2>2, LenProperties
  <2> QED BY <1>1, <2>1, <2>2, <2>3
<1>3. ASSUME NEW i \in DOMAIN longer, longer[i].type = "Created"
      PROVE  longer[i].host = u
  <2>1. i \in 1..Len(log) \/ i = Len(log) + 1
    BY <1>2
  <2>2. CASE i \in 1..Len(log)
    BY <1>2, <1>3, <2>2 DEF MintedFor
  <2>3. CASE i = Len(log) + 1
    BY <1>2, <1>3, <2>3
  <2> QED BY <2>1, <2>2, <2>3
<1> QED BY <1>1, <1>3 DEF MintedFor

\* A projected listing keeps its host.
LEMMA HostStays ==
    ASSUME NEW u, NEW log \in Seq(SpotEvent), NEW listing, NEW h,
           NEW row \in ViewSpot \cup {Null}, SpotFollows(h, log, listing, row),
           NEW v \in DOMAIN log, Due(row, v),
           NEW succ \in ViewSpot, succ.version = v, SpotFollows(h, log, listing, succ),
           MintedFor(u, log), row # Null => row.host = u
    PROVE  succ.host = u
<1>1. PICK e : e = log[v]
    OBVIOUS
<1>2. v \in 1..Len(log) /\ Len(log) \in Nat
    BY LenProperties
<1>3. <<h[v - 1], e, h[v]>> \in SpotMoves /\ h[0] = Null
    BY <1>1, <1>2 DEF SpotFollows, History
<1>4. succ # Null
    BY NullAssumption
<1>5. succ = h[v]
    BY <1>4 DEF SpotFollows, SpotMirrors
<1>6. CASE h[v - 1] = Null
  <2>1. e = [type |-> "Created", host |-> h[v].host, title |-> h[v].title, point |-> h[v].point]
    BY <1>3, <1>6 DEF SpotMoves
  <2>2. e.type = "Created" /\ e.host = h[v].host
    BY <2>1
  <2> QED BY <1>1, <1>5, <2>2 DEF MintedFor
<1>7. CASE h[v - 1] # Null
  <2>1. v - 1 # 0
    BY <1>3, <1>7
  <2>2. row # Null
    BY <1>2, <2>1 DEF Due, Stored
  <2>3. row.version = v - 1 /\ row = h[row.version]
    BY <1>2, <2>2 DEF Due, Stored, SpotFollows, SpotMirrors, ViewSpot
  <2>4. h[v].host = h[v - 1].host
    BY <1>3, <1>7 DEF SpotMoves, EditedListing, DeletedListing
  <2> QED BY <1>5, <2>2, <2>3, <2>4
<1> QED BY <1>6, <1>7

\* A projection of a listing.
LEMMA ListingProjected ==
    ASSUME SpotsInv, NEW s \in Spots, ProjectSpot(s),
           MintedFor(HostOf[s], spots_log[s]), spot[s] # Null => spot[s].host = HostOf[s]
    PROVE  spot' = [spot EXCEPT ![s] = spot'[s]] /\ spot'[s].host = HostOf[s]
<1> DEFINE row == spot[s]
           log == spots_log[s]
           succ == spot'[s]
<1>1. row \in ViewSpot \cup {Null} /\ log \in Seq(SpotEvent) /\ DOMAIN spot = Spots
    BY DEF SpotsInv, SpotTypeOK
<1>2. PICK v \in DOMAIN log :
          /\ Due(row, v)
          /\ SpotCreated(s, v, log[v]) \/ SpotUpdated(s, v, log[v]) \/ SpotDeleted(s, v, log[v])
    BY DEF ProjectSpot
<1>3. spot' = [spot EXCEPT ![s] = succ] /\ SpotArm(row, v, log[v], succ)
    BY <1>1, <1>2 DEF SpotCreated, SpotUpdated, SpotDeleted, SpotArm
<1>4. PICK listing : listing = spot_db[s]
    OBVIOUS
<1>5. PICK u : u = HostOf[s]
    OBVIOUS
<1>6. MintedFor(u, log) /\ (row # Null => row.host = u)
    BY <1>5
<1> HIDE DEF row, log, succ
<1>7. \E h : SpotFollows(h, log, listing, row)
    BY <1>4 DEF SpotsInv, row, log
<1>8. PICK h : SpotFollows(h, log, listing, row)
    BY <1>7
<1>9. /\ succ \in ViewSpot /\ succ.version = Stored(row) + 1
      /\ SpotFollows(h, log, listing, succ)
    BY <1>1, <1>2, <1>3, <1>8, SpotProjected
<1>10. succ.version = v
    BY <1>2, <1>9 DEF Due
<1>11. succ.host = u
    BY <1>1, <1>2, <1>6, <1>8, <1>9, <1>10, HostStays
<1> QED BY <1>3, <1>5, <1>11 DEF row, succ

\* The host of a listing is whoever created it.
LEMMA HostsKeptStep ==
    ASSUME TablesInv, HostsKept, [Next]_vars
    PROVE  HostsKept'
<1>1. SpotsInv /\ Scope /\ spots_log \in [Spots -> Seq(SpotEvent)] /\ spot \in [Spots -> ViewSpot \cup {Null}]
    BY DEF TablesInv, SpotsInv, SpotTypeOK
<1>2. CASE UNCHANGED <<spots_log, spot>>
    BY <1>2 DEF HostsKept
<1>3. ASSUME NEW s \in Spots, ProjectSpot(s), UNCHANGED spots_log
      PROVE  HostsKept'
  <2>1. MintedFor(HostOf[s], spots_log[s]) /\ (spot[s] # Null => spot[s].host = HostOf[s])
    BY DEF HostsKept
  <2>2. spot' = [spot EXCEPT ![s] = spot'[s]] /\ spot'[s].host = HostOf[s]
    BY <1>1, <1>3, <2>1, ListingProjected
  <2> QED BY <1>1, <1>3, <2>2 DEF HostsKept
<1>4. ASSUME NEW s \in Spots, NEW succ, NEW e \in SpotEvent, WriteSpot(s, succ, e), UNCHANGED spot,
             e.type = "Created" => e.host = HostOf[s]
      PROVE  HostsKept'
  <2>1. spots_log' = [spots_log EXCEPT ![s] = Append(spots_log[s], e)]
    BY <1>4 DEF WriteSpot
  <2>2. MintedFor(HostOf[s], Append(spots_log[s], e))
    <3>1. PICK u : u = HostOf[s]
      OBVIOUS
    <3>2. PICK log : log = spots_log[s]
      OBVIOUS
    <3>3. log \in Seq(SpotEvent) /\ MintedFor(u, log) /\ (e.type = "Created" => e.host = u)
      BY <1>1, <1>4, <3>1, <3>2 DEF HostsKept
    <3>4. MintedFor(u, Append(log, e))
      BY <3>3, StillMintedFor
    <3> QED BY <3>1, <3>2, <3>4
  <2> QED BY <1>1, <1>4, <2>1, <2>2 DEF HostsKept
<1>5. ASSUME NEW s \in Spots, NEW title \in Titles, NEW a \in Addresses, CreateSpot(s, title, a),
             UNCHANGED spot
      PROVE  HostsKept'
  <2>1. PICK e : e = [type |-> "Created", host |-> HostOf[s], title |-> title, point |-> PointOf[a]]
    OBVIOUS
  <2>2. e \in SpotEvent /\ e.host = HostOf[s]
    BY <1>5, <2>1, SpotAssumption DEF CreateSpot, SpotEvent
  <2>3. WriteSpot(s, CreatedSpot(s, title, PointOf[a]), e)
    BY <1>5, <2>1 DEF CreateSpot
  <2> QED BY <1>4, <1>5, <2>2, <2>3
<1>6. ASSUME NEW r \in SpotRequests, UpdateSpot(r) \/ DeleteSpot(r), UNCHANGED spot
      PROVE  HostsKept'
  <2>1. spot_call[r] \in SpotCall
    BY <1>1, <1>6 DEF UpdateSpot, DeleteSpot, SpotsInv, SpotTypeOK
  <2>2. PICK s : s = spot_call[r].spot
    OBVIOUS
  <2>3. s \in Spots
    BY <2>1, <2>2 DEF SpotCall
  <2>4. CASE UpdateSpot(r)
    <3>1. PICK e : e = [type |-> "Updated", patch |-> spot_call[r].patch]
      OBVIOUS
    <3>2. e \in SpotEvent /\ e.type # "Created"
      BY <2>1, <2>4, <3>1 DEF UpdateSpot, SpotCall, SpotEvent
    <3>3. \E succ : WriteSpot(s, succ, e)
      BY <2>2, <2>4, <3>1 DEF UpdateSpot
    <3> QED BY <1>4, <1>6, <2>3, <3>2, <3>3
  <2>5. CASE DeleteSpot(r)
    <3>1. PICK e : e = [type |-> "Deleted"]
      OBVIOUS
    <3>2. e \in SpotEvent /\ e.type # "Created"
      BY <3>1 DEF SpotEvent
    <3>3. \E succ : WriteSpot(s, succ, e)
      BY <2>2, <2>5, <3>1 DEF DeleteSpot
    <3> QED BY <1>4, <1>6, <2>3, <3>2, <3>3
  <2> QED BY <1>6, <2>4, <2>5
<1>7. CASE WriterStep /\ UNCHANGED viewVars
  <2>1. spot' = spot
    BY <1>7 DEF viewVars
  <2>2. CASE SpotStep(focus.spots)
    <3>1. SpotNext(focus.spots)
      BY <2>2 DEF SpotStep
    <3>2. ASSUME NEW r \in SpotRequests, NEW u \in Users, NEW s \in focus.spots,
                 NEW patch \in UpdateSpotRequest \cup {Null}, AuthorizeSpot(r, u, s, patch)
          PROVE  HostsKept'
      BY <1>2, <2>1, <3>2 DEF AuthorizeSpot
    <3> QED BY <1>1, <1>5, <1>6, <2>1, <3>1, <3>2, InScope DEF SpotNext
  <2>3. CASE ~SpotStep(focus.spots)
    <3>1. UNCHANGED spots_log
      BY <1>7, <2>3
      DEF WriterStep, Tick, UserStep, BookingStep, PaymentStep, PayoutStep, Register, Rename, UserMarker,
          SeeNotifications, DismissNotification, WriteUser, Reserve, Confirm, Release, Cancel,
          Rate, WriteBooking, OpenCharge, SettleCharge, Refund, WritePayment, RequestPayout, FinishPayout,
          WritePayout, spotServiceVars
    <3> QED BY <1>2, <2>1, <3>1
  <2> QED BY <2>2, <2>3
<1>8. CASE ProjectionStep /\ UNCHANGED upstreamVars
  <2>1. UNCHANGED spots_log
    BY <1>8 DEF upstreamVars, spotServiceVars
  <2> QED
    BY <1>2, <1>3, <1>8, <2>1
    DEF ProjectionStep, ProjectUser, ProjectBooking, ProjectPayment, ProjectPayout
<1>9. CASE UNCHANGED <<upstreamVars, viewVars>>
    BY <1>2, <1>9 DEF upstreamVars, viewVars, spotServiceVars
<1> QED BY <1>7, <1>8, <1>9 DEF Next, vars

-----------------------------------------------------------------------------

FiguresInv == TablesInv /\ FiniteRows /\ ChargedOnly /\ DatesPast /\ HostsKept

\* There is nothing to add up yet.
LEMMA FiguresInit ==
    ASSUME Init
    PROVE  FiguresInv
<1>1. Rows(spot) = {} /\ Rows(booking) = {} /\ Rows(payment) = {} /\ Rows(payout) = {}
    BY DEF Init, ViewInit, Rows
<1>2. FiniteRows
    BY <1>1, FS_EmptySet DEF FiniteRows
<1>3. ChargedOnly
    BY DEF Init, UpstreamInit, ChargedOnly
<1>4. \A t : LogPast(<< >>, t) /\ ChargePast(Null, t) /\ PayoutPast(Null, t)
    BY DEF LogPast, ChargePast, PayoutPast
<1>5. /\ \A b \in Bookings : payments_log[b] = << >> /\ payment[b] = Null
      /\ \A p \in Payouts : payouts_log[p] = << >> /\ payout[p] = Null
    BY DEF Init, UpstreamInit, ViewInit
<1>6. DatesPast
    BY <1>4, <1>5 DEF DatesPast
<1>7. HostsKept
  <2>1. \A u : MintedFor(u, << >>)
    BY DEF MintedFor
  <2>2. \A s \in Spots : spots_log[s] = << >> /\ spot[s] = Null
    BY DEF Init, UpstreamInit, SpotInit, ViewInit
  <2> QED BY <2>1, <2>2 DEF HostsKept
<1> QED BY <1>2, <1>3, <1>6, <1>7, TablesInit DEF FiguresInv

\* The read model holds finitely many rows, no charge that nobody made, no
\* listing under another host and nothing dated ahead of the clock, in whatever
\* order it is projected.
THEOREM FiguresInvariance == Spec => []FiguresInv
<1>1. Init => FiguresInv
    BY FiguresInit
<1>2. FiguresInv /\ [Next]_vars => FiguresInv'
  <2> SUFFICES ASSUME FiguresInv, [Next]_vars
               PROVE  FiguresInv'
    OBVIOUS
  <2>1. TablesInv'
    BY ScopeStep, UsersStep, SpotsStep, BookingsStep, PaymentsStep, PayoutsStep DEF FiguresInv, TablesInv
  <2> QED BY <2>1, FiniteRowsStep, ChargedOnlyStep, DatesPastStep, HostsKeptStep DEF FiguresInv
<1> QED BY <1>1, <1>2, PTL DEF Spec

-----------------------------------------------------------------------------
(* What a row says *)

\* The last row of a history that is not empty.
LEMMA HistoryRow ==
    ASSUME NEW log, NEW row, NEW R, NEW Moves, NEW h, History(h, log, row, R, Moves),
           NEW v \in 1..Len(log)
    PROVE  \E m \in Moves : m[3] = h[v]
BY DEF History

\* Of a charge.
LEMMA ChargeRow ==
    ASSUME FiguresInv, NEW b \in Rows(payment)
    PROVE  /\ b \in Bookings
           /\ payment[b].booking = b /\ payment[b].host = HostOf[SpotOf[b]]
           /\ payment[b].renter = RenterOf[b]
           /\ payment[b].amount = Amount[b] /\ Amount[b] \in Nat
           /\ payment[b].status \in {"created", "succeeded", "failed", "expired", "refunded"}
           /\ payment[b].status # "refunded" <=> payment[b].refunded_at = Null
           /\ payment[b].created_at \in Nat /\ payment[b].created_at <= now
           /\ payment[b].refunded_at # Null =>
                  payment[b].refunded_at \in Nat /\ payment[b].refunded_at <= now
<1>1. PaymentsInv /\ DatesPast
    BY DEF FiguresInv, TablesInv
<1>2. b \in Bookings /\ payment[b] # Null
    BY <1>1 DEF Rows, PaymentsInv
<1>3. PICK log : log = payments_log[b]
    OBVIOUS
<1>4. PICK Moves : Moves = PaymentMoves(b)
    OBVIOUS
<1>5. PICK R : R = Charge \cup {Null}
    OBVIOUS
<1>6. PICK charge : charge = payment_db[b]
    OBVIOUS
<1>7. PICK h : History(h, log, charge, R, Moves) /\ PaymentMirrors(b, h, log, payment[b])
    BY <1>1, <1>2, <1>3, <1>4, <1>5, <1>6 DEF PaymentsInv, PaymentFollows
<1>8. PICK v : v = payment[b].version
    OBVIOUS
<1>9. v \in 1..Len(log) /\ payment[b] = ShownPayment(b, h[v], v)
    BY <1>2, <1>7, <1>8 DEF PaymentMirrors
<1>10. PICK m \in Moves : m[3] = h[v]
    BY <1>7, <1>9, HistoryRow
<1>11. h[v] \in Charge
    BY <1>4, <1>10 DEF PaymentMoves
<1>12. Amount[b] \in Nat
    BY <1>2, UpstreamAssumption
<1>13. ChargePast(payment[b], now)
    BY <1>1, <1>2 DEF DatesPast
<1>14. payment[b].created_at <= now /\ (payment[b].refunded_at # Null => payment[b].refunded_at <= now)
    BY <1>2, <1>13 DEF ChargePast
<1>15. /\ h[v].status \in {"created", "succeeded", "failed", "expired", "refunded"}
       /\ h[v].status # "refunded" <=> h[v].refunded_at = Null
       /\ h[v].created_at \in Nat /\ h[v].refunded_at \in Nat \cup {Null}
    BY <1>11 DEF Charge, PaymentRow
<1> QED BY <1>2, <1>9, <1>12, <1>14, <1>15 DEF ShownPayment

\* Of a booking.
LEMMA HeldRow ==
    ASSUME FiguresInv, NEW b \in Rows(booking)
    PROVE  /\ b \in Bookings /\ SpotOf[b] \in Spots
           /\ booking[b].spot = SpotOf[b] /\ booking[b].host = HostOf[SpotOf[b]]
           /\ booking[b].renter = RenterOf[b]
           /\ booking[b].ends_at = EndsAt[b] /\ EndsAt[b] \in Nat
           /\ booking[b].status \in STATUSES
           /\ booking[b].rating \in Ratings \cup {Null}
<1>1. BookingsInv
    BY DEF FiguresInv, TablesInv
<1>2. b \in Bookings /\ booking[b] # Null /\ booking[b] \in ViewBooking
    BY <1>1 DEF Rows, BookingsInv
<1>3. PICK h : BookingMirrors(b, h, bookings_log[b], booking[b])
    BY <1>1, <1>2 DEF BookingsInv, BookingFollows
<1>4. PICK v : v = booking[b].version
    OBVIOUS
<1>5. booking[b] = ShownBooking(b, h[v], v)
    BY <1>2, <1>3, <1>4 DEF BookingMirrors
<1>6. SpotOf[b] \in Spots /\ EndsAt[b] \in Nat
    BY <1>2, UpstreamAssumption
<1>7. booking[b].status \in STATUSES /\ booking[b].rating \in Ratings \cup {Null}
    BY <1>2 DEF ViewBooking, STATUSES
<1> QED BY <1>2, <1>5, <1>6, <1>7 DEF ShownBooking

\* Of a listing.
LEMMA ListingRow ==
    ASSUME FiguresInv, NEW s \in Rows(spot)
    PROVE  s \in Spots /\ spot[s] \in ViewSpot /\ spot[s].host = HostOf[s]
<1>1. SpotsInv /\ HostsKept
    BY DEF FiguresInv, TablesInv
<1>2. s \in Spots /\ spot[s] # Null /\ spot[s] \in ViewSpot
    BY <1>1 DEF Rows, SpotsInv
<1> QED BY <1>1, <1>2 DEF HostsKept

\* Of a withdrawal.
LEMMA WithdrawalRow ==
    ASSUME FiguresInv, NEW p \in Rows(payout)
    PROVE  /\ p \in Payouts /\ payout[p].host \in Users /\ payout[p].amount \in Nat
           /\ payout[p].status \in {"requested", "paid", "failed"}
           /\ payout[p].created_at \in Nat /\ payout[p].created_at <= now
<1>1. PayoutsInv /\ DatesPast
    BY DEF FiguresInv, TablesInv
<1>2. p \in Payouts /\ payout[p] # Null /\ payout[p] \in ViewPayout
    BY <1>1 DEF Rows, PayoutsInv
<1>3. payout[p].created_at <= now
    BY <1>1, <1>2 DEF DatesPast, PayoutPast
<1> QED BY <1>2, <1>3 DEF ViewPayout

\* The join of charges and bookings is on the charge's own id.
LEMMA JoinedIs ==
    ASSUME FiguresInv
    PROVE  /\ Joined = Rows(payment) \cap Rows(booking) /\ IsFiniteSet(Joined)
           /\ \A b \in Joined : BookingOf(b) = booking[b]
<1>1. \A b \in Rows(payment) : payment[b].booking = b
    BY ChargeRow
<1>2. Joined = Rows(payment) \cap Rows(booking)
    BY <1>1 DEF Joined
<1>3. IsFiniteSet(Joined)
  <2>1. Joined \subseteq Rows(payment) /\ IsFiniteSet(Rows(payment))
    BY <1>2 DEF FiguresInv, FiniteRows
  <2> QED BY <2>1, FS_Subset
<1> QED BY <1>1, <1>2, <1>3 DEF BookingOf

-----------------------------------------------------------------------------
(* Sums of charges *)

\* A sum of charges is a sum of what the bookings cost.
LEMMA CentsIs ==
    ASSUME FiguresInv, NEW S, S \subseteq Rows(payment)
    PROVE  /\ IsFiniteSet(S) /\ \A b \in S : Amount[b] \in Nat
           /\ Cents(S) = SumFunctionOnSet(Amount, S)
           /\ Cents(S) \in Nat
<1>1. IsFiniteSet(S)
    BY FS_Subset DEF FiguresInv, FiniteRows
<1>2. \A b \in S : Amount[b] \in Nat /\ payment[b].amount = Amount[b]
    BY ChargeRow
<1>3. PICK f : f = [b \in S |-> payment[b].amount]
    OBVIOUS
<1>4. DOMAIN f = S /\ \A b \in S : f[b] = Amount[b]
    BY <1>2, <1>3
<1>5. SumFunctionOnSet(f, S) = SumFunctionOnSet(Amount, S)
    BY <1>1, <1>4, SumSame
<1>6. SumFunction(f) = SumFunctionOnSet(f, S)
    BY <1>4, SumDomain
<1>7. SumFunctionOnSet(Amount, S) \in Nat
    BY <1>1, <1>2, SumOfNat
<1> QED BY <1>1, <1>2, <1>3, <1>5, <1>6, <1>7 DEF Cents

\* What a host earns is among the joined charges.
LEMMA EarningIs ==
    ASSUME FiguresInv, NEW u
    PROVE  /\ Earning(u) \subseteq Rows(payment) /\ Earning(u) \subseteq Rows(booking)
           /\ IsFiniteSet(Earning(u))
           /\ \A b \in Earning(u) :
                  BookingOf(b) = booking[b] /\ booking[b].host = u /\ booking[b].spot = SpotOf[b]
<1>1. /\ Joined = Rows(payment) \cap Rows(booking) /\ IsFiniteSet(Joined)
      /\ \A b \in Joined : BookingOf(b) = booking[b]
    BY JoinedIs
<1>2. Earning(u) \subseteq Joined
    BY DEF Earning
<1>3. IsFiniteSet(Earning(u))
    BY <1>1, <1>2, FS_Subset
<1>4. ASSUME NEW b \in Earning(u)
      PROVE  booking[b].host = u /\ booking[b].spot = SpotOf[b]
  <2>1. payment[b].host = HostOf[SpotOf[b]]
    BY <1>1, <1>2, ChargeRow
  <2>2. booking[b].host = HostOf[SpotOf[b]] /\ booking[b].spot = SpotOf[b]
    BY <1>1, <1>2, HeldRow
  <2> QED BY <2>1, <2>2 DEF Earning
<1> QED BY <1>1, <1>2, <1>3, <1>4

-----------------------------------------------------------------------------
(* The balance *)

Settled(u) == {b \in Earning(u) : BookingOf(b).ends_at < settled_before}
Unsettled(u) == {b \in Earning(u) : BookingOf(b).ends_at >= settled_before}

TakenOut(u) == {q \in Rows(payout) : payout[q].host = u /\ payout[q].status # "failed"}
TakenOff(u) == SumFunction([p \in TakenOut(u) |-> payout[p].amount])

\* What is withdrawn is a number.
LEMMA TakenOffIs ==
    ASSUME FiguresInv, NEW u
    PROVE  IsFiniteSet(TakenOut(u)) /\ TakenOff(u) \in Nat
<1>1. IsFiniteSet(TakenOut(u))
  <2>1. TakenOut(u) \subseteq Rows(payout) /\ IsFiniteSet(Rows(payout))
    BY DEF TakenOut, FiguresInv, FiniteRows
  <2> QED BY <2>1, FS_Subset
<1>2. PICK f : f = [p \in TakenOut(u) |-> payout[p].amount]
    OBVIOUS
<1>3. DOMAIN f = TakenOut(u) /\ \A p \in TakenOut(u) : f[p] \in Nat
    BY <1>2, WithdrawalRow DEF TakenOut
<1>4. SumFunctionOnSet(f, TakenOut(u)) \in Nat
    BY <1>1, <1>3, SumOfNat
<1>5. SumFunction(f) = SumFunctionOnSet(f, TakenOut(u))
    BY <1>3, SumDomain
<1> QED BY <1>1, <1>2, <1>4, <1>5 DEF TakenOff

\* The figures of the balance, each a sum over its own charges.
LEMMA BalanceIs ==
    ASSUME FiguresInv, NEW u
    PROVE  /\ balance_for_host(u) = [available |-> Cents(Settled(u)) - TakenOff(u),
                                     earned |-> Cents(Settled(u)), paid_out |-> TakenOff(u),
                                     pending |-> Cents(Unsettled(u))]
           /\ Cents(Settled(u)) \in Nat /\ Cents(Unsettled(u)) \in Nat /\ TakenOff(u) \in Nat
           /\ balance(u) = [available |-> Cents(Settled(u)) - TakenOff(u),
                            pending |-> Cents(Unsettled(u))]
<1>1. balance_for_host(u) = [available |-> Cents(Settled(u)) - TakenOff(u),
                             earned |-> Cents(Settled(u)), paid_out |-> TakenOff(u),
                             pending |-> Cents(Unsettled(u))]
    BY DEF balance_for_host, Settled, Unsettled, TakenOut, TakenOff
<1>2. Cents(Settled(u)) \in Nat /\ Cents(Unsettled(u)) \in Nat
  <2>1. Settled(u) \subseteq Rows(payment) /\ Unsettled(u) \subseteq Rows(payment)
    BY EarningIs DEF Settled, Unsettled
  <2> QED BY <2>1, CentsIs
<1>3. TakenOff(u) \in Nat
    BY TakenOffIs
<1> QED BY <1>1, <1>2, <1>3 DEF balance

\* A projected charge is the charge, and an unprojected one is none.
LEMMA ChargeCaughtUp ==
    ASSUME FiguresInv, CaughtUp, NEW b \in Bookings
    PROVE  /\ payment[b] = Null <=> payment_db[b] = Null
           /\ payment[b] # Null => payment[b].status = payment_db[b].status
<1>1. PaymentsInv /\ Stored(payment[b]) = Len(payments_log[b])
    BY DEF FiguresInv, TablesInv, CaughtUp
<1>2. CASE payment[b] # Null
  <2>1. payment_db[b] \in PaymentRow /\ payment[b] = ShownPayment(b, payment_db[b], Len(payments_log[b]))
    BY <1>1, <1>2, PaymentCurrent
  <2>2. payment_db[b] # Null
    BY <2>1, NullAssumption
  <2> QED BY <1>2, <2>1, <2>2 DEF ShownPayment
<1>3. CASE payment[b] = Null
  <2>1. PICK log : log = payments_log[b]
    OBVIOUS
  <2>2. PICK charge : charge = payment_db[b]
    OBVIOUS
  <2>3. PICK Moves : Moves = PaymentMoves(b)
    OBVIOUS
  <2>4. PICK R : R = Charge \cup {Null}
    OBVIOUS
  <2>5. PICK h : History(h, log, charge, R, Moves)
    BY <1>1, <2>1, <2>2, <2>3, <2>4 DEF PaymentsInv, PaymentFollows
  <2>6. log \in Seq(PaymentEvent)
    BY <1>1, <2>1 DEF PaymentsInv
  <2>7. \A m \in Moves : m[3] # Null
    BY <2>3, NullAssumption DEF PaymentMoves, Charge
  <2>8. charge = Null <=> Len(log) = 0
    BY <2>5, <2>6, <2>7, HistoryEnds
  <2> QED BY <1>1, <1>3, <2>1, <2>2, <2>8 DEF Stored
<1> QED BY <1>2, <1>3

\* So with a withdrawal.
LEMMA WithdrawalCaughtUp ==
    ASSUME FiguresInv, CaughtUp, NEW p \in Payouts
    PROVE  /\ payout[p] = Null <=> payout_db[p] = Null
           /\ payout[p] # Null => /\ payout[p].host = payout_db[p].host
                                  /\ payout[p].amount = payout_db[p].amount
                                  /\ payout[p].status = payout_db[p].status
<1>1. PayoutsInv /\ Stored(payout[p]) = Len(payouts_log[p])
    BY DEF FiguresInv, TablesInv, CaughtUp
<1>2. CASE payout[p] # Null
  <2>1. payout_db[p] \in PayoutRow /\ payout[p] = ShownPayout(payout_db[p], Len(payouts_log[p]))
    BY <1>1, <1>2, PayoutCurrent
  <2>2. payout_db[p] # Null
    BY <2>1, NullAssumption
  <2> QED BY <1>2, <2>1, <2>2 DEF ShownPayout
<1>3. CASE payout[p] = Null
  <2>1. PICK log : log = payouts_log[p]
    OBVIOUS
  <2>2. PICK withdrawal : withdrawal = payout_db[p]
    OBVIOUS
  <2>3. PICK R : R = PayoutRow \cup {Null}
    OBVIOUS
  <2>4. PICK h : History(h, log, withdrawal, R, PayoutMoves)
    BY <1>1, <2>1, <2>2, <2>3 DEF PayoutsInv, PayoutFollows
  <2>5. log \in Seq(PayoutEvent)
    BY <1>1, <2>1 DEF PayoutsInv
  <2>6. \A m \in PayoutMoves : m[3] # Null
    BY NullAssumption DEF PayoutMoves
  <2>7. withdrawal = Null <=> Len(log) = 0
    BY <2>4, <2>5, <2>6, HistoryEnds
  <2> QED BY <1>1, <1>3, <2>1, <2>2, <2>7 DEF Stored
<1> QED BY <1>2, <1>3

\* The charges payment-service pays out from.
Payable(u) ==
    {b \in Charged : /\ HostOf[SpotOf[b]] = u
                     /\ PaymentIs(b, {"succeeded"}) /\ BookingIs(b, "confirmed")
                     /\ EndsAt[b] < settled_before}

\* They are the ones the read model shows as settled.
LEMMA SettledIs ==
    ASSUME FiguresInv, CaughtUp, NEW u
    PROVE  Settled(u) = Payable(u)
<1>1. \A b \in Settled(u) : b \in Bookings
    BY EarningIs, HeldRow DEF Settled
<1>2. \A b \in Payable(u) : b \in Bookings
    BY UpstreamAssumption DEF Payable
<1>3. ASSUME NEW b \in Bookings
      PROVE  b \in Settled(u) <=> b \in Payable(u)
  <2>1. BookingsInv /\ PaymentsInv /\ ChargedOnly /\ Stored(booking[b]) = Len(bookings_log[b])
    BY DEF FiguresInv, TablesInv, CaughtUp
  <2>2. /\ booking[b] = Null <=> booking_db[b] = Null
        /\ booking[b] # Null => booking[b] = ShownBooking(b, booking_db[b], Len(bookings_log[b]))
    BY <2>1, BookingCurrent
  <2>3. /\ payment[b] = Null <=> payment_db[b] = Null
        /\ payment[b] # Null => payment[b].status = payment_db[b].status
    BY ChargeCaughtUp
  <2>4. CASE booking[b] # Null /\ payment[b] # Null
    <3>1. b \in Rows(booking) /\ b \in Rows(payment)
      BY <2>1, <2>4 DEF Rows, BookingsInv, PaymentsInv
    <3>2. b \in Joined /\ BookingOf(b) = booking[b]
      BY <3>1, JoinedIs
    <3>3. booking[b].ends_at = EndsAt[b] /\ booking[b].status = booking_db[b].status
      BY <2>2, <2>4 DEF ShownBooking
    <3>4. payment[b].host = HostOf[SpotOf[b]]
      BY <3>1, ChargeRow
    <3>5. b \in Charged
      BY <2>1, <2>3, <2>4 DEF ChargedOnly
    <3> QED BY <2>2, <2>3, <2>4, <3>2, <3>3, <3>4, <3>5
            DEF Settled, Earning, Payable, PaymentIs, BookingIs
  <2>5. CASE booking[b] = Null \/ payment[b] = Null
    <3>1. b \notin Payable(u)
      BY <2>2, <2>3, <2>5 DEF Payable, PaymentIs, BookingIs
    <3>2. b \notin Settled(u)
      BY <2>5, EarningIs DEF Settled, Rows
    <3> QED BY <3>1, <3>2
  <2> QED BY <2>4, <2>5
<1> QED BY <1>1, <1>2, <1>3

\* Two databases, one balance.
LEMMA BalanceAgreesNow ==
    ASSUME FiguresInv
    PROVE  BalanceAgrees
<1> SUFFICES ASSUME NEW u \in Users, CaughtUp
             PROVE  balance(u).available = Earned(u) - PaidOut(u)
    BY DEF BalanceAgrees
<1>1. balance(u).available = Cents(Settled(u)) - TakenOff(u)
    BY BalanceIs
<1>2. Cents(Settled(u)) = Earned(u)
  <2>1. Settled(u) \subseteq Rows(payment)
    BY EarningIs DEF Settled
  <2>2. Cents(Settled(u)) = SumFunctionOnSet(Amount, Settled(u))
    BY <2>1, CentsIs
  <2> QED BY <2>2, SettledIs DEF Earned, Payable
<1>3. TakenOff(u) = PaidOut(u)
  <2>1. PICK S : S = {q \in Payouts : /\ payout_db[q] # Null /\ payout_db[q].host = u
                                      /\ payout_db[q].status # "failed"}
    OBVIOUS
  <2>2. S = TakenOut(u)
    <3>1. DOMAIN payout = Payouts
      BY DEF FiguresInv, TablesInv, PayoutsInv
    <3> QED BY <2>1, <3>1, WithdrawalCaughtUp DEF TakenOut, Rows
  <2>3. \A p \in S : p \in Payouts /\ payout[p].amount = payout_db[p].amount
    BY <2>1, WithdrawalCaughtUp
  <2>4. [p \in S |-> payout[p].amount] = [p \in S |-> payout_db[p].amount]
    BY <2>3
  <2>5. TakenOff(u) = SumFunction([p \in S |-> payout[p].amount])
    BY <2>2 DEF TakenOff
  <2>6. PaidOut(u) = SumFunction([p \in S |-> payout_db[p].amount])
    BY <2>1 DEF PaidOut
  <2> QED BY <2>4, <2>5, <2>6
<1> QED BY <1>1, <1>2, <1>3

-----------------------------------------------------------------------------
(* The summaries *)

SpotsOf(u) == {s \in Spots : host_spot(s, u) # Null}

\* The spots a host is shown are the host's own listings.
LEMMA SpotsOfIs ==
    ASSUME FiguresInv, NEW u
    PROVE  /\ IsFiniteSet(SpotsOf(u))
           /\ \A s \in Spots : s \in SpotsOf(u) <=> find_for_host(s, u)
           /\ \A s \in SpotsOf(u) : s \in Rows(spot) /\ HostOf[s] = u
<1>1. ASSUME NEW s \in Spots, find_for_host(s, u)
      PROVE  host_spot(s, u) # Null
  <2>1. spot[s] \in ViewSpot
    BY <1>1, ListingRow DEF find_for_host
  <2>2. HostSpotProjection(s) \in HostSpotResponse
    BY <2>1 DEF HostSpotProjection, HostSpotResponse, ViewSpot
  <2> QED BY <1>1, <2>2, AnswerAssumption DEF host_spot
<1>2. \A s \in Spots : s \in SpotsOf(u) <=> find_for_host(s, u)
    BY <1>1 DEF SpotsOf, host_spot
<1>3. \A s \in SpotsOf(u) : s \in Rows(spot) /\ HostOf[s] = u
    BY <1>2, ListingRow DEF SpotsOf, find_for_host
<1>4. IsFiniteSet(SpotsOf(u))
  <2>1. SpotsOf(u) \subseteq Rows(spot) /\ IsFiniteSet(Rows(spot))
    BY <1>3 DEF FiguresInv, FiniteRows
  <2> QED BY <2>1, FS_Subset
<1> QED BY <1>2, <1>3, <1>4

\* What the spots have earned adds up to what their host has.
LEMMA EarnedBySpot ==
    ASSUME FiguresInv, NEW u,
           \A b \in Rows(booking) : booking[b].host = u => booking[b].spot \in SpotsOf(u)
    PROVE  earned_for_host(u) = SumFunction([s \in SpotsOf(u) |-> host_spot_summary(s, u).earned])
<1>1. PICK S : S = Earning(u)
    OBVIOUS
<1>2. PICK K : K = SpotsOf(u)
    OBVIOUS
<1>3. PICK h : h = [s \in K |-> host_spot_summary(s, u).earned]
    OBVIOUS
<1>4. /\ S \subseteq Rows(payment) /\ S \subseteq Rows(booking)
      /\ \A b \in S : BookingOf(b) = booking[b] /\ booking[b].host = u /\ booking[b].spot = SpotOf[b]
    BY <1>1, EarningIs
<1>5. IsFiniteSet(S) /\ (\A b \in S : Amount[b] \in Nat) /\ Cents(S) = SumFunctionOnSet(Amount, S)
    BY <1>4, CentsIs
<1>6. \A b \in S : Amount[b] \in Int /\ SpotOf[b] \in K
    BY <1>2, <1>4, <1>5
<1>7. IsFiniteSet(K)
    BY <1>2, SpotsOfIs
<1>8. ASSUME NEW s \in K
      PROVE  h[s] = SumFunctionOnSet(Amount, With(SpotOf, S, s))
  <2>1. find_for_host(s, u)
    BY <1>2, SpotsOfIs DEF SpotsOf
  <2>2. host_spot_summary(s, u).earned = Cents({b \in S : BookingOf(b).spot = s})
    BY <1>1, <2>1 DEF host_spot_summary, earned_for_host_spot
  <2>3. {b \in S : BookingOf(b).spot = s} = With(SpotOf, S, s)
    BY <1>4 DEF With
  <2>4. PICK T : T = With(SpotOf, S, s)
    OBVIOUS
  <2>5. T \subseteq Rows(payment)
    BY <1>4, <2>4 DEF With
  <2>6. Cents(T) = SumFunctionOnSet(Amount, T)
    BY <2>5, CentsIs
  <2> QED BY <1>3, <2>2, <2>3, <2>4, <2>6
<1>9. SumFunctionOnSet(Amount, S) = SumFunctionOnSet(h, K)
    BY <1>5, <1>6, <1>7, <1>8, SumGroups
<1>10. SumFunction(h) = SumFunctionOnSet(h, K)
    BY <1>3, SumDomain
<1> QED BY <1>1, <1>2, <1>3, <1>5, <1>9, <1>10 DEF earned_for_host

Over(S) == {b \in S : booking[b].status = "confirmed" /\ booking[b].ends_at <= now}
RatedOf(S) == {b \in S : booking[b].rating # Null}
HostedBy(u) == {b \in Rows(booking) : booking[b].host = u}

\* The two counts of the figures.
LEMMA CountsAre ==
    ASSUME NEW S
    PROVE  /\ BookingStatsProjection(S).bookings = Cardinality(Over(S))
           /\ BookingStatsProjection(S).ratings = Cardinality(RatedOf(S))
BY DEF BookingStatsProjection, Over, RatedOf

\* A count of bookings by host is the sum of the counts of the host's spots.
LEMMA CountedBySpot ==
    ASSUME FiguresInv, NEW u,
           \A b \in Rows(booking) : booking[b].host = u => booking[b].spot \in SpotsOf(u),
           NEW P, NEW h, \A s \in SpotsOf(u) : h[s] = Cardinality(BookingsOf(s) \cap P)
    PROVE  Cardinality(HostedBy(u) \cap P) = SumFunctionOnSet(h, SpotsOf(u))
<1>1. PICK S : S = HostedBy(u) \cap P
    OBVIOUS
<1>2. PICK K : K = SpotsOf(u)
    OBVIOUS
<1>3. IsFiniteSet(S)
  <2>1. S \subseteq Rows(booking) /\ IsFiniteSet(Rows(booking))
    BY <1>1 DEF HostedBy, FiguresInv, FiniteRows
  <2> QED BY <2>1, FS_Subset
<1>4. IsFiniteSet(K)
    BY <1>2, SpotsOfIs
<1>5. \A b \in Rows(booking) : booking[b].spot = SpotOf[b] /\ booking[b].host = HostOf[SpotOf[b]]
    BY HeldRow
<1>6. \A b \in S : SpotOf[b] \in K
    BY <1>1, <1>2, <1>5 DEF HostedBy
<1>7. ASSUME NEW s \in K
      PROVE  h[s] = Cardinality(With(SpotOf, S, s))
  <2>1. HostOf[s] = u
    BY <1>2, SpotsOfIs
  <2>2. BookingsOf(s) \cap P = With(SpotOf, S, s)
    BY <1>1, <1>5, <2>1 DEF BookingsOf, HostedBy, With
  <2> QED BY <1>2, <2>2
<1>8. Cardinality(S) = SumFunctionOnSet(h, K)
    BY <1>3, <1>4, <1>6, <1>7, CountGroups
<1> QED BY <1>1, <1>2, <1>8

\* What has been earned has settled or has not.
LEMMA EarnedOrPending ==
    ASSUME FiguresInv, NEW u
    PROVE  earned_for_host(u) = balance_for_host(u).earned + balance_for_host(u).pending
<1>1. PICK S : S = Earning(u)
    OBVIOUS
<1>2. S \subseteq Rows(payment) /\ S \subseteq Rows(booking) /\ \A b \in S : BookingOf(b) = booking[b]
    BY <1>1, EarningIs
<1>3. IsFiniteSet(S) /\ (\A b \in S : Amount[b] \in Nat) /\ Cents(S) = SumFunctionOnSet(Amount, S)
    BY <1>2, CentsIs
<1>4. PICK T : T = Settled(u)
    OBVIOUS
<1>5. PICK U : U = Unsettled(u)
    OBVIOUS
<1>6. T \subseteq S /\ U = S \ T
  <2>1. \A b \in S : BookingOf(b).ends_at \in Nat
    BY <1>2, HeldRow
  <2>2. settled_before \in Int
    BY InScope, UpstreamAssumption DEF FiguresInv, TablesInv, settled_before
  <2> QED BY <1>1, <1>4, <1>5, <2>1, <2>2 DEF Settled, Unsettled
<1>7. Cents(T) = SumFunctionOnSet(Amount, T) /\ Cents(U) = SumFunctionOnSet(Amount, U)
  <2>1. T \subseteq Rows(payment) /\ U \subseteq Rows(payment)
    BY <1>2, <1>6
  <2> QED BY <2>1, CentsIs
<1>8. SumFunctionOnSet(Amount, S) = SumFunctionOnSet(Amount, T) + SumFunctionOnSet(Amount, S \ T)
  <2>1. \A b \in S : Amount[b] \in Int
    BY <1>3
  <2> QED BY <1>3, <1>6, <2>1, SumPart
<1>9. balance_for_host(u).earned = Cents(T) /\ balance_for_host(u).pending = Cents(U)
    BY <1>4, <1>5, BalanceIs
<1> QED BY <1>1, <1>3, <1>6, <1>7, <1>8, <1>9 DEF earned_for_host

\* Two months have no charge in common.
LEMMA MonthsApart ==
    ASSUME FiguresInv, NEW u
    PROVE  host_summary(u).earned_this_month + host_summary(u).earned_last_month <= earned_for_host(u)
<1>1. PICK S : S = Earning(u)
    OBVIOUS
<1>2. S \subseteq Rows(payment)
    BY <1>1, EarningIs
<1>3. IsFiniteSet(S) /\ (\A b \in S : Amount[b] \in Nat) /\ Cents(S) = SumFunctionOnSet(Amount, S)
    BY <1>2, CentsIs
<1>4. PICK t : t = label(now)
    OBVIOUS
<1>5. PICK T : T = {b \in S : Within(payment[b].created_at, bounds(t))}
    OBVIOUS
<1>6. PICK U : U = {b \in S : Within(payment[b].created_at, bounds(t - 1))}
    OBVIOUS
<1>7. host_summary(u).earned_this_month = Cents(T) /\ host_summary(u).earned_last_month = Cents(U)
    BY <1>1, <1>4, <1>5, <1>6 DEF host_summary, earned_by_month_for_host
<1>8. T \subseteq S /\ U \subseteq S /\ T \cap U = {}
  <2>1. t \in Int
    BY <1>4, InScope, QueryAssumption DEF FiguresInv, TablesInv, label
  <2>2. (t - 1 + 1) * MONTH = t * MONTH /\ t * MONTH \in Int
    BY <2>1, QueryAssumption
  <2>3. \A b \in S : payment[b].created_at \in Nat
    BY <1>2, ChargeRow
  <2> QED BY <1>5, <1>6, <2>2, <2>3 DEF Within, bounds
<1>9. /\ IsFiniteSet(T) /\ IsFiniteSet(U) /\ IsFiniteSet(T \cup U) /\ T \cup U \subseteq S
  <2>1. T \cup U \subseteq S
    BY <1>8
  <2> QED BY <1>3, <1>8, <2>1, FS_Subset
<1>10. Cents(T) = SumFunctionOnSet(Amount, T) /\ Cents(U) = SumFunctionOnSet(Amount, U)
  <2>1. T \subseteq Rows(payment) /\ U \subseteq Rows(payment)
    BY <1>2, <1>8
  <2> QED BY <2>1, CentsIs
<1>11. SumFunctionOnSet(Amount, T \cup U) = SumFunctionOnSet(Amount, T) + SumFunctionOnSet(Amount, U)
  <2>1. \A b \in T \cup U : Amount[b] \in Int
    BY <1>3, <1>9
  <2> QED BY <1>8, <1>9, <2>1, SumUnion
<1>12. SumFunctionOnSet(Amount, T \cup U) <= SumFunctionOnSet(Amount, S)
    BY <1>3, <1>9, SumOfPart
<1> QED BY <1>1, <1>3, <1>7, <1>10, <1>11, <1>12 DEF earned_for_host

\* The listings with somebody on them.
LEMMA BookedNow ==
    ASSUME FiguresInv, NEW u
    PROVE  host_summary(u).booked_now =
               Cardinality({s \in SpotsOf(u) : \E b \in booked(s, u) :
                                booking[b].status = "confirmed" /\ active_now(b)})
<1>1. PICK S : S = {s \in SpotsOf(u) : \E b \in booked(s, u) :
                        booking[b].status = "confirmed" /\ active_now(b)}
    OBVIOUS
<1>2. PICK B : B = {b \in find_unfinished_for_host(u) : active_now(b)}
    OBVIOUS
<1>3. \A b \in Rows(booking) : /\ SpotOf[b] \in Spots /\ booking[b].spot = SpotOf[b]
                               /\ booking[b].host = HostOf[SpotOf[b]]
    BY HeldRow
<1>4. ASSUME NEW b \in B
      PROVE  booking[b].spot \in S
  <2>1. /\ b \in Rows(booking) /\ booking[b].host = u /\ booking[b].spot \in Rows(spot)
        /\ booking[b].status = "confirmed" /\ booking[b].ends_at > now /\ active_now(b)
    BY <1>2 DEF find_unfinished_for_host
  <2>2. PICK s : s = booking[b].spot
    OBVIOUS
  <2>3. s \in Rows(spot) /\ HostOf[s] = u /\ s \in Spots /\ spot[s].host = u
    BY <1>3, <2>1, <2>2, ListingRow
  <2>4. find_for_host(s, u) /\ s \in SpotsOf(u)
    BY <2>3, SpotsOfIs DEF find_for_host
  <2>5. b \in booked(s, u)
    BY <2>1, <2>2, <2>4 DEF booked, find_booked_for_host_spot, Taken, BookingsOf, TAKEN
  <2> QED BY <1>1, <2>1, <2>2, <2>4, <2>5
<1>5. ASSUME NEW s \in S
      PROVE  \E b \in B : booking[b].spot = s
  <2>1. s \in SpotsOf(u) /\ s \in Spots
    BY <1>1 DEF SpotsOf
  <2>2. find_for_host(s, u) /\ s \in Rows(spot) /\ HostOf[s] = u
    BY <2>1, SpotsOfIs
  <2>3. PICK b \in booked(s, u) : booking[b].status = "confirmed" /\ active_now(b)
    BY <1>1
  <2>4. b \in Rows(booking) /\ booking[b].spot = s /\ booking[b].ends_at > now
    BY <2>2, <2>3 DEF booked, find_booked_for_host_spot, Taken, BookingsOf
  <2>5. booking[b].host = u
    BY <1>3, <2>2, <2>4
  <2> QED BY <1>2, <2>2, <2>3, <2>4, <2>5 DEF find_unfinished_for_host
<1>6. {booking[b].spot : b \in B} = S
    BY <1>4, <1>5
<1> QED BY <1>1, <1>2, <1>6 DEF host_summary

\* A host's figures are the sums of those of the host's spots.
LEMMA SummariesAddUpNow ==
    ASSUME FiguresInv
    PROVE  SummariesAddUp
<1> SUFFICES ASSUME NEW u \in Users
             PROVE  LET whole == host_summary(u) IN
                    /\ (\A b \in Rows(booking) : booking[b].host = u => booking[b].spot \in SpotsOf(u)) =>
                           /\ whole.earned =
                                  SumFunction([s \in SpotsOf(u) |-> host_spot_summary(s, u).earned])
                           /\ whole.bookings =
                                  SumFunction([s \in SpotsOf(u) |-> host_spot_summary(s, u).bookings])
                           /\ user_summary(u).ratings =
                                  SumFunction([s \in SpotsOf(u) |-> public_spot_summary(s).ratings])
                    /\ whole.earned = balance_for_host(u).earned + balance_for_host(u).pending
                    /\ whole.earned_this_month + whole.earned_last_month <= whole.earned
                    /\ whole.bookings = user_summary(u).bookings
                    /\ whole.booked_now =
                           Cardinality({s \in SpotsOf(u) : \E b \in booked(s, u) :
                                            booking[b].status = "confirmed" /\ active_now(b)})
    BY DEF SummariesAddUp, SpotsOf
<1>1. host_summary(u).earned = earned_for_host(u)
    BY DEF host_summary
<1>2. /\ stats_for_host(u) = BookingStatsProjection(HostedBy(u))
      /\ \A s : stats_for_spot(s) = BookingStatsProjection(BookingsOf(s))
    BY DEF stats_for_host, stats_for_spot, HostedBy
<1>3. /\ host_summary(u).bookings = Cardinality(Over(HostedBy(u)))
      /\ user_summary(u).bookings = Cardinality(Over(HostedBy(u)))
      /\ user_summary(u).ratings = Cardinality(RatedOf(HostedBy(u)))
    BY <1>2, CountsAre DEF host_summary, user_summary
<1>4. ASSUME \A b \in Rows(booking) : booking[b].host = u => booking[b].spot \in SpotsOf(u)
      PROVE  /\ host_summary(u).bookings =
                    SumFunction([s \in SpotsOf(u) |-> host_spot_summary(s, u).bookings])
             /\ user_summary(u).ratings =
                    SumFunction([s \in SpotsOf(u) |-> public_spot_summary(s).ratings])
  <2>1. ASSUME NEW s \in SpotsOf(u)
        PROVE  /\ host_spot_summary(s, u).bookings = Cardinality(Over(BookingsOf(s)))
               /\ public_spot_summary(s).ratings = Cardinality(RatedOf(BookingsOf(s)))
    <3>1. find_for_host(s, u)
      BY SpotsOfIs DEF SpotsOf
    <3> QED BY <1>2, <3>1, CountsAre DEF host_spot_summary, public_spot_summary
  <2>2. host_summary(u).bookings =
            SumFunction([s \in SpotsOf(u) |-> host_spot_summary(s, u).bookings])
    <3>1. PICK P : P = Over(Rows(booking))
      OBVIOUS
    <3>2. PICK h : h = [s \in SpotsOf(u) |-> host_spot_summary(s, u).bookings]
      OBVIOUS
    <3>3. Over(HostedBy(u)) = HostedBy(u) \cap P
      BY <3>1 DEF Over, HostedBy
    <3>4. \A s : Over(BookingsOf(s)) = BookingsOf(s) \cap P
      BY <3>1 DEF Over, BookingsOf
    <3>5. \A s \in SpotsOf(u) : h[s] = Cardinality(BookingsOf(s) \cap P)
      BY <2>1, <3>2, <3>4
    <3>6. Cardinality(HostedBy(u) \cap P) = SumFunctionOnSet(h, SpotsOf(u))
      BY <1>4, <3>5, CountedBySpot
    <3>7. SumFunction(h) = SumFunctionOnSet(h, SpotsOf(u))
      BY <3>2, SumDomain
    <3> QED BY <1>3, <3>2, <3>3, <3>6, <3>7
  <2>3. user_summary(u).ratings =
            SumFunction([s \in SpotsOf(u) |-> public_spot_summary(s).ratings])
    <3>1. PICK P : P = RatedOf(Rows(booking))
      OBVIOUS
    <3>2. PICK h : h = [s \in SpotsOf(u) |-> public_spot_summary(s).ratings]
      OBVIOUS
    <3>3. RatedOf(HostedBy(u)) = HostedBy(u) \cap P
      BY <3>1 DEF RatedOf, HostedBy
    <3>4. \A s : RatedOf(BookingsOf(s)) = BookingsOf(s) \cap P
      BY <3>1 DEF RatedOf, BookingsOf
    <3>5. \A s \in SpotsOf(u) : h[s] = Cardinality(BookingsOf(s) \cap P)
      BY <2>1, <3>2, <3>4
    <3>6. Cardinality(HostedBy(u) \cap P) = SumFunctionOnSet(h, SpotsOf(u))
      BY <1>4, <3>5, CountedBySpot
    <3>7. SumFunction(h) = SumFunctionOnSet(h, SpotsOf(u))
      BY <3>2, SumDomain
    <3> QED BY <1>3, <3>2, <3>3, <3>6, <3>7
  <2> QED BY <2>2, <2>3
<1> QED BY <1>1, <1>3, <1>4, EarnedBySpot, EarnedOrPending, MonthsApart, BookedNow

-----------------------------------------------------------------------------
(* Months *)

\* An instant is in its month, and in no other.
LEMMA MonthOf ==
    ASSUME NEW t \in Nat
    PROVE  /\ label(t) \in Nat
           /\ Within(t, bounds(label(t)))
           /\ \A m \in Int : Within(t, bounds(m)) => m = label(t)
<1>1. PICK n : n = MONTH
    OBVIOUS
<1>2. n \in Nat \ {0}
    BY <1>1, QueryAssumption
<1>3. PICK q : q = t \div n
    OBVIOUS
<1>4. q \in Int /\ q * n <= t /\ t < (q + 1) * n
    BY <1>2, <1>3
<1>5. label(t) = q
    BY <1>1, <1>3 DEF label
<1>6. 0 <= q
  <2>1. 0 * n <= t
    BY <1>2
  <2> QED BY <1>2, <1>4, <2>1, MultiplesOrder
<1>7. \A m : bounds(m)[1] = m * n /\ bounds(m)[2] = (m + 1) * n
    BY <1>1 DEF bounds
<1>8. t # Null
    BY NullAssumption
<1>9. ASSUME NEW m \in Int, Within(t, bounds(m))
      PROVE  m = q
  <2>1. m * n <= t /\ t < (m + 1) * n
    BY <1>7, <1>9 DEF Within
  <2>2. m <= q
    BY <1>2, <1>4, <2>1, MultiplesOrder
  <2>3. q <= m
    BY <1>2, <1>4, <2>1, MultiplesOrder
  <2> QED BY <1>4, <2>2, <2>3
<1> QED BY <1>4, <1>5, <1>6, <1>7, <1>8, <1>9 DEF Within

\* A month that begins no later than an instant is no later than its month.
LEMMA MonthsGrow ==
    ASSUME NEW s \in Nat, NEW t \in Nat, s <= t
    PROVE  label(s) <= label(t)
<1>1. PICK n : n = MONTH
    OBVIOUS
<1>2. PICK p, q : p = label(s) /\ q = label(t)
    OBVIOUS
<1>3. n \in Nat \ {0} /\ p \in Int /\ q \in Int
    BY <1>1, <1>2, MonthOf, QueryAssumption
<1>4. p * n <= s /\ t < (q + 1) * n
    BY <1>1, <1>2, MonthOf DEF Within, bounds
<1>5. p * n \in Int /\ p * n <= t
    BY <1>3, <1>4
<1>6. p <= q
    BY <1>3, <1>4, <1>5, MultiplesOrder
<1> QED BY <1>2, <1>6

\* What is not later than the clock is in one of the months of a behaviour.
LEMMA InMonths ==
    ASSUME FiguresInv, NEW t \in Nat, t <= now
    PROVE  label(t) \in Months /\ label(t) <= label(now) /\ label(now) \in Months
<1>1. now \in Nat /\ now <= MaxTime /\ MaxTime \in Nat
    BY UpstreamAssumption DEF FiguresInv, TablesInv, Scope
<1>2. label(t) <= label(now) /\ label(now) <= label(MaxTime)
    BY <1>1, MonthsGrow
<1>3. label(t) \in Nat /\ label(now) \in Nat /\ label(MaxTime) \in Nat
    BY <1>1, MonthOf
<1> QED BY <1>2, <1>3 DEF Months

-----------------------------------------------------------------------------
(* The wallet *)

Line(r) ==
    [id |-> r.id, kind |-> r.kind, amount_cents |-> r.amount_cents,
     occurred_at |-> r.occurred_at, pending |-> pending(r)]

ChargeEntry(b) == Entry(b, "in", "in", payment[b].amount, payment[b].created_at, Ripens(b), FALSE)
RefundEntry(b) ==
    Entry(b, "refund-out", "refund", -payment[b].amount, payment[b].refunded_at, Null, FALSE)
PayoutEntry(p) ==
    Entry(p, "payout", "payout", -payout[p].amount, payout[p].created_at, Null,
          payout[p].status = "requested")

Earners(u) == {b \in Joined : payment[b].host = u /\ payment[b].status \in MOVED}
Returned(u) == {b \in Joined : payment[b].host = u /\ payment[b].refunded_at # Null}

\* A line of the wallet says what its entry says.
LEMMA LineIs ==
    ASSUME NEW r
    PROVE  /\ Line(r).id = r.id /\ Line(r).kind = r.kind /\ Line(r).amount_cents = r.amount_cents
           /\ Line(r).pending = pending(r)
BY DEF Line

\* And an entry what its row says.
LEMMA EntriesAre ==
    /\ \A b : /\ ChargeEntry(b).id = <<b, "in">> /\ ChargeEntry(b).kind = "in"
              /\ ChargeEntry(b).amount_cents = payment[b].amount
              /\ ChargeEntry(b).settles_at = Ripens(b)
    /\ \A b : /\ RefundEntry(b).id = <<b, "refund-out">> /\ RefundEntry(b).kind = "refund"
              /\ RefundEntry(b).amount_cents = -payment[b].amount
              /\ RefundEntry(b).settles_at = Null
    /\ \A p : /\ PayoutEntry(p).id = <<p, "payout">> /\ PayoutEntry(p).kind = "payout"
              /\ PayoutEntry(p).amount_cents = -payout[p].amount
BY DEF ChargeEntry, RefundEntry, PayoutEntry, Entry

\* An entry with no flag of its own is pending by its date.
LEMMA Unflagged ==
    /\ \A b : ~ChargeEntry(b).pending_now
    /\ \A b : ~RefundEntry(b).pending_now
BY Zenon DEF ChargeEntry, RefundEntry, Entry

\* The host's lines of a month.
LEMMA HostMonth ==
    ASSUME NEW u, NEW range, NEW r
    PROVE  (r \in find_month_for_account(u, range) /\ r.id[2] \in {"in", "refund-out", "payout"}) <=>
               \/ \E b \in Earners(u) : Within(payment[b].created_at, range) /\ r = ChargeEntry(b)
               \/ \E b \in Returned(u) : Within(payment[b].refunded_at, range) /\ r = RefundEntry(b)
               \/ \E p \in TakenOut(u) : Within(payout[p].created_at, range) /\ r = PayoutEntry(p)
<1>1. r \in MoneyIn(u, range) <=>
          \E b \in Earners(u) : Within(payment[b].created_at, range) /\ r = ChargeEntry(b)
    BY DEF MoneyIn, Charges, Earners, ChargeEntry
<1>2. r \in RefundOut(u, range) <=>
          \E b \in Returned(u) : Within(payment[b].refunded_at, range) /\ r = RefundEntry(b)
    BY DEF RefundOut, Refunds, Returned, RefundEntry, Within
<1>3. r \in PayoutRows(u, range) <=>
          \E p \in TakenOut(u) : Within(payout[p].created_at, range) /\ r = PayoutEntry(p)
    BY DEF PayoutRows, TakenOut, PayoutEntry
<1>4. r \in MoneyOut(u, range) => r.id[2] = "out"
    BY DEF MoneyOut, Entry
<1>5. r \in RefundIn(u, range) => r.id[2] = "refund-in"
    BY DEF RefundIn, Entry
<1>6. r \in MoneyIn(u, range) => r.id[2] = "in"
    BY <1>1, EntriesAre
<1>7. r \in RefundOut(u, range) => r.id[2] = "refund-out"
    BY <1>2, EntriesAre
<1>8. r \in PayoutRows(u, range) => r.id[2] = "payout"
    BY <1>3, EntriesAre
<1>9. r \in find_month_for_account(u, range) <=>
          \/ r \in MoneyIn(u, range) \/ r \in MoneyOut(u, range) \/ r \in RefundOut(u, range)
          \/ r \in RefundIn(u, range) \/ r \in PayoutRows(u, range)
    BY DEF find_month_for_account
<1> QED BY <1>1, <1>2, <1>3, <1>4, <1>5, <1>6, <1>7, <1>8, <1>9

\* Over all months, a host's lines are those of the host's charges, refunds and withdrawals.
LEMMA HostRowsAre ==
    ASSUME FiguresInv, NEW u, NEW x
    PROVE  x \in HostRows(u) <=>
               \/ \E b \in Earners(u) : x = Line(ChargeEntry(b))
               \/ \E b \in Returned(u) : x = Line(RefundEntry(b))
               \/ \E p \in TakenOut(u) : x = Line(PayoutEntry(p))
<1>1. \A m : wallet(u, m).transactions = {Line(r) : r \in find_month_for_account(u, bounds(m))}
    BY DEF wallet, Line
<1>2. x \in HostRows(u) <=>
          \E m \in Months : \E r \in find_month_for_account(u, bounds(m)) :
              x = Line(r) /\ x.id[2] \in {"in", "refund-out", "payout"}
    BY <1>1 DEF HostRows
<1>3. ASSUME x \in HostRows(u)
      PROVE  \/ \E b \in Earners(u) : x = Line(ChargeEntry(b))
             \/ \E b \in Returned(u) : x = Line(RefundEntry(b))
             \/ \E p \in TakenOut(u) : x = Line(PayoutEntry(p))
  <2>1. PICK m \in Months : \E r \in find_month_for_account(u, bounds(m)) :
            x = Line(r) /\ x.id[2] \in {"in", "refund-out", "payout"}
    BY <1>2, <1>3
  <2>2. PICK r \in find_month_for_account(u, bounds(m)) :
            x = Line(r) /\ x.id[2] \in {"in", "refund-out", "payout"}
    BY <2>1
  <2>3. r.id[2] \in {"in", "refund-out", "payout"}
    BY <2>2, LineIs
  <2>4. \/ \E b \in Earners(u) : r = ChargeEntry(b)
        \/ \E b \in Returned(u) : r = RefundEntry(b)
        \/ \E p \in TakenOut(u) : r = PayoutEntry(p)
    BY <2>3, HostMonth
  <2> QED BY <2>2, <2>4
<1>4. ASSUME NEW t \in Nat, t <= now
      PROVE  label(t) \in Months /\ Within(t, bounds(label(t)))
    BY <1>4, InMonths, MonthOf
<1>5. ASSUME NEW m \in Months, NEW r, x = Line(r), r.id[2] \in {"in", "refund-out", "payout"},
             r \in find_month_for_account(u, bounds(m))
      PROVE  x \in HostRows(u)
  <2>1. x.id = r.id
    BY <1>5, LineIs
  <2> QED BY <1>2, <1>5, <2>1
<1>6. ASSUME NEW b \in Earners(u), x = Line(ChargeEntry(b))
      PROVE  x \in HostRows(u)
  <2>1. payment[b].created_at \in Nat /\ payment[b].created_at <= now
    BY JoinedIs, ChargeRow DEF Earners
  <2>2. PICK m, r : m = label(payment[b].created_at) /\ r = ChargeEntry(b)
    OBVIOUS
  <2>3. m \in Months /\ Within(payment[b].created_at, bounds(m))
    BY <1>4, <2>1, <2>2
  <2>4. r \in find_month_for_account(u, bounds(m)) /\ r.id[2] \in {"in", "refund-out", "payout"}
    BY <2>2, <2>3, HostMonth
  <2> QED BY <1>5, <1>6, <2>2, <2>3, <2>4
<1>7. ASSUME NEW b \in Returned(u), x = Line(RefundEntry(b))
      PROVE  x \in HostRows(u)
  <2>1. payment[b].refunded_at \in Nat /\ payment[b].refunded_at <= now
    BY JoinedIs, ChargeRow DEF Returned
  <2>2. PICK m, r : m = label(payment[b].refunded_at) /\ r = RefundEntry(b)
    OBVIOUS
  <2>3. m \in Months /\ Within(payment[b].refunded_at, bounds(m))
    BY <1>4, <2>1, <2>2
  <2>4. r \in find_month_for_account(u, bounds(m)) /\ r.id[2] \in {"in", "refund-out", "payout"}
    BY <2>2, <2>3, HostMonth
  <2> QED BY <1>5, <1>7, <2>2, <2>3, <2>4
<1>8. ASSUME NEW p \in TakenOut(u), x = Line(PayoutEntry(p))
      PROVE  x \in HostRows(u)
  <2>1. payout[p].created_at \in Nat /\ payout[p].created_at <= now
    BY WithdrawalRow DEF TakenOut
  <2>2. PICK m, r : m = label(payout[p].created_at) /\ r = PayoutEntry(p)
    OBVIOUS
  <2>3. m \in Months /\ Within(payout[p].created_at, bounds(m))
    BY <1>4, <2>1, <2>2
  <2>4. r \in find_month_for_account(u, bounds(m)) /\ r.id[2] \in {"in", "refund-out", "payout"}
    BY <2>2, <2>3, HostMonth
  <2> QED BY <1>5, <1>8, <2>2, <2>3, <2>4
<1> QED BY <1>3, <1>6, <1>7, <1>8

Certain(u) == \A b \in Joined : payment[b].host = u /\ payment[b].status = "succeeded" =>
                                    BookingOf(b).status = "confirmed"

\* A charge that is not pending has settled, or was given back.
LEMMA NotPending ==
    ASSUME FiguresInv, NEW u, Certain(u)
    PROVE  /\ \A b \in Earners(u) : ~pending(ChargeEntry(b)) <=> b \in Settled(u) \cup Returned(u)
           /\ Settled(u) \cup Returned(u) \subseteq Earners(u)
           /\ Settled(u) \cap Returned(u) = {}
<1>1. /\ Joined \subseteq Rows(payment) /\ Joined \subseteq Rows(booking)
      /\ \A b \in Joined : BookingOf(b) = booking[b]
    BY JoinedIs
<1>2. ASSUME NEW b \in Joined
      PROVE  payment[b].status # "refunded" <=> payment[b].refunded_at = Null
    BY <1>1, ChargeRow
<1>3. Settled(u) \cup Returned(u) \subseteq Earners(u) /\ Settled(u) \cap Returned(u) = {}
    BY <1>2 DEF Settled, Returned, Earners, Earning, MOVED
<1>4. ASSUME NEW b \in Earners(u)
      PROVE  ~pending(ChargeEntry(b)) <=> b \in Settled(u) \cup Returned(u)
  <2>1. /\ b \in Joined /\ payment[b].host = u
        /\ payment[b].status = "succeeded" \/ payment[b].status = "refunded"
    BY DEF Earners, MOVED
  <2>2. pending(ChargeEntry(b)) <=> Ripens(b) # Null /\ Ripens(b) >= settled_before
    BY EntriesAre, Unflagged DEF pending
  <2>3. BookingOf(b).ends_at \in Nat /\ BookingOf(b).ends_at # Null
    BY <1>1, <2>1, HeldRow, NullAssumption
  <2>4. settled_before \in Int
    BY InScope, UpstreamAssumption DEF FiguresInv, TablesInv, settled_before
  <2>5. CASE payment[b].status = "succeeded"
    <3>1. BookingOf(b).status = "confirmed"
      BY <2>1, <2>5 DEF Certain
    <3>2. Ripens(b) = BookingOf(b).ends_at
      BY <2>5, <3>1 DEF Ripens
    <3>3. b \notin Returned(u)
      BY <1>2, <2>1, <2>5 DEF Returned
    <3>4. b \in Settled(u) <=> BookingOf(b).ends_at < settled_before
      BY <2>1, <2>5, <3>1 DEF Settled, Earning
    <3> QED BY <2>2, <2>3, <2>4, <3>2, <3>3, <3>4
  <2>6. CASE payment[b].status = "refunded"
    <3>1. Ripens(b) = Null
      BY <2>6 DEF Ripens
    <3>2. b \in Returned(u)
      BY <1>2, <2>1, <2>6 DEF Returned
    <3> QED BY <2>2, <3>1, <3>2
  <2> QED BY <2>1, <2>5, <2>6
<1> QED BY <1>3, <1>4

\* The lines that count: what has settled, what was refunded, twice, and what was withdrawn.
LEMMA CountedLines ==
    ASSUME FiguresInv, NEW u, Certain(u), NEW x
    PROVE  (x \in HostRows(u) /\ (x.kind = "payout" \/ ~x.pending)) <=>
               \/ \E b \in Settled(u) \cup Returned(u) : x = Line(ChargeEntry(b))
               \/ \E b \in Returned(u) : x = Line(RefundEntry(b))
               \/ \E p \in TakenOut(u) : x = Line(PayoutEntry(p))
<1>1. \A b \in Earners(u) : ~pending(ChargeEntry(b)) <=> b \in Settled(u) \cup Returned(u)
    BY NotPending
<1>2. Settled(u) \cup Returned(u) \subseteq Earners(u)
    BY NotPending
<1>3. ASSUME NEW b
      PROVE  /\ Line(ChargeEntry(b)).kind = "in"
             /\ ~Line(ChargeEntry(b)).pending <=> ~pending(ChargeEntry(b))
    BY LineIs, EntriesAre
<1>4. ASSUME NEW b
      PROVE  ~Line(RefundEntry(b)).pending
  <2>1. ~pending(RefundEntry(b))
    BY EntriesAre, Unflagged DEF pending
  <2> QED BY <2>1, LineIs
<1>5. \A p : Line(PayoutEntry(p)).kind = "payout"
    BY LineIs, EntriesAre
<1>6. x \in HostRows(u) <=>
          \/ \E b \in Earners(u) : x = Line(ChargeEntry(b))
          \/ \E b \in Returned(u) : x = Line(RefundEntry(b))
          \/ \E p \in TakenOut(u) : x = Line(PayoutEntry(p))
    BY HostRowsAre
<1> QED BY <1>1, <1>2, <1>3, <1>4, <1>5, <1>6

\* A line names its row and the part it plays.
LEMMA LineIds ==
    /\ \A b : Line(ChargeEntry(b)).id = <<b, "in">>
    /\ \A b : Line(RefundEntry(b)).id = <<b, "refund-out">>
    /\ \A p : Line(PayoutEntry(p)).id = <<p, "payout">>
BY LineIs, EntriesAre

\* And what it is worth.
LEMMA LineAmounts ==
    /\ \A b : Line(ChargeEntry(b)).amount_cents = payment[b].amount
    /\ \A b : Line(RefundEntry(b)).amount_cents = -payment[b].amount
    /\ \A p : Line(PayoutEntry(p)).amount_cents = -payout[p].amount
BY LineIs, EntriesAre

\* What counts adds up to what has settled without what was withdrawn.
LEMMA LinesAddUp ==
    ASSUME FiguresInv, NEW u, Certain(u),
           NEW S, \A x : x \in S <=>
                      \/ \E b \in Settled(u) \cup Returned(u) : x = Line(ChargeEntry(b))
                      \/ \E b \in Returned(u) : x = Line(RefundEntry(b))
                      \/ \E p \in TakenOut(u) : x = Line(PayoutEntry(p))
    PROVE  SumFunction([r \in S |-> r.amount_cents]) = balance(u).available
<1>1. PICK T, R, P : T = Settled(u) /\ R = Returned(u) /\ P = TakenOut(u)
    OBVIOUS
<1>2. PICK A : A = T \cup R
    OBVIOUS
<1>3. PICK m1 : m1 = [b \in A |-> Line(ChargeEntry(b))]
    OBVIOUS
<1>4. PICK m2 : m2 = [b \in R |-> Line(RefundEntry(b))]
    OBVIOUS
<1>5. PICK m3 : m3 = [p \in P |-> Line(PayoutEntry(p))]
    OBVIOUS
<1>6. PICK g : g = [r \in S |-> r.amount_cents]
    OBVIOUS
<1>7. /\ \A b \in A : m1[b] \in S /\ m1[b].id = <<b, "in">> /\ g[m1[b]] = payment[b].amount
      /\ \A b \in R : m2[b] \in S /\ m2[b].id = <<b, "refund-out">> /\ g[m2[b]] = -payment[b].amount
      /\ \A p \in P : m3[p] \in S /\ m3[p].id = <<p, "payout">> /\ g[m3[p]] = -payout[p].amount
    BY <1>1, <1>2, <1>3, <1>4, <1>5, <1>6, LineIds, LineAmounts
<1>8. S = Image(m1, A) \cup Image(m2, R) \cup Image(m3, P)
    BY <1>1, <1>2, <1>3, <1>4, <1>5 DEF Image
<1>9. T \subseteq Rows(payment) /\ R \subseteq Rows(payment) /\ A \subseteq Rows(payment) /\ T \cap R = {}
    BY <1>1, <1>2, EarningIs, JoinedIs, NotPending DEF Settled, Returned
<1>10. /\ IsFiniteSet(T) /\ IsFiniteSet(R) /\ IsFiniteSet(A) /\ IsFiniteSet(P)
       /\ \A b \in A : Amount[b] \in Nat
       /\ Cents(T) = SumFunctionOnSet(Amount, T)
    BY <1>1, <1>9, CentsIs, TakenOffIs
<1>11. \A b \in A : payment[b].amount = Amount[b]
    BY <1>9, ChargeRow
<1>12. \A p \in P : payout[p].amount \in Nat
    BY <1>1, WithdrawalRow DEF TakenOut
<1>13. SumFunctionOnSet(g, Image(m1, A)) = SumFunctionOnSet(Amount, A)
  <2>1. \A x, y \in A : m1[x] = m1[y] => x = y
    BY <1>7
  <2>2. \A x \in A : Amount[x] \in Int /\ g[m1[x]] = Amount[x]
    BY <1>7, <1>10, <1>11
  <2> QED BY <1>10, <2>1, <2>2, SumImage
<1>14. SumFunctionOnSet(g, Image(m2, R)) = -SumFunctionOnSet(Amount, R)
  <2>1. PICK f : f = [b \in R |-> -Amount[b]]
    OBVIOUS
  <2>2. \A x, y \in R : m2[x] = m2[y] => x = y
    BY <1>7
  <2>3. \A x \in R : Amount[x] \in Int /\ f[x] = -Amount[x]
    BY <1>2, <1>10, <2>1
  <2>4. \A x \in R : f[x] \in Int /\ g[m2[x]] = f[x]
    BY <1>2, <1>7, <1>11, <2>3
  <2>5. SumFunctionOnSet(g, Image(m2, R)) = SumFunctionOnSet(f, R)
    BY <1>10, <2>2, <2>4, SumImage
  <2>6. SumFunctionOnSet(f, R) = -SumFunctionOnSet(Amount, R)
    BY <1>10, <2>3, SumNegated
  <2> QED BY <2>5, <2>6
<1>15. SumFunctionOnSet(g, Image(m3, P)) = -TakenOff(u)
  <2>1. PICK f : f = [p \in P |-> payout[p].amount]
    OBVIOUS
  <2>2. PICK minus : minus = [p \in P |-> -payout[p].amount]
    OBVIOUS
  <2>3. \A x, y \in P : m3[x] = m3[y] => x = y
    BY <1>7
  <2>4. \A x \in P : f[x] \in Int /\ minus[x] = -f[x]
    BY <1>12, <2>1, <2>2
  <2>5. \A x \in P : minus[x] \in Int /\ g[m3[x]] = minus[x]
    BY <1>7, <2>1, <2>2, <2>4
  <2>6. SumFunctionOnSet(g, Image(m3, P)) = SumFunctionOnSet(minus, P)
    BY <1>10, <2>3, <2>5, SumImage
  <2>7. SumFunctionOnSet(minus, P) = -SumFunctionOnSet(f, P)
    BY <1>10, <2>4, SumNegated
  <2>8. SumFunction(f) = SumFunctionOnSet(f, P)
    BY <2>1, SumDomain
  <2> QED BY <1>1, <2>1, <2>6, <2>7, <2>8 DEF TakenOff
<1>16. SumFunctionOnSet(Amount, A) = SumFunctionOnSet(Amount, T) + SumFunctionOnSet(Amount, R)
  <2>1. \A b \in T \cup R : Amount[b] \in Int
    BY <1>2, <1>10
  <2> QED BY <1>2, <1>9, <1>10, <2>1, SumUnion
<1>17. SumFunctionOnSet(g, S) = SumFunctionOnSet(g, Image(m1, A)) + SumFunctionOnSet(g, Image(m2, R))
                                    + SumFunctionOnSet(g, Image(m3, P))
  <2>1. PICK I, J, K : I = Image(m1, A) /\ J = Image(m2, R) /\ K = Image(m3, P)
    OBVIOUS
  <2>2. IsFiniteSet(I) /\ IsFiniteSet(J) /\ IsFiniteSet(K) /\ IsFiniteSet(I \cup J)
    BY <1>10, <2>1, ImageFinite, FS_Union
  <2>3. /\ \A x \in I : x.id[2] = "in"
        /\ \A x \in J : x.id[2] = "refund-out"
        /\ \A x \in K : x.id[2] = "payout"
    BY <1>7, <2>1 DEF Image
  <2>4. I \cap J = {} /\ (I \cup J) \cap K = {}
    BY <2>3
  <2>5. \A x \in (I \cup J) \cup K : g[x] \in Int
    BY <1>2, <1>7, <1>10, <1>11, <1>12, <2>1 DEF Image
  <2>6. SumFunctionOnSet(g, (I \cup J) \cup K) = SumFunctionOnSet(g, I \cup J) + SumFunctionOnSet(g, K)
    BY <2>2, <2>4, <2>5, SumUnion
  <2>7. SumFunctionOnSet(g, I \cup J) = SumFunctionOnSet(g, I) + SumFunctionOnSet(g, J)
    BY <2>2, <2>4, <2>5, SumUnion
  <2>8. S = (I \cup J) \cup K
    BY <1>8, <2>1
  <2> QED BY <2>1, <2>6, <2>7, <2>8
<1>18. SumFunction(g) = SumFunctionOnSet(g, S)
    BY <1>6, SumDomain
<1>19. balance(u).available = Cents(T) - TakenOff(u) /\ TakenOff(u) \in Nat
    BY <1>1, BalanceIs
<1>20. SumFunctionOnSet(Amount, T) \in Nat /\ SumFunctionOnSet(Amount, R) \in Nat
    BY <1>2, <1>10, SumOfNat
<1>21. PICK a, b, c : a = SumFunctionOnSet(Amount, T) /\ b = SumFunctionOnSet(Amount, R) /\ c = TakenOff(u)
    OBVIOUS
<1>22. SumFunction(g) = (a + b) + (-b) + (-c)
    BY <1>13, <1>14, <1>15, <1>16, <1>17, <1>18, <1>21
<1>23. (a + b) + (-b) + (-c) = a - c
    BY <1>19, <1>20, <1>21
<1> QED BY <1>6, <1>10, <1>19, <1>21, <1>22, <1>23

\* The history explains the figure beside the withdraw button.
LEMMA WalletExplainsBalanceNow ==
    ASSUME FiguresInv
    PROVE  WalletExplainsBalance
<1> SUFFICES ASSUME NEW u \in Users, Certain(u)
             PROVE  SumFunction([r \in {row \in HostRows(u) : row.kind = "payout" \/ ~row.pending} |->
                                     r.amount_cents]) = balance(u).available
    BY DEF WalletExplainsBalance, Certain
<1>1. PICK S : S = {row \in HostRows(u) : row.kind = "payout" \/ ~row.pending}
    OBVIOUS
<1>2. \A x : x \in S <=>
          \/ \E b \in Settled(u) \cup Returned(u) : x = Line(ChargeEntry(b))
          \/ \E b \in Returned(u) : x = Line(RefundEntry(b))
          \/ \E p \in TakenOut(u) : x = Line(PayoutEntry(p))
    BY <1>1, CountedLines
<1>3. SumFunction([r \in S |-> r.amount_cents]) = balance(u).available
    BY <1>2, LinesAddUp
<1> QED BY <1>1, <1>3

\* Every figure of a host's money is one sum, whichever query adds it up: the
\* balance, the wallet, the summaries and, once caught up, payment-service's own.
THEOREM MoneyAgreesHolds == Spec => []MoneyAgrees
<1>1. FiguresInv => MoneyAgrees
    BY WalletExplainsBalanceNow, BalanceAgreesNow, SummariesAddUpNow DEF MoneyAgrees
<1> QED BY <1>1, FiguresInvariance, PTL

-----------------------------------------------------------------------------
(* The wallet's cursor *)

\* No instant of a wallet is ahead of the clock.
LEMMA DatedPast ==
    ASSUME FiguresInv, NEW u
    PROVE  \A at \in Dated(u) : at \in Nat /\ at <= now
<1>1. \A b \in Joined : b \in Rows(payment)
    BY DEF Joined
<1>2. ASSUME NEW b \in Joined, payment[b].status \in MOVED
      PROVE  payment[b].created_at \in Nat /\ payment[b].created_at <= now
    BY <1>1, ChargeRow
<1>3. ASSUME NEW b \in Joined, payment[b].refunded_at # Null
      PROVE  payment[b].refunded_at \in Nat /\ payment[b].refunded_at <= now
    BY <1>1, <1>3, ChargeRow
<1>4. \A p \in Rows(payout) : payout[p].created_at \in Nat /\ payout[p].created_at <= now
    BY WithdrawalRow
<1> QED BY <1>2, <1>3, <1>4 DEF Dated

\* A month has a row to show when it has one of the instants the cursor ranges over.
LEMMA MonthShown ==
    ASSUME NEW u, NEW range
    PROVE  find_month_for_account(u, range) # {} <=> \E at \in Dated(u) : Within(at, range)
<1> DEFINE mine == {b \in Joined : payment[b].host = u \/ payment[b].renter = u}
           paid == {payment[b].created_at : b \in {c \in mine : payment[c].status \in MOVED}}
           returned == {payment[b].refunded_at : b \in {c \in mine : payment[c].refunded_at # Null}}
           taken == {payout[p].created_at :
                         p \in {q \in Rows(payout) : payout[q].host = u /\ payout[q].status # "failed"}}
<1>1. MoneyIn(u, range) \cup MoneyOut(u, range) # {} <=> \E at \in paid : Within(at, range)
  <2>1. MoneyIn(u, range) # {} <=> \E b \in Charges(range) : payment[b].host = u
    BY DEF MoneyIn
  <2>2. MoneyOut(u, range) # {} <=> \E b \in Charges(range) : payment[b].renter = u
    BY DEF MoneyOut
  <2> QED BY <2>1, <2>2 DEF Charges
<1>2. RefundOut(u, range) \cup RefundIn(u, range) # {} <=> \E at \in returned : Within(at, range)
  <2>1. RefundOut(u, range) # {} <=> \E b \in Refunds(range) : payment[b].host = u
    BY DEF RefundOut
  <2>2. RefundIn(u, range) # {} <=> \E b \in Refunds(range) : payment[b].renter = u
    BY DEF RefundIn
  <2> QED BY <2>1, <2>2 DEF Refunds, Within
<1>3. PayoutRows(u, range) # {} <=> \E at \in taken : Within(at, range)
    BY DEF PayoutRows
<1>4. Dated(u) = paid \cup returned \cup taken
    BY DEF Dated
<1> HIDE DEF paid, returned, taken
<1> QED BY <1>1, <1>2, <1>3, <1>4 DEF find_month_for_account

\* The months of a wallet that have a row.
Shows(u) == {label(at) : at \in Dated(u)}

\* The page of a month.
LEMMA WalletPage ==
    ASSUME FiguresInv, NEW u, NEW m \in Nat
    PROVE  /\ wallet(u, m).transactions # {} <=> m \in Shows(u)
           /\ \/ wallet(u, m).next_month = Null /\ \A d \in Shows(u) : d >= m
              \/ /\ wallet(u, m).next_month \in Shows(u) /\ wallet(u, m).next_month < m
                 /\ \A d \in Shows(u) : d < m => d <= wallet(u, m).next_month
<1>1. \A at \in Dated(u) : at \in Nat /\ at <= now
    BY DatedPast
<1>2. ASSUME NEW at \in Dated(u)
      PROVE  /\ label(at) \in Nat /\ label(at) \in Shows(u)
             /\ label(at) = m <=> Within(at, bounds(m))
    BY <1>1, MonthOf DEF Shows
<1>3. wallet(u, m).transactions # {} <=> find_month_for_account(u, bounds(m)) # {}
    BY DEF wallet
<1>4. wallet(u, m).transactions # {} <=> m \in Shows(u)
  <2>1. m \in Shows(u) <=> \E at \in Dated(u) : label(at) = m
    BY DEF Shows
  <2> QED BY <1>2, <1>3, <2>1, MonthShown
<1>5. PICK start : start = bounds(m)[1]
    OBVIOUS
<1>6. start = m * MONTH
    BY <1>5 DEF bounds
<1>7. PICK cursor : cursor = find_newest_before(u, start)
    OBVIOUS
<1>8. wallet(u, m).next_month = IF cursor = Null THEN Null ELSE label(cursor)
    BY <1>5, <1>7 DEF wallet
<1>9. ASSUME NEW at \in Dated(u)
      PROVE  at < start <=> label(at) < m
  <2>1. PICK n, q : n = MONTH /\ q = label(at)
    OBVIOUS
  <2>2. n \in Nat \ {0} /\ q \in Nat /\ at \in Nat /\ q * n <= at /\ at < (q + 1) * n
    BY <1>1, <2>1, MonthOf, QueryAssumption DEF Within, bounds
  <2>3. m * n \in Int
    BY <2>2
  <2>4. ASSUME at < start, ~(q < m)
        PROVE  FALSE
    <3>1. PICK d : d = q - m
      OBVIOUS
    <3>2. d \in Nat /\ q * n = m * n + d * n
      BY <2>2, <2>4, <3>1
    <3>3. d * n \in Int /\ d * n >= 0
      BY <2>2, <3>2
    <3>4. PICK x, y, z : x = q * n /\ y = m * n /\ z = d * n
      OBVIOUS
    <3>5. x = y + z /\ y \in Int /\ z \in Int /\ z >= 0 /\ x <= at /\ at < y /\ at \in Nat
      BY <1>6, <2>1, <2>2, <2>3, <2>4, <3>2, <3>3, <3>4
    <3> QED BY ONLY <3>5
  <2>5. ASSUME ~(at < start), q < m
        PROVE  FALSE
    <3>1. m * n <= at
      BY <1>6, <2>1, <2>2, <2>3, <2>5
    <3>2. m <= q
      BY <2>2, <3>1, MultiplesOrder
    <3> QED BY <2>2, <2>5, <3>2
  <2> QED BY <2>1, <2>4, <2>5
<1>10. PICK older : older = {at \in Dated(u) : at < start}
    OBVIOUS
<1>11. cursor = IF older = {} THEN Null ELSE Max(older)
    BY <1>7, <1>10 DEF find_newest_before
<1>12. CASE older = {}
  <2>1. ASSUME NEW d \in Shows(u)
        PROVE  d >= m
    <3>1. PICK at \in Dated(u) : d = label(at)
      BY DEF Shows
    <3>2. ~(at < start)
      BY <1>10, <1>12
    <3> QED BY <1>2, <1>9, <3>1, <3>2
  <2> QED BY <1>4, <1>8, <1>11, <1>12, <2>1
<1>13. CASE older # {}
  <2>1. older \in SUBSET Nat /\ now \in Nat /\ \A at \in older : at <= now
    BY <1>1, <1>10 DEF FiguresInv, TablesInv, Scope
  <2>2. cursor \in older /\ \A at \in older : at <= cursor
    BY <1>11, <1>13, <2>1, LargestNumber
  <2>3. cursor \in Dated(u) /\ cursor < start /\ cursor \in Nat /\ cursor # Null
    BY <1>10, <2>1, <2>2, NullAssumption
  <2>4. PICK c : c = label(cursor)
    OBVIOUS
  <2>5. wallet(u, m).next_month = c /\ c \in Shows(u) /\ c < m /\ c \in Nat
    BY <1>2, <1>8, <1>9, <2>3, <2>4
  <2>6. ASSUME NEW d \in Shows(u), d < m
        PROVE  d <= c
    <3>1. PICK at \in Dated(u) : d = label(at)
      BY DEF Shows
    <3>2. at \in older
      BY <1>9, <1>10, <2>6, <3>1
    <3> QED BY <1>1, <2>2, <2>3, <2>4, <3>1, <3>2, MonthsGrow
  <2> QED BY <1>4, <2>5, <2>6
<1> QED BY <1>4, <1>12, <1>13

\* Whoever follows next_month from the current month.
MonthsReached(u, f) ==
    f = [n \in Months |->
             IF n = 0 THEN {label(now)}
             ELSE f[n - 1] \cup ({wallet(u, m).next_month : m \in f[n - 1]} \ {Null})]

\* What it means to have reached every month.
LEMMA HistoryReachedIs ==
    ASSUME \A u \in Users :
               (CHOOSE f : MonthsReached(u, f))[label(MaxTime)] \ {label(now)}
                   = {m \in 0..(label(now) - 1) : wallet(u, m).transactions # {}}
    PROVE  HistoryReached
BY DEF HistoryReached, MonthsReached

\* Following next_month is a walk down the months that have a row.
LEMMA MonthsWalked ==
    ASSUME FiguresInv, NEW u
    PROVE  /\ \E f : MonthsReached(u, f)
           /\ \A f : MonthsReached(u, f) =>
                  f[label(MaxTime)] \ {label(now)} = {d \in Shows(u) : d < label(now)}
<1>1. PICK L, T, D : L = label(now) /\ T = label(MaxTime) /\ D = Shows(u)
    OBVIOUS
<1>2. now \in Nat /\ now <= MaxTime /\ MaxTime \in Nat
    BY UpstreamAssumption DEF FiguresInv, TablesInv, Scope
<1>3. L \in Nat /\ T \in Nat /\ L <= T /\ Months = 0..T
    BY <1>1, <1>2, MonthOf, MonthsGrow DEF Months
<1>4. D \in SUBSET Nat
    BY <1>1, DatedPast, MonthOf DEF Shows
<1>5. Null \notin Nat
    BY NullAssumption
<1>6. ASSUME NEW after, NEW N, \A m \in N : after[m] = wallet(u, m).next_month,
             NEW f, \A m \in 0..T : f[m] \subseteq N
      PROVE  MonthsReached(u, f) <=> Walk(f, L, after, Null, T)
  <2>1. ASSUME NEW n \in 0..T, n # 0
        PROVE  {after[m] : m \in f[n - 1]} = {wallet(u, m).next_month : m \in f[n - 1]}
    <3>1. n - 1 \in 0..T
      BY <1>3, <2>1
    <3>2. \A m \in f[n - 1] : after[m] = wallet(u, m).next_month
      BY <1>6, <3>1
    <3> QED BY <3>2
  <2>2. [n \in 0..T |-> IF n = 0 THEN {L} ELSE f[n - 1] \cup ({after[m] : m \in f[n - 1]} \ {Null})]
            = [n \in 0..T |-> IF n = 0 THEN {L}
                              ELSE f[n - 1] \cup ({wallet(u, m).next_month : m \in f[n - 1]} \ {Null})]
    BY <2>1
  <2> QED BY <1>1, <1>3, <2>2 DEF MonthsReached, Walk
<1>7. PICK after : after = [m \in Nat |-> wallet(u, m).next_month]
    OBVIOUS
<1>8. \A m \in Nat : after[m] = wallet(u, m).next_month
    BY <1>7
<1>9. \A m \in Nat : after[m] \in Nat \cup {Null}
    BY <1>1, <1>4, <1>8, WalletPage
<1>10. \E f : f \in [0..T -> SUBSET Nat] /\ Walk(f, L, after, Null, T)
    BY <1>3, <1>9, WalkExists
<1>11. \E f : MonthsReached(u, f)
  <2>1. PICK f : f \in [0..T -> SUBSET Nat] /\ Walk(f, L, after, Null, T)
    BY <1>10
  <2>2. \A m \in 0..T : f[m] \subseteq Nat
    BY <2>1
  <2> QED BY <1>6, <1>8, <2>1, <2>2
<1>12. ASSUME NEW f, MonthsReached(u, f)
       PROVE  f[T] \ {L} = {d \in D : d < L}
  <2>1. PICK N : N = Nat \cup UNION {f[m] : m \in 0..T}
    OBVIOUS
  <2>2. PICK next_in : next_in = [m \in N |-> wallet(u, m).next_month]
    OBVIOUS
  <2>3. \A m \in N : next_in[m] = wallet(u, m).next_month
    BY <2>2
  <2>4. \A m \in 0..T : f[m] \subseteq N
    BY <2>1
  <2>5. Walk(f, L, next_in, Null, T)
    BY <1>6, <1>12, <2>3, <2>4
  <2>6. ASSUME NEW m \in Nat
        PROVE  \/ next_in[m] = Null /\ \A d \in D : d >= m
               \/ next_in[m] \in D /\ next_in[m] < m /\ \A d \in D : d < m => d <= next_in[m]
    <3>1. next_in[m] = wallet(u, m).next_month
      BY <2>1, <2>3
    <3> QED BY <1>1, <3>1, WalletPage
  <2> QED BY <1>3, <1>4, <1>5, <2>5, <2>6, WalkDown
<1> QED BY <1>1, <1>11, <1>12

\* Every older month with a row is reached, and no other.
LEMMA HistoryReachedNow ==
    ASSUME FiguresInv
    PROVE  HistoryReached
<1>1. ASSUME NEW u \in Users
      PROVE  (CHOOSE f : MonthsReached(u, f))[label(MaxTime)] \ {label(now)}
                 = {m \in 0..(label(now) - 1) : wallet(u, m).transactions # {}}
  <2>1. PICK f : f = CHOOSE g : MonthsReached(u, g)
    OBVIOUS
  <2>2. MonthsReached(u, f)
    BY Zenon, <2>1, MonthsWalked
  <2>3. f[label(MaxTime)] \ {label(now)} = {d \in Shows(u) : d < label(now)}
    BY <2>2, MonthsWalked
  <2>4. label(now) \in Nat
    BY MonthOf DEF FiguresInv, TablesInv, Scope
  <2>5. \A d \in Shows(u) : d \in Nat
    BY DatedPast, MonthOf DEF Shows
  <2>6. \A m \in Nat : wallet(u, m).transactions # {} <=> m \in Shows(u)
    BY WalletPage
  <2>7. {m \in 0..(label(now) - 1) : wallet(u, m).transactions # {}} = {d \in Shows(u) : d < label(now)}
    BY <2>4, <2>5, <2>6
  <2> QED BY <2>1, <2>3, <2>7
<1> QED BY <1>1, HistoryReachedIs

-----------------------------------------------------------------------------
(* Sorted pages *)

\* The places of a list of n that a page of l from offset o on shows.
Cut(n, l, o) == {i \in 1..n : o < i /\ i <= o + l}
IsCut(cut, order, n, l, o) == cut = SubSeq(order, o + 1, Min({l + o, n}))

Ordered(order, n, S) ==
    order \in [1..n -> S] /\ \A i, j \in 1..n : i < j => order[i] # order[j]

\* A page: which rows it has, where the next one begins, and how many there are in all.
IsPage(page, order, n, l, o) ==
    /\ Len(page.rows) = Cardinality(Cut(n, l, o)) /\ DOMAIN page.rows = 1..Len(page.rows)
    /\ \A j \in DOMAIN page.rows : o + j \in Cut(n, l, o) /\ page.rows[j].id = order[o + j]
    /\ \A i \in Cut(n, l, o) : i - o \in DOMAIN page.rows
    /\ page.next_offset = IF o + l < n THEN o + l ELSE Null
    /\ page.total = n

\* How many places a page shows.
LEMMA CutIs ==
    ASSUME NEW n \in Nat, NEW l \in Nat \ {0}, NEW o \in Nat
    PROVE  /\ IsFiniteSet(Cut(n, l, o))
           /\ Cardinality(Cut(n, l, o)) =
                  IF n <= o THEN 0 ELSE IF o + l <= n THEN l ELSE n - o
<1>1. PICK last : last = IF o + l <= n THEN o + l ELSE n
    OBVIOUS
<1>2. last \in Int /\ Cut(n, l, o) = (o + 1)..last
    BY <1>1 DEF Cut
<1>3. /\ IsFiniteSet((o + 1)..last)
      /\ Cardinality((o + 1)..last) = IF o + 1 > last THEN 0 ELSE last - (o + 1) + 1
    BY <1>2, FS_Interval
<1> QED BY <1>1, <1>2, <1>3

\* What LIMIT and OFFSET cut out of a sorted list.
LEMMA CutOut ==
    ASSUME NEW S, NEW n \in Nat, NEW order \in [1..n -> S], NEW l \in Nat \ {0}, NEW o \in Nat,
           NEW cut, IsCut(cut, order, n, l, o)
    PROVE  /\ cut \in Seq(S)
           /\ DOMAIN cut = 1..Cardinality(Cut(n, l, o)) /\ Len(cut) = Cardinality(Cut(n, l, o))
           /\ \A j \in DOMAIN cut : o + j \in Cut(n, l, o) /\ cut[j] = order[o + j]
           /\ \A i \in Cut(n, l, o) : i - o \in DOMAIN cut
<1>1. PICK last : last = Min({l + o, n})
    OBVIOUS
<1>2. last = IF o + l <= n THEN o + l ELSE n
  <2>1. PICK T : T = {l + o, n}
    OBVIOUS
  <2>2. \E x \in T : \A y \in T : x =< y
    BY <2>1
  <2>3. Min(T) \in T /\ \A y \in T : Min(T) =< y
    BY <2>2 DEF Min
  <2> QED BY <1>1, <2>1, <2>3
<1>3. last \in Int /\ last <= n /\ \A i \in (o + 1)..last : order[i] \in S
    BY <1>2
<1>4. cut = SubSeq(order, o + 1, last)
    BY <1>1 DEF IsCut
<1>5. PICK m : m = o + 1
    OBVIOUS
<1>6. cut = SubSeq(order, m, last)
    BY <1>4, <1>5, Zenon
<1>7. m \in Int /\ last \in Int /\ \A i \in m..last : order[i] \in S
    BY <1>3, <1>5
<1>8. /\ cut \in Seq(S) /\ Len(cut) = IF m <= last THEN last - m + 1 ELSE 0
      /\ \A i \in 1..(last - m + 1) : cut[i] = order[m + i - 1]
  <2>1. /\ SubSeq(order, m, last) \in Seq(S)
        /\ Len(SubSeq(order, m, last)) = IF m <= last THEN last - m + 1 ELSE 0
        /\ \A i \in 1..(last - m + 1) : SubSeq(order, m, last)[i] = order[m + i - 1]
    BY ONLY <1>7, SubSeqProperties, SMTT(40)
  <2> QED BY ONLY <1>6, <2>1, Zenon
<1>9. DOMAIN cut = 1..Len(cut) /\ Len(cut) = Cardinality(Cut(n, l, o))
  <2>1. DOMAIN cut = 1..Len(cut)
    BY <1>8, LenProperties
  <2>2. Len(cut) = Cardinality(Cut(n, l, o))
    <3>1. PICK c, size : c = Cardinality(Cut(n, l, o)) /\ size = Len(cut)
      OBVIOUS
    <3>2. c = IF n <= o THEN 0 ELSE IF o + l <= n THEN l ELSE n - o
      BY <3>1, CutIs
    <3>3. size = IF m <= last THEN last - m + 1 ELSE 0
      BY <1>8, <3>1
    <3>4. size = c
      BY ONLY <1>2, <1>3, <1>5, <3>2, <3>3, n \in Nat, l \in Nat \ {0}, o \in Nat
    <3> QED BY <3>1, <3>4
  <2> QED BY <2>1, <2>2
<1>10. ASSUME NEW j \in 1..Len(cut)
       PROVE  o + j \in Cut(n, l, o) /\ cut[j] = order[o + j]
  <2>1. PICK size : size = Len(cut)
    OBVIOUS
  <2>2. size = (IF m <= last THEN last - m + 1 ELSE 0) /\ j \in 1..size
    BY <1>8, <2>1
  <2>3. j \in 1..(last - m + 1) /\ m + j - 1 = o + j /\ o + j \in 1..n /\ o < o + j /\ o + j <= o + l
    BY ONLY <1>2, <1>3, <1>5, <2>2, n \in Nat, l \in Nat \ {0}, o \in Nat
  <2>4. cut[j] = order[m + j - 1]
    BY <1>8, <2>3
  <2> QED BY <2>3, <2>4 DEF Cut
<1>11. ASSUME NEW i \in Cut(n, l, o)
       PROVE  i - o \in 1..Len(cut)
  <2>1. PICK size : size = Len(cut)
    OBVIOUS
  <2>2. size = (IF m <= last THEN last - m + 1 ELSE 0) /\ i \in 1..n /\ o < i /\ i <= o + l
    BY <1>8, <2>1 DEF Cut
  <2>3. i - o \in 1..size
    BY ONLY <1>2, <1>3, <1>5, <2>2, n \in Nat, l \in Nat \ {0}, o \in Nat
  <2> QED BY <2>1, <2>3
<1> QED BY <1>8, <1>9, <1>10, <1>11

\* The order of a page is one, and leaves nobody out.
LEMMA SpotsSorted ==
    ASSUME FiguresInv, NEW S, S \subseteq Rows(spot)
    PROVE  /\ IsFiniteSet(S) /\ Cardinality(S) \in Nat
           /\ Ordered(Sorted(S, Newer), Cardinality(S), S)
<1>1. IsFiniteSet(S)
    BY FS_Subset DEF FiguresInv, FiniteRows
<1>2. \A s \in S : SpotOrder[s] \in Nat
    BY ListingRow, QueryAssumption
<1>3. PICK key : key = [s \in S |-> -SpotOrder[s]]
    OBVIOUS
<1>4. \A s \in S : key[s] \in Int /\ key[s] = -SpotOrder[s]
    BY <1>2, <1>3
<1>5. PICK n : n = Cardinality(S)
    OBVIOUS
<1>6. PICK rows : InOrder(rows, n, S, key)
    BY <1>1, <1>4, <1>5, Sortable
<1>7. rows \in [1..n -> S]
    BY <1>6 DEF InOrder
<1>8. \A i, j \in 1..n : i < j => rows[i] # rows[j] /\ ~(SpotOrder[rows[j]] > SpotOrder[rows[i]])
    BY <1>2, <1>4, <1>6, <1>7 DEF InOrder
<1>9. \E order \in [1..n -> S] :
          \A i, j \in 1..n : i < j => order[i] # order[j] /\ ~Newer(order[j], order[i])
    BY <1>7, <1>8 DEF Newer
<1>10. PICK order : order = Sorted(S, Newer)
    OBVIOUS
<1>11. order = CHOOSE r \in [1..n -> S] :
                   \A i, j \in 1..n : i < j => r[i] # r[j] /\ ~Newer(r[j], r[i])
    BY <1>5, <1>10 DEF Sorted
<1>12. order \in [1..n -> S] /\ \A i, j \in 1..n : i < j => order[i] # order[j]
    BY Zenon, <1>9, <1>11
<1> QED BY <1>1, <1>5, <1>10, <1>12, FS_CardinalityType DEF Ordered

\* The two orders of bookings.
LEMMA BookingsSorted ==
    ASSUME FiguresInv, NEW S, S \subseteq Rows(booking)
    PROVE  /\ IsFiniteSet(S) /\ Cardinality(S) \in Nat
           /\ Ordered(Sorted(S, Sooner), Cardinality(S), S)
           /\ Ordered(Sorted(S, Newest), Cardinality(S), S)
<1>1. IsFiniteSet(S)
    BY FS_Subset DEF FiguresInv, FiniteRows
<1>2. \A b \in S : booking[b].ends_at \in Nat
    BY HeldRow
<1>3. PICK soon, late : soon = [b \in S |-> booking[b].ends_at] /\ late = [b \in S |-> -booking[b].ends_at]
    OBVIOUS
<1>4. \A b \in S : /\ soon[b] \in Int /\ soon[b] = booking[b].ends_at
                   /\ late[b] \in Int /\ late[b] = -booking[b].ends_at
    BY <1>2, <1>3
<1>5. PICK n : n = Cardinality(S)
    OBVIOUS
<1>6. PICK rows : InOrder(rows, n, S, soon)
    BY <1>1, <1>4, <1>5, Sortable
<1>7. PICK lasts : InOrder(lasts, n, S, late)
    BY <1>1, <1>4, <1>5, Sortable
<1>8. rows \in [1..n -> S] /\ lasts \in [1..n -> S]
    BY <1>6, <1>7 DEF InOrder
<1>9. \A i, j \in 1..n : i < j => /\ rows[i] # rows[j]
                                  /\ ~(booking[rows[j]].ends_at < booking[rows[i]].ends_at)
    BY <1>2, <1>4, <1>6, <1>8 DEF InOrder
<1>10. \A i, j \in 1..n : i < j => /\ lasts[i] # lasts[j]
                                   /\ ~(booking[lasts[j]].ends_at > booking[lasts[i]].ends_at)
    BY <1>2, <1>4, <1>7, <1>8 DEF InOrder
<1>11. \E order \in [1..n -> S] :
           \A i, j \in 1..n : i < j => order[i] # order[j] /\ ~Sooner(order[j], order[i])
    BY <1>8, <1>9 DEF Sooner
<1>12. \E order \in [1..n -> S] :
           \A i, j \in 1..n : i < j => order[i] # order[j] /\ ~Newest(order[j], order[i])
    BY <1>8, <1>10 DEF Newest
<1>13. PICK order, back : order = Sorted(S, Sooner) /\ back = Sorted(S, Newest)
    OBVIOUS
<1>14. /\ order = CHOOSE r \in [1..n -> S] :
                      \A i, j \in 1..n : i < j => r[i] # r[j] /\ ~Sooner(r[j], r[i])
       /\ back = CHOOSE r \in [1..n -> S] :
                     \A i, j \in 1..n : i < j => r[i] # r[j] /\ ~Newest(r[j], r[i])
    BY <1>5, <1>13 DEF Sorted
<1>15. order \in [1..n -> S] /\ \A i, j \in 1..n : i < j => order[i] # order[j]
    BY Zenon, <1>11, <1>14
<1>16. back \in [1..n -> S] /\ \A i, j \in 1..n : i < j => back[i] # back[j]
    BY Zenon, <1>12, <1>14
<1> QED BY <1>1, <1>5, <1>13, <1>15, <1>16, FS_CardinalityType DEF Ordered

\* The window of a request that names one.
LEMMA WindowIs ==
    ASSUME NEW l \in 1..MAX_LIMIT, NEW o \in Nat
    PROVE  window(l, o) = <<l, o>> /\ <<l, o>> # Null /\ l \in Nat \ {0}
<1>1. MAX_LIMIT \in Nat /\ l # Null /\ o # Null
    BY NullAssumption, QueryAssumption
<1>2. <<l, o>> \in Nat \X Nat
    BY <1>1
<1> QED BY <1>1, <1>2, AnswerAssumption DEF window

\* The columns a list shows of its rows.
Columns(row, S, R) == \A x \in S : row[x] \in R /\ row[x].id = x
Displays(shown, cut, row) == shown = [i \in DOMAIN cut |-> row[cut[i]]]

\* What is answered of such a stretch.
LEMMA PageMade ==
    ASSUME NEW S, NEW n \in Nat, NEW order \in [1..n -> S], NEW l \in Nat \ {0}, NEW o \in Nat,
           NEW cut, IsCut(cut, order, n, l, o),
           NEW R, NEW row, Columns(row, S, R),
           NEW shown, Displays(shown, cut, row),
           NEW page, page = PageOf(shown, <<l, o>>, n)
    PROVE  IsPage(page, order, n, l, o) /\ page \in PageResponse(R)
<1>1. PICK k : k = Cardinality(Cut(n, l, o))
    OBVIOUS
<1>2. k \in Nat
    BY <1>1, CutIs, FS_CardinalityType
<1>3. /\ cut \in Seq(S) /\ DOMAIN cut = 1..k /\ Len(cut) = k
      /\ \A j \in DOMAIN cut : o + j \in Cut(n, l, o) /\ cut[j] = order[o + j]
      /\ \A i \in Cut(n, l, o) : i - o \in DOMAIN cut
  <2>1. /\ cut \in Seq(S)
        /\ DOMAIN cut = 1..Cardinality(Cut(n, l, o)) /\ Len(cut) = Cardinality(Cut(n, l, o))
        /\ \A j \in DOMAIN cut : o + j \in Cut(n, l, o) /\ cut[j] = order[o + j]
        /\ \A i \in Cut(n, l, o) : i - o \in DOMAIN cut
    BY CutOut
  <2> QED BY ONLY <1>1, <2>1
<1>4. \A j \in 1..k : /\ o + j \in Cut(n, l, o) /\ shown[j] \in R /\ shown[j].id = order[o + j]
  <2>1. \A j \in 1..k : o + j \in Cut(n, l, o) /\ cut[j] = order[o + j] /\ shown[j] = row[cut[j]]
    BY <1>3 DEF Displays
  <2>2. \A j \in 1..k : order[o + j] \in S
    BY <2>1 DEF Cut
  <2> QED BY <2>1, <2>2 DEF Columns
<1>5. DOMAIN shown = 1..k /\ shown \in [1..k -> R]
    BY <1>3, <1>4 DEF Displays
<1>6. shown \in Seq(R)
  <2>1. shown \in UNION {[1..m -> R] : m \in Nat}
    BY ONLY <1>2, <1>5
  <2> QED BY ONLY <2>1, SeqDef
<1>7. PICK after : after = next_offset(o, l, n)
    OBVIOUS
<1>8. after = (IF o + l < n THEN o + l ELSE Null) /\ after \in OrNull(Nat)
    BY <1>7 DEF next_offset, OrNull
<1>9. page = [rows |-> shown, next_offset |-> after, total |-> n]
    BY <1>7 DEF PageOf
<1>10. page.rows = shown /\ page.next_offset = after /\ page.total = n
    BY ONLY <1>9
<1>11. page \in PageResponse(R)
    BY ONLY <1>6, <1>8, <1>9, n \in Nat DEF PageResponse, OrNull
<1>12. Len(shown) = k
    BY <1>2, <1>5, <1>6, LenProperties
<1>13. IsPage(page, order, n, l, o)
    BY <1>1, <1>3, <1>4, <1>5, <1>8, <1>10, <1>12 DEF IsPage
<1> QED BY <1>11, <1>13

\* A page of a host's listings.
LEMMA HostSpotsPage ==
    ASSUME FiguresInv, NEW u, NEW limit, NEW offset, NEW l \in Nat \ {0}, NEW o \in Nat,
           window(limit, offset) = <<l, o>>, <<l, o>> # Null,
           NEW page, page = host_spots(u, limit, offset)
    PROVE  /\ IsPage(page, Sorted(HostSpots(u), Newer), Cardinality(HostSpots(u)), l, o)
           /\ page \in PageResponse(HostSpotResponse)
<1>1. PICK S : S = HostSpots(u)
    OBVIOUS
<1>2. PICK n, order : n = Cardinality(S) /\ order = Sorted(S, Newer)
    OBVIOUS
<1>3. S \subseteq Rows(spot)
    BY <1>1 DEF HostSpots
<1>4. n \in Nat /\ order \in [1..n -> S]
    BY <1>2, <1>3, SpotsSorted DEF Ordered
<1>5. PICK cut : IsCut(cut, order, n, l, o)
    BY DEF IsCut
<1>6. PICK row : row = [s \in S |-> HostSpotProjection(s)]
    OBVIOUS
<1>7. PICK shown : Displays(shown, cut, row)
    BY DEF Displays
<1>8. Columns(row, S, HostSpotResponse)
  <2>1. ASSUME NEW s \in S
        PROVE  s \in Spots /\ spot[s].title \in Titles /\ spot[s].active \in BOOLEAN
    BY <1>3, ListingRow DEF ViewSpot, Listing
  <2> QED BY <1>6, <2>1 DEF HostSpotProjection, HostSpotResponse, Columns
<1>9. \A i \in DOMAIN cut : cut[i] \in S
  <2>1. cut \in Seq(S)
    BY <1>4, <1>5, CutOut
  <2> QED BY <2>1, ElementOfSeq, LenProperties
<1>10. find_page_for_host(u, <<l, o>>) = cut
    BY <1>1, <1>2, <1>5 DEF find_page_for_host, Windowed, IsCut
<1>11. Shown(cut, HostSpotProjection) = shown
    BY <1>6, <1>7, <1>9 DEF Shown, Displays
<1>12. page = PageOf(shown, <<l, o>>, n)
    BY <1>1, <1>2, <1>10, <1>11 DEF host_spots, count_for_host
<1>13. IsPage(page, order, n, l, o) /\ page \in PageResponse(HostSpotResponse)
    BY <1>4, <1>5, <1>7, <1>8, <1>12, PageMade
<1> QED BY <1>1, <1>2, <1>13

\* A name, where a row is projected.
LEMMA NameShown ==
    ASSUME FiguresInv, NEW u \in Users
    PROVE  /\ app_user[u] \in ViewUser \cup {Null}
           /\ UserPublicProjection(u) \in OrNull(UserPublicResponse)
<1>1. app_user[u] \in ViewUser \cup {Null}
    BY DEF FiguresInv, TablesInv, UsersInv
<1>2. app_user[u] # Null => app_user[u].name \in Names
    BY <1>1 DEF ViewUser
<1> QED BY <1>1, <1>2 DEF UserPublicProjection, OrNull, UserPublicResponse

\* A booking, as its host and its renter see it.
LEMMA BookingShown ==
    ASSUME FiguresInv, NEW b \in Rows(booking)
    PROVE  /\ HostBookingProjection(b) \in HostBookingResponse /\ HostBookingProjection(b).id = b
           /\ RenterBookingProjection(b) \in RenterBookingResponse /\ RenterBookingProjection(b).id = b
<1>1. /\ b \in Bookings /\ booking[b].status \in STATUSES /\ booking[b].ends_at \in Nat
      /\ booking[b].spot \in Spots /\ booking[b].renter \in Users
    BY HeldRow, UpstreamAssumption
<1>2. UserPublicProjection(booking[b].renter) \in OrNull(UserPublicResponse)
    BY <1>1, NameShown
<1>3. RenterBookingSpotProjection(booking[b].spot) \in OrNull(Titles)
  <2>1. spot[booking[b].spot] \in ViewSpot \cup {Null}
    BY <1>1 DEF FiguresInv, TablesInv, SpotsInv
  <2> QED BY <2>1 DEF RenterBookingSpotProjection, OrNull, ViewSpot
<1>4. HostBookingProjection(b) \in HostBookingResponse /\ HostBookingProjection(b).id = b
    BY <1>1, <1>2 DEF HostBookingProjection, HostBookingResponse
<1>5. RenterBookingProjection(b) \in RenterBookingResponse /\ RenterBookingProjection(b).id = b
    BY <1>1, <1>3 DEF RenterBookingProjection, RenterBookingResponse
<1> QED BY <1>4, <1>5

\* Past bookings newest first, the others soonest first.
BookingOrder(S, past) == IF past THEN Sorted(S, Newest) ELSE Sorted(S, Sooner)

\* A stretch of a list of bookings.
LEMMA BookingsCut ==
    ASSUME FiguresInv, NEW S, S \subseteq Rows(booking), NEW past \in BOOLEAN,
           NEW l \in Nat \ {0}, NEW o \in Nat
    PROVE  /\ Cardinality(S) \in Nat /\ BookingOrder(S, past) \in [1..Cardinality(S) -> S]
           /\ IsCut(BookingPage(S, past, <<l, o>>), BookingOrder(S, past), Cardinality(S), l, o)
<1>1. Cardinality(S) \in Nat /\ BookingOrder(S, past) \in [1..Cardinality(S) -> S]
    BY BookingsSorted DEF BookingOrder, Ordered
<1>2. CASE past
    BY <1>1, <1>2 DEF BookingPage, BookingOrder, Windowed, IsCut
<1>3. CASE ~past
    BY <1>1, <1>3 DEF BookingPage, BookingOrder, Windowed, IsCut
<1> QED BY <1>1, <1>2, <1>3

\* A page of a renter's bookings.
LEMMA RenterBookingsPage ==
    ASSUME FiguresInv, NEW u, NEW past \in BOOLEAN, NEW statuses, NEW limit, NEW offset,
           NEW l \in Nat \ {0}, NEW o \in Nat, window(limit, offset) = <<l, o>>, <<l, o>> # Null,
           NEW S, S = Listed(BookingsBy(u), past, statuses),
           NEW page, page = renter_bookings(u, past, statuses, limit, offset)
    PROVE  /\ IsPage(page, BookingOrder(S, past), Cardinality(S), l, o)
           /\ page \in PageResponse(RenterBookingResponse)
<1>1. PICK n, order : n = Cardinality(S) /\ order = BookingOrder(S, past)
    OBVIOUS
<1>2. S \subseteq Rows(booking)
    BY DEF Listed, BookingsBy
<1>3. PICK cut : cut = BookingPage(S, past, <<l, o>>)
    OBVIOUS
<1>4. n \in Nat /\ order \in [1..n -> S] /\ IsCut(cut, order, n, l, o)
    BY <1>1, <1>2, <1>3, BookingsCut
<1>5. PICK row : row = [b \in S |-> RenterBookingProjection(b)]
    OBVIOUS
<1>6. PICK shown : Displays(shown, cut, row)
    BY DEF Displays
<1>7. Columns(row, S, RenterBookingResponse)
    BY <1>2, <1>5, BookingShown DEF Columns
<1>8. \A i \in DOMAIN cut : cut[i] \in S
  <2>1. cut \in Seq(S)
    BY <1>4, CutOut
  <2> QED BY <2>1, ElementOfSeq, LenProperties
<1>9. Shown(cut, RenterBookingProjection) = shown
    BY <1>5, <1>6, <1>8 DEF Shown, Displays
<1>10. page = PageOf(shown, <<l, o>>, n)
    BY <1>1, <1>3, <1>9 DEF renter_bookings, find_page_for_renter, count_for_renter
<1>11. IsPage(page, order, n, l, o) /\ page \in PageResponse(RenterBookingResponse)
    BY <1>4, <1>6, <1>7, <1>10, PageMade
<1> QED BY <1>1, <1>11

\* A page of a listing's bookings, for its host.
LEMMA HostBookingsPage ==
    ASSUME FiguresInv, NEW s, NEW u, find_for_host(s, u), NEW past \in BOOLEAN, NEW statuses,
           NEW limit, NEW offset,
           NEW l \in Nat \ {0}, NEW o \in Nat, window(limit, offset) = <<l, o>>, <<l, o>> # Null,
           NEW S, S = Listed(BookingsOf(s), past, statuses),
           NEW page, page = host_spot_bookings(s, u, past, statuses, limit, offset)
    PROVE  /\ IsPage(page, BookingOrder(S, past), Cardinality(S), l, o)
           /\ page \in PageResponse(HostBookingResponse)
<1>1. PICK n, order : n = Cardinality(S) /\ order = BookingOrder(S, past)
    OBVIOUS
<1>2. S \subseteq Rows(booking)
    BY DEF Listed, BookingsOf
<1>3. PICK cut : cut = BookingPage(S, past, <<l, o>>)
    OBVIOUS
<1>4. n \in Nat /\ order \in [1..n -> S] /\ IsCut(cut, order, n, l, o)
    BY <1>1, <1>2, <1>3, BookingsCut
<1>5. PICK row : row = [b \in S |-> HostBookingProjection(b)]
    OBVIOUS
<1>6. PICK shown : Displays(shown, cut, row)
    BY DEF Displays
<1>7. Columns(row, S, HostBookingResponse)
    BY <1>2, <1>5, BookingShown DEF Columns
<1>8. \A i \in DOMAIN cut : cut[i] \in S
  <2>1. cut \in Seq(S)
    BY <1>4, CutOut
  <2> QED BY <2>1, ElementOfSeq, LenProperties
<1>9. Shown(cut, HostBookingProjection) = shown
    BY <1>5, <1>6, <1>8 DEF Shown, Displays
<1>10. page = PageOf(shown, <<l, o>>, n)
    BY <1>1, <1>3, <1>9 DEF host_spot_bookings, find_page_for_host_spot, count_for_host_spot
<1>11. IsPage(page, order, n, l, o) /\ page \in PageResponse(HostBookingResponse)
    BY <1>4, <1>6, <1>7, <1>10, PageMade
<1> QED BY <1>1, <1>11

-----------------------------------------------------------------------------
(* Following the pages *)

\* Who is on a page: the rows from its offset on, as many as it may have.
LEMMA OnPage ==
    ASSUME NEW page, NEW order, NEW n, NEW l, NEW o, IsPage(page, order, n, l, o), page # Null,
           o \in Nat, NEW x
    PROVE  InPage(x, page) <=> \E i \in Cut(n, l, o) : order[i] = x
<1>1. ASSUME NEW j \in DOMAIN page.rows, page.rows[j].id = x
      PROVE  \E i \in Cut(n, l, o) : order[i] = x
    BY <1>1 DEF IsPage
<1>2. ASSUME NEW i \in Cut(n, l, o), order[i] = x
      PROVE  \E j \in DOMAIN page.rows : page.rows[j].id = x
  <2>1. PICK j : j = i - o
    OBVIOUS
  <2>2. j \in DOMAIN page.rows /\ i \in Int /\ o \in Int
    BY <2>1 DEF IsPage, Cut
  <2>3. page.rows[j].id = order[o + j] /\ o + j = i
    BY <2>1, <2>2 DEF IsPage
  <2> QED BY <1>2, <2>2, <2>3
<1> QED BY <1>1, <1>2 DEF InPage

\* Page by page through a sorted list: everyone is on one of the pages.
LEMMA AllOnPages ==
    ASSUME NEW S, IsFiniteSet(S), NEW n \in Nat, n = Cardinality(S), NEW order, Ordered(order, n, S),
           NEW l \in Nat \ {0}, NEW page,
           \A o \in Nat : IsPage(page[o], order, n, l, o) /\ page[o] # Null
    PROVE  /\ \A x \in S : \E o \in Offsets(n, l, n) : InPage(x, page[o])
           /\ \A o \in Offsets(n, l, n) : /\ o \in Nat
                                          /\ o # 0 => page[o].rows # << >>
                                          /\ Len(page[o].rows) = PageLength(n, l)[o]
<1>1. \A o \in Offsets(n, l, n) : o \in Nat
    BY DEF Offsets
<1>2. ASSUME NEW x \in S
      PROVE  \E o \in Offsets(n, l, n) : InPage(x, page[o])
  <2>1. PICK i \in 1..n : order[i] = x
    BY AllInOrder DEF Ordered
  <2>2. PICK o \in Offsets(n, l, n) : o < i /\ i <= o + l
    BY PagesCover
  <2>3. i \in Cut(n, l, o)
    BY <2>2 DEF Cut
  <2> QED BY <1>1, <2>1, <2>3, OnPage
<1>3. ASSUME NEW o \in Offsets(n, l, n)
      PROVE  Len(page[o].rows) = PageLength(n, l)[o]
    BY <1>1 DEF IsPage, PageLength, Cut
<1>4. ASSUME NEW o \in Offsets(n, l, n), o # 0
      PROVE  page[o].rows # << >>
  <2>1. o < n
    BY <1>4, PagesCover
  <2>2. o + 1 \in Cut(n, l, o)
    BY <1>1, <2>1 DEF Cut
  <2>3. \E j : j \in DOMAIN page[o].rows
    BY <1>1, <2>2 DEF IsPage
  <2> QED BY <2>3
<1> QED BY <1>1, <1>2, <1>3, <1>4

\* The offsets next_offset leads to, in a host's listings and in a renter's bookings.
ListingOffsets(u, l, f) ==
    f = [n \in 0..Cardinality(HostSpots(u)) |->
             IF n = 0 THEN {0}
             ELSE f[n - 1] \cup ({host_spots(u, l, o).next_offset : o \in f[n - 1]} \ {Null})]

Tab(u, past) == {b \in BookingsBy(u) : InTab(b, past)}

RentedOffsets(u, past, l, f) ==
    f = [n \in 0..Cardinality(Tab(u, past)) |->
             IF n = 0 THEN {0}
             ELSE f[n - 1] \cup ({renter_bookings(u, past, STATUSES, l, o).next_offset : o \in f[n - 1]}
                                     \ {Null})]

\* Both lists are of rows.
LEMMA HostSpotsListed ==
    ASSUME NEW u
    PROVE  HostSpots(u) \subseteq Rows(spot)
BY DEF HostSpots

LEMMA TabListed ==
    ASSUME FiguresInv, NEW u, NEW past
    PROVE  Tab(u, past) \subseteq Rows(booking) /\ Tab(u, past) = Listed(BookingsBy(u), past, STATUSES)
<1>1. \A b \in Rows(booking) : booking[b].status \in STATUSES
    BY HeldRow
<1> QED BY <1>1 DEF Tab, Listed, BookingsBy

\* Following next_offset from a first page of a host's listings.
LEMMA ListingWalked ==
    ASSUME FiguresInv, NEW u, NEW l \in 1..MAX_LIMIT, NEW n, n = Cardinality(HostSpots(u))
    PROVE  /\ n \in Nat /\ \E f : ListingOffsets(u, l, f)
           /\ \A f : ListingOffsets(u, l, f) => f[n] = Offsets(n, l, n)
<1>1. n \in Nat /\ l \in Nat \ {0} /\ Null \notin Nat
    BY SpotsSorted, HostSpotsListed, WindowIs, NullAssumption
<1>2. ASSUME NEW o \in Nat
      PROVE  host_spots(u, l, o).next_offset = IF o + l < n THEN o + l ELSE Null
    BY HostSpotsPage, WindowIs DEF IsPage
<1>3. ASSUME NEW after, NEW N, \A o \in N : after[o] = host_spots(u, l, o).next_offset,
             NEW f, \A m \in 0..n : f[m] \subseteq N
      PROVE  ListingOffsets(u, l, f) <=> Walk(f, 0, after, Null, n)
  <2>1. ASSUME NEW m \in 0..n, m # 0
        PROVE  {after[o] : o \in f[m - 1]} = {host_spots(u, l, o).next_offset : o \in f[m - 1]}
    <3>1. m - 1 \in 0..n
      BY <1>1, <2>1
    <3>2. \A o \in f[m - 1] : after[o] = host_spots(u, l, o).next_offset
      BY <1>3, <3>1
    <3> QED BY <3>2
  <2>2. [m \in 0..n |-> IF m = 0 THEN {0} ELSE f[m - 1] \cup ({after[o] : o \in f[m - 1]} \ {Null})]
            = [m \in 0..n |-> IF m = 0 THEN {0}
                              ELSE f[m - 1] \cup ({host_spots(u, l, o).next_offset : o \in f[m - 1]} \ {Null})]
    BY <2>1
  <2> QED BY <2>2 DEF ListingOffsets, Walk
<1>4. PICK after : after = [o \in Nat |-> host_spots(u, l, o).next_offset]
    OBVIOUS
<1>5. \A o \in Nat : after[o] = host_spots(u, l, o).next_offset /\ after[o] \in Nat \cup {Null}
    BY <1>1, <1>2, <1>4
<1>6. \E f : ListingOffsets(u, l, f)
  <2>1. PICK f : f \in [0..n -> SUBSET Nat] /\ Walk(f, 0, after, Null, n)
    BY <1>1, <1>5, WalkExists
  <2>2. \A m \in 0..n : f[m] \subseteq Nat
    BY <2>1
  <2> QED BY <1>3, <1>5, <2>1, <2>2
<1>7. ASSUME NEW f, ListingOffsets(u, l, f)
      PROVE  f[n] = Offsets(n, l, n)
  <2>1. PICK N : N = Nat \cup UNION {f[m] : m \in 0..n}
    OBVIOUS
  <2>2. PICK leads : leads = [o \in N |-> host_spots(u, l, o).next_offset]
    OBVIOUS
  <2>3. \A o \in N : leads[o] = host_spots(u, l, o).next_offset
    BY <2>2
  <2>4. \A m \in 0..n : f[m] \subseteq N
    BY <2>1
  <2>5. Walk(f, 0, leads, Null, n)
    BY <1>3, <1>7, <2>3, <2>4
  <2>6. \A o \in Nat : leads[o] = IF o + l < n THEN o + l ELSE Null
    BY <1>2, <2>1, <2>3
  <2> QED BY ONLY <1>1, <2>5, <2>6, WalkPages
<1> QED BY <1>1, <1>6, <1>7

\* Each of a host's listings is on one of those pages, none of which is empty but the only one.
LEMMA ListingPartition ==
    ASSUME FiguresInv, NEW u \in Users, NEW l \in 1..MAX_LIMIT
    PROVE  Partitions(LAMBDA o : host_spots(u, l, o), HostSpots(u))
<1>1. PICK S, n : S = HostSpots(u) /\ n = Cardinality(S)
    OBVIOUS
<1>2. PICK order : order = Sorted(S, Newer)
    OBVIOUS
<1>3. IsFiniteSet(S) /\ n \in Nat /\ Ordered(order, n, S)
    BY <1>1, <1>2, SpotsSorted, HostSpotsListed
<1>4. PICK K : K = (CHOOSE f : ListingOffsets(u, l, f))[n]
    OBVIOUS
<1>5. K = Offsets(n, l, n)
  <2>1. PICK f : f = CHOOSE g : ListingOffsets(u, l, g)
    OBVIOUS
  <2>2. ListingOffsets(u, l, f)
    BY Zenon, <2>1, ListingWalked
  <2> QED BY <1>1, <1>4, <2>1, <2>2, ListingWalked
<1>6. PICK page : page = [o \in Nat |-> host_spots(u, l, o)]
    OBVIOUS
<1>7. \A o \in Nat : page[o] = host_spots(u, l, o)
    BY <1>6
<1>8. ASSUME NEW o \in Nat
      PROVE  IsPage(page[o], order, n, l, o) /\ page[o] # Null
  <2>1. PICK p : p = host_spots(u, l, o)
    OBVIOUS
  <2>2. IsPage(p, order, n, l, o) /\ p \in PageResponse(HostSpotResponse)
    BY <1>1, <1>2, <2>1, HostSpotsPage, WindowIs
  <2> QED BY <1>7, <2>1, <2>2, AnswerAssumption
<1>9. l \in Nat \ {0}
    BY WindowIs
<1>10. /\ \A x \in S : \E o \in K : InPage(x, page[o])
       /\ \A o \in K : /\ o \in Nat
                       /\ o # 0 => page[o].rows # << >>
                       /\ Len(page[o].rows) = PageLength(n, l)[o]
    BY <1>1, <1>3, <1>5, <1>8, <1>9, AllOnPages
<1>11. SumFunctionOnSet([o \in K |-> Len(host_spots(u, l, o).rows)], K) = n
  <2>1. PICK lengths : lengths = [o \in K |-> Len(host_spots(u, l, o).rows)]
    OBVIOUS
  <2>2. \A o \in K : lengths[o] = PageLength(n, l)[o]
    BY <1>7, <1>10, <2>1
  <2>3. IsFiniteSet(K) /\ SumFunctionOnSet(PageLength(n, l), K) = n
    BY <1>3, <1>5, <1>9, PagesCover
  <2>4. SumFunctionOnSet(lengths, K) = n
    BY <2>2, <2>3, SumSame
  <2> QED BY <2>1, <2>4
<1>12. /\ \A x \in S : \E o \in K : InPage(x, host_spots(u, l, o))
       /\ \A o \in K : o # 0 => host_spots(u, l, o).rows # << >>
    BY <1>7, <1>10
<1>13. /\ K = (CHOOSE f : ListingOffsets(u, l, f))[Cardinality(HostSpots(u))]
       /\ \A x \in HostSpots(u) : \E o \in K : InPage(x, host_spots(u, l, o))
       /\ SumFunctionOnSet([o \in K |-> Len(host_spots(u, l, o).rows)], K) = Cardinality(HostSpots(u))
    BY <1>1, <1>4, <1>11, <1>12
<1> QED BY <1>12, <1>13 DEF Partitions, Reached, ListingOffsets

\* Following next_offset from a first page of a renter's bookings.
LEMMA RentedWalked ==
    ASSUME FiguresInv, NEW u, NEW past \in BOOLEAN, NEW l \in 1..MAX_LIMIT, NEW n, n = Cardinality(Tab(u, past))
    PROVE  /\ n \in Nat /\ \E f : RentedOffsets(u, past, l, f)
           /\ \A f : RentedOffsets(u, past, l, f) => f[n] = Offsets(n, l, n)
<1>1. n \in Nat /\ l \in Nat \ {0} /\ Null \notin Nat
    BY BookingsSorted, TabListed, WindowIs, NullAssumption
<1>2. ASSUME NEW o \in Nat
      PROVE  renter_bookings(u, past, STATUSES, l, o).next_offset = IF o + l < n THEN o + l ELSE Null
    BY RenterBookingsPage, TabListed, WindowIs DEF IsPage
<1>3. ASSUME NEW after, NEW N, \A o \in N : after[o] = renter_bookings(u, past, STATUSES, l, o).next_offset,
             NEW f, \A m \in 0..n : f[m] \subseteq N
      PROVE  RentedOffsets(u, past, l, f) <=> Walk(f, 0, after, Null, n)
  <2>1. ASSUME NEW m \in 0..n, m # 0
        PROVE  {after[o] : o \in f[m - 1]} = {renter_bookings(u, past, STATUSES, l, o).next_offset : o \in f[m - 1]}
    <3>1. m - 1 \in 0..n
      BY <1>1, <2>1
    <3>2. \A o \in f[m - 1] : after[o] = renter_bookings(u, past, STATUSES, l, o).next_offset
      BY <1>3, <3>1
    <3> QED BY <3>2
  <2>2. [m \in 0..n |-> IF m = 0 THEN {0} ELSE f[m - 1] \cup ({after[o] : o \in f[m - 1]} \ {Null})]
            = [m \in 0..n |-> IF m = 0 THEN {0}
                              ELSE f[m - 1] \cup ({renter_bookings(u, past, STATUSES, l, o).next_offset : o \in f[m - 1]} \ {Null})]
    BY <2>1
  <2> QED BY <2>2 DEF RentedOffsets, Walk
<1>4. PICK after : after = [o \in Nat |-> renter_bookings(u, past, STATUSES, l, o).next_offset]
    OBVIOUS
<1>5. \A o \in Nat : after[o] = renter_bookings(u, past, STATUSES, l, o).next_offset /\ after[o] \in Nat \cup {Null}
    BY <1>1, <1>2, <1>4
<1>6. \E f : RentedOffsets(u, past, l, f)
  <2>1. PICK f : f \in [0..n -> SUBSET Nat] /\ Walk(f, 0, after, Null, n)
    BY <1>1, <1>5, WalkExists
  <2>2. \A m \in 0..n : f[m] \subseteq Nat
    BY <2>1
  <2> QED BY <1>3, <1>5, <2>1, <2>2
<1>7. ASSUME NEW f, RentedOffsets(u, past, l, f)
      PROVE  f[n] = Offsets(n, l, n)
  <2>1. PICK N : N = Nat \cup UNION {f[m] : m \in 0..n}
    OBVIOUS
  <2>2. PICK leads : leads = [o \in N |-> renter_bookings(u, past, STATUSES, l, o).next_offset]
    OBVIOUS
  <2>3. \A o \in N : leads[o] = renter_bookings(u, past, STATUSES, l, o).next_offset
    BY <2>2
  <2>4. \A m \in 0..n : f[m] \subseteq N
    BY <2>1
  <2>5. Walk(f, 0, leads, Null, n)
    BY <1>3, <1>7, <2>3, <2>4
  <2>6. \A o \in Nat : leads[o] = IF o + l < n THEN o + l ELSE Null
    BY <1>2, <2>1, <2>3
  <2> QED BY ONLY <1>1, <2>5, <2>6, WalkPages
<1> QED BY <1>1, <1>6, <1>7

\* Each of a renter's bookings is on one of those pages, none of which is empty but the only one.
LEMMA RentedPartition ==
    ASSUME FiguresInv, NEW u \in Users, NEW past \in BOOLEAN, NEW l \in 1..MAX_LIMIT
    PROVE  Partitions(LAMBDA o : renter_bookings(u, past, STATUSES, l, o), Tab(u, past))
<1>1. PICK S, n : S = Tab(u, past) /\ n = Cardinality(S)
    OBVIOUS
<1>2. PICK order : order = BookingOrder(S, past)
    OBVIOUS
<1>3. IsFiniteSet(S) /\ n \in Nat /\ Ordered(order, n, S)
    BY <1>1, <1>2, BookingsSorted, TabListed DEF BookingOrder
<1>4. PICK K : K = (CHOOSE f : RentedOffsets(u, past, l, f))[n]
    OBVIOUS
<1>5. K = Offsets(n, l, n)
  <2>1. PICK f : f = CHOOSE g : RentedOffsets(u, past, l, g)
    OBVIOUS
  <2>2. RentedOffsets(u, past, l, f)
    BY Zenon, <2>1, RentedWalked
  <2> QED BY <1>1, <1>4, <2>1, <2>2, RentedWalked
<1>6. PICK page : page = [o \in Nat |-> renter_bookings(u, past, STATUSES, l, o)]
    OBVIOUS
<1>7. \A o \in Nat : page[o] = renter_bookings(u, past, STATUSES, l, o)
    BY <1>6
<1>8. ASSUME NEW o \in Nat
      PROVE  IsPage(page[o], order, n, l, o) /\ page[o] # Null
  <2>1. PICK p : p = renter_bookings(u, past, STATUSES, l, o)
    OBVIOUS
  <2>2. IsPage(p, order, n, l, o) /\ p \in PageResponse(RenterBookingResponse)
    BY <1>1, <1>2, <2>1, RenterBookingsPage, TabListed, WindowIs
  <2> QED BY <1>7, <2>1, <2>2, AnswerAssumption
<1>9. l \in Nat \ {0}
    BY WindowIs
<1>10. /\ \A x \in S : \E o \in K : InPage(x, page[o])
       /\ \A o \in K : /\ o \in Nat
                       /\ o # 0 => page[o].rows # << >>
                       /\ Len(page[o].rows) = PageLength(n, l)[o]
    BY <1>1, <1>3, <1>5, <1>8, <1>9, AllOnPages
<1>11. SumFunctionOnSet([o \in K |-> Len(renter_bookings(u, past, STATUSES, l, o).rows)], K) = n
  <2>1. PICK lengths : lengths = [o \in K |-> Len(renter_bookings(u, past, STATUSES, l, o).rows)]
    OBVIOUS
  <2>2. \A o \in K : lengths[o] = PageLength(n, l)[o]
    BY <1>7, <1>10, <2>1
  <2>3. IsFiniteSet(K) /\ SumFunctionOnSet(PageLength(n, l), K) = n
    BY <1>3, <1>5, <1>9, PagesCover
  <2>4. SumFunctionOnSet(lengths, K) = n
    BY <2>2, <2>3, SumSame
  <2> QED BY <2>1, <2>4
<1>12. /\ \A x \in S : \E o \in K : InPage(x, renter_bookings(u, past, STATUSES, l, o))
       /\ \A o \in K : o # 0 => renter_bookings(u, past, STATUSES, l, o).rows # << >>
    BY <1>7, <1>10
<1>13. /\ K = (CHOOSE f : RentedOffsets(u, past, l, f))[Cardinality(Tab(u, past))]
       /\ \A x \in Tab(u, past) : \E o \in K : InPage(x, renter_bookings(u, past, STATUSES, l, o))
       /\ SumFunctionOnSet([o \in K |-> Len(renter_bookings(u, past, STATUSES, l, o).rows)], K) = Cardinality(Tab(u, past))
    BY <1>1, <1>4, <1>11, <1>12
<1> QED BY <1>12, <1>13 DEF Partitions, Reached, RentedOffsets

\* Every cursor leads to all there is.
LEMMA CursorsReachAllNow ==
    ASSUME FiguresInv
    PROVE  CursorsReachAll
<1>1. ASSUME NEW u \in Users, NEW l \in 1..MAX_LIMIT
      PROVE  Partitions(LAMBDA o : host_spots(u, l, o), HostSpots(u))
    BY ListingPartition
<1>2. ASSUME NEW u \in Users, NEW l \in 1..MAX_LIMIT, NEW past \in BOOLEAN
      PROVE  Partitions(LAMBDA o : renter_bookings(u, past, STATUSES, l, o),
                        {b \in BookingsBy(u) : InTab(b, past)})
    BY RentedPartition DEF Tab
<1>3. PagesPartition
    BY <1>1, <1>2 DEF PagesPartition
<1> QED BY <1>3, HistoryReachedNow DEF CursorsReachAll

\* Whoever follows the cursors of a list sees all of it, and no page that is empty: for
\* every limit and any number of rows, and for a history of any length, whatever part of
\* it is projected.
THEOREM CursorsReachAllHolds == Spec => []CursorsReachAll
BY CursorsReachAllNow, FiguresInvariance, PTL

-----------------------------------------------------------------------------
(* One booking in several lists *)

\* On some page of a sorted list, of pages that are not empty: one that begins with it.
LEMMA SomePage ==
    ASSUME NEW S, IsFiniteSet(S), NEW n \in Nat, n = Cardinality(S), NEW order, Ordered(order, n, S),
           NEW l \in Nat \ {0}, NEW most \in Nat, n <= most, NEW page,
           \A o \in Nat : IsPage(page[o], order, n, l, o) /\ page[o] # Null, NEW x
    PROVE  (\E o \in 0..most : InPage(x, page[o])) <=> x \in S
<1>1. ASSUME NEW o \in 0..most, InPage(x, page[o])
      PROVE  x \in S
  <2>1. PICK i \in Cut(n, l, o) : order[i] = x
    BY <1>1, OnPage
  <2> QED BY <2>1 DEF Cut, Ordered
<1>2. ASSUME x \in S
      PROVE  \E o \in 0..most : InPage(x, page[o])
  <2>1. PICK i \in 1..n : order[i] = x
    BY <1>2, AllInOrder DEF Ordered
  <2>2. PICK o : o = i - 1
    OBVIOUS
  <2>3. o \in 0..most /\ o \in Nat /\ i \in Cut(n, l, o)
    BY <2>2 DEF Cut
  <2> QED BY <2>1, <2>3, OnPage
<1> QED BY <1>1, <1>2

\* A tab of a renter has the renter's bookings that belong there.
LEMMA RentedIs ==
    ASSUME FiguresInv, NEW b \in Rows(booking), NEW past \in BOOLEAN
    PROVE  Rented(b, past) <=> InTab(b, past)
<1>1. PICK u, S, n : u = booking[b].renter /\ S = Tab(u, past) /\ n = Cardinality(S)
    OBVIOUS
<1>2. PICK order, most : order = BookingOrder(S, past) /\ most = Cardinality(Rows(booking))
    OBVIOUS
<1>3. S \subseteq Rows(booking) /\ S = Listed(BookingsBy(u), past, STATUSES)
    BY <1>1, TabListed
<1>4. IsFiniteSet(S) /\ n \in Nat /\ Ordered(order, n, S)
    BY <1>1, <1>2, <1>3, BookingsSorted DEF BookingOrder
<1>5. most \in Nat /\ n <= most
    BY <1>1, <1>2, <1>3, FS_Subset, FS_CardinalityType DEF FiguresInv, FiniteRows
<1>6. PICK l : l = MAX_LIMIT
    OBVIOUS
<1>7. l \in 1..MAX_LIMIT /\ l \in Nat \ {0}
    BY <1>6, QueryAssumption
<1>8. PICK page : page = [o \in Nat |-> renter_bookings(u, past, STATUSES, l, o)]
    OBVIOUS
<1>9. \A o \in Nat : page[o] = renter_bookings(u, past, STATUSES, l, o)
    BY <1>8
<1>10. ASSUME NEW o \in Nat
       PROVE  IsPage(page[o], order, n, l, o) /\ page[o] # Null
  <2>1. PICK p : p = renter_bookings(u, past, STATUSES, l, o)
    OBVIOUS
  <2>2. window(l, o) = <<l, o>> /\ <<l, o>> # Null
    BY <1>7, WindowIs
  <2>3. IsPage(p, order, n, l, o) /\ p \in PageResponse(RenterBookingResponse)
    BY <1>1, <1>2, <1>3, <1>7, <2>1, <2>2, RenterBookingsPage
  <2> QED BY <1>9, <2>1, <2>3, AnswerAssumption
<1>11. (\E o \in 0..most : InPage(b, page[o])) <=> b \in S
    BY <1>1, <1>4, <1>5, <1>7, <1>10, SomePage
<1>12. Rented(b, past) <=> \E o \in 0..most : InPage(b, page[o])
    BY <1>1, <1>2, <1>5, <1>6, <1>9 DEF Rented
<1>13. b \in S <=> InTab(b, past)
    BY <1>1 DEF Tab, BookingsBy
<1> QED BY <1>11, <1>12, <1>13

\* So has the same tab of the listing, for the host it is of.
LEMMA HostedIs ==
    ASSUME FiguresInv, NEW b \in Rows(booking), NEW past \in BOOLEAN,
           find_for_host(booking[b].spot, booking[b].host)
    PROVE  Hosted(b, past) <=> InTab(b, past)
<1>1. PICK s, u : s = booking[b].spot /\ u = booking[b].host
    OBVIOUS
<1>2. PICK S, n : S = Listed(BookingsOf(s), past, STATUSES) /\ n = Cardinality(S)
    OBVIOUS
<1>3. PICK order, most : order = BookingOrder(S, past) /\ most = Cardinality(Rows(booking))
    OBVIOUS
<1>4. S \subseteq Rows(booking)
    BY <1>2 DEF Listed, BookingsOf
<1>5. IsFiniteSet(S) /\ n \in Nat /\ Ordered(order, n, S)
    BY <1>2, <1>3, <1>4, BookingsSorted DEF BookingOrder
<1>6. most \in Nat /\ n <= most
    BY <1>2, <1>3, <1>4, FS_Subset, FS_CardinalityType DEF FiguresInv, FiniteRows
<1>7. PICK l : l = MAX_LIMIT
    OBVIOUS
<1>8. l \in 1..MAX_LIMIT /\ l \in Nat \ {0}
    BY <1>7, QueryAssumption
<1>9. PICK page : page = [o \in Nat |-> host_spot_bookings(s, u, past, STATUSES, l, o)]
    OBVIOUS
<1>10. \A o \in Nat : page[o] = host_spot_bookings(s, u, past, STATUSES, l, o)
    BY <1>9
<1>11. ASSUME NEW o \in Nat
       PROVE  IsPage(page[o], order, n, l, o) /\ page[o] # Null
  <2>1. PICK p : p = host_spot_bookings(s, u, past, STATUSES, l, o)
    OBVIOUS
  <2>2. window(l, o) = <<l, o>> /\ <<l, o>> # Null
    BY <1>8, WindowIs
  <2>3. IsPage(p, order, n, l, o) /\ p \in PageResponse(HostBookingResponse)
    BY <1>1, <1>2, <1>3, <1>8, <2>1, <2>2, HostBookingsPage
  <2> QED BY <1>10, <2>1, <2>3, AnswerAssumption
<1>12. (\E o \in 0..most : InPage(b, page[o])) <=> b \in S
    BY <1>2, <1>5, <1>6, <1>8, <1>11, SomePage
<1>13. Hosted(b, past) <=> \E o \in 0..most : InPage(b, page[o])
    BY <1>1, <1>3, <1>6, <1>7, <1>10 DEF Hosted
<1>14. b \in S <=> InTab(b, past)
    BY <1>1, <1>2, HeldRow DEF Listed, BookingsOf
<1> QED BY <1>12, <1>13, <1>14

\* The next booking is the first of the upcoming ones that are confirmed, and the card
\* says of it what its own page says.
LEMMA NextListed ==
    ASSUME FiguresInv, NEW u, NEW card, card = next(u), card # Null
    PROVE  /\ InPage(card.id, renter_bookings(u, FALSE, {"confirmed"}, 1, 0))
           /\ \A c \in DOMAIN card : card[c] = renter_booking(card.id, u)[c]
<1>1. PICK b : b = find_next_for_renter(u)
    OBVIOUS
<1>2. PICK confirmed, past : confirmed = {"confirmed"} /\ past = FALSE
    BY Zenon
<1>3. PICK S, n : S = Listed(BookingsBy(u), past, confirmed) /\ n = Cardinality(S)
    OBVIOUS
<1>4. S = {c \in BookingsBy(u) : booking[c].status = "confirmed" /\ booking[c].ends_at > now}
    BY <1>2, <1>3 DEF Listed, InTab
<1>5. b = IF S = {} THEN Null ELSE Sorted(S, Sooner)[1]
    BY <1>1, <1>4 DEF find_next_for_renter
<1>6. b # Null
    BY <1>1 DEF next
<1>7. S # {} /\ b = Sorted(S, Sooner)[1]
    BY <1>5, <1>6
<1>8. PICK order : order = BookingOrder(S, past)
    OBVIOUS
<1>9. S \subseteq Rows(booking)
    BY <1>3 DEF Listed, BookingsBy
<1>10. IsFiniteSet(S) /\ n \in Nat /\ Ordered(order, n, S) /\ order = Sorted(S, Sooner)
    BY <1>2, <1>3, <1>8, <1>9, BookingsSorted DEF BookingOrder
<1>11. n # 0
    BY <1>3, <1>7, <1>10, FS_EmptySet
<1>12. b = order[1] /\ b \in S
    BY <1>7, <1>10, <1>11 DEF Ordered
<1>13. PICK l, o : l = 1 /\ o = 0
    OBVIOUS
<1>14. window(l, o) = <<l, o>> /\ <<l, o>> # Null /\ l \in Nat \ {0} /\ o \in Nat
    BY <1>13, WindowIs, QueryAssumption
<1>15. PICK p : p = renter_bookings(u, past, confirmed, l, o)
    OBVIOUS
<1>16. IsPage(p, order, n, l, o) /\ p \in PageResponse(RenterBookingResponse)
    BY <1>2, <1>3, <1>8, <1>14, <1>15, RenterBookingsPage
<1>17. 1 \in Cut(n, l, o)
    BY <1>10, <1>11, <1>13 DEF Cut
<1>18. InPage(b, p)
    BY <1>12, <1>14, <1>16, <1>17, OnPage, AnswerAssumption
<1>19. PICK row : row = RenterBookingProjection(b)
    OBVIOUS
<1>20. row.id = b
    BY <1>9, <1>12, <1>19, BookingShown
<1>21. card = [id |-> row.id, spot_id |-> row.spot_id, spot |-> row.spot]
    BY <1>1, <1>6, <1>19 DEF next
<1>22. card.id = b
    BY <1>20, <1>21
<1>23. renter_booking(b, u) = row
    BY <1>3, <1>12, <1>19 DEF renter_booking, find_booking_for_renter, Listed
<1>24. \A c \in DOMAIN card : card[c] = row[c]
    BY <1>21
<1> QED BY <1>2, <1>13, <1>15, <1>18, <1>22, <1>23, <1>24

\* What is listed can be opened.
LEMMA SpotsOpen ==
    ASSUME FiguresInv, NEW s \in Rows(spot)
    PROVE  /\ PublicSpotProjection(s) \in PublicSpotResponse /\ PublicSpotProjection(s) # Null
           /\ RenterSpotProjection(s) \in RenterSpotResponse /\ RenterSpotProjection(s) # Null
           /\ HostSpotProjection(s) \in HostSpotResponse /\ HostSpotProjection(s) # Null
<1>1. s \in Spots /\ spot[s] \in ViewSpot /\ spot[s].host \in Users
    BY ListingRow DEF ViewSpot, Listing
<1>2. spot[s].title \in Titles /\ spot[s].active \in BOOLEAN
    BY <1>1 DEF ViewSpot, Listing
<1>3. UserPublicProjection(spot[s].host) \in OrNull(UserPublicResponse)
    BY <1>1, NameShown
<1>4. PublicSpotProjection(s) \in PublicSpotResponse
    BY <1>1, <1>2, <1>3 DEF PublicSpotProjection, PublicSpotResponse
<1>5. RenterSpotProjection(s) \in RenterSpotResponse
    BY <1>1, <1>2, <1>3 DEF RenterSpotProjection, RenterSpotResponse
<1>6. HostSpotProjection(s) \in HostSpotResponse
    BY <1>1, <1>2 DEF HostSpotProjection, HostSpotResponse
<1> QED BY <1>4, <1>5, <1>6, AnswerAssumption

\* The lists of one state agree.
LEMMA ListsAgreeNow ==
    ASSUME FiguresInv
    PROVE  ListsAgree
<1>1. ASSUME NEW b \in Rows(booking), NEW s, s = booking[b].spot
      PROVE  /\ Rented(b, TRUE) # Rented(b, FALSE)
             /\ host_spot(s, booking[b].host) # Null =>
                    \A past \in BOOLEAN : Hosted(b, past) = Rented(b, past)
             /\ s \in Rows(spot) => renter_spot(s, booking[b].renter) # Null
             /\ b \in Taken(s) => Rented(b, FALSE)
  <2>1. booking[b].ends_at \in Nat /\ now \in Nat
    BY HeldRow, UpstreamAssumption DEF FiguresInv, TablesInv, Scope
  <2>2. InTab(b, TRUE) <=> ~InTab(b, FALSE)
    BY <2>1 DEF InTab
  <2>3. \A past \in BOOLEAN : Rented(b, past) <=> InTab(b, past)
    BY RentedIs
  <2>4. Rented(b, TRUE) # Rented(b, FALSE)
    BY <2>2, <2>3
  <2>5. ASSUME host_spot(s, booking[b].host) # Null, NEW past \in BOOLEAN
        PROVE  Hosted(b, past) = Rented(b, past)
    <3>1. find_for_host(s, booking[b].host)
      BY <2>5 DEF host_spot
    <3>2. Hosted(b, past) <=> InTab(b, past)
      BY <1>1, <3>1, HostedIs
    <3> QED BY <2>3, <3>2 DEF Hosted, Rented
  <2>6. ASSUME s \in Rows(spot)
        PROVE  renter_spot(s, booking[b].renter) # Null
    <3>1. find_for_renter(s, booking[b].renter)
      BY <1>1, <2>6 DEF find_for_renter
    <3> QED BY <2>6, <3>1, SpotsOpen DEF renter_spot
  <2>7. b \in Taken(s) => Rented(b, FALSE)
    BY <2>3 DEF Taken, InTab
  <2> QED BY <2>4, <2>5, <2>6, <2>7
<1>2. ASSUME NEW u \in Users, next(u) # Null
      PROVE  /\ InPage(next(u).id, renter_bookings(u, FALSE, {"confirmed"}, 1, 0))
             /\ \A c \in DOMAIN next(u) : next(u)[c] = renter_booking(next(u).id, u)[c]
  <2>1. PICK card : card = next(u)
    OBVIOUS
  <2>2. /\ InPage(card.id, renter_bookings(u, FALSE, {"confirmed"}, 1, 0))
        /\ \A c \in DOMAIN card : card[c] = renter_booking(card.id, u)[c]
    BY <1>2, <2>1, NextListed
  <2> QED BY <2>1, <2>2
<1>3. ASSUME NEW u \in Users, NEW centre \in Points, NEW pin \in nearby(u, centre)
      PROVE  public_spot(pin.id) # Null
  <2>1. PICK s \in Rows(spot) : spot[s].active /\ pin = PublicSpotPinProjection(s)
    BY DEF nearby, find_pins_for_public
  <2>2. pin.id = s
    BY <2>1 DEF PublicSpotPinProjection
  <2>3. public_spot(s) # Null
    BY <2>1, SpotsOpen DEF public_spot, find_for_public
  <2> QED BY <2>2, <2>3
<1> QED BY <1>1, <1>2, <1>3 DEF ListsAgree

\* The lists agree with each other however many pages they take: a booking is in one tab,
\* the same one for its renter and its host, and what one list leads to another shows.
THEOREM ListsAgreeHolds == Spec => []ListsAgree
BY ListsAgreeNow, FiguresInvariance, PTL

-----------------------------------------------------------------------------
(* What a response says *)

\* The largest of the ratings there may be.
LEMMA MostStars ==
    ASSUME Ratings # {}
    PROVE  Max(Ratings) \in Nat /\ \A r \in Ratings : r <= Max(Ratings)
<1>1. PICK key : key = [r \in Ratings |-> r]
    OBVIOUS
<1>2. Ratings \subseteq Nat /\ IsFiniteSet(Ratings)
    BY UpstreamAssumption
<1>3. \A r \in Ratings : key[r] = r /\ key[r] \in Int
    BY <1>1, <1>2
<1>4. PICK most \in Ratings : \A r \in Ratings : key[r] <= key[most]
    BY <1>2, <1>3, LastByKey
<1>5. most \in Nat /\ \A r \in Ratings : r <= most
    BY <1>2, <1>3, <1>4
<1> QED BY <1>2, <1>5, LargestNumber

\* The counts of a set of bookings, and their average, which is within the ratings.
LEMMA StatsShown ==
    ASSUME FiguresInv, NEW S, S \subseteq Rows(booking), NEW stats, stats = BookingStatsProjection(S)
    PROVE  stats.bookings \in Nat /\ stats.ratings \in Nat /\ average(stats) \in OrNull(Rating)
<1>1. PICK rated : rated = RatedOf(S)
    OBVIOUS
<1>2. IsFiniteSet(S) /\ rated \subseteq S /\ Over(S) \subseteq S
    BY <1>1, FS_Subset DEF FiguresInv, FiniteRows, RatedOf, Over
<1>3. /\ IsFiniteSet(rated) /\ Cardinality(rated) \in Nat /\ Cardinality(Over(S)) \in Nat
      /\ Cardinality(rated) = 0 <=> rated = {}
    BY <1>2, FS_Subset, FS_CardinalityType, FS_EmptySet
<1>4. stats.bookings \in Nat /\ stats.ratings = Cardinality(rated)
    BY <1>1, <1>3, CountsAre
<1>5. CASE rated = {}
    BY <1>3, <1>4, <1>5 DEF average, OrNull
<1>6. CASE rated # {}
  <2>1. PICK f : f = [b \in rated |-> booking[b].rating]
    OBVIOUS
  <2>2. \A b \in rated : f[b] \in Ratings /\ f[b] = booking[b].rating
    BY <1>1, <2>1, HeldRow DEF RatedOf
  <2>3. Ratings # {}
    BY <1>6, <2>2
  <2>4. PICK most : most = Max(Ratings)
    OBVIOUS
  <2>5. most \in Nat /\ \A b \in rated : f[b] \in Nat /\ f[b] <= most
    BY <2>2, <2>3, <2>4, MostStars, UpstreamAssumption
  <2>6. PICK sum, count : sum = SumFunctionOnSet(f, rated) /\ count = Cardinality(rated)
    OBVIOUS
  <2>7. sum \in Nat /\ sum <= most * count
    BY <1>3, <2>5, <2>6, SumOfNat, SumAtMost
  <2>8. stats.rating_sum = sum
    <3>1. SumFunction(f) = sum
      BY <2>1, <2>6, SumDomain
    <3> QED BY <1>1, <2>1, <3>1 DEF BookingStatsProjection, RatedOf
  <2>9. count \in Nat \ {0}
    BY <1>3, <1>6, <2>6
  <2>10. <<sum, count>> \in Rating
    BY <2>4, <2>7, <2>9 DEF Rating
  <2>11. average(stats) = <<sum, count>>
    BY <1>4, <2>6, <2>8, <2>9 DEF average
  <2> QED BY <1>3, <1>4, <2>10, <2>11 DEF OrNull
<1> QED BY <1>5, <1>6

\* What strangers are answered.
LEMMA PublicShown ==
    ASSUME FiguresInv, NEW u \in Users
    PROVE  PublicRoutes(u) \in
               [spot : [Spots -> OrNull(PublicSpotResponse)],
                spot_summary : [Spots -> SpotSummaryResponse],
                user_summary : [Users -> UserSummaryResponse],
                spot_bookings : [Spots -> OrNull(SUBSET PublicBookingResponse)],
                nearby : [Points -> SUBSET NearbyResponse]]
<1>1. ASSUME NEW s \in Spots
      PROVE  public_spot(s) \in OrNull(PublicSpotResponse)
  <2>1. CASE find_for_public(s)
    <3>1. s \in Rows(spot)
      BY <2>1 DEF find_for_public
    <3> QED BY <2>1, <3>1, SpotsOpen DEF public_spot, OrNull
  <2>2. CASE ~find_for_public(s)
    BY <2>2 DEF public_spot, OrNull
  <2> QED BY <2>1, <2>2
<1>2. ASSUME NEW s \in Spots
      PROVE  public_spot_summary(s) \in SpotSummaryResponse
  <2>1. BookingsOf(s) \subseteq Rows(booking)
    BY DEF BookingsOf
  <2>2. PICK stats : stats = BookingStatsProjection(BookingsOf(s))
    OBVIOUS
  <2>3. stats.ratings \in Nat /\ average(stats) \in OrNull(Rating)
    BY <2>1, <2>2, StatsShown
  <2>4. public_spot_summary(s) = [rating |-> average(stats), ratings |-> stats.ratings]
    BY <2>2 DEF public_spot_summary, stats_for_spot
  <2> QED BY <2>3, <2>4 DEF SpotSummaryResponse
<1>3. ASSUME NEW v \in Users
      PROVE  user_summary(v) \in UserSummaryResponse
  <2>1. HostedBy(v) \subseteq Rows(booking)
    BY DEF HostedBy
  <2>2. PICK stats : stats = BookingStatsProjection(HostedBy(v))
    OBVIOUS
  <2>3. stats.bookings \in Nat /\ stats.ratings \in Nat /\ average(stats) \in OrNull(Rating)
    BY <2>1, <2>2, StatsShown
  <2>4. user_summary(v) =
            [bookings |-> stats.bookings, rating |-> average(stats), ratings |-> stats.ratings]
    BY <2>2 DEF user_summary, stats_for_host, HostedBy
  <2> QED BY <2>3, <2>4 DEF UserSummaryResponse
<1>4. ASSUME NEW s \in Spots
      PROVE  public_spot_bookings(s) \in OrNull(SUBSET PublicBookingResponse)
  <2>1. ASSUME NEW b \in Taken(s)
        PROVE  PublicBookingProjection(b) \in PublicBookingResponse
    <3>1. b \in Rows(booking) /\ booking[b].status \in TAKEN
      BY DEF Taken, BookingsOf
    <3>2. b \in Bookings /\ booking[b].ends_at \in Nat
      BY <3>1, HeldRow
    <3> QED BY <3>1, <3>2 DEF PublicBookingProjection, PublicBookingResponse
  <2>2. find_for_public_spot(s) \in SUBSET PublicBookingResponse
    BY <2>1 DEF find_for_public_spot
  <2> QED BY <2>2 DEF public_spot_bookings, OrNull
<1>5. ASSUME NEW c \in Points
      PROVE  nearby(u, c) \in SUBSET NearbyResponse
  <2>1. ASSUME NEW s \in find_pins_for_public(u, c)
        PROVE  PublicSpotPinProjection(s) \in NearbyResponse
    <3>1. s \in Rows(spot)
      BY DEF find_pins_for_public
    <3>2. s \in Spots /\ spot[s] \in ViewSpot
      BY <3>1, ListingRow
    <3> QED BY <3>2 DEF PublicSpotPinProjection, NearbyResponse, ViewSpot
  <2> QED BY <2>1 DEF nearby
<1> QED BY <1>1, <1>2, <1>3, <1>4, <1>5 DEF PublicRoutes

\* A first page, as long as the default.
LEMMA DefaultWindow ==
    \E l \in Nat \ {0}, o \in Nat : window(Null, Null) = <<l, o>> /\ <<l, o>> # Null
<1>1. PICK l, o : l = DEFAULT_LIMIT /\ o = 0
    OBVIOUS
<1>2. l \in 1..MAX_LIMIT /\ o \in Nat /\ l \in Nat \ {0}
    BY <1>1, QueryAssumption
<1>3. window(Null, Null) = <<l, o>>
    BY <1>1, <1>2 DEF window
<1>4. <<l, o>> # Null
    BY <1>2, WindowIs
<1> QED BY <1>2, <1>3, <1>4

\* The first page of a host's listings, of a listing's bookings and of a renter's.
LEMMA FirstPages ==
    ASSUME FiguresInv, NEW u
    PROVE  /\ host_spots(u, Null, Null) \in PageResponse(HostSpotResponse)
           /\ \A s : find_for_host(s, u) =>
                  host_spot_bookings(s, u, FALSE, STATUSES, Null, Null) \in PageResponse(HostBookingResponse)
           /\ renter_bookings(u, FALSE, STATUSES, Null, Null) \in PageResponse(RenterBookingResponse)
<1>1. PICK l \in Nat \ {0}, o \in Nat : window(Null, Null) = <<l, o>> /\ <<l, o>> # Null
    BY DefaultWindow
<1>2. PICK past : past = FALSE
    BY Zenon
<1>3. past \in BOOLEAN
    BY <1>2
<1>4. host_spots(u, Null, Null) \in PageResponse(HostSpotResponse)
  <2>1. PICK page : page = host_spots(u, Null, Null)
    OBVIOUS
  <2> QED BY <1>1, <2>1, HostSpotsPage
<1>5. ASSUME NEW s, find_for_host(s, u)
      PROVE  host_spot_bookings(s, u, past, STATUSES, Null, Null) \in PageResponse(HostBookingResponse)
  <2>1. PICK page : page = host_spot_bookings(s, u, past, STATUSES, Null, Null)
    OBVIOUS
  <2>2. PICK S : S = Listed(BookingsOf(s), past, STATUSES)
    OBVIOUS
  <2> QED BY <1>1, <1>3, <1>5, <2>1, <2>2, HostBookingsPage
<1>6. renter_bookings(u, past, STATUSES, Null, Null) \in PageResponse(RenterBookingResponse)
  <2>1. PICK page : page = renter_bookings(u, past, STATUSES, Null, Null)
    OBVIOUS
  <2>2. PICK S : S = Listed(BookingsBy(u), past, STATUSES)
    OBVIOUS
  <2> QED BY <1>1, <1>3, <2>1, <2>2, RenterBookingsPage
<1> QED BY Zenon, <1>2, <1>4, <1>5, <1>6

\* The figures of a host's dashboard are counts and sums.
LEMMA SummaryShown ==
    ASSUME FiguresInv, NEW u
    PROVE  host_summary(u) \in HostSummaryResponse
<1>1. IsFiniteSet(HostSpots(u)) /\ Cardinality(HostSpots(u)) \in Nat
    BY HostSpotsListed, SpotsSorted
<1>2. Cardinality({s \in HostSpots(u) : spot[s].active}) \in Nat
  <2>1. {s \in HostSpots(u) : spot[s].active} \subseteq HostSpots(u)
    OBVIOUS
  <2> QED BY <1>1, <2>1, FS_Subset, FS_CardinalityType
<1>3. PICK busy : busy = {b \in find_unfinished_for_host(u) : active_now(b)}
    OBVIOUS
<1>4. Cardinality({booking[b].spot : b \in busy}) \in Nat
  <2>1. busy \subseteq Rows(booking)
    BY <1>3 DEF find_unfinished_for_host
  <2>2. IsFiniteSet(busy)
    BY <2>1, FS_Subset DEF FiguresInv, FiniteRows
  <2>3. PICK m : m = [b \in busy |-> booking[b].spot]
    OBVIOUS
  <2>4. Image(m, busy) = {booking[b].spot : b \in busy}
    BY <2>3 DEF Image
  <2>5. IsFiniteSet(Image(m, busy))
    BY <2>2, ImageFinite
  <2> QED BY <2>4, <2>5, FS_CardinalityType
<1>5. stats_for_host(u).bookings \in Nat
  <2>1. HostedBy(u) \subseteq Rows(booking)
    BY DEF HostedBy
  <2>2. PICK stats : stats = BookingStatsProjection(HostedBy(u))
    OBVIOUS
  <2>3. stats.bookings \in Nat
    BY <2>1, <2>2, StatsShown
  <2> QED BY <2>2, <2>3 DEF stats_for_host, HostedBy
<1>6. PICK this, last : this = bounds(label(now)) /\ last = bounds(label(now) - 1)
    OBVIOUS
<1>7. PICK A, B : /\ A = {b \in Earning(u) : Within(payment[b].created_at, this)}
                  /\ B = {b \in Earning(u) : Within(payment[b].created_at, last)}
    OBVIOUS
<1>8. Cents(Earning(u)) \in Nat /\ Cents(A) \in Nat /\ Cents(B) \in Nat
  <2>1. Earning(u) \subseteq Rows(payment) /\ A \subseteq Rows(payment) /\ B \subseteq Rows(payment)
    BY <1>7, EarningIs
  <2> QED BY <2>1, CentsIs
<1>9. PICK earned : earned = earned_by_month_for_host(u, this, last)
    OBVIOUS
<1>10. earned[1] \in Nat /\ earned[2] \in Nat
  <2>1. earned = <<Cents(A), Cents(B)>>
    BY <1>7, <1>9 DEF earned_by_month_for_host
  <2> QED BY <1>8, <2>1
<1>11. host_summary(u) =
           [spots |-> Cardinality(HostSpots(u)),
            active_spots |-> Cardinality({s \in HostSpots(u) : spot[s].active}),
            booked_now |-> Cardinality({booking[b].spot : b \in busy}),
            bookings |-> stats_for_host(u).bookings,
            earned |-> Cents(Earning(u)),
            earned_this_month |-> earned[1], earned_last_month |-> earned[2]]
    BY <1>3, <1>6, <1>9 DEF host_summary, counts_for_host, earned_for_host
<1> QED BY <1>1, <1>2, <1>4, <1>5, <1>8, <1>10, <1>11 DEF HostSummaryResponse

\* What a host is answered.
LEMMA HostShown ==
    ASSUME FiguresInv, NEW u \in Users
    PROVE  /\ HostRoutes(u) \in
                  [spots : PageResponse(HostSpotResponse),
                   spot : [Spots -> OrNull(HostSpotResponse)],
                   summary : HostSummaryResponse,
                   spot_summary : [Spots -> OrNull(HostSpotSummaryResponse)],
                   booked : [Spots -> OrNull(SUBSET Bookings)],
                   bookings : [Spots -> OrNull(HostBookingsPageResponse)],
                   balance : BalanceResponse]
           /\ balance_for_host(u) \in BalanceProjection
<1>1. ASSUME NEW s \in Spots
      PROVE  host_spot(s, u) \in OrNull(HostSpotResponse)
  <2>1. CASE find_for_host(s, u)
    <3>1. s \in Rows(spot)
      BY <2>1 DEF find_for_host
    <3> QED BY <2>1, <3>1, SpotsOpen DEF host_spot, OrNull
  <2>2. CASE ~find_for_host(s, u)
    BY <2>2 DEF host_spot, OrNull
  <2> QED BY <2>1, <2>2
<1>2. ASSUME NEW s \in Spots
      PROVE  host_spot_summary(s, u) \in OrNull(HostSpotSummaryResponse)
  <2>1. CASE find_for_host(s, u)
    <3>1. BookingsOf(s) \subseteq Rows(booking)
      BY DEF BookingsOf
    <3>2. PICK stats : stats = BookingStatsProjection(BookingsOf(s))
      OBVIOUS
    <3>3. stats.bookings \in Nat /\ stats.ratings \in Nat /\ average(stats) \in OrNull(Rating)
      BY <3>1, <3>2, StatsShown
    <3>4. earned_for_host_spot(u, s) \in Nat
      <4>1. PICK S : S = {b \in Earning(u) : BookingOf(b).spot = s}
        OBVIOUS
      <4>2. S \subseteq Rows(payment)
        BY <4>1, EarningIs
      <4>3. Cents(S) \in Nat
        BY <4>2, CentsIs
      <4> QED BY <4>1, <4>3 DEF earned_for_host_spot
    <3>5. host_spot_summary(s, u) =
              [bookings |-> stats.bookings, earned |-> earned_for_host_spot(u, s),
               rating |-> average(stats), ratings |-> stats.ratings]
      BY <2>1, <3>2 DEF host_spot_summary, stats_for_spot
    <3> QED BY <3>3, <3>4, <3>5 DEF HostSpotSummaryResponse, OrNull
  <2>2. CASE ~find_for_host(s, u)
    BY <2>2 DEF host_spot_summary, OrNull
  <2> QED BY <2>1, <2>2
<1>3. ASSUME NEW s \in Spots
      PROVE  booked(s, u) \in OrNull(SUBSET Bookings)
  <2>1. Taken(s) \subseteq Bookings
    BY HeldRow DEF Taken, BookingsOf
  <2> QED BY <2>1 DEF booked, find_booked_for_host_spot, OrNull
<1>4. ASSUME NEW s \in Spots
      PROVE  host_spot_bookings(s, u, FALSE, STATUSES, Null, Null) \in OrNull(HostBookingsPageResponse)
  <2>1. CASE find_for_host(s, u)
    BY <2>1, FirstPages DEF OrNull, HostBookingsPageResponse
  <2>2. CASE ~find_for_host(s, u)
    BY <2>2 DEF host_spot_bookings, OrNull
  <2> QED BY <2>1, <2>2
<1>5. balance(u) \in BalanceResponse /\ balance_for_host(u) \in BalanceProjection
    BY BalanceIs DEF BalanceResponse, BalanceProjection
<1>6. host_spots(u, Null, Null) \in PageResponse(HostSpotResponse) /\ host_summary(u) \in HostSummaryResponse
    BY FirstPages, SummaryShown
<1> QED BY <1>1, <1>2, <1>3, <1>4, <1>5, <1>6 DEF HostRoutes

\* What a renter is answered.
LEMMA RenterShown ==
    ASSUME FiguresInv, NEW u \in Users
    PROVE  RenterRoutes(u) \in
               [bookings : RenterBookingsPageResponse,
                spot : [Spots -> OrNull(RenterSpotResponse)],
                next : OrNull(NextBookingResponse),
                booking : [Bookings -> OrNull(RenterBookingResponse)]]
<1>1. renter_bookings(u, FALSE, STATUSES, Null, Null) \in RenterBookingsPageResponse
    BY FirstPages DEF RenterBookingsPageResponse
<1>2. ASSUME NEW s \in Spots
      PROVE  renter_spot(s, u) \in OrNull(RenterSpotResponse)
  <2>1. CASE find_for_renter(s, u)
    <3>1. s \in Rows(spot)
      BY <2>1 DEF find_for_renter
    <3> QED BY <2>1, <3>1, SpotsOpen DEF renter_spot, OrNull
  <2>2. CASE ~find_for_renter(s, u)
    BY <2>2 DEF renter_spot, OrNull
  <2> QED BY <2>1, <2>2
<1>3. next(u) \in OrNull(NextBookingResponse)
  <2>1. PICK b : b = find_next_for_renter(u)
    OBVIOUS
  <2>2. CASE b = Null
    BY <2>1, <2>2 DEF next, OrNull
  <2>3. CASE b # Null
    <3>1. PICK S, n, order : /\ S = {c \in BookingsBy(u) : booking[c].status = "confirmed" /\ booking[c].ends_at > now}
                             /\ n = Cardinality(S) /\ order = Sorted(S, Sooner)
      OBVIOUS
    <3>2. S # {} /\ b = order[1]
      BY <2>1, <2>3, <3>1 DEF find_next_for_renter
    <3>3. S \subseteq Rows(booking)
      BY <3>1 DEF BookingsBy
    <3>4. IsFiniteSet(S) /\ n \in Nat /\ order \in [1..n -> S]
      BY <3>1, <3>3, BookingsSorted DEF Ordered
    <3>5. n # 0
      BY <3>1, <3>2, <3>4, FS_EmptySet
    <3>6. b \in Rows(booking)
      BY <3>2, <3>3, <3>4, <3>5
    <3>7. PICK row : row = RenterBookingProjection(b)
      OBVIOUS
    <3>8. row \in RenterBookingResponse
      BY <3>6, <3>7, BookingShown
    <3>9. next(u) = [id |-> row.id, spot_id |-> row.spot_id, spot |-> row.spot]
      BY <2>1, <2>3, <3>7 DEF next
    <3> QED BY <3>8, <3>9 DEF RenterBookingResponse, NextBookingResponse, OrNull
  <2> QED BY <2>2, <2>3
<1>4. ASSUME NEW b \in Bookings
      PROVE  renter_booking(b, u) \in OrNull(RenterBookingResponse)
  <2>1. CASE find_booking_for_renter(b, u)
    <3>1. b \in Rows(booking)
      BY <2>1 DEF find_booking_for_renter, BookingsBy
    <3> QED BY <2>1, <3>1, BookingShown DEF renter_booking, OrNull
  <2>2. CASE ~find_booking_for_renter(b, u)
    BY <2>2 DEF renter_booking, OrNull
  <2> QED BY <2>1, <2>2
<1> QED BY <1>1, <1>2, <1>3, <1>4 DEF RenterRoutes

Roles == {"in", "out", "refund-out", "refund-in", "payout"}
WalletKinds == {"in", "out", "refund", "payout"}
WalletRow ==
    [id : (Bookings \cup Payouts) \X Roles, kind : WalletKinds, amount_cents : Int,
     occurred_at : Nat, settles_at : Nat \cup {Null}, pending_now : BOOLEAN]

\* A row of its five branches.
LEMMA EntryTyped ==
    ASSUME NEW k \in Bookings \cup Payouts, NEW role \in Roles, NEW kind \in WalletKinds,
           NEW cents \in Int, NEW at \in Nat,
           NEW settles \in Nat \cup {Null}, NEW flag \in BOOLEAN
    PROVE  Entry(k, role, kind, cents, at, settles, flag) \in WalletRow
BY DEF Entry, WalletRow

\* A row of a month has the columns of a row, and there are finitely many of them.
LEMMA MonthTyped ==
    ASSUME FiguresInv, NEW u, NEW range
    PROVE  /\ find_month_for_account(u, range) \subseteq WalletRow
           /\ IsFiniteSet(find_month_for_account(u, range))
<1>1. PICK charged, refunded : charged = Charges(range) /\ refunded = Refunds(range)
    OBVIOUS
<1>2. /\ charged \subseteq Rows(payment) /\ charged \subseteq Rows(booking) /\ IsFiniteSet(charged)
      /\ refunded \subseteq Rows(payment) /\ IsFiniteSet(refunded)
  <2>1. /\ Joined \subseteq Rows(payment) /\ Joined \subseteq Rows(booking) /\ IsFiniteSet(Joined)
    BY JoinedIs
  <2>2. charged \subseteq Joined /\ refunded \subseteq Joined
    BY <1>1 DEF Charges, Refunds
  <2> QED BY <2>1, <2>2, FS_Subset
<1>3. ASSUME NEW b \in charged
      PROVE  /\ b \in Bookings /\ payment[b].amount \in Nat /\ payment[b].created_at \in Nat
             /\ Ripens(b) \in Nat \cup {Null}
  <2>1. b \in Bookings /\ payment[b].amount \in Nat /\ payment[b].created_at \in Nat
    BY <1>2, ChargeRow
  <2>2. BookingOf(b).ends_at \in Nat
    BY <1>2, JoinedIs, HeldRow
  <2> QED BY <2>1, <2>2 DEF Ripens
<1>4. ASSUME NEW b \in refunded
      PROVE  b \in Bookings /\ payment[b].amount \in Nat /\ payment[b].refunded_at \in Nat
  <2>1. payment[b].refunded_at # Null
    BY <1>1 DEF Refunds, Within
  <2> QED BY <1>2, <2>1, ChargeRow
<1>5. PICK earners, payers, returned, repaid, taken :
          /\ earners = {b \in charged : payment[b].host = u}
          /\ payers = {b \in charged : payment[b].renter = u}
          /\ returned = {b \in refunded : payment[b].host = u}
          /\ repaid = {b \in refunded : payment[b].renter = u}
          /\ taken = {q \in Rows(payout) : /\ payout[q].host = u /\ payout[q].status # "failed"
                                           /\ Within(payout[q].created_at, range)}
    OBVIOUS
<1>6. /\ IsFiniteSet(earners) /\ IsFiniteSet(payers) /\ IsFiniteSet(returned) /\ IsFiniteSet(repaid)
      /\ IsFiniteSet(taken)
  <2>1. /\ earners \subseteq charged /\ payers \subseteq charged
        /\ returned \subseteq refunded /\ repaid \subseteq refunded
    BY <1>5
  <2>2. taken \subseteq Rows(payout) /\ IsFiniteSet(Rows(payout))
    BY <1>5 DEF FiguresInv, FiniteRows
  <2> QED BY <1>2, <2>1, <2>2, FS_Subset
<1>7. PICK paid : paid = [b \in payers |-> Entry(b, "out", "out", -payment[b].amount,
                                                payment[b].created_at, Null, FALSE)]
    OBVIOUS
<1>8. PICK back : back = [b \in repaid |-> Entry(b, "refund-in", "refund", payment[b].amount,
                                                payment[b].refunded_at, Null, FALSE)]
    OBVIOUS
<1>9. PICK in : in = [b \in earners |-> ChargeEntry(b)]
    OBVIOUS
<1>10. PICK off : off = [b \in returned |-> RefundEntry(b)]
    OBVIOUS
<1>11. PICK out : out = [p \in taken |-> PayoutEntry(p)]
    OBVIOUS
<1>12. /\ MoneyIn(u, range) = Image(in, earners) /\ MoneyOut(u, range) = Image(paid, payers)
       /\ RefundOut(u, range) = Image(off, returned) /\ RefundIn(u, range) = Image(back, repaid)
       /\ PayoutRows(u, range) = Image(out, taken)
  <2>1. MoneyIn(u, range) = Image(in, earners)
    BY <1>1, <1>5, <1>9 DEF MoneyIn, ChargeEntry, Image
  <2>2. MoneyOut(u, range) = Image(paid, payers)
    BY <1>1, <1>5, <1>7 DEF MoneyOut, Image
  <2>3. RefundOut(u, range) = Image(off, returned)
    BY <1>1, <1>5, <1>10 DEF RefundOut, RefundEntry, Image
  <2>4. RefundIn(u, range) = Image(back, repaid)
    BY <1>1, <1>5, <1>8 DEF RefundIn, Image
  <2>5. PayoutRows(u, range) = Image(out, taken)
    BY <1>5, <1>11 DEF PayoutRows, PayoutEntry, Image
  <2> QED BY <2>1, <2>2, <2>3, <2>4, <2>5
<1>13. ASSUME NEW b \in earners
       PROVE  in[b] \in WalletRow
  <2>1. PICK role, kind, flag : role = "in" /\ kind = "in" /\ flag = FALSE
    BY Zenon
  <2>2. role \in Roles /\ kind \in WalletKinds /\ flag \in BOOLEAN
    BY ONLY <2>1 DEF Roles, WalletKinds
  <2>3. PICK cents, at, settles : cents = payment[b].amount /\ at = payment[b].created_at /\ settles = Ripens(b)
    OBVIOUS
  <2>4. b \in Bookings \cup Payouts /\ cents \in Int /\ at \in Nat /\ settles \in Nat \cup {Null}
    BY <1>3, <1>5, <2>3
  <2>5. Entry(b, role, kind, cents, at, settles, flag) \in WalletRow
    BY ONLY <2>2, <2>4, EntryTyped
  <2> QED BY <1>9, <2>1, <2>3, <2>5, Zenon DEF ChargeEntry
<1>14. ASSUME NEW b \in payers
       PROVE  paid[b] \in WalletRow
  <2>1. PICK role, kind, flag : role = "out" /\ kind = "out" /\ flag = FALSE
    BY Zenon
  <2>2. role \in Roles /\ kind \in WalletKinds /\ flag \in BOOLEAN
    BY ONLY <2>1 DEF Roles, WalletKinds
  <2>3. PICK cents, at, settles : cents = -payment[b].amount /\ at = payment[b].created_at /\ settles = Null
    OBVIOUS
  <2>4. b \in Bookings \cup Payouts /\ cents \in Int /\ at \in Nat /\ settles \in Nat \cup {Null}
    BY <1>3, <1>5, <2>3
  <2>5. Entry(b, role, kind, cents, at, settles, flag) \in WalletRow
    BY ONLY <2>2, <2>4, EntryTyped
  <2> QED BY <1>7, <2>1, <2>3, <2>5, Zenon
<1>15. ASSUME NEW b \in returned
       PROVE  off[b] \in WalletRow
  <2>1. PICK role, kind, flag : role = "refund-out" /\ kind = "refund" /\ flag = FALSE
    BY Zenon
  <2>2. role \in Roles /\ kind \in WalletKinds /\ flag \in BOOLEAN
    BY ONLY <2>1 DEF Roles, WalletKinds
  <2>3. PICK cents, at, settles : cents = -payment[b].amount /\ at = payment[b].refunded_at /\ settles = Null
    OBVIOUS
  <2>4. b \in Bookings \cup Payouts /\ cents \in Int /\ at \in Nat /\ settles \in Nat \cup {Null}
    BY <1>4, <1>5, <2>3
  <2>5. Entry(b, role, kind, cents, at, settles, flag) \in WalletRow
    BY ONLY <2>2, <2>4, EntryTyped
  <2> QED BY <1>10, <2>1, <2>3, <2>5, Zenon DEF RefundEntry
<1>16. ASSUME NEW b \in repaid
       PROVE  back[b] \in WalletRow
  <2>1. PICK role, kind, flag : role = "refund-in" /\ kind = "refund" /\ flag = FALSE
    BY Zenon
  <2>2. role \in Roles /\ kind \in WalletKinds /\ flag \in BOOLEAN
    BY ONLY <2>1 DEF Roles, WalletKinds
  <2>3. PICK cents, at, settles : cents = payment[b].amount /\ at = payment[b].refunded_at /\ settles = Null
    OBVIOUS
  <2>4. b \in Bookings \cup Payouts /\ cents \in Int /\ at \in Nat /\ settles \in Nat \cup {Null}
    BY <1>4, <1>5, <2>3
  <2>5. Entry(b, role, kind, cents, at, settles, flag) \in WalletRow
    BY ONLY <2>2, <2>4, EntryTyped
  <2> QED BY <1>8, <2>1, <2>3, <2>5, Zenon
<1>17. ASSUME NEW p \in taken
       PROVE  out[p] \in WalletRow
  <2>1. p \in Payouts /\ -payout[p].amount \in Int /\ payout[p].created_at \in Nat
    BY <1>5, WithdrawalRow
  <2>2. PICK role, flag : role = "payout" /\ flag = (payout[p].status = "requested")
    BY Zenon
  <2>3. role \in Roles /\ role \in WalletKinds
    BY ONLY <2>2 DEF Roles, WalletKinds
  <2>4. flag \in BOOLEAN
    BY ONLY <2>2
  <2>5. Entry(p, role, role, -payout[p].amount, payout[p].created_at, Null, flag) \in WalletRow
    BY <2>1, <2>3, <2>4, EntryTyped
  <2> QED BY <1>11, <2>2, <2>5, Zenon DEF PayoutEntry
<1>18. find_month_for_account(u, range) = Image(in, earners) \cup Image(paid, payers)
           \cup Image(off, returned) \cup Image(back, repaid) \cup Image(out, taken)
    BY <1>12 DEF find_month_for_account
<1>19. /\ IsFiniteSet(Image(in, earners)) /\ IsFiniteSet(Image(paid, payers))
       /\ IsFiniteSet(Image(off, returned)) /\ IsFiniteSet(Image(back, repaid))
       /\ IsFiniteSet(Image(out, taken))
    BY <1>6, ImageFinite
<1>20. IsFiniteSet(find_month_for_account(u, range))
    BY <1>18, <1>19, FS_Union
<1>21. find_month_for_account(u, range) \subseteq WalletRow
    BY <1>13, <1>14, <1>15, <1>16, <1>17, <1>18 DEF Image
<1> QED BY <1>20, <1>21

\* What a page of the wallet adds up to is money: neither total is negative.
LEMMA TotalsShown ==
    ASSUME NEW rows \in SUBSET WalletRow, IsFiniteSet(rows)
    PROVE  TotalIn(rows) \in Nat /\ TotalOut(rows) \in Nat
<1>1. PICK A, B : /\ A = {row \in rows : row.amount_cents >= 0}
                  /\ B = {row \in rows : row.amount_cents < 0 /\ row.kind # "payout"}
    OBVIOUS
<1>2. IsFiniteSet(A) /\ IsFiniteSet(B)
  <2>1. A \subseteq rows /\ B \subseteq rows
    BY <1>1
  <2> QED BY <2>1, FS_Subset
<1>3. PICK f, g : f = [r \in A |-> r.amount_cents] /\ g = [r \in B |-> -r.amount_cents]
    OBVIOUS
<1>4. \A r \in rows : r.amount_cents \in Int
    BY DEF WalletRow
<1>5. DOMAIN f = A /\ DOMAIN g = B /\ (\A r \in A : f[r] \in Nat) /\ (\A r \in B : g[r] \in Nat)
    BY <1>1, <1>3, <1>4
<1>6. SumFunctionOnSet(f, A) \in Nat /\ SumFunctionOnSet(g, B) \in Nat
    BY <1>2, <1>5, SumOfNat
<1>7. SumFunction(f) \in Nat /\ SumFunction(g) \in Nat
    BY <1>5, <1>6, SumDomain
<1> QED BY <1>1, <1>3, <1>7 DEF TotalIn, TotalOut

\* A page of the wallet.
LEMMA WalletShown ==
    ASSUME FiguresInv, NEW u, NEW m \in Nat
    PROVE  wallet(u, m) \in WalletResponse
<1>1. PICK rows : rows = find_month_for_account(u, bounds(m))
    OBVIOUS
<1>2. rows \in SUBSET WalletRow /\ IsFiniteSet(rows)
    BY <1>1, MonthTyped
<1>3. TotalIn(rows) \in Nat /\ TotalOut(rows) \in Nat
    BY <1>2, TotalsShown
<1>4. PICK page : page = wallet(u, m)
    OBVIOUS
<1>5. page.next_month \in OrNull(Nat)
  <2>1. Shows(u) \subseteq Nat
    BY DatedPast, MonthOf DEF Shows
  <2> QED BY <1>4, <2>1, WalletPage DEF OrNull
<1>6. PICK lines : lines = {Line(r) : r \in rows}
    OBVIOUS
<1>7. lines \subseteq WalletTransactionResponse
  <2>1. ASSUME NEW r \in rows
        PROVE  Line(r) \in WalletTransactionResponse
    <3>1. r \in WalletRow
      BY <1>2
    <3>2. /\ r.id \in (Bookings \cup Payouts) \X Roles /\ r.kind \in WalletKinds
          /\ r.amount_cents \in Int /\ r.occurred_at \in Nat
      BY <3>1 DEF WalletRow
    <3>3. pending(r) \in BOOLEAN
      BY <3>1 DEF WalletRow, pending
    <3> QED BY <3>2, <3>3 DEF Line, WalletTransactionResponse, Roles, WalletKinds
  <2> QED BY <1>6, <2>1
<1>8. page = [transactions |-> lines, in_cents |-> TotalIn(rows), out_cents |-> TotalOut(rows),
              next_month |-> page.next_month]
    BY <1>1, <1>4, <1>6 DEF wallet, Line
<1> QED BY <1>3, <1>4, <1>5, <1>7, <1>8 DEF WalletResponse

\* What an account is answered.
LEMMA AccountShown ==
    ASSUME FiguresInv, notification \subseteq ViewNotification, NEW u \in Users
    PROVE  AccountRoutes(u) \in
               [account : AccountResponse, notifications : SUBSET NotificationResponse,
                wallet : WalletResponse]
<1>1. account(u) \in AccountResponse
    BY NameShown DEF account, find_for_account, AccountResponse
<1>2. notifications(u) \in SUBSET NotificationResponse
  <2>1. ASSUME NEW n \in find_open_for_account(u)
        PROVE  [subject |-> n.subject, kind |-> n.kind, at |-> n.visible_from,
                seen |-> seen_at(u) # Null /\ n.visible_from <= seen_at(u)] \in NotificationResponse
    <3>1. n \in ViewNotification
      BY DEF find_open_for_account
    <3>2. n.subject \in Bookings /\ n.kind \in Kinds /\ n.visible_from \in Nat
      BY <3>1 DEF ViewNotification
    <3> QED BY <3>2 DEF NotificationResponse
  <2> QED BY <2>1 DEF notifications
<1>3. wallet(u, label(now)) \in WalletResponse
  <2>1. now \in Nat
    BY UpstreamAssumption DEF FiguresInv, TablesInv, Scope
  <2>2. label(now) \in Nat
    BY <2>1, MonthOf
  <2> QED BY <2>2, WalletShown
<1> QED BY <1>1, <1>2, <1>3 DEF AccountRoutes

\* Every table and every answer has its type: no sum is over a set without end, no average
\* above the best rating, no total negative and no row without the columns its readers show.
THEOREM TypeCorrectness == Spec => []TypeOK
<1>1. ASSUME FiguresInv, ViewTypeOK
      PROVE  AnswersTypeOK
  <2>1. notification \subseteq ViewNotification
    BY <1>1 DEF ViewTypeOK
  <2> QED BY <1>1, <2>1, PublicShown, HostShown, RenterShown, AccountShown DEF AnswersTypeOK
<1>2. /\ FiguresInv
      /\ SpotTypeOK /\ UpstreamTypeOK /\ ViewTypeOK /\ Wait!AwaitTypeOK
      => TypeOK
    BY <1>1 DEF TypeOK
<1> QED BY <1>2, FiguresInvariance, TypesInvariance, PTL
=============================================================================
