------------------------ MODULE BookingServiceProofs ------------------------
(***************************************************************************)
(* What holds of BookingService for every number of bookings, spots,       *)
(* requests, replicas, slots and edits: no slot is sold twice, a confirmed *)
(* booking fits the hours its spot offers, and every step is a step of the *)
(* lifecycle that the consumers of BOOKINGS replay.                        *)
(***************************************************************************)
EXTENDS BookingServiceInvariants, WellFoundedInduction, TLAPS

-----------------------------------------------------------------------------
(* Schedules *)

\* A set of slots has a last one, so ends_at chooses it.
LEMMA LastSlot ==
    ASSUME NEW slots \in SUBSET Slot, slots # {}
    PROVE  \E t \in slots : \A k \in slots : k <= t
<1> DEFINE T == {MaxSlot - k : k \in slots}
<1>1. \A k \in slots : k \in Int /\ MaxSlot - k \in Nat /\ MaxSlot - k \in T
    BY ConstantsAssumption DEF Slot
<1>2. \A x \in T : \E k \in slots : x = MaxSlot - k
    OBVIOUS
<1> HIDE DEF T
<1>3. T \subseteq Nat /\ T # {}
    BY <1>1, <1>2
<1>4. PICK x \in T : \A y \in T : <<y, x>> \notin OpToRel(<, Nat)
    BY <1>3, NatLessThanWellFounded, WFMin
<1>5. \A y \in T : ~(y < x)
    BY <1>3, <1>4 DEF OpToRel
<1>6. PICK t \in slots : x = MaxSlot - t
    BY <1>2
<1>7. \A k \in slots : k <= t
    BY <1>1, <1>5, <1>6, ConstantsAssumption
<1> QED BY <1>7

\* ends_at is the instant the last slot ends.
LEMMA EndsAt ==
    ASSUME NEW slots \in SUBSET Slot, slots # {}
    PROVE  /\ ends_at(slots) \in Nat
           /\ \A k \in slots : k + 1 <= ends_at(slots)
<1>1. PICK t \in slots : \A k \in slots : k <= t
    BY LastSlot
<1> DEFINE last == CHOOSE m \in slots : \A k \in slots : k <= m
<1>2. last \in slots /\ \A k \in slots : k <= last
    BY <1>1
<1>3. ends_at(slots) = 1 + last
    BY DEF ends_at
<1> HIDE DEF last
<1>4. \A k \in slots : k \in Nat
    BY ConstantsAssumption DEF Slot
<1> QED BY <1>2, <1>3, <1>4

-----------------------------------------------------------------------------
(* Steps of one kind *)

\* The record sets of Tx, told apart by pc.
LEMMA TxCases ==
    ASSUME NEW t \in Tx
    PROVE  /\ t.pc = "reserving" => t \in ReservingTx
           /\ t.pc = "inserting" => t \in InsertingTx
           /\ t.pc = "authorized" => t \in AuthorizedTx
           /\ t.pc = "locked" => t \in LockedRowTx
BY DEF Tx, IdleTx, ReservingTx, InsertingTx, AuthorizedTx, LockedRowTx

LEMMA ApplyCases ==
    ASSUME NEW t \in Apply, t.pc = "applying"
    PROVE  t \in Applying
BY DEF Apply, IdleApply, Applying

\* What a transition makes of a row is a row: only its status, hold, reason, rating
\* and version differ, and it does not start to block its slots again.
LEMMA TransitionedRow ==
    ASSUME NEW op \in Op, NEW row \in Row, NEW v \in Nat, Applies(op, row)
    PROVE  /\ Transitioned(op, row, v) \in Row
           /\ Transitioned(op, row, v).spot = row.spot
           /\ Transitioned(op, row, v).slots = row.slots
           /\ Transitioned(op, row, v).endsAt = row.endsAt
           /\ Blocks(row)
           /\ row.version < v => Transitioned(op, row, v).version = v
<1>1. CASE op = "rate"
    BY <1>1 DEF Applies, From, Transitioned, set_version, Row, Op, Blocks
<1>2. CASE op # "rate"
  <2> DEFINE status == To(op)
             reason == IF op = "confirm" THEN row.reason ELSE KindOf(op)
             version == set_version(row, v)
  <2>1. status \in Status
    BY <1>2 DEF Op, To, Status
  <2>2. reason \in Reason
    BY <1>2 DEF Op, KindOf, Reason, Row
  <2>3. version \in Nat /\ (row.version < v => version = v)
    BY DEF set_version, Row
  <2>4. Blocks(row)
    BY <1>2 DEF Applies, From, Blocks
  <2>5. Transitioned(op, row, v) =
          [row EXCEPT !.status = status, !.holdUntil = NoHold, !.reason = reason, !.version = version]
    BY <1>2 DEF Transitioned
  <2> HIDE DEF status, reason, version
  <2>6. NoHold \in Int
    BY DEF NoHold
  <2> QED BY <2>1, <2>2, <2>3, <2>4, <2>5, <2>6 DEF Row
<1> QED BY <1>1, <1>2

-----------------------------------------------------------------------------
(* Type correctness *)

\* The row a locked transaction works on, and what it was given.
LEMMA LockedTxType ==
    ASSUME TypeOK, NEW b \in BookingId, booking[b] # Null, NEW op \in Op
    PROVE  LockedTx(b, op) \in LockedRowTx
BY DEF TypeOK, LockedTx, LockedRowTx, next_version, Row

\* The two ways a mirror row is overwritten.
LEMMA EditedType ==
    ASSUME NEW m \in MirrorRow, NEW open \in SUBSET Slot, NEW active \in BOOLEAN, NEW v \in Nat
    PROVE  [m EXCEPT !.open = open, !.active = active, !.version = v] \in MirrorRow
BY DEF MirrorRow

LEMMA DeletedType ==
    ASSUME NEW m \in MirrorRow, NEW v \in Nat
    PROVE  [m EXCEPT !.active = FALSE, !.deleted = TRUE, !.version = v] \in MirrorRow
BY DEF MirrorRow

\* Moving one booking from `todo` to `locked`.
LEMMA LockedType ==
    ASSUME NEW t \in Applying, NEW b \in BookingId
    PROVE  LET next == [t EXCEPT !.todo = t.todo \ {b}, !.locked = t.locked \cup {b}] IN
           /\ next \in Applying
           /\ next.pc = t.pc
           /\ next.event = t.event
           /\ next.todo = t.todo \ {b}
           /\ next.locked = t.locked \cup {b}
BY DEF Applying

\* What the projector makes of the mirror row is a mirror row.
LEMMA MergedType ==
    ASSUME TypeOK, TargetsExist, NEW s \in SpotId, apply[s].pc = "applying"
    PROVE  Merged(s, apply[s].event) \in MirrorRow
<1> USE DEF TypeOK
<1>0. apply[s] \in Applying
  BY ApplyCases
<1>1. CASE apply[s].event.kind = "created"
  BY <1>0, <1>1 DEF Merged, MirrorRow, SpotEvent, Applying
<1>2. CASE apply[s].event.kind = "updated"
  <2>1. mirror[s] \in MirrorRow
    BY <1>2 DEF TargetsExist
  <2> DEFINE open == IF apply[s].event.open = Null THEN mirror[s].open ELSE apply[s].event.open
             active == IF apply[s].event.active = Null THEN mirror[s].active ELSE apply[s].event.active
  <2>2. open \in SUBSET Slot /\ active \in BOOLEAN
    BY <1>0, <1>2, <2>1 DEF SpotEvent, Applying, MirrorRow
  <2>3. Merged(s, apply[s].event) =
          [mirror[s] EXCEPT !.open = open, !.active = active, !.version = mirror[s].version + 1]
    BY <1>2 DEF Merged
  <2>4. mirror[s].version + 1 \in Nat
    BY <2>1 DEF MirrorRow
  <2> HIDE DEF open, active
  <2>5. [mirror[s] EXCEPT !.open = open, !.active = active, !.version = mirror[s].version + 1]
          \in MirrorRow
    BY ONLY <2>1, <2>2, <2>4, EditedType
  <2> QED BY ONLY <2>3, <2>5
<1>3. CASE apply[s].event.kind = "deleted"
  <2>1. mirror[s] \in MirrorRow
    BY <1>3 DEF TargetsExist
  <2>2. Merged(s, apply[s].event) =
          [mirror[s] EXCEPT !.active = FALSE, !.deleted = TRUE, !.version = mirror[s].version + 1]
    BY <1>3 DEF Merged
  <2>3. mirror[s].version + 1 \in Nat
    BY <2>1 DEF MirrorRow
  <2>4. [mirror[s] EXCEPT !.active = FALSE, !.deleted = TRUE, !.version = mirror[s].version + 1]
          \in MirrorRow
    BY ONLY <2>1, <2>3, DeletedType
  <2> QED BY ONLY <2>2, <2>4
<1> QED BY <1>0, <1>1, <1>2, <1>3 DEF Applying, SpotEvent

\* Every step of the service keeps TypeOK.
LEMMA TypeOKStep ==
    ASSUME TypeOK, TargetsExist, [Next]_vars
    PROVE  TypeOK'
<1> USE DEF TypeOK
<1>1. ASSUME NEW p \in Handler, NEW s \in SpotId, NEW renter \in Person,
             NEW slots \in SUBSET Slot, NEW b \in BookingId, Reserve(p, s, renter, slots, b)
      PROVE  TypeOK'
    BY <1>1 DEF Reserve, Tx, ReservingTx, Proc
<1>2. ASSUME NEW p \in Handler, CheckAvailability(p)
      PROVE  TypeOK'
  <2>1. tx[p] \in ReservingTx
    BY <1>2, TxCases DEF CheckAvailability, Proc
  <2>2. CASE check(mirror[tx[p].spot].open, taken_for_spot(tx[p].spot), tx[p].slots)
    <3>1. tx[p].slots \in SUBSET Slot /\ tx[p].slots # {}
        BY <2>1, <2>2 DEF check, ReservingTx
    <3>2. ends_at(tx[p].slots) \in Nat
        BY <3>1, EndsAt
    <3>3. now + HOLD \in Int
        BY ConstantsAssumption DEF Time
    <3>4. NewRow(tx[p]) \in Row
        BY <2>1, <3>2, <3>3 DEF NewRow, Row, ReservingTx, Status, Reason
    <3>5. [pc |-> "inserting", id |-> tx[p].id, row |-> NewRow(tx[p])] \in InsertingTx
        BY <2>1, <3>4 DEF ReservingTx, InsertingTx
    <3> QED BY <1>2, <2>2, <3>5 DEF CheckAvailability, Tx, Proc
  <2>3. CASE ~check(mirror[tx[p].spot].open, taken_for_spot(tx[p].spot), tx[p].slots)
    BY <1>2, <2>3 DEF CheckAvailability, Tx, Proc
  <2> QED BY <2>2, <2>3
<1>3. ASSUME NEW p \in Handler, Insert(p)
      PROVE  TypeOK'
  <2>1. tx[p] \in InsertingTx
    BY <1>3, TxCases DEF Insert, Proc
  <2>2. [version |-> 1, kind |-> "created"] \in Envelope
    BY DEF Envelope, EventKind
  <2>3. booking' \in [BookingId -> Row \cup {Null}]
    BY <1>3, <2>1 DEF Insert, InsertingTx
  <2>4. outbox' \in [BookingId -> Seq(Envelope)]
    BY <1>3, <2>1, <2>2 DEF Insert, InsertingTx
  <2>5. told' \in [BookingId -> Nat]
    BY <1>3, <2>1 DEF Insert, InsertingTx, MaxOf
  <2> QED BY <1>3, <2>3, <2>4, <2>5 DEF Insert, Tx, Proc
<1>4. ASSUME NEW p \in Handler, NEW b \in BookingId, NEW op \in Op, Authorize(p, b, op)
      PROVE  TypeOK'
    BY <1>4 DEF Authorize, Tx, AuthorizedTx, Proc
<1>5. ASSUME NEW w \in Worker, NEW b \in BookingId, DeliverPayment(w, b)
      PROVE  TypeOK'
    BY <1>5 DEF DeliverPayment, Tx, AuthorizedTx, Proc, Op
<1>6. ASSUME NEW w \in Sweeper, SweepScan(w)
      PROVE  TypeOK'
    BY <1>6 DEF SweepScan, lapsed_holds
<1>7. ASSUME NEW w \in Sweeper, NEW b \in BookingId, LockLapsed(w, b)
      PROVE  TypeOK'
  <2>1. LockedTx(b, "expire") \in LockedRowTx
    BY <1>7, LockedTxType DEF LockLapsed, TargetsExist, Op
  <2> QED BY <1>7, <2>1 DEF LockLapsed, Tx, Proc
<1>8. ASSUME NEW p \in Proc, LockRow(p)
      PROVE  TypeOK'
  <2>1. tx[p] \in AuthorizedTx /\ booking[tx[p].id] # Null
    BY <1>8, TxCases DEF LockRow, TargetsExist
  <2>2. LockedTx(tx[p].id, tx[p].op) \in LockedRowTx
    BY <2>1, LockedTxType DEF AuthorizedTx
  <2> QED BY <1>8, <2>2 DEF LockRow, Tx
<1>9. ASSUME NEW p \in Proc, CommitRow(p)
      PROVE  TypeOK'
  <2> DEFINE t == tx[p]
             row == booking[t.id]
  <2>1. t \in LockedRowTx /\ row \in Row
    BY <1>9, TxCases DEF CommitRow, TargetsExist, LockedRowTx
  <2>2. t.id \in BookingId /\ t.op \in Op /\ t.version \in Nat
    BY <2>1 DEF LockedRowTx
  <2>3. KindOf(t.op) \in EventKind
    BY <2>2 DEF KindOf, Op, EventKind
  <2>4. told' \in [BookingId -> Nat]
    <3>1. t.op \in Op /\ row \in Row => (~Applies(t.op, row) => t.version - 1 \in Int)
      BY <2>2
    <3>2. ~Applies(t.op, row) => MaxOf(told[t.id], t.version - 1) \in Nat
      BY <2>2 DEF MaxOf
    <3>3. MaxOf(told[t.id], Reported(t)) \in Nat
      BY <2>2, <3>2 DEF Reported, MaxOf
    <3> QED BY <1>9, <2>2, <3>3 DEF CommitRow
  <2>5. CASE Applies(t.op, row)
    <3>1. Transitioned(t.op, row, t.version) \in Row
      BY <2>1, <2>2, <2>5, TransitionedRow
    <3>2. [version |-> t.version, kind |-> KindOf(t.op)] \in Envelope
      BY <2>2, <2>3 DEF Envelope
    <3>3. booking' \in [BookingId -> Row \cup {Null}]
      BY <1>9, <2>2, <2>5, <3>1 DEF CommitRow
    <3>4. outbox' \in [BookingId -> Seq(Envelope)]
      <4> DEFINE envelope == [version |-> t.version, kind |-> KindOf(t.op)]
      <4>1. outbox' = [outbox EXCEPT ![t.id] = Append(outbox[t.id], envelope)]
        BY <1>9, <2>5 DEF CommitRow
      <4> HIDE DEF envelope
      <4> QED BY <2>2, <3>2, <4>1 DEF envelope
    <3>5. late' \subseteq BookingId
      BY <1>9, <2>2, <2>5 DEF CommitRow
    <3> QED BY <1>9, <2>4, <3>3, <3>4, <3>5 DEF CommitRow, Tx
  <2>6. CASE ~Applies(t.op, row)
    BY <1>9, <2>4, <2>6 DEF CommitRow, Tx
  <2> QED BY <2>5, <2>6
<1>10. ASSUME NEW p \in Proc, Abort(p)
      PROVE  TypeOK'
    BY <1>10 DEF Abort, Tx
<1>11. ASSUME NEW s \in SpotId, NEW e \in SpotEvent, NEW at \in Time, ApplySpotEvent(s, e, at)
      PROVE  TypeOK'
  <2>1. upcoming_confirmed(s, at) \subseteq BookingId
    BY DEF upcoming_confirmed
  <2>2. Withdrawn(s, e, at) \subseteq BookingId
    BY <2>1 DEF Withdrawn, SpotEvent
  <2>3. [pc |-> "applying", event |-> e, todo |-> Withdrawn(s, e, at), locked |-> {}] \in Applying
    BY <2>2 DEF Applying
  <2> QED BY <1>11, <2>3 DEF ApplySpotEvent, Apply
<1>12. ASSUME NEW s \in SpotId, NEW b \in BookingId, LockUpcoming(s, b)
      PROVE  TypeOK'
  <2>1. apply[s] \in Applying
    BY <1>12, ApplyCases DEF LockUpcoming
  <2>2. [apply[s] EXCEPT !.todo = @ \ {b}, !.locked = @ \cup {b}] \in Applying
    BY <2>1 DEF Applying
  <2>3. apply' = [apply EXCEPT ![s] = [apply[s] EXCEPT !.todo = @ \ {b}, !.locked = @ \cup {b}]]
    BY <1>12 DEF LockUpcoming
  <2> QED BY <1>12, <2>2, <2>3 DEF LockUpcoming, Apply
<1>13. ASSUME NEW s \in SpotId, CommitSpotEvent(s)
      PROVE  TypeOK'
  <2> DEFINE t == apply[s]
             cancelled == {b \in t.locked : Applies("withdraw", booking[b])}
  <2>1. t \in Applying
    BY <1>13, ApplyCases DEF CommitSpotEvent
  <2>2. \A b \in cancelled : b \in BookingId /\ booking[b] \in Row /\ next_version(booking[b]) \in Nat
    <3>1. \A b \in t.locked : b \in BookingId /\ booking[b] \in Row
      BY <1>13, <2>1 DEF CommitSpotEvent, TargetsExist, Applying
    <3>2. \A row \in Row : next_version(row) \in Nat
      BY DEF next_version, Row
    <3> QED BY <3>1, <3>2
  <2>3. \A b \in cancelled : Transitioned("withdraw", booking[b], next_version(booking[b])) \in Row
    BY <2>2, TransitionedRow DEF Op
  <2>4. \A b \in cancelled :
          [version |-> next_version(booking[b]), kind |-> "spot_unavailable"] \in Envelope
    BY <2>2 DEF Envelope, EventKind
  <2>5. booking' \in [BookingId -> Row \cup {Null}]
    BY <1>13, <2>3 DEF CommitSpotEvent
  <2>6. outbox' \in [BookingId -> Seq(Envelope)]
    <3> DEFINE envelope(b) == [version |-> next_version(booking[b]), kind |-> "spot_unavailable"]
    <3>1. outbox' = [b \in BookingId |-> IF b \in cancelled
                                          THEN Append(outbox[b], envelope(b)) ELSE outbox[b]]
      BY <1>13 DEF CommitSpotEvent
    <3>2. \A b \in cancelled : b \in BookingId /\ envelope(b) \in Envelope
      BY <2>2, <2>4
    <3> HIDE DEF envelope, cancelled
    <3>3. \A b \in cancelled : Append(outbox[b], envelope(b)) \in Seq(Envelope)
      BY <3>2
    <3> QED BY <3>1, <3>3
  <2>7. Merged(s, t.event) \in MirrorRow
    BY <1>13, MergedType DEF CommitSpotEvent
  <2> QED BY <1>13, <2>5, <2>6, <2>7 DEF CommitSpotEvent, Apply
<1>14. ASSUME NEW s \in SpotId, AbortSpotEvent(s)
      PROVE  TypeOK'
    BY <1>14 DEF AbortSpotEvent, Apply
<1>15. ASSUME NEW b \in BookingId, Pay(b)
      PROVE  TypeOK'
    BY <1>15 DEF Pay
<1>16. CASE Tick
    BY <1>16, ConstantsAssumption DEF Tick, Time
<1>17. CASE UNCHANGED vars
    BY <1>17 DEF vars
<1> QED
    BY <1>1, <1>2, <1>3, <1>4, <1>5, <1>6, <1>7, <1>8, <1>9, <1>10, <1>11, <1>12, <1>13,
       <1>14, <1>15, <1>16, <1>17
    DEF Next, HandlerNext, WorkerNext, SweeperNext, TransactionNext, ProjectorNext

-----------------------------------------------------------------------------
(* What a step does to the rows *)

\* Only three actions write the booking and outbox tables.
LEMMA Writers ==
    ASSUME [Next]_vars
    PROVE  \/ \E p \in Handler : Insert(p)
           \/ \E p \in Proc : CommitRow(p)
           \/ \E s \in SpotId : CommitSpotEvent(s)
           \/ UNCHANGED <<booking, outbox>>
BY DEF Next, HandlerNext, WorkerNext, SweeperNext, TransactionNext, ProjectorNext, vars,
       Reserve, CheckAvailability, Authorize, DeliverPayment, SweepScan, LockLapsed, LockRow,
       Abort, ApplySpotEvent, LockUpcoming, AbortSpotEvent, Pay, Tick

\* What CommitRow does to the row it holds.
LEMMA CommitRowEffect ==
    ASSUME TypeOK, TargetsExist, NEW p \in Proc, CommitRow(p)
    PROVE  /\ tx[p] \in LockedRowTx
           /\ tx[p].id \in BookingId /\ tx[p].op \in Op /\ tx[p].version \in Nat
           /\ booking[tx[p].id] \in Row
           /\ \A b \in BookingId : b # tx[p].id => booking'[b] = booking[b] /\ outbox'[b] = outbox[b]
           /\ ~Applies(tx[p].op, booking[tx[p].id]) => booking' = booking /\ outbox' = outbox
           /\ Applies(tx[p].op, booking[tx[p].id]) =>
                /\ booking'[tx[p].id] = Transitioned(tx[p].op, booking[tx[p].id], tx[p].version)
                /\ outbox'[tx[p].id] = Append(outbox[tx[p].id],
                                         [version |-> tx[p].version, kind |-> KindOf(tx[p].op)])
<1>1. tx[p] \in LockedRowTx /\ booking[tx[p].id] # Null
    BY TxCases DEF CommitRow, TargetsExist, TypeOK
<1>2. tx[p].id \in BookingId /\ tx[p].op \in Op /\ tx[p].version \in Nat
    BY <1>1 DEF LockedRowTx
<1> QED BY <1>1, <1>2 DEF CommitRow, TypeOK

\* What the projector's commit does to each row.
LEMMA CommitSpotEventEffect ==
    ASSUME TypeOK, TargetsExist, NEW s \in SpotId, CommitSpotEvent(s), NEW b \in BookingId
    PROVE  \/ booking'[b] = booking[b] /\ outbox'[b] = outbox[b]
           \/ /\ b \in apply[s].locked
              /\ booking[b] \in Row
              /\ Applies("withdraw", booking[b])
              /\ booking'[b] = Transitioned("withdraw", booking[b], booking[b].version + 1)
              /\ outbox'[b] = Append(outbox[b], [version |-> booking[b].version + 1,
                                                 kind |-> "spot_unavailable"])
<1> DEFINE withdrawn == b \in apply[s].locked /\ Applies("withdraw", booking[b])
<1>1. CASE withdrawn
  <2>1. apply[s].pc = "applying" /\ booking[b] # Null
    BY <1>1 DEF CommitSpotEvent, TargetsExist
  <2>2. booking[b] \in Row
    BY <2>1 DEF TypeOK
  <2> QED BY <1>1, <2>2 DEF CommitSpotEvent, next_version
<1>2. CASE ~withdrawn
    BY <1>2 DEF CommitSpotEvent
<1> QED BY <1>1, <1>2

\* A booking's place and time are fixed, and a settled booking never blocks again.
LEMMA RowsStay ==
    ASSUME TypeOK, TargetsExist, FreshIds, [Next]_vars, NEW b \in BookingId, booking[b] # Null
    PROVE  /\ booking'[b] \in Row /\ booking'[b] # Null
           /\ booking'[b].spot = booking[b].spot
           /\ booking'[b].slots = booking[b].slots
           /\ booking'[b].endsAt = booking[b].endsAt
           /\ Blocks(booking'[b]) => Blocks(booking[b])
<1>1. booking[b] \in Row
    BY DEF TypeOK
<1>2. CASE \E p \in Handler : Insert(p)
  <2>1. PICK p \in Handler : Insert(p)
    BY <1>2
  <2>2. booking[tx[p].id] = Null
    BY <2>1 DEF Insert, FreshIds, Creating, Proc
  <2> QED BY <1>1, <2>1, <2>2, NullAssumption DEF Insert, TypeOK
<1>3. CASE \E p \in Proc : CommitRow(p)
  <2>1. PICK p \in Proc : CommitRow(p)
    BY <1>3
  <2>2. CASE b = tx[p].id /\ Applies(tx[p].op, booking[b])
    <3>1. /\ tx[p].op \in Op /\ tx[p].version \in Nat
          /\ booking'[b] = Transitioned(tx[p].op, booking[b], tx[p].version)
      BY <2>1, <2>2, CommitRowEffect
    <3> QED BY <1>1, <2>2, <3>1, TransitionedRow, NullAssumption
  <2>3. CASE ~(b = tx[p].id /\ Applies(tx[p].op, booking[b]))
    BY <1>1, <2>1, <2>3, CommitRowEffect, NullAssumption
  <2> QED BY <2>2, <2>3
<1>4. CASE \E s \in SpotId : CommitSpotEvent(s)
  <2>1. PICK s \in SpotId : CommitSpotEvent(s)
    BY <1>4
  <2>2. "withdraw" \in Op /\ booking[b].version + 1 \in Nat
    BY <1>1 DEF Op, Row
  <2>3. CASE booking'[b] = booking[b]
    BY <1>1, <2>3, NullAssumption
  <2>4. CASE /\ Applies("withdraw", booking[b])
             /\ booking'[b] = Transitioned("withdraw", booking[b], booking[b].version + 1)
    BY <1>1, <2>2, <2>4, TransitionedRow, NullAssumption
  <2> QED BY <2>1, <2>3, <2>4, CommitSpotEventEffect
<1>5. CASE UNCHANGED <<booking, outbox>>
    BY <1>1, <1>5, NullAssumption
<1> QED BY <1>2, <1>3, <1>4, <1>5, Writers

\* A new row is the one a request was inserting.
LEMMA RowsAppear ==
    ASSUME TypeOK, TargetsExist, [Next]_vars, NEW b \in BookingId, booking[b] = Null, booking'[b] # Null
    PROVE  \E p \in Handler : Insert(p) /\ tx[p].id = b
<1>1. CASE \E p \in Handler : Insert(p)
    BY <1>1 DEF Insert, TypeOK
<1>2. CASE \E p \in Proc : CommitRow(p)
    BY <1>2, CommitRowEffect, NullAssumption
<1>3. CASE \E s \in SpotId : CommitSpotEvent(s)
    BY <1>3, CommitSpotEventEffect, NullAssumption
<1>4. CASE UNCHANGED <<booking, outbox>>
    BY <1>4
<1> QED BY <1>1, <1>2, <1>3, <1>4, Writers

-----------------------------------------------------------------------------
(* Where the states of the transactions come from *)

\* A request that creates was creating already, or has just reserved its spot.
LEMMA CreatingOrigin ==
    ASSUME TypeOK, [Next]_vars, NEW p \in Proc, Creating(p)'
    PROVE  \/ /\ Creating(p)
              /\ tx'[p].id = tx[p].id
              /\ SpotOf(tx[p])' = SpotOf(tx[p])
              /\ tx[p].pc = "inserting" => tx'[p] = tx[p]
           \/ /\ ~SpotLocked(SpotOf(tx[p])')
              /\ ~Minted(tx'[p].id)
              /\ tx[p].pc = "idle" /\ tx'[p].pc = "reserving"
              /\ \A q \in Proc : q # p => tx'[q] = tx[q]
              /\ UNCHANGED <<apply, booking>>
<1> USE DEF Creating, SpotOf, TypeOK, IdleTx
<1>1. CASE \E s \in SpotId, renter \in Person, slots \in SUBSET Slot, b \in BookingId, q \in Handler :
             Reserve(q, s, renter, slots, b)
    BY <1>1 DEF Reserve, Proc
<1>2. CASE \E q \in Handler : CheckAvailability(q)
    BY <1>2 DEF CheckAvailability, NewRow, Proc
<1>3. CASE \E q \in Handler : Insert(q)
    BY <1>3 DEF Insert, Proc
<1>4. CASE \E q \in Handler, b \in BookingId, op \in Op : Authorize(q, b, op)
    BY <1>4 DEF Authorize, Proc
<1>5. CASE \E w \in Worker, b \in BookingId : DeliverPayment(w, b)
    BY <1>5 DEF DeliverPayment, Proc
<1>6. CASE \E w \in Sweeper, b \in BookingId : LockLapsed(w, b)
    BY <1>6 DEF LockLapsed, LockedTx, Proc
<1>7. CASE \E q \in Proc : LockRow(q)
    BY <1>7 DEF LockRow, LockedTx
<1>8. CASE \E q \in Proc : CommitRow(q) \/ Abort(q)
    BY <1>8 DEF CommitRow, Abort
<1>9. CASE UNCHANGED tx
    BY <1>9
<1> QED
    BY <1>1, <1>2, <1>3, <1>4, <1>5, <1>6, <1>7, <1>8, <1>9
    DEF Next, HandlerNext, WorkerNext, SweeperNext, TransactionNext, ProjectorNext, vars,
        SweepScan, ApplySpotEvent, LockUpcoming, CommitSpotEvent, AbortSpotEvent, Pay, Tick

\* A transaction about to start was about to already, or its booking has just been read.
LEMMA AuthorizedOrigin ==
    ASSUME TypeOK, [Next]_vars, NEW p \in Proc, tx'[p].pc = "authorized"
    PROVE  \/ tx'[p] = tx[p]
           \/ tx'[p].id \in BookingId /\ booking[tx'[p].id] # Null
<1> USE DEF TypeOK, IdleTx
<1>1. CASE \E s \in SpotId, renter \in Person, slots \in SUBSET Slot, b \in BookingId, q \in Handler :
             Reserve(q, s, renter, slots, b)
    BY <1>1 DEF Reserve, Proc
<1>2. CASE \E q \in Handler : CheckAvailability(q) \/ Insert(q)
    BY <1>2 DEF CheckAvailability, Insert, Proc
<1>3. CASE \E q \in Handler, b \in BookingId, op \in Op : Authorize(q, b, op)
    BY <1>3 DEF Authorize, Proc
<1>4. CASE \E w \in Worker, b \in BookingId : DeliverPayment(w, b)
    BY <1>4 DEF DeliverPayment, Proc
<1>5. CASE \E w \in Sweeper, b \in BookingId : LockLapsed(w, b)
    BY <1>5 DEF LockLapsed, LockedTx, Proc
<1>6. CASE \E q \in Proc : LockRow(q)
    BY <1>6 DEF LockRow, LockedTx
<1>7. CASE \E q \in Proc : CommitRow(q) \/ Abort(q)
    BY <1>7 DEF CommitRow, Abort
<1>8. CASE UNCHANGED tx
    BY <1>8
<1> QED
    BY <1>1, <1>2, <1>3, <1>4, <1>5, <1>6, <1>7, <1>8
    DEF Next, HandlerNext, WorkerNext, SweeperNext, TransactionNext, ProjectorNext, vars,
        SweepScan, ApplySpotEvent, LockUpcoming, CommitSpotEvent, AbortSpotEvent, Pay, Tick

\* A locked booking row was locked by the same transaction already, or was free.
LEMMA LockingOrigin ==
    ASSUME TypeOK, TargetsExist, [Next]_vars, NEW p \in Proc, Locking(p)'
    PROVE  \/ Locking(p) /\ tx'[p] = tx[p] /\ ~CommitRow(p)
           \/ /\ tx'[p].id \in BookingId /\ booking[tx'[p].id] # Null
              /\ ~RowLocked(tx'[p].id)
              /\ tx'[p].version = next_version(booking[tx'[p].id])
              /\ \A q \in Proc : q # p => tx'[q] = tx[q]
              /\ UNCHANGED <<apply, booking>>
<1> USE DEF Locking, TypeOK, IdleTx
<1>1. CASE \E s \in SpotId, renter \in Person, slots \in SUBSET Slot, b \in BookingId, q \in Handler :
             Reserve(q, s, renter, slots, b)
    BY <1>1 DEF Reserve, CommitRow, Proc
<1>2. CASE \E q \in Handler : CheckAvailability(q)
    BY <1>2 DEF CheckAvailability, CommitRow, Proc
<1>3. CASE \E q \in Handler : Insert(q)
    BY <1>3 DEF Insert, CommitRow, Proc
<1>4. CASE \E q \in Handler, b \in BookingId, op \in Op : Authorize(q, b, op)
    BY <1>4 DEF Authorize, CommitRow, Proc
<1>5. CASE \E w \in Worker, b \in BookingId : DeliverPayment(w, b)
    BY <1>5 DEF DeliverPayment, CommitRow, Proc
<1>6. CASE \E w \in Sweeper, b \in BookingId : LockLapsed(w, b)
    BY <1>6 DEF LockLapsed, LockedTx, TargetsExist, CommitRow, Proc
<1>7. CASE \E q \in Proc : LockRow(q)
  <2>1. PICK q \in Proc : LockRow(q)
    BY <1>7
  <2>2. tx[q].id \in BookingId /\ booking[tx[q].id] # Null
    BY <2>1, TxCases DEF LockRow, TargetsExist, AuthorizedTx
  <2> QED BY <2>1, <2>2 DEF LockRow, LockedTx, CommitRow
<1>8. CASE \E q \in Proc : CommitRow(q) \/ Abort(q)
    BY <1>8 DEF CommitRow, Abort
<1>9. CASE UNCHANGED tx
    BY <1>9 DEF CommitRow
<1> QED
    BY <1>1, <1>2, <1>3, <1>4, <1>5, <1>6, <1>7, <1>8, <1>9
    DEF Next, HandlerNext, WorkerNext, SweeperNext, TransactionNext, ProjectorNext, vars,
        SweepScan, ApplySpotEvent, LockUpcoming, CommitSpotEvent, AbortSpotEvent, Pay, Tick

\* A spot edit in progress was in progress already, or has just taken a free mirror row.
LEMMA ApplyingOrigin ==
    ASSUME TypeOK, [Next]_vars, NEW s \in SpotId, apply'[s].pc = "applying"
    PROVE  \/ /\ apply[s].pc = "applying"
              /\ apply'[s].event = apply[s].event
              /\ apply'[s].todo \cup apply'[s].locked = apply[s].todo \cup apply[s].locked
              /\ ~CommitSpotEvent(s)
              /\ \/ apply'[s].locked = apply[s].locked
                 \/ \E b \in BookingId :
                        /\ ~RowLocked(b)
                        /\ apply'[s].locked = apply[s].locked \cup {b}
                        /\ \A r \in SpotId : r # s => apply'[r] = apply[r]
                        /\ UNCHANGED <<tx, booking>>
           \/ /\ ~SpotLocked(s)
              /\ apply'[s].locked = {}
              /\ apply'[s].event.kind # "created" => mirror[s] # Null
              /\ \A b \in apply'[s].todo : b \in BookingId /\ booking[b] # Null
              /\ UNCHANGED <<tx, booking, mirror>>
<1> USE DEF TypeOK, IdleApply
<1>1. CASE \E r \in SpotId, e \in SpotEvent, at \in Time : ApplySpotEvent(r, e, at)
  <2>1. PICK r \in SpotId, e \in SpotEvent, at \in Time : ApplySpotEvent(r, e, at)
    BY <1>1
  <2>2. \A b \in Withdrawn(r, e, at) : b \in BookingId /\ booking[b] # Null
    <3>1. \A b \in upcoming_confirmed(r, at) : b \in BookingId /\ booking[b] # Null
      BY DEF upcoming_confirmed
    <3> QED BY <3>1 DEF Withdrawn, SpotEvent
  <2>3. CASE r = s
    <3>1. e.kind # "created" => mirror[s] # Null
      BY <2>1, <2>3 DEF ApplySpotEvent, NextSpotEvent
    <3> QED BY <2>1, <2>2, <2>3, <3>1 DEF ApplySpotEvent
  <2>4. CASE r # s
    BY <2>1, <2>4 DEF ApplySpotEvent, CommitSpotEvent
  <2> QED BY <2>3, <2>4
<1>2. CASE \E r \in SpotId, b \in BookingId : LockUpcoming(r, b)
  <2>1. PICK r \in SpotId, b \in BookingId : LockUpcoming(r, b)
    BY <1>2
  <2>2. CASE r = s
    <3>1. apply[s] \in Applying
      BY <2>1, <2>2, ApplyCases DEF LockUpcoming
    <3> DEFINE todo == apply[s].todo
               locked == apply[s].locked
    <3>2. apply' = [apply EXCEPT ![s] = [apply[s] EXCEPT !.todo = todo \ {b}, !.locked = locked \cup {b}]]
      BY <2>1, <2>2 DEF LockUpcoming
    <3>3. /\ apply'[s].event = apply[s].event
          /\ apply'[s].todo = todo \ {b}
          /\ apply'[s].locked = locked \cup {b}
      <4> DEFINE next == [apply[s] EXCEPT !.todo = todo \ {b}, !.locked = locked \cup {b}]
      <4>1. next.event = apply[s].event /\ next.todo = todo \ {b} /\ next.locked = locked \cup {b}
        BY ONLY <3>1, b \in BookingId, LockedType
      <4>2. apply'[s] = next
        BY <3>2
      <4> QED BY ONLY <4>1, <4>2
    <3> QED BY <2>1, <2>2, <3>3 DEF LockUpcoming, CommitSpotEvent
  <2>3. CASE r # s
    BY <2>1, <2>3 DEF LockUpcoming, CommitSpotEvent
  <2> QED BY <2>2, <2>3
<1>3. CASE \E r \in SpotId : CommitSpotEvent(r)
    BY <1>3 DEF CommitSpotEvent
<1>4. CASE \E r \in SpotId : AbortSpotEvent(r)
    BY <1>4 DEF AbortSpotEvent, CommitSpotEvent
<1>5. CASE UNCHANGED apply
    BY <1>5 DEF CommitSpotEvent
<1> QED
    BY <1>1, <1>2, <1>3, <1>4, <1>5
    DEF Next, HandlerNext, WorkerNext, SweeperNext, TransactionNext, ProjectorNext, vars,
        Reserve, CheckAvailability, Insert, Authorize, DeliverPayment, SweepScan, LockLapsed,
        LockRow, CommitRow, Abort, Pay, Tick

-----------------------------------------------------------------------------
(* The inductive invariant, one conjunct at a time *)

LEMMA TargetsExistStep ==
    ASSUME TypeOK, TargetsExist, FreshIds, [Next]_vars
    PROVE  TargetsExist'
<1>1. \A b \in BookingId : booking[b] # Null => booking'[b] # Null
    BY RowsStay
<1>2. \A s \in SpotId : mirror[s] # Null => mirror'[s] # Null
  <2>1. CASE \E s \in SpotId : CommitSpotEvent(s)
    <3>1. PICK s \in SpotId : CommitSpotEvent(s)
      BY <2>1
    <3>2. Merged(s, apply[s].event) # Null
      BY <3>1, MergedType, NullAssumption DEF CommitSpotEvent
    <3> QED BY <3>1, <3>2 DEF CommitSpotEvent, TypeOK
  <2>2. CASE UNCHANGED mirror
    BY <2>2
  <2> QED
    BY <2>1, <2>2
    DEF Next, HandlerNext, WorkerNext, SweeperNext, TransactionNext, ProjectorNext, vars,
        Reserve, CheckAvailability, Insert, Authorize, DeliverPayment, SweepScan, LockLapsed,
        LockRow, CommitRow, Abort, ApplySpotEvent, LockUpcoming, AbortSpotEvent, Pay, Tick
<1>3. ASSUME NEW p \in Proc, tx'[p].pc = "authorized"
      PROVE  tx'[p].id \in BookingId /\ booking[tx'[p].id] # Null
    BY <1>3, AuthorizedOrigin, TxCases DEF TargetsExist, TypeOK, AuthorizedTx
<1>4. ASSUME NEW p \in Proc, tx'[p].pc = "locked"
      PROVE  tx'[p].id \in BookingId /\ booking[tx'[p].id] # Null
    BY <1>4, LockingOrigin, TxCases DEF Locking, TypeOK, TargetsExist, LockedRowTx
<1>5. ASSUME NEW w \in Sweeper, NEW b \in lapsed'[w]
      PROVE  b \in BookingId /\ booking[b] # Null
  <2>1. b \in lapsed[w] \cup lapsed_holds
    BY <1>5
    DEF TypeOK, Next, HandlerNext, WorkerNext, SweeperNext, TransactionNext, ProjectorNext, vars,
        Reserve, CheckAvailability, Insert, Authorize, DeliverPayment, SweepScan, LockLapsed,
        LockRow, CommitRow, Abort, ApplySpotEvent, LockUpcoming, CommitSpotEvent,
        AbortSpotEvent, Pay, Tick
  <2> QED BY <2>1 DEF TargetsExist, TypeOK, lapsed_holds
<1>6. ASSUME NEW s \in SpotId, apply'[s].pc = "applying"
      PROVE  /\ apply'[s].event.kind # "created" => mirror[s] # Null
             /\ \A b \in apply'[s].todo \cup apply'[s].locked : b \in BookingId /\ booking[b] # Null
    BY <1>6, ApplyingOrigin, ApplyCases DEF TypeOK, TargetsExist, Applying
<1> QED BY <1>1, <1>2, <1>3, <1>4, <1>5, <1>6 DEF TargetsExist

LEMMA FreshIdsStep ==
    ASSUME TypeOK, TargetsExist, FreshIds, [Next]_vars
    PROVE  FreshIds'
<1> SUFFICES ASSUME NEW p \in Proc, Creating(p)'
             PROVE  /\ booking'[tx'[p].id] = Null
                    /\ \A q \in Proc : Creating(q)' /\ tx'[q].id = tx'[p].id => q = p
    BY DEF FreshIds
<1>1. tx'[p].id \in BookingId
  <2>1. tx'[p] \in Tx
    BY TypeOKStep DEF TypeOK
  <2> QED BY <2>1, TxCases DEF Creating, ReservingTx, InsertingTx
<1>2. booking[tx'[p].id] = Null
    BY CreatingOrigin DEF FreshIds, Minted
<1>3. booking'[tx'[p].id] = Null
  <2> SUFFICES ASSUME booking'[tx'[p].id] # Null
               PROVE  FALSE
    OBVIOUS
  <2>1. PICK q \in Handler : Insert(q) /\ tx[q].id = tx'[p].id
    BY <1>1, <1>2, RowsAppear
  <2>2. q \in Proc /\ Creating(q) /\ tx'[q] = IdleTx /\ tx[q].pc = "inserting"
    BY <2>1 DEF Insert, Creating, Proc, TypeOK
  <2>3. booking' # booking
    BY <1>1, <1>2
  <2>4. Creating(p) /\ tx[p].id = tx[q].id
    BY <2>1, <2>3, CreatingOrigin
  <2>5. p = q
    BY <2>2, <2>4 DEF FreshIds
  <2> QED BY <2>2, <2>5 DEF Creating, IdleTx
<1>4. ASSUME NEW q \in Proc, Creating(q)', tx'[q].id = tx'[p].id
      PROVE  q = p
    BY <1>4, CreatingOrigin DEF FreshIds, Minted, Creating
<1> QED BY <1>3, <1>4

LEMMA SpotLockExclusiveStep ==
    ASSUME TypeOK, TargetsExist, SpotLockExclusive, [Next]_vars
    PROVE  SpotLockExclusive'
<1> SUFFICES ASSUME NEW s \in SpotId, NEW p \in Proc, HoldsSpot(p, s)'
             PROVE  /\ \A q \in Proc : HoldsSpot(q, s)' => q = p
                    /\ apply'[s].pc # "applying"
    BY DEF SpotLockExclusive
<1>1. ASSUME NEW q \in Proc, HoldsSpot(q, s)'
      PROVE  \/ HoldsSpot(q, s)
             \/ /\ ~SpotLocked(s)
                /\ \A r \in Proc : r # q => tx'[r] = tx[r]
                /\ UNCHANGED apply
    BY <1>1, CreatingOrigin DEF HoldsSpot, Creating
<1>2. ASSUME NEW q \in Proc, HoldsSpot(q, s)'
      PROVE  q = p
  <2>1. CASE HoldsSpot(p, s) /\ HoldsSpot(q, s)
    BY <2>1 DEF SpotLockExclusive
  <2>2. CASE ~HoldsSpot(p, s) \/ ~HoldsSpot(q, s)
    <3>1. q # p => HoldsSpot(p, s) \/ HoldsSpot(q, s)
      BY <1>1, <1>2 DEF HoldsSpot, SpotOf
    <3> QED BY <1>1, <1>2, <2>2, <3>1 DEF SpotLocked
  <2> QED BY <2>1, <2>2
<1>3. apply'[s].pc # "applying"
  <2> SUFFICES ASSUME apply'[s].pc = "applying"
               PROVE  FALSE
    OBVIOUS
  <2>1. CASE apply[s].pc = "applying"
    BY <1>1, <2>1 DEF SpotLockExclusive, SpotLocked
  <2>2. CASE apply[s].pc # "applying"
    <3>1. ~SpotLocked(s) /\ UNCHANGED tx
      BY <2>2, ApplyingOrigin
    <3> QED BY <3>1 DEF SpotLocked, HoldsSpot, SpotOf
  <2> QED BY <2>1, <2>2
<1> QED BY <1>2, <1>3

LEMMA RowLockExclusiveStep ==
    ASSUME TypeOK, TargetsExist, RowLockExclusive, [Next]_vars
    PROVE  RowLockExclusive'
<1>1. ASSUME NEW p \in Proc, NEW q \in Proc, Locking(p)', Locking(q)', tx'[p].id = tx'[q].id
      PROVE  p = q
    BY <1>1, LockingOrigin DEF RowLockExclusive, RowLocked, Locking
<1>2. ASSUME NEW p \in Proc, NEW s \in SpotId, Locking(p)', apply'[s].pc = "applying"
      PROVE  tx'[p].id \notin apply'[s].locked
    BY <1>2, LockingOrigin, ApplyingOrigin DEF RowLockExclusive, RowLocked, Locking
<1>3. ASSUME NEW r \in SpotId, NEW s \in SpotId, r # s,
             apply'[r].pc = "applying", apply'[s].pc = "applying"
      PROVE  apply'[r].locked \cap apply'[s].locked = {}
    BY <1>3, ApplyingOrigin DEF RowLockExclusive, RowLocked
<1> QED BY <1>1, <1>2, <1>3 DEF RowLockExclusive, Locking

\* A request about to insert was about to already, or has just passed check().
LEMMA InsertingOrigin ==
    ASSUME TypeOK, [Next]_vars, NEW p \in Proc, tx'[p].pc = "inserting"
    PROVE  \/ tx'[p] = tx[p] /\ ~Insert(p)
           \/ /\ tx[p].pc = "reserving"
              /\ tx'[p].row = NewRow(tx[p])
              /\ check(mirror[tx[p].spot].open, taken_for_spot(tx[p].spot), tx[p].slots)
              /\ UNCHANGED <<booking, now>>
<1> USE DEF TypeOK, IdleTx
<1>1. CASE \E s \in SpotId, renter \in Person, slots \in SUBSET Slot, b \in BookingId, q \in Handler :
             Reserve(q, s, renter, slots, b)
    BY <1>1 DEF Reserve, Insert, Proc
<1>2. CASE \E q \in Handler : CheckAvailability(q)
    BY <1>2 DEF CheckAvailability, Insert, Proc
<1>3. CASE \E q \in Handler : Insert(q)
    BY <1>3 DEF Insert, Proc
<1>4. CASE \E q \in Handler, b \in BookingId, op \in Op : Authorize(q, b, op)
    BY <1>4 DEF Authorize, Insert, Proc
<1>5. CASE \E w \in Worker, b \in BookingId : DeliverPayment(w, b)
    BY <1>5 DEF DeliverPayment, Insert, Proc
<1>6. CASE \E w \in Sweeper, b \in BookingId : LockLapsed(w, b)
    BY <1>6 DEF LockLapsed, LockedTx, Insert, Proc
<1>7. CASE \E q \in Proc : LockRow(q)
    BY <1>7 DEF LockRow, LockedTx, Insert
<1>8. CASE \E q \in Proc : CommitRow(q) \/ Abort(q)
    BY <1>8 DEF CommitRow, Abort, Insert
<1>9. CASE UNCHANGED tx
    BY <1>9 DEF Insert
<1> QED
    BY <1>1, <1>2, <1>3, <1>4, <1>5, <1>6, <1>7, <1>8, <1>9
    DEF Next, HandlerNext, WorkerNext, SweeperNext, TransactionNext, ProjectorNext, vars,
        SweepScan, ApplySpotEvent, LockUpcoming, CommitSpotEvent, AbortSpotEvent, Pay, Tick

LEMMA RowsEndStep ==
    ASSUME TypeOK, TargetsExist, FreshIds, RowsEnd, [Next]_vars
    PROVE  RowsEnd'
<1>1. ASSUME NEW p \in Proc, tx'[p].pc = "inserting"
      PROVE  SlotsEnd(tx'[p].row) /\ tx'[p].row.status = "reserved" /\ tx'[p].row.version = 1
  <2>1. CASE tx'[p] = tx[p]
    BY <1>1, <2>1 DEF RowsEnd
  <2>2. CASE tx'[p] # tx[p]
    <3>1. /\ tx[p].pc = "reserving"
          /\ tx'[p].row = NewRow(tx[p])
          /\ check(mirror[tx[p].spot].open, taken_for_spot(tx[p].spot), tx[p].slots)
      BY <1>1, <2>2, InsertingOrigin
    <3>2. tx[p].slots \in SUBSET Slot /\ tx[p].slots # {}
      BY <3>1, TxCases DEF TypeOK, ReservingTx, check
    <3> QED BY <3>1, <3>2, EndsAt DEF NewRow, SlotsEnd
  <2> QED BY <2>1, <2>2
<1>2. ASSUME NEW b \in BookingId, booking'[b] # Null
      PROVE  SlotsEnd(booking'[b])
  <2>1. CASE booking[b] = Null
    <3>1. PICK p \in Handler : Insert(p) /\ tx[p].id = b
      BY <1>2, <2>1, RowsAppear
    <3> QED BY <3>1 DEF Insert, RowsEnd, TypeOK, Proc
  <2>2. CASE booking[b] # Null
    BY <2>2, RowsStay DEF RowsEnd, SlotsEnd
  <2> QED BY <2>1, <2>2
<1> QED BY <1>1, <1>2 DEF RowsEnd, SlotsEnd

\* Time does not run backwards.
LEMMA TimePasses ==
    ASSUME TypeOK, [Next]_vars
    PROVE  now \in Nat /\ now' \in Nat /\ now <= now'
<1>1. now \in Nat
    BY ConstantsAssumption DEF TypeOK, Time
<1>2. now' = now \/ now' = now + 1
    BY DEF Next, HandlerNext, WorkerNext, SweeperNext, TransactionNext, ProjectorNext, vars,
           Reserve, CheckAvailability, Insert, Authorize, DeliverPayment, SweepScan, LockLapsed,
           LockRow, CommitRow, Abort, ApplySpotEvent, LockUpcoming, CommitSpotEvent,
           AbortSpotEvent, Pay, Tick
<1> QED BY <1>1, <1>2

\* The slots check() found free are free of everything that has not ended.
LEMMA CheckedSlotsFree ==
    ASSUME TypeOK, RowsEnd, NEW s \in SpotId, NEW open, NEW slots \in SUBSET Slot,
           check(open, taken_for_spot(s), slots),
           NEW b \in BookingId, booking[b] # Null, booking[b].spot = s, Blocks(booking[b]),
           NEW k \in booking[b].slots \cap slots
    PROVE  k + 1 <= now
<1>1. booking[b].slots \cap slots = {} \/ ~(booking[b].endsAt > now)
  <2> SUFFICES ASSUME booking[b].endsAt > now
               PROVE  booking[b].slots \subseteq taken_for_spot(s)
    BY DEF check
  <2> QED BY DEF taken_for_spot
<1>2. k \in Nat /\ booking[b].endsAt \in Nat /\ now \in Nat
    BY ConstantsAssumption DEF TypeOK, Row, Slot, Time
<1>3. k + 1 <= booking[b].endsAt
    BY DEF RowsEnd, SlotsEnd
<1> QED BY <1>1, <1>2, <1>3

\* Only a request that holds the spot adds a row for it, so what check() found free
\* for one request stays free until that request commits.
LEMMA InsertingFitsStep ==
    ASSUME TypeOK, TargetsExist, SpotLockExclusive, FreshIds, RowsEnd, InsertingFits, [Next]_vars
    PROVE  InsertingFits'
<1> SUFFICES ASSUME NEW p \in Proc, NEW b \in BookingId,
                    tx'[p].pc = "inserting", booking'[b] # Null,
                    booking'[b].spot = tx'[p].row.spot, Blocks(booking'[b]),
                    NEW k \in booking'[b].slots \cap tx'[p].row.slots
             PROVE  k + 1 <= now'
    BY DEF InsertingFits, Blocks
<1>1. tx'[p] \in InsertingTx /\ k \in Nat
    BY TypeOKStep, TxCases, ConstantsAssumption DEF TypeOK, InsertingTx, Row, Slot
<1>2. CASE tx'[p] = tx[p] /\ ~Insert(p)
  <2>1. CASE booking[b] # Null
    <3>1. k + 1 <= now
      BY <1>2, <2>1, RowsStay DEF InsertingFits
    <3> QED BY <1>1, <3>1, TimePasses
  <2>2. CASE booking[b] = Null
    <3>1. PICK q \in Handler : Insert(q) /\ tx[q].id = b
      BY <2>2, RowsAppear
    <3>2. q \in Proc /\ booking'[b] = tx[q].row /\ tx[q].pc = "inserting"
      BY <3>1 DEF Insert, TypeOK, Proc
    <3>3. HoldsSpot(q, tx[p].row.spot) /\ HoldsSpot(p, tx[p].row.spot)
      BY <1>2, <3>2 DEF HoldsSpot, SpotOf
    <3>4. tx[p].row.spot \in SpotId
      BY <1>1, <1>2 DEF InsertingTx, Row
    <3>5. q = p
      BY <3>2, <3>3, <3>4 DEF SpotLockExclusive
    <3> QED BY <1>2, <3>1, <3>5
  <2> QED BY <2>1, <2>2
<1>3. CASE ~(tx'[p] = tx[p] /\ ~Insert(p))
  <2>1. /\ tx[p].pc = "reserving"
        /\ tx'[p].row = NewRow(tx[p])
        /\ check(mirror[tx[p].spot].open, taken_for_spot(tx[p].spot), tx[p].slots)
        /\ UNCHANGED <<booking, now>>
    BY <1>3, InsertingOrigin
  <2>2. tx[p].spot \in SpotId /\ tx[p].slots \in SUBSET Slot
    BY <2>1, TxCases DEF TypeOK, ReservingTx
  <2>3. tx'[p].row.spot = tx[p].spot /\ tx'[p].row.slots = tx[p].slots
    BY <2>1 DEF NewRow
  <2> QED BY <2>1, <2>2, <2>3, CheckedSlotsFree
<1> QED BY <1>2, <1>3

LEMMA NoDoubleBookingStep ==
    ASSUME TypeOK, TargetsExist, FreshIds, InsertingFits, NoDoubleBooking, [Next]_vars
    PROVE  NoDoubleBooking'
<1> SUFFICES ASSUME NEW b \in BookingId, NEW c \in BookingId, b # c,
                    booking'[b] # Null, booking'[c] # Null,
                    booking'[b].spot = booking'[c].spot,
                    Blocks(booking'[b]), Blocks(booking'[c]),
                    NEW k \in booking'[b].slots \cap booking'[c].slots
             PROVE  k + 1 <= now'
    BY DEF NoDoubleBooking, Blocks
<1>1. k \in Nat
    BY TypeOKStep, ConstantsAssumption DEF TypeOK, Row, Slot
<1>2. ASSUME NEW d \in BookingId, NEW e \in BookingId, d # e, booking[d] = Null,
             booking'[d] # Null, booking'[e] # Null, booking'[d].spot = booking'[e].spot,
             Blocks(booking'[e]), k \in booking'[d].slots \cap booking'[e].slots
      PROVE  k + 1 <= now
  <2>1. PICK p \in Handler : Insert(p) /\ tx[p].id = d
    BY <1>2, RowsAppear
  <2>2. /\ p \in Proc /\ tx[p].pc = "inserting"
        /\ booking'[d] = tx[p].row /\ booking'[e] = booking[e]
    BY <1>2, <2>1 DEF Insert, TypeOK, Proc
  <2> QED BY <1>2, <2>2 DEF InsertingFits
<1>3. ASSUME booking[b] # Null, booking[c] # Null
      PROVE  k + 1 <= now
  <2>1. /\ booking'[b].spot = booking[b].spot /\ booking'[b].slots = booking[b].slots
        /\ Blocks(booking[b])
    BY <1>3, RowsStay
  <2>2. /\ booking'[c].spot = booking[c].spot /\ booking'[c].slots = booking[c].slots
        /\ Blocks(booking[c])
    BY <1>3, RowsStay
  <2> QED BY <1>3, <2>1, <2>2 DEF NoDoubleBooking
<1>4. k + 1 <= now
  <2>1. CASE booking[b] = Null
    BY <1>2, <2>1
  <2>2. CASE booking[c] = Null
    BY <1>2, <2>2
  <2> QED BY <1>3, <2>1, <2>2
<1> QED BY <1>1, <1>4, TimePasses

-----------------------------------------------------------------------------
(* Versions *)

\* Until a transaction that holds a row commits, nobody else moves the row.
LEMMA VersionsMintedStep ==
    ASSUME TypeOK, TargetsExist, FreshIds, RowLockExclusive, VersionsMinted, [Next]_vars
    PROVE  VersionsMinted'
<1> SUFFICES ASSUME NEW p \in Proc, Locking(p)'
             PROVE  tx'[p].version = booking'[tx'[p].id].version + 1
    BY DEF VersionsMinted
<1>1. CASE UNCHANGED booking
    BY <1>1, LockingOrigin DEF VersionsMinted, next_version
<1>2. CASE ~UNCHANGED booking
  <2>1. Locking(p) /\ tx'[p] = tx[p] /\ ~CommitRow(p)
    BY <1>2, LockingOrigin
  <2>2. tx[p].id \in BookingId /\ booking[tx[p].id] # Null
    BY <2>1, TxCases DEF Locking, TypeOK, TargetsExist, LockedRowTx
  <2>3. booking'[tx[p].id] = booking[tx[p].id]
    <3>1. CASE \E q \in Handler : Insert(q)
      <4>1. PICK q \in Handler : Insert(q)
        BY <3>1
      <4>2. booking[tx[q].id] = Null
        BY <4>1 DEF Insert, FreshIds, Creating, Proc
      <4> QED BY <2>2, <4>1, <4>2 DEF Insert, TypeOK
    <3>2. CASE \E q \in Proc : CommitRow(q)
      <4>1. PICK q \in Proc : CommitRow(q)
        BY <3>2
      <4>2. tx[q].id # tx[p].id
        BY <2>1, <4>1 DEF RowLockExclusive, Locking, CommitRow
      <4> QED BY <2>2, <4>1, <4>2, CommitRowEffect
    <3>3. CASE \E s \in SpotId : CommitSpotEvent(s)
      <4>1. PICK s \in SpotId : CommitSpotEvent(s)
        BY <3>3
      <4>2. tx[p].id \notin apply[s].locked
        BY <2>1, <4>1 DEF RowLockExclusive, CommitSpotEvent
      <4> QED BY <2>2, <4>1, <4>2, CommitSpotEventEffect
    <3> QED BY <1>2, <3>1, <3>2, <3>3, Writers
  <2> QED BY <2>1, <2>3 DEF VersionsMinted
<1> QED BY <1>1, <1>2

\* Appending the event of the next version keeps a log gapless.
LEMMA GaplessAppend ==
    ASSUME NEW log \in Seq(Envelope), NEW kind \in EventKind, NEW n \in Nat,
           Len(log) = n, \A i \in 1..Len(log) : log[i].version = i
    PROVE  LET next == Append(log, [version |-> n + 1, kind |-> kind]) IN
           /\ Len(next) = n + 1
           /\ \A i \in 1..Len(next) : next[i].version = i
<1> DEFINE e == [version |-> n + 1, kind |-> kind]
           next == Append(log, e)
<1>1. e \in Envelope /\ e.version = n + 1
    BY DEF Envelope
<1> HIDE DEF e
<1>2. Len(next) = n + 1 /\ next[n + 1] = e
    BY <1>1
<1>3. \A i \in 1..n : next[i] = log[i]
    BY <1>1
<1>4. \A i \in 1..Len(next) : next[i].version = i
    BY <1>1, <1>2, <1>3
<1> QED BY <1>2, <1>4 DEF e

LEMMA VersionsGaplessStep ==
    ASSUME TypeOK, TargetsExist, FreshIds, RowsEnd, VersionsMinted, VersionsGapless, [Next]_vars
    PROVE  VersionsGapless'
<1> DEFINE Gapless(b) ==
             /\ Len(outbox[b]) = IF booking[b] = Null THEN 0 ELSE booking[b].version
             /\ \A i \in 1..Len(outbox[b]) : outbox[b][i].version = i
<1> SUFFICES ASSUME NEW b \in BookingId
             PROVE  Gapless(b)'
    BY DEF VersionsGapless
<1>1. Gapless(b) /\ outbox[b] \in Seq(Envelope)
    BY DEF VersionsGapless, TypeOK
<1>2. CASE booking'[b] = booking[b] /\ outbox'[b] = outbox[b]
    BY <1>1, <1>2
<1>3. ASSUME NEW n \in Nat, NEW kind \in EventKind, Len(outbox[b]) = n,
             outbox'[b] = Append(outbox[b], [version |-> n + 1, kind |-> kind]),
             booking'[b] # Null, booking'[b].version = n + 1
      PROVE  Gapless(b)'
    BY <1>1, <1>3, GaplessAppend
<1>4. CASE \E p \in Handler : Insert(p)
  <2>1. PICK p \in Handler : Insert(p)
    BY <1>4
  <2>2. CASE tx[p].id = b
    <3>1. /\ p \in Proc /\ tx[p].pc = "inserting" /\ booking[b] = Null
      BY <2>1, <2>2 DEF Insert, FreshIds, Creating, Proc
    <3>2. tx[p].row \in Row /\ tx[p].row.version = 1
      BY <3>1, TxCases DEF TypeOK, RowsEnd, InsertingTx
    <3>3. booking'[b] = tx[p].row /\ outbox'[b] = Append(outbox[b], [version |-> 1, kind |-> "created"])
      BY <2>1, <2>2 DEF Insert, TypeOK
    <3>4. "created" \in EventKind /\ 0 \in Nat /\ 1 = 0 + 1 /\ Len(outbox[b]) = 0
      BY <1>1, <3>1 DEF EventKind
    <3>5. booking'[b] # Null
      BY <3>2, <3>3, NullAssumption
    <3> HIDE DEF Gapless
    <3> QED BY <1>3, <3>2, <3>3, <3>4, <3>5
  <2>3. CASE tx[p].id # b
    BY <1>2, <2>1, <2>3 DEF Insert, TypeOK
  <2> QED BY <2>2, <2>3
<1>5. CASE \E p \in Proc : CommitRow(p)
  <2>1. PICK p \in Proc : CommitRow(p)
    BY <1>5
  <2>2. CASE tx[p].id = b /\ Applies(tx[p].op, booking[b])
    <3>1. /\ tx[p].op \in Op /\ tx[p].version \in Nat /\ booking[b] \in Row
          /\ booking'[b] = Transitioned(tx[p].op, booking[b], tx[p].version)
          /\ outbox'[b] = Append(outbox[b], [version |-> tx[p].version, kind |-> KindOf(tx[p].op)])
      BY <2>1, <2>2, CommitRowEffect
    <3>2. tx[p].version = booking[b].version + 1
      BY <2>1, <2>2 DEF VersionsMinted, Locking, CommitRow
    <3>3. booking[b].version \in Nat /\ booking[b] # Null
      BY <3>1, NullAssumption DEF Row
    <3>4. /\ booking'[b].version = booking[b].version + 1
          /\ booking'[b] # Null
      BY <2>2, <3>1, <3>2, <3>3, TransitionedRow, NullAssumption
    <3>5. KindOf(tx[p].op) \in EventKind
      BY <3>1 DEF KindOf, Op, EventKind
    <3>6. Len(outbox[b]) = booking[b].version
      BY <1>1, <3>3
    <3> HIDE DEF Gapless
    <3> QED BY <1>3, <3>1, <3>2, <3>3, <3>4, <3>5, <3>6
  <2>3. CASE ~(tx[p].id = b /\ Applies(tx[p].op, booking[b]))
    BY <1>2, <2>1, <2>3, CommitRowEffect
  <2> QED BY <2>2, <2>3
<1>6. CASE \E s \in SpotId : CommitSpotEvent(s)
  <2>1. PICK s \in SpotId : CommitSpotEvent(s)
    BY <1>6
  <2>2. CASE /\ booking[b] \in Row /\ Applies("withdraw", booking[b])
             /\ booking'[b] = Transitioned("withdraw", booking[b], booking[b].version + 1)
             /\ outbox'[b] = Append(outbox[b], [version |-> booking[b].version + 1,
                                                kind |-> "spot_unavailable"])
    <3>1. booking[b].version \in Nat /\ booking[b] # Null /\ booking[b].version + 1 \in Nat
      BY <2>2, NullAssumption DEF Row
    <3>2. "withdraw" \in Op /\ "spot_unavailable" \in EventKind
      BY DEF Op, EventKind
    <3>3. booking'[b].version = booking[b].version + 1 /\ booking'[b] # Null
      BY <2>2, <3>1, <3>2, TransitionedRow, NullAssumption
    <3>4. Len(outbox[b]) = booking[b].version
      BY <1>1, <3>1
    <3> HIDE DEF Gapless
    <3> QED BY <1>3, <2>2, <3>1, <3>2, <3>3, <3>4
  <2> QED BY <1>2, <2>1, <2>2, CommitSpotEventEffect
<1>7. CASE UNCHANGED <<booking, outbox>>
    BY <1>2, <1>7
<1> QED BY <1>4, <1>5, <1>6, <1>7, Writers

LEMMA ToldVersionsExistStep ==
    ASSUME TypeOK, TargetsExist, FreshIds, VersionsMinted, VersionsGapless, ToldVersionsExist,
           [Next]_vars
    PROVE  ToldVersionsExist'
<1> SUFFICES ASSUME NEW b \in BookingId
             PROVE  told'[b] <= Len(outbox'[b])
    BY DEF ToldVersionsExist
<1>1. /\ outbox[b] \in Seq(Envelope) /\ told[b] \in Nat /\ told[b] <= Len(outbox[b])
      /\ Len(outbox[b]) = IF booking[b] = Null THEN 0 ELSE booking[b].version
    BY DEF ToldVersionsExist, VersionsGapless, TypeOK
<1>2. \A e \in Envelope : Len(Append(outbox[b], e)) = Len(outbox[b]) + 1
    BY <1>1
<1>3. CASE \E p \in Handler : Insert(p)
  <2>1. PICK p \in Handler : Insert(p)
    BY <1>3
  <2>2. CASE tx[p].id = b
    <3>1. [version |-> 1, kind |-> "created"] \in Envelope
      BY DEF Envelope, EventKind
    <3>2. /\ outbox'[b] = Append(outbox[b], [version |-> 1, kind |-> "created"])
          /\ told'[b] = MaxOf(told[b], 1)
      BY <2>1, <2>2 DEF Insert, TypeOK
    <3>3. Len(outbox'[b]) = Len(outbox[b]) + 1 /\ Len(outbox[b]) \in Nat
      BY <1>1, <1>2, <3>1, <3>2
    <3> QED BY <1>1, <3>2, <3>3 DEF MaxOf
  <2>3. CASE tx[p].id # b
    BY <1>1, <2>1, <2>3 DEF Insert, TypeOK
  <2> QED BY <2>2, <2>3
<1>4. CASE \E p \in Proc : CommitRow(p)
  <2>1. PICK p \in Proc : CommitRow(p)
    BY <1>4
  <2>2. /\ tx[p] \in LockedRowTx /\ tx[p].id \in BookingId /\ tx[p].op \in Op /\ tx[p].version \in Nat
    BY <2>1, CommitRowEffect
  <2>3. told'[b] = told[b] \/ (tx[p].id = b /\ told'[b] = MaxOf(told[b], Reported(tx[p])))
    BY <2>1, <2>2 DEF CommitRow, TypeOK
  <2>4. CASE tx[p].id = b
    <3>1. /\ booking[b] \in Row /\ booking[b] # Null
          /\ tx[p].version = Len(outbox[b]) + 1 /\ Len(outbox[b]) \in Nat
      <4>1. booking[b] \in Row /\ booking[b] # Null
        BY <2>1, <2>4, CommitRowEffect, NullAssumption
      <4>2. tx[p].version = booking[b].version + 1
        BY <2>1, <2>4 DEF VersionsMinted, Locking, CommitRow
      <4> QED BY <1>1, <4>1, <4>2 DEF Row
    <3>2. CASE Applies(tx[p].op, booking[b])
      <4>1. KindOf(tx[p].op) \in EventKind
        BY <2>2 DEF KindOf, Op, EventKind
      <4>2. [version |-> tx[p].version, kind |-> KindOf(tx[p].op)] \in Envelope
        BY <2>2, <4>1 DEF Envelope
      <4>3. Len(outbox'[b]) = Len(outbox[b]) + 1
        BY <1>2, <2>1, <2>4, <3>2, <4>2, CommitRowEffect
      <4>4. Reported(tx[p]) = tx[p].version
        BY <2>4, <3>2 DEF Reported
      <4> QED BY <1>1, <2>3, <3>1, <4>3, <4>4 DEF MaxOf
    <3>3. CASE ~Applies(tx[p].op, booking[b])
      <4>1. outbox'[b] = outbox[b]
        BY <2>1, <2>4, <3>3, CommitRowEffect
      <4>2. Reported(tx[p]) = Len(outbox[b])
        BY <2>4, <3>1, <3>3 DEF Reported
      <4> QED BY <1>1, <2>3, <3>1, <4>1, <4>2 DEF MaxOf
    <3> QED BY <3>2, <3>3
  <2>5. CASE tx[p].id # b
    BY <1>1, <2>1, <2>3, <2>5, CommitRowEffect
  <2> QED BY <2>4, <2>5
<1>5. CASE \E s \in SpotId : CommitSpotEvent(s)
  <2>1. PICK s \in SpotId : CommitSpotEvent(s)
    BY <1>5
  <2>2. told'[b] = told[b]
    BY <2>1 DEF CommitSpotEvent
  <2>3. CASE outbox'[b] = outbox[b]
    BY <1>1, <2>2, <2>3
  <2>4. CASE /\ booking[b] \in Row
             /\ outbox'[b] = Append(outbox[b], [version |-> booking[b].version + 1,
                                                kind |-> "spot_unavailable"])
    <3>1. [version |-> booking[b].version + 1, kind |-> "spot_unavailable"] \in Envelope
      BY <2>4 DEF Envelope, EventKind, Row
    <3>2. Len(outbox'[b]) = Len(outbox[b]) + 1 /\ Len(outbox[b]) \in Nat
      BY <1>1, <1>2, <2>4, <3>1
    <3> QED BY <1>1, <2>2, <3>2
  <2> QED BY <2>1, <2>3, <2>4, CommitSpotEventEffect
<1>6. CASE UNCHANGED <<booking, outbox, told>>
    BY <1>1, <1>6
<1> QED
    BY <1>3, <1>4, <1>5, <1>6
    DEF Next, HandlerNext, WorkerNext, SweeperNext, TransactionNext, ProjectorNext, vars,
        Reserve, CheckAvailability, Authorize, DeliverPayment, SweepScan, LockLapsed, LockRow,
        Abort, ApplySpotEvent, LockUpcoming, AbortSpotEvent, Pay, Tick

-----------------------------------------------------------------------------
(* The theorems *)

\* The service starts with every table empty and nothing in flight.
LEMMA InitIInv == Init => IInv
<1> SUFFICES ASSUME Init
             PROVE  IInv
    OBVIOUS
<1> USE DEF Init, IdleTx, IdleApply
<1>1. TypeOK
    BY ConstantsAssumption DEF TypeOK, Time, Tx, Apply, IdleTx, IdleApply
<1>2. TargetsExist /\ SpotLockExclusive /\ RowLockExclusive /\ FreshIds
    BY DEF TargetsExist, SpotLockExclusive, HoldsSpot, RowLockExclusive, Locking, FreshIds, Creating
<1>3. RowsEnd /\ InsertingFits /\ VersionsMinted /\ NoDoubleBooking
    BY DEF RowsEnd, InsertingFits, VersionsMinted, Locking, NoDoubleBooking
<1>4. VersionsGapless /\ ToldVersionsExist
    BY DEF VersionsGapless, ToldVersionsExist
<1> QED BY <1>1, <1>2, <1>3, <1>4 DEF IInv

\* IInv is inductive.
LEMMA NextIInv == IInv /\ [Next]_vars => IInv'
<1> SUFFICES ASSUME IInv, [Next]_vars
             PROVE  IInv'
    OBVIOUS
<1> USE DEF IInv
<1>1. TypeOK' /\ TargetsExist' /\ FreshIds'
    BY TypeOKStep, TargetsExistStep, FreshIdsStep
<1>2. SpotLockExclusive' /\ RowLockExclusive'
    BY SpotLockExclusiveStep, RowLockExclusiveStep
<1>3. RowsEnd' /\ InsertingFits' /\ NoDoubleBooking'
    BY RowsEndStep, InsertingFitsStep, NoDoubleBookingStep
<1>4. VersionsMinted' /\ VersionsGapless' /\ ToldVersionsExist'
    BY VersionsMintedStep, VersionsGaplessStep, ToldVersionsExistStep
<1> QED BY <1>1, <1>2, <1>3, <1>4

(***************************************************************************)
(* Every state of the service satisfies the inductive invariant: the row   *)
(* locks exclude whom they should, and what a transaction read under its   *)
(* lock still holds when it commits.                                       *)
(***************************************************************************)
THEOREM Invariance == Spec => []IInv
BY InitIInv, NextIInv, PTL DEF Spec

\* The tables, transactions and histories stay well typed.
THEOREM TypeCorrectness == Spec => []TypeOK
<1>1. IInv => TypeOK
    BY DEF IInv
<1> QED BY <1>1, Invariance, PTL

\* create_booking never lets two requests have the same slot that is still to come.
THEOREM NoDoubleBookingHolds == Spec => []NoDoubleBooking
<1>1. IInv => NoDoubleBooking
    BY DEF IInv
<1> QED BY <1>1, Invariance, PTL

\* The events of a booking carry the versions 1, 2, 3, ... of its row, whoever wrote it.
THEOREM VersionsGaplessHolds == Spec => []VersionsGapless
<1>1. IInv => VersionsGapless
    BY DEF IInv
<1> QED BY <1>1, Invariance, PTL

\* Every version a client is told to wait for is that of an event that was enqueued.
THEOREM ToldVersionsExistHolds == Spec => []ToldVersionsExist
<1>1. IInv => ToldVersionsExist
    BY DEF IInv
<1> QED BY <1>1, Invariance, PTL

-----------------------------------------------------------------------------
(* How bookings settle: the strengthening, one conjunct at a time *)

\* A request that holds a spot found its mirror row.
LEMMA HoldingOrigin ==
    ASSUME TypeOK, [Next]_vars, NEW p \in Proc, NEW s \in SpotId, HoldsSpot(p, s)'
    PROVE  HoldsSpot(p, s) \/ mirror[s] # Null
<1> USE DEF HoldsSpot, SpotOf, TypeOK, IdleTx
<1>1. CASE \E r \in SpotId, renter \in Person, slots \in SUBSET Slot, b \in BookingId, q \in Handler :
             Reserve(q, r, renter, slots, b)
    BY <1>1 DEF Reserve, Proc
<1>2. CASE \E q \in Handler : CheckAvailability(q)
    BY <1>2 DEF CheckAvailability, NewRow, Proc
<1>3. CASE \E q \in Handler : Insert(q)
    BY <1>3 DEF Insert, Proc
<1>4. CASE \E q \in Handler, b \in BookingId, op \in Op : Authorize(q, b, op)
    BY <1>4 DEF Authorize, Proc
<1>5. CASE \E w \in Worker, b \in BookingId : DeliverPayment(w, b)
    BY <1>5 DEF DeliverPayment, Proc
<1>6. CASE \E w \in Sweeper, b \in BookingId : LockLapsed(w, b)
    BY <1>6 DEF LockLapsed, LockedTx, Proc
<1>7. CASE \E q \in Proc : LockRow(q)
    BY <1>7 DEF LockRow, LockedTx
<1>8. CASE \E q \in Proc : CommitRow(q) \/ Abort(q)
    BY <1>8 DEF CommitRow, Abort
<1>9. CASE UNCHANGED tx
    BY <1>9
<1> QED
    BY <1>1, <1>2, <1>3, <1>4, <1>5, <1>6, <1>7, <1>8, <1>9
    DEF Next, HandlerNext, WorkerNext, SweeperNext, TransactionNext, ProjectorNext, vars,
        SweepScan, ApplySpotEvent, LockUpcoming, CommitSpotEvent, AbortSpotEvent, Pay, Tick

\* Only the projector's commit writes a mirror row, and only that of its own spot.
LEMMA MirrorWriter ==
    ASSUME TypeOK, [Next]_vars, NEW s \in SpotId
    PROVE  mirror'[s] = mirror[s] \/ CommitSpotEvent(s)
<1>1. CASE \E r \in SpotId : CommitSpotEvent(r)
    BY <1>1 DEF CommitSpotEvent, TypeOK
<1>2. CASE UNCHANGED mirror
    BY <1>2
<1> QED
    BY <1>1, <1>2
    DEF Next, HandlerNext, WorkerNext, SweeperNext, TransactionNext, ProjectorNext, vars,
        Reserve, CheckAvailability, Insert, Authorize, DeliverPayment, SweepScan, LockLapsed,
        LockRow, CommitRow, Abort, ApplySpotEvent, LockUpcoming, AbortSpotEvent, Pay, Tick

\* A mirror row, once there, stays.
LEMMA MirrorStays ==
    ASSUME TypeOK, TargetsExist, [Next]_vars, NEW s \in SpotId, mirror[s] # Null
    PROVE  mirror'[s] # Null
<1>1. CASE mirror'[s] = mirror[s]
  BY <1>1
<1>2. CASE CommitSpotEvent(s)
  <2>1. Merged(s, apply[s].event) # Null
    BY <1>2, MergedType, NullAssumption DEF CommitSpotEvent
  <2>2. mirror'[s] = Merged(s, apply[s].event)
    BY <1>2 DEF CommitSpotEvent, TypeOK
  <2> QED BY <2>1, <2>2
<1> QED BY <1>1, <1>2, MirrorWriter

\* The edit in progress was in progress, or is one the gate admitted just now.
LEMMA EventOrigin ==
    ASSUME TypeOK, [Next]_vars, NEW s \in SpotId, apply'[s].pc = "applying"
    PROVE  \/ apply[s].pc = "applying" /\ apply'[s].event = apply[s].event /\ ~CommitSpotEvent(s)
           \/ /\ UNCHANGED <<mirror, booking, now, late>>
              /\ apply[s].pc # "applying"
              /\ apply'[s].event \in NextSpotEvent(s)
              /\ \E at \in Time :
                    /\ at <= now
                    /\ apply'[s].todo = Withdrawn(s, apply'[s].event, at)
<1> USE DEF TypeOK, IdleApply
<1>1. CASE \E r \in SpotId, e \in SpotEvent, at \in Time : ApplySpotEvent(r, e, at)
  <2>1. PICK r \in SpotId, e \in SpotEvent, at \in Time : ApplySpotEvent(r, e, at)
    BY <1>1
  <2>2. CASE r = s
    <3>1. apply'[s] = [pc |-> "applying", event |-> e, todo |-> Withdrawn(s, e, at), locked |-> {}]
      BY <2>1, <2>2 DEF ApplySpotEvent
    <3>2. apply'[s].event = e /\ apply'[s].todo = Withdrawn(s, e, at)
      BY <3>1
    <3>3. e \in NextSpotEvent(s) /\ at <= now /\ apply[s].pc # "applying"
          /\ UNCHANGED <<mirror, booking, now, late>>
      BY <2>1, <2>2 DEF ApplySpotEvent, SpotLocked
    <3> QED BY <3>2, <3>3
  <2>3. CASE r # s
    BY <2>1, <2>3 DEF ApplySpotEvent, CommitSpotEvent
  <2> QED BY <2>2, <2>3
<1>2. CASE ~\E r \in SpotId, e \in SpotEvent, at \in Time : ApplySpotEvent(r, e, at)
  <2>1. apply[s].pc = "applying"
    BY <1>2
    DEF Next, HandlerNext, WorkerNext, SweeperNext, TransactionNext, ProjectorNext, vars,
        Reserve, CheckAvailability, Insert, Authorize, DeliverPayment, SweepScan, LockLapsed,
        LockRow, CommitRow, Abort, LockUpcoming, CommitSpotEvent, AbortSpotEvent, Pay, Tick
  <2>2. CASE /\ apply'[s].event = apply[s].event /\ ~CommitSpotEvent(s)
    BY <2>1, <2>2
  <2>3. CASE ~SpotLocked(s)
    BY <2>1, <2>3 DEF SpotLocked
  <2> QED BY <2>2, <2>3, ApplyingOrigin
<1> QED BY <1>1, <1>2

LEMMA MirrorsExistStep ==
    ASSUME TypeOK, TargetsExist, FreshIds, MirrorsExist, [Next]_vars
    PROVE  MirrorsExist'
<1>1. ASSUME NEW b \in BookingId, booking'[b] # Null
      PROVE  mirror'[booking'[b].spot] # Null
  <2>1. CASE booking[b] = Null
    <3>1. PICK p \in Handler : Insert(p) /\ tx[p].id = b
      BY <1>1, <2>1, RowsAppear
    <3>2. p \in Proc /\ tx[p] \in InsertingTx
      BY <3>1, TxCases DEF Insert, TypeOK, Proc
    <3>3. booking'[b] = tx[p].row /\ mirror' = mirror /\ tx[p].row.spot \in SpotId
      BY <3>1, <3>2 DEF Insert, TypeOK, InsertingTx, Row
    <3>4. HoldsSpot(p, tx[p].row.spot)
      BY <3>1 DEF Insert, HoldsSpot, SpotOf
    <3> QED BY <3>2, <3>3, <3>4 DEF MirrorsExist
  <2>2. CASE booking[b] # Null
    <3>1. booking'[b].spot = booking[b].spot /\ booking[b].spot \in SpotId
      BY <2>2, RowsStay DEF TypeOK, Row
    <3>2. mirror[booking[b].spot] # Null
      BY <2>2 DEF MirrorsExist
    <3> QED BY <3>1, <3>2, MirrorStays
  <2> QED BY <2>1, <2>2
<1>2. ASSUME NEW p \in Proc, NEW s \in SpotId, HoldsSpot(p, s)'
      PROVE  mirror'[s] # Null
    BY <1>2, HoldingOrigin, MirrorStays DEF MirrorsExist
<1>3. ASSUME NEW s \in SpotId, apply'[s].pc = "applying", apply'[s].event.kind = "created"
      PROVE  mirror'[s] = Null
  <2>1. CASE apply[s].pc = "applying" /\ apply'[s].event = apply[s].event /\ ~CommitSpotEvent(s)
    BY <1>3, <2>1, MirrorWriter DEF MirrorsExist
  <2>2. CASE apply'[s].event \in NextSpotEvent(s) /\ UNCHANGED mirror
    BY <1>3, <2>2 DEF NextSpotEvent
  <2> QED BY <1>3, <2>1, <2>2, EventOrigin
<1> QED BY <1>1, <1>2, <1>3 DEF MirrorsExist

\* A transition leaves a reserved row reserved in no case, and rates confirmed rows only.
LEMMA TransitionedStatus ==
    ASSUME NEW op \in Op, NEW row \in Row, NEW v \in Nat, Applies(op, row)
    PROVE  /\ Transitioned(op, row, v).status = IF op = "rate" THEN "confirmed" ELSE To(op)
           /\ Transitioned(op, row, v).rated = (row.rated \/ op = "rate")
<1>1. CASE op = "rate"
    BY <1>1 DEF Applies, From, Transitioned, Row
<1>2. CASE op # "rate"
    BY <1>2 DEF Transitioned, Row
<1> QED BY <1>1, <1>2

\* Every row that changes does so by one guarded transition; every other row stays.
LEMMA RowMoves ==
    ASSUME TypeOK, TargetsExist, FreshIds, RowsEnd, VersionsMinted, [Next]_vars, NEW b \in BookingId
    PROVE  \/ booking'[b] = booking[b] /\ outbox'[b] = outbox[b]
           \/ /\ booking[b] = Null
              /\ \E p \in Proc : tx[p].pc = "inserting" /\ booking'[b] = tx[p].row
              /\ outbox'[b] = Append(outbox[b], [version |-> 1, kind |-> "created"])
           \/ /\ booking[b] \in Row
              /\ \E op \in Op :
                    LET v == booking[b].version + 1 IN
                    /\ Applies(op, booking[b])
                    /\ booking'[b] = Transitioned(op, booking[b], v)
                    /\ outbox'[b] = Append(outbox[b], [version |-> v, kind |-> KindOf(op)])
                    /\ op = "confirm" => late' = IF Misfit(b) THEN late \cup {b} ELSE late
<1>1. CASE \E p \in Handler : Insert(p)
  <2>1. PICK p \in Handler : Insert(p)
    BY <1>1
  <2>2. p \in Proc /\ tx[p].pc = "inserting" /\ booking[tx[p].id] = Null
    BY <2>1 DEF Insert, FreshIds, Creating, Proc
  <2>3. CASE b = tx[p].id
    BY <2>1, <2>2, <2>3 DEF Insert, TypeOK
  <2>4. CASE b # tx[p].id
    BY <2>1, <2>4 DEF Insert, TypeOK
  <2> QED BY <2>3, <2>4
<1>2. CASE \E p \in Proc : CommitRow(p)
  <2>1. PICK p \in Proc : CommitRow(p)
    BY <1>2
  <2>2. CASE b = tx[p].id /\ Applies(tx[p].op, booking[b])
    <3>1. /\ tx[p].op \in Op /\ booking[b] \in Row
          /\ booking'[b] = Transitioned(tx[p].op, booking[b], tx[p].version)
          /\ outbox'[b] = Append(outbox[b], [version |-> tx[p].version, kind |-> KindOf(tx[p].op)])
      BY <2>1, <2>2, CommitRowEffect
    <3>2. tx[p].version = booking[b].version + 1
      BY <2>1, <2>2 DEF VersionsMinted, Locking, CommitRow
    <3>3. tx[p].op = "confirm" => late' = IF Misfit(b) THEN late \cup {b} ELSE late
      BY <2>1, <2>2 DEF CommitRow
    <3> DEFINE op == tx[p].op
               v == tx[p].version
    <3>4. /\ op \in Op /\ v = booking[b].version + 1 /\ Applies(op, booking[b])
          /\ booking'[b] = Transitioned(op, booking[b], v)
          /\ outbox'[b] = Append(outbox[b], [version |-> v, kind |-> KindOf(op)])
          /\ op = "confirm" => late' = IF Misfit(b) THEN late \cup {b} ELSE late
      BY <2>2, <3>1, <3>2, <3>3
    <3> HIDE DEF op, v
    <3> QED BY <3>1, <3>4
  <2>3. CASE ~(b = tx[p].id /\ Applies(tx[p].op, booking[b]))
    BY <2>1, <2>3, CommitRowEffect
  <2> QED BY <2>2, <2>3
<1>3. CASE \E s \in SpotId : CommitSpotEvent(s)
  <2>1. PICK s \in SpotId : CommitSpotEvent(s)
    BY <1>3
  <2>2. "withdraw" \in Op /\ KindOf("withdraw") = "spot_unavailable"
    BY DEF Op, KindOf
  <2> QED BY <2>1, <2>2, CommitSpotEventEffect
<1>4. CASE UNCHANGED <<booking, outbox>>
    BY <1>4
<1> QED BY <1>1, <1>2, <1>3, <1>4, Writers

LEMMA ReservedUnratedStep ==
    ASSUME TypeOK, TargetsExist, FreshIds, RowsEnd, VersionsMinted, ReservedUnrated, [Next]_vars
    PROVE  ReservedUnrated'
<1>1. ASSUME NEW b \in BookingId, booking'[b] # Null, booking'[b].status = "reserved"
      PROVE  ~booking'[b].rated
  <2>1. CASE booking'[b] = booking[b]
    BY <1>1, <2>1 DEF ReservedUnrated
  <2>2. CASE \E p \in Proc : tx[p].pc = "inserting" /\ booking'[b] = tx[p].row
    BY <2>2 DEF ReservedUnrated
  <2>3. ASSUME booking[b] \in Row, NEW op \in Op, NEW v, v = booking[b].version + 1,
               Applies(op, booking[b]), booking'[b] = Transitioned(op, booking[b], v)
        PROVE  FALSE
    <3>1. v \in Nat
      BY <2>3 DEF Row
    <3>2. booking'[b].status = IF op = "rate" THEN "confirmed" ELSE To(op)
      BY <2>3, <3>1, TransitionedStatus
    <3> QED BY <1>1, <3>2 DEF To, Op
  <2> QED BY <2>1, <2>2, <2>3, RowMoves
<1>2. ASSUME NEW p \in Proc, tx'[p].pc = "inserting"
      PROVE  ~tx'[p].row.rated
  <2>1. CASE tx'[p] = tx[p]
    BY <1>2, <2>1 DEF ReservedUnrated
  <2>2. CASE tx'[p].row = NewRow(tx[p])
    BY <2>2 DEF NewRow
  <2> QED BY <1>2, <2>1, <2>2, InsertingOrigin
<1> QED BY <1>1, <1>2 DEF ReservedUnrated
\* A confirmed booking still to come was confirmed already, or has just been confirmed
\* fitting, and nothing that looked at it before has missed it.
LEMMA ConfirmedOrigin ==
    ASSUME TypeOK, TargetsExist, FreshIds, RowsEnd, VersionsMinted, [Next]_vars,
           NEW b \in BookingId \ late', booking'[b] # Null,
           booking'[b].status = "confirmed", booking'[b].endsAt > now'
    PROVE  /\ booking[b] \in Row /\ booking[b].endsAt > now
           /\ booking'[b].spot = booking[b].spot /\ booking'[b].slots = booking[b].slots
           /\ booking'[b].endsAt = booking[b].endsAt
           /\ b \notin late
           /\ booking[b].status = "confirmed" \/ (~Misfit(b) /\ UNCHANGED <<mirror, apply>>)
<1>1. booking[b] # Null
  <2> SUFFICES ASSUME booking[b] = Null
               PROVE  FALSE
    OBVIOUS
  <2>1. PICK p \in Handler : Insert(p) /\ tx[p].id = b
    BY RowsAppear
  <2>2. booking'[b] = tx[p].row
    BY <2>1 DEF Insert, TypeOK
  <2> QED BY <2>1, <2>2 DEF Insert, RowsEnd, Proc
<1>2. /\ booking[b] \in Row
      /\ booking'[b].spot = booking[b].spot /\ booking'[b].slots = booking[b].slots
      /\ booking'[b].endsAt = booking[b].endsAt
    BY <1>1, RowsStay DEF TypeOK
<1>3. booking[b].endsAt > now
    BY <1>2, TimePasses DEF Row
<1>4. late \subseteq late'
    BY DEF Next, HandlerNext, WorkerNext, SweeperNext, TransactionNext, ProjectorNext, vars,
           Reserve, CheckAvailability, Insert, Authorize, DeliverPayment, SweepScan, LockLapsed,
           LockRow, CommitRow, Abort, ApplySpotEvent, LockUpcoming, CommitSpotEvent,
           AbortSpotEvent, Pay, Tick
<1>5. booking[b].status = "confirmed" \/ (~Misfit(b) /\ UNCHANGED <<mirror, apply>>)
  <2> SUFFICES ASSUME booking[b].status # "confirmed"
               PROVE  ~Misfit(b) /\ UNCHANGED <<mirror, apply>>
    OBVIOUS
  <2>1. ASSUME NEW op \in Op, NEW v \in Nat, Applies(op, booking[b]),
               booking'[b] = Transitioned(op, booking[b], v)
        PROVE  op = "confirm"
    BY <1>2, <2>1, TransitionedStatus DEF Applies, From, To, Op
  <2>2. booking[b].version + 1 \in Nat
    BY <1>2 DEF Row
  <2>3. late' = IF Misfit(b) THEN late \cup {b} ELSE late
    BY <1>1, <2>1, <2>2, RowMoves
  <2>4. ~Misfit(b)
    BY <2>3
  <2>5. \A s \in SpotId : ~CommitSpotEvent(s)
    <3> SUFFICES ASSUME NEW s \in SpotId, CommitSpotEvent(s)
                 PROVE  FALSE
      OBVIOUS
    <3>1. "withdraw" \in Op
      BY DEF Op
    <3> QED BY <2>1, <2>2, <3>1, CommitSpotEventEffect
  <2>6. booking' # booking
    OBVIOUS
  <2>7. UNCHANGED <<mirror, apply>>
    BY <2>5, <2>6
    DEF Next, HandlerNext, WorkerNext, SweeperNext, TransactionNext, ProjectorNext, vars,
        Reserve, CheckAvailability, Insert, Authorize, DeliverPayment, SweepScan, LockLapsed,
        LockRow, CommitRow, Abort, ApplySpotEvent, LockUpcoming, AbortSpotEvent, Pay, Tick
  <2> QED BY <2>4, <2>7
<1> QED BY <1>1, <1>2, <1>3, <1>4, <1>5

\* What a spot edit leaves of the mirror, for the bookings that were not on its list.
LEMMA MergedFits ==
    ASSUME TypeOK, TargetsExist, MirrorsExist, NEW s \in SpotId, CommitSpotEvent(s),
           NEW row \in Row, mirror[s] # Null, ~mirror[s].deleted, fits(mirror[s].open, row),
           apply[s].event.kind # "deleted",
           apply[s].event.kind = "updated" /\ apply[s].event.open # Null
             => fits(apply[s].event.open, row)
    PROVE  ~mirror'[s].deleted /\ fits(mirror'[s].open, row)
<1> DEFINE e == apply[s].event
           open == IF e.open = Null THEN mirror[s].open ELSE e.open
           active == IF e.active = Null THEN mirror[s].active ELSE e.active
           v == mirror[s].version + 1
<1>1. e \in SpotEvent /\ apply[s].pc = "applying"
    BY ApplyCases DEF CommitSpotEvent, TypeOK, Applying
<1>2. e.kind = "updated"
    BY <1>1 DEF MirrorsExist, SpotEvent
<1>3. mirror'[s] = [mirror[s] EXCEPT !.open = open, !.active = active, !.version = v]
    BY <1>2 DEF CommitSpotEvent, Merged, TypeOK
<1>4. mirror[s] \in MirrorRow
    BY DEF TypeOK
<1>5. fits(open, row)
    BY <1>2
<1> HIDE DEF open, active, v
<1>6. mirror'[s].deleted = mirror[s].deleted /\ mirror'[s].open = open
    BY <1>3, <1>4 DEF MirrorRow
<1> QED BY <1>5, <1>6

LEMMA ConfirmedNotMisfitStep ==
    ASSUME TypeOK, TargetsExist, FreshIds, RowsEnd, VersionsMinted, MirrorsExist,
           ConfirmedNotMisfit, [Next]_vars
    PROVE  ConfirmedNotMisfit'
<1> SUFFICES ASSUME NEW b \in BookingId \ late', booking'[b] # Null,
                    booking'[b].status = "confirmed", booking'[b].endsAt > now'
             PROVE  ~Misfit(b)'
    BY DEF ConfirmedNotMisfit
<1> DEFINE s == booking[b].spot
           Bad(t) == \/ t.event.kind = "deleted"
                     \/ /\ t.event.kind = "updated" /\ t.event.open # Null
                        /\ ~fits(t.event.open, booking[b])
<1>1. /\ booking[b] \in Row /\ booking[b].endsAt > now
      /\ booking'[b].spot = s /\ booking'[b].slots = booking[b].slots
      /\ booking'[b].endsAt = booking[b].endsAt
      /\ b \notin late
      /\ booking[b].status = "confirmed" \/ (~Misfit(b) /\ UNCHANGED <<mirror, apply>>)
    BY ConfirmedOrigin
<1>2. ~Misfit(b)
    BY <1>1, NullAssumption DEF ConfirmedNotMisfit
<1>3. s \in SpotId /\ mirror[s] # Null
    BY <1>1, NullAssumption DEF MirrorsExist, Row
<1>4. \A open : fits(open, booking'[b]) = fits(open, booking[b])
    BY <1>1 DEF fits
<1>5. /\ ~mirror[s].deleted /\ fits(mirror[s].open, booking[b])
      /\ apply[s].pc = "applying" /\ b \notin apply[s].todo \cup apply[s].locked => ~Bad(apply[s])
    BY <1>2 DEF Misfit
<1>6. ~mirror'[s].deleted /\ fits(mirror'[s].open, booking[b])
  <2>1. CASE mirror'[s] = mirror[s]
    BY <1>5, <2>1
  <2>2. CASE CommitSpotEvent(s)
    <3>1. apply[s].pc = "applying" /\ apply[s].todo = {}
      BY <2>2 DEF CommitSpotEvent
    <3>2. b \notin apply[s].locked
      <4> SUFFICES ASSUME b \in apply[s].locked
                   PROVE  FALSE
        OBVIOUS
      <4>1. booking[b].status = "confirmed" \/ UNCHANGED apply
        BY <1>1
      <4>2. apply'[s] # apply[s]
        BY <1>3, <2>2, <3>1 DEF CommitSpotEvent, TypeOK, IdleApply
      <4>3. Applies("withdraw", booking[b])
        BY <4>1, <4>2 DEF Applies, From
      <4>4. booking'[b] = Transitioned("withdraw", booking[b], booking[b].version + 1)
        BY <2>2, <4>3 DEF CommitSpotEvent, next_version
      <4>5. "withdraw" \in Op /\ booking[b].version + 1 \in Nat
        BY <1>1 DEF Op, Row
      <4>6. booking'[b].status = "cancelled"
        BY <1>1, <4>3, <4>4, <4>5, TransitionedStatus DEF To
      <4> QED BY <4>6
    <3>3. ~Bad(apply[s])
      BY <1>5, <3>1, <3>2
    <3> QED BY <1>1, <1>3, <1>5, <2>2, <3>3, MergedFits
  <2> QED BY <1>3, <2>1, <2>2, MirrorWriter
<1>7. ASSUME apply'[s].pc = "applying", b \notin apply'[s].todo \cup apply'[s].locked
      PROVE  ~Bad(apply'[s])
  <2>1. CASE /\ apply[s].pc = "applying" /\ apply'[s].event = apply[s].event
             /\ ~CommitSpotEvent(s)
    <3>1. apply'[s].todo \cup apply'[s].locked = apply[s].todo \cup apply[s].locked
      BY <1>3, <1>7, <2>1, ApplyingOrigin DEF SpotLocked
    <3> QED BY <1>5, <1>7, <2>1, <3>1
  <2>2. CASE /\ UNCHANGED <<mirror, booking, now, late>>
             /\ apply[s].pc # "applying"
             /\ apply'[s].event \in NextSpotEvent(s)
             /\ \E at \in Time :
                    at <= now /\ apply'[s].todo = Withdrawn(s, apply'[s].event, at)
    <3>1. PICK at \in Time : at <= now /\ apply'[s].todo = Withdrawn(s, apply'[s].event, at)
      BY <2>2
    <3>2. booking[b].status = "confirmed"
      BY <2>2
    <3>3. at \in Nat /\ now \in Nat /\ booking[b].endsAt \in Nat
      BY <1>1, ConstantsAssumption DEF TypeOK, Time, Row
    <3>4. b \in upcoming_confirmed(s, at)
      BY <1>1, <3>1, <3>2, <3>3, NullAssumption DEF upcoming_confirmed
    <3>5. Bad(apply'[s]) => b \in Withdrawn(s, apply'[s].event, at)
      BY <3>4 DEF Withdrawn
    <3> QED BY <1>7, <3>1, <3>5
  <2> QED BY <1>3, <1>7, <2>1, <2>2, EventOrigin
<1> QED BY <1>1, <1>4, <1>6, <1>7 DEF Misfit

LEMMA InitSettleInv == Init => SettleInv
BY DEF Init, IdleTx, IdleApply, SettleInv, MirrorsExist, HoldsSpot, ReservedUnrated,
       ConfirmedNotMisfit

LEMMA NextSettleInv == IInv /\ SettleInv /\ [Next]_vars => SettleInv'
BY MirrorsExistStep, ReservedUnratedStep, ConfirmedNotMisfitStep DEF IInv, SettleInv

(***************************************************************************)
(* On top of IInv: rows are for spots that exist, only confirmed bookings  *)
(* are rated, and no edit in progress has missed a booking it must         *)
(* withdraw.                                                               *)
(***************************************************************************)
THEOREM SettleInvariance == Spec => []SettleInv
BY InitSettleInv, NextSettleInv, Invariance, PTL DEF Spec

(***************************************************************************)
(* A paid booking still to come fits the hours its spot offers, unless it  *)
(* was confirmed after the withdrawal had looked -- the one gap            *)
(* SpotProjector::react documents.                                         *)
(***************************************************************************)
THEOREM ConfirmedFitsSpotHolds == Spec => []ConfirmedFitsSpot
<1>1. SettleInv => ConfirmedFitsSpot
    BY DEF SettleInv, ConfirmedNotMisfit, ConfirmedFitsSpot, Misfit
<1> QED BY <1>1, SettleInvariance, PTL

-----------------------------------------------------------------------------
(* The refinement *)

\* What a consumer takes a row for.
StateOf(row) ==
    IF row = Null THEN "none"
    ELSE IF row.status = "confirmed" /\ row.rated THEN "rated"
    ELSE row.status

\* The events of b, without their versions.
KindsOf(log) == [i \in 1..Len(log) |-> log[i].kind]

\* A guarded transition takes a row along one edge of the lifecycle.
LEMMA TransitionEdge ==
    ASSUME NEW op \in Op, NEW row \in Row, NEW v \in Nat, Applies(op, row),
           row.status = "reserved" => ~row.rated
    PROVE  <<StateOf(row), KindOf(op), StateOf(Transitioned(op, row, v))>> \in Lifecycle!Edges
<1>1. row # Null /\ Transitioned(op, row, v) # Null
    BY TransitionedRow, NullAssumption
<1>2. /\ Transitioned(op, row, v).status = IF op = "rate" THEN "confirmed" ELSE To(op)
      /\ Transitioned(op, row, v).rated = (row.rated \/ op = "rate")
    BY TransitionedStatus
<1>3. row.status = From(op) /\ (op = "rate" => ~row.rated) /\ row.rated \in BOOLEAN
    BY DEF Applies, Row
<1> DEFINE next == Transitioned(op, row, v)
<1> HIDE DEF next
<1>4. StateOf(row) = IF row.status = "confirmed" /\ row.rated THEN "rated" ELSE row.status
    BY <1>1 DEF StateOf
<1>5. StateOf(next) = IF next.status = "confirmed" /\ next.rated THEN "rated" ELSE next.status
    BY <1>1 DEF StateOf, next
<1>6. /\ next.status = IF op = "rate" THEN "confirmed" ELSE To(op)
      /\ next.rated = (row.rated \/ op = "rate")
    BY <1>2 DEF next
<1>7. CASE op \in {"release", "expire", "confirm"}
  <2>1. StateOf(row) = "reserved" /\ ~row.rated
    BY <1>3, <1>4, <1>7 DEF From
  <2>2. StateOf(next) = To(op)
    BY <1>5, <1>6, <1>7, <2>1
  <2> QED BY <1>7, <2>1, <2>2 DEF KindOf, To, Lifecycle!Edges, next
<1>8. CASE op \in {"cancel", "withdraw"}
  <2>1. StateOf(row) \in {"confirmed", "rated"}
    BY <1>3, <1>4, <1>8 DEF From
  <2>2. StateOf(next) = "cancelled"
    BY <1>5, <1>6, <1>8 DEF To
  <2> QED BY <1>8, <2>1, <2>2 DEF KindOf, Lifecycle!Edges, next
<1>9. CASE op = "rate"
  <2>1. StateOf(row) = "confirmed"
    BY <1>3, <1>4, <1>9 DEF From
  <2>2. StateOf(next) = "rated"
    BY <1>5, <1>6, <1>9
  <2> QED BY <1>9, <2>1, <2>2 DEF KindOf, Lifecycle!Edges, next
<1> QED BY <1>7, <1>8, <1>9 DEF Op

\* Every booking stays, or moves along an edge and publishes that edge's event.
LEMMA BookingMoves ==
    ASSUME TypeOK, TargetsExist, FreshIds, RowsEnd, VersionsMinted, ReservedUnrated, [Next]_vars,
           NEW b \in BookingId
    PROVE  \/ booking'[b] = booking[b] /\ outbox'[b] = outbox[b]
           \/ \E edge \in Lifecycle!Edges, e \in Envelope :
                /\ StateOf(booking[b]) = edge[1]
                /\ StateOf(booking'[b]) = edge[3]
                /\ e.kind = edge[2]
                /\ outbox'[b] = Append(outbox[b], e)
<1>1. ASSUME booking[b] = Null, NEW p \in Proc, tx[p].pc = "inserting", booking'[b] = tx[p].row,
             outbox'[b] = Append(outbox[b], [version |-> 1, kind |-> "created"])
      PROVE  \E edge \in Lifecycle!Edges, e \in Envelope :
                /\ StateOf(booking[b]) = edge[1]
                /\ StateOf(booking'[b]) = edge[3]
                /\ e.kind = edge[2]
                /\ outbox'[b] = Append(outbox[b], e)
  <2> DEFINE edge == <<"none", "created", "reserved">>
             e == [version |-> 1, kind |-> "created"]
  <2>1. edge \in Lifecycle!Edges /\ e \in Envelope /\ e.kind = edge[2]
    BY DEF Lifecycle!Edges, Envelope, EventKind
  <2>2. tx[p].row \in Row /\ tx[p].row.status = "reserved"
    BY <1>1, TxCases DEF TypeOK, RowsEnd, InsertingTx
  <2>3. StateOf(booking[b]) = edge[1] /\ StateOf(booking'[b]) = edge[3]
    BY <1>1, <2>2, NullAssumption DEF StateOf
  <2> HIDE DEF edge
  <2> QED BY <1>1, <2>1, <2>3
<1>2. ASSUME booking[b] \in Row, NEW op \in Op, NEW v \in Nat, Applies(op, booking[b]),
             booking'[b] = Transitioned(op, booking[b], v),
             outbox'[b] = Append(outbox[b], [version |-> v, kind |-> KindOf(op)])
      PROVE  \E edge \in Lifecycle!Edges, e \in Envelope :
                /\ StateOf(booking[b]) = edge[1]
                /\ StateOf(booking'[b]) = edge[3]
                /\ e.kind = edge[2]
                /\ outbox'[b] = Append(outbox[b], e)
  <2> DEFINE edge == <<StateOf(booking[b]), KindOf(op), StateOf(Transitioned(op, booking[b], v))>>
             e == [version |-> v, kind |-> KindOf(op)]
  <2>1. booking[b].status = "reserved" => ~booking[b].rated
    BY <1>2, NullAssumption DEF ReservedUnrated
  <2>2. edge \in Lifecycle!Edges
    BY <1>2, <2>1, TransitionEdge
  <2>3. KindOf(op) \in EventKind
    BY DEF KindOf, Op, EventKind
  <2>4. e \in Envelope /\ e.kind = edge[2]
    BY <2>3 DEF Envelope
  <2>5. StateOf(booking[b]) = edge[1] /\ StateOf(booking'[b]) = edge[3]
    BY <1>2
  <2> HIDE DEF edge, e
  <2>6. outbox'[b] = Append(outbox[b], e)
    BY <1>2 DEF e
  <2> QED BY <2>2, <2>4, <2>5, <2>6
<1>3. booking[b] \in Row => booking[b].version + 1 \in Nat
    BY DEF Row
<1> QED BY <1>1, <1>2, <1>3, RowMoves

\* Publishing an event appends its kind to the history.
LEMMA KindsAppend ==
    ASSUME NEW log \in Seq(Envelope), NEW e \in Envelope
    PROVE  KindsOf(Append(log, e)) = Append(KindsOf(log), e.kind)
<1> DEFINE kinds == KindsOf(log)
           next == KindsOf(Append(log, e))
           n == Len(log)
<1>0. \A x \in Envelope : x.kind \in EventKind
    BY DEF Envelope
<1>1. n \in Nat /\ \A i \in 1..n : log[i] \in Envelope /\ log[i].kind \in EventKind
    BY <1>0
<1>2. e.kind \in EventKind
    BY <1>0
<1>3. kinds \in Seq(EventKind) /\ Len(kinds) = n /\ \A i \in 1..n : kinds[i] = log[i].kind
  <2>1. kinds \in [1..n -> EventKind]
    BY <1>1 DEF KindsOf
  <2> QED BY <1>1, <2>1 DEF KindsOf
<1>4. /\ Append(log, e) \in Seq(Envelope) /\ Len(Append(log, e)) = n + 1
      /\ \A i \in 1..n : Append(log, e)[i] = log[i]
      /\ Append(log, e)[n + 1] = e
    OBVIOUS
<1>5. /\ next \in Seq(EventKind) /\ Len(next) = n + 1
      /\ \A i \in 1..n + 1 : next[i] = Append(log, e)[i].kind
  <2>1. next \in [1..n + 1 -> EventKind]
    BY <1>0, <1>1, <1>2, <1>4 DEF KindsOf
  <2> QED BY <1>1, <1>4, <2>1 DEF KindsOf
<1> HIDE DEF kinds, next, n
<1>6. \A i \in 1..n + 1 : next[i] = Append(kinds, e.kind)[i]
    BY <1>1, <1>2, <1>3, <1>4, <1>5
<1>7. Append(kinds, e.kind) \in Seq(EventKind) /\ Len(Append(kinds, e.kind)) = n + 1
    BY <1>2, <1>3
<1>8. next = Append(kinds, e.kind)
    BY <1>1, <1>5, <1>6, <1>7
<1> QED BY <1>8 DEF kinds, next

\* What the abstract specification sees of the tables.
States == [b \in BookingId |-> LifecycleState(b)]
History == [b \in BookingId |-> [i \in 1..Len(outbox[b]) |-> outbox[b][i].kind]]

LEMMA MappedRow ==
    ASSUME NEW b \in BookingId
    PROVE  /\ States[b] = StateOf(booking[b]) /\ States'[b] = StateOf(booking'[b])
           /\ History[b] = KindsOf(outbox[b]) /\ History'[b] = KindsOf(outbox'[b])
BY DEF States, History, StateOf, LifecycleState, KindsOf

\* One transaction moves the bookings it moves together.
LEMMA StepRefines ==
    ASSUME IInv, IInv', SettleInv, [Next]_vars
    PROVE  [Lifecycle!Next]_(Lifecycle!vars)
<1> USE DEF IInv
<1> DEFINE Moves(b, edge) ==
             \E e \in Envelope :
                /\ StateOf(booking[b]) = edge[1]
                /\ StateOf(booking'[b]) = edge[3]
                /\ e.kind = edge[2]
                /\ outbox'[b] = Append(outbox[b], e)
           bs == {b \in BookingId : ~(booking'[b] = booking[b] /\ outbox'[b] = outbox[b])}
           edge == [b \in bs |-> CHOOSE x \in Lifecycle!Edges : Moves(b, x)]
<1>1. \A b \in bs : \E x \in Lifecycle!Edges : Moves(b, x)
    BY BookingMoves DEF SettleInv
<1>2. edge \in [bs -> Lifecycle!Edges] /\ \A b \in bs : Moves(b, edge[b])
    BY <1>1
<1> HIDE DEF edge
<1>3. ASSUME NEW b \in bs
      PROVE  /\ States[b] = edge[b][1] /\ States'[b] = edge[b][3]
             /\ History'[b] = Append(History[b], edge[b][2])
  <2>1. PICK e \in Envelope : /\ StateOf(booking[b]) = edge[b][1]
                              /\ StateOf(booking'[b]) = edge[b][3]
                              /\ e.kind = edge[b][2]
                              /\ outbox'[b] = Append(outbox[b], e)
    BY <1>2
  <2>2. outbox[b] \in Seq(Envelope) /\ b \in BookingId
    BY DEF TypeOK
  <2>3. KindsOf(outbox'[b]) = Append(KindsOf(outbox[b]), edge[b][2])
    BY <2>1, <2>2, KindsAppend
  <2> QED BY <2>1, <2>2, <2>3, MappedRow
<1>4. ASSUME NEW b \in BookingId \ bs
      PROVE  States'[b] = States[b] /\ History'[b] = History[b]
    BY <1>4, MappedRow
<1> HIDE DEF bs
<1>5. CASE bs = {}
  <2>1. States' = States /\ History' = History
    BY <1>4, <1>5 DEF States, History
  <2> QED BY <2>1 DEF Lifecycle!vars, States, History
<1>6. CASE bs # {}
  <2>1. /\ bs \in SUBSET BookingId
        /\ \A b \in bs : States[b] = edge[b][1]
        /\ States' = [b \in BookingId |-> IF b \in bs THEN edge[b][3] ELSE States[b]]
        /\ History' = [b \in BookingId |-> IF b \in bs THEN Append(History[b], edge[b][2])
                                           ELSE History[b]]
    <3>1. bs \in SUBSET BookingId
      BY DEF bs
    <3>2. States' = [b \in BookingId |-> States'[b]] /\ History' = [b \in BookingId |-> History'[b]]
      BY DEF States, History
    <3> QED BY <1>3, <1>4, <3>1, <3>2
  <2>2. \E xs \in SUBSET BookingId : \E x \in [xs -> Lifecycle!Edges] :
            /\ xs # {}
            /\ \A b \in xs : States[b] = x[b][1]
            /\ States' = [b \in BookingId |-> IF b \in xs THEN x[b][3] ELSE States[b]]
            /\ History' = [b \in BookingId |-> IF b \in xs THEN Append(History[b], x[b][2])
                                               ELSE History[b]]
    BY ONLY <1>2, <1>6, <2>1, Zenon
  <2>3. Lifecycle!Move
    BY ONLY <2>2, Zenon DEF Lifecycle!Move, States, History
  <2> QED BY <2>3 DEF Lifecycle!Next
<1> QED BY <1>5, <1>6

(***************************************************************************)
(* Requests, the sweeper, the payment worker and the SPOTS projector, with *)
(* their stale reads, their locks and their rollbacks, together move rows  *)
(* and publish events only along the edges of the lifecycle, and never one *)
(* without the other.                                                      *)
(***************************************************************************)
THEOREM ImplementsLifecycleHolds == Spec => ImplementsLifecycle
<1>1. Init => Lifecycle!Init
  <2> SUFFICES ASSUME Init
               PROVE  Lifecycle!Init
    OBVIOUS
  <2>1. \A b \in BookingId : LifecycleState(b) = "none"
    BY DEF Init, LifecycleState
  <2>2. \A b \in BookingId : [i \in 1..Len(outbox[b]) |-> outbox[b][i].kind] = << >>
    BY DEF Init
  <2> QED BY <2>1, <2>2 DEF Lifecycle!Init
<1>2. IInv /\ IInv' /\ SettleInv /\ [Next]_vars => [Lifecycle!Next]_(Lifecycle!vars)
    BY StepRefines
<1> QED BY <1>1, <1>2, Invariance, SettleInvariance, PTL DEF Spec, ImplementsLifecycle, Lifecycle!Spec
=============================================================================
