--------------------------- MODULE BookingService ---------------------------
(***************************************************************************)
(* booking-service: the `booking` table, its mirror of the `spot` table    *)
(* and the transactional outbox, with everything that writes them running  *)
(* concurrently -- request handlers, the hold sweeper, the payment worker  *)
(* and the SPOTS projector, each with as many replicas as the constants    *)
(* give it.                                                                *)
(*                                                                         *)
(* Transactions run at Read Committed and are modelled at the granularity  *)
(* of the locks they take: one action up to and including the statement    *)
(* that takes a row lock, one for the rest up to COMMIT. Reads made        *)
(* outside the transaction are actions of their own, so what they saw may  *)
(* be stale by the time the lock is granted. A transaction's writes appear *)
(* at COMMIT. A row is locked exactly while some transaction's state says  *)
(* it holds it (RowLocked, SpotLocked).                                    *)
(***************************************************************************)
EXTENDS Integers, Sequences, FiniteSets

CONSTANTS
    SpotId, BookingId, Person,
    Handler,        \* concurrent HTTP requests
    Sweeper,        \* replicas of sweeper::run
    Worker,         \* replicas of worker::PaymentWorker
    HostOf,         \* HostOf[s]: the host who lists spot s
    MaxSlot,        \* slot k is the time interval [k, k+1), k \in 0..MaxSlot
    DayLen,         \* slots per calendar day
    HOLD,           \* how long a hold lasts
    CUTOFF,         \* how long before its start a booking can be cancelled
    MAX_PER_SWEEP,
    MaxTime,        \* bound: the clock stops here
    MaxSpotVersion, \* bound: spot edits projected, per spot
    Null

Slot == 0..MaxSlot
Time == 0..MaxTime
Proc == Handler \cup Sweeper \cup Worker

ASSUME ConstantsAssumption ==
    /\ MaxSlot \in Nat /\ MaxTime \in Nat /\ MaxSpotVersion \in Nat
    /\ DayLen \in Nat \ {0} /\ HOLD \in Nat \ {0} /\ CUTOFF \in Nat
    /\ MAX_PER_SWEEP \in Nat \ {0}
    /\ HostOf \in [SpotId -> Person]

ASSUME ProcAssumption ==
    /\ Handler \cap Sweeper = {}
    /\ Handler \cap Worker = {}
    /\ Sweeper \cap Worker = {}

VARIABLES
    now,      \* the wall clock every process reads
    mirror,   \* mirror[s]: the spot mirror row, Null until SpotCreated is applied
    booking,  \* booking[b]: the booking row, Null until it is created
    outbox,   \* outbox[b]: the envelopes enqueued for b, in commit order
    paid,     \* bookings for which PaymentEvent::Succeeded is on the stream
    tx,       \* tx[p]: where process p is in its request or transaction
    lapsed,   \* lapsed[w]: what is left of sweeper w's lapsed_holds result
    apply,    \* apply[s]: the SPOTS projector's transaction on spot s
    told,     \* told[b]: highest version a client was told to wait for
    late      \* history: bookings confirmed after a withdrawal they do not fit

vars == <<now, mirror, booking, outbox, paid, tx, lapsed, apply, told, late>>

-----------------------------------------------------------------------------
(* Rows, events and the states of a transaction *)

NoHold == -1   \* hold_until IS NULL

Status == {"reserved", "confirmed", "released", "cancelled"}
Reason == {"none", "abandoned", "expired", "by_renter", "spot_unavailable"}

Row == [status : Status, spot : SpotId, renter : Person, slots : SUBSET Slot,
        holdUntil : Int, endsAt : Nat, reason : Reason, rated : BOOLEAN,
        version : Nat]

MirrorRow == [open : SUBSET Slot, active : BOOLEAN, deleted : BOOLEAN, version : Nat]

\* Absent fields of a SpotUpdated are Null: "leave alone".
SpotEvent ==
    [kind : {"created"}, open : SUBSET Slot] \cup
    [kind : {"updated"}, open : (SUBSET Slot) \cup {Null}, active : BOOLEAN \cup {Null}] \cup
    [kind : {"deleted"}]

Op == {"release", "cancel", "rate", "expire", "confirm", "withdraw"}
EventKind == {"created", "confirmed", "abandoned", "expired",
              "by_renter", "spot_unavailable", "rated"}
Envelope == [version : Nat, kind : EventKind]

IdleTx == [pc |-> "idle"]
\* create_booking, holding the spot row FOR UPDATE
ReservingTx == [pc : {"reserving"}, id : BookingId, spot : SpotId, renter : Person, slots : SUBSET Slot]
\* the same, past availability::check
InsertingTx == [pc : {"inserting"}, id : BookingId, row : Row]
\* past the reads a handler or the worker makes before its transaction
AuthorizedTx == [pc : {"authorized"}, id : BookingId, op : Op]
\* holding the booking row; `version` is what next_version! returned
LockedRowTx == [pc : {"locked"}, id : BookingId, op : Op, version : Nat]
Tx == {IdleTx} \cup ReservingTx \cup InsertingTx \cup AuthorizedTx \cup LockedRowTx

IdleApply == [pc |-> "idle"]
\* the SPOTS projector, with the mirror row locked: bookings to withdraw, and withdrawn
Applying ==
    [pc : {"applying"}, event : SpotEvent, todo : SUBSET BookingId, locked : SUBSET BookingId]
Apply == {IdleApply} \cup Applying

ASSUME NullAssumption == Null \notin Row \cup MirrorRow

TypeOK ==
    /\ now \in Time
    /\ mirror \in [SpotId -> MirrorRow \cup {Null}]
    /\ booking \in [BookingId -> Row \cup {Null}]
    /\ outbox \in [BookingId -> Seq(Envelope)]
    /\ paid \subseteq BookingId
    /\ tx \in [Proc -> Tx]
    /\ lapsed \in [Sweeper -> SUBSET BookingId]
    /\ apply \in [SpotId -> Apply]
    /\ told \in [BookingId -> Nat]
    /\ late \subseteq BookingId

-----------------------------------------------------------------------------
(* What the row locks exclude *)

\* Mutant of RowLocked: transition's transactions take no row lock.
RowLockedByProjector(b) ==
    \E s \in SpotId : apply[s].pc = "applying" /\ b \in apply[s].locked

RowLocked(b) ==
    \/ \E p \in Proc : tx[p].pc = "locked" /\ tx[p].id = b
    \/ \E s \in SpotId : apply[s].pc = "applying" /\ b \in apply[s].locked

SpotOf(t) == IF t.pc = "reserving" THEN t.spot ELSE t.row.spot

HoldsSpot(p, s) ==
    /\ tx[p].pc \in {"reserving", "inserting"}
    /\ SpotOf(tx[p]) = s

\* Mutant of SpotLocked: create_booking reads the spot without FOR UPDATE.
SpotLockedByProjector(s) == apply[s].pc = "applying"

SpotLocked(s) ==
    \/ \E p \in Proc : HoldsSpot(p, s)
    \/ apply[s].pc = "applying"

-----------------------------------------------------------------------------
(* Schedules: a booking's slots on the timeline *)

starts_at(slots) == CHOOSE t \in slots : \A k \in slots : t <= k
ends_at(slots) == 1 + CHOOSE t \in slots : \A k \in slots : k <= t

in_time(slots) == now + CUTOFF <= starts_at(slots)

\* A calendar date is compared with today's date, not with the time of day.
not_in_the_past(slots) == \A k \in slots : k \div DayLen >= now \div DayLen

\* availability::check with the open hours and the slots that are already taken.
check(open, taken, slots) ==
    /\ slots # {}
    /\ slots \subseteq open
    /\ slots \cap taken = {}

fits(open, row) == check(open, {}, row.slots)

-----------------------------------------------------------------------------
(* The repository's range scans *)

Blocks(row) == row.status \notin {"released", "cancelled"}

taken_for_spot(s) ==
    UNION { booking[b].slots : b \in
        {c \in BookingId : /\ booking[c] # Null
                           /\ booking[c].spot = s
                           /\ booking[c].endsAt > now
                           /\ Blocks(booking[c])} }

lapsed_holds ==
    {b \in BookingId : /\ booking[b] # Null
                       /\ booking[b].status = "reserved"
                       /\ booking[b].holdUntil < now}

upcoming_confirmed(s, at) ==
    {b \in BookingId : /\ booking[b] # Null
                       /\ booking[b].spot = s
                       /\ booking[b].status = "confirmed"
                       /\ booking[b].endsAt > at}

-----------------------------------------------------------------------------
(* The guarded transitions *)

From(op) == IF op \in {"release", "expire", "confirm"} THEN "reserved" ELSE "confirmed"

KindOf(op) ==
    CASE op = "release"  -> "abandoned"
      [] op = "expire"   -> "expired"
      [] op = "confirm"  -> "confirmed"
      [] op = "cancel"   -> "by_renter"
      [] op = "withdraw" -> "spot_unavailable"
      [] op = "rate"     -> "rated"

To(op) ==
    CASE op \in {"release", "expire"}  -> "released"
      [] op = "confirm"                -> "confirmed"
      [] op \in {"cancel", "withdraw"} -> "cancelled"

\* Mutant of Applies: the status guard is lost.
AppliesUnguarded(op, row) == op = "rate" => ~row.rated

\* The WHERE clause of BookingRepository::transition and ::rate.
Applies(op, row) == row.status = From(op) /\ (op = "rate" => ~row.rated)

next_version(row) == row.version + 1

\* set_version!: UPDATE ... WHERE version < v
set_version(row, v) == IF row.version < v THEN v ELSE row.version

\* Mutant of Transitioned: the event's kind is stored as the reason, also on confirm.
TransitionedReasonAlways(op, row, v) ==
    IF op = "rate"
    THEN [row EXCEPT !.rated = TRUE, !.version = set_version(row, v)]
    ELSE [row EXCEPT !.status = To(op), !.holdUntil = NoHold, !.reason = KindOf(op),
                     !.version = set_version(row, v)]

\* The row after the guarded UPDATE matched and set_version! ran.
Transitioned(op, row, v) ==
    IF op = "rate"
    THEN [row EXCEPT !.rated = TRUE, !.version = set_version(row, v)]
    ELSE [row EXCEPT !.status = To(op),
                     !.holdUntil = NoHold,
                     !.reason = IF op = "confirm" THEN @ ELSE KindOf(op),
                     !.version = set_version(row, v)]

MaxOf(m, n) == IF m < n THEN n ELSE m

\* The hours a booking was confirmed against have been withdrawn: by an edit already
\* in the mirror, or by one whose upcoming_confirmed scan has run without seeing it.
Misfit(b) ==
    LET row == booking[b]
        t == apply[row.spot]
    IN \/ mirror[row.spot].deleted
       \/ ~fits(mirror[row.spot].open, row)
       \/ /\ t.pc = "applying"
          /\ b \notin t.todo \cup t.locked
          /\ \/ t.event.kind = "deleted"
             \/ t.event.kind = "updated" /\ t.event.open # Null /\ ~fits(t.event.open, row)

-----------------------------------------------------------------------------
Init ==
    /\ now = 0
    /\ mirror = [s \in SpotId |-> Null]
    /\ booking = [b \in BookingId |-> Null]
    /\ outbox = [b \in BookingId |-> << >>]
    /\ paid = {}
    /\ tx = [p \in Proc |-> IdleTx]
    /\ lapsed = [w \in Sweeper |-> {}]
    /\ apply = [s \in SpotId |-> IdleApply]
    /\ told = [b \in BookingId |-> 0]
    /\ late = {}

(***************************************************************************)
(* create_booking. `Reserve` takes the spot row FOR UPDATE -- the          *)
(* serialisation point -- and passes the checks on the locked row;         *)
(* `CheckAvailability` reads the taken slots on a snapshot newer than the  *)
(* lock; `Insert` writes the row and its event and commits. A refusal      *)
(* rolls back and leaves nothing, so one before the lock is no step. The   *)
(* early return for an id that already has a row is never taken: every     *)
(* call mints its own id.                                                  *)
(***************************************************************************)
Minted(b) == booking[b] # Null \/ \E p \in Proc : tx[p].pc \in {"reserving", "inserting"} /\ tx[p].id = b

Reserve(p, s, renter, slots, b) ==
    /\ tx[p].pc = "idle"
    /\ slots # {} /\ not_in_the_past(slots)
    /\ mirror[s] # Null
    /\ ~SpotLocked(s)
    /\ ~Minted(b)
    /\ mirror[s].active
    /\ HostOf[s] # renter
    /\ tx' = [tx EXCEPT ![p] = [pc |-> "reserving", id |-> b, spot |-> s,
                                renter |-> renter, slots |-> slots]]
    /\ UNCHANGED <<now, mirror, booking, outbox, paid, lapsed, apply, told, late>>

NewRow(t) ==
    [status |-> "reserved", spot |-> t.spot, renter |-> t.renter, slots |-> t.slots,
     holdUntil |-> now + HOLD, endsAt |-> ends_at(t.slots), reason |-> "none",
     rated |-> FALSE, version |-> 1]

CheckAvailability(p) ==
    LET t == tx[p] IN
    /\ t.pc = "reserving"
    /\ tx' = [tx EXCEPT ![p] =
                IF check(mirror[t.spot].open, taken_for_spot(t.spot), t.slots)
                THEN [pc |-> "inserting", id |-> t.id, row |-> NewRow(t)]
                ELSE IdleTx]
    /\ UNCHANGED <<now, mirror, booking, outbox, paid, lapsed, apply, told, late>>

Insert(p) ==
    LET t == tx[p] IN
    /\ t.pc = "inserting"
    /\ booking' = [booking EXCEPT ![t.id] = t.row]
    /\ outbox' = [outbox EXCEPT ![t.id] = Append(@, [version |-> 1, kind |-> "created"])]
    /\ told' = [told EXCEPT ![t.id] = MaxOf(@, 1)]
    /\ tx' = [tx EXCEPT ![p] = IdleTx]
    /\ UNCHANGED <<now, mirror, paid, lapsed, apply, late>>

(***************************************************************************)
(* release, cancel and rate: the renter's own booking, read and judged     *)
(* outside the transaction. A call by anyone else, or in another state, is *)
(* refused and is no step.                                                 *)
(***************************************************************************)
Authorize(p, b, op) ==
    /\ tx[p].pc = "idle"
    /\ op \in {"release", "cancel", "rate"}
    /\ booking[b] # Null
    /\ booking[b].status = From(op)
    /\ op = "cancel" => in_time(booking[b].slots)
    /\ op = "rate" => booking[b].endsAt <= now
    /\ tx' = [tx EXCEPT ![p] = [pc |-> "authorized", id |-> b, op |-> op]]
    /\ UNCHANGED <<now, mirror, booking, outbox, paid, lapsed, apply, told, late>>

(***************************************************************************)
(* PaymentEvent::Succeeded, delivered at least once: any number of times,  *)
(* to any replica, in any state of the booking. A booking that is not      *)
(* there yet is an error, a NAK and a later delivery.                      *)
(***************************************************************************)
DeliverPayment(w, b) ==
    /\ tx[w].pc = "idle"
    /\ b \in paid
    /\ booking[b] # Null
    /\ tx' = [tx EXCEPT ![w] = [pc |-> "authorized", id |-> b, op |-> "confirm"]]
    /\ UNCHANGED <<now, mirror, booking, outbox, paid, lapsed, apply, told, late>>

\* A renter completes checkout; nothing stops the money arriving after the hold lapsed.
Pay(b) ==
    /\ booking[b] # Null
    /\ b \notin paid
    /\ paid' = paid \cup {b}
    /\ UNCHANGED <<now, mirror, booking, outbox, tx, lapsed, apply, told, late>>

\* Mutant of SweepSize: an off-by-one in the LIMIT.
SweepSizeOffByOne ==
    IF Cardinality(lapsed_holds) < MAX_PER_SWEEP
    THEN Cardinality(lapsed_holds) ELSE MAX_PER_SWEEP - 1

\* LIMIT MAX_PER_SWEEP
SweepSize ==
    IF Cardinality(lapsed_holds) < MAX_PER_SWEEP
    THEN Cardinality(lapsed_holds) ELSE MAX_PER_SWEEP

\* sweep: the lapsed holds, read before any of the transactions, at most MAX_PER_SWEEP.
SweepScan(w) ==
    /\ tx[w].pc = "idle"
    /\ lapsed[w] = {}
    /\ \E found \in SUBSET lapsed_holds :
        /\ found # {}
        /\ Cardinality(found) = SweepSize
        /\ lapsed' = [lapsed EXCEPT ![w] = found]
    /\ UNCHANGED <<now, mirror, booking, outbox, paid, tx, apply, told, late>>

-----------------------------------------------------------------------------
(* The transition transaction: next_version!'s FOR UPDATE, then the rest *)

LockedTx(b, op) ==
    [pc |-> "locked", id |-> b, op |-> op, version |-> next_version(booking[b])]

\* rate's guarded UPDATE is what locks the row, and 409s at once when it matches nothing.
LockRow(p) ==
    LET t == tx[p] IN
    /\ t.pc = "authorized"
    /\ ~RowLocked(t.id)
    /\ tx' = [tx EXCEPT ![p] = IF t.op = "rate" /\ ~Applies(t.op, booking[t.id])
                               THEN IdleTx ELSE LockedTx(t.id, t.op)]
    /\ UNCHANGED <<now, mirror, booking, outbox, paid, lapsed, apply, told, late>>

\* The sweeper's transaction on one of the holds it read.
LockLapsed(w, b) ==
    /\ tx[w].pc = "idle"
    /\ b \in lapsed[w]
    /\ ~RowLocked(b)
    /\ lapsed' = [lapsed EXCEPT ![w] = @ \ {b}]
    /\ tx' = [tx EXCEPT ![w] = LockedTx(b, "expire")]
    /\ UNCHANGED <<now, mirror, booking, outbox, paid, apply, told, late>>

\* Mutant of Reported: the minted version is reported although nothing was written.
ReportedMinted(t) == t.version

\* The version the caller reports: the new one, or the stored one when nothing moved.
Reported(t) == IF Applies(t.op, booking[t.id]) THEN t.version ELSE t.version - 1

CommitRow(p) ==
    LET t == tx[p]
        row == booking[t.id]
    IN
    /\ t.pc = "locked"
    /\ IF Applies(t.op, row)
       THEN /\ booking' = [booking EXCEPT ![t.id] = Transitioned(t.op, row, t.version)]
            /\ outbox' = [outbox EXCEPT ![t.id] =
                            Append(@, [version |-> t.version, kind |-> KindOf(t.op)])]
            /\ late' = IF t.op = "confirm" /\ Misfit(t.id) THEN late \cup {t.id} ELSE late
       ELSE UNCHANGED <<booking, outbox, late>>
    /\ told' = IF p \in Handler THEN [told EXCEPT ![t.id] = MaxOf(@, Reported(t))] ELSE told
    /\ tx' = [tx EXCEPT ![p] = IdleTx]
    /\ UNCHANGED <<now, mirror, paid, lapsed, apply>>

\* A lost connection, a failed statement or a crash: the database rolls back. A
\* sweeper that survives goes on with the rest of its scan; one that died has none.
Abort(p) ==
    /\ tx[p].pc # "idle"
    /\ tx' = [tx EXCEPT ![p] = IdleTx]
    /\ \/ UNCHANGED lapsed
       \/ p \in Sweeper /\ lapsed' = [lapsed EXCEPT ![p] = {}]
    /\ UNCHANGED <<now, mirror, booking, outbox, paid, apply, told, late>>

-----------------------------------------------------------------------------
(***************************************************************************)
(* SpotProjector. The version gate takes the mirror row FOR UPDATE and     *)
(* admits exactly the next event of the spot; `react` then withdraws the   *)
(* bookings it read, one row lock at a time, and the mirror is merged, all *)
(* in one transaction. `at` is the event's own time, which may be long     *)
(* past when a projector catches up.                                       *)
(***************************************************************************)
\* Mutant of Withdrawn: a delete withdraws nothing.
WithdrawnNotOnDelete(s, e, at) ==
    IF e.kind = "updated" /\ e.open # Null
    THEN {b \in upcoming_confirmed(s, at) : ~fits(e.open, booking[b])}
    ELSE {}

Withdrawn(s, e, at) ==
    CASE e.kind = "created" -> {}
      [] e.kind = "updated" ->
            IF e.open = Null THEN {}
            ELSE {b \in upcoming_confirmed(s, at) : ~fits(e.open, booking[b])}
      [] e.kind = "deleted" -> upcoming_confirmed(s, at)

NextSpotEvent(s) ==
    IF mirror[s] = Null
    THEN {e \in SpotEvent : e.kind = "created"}
    ELSE {e \in SpotEvent : e.kind # "created" /\ mirror[s].version < MaxSpotVersion}

ApplySpotEvent(s, e, at) ==
    /\ e \in NextSpotEvent(s)
    /\ at <= now
    /\ ~SpotLocked(s)
    /\ apply' = [apply EXCEPT ![s] = [pc |-> "applying", event |-> e,
                                      todo |-> Withdrawn(s, e, at), locked |-> {}]]
    /\ UNCHANGED <<now, mirror, booking, outbox, paid, tx, lapsed, told, late>>

LockUpcoming(s, b) ==
    /\ apply[s].pc = "applying"
    /\ b \in apply[s].todo
    /\ ~RowLocked(b)
    /\ apply' = [apply EXCEPT ![s].todo = @ \ {b}, ![s].locked = @ \cup {b}]
    /\ UNCHANGED <<now, mirror, booking, outbox, paid, tx, lapsed, told, late>>

\* SpotMirrorRepository::merge: an absent field leaves its column alone.
Merged(s, e) ==
    CASE e.kind = "created" ->
            [open |-> e.open, active |-> TRUE, deleted |-> FALSE, version |-> 1]
      [] e.kind = "updated" ->
            [mirror[s] EXCEPT !.open = IF e.open = Null THEN @ ELSE e.open,
                              !.active = IF e.active = Null THEN @ ELSE e.active,
                              !.version = @ + 1]
      [] e.kind = "deleted" ->
            [mirror[s] EXCEPT !.active = FALSE, !.deleted = TRUE, !.version = @ + 1]

CommitSpotEvent(s) ==
    LET t == apply[s]
        cancelled == {b \in t.locked : Applies("withdraw", booking[b])}
    IN
    /\ t.pc = "applying"
    /\ t.todo = {}
    /\ booking' = [b \in BookingId |->
                    IF b \in cancelled
                    THEN Transitioned("withdraw", booking[b], next_version(booking[b]))
                    ELSE booking[b]]
    /\ outbox' = [b \in BookingId |->
                    IF b \in cancelled
                    THEN Append(outbox[b], [version |-> next_version(booking[b]),
                                            kind |-> "spot_unavailable"])
                    ELSE outbox[b]]
    /\ mirror' = [mirror EXCEPT ![s] = Merged(s, t.event)]
    /\ apply' = [apply EXCEPT ![s] = IdleApply]
    /\ UNCHANGED <<now, paid, tx, lapsed, told, late>>

\* Rolled back as a whole: the event is not acked and is delivered again.
AbortSpotEvent(s) ==
    /\ apply[s].pc = "applying"
    /\ apply' = [apply EXCEPT ![s] = IdleApply]
    /\ UNCHANGED <<now, mirror, booking, outbox, paid, tx, lapsed, told, late>>

Tick ==
    /\ now < MaxTime
    /\ now' = now + 1
    /\ UNCHANGED <<mirror, booking, outbox, paid, tx, lapsed, apply, told, late>>

-----------------------------------------------------------------------------
HandlerNext ==
    \E p \in Handler :
        \/ \E s \in SpotId, renter \in Person, slots \in SUBSET Slot, b \in BookingId :
                Reserve(p, s, renter, slots, b)
        \/ CheckAvailability(p)
        \/ Insert(p)
        \/ \E b \in BookingId, op \in Op : Authorize(p, b, op)

WorkerNext == \E w \in Worker, b \in BookingId : DeliverPayment(w, b)

SweeperNext ==
    \E w \in Sweeper : SweepScan(w) \/ \E b \in BookingId : LockLapsed(w, b)

TransactionNext == \E p \in Proc : LockRow(p) \/ CommitRow(p) \/ Abort(p)

ProjectorNext ==
    \E s \in SpotId :
        \/ \E e \in SpotEvent, at \in Time : ApplySpotEvent(s, e, at)
        \/ \E b \in BookingId : LockUpcoming(s, b)
        \/ CommitSpotEvent(s)
        \/ AbortSpotEvent(s)

Next ==
    \/ HandlerNext
    \/ WorkerNext
    \/ SweeperNext
    \/ TransactionNext
    \/ ProjectorNext
    \/ \E b \in BookingId : Pay(b)
    \/ Tick

Spec == Init /\ [][Next]_vars

(***************************************************************************)
(* The scheduling the code justifies: the sweeper ticks for ever and its   *)
(* loop swallows every error (so a scan and a transaction that stay        *)
(* possible are tried again, and not every attempt at one hold fails), an  *)
(* open transaction ends, and time passes. No request, payment or spot     *)
(* edit is ever owed.                                                      *)
(***************************************************************************)
TxEnds(p) == CommitRow(p) \/ Abort(p)

Fairness ==
    /\ WF_vars(Tick)
    /\ \A p \in Proc : WF_vars(TxEnds(p))
    /\ \A w \in Sweeper :
        /\ WF_vars(SweepScan(w))
        /\ \A b \in BookingId :
            /\ SF_vars(LockLapsed(w, b))
            /\ SF_vars(CommitRow(w) /\ tx[w].id = b)
    /\ \A s \in SpotId :
        WF_vars(CommitSpotEvent(s) \/ AbortSpotEvent(s) \/ \E b \in BookingId : LockUpcoming(s, b))

FairSpec == Spec /\ Fairness

-----------------------------------------------------------------------------
(* Properties *)

(***************************************************************************)
(* No slot that is still to come is held or booked twice. The rows are     *)
(* different and nothing in the schema makes them collide: only the order  *)
(* "lock the spot, then read what is taken" in create_booking, and the     *)
(* sweeper being the only thing that frees a lapsed hold, keep this true.  *)
(***************************************************************************)
NoDoubleBooking ==
    \A b, c \in BookingId :
        ( /\ b # c
          /\ booking[b] # Null /\ booking[c] # Null
          /\ booking[b].spot = booking[c].spot
          /\ Blocks(booking[b]) /\ Blocks(booking[c]) )
        => \A k \in booking[b].slots \cap booking[c].slots : k + 1 <= now

(***************************************************************************)
(* Every version a booking's row ever had is the version of exactly one    *)
(* enqueued event, in order and without a hole, whichever of the four      *)
(* writers moved the row: a hole parks the booking in every projector, a   *)
(* repeated version silently drops an event downstream.                    *)
(***************************************************************************)
VersionsGapless ==
    \A b \in BookingId :
        /\ Len(outbox[b]) = IF booking[b] = Null THEN 0 ELSE booking[b].version
        /\ \A i \in 1..Len(outbox[b]) : outbox[b][i].version = i

(***************************************************************************)
(* No client is told to wait for a version that no event carries, also     *)
(* when its write turned out to be a no-op: it would wait out the timeout  *)
(* on every later read.                                                    *)
(***************************************************************************)
ToldVersionsExist == \A b \in BookingId : told[b] <= Len(outbox[b])

(***************************************************************************)
(* A paid booking still to come fits the hours its spot offers, and the    *)
(* spot is not deleted. The one exception is the gap SpotProjector::react  *)
(* documents: a booking confirmed after the edit looked at what was        *)
(* confirmed.                                                              *)
(***************************************************************************)
ConfirmedFitsSpot ==
    \A b \in BookingId \ late :
        ( /\ booking[b] # Null
          /\ booking[b].status = "confirmed"
          /\ booking[b].endsAt > now )
        => LET m == mirror[booking[b].spot] IN ~m.deleted /\ fits(m.open, booking[b])

(***************************************************************************)
(* A hold that lapses does not block its slots for ever, although no       *)
(* reader of `booking` looks at hold_until: some sweeper releases it, or   *)
(* the renter or a payment settles it first.                               *)
(***************************************************************************)
LapsedHoldEnds ==
    \A b \in BookingId : (b \in lapsed_holds) ~> (b \notin lapsed_holds)

\* The consumers' view: what the row is, and the events published for it.
LifecycleState(b) ==
    IF booking[b] = Null THEN "none"
    ELSE IF booking[b].status = "confirmed" /\ booking[b].rated THEN "rated"
    ELSE booking[b].status

Lifecycle == INSTANCE BookingLifecycle WITH
    state <- [b \in BookingId |-> LifecycleState(b)],
    history <- [b \in BookingId |-> [i \in 1..Len(outbox[b]) |-> outbox[b][i].kind]]

(***************************************************************************)
(* booking-service implements the lifecycle its consumers replay: rows and *)
(* events move together, along its edges only, whatever races.             *)
(***************************************************************************)
ImplementsLifecycle == Lifecycle!Spec

(***************************************************************************)
(* What SpotMirror documents of `deleted`: "a delete also stops a hold     *)
(* taken *before* it from ever being confirmed".                           *)
(***************************************************************************)
DeletedSpotNeverConfirms ==
    [][\A b \in BookingId :
        ( /\ booking[b] # Null
          /\ booking[b].status = "reserved"
          /\ mirror[booking[b].spot].deleted )
        => booking'[b].status # "confirmed"]_vars
=============================================================================
