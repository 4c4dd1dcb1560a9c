------------------------------ MODULE Delivery ------------------------------
(***************************************************************************)
(* The bus crate, from a committed event to the row a read model shows:    *)
(* the transactional outbox and its relays, one JetStream stream with its  *)
(* duplicate window, the durable consumer every replica of a projecting    *)
(* service shares, and the version gate (`decide`) that replaced the       *)
(* transport's ordering.                                                   *)
(*                                                                         *)
(* Time is not modelled. A relay, a message or an apply may take any time, *)
(* so the waits of the code (IDLE, NAK_DELAY, ACK_WAIT) are the freedom to *)
(* take the next step late; Slow says whether a replica that has not  *)
(* died may outlast them.                                                  *)
(***************************************************************************)
EXTENDS Integers, Sequences, FiniteSets, SequencesExt

CONSTANTS
    Aggregate,
    Relay,              \* replicas of the owning service, each running outbox::run
    Replica,            \* replicas of the projecting service
    APPLY_CONCURRENCY,  \* applies in flight per replica
    MAX_ACK_PENDING,    \* the consumer's in-flight window
    MAX_GAP_WAIT,       \* deliveries a gap gets before it is applied anyway
    Slow,               \* TRUE: a live process may outlast ACK_WAIT and the gap budget
    MaxVersion,         \* bound: events per aggregate
    MaxStream,          \* bound: messages on the stream, duplicates included
    MaxFaults,          \* bound: crashes, lost acks and forgotten message ids
    Null

ASSUME DeliveryAssumption ==
    /\ APPLY_CONCURRENCY \in Nat \ {0}
    /\ MAX_ACK_PENDING \in Nat \ {0}
    /\ MAX_GAP_WAIT \in Nat \ {0}
    /\ Slow \in BOOLEAN
    /\ MaxVersion \in Nat /\ MaxStream \in Nat /\ MaxFaults \in Nat

Applier == Replica \X (1..APPLY_CONCURRENCY)
Msg == 1..MaxStream

\* An envelope's identity: its event id is one to one with aggregate and version.
Event == [agg : Aggregate, version : 1..MaxVersion]

VARIABLES
    log,        \* log[a]: version of the last event committed for a
    outbox,     \* the _outbox table, ordered by (created_at, id)
    batch,      \* batch[r]: what relay r has read and not sent yet
    sent,       \* sent[r]: the head of batch[r] is acked by the broker, not deleted
    stream,     \* the stream, in sequence order
    window,     \* events whose id is inside the stream's duplicate_window
    status,     \* status[i]: the consumer's state of message i
    delivered,  \* delivered[i]: how often message i was delivered, up to MAX_GAP_WAIT
    job,        \* job[p]: what applier p is doing
    down,       \* replicas whose lane has stopped
    row,        \* row[a]: the projected row
    gapped,     \* history: aggregates the escape hatch applied over a gap
    overwritten,\* history: aggregates whose newer row a late create replaced
    faults

relayVars == <<log, outbox, batch, sent>>
brokerVars == <<stream, window, status, delivered>>
projectionVars == <<row, gapped, overwritten>>
vars == <<log, outbox, batch, sent, stream, window, status, delivered, job, down,
          row, gapped, overwritten, faults>>

Idle == [pc |-> "idle"]
Decision == {"apply", "skip", "park"}
\* `pending`: the gate found no row, and so locked none.
Received == [pc : {"received"}, msg : Msg, delivered : 1..MAX_GAP_WAIT]
Applying == [pc : {"applying"}, msg : Msg, delivered : 1..MAX_GAP_WAIT, pending : BOOLEAN]
Decided == [pc : {"decided"}, msg : Msg, decision : Decision]
Job == {Idle} \cup Received \cup Applying \cup Decided

\* `effects`: the versions whose events made this row what it is, in order.
Row == [version : 1..MaxVersion, effects : Seq(1..MaxVersion)]

ASSUME NoRowAssumption == Null \notin Row

TypeOK ==
    /\ log \in [Aggregate -> 0..MaxVersion]
    /\ outbox \in Seq(Event)
    /\ batch \in [Relay -> Seq(Event)]
    /\ sent \in [Relay -> BOOLEAN]
    /\ stream \in Seq(Event) /\ Len(stream) <= MaxStream
    /\ window \subseteq Event
    /\ status \in [Msg -> {"new", "out", "ready", "acked"}]
    /\ delivered \in [Msg -> 0..MAX_GAP_WAIT]
    /\ job \in [Applier -> Job]
    /\ down \subseteq Replica
    /\ row \in [Aggregate -> Row \cup {Null}]
    /\ gapped \subseteq Aggregate
    /\ overwritten \subseteq Aggregate
    /\ faults \in 0..MaxFaults

Init ==
    /\ log = [a \in Aggregate |-> 0]
    /\ outbox = << >>
    /\ batch = [r \in Relay |-> << >>]
    /\ sent = [r \in Relay |-> FALSE]
    /\ stream = << >>
    /\ window = {}
    /\ status = [i \in Msg |-> "new"]
    /\ delivered = [i \in Msg |-> 0]
    /\ job = [p \in Applier |-> Idle]
    /\ down = {}
    /\ row = [a \in Aggregate |-> Null]
    /\ gapped = {}
    /\ overwritten = {}
    /\ faults = 0

\* Every action that is the system failing spends one.
Fault == faults < MaxFaults /\ faults' = faults + 1

-----------------------------------------------------------------------------
(* The owning service: outbox::enqueue and outbox::run *)

(***************************************************************************)
(* A write commits its row's next version and the event carrying it. The   *)
(* outbox is ordered by the time the *transaction* began, and the version  *)
(* is taken later, under the row lock: the new event may sort anywhere     *)
(* among the pending ones, only not before the create of its aggregate.    *)
(***************************************************************************)
Enqueue(a) ==
    /\ log[a] < MaxVersion
    /\ log' = [log EXCEPT ![a] = @ + 1]
    /\ \E i \in 1..(Len(outbox) + 1) :
        /\ \A j \in i..Len(outbox) : outbox[j] # [agg |-> a, version |-> 1]
        /\ outbox' = InsertAt(outbox, i, [agg |-> a, version |-> log[a] + 1])
    /\ UNCHANGED <<batch, sent, brokerVars, job, down, projectionVars, faults>>

\* drain reads what is pending, oldest first.
ReadBatch(r) ==
    /\ batch[r] = << >>
    /\ outbox # << >>
    /\ batch' = [batch EXCEPT ![r] = outbox]
    /\ UNCHANGED <<log, outbox, sent, brokerVars, job, down, projectionVars, faults>>

\* append: the broker drops an id it remembers, and acks it all the same.
Publish(r) ==
    /\ batch[r] # << >>
    /\ ~sent[r]
    /\ sent' = [sent EXCEPT ![r] = TRUE]
    /\ LET e == Head(batch[r]) IN
        \/ /\ e \in window
           /\ UNCHANGED <<stream, window>>
        \/ /\ e \notin window
           /\ Len(stream) < MaxStream
           /\ stream' = Append(stream, e)
           /\ window' = window \cup {e}
    /\ UNCHANGED <<log, outbox, batch, status, delivered, job, down, projectionVars, faults>>

\* Mutant of Deletable: the row is deleted before the broker has acked it.
DeletableUnsent(r) == batch[r] # << >>

Deletable(r) == batch[r] # << >> /\ sent[r]

\* The DELETE autocommits, after the broker's ack. Another relay may have been first.
Delete(r) ==
    /\ Deletable(r)
    /\ \/ \E k \in 1..Len(outbox) :
             outbox[k] = Head(batch[r]) /\ outbox' = RemoveAt(outbox, k)
       \/ /\ \A k \in 1..Len(outbox) : outbox[k] # Head(batch[r])
          /\ UNCHANGED outbox
    /\ batch' = [batch EXCEPT ![r] = Tail(@)]
    /\ sent' = [sent EXCEPT ![r] = FALSE]
    /\ UNCHANGED <<log, brokerVars, job, down, projectionVars, faults>>

\* A failed publish or delete ends the pass, and so does a crash: the rows are still there.
RelayFails(r) ==
    /\ Fault
    /\ batch[r] # << >>
    /\ batch' = [batch EXCEPT ![r] = << >>]
    /\ sent' = [sent EXCEPT ![r] = FALSE]
    /\ UNCHANGED <<log, outbox, brokerVars, job, down, projectionVars>>

\* An hour passes before the event is published again.
Forget(e) ==
    /\ Fault
    /\ e \in window
    /\ window' = window \ {e}
    /\ UNCHANGED <<relayVars, stream, status, delivered, job, down, projectionVars>>

-----------------------------------------------------------------------------
(* The durable consumer *)

Busy(i) == \E p \in Applier : job[p].pc # "idle" /\ job[p].msg = i

InFlight == {i \in Msg : status[i] \in {"out", "ready"}}

\* New messages go out in stream order and only while the in-flight window has room.
Deliverable(i) ==
    \/ status[i] = "ready"
    \/ /\ status[i] = "new"
       /\ i <= Len(stream)
       /\ \A j \in 1..(i - 1) : status[j] # "new"
       /\ Cardinality(InFlight) < MAX_ACK_PENDING

\* What live processes get done in less than the gap budget for an event that came early:
\* relaying an earlier one, finishing its apply, or taking it up if it is there for them.
Owed(i) ==
    LET Earlier(e) == e.agg = stream[i].agg /\ e.version < stream[i].version IN
    \/ \E k \in 1..Len(outbox) : Earlier(outbox[k])
    \/ \E p \in Applier : job[p].pc # "idle" /\ Earlier(stream[job[p].msg])
    \/ \E j \in Msg : Deliverable(j) /\ Earlier(stream[j])

Deliver(p, i) ==
    /\ p[1] \notin down
    /\ job[p].pc = "idle"
    /\ Deliverable(i)
    /\ LET n == IF delivered[i] < MAX_GAP_WAIT THEN delivered[i] + 1 ELSE MAX_GAP_WAIT IN
        /\ n = MAX_GAP_WAIT => Slow \/ ~Owed(i)
        /\ delivered' = [delivered EXCEPT ![i] = n]
        /\ job' = [job EXCEPT ![p] = [pc |-> "received", msg |-> i, delivered |-> n]]
    /\ status' = [status EXCEPT ![i] = "out"]
    /\ UNCHANGED <<relayVars, stream, window, down, projectionVars, faults>>

\* ACK_WAIT has passed without an answer.
AckTimeout(i) ==
    /\ status[i] = "out"
    /\ Slow \/ ~Busy(i)
    /\ status' = [status EXCEPT ![i] = "ready"]
    /\ UNCHANGED <<relayVars, stream, window, delivered, job, down, projectionVars, faults>>

-----------------------------------------------------------------------------
(* The projector: Tx::apply and lane *)

\* Mutants of decide: the gate does not hold an early event back, or drops it.
DecideAppliesEarly(stored, incoming, deliveries) ==
    IF stored = Null \/ incoming > stored.version THEN "apply" ELSE "skip"

DecideDropsEarly(stored, incoming, deliveries) ==
    IF stored = Null
    THEN IF incoming <= 1 THEN "apply" ELSE "skip"
    ELSE IF incoming = stored.version + 1 THEN "apply" ELSE "skip"

NextFor(stored, incoming) ==
    IF stored = Null THEN incoming <= 1 ELSE incoming = stored.version + 1

decide(stored, incoming, deliveries) ==
    IF NextFor(stored, incoming) THEN "apply"
    ELSE IF stored # Null /\ incoming <= stored.version THEN "skip"
    ELSE IF deliveries >= MAX_GAP_WAIT THEN "apply"
    ELSE "park"

\* Mutant of RowLocked: VERSION_AT reads without FOR UPDATE.
RowUnlocked(a) == FALSE

\* VERSION_AT's FOR UPDATE, held until the transaction ends. A missing row locks nothing.
RowLocked(a) ==
    \E p \in Applier :
        /\ job[p].pc = "applying"
        /\ ~job[p].pending
        /\ stream[job[p].msg].agg = a

\* The gate. Skip and Park write nothing, so their transaction ends here.
Gate(p) ==
    LET i == job[p].msg
        e == stream[i]
        d == decide(row[e.agg], e.version, job[p].delivered)
    IN
    /\ job[p].pc = "received"
    /\ ~RowLocked(e.agg)
    /\ job' = [job EXCEPT ![p] =
                IF d = "apply"
                THEN [pc |-> "applying", msg |-> i, delivered |-> job[p].delivered,
                      pending |-> row[e.agg] = Null]
                ELSE [pc |-> "decided", msg |-> i, decision |-> d]]
    /\ UNCHANGED <<relayVars, brokerVars, down, projectionVars, faults>>

\* Mutant of Projected: a create leaves the version column at its default.
ProjectedUnstamped(stored, v) ==
    IF v = 1 THEN [version |-> 0, effects |-> <<1>>]
    ELSE IF stored = Null THEN Null
    ELSE [version |-> IF stored.version < v THEN v ELSE stored.version,
          effects |-> Append(stored.effects, v)]

(***************************************************************************)
(* What an apply leaves in the row. Version 1 is a create, and every       *)
(* create is a whole-row upsert, version included; any other event is an   *)
(* UPDATE, which matches nothing when the row is missing, and set_version! *)
(* only ever raises the version.                                           *)
(***************************************************************************)
Projected(stored, v) ==
    IF v = 1 THEN [version |-> 1, effects |-> <<1>>]
    ELSE IF stored = Null THEN Null
    ELSE [version |-> IF stored.version < v THEN v ELSE stored.version,
          effects |-> Append(stored.effects, v)]

Commit(p) ==
    LET i == job[p].msg
        a == stream[i].agg
        v == stream[i].version
        gap == job[p].delivered >= MAX_GAP_WAIT /\ ~NextFor(row[a], v)
    IN
    /\ job[p].pc = "applying"
    /\ job[p].pending => ~RowLocked(a)   \* the write waits for whoever holds the row
    /\ row' = [row EXCEPT ![a] = Projected(@, v)]
    /\ gapped' = IF gap THEN gapped \cup {a} ELSE gapped
    /\ overwritten' = IF v = 1 /\ row[a] # Null /\ row[a].version > 1
                      THEN overwritten \cup {a} ELSE overwritten
    /\ job' = [job EXCEPT ![p] = [pc |-> "decided", msg |-> i, decision |-> "apply"]]
    /\ UNCHANGED <<relayVars, brokerVars, down, faults>>

\* Mutant of Settled: a parked message is acked.
SettledAlways(decision, old) == "acked"

\* Apply and Skip ack; Park naks, which hands a message still in flight back.
Settled(decision, old) ==
    IF decision = "park"
    THEN IF old = "out" THEN "ready" ELSE old
    ELSE "acked"

\* The ack is a publish of its own, and may be lost.
Ack(p) ==
    LET i == job[p].msg IN
    /\ job[p].pc = "decided"
    /\ \/ /\ status' = [status EXCEPT ![i] = Settled(job[p].decision, @)]
          /\ UNCHANGED faults
       \/ Fault /\ UNCHANGED status
    /\ job' = [job EXCEPT ![p] = Idle]
    /\ UNCHANGED <<relayVars, stream, window, delivered, down, projectionVars>>

(***************************************************************************)
(* A replica dies, or one of its applies fails and stops the lane: open    *)
(* transactions roll back, nothing is acked, and nothing is applied there  *)
(* again until the replica is restarted.                                   *)
(***************************************************************************)
Stop(r) ==
    /\ Fault
    /\ r \notin down
    /\ down' = down \cup {r}
    /\ job' = [p \in Applier |-> IF p[1] = r THEN Idle ELSE job[p]]
    /\ UNCHANGED <<relayVars, brokerVars, projectionVars>>

Restart(r) ==
    /\ r \in down
    /\ down' = down \ {r}
    /\ UNCHANGED <<relayVars, brokerVars, job, projectionVars, faults>>

-----------------------------------------------------------------------------
RelayNext ==
    \/ \E a \in Aggregate : Enqueue(a)
    \/ \E r \in Relay : ReadBatch(r) \/ Publish(r) \/ Delete(r) \/ RelayFails(r)

BrokerNext ==
    \/ \E e \in window : Forget(e)
    \/ \E i \in Msg : AckTimeout(i) \/ \E p \in Applier : Deliver(p, i)

ProjectorNext ==
    \/ \E p \in Applier : Gate(p) \/ Commit(p) \/ Ack(p)
    \/ \E r \in Replica : Stop(r) \/ Restart(r)

Next == RelayNext \/ BrokerNext \/ ProjectorNext

Spec == Init /\ [][Next]_vars

(***************************************************************************)
(* Every loop of the code runs for ever and retries; the broker hands out  *)
(* every message it owes again and again; a row lock is granted to whoever *)
(* waits for it. Faults are bounded, and no write is ever owed. Nor is the *)
(* restart of a stopped replica: one is drained until somebody acts, and   *)
(* the others go on.                                                       *)
(***************************************************************************)
Fairness ==
    /\ \A r \in Relay : WF_vars(ReadBatch(r)) /\ WF_vars(Publish(r)) /\ WF_vars(Delete(r))
    /\ \A i \in Msg :
        /\ WF_vars(AckTimeout(i))
        /\ SF_vars(\E p \in Applier : Deliver(p, i))
    /\ \A p \in Applier : SF_vars(Gate(p)) /\ SF_vars(Commit(p)) /\ WF_vars(Ack(p))

FairSpec == Spec /\ Fairness

-----------------------------------------------------------------------------
(* Properties *)

broken == gapped \cup overwritten

(***************************************************************************)
(* Neither duplication nor reordering nor a crash reaches the read model:  *)
(* a row is the result of the first `version` events of its aggregate,     *)
(* each applied once and in order -- except where the escape hatch fired   *)
(* or a late create replaced the row.                                      *)
(***************************************************************************)
ProjectedInOrder ==
    \A a \in Aggregate \ broken :
        row[a] # Null =>
            /\ row[a].version <= log[a]
            /\ row[a].effects = [v \in 1..row[a].version |-> v]

(***************************************************************************)
(* An event is only ever acked once its effect is in the row: what the     *)
(* consumer will never see again has not been lost to the read model.      *)
(***************************************************************************)
AckedIsProjected ==
    \A i \in 1..Len(stream) :
        status[i] = "acked" /\ stream[i].agg \notin broken =>
            /\ row[stream[i].agg] # Null
            /\ stream[i].version <= row[stream[i].agg].version

(***************************************************************************)
(* The dual write is closed: whatever relays crash, every committed event  *)
(* is still in the outbox or already on the stream.                        *)
(***************************************************************************)
NoEventStranded ==
    \A a \in Aggregate : \A v \in 1..log[a] :
        LET e == [agg |-> a, version |-> v] IN
        \/ \E i \in 1..Len(outbox) : outbox[i] = e
        \/ \E i \in 1..Len(stream) : stream[i] = e

(***************************************************************************)
(* Every committed event reaches the read model, whatever is lost,         *)
(* duplicated, reordered or crashes: a parked event does not wedge its     *)
(* aggregate, nor does a full in-flight window.                            *)
(***************************************************************************)
EventuallyProjected ==
    \A a \in Aggregate : \A v \in 1..MaxVersion :
        (log[a] >= v) ~> (a \in broken \/ (row[a] # Null /\ row[a].version >= v))

Projection == INSTANCE OrderedProjection WITH
    projected <- [a \in Aggregate |->
                    IF a \in broken \/ row[a] = Null THEN 0 ELSE Len(row[a].effects)],
    broken <- broken

(***************************************************************************)
(* The relays, the stream, the consumer and the gate together implement    *)
(* the ordered projection.                                                 *)
(***************************************************************************)
ImplementsProjection == Projection!Spec

(***************************************************************************)
(* What outbox::drain documents of the gate: "so neither duplication nor   *)
(* reordering survives to the projection", and MAX_GAP_WAIT of the hatch:  *)
(* "a safety net for an event that genuinely went missing". No event that  *)
(* is acked may be missing from the row.                                   *)
(***************************************************************************)
NoEventLost ==
    \A i \in 1..Len(stream) :
        LET stored == row[stream[i].agg] IN
        status[i] = "acked" =>
            stored # Null /\ \E k \in 1..Len(stored.effects) : stored.effects[k] = stream[i].version

(***************************************************************************)
(* What set_version! documents: a redelivered or out-of-order event cannot *)
(* wind the version backwards -- "A client waiting on user:<id>@7 must     *)
(* never see 7 and then 6".                                                *)
(***************************************************************************)
VersionNeverRegresses ==
    [][\A a \in Aggregate :
        row[a] # Null => row'[a] # Null /\ row'[a].version >= row[a].version]_vars
=============================================================================
