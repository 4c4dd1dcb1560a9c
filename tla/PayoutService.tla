---------------------------- MODULE PayoutService ----------------------------
(***************************************************************************)
(* payment-service, a host's money: request_payout and the transfer that   *)
(* PaymentWorker makes of it. Available is earned minus withdrawn, derived *)
(* on every read; request_payout reads it under the host's advisory lock.  *)
(*                                                                         *)
(* A booking is earned while its payment is succeeded, its mirror          *)
(* confirmed and its end SETTLEMENT_SECS past. That may end again: a late  *)
(* event of a spot cancels bookings that were over, and they are refunded, *)
(* whatever was withdrawn in the meantime and whoever holds the lock.      *)
(* Stripe is external: it answers a key once and repeats itself.           *)
(***************************************************************************)
EXTENDS Integers, Sequences, FiniteSetsExt

CONSTANTS
    Host, Booking, Payout,
    HostOf,         \* HostOf[b]: who earns the booking's amount
    Amount,         \* Amount[b]: amount_cents
    Withdrawal,     \* concurrent request_payout requests
    Worker,         \* replicas of PaymentWorker
    MIN_CENTS,
    MAX_DELIVER,
    KeyConflicts,   \* TRUE: Stripe answers 409 while the first request of a key is running
    MaxFaults,      \* bound: crashes, unanswered calls and late acks
    Null

ASSUME PayoutConstants ==
    /\ HostOf \in [Booking -> Host]
    /\ Amount \in [Booking -> Nat]
    /\ MIN_CENTS \in Nat \ {0} /\ MAX_DELIVER \in Nat \ {0}
    /\ KeyConflicts \in BOOLEAN
    /\ MaxFaults \in Nat

VARIABLES
    settled,    \* bookings that count as earned
    unearned,   \* bookings that did, and were cancelled and refunded since
    connected,  \* hosts with a connected account
    payout,     \* payout[p]: the payout row
    outcomes,   \* outcomes[p]: the statuses published for p, in commit order
    withdrawal, \* withdrawal[x]: where request x is
    transfer,   \* transfer[p]: what Stripe did under p's idempotency key
    inbox,      \* payouts whose PayoutRequested is published and not acked
    tries,      \* tries[p]: deliveries of that event
    job,        \* job[w]: what worker w is doing
    faults

payoutVars == <<payout, outcomes>>
workerVars == <<inbox, tries, job>>
vars == <<settled, unearned, connected, payoutVars, withdrawal, transfer, workerVars, faults>>

Status == {"requested", "paid", "failed"}
Cents == 0..MapThenSumSet(LAMBDA b : Amount[b], Booking)
Row == [host : Host, amount : Cents, status : Status, version : 1..2]

Idle == [pc |-> "idle"]

\* `before` is history: what had been unearned when the request took the lock.
Request ==
    [pc : {"locked"}, host : Host, before : SUBSET Booking] \cup
    [pc : {"read"}, host : Host, before : SUBSET Booking, earned : Nat] \cup
    [pc : {"inserting"}, host : Host, before : SUBSET Booking, amount : Cents]

Job ==
    [pc : {"taken", "transferring", "sent", "done"}, id : Payout] \cup
    [pc : {"transferred"}, id : Payout, to : {"paid", "failed"}]

ASSUME PayoutNull == Null \notin Row

TypeOK ==
    /\ settled \subseteq Booking /\ unearned \subseteq Booking /\ connected \subseteq Host
    /\ payout \in [Payout -> Row \cup {Null}]
    /\ outcomes \in [Payout -> Seq(Status)]
    /\ withdrawal \in [Withdrawal -> Request \cup {Idle}]
    /\ transfer \in [Payout -> {"none", "running", "made", "refused"}]
    /\ inbox \subseteq Payout
    /\ tries \in [Payout -> 0..MAX_DELIVER]
    /\ job \in [Worker -> Job \cup {Idle}]
    /\ faults \in 0..MaxFaults

Init ==
    /\ settled = {} /\ unearned = {} /\ connected = {}
    /\ payout = [p \in Payout |-> Null]
    /\ outcomes = [p \in Payout |-> << >>]
    /\ withdrawal = [x \in Withdrawal |-> Idle]
    /\ transfer = [p \in Payout |-> "none"]
    /\ inbox = {}
    /\ tries = [p \in Payout |-> 0]
    /\ job = [w \in Worker |-> Idle]
    /\ faults = 0

Fault == faults < MaxFaults /\ faults' = faults + 1

-----------------------------------------------------------------------------
(* The balance *)

\* The payment is succeeded and the booking confirmed, and it ended before the cutoff.
Settles(b) ==
    /\ b \notin unearned
    /\ settled' = settled \cup {b}
    /\ UNCHANGED <<unearned, connected, payoutVars, withdrawal, transfer, workerVars, faults>>

\* BookingCancelled is projected, and the payment refunded: neither is ever undone. No lock
\* of a host is asked for.
Unearns(b) ==
    /\ b \in settled
    /\ settled' = settled \ {b}
    /\ unearned' = unearned \cup {b}
    /\ UNCHANGED <<connected, payoutVars, withdrawal, transfer, workerVars, faults>>

earned(h) == MapThenSumSet(LAMBDA b : Amount[b], {b \in settled : HostOf[b] = h})

\* A withdrawal still in flight counts; a failed one hands its money back.
COUNTED == {"requested", "paid"}

PayoutsOf(h) == {p \in Payout : payout[p] # Null /\ payout[p].host = h}

total_for(h) ==
    MapThenSumSet(LAMBDA p : payout[p].amount, {p \in PayoutsOf(h) : payout[p].status \in COUNTED})

\* Never a clamp: more than there is, or less than the minimum, is refused.
check(requested, available) ==
    available > 0 /\ requested >= MIN_CENTS /\ requested <= available

-----------------------------------------------------------------------------
(* ConnectService and request_payout *)

\* account_session: get or create, one account per host.
Connect(h) ==
    /\ connected' = connected \cup {h}
    /\ UNCHANGED <<settled, unearned, payoutVars, withdrawal, transfer, workerVars, faults>>

\* Mutant of HostLocked: the lock is not taken.
HostNeverLocked(h) == FALSE

\* pg_advisory_xact_lock, held to the end of the transaction.
HostLocked(h) == \E x \in Withdrawal : withdrawal[x] # Idle /\ withdrawal[x].host = h

Lock(x, h) ==
    /\ withdrawal[x] = Idle
    /\ ~HostLocked(h)
    /\ withdrawal' = [withdrawal EXCEPT ![x] = [pc |-> "locked", host |-> h, before |-> unearned]]
    /\ UNCHANGED <<settled, unearned, connected, payoutVars, transfer, workerVars, faults>>

At(x, pc) == withdrawal[x] # Idle /\ withdrawal[x].pc = pc

\* earnings_with, below the lock: two queries, each with a snapshot of its own.
ReadEarned(x) ==
    /\ At(x, "locked")
    /\ LET r == withdrawal[x] IN
       withdrawal' = [withdrawal EXCEPT ![x] =
           [pc |-> "read", host |-> r.host, before |-> r.before, earned |-> earned(r.host)]]
    /\ UNCHANGED <<settled, unearned, connected, payoutVars, transfer, workerVars, faults>>

\* The second, and the client's figure against both; a refusal rolls back.
ReadBalance(x, cents) ==
    /\ At(x, "read")
    /\ LET r == withdrawal[x] IN
       withdrawal' = [withdrawal EXCEPT ![x] =
           IF check(cents, r.earned - total_for(r.host))
           THEN [pc |-> "inserting", host |-> r.host, before |-> r.before, amount |-> cents]
           ELSE Idle]
    /\ UNCHANGED <<settled, unearned, connected, payoutVars, transfer, workerVars, faults>>

\* The row, its event and the lock's release commit together, under a fresh id.
InsertPayout(x, p) ==
    /\ At(x, "inserting")
    /\ payout[p] = Null
    /\ payout' = [payout EXCEPT ![p] =
           [host |-> withdrawal[x].host, amount |-> withdrawal[x].amount,
            status |-> "requested", version |-> 1]]
    /\ outcomes' = [outcomes EXCEPT ![p] = <<"requested">>]
    /\ inbox' = inbox \cup {p}
    /\ withdrawal' = [withdrawal EXCEPT ![x] = Idle]
    /\ UNCHANGED <<settled, unearned, connected, transfer, tries, job, faults>>

-----------------------------------------------------------------------------
(* PaymentWorker: pay_out *)

Working(w, pc) == job[w] # Idle /\ job[w].pc = pc

Step(w, pc) == job' = [job EXCEPT ![w] = [pc |-> pc, id |-> job[w].id]]

Deliver(w, p) ==
    /\ job[w] = Idle
    /\ p \in inbox /\ tries[p] < MAX_DELIVER
    /\ tries' = [tries EXCEPT ![p] = @ + 1]
    /\ job' = [job EXCEPT ![w] = [pc |-> "taken", id |-> p]]
    /\ UNCHANGED <<settled, unearned, connected, payoutVars, withdrawal, transfer, inbox>>

Take(w, p) ==
    /\ \A v \in Worker : job[v] # Idle => job[v].id # p
    /\ Deliver(w, p)
    /\ UNCHANGED faults

\* ACK_WAIT passes while another replica is still at work.
TakeAgain(w, p) ==
    /\ Fault
    /\ \E v \in Worker : job[v] # Idle /\ job[v].id = p
    /\ Deliver(w, p)

\* Anything but `requested` is done already; a host without an account is an Err.
ReadPayout(w) ==
    /\ Working(w, "taken")
    /\ LET p == job[w].id IN
       IF payout[p].status # "requested" THEN Step(w, "done")
       ELSE IF payout[p].host \notin connected THEN job' = [job EXCEPT ![w] = Idle]
       ELSE Step(w, "transferring")
    /\ UNCHANGED <<settled, unearned, connected, payoutVars, withdrawal, transfer, inbox, tries, faults>>

\* Keyed on the payout. A 409 for a key in use is below 500, like any other refusal.
SendTransfer(w) ==
    /\ Working(w, "transferring")
    /\ LET p == job[w].id IN
       IF KeyConflicts /\ transfer[p] = "running"
       THEN /\ job' = [job EXCEPT ![w] = [pc |-> "transferred", id |-> p, to |-> "failed"]]
            /\ UNCHANGED transfer
       ELSE /\ transfer' = [transfer EXCEPT ![p] = IF @ = "none" THEN "running" ELSE @]
            /\ Step(w, "sent")
    /\ UNCHANGED <<settled, unearned, connected, payoutVars, withdrawal, inbox, tries, faults>>

\* Stripe makes the transfer or refuses it for good, whether or not anyone still waits.
StripeDecides(p) ==
    /\ transfer[p] = "running"
    /\ \E answer \in {"made", "refused"} : transfer' = [transfer EXCEPT ![p] = answer]
    /\ UNCHANGED <<settled, unearned, connected, payoutVars, withdrawal, workerVars, faults>>

\* Mutant of ReceiveAnswer: a call that timed out is taken for a refusal.
ReceiveAnswerOrTimeOut(w) ==
    /\ Working(w, "sent")
    /\ job' = [job EXCEPT ![w] = [pc |-> "transferred", id |-> job[w].id,
                                  to |-> IF transfer[job[w].id] = "made" THEN "paid" ELSE "failed"]]
    /\ UNCHANGED <<settled, unearned, connected, payoutVars, withdrawal, transfer, inbox, tries, faults>>

ReceiveAnswer(w) ==
    /\ Working(w, "sent")
    /\ transfer[job[w].id] \in {"made", "refused"}
    /\ job' = [job EXCEPT ![w] = [pc |-> "transferred", id |-> job[w].id,
                                  to |-> IF transfer[job[w].id] = "made" THEN "paid" ELSE "failed"]]
    /\ UNCHANGED <<settled, unearned, connected, payoutVars, withdrawal, transfer, inbox, tries, faults>>

\* Mutant of Applies: the outcome is written whatever the row says.
AppliesAlways(p) == TRUE

\* The transition's guard.
Applies(p) == payout[p].status = "requested"

\* Mutant of CommitPayout: the loser of a race publishes its outcome too.
CommitPayoutPublishes(w) ==
    /\ Working(w, "transferred")
    /\ LET p == job[w].id IN
       /\ payout' = IF Applies(p)
                    THEN [payout EXCEPT ![p].status = job[w].to, ![p].version = @ + 1]
                    ELSE payout
       /\ outcomes' = [outcomes EXCEPT ![p] = Append(@, job[w].to)]
    /\ Step(w, "done")
    /\ UNCHANGED <<settled, unearned, connected, withdrawal, transfer, inbox, tries, faults>>

\* The row and the event move together, or neither does.
CommitPayout(w) ==
    /\ Working(w, "transferred")
    /\ LET p == job[w].id IN
       IF Applies(p)
       THEN /\ payout' = [payout EXCEPT ![p].status = job[w].to, ![p].version = @ + 1]
            /\ outcomes' = [outcomes EXCEPT ![p] = Append(@, job[w].to)]
       ELSE UNCHANGED payoutVars
    /\ Step(w, "done")
    /\ UNCHANGED <<settled, unearned, connected, withdrawal, transfer, inbox, tries, faults>>

Ack(w) ==
    /\ Working(w, "done")
    /\ inbox' = inbox \ {job[w].id}
    /\ job' = [job EXCEPT ![w] = Idle]
    /\ UNCHANGED <<settled, unearned, connected, payoutVars, withdrawal, transfer, tries, faults>>

\* Mutant of WorkerFails: the message of a failed handler is acked.
WorkerFailsAcked(w) ==
    /\ Fault
    /\ job[w] # Idle
    /\ inbox' = inbox \ {job[w].id}
    /\ job' = [job EXCEPT ![w] = Idle]
    /\ UNCHANGED <<settled, unearned, connected, payoutVars, withdrawal, transfer, tries>>

\* A crash before the ack, or a call to Stripe or the database that fails or times out:
\* the message comes back.
WorkerFails(w) ==
    /\ Fault
    /\ job[w] # Idle
    /\ job' = [job EXCEPT ![w] = Idle]
    /\ UNCHANGED <<settled, unearned, connected, payoutVars, withdrawal, transfer, inbox, tries>>

-----------------------------------------------------------------------------

WorkerStep(w) ==
    \/ \E p \in inbox : Take(w, p)
    \/ ReadPayout(w) \/ SendTransfer(w) \/ ReceiveAnswer(w) \/ CommitPayout(w) \/ Ack(w)

Next ==
    \/ \E b \in Booking : Settles(b) \/ Unearns(b)
    \/ \E h \in Host : Connect(h)
    \/ \E x \in Withdrawal :
          \/ \E h \in Host : Lock(x, h)
          \/ ReadEarned(x)
          \/ \E cents \in Cents : ReadBalance(x, cents)
          \/ \E p \in Payout : InsertPayout(x, p)
    \/ \E p \in Payout : StripeDecides(p)
    \/ \E w \in Worker : WorkerStep(w) \/ WorkerFails(w) \/ \E p \in inbox : TakeAgain(w, p)

Spec == Init /\ [][Next]_vars

\* The worker's loop runs, and Stripe finishes what it began.
Fairness ==
    /\ \A p \in Payout : WF_vars(StripeDecides(p))
    /\ \A w \in Worker : WF_vars(WorkerStep(w))

FairSpec == Spec /\ Fairness

-----------------------------------------------------------------------------
(* Properties *)

\* What h has earned, and what it has lost again since `before` was all it had lost.
EarnedSince(h, before) ==
    MapThenSumSet(LAMBDA b : Amount[b], {b \in settled \cup (unearned \ before) : HostOf[b] = h})

\* What Stripe moved to h, and what is on its way.
Moved(h) ==
    MapThenSumSet(LAMBDA p : payout[p].amount,
        {p \in PayoutsOf(h) : transfer[p] = "made" \/ payout[p].status \in COUNTED})

\* What was and will be moved to a host grows only by an admitted withdrawal, and to no
\* more than the host has earned by then, however many withdrawals race. Only a refund that
\* commits while the request holds the lock may make that too much; one from before the
\* lock is never overlooked (request_payout, lock_host, earned, total_for, check).
NoOverdraft ==
    [][\A h \in Host : Moved(h)' > Moved(h) =>
          \E x \in Withdrawal :
              /\ withdrawal[x] # Idle /\ withdrawal[x].host = h /\ withdrawal'[x] = Idle
              /\ Moved(h)' <= EarnedSince(h, withdrawal[x].before)]_vars

\* So nobody is paid what was never earned: what was moved to a host, with what is on its
\* way, is covered by its bookings that settled, the refunded ones included (total_for,
\* pay_out).
WithdrawnWasEarned == \A h \in Host : Moved(h) <= EarnedSince(h, {})

\* A payout is recorded as paid only if the transfer was made, and as failed, which
\* hands the balance back, only if it never will be (pay_out, Stripe::transfer).
OutcomeMatchesTransfer ==
    \A p \in Payout : payout[p] # Null =>
        /\ payout[p].status = "paid" => transfer[p] = "made"
        /\ payout[p].status = "failed" => transfer[p] = "refused"

\* One outcome is published per payout, and it is the row's (the guard of transition).
OneOutcome ==
    \A p \in Payout : payout[p] # Null =>
        /\ Len(outcomes[p]) = payout[p].version
        /\ outcomes[p][payout[p].version] = payout[p].status

\* A withdrawal of a host with an account is paid or refused in the end.
EventuallyPaidOut ==
    \A p \in Payout :
        p \in inbox /\ tries[p] = 0 /\ payout[p].host \in connected
            ~> payout[p] # Null /\ payout[p].status \in {"paid", "failed"}
=============================================================================
