# OurDriveway: specifications, model checking and proofs

TLA+ models of the backend in this repository, the TLC runs that check them and
the theorems TLAPS proves about them. Paths below are relative to the root of
the repository.

## The system

OurDriveway rents out parking spots. Seven services (user, spot, booking,
payment, view, media, notification), each with several replicas, own one
Yugabyte database each and never call each other to write. A write is one
database transaction (Read Committed) that changes a row, takes the row's next
version under its lock and inserts an event into the service's outbox. A relay
in every replica publishes the outbox to NATS JetStream. *Projectors* of the
other services apply the events to their own tables, *workers* turn some of them
into side effects, and the booking sweeper releases lapsed holds.

| part | state it keeps | operations | interacts through |
|---|---|---|---|
| booking-service | `booking`, `spot` mirror, `_outbox` | create, release, cancel, rate; PaymentWorker, sweeper, SPOTS projector | BOOKINGS out; SPOTS, PAYMENTS in; Stripe pays what it holds |
| bus | `_outbox` rows, stream, consumer state, row versions | enqueue, relay, gate, apply, ack, readiness | every service |
| spot-service | `spot` | create, update, delete | SPOTS out |
| payment-service | `payment`, `payout`, mirrors of bookings and hosts | checkout, webhook, settlement, earnings, payouts | PAYMENTS out; BOOKINGS, USERS in; Stripe |
| payment-service, onboarding | `host` mirror, `connect_account` | account_session, UserProjector | USERS in; Stripe |
| user-service | `app_user`, `refresh_token` | signup, verify, mail requests, reset, update, issue, rotate, revoke, notifications | USERS, SESSIONS out |
| view-service | the read model of everything | five projections, the reads of /public, /host, /renter and /account | every stream in; `X-Await-Version` |
| notification-service | none | mail for USERS events | USERS in; the mail provider |
| media-service | none | upload | object store |

The behaviours that are hard here: concurrent transactions that decide on a read
made before they hold a lock; several replicas of every handler, sweeper and
projector; at-least-once delivery with reordering, duplicates and crashes; clocks
and deadlines (holds, cutoffs, gap budgets against ack timeouts); and status
guards that must make every race a no-op rather than a lost version.

What makes each part correct:

* booking: no slot is sold twice; a booking's events spell a legal life and carry
  gapless versions; nothing a host withdrew stays sold; lapsed holds end.
* bus: an event committed is an event projected, once, in order, and soon.
* payment: money states only move forwards; a renter whose booking ended gets back
  what Stripe took, and nobody else does; the row says what Stripe did.
* payouts: no withdrawal goes beyond the balance, though bookings are refunded after
  they were withdrawn; a payout has one outcome, and it is what became of the transfer.
* user: a reset link works exactly while it is the account's last word; a reset ends
  the sessions before it; mails are neither lost nor repeated.
* onboarding: a host is paid through one account, whichever request opened it.
* view: a client that waits for a version reads it; the read model becomes the
  owners' rows; lists and pages leave nothing out; a host's money is one sum.

`PROJECT.json` lists every component, run, mutant, hazard, finding and theorem.

## Modules

| module | what it is |
|---|---|
| `BookingLifecycle` | abstract: the life of a booking, as a path of events every consumer may rely on |
| `BookingService` | booking-service: every writer of its tables, at the granularity of row locks |
| `BookingServiceInvariants` | the inductive invariant of `BookingService` |
| `BookingServiceProofs` | its proof, the fit of what is sold to its spot, and the refinement of `BookingLifecycle` |
| `MCBookingService` | model values and symmetry for TLC |
| `OrderedProjection` | abstract: what the bus promises a read model |
| `Delivery` | outbox, relays, stream, durable consumer, version gate, apply |
| `DeliveryProofs` | its inductive invariant, the theorems that follow, and the refinement |
| `MCDelivery` | symmetry for TLC |
| `PaymentService` | a renter's money: checkout, webhooks, settlement workers, Stripe |
| `PaymentServiceProofs` | its inductive invariant, and the theorems that follow |
| `MCPaymentService` | symmetry for TLC |
| `PayoutService` | a host's money: withdrawal under the advisory lock, the transfer worker |
| `PayoutServiceProofs` | its inductive invariant, and the theorems that follow |
| `FiniteSums` | sums over finite sets, sorting and walking along cursors, for the proofs about figures and lists |
| `MCPayoutService` | one host, two payouts, two bookings' earnings for TLC |
| `UserService` | accounts, links and sessions: every writer of user-service's tables |
| `NotificationService` | the worker that turns USERS events into mails |
| `ConnectService` | payment-service's host mirror and the onboarding at Stripe |
| `Accounts` | the three composed, with mailboxes whose links may be opened at any time |
| `AccountsProofs` | its inductive invariant, what a log says of a host, and the theorems that follow |
| `MCAccounts` | four foci for TLC |
| `SpotService` | listings: create, edit, delete, each authorised before its transaction |
| `Upstream` | what view-service subscribes to: `SpotService`, and the other writers as their own modules promise them |
| `ViewService` | view-service's five projections and the notifications derived on the way |
| `ViewQueries` | its repositories' reads and its policies: tabs, pages, months, money |
| `ViewAnswers` | its routes, as functions of the tables |
| `AwaitVersion` | the middleware that makes a read wait for the client's own writes |
| `ReadModel` | writers, projections, reads and waiting clients composed |
| `ReadModelProofs` | the histories behind the read model's rows, and the theorems that follow |
| `AnswersProofs` | what the routes answer: types, figures of money, pages, cursors and lists |
| `MCReadModel` | five foci for TLC |

### BookingService

Time is a counter, a slot `k` is the interval `[k, k+1)`, a spot's weekly hours
are the set of slots it is open: what `availability::check` compares, without
the arithmetic of time zones. A transaction is two or three actions: up to the
statement that takes a row lock, and from there to COMMIT; a read before the
transaction is an action of its own.

| code | actions |
|---|---|
| `create_booking` | `Reserve` (validation, spot row locked), `CheckAvailability`, `Insert` |
| `release`, `cancel`, `rate` | `Authorize` (reads outside), `LockRow`, `CommitRow` |
| `PaymentWorker` | `DeliverPayment`, `LockRow`, `CommitRow` |
| `sweeper` | `SweepScan`, `LockLapsed`, `CommitRow`, `Abort` |
| `SpotProjector` | `ApplySpotEvent`, `LockUpcoming`, `CommitSpotEvent`, `AbortSpotEvent` |
| Stripe, the clock | `Pay`, `Tick` (external) |

`LockLapsed` and `LockRow` model `next_version!`: it takes the lock and reports
the next version; `Applies` is the guard of the `UPDATE`. A guard that matches
nothing makes the transaction end without a version and without an event.

### Delivery

An envelope is an aggregate and a version. `Enqueue` inserts anywhere among the
pending rows but before the create of its aggregate, because `created_at` is the
time a transaction began and the version is taken later. `ReadBatch`, `Publish`,
`Delete` and `RelayFails` are `drain` and `run`; `Forget` is an hour passing
between a publish and its repetition. `Deliver`, `AckTimeout`, `Gate`, `Commit`
and `Ack` are one message through `lane`, `Tx::apply` and back; `Stop` is a crash
or a failed apply, `Restart` somebody starting the replica anew. A row keeps the list of the events that
made it, so that a lost, repeated or reordered effect is visible.

Time is abstract: every wait may be short or long. `Slow = FALSE` says that a
live process, unlike a dead one, finishes in less than ACK_WAIT and the gap
budget. `Owed` is that assumption.

### PaymentService

A read outside a transaction and a call to Stripe are steps of their own; a
transaction that finds its row is one step, since `next_version!` locks the row
first; one that finds none locks nothing and is two (`LockPayment`,
`InsertPayment`). booking-service is what it promises here: a legal life of
statuses, confirmed only once a payment succeeded. The mirror is how far this
service has projected that life.

| code | actions |
|---|---|
| `create_session` | `BeginCheckout`, `FindPayment`, `CreateSession`, `LockPayment`, `InsertPayment`, `CheckoutFails` |
| `record_webhook` | `Webhook` |
| `BookingWorker`, `PaymentWorker`, `settle_up` | `Take`, `TakeAgain`, `ReadPayment`, `Decide`, `Refund`, `ExpireSession`, `CommitSettlement`, `Ack`, `WorkerFails` |
| `BookingProjector` | `ProjectBooking` |
| booking-service, the clock, renter, Stripe | `BookingMoves`, `HoldLapses`, `Pay`, `Decline`, `Resend` (external) |

An idempotency key is modelled by what it does: one session per booking, one
refund per payment, whoever asks and however often. An `Err` of a worker is a
nak: the message stays, and is handed out MAX_DELIVER times in all.

### PayoutService

A host's balance is what settled bookings earned minus the withdrawals that
count. A booking settles when its payment is succeeded, its mirror confirmed and its
end far enough past (`Settles`), and may be taken back (`Unearns`): a late SPOTS event
cancels bookings that were over, since booking-service scans by the event's own time,
and payment-service refunds them. Nobody asks for a lock then, so a balance may be
negative. `Lock`, `ReadEarned`, `ReadBalance` (the two queries of `earnings_with`, each
with its own snapshot) and `InsertPayout` are `request_payout`; nobody else
locks that host in between. `withdrawal[x].before` is history: no guard reads it. `Take`, `ReadPayout`, `SendTransfer`,
`ReceiveAnswer`, `CommitPayout` and `Ack` are `pay_out`; between sending and the
answer Stripe decides (`StripeDecides`), whether or not the worker is still
there. `KeyConflicts` says whether Stripe refuses a key whose first request is
still running; FALSE is what the code relies on.

### UserService, NotificationService, ConnectService

`UserService` and `ConnectService` share USERS: `users_log` is the account's
outbox, read by the mail worker and the host mirror. A handler that hashes a
password or looks an address up is a read (`call[c]` keeps what it saw) and one
transaction. Passwords are left out: a request that must prove one is one that can.

| code | actions |
|---|---|
| `signup`, `update_user`, `change_password` | `SignupRead`, `SignupCommit`; `UpdateRead`, `UpdateUser`, `ChangePassword` |
| `resend_verification`, `forgot_password` | `ResendRead`, `ForgotRead`, `RequestMail` (cooldown under the row lock) |
| `verify_email`, `reset_password` | `VerifyEmail`, `ResetPassword` (the link's version must be the row's) |
| notification marks | `NotificationEvent` |
| `authenticate` and `issue`, `rotate`, `revoke` | `Authenticate`, `Issue`; `RotateRead`, `Rotate`; `RevokeRead`, `Revoke` |
| mail worker | `Notify`, `NotifyUnacked`, `NotifyFails`, `Duplicate` |
| `UserProjector` of payment-service | `ProjectHost` |
| `account_session` | `FindAccount`, `ReadHost`, `CreateAccount`, `InsertAccount`, `OpenSession`, `OnboardingFails` |

The provider's idempotency key is modelled by what it does: a key seen before
sends nothing. So is Stripe's: `Known` are the accounts opened under the digest
of the same person, address and country.

### The read side

`Upstream` is the logs, one action per event of a writer; an event is on its log
once its transaction commits. `ViewService` has one action per arm of a projector,
each moving the stored version with what it writes. The gate of the bus is `Due`:
`DeliveryProofs` shows that it hands over the next event, of every aggregate that is not
`broken`. The read side is modelled without the two cases that break one, the escape hatch
and the late copy of a create: what is said of its rows is said of rows neither has hit, and
`delivery_lost` and `delivery_regress` show that there may be others. `ViewQueries` and
`ViewAnswers` are operators on the five tables, so that every invariant about them
is about all states the tables can be in, half-projected ones included.

| code | definitions |
|---|---|
| spot-service | `CreateSpot`, `AuthorizeSpot`, `UpdateSpot`, `DeleteSpot` |
| `UserProjector`, `SpotProjector`, `BookingProjector`, `PaymentProjector` | `ProjectUser`, `ProjectSpot`, `ProjectBooking`, `ProjectPayment`, `ProjectPayout` |
| repositories, policies | `find_...`, `count_...`, `stats_...`, `window`, `InTab`, `next_offset`, `bounds`, `active_now` |
| routes | `public_...`, `host_...`, `renter_...`, `account`, `notifications`, `wallet` |
| `await_version` | `Ask`, `EntryReached`, `NotKept`, `PollFails`, `TimesOut`, `Serve` |

## Runs

All runs leave deadlock unchecked: the bounds stop the clock and the writes.

| run | instance | shows |
|---|---|---|
| `booking_slots` | 2 requests, 2 bookings, 2 slots, sweeper, 1 spot edit | no double booking |
| `booking_settle` | 1 booking, 2 handlers, sweeper, worker, projector, 2 spot edits, fairness | types, versions, lifecycle; what is sold fits the spot; lapsed holds end |
| `delivery_order` | 1 relay, 2 replicas, 2 events, 3 messages, 1 fault, `Slow` | rows are prefixes; acked is projected; nothing stranded; refinement of `OrderedProjection`; every event is projected |
| `payment_settle` | 1 booking, 1 checkout at a time, 2 workers, 4 deliveries, 5 transitions, 2 faults | money moves forwards, is refunded exactly when it should, in the end; the row is what Stripe did |
| `payouts` | 1 host, 2 bookings, 2 withdrawals, 2 payouts, 2 workers, 2 deliveries, 1 fault | no overdraft, whatever is refunded; one true outcome; every payout ends |
| `accounts` | 2 people, 2 requests, 2 addresses, 2 onboardings, 4 events, 1 fault, in four foci | mails sent once, sparingly and in the end; links and sessions end when they should; the host mirror agrees; one account at Stripe |
| `read_model` | 3 users, 4 spots, 5 bookings, 1 payment, 1 payout, in five foci | rows, calendars, notifications, lists, pages and money agree; clients read their writes; everything is projected |

Bounds: two requests and two bookings are what a double booking takes; two
replicas of one writer are what a lost update takes; three slots of time let a
hold lapse and a booking end. In Delivery two versions give a gap and its successor, the
third message a copy of either, and `delivery_lost` has one more of each; the fault is a
crash, a lost ack or a forgotten id, while late acks and stale batches need none; a gap
budget of two or three deliveries lets a message be parked before the hatch fires. `MaxStream` exceeds `MaxVersion` where duplicates count.
`delivery_order` is small because it checks liveness: what it says of safety is
proved for every size, and two relays race in `delivery_regress`.

In `payment_settle` the five transitions are created, failed, created again by a
resumed checkout, succeeded, refunded. Faults are crashes, failed calls, late
acks, declines and repeated webhooks; four deliveries are more than two faults can
use up, as five tries 30 s apart are in the code for short outages. One checkout
at a time is an assumption the code does not enforce: `payment_checkout` drops it.
In `accounts` and `read_model` a behaviour keeps to one *focus*: a set of aggregates,
requests and faults, chosen at the start. A focus is a bound and nothing of the
program; it keeps apart what would only multiply. `Contended` has two people and
two requests; `Linked` one account's links and sessions, before and after they
expire; `Faulty` its mails with a failed send, a lost ack or a doubled message;
`Onboarded` a host who changes address and country while two requests onboard.
`Edited` is a listing, its booking and a waiting client; `Notified` a booking and
both its users, up to the rating; `Browsed` two listings with a booking each, for
pages of one and two rows; `Paid` a booking with three payment events and a
withdrawal, over three months; `Known` an account renamed between two visits. A reader's
header names one listing's entry and one other, in either order: two are what it takes to
read the first before the second has been waited for.
In `payouts` two withdrawals of everything that was earned are what an overdraft
takes, two bookings what it takes to earn again after a refund, and two replicas and one
late ack or crash what a double transfer takes; two deliveries are more than one fault
can use up. In `booking_settle` the one booking fills the sweeper's batch, so that a scan
cut off by its LIMIT is not exercised.

### Where code and documents disagree

Each is a run that TLC must find violated:

* `booking_deleted_spot`: a payment confirms a hold on a deleted spot.
* `delivery_lost`: a replica dies holding an event. Its successor parks 30 times
  200 ms, then the hatch applies it over the gap; the held event comes back after
  30 s and is skipped.
* `delivery_regress`: two copies of a create, a forgotten message id apart, both
  find no row to lock; the slower one winds a row back to version 1.
* `payment_checkout`: two checkouts of one booking both find no payment row. The
  slower one's whole-row upsert puts `succeeded` back to `created`; the booking's
  end then finds an unpaid payment whose session Stripe refuses to expire.
* `payout_conflict`: `Stripe::transfer` takes every answer below 500 for a terminal
  refusal, and so the 409 for a key in use: the second delivery records `failed`
  while the first one's transfer is made, and the balance is withdrawn again
  (`WithdrawnWasEarned`).

`ProjectedInOrder`, `AckedIsProjected` and `EventuallyProjected` therefore exempt
`broken` aggregates, those the hatch applied over a gap and those a late create
replaced, and nothing else; `delivery_lost` and `delivery_regress` show that the exemption is
needed.

Seen while modelling, and not run.

* Bookings: a slot earlier today can be booked (`not_in_the_past` compares dates); a
  resubmitted booking form is refused because of its own first booking (its id is
  minted per call).
* Payments: a checkout resumed after its session expired turns an `expired` row into
  a `created` one; `request_payout` does not ask whether the host has an account, so
  a payout of a host without one runs out of tries and stays `requested`; a mirror
  that lags for longer than MAX_DELIVER tries loses a refund.
* Sessions: two rotations of one token at once both succeed; a rotation or a login in
  flight across `reset_password` leaves a live session (which is why
  `ResetEndsSessions` goes by the account's version a session was born at); a logout
  of an expired token deletes its row and repeats version 1 on SESSIONS.
* Accounts: a verification link mailed to an old address confirms the new one; a
  change of password that verified the old one commits after a reset; a mail goes to
  the address read before the transaction.
* Listings: an edit authorised before a delete commits after it, since the
  transaction (`spot_service.rs:147`) does not look at `deleted` again, and lists the
  spot anew, because `find_for_public` filters `active` alone; `find_for_host` filters
  neither.
* Reads: a late notification may arrive already seen, and carries no title while SPOTS
  or USERS lag; a rebuild may lose a dismissal applied before its insert; a balance
  shown may be negative for a while; count and page, month and cursor are two
  statements each, and the pages of one instant have no order among themselves;
  `geo::bbox` divides by more metres per degree than the distance formula has, so
  the box is slightly too small; `repository/mod.rs` documents a
  `find_previous_month_for_account` that is not there;
  `mark_seen`'s `<` is never put to the test, since the events of one account carry
  times that only grow (one clock in `Upstream`): `SeenStaysSeen` is about what the other
  arms do to the watermark.
* Onboarding: `create_account` is idempotent per person *and details*
  (`connect_service.rs:111` says per host), so an edit between two tries leaves a second
  account behind, unused; the country an account is opened with for good comes from a
  mirror that may be behind an edit.
* Workers: `worker.rs:97` ends its loop on an ack or a pull that errs; nothing starts it
  again or turns readiness off.

## Fairness

* `BookingService!FairSpec`: a sweeper runs every few seconds for ever, so its
  scan and each of its steps is weakly fair, and whoever holds a lock ends its
  transaction, so `LockLapsed` is not starved: strong fairness for the lock,
  which the database grants in turn. Requests and payments are not fair.
* `Delivery!FairSpec`: `drain` and `lane` loop for ever; the broker hands out
  again whatever is not acked; a lock is granted to whoever waits (strong
  fairness for `Gate`, `Commit` and each message's `Deliver`). Faults are bounded;
  writes are never owed. Nor is `Restart`: a replica whose apply failed is not ready
  until it is restarted (`health.rs:61-79`), readiness only drains it and liveness stays ok
  (`backends.yaml:128-140`), so that it takes an operator. `EventuallyProjected` is
  about the replicas that are left, of which there is one: faults are fewer than replicas.
* `PaymentService!FairSpec`: the projector and the workers loop for ever, and
  Stripe repeats a webhook until it is answered. `Take` adds what the code's retry
  budget stands for: the last `MaxFaults + 1` tries find the mirror caught up.
  Bookings, renters and checkouts are not fair.
* `PayoutService!FairSpec`: the workers loop for ever, and Stripe finishes what it
  began. Nobody is owed an account: `EventuallyPaidOut` speaks of hosts that have
  one before the first try.
* `Accounts!FairSpec`: the broker hands out what is not acked and a worker takes it, of
  all mails alike. Requests, clicks on links, the clock and onboardings are not fair.
* `ReadModel!FairSpec`: each projection of each aggregate is weakly fair, which is
  `EventuallyProjected` of `Delivery`. Writes, reads and the clock are not.
* All fairness of workers assumes one replica whose loop still runs: the code does not
  restart a loop that ended (`worker.rs:56-65`), a rollout of the pods does.

## Proofs

`BookingServiceProofs` proves, for any number of handlers, sweepers, workers,
spots, bookings and slots:

* `TypeCorrectness`, `NoDoubleBookingHolds`, `VersionsGaplessHolds`,
  `ToldVersionsExistHolds`, from `Invariance`: `Spec => []IInv`.

They assume only the named ASSUMEs of `BookingService`: the constants' types,
that handlers, sweepers and workers are different processes, and that Null is
no row.

`NoDoubleBooking` is not inductive. A request that passed `availability::check`
and has not inserted yet must keep what it saw: nobody else inserts into that
spot. So `IInv` adds `SpotLockExclusive` (the spot row's lock has one holder),
`FreshIds` (bookings are created once), `RowsEnd` (a slot a row holds ends no
later than the row) and `InsertingFits` (the slots about to be inserted overlap
no row still to come). `VersionsGapless` needs `RowLockExclusive` and
`VersionsMinted`: under the row's lock the version a transaction was given stays
the next one. One lemma per part of `IInv` and action that can disturb it.

Its second part goes on from there, under the same ASSUMEs:

* `ConfirmedFitsSpotHolds`, from `SettleInvariance`. While an edit is being applied the
  mirror is still the old one, so the property alone says nothing of the step that
  merges the new one. `ConfirmedNotMisfit` says it ahead of time: a confirmed booking that
  must fit and that the edit in progress does not fit is on that edit's list, since its
  scan looked after the booking was confirmed, and the merge waits for the list.
* `ImplementsLifecycleHolds`: booking-service refines `BookingLifecycle`. A step that
  enqueues is one edge of a booking's life, and every other step, whoever takes it,
  leaves each booking's status and events alone. It needs `VersionsGapless`, that a row's
  spot is in the mirror (`MirrorsExist`) and that no hold is rated (`ReservedUnrated`).

`DeliveryProofs` proves, for any number of aggregates, relays, replicas and applies
in flight, any window and gap budget, and any number of faults, `Slow` or not:

* `TypeCorrectness`, `NoEventStrandedHolds`, `ProjectedInOrderHolds` and
  `AckedIsProjectedHolds`, from its `Invariance`;
* `ImplementsProjectionHolds`: the bus refines `OrderedProjection`.

They assume the named ASSUMEs of `Delivery`. `NoEventStranded` needs
`SentIsOnStream` and `WindowIsOnStream`: a row of the outbox is deleted, and a
publish dropped as a copy, only when the event is on the stream. `ProjectedInOrder`
is about the moment of `Commit`, long after the gate decided: `LockExclusive` and
`GateStands` carry the decision there -- either the row is locked and so unchanged,
or there was none, and then only a create was let through. `AckedIsProjected` needs
`DecidedTrue`, the same fact for an apply between its commit and its ack, and that
no step takes back a row that is not `broken`. In the refinement `Enqueue` is
`Write`, `Commit` is `Project`, `Break` or a stutter (the copy of a create),
and everything else stutters.

`PaymentServiceProofs` proves, for any number of bookings, checkouts, workers,
deliveries and faults:

* `TypeCorrectness`, `RefundOnlyEndedHolds` and `RowAgreesWithStripeHolds`, from its
  `Invariance`;
* `VersionsGaplessHolds` and `SettledMoneyStaysHolds`, under the hypothesis
  `OneCheckout`, which `payment_checkout` shows to be needed.

They assume the named ASSUMEs of `PaymentService`. `RefundOnlyEnded` needs that the
mirror only holds statuses the booking has had (`LifeShape`, `MirrorBehind`), an end
being final, and that what a worker read before it called Stripe is still a reason
to refund (`JobsJustified`). `RowAgreesWithStripe` needs what Stripe will not undo:
a captured session is complete for good (`CapturedComplete`), a row that says
`expired` has an expired session (`ExpiredSession`), and no row, event or webhook
speaks of a success that was not one (`SuccessCaptured`). With `OneCheckout`, what a
checkout found before it called Stripe is still so when it writes the whole row
(`CheckoutCurrent`).

`PayoutServiceProofs` proves, for any number of hosts, bookings, payouts, requests
and replicas, and any number of redeliveries and faults:

* `TypeCorrectness` and `OneOutcomeHolds`, from its `Invariance`;
* `OutcomeMatchesTransferHolds`, under the hypothesis `~KeyConflicts`;
* `NoOverdraftHolds` and `WithdrawnWasEarnedHolds`, under the same hypothesis, which
  `payout_conflict` shows to be needed, from `BalanceInvariance`, which needs none.

They assume the named ASSUMEs of `PayoutService`. `OneOutcome` needs `VersionTells`
(the version says whether the outcome is in) and `MessagesExist` (a job is about a
committed payout). `OutcomeMatchesTransfer` needs `AnswersTrue`: what a worker is
about to record is what Stripe did and will not undo, however long ago it asked.

`NoOverdraft` compares sums. What the code checks is that a request fits what is left
when it reads; what must hold is that it fits when its row is inserted, although earnings
shrink under it. So it is stated with the bookings that were taken back while the request
held the lock (`EarnedSince`), and with no others: a refund from before the lock is never
overlooked, and one that commits during it cannot be seen by a transaction that has read
already. `BalanceInv` says that one request at a time is past the lock
(`HostLockExclusive`), that no booking is earned again once taken back, so that what a
request remembers only grows (`HistoryTrue`), that the figure of the first query is covered
(`ReadCovered`), that what is reserved is covered beside everything already written
(`ReservedCovered`), and that what is written was earned once (`Covered`). The tables stay
finite because each step adds one row (`FiniteTables`, `EarnedFinite`). A negative balance
is thus the work of refunds alone (`WithdrawnWasEarned`).

The sums are folds over finite sets, and `FiniteSums` is about them, for any set and any
amounts. Such a fold has exactly one value, whatever order it picks elements in: a smallest
finite subset without one cannot exist, strict inclusion being well founded on the subsets
of a finite set (`SmallestSubset`). From it follow `OneByOne`, a sum with one element more,
and by the same argument from the smallest set that would break them, what the other proofs
cite: a sum is taken apart (`SumUnion`, `SumPart`), added up by group (`SumGroups`), carried
along a bijection (`SumImage`), negated (`SumNegated`), bounded (`SumAtMost`), and counts as
it sums (`SumOnes`). Sorting a finite set and following cursors through it are proved there
in the same way, for `AnswersProofs`.

`AccountsProofs` proves, for any number of people, addresses, requests, sessions,
onboardings and faults:

* `TypeCorrectness`, `MailedSparinglyHolds`, `ResetLinkIsLastWordHolds` and
  `ResetEndsSessionsHolds`, from its `Invariance`;
* `EmailsUniqueHolds`, that no two accounts ever hold one address (no run repeats it), and
  `SecretsOpenTheStoredHolds`, half of `OneAccountPerHost`;
* in its last part, `HostMirrorAgreesHolds` and `OneAccountPerHostHolds`, from
  `OnboardingInvariance`.

They assume the named ASSUMEs of `UserService`, `NotificationService` and
`ConnectService`. Every transaction but an index violation is one write of one row and
one event (`OneWrite`), and `Suits` is what it checked under its lock; what a request
read before is only good for finding its row. `TypeOK` itself is not inductive: a request
that is no signup is about an account that exists (`CallsCurrent`), so are sessions
(`SessionsOwned`), and the host mirror holds a row from the registration on, because an
account's first event and no other is one (`LogsBegin`) and the mirror is at one of its
events (`HostBehind`). `ResetLinkIsLastWord` needs that rows and logs count alike
(`RowsCounted`) and that a mailed link names the version its request was given
(`MailsTrue`). `ResetEndsSessions` needs that a session is born at its account's version
and that nothing revives one (`SessionStep`); the cooldown, that a row's stamp is the
last mail's (`StampsRemember`).

`HostMirrorAgrees` compares a row with what a log of any length says, and `DetailsAt`
defines that by recursion over the log. Such a definition says something only where its
recursion has one solution. That it has is not proved by induction over logs but kept as
an invariant, `LogsDetermined`: an empty log has one, and an event more extends it to one
more that says the same of every earlier event (`OneMoreTold`). `MirrorTrue` then follows
the projector event by event. For the accounts at Stripe, `AccountsTrue` says that every
body on its way there was once true of its person and that Stripe opened one account for
it; so a person's accounts map one to one into what their details have been.

`ReadModelProofs` proves, for any number of accounts, listings, bookings, payouts and
readers, logs of any length, and projectors that lag and interleave in any way:

* `TypesInvariance`: the tables' and the clients' part of `TypeOK`;
* `ReadModelAgreesHolds`, `ReadYourWritesHolds`, `NotificationsAgreeHolds` and
  `SeenStaysSeenHolds`.

They assume the named ASSUMEs of `SpotService`, `Upstream`, `ViewService`, `ViewQueries`
and `ReadModel`: the constants' types, and that Null is the value of no column. That a row
agrees with its owner's when it has caught up says nothing about a row that has not, so
`TablesInvariance` is about all of them: for every aggregate there is a `History`, the
rows its owner had after each of its events, every step of which is one the owner may
take (`UserMoves`, `BookingMoves`, ...), and the projected row is the history at the
version it stores. An owner's write makes the history one longer; a projection is one step along
it, and there one lemma per arm shows that what the arm patches, under its own guard, is
what the owner wrote under another. `ReadYourWrites` then follows from versions that never
step back (`VersionsGrow`). For `NotificationsAgree`, `NotesInv` says of every
notification, closed ones too, why it is there (`Justified`), that an open one still
matters (`StillNews`), and that one that still matters was only closed by a dismissal
that was projected, which stays projected (`DismissedForGood`).

`AnswersProofs` goes on to what is answered from those tables:

* `MoneyAgreesHolds`, `CursorsReachAllHolds`, `ListsAgreeHolds` and `TypeCorrectness`, from
  `FiguresInvariance`.

They assume `AnswerAssumption` besides, that Null is no answer: the 404 of a route is told
from its 200. `FiguresInv` adds to the histories what a figure rests on: tables are finite,
only a charged booking has a payment, a listing keeps its host, and no row is dated ahead of
the clock (`DatesPast`) -- without which a charge would be in a month no page of the
history is for. A figure of a state then is a sum over rows. `BalanceAgrees` compares two of
them row by row, each being the end of one history once caught up (`SettledIs`,
`WithdrawalCaughtUp`). The summaries add up because a host's bookings are those of the
host's spots, one spot each (`SumGroups`). The wallet is cut twice, into months and into
branches: an instant is in one month and no other (`MonthOf`), and a row of the history is
the image of one charge, one refund or one withdrawal (`EntriesAre`, `LineIds`), so its
lines are summed over charges, refunds and withdrawals instead (`LinesAddUp`), where a
refunded charge cancels and what is left is earned minus paid out
(`WalletExplainsBalanceNow`).

A page is `SubSeq` of a list that `Sorted` only describes. That such a list exists is
`Sortable`: the element with the largest key last, after the others in order. From there a
page is a `Cut` of one list, the same one whatever the limit and the offset are
(`IsPage`, `HostSpotsPage`, `RenterBookingsPage`, `HostBookingsPage`), and everyone in the
table is somewhere in the list (`AllInOrder`). `CursorsReachAll` is about two walks, both
recursions that are shown to have a solution (`WalkExists`) before anything is said of it.
`next_offset` leads to the multiples of the limit below the total (`WalkPages`), and
between two of them lies each place of the list exactly once (`PagesCover`): so every row
is on one page, and no page but the only one is empty. `next_month` leads down to the next
month with an instant of the caller's (`WalkDown`); that the cursor's four branches range
over the instants of the page's five, no more and no fewer, is `MonthShown`. `ListsAgree`
compares lists through the tab their rows belong to (`RentedIs`, `HostedIs`), whatever
page of it they are on, and the next booking with the head of one of them (`NextListed`).
The types of the answers are where a sum could be one over a set without end, an average
above the best rating (`StatsShown`), or a wallet's total negative (`TotalsShown`).

Every invariant and every action property of a run that passes, and both refinements, is
the statement of one of these theorems. Only model-checked are the liveness properties
(`LapsedHoldEnds`, `EventuallyProjected`, `EventuallyRefunded`, `EventuallyPaidOut`,
`EventuallyMailed`, `EventuallyCurrent`) and the fairness they need, which are out of the
prover's reach; and where the code disagrees with a document, a run has the behaviour that
shows it.

## Not modelled

* JWTs, validation of fields, prices, images, mail text: no interleaving and no state
  of their own. A route is modelled by the handler it calls.
* media-service, the migrator, start-up and readiness of a service, the in-process
  request-reply of the bus: each does one thing once, or keeps nothing.
* `Applied::Unavailable` in a projector: it receives no aggregate its database does not
  store (`AwaitVersion` has it, as `NotKept`).
* Time zones and daylight saving in `schedule.rs`: instants are abstract. The geometry of
  `geo.rs` and address suggestions: a point is near another or not.
* `session_state` and `ConnectService::status`, which only read; the forms sent to Stripe.
  Amounts are the bookings' own; a price never changes once it is in the row.
* In `Upstream` a payment has one checkout at a time: the race of two is
  `payment_checkout`'s.
* Two statements of one read are one state here, although Read Committed lets a
  projection fall between them.
* `ORDER BY ends_at` has no tie-break, so that two pages could cut bookings that end
  together differently: rows that tie come in one order here, in every read of a state.

## Plan

1. `EventuallyProjected`'s safety part, what a parked message waits for, as an invariant of
   `Delivery`.
2. Composition of `BookingService` and `PaymentService`, where booking-service's actions
   take the place of `BookingMoves`, and of both with `Upstream` as a refinement.
3. Pure operators for `availability` and `schedule` against reference definitions.
