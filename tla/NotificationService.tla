----------------------- MODULE NotificationService -----------------------
(***************************************************************************)
(* notification-service: one durable consumer of USERS, shared by every    *)
(* replica, that turns an event into at most one mail.  It keeps no        *)
(* database: the event id is the provider's idempotency key, and what      *)
(* stays pending between deliveries is the broker's.                       *)
(***************************************************************************)
EXTENDS Integers, Sequences

CONSTANTS
    MAX_DELIVER,   \* bus::worker::MAX_DELIVER
    VERIFY_TTL,    \* CONFIG.verify_token_ttl_secs, in clock ticks
    RESET_TTL,     \* CONFIG.reset_token_ttl_secs
    MaxFaults      \* bound: failed sends, lost acks and duplicated messages

ASSUME MailAssumption == MAX_DELIVER \in Nat /\ VERIFY_TTL \in Nat /\ RESET_TTL \in Nat

VARIABLES
    consumer,  \* [event ids -> deliveries so far, and whether acked]
    inbox,     \* what the provider accepted: one mail per idempotency key
    faults

mailVars == <<consumer, inbox, faults>>

Purpose == {"VerifyEmail", "ResetPassword"}

\* mail_for: an event means a mail of this purpose, or nothing to a mailbox: it
\* is acked unsent, which changes nothing and is no action.
MailFor(event) ==
    IF event.type = "PasswordResetRequested" THEN {"ResetPassword"}
    ELSE IF event.type \in {"Registered", "VerificationRequested"} THEN {"VerifyEmail"}
    ELSE {}

\* email_token::mint: what the signed token says.
Claims(user, purpose, ttl, version, now) ==
    [user |-> user, purpose |-> purpose, ver |-> version, exp |-> now + ttl]

LinkBeforeBump(user, purpose, version, now) ==
    IF purpose = "ResetPassword"
    THEN Claims(user, purpose, RESET_TTL, version - 1, now)
    ELSE Claims(user, purpose, VERIFY_TTL, 0, now)

\* Minted at send time: the clock starts here, and a reset link carries the
\* version the request itself was given.  0 stands for no version claim.
Link(user, purpose, version, now) ==
    IF purpose = "ResetPassword"
    THEN Claims(user, purpose, RESET_TTL, version, now)
    ELSE Claims(user, purpose, VERIFY_TTL, 0, now)

AcceptedUnkeyed(key, event, now) ==
    inbox \cup {[key |-> key, to |-> event.email, link |-> Link(key[1], p, event.version, now)] :
                p \in MailFor(event)}

\* Mailer::send: a key the provider has seen is recognised, not sent again.
Accepted(key, event, now) ==
    inbox \cup {[key |-> key, to |-> event.email, link |-> Link(key[1], p, event.version, now)] :
                p \in {q \in MailFor(event) : \A m \in inbox : m.key # key}}

DeliverableOnce(key, event) ==
    MailFor(event) # {} /\ ~consumer[key].acked /\ consumer[key].delivered = 0

Deliverable(key, event) ==
    /\ MailFor(event) # {}
    /\ ~consumer[key].acked
    /\ consumer[key].delivered < MAX_DELIVER

Attempt(key, acked) ==
    consumer' = [consumer EXCEPT ![key] = [delivered |-> @.delivered + 1, acked |-> acked]]

\* handle, then the ack.
Notify(key, event, now) ==
    /\ Deliverable(key, event)
    /\ inbox' = Accepted(key, event, now)
    /\ Attempt(key, TRUE)
    /\ UNCHANGED faults

Fault == faults < MaxFaults /\ faults' = faults + 1

\* The provider accepts, and the process dies or ACK_WAIT passes before the ack.
NotifyUnacked(key, event, now) ==
    /\ Deliverable(key, event) /\ Fault
    /\ inbox' = Accepted(key, event, now)
    /\ Attempt(key, FALSE)

\* The send fails: nak, and the message comes back after NAK_DELAY.
NotifyFails(key, event) ==
    /\ Deliverable(key, event) /\ Fault
    /\ Attempt(key, FALSE)
    /\ UNCHANGED inbox

\* The outbox relay published the event twice: a second message, one event id.
Duplicate(key) ==
    /\ consumer[key].acked /\ Fault
    /\ consumer' = [consumer EXCEPT ![key] = [delivered |-> 0, acked |-> FALSE]]
    /\ UNCHANGED inbox

\* email_token::verify: signature and issuer are the mint's own, so what is
\* left to refuse is the purpose and the expiry.
Verified(link, purpose, now) == link.purpose = purpose /\ now <= link.exp
=============================================================================
