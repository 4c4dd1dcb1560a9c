--------------------------- MODULE UserService ---------------------------
(***************************************************************************)
(* user-service: the accounts of app_user, the sessions of refresh_token   *)
(* and the events enqueued beside every write.                             *)
(*                                                                         *)
(* A request reads outside its transaction and then hashes a password for  *)
(* a while, so such a handler is two actions: one that reads and keeps     *)
(* what it read in call[c], and one transaction that uses it, however      *)
(* stale it has become.  A transaction takes the row lock of next_version! *)
(* first and is one atomic action.  The outbox relay is Delivery's: an     *)
(* event is on users_log as soon as its transaction commits.  Passwords    *)
(* are not modelled: a request that must prove one is one that can.        *)
(***************************************************************************)
EXTENDS Integers, Sequences

CONSTANTS
    Users,         \* the ids signups mint
    Emails,
    Countries,
    Tokens,        \* the ids of refresh_token rows
    Clients,       \* requests in flight at once
    None,          \* an absent row, an absent column, an unchanged field
    COOLDOWN,      \* policy::mail::COOLDOWN, in clock ticks
    JWT_TTL,       \* CONFIG.jwt_expiration
    REFRESH_TTL,   \* CONFIG.refresh_token_expiration
    MaxVersion,    \* bound: writes to one account
    MaxSessionEvents,  \* bound: the session log
    MaxTime        \* bound: the clock

ASSUME UserAssumption ==
    /\ COOLDOWN \in Nat /\ JWT_TTL \in Nat /\ REFRESH_TTL \in Nat
    /\ MaxVersion \in Nat /\ MaxSessionEvents \in Nat /\ MaxTime \in Nat
    /\ None \notin Users \cup Emails \cup Countries \cup Tokens

VARIABLES
    app_user,       \* [Users -> account or None]
    refresh_token,  \* [Tokens -> session or None]
    users_log,      \* [Users -> the account's envelopes, in commit order]
    sessions_log,   \* the SessionEvents, in commit order
    access,         \* [Users -> expiry of the newest access token, 0 for none]
    call,           \* [Clients -> the request in flight or None]
    now

userVars == <<app_user, refresh_token, users_log, sessions_log, access, call, now>>

Account == [version: Nat, email: Emails, country: Countries \cup {None},
            email_verified: BOOLEAN, mail_requested_at: Nat \cup {None}]

Session == [version: Nat, user_id: Users, revoked: BOOLEAN,
            expires_at: Nat, born: Nat]  \* born: the account's version at the insert

MailRequests == {"VerificationRequested", "PasswordResetRequested"}

UserEvents == {"Registered", "Updated", "PasswordChanged", "EmailVerified",
               "Notification"} \cup MailRequests

\* email and at: the address of an account or of the mail asked for, and when it was
\* asked for; link: the version a redeemed reset link carried, 0 for an event no link caused.
Envelope == [type: UserEvents, version: Nat, email: Emails \cup {None},
             country: Countries \cup {None}, at: Nat, link: Nat]

Ops == {"signup", "issue", "rotate", "revoke", "resend", "forgot", "password", "update"}

Call == [op: Ops,
         user: Users, email: Emails \cup {None}, country: Countries \cup {None},
         read_email: Emails \cup {None}, token: Tokens \cup {None}]

ASSUME NoneAssumption == None \notin Account \cup Session \cup Call \cup Nat

Request(op, u) == [op |-> op, user |-> u, email |-> None, country |-> None,
                   read_email |-> None, token |-> None]

-----------------------------------------------------------------------------
(* The rows, as the repositories read and write them. *)

Exists(u) == app_user[u] # None

FindByEmail(e) == {u \in Users : Exists(u) /\ app_user[u].email = e}

NextVersion(u) == (IF Exists(u) THEN app_user[u].version ELSE 0) + 1

NextTokenVersion(t) ==
    (IF refresh_token[t] # None THEN refresh_token[t].version ELSE 0) + 1

\* app_user_email_idx: an address may be written if no other row holds it.
EmailFree(u, e) == FindByEmail(e) \subseteq {u}

Idle(c) == call' = [call EXCEPT ![c] = None]

Unused(t) ==
    /\ refresh_token[t] = None
    /\ \A i \in DOMAIN sessions_log : sessions_log[i].token # t

WriteUnversioned(u, row, event) ==
    /\ NextVersion(u) <= MaxVersion
    /\ app_user' = [app_user EXCEPT ![u] = IF Exists(u) THEN row ELSE [row EXCEPT !.version = 1]]
    /\ users_log' = [users_log EXCEPT ![u] = Append(@, event)]

\* set_version! and outbox::enqueue: the row moves to the version its event carries.
Write(u, row, event) ==
    /\ NextVersion(u) <= MaxVersion
    /\ app_user' = [app_user EXCEPT ![u] = [row EXCEPT !.version = NextVersion(u)]]
    /\ users_log' = [users_log EXCEPT ![u] = Append(@, event)]

Event(u, type, email, link) ==
    [type |-> type, version |-> NextVersion(u), email |-> email, country |-> None,
     at |-> IF type \in MailRequests THEN now ELSE 0, link |-> link]

-----------------------------------------------------------------------------
(* Accounts *)

SignupRead(c) ==
    /\ call[c] = None
    /\ \E u \in Users, e \in Emails :
         /\ ~Exists(u)
         /\ \A d \in Clients : call[d] # None => call[d].user # u
         /\ FindByEmail(e) = {}
         /\ call' = [call EXCEPT ![c] = [Request("signup", u) EXCEPT !.email = e]]
    /\ UNCHANGED <<app_user, refresh_token, users_log, sessions_log, access, now>>

Registered(e) == [version |-> 0, email |-> e, country |-> None,
                  email_verified |-> FALSE, mail_requested_at |-> None]

\* The loser of two concurrent signups violates the index and rolls back whole.
SignupCommit(c) ==
    /\ call[c] # None /\ call[c].op = "signup"
    /\ LET r == call[c] IN
         IF EmailFree(r.user, r.email)
         THEN Write(r.user, Registered(r.email),
                    Event(r.user, "Registered", r.email, 0))
         ELSE UNCHANGED <<app_user, users_log>>
    /\ Idle(c)
    /\ UNCHANGED <<refresh_token, sessions_log, access, now>>

\* verify_email names an account and nothing else: replayable by design.
VerifyEmail(u) ==
    /\ Exists(u)
    /\ Write(u, [app_user[u] EXCEPT !.email_verified = TRUE],
             Event(u, "EmailVerified", None, 0))
    /\ UNCHANGED <<refresh_token, sessions_log, access, call, now>>

ResendRead(c) ==
    /\ call[c] = None
    /\ \E e \in Emails : \E u \in FindByEmail(e) :
         /\ ~app_user[u].email_verified
         /\ call' = [call EXCEPT ![c] = [Request("resend", u) EXCEPT !.email = e]]
    /\ UNCHANGED <<app_user, refresh_token, users_log, sessions_log, access, now>>

ForgotRead(c) ==
    /\ call[c] = None
    /\ \E e \in Emails : \E u \in FindByEmail(e) :
         call' = [call EXCEPT ![c] = [Request("forgot", u) EXCEPT !.email = e]]
    /\ UNCHANGED <<app_user, refresh_token, users_log, sessions_log, access, now>>

LastMail(u) == app_user[u].mail_requested_at

MaySend(last) == last = None \/ now - last >= COOLDOWN

StampNothing(row) == row

Stamp(row) == [row EXCEPT !.mail_requested_at = now]

\* The cooldown is read under the row lock; suppressed answers like a send.
\* The mail goes to the address read before it.
RequestMail(c, op, type) ==
    /\ call[c] # None /\ call[c].op = op
    /\ LET u == call[c].user IN
         IF MaySend(LastMail(u))
         THEN Write(u, Stamp(app_user[u]), Event(u, type, call[c].email, 0))
         ELSE UNCHANGED <<app_user, users_log>>
    /\ Idle(c)
    /\ UNCHANGED <<refresh_token, sessions_log, access, now>>

ResendVerification(c) == RequestMail(c, "resend", "VerificationRequested")

ForgotPassword(c) == RequestMail(c, "forgot", "PasswordResetRequested")

RevokeNothing(u) == refresh_token

RevokeAllForUser(u) ==
    [t \in Tokens |->
        IF refresh_token[t] # None /\ refresh_token[t].user_id = u
        THEN [refresh_token[t] EXCEPT !.revoked = TRUE] ELSE refresh_token[t]]

AtOrPast(u, minted_at) == NextVersion(u) - 1 >= minted_at

\* Single use: the row must still be where the request left it.
StillAt(u, minted_at) == NextVersion(u) - 1 = minted_at

ResetPassword(u, minted_at) ==
    /\ StillAt(u, minted_at)
    /\ Write(u, [app_user[u] EXCEPT !.email_verified = TRUE],
             Event(u, "PasswordChanged", None, minted_at))
    /\ refresh_token' = RevokeAllForUser(u)
    /\ UNCHANGED <<sessions_log, access, call, now>>

\* AuthedJwt: a signed access token is good until it expires, whatever became
\* of its session.
Authed(u) == Exists(u) /\ now < access[u]

UpdateRead(c) ==
    /\ call[c] = None
    /\ \E u \in Users :
         /\ Authed(u)
         /\ \/ call' = [call EXCEPT ![c] = Request("password", u)]
            \/ \E e \in Emails \cup {None}, n \in Countries \cup {None} :
                 /\ e \notin {None, app_user[u].email} => FindByEmail(e) = {}
                 /\ call' = [call EXCEPT ![c] =
                        [Request("update", u) EXCEPT !.email = e, !.country = n,
                                                     !.read_email = app_user[u].email]]
    /\ UNCHANGED <<app_user, refresh_token, users_log, sessions_log, access, now>>

ChangePassword(c) ==
    /\ call[c] # None /\ call[c].op = "password"
    /\ LET u == call[c].user IN
         Write(u, app_user[u], Event(u, "PasswordChanged", None, 0))
    /\ Idle(c)
    /\ UNCHANGED <<refresh_token, sessions_log, access, now>>

Cleared(row, r) ==
    [row EXCEPT !.email = r.email, !.email_verified = @ /\ r.email = r.read_email]

\* The address is compared with the one read before the transaction.
Readdressed(row, r) ==
    IF r.email = None THEN row
    ELSE [row EXCEPT !.email = r.email,
                     !.email_verified = @ /\ r.email = r.read_email]

Edited(row, r) ==
    [Readdressed(row, r) EXCEPT !.country = IF r.country = None THEN @ ELSE r.country]

UpdateUser(c) ==
    /\ call[c] # None /\ call[c].op = "update"
    /\ LET r == call[c] IN
         IF r.email = None \/ EmailFree(r.user, r.email)
         THEN Write(r.user, Edited(app_user[r.user], r),
                    [Event(r.user, "Updated", r.email, 0) EXCEPT !.country = r.country])
         ELSE UNCHANGED <<app_user, users_log>>
    /\ Idle(c)
    /\ UNCHANGED <<refresh_token, sessions_log, access, now>>

NotificationEvent(u) ==
    /\ Authed(u)
    /\ Write(u, app_user[u], Event(u, "Notification", None, 0))
    /\ UNCHANGED <<refresh_token, sessions_log, access, call, now>>

-----------------------------------------------------------------------------
(* Sessions *)

Authenticate(c) ==
    /\ call[c] = None
    /\ \E u \in Users :
         /\ Exists(u) /\ app_user[u].email_verified
         /\ call' = [call EXCEPT ![c] = Request("issue", u)]
    /\ UNCHANGED <<app_user, refresh_token, users_log, sessions_log, access, now>>

NewSession(u) == [version |-> 1, user_id |-> u, revoked |-> FALSE,
                  expires_at |-> now + REFRESH_TTL, born |-> NextVersion(u) - 1]

SessionWrite(type, t, version) ==
    /\ Len(sessions_log) < MaxSessionEvents
    /\ sessions_log' = Append(sessions_log, [type |-> type, token |-> t, version |-> version])

Mint(u) == access' = [access EXCEPT ![u] = now + JWT_TTL]

Issue(c) ==
    /\ call[c] # None /\ call[c].op = "issue"
    /\ LET u == call[c].user IN
         /\ \E t \in Tokens :
              /\ Unused(t)
              /\ refresh_token' = [refresh_token EXCEPT ![t] = NewSession(u)]
              /\ SessionWrite("Issued", t, 1)
         /\ Mint(u)
    /\ Idle(c)
    /\ UNCHANGED <<app_user, users_log, now>>

Usable(t) ==
    /\ refresh_token[t] # None
    /\ ~refresh_token[t].revoked
    /\ refresh_token[t].expires_at >= now

RotateRead(c) ==
    /\ call[c] = None
    /\ \E t \in Tokens :
         /\ Usable(t)
         /\ call' = [call EXCEPT ![c] =
                [Request("rotate", refresh_token[t].user_id) EXCEPT !.token = t]]
    /\ UNCHANGED <<app_user, refresh_token, users_log, sessions_log, access, now>>

\* patch_by_token_hash: no row, no effect.
Revoked(t) ==
    IF refresh_token[t] = None THEN None
    ELSE [refresh_token[t] EXCEPT !.revoked = TRUE]

Rotate(c) ==
    /\ call[c] # None /\ call[c].op = "rotate"
    /\ LET u == call[c].user
           old == call[c].token IN
         /\ \E t \in Tokens :
              /\ Unused(t)
              /\ refresh_token' = [refresh_token EXCEPT ![old] = Revoked(old),
                                                        ![t] = NewSession(u)]
              /\ SessionWrite("Rotated", t, 1)
         /\ Mint(u)
    /\ Idle(c)
    /\ UNCHANGED <<app_user, users_log, now>>

RevokeRead(c) ==
    /\ call[c] = None
    /\ \E t \in Tokens :
         /\ refresh_token[t] # None
         /\ call' = [call EXCEPT ![c] =
                [Request("revoke", refresh_token[t].user_id) EXCEPT !.token = t]]
    /\ UNCHANGED <<app_user, refresh_token, users_log, sessions_log, access, now>>

Expired(row) == row # None /\ row.expires_at < now

\* The logout also drops every expired row of the table, its own if it has expired.
Revoke(c) ==
    /\ call[c] # None /\ call[c].op = "revoke"
    /\ LET t == call[c].token
           v == NextTokenVersion(t)
           ended == IF refresh_token[t] = None THEN None
                    ELSE [Revoked(t) EXCEPT !.version = v] IN
         /\ refresh_token' = [k \in Tokens |->
                IF Expired(refresh_token[k]) THEN None
                ELSE IF k = t THEN ended ELSE refresh_token[k]]
         /\ SessionWrite("Revoked", t, v)
    /\ Idle(c)
    /\ UNCHANGED <<app_user, users_log, access, now>>

-----------------------------------------------------------------------------

Tick ==
    /\ now < MaxTime
    /\ now' = now + 1
    /\ UNCHANGED <<app_user, refresh_token, users_log, sessions_log, access, call>>

UserInit ==
    /\ app_user = [u \in Users |-> None]
    /\ refresh_token = [t \in Tokens |-> None]
    /\ users_log = [u \in Users |-> <<>>]
    /\ sessions_log = <<>>
    /\ access = [u \in Users |-> 0]
    /\ call = [c \in Clients |-> None]
    /\ now = 0

\* Everything that needs no mailed link; VerifyEmail and ResetPassword need one.
UserNext ==
    \/ \E c \in Clients :
         \/ SignupRead(c) \/ SignupCommit(c)
         \/ ResendRead(c) \/ ResendVerification(c)
         \/ ForgotRead(c) \/ ForgotPassword(c)
         \/ UpdateRead(c) \/ ChangePassword(c) \/ UpdateUser(c)
         \/ Authenticate(c) \/ Issue(c)
         \/ RotateRead(c) \/ Rotate(c)
         \/ RevokeRead(c) \/ Revoke(c)
    \/ \E u \in Users : NotificationEvent(u)
    \/ Tick
=============================================================================
