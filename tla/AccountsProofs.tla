-------------------------- MODULE AccountsProofs --------------------------
(***************************************************************************)
(* What holds of Accounts for every number of people, addresses, requests, *)
(* sessions, onboardings and faults, and however many writes there are.    *)
(*                                                                         *)
(* The second half is a host's onboarding: the mirror that payment-service *)
(* projects says what the account's events say, and every account opened   *)
(* at Stripe was opened for details the account had.                       *)
(*                                                                         *)
(* DetailsAt is a recursive function, so what it says of a log is only     *)
(* known once some function is shown to satisfy its recursion.  There is   *)
(* no induction over data here: that there is exactly one is an invariant, *)
(* which every event that is appended preserves.                           *)
(***************************************************************************)
EXTENDS Accounts, SequenceTheorems, FiniteSetTheorems, TLAPS

\* A row that is there has been written, and stands at the number of its events.
RowsCounted ==
    /\ VersionsGapless
    /\ \A u \in Users : Exists(u) => app_user[u].version >= 1

\* An account's first event, and no other, is its registration, with an address
\* and no country yet.
LogsBegin ==
    \A u \in Users : \A i \in DOMAIN users_log[u] :
        /\ users_log[u][i].type = "Registered" <=> i = 1
        /\ users_log[u][i].type = "Registered" =>
               users_log[u][i].email \in Emails /\ users_log[u][i].country = None

\* A signup is alone with its id; every other request is about an account.
CallsCurrent ==
    \A c \in Clients : call[c] # None =>
        /\ call[c].op = "signup" =>
               /\ ~Exists(call[c].user) /\ call[c].email \in Emails
               /\ \A d \in Clients \ {c} : call[d] # None => call[d].user # call[c].user
        /\ call[c].op # "signup" => Exists(call[c].user)
        /\ call[c].op \in {"resend", "forgot"} => call[c].email \in Emails
        /\ call[c].op \in {"rotate", "revoke"} => call[c].token \in Tokens

\* A session is an account's.
SessionsOwned == \A t \in Tokens : refresh_token[t] # None => Exists(refresh_token[t].user_id)

\* The mirror is at one of the account's events.
HostBehind == \A u \in Users : host[u] # None => host[u].version \in 1..Len(users_log[u])

\* A mail is about a committed event, and a reset link names the version it was asked at.
MailsTrue ==
    \A m \in inbox :
        /\ m.key \in Keys /\ Committed(m.key) /\ m.link.user = m.key[1]
        /\ m.link.purpose = "ResetPassword" =>
               m.link.ver = m.key[2] /\ EventOf(m.key).type = "PasswordResetRequested"

IInv ==
    /\ TypeOK /\ RowsCounted /\ LogsBegin /\ CallsCurrent
    /\ SessionsOwned /\ HostBehind /\ MailsTrue

-----------------------------------------------------------------------------
(* A step's effect on one account *)

\* The reset link that version k of u was mailed for is being redeemed.
Redeems(u, k) ==
    /\ StillAt(u, k)
    /\ k \in DOMAIN users_log[u] /\ users_log[u][k].type = "PasswordResetRequested"

\* What every transaction that writes u has checked under its lock.
Suits(u, row, event) ==
    /\ row.version = NextVersion(u) /\ event.version = NextVersion(u)
    /\ EmailFree(u, row.email) \/ (Exists(u) /\ row.email = app_user[u].email)
    /\ event.type = "Registered" => ~Exists(u) /\ event.email \in Emails /\ event.country = None
    /\ event.type # "Registered" => Exists(u)
    /\ event.type \in MailRequests =>
           MaySend(LastMail(u)) /\ row.mail_requested_at = now /\ event.at = now
    /\ event.type \notin MailRequests /\ Exists(u) =>
           row.mail_requested_at = app_user[u].mail_requested_at
    /\ event.link # 0 => Redeems(u, event.link) /\ refresh_token' = RevokeAllForUser(u)

Writes(u, row, event) ==
    /\ app_user' = [app_user EXCEPT ![u] = row]
    /\ users_log' = [users_log EXCEPT ![u] = Append(@, event)]
    /\ Suits(u, row, event)

\* Bumping the version of a row, or an event, changes nothing else.
LEMMA Bumped ==
    ASSUME NEW r \in Account, NEW v \in Nat, NEW n, n = [r EXCEPT !.version = v]
    PROVE  /\ n \in Account /\ n.version = v /\ n.email = r.email
           /\ n.mail_requested_at = r.mail_requested_at
BY DEF Account

\* The version a transaction is given.
LEMMA NextVersionIsNat ==
    ASSUME TypeOK, NEW u \in Users
    PROVE  /\ NextVersion(u) \in Nat \ {0}
           /\ Exists(u) => app_user[u] \in Account /\ NextVersion(u) = app_user[u].version + 1
BY DEF TypeOK, NextVersion, Exists, Account

\* The event of a transaction.
LEMMA EventTypes ==
    ASSUME TypeOK, NEW u \in Users, NEW type \in UserEvents, NEW e \in Emails \cup {None},
           NEW k \in Nat
    PROVE  LET event == Event(u, type, e, k) IN
           /\ event \in Envelope
           /\ event.type = type /\ event.version = NextVersion(u) /\ event.link = k
           /\ event.email = e /\ event.country = None
           /\ type \in MailRequests => event.at = now
<1>1. NextVersion(u) \in Nat /\ now \in Nat
    BY NextVersionIsNat DEF TypeOK
<1> QED BY <1>1 DEF Event, Envelope

\* A transaction that commits is one write of one row.
LEMMA WriteSuits ==
    ASSUME TypeOK, NEW u \in Users, NEW row \in Account, NEW event \in Envelope,
           Write(u, row, event), Suits(u, [row EXCEPT !.version = NextVersion(u)], event)
    PROVE  \E r \in Account, e \in Envelope : Writes(u, r, e)
<1> DEFINE r == [row EXCEPT !.version = NextVersion(u)]
<1>1. r \in Account
    BY NextVersionIsNat, Bumped
<1>2. Writes(u, r, event)
    BY DEF Writes, Write
<1> QED BY <1>1, <1>2

\* The transactions that change no address and ask for no mail.
LEMMA PlainWrite ==
    ASSUME TypeOK, NEW u \in Users, Exists(u), NEW row \in Account,
           row.email = app_user[u].email,
           row.mail_requested_at = app_user[u].mail_requested_at,
           NEW type \in UserEvents \ (MailRequests \cup {"Registered"}), NEW k \in Nat,
           k # 0 => Redeems(u, k) /\ refresh_token' = RevokeAllForUser(u),
           Write(u, row, Event(u, type, None, k))
    PROVE  \E r \in Account, e \in Envelope : Writes(u, r, e)
<1> DEFINE r == [row EXCEPT !.version = NextVersion(u)]
           event == Event(u, type, None, k)
<1>1. /\ event \in Envelope /\ event.type = type
      /\ event.version = NextVersion(u) /\ event.link = k
    BY EventTypes
<1>2. /\ r.version = NextVersion(u) /\ r.email = row.email
      /\ r.mail_requested_at = row.mail_requested_at
    BY NextVersionIsNat, Bumped
<1>3. Suits(u, r, event)
  <2> HIDE DEF r, event
  <2> QED BY <1>1, <1>2 DEF Suits
<1> QED BY <1>1, <1>3, WriteSuits

LEMMA SignupWrites ==
    ASSUME IInv, NEW c \in Clients, SignupCommit(c)
    PROVE  \/ UNCHANGED <<app_user, users_log>>
           \/ \E r \in Account, e \in Envelope : Writes(call[c].user, r, e)
<1> DEFINE u == call[c].user
           e == call[c].email
           row == Registered(e)
           event == Event(u, "Registered", e, 0)
           r == [row EXCEPT !.version = NextVersion(u)]
<1>1. u \in Users /\ e \in Emails /\ ~Exists(u)
    BY DEF IInv, TypeOK, Call, CallsCurrent, SignupCommit
<1>2. row \in Account /\ row.email = e
    BY <1>1 DEF Account, Registered
<1>3. event \in Envelope /\ event.type = "Registered" /\ event.version = NextVersion(u)
      /\ event.link = 0 /\ event.email = e /\ event.country = None
    BY <1>1, EventTypes DEF IInv, UserEvents
<1>4. r.version = NextVersion(u) /\ r.email = e
    BY <1>1, <1>2, NextVersionIsNat, Bumped DEF IInv
<1>5. CASE EmailFree(u, e)
  <2>1. Write(u, row, event)
    BY <1>5 DEF SignupCommit
  <2>2. Suits(u, r, event)
    <3> HIDE DEF row, event, r, u, e
    <3> QED BY <1>1, <1>3, <1>4, <1>5 DEF Suits, MailRequests
  <2> QED BY <1>1, <1>2, <1>3, <2>1, <2>2, WriteSuits DEF IInv
<1>6. CASE ~EmailFree(u, e)
    BY <1>6 DEF SignupCommit
<1> QED BY <1>5, <1>6

LEMMA MailWrites ==
    ASSUME IInv, NEW c \in Clients, NEW op \in {"resend", "forgot"}, NEW type \in MailRequests,
           RequestMail(c, op, type)
    PROVE  \/ UNCHANGED <<app_user, users_log>>
           \/ \E r \in Account, e \in Envelope : Writes(call[c].user, r, e)
<1> DEFINE u == call[c].user
           e == call[c].email
           row == Stamp(app_user[u])
           event == Event(u, type, e, 0)
           r == [row EXCEPT !.version = NextVersion(u)]
<1>1. u \in Users /\ e \in Emails /\ Exists(u)
    BY DEF IInv, TypeOK, Call, CallsCurrent, RequestMail
<1>2. app_user[u] \in Account /\ now \in Nat
    BY <1>1, NextVersionIsNat DEF IInv, TypeOK
<1>3. row \in Account /\ row.email = app_user[u].email /\ row.mail_requested_at = now
    BY <1>2 DEF Account, Stamp
<1>4. event \in Envelope /\ event.type = type /\ event.version = NextVersion(u)
      /\ event.link = 0 /\ event.at = now
    BY <1>1, EventTypes DEF IInv, UserEvents, MailRequests
<1>5. r.version = NextVersion(u) /\ r.email = app_user[u].email /\ r.mail_requested_at = now
    BY <1>1, <1>3, NextVersionIsNat, Bumped DEF IInv
<1>6. CASE MaySend(LastMail(u))
  <2>1. Write(u, row, event)
    BY <1>6 DEF RequestMail
  <2>2. Suits(u, r, event)
    <3> HIDE DEF row, event, r, u, e
    <3> QED BY <1>1, <1>4, <1>5, <1>6 DEF Suits, MailRequests
  <2> QED BY <1>1, <1>3, <1>4, <2>1, <2>2, WriteSuits DEF IInv
<1>7. CASE ~MaySend(LastMail(u))
    BY <1>7 DEF RequestMail
<1> QED BY <1>6, <1>7

LEMMA UpdateWrites ==
    ASSUME IInv, NEW c \in Clients, UpdateUser(c)
    PROVE  \/ UNCHANGED <<app_user, users_log>>
           \/ \E r \in Account, e \in Envelope : Writes(call[c].user, r, e)
<1> DEFINE u == call[c].user
           q == call[c]
           row == Edited(app_user[u], q)
           plain == Event(u, "Updated", q.email, 0)
           event == [plain EXCEPT !.country = q.country]
           r == [row EXCEPT !.version = NextVersion(u)]
<1>1. u \in Users /\ q \in Call /\ Exists(u)
    BY DEF IInv, TypeOK, Call, CallsCurrent, UpdateUser
<1>2. app_user[u] \in Account
    BY <1>1, NextVersionIsNat DEF IInv
<1>3. /\ row \in Account
      /\ row.email = (IF q.email = None THEN app_user[u].email ELSE q.email)
      /\ row.mail_requested_at = app_user[u].mail_requested_at
  <2> DEFINE moved == Readdressed(app_user[u], q)
  <2>1. q.email \in Emails \cup {None} /\ q.country \in Countries \cup {None}
    BY <1>1 DEF Call
  <2>2. /\ moved \in Account
        /\ moved.email = (IF q.email = None THEN app_user[u].email ELSE q.email)
        /\ moved.mail_requested_at = app_user[u].mail_requested_at
    BY <1>2, <2>1 DEF Account, Readdressed
  <2>3. row = [moved EXCEPT !.country = IF q.country = None THEN @ ELSE q.country]
    BY DEF Edited
  <2> HIDE DEF moved, row, q
  <2> QED BY <2>1, <2>2, <2>3 DEF Account
<1>4. event \in Envelope /\ event.type = "Updated" /\ event.version = NextVersion(u)
      /\ event.link = 0
  <2>1. q.email \in Emails \cup {None} /\ q.country \in Countries \cup {None}
    BY <1>1 DEF Call
  <2>2. plain \in Envelope /\ plain.type = "Updated" /\ plain.version = NextVersion(u)
        /\ plain.link = 0
    BY <1>1, <2>1, EventTypes DEF IInv, UserEvents
  <2> HIDE DEF plain, q
  <2> QED BY <2>1, <2>2 DEF Envelope
<1>5. /\ r.version = NextVersion(u) /\ r.email = row.email
      /\ r.mail_requested_at = app_user[u].mail_requested_at
    BY <1>1, <1>3, NextVersionIsNat, Bumped DEF IInv
<1>6. CASE q.email = None \/ EmailFree(u, q.email)
  <2>1. Write(u, row, event)
    BY <1>6 DEF UpdateUser
  <2>2. Suits(u, r, event)
    <3> HIDE DEF row, event, r, u, q
    <3> QED BY <1>1, <1>3, <1>4, <1>5, <1>6 DEF Suits, MailRequests
  <2> QED BY <1>1, <1>3, <1>4, <2>1, <2>2, WriteSuits DEF IInv
<1>7. CASE ~(q.email = None \/ EmailFree(u, q.email))
    BY <1>7 DEF UpdateUser
<1> QED BY <1>6, <1>7

LEMMA LinkWrites ==
    ASSUME IInv, NEW m \in inbox, Opens(m.link)
    PROVE  \E u \in Users, r \in Account, e \in Envelope : Writes(u, r, e)
<1> DEFINE u == m.link.user
           k == m.link.ver
           row == [app_user[u] EXCEPT !.email_verified = TRUE]
<1>1. u \in Users /\ k \in Nat /\ m.key \in Keys /\ Committed(m.key) /\ u = m.key[1]
    BY DEF IInv, TypeOK, MailsTrue
<1>2. Exists(u)
  <2>1. Len(users_log[u]) = IF Exists(u) THEN app_user[u].version ELSE 0
    BY <1>1 DEF IInv, RowsCounted, VersionsGapless
  <2>2. m.key[2] \in DOMAIN users_log[u] /\ users_log[u] \in Seq(Envelope)
    BY <1>1 DEF Committed, IInv, TypeOK
  <2> QED BY <2>1, <2>2
<1>3. app_user[u] \in Account
    BY <1>1, <1>2, NextVersionIsNat DEF IInv
<1>4. /\ row \in Account /\ row.email = app_user[u].email
      /\ row.mail_requested_at = app_user[u].mail_requested_at
    BY <1>3 DEF Account
<1>5. CASE Verified(m.link, "VerifyEmail", now) /\ VerifyEmail(u)
  <2>1. Write(u, row, Event(u, "EmailVerified", None, 0))
    BY <1>5 DEF VerifyEmail
  <2> HIDE DEF row, u
  <2> QED BY <1>1, <1>2, <1>4, <2>1, PlainWrite DEF IInv, UserEvents, MailRequests
<1>6. CASE Verified(m.link, "ResetPassword", now) /\ ResetPassword(u, k)
  <2>1. /\ Write(u, row, Event(u, "PasswordChanged", None, k))
        /\ refresh_token' = RevokeAllForUser(u) /\ StillAt(u, k)
    BY <1>6 DEF ResetPassword
  <2>2. Redeems(u, k)
    BY <1>1, <1>6, <2>1 DEF Redeems, Verified, IInv, MailsTrue, Committed, EventOf
  <2> HIDE DEF row, u, k
  <2> QED BY <1>1, <1>2, <1>4, <2>1, <2>2, PlainWrite DEF IInv, UserEvents, MailRequests
<1> QED BY <1>5, <1>6 DEF Opens

\* Every step writes at most one account, as its transaction checked.
LEMMA OneWrite ==
    ASSUME IInv, [Next]_vars
    PROVE  \/ UNCHANGED <<app_user, users_log>>
           \/ \E u \in Users, r \in Account, e \in Envelope : Writes(u, r, e)
<1>0. \A c \in Clients : call[c] # None => call[c].user \in Users
    BY DEF IInv, TypeOK, Call
<1>1. ASSUME NEW c \in Clients, SignupCommit(c)
      PROVE  \/ UNCHANGED <<app_user, users_log>>
             \/ \E u \in Users, r \in Account, e \in Envelope : Writes(u, r, e)
    BY <1>0, <1>1, SignupWrites DEF SignupCommit
<1>2. ASSUME NEW c \in Clients, ResendVerification(c)
      PROVE  \/ UNCHANGED <<app_user, users_log>>
             \/ \E u \in Users, r \in Account, e \in Envelope : Writes(u, r, e)
  <2>1. RequestMail(c, "resend", "VerificationRequested")
    BY <1>2 DEF ResendVerification
  <2> QED BY <1>0, <2>1, MailWrites DEF RequestMail, MailRequests
<1>3. ASSUME NEW c \in Clients, ForgotPassword(c)
      PROVE  \/ UNCHANGED <<app_user, users_log>>
             \/ \E u \in Users, r \in Account, e \in Envelope : Writes(u, r, e)
  <2>1. RequestMail(c, "forgot", "PasswordResetRequested")
    BY <1>3 DEF ForgotPassword
  <2> QED BY <1>0, <2>1, MailWrites DEF RequestMail, MailRequests
<1>4. ASSUME NEW c \in Clients, UpdateUser(c)
      PROVE  \/ UNCHANGED <<app_user, users_log>>
             \/ \E u \in Users, r \in Account, e \in Envelope : Writes(u, r, e)
    BY <1>0, <1>4, UpdateWrites DEF UpdateUser
<1>5. ASSUME NEW u \in Users, Exists(u),
             NEW type \in {"PasswordChanged", "Notification"},
             Write(u, app_user[u], Event(u, type, None, 0))
      PROVE  \E v \in Users, r \in Account, e \in Envelope : Writes(v, r, e)
    BY <1>5, NextVersionIsNat, PlainWrite DEF IInv, UserEvents, MailRequests
<1>6. ASSUME NEW c \in Clients, ChangePassword(c)
      PROVE  \E u \in Users, r \in Account, e \in Envelope : Writes(u, r, e)
    BY <1>0, <1>5, <1>6 DEF ChangePassword, IInv, CallsCurrent
<1>7. ASSUME NEW u \in Users, NotificationEvent(u)
      PROVE  \E v \in Users, r \in Account, e \in Envelope : Writes(v, r, e)
    BY <1>5, <1>7 DEF NotificationEvent, Authed
<1>8. CASE UserNext
  <2>1. ASSUME NEW c \in Clients,
               \/ SignupRead(c) \/ ResendRead(c) \/ ForgotRead(c) \/ UpdateRead(c)
               \/ Authenticate(c) \/ Issue(c) \/ RotateRead(c) \/ Rotate(c)
               \/ RevokeRead(c) \/ Revoke(c)
        PROVE  UNCHANGED <<app_user, users_log>>
    BY <2>1 DEF SignupRead, ResendRead, ForgotRead, UpdateRead, Authenticate, Issue,
                RotateRead, Rotate, RevokeRead, Revoke
  <2>2. Tick => UNCHANGED <<app_user, users_log>>
    BY DEF Tick
  <2> QED BY <1>1, <1>2, <1>3, <1>4, <1>6, <1>7, <1>8, <2>1, <2>2, Zenon DEF UserNext
<1>9. CASE \E m \in inbox : Opens(m.link)
    BY <1>9, LinkWrites
<1>10. CASE UNCHANGED userVars
    BY <1>10 DEF userVars
<1>11. \/ UserNext \/ (\E m \in inbox : Opens(m.link)) \/ UNCHANGED userVars
    BY DEF Next, vars, Works, Disturbed
<1> QED BY <1>8, <1>9, <1>10, <1>11

\* What a write leaves: one longer log, everything else as it was.
LEMMA WriteEffect ==
    ASSUME TypeOK, NEW u \in Users, NEW r \in Account, NEW e \in Envelope, Writes(u, r, e)
    PROVE  /\ app_user' \in [Users -> Account \cup {None}]
           /\ users_log' \in [Users -> Seq(Envelope)]
           /\ \A v \in Users \ {u} : app_user'[v] = app_user[v] /\ users_log'[v] = users_log[v]
           /\ app_user'[u] = r /\ r # None
           /\ Len(users_log[u]) \in Nat
           /\ DOMAIN users_log[u] = 1..Len(users_log[u])
           /\ Len(users_log'[u]) = Len(users_log[u]) + 1
           /\ DOMAIN users_log'[u] = 1..(Len(users_log[u]) + 1)
           /\ \A i \in DOMAIN users_log[u] : users_log'[u][i] = users_log[u][i]
           /\ users_log'[u][Len(users_log[u]) + 1] = e
<1> DEFINE log == users_log[u]
           new == Append(log, e)
<1>1. log \in Seq(Envelope)
    BY DEF TypeOK
<1>2. /\ new \in Seq(Envelope) /\ Len(new) = Len(log) + 1
      /\ \A i \in 1..Len(log) : new[i] = log[i]
      /\ new[Len(log) + 1] = e
    BY <1>1, AppendProperties
<1>3. DOMAIN log = 1..Len(log) /\ DOMAIN new = 1..Len(new) /\ Len(log) \in Nat
    BY <1>1, <1>2, LenProperties
<1>4. users_log' = [users_log EXCEPT ![u] = new] /\ app_user' = [app_user EXCEPT ![u] = r]
    BY DEF Writes
<1>5. users_log'[u] = new /\ app_user'[u] = r
    BY <1>4 DEF TypeOK
<1>6. /\ app_user' \in [Users -> Account \cup {None}]
      /\ \A v \in Users \ {u} : app_user'[v] = app_user[v] /\ users_log'[v] = users_log[v]
    BY <1>4 DEF TypeOK
<1>7. users_log' \in [Users -> Seq(Envelope)]
  <2> HIDE DEF new
  <2> QED BY <1>2, <1>4 DEF TypeOK
<1>8. r # None
    BY NoneAssumption
<1> HIDE DEF new
<1> QED BY <1>2, <1>3, <1>5, <1>6, <1>7, <1>8

\* Accounts stay, and logs only grow.
LEMMA LogsGrow ==
    ASSUME IInv, [Next]_vars
    PROVE  /\ app_user' \in [Users -> Account \cup {None}]
           /\ users_log' \in [Users -> Seq(Envelope)]
           /\ \A u \in Users : Exists(u) => Exists(u)'
           /\ \A u \in Users : /\ Len(users_log[u]) \in Nat /\ Len(users_log'[u]) \in Nat
                               /\ Len(users_log[u]) <= Len(users_log'[u])
                               /\ DOMAIN users_log[u] = 1..Len(users_log[u])
                               /\ DOMAIN users_log'[u] = 1..Len(users_log'[u])
           /\ \A u \in Users : \A i \in DOMAIN users_log[u] : users_log'[u][i] = users_log[u][i]
<1>0. TypeOK
    BY DEF IInv
<1>1. CASE UNCHANGED <<app_user, users_log>>
  <2>1. \A u \in Users : users_log[u] \in Seq(Envelope)
    BY <1>0 DEF TypeOK
  <2>2. \A u \in Users : Len(users_log[u]) \in Nat /\ DOMAIN users_log[u] = 1..Len(users_log[u])
    BY <2>1, LenProperties
  <2> QED BY <1>0, <1>1, <2>2 DEF TypeOK, Exists
<1>2. ASSUME NEW u \in Users, NEW r \in Account, NEW e \in Envelope, Writes(u, r, e)
      PROVE  /\ app_user' \in [Users -> Account \cup {None}]
             /\ users_log' \in [Users -> Seq(Envelope)]
             /\ \A v \in Users : Exists(v) => Exists(v)'
             /\ \A v \in Users : /\ Len(users_log[v]) \in Nat /\ Len(users_log'[v]) \in Nat
                                 /\ Len(users_log[v]) <= Len(users_log'[v])
                                 /\ DOMAIN users_log[v] = 1..Len(users_log[v])
                                 /\ DOMAIN users_log'[v] = 1..Len(users_log'[v])
             /\ \A v \in Users : \A i \in DOMAIN users_log[v] : users_log'[v][i] = users_log[v][i]
  <2> SUFFICES ASSUME NEW v \in Users
               PROVE  /\ Exists(v) => Exists(v)'
                      /\ Len(users_log[v]) \in Nat /\ Len(users_log'[v]) \in Nat
                      /\ Len(users_log[v]) <= Len(users_log'[v])
                      /\ DOMAIN users_log[v] = 1..Len(users_log[v])
                      /\ DOMAIN users_log'[v] = 1..Len(users_log'[v])
                      /\ \A i \in DOMAIN users_log[v] : users_log'[v][i] = users_log[v][i]
    BY <1>0, <1>2, WriteEffect
  <2>1. CASE v = u
    BY <1>0, <1>2, <2>1, WriteEffect DEF Exists
  <2>2. CASE v # u
    <3>1. users_log'[v] = users_log[v] /\ app_user'[v] = app_user[v]
      BY <1>0, <1>2, <2>2, WriteEffect
    <3>2. users_log[v] \in Seq(Envelope)
      BY <1>0 DEF TypeOK
    <3>3. Len(users_log[v]) \in Nat /\ DOMAIN users_log[v] = 1..Len(users_log[v])
      BY <3>2, LenProperties
    <3> QED BY <3>1, <3>3 DEF Exists
  <2> QED BY <2>1, <2>2
<1> QED BY <1>1, <1>2, OneWrite

-----------------------------------------------------------------------------
(* The other tables *)

\* A row of refresh_token after a step: the row before, perhaps revoked, or a
\* new session of somebody whose account stands still.
SessionKept(t) ==
    /\ refresh_token[t] # None
    /\ refresh_token'[t].user_id = refresh_token[t].user_id
    /\ refresh_token'[t].born = refresh_token[t].born
    /\ ~refresh_token'[t].revoked => ~refresh_token[t].revoked

SessionNew(t) ==
    /\ UNCHANGED <<app_user, users_log>>
    /\ Exists(refresh_token'[t].user_id)
    /\ refresh_token'[t].born = NextVersion(refresh_token'[t].user_id) - 1

LEMMA NewSessionTypes ==
    ASSUME TypeOK, NEW u \in Users
    PROVE  /\ NewSession(u) \in Session /\ NewSession(u).user_id = u
           /\ NewSession(u).born = NextVersion(u) - 1
           /\ NewSession(u) # None
<1>1. NextVersion(u) - 1 \in Nat /\ now + REFRESH_TTL \in Nat
    BY NextVersionIsNat, UserAssumption DEF TypeOK
<1>2. NewSession(u) \in Session
    BY <1>1 DEF NewSession, Session
<1> QED BY <1>2, NoneAssumption DEF NewSession

LEMMA RevokedTypes ==
    ASSUME TypeOK, NEW s \in Session
    PROVE  LET r == [s EXCEPT !.revoked = TRUE] IN
           r \in Session /\ r.user_id = s.user_id /\ r.born = s.born /\ r.revoked /\ r # None
BY NoneAssumption DEF Session

SessionSteps ==
    /\ refresh_token' \in [Tokens -> Session \cup {None}]
    /\ \A t \in Tokens : refresh_token'[t] # None => SessionKept(t) \/ SessionNew(t)

LEMMA SameSessions ==
    ASSUME TypeOK, refresh_token' = refresh_token
    PROVE  SessionSteps
BY DEF TypeOK, SessionSteps, SessionKept, SessionNew

LEMMA BulkRevocation ==
    ASSUME TypeOK, NEW u \in Users, refresh_token' = RevokeAllForUser(u)
    PROVE  SessionSteps
<1> SUFFICES ASSUME NEW t \in Tokens
             PROVE  /\ refresh_token'[t] \in Session \cup {None}
                    /\ refresh_token'[t] # None => SessionKept(t)
    BY DEF SessionSteps, RevokeAllForUser
<1>1. refresh_token[t] \in Session \cup {None}
    BY DEF TypeOK
<1>2. CASE refresh_token[t] # None /\ refresh_token[t].user_id = u
  <2>1. refresh_token'[t] = [refresh_token[t] EXCEPT !.revoked = TRUE]
    BY <1>2 DEF RevokeAllForUser
  <2> QED BY <1>1, <1>2, <2>1, RevokedTypes DEF SessionKept
<1>3. CASE ~(refresh_token[t] # None /\ refresh_token[t].user_id = u)
    BY <1>1, <1>3 DEF RevokeAllForUser, SessionKept
<1> QED BY <1>2, <1>3

LEMMA IssueSessions ==
    ASSUME IInv, NEW c \in Clients, Issue(c)
    PROVE  SessionSteps
<1> DEFINE u == call[c].user
<1>1. u \in Users /\ Exists(u) /\ TypeOK /\ UNCHANGED <<app_user, users_log>>
    BY DEF IInv, TypeOK, Call, CallsCurrent, Issue
<1>2. PICK t \in Tokens : refresh_token' = [refresh_token EXCEPT ![t] = NewSession(u)]
    BY DEF Issue
<1> HIDE DEF u
<1>3. refresh_token' \in [Tokens -> Session \cup {None}]
    BY <1>1, <1>2, NewSessionTypes DEF TypeOK
<1>4. ASSUME NEW k \in Tokens, refresh_token'[k] # None
      PROVE  SessionKept(k) \/ SessionNew(k)
  <2>1. CASE k = t
    <3>1. refresh_token'[k] = NewSession(u)
      BY <1>1, <1>2, <2>1 DEF TypeOK
    <3> QED BY <1>1, <3>1, NewSessionTypes DEF SessionNew
  <2>2. CASE k # t
    <3>1. refresh_token'[k] = refresh_token[k]
      BY <1>1, <1>2, <2>2 DEF TypeOK
    <3> QED BY <1>4, <3>1 DEF SessionKept
  <2> QED BY <2>1, <2>2
<1> QED BY <1>3, <1>4 DEF SessionSteps

LEMMA RotateSessions ==
    ASSUME IInv, NEW c \in Clients, Rotate(c)
    PROVE  SessionSteps
<1> DEFINE u == call[c].user
           old == call[c].token
<1>1. u \in Users /\ Exists(u) /\ old \in Tokens /\ TypeOK /\ UNCHANGED <<app_user, users_log>>
    BY DEF IInv, TypeOK, Call, CallsCurrent, Rotate
<1>2. PICK t \in Tokens :
          refresh_token' = [refresh_token EXCEPT ![old] = Revoked(old), ![t] = NewSession(u)]
    BY DEF Rotate
<1>3. refresh_token[old] \in Session \cup {None}
    BY <1>1 DEF TypeOK
<1>4. Revoked(old) \in Session \cup {None}
    BY <1>1, <1>3, RevokedTypes DEF Revoked
<1> HIDE DEF u, old
<1>5. refresh_token' \in [Tokens -> Session \cup {None}]
    BY <1>1, <1>2, <1>4, NewSessionTypes DEF TypeOK
<1>6. ASSUME NEW k \in Tokens, refresh_token'[k] # None
      PROVE  SessionKept(k) \/ SessionNew(k)
  <2>1. CASE k = t
    <3>1. refresh_token'[k] = NewSession(u)
      BY <1>1, <1>2, <2>1 DEF TypeOK
    <3> QED BY <1>1, <3>1, NewSessionTypes DEF SessionNew
  <2>2. CASE k # t /\ k = old
    <3>1. refresh_token'[k] = Revoked(k)
      BY <1>1, <1>2, <2>2 DEF TypeOK
    <3> QED BY <1>1, <1>3, <1>6, <2>2, <3>1, RevokedTypes DEF SessionKept, Revoked
  <2>3. CASE k # t /\ k # old
    <3>1. refresh_token'[k] = refresh_token[k]
      BY <1>1, <1>2, <2>3 DEF TypeOK
    <3> QED BY <1>6, <3>1 DEF SessionKept
  <2> QED BY <2>1, <2>2, <2>3
<1> QED BY <1>5, <1>6 DEF SessionSteps

LEMMA RevokeSessions ==
    ASSUME IInv, NEW c \in Clients, Revoke(c)
    PROVE  SessionSteps
<1> DEFINE t == call[c].token
           v == NextTokenVersion(t)
<1>1. t \in Tokens /\ TypeOK
    BY DEF IInv, CallsCurrent, Revoke
<1>2. v \in Nat
    BY <1>1 DEF TypeOK, NextTokenVersion, Session
<1> DEFINE ended == IF refresh_token[t] = None THEN None ELSE [Revoked(t) EXCEPT !.version = v]
<1>3. refresh_token' = [k \in Tokens |-> IF Expired(refresh_token[k]) THEN None
                                         ELSE IF k = t THEN ended ELSE refresh_token[k]]
    BY DEF Revoke
<1>4. /\ ended \in Session \cup {None}
      /\ ended # None => /\ refresh_token[t] # None
                         /\ ended.user_id = refresh_token[t].user_id
                         /\ ended.born = refresh_token[t].born /\ ended.revoked
  <2>1. refresh_token[t] \in Session \cup {None}
    BY <1>1 DEF TypeOK
  <2>2. ASSUME refresh_token[t] # None
        PROVE  /\ ended \in Session /\ ended.user_id = refresh_token[t].user_id
               /\ ended.born = refresh_token[t].born /\ ended.revoked
    <3> DEFINE r == Revoked(t)
    <3>1. r = [refresh_token[t] EXCEPT !.revoked = TRUE]
      BY <2>2 DEF Revoked
    <3>2. /\ r \in Session /\ r.user_id = refresh_token[t].user_id
          /\ r.born = refresh_token[t].born /\ r.revoked
      BY <1>1, <2>1, <2>2, <3>1, RevokedTypes
    <3>3. ended = [r EXCEPT !.version = v]
      BY <2>2
    <3> HIDE DEF r, v, ended
    <3> QED BY <1>2, <3>2, <3>3 DEF Session
  <2> QED BY <2>1, <2>2
<1> HIDE DEF t, ended
<1>5. ASSUME NEW k \in Tokens
      PROVE  /\ refresh_token'[k] \in Session \cup {None}
             /\ refresh_token'[k] # None => SessionKept(k)
  <2>1. refresh_token[k] \in Session \cup {None}
    BY <1>1 DEF TypeOK
  <2>2. CASE Expired(refresh_token[k])
    BY <1>3, <2>2
  <2>3. CASE ~Expired(refresh_token[k]) /\ k = t
    <3>1. refresh_token'[k] = ended
      BY <1>3, <2>3
    <3> QED BY <1>4, <2>3, <3>1 DEF SessionKept
  <2>4. CASE ~Expired(refresh_token[k]) /\ k # t
    <3>1. refresh_token'[k] = refresh_token[k]
      BY <1>3, <2>4
    <3> QED BY <2>1, <3>1 DEF SessionKept
  <2> QED BY <2>2, <2>3, <2>4
<1>6. refresh_token' \in [Tokens -> Session \cup {None}]
    BY <1>3, <1>5
<1> QED BY <1>5, <1>6 DEF SessionSteps

\* A link is somebody's.
LEMMA MailsExist ==
    ASSUME IInv, NEW m \in inbox
    PROVE  m.link.user \in Users /\ Exists(m.link.user)
<1>1. m.link.user \in Users /\ Committed(m.key) /\ m.link.user = m.key[1]
    BY DEF IInv, TypeOK, MailsTrue
<1>2. Len(users_log[m.link.user]) = IF Exists(m.link.user) THEN app_user[m.link.user].version ELSE 0
    BY <1>1 DEF IInv, RowsCounted, VersionsGapless
<1>3. m.key[2] \in DOMAIN users_log[m.link.user] /\ users_log[m.link.user] \in Seq(Envelope)
    BY <1>1 DEF Committed, IInv, TypeOK
<1> QED BY <1>1, <1>2, <1>3

\* Every step treats the sessions so.
LEMMA SessionStep ==
    ASSUME IInv, [Next]_vars
    PROVE  SessionSteps
<1>0. TypeOK
    BY DEF IInv
<1>1. CASE UserNext
  <2>1. ASSUME NEW c \in Clients,
               \/ SignupRead(c) \/ SignupCommit(c) \/ ResendRead(c) \/ ResendVerification(c)
               \/ ForgotRead(c) \/ ForgotPassword(c) \/ UpdateRead(c) \/ ChangePassword(c)
               \/ UpdateUser(c) \/ Authenticate(c) \/ RotateRead(c) \/ RevokeRead(c)
        PROVE  refresh_token' = refresh_token
    BY <2>1 DEF SignupRead, SignupCommit, ResendRead, ResendVerification, ForgotRead,
                ForgotPassword, RequestMail, UpdateRead, ChangePassword, UpdateUser,
                Authenticate, RotateRead, RevokeRead
  <2>2. ASSUME NEW u \in Users, NotificationEvent(u)
        PROVE  refresh_token' = refresh_token
    BY <2>2 DEF NotificationEvent
  <2>3. Tick => refresh_token' = refresh_token
    BY DEF Tick
  <2> QED BY <1>0, <1>1, <2>1, <2>2, <2>3, SameSessions, IssueSessions, RotateSessions,
             RevokeSessions, Zenon DEF UserNext
<1>2. ASSUME NEW m \in inbox, Opens(m.link)
      PROVE  SessionSteps
  <2>1. m.link.user \in Users
    BY <1>0 DEF TypeOK
  <2>2. refresh_token' = refresh_token \/ refresh_token' = RevokeAllForUser(m.link.user)
    BY <1>2 DEF Opens, VerifyEmail, ResetPassword
  <2> QED BY <1>0, <2>1, <2>2, SameSessions, BulkRevocation
<1>3. CASE UNCHANGED userVars
    BY <1>0, <1>3, SameSessions DEF userVars
<1>4. \/ UserNext \/ (\E m \in inbox : Opens(m.link)) \/ UNCHANGED userVars
    BY DEF Next, vars, Works, Disturbed
<1> QED BY <1>1, <1>2, <1>3, <1>4

\* A request in flight, field by field.
LEMMA RequestTypes ==
    ASSUME NEW op \in Ops, NEW u \in Users,
           NEW e \in Emails \cup {None}, NEW n \in Countries \cup {None},
           NEW f \in Emails \cup {None}, NEW t \in Tokens \cup {None}, NEW q,
           q = [op |-> op, user |-> u, email |-> e, country |-> n, read_email |-> f, token |-> t]
    PROVE  /\ q \in Call /\ q # None
           /\ q.op = op /\ q.user = u /\ q.email = e /\ q.token = t
BY NoneAssumption DEF Call

\* What a read leaves behind in the request that made it.
Begins(c, q) ==
    /\ call[c] = None /\ call' = [call EXCEPT ![c] = q]
    /\ q \in Call /\ q # None
    /\ q.op = "signup" => /\ ~Exists(q.user) /\ q.email \in Emails
                          /\ \A d \in Clients : call[d] # None => call[d].user # q.user
    /\ q.op # "signup" => Exists(q.user)
    /\ q.op \in {"resend", "forgot"} => q.email \in Emails
    /\ q.op \in {"rotate", "revoke"} => q.token \in Tokens
    /\ UNCHANGED app_user

\* The reads, one by one.
LEMMA ReadsBegin ==
    ASSUME IInv, NEW c \in Clients,
           \/ SignupRead(c) \/ ResendRead(c) \/ ForgotRead(c) \/ UpdateRead(c)
           \/ Authenticate(c) \/ RotateRead(c) \/ RevokeRead(c)
    PROVE  \E q : Begins(c, q)
<1>1. CASE SignupRead(c)
  <2>1. PICK u \in Users, e \in Emails :
            /\ ~Exists(u) /\ \A d \in Clients : call[d] # None => call[d].user # u
            /\ call' = [call EXCEPT ![c] = [Request("signup", u) EXCEPT !.email = e]]
    BY <1>1 DEF SignupRead
  <2> DEFINE q == [Request("signup", u) EXCEPT !.email = e]
  <2>2. q = [op |-> "signup", user |-> u, email |-> e, country |-> None,
             read_email |-> None, token |-> None]
    BY DEF Request
  <2>3. q \in Call /\ q # None /\ q.op = "signup" /\ q.user = u /\ q.email = e
    BY <2>2, RequestTypes DEF Ops
  <2>4. call[c] = None /\ UNCHANGED app_user /\ call' = [call EXCEPT ![c] = q]
    BY <1>1, <2>1 DEF SignupRead
  <2> HIDE DEF q
  <2> QED BY <2>1, <2>3, <2>4 DEF Begins
<1>2. ASSUME NEW op \in {"resend", "forgot"}, NEW e \in Emails, NEW u \in FindByEmail(e),
             call[c] = None, UNCHANGED app_user,
             call' = [call EXCEPT ![c] = [Request(op, u) EXCEPT !.email = e]]
      PROVE  \E q : Begins(c, q)
  <2> DEFINE q == [Request(op, u) EXCEPT !.email = e]
  <2>1. u \in Users /\ Exists(u)
    BY DEF FindByEmail
  <2>2. q = [op |-> op, user |-> u, email |-> e, country |-> None,
             read_email |-> None, token |-> None]
    BY DEF Request
  <2>3. q \in Call /\ q # None /\ q.op = op /\ q.user = u /\ q.email = e
    BY <2>1, <2>2, RequestTypes DEF Ops
  <2>4. call' = [call EXCEPT ![c] = q]
    BY <1>2
  <2> HIDE DEF q
  <2> QED BY <1>2, <2>1, <2>3, <2>4 DEF Begins
<1>3. CASE ResendRead(c)
    BY <1>2, <1>3 DEF ResendRead
<1>4. CASE ForgotRead(c)
    BY <1>2, <1>4 DEF ForgotRead
<1>5. ASSUME NEW op \in {"password", "issue"}, NEW u \in Users, Exists(u),
             call[c] = None, UNCHANGED app_user,
             call' = [call EXCEPT ![c] = Request(op, u)]
      PROVE  \E q : Begins(c, q)
  <2> DEFINE q == Request(op, u)
  <2>1. q \in Call /\ q # None /\ q.op = op /\ q.user = u
    BY RequestTypes DEF Request, Ops
  <2>2. call' = [call EXCEPT ![c] = q]
    BY <1>5
  <2> HIDE DEF q
  <2> QED BY <1>5, <2>1, <2>2 DEF Begins
<1>6. CASE Authenticate(c)
    BY <1>5, <1>6 DEF Authenticate
<1>7. CASE UpdateRead(c)
  <2>1. ASSUME NEW u \in Users, Authed(u), NEW e \in Emails \cup {None},
               NEW n \in Countries \cup {None},
               call' = [call EXCEPT ![c] =
                   [Request("update", u) EXCEPT !.email = e, !.country = n,
                                                !.read_email = app_user[u].email]]
        PROVE  \E q : Begins(c, q)
    <3>1. Exists(u) /\ call[c] = None /\ UNCHANGED app_user
      BY <1>7, <2>1 DEF Authed, UpdateRead
    <3>2. PICK f \in Emails : f = app_user[u].email
      BY <3>1, NextVersionIsNat DEF IInv, Account
    <3>3. PICK q : q = [Request("update", u) EXCEPT !.email = e, !.country = n,
                                                    !.read_email = f]
      OBVIOUS
    <3>4. q.op = "update" /\ q.user = u
      BY <3>3 DEF Request
    <3>5. q \in Call
      BY <3>3 DEF Request, Call, Ops
    <3>6. call' = [call EXCEPT ![c] = q]
      BY <2>1, <3>2, <3>3
    <3> QED BY <3>1, <3>4, <3>5, <3>6, NoneAssumption DEF Begins
  <2>2. ASSUME NEW u \in Users, Authed(u), call' = [call EXCEPT ![c] = Request("password", u)]
        PROVE  \E q : Begins(c, q)
    BY <1>5, <1>7, <2>2 DEF Authed, UpdateRead
  <2> QED BY <1>7, <2>1, <2>2, Zenon DEF UpdateRead
<1>8. ASSUME NEW op \in {"rotate", "revoke"}, NEW t \in Tokens, refresh_token[t] # None,
             call[c] = None, UNCHANGED app_user,
             call' = [call EXCEPT ![c] =
                 [Request(op, refresh_token[t].user_id) EXCEPT !.token = t]]
      PROVE  \E q : Begins(c, q)
  <2> DEFINE u == refresh_token[t].user_id
             q == [Request(op, u) EXCEPT !.token = t]
  <2>1. u \in Users /\ Exists(u)
    BY <1>8 DEF IInv, TypeOK, SessionsOwned, Session
  <2>2. call' = [call EXCEPT ![c] = q]
    BY <1>8
  <2> HIDE DEF u
  <2>3. q = [op |-> op, user |-> u, email |-> None, country |-> None,
             read_email |-> None, token |-> t]
    BY DEF Request
  <2>4. q \in Call /\ q # None /\ q.op = op /\ q.user = u /\ q.token = t
    BY <2>1, <2>3, RequestTypes DEF Ops
  <2> HIDE DEF q
  <2> QED BY <1>8, <2>1, <2>2, <2>4 DEF Begins
<1>9. CASE RotateRead(c)
    BY <1>8, <1>9 DEF RotateRead, Usable
<1>10. CASE RevokeRead(c)
    BY <1>8, <1>10 DEF RevokeRead
<1> QED BY <1>1, <1>3, <1>4, <1>6, <1>7, <1>9, <1>10

\* A request that answers, and what it may have created.
Ends(c) ==
    /\ call[c] # None /\ call' = [call EXCEPT ![c] = None]
    /\ \A u \in Users : Exists(u)' => Exists(u) \/ (call[c].op = "signup" /\ u = call[c].user)

\* Requests begin, end, or stand still; nobody else creates an account.
LEMMA CallStep ==
    ASSUME IInv, [Next]_vars
    PROVE  \/ \E c \in Clients : (\E q : Begins(c, q)) \/ Ends(c)
           \/ UNCHANGED call /\ \A u \in Users : Exists(u)' => Exists(u)
<1>1. ASSUME UNCHANGED app_user
      PROVE  \A u \in Users : Exists(u)' => Exists(u)
    BY <1>1 DEF Exists
<1>2. ASSUME NEW u \in Users, NEW row, NEW event, Write(u, row, event)
      PROVE  \A v \in Users : Exists(v)' => Exists(v) \/ v = u
    BY <1>2 DEF Write, Exists, IInv, TypeOK
<1>3. ASSUME NEW u \in Users, Exists(u), NEW row, NEW event, Write(u, row, event)
      PROVE  \A v \in Users : Exists(v)' => Exists(v)
    BY <1>2, <1>3
<1>4. \A c \in Clients : call[c] # None => call[c].user \in Users
    BY DEF IInv, TypeOK, Call
<1>5. \A c \in Clients : call[c] # None /\ call[c].op # "signup" => Exists(call[c].user)
    BY DEF IInv, CallsCurrent
<1>6. CASE UserNext
  <2>1. ASSUME NEW c \in Clients, SignupCommit(c)
        PROVE  Ends(c)
    BY <1>1, <1>2, <1>4, <2>1 DEF SignupCommit, Ends, Idle
  <2>2. ASSUME NEW c \in Clients, NEW op \in {"resend", "forgot"}, NEW type,
               RequestMail(c, op, type)
        PROVE  Ends(c)
    BY <1>1, <1>3, <1>4, <1>5, <2>2 DEF RequestMail, Ends, Idle
  <2>3. ASSUME NEW c \in Clients, ChangePassword(c)
        PROVE  Ends(c)
    BY <1>3, <1>4, <1>5, <2>3 DEF ChangePassword, Ends, Idle
  <2>4. ASSUME NEW c \in Clients, UpdateUser(c)
        PROVE  Ends(c)
    BY <1>1, <1>3, <1>4, <1>5, <2>4 DEF UpdateUser, Ends, Idle
  <2>5. ASSUME NEW c \in Clients, Issue(c) \/ Rotate(c) \/ Revoke(c)
        PROVE  Ends(c)
    BY <1>1, <2>5 DEF Issue, Rotate, Revoke, Ends, Idle
  <2>6. ASSUME NEW u \in Users, NotificationEvent(u)
        PROVE  UNCHANGED call /\ \A v \in Users : Exists(v)' => Exists(v)
    BY <1>3, <2>6 DEF NotificationEvent, Authed
  <2>7. Tick => UNCHANGED call /\ UNCHANGED app_user
    BY DEF Tick
  <2> QED BY <1>1, <1>6, <2>1, <2>2, <2>3, <2>4, <2>5, <2>6, <2>7, ReadsBegin
          DEF UserNext, ResendVerification, ForgotPassword
<1>7. ASSUME NEW m \in inbox, Opens(m.link)
      PROVE  UNCHANGED call /\ \A u \in Users : Exists(u)' => Exists(u)
  <2>1. m.link.user \in Users /\ Exists(m.link.user)
    BY MailsExist DEF IInv, TypeOK
  <2> QED BY <1>3, <1>7, <2>1 DEF Opens, VerifyEmail, ResetPassword
<1>8. CASE UNCHANGED userVars
    BY <1>1, <1>8 DEF userVars
<1>9. \/ UserNext \/ (\E m \in inbox : Opens(m.link)) \/ UNCHANGED userVars
    BY DEF Next, vars, Works, Disturbed
<1> QED BY <1>6, <1>7, <1>8, <1>9

\* Requests keep their type and stay about somebody.
LEMMA CallsStay ==
    ASSUME IInv, [Next]_vars
    PROVE  call' \in [Clients -> Call \cup {None}] /\ CallsCurrent'
<1>1. /\ call \in [Clients -> Call \cup {None}]
      /\ \A c \in Clients : call[c] # None => call[c].user \in Users
    BY DEF IInv, TypeOK, Call
<1>2. \A u \in Users : Exists(u) => Exists(u)'
    BY LogsGrow
<1>3. ASSUME NEW c \in Clients, NEW q, Begins(c, q)
      PROVE  call' \in [Clients -> Call \cup {None}] /\ CallsCurrent'
  <2>1. /\ call' \in [Clients -> Call \cup {None}] /\ call'[c] = q
        /\ \A d \in Clients \ {c} : call'[d] = call[d]
    BY <1>1, <1>3 DEF Begins
  <2>2. q.user \in Users
    BY <1>3 DEF Begins, Call
  <2>3. \A u \in Users : Exists(u)' <=> Exists(u)
    BY <1>3 DEF Begins, Exists
  <2>4. \A d \in Clients \ {c} :
            call[d] # None /\ call[d].op = "signup" => call[d].user # q.user
    BY <1>3 DEF Begins, IInv, CallsCurrent
  <2>5. CallsCurrent'
    BY <1>1, <1>3, <2>1, <2>2, <2>3, <2>4 DEF Begins, IInv, CallsCurrent
  <2> QED BY <2>1, <2>5
<1>4. ASSUME NEW c \in Clients, Ends(c)
      PROVE  call' \in [Clients -> Call \cup {None}] /\ CallsCurrent'
  <2>1. /\ call' \in [Clients -> Call \cup {None}] /\ call'[c] = None
        /\ \A d \in Clients \ {c} : call'[d] = call[d]
    BY <1>1, <1>4 DEF Ends
  <2>2. \A d \in Clients \ {c} :
            call[d] # None /\ call[d].op = "signup" => ~Exists(call[d].user)'
    BY <1>1, <1>4 DEF Ends, IInv, CallsCurrent
  <2>3. CallsCurrent'
    BY <1>1, <1>2, <2>1, <2>2 DEF IInv, CallsCurrent
  <2> QED BY <2>1, <2>3
<1>5. CASE UNCHANGED call /\ \A u \in Users : Exists(u)' => Exists(u)
    BY <1>1, <1>2, <1>5 DEF IInv, CallsCurrent
<1> QED BY <1>3, <1>4, <1>5, CallStep

\* A session stays its account's.
LEMMA SessionsStay ==
    ASSUME IInv, [Next]_vars
    PROVE  refresh_token' \in [Tokens -> Session \cup {None}] /\ SessionsOwned'
<1>1. SessionSteps
    BY SessionStep
<1>2. refresh_token' \in [Tokens -> Session \cup {None}]
    BY <1>1 DEF SessionSteps
<1>3. ASSUME NEW t \in Tokens, refresh_token'[t] # None
      PROVE  app_user'[refresh_token'[t].user_id] # None
  <2>1. CASE SessionKept(t)
    <3>1. Exists(refresh_token[t].user_id) /\ refresh_token[t].user_id \in Users
      BY <2>1 DEF SessionKept, IInv, SessionsOwned, TypeOK, Session
    <3>2. refresh_token'[t].user_id = refresh_token[t].user_id
      BY <2>1 DEF SessionKept
    <3> QED BY <3>1, <3>2, LogsGrow DEF Exists
  <2>2. CASE SessionNew(t)
    BY <2>2 DEF SessionNew, Exists
  <2> QED BY <1>1, <1>3, <2>1, <2>2 DEF SessionSteps
<1> QED BY <1>2, <1>3 DEF SessionsOwned, Exists

\* The session log, the access tokens and the clock keep their types.
LEMMA RestTypes ==
    ASSUME IInv, [Next]_vars
    PROVE  /\ sessions_log' \in
                  Seq([type: {"Issued", "Rotated", "Revoked"}, token: Tokens, version: Nat])
           /\ access' \in [Users -> Nat] /\ now' \in Nat
<1> DEFINE SessionEvent ==
               [type: {"Issued", "Rotated", "Revoked"}, token: Tokens, version: Nat]
<1>1. sessions_log \in Seq(SessionEvent) /\ access \in [Users -> Nat] /\ now \in Nat
    BY DEF IInv, TypeOK
<1>2. ASSUME NEW type \in {"Issued", "Rotated", "Revoked"}, NEW t \in Tokens, NEW v \in Nat,
             SessionWrite(type, t, v)
      PROVE  sessions_log' \in Seq(SessionEvent)
  <2>1. [type |-> type, token |-> t, version |-> v] \in SessionEvent
    OBVIOUS
  <2> HIDE DEF SessionEvent
  <2> QED BY <1>1, <1>2, <2>1, AppendProperties DEF SessionWrite
<1>3. ASSUME NEW u \in Users, Mint(u)
      PROVE  access' \in [Users -> Nat]
    BY <1>1, <1>3, UserAssumption DEF Mint
<1>4. ASSUME NEW c \in Clients, Issue(c) \/ Rotate(c)
      PROVE  /\ sessions_log' \in Seq(SessionEvent) /\ access' \in [Users -> Nat]
             /\ now' = now
  <2>1. call[c].user \in Users
    BY <1>4 DEF IInv, TypeOK, Call, Issue, Rotate
  <2> HIDE DEF SessionEvent
  <2> QED BY <1>2, <1>3, <1>4, <2>1 DEF Issue, Rotate
<1>5. ASSUME NEW c \in Clients, Revoke(c)
      PROVE  sessions_log' \in Seq(SessionEvent) /\ UNCHANGED <<access, now>>
  <2>1. call[c].token \in Tokens
    BY <1>5 DEF IInv, CallsCurrent, Revoke
  <2>2. NextTokenVersion(call[c].token) \in Nat
    BY <2>1 DEF IInv, TypeOK, NextTokenVersion, Session
  <2> HIDE DEF SessionEvent
  <2> QED BY <1>2, <1>5, <2>1, <2>2 DEF Revoke
<1>6. CASE Tick
    BY <1>1, <1>6 DEF Tick
<1>7. CASE UNCHANGED <<sessions_log, access, now>>
    BY <1>1, <1>7
<1>8. \/ UNCHANGED <<sessions_log, access, now>> \/ Tick
      \/ \E c \in Clients : Issue(c) \/ Rotate(c) \/ Revoke(c)
  <2>1. ASSUME NEW c \in Clients,
               \/ SignupRead(c) \/ SignupCommit(c) \/ ResendRead(c) \/ ResendVerification(c)
               \/ ForgotRead(c) \/ ForgotPassword(c) \/ UpdateRead(c) \/ ChangePassword(c)
               \/ UpdateUser(c) \/ Authenticate(c) \/ RotateRead(c) \/ RevokeRead(c)
        PROVE  UNCHANGED <<sessions_log, access, now>>
    BY <2>1 DEF SignupRead, SignupCommit, ResendRead, ResendVerification, ForgotRead,
                ForgotPassword, RequestMail, UpdateRead, ChangePassword, UpdateUser,
                Authenticate, RotateRead, RevokeRead
  <2>2. ASSUME NEW u \in Users, NotificationEvent(u)
        PROVE  UNCHANGED <<sessions_log, access, now>>
    BY <2>2 DEF NotificationEvent
  <2>3. ASSUME NEW m \in inbox, Opens(m.link)
        PROVE  UNCHANGED <<sessions_log, access, now>>
    BY <2>3 DEF Opens, VerifyEmail, ResetPassword
  <2>4. UNCHANGED userVars => UNCHANGED <<sessions_log, access, now>>
    BY DEF userVars
  <2>5. UserNext \/ (\E m \in inbox : Opens(m.link)) \/ UNCHANGED userVars
    BY DEF Next, vars, Works, Disturbed
  <2> QED BY <2>1, <2>2, <2>3, <2>4, <2>5 DEF UserNext
<1> HIDE DEF SessionEvent
<1>9. ASSUME NEW c \in Clients, Issue(c) \/ Rotate(c) \/ Revoke(c)
      PROVE  sessions_log' \in Seq(SessionEvent) /\ access' \in [Users -> Nat] /\ now' \in Nat
  <2>1. CASE Issue(c) \/ Rotate(c)
    BY <1>1, <1>4, <2>1
  <2>2. CASE Revoke(c)
    BY <1>1, <1>5, <2>2
  <2> QED BY <1>9, <2>1, <2>2
<1> QED BY <1>6, <1>7, <1>8, <1>9 DEF SessionEvent

-----------------------------------------------------------------------------
(* The mails *)

Mail == [key: Keys, to: Emails \cup {None},
         link: [user: Users, purpose: Purpose, ver: Nat, exp: Nat]]

\* The event behind a key.
LEMMA EventBehind ==
    ASSUME IInv, NEW key \in Keys, Committed(key)
    PROVE  /\ key[1] \in Users /\ key[2] \in Nat
           /\ EventOf(key) \in Envelope /\ EventOf(key).version = key[2]
<1>1. key[1] \in Users /\ key[2] \in Nat /\ users_log[key[1]] \in Seq(Envelope)
    BY UserAssumption DEF Keys, IInv, TypeOK
<1>2. EventOf(key) \in Envelope
    BY <1>1, ElementOfSeq DEF Committed, EventOf
<1>3. EventOf(key).version = key[2]
    BY <1>1 DEF Committed, EventOf, IInv, RowsCounted, VersionsGapless
<1> QED BY <1>1, <1>2, <1>3

\* What is mailed about an event.
LEMMA NewMail ==
    ASSUME IInv, NEW key \in Keys, Committed(key), NEW p \in MailFor(EventOf(key)), NEW m,
           m = [key |-> key, to |-> EventOf(key).email,
                link |-> Link(key[1], p, EventOf(key).version, now)]
    PROVE  /\ m \in Mail /\ m.key = key /\ m.link.user = key[1]
           /\ m.link.purpose = "ResetPassword" =>
                  m.link.ver = key[2] /\ EventOf(key).type = "PasswordResetRequested"
<1> DEFINE event == EventOf(key)
           link == Link(key[1], p, event.version, now)
<1>1. /\ key[1] \in Users /\ key[2] \in Nat /\ event.version = key[2]
      /\ event.email \in Emails \cup {None} /\ now \in Nat
    BY EventBehind DEF Envelope, IInv, TypeOK
<1>2. p \in Purpose /\ (p = "ResetPassword" => event.type = "PasswordResetRequested")
    BY DEF MailFor, Purpose
<1>3. /\ link \in [user: Users, purpose: Purpose, ver: Nat, exp: Nat]
      /\ link.user = key[1] /\ link.purpose = p
      /\ p = "ResetPassword" => link.ver = key[2]
    BY <1>1, <1>2, MailAssumption DEF Link, Claims
<1>4. m.key = key /\ m.to = event.email /\ m.link = link
    OBVIOUS
<1>5. m \in Mail
  <2> HIDE DEF event, link
  <2> QED BY <1>1, <1>3 DEF Mail, event, link
<1> QED BY <1>2, <1>3, <1>4, <1>5

\* What a delivery does to the inbox and to the consumer.
LEMMA Delivered ==
    ASSUME IInv, NEW key \in Keys, Works(key) \/ Disturbed(key)
    PROVE  /\ Committed(key) /\ UNCHANGED userVars
           /\ inbox' = inbox \/ inbox' = Accepted(key, EventOf(key), now)
           /\ consumer' \in [Keys -> [delivered: Nat, acked: BOOLEAN]]
           /\ faults' \in Nat
<1>1. faults \in Nat /\ consumer \in [Keys -> [delivered: Nat, acked: BOOLEAN]]
    BY DEF IInv, TypeOK
<1>2. Attempt(key, TRUE) \/ Attempt(key, FALSE) =>
          consumer' \in [Keys -> [delivered: Nat, acked: BOOLEAN]]
  <2>1. ASSUME NEW acked \in BOOLEAN, Attempt(key, acked)
        PROVE  consumer' \in [Keys -> [delivered: Nat, acked: BOOLEAN]]
    BY <1>1, <2>1 DEF Attempt
  <2>2. TRUE \in BOOLEAN /\ FALSE \in BOOLEAN
    OBVIOUS
  <2> QED BY <2>1, <2>2, Zenon
<1>3. CASE Works(key)
    BY <1>1, <1>2, <1>3 DEF Works, Notify
<1>4. CASE Committed(key) /\ UNCHANGED userVars /\ NotifyUnacked(key, EventOf(key), now)
    BY <1>1, <1>2, <1>4 DEF NotifyUnacked, Fault
<1>5. CASE Committed(key) /\ UNCHANGED userVars /\ NotifyFails(key, EventOf(key))
    BY <1>1, <1>2, <1>5 DEF NotifyFails, Fault
<1>6. CASE Committed(key) /\ UNCHANGED userVars /\ Duplicate(key)
    BY <1>1, <1>6 DEF Duplicate, Fault
<1> QED BY <1>3, <1>4, <1>5, <1>6 DEF Disturbed

\* Every mail stays about a committed event, and a reset link names its version.
LEMMA MailsStay ==
    ASSUME IInv, [Next]_vars
    PROVE  /\ consumer' \in [Keys -> [delivered: Nat, acked: BOOLEAN]]
           /\ inbox' \subseteq Mail /\ faults' \in Nat
           /\ MailsTrue'
<1>1. /\ consumer \in [Keys -> [delivered: Nat, acked: BOOLEAN]]
      /\ inbox \subseteq Mail /\ faults \in Nat
    BY DEF IInv, TypeOK, Mail
<1>2. ASSUME NEW key \in Keys, Committed(key)
      PROVE  /\ key[2] \in DOMAIN users_log'[key[1]]
             /\ users_log'[key[1]][key[2]] = EventOf(key)
  <2>1. key[1] \in Users
    BY DEF Keys
  <2> QED BY <1>2, <2>1, LogsGrow DEF Committed, EventOf
<1>3. ASSUME NEW m \in inbox
      PROVE  /\ m.key \in Keys /\ m.key[2] \in DOMAIN users_log'[m.key[1]]
             /\ m.link.user = m.key[1]
             /\ m.link.purpose = "ResetPassword" =>
                    /\ m.link.ver = m.key[2]
                    /\ users_log'[m.key[1]][m.key[2]].type = "PasswordResetRequested"
    BY <1>2 DEF IInv, MailsTrue
<1>4. CASE UNCHANGED mailVars
    BY <1>1, <1>3, <1>4 DEF mailVars, MailsTrue, Committed, EventOf
<1>5. ASSUME NEW key \in Keys, Works(key) \/ Disturbed(key)
      PROVE  /\ consumer' \in [Keys -> [delivered: Nat, acked: BOOLEAN]]
             /\ inbox' \subseteq Mail /\ faults' \in Nat
             /\ MailsTrue'
  <2>1. /\ Committed(key) /\ UNCHANGED userVars
        /\ inbox' = inbox \/ inbox' = Accepted(key, EventOf(key), now)
        /\ consumer' \in [Keys -> [delivered: Nat, acked: BOOLEAN]]
        /\ faults' \in Nat
    BY <1>5, Delivered
  <2>2. ASSUME NEW m \in inbox', m \notin inbox
        PROVE  /\ m \in Mail /\ m.key = key /\ m.link.user = key[1]
               /\ m.link.purpose = "ResetPassword" =>
                      m.link.ver = key[2] /\ EventOf(key).type = "PasswordResetRequested"
    BY <2>1, <2>2, NewMail DEF Accepted
  <2>3. inbox' \subseteq Mail
    BY <1>1, <2>2
  <2>4. MailsTrue'
    BY <1>2, <1>3, <2>1, <2>2 DEF MailsTrue, Committed, EventOf
  <2> QED BY <2>1, <2>3, <2>4
<1> QED BY <1>4, <1>5 DEF Next, vars

-----------------------------------------------------------------------------
(* The host mirror and the onboardings *)

\* The mirror takes the next event, and is never behind the registration.
LEMMA HostProjected ==
    ASSUME IInv, NEW u \in Users, ProjectHost(u)
    PROVE  /\ host' \in [Users -> Host \cup {None}]
           /\ \A v \in Users \ {u} : host'[v] = host[v]
           /\ host'[u].version \in 1..Len(users_log[u])
<1> DEFINE n == HostVersion(u) + 1
           event == users_log[u][n]
           row == IF event.type = "Registered" THEN UpsertedHost(host[u], event)
                  ELSE IF event.type = "Updated" THEN PatchedHost(host[u], event)
                  ELSE [host[u] EXCEPT !.version = event.version]
<1>1. /\ host \in [Users -> Host \cup {None}] /\ users_log[u] \in Seq(Envelope)
      /\ Len(users_log[u]) \in Nat
    BY LenProperties DEF IInv, TypeOK, ConnectTypeOK
<1>2. HostVersion(u) \in Nat /\ HostVersion(u) < Len(users_log[u])
    BY <1>1 DEF HostVersion, Host, ProjectHost
<1>3. n \in 1..Len(users_log[u]) /\ n \in DOMAIN users_log[u]
    BY <1>1, <1>2, LenProperties
<1>4. event \in Envelope /\ event.version = n
    BY <1>1, <1>3, ElementOfSeq DEF IInv, RowsCounted, VersionsGapless
<1>5. /\ event.type = "Registered" <=> n = 1
      /\ event.type = "Registered" => event.email \in Emails
    BY <1>3 DEF IInv, LogsBegin
<1>6. n # 1 => host[u] \in Host
    BY <1>1 DEF HostVersion
<1> HIDE DEF n
<1>7. row \in Host /\ row.version = n
  <2>1. CASE event.type = "Registered"
    <3>1. event.email \in Emails /\ event.version = n /\ n \in Nat
      BY <1>3, <1>4, <1>5, <2>1
    <3>2. host[u] \in Host \cup {None}
      BY <1>1
    <3> QED BY <2>1, <3>1, <3>2 DEF UpsertedHost, Host
  <2>2. CASE event.type # "Registered"
    <3>1. /\ host[u] \in Host /\ event.version = n /\ n \in Nat
          /\ event.email \in Emails \cup {None} /\ event.country \in Countries \cup {None}
      BY <1>3, <1>4, <1>5, <1>6, <2>2 DEF Envelope
    <3>2. PatchedHost(host[u], event) \in Host /\ PatchedHost(host[u], event).version = n
      BY <3>1 DEF PatchedHost, Host
    <3>3. [host[u] EXCEPT !.version = event.version] \in Host
          /\ [host[u] EXCEPT !.version = event.version].version = n
      BY <3>1 DEF Host
    <3> QED BY <2>2, <3>2, <3>3
  <2> QED BY <2>1, <2>2
<1>8. host' = [host EXCEPT ![u] = row]
    BY DEF ProjectHost, n
<1> HIDE DEF row
<1> QED BY <1>1, <1>3, <1>7, <1>8

\* An onboarding's steps keep their types.
LEMMA OnboardingTypes ==
    ASSUME IInv, NEW o \in Onboardings,
           \/ \E u \in Users : FindAccount(o, u)
           \/ ReadHost(o) \/ CreateAccount(o) \/ InsertAccount(o)
           \/ OpenSession(o) \/ OnboardingFails(o)
    PROVE  ConnectTypeOK' /\ UNCHANGED host
<1>1. ConnectTypeOK
    BY DEF IInv, TypeOK
<1>2. ASSUME NEW r \in Onboarding \cup {None}, Onboards(o, r)
      PROVE  onboarding' \in [Onboardings -> Onboarding \cup {None}]
    BY <1>1, <1>2 DEF ConnectTypeOK, Onboards
<1>3. ASSUME NEW u \in Users, FindAccount(o, u)
      PROVE  ConnectTypeOK' /\ UNCHANGED host
  <2>1. connect_account[u] # None =>
            [pc |-> "opening", user |-> u, account |-> connect_account[u]] \in Onboarding
    BY <1>1 DEF ConnectTypeOK, Onboarding
  <2>2. [pc |-> "reading", user |-> u] \in Onboarding
    BY DEF Onboarding
  <2>3. onboarding' \in [Onboardings -> Onboarding \cup {None}]
    BY <1>2, <1>3, <2>1, <2>2 DEF FindAccount
  <2> QED BY <1>1, <1>3, <2>3 DEF ConnectTypeOK, FindAccount
<1>4. CASE ReadHost(o)
  <2> DEFINE u == onboarding[o].user
             body == [user |-> u, email |-> host[u].email, country |-> host[u].country]
             r == [pc |-> "creating", user |-> u, body |-> body]
  <2>1. u \in Users
    BY <1>1, <1>4 DEF ConnectTypeOK, Onboarding, ReadHost, At
  <2>2. ASSUME host[u] # None, host[u].country # None
        PROVE  r \in Onboarding
    <3>1. body \in Body
      BY <1>1, <2>1, <2>2 DEF ConnectTypeOK, Host, Body
    <3> HIDE DEF body
    <3> QED BY <2>1, <3>1 DEF Onboarding
  <2>3. onboarding' \in [Onboardings -> Onboarding \cup {None}]
    <3>1. Onboards(o, IF host[u] # None /\ host[u].country # None THEN r ELSE None)
      BY <1>4 DEF ReadHost
    <3> HIDE DEF r
    <3> QED BY <1>2, <2>2, <3>1
  <2> QED BY <1>1, <1>4, <2>3 DEF ConnectTypeOK, ReadHost
<1>5. CASE CreateAccount(o)
  <2> DEFINE body == onboarding[o].body
  <2>1. body \in Body
    BY <1>1, <1>5 DEF ConnectTypeOK, Onboarding, CreateAccount, At
  <2>2. PICK i \in IF Known(body) = {} THEN {Len(accounts) + 1} ELSE Known(body) :
            /\ accounts' = IF i > Len(accounts) THEN Append(accounts, body) ELSE accounts
            /\ Onboards(o, [pc |-> "inserting", user |-> body.user, account |-> i])
    BY <1>5 DEF CreateAccount
  <2>3. /\ accounts \in Seq(Body) /\ Len(accounts) \in Nat
        /\ DOMAIN accounts = 1..Len(accounts)
    BY <1>1, LenProperties DEF ConnectTypeOK
  <2>4. i \in Nat
    BY <2>2, <2>3 DEF Known
  <2>5. [pc |-> "inserting", user |-> body.user, account |-> i] \in Onboarding
    BY <2>1, <2>4 DEF Body, Onboarding
  <2> HIDE DEF body
  <2>6. accounts' \in Seq(Body)
    BY <2>1, <2>2, <2>3, AppendProperties
  <2>7. onboarding' \in [Onboardings -> Onboarding \cup {None}]
    BY <1>2, <2>2, <2>5
  <2> QED BY <1>1, <1>5, <2>6, <2>7 DEF ConnectTypeOK, CreateAccount
<1>6. CASE InsertAccount(o)
  <2> DEFINE u == onboarding[o].user
             mine == onboarding[o].account
  <2>1. u \in Users /\ mine \in Nat
    BY <1>1, <1>6 DEF ConnectTypeOK, Onboarding, InsertAccount, At
  <2>2. Stored(u, mine) \in Nat
    BY <1>1, <2>1 DEF ConnectTypeOK, Stored
  <2>3. [pc |-> "opening", user |-> u, account |-> Stored(u, mine)] \in Onboarding
    BY <2>1, <2>2 DEF Onboarding
  <2>4. onboarding' \in [Onboardings -> Onboarding \cup {None}]
    BY <1>2, <1>6, <2>3 DEF InsertAccount
  <2>5. connect_account' \in [Users -> Nat \cup {None}]
    BY <1>1, <1>6, <2>1 DEF ConnectTypeOK, InsertAccount
  <2> QED BY <1>1, <1>6, <2>4, <2>5 DEF ConnectTypeOK, InsertAccount
<1>7. CASE OpenSession(o)
  <2>1. onboarding[o].user \in Users /\ onboarding[o].account \in Nat
    BY <1>1, <1>7 DEF ConnectTypeOK, Onboarding, OpenSession, At
  <2>2. onboarding' \in [Onboardings -> Onboarding \cup {None}]
    BY <1>2, <1>7 DEF OpenSession
  <2> QED BY <1>1, <1>7, <2>1, <2>2 DEF ConnectTypeOK, OpenSession
<1>8. CASE OnboardingFails(o)
  <2>1. onboarding' \in [Onboardings -> Onboarding \cup {None}]
    BY <1>2, <1>8 DEF OnboardingFails
  <2> QED BY <1>1, <1>8, <2>1 DEF ConnectTypeOK, OnboardingFails
<1> QED BY <1>3, <1>4, <1>5, <1>6, <1>7, <1>8

\* Every step of the whole leaves the onboardings typed and the mirror behind the log.
LEMMA ConnectStays ==
    ASSUME IInv, [Next]_vars
    PROVE  ConnectTypeOK' /\ HostBehind'
<1>1. ConnectTypeOK
    BY DEF IInv, TypeOK
<1>2. \A u \in Users : 1..Len(users_log[u]) \subseteq 1..Len(users_log'[u])
    BY LogsGrow
<1>3. ASSUME UNCHANGED host
      PROVE  HostBehind'
    BY <1>2, <1>3 DEF IInv, HostBehind
<1>4. ASSUME NEW u \in Users, ProjectHost(u)
      PROVE  ConnectTypeOK' /\ HostBehind'
  <2>1. ConnectTypeOK'
    BY <1>1, <1>4, HostProjected DEF ConnectTypeOK, ProjectHost
  <2>2. HostBehind'
    BY <1>2, <1>4, HostProjected DEF IInv, HostBehind
  <2> QED BY <2>1, <2>2
<1>5. CASE UNCHANGED connectVars
    BY <1>1, <1>3, <1>5 DEF connectVars, ConnectTypeOK
<1>6. ASSUME NEW o \in Onboardings,
             \/ \E u \in Users : FindAccount(o, u)
             \/ ReadHost(o) \/ CreateAccount(o) \/ InsertAccount(o)
             \/ OpenSession(o) \/ OnboardingFails(o)
      PROVE  ConnectTypeOK' /\ HostBehind'
    BY <1>3, <1>6, OnboardingTypes
<1> QED BY <1>4, <1>5, <1>6 DEF Next, vars, ConnectNext

-----------------------------------------------------------------------------
(* The inductive invariant *)

\* A transaction's version is the length its log will have.
LEMMA NextVersionCounts ==
    ASSUME IInv, NEW u \in Users
    PROVE  /\ Len(users_log[u]) \in Nat /\ DOMAIN users_log[u] = 1..Len(users_log[u])
           /\ NextVersion(u) = Len(users_log[u]) + 1
           /\ Exists(u) <=> Len(users_log[u]) # 0
<1>1. Len(users_log[u]) \in Nat /\ DOMAIN users_log[u] = 1..Len(users_log[u])
    BY LenProperties DEF IInv, TypeOK
<1>2. Len(users_log[u]) = IF Exists(u) THEN app_user[u].version ELSE 0
    BY DEF IInv, RowsCounted, VersionsGapless
<1>3. Exists(u) => app_user[u].version >= 1
    BY DEF IInv, RowsCounted
<1> QED BY <1>1, <1>2, <1>3 DEF NextVersion

LEMMA RowsStay ==
    ASSUME IInv, [Next]_vars
    PROVE  RowsCounted' /\ LogsBegin'
<1>1. CASE UNCHANGED <<app_user, users_log>>
    BY <1>1 DEF IInv, RowsCounted, VersionsGapless, LogsBegin, Exists
<1>2. ASSUME NEW u \in Users, NEW r \in Account, NEW e \in Envelope, Writes(u, r, e)
      PROVE  RowsCounted' /\ LogsBegin'
  <2> DEFINE n == Len(users_log[u])
  <2>1. /\ n \in Nat /\ DOMAIN users_log[u] = 1..n /\ NextVersion(u) = n + 1
        /\ Exists(u) <=> n # 0
    BY NextVersionCounts
  <2>2. /\ \A v \in Users \ {u} : app_user'[v] = app_user[v] /\ users_log'[v] = users_log[v]
        /\ app_user'[u] = r /\ r # None
        /\ Len(users_log'[u]) = n + 1 /\ DOMAIN users_log'[u] = 1..(n + 1)
        /\ \A i \in 1..n : users_log'[u][i] = users_log[u][i]
        /\ users_log'[u][n + 1] = e
    BY <1>2, <2>1, WriteEffect DEF IInv
  <2>3. /\ r.version = n + 1 /\ e.version = n + 1
        /\ e.type = "Registered" <=> n = 0
        /\ e.type = "Registered" => e.email \in Emails /\ e.country = None
    BY <1>2, <2>1 DEF Writes, Suits
  <2> HIDE DEF n
  <2>4. ASSUME NEW v \in Users
        PROVE  /\ Len(users_log'[v]) = (IF app_user'[v] # None THEN app_user'[v].version ELSE 0)
               /\ \A i \in DOMAIN users_log'[v] : users_log'[v][i].version = i
               /\ app_user'[v] # None => app_user'[v].version >= 1
               /\ \A i \in DOMAIN users_log'[v] :
                     /\ users_log'[v][i].type = "Registered" <=> i = 1
                     /\ users_log'[v][i].type = "Registered" =>
                            users_log'[v][i].email \in Emails /\ users_log'[v][i].country = None
    <3>1. CASE v # u
      BY <2>2, <3>1 DEF IInv, RowsCounted, VersionsGapless, LogsBegin, Exists
    <3>2. CASE v = u
      <4>1. \A i \in 1..n : /\ users_log[u][i].version = i
                            /\ users_log[u][i].type = "Registered" <=> i = 1
                            /\ users_log[u][i].type = "Registered" =>
                                   users_log[u][i].email \in Emails /\ users_log[u][i].country = None
        BY <2>1 DEF IInv, RowsCounted, VersionsGapless, LogsBegin
      <4> QED BY <2>1, <2>2, <2>3, <3>2, <4>1
    <3> QED BY <3>1, <3>2
  <2> QED BY <2>4 DEF RowsCounted, VersionsGapless, LogsBegin, Exists
<1> QED BY <1>1, <1>2, OneWrite

LEMMA Initially == Init => IInv
<1> SUFFICES ASSUME Init
             PROVE  IInv
    OBVIOUS
<1>1. TypeOK
    BY DEF Init, UserInit, ConnectInit, TypeOK, ConnectTypeOK
<1>2. RowsCounted /\ LogsBegin
    BY DEF Init, UserInit, RowsCounted, VersionsGapless, LogsBegin, Exists
<1>3. CallsCurrent /\ SessionsOwned /\ HostBehind /\ MailsTrue
    BY DEF Init, UserInit, ConnectInit, CallsCurrent, SessionsOwned, HostBehind, MailsTrue
<1> QED BY <1>1, <1>2, <1>3 DEF IInv

LEMMA Inductive ==
    ASSUME IInv, [Next]_vars
    PROVE  IInv'
<1>1. TypeOK'
    BY LogsGrow, CallsStay, SessionsStay, RestTypes, MailsStay, ConnectStays DEF TypeOK, Mail
<1>2. RowsCounted' /\ LogsBegin'
    BY RowsStay
<1>3. CallsCurrent' /\ SessionsOwned' /\ HostBehind' /\ MailsTrue'
    BY CallsStay, SessionsStay, ConnectStays, MailsStay
<1> QED BY <1>1, <1>2, <1>3 DEF IInv

LEMMA Invariance == Spec => []IInv
BY Initially, Inductive, PTL DEF Spec

-----------------------------------------------------------------------------
(* What follows for every behaviour *)

\* Rows, sessions, requests in flight, mails and onboardings keep their types.
THEOREM TypeCorrectness == Spec => []TypeOK
<1>1. IInv => TypeOK
    BY DEF IInv
<1> QED BY <1>1, Invariance, PTL

\* However signups and changes of address interleave between the lookup and
\* the commit, the database gives no two accounts one address.
THEOREM EmailsUniqueHolds == Spec => []EmailsUnique
<1>1. Init => EmailsUnique
    BY DEF Init, UserInit, EmailsUnique, Exists
<1>2. ASSUME IInv, EmailsUnique, [Next]_vars
      PROVE  EmailsUnique'
  <2>1. CASE UNCHANGED <<app_user, users_log>>
    BY <1>2, <2>1 DEF EmailsUnique, Exists
  <2>2. ASSUME NEW u \in Users, NEW r \in Account, NEW e \in Envelope, Writes(u, r, e)
        PROVE  EmailsUnique'
    <3>1. /\ app_user'[u] = r
          /\ \A v \in Users \ {u} : app_user'[v] = app_user[v]
      BY <1>2, <2>2, WriteEffect DEF IInv
    <3>2. \A v \in Users \ {u} : Exists(v) => app_user[v].email # r.email
      <4>1. CASE EmailFree(u, r.email)
        BY <4>1 DEF EmailFree, FindByEmail
      <4>2. CASE Exists(u) /\ r.email = app_user[u].email
        BY <1>2, <4>2 DEF EmailsUnique
      <4> QED BY <2>2, <4>1, <4>2 DEF Writes, Suits
    <3> QED BY <1>2, <3>1, <3>2 DEF EmailsUnique, Exists
  <2> QED BY <1>2, <2>1, <2>2, OneWrite
<1> QED BY <1>1, <1>2, Invariance, PTL DEF Spec

\* A reset link works exactly while it is the account's last word: rows and logs
\* count alike, a redeemed link named the request just before it, and a mailed
\* one is alive until something else is written.
THEOREM ResetLinkIsLastWordHolds == Spec => []ResetLinkIsLastWord
<1>1. IInv => VersionsGapless
    BY DEF IInv, RowsCounted
<1>2. ASSUME IInv
      PROVE  LinkBornAlive
  <2> SUFFICES ASSUME NEW m \in inbox, m.link.purpose = "ResetPassword",
                      m.key[2] = Len(users_log[m.key[1]])
               PROVE  StillAt(m.link.user, m.link.ver)
    BY DEF LinkBornAlive
  <2>1. m.key[1] \in Users /\ m.link.user = m.key[1] /\ m.link.ver = m.key[2]
    BY <1>2 DEF IInv, MailsTrue, Keys
  <2> QED BY <1>2, <2>1, NextVersionCounts DEF StillAt
<1>3. Init => ResetFollowsItsRequest
    BY DEF Init, UserInit, ResetFollowsItsRequest
<1>4. ASSUME IInv, ResetFollowsItsRequest, [Next]_vars
      PROVE  ResetFollowsItsRequest'
  <2>1. CASE UNCHANGED <<app_user, users_log>>
    BY <1>4, <2>1 DEF ResetFollowsItsRequest
  <2>2. ASSUME NEW u \in Users, NEW r \in Account, NEW e \in Envelope, Writes(u, r, e)
        PROVE  ResetFollowsItsRequest'
    <3> DEFINE n == Len(users_log[u])
    <3>1. n \in Nat /\ DOMAIN users_log[u] = 1..n /\ NextVersion(u) = n + 1
      BY <1>4, NextVersionCounts
    <3>2. /\ \A v \in Users \ {u} : users_log'[v] = users_log[v]
          /\ DOMAIN users_log'[u] = 1..(n + 1) /\ users_log'[u][n + 1] = e
          /\ \A i \in 1..n : users_log'[u][i] = users_log[u][i]
      BY <1>4, <2>2, <3>1, WriteEffect DEF IInv
    <3>3. e.link # 0 => e.link = n /\ n \in 1..n
                        /\ users_log[u][n].type = "PasswordResetRequested"
      BY <2>2, <3>1 DEF Writes, Suits, Redeems, StillAt, Envelope
    <3>4. \A i \in 1..n : users_log[u][i].link # 0 =>
              users_log[u][i].link = i - 1 /\ users_log[u][i - 1].type = "PasswordResetRequested"
      BY <1>4, <3>1 DEF ResetFollowsItsRequest
    <3>5. \A i \in 1..n : users_log[u][i].link # 0 => i - 1 \in 1..n
      <4>1. ASSUME NEW i \in 1..n, users_log[u][i].link # 0
            PROVE  i - 1 \in 1..n
        BY <3>1, <3>4, <4>1
      <4> QED BY <4>1
    <3> HIDE DEF n
    <3>6. ASSUME NEW i \in 1..(n + 1), users_log'[u][i].link # 0
          PROVE  /\ users_log'[u][i].link = i - 1
                 /\ users_log'[u][i - 1].type = "PasswordResetRequested"
      <4>1. CASE i = n + 1
        BY <3>1, <3>2, <3>3, <3>6, <4>1
      <4>2. CASE i # n + 1
        BY <3>1, <3>2, <3>4, <3>5, <3>6, <4>2
      <4> QED BY <4>1, <4>2
    <3>7. ASSUME NEW v \in Users, v # u, NEW i \in DOMAIN users_log'[v],
                 users_log'[v][i].link # 0
          PROVE  /\ users_log'[v][i].link = i - 1
                 /\ users_log'[v][i - 1].type = "PasswordResetRequested"
      BY <1>4, <3>2, <3>7 DEF ResetFollowsItsRequest
    <3> QED BY <3>2, <3>6, <3>7 DEF ResetFollowsItsRequest
  <2> QED BY <1>4, <2>1, <2>2, OneWrite
<1> QED BY <1>1, <1>2, <1>3, <1>4, Invariance, PTL DEF Spec, ResetLinkIsLastWord

\* A password reset ends every session committed before it, whatever rotations
\* and logouts are in flight.
THEOREM ResetEndsSessionsHolds == Spec => []ResetEndsSessions
<1>1. Init => ResetEndsSessions
    BY DEF Init, UserInit, ResetEndsSessions
<1>2. ASSUME IInv, ResetEndsSessions, [Next]_vars
      PROVE  ResetEndsSessions'
  <2> SUFFICES ASSUME NEW t \in Tokens, refresh_token'[t] # None, ~refresh_token'[t].revoked,
                      NEW u, u = refresh_token'[t].user_id,
                      NEW i \in DOMAIN users_log'[u], users_log'[u][i].link # 0
               PROVE  i <= refresh_token'[t].born
    BY DEF ResetEndsSessions
  <2>1. u \in Users
    BY <1>2, SessionsStay DEF Session
  <2>2. /\ Len(users_log[u]) \in Nat /\ DOMAIN users_log[u] = 1..Len(users_log[u])
        /\ NextVersion(u) = Len(users_log[u]) + 1
    BY <1>2, <2>1, NextVersionCounts
  <2>3. CASE SessionNew(t)
    BY <2>2, <2>3 DEF SessionNew
  <2>4. CASE SessionKept(t)
    <3>1. /\ refresh_token[t] # None /\ ~refresh_token[t].revoked
          /\ refresh_token[t].user_id = u /\ refresh_token[t].born = refresh_token'[t].born
      BY <2>4 DEF SessionKept
    <3>2. \A j \in DOMAIN users_log[u] : users_log[u][j].link # 0 => j <= refresh_token'[t].born
      BY <1>2, <3>1 DEF ResetEndsSessions
    <3>3. CASE UNCHANGED <<app_user, users_log>>
      BY <3>2, <3>3
    <3>4. ASSUME NEW v \in Users, NEW r \in Account, NEW e \in Envelope, Writes(v, r, e)
          PROVE  i <= refresh_token'[t].born
      <4>1. /\ v # u => users_log'[u] = users_log[u]
            /\ v = u => /\ DOMAIN users_log'[u] = 1..(Len(users_log[u]) + 1)
                        /\ users_log'[u][Len(users_log[u]) + 1] = e
                        /\ \A j \in DOMAIN users_log[u] : users_log'[u][j] = users_log[u][j]
        BY <1>2, <2>1, <3>4, WriteEffect DEF IInv
      <4>2. ASSUME v = u
            PROVE  e.link = 0
        <5>1. e.link # 0 => refresh_token' = RevokeAllForUser(u)
          BY <3>4, <4>2 DEF Writes, Suits
        <5>2. refresh_token' = RevokeAllForUser(u) =>
                  refresh_token'[t] = [refresh_token[t] EXCEPT !.revoked = TRUE]
          BY <3>1 DEF RevokeAllForUser
        <5>3. refresh_token[t] \in Session
          BY <1>2, <3>1 DEF IInv, TypeOK
        <5> QED BY <5>1, <5>2, <5>3, RevokedTypes, <1>2 DEF IInv
      <4>3. CASE v = u
        <5>1. i # Len(users_log[u]) + 1
          BY <4>1, <4>2, <4>3
        <5>2. i \in DOMAIN users_log[u]
          BY <2>2, <4>1, <4>3, <5>1
        <5>3. users_log'[u][i] = users_log[u][i]
          BY <4>1, <4>3, <5>2
        <5> QED BY <3>2, <5>2, <5>3
      <4>4. CASE v # u
        BY <3>2, <4>1, <4>4
      <4> QED BY <4>3, <4>4
    <3> QED BY <1>2, <3>3, <3>4, OneWrite
  <2> QED BY <1>2, <2>3, <2>4, SessionStep DEF SessionSteps
<1> QED BY <1>1, <1>2, Invariance, PTL DEF Spec

\* The row remembers the last mail asked for.
StampsRemember ==
    \A u \in Users : \A i \in DOMAIN users_log[u] :
        users_log[u][i].type \in MailRequests =>
            /\ app_user[u].mail_requested_at \in Nat
            /\ users_log[u][i].at <= app_user[u].mail_requested_at

\* A write that asks for a mail comes a cooldown after every earlier one.
LEMMA StampsStay ==
    ASSUME IInv, StampsRemember, MailCooldown, [Next]_vars
    PROVE  StampsRemember' /\ MailCooldown'
<1>1. CASE UNCHANGED <<app_user, users_log>>
    BY <1>1 DEF StampsRemember, MailCooldown
<1>2. ASSUME NEW u \in Users, NEW r \in Account, NEW e \in Envelope, Writes(u, r, e)
      PROVE  StampsRemember' /\ MailCooldown'
  <2> DEFINE n == Len(users_log[u])
             log == users_log[u]
             last == app_user[u].mail_requested_at
  <2>1. /\ n \in Nat /\ DOMAIN log = 1..n /\ now \in Nat
        /\ Exists(u) <=> n # 0
        /\ \A i \in 1..n : log[i].at \in Nat
    <3>1. users_log[u] \in Seq(Envelope)
      BY DEF IInv, TypeOK
    <3>2. \A i \in DOMAIN log : log[i] \in Envelope
      BY <3>1, ElementOfSeq
    <3> QED BY <3>2, NextVersionCounts DEF IInv, TypeOK, Envelope
  <2>2. /\ \A v \in Users \ {u} : app_user'[v] = app_user[v] /\ users_log'[v] = users_log[v]
        /\ app_user'[u] = r
        /\ DOMAIN users_log'[u] = 1..(n + 1) /\ users_log'[u][n + 1] = e
        /\ \A i \in 1..n : users_log'[u][i] = log[i]
    BY <1>2, <2>1, WriteEffect DEF IInv
  <2>3. \A i \in 1..n : log[i].type \in MailRequests => last \in Nat /\ log[i].at <= last
    BY <2>1 DEF StampsRemember
  <2>4. /\ e.type \in MailRequests =>
               /\ last = None \/ now - last >= COOLDOWN
               /\ r.mail_requested_at = now /\ e.at = now
        /\ e.type \notin MailRequests /\ n # 0 => r.mail_requested_at = last
    BY <1>2, <2>1 DEF Writes, Suits, MaySend, LastMail
  <2> HIDE DEF n, log, last
  <2>5. \A i \in 1..n : log[i].type \in MailRequests /\ e.type \in MailRequests =>
            last \in Nat /\ now - last >= COOLDOWN /\ log[i].at <= last
    BY <2>3, <2>4, NoneAssumption
  <2>6. StampsRemember'
    <3>1. ASSUME NEW i \in 1..(n + 1), users_log'[u][i].type \in MailRequests
          PROVE  r.mail_requested_at \in Nat /\ users_log'[u][i].at <= r.mail_requested_at
      <4>1. CASE i = n + 1
        BY <2>1, <2>2, <2>4, <3>1, <4>1
      <4>2. CASE i # n + 1 /\ e.type \in MailRequests
        <5>1. i \in 1..n /\ users_log'[u][i] = log[i]
          BY <2>1, <2>2, <4>2
        <5>2. last \in Nat /\ now - last >= COOLDOWN /\ log[i].at <= last /\ log[i].at \in Nat
          BY <2>1, <2>5, <3>1, <4>2, <5>1
        <5>3. \A a, b, k, d \in Nat : a <= b /\ d - b >= k => a <= d
          OBVIOUS
        <5>4. log[i].at <= now
          BY <2>1, <5>2, <5>3, UserAssumption
        <5> QED BY <2>1, <2>4, <4>2, <5>1, <5>4
      <4>3. CASE i # n + 1 /\ e.type \notin MailRequests
        <5>1. i \in 1..n /\ n # 0 /\ users_log'[u][i] = log[i]
          BY <2>1, <2>2, <4>3
        <5>2. last \in Nat /\ log[i].at <= last
          BY <2>3, <3>1, <5>1
        <5>3. r.mail_requested_at = last
          BY <2>4, <4>3, <5>1
        <5> QED BY <5>1, <5>2, <5>3
      <4> QED BY <4>1, <4>2, <4>3
    <3> QED BY <2>2, <3>1 DEF StampsRemember
  <2>7. MailCooldown'
    <3>1. ASSUME NEW i \in 1..(n + 1), NEW j \in 1..(n + 1), i < j,
                 users_log'[u][i].type \in MailRequests, users_log'[u][j].type \in MailRequests
          PROVE  users_log'[u][j].at - users_log'[u][i].at >= COOLDOWN
      <4>1. i \in 1..n /\ users_log'[u][i] = log[i]
        BY <2>1, <2>2, <3>1
      <4>2. CASE j = n + 1
        <5>1. last \in Nat /\ now - last >= COOLDOWN /\ log[i].at <= last /\ log[i].at \in Nat
              /\ users_log'[u][j].at = now
          BY <2>1, <2>2, <2>4, <2>5, <3>1, <4>1, <4>2
        <5> QED BY <2>1, <4>1, <5>1, UserAssumption
      <4>3. CASE j # n + 1
        <5>1. j \in 1..n /\ users_log'[u][j] = log[j]
          BY <2>1, <2>2, <4>3
        <5> QED BY <2>1, <3>1, <4>1, <5>1 DEF MailCooldown, log
      <4> QED BY <4>2, <4>3
    <3> QED BY <2>2, <3>1 DEF MailCooldown
  <2> QED BY <2>6, <2>7
<1> QED BY <1>1, <1>2, OneWrite

\* The provider takes one mail for an event.
LEMMA OneMailStays ==
    ASSUME IInv, OneMailPerEvent, [Next]_vars
    PROVE  OneMailPerEvent'
<1>1. CASE inbox' = inbox
    BY <1>1 DEF OneMailPerEvent
<1>2. ASSUME NEW key \in Keys, inbox' = Accepted(key, EventOf(key), now)
      PROVE  OneMailPerEvent'
  <2> DEFINE event == EventOf(key)
             MailOf(p) == [key |-> key, to |-> event.email,
                           link |-> Link(key[1], p, event.version, now)]
  <2>1. \A m \in inbox' : m \in inbox \/
            /\ \A k \in inbox : k.key # key
            /\ \E p \in MailFor(event) : m = MailOf(p)
    BY <1>2 DEF Accepted
  <2>2. \A p, q \in MailFor(event) : p = q
    BY DEF MailFor
  <2>3. \A p : MailOf(p).key = key
    OBVIOUS
  <2> HIDE DEF MailOf
  <2> QED BY <2>1, <2>2, <2>3 DEF OneMailPerEvent
<1>3. \/ inbox' = inbox \/ \E key \in Keys : inbox' = Accepted(key, EventOf(key), now)
  <2>1. UNCHANGED mailVars \/ \E key \in Keys : Works(key) \/ Disturbed(key)
    BY DEF Next, vars
  <2>2. UNCHANGED mailVars => inbox' = inbox
    BY DEF mailVars
  <2> QED BY <2>1, <2>2, Delivered
<1> QED BY <1>1, <1>2, <1>3

\* Nobody is mailed twice about an event, nor twice within a cooldown by the
\* forms, however requests interleave and the consumer redelivers.
THEOREM MailedSparinglyHolds == Spec => []MailedSparingly
<1>1. Init => StampsRemember /\ MailCooldown /\ OneMailPerEvent
    BY DEF Init, UserInit, StampsRemember, MailCooldown, OneMailPerEvent
<1>2. IInv /\ StampsRemember /\ MailCooldown /\ [Next]_vars => StampsRemember' /\ MailCooldown'
    BY StampsStay
<1>3. IInv /\ OneMailPerEvent /\ [Next]_vars => OneMailPerEvent'
    BY OneMailStays
<1> QED BY <1>1, <1>2, <1>3, Invariance, PTL DEF Spec, MailedSparingly

\* An onboarding about to open a session opens it on the stored account.
OpeningStored ==
    \A o \in Onboardings : At(o, "opening") =>
        connect_account[onboarding[o].user] = onboarding[o].account

\* Every session of an account at Stripe that is handed to a browser, by racing
\* and repeated onboardings, is of the account that is stored and will be paid.
THEOREM SecretsOpenTheStoredHolds == Spec => []SecretsOpenTheStored
<1>1. Init => OpeningStored /\ SecretsOpenTheStored
    BY DEF Init, ConnectInit, OpeningStored, SecretsOpenTheStored, At
<1>2. ASSUME IInv, OpeningStored, SecretsOpenTheStored, [Next]_vars
      PROVE  OpeningStored' /\ SecretsOpenTheStored'
  <2>1. ConnectTypeOK
    BY <1>2 DEF IInv, TypeOK
  <2>2. \A k : k \in Nat => k # None
    BY NoneAssumption
  <2>3. CASE UNCHANGED <<connect_account, onboarding, secrets>>
    BY <1>2, <2>3 DEF OpeningStored, SecretsOpenTheStored, At
  <2>4. ASSUME NEW o \in Onboardings, NEW r, Onboards(o, r),
               UNCHANGED <<connect_account, secrets>>,
               r # None /\ r.pc = "opening" => connect_account[r.user] = r.account
        PROVE  OpeningStored' /\ SecretsOpenTheStored'
    <3>1. onboarding'[o] = r /\ \A p \in Onboardings \ {o} : onboarding'[p] = onboarding[p]
      BY <2>1, <2>4 DEF ConnectTypeOK, Onboards
    <3> QED BY <1>2, <2>4, <3>1 DEF OpeningStored, SecretsOpenTheStored, At
  <2>5. ASSUME NEW o \in Onboardings, NEW u \in Users, FindAccount(o, u)
        PROVE  OpeningStored' /\ SecretsOpenTheStored'
    <3> DEFINE opening == [pc |-> "opening", user |-> u, account |-> connect_account[u]]
               reading == [pc |-> "reading", user |-> u]
               r == IF connect_account[u] # None THEN opening ELSE reading
    <3>1. r.pc = "opening" => connect_account[r.user] = r.account
      OBVIOUS
    <3>2. Onboards(o, r) /\ UNCHANGED <<connect_account, secrets>>
      BY <2>5 DEF FindAccount
    <3> HIDE DEF r
    <3> QED BY <2>4, <3>1, <3>2
  <2>6. ASSUME NEW o \in Onboardings, ReadHost(o)
        PROVE  OpeningStored' /\ SecretsOpenTheStored'
    <3> DEFINE u == onboarding[o].user
               creating == [pc |-> "creating", user |-> u,
                            body |-> [user |-> u, email |-> host[u].email,
                                      country |-> host[u].country]]
               r == IF host[u] # None /\ host[u].country # None THEN creating ELSE None
    <3>1. r # None => r.pc # "opening"
      OBVIOUS
    <3>2. Onboards(o, r) /\ UNCHANGED <<connect_account, secrets>>
      BY <2>6 DEF ReadHost
    <3> HIDE DEF r
    <3> QED BY <2>4, <3>1, <3>2
  <2>7. ASSUME NEW o \in Onboardings, CreateAccount(o)
        PROVE  OpeningStored' /\ SecretsOpenTheStored'
    <3>1. PICK i : Onboards(o, [pc |-> "inserting", user |-> onboarding[o].body.user,
                                account |-> i])
      BY <2>7 DEF CreateAccount
    <3>2. UNCHANGED <<connect_account, secrets>>
      BY <2>7 DEF CreateAccount
    <3> QED BY <2>4, <3>1, <3>2
  <2>8. ASSUME NEW o \in Onboardings, OpenSession(o)
        PROVE  OpeningStored' /\ SecretsOpenTheStored'
    <3>1. connect_account[onboarding[o].user] = onboarding[o].account
      BY <1>2, <2>8 DEF OpeningStored, OpenSession
    <3>2. /\ onboarding'[o] = None /\ connect_account' = connect_account
          /\ \A p \in Onboardings \ {o} : onboarding'[p] = onboarding[p]
          /\ secrets' = secrets \cup
                 {[user |-> onboarding[o].user, account |-> onboarding[o].account]}
      BY <2>1, <2>8 DEF ConnectTypeOK, OpenSession, Onboards
    <3>3. OpeningStored'
      BY <1>2, <3>2 DEF OpeningStored, At
    <3>4. SecretsOpenTheStored'
      BY <1>2, <3>1, <3>2 DEF SecretsOpenTheStored
    <3> QED BY <3>3, <3>4
  <2>9. ASSUME NEW o \in Onboardings, OnboardingFails(o)
        PROVE  OpeningStored' /\ SecretsOpenTheStored'
    BY <2>4, <2>9 DEF OnboardingFails
  <2>10. ASSUME NEW o \in Onboardings, InsertAccount(o)
         PROVE  OpeningStored' /\ SecretsOpenTheStored'
    <3> DEFINE u == onboarding[o].user
               mine == onboarding[o].account
               stored == Stored(u, mine)
    <3>1. u \in Users /\ mine \in Nat
      BY <2>1, <2>10 DEF ConnectTypeOK, Onboarding, InsertAccount, At
    <3>2. /\ connect_account'[u] = stored
          /\ \A v \in Users : connect_account[v] # None =>
                 connect_account'[v] = connect_account[v]
      BY <2>1, <2>10, <3>1 DEF ConnectTypeOK, InsertAccount, Stored
    <3>3. /\ onboarding'[o] = [pc |-> "opening", user |-> u, account |-> stored]
          /\ secrets' = secrets
          /\ \A p \in Onboardings \ {o} : onboarding'[p] = onboarding[p]
      BY <2>1, <2>10 DEF ConnectTypeOK, InsertAccount, Onboards
    <3>4. SecretsOpenTheStored'
      BY <1>2, <2>1, <2>2, <3>2, <3>3 DEF SecretsOpenTheStored, ConnectTypeOK
    <3>5. ASSUME NEW p \in Onboardings \ {o}, At(p, "opening")
          PROVE  connect_account'[onboarding[p].user] = onboarding[p].account
      <4>1. /\ onboarding[p].user \in Users /\ onboarding[p].account \in Nat
        BY <2>1, <3>5 DEF ConnectTypeOK, Onboarding, At
      <4>2. connect_account[onboarding[p].user] = onboarding[p].account
        BY <1>2, <3>5 DEF OpeningStored
      <4> QED BY <2>2, <3>2, <4>1, <4>2
    <3>6. onboarding'[o].user = u /\ onboarding'[o].account = stored
      BY <3>3
    <3> HIDE DEF u, mine, stored
    <3>7. OpeningStored'
      BY <3>2, <3>3, <3>5, <3>6 DEF OpeningStored, At
    <3> QED BY <3>4, <3>7
  <2>11. CASE UNCHANGED connectVars
    BY <2>3, <2>11 DEF connectVars
  <2>12. ASSUME NEW u \in Users, ProjectHost(u)
         PROVE  OpeningStored' /\ SecretsOpenTheStored'
    BY <2>3, <2>12 DEF ProjectHost
  <2> QED BY <1>2, <2>5, <2>6, <2>7, <2>8, <2>9, <2>10, <2>11, <2>12 DEF Next, vars, ConnectNext
<1> QED BY <1>1, <1>2, Invariance, PTL DEF Spec

-----------------------------------------------------------------------------
(* What a log says of the email and the country *)

Unknown == [email |-> None, country |-> None]

\* The details d once an event was heard.
Told(d, event) ==
    IF event.type \notin {"Registered", "Updated"} THEN d
    ELSE [email |-> IF event.email = None THEN d.email ELSE event.email,
          country |-> IF event.country = None THEN d.country ELSE event.country]

Follows(d, log) ==
    d = [n \in 0..Len(log) |-> IF n = 0 THEN Unknown ELSE Told(d[n - 1], log[n])]

Left(log) == CHOOSE d : Follows(d, log)

\* The recursion over the log has one solution.
Determined(log) ==
    /\ \E d : Follows(d, log)
    /\ \A c, d : Follows(c, log) /\ Follows(d, log) => c = d

\* A solution, step by step.
LEMMA Unrolled ==
    ASSUME NEW log, Len(log) \in Nat, NEW d
    PROVE  Follows(d, log) <=>
               /\ d \in [0..Len(log) -> {d[n] : n \in 0..Len(log)}]
               /\ d[0] = Unknown
               /\ \A n \in 1..Len(log) : d[n] = Told(d[n - 1], log[n])
<1> DEFINE f == [n \in 0..Len(log) |-> IF n = 0 THEN Unknown ELSE Told(d[n - 1], log[n])]
<1>1. ASSUME Follows(d, log)
      PROVE  /\ d \in [0..Len(log) -> {d[n] : n \in 0..Len(log)}]
             /\ d[0] = Unknown
             /\ \A n \in 1..Len(log) : d[n] = Told(d[n - 1], log[n])
  <2>1. d = f
    BY <1>1 DEF Follows
  <2>2. d[0] = Unknown
    BY <2>1
  <2>3. ASSUME NEW n \in 1..Len(log)
        PROVE  d[n] = Told(d[n - 1], log[n])
    <3>1. n \in 0..Len(log) /\ n # 0
      OBVIOUS
    <3> QED BY <2>1, <3>1
  <2>4. d \in [0..Len(log) -> {d[n] : n \in 0..Len(log)}]
    <3>1. DOMAIN d = 0..Len(log) /\ d = [n \in DOMAIN d |-> d[n]]
      BY <2>1
    <3> QED BY <3>1
  <2> QED BY <2>2, <2>3, <2>4
<1>2. ASSUME d \in [0..Len(log) -> {d[n] : n \in 0..Len(log)}], d[0] = Unknown,
             \A n \in 1..Len(log) : d[n] = Told(d[n - 1], log[n])
      PROVE  Follows(d, log)
  <2>1. ASSUME NEW n \in 0..Len(log)
        PROVE  d[n] = IF n = 0 THEN Unknown ELSE Told(d[n - 1], log[n])
    <3>1. n # 0 => n \in 1..Len(log)
      BY <2>1
    <3> QED BY <1>2, <3>1
  <2>2. d = [n \in 0..Len(log) |-> d[n]]
    BY <1>2
  <2> QED BY <2>1, <2>2 DEF Follows
<1> QED BY <1>1, <1>2

\* Before the first event nothing is known.
LEMMA NothingTold ==
    Determined(<< >>)
<1>1. PICK d : d = [n \in 0..0 |-> Unknown]
    OBVIOUS
<1>2. ASSUME NEW c
      PROVE  Follows(c, << >>) <=> c = d
  <2>1. \A n \in 0..0 : n = 0
    OBVIOUS
  <2> QED BY <1>1, <2>1 DEF Follows
<1> QED BY <1>2 DEF Determined

\* One event more is told to what the log before it left, and changes nothing before.
LEMMA OneMoreTold ==
    ASSUME NEW log, Len(log) \in Nat, Determined(log),
           NEW longer, Len(longer) = Len(log) + 1,
           \A n \in 1..Len(log) : longer[n] = log[n]
    PROVE  /\ Determined(longer)
           /\ \A c, d : Follows(c, log) /\ Follows(d, longer) =>
                  \A n \in 0..Len(log) : d[n] = c[n]
<1>1. PICK e : e = longer[Len(log) + 1]
    OBVIOUS
<1>2. PICK L \in Nat : L = Len(log)
    BY <1>1
<1>3. ASSUME NEW c, Follows(c, log), NEW d, Follows(d, longer)
      PROVE  /\ \A n \in 0..L : d[n] = c[n]
             /\ d[L + 1] = Told(c[L], e)
  <2>1. d[0] = Unknown /\ \A n \in 1..(L + 1) : d[n] = Told(d[n - 1], longer[n])
    <3>1. Len(longer) \in Nat /\ Len(longer) = L + 1
      BY <1>1, <1>2
    <3>2. d[0] = Unknown /\ \A n \in 1..Len(longer) : d[n] = Told(d[n - 1], longer[n])
      BY ONLY <1>3, <3>1, Unrolled
    <3> QED BY <3>1, <3>2
  <2>2. PICK k : k = [n \in 0..L |-> d[n]]
    OBVIOUS
  <2>3. \A n \in 0..L : k[n] = d[n]
    BY <2>2
  <2>4. \A n \in 1..L : k[n] = Told(k[n - 1], log[n])
    <3> SUFFICES ASSUME NEW n \in 1..L
                 PROVE  k[n] = Told(k[n - 1], log[n])
      OBVIOUS
    <3>1. n \in 0..L /\ n - 1 \in 0..L /\ n \in 1..(L + 1)
      OBVIOUS
    <3>2. d[n] = Told(d[n - 1], longer[n]) /\ longer[n] = log[n]
      BY <1>1, <1>2, <2>1, <3>1
    <3>3. k[n] = d[n] /\ k[n - 1] = d[n - 1]
      BY <2>3, <3>1
    <3> QED BY <3>2, <3>3
  <2>5. k \in [0..L -> {k[n] : n \in 0..L}] /\ k[0] = Unknown
    BY <2>1, <2>2
  <2>6. Follows(k, log)
    BY <1>2, <2>4, <2>5, Unrolled
  <2>7. k = c
    BY <1>3, <2>6 DEF Determined
  <2>8. \A n \in 0..L : d[n] = c[n]
    BY <2>3, <2>7
  <2>9. d[L + 1] = Told(d[L], e)
    <3>1. L + 1 \in 1..(L + 1) /\ (L + 1) - 1 = L /\ longer[L + 1] = e
      BY <1>1, <1>2
    <3>2. d[L + 1] = Told(d[(L + 1) - 1], longer[L + 1])
      BY <2>1, <3>1
    <3> QED BY <3>1, <3>2
  <2>10. L \in 0..L
    OBVIOUS
  <2> QED BY <2>8, <2>9, <2>10
<1>4. PICK c : Follows(c, log)
    BY DEF Determined
<1>5. \E d : Follows(d, longer)
  <2>1. c[0] = Unknown /\ \A n \in 1..L : c[n] = Told(c[n - 1], log[n])
    BY <1>2, <1>4, Unrolled
  <2>2. PICK d : d = [n \in 0..(L + 1) |-> IF n <= L THEN c[n] ELSE Told(c[L], e)]
    OBVIOUS
  <2>3. d[0] = Unknown
    BY <2>1, <2>2
  <2>4. ASSUME NEW n \in 1..(L + 1)
        PROVE  d[n] = Told(d[n - 1], longer[n])
    <3>1. n \in 0..(L + 1) /\ n - 1 \in 0..(L + 1) /\ n - 1 <= L /\ (n <= L \/ n = L + 1)
      OBVIOUS
    <3>2. d[n - 1] = c[n - 1]
      BY <2>2, <3>1
    <3>3. CASE n <= L
      <4>1. n \in 1..L
        BY <3>3
      <4>2. longer[n] = log[n] /\ c[n] = Told(c[n - 1], log[n])
        BY <1>1, <1>2, <2>1, <4>1
      <4>3. d[n] = c[n]
        BY <2>2, <3>1, <3>3
      <4> QED BY <3>2, <4>2, <4>3
    <3>4. CASE n = L + 1
      <4>1. longer[n] = e /\ n - 1 = L /\ ~(n <= L)
        BY <1>1, <1>2, <3>4
      <4>2. d[n] = Told(c[L], e)
        BY <2>2, <3>1, <4>1
      <4> QED BY <3>2, <4>1, <4>2
    <3> QED BY <3>1, <3>3, <3>4
  <2>5. d \in [0..(L + 1) -> {d[n] : n \in 0..(L + 1)}]
    <3>1. DOMAIN d = 0..(L + 1) /\ d = [n \in DOMAIN d |-> d[n]]
      BY <2>2
    <3> QED BY <3>1
  <2>6. Len(longer) = L + 1 /\ Len(longer) \in Nat
    BY <1>1, <1>2
  <2>7. Follows(d, longer)
    BY <2>3, <2>4, <2>5, <2>6, Unrolled
  <2> QED BY <2>7
<1>6. ASSUME NEW d, Follows(d, longer), NEW g, Follows(g, longer)
      PROVE  d = g
  <2>1. Len(longer) = L + 1 /\ Len(longer) \in Nat
    BY <1>1, <1>2
  <2>2. d = [n \in 0..(L + 1) |-> d[n]] /\ g = [n \in 0..(L + 1) |-> g[n]]
    BY <1>6, <2>1, Unrolled
  <2>3. ASSUME NEW n \in 0..(L + 1)
        PROVE  d[n] = g[n]
    <3>1. n \in 0..L \/ n = L + 1
      OBVIOUS
    <3>2. (\A m \in 0..L : d[m] = c[m]) /\ d[L + 1] = Told(c[L], e)
      BY <1>3, <1>4, <1>6
    <3>3. (\A m \in 0..L : g[m] = c[m]) /\ g[L + 1] = Told(c[L], e)
      BY <1>3, <1>4, <1>6
    <3> QED BY <3>1, <3>2, <3>3
  <2> QED BY <2>2, <2>3
<1> QED BY <1>2, <1>3, <1>5, <1>6 DEF Determined

\* The function chosen for a log solves its recursion.
LEMMA LeftFollows ==
    ASSUME NEW log, Determined(log)
    PROVE  Follows(Left(log), log)
<1>1. PICK d : Follows(d, log)
    BY DEF Determined
<1>2. Follows(CHOOSE c : Follows(c, log), log)
    BY ONLY <1>1, Zenon
<1> QED BY <1>2 DEF Left

\* DetailsAt is that function, of the log now and of the log after a step.
LEMMA DetailsAreLeft ==
    ASSUME NEW u
    PROVE  /\ DetailsAt(u) = Left(users_log[u])
           /\ DetailsAt(u)' = Left(users_log'[u])
<1>1. DetailsAt(u) = Left(users_log[u])
    BY DEF DetailsAt, Left, Follows, Told, Unknown
<1>2. DetailsAt(u)' = Left(users_log'[u])
    BY DEF DetailsAt, Left, Follows, Told, Unknown
<1> QED BY <1>1, <1>2

-----------------------------------------------------------------------------
(* What the mirror and the accounts at Stripe say *)

Details(row) == [email |-> row.email, country |-> row.country]

\* The account whose log this is had details d, after one of its events.
Had(log, d) == \E n \in 0..Len(log) : Left(log)[n] = d

LogsDetermined == \A u \in Users : Determined(users_log[u])

\* The mirror says what the events up to its version left.
MirrorTrue ==
    \A u \in Users :
        host[u] # None => Details(host[u]) = Left(users_log[u])[host[u].version]

\* No two accounts were opened for one body, and every body that is, or will be,
\* sent to Stripe was once true.
AccountsTrue ==
    /\ \A i, j \in DOMAIN accounts : accounts[i] = accounts[j] => i = j
    /\ \A i \in DOMAIN accounts : Had(users_log[accounts[i].user], Details(accounts[i]))
    /\ \A o \in Onboardings : At(o, "creating") =>
           Had(users_log[onboarding[o].body.user], Details(onboarding[o].body))

OnboardingInv == LogsDetermined /\ MirrorTrue /\ AccountsTrue

\* What a log said, it still says when it is longer.
LEMMA StillSaid ==
    ASSUME IInv, [Next]_vars, LogsDetermined, NEW u \in Users
    PROVE  /\ Determined(users_log'[u])
           /\ \A n \in 0..Len(users_log[u]) : Left(users_log'[u])[n] = Left(users_log[u])[n]
           /\ \A d : Had(users_log[u], d) => Had(users_log'[u], d)
<1>1. TypeOK /\ users_log[u] \in Seq(Envelope) /\ Len(users_log[u]) \in Nat
    BY LenProperties DEF IInv, TypeOK
<1>2. /\ Determined(users_log'[u])
      /\ \A n \in 0..Len(users_log[u]) : Left(users_log'[u])[n] = Left(users_log[u])[n]
  <2>1. CASE users_log'[u] = users_log[u]
    BY <2>1 DEF LogsDetermined
  <2>2. ASSUME NEW e \in Envelope, users_log'[u] = Append(users_log[u], e)
        PROVE  /\ Determined(users_log'[u])
               /\ \A n \in 0..Len(users_log[u]) : Left(users_log'[u])[n] = Left(users_log[u])[n]
    <3>1. PICK log : log = users_log[u]
      OBVIOUS
    <3>2. PICK longer : longer = users_log'[u]
      OBVIOUS
    <3>3. /\ Len(log) \in Nat /\ Len(longer) = Len(log) + 1
          /\ \A n \in 1..Len(log) : longer[n] = log[n]
          /\ Determined(log)
      BY <1>1, <2>2, <3>1, <3>2, AppendProperties DEF LogsDetermined
    <3>4. /\ Determined(longer)
          /\ \A c, d : Follows(c, log) /\ Follows(d, longer) =>
                 \A n \in 0..Len(log) : d[n] = c[n]
      BY ONLY <3>3, OneMoreTold
    <3>5. Follows(Left(log), log) /\ Follows(Left(longer), longer)
      BY <3>3, <3>4, LeftFollows
    <3>6. \A n \in 0..Len(log) : Left(longer)[n] = Left(log)[n]
      BY <3>4, <3>5
    <3> QED BY <3>1, <3>2, <3>4, <3>6
  <2>3. \/ users_log'[u] = users_log[u]
        \/ \E e \in Envelope : users_log'[u] = Append(users_log[u], e)
    <3>1. CASE UNCHANGED <<app_user, users_log>>
      BY <3>1
    <3>2. ASSUME NEW v \in Users, NEW r \in Account, NEW e \in Envelope, Writes(v, r, e)
          PROVE  \/ users_log'[u] = users_log[u]
                 \/ users_log'[u] = Append(users_log[u], e)
      <4>1. users_log' = [users_log EXCEPT ![v] = Append(users_log[v], e)]
        BY <3>2 DEF Writes
      <4> QED BY <1>1, <4>1 DEF TypeOK
    <3> QED BY <3>1, <3>2, OneWrite
  <2> QED BY <2>1, <2>2, <2>3
<1>3. ASSUME NEW d, Had(users_log[u], d)
      PROVE  Had(users_log'[u], d)
  <2>1. PICK n \in 0..Len(users_log[u]) : Left(users_log[u])[n] = d
    BY <1>3 DEF Had
  <2>2. n \in 0..Len(users_log'[u])
    BY <1>1, <2>1, LogsGrow
  <2> QED BY <1>2, <2>1, <2>2 DEF Had
<1> QED BY <1>2, <1>3

\* The event the mirror is handed tells it what it tells the log.
LEMMA MirrorTold ==
    ASSUME IInv, LogsDetermined, MirrorTrue, NEW u \in Users, ProjectHost(u)
    PROVE  Details(host'[u]) = Left(users_log[u])[host'[u].version]
<1>1. PICK log : log = users_log[u]
    OBVIOUS
<1>2. PICK n : n = HostVersion(u) + 1
    OBVIOUS
<1>3. /\ host \in [Users -> Host \cup {None}] /\ log \in Seq(Envelope) /\ Len(log) \in Nat
      /\ DOMAIN log = 1..Len(log)
    BY <1>1, LenProperties DEF IInv, TypeOK, ConnectTypeOK
<1>4. n \in 1..Len(log) /\ n - 1 = HostVersion(u) /\ n - 1 \in Nat
    BY <1>1, <1>2, <1>3 DEF HostVersion, Host, ProjectHost
<1>5. PICK event : event = log[n]
    OBVIOUS
<1>6. /\ event \in Envelope /\ event.version = n
      /\ event.type = "Registered" <=> n = 1
      /\ event.type = "Registered" => event.email \in Emails /\ event.country = None
    BY <1>1, <1>3, <1>4, <1>5, ElementOfSeq DEF IInv, RowsCounted, VersionsGapless, LogsBegin
<1>7. PICK left : left = Left(log)
    OBVIOUS
<1>8. left[0] = Unknown /\ left[n] = Told(left[n - 1], event)
  <2>1. Follows(left, log)
    BY <1>1, <1>7, LeftFollows DEF LogsDetermined
  <2> QED BY <1>3, <1>4, <1>5, <2>1, Unrolled
<1>9. PICK row : row = host[u]
    OBVIOUS
<1>10. PICK next : next = host'[u]
    OBVIOUS
<1>11. next = IF event.type = "Registered" THEN UpsertedHost(row, event)
              ELSE IF event.type = "Updated" THEN PatchedHost(row, event)
              ELSE [row EXCEPT !.version = event.version]
    BY <1>1, <1>2, <1>3, <1>5, <1>9, <1>10 DEF ProjectHost
<1>12. row = None <=> n = 1
    BY <1>2, <1>3, <1>9 DEF HostVersion, IInv, HostBehind
<1>13. row # None => row \in Host /\ Details(row) = left[n - 1]
    BY <1>1, <1>3, <1>4, <1>7, <1>9 DEF HostVersion, MirrorTrue
<1>14. next.version = n /\ Details(next) = left[n]
  <2>1. CASE event.type = "Registered"
    <3>1. next = [version |-> n, email |-> event.email, country |-> None]
      BY <1>6, <1>11, <1>12, <2>1 DEF UpsertedHost
    <3>2. event.email # None
      BY <1>6, <2>1, UserAssumption
    <3>3. n = 1 /\ left[n - 1] = Unknown
      BY <1>6, <1>8, <2>1
    <3>4. left[n] = [email |-> event.email, country |-> None]
      BY <1>6, <1>8, <2>1, <3>2, <3>3 DEF Told, Unknown
    <3> QED BY <3>1, <3>4 DEF Details
  <2>2. CASE event.type = "Updated"
    <3>1. next = PatchedHost(row, event)
      BY <1>11, <2>2
    <3>2. Details(row) = left[n - 1]
      BY <1>6, <1>12, <1>13, <2>2
    <3>3. left[n - 1].email = row.email /\ left[n - 1].country = row.country
      BY <3>2 DEF Details
    <3> QED BY <1>6, <1>8, <2>2, <3>1, <3>3 DEF Told, PatchedHost, Details
  <2>3. CASE event.type \notin {"Registered", "Updated"}
    <3>1. row \in Host /\ Details(row) = left[n - 1]
      BY <1>6, <1>12, <1>13, <2>3
    <3>2. next = [row EXCEPT !.version = n]
      BY <1>6, <1>11, <2>3
    <3>3. next.version = n /\ next.email = row.email /\ next.country = row.country
      BY <3>1, <3>2 DEF Host
    <3> QED BY <1>8, <2>3, <3>1, <3>3 DEF Told, Details
  <2> QED BY <2>1, <2>2, <2>3
<1> QED BY <1>1, <1>7, <1>10, <1>14

\* The mirror only moves with the projector, and the logs only grow under it.
LEMMA MirrorStays ==
    ASSUME IInv, LogsDetermined, MirrorTrue, [Next]_vars
    PROVE  MirrorTrue'
<1>1. host \in [Users -> Host \cup {None}]
    BY DEF IInv, TypeOK, ConnectTypeOK
<1>2. ASSUME NEW u \in Users, host[u] # None
      PROVE  Details(host[u]) = Left(users_log'[u])[host[u].version]
  <2>1. host[u].version \in 1..Len(users_log[u]) /\ Len(users_log[u]) \in Nat
    BY <1>2, LogsGrow DEF IInv, HostBehind
  <2>2. host[u].version \in 0..Len(users_log[u])
    BY <2>1
  <2> QED BY <1>2, <2>2, StillSaid DEF MirrorTrue
<1>3. ASSUME UNCHANGED host
      PROVE  MirrorTrue'
    BY <1>2, <1>3 DEF MirrorTrue
<1>4. ASSUME NEW u \in Users, ProjectHost(u), UNCHANGED users_log
      PROVE  MirrorTrue'
  <2>1. \A v \in Users \ {u} : host'[v] = host[v]
    BY <1>4, HostProjected
  <2>2. Details(host'[u]) = Left(users_log[u])[host'[u].version]
    BY <1>4, MirrorTold
  <2> QED BY <1>4, <2>1, <2>2 DEF MirrorTrue
<1>5. ASSUME NEW o \in Onboardings,
             \/ \E u \in Users : FindAccount(o, u)
             \/ ReadHost(o) \/ CreateAccount(o) \/ InsertAccount(o)
             \/ OpenSession(o) \/ OnboardingFails(o)
      PROVE  UNCHANGED host
    BY <1>5, OnboardingTypes
<1>6. CASE UNCHANGED connectVars
    BY <1>3, <1>6 DEF connectVars
<1>7. CASE ConnectNext /\ UNCHANGED userVars
    BY <1>3, <1>4, <1>5, <1>7 DEF ConnectNext, userVars
<1> QED BY <1>6, <1>7 DEF Next, vars

\* A body is read from the mirror, and Stripe opens one account for it.
LEMMA AccountsStay ==
    ASSUME IInv, OnboardingInv, [Next]_vars
    PROVE  AccountsTrue'
<1>1. /\ ConnectTypeOK /\ accounts \in Seq(Body) /\ Len(accounts) \in Nat
      /\ DOMAIN accounts = 1..Len(accounts)
    BY LenProperties DEF IInv, TypeOK, ConnectTypeOK
<1>2. ASSUME NEW u \in Users, NEW d, Had(users_log[u], d)
      PROVE  Had(users_log'[u], d)
    BY <1>2, StillSaid DEF OnboardingInv
<1>3. ASSUME NEW i \in DOMAIN accounts
      PROVE  /\ accounts[i] \in Body
             /\ Had(users_log'[accounts[i].user], Details(accounts[i]))
  <2>1. accounts[i] \in Body
    BY <1>1, <1>3, ElementOfSeq
  <2>2. accounts[i].user \in Users
    BY <2>1 DEF Body
  <2> QED BY <1>2, <2>1, <2>2 DEF OnboardingInv, AccountsTrue
<1>4. ASSUME NEW o \in Onboardings, At(o, "creating")
      PROVE  /\ onboarding[o].body \in Body
             /\ Had(users_log'[onboarding[o].body.user], Details(onboarding[o].body))
  <2>1. onboarding[o].body \in Body
    BY <1>1, <1>4 DEF ConnectTypeOK, Onboarding, At
  <2>2. onboarding[o].body.user \in Users
    BY <2>1 DEF Body
  <2> QED BY <1>2, <1>4, <2>1, <2>2 DEF OnboardingInv, AccountsTrue
<1>5. CASE UNCHANGED <<accounts, onboarding>>
    BY <1>3, <1>4, <1>5 DEF OnboardingInv, AccountsTrue, At
<1>6. ASSUME NEW o \in Onboardings, NEW r, Onboards(o, r), UNCHANGED accounts,
             r # None /\ r.pc = "creating" =>
                 Had(users_log'[r.body.user], Details(r.body))
      PROVE  AccountsTrue'
  <2>1. onboarding'[o] = r /\ \A p \in Onboardings \ {o} : onboarding'[p] = onboarding[p]
    BY <1>1, <1>6 DEF ConnectTypeOK, Onboards
  <2>2. \A p \in Onboardings : At(p, "creating")' =>
            Had(users_log'[onboarding'[p].body.user], Details(onboarding'[p].body))
    BY <1>4, <1>6, <2>1 DEF At
  <2> QED BY <1>3, <1>6, <2>2 DEF OnboardingInv, AccountsTrue
<1>7. ASSUME NEW o \in Onboardings, ReadHost(o), UNCHANGED users_log
      PROVE  AccountsTrue'
  <2>1. PICK u : u = onboarding[o].user
    OBVIOUS
  <2>2. u \in Users
    BY <1>1, <1>7, <2>1 DEF ConnectTypeOK, Onboarding, ReadHost, At
  <2>3. PICK body : body = [user |-> u, email |-> host[u].email, country |-> host[u].country]
    OBVIOUS
  <2>4. PICK r : r = IF host[u] # None /\ host[u].country # None
                     THEN [pc |-> "creating", user |-> u, body |-> body] ELSE None
    OBVIOUS
  <2>5. Onboards(o, r) /\ UNCHANGED accounts
    BY <1>7, <2>1, <2>3, <2>4 DEF ReadHost
  <2>6. host[u] # None => Had(users_log[u], Details(body))
    <3> SUFFICES ASSUME host[u] # None
                 PROVE  Had(users_log[u], Details(body))
      OBVIOUS
    <3>1. host[u].version \in 1..Len(users_log[u]) /\ Len(users_log[u]) \in Nat
      BY <2>2, LogsGrow DEF IInv, HostBehind
    <3>2. host[u].version \in 0..Len(users_log[u])
      BY <3>1
    <3>3. Details(body) = Details(host[u])
      BY <2>3 DEF Details
    <3>4. Details(host[u]) = Left(users_log[u])[host[u].version]
      BY <2>2 DEF OnboardingInv, MirrorTrue
    <3> QED BY <3>2, <3>3, <3>4 DEF Had
  <2>7. body.user = u
    BY <2>3
  <2>8. r # None => r.body = body /\ host[u] # None
    BY <2>4
  <2>9. r # None /\ r.pc = "creating" => Had(users_log'[r.body.user], Details(r.body))
    BY <1>7, <2>6, <2>7, <2>8
  <2> QED BY ONLY <1>6, <2>5, <2>9
<1>8. ASSUME NEW o \in Onboardings, CreateAccount(o)
      PROVE  AccountsTrue'
  <2>1. PICK body : body = onboarding[o].body
    OBVIOUS
  <2>2. body \in Body /\ Had(users_log'[body.user], Details(body))
    BY <1>4, <1>8, <2>1 DEF CreateAccount
  <2>3. PICK i \in IF Known(body) = {} THEN {Len(accounts) + 1} ELSE Known(body) :
            /\ accounts' = IF i > Len(accounts) THEN Append(accounts, body) ELSE accounts
            /\ Onboards(o, [pc |-> "inserting", user |-> body.user, account |-> i])
    BY <1>8, <2>1 DEF CreateAccount
  <2>4. PICK r : r = [pc |-> "inserting", user |-> body.user, account |-> i]
    OBVIOUS
  <2>5. Onboards(o, r) /\ r.pc # "creating"
    BY <2>3, <2>4
  <2>6. CASE Known(body) # {}
    <3>1. i \in Known(body)
      BY <2>3, <2>6
    <3>2. ~(i > Len(accounts))
      BY <1>1, <3>1 DEF Known
    <3>3. UNCHANGED accounts
      BY <2>3, <3>2
    <3> QED BY ONLY <1>6, <2>5, <3>3
  <2>7. CASE Known(body) = {}
    <3>1. accounts' = Append(accounts, body)
      <4>1. i = Len(accounts) + 1
        BY <2>3, <2>7
      <4>2. i > Len(accounts)
        BY <1>1, <4>1
      <4> QED BY <2>3, <4>2
    <3>2. /\ Len(accounts') = Len(accounts) + 1 /\ accounts' \in Seq(Body)
          /\ \A k \in 1..Len(accounts) : accounts'[k] = accounts[k]
          /\ accounts'[Len(accounts) + 1] = body
      BY <1>1, <2>2, <3>1, AppendProperties
    <3>3. DOMAIN accounts' = 1..(Len(accounts) + 1)
      BY <3>2, LenProperties
    <3>4. \A k \in DOMAIN accounts : accounts[k] # body
      BY <2>7 DEF Known
    <3>5. ASSUME NEW j \in DOMAIN accounts', NEW k \in DOMAIN accounts', accounts'[j] = accounts'[k]
          PROVE  j = k
      <4>1. j \in DOMAIN accounts \/ j = Len(accounts) + 1
        BY <1>1, <3>3, <3>5
      <4>2. k \in DOMAIN accounts \/ k = Len(accounts) + 1
        BY <1>1, <3>3, <3>5
      <4> QED BY <1>1, <3>2, <3>4, <3>5, <4>1, <4>2 DEF OnboardingInv, AccountsTrue
    <3>6. ASSUME NEW k \in DOMAIN accounts'
          PROVE  Had(users_log'[accounts'[k].user], Details(accounts'[k]))
      <4>1. k \in DOMAIN accounts \/ k = Len(accounts) + 1
        BY <1>1, <3>3, <3>6
      <4> QED BY <1>1, <1>3, <2>2, <3>2, <4>1
    <3>7. onboarding'[o] = r /\ \A p \in Onboardings \ {o} : onboarding'[p] = onboarding[p]
      BY <1>1, <2>5 DEF ConnectTypeOK, Onboards
    <3>8. \A p \in Onboardings : At(p, "creating")' =>
              Had(users_log'[onboarding'[p].body.user], Details(onboarding'[p].body))
      BY <1>4, <2>5, <3>7 DEF At
    <3> QED BY <3>5, <3>6, <3>8 DEF AccountsTrue
  <2> QED BY <2>6, <2>7
<1>9. ASSUME NEW o \in Onboardings, NEW u \in Users, FindAccount(o, u)
      PROVE  AccountsTrue'
  <2>1. PICK r : r = IF connect_account[u] # None
                     THEN [pc |-> "opening", user |-> u, account |-> connect_account[u]]
                     ELSE [pc |-> "reading", user |-> u]
    OBVIOUS
  <2>2. r.pc # "creating"
    BY <2>1
  <2>3. Onboards(o, r) /\ UNCHANGED accounts
    BY <1>9, <2>1 DEF FindAccount
  <2> QED BY ONLY <1>6, <2>2, <2>3
<1>10. ASSUME NEW o \in Onboardings, InsertAccount(o)
       PROVE  AccountsTrue'
  <2>1. PICK r : /\ Onboards(o, r) /\ UNCHANGED accounts
                 /\ r = [pc |-> "opening", user |-> onboarding[o].user,
                         account |-> Stored(onboarding[o].user, onboarding[o].account)]
    BY <1>10 DEF InsertAccount
  <2>2. r.pc # "creating"
    BY <2>1
  <2> QED BY ONLY <1>6, <2>1, <2>2
<1>11. ASSUME NEW o \in Onboardings, OpenSession(o) \/ OnboardingFails(o)
       PROVE  AccountsTrue'
  <2>1. Onboards(o, None) /\ UNCHANGED accounts
    BY <1>11 DEF OpenSession, OnboardingFails
  <2> QED BY ONLY <1>6, <2>1
<1>12. ASSUME NEW u \in Users, ProjectHost(u)
       PROVE  AccountsTrue'
    BY <1>5, <1>12 DEF ProjectHost
<1>13. CASE UNCHANGED connectVars
    BY <1>5, <1>13 DEF connectVars
<1>14. CASE ConnectNext /\ UNCHANGED userVars
    BY <1>7, <1>8, <1>9, <1>10, <1>11, <1>12, <1>14 DEF ConnectNext, userVars
<1> QED BY <1>13, <1>14 DEF Next, vars

-----------------------------------------------------------------------------
(* What follows for every behaviour *)

\* The mirror, the accounts at Stripe and the bodies on their way there only say
\* what their person's events said at one time.
THEOREM OnboardingInvariance == Spec => []OnboardingInv
<1>1. Init => OnboardingInv
  <2> SUFFICES ASSUME Init
               PROVE  OnboardingInv
    OBVIOUS
  <2>1. LogsDetermined
    BY NothingTold DEF Init, UserInit, LogsDetermined
  <2>2. MirrorTrue
    BY DEF Init, ConnectInit, MirrorTrue
  <2>3. accounts = << >> /\ \A o \in Onboardings : onboarding[o] = None
    BY DEF Init, ConnectInit
  <2>4. DOMAIN accounts = {}
    BY <2>3
  <2>5. AccountsTrue
    BY <2>3, <2>4 DEF AccountsTrue, At
  <2> QED BY <2>1, <2>2, <2>5 DEF OnboardingInv
<1>2. ASSUME IInv, OnboardingInv, [Next]_vars
      PROVE  OnboardingInv'
  <2>1. LogsDetermined'
    BY <1>2, StillSaid DEF OnboardingInv, LogsDetermined
  <2>2. MirrorTrue'
    BY <1>2, MirrorStays DEF OnboardingInv
  <2>3. AccountsTrue'
    BY <1>2, AccountsStay
  <2> QED BY <2>1, <2>2, <2>3 DEF OnboardingInv
<1> QED BY <1>1, <1>2, Invariance, PTL DEF Spec

\* A host's row in payment-service holds the email and the country that the events
\* up to its version left: no edit of one column costs it the other.
THEOREM HostMirrorAgreesHolds == Spec => []HostMirrorAgrees
<1>1. OnboardingInv => HostMirrorAgrees
    BY DetailsAreLeft DEF OnboardingInv, MirrorTrue, HostMirrorAgrees, Details
<1> QED BY <1>1, OnboardingInvariance, PTL

\* A person has at most as many accounts at Stripe as they had different details:
\* each account was opened for details of their own, and no two for the same.
LEMMA OpenedForDetails ==
    ASSUME IInv, OnboardingInv
    PROVE  AccountsExplained
<1> SUFFICES ASSUME NEW u \in Users
             PROVE  Cardinality({i \in DOMAIN accounts : accounts[i].user = u}) <=
                    Cardinality({DetailsAt(u)[n] :
                        n \in {k \in 0..Len(users_log[u]) : DetailsAt(u)[k].country # None}})
    BY DEF AccountsExplained
<1>1. PICK left : left = Left(users_log[u])
    OBVIOUS
<1>2. PICK S : S = {i \in DOMAIN accounts : accounts[i].user = u}
    OBVIOUS
<1>3. PICK K : K = {k \in 0..Len(users_log[u]) : left[k].country # None}
    OBVIOUS
<1>4. PICK T : T = {left[n] : n \in K}
    OBVIOUS
<1>5. IsFiniteSet(T)
  <2>1. Len(users_log[u]) \in Nat
    BY LenProperties DEF IInv, TypeOK
  <2>2. IsFiniteSet(0..Len(users_log[u]))
    BY <2>1, FS_Interval
  <2>3. IsFiniteSet(K)
    BY <1>3, <2>2, FS_Subset
  <2>4. PICK g : g = [n \in K |-> left[n]]
    OBVIOUS
  <2>5. g \in Surjection(K, T)
    BY <1>4, <2>4 DEF Surjection
  <2> QED BY <2>3, <2>5, FS_Surjection
<1>6. ASSUME NEW i \in S
      PROVE  accounts[i] \in Body /\ accounts[i].user = u /\ Details(accounts[i]) \in T
  <2>1. accounts[i] \in Body /\ accounts[i].user = u
    BY <1>2, ElementOfSeq, LenProperties DEF IInv, TypeOK, ConnectTypeOK
  <2>2. PICK n \in 0..Len(users_log[u]) : left[n] = Details(accounts[i])
    BY <1>1, <1>2, <2>1 DEF OnboardingInv, AccountsTrue, Had
  <2>3. Details(accounts[i]).country # None
    BY <2>1, UserAssumption DEF Body, Details
  <2>4. n \in K
    BY <1>3, <2>2, <2>3
  <2> QED BY <1>4, <2>1, <2>2, <2>4
<1>7. PICK f : f = [i \in S |-> Details(accounts[i])]
    OBVIOUS
<1>8. f \in Injection(S, T)
  <2>1. f \in [S -> T]
    BY <1>6, <1>7
  <2>2. ASSUME NEW i \in S, NEW j \in S, f[i] = f[j]
        PROVE  i = j
    <3>1. Details(accounts[i]) = Details(accounts[j])
      BY <1>7, <2>2
    <3>2. accounts[i].email = accounts[j].email /\ accounts[i].country = accounts[j].country
      BY <3>1 DEF Details
    <3>3. accounts[i] = accounts[j]
      BY <1>6, <3>2 DEF Body
    <3>4. i \in DOMAIN accounts /\ j \in DOMAIN accounts
      BY <1>2
    <3> QED BY <3>3, <3>4 DEF OnboardingInv, AccountsTrue
  <2> QED BY <2>1, <2>2 DEF Injection, IsInjective
<1>9. Cardinality(S) <= Cardinality(T)
    BY <1>5, <1>8, FS_Injection
<1> QED BY <1>1, <1>2, <1>3, <1>4, <1>9, DetailsAreLeft

\* However onboardings race, repeat and crash, a person is paid on one account, and
\* has a second one only if their details changed.
THEOREM OneAccountPerHostHolds == Spec => []OneAccountPerHost
<1>1. IInv /\ OnboardingInv => AccountsExplained
    BY OpenedForDetails
<1> QED
    BY <1>1, Invariance, OnboardingInvariance, SecretsOpenTheStoredHolds, PTL DEF OneAccountPerHost
=============================================================================
