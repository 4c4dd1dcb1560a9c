---------------------------- MODULE Accounts ----------------------------
(***************************************************************************)
(* user-service, notification-service and the mailboxes between them: an   *)
(* event becomes a mail, and whoever reads the mail may open its link, at  *)
(* any time and any number of times.  And payment-service, which opens a   *)
(* host's Stripe account with what it projected of the same events.        *)
(*                                                                         *)
(* `focus` is a bound and no state of the program: a behaviour keeps to    *)
(* the users, requests, writes, clock and faults of one focus.             *)
(***************************************************************************)
EXTENDS UserService, NotificationService, ConnectService, FiniteSets

CONSTANT Foci  \* bound: the foci explored

VARIABLE focus

vars == <<userVars, mailVars, connectVars, focus>>

\* An event id is the account and the version it gave the row.
Keys == Users \X (1..MaxVersion)

Committed(key) == key[2] \in DOMAIN users_log[key[1]]

EventOf(key) == users_log[key[1]][key[2]]

Opens(link) ==
    \/ Verified(link, "VerifyEmail", now) /\ VerifyEmail(link.user)
    \/ Verified(link, "ResetPassword", now) /\ ResetPassword(link.user, link.ver)

Init ==
    /\ UserInit
    /\ consumer = [k \in Keys |-> [delivered |-> 0, acked |-> FALSE]]
    /\ inbox = {}
    /\ faults = 0
    /\ ConnectInit
    /\ focus \in Foci

Works(key) == Committed(key) /\ Notify(key, EventOf(key), now) /\ UNCHANGED userVars

Disturbed(key) ==
    /\ Committed(key)
    /\ \/ NotifyUnacked(key, EventOf(key), now)
       \/ NotifyFails(key, EventOf(key))
       \/ Duplicate(key)
    /\ UNCHANGED userVars

\* The bound a step may not leave.
InFocus ==
    /\ \A u \in Users : Len(users_log[u]) <= focus.versions[u]
    /\ \A c \in Clients : call[c] # None =>
         /\ c \in focus.clients /\ call[c].op \in focus.ops
         /\ focus.versions[call[c].user] > 0
         /\ call[c].email \in (IF call[c].op = "signup" THEN focus.signups ELSE focus.emails \cup {None})
         /\ call[c].country \in focus.countries \cup {None}
    /\ Len(sessions_log) <= focus.sessions
    /\ now <= focus.until
    /\ faults <= focus.faults
    /\ \A o \in Onboardings \ focus.onboardings : onboarding[o] = None
    /\ focus.onboardings = {} => \A u \in Users : host[u] = None

Next ==
    /\ \/ UserNext /\ UNCHANGED <<mailVars, connectVars>>
       \/ \E m \in inbox : Opens(m.link) /\ UNCHANGED <<mailVars, connectVars>>
       \/ \E key \in Keys : (Works(key) \/ Disturbed(key)) /\ UNCHANGED connectVars
       \/ ConnectNext /\ UNCHANGED <<userVars, mailVars>>
    /\ UNCHANGED focus /\ InFocus'

Spec == Init /\ [][Next]_vars

\* The broker redelivers what was not acked and a worker takes it.
FairSpec == Spec /\ \A key \in Keys : WF_vars(Works(key) /\ UNCHANGED <<connectVars, focus>>)

-----------------------------------------------------------------------------

\* Every variable has its type, and a mail is about an event that was committed.
TypeOK ==
    /\ app_user \in [Users -> Account \cup {None}]
    /\ refresh_token \in [Tokens -> Session \cup {None}]
    /\ users_log \in [Users -> Seq(Envelope)]
    /\ sessions_log \in Seq([type: {"Issued", "Rotated", "Revoked"}, token: Tokens, version: Nat])
    /\ access \in [Users -> Nat]
    /\ call \in [Clients -> Call \cup {None}]
    /\ now \in Nat
    /\ consumer \in [Keys -> [delivered: Nat, acked: BOOLEAN]]
    /\ inbox \subseteq [key: Keys, to: Emails \cup {None},
                        link: [user: Users, purpose: Purpose, ver: Nat, exp: Nat]]
    /\ faults \in Nat
    /\ ConnectTypeOK

\* However two signups and two changes of address interleave between their
\* lookup and their commit, no two accounts hold one address.
EmailsUnique ==
    \A u, v \in Users :
        Exists(u) /\ Exists(v) /\ app_user[u].email = app_user[v].email => u = v

\* The row stands at the number of events written for it and they are numbered
\* without a gap, the requests that change no column included: what the
\* projectors' gate and the reset links both count on.
VersionsGapless ==
    \A u \in Users :
        /\ Len(users_log[u]) = (IF Exists(u) THEN app_user[u].version ELSE 0)
        /\ \A i \in DOMAIN users_log[u] : users_log[u][i].version = i

\* One mail per COOLDOWN and account, whichever forms asked and however many
\* requests had read the account before the first of them stamped it.
MailCooldown ==
    \A u \in Users : \A i, j \in DOMAIN users_log[u] :
        /\ i < j
        /\ users_log[u][i].type \in MailRequests
        /\ users_log[u][j].type \in MailRequests
        => users_log[u][j].at - users_log[u][i].at >= COOLDOWN

\* A link redeemed for a password was the one the account's last event asked
\* for: it works once, and any later write or request retires it.
ResetFollowsItsRequest ==
    \A u \in Users : \A i \in DOMAIN users_log[u] :
        users_log[u][i].link # 0 =>
            /\ users_log[u][i].link = i - 1
            /\ users_log[u][i - 1].type = "PasswordResetRequested"

\* No reset link is born dead: until something else is written, the row is at
\* the version the mailed link names.
LinkBornAlive ==
    \A m \in inbox :
        m.link.purpose = "ResetPassword" /\ m.key[2] = Len(users_log[m.key[1]])
            => StillAt(m.link.user, m.link.ver)

\* A reset link works exactly while it is the account's last word: it is alive
\* when it is mailed and dead once it is used or anything else is written.
ResetLinkIsLastWord == VersionsGapless /\ ResetFollowsItsRequest /\ LinkBornAlive

\* At-least-once delivery, lost acks and duplicated messages send one mail.
OneMailPerEvent == \A m, n \in inbox : m.key = n.key => m = n

\* Nobody is mailed more often than they are to be: per account and per event.
MailedSparingly == MailCooldown /\ OneMailPerEvent

\* A password reset ends every session committed before it: a live session was
\* opened after the account's last reset.
ResetEndsSessions ==
    \A t \in Tokens :
        refresh_token[t] # None /\ ~refresh_token[t].revoked =>
            \A i \in DOMAIN users_log[refresh_token[t].user_id] :
                users_log[refresh_token[t].user_id][i].link # 0 => i <= refresh_token[t].born

\* The email and the country that the first n events of u leave behind.
DetailsAt(u) ==
    LET details[n \in 0..Len(users_log[u])] ==
            IF n = 0 THEN [email |-> None, country |-> None]
            ELSE LET event == users_log[u][n] IN
                 IF event.type \notin {"Registered", "Updated"} THEN details[n - 1]
                 ELSE [email |-> IF event.email = None THEN details[n - 1].email ELSE event.email,
                       country |-> IF event.country = None THEN details[n - 1].country
                                   ELSE event.country]
    IN details

\* The host mirror holds what the events up to its version left, whatever it
\* skipped on the way; a country once given is not lost to an edit of the rest.
HostMirrorAgrees ==
    \A u \in Users :
        host[u] # None =>
            [email |-> host[u].email, country |-> host[u].country] = DetailsAt(u)[host[u].version]

\* Racing and repeated onboardings of one person, edited between them or not,
\* open sessions on one account: the one that is stored and will be paid.
SecretsOpenTheStored ==
    \A s \in secrets : connect_account[s.user] = s.account

\* No attempt that raced, or was repeated after a crash, leaves a second account
\* at Stripe, unless the person's details changed in between.
AccountsExplained ==
    \A u \in Users :
        Cardinality({i \in DOMAIN accounts : accounts[i].user = u}) <=
        Cardinality({DetailsAt(u)[n] : n \in {k \in 0..Len(users_log[u]) : DetailsAt(u)[k].country # None}})

\* A host has one account at Stripe: racing and repeated onboardings neither use
\* another than the stored one nor leave one behind.
OneAccountPerHost == SecretsOpenTheStored /\ AccountsExplained

\* A committed event that deserves a mail gets one, although sends fail, acks
\* are lost and a replica dies, as long as MAX_DELIVER outlasts the faults.
EventuallyMailed ==
    \A key \in Keys :
        (Committed(key) /\ MailFor(EventOf(key)) # {}) ~> (\E m \in inbox : m.key = key)
=============================================================================
