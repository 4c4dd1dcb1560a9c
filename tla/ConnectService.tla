-------------------------- MODULE ConnectService --------------------------
(***************************************************************************)
(* payment-service, a host's onboarding: the `host` mirror that            *)
(* UserProjector fills from USERS, the account Stripe opens with what the  *)
(* mirror holds, and the session of that account a browser is handed.      *)
(*                                                                         *)
(* account_session is a chain of reads, calls and one insert with no       *)
(* transaction around it, so each is a step of its own; it may fail, or    *)
(* its caller give up, between any two.  An account's id is its place in   *)
(* `accounts`.                                                             *)
(***************************************************************************)
EXTENDS UserService

CONSTANTS Onboardings  \* account_session requests in flight

VARIABLES
    host,             \* [Users -> the host mirror's row or None]
    connect_account,  \* [Users -> the stored account id or None]
    accounts,         \* the accounts opened at Stripe, in order
    onboarding,       \* [Onboardings -> the request in flight or None]
    secrets           \* the sessions handed out: [user, account]

connectVars == <<host, connect_account, accounts, onboarding, secrets>>

Host == [version: Nat, email: Emails, country: Countries \cup {None}]

\* What is asked of Stripe: account_idempotency_key digests all of it.
Body == [user: Users, email: Emails, country: Countries]

Onboarding ==
    [pc: {"reading"}, user: Users] \cup
    [pc: {"creating"}, user: Users, body: Body] \cup
    [pc: {"inserting", "opening"}, user: Users, account: Nat]

ASSUME ConnectNone == None \notin Host \cup Onboarding

-----------------------------------------------------------------------------
(* UserProjector *)

HostVersion(u) == IF host[u] = None THEN 0 ELSE host[u].version

\* The row a Registered writes; a country the row has stays.
UpsertedHost(row, event) ==
    [version |-> event.version, email |-> event.email,
     country |-> IF row = None THEN None ELSE row.country]

OverwrittenHost(row, event) ==
    [version |-> event.version, email |-> IF event.email = None THEN row.email ELSE event.email,
     country |-> event.country]

\* What an Updated changes: an absent field is unchanged, never cleared.
PatchedHost(row, event) ==
    [version |-> event.version,
     email |-> IF event.email = None THEN row.email ELSE event.email,
     country |-> IF event.country = None THEN row.country ELSE event.country]

\* The gate hands over the next event; one that says nothing of the two columns
\* moves the version alone.
ProjectHost(u) ==
    /\ HostVersion(u) < Len(users_log[u])
    /\ LET event == users_log[u][HostVersion(u) + 1] IN
         host' = [host EXCEPT ![u] =
             IF event.type = "Registered" THEN UpsertedHost(@, event)
             ELSE IF event.type = "Updated" THEN PatchedHost(@, event)
             ELSE [@ EXCEPT !.version = event.version]]
    /\ UNCHANGED <<connect_account, accounts, onboarding, secrets>>

-----------------------------------------------------------------------------
(* ConnectService::account_session *)

Onboards(o, request) == onboarding' = [onboarding EXCEPT ![o] = request]

At(o, pc) == onboarding[o] # None /\ onboarding[o].pc = pc

\* ConnectAccountRepository::find.
FindAccount(o, u) ==
    /\ onboarding[o] = None /\ Authed(u)
    /\ Onboards(o, IF connect_account[u] # None
                   THEN [pc |-> "opening", user |-> u, account |-> connect_account[u]]
                   ELSE [pc |-> "reading", user |-> u])
    /\ UNCHANGED <<host, connect_account, accounts, secrets>>

\* HostMirrorRepository::find: a host not projected yet, or one without a
\* country, is refused.
ReadHost(o) ==
    /\ At(o, "reading")
    /\ LET u == onboarding[o].user IN
         Onboards(o, IF host[u] # None /\ host[u].country # None
                     THEN [pc |-> "creating", user |-> u,
                           body |-> [user |-> u, email |-> host[u].email, country |-> host[u].country]]
                     ELSE None)
    /\ UNCHANGED <<host, connect_account, accounts, secrets>>

KnownNever(body) == {}

\* The accounts opened under the idempotency key of this body.
Known(body) == {i \in DOMAIN accounts : accounts[i] = body}

\* Stripe::create_account: a key it has seen answers with the account it opened.
CreateAccount(o) ==
    /\ At(o, "creating")
    /\ LET body == onboarding[o].body IN
         \E i \in IF Known(body) = {} THEN {Len(accounts) + 1} ELSE Known(body) :
             /\ accounts' = IF i > Len(accounts) THEN Append(accounts, body) ELSE accounts
             /\ Onboards(o, [pc |-> "inserting", user |-> body.user, account |-> i])
    /\ UNCHANGED <<host, connect_account, secrets>>

StoredOwn(u, account) == account

\* ON CONFLICT DO NOTHING, then the id of whichever row won.
Stored(u, account) == IF connect_account[u] = None THEN account ELSE connect_account[u]

InsertAccount(o) ==
    /\ At(o, "inserting")
    /\ LET u == onboarding[o].user
           stored == Stored(u, onboarding[o].account) IN
         /\ connect_account' =
                [connect_account EXCEPT ![u] = IF @ = None THEN onboarding[o].account ELSE @]
         /\ Onboards(o, [pc |-> "opening", user |-> u, account |-> stored])
    /\ UNCHANGED <<host, accounts, secrets>>

\* Stripe::account_session: the secret the browser mounts.
OpenSession(o) ==
    /\ At(o, "opening")
    /\ secrets' = secrets \cup {[user |-> onboarding[o].user, account |-> onboarding[o].account]}
    /\ Onboards(o, None)
    /\ UNCHANGED <<host, connect_account, accounts>>

\* A call to Stripe or the database fails, or the process ends.
OnboardingFails(o) ==
    /\ onboarding[o] # None
    /\ Onboards(o, None)
    /\ UNCHANGED <<host, connect_account, accounts, secrets>>

-----------------------------------------------------------------------------

ConnectInit ==
    /\ host = [u \in Users |-> None]
    /\ connect_account = [u \in Users |-> None]
    /\ accounts = <<>>
    /\ onboarding = [o \in Onboardings |-> None]
    /\ secrets = {}

ConnectNext ==
    \/ \E u \in Users : ProjectHost(u)
    \/ \E o \in Onboardings :
         \/ \E u \in Users : FindAccount(o, u)
         \/ ReadHost(o) \/ CreateAccount(o) \/ InsertAccount(o)
         \/ OpenSession(o) \/ OnboardingFails(o)

ConnectTypeOK ==
    /\ host \in [Users -> Host \cup {None}]
    /\ connect_account \in [Users -> Nat \cup {None}]
    /\ accounts \in Seq(Body)
    /\ onboarding \in [Onboardings -> Onboarding \cup {None}]
    /\ secrets \subseteq [user: Users, account: Nat]
=============================================================================
