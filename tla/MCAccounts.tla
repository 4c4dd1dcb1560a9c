---- MODULE MCAccounts ----
(* Constants of Accounts for TLC: four foci. *)
EXTENDS Accounts, TLC

CONSTANTS u1, u2, e1, e2, n1, c1, c2, o1, o2

\* Two people and two requests in flight: signups, changes of address and mail
\* requests interleave between their lookup and their commit.
Contended == [versions |-> u1 :> 3 @@ u2 :> 1, clients |-> {c1, c2}, signups |-> {e1, e2}, emails |-> {e1, e2}, countries |-> {}, onboardings |-> {}, ops |-> Ops,
              sessions |-> 1, until |-> 0, faults |-> 0]
\* One account's sessions, and its links before and after they expire.
Linked == [versions |-> u1 :> 4 @@ u2 :> 0, clients |-> {c1}, signups |-> {e1}, emails |-> {e1}, countries |-> {}, onboardings |-> {}, ops |-> Ops \ {"password", "update"},
           sessions |-> 2, until |-> 1, faults |-> 0]
\* One account's mails when a send fails, an ack is lost or a message is doubled.
Faulty == [versions |-> u1 :> 3 @@ u2 :> 0, clients |-> {c1}, signups |-> {e1}, emails |-> {e1}, countries |-> {}, onboardings |-> {}, ops |-> Ops,
           sessions |-> 0, until |-> 1, faults |-> 1]
\* One host who sets a country, changes the address and asks twice for an account.
Onboarded == [versions |-> u1 :> 4 @@ u2 :> 0, clients |-> {c1}, signups |-> {e1}, emails |-> {e2},
              countries |-> {n1}, onboardings |-> {o1, o2},
              ops |-> {"signup", "issue", "update"},
              sessions |-> 1, until |-> 0, faults |-> 0]
MCFoci == {Contended, Linked, Faulty, Onboarded}
====
