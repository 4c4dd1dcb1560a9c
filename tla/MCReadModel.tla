---------------------------- MODULE MCReadModel ----------------------------
(* Constants of ReadModel for TLC: a host, a renter, a guest without        *)
(* bookings, and five foci.                                                *)
EXTENDS ReadModel

CONSTANTS host, renter, guest, s1, s2, s3, s4, b1, b2, b3, b4, b5, p1, r1, near

MCHostOf == [s \in Spots |-> host]
MCPointOf == [a \in Addresses |-> IF a = near THEN near ELSE Null]
MCMaxSpotVersion == [s \in Spots |-> IF s = s1 THEN 2 ELSE 1]
MCSpotOf == b1 :> s1 @@ b2 :> s2 @@ b3 :> s3 @@ b4 :> s3 @@ b5 :> s4
MCRenterOf == [b \in Bookings |-> renter]
MCStartsAt == b1 :> 0 @@ b2 :> 0 @@ b3 :> 0 @@ b4 :> 0 @@ b5 :> 1
MCEndsAt == b1 :> 1 @@ b2 :> 1 @@ b3 :> 1 @@ b4 :> 1 @@ b5 :> 2
MCAmount == b1 :> 0 @@ b2 :> 0 @@ b3 :> 1 @@ b4 :> 0 @@ b5 :> 0
MCMaxCharges == [b \in Bookings |-> 3]
MCMaxUserVersion == [u \in Users |-> IF u = guest THEN 3 ELSE 2]
MCSpotOrder == s1 :> 1 @@ s2 :> 2 @@ s3 :> 3 @@ s4 :> 4
MCNear == [c \in Points |-> {c}]

\* A listing that is edited and deleted, a booking of it, and a client that waits for both.
Edited == [users |-> {}, spots |-> {s1}, bookings |-> {b1}, payouts |-> {}, readers |-> {r1}, until |-> 0]
\* A booking and the notifications of its host and its renter.
Notified == [users |-> {renter}, spots |-> {s2}, bookings |-> {b2}, payouts |-> {}, readers |-> {}, until |-> 2]
\* Two listings, and a booking of each.
Browsed == [users |-> {}, spots |-> {s3, s4}, bookings |-> {b4, b5}, payouts |-> {}, readers |-> {}, until |-> 2]
\* A booking with its payment, and a withdrawal.
Paid == [users |-> {}, spots |-> {s3}, bookings |-> {b3}, payouts |-> {p1}, readers |-> {}, until |-> 3]
\* An account that is renamed between two visits to its notifications.
Known == [users |-> {guest}, spots |-> {}, bookings |-> {}, payouts |-> {}, readers |-> {}, until |-> 2]
MCFocus == {Edited, Known, Notified, Browsed, Paid}
=============================================================================
