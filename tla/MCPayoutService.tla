--------------------------- MODULE MCPayoutService ---------------------------
(* Constants of PayoutService for TLC: every booking is `host`'s, and worth `cents`. *)
EXTENDS PayoutService, TLC

CONSTANTS host, cents

MCHostOf == [b \in Booking |-> host]
MCAmount == [b \in Booking |-> cents]

Interchangeable ==
    Permutations(Booking) \cup Permutations(Payout) \cup Permutations(Withdrawal)
        \cup Permutations(Worker)
=============================================================================
