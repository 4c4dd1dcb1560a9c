-------------------------- MODULE MCBookingService --------------------------
(* Constants of BookingService for TLC: every spot is listed by `host`. *)
EXTENDS BookingServiceInvariants, TLC

CONSTANT host

MCHostOf == [s \in SpotId |-> host]

\* Booking ids are minted fresh, and requests and replicas are interchangeable.
Interchangeable ==
    Permutations(BookingId) \cup Permutations(Handler)
        \cup Permutations(Sweeper) \cup Permutations(Worker)
=============================================================================
