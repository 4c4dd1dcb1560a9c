----------------------------- MODULE MCDelivery -----------------------------
(* Model values for the instances of Delivery that TLC checks. *)
EXTENDS Delivery, TLC

\* Relays are interchangeable, and so are aggregates; the runs without liveness use it.
Interchangeable == Permutations(Relay) \cup Permutations(Aggregate) \cup Permutations(Replica)
=============================================================================
