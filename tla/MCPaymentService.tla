-------------------------- MODULE MCPaymentService --------------------------
(* Symmetry of PaymentService for TLC: replicas and requests are interchangeable. *)
EXTENDS PaymentService, TLC

Interchangeable == Permutations(Checkout) \cup Permutations(Worker)
=============================================================================
