-------------------------- MODULE BookingLifecycle --------------------------
(***************************************************************************)
(* What booking-service promises to every service that consumes BOOKINGS:  *)
(* the events of one booking, in version order, spell a path through the   *)
(* lifecycle, and the stored row is always the state that path leads to.   *)
(*                                                                         *)
(* payment-service and view-service rebuild their mirrors from `history`   *)
(* alone, so a row that moves without an event, or an event that is        *)
(* published for a row that did not move, would make them diverge for      *)
(* good. BookingService is shown to implement this specification.          *)
(***************************************************************************)
EXTENDS Sequences

CONSTANT BookingId

VARIABLES
    state,    \* state[b]: what the booking is
    history   \* history[b]: the kinds of the events published for b, in order

vars == <<state, history>>

State == {"none", "reserved", "confirmed", "rated", "released", "cancelled"}

EventKind == {"created", "confirmed", "abandoned", "expired",
              "by_renter", "spot_unavailable", "rated"}

\* The edges of the lifecycle: <<from, event, to>>.
Edges ==
    { <<"none",      "created",          "reserved">>,
      <<"reserved",  "confirmed",        "confirmed">>,
      <<"reserved",  "abandoned",        "released">>,
      <<"reserved",  "expired",          "released">>,
      <<"confirmed", "by_renter",        "cancelled">>,
      <<"confirmed", "spot_unavailable", "cancelled">>,
      <<"confirmed", "rated",            "rated">>,
      <<"rated",     "by_renter",        "cancelled">>,
      <<"rated",     "spot_unavailable", "cancelled">> }

Init ==
    /\ state = [b \in BookingId |-> "none"]
    /\ history = [b \in BookingId |-> << >>]

(***************************************************************************)
(* A step moves a set of bookings at once: a spot edit withdraws every     *)
(* booking it invalidates in one transaction.                              *)
(***************************************************************************)
Move ==
    \E bs \in SUBSET BookingId :
        \E edge \in [bs -> Edges] :
            /\ bs # {}
            /\ \A b \in bs : state[b] = edge[b][1]
            /\ state' = [b \in BookingId |-> IF b \in bs THEN edge[b][3] ELSE state[b]]
            /\ history' = [b \in BookingId |-> IF b \in bs
                                               THEN Append(history[b], edge[b][2])
                                               ELSE history[b]]

Next == Move

Spec == Init /\ [][Next]_vars
=============================================================================
