-------------------------- MODULE OrderedProjection --------------------------
(***************************************************************************)
(* What the bus promises a read model: the projection of an aggregate is   *)
(* at every moment the result of applying a prefix of its events, in       *)
(* order, each once. An aggregate may leave that promise -- the gate's     *)
(* escape hatch applies over a gap rather than wait for ever -- and is     *)
(* `broken` from then on: nothing more is said about it.                   *)
(***************************************************************************)
EXTENDS Naturals

CONSTANT Aggregate

VARIABLES
    log,        \* log[a]: how many events the owning service has committed for a
    projected,  \* projected[a]: how many of them the read model shows
    broken      \* aggregates whose projection left the promise

vars == <<log, projected, broken>>

Init ==
    /\ log = [a \in Aggregate |-> 0]
    /\ projected = [a \in Aggregate |-> 0]
    /\ broken = {}

Write(a) ==
    /\ log' = [log EXCEPT ![a] = @ + 1]
    /\ UNCHANGED <<projected, broken>>

Project(a) ==
    /\ a \notin broken
    /\ projected[a] < log[a]
    /\ projected' = [projected EXCEPT ![a] = @ + 1]
    /\ UNCHANGED <<log, broken>>

\* By convention a broken projection shows nothing.
Break(a) ==
    /\ broken' = broken \cup {a}
    /\ projected' = [projected EXCEPT ![a] = 0]
    /\ UNCHANGED log

Next == \E a \in Aggregate : Write(a) \/ Project(a) \/ Break(a)

Spec == Init /\ [][Next]_vars
=============================================================================
