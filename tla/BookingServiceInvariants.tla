--------------------- MODULE BookingServiceInvariants ---------------------
(***************************************************************************)
(* The inductive invariant behind BookingService's safety properties: what *)
(* the state of each transaction in flight says about the rows it will     *)
(* write.                                                                  *)
(***************************************************************************)
EXTENDS BookingService

Creating(p) == tx[p].pc \in {"reserving", "inserting"}
Locking(p) == tx[p].pc = "locked"

\* Whatever a process is about to work on exists.
TargetsExist ==
    /\ \A p \in Proc : tx[p].pc \in {"authorized", "locked"} => booking[tx[p].id] # Null
    /\ \A w \in Sweeper : \A b \in lapsed[w] : booking[b] # Null
    /\ \A s \in SpotId : apply[s].pc = "applying" =>
        /\ apply[s].event.kind # "created" => mirror[s] # Null
        /\ \A b \in apply[s].todo \cup apply[s].locked : booking[b] # Null

\* Nobody else creates or edits while a request holds the spot's row.
SpotLockExclusive ==
    \A s \in SpotId, p \in Proc : HoldsSpot(p, s) =>
        /\ \A q \in Proc : HoldsSpot(q, s) => q = p
        /\ apply[s].pc # "applying"

\* At most one transaction works on a booking's row.
RowLockExclusive ==
    /\ \A p, q \in Proc : Locking(p) /\ Locking(q) /\ tx[p].id = tx[q].id => p = q
    /\ \A p \in Proc, s \in SpotId :
        Locking(p) /\ apply[s].pc = "applying" => tx[p].id \notin apply[s].locked
    /\ \A r, s \in SpotId :
        apply[r].pc = "applying" /\ apply[s].pc = "applying" /\ r # s
        => apply[r].locked \cap apply[s].locked = {}

\* Requests in flight create different bookings, none of which exists.
FreshIds ==
    \A p \in Proc : Creating(p) =>
        /\ booking[tx[p].id] = Null
        /\ \A q \in Proc : Creating(q) /\ tx[q].id = tx[p].id => q = p

SlotsEnd(row) == \A k \in row.slots : k + 1 <= row.endsAt

RowsEnd ==
    /\ \A b \in BookingId : booking[b] # Null => SlotsEnd(booking[b])
    /\ \A p \in Proc : tx[p].pc = "inserting" =>
        SlotsEnd(tx[p].row) /\ tx[p].row.status = "reserved" /\ tx[p].row.version = 1

\* What check() established is still true when the row is inserted.
InsertingFits ==
    \A p \in Proc, b \in BookingId :
        ( /\ tx[p].pc = "inserting"
          /\ booking[b] # Null
          /\ booking[b].spot = tx[p].row.spot
          /\ Blocks(booking[b]) )
        => \A k \in booking[b].slots \cap tx[p].row.slots : k + 1 <= now

\* The version a transaction was given is still the next one when it commits.
VersionsMinted ==
    \A p \in Proc : Locking(p) => tx[p].version = booking[tx[p].id].version + 1

(***************************************************************************)
(* Every lock excludes whom it should, and what a transaction read under   *)
(* its lock still holds when it commits. Inductive.                        *)
(***************************************************************************)
IInv ==
    /\ TypeOK
    /\ TargetsExist
    /\ SpotLockExclusive
    /\ RowLockExclusive
    /\ FreshIds
    /\ RowsEnd
    /\ InsertingFits
    /\ VersionsMinted
    /\ NoDoubleBooking
    /\ VersionsGapless
    /\ ToldVersionsExist

-----------------------------------------------------------------------------
(* What the refinement and the fit to the spot's hours need on top *)

\* A row is for a spot the service knows, and a spot is created once.
MirrorsExist ==
    /\ \A b \in BookingId : booking[b] # Null => mirror[booking[b].spot] # Null
    /\ \A p \in Proc, s \in SpotId : HoldsSpot(p, s) => mirror[s] # Null
    /\ \A s \in SpotId :
        apply[s].pc = "applying" /\ apply[s].event.kind = "created" => mirror[s] = Null

\* Only a confirmed booking is ever rated.
ReservedUnrated ==
    /\ \A b \in BookingId :
        booking[b] # Null /\ booking[b].status = "reserved" => ~booking[b].rated
    /\ \A p \in Proc : tx[p].pc = "inserting" => ~tx[p].row.rated

(***************************************************************************)
(* A booking that must fit its spot does, and an edit in progress that it  *)
(* does not fit has it on its list: the edit's own scan cannot have missed *)
(* it, because it was confirmed before, and nothing else moves the mirror. *)
(***************************************************************************)
ConfirmedNotMisfit ==
    \A b \in BookingId \ late :
        ( /\ booking[b] # Null
          /\ booking[b].status = "confirmed"
          /\ booking[b].endsAt > now )
        => ~Misfit(b)

SettleInv == MirrorsExist /\ ReservedUnrated /\ ConfirmedNotMisfit
=============================================================================
