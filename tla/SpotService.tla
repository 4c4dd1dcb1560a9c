---------------------------- MODULE SpotService ----------------------------
(***************************************************************************)
(* spot-service: the listings of spot_db and the events enqueued beside    *)
(* every write.  A request first reads the spot to authorise its caller,   *)
(* outside its transaction; the transaction takes the row lock of          *)
(* next_version! and is one action.  `title` stands for every column an    *)
(* edit may set (title, description, price, images, availability).         *)
(* The geocoder is external: an address has its point, or none.            *)
(***************************************************************************)
EXTENDS Integers, Sequences

CONSTANTS
    Spots,            \* the ids creates mint
    Users,
    HostOf,           \* HostOf[s]: who asks for the create that mints s
    Titles,
    Addresses,
    Points,
    PointOf,          \* PointOf[a]: where the geocoder finds a, Null if nowhere
    SpotRequests,     \* requests in flight at once
    Null,             \* no row, an unchanged field
    MaxSpotVersion    \* bound: MaxSpotVersion[s], writes to one spot

ASSUME SpotAssumption ==
    /\ HostOf \in [Spots -> Users]
    /\ PointOf \in [Addresses -> Points \cup {Null}]
    /\ Null \notin Titles \cup Points \cup Users \cup BOOLEAN
    /\ MaxSpotVersion \in [Spots -> Nat]

VARIABLES
    spot_db,       \* [Spots -> the row or Null]
    spots_log,     \* [Spots -> the spot's events, in commit order]
    spot_call      \* [SpotRequests -> the authorised request or Null]

spotServiceVars == <<spot_db, spots_log, spot_call>>

Listing == [version: Nat, host: Users, title: Titles, active: BOOLEAN,
            deleted: BOOLEAN, point: Points]

\* What an edit may carry; Null is "leave alone".
UpdateSpotRequest == [title: Titles \cup {Null}, active: BOOLEAN \cup {Null}]

SpotEvent ==
    [type: {"Created"}, host: Users, title: Titles, point: Points] \cup
    [type: {"Updated"}, patch: UpdateSpotRequest] \cup
    [type: {"Deleted"}]

SpotCall == [spot: Spots, patch: UpdateSpotRequest \cup {Null}]

SpotTypeOK ==
    /\ spot_db \in [Spots -> Listing \cup {Null}]
    /\ spots_log \in [Spots -> Seq(SpotEvent)]
    /\ spot_call \in [SpotRequests -> SpotCall \cup {Null}]

SpotInit ==
    /\ spot_db = [s \in Spots |-> Null]
    /\ spots_log = [s \in Spots |-> << >>]
    /\ spot_call = [r \in SpotRequests |-> Null]

\* Row, version and event commit together.
WriteSpot(s, row, event) ==
    /\ row.version <= MaxSpotVersion[s]
    /\ spot_db' = [spot_db EXCEPT ![s] = row]
    /\ spots_log' = [spots_log EXCEPT ![s] = Append(@, event)]

CreatedSpot(s, title, point) ==
    [version |-> 1, host |-> HostOf[s], title |-> title, active |-> TRUE,
     deleted |-> FALSE, point |-> point]

\* An address the geocoder cannot place is refused; coordinates never come from the client.
CreateSpot(s, title, address) ==
    /\ spot_db[s] = Null
    /\ PointOf[address] # Null
    /\ WriteSpot(s, CreatedSpot(s, title, PointOf[address]),
           [type |-> "Created", host |-> HostOf[s], title |-> title, point |-> PointOf[address]])
    /\ UNCHANGED spot_call

\* A spot of somebody else and a deleted one are a 404 each.
Owned(u, s) == spot_db[s] # Null /\ spot_db[s].host = u /\ ~spot_db[s].deleted

\* update_spot and delete_spot, up to their transaction; a delete carries no patch.
AuthorizeSpot(r, u, s, patch) ==
    /\ spot_call[r] = Null
    /\ Owned(u, s)
    /\ spot_db[s].version < MaxSpotVersion[s]
    /\ spot_call' = [spot_call EXCEPT ![r] = [spot |-> s, patch |-> patch]]
    /\ UNCHANGED <<spot_db, spots_log>>

\* Mutant of Coalesce: an absent field clears the column.
Overwrite(new, old) == new

\* AsChangeset skips an absent field.
Coalesce(new, old) == IF new = Null THEN old ELSE new

Patched(row, patch) ==
    [row EXCEPT !.title = Coalesce(patch.title, @), !.active = Coalesce(patch.active, @)]

\* A soft delete, which is also a deactivation.
Withdrawn(row) == [row EXCEPT !.active = FALSE, !.deleted = TRUE]

UpdateSpot(r) ==
    /\ spot_call[r] # Null /\ spot_call[r].patch # Null
    /\ LET s == spot_call[r].spot patch == spot_call[r].patch IN
       WriteSpot(s, [Patched(spot_db[s], patch) EXCEPT !.version = @ + 1],
                 [type |-> "Updated", patch |-> patch])
    /\ spot_call' = [spot_call EXCEPT ![r] = Null]

DeleteSpot(r) ==
    /\ spot_call[r] # Null /\ spot_call[r].patch = Null
    /\ LET s == spot_call[r].spot IN
       WriteSpot(s, [Withdrawn(spot_db[s]) EXCEPT !.version = @ + 1], [type |-> "Deleted"])
    /\ spot_call' = [spot_call EXCEPT ![r] = Null]

\* Requests about the spots of S.
SpotNext(S) ==
    \/ \E s \in S, title \in Titles, a \in Addresses : CreateSpot(s, title, a)
    \/ \E r \in SpotRequests :
          \/ \E u \in Users, s \in S, patch \in UpdateSpotRequest \cup {Null} :
                AuthorizeSpot(r, u, s, patch)
          \/ UpdateSpot(r) \/ DeleteSpot(r)
=============================================================================
