---------------------------- MODULE AwaitVersion ----------------------------
(***************************************************************************)
(* The await_version middleware: a client echoes the versions its writes   *)
(* were answered with, and its next read waits until this database has     *)
(* reached them.  One timeout covers the whole header, and a wait that     *)
(* ends any other way lets the read go on, possibly stale.                 *)
(***************************************************************************)
EXTENDS Naturals, Sequences

CONSTANTS
    Reader,      \* concurrent requests
    Aggregate,   \* what a header can name
    Kept         \* the aggregates version_reader! has an arm for

VARIABLES
    stored,      \* stored[a]: the version of a's row, 0 while there is none
    reader       \* reader[r]: the request, and whether its wait was cut short

Entry == [of : Aggregate, at : Nat]

Idle == [pc |-> "idle"]
Request == [pc : {"waiting", "served"}, header : Seq(Entry), next : Nat, late : BOOLEAN]

AwaitTypeOK == reader \in [Reader -> Request \cup {Idle}]

AwaitInit == reader = [r \in Reader |-> Idle]

Waiting(r) == reader[r].pc = "waiting"

Ask(r, header) ==
    /\ reader[r] = Idle
    /\ reader' = [reader EXCEPT ![r] =
           [pc |-> "waiting", header |-> header, next |-> 1, late |-> FALSE]]

\* Mutant of Reached: any row will do.
RowThere(entry) == stored[entry.of] > 0

\* Applied::At(have), and have >= want; Pending and anything older is polled again.
Reached(entry) == stored[entry.of] >= entry.at

Advance(r, late) ==
    reader' = [reader EXCEPT ![r].next = @ + 1, ![r].late = @ \/ late]

Entries(r) == reader[r].next <= Len(reader[r].header)

\* wait_one: one entry after another.
EntryReached(r) ==
    /\ Waiting(r) /\ Entries(r)
    /\ LET entry == reader[r].header[reader[r].next] IN
       entry.of \in Kept /\ Reached(entry)
    /\ Advance(r, FALSE)

\* No arm: Unavailable, and nothing to wait for.
NotKept(r) ==
    /\ Waiting(r) /\ Entries(r)
    /\ reader[r].header[reader[r].next].of \notin Kept
    /\ Advance(r, FALSE)

\* No connection or a failed query is Unavailable as well: the entry is given up.
PollFails(r) ==
    /\ Waiting(r) /\ Entries(r)
    /\ Advance(r, TRUE)

\* TIMEOUT, over all entries.
TimesOut(r) ==
    /\ Waiting(r)
    /\ reader' = [reader EXCEPT ![r].pc = "served", ![r].late = TRUE]

\* next.run
Serve(r) ==
    /\ Waiting(r) /\ ~Entries(r)
    /\ reader' = [reader EXCEPT ![r].pc = "served"]

Answered(r) ==
    /\ reader[r].pc = "served"
    /\ reader' = [reader EXCEPT ![r] = Idle]

WaitStep(r) ==
    EntryReached(r) \/ NotKept(r) \/ PollFails(r) \/ TimesOut(r) \/ Serve(r) \/ Answered(r)
=============================================================================
