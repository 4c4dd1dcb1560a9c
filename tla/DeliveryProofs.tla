--------------------------- MODULE DeliveryProofs ---------------------------
(***************************************************************************)
(* What holds of Delivery for every number of aggregates, relays, replicas *)
(* and applies in flight, for every window and gap budget, and however     *)
(* slow, late or broken any of them is.                                    *)
(***************************************************************************)
EXTENDS Delivery, SequenceTheorems, TLAPS

Listed(s, e) == \E k \in 1..Len(s) : s[k] = e

\* What is queued, read or streamed has been committed.
EventsCommitted ==
    \A e \in Event :
        \/ Listed(outbox, e)
        \/ \E r \in Relay : Listed(batch[r], e)
        \/ Listed(stream, e)
        => e.version <= log[e.agg]

\* What a relay is about to delete, and what the broker would drop as a copy, is on the stream.
SentIsOnStream == \A r \in Relay : sent[r] => batch[r] # << >> /\ Listed(stream, Head(batch[r]))

WindowIsOnStream == \A e \in window : Listed(stream, e)

RelayInv == EventsCommitted /\ SentIsOnStream /\ WindowIsOnStream /\ NoEventStranded

MessagesExist ==
    /\ \A p \in Applier : job[p].pc # "idle" => job[p].msg \in 1..Len(stream)
    /\ \A i \in Msg : status[i] # "new" => i \in 1..Len(stream)

HoldsRow(p) == job[p].pc = "applying" /\ ~job[p].pending

\* FOR UPDATE: two transactions never hold the same row.
LockExclusive ==
    \A p, q \in Applier :
        HoldsRow(p) /\ HoldsRow(q) /\ stream[job[p].msg].agg = stream[job[q].msg].agg => p = q

\* What the gate saw still holds when the handler writes, or the row was missing then.
GateStands ==
    \A p \in Applier : job[p].pc = "applying" =>
        LET e == stream[job[p].msg] IN
        /\ ~job[p].pending => row[e.agg] # Null
        /\ job[p].delivered < MAX_GAP_WAIT =>
              IF job[p].pending THEN e.version = 1 ELSE NextFor(row[e.agg], e.version)

\* An apply that is about to ack has its event in the row.
DecidedTrue ==
    \A p \in Applier :
        /\ job[p].pc = "decided"
        /\ job[p].decision # "park"
        /\ stream[job[p].msg].agg \notin broken
        => LET e == stream[job[p].msg] IN
           row[e.agg] # Null /\ e.version <= row[e.agg].version

GateInv == MessagesExist /\ LockExclusive /\ GateStands

IInv == TypeOK /\ RelayInv /\ GateInv /\ DecidedTrue /\ ProjectedInOrder /\ AckedIsProjected

-----------------------------------------------------------------------------
(* Sequences *)

\* A prefix and a suffix of a sequence, and what is in them.
LEMMA PartProperties ==
    ASSUME NEW S, NEW s \in Seq(S), NEW m \in Nat \ {0}, NEW n \in Nat, n <= Len(s)
    PROVE  /\ SubSeq(s, m, n) \in Seq(S)
           /\ \A e \in S : Listed(SubSeq(s, m, n), e) <=> \E k \in m..n : s[k] = e
<1>1. \A k \in m..n : s[k] \in S
    OBVIOUS
<1>2. /\ SubSeq(s, m, n) \in Seq(S)
      /\ Len(SubSeq(s, m, n)) = IF m <= n THEN n - m + 1 ELSE 0
      /\ \A k \in 1..(n - m + 1) : SubSeq(s, m, n)[k] = s[m + k - 1]
    BY <1>1, SubSeqProperties
<1>3. ASSUME NEW e \in S, Listed(SubSeq(s, m, n), e)
      PROVE  \E k \in m..n : s[k] = e
  <2>1. PICK k \in 1..Len(SubSeq(s, m, n)) : SubSeq(s, m, n)[k] = e
    BY <1>3 DEF Listed
  <2>2. m <= n /\ k \in 1..(n - m + 1)
    BY <1>2, <2>1
  <2>3. m + k - 1 \in m..n /\ s[m + k - 1] = e
    BY <1>2, <2>1, <2>2
  <2> QED BY <2>3
<1>4. ASSUME NEW e \in S, NEW k \in m..n, s[k] = e
      PROVE  Listed(SubSeq(s, m, n), e)
  <2>1. k - m + 1 \in 1..Len(SubSeq(s, m, n)) /\ k - m + 1 \in 1..(n - m + 1)
    BY <1>2
  <2>2. SubSeq(s, m, n)[k - m + 1] = s[m + (k - m + 1) - 1]
    BY <1>2, <2>1
  <2>3. m + (k - m + 1) - 1 = k
    OBVIOUS
  <2> QED BY <1>4, <2>1, <2>2, <2>3 DEF Listed
<1> QED BY <1>2, <1>3, <1>4

\* The same of a prefix, and of a suffix.
LEMMA PrefixProperties ==
    ASSUME NEW S, NEW s \in Seq(S), NEW n \in Nat, n <= Len(s)
    PROVE  /\ SubSeq(s, 1, n) \in Seq(S)
           /\ \A e \in S : Listed(SubSeq(s, 1, n), e) <=> \E k \in 1..n : s[k] = e
<1>1. 1 \in Nat \ {0}
    OBVIOUS
<1> QED BY <1>1, PartProperties

LEMMA SuffixProperties ==
    ASSUME NEW S, NEW s \in Seq(S), NEW m \in Nat \ {0}
    PROVE  /\ SubSeq(s, m, Len(s)) \in Seq(S)
           /\ \A e \in S : Listed(SubSeq(s, m, Len(s)), e) <=> \E k \in m..Len(s) : s[k] = e
<1> DEFINE n == Len(s)
<1>1. n \in Nat /\ n <= Len(s)
    OBVIOUS
<1>2. n = Len(s)
    OBVIOUS
<1> HIDE DEF n
<1>3. /\ SubSeq(s, m, n) \in Seq(S)
      /\ \A e \in S : Listed(SubSeq(s, m, n), e) <=> \E k \in m..n : s[k] = e
    BY <1>1, PartProperties
<1> QED BY <1>2, <1>3

\* What is in a concatenation.
LEMMA ConcatListed ==
    ASSUME NEW S, NEW s \in Seq(S), NEW t \in Seq(S)
    PROVE  /\ s \o t \in Seq(S)
           /\ \A e \in S : Listed(s \o t, e) <=> Listed(s, e) \/ Listed(t, e)
<1>1. /\ s \o t \in Seq(S) /\ Len(s \o t) = Len(s) + Len(t)
      /\ \A k \in 1..(Len(s) + Len(t)) : (s \o t)[k] = IF k <= Len(s) THEN s[k] ELSE t[k - Len(s)]
    BY ConcatProperties
<1>2. Len(s) \in Nat /\ Len(t) \in Nat
    OBVIOUS
<1>3. ASSUME NEW e \in S, Listed(s \o t, e)
      PROVE  Listed(s, e) \/ Listed(t, e)
  <2>1. PICK k \in 1..(Len(s) + Len(t)) : (s \o t)[k] = e
    BY <1>1, <1>3 DEF Listed
  <2>2. CASE k <= Len(s)
    BY <1>1, <1>2, <2>1, <2>2 DEF Listed
  <2>3. CASE ~(k <= Len(s))
    <3>1. k - Len(s) \in 1..Len(t) /\ t[k - Len(s)] = e
      BY <1>1, <1>2, <2>1, <2>3
    <3> QED BY <3>1 DEF Listed
  <2> QED BY <2>2, <2>3
<1>4. ASSUME NEW e \in S, Listed(s, e)
      PROVE  Listed(s \o t, e)
  <2>1. PICK k \in 1..Len(s) : s[k] = e
    BY <1>4 DEF Listed
  <2>2. k \in 1..(Len(s) + Len(t)) /\ (s \o t)[k] = e
    BY <1>1, <1>2, <2>1
  <2> QED BY <1>1, <2>2 DEF Listed
<1>5. ASSUME NEW e \in S, Listed(t, e)
      PROVE  Listed(s \o t, e)
  <2>1. PICK k \in 1..Len(t) : t[k] = e
    BY <1>5 DEF Listed
  <2>2. Len(s) + k \in 1..(Len(s) + Len(t)) /\ ~(Len(s) + k <= Len(s)) /\ Len(s) + k - Len(s) = k
    BY <1>2
  <2>3. (s \o t)[Len(s) + k] = e
    BY <1>1, <2>1, <2>2
  <2> QED BY <1>1, <2>2, <2>3 DEF Listed
<1> QED BY <1>1, <1>3, <1>4, <1>5

\* InsertAt adds one element and keeps the others.
LEMMA InsertAtListed ==
    ASSUME NEW S, NEW s \in Seq(S), NEW i \in 1..(Len(s) + 1), NEW x \in S
    PROVE  /\ InsertAt(s, i, x) \in Seq(S)
           /\ \A e \in S : Listed(InsertAt(s, i, x), e) <=> Listed(s, e) \/ e = x
<1> DEFINE left == SubSeq(s, 1, i - 1)
           right == SubSeq(s, i, Len(s))
<1>1. Len(s) \in Nat /\ i - 1 \in Nat /\ i - 1 <= Len(s) /\ i \in Nat \ {0}
    OBVIOUS
<1>2. left \in Seq(S) /\ \A e \in S : Listed(left, e) <=> \E k \in 1..(i - 1) : s[k] = e
    BY <1>1, PrefixProperties
<1>3. right \in Seq(S) /\ \A e \in S : Listed(right, e) <=> \E k \in i..Len(s) : s[k] = e
    BY <1>1, SuffixProperties
<1>4. <<x>> \in Seq(S) /\ \A e \in S : Listed(<<x>>, e) <=> e = x
    BY DEF Listed
<1>5. InsertAt(s, i, x) = (left \o <<x>>) \o right
    BY DEF InsertAt
<1> HIDE DEF left, right
<1>6. left \o <<x>> \in Seq(S) /\ \A e \in S : Listed(left \o <<x>>, e) <=> Listed(left, e) \/ e = x
    BY <1>2, <1>4, ConcatListed
<1> DEFINE front == left \o <<x>>
<1>6a. front \in Seq(S) /\ \A e \in S : Listed(front, e) <=> Listed(left, e) \/ e = x
    BY <1>6
<1>6b. InsertAt(s, i, x) = front \o right
    BY <1>5
<1> HIDE DEF front
<1>6c. /\ front \o right \in Seq(S)
       /\ \A e \in S : Listed(front \o right, e) <=> Listed(front, e) \/ Listed(right, e)
    BY <1>3, <1>6a, ConcatListed
<1>7. /\ InsertAt(s, i, x) \in Seq(S)
      /\ \A e \in S : Listed(InsertAt(s, i, x), e) <=> Listed(left, e) \/ e = x \/ Listed(right, e)
    BY <1>6a, <1>6b, <1>6c
<1>8. \A e \in S : Listed(s, e) <=> Listed(left, e) \/ Listed(right, e)
  <2>1. \A k \in 1..Len(s) : k \in 1..(i - 1) \/ k \in i..Len(s)
    BY <1>1
  <2>2. (1..(i - 1)) \subseteq 1..Len(s) /\ (i..Len(s)) \subseteq 1..Len(s)
    BY <1>1
  <2> QED BY <1>2, <1>3, <2>1, <2>2 DEF Listed
<1> QED BY <1>7, <1>8

\* RemoveAt drops one position and keeps the others.
LEMMA RemoveAtListed ==
    ASSUME NEW S, NEW s \in Seq(S), NEW i \in 1..Len(s)
    PROVE  /\ RemoveAt(s, i) \in Seq(S)
           /\ \A e \in S : Listed(RemoveAt(s, i), e) => Listed(s, e)
           /\ \A e \in S : Listed(s, e) => Listed(RemoveAt(s, i), e) \/ e = s[i]
<1> DEFINE left == SubSeq(s, 1, i - 1)
           right == SubSeq(s, i + 1, Len(s))
<1>1. Len(s) \in Nat /\ i - 1 \in Nat /\ i - 1 <= Len(s) /\ i + 1 \in Nat \ {0}
    OBVIOUS
<1>2. left \in Seq(S) /\ \A e \in S : Listed(left, e) <=> \E k \in 1..(i - 1) : s[k] = e
    BY <1>1, PrefixProperties
<1>3. right \in Seq(S) /\ \A e \in S : Listed(right, e) <=> \E k \in (i + 1)..Len(s) : s[k] = e
    BY <1>1, SuffixProperties
<1>4. RemoveAt(s, i) = left \o right
    BY DEF RemoveAt
<1> HIDE DEF left, right
<1>5. /\ RemoveAt(s, i) \in Seq(S)
      /\ \A e \in S : Listed(RemoveAt(s, i), e) <=> Listed(left, e) \/ Listed(right, e)
    BY <1>2, <1>3, <1>4, ConcatListed
<1>6. \A k \in 1..Len(s) : k \in 1..(i - 1) \/ k = i \/ k \in (i + 1)..Len(s)
    BY <1>1
<1>7. (1..(i - 1)) \subseteq 1..Len(s) /\ ((i + 1)..Len(s)) \subseteq 1..Len(s)
    BY <1>1
<1> QED BY <1>2, <1>3, <1>5, <1>6, <1>7 DEF Listed

\* Append adds one element at the end.
LEMMA AppendListed ==
    ASSUME NEW S, NEW s \in Seq(S), NEW x \in S
    PROVE  /\ Append(s, x) \in Seq(S) /\ Len(Append(s, x)) = Len(s) + 1
           /\ \A k \in 1..Len(s) : Append(s, x)[k] = s[k]
           /\ \A e \in S : Listed(Append(s, x), e) <=> Listed(s, e) \/ e = x
<1>1. /\ Append(s, x) \in Seq(S) /\ Len(Append(s, x)) = Len(s) + 1
      /\ \A k \in 1..Len(s) : Append(s, x)[k] = s[k]
      /\ Append(s, x)[Len(s) + 1] = x
    BY AppendProperties
<1>2. \A k \in 1..(Len(s) + 1) : k \in 1..Len(s) \/ k = Len(s) + 1
    OBVIOUS
<1>3. (1..Len(s)) \subseteq 1..(Len(s) + 1) /\ Len(s) + 1 \in 1..(Len(s) + 1)
    OBVIOUS
<1> QED BY <1>1, <1>2, <1>3 DEF Listed

\* The rest of a batch is part of it.
LEMMA TailListed ==
    ASSUME NEW S, NEW s \in Seq(S), s # << >>
    PROVE  /\ Head(s) \in S /\ Listed(s, Head(s))
           /\ Tail(s) \in Seq(S) /\ \A e \in S : Listed(Tail(s), e) => Listed(s, e)
<1>1. /\ Head(s) \in S /\ Tail(s) \in Seq(S) /\ Len(Tail(s)) = Len(s) - 1
      /\ \A k \in 1..Len(Tail(s)) : Tail(s)[k] = s[k + 1]
    BY HeadTailProperties
<1>2. Len(s) \in Nat \ {0} /\ Head(s) = s[1]
    OBVIOUS
<1>3. \A k \in 1..(Len(s) - 1) : k + 1 \in 1..Len(s)
    BY <1>2
<1>4. 1 \in 1..Len(s)
    BY <1>2
<1> QED BY <1>1, <1>2, <1>3, <1>4 DEF Listed

-----------------------------------------------------------------------------
(* Types *)

\* The record sets of Job, told apart by pc.
LEMMA JobCases ==
    ASSUME NEW j \in Job
    PROVE  /\ j.pc \in {"idle", "received", "applying", "decided"}
           /\ j.pc = "idle" => j = Idle
           /\ j.pc # "idle" => j.msg \in Msg
           /\ j.pc \in {"received", "applying"} => j.delivered \in 1..MAX_GAP_WAIT
           /\ j.pc = "applying" => j.pending \in BOOLEAN
           /\ j.pc = "decided" => j.decision \in Decision
BY DEF Job, Idle, Received, Applying, Decided

LEMMA JobRecords ==
    ASSUME NEW i \in Msg
    PROVE  /\ Idle \in Job
           /\ \A n \in 1..MAX_GAP_WAIT :
                /\ [pc |-> "received", msg |-> i, delivered |-> n] \in Job
                /\ \A b \in BOOLEAN :
                    [pc |-> "applying", msg |-> i, delivered |-> n, pending |-> b] \in Job
           /\ \A d \in Decision : [pc |-> "decided", msg |-> i, decision |-> d] \in Job
BY DEF Job, Idle, Received, Applying, Decided

\* A row is a version and the effects behind it.
LEMMA ProjectedType ==
    ASSUME NEW stored \in Row \cup {Null}, NEW v \in 1..MaxVersion
    PROVE  /\ Projected(stored, v) \in Row \cup {Null}
           /\ v = 1 \/ stored # Null => Projected(stored, v) \in Row
<1>1. MaxVersion \in Nat
    BY DeliveryAssumption
<1>2. 1 \in 1..MaxVersion /\ <<1>> \in Seq(1..MaxVersion)
    BY <1>1
<1>3. [version |-> 1, effects |-> <<1>>] \in Row
    BY <1>2 DEF Row
<1>4. ASSUME stored # Null
      PROVE  [version |-> IF stored.version < v THEN v ELSE stored.version,
              effects |-> Append(stored.effects, v)] \in Row
  <2>1. stored.version \in 1..MaxVersion /\ stored.effects \in Seq(1..MaxVersion)
    BY <1>4 DEF Row
  <2>2. Append(stored.effects, v) \in Seq(1..MaxVersion)
    BY <2>1, AppendProperties
  <2>3. (IF stored.version < v THEN v ELSE stored.version) \in 1..MaxVersion
    BY <2>1
  <2> QED BY <2>2, <2>3 DEF Row
<1> QED BY <1>3, <1>4 DEF Projected

\* Everything the projector's steps may write is of its type.
LEMMA TypeStep ==
    ASSUME TypeOK, MessagesExist, [Next]_vars
    PROVE  TypeOK'
<1> USE DeliveryAssumption DEF TypeOK
<1>1. ASSUME NEW a \in Aggregate, Enqueue(a)
      PROVE  TypeOK'
  <2>1. log[a] \in 0..MaxVersion /\ log[a] + 1 \in 1..MaxVersion
    BY <1>1 DEF Enqueue
  <2>2. [agg |-> a, version |-> log[a] + 1] \in Event
    BY <2>1 DEF Event
  <2>3. outbox' \in Seq(Event)
    <3>1. PICK i \in 1..(Len(outbox) + 1) :
                outbox' = InsertAt(outbox, i, [agg |-> a, version |-> log[a] + 1])
      BY <1>1 DEF Enqueue
    <3> QED BY <2>2, <3>1, InsertAtListed
  <2>4. log' \in [Aggregate -> 0..MaxVersion]
    BY <1>1, <2>1 DEF Enqueue
  <2> QED BY <1>1, <2>3, <2>4 DEF Enqueue, brokerVars, projectionVars
<1>2. ASSUME NEW r \in Relay, ReadBatch(r)
      PROVE  TypeOK'
  BY <1>2 DEF ReadBatch, brokerVars, projectionVars
<1>3. ASSUME NEW r \in Relay, Publish(r)
      PROVE  TypeOK'
  <2>1. Head(batch[r]) \in Event
    BY <1>3, HeadTailProperties DEF Publish
  <2>2. CASE UNCHANGED <<stream, window>>
    BY <1>3, <2>2 DEF Publish, projectionVars
  <2>3. CASE /\ Len(stream) < MaxStream /\ stream' = Append(stream, Head(batch[r]))
             /\ window' = window \cup {Head(batch[r])}
    <3>1. stream' \in Seq(Event) /\ Len(stream') <= MaxStream
      BY <2>1, <2>3, AppendProperties
    <3>2. window' \subseteq Event
      BY <2>1, <2>3
    <3> QED BY <1>3, <3>1, <3>2 DEF Publish, projectionVars
  <2> QED BY <1>3, <2>2, <2>3 DEF Publish
<1>4. ASSUME NEW r \in Relay, Delete(r)
      PROVE  TypeOK'
  <2>1. Tail(batch[r]) \in Seq(Event)
    BY <1>4, HeadTailProperties DEF Delete, Deletable
  <2>2. outbox' \in Seq(Event)
    BY <1>4, RemoveAtListed DEF Delete
  <2> QED BY <1>4, <2>1, <2>2 DEF Delete, brokerVars, projectionVars
<1>5. ASSUME NEW r \in Relay, RelayFails(r)
      PROVE  TypeOK'
  <2>1. << >> \in Seq(Event)
    OBVIOUS
  <2> QED BY <1>5, <2>1 DEF RelayFails, Fault, brokerVars, projectionVars
<1>6. ASSUME NEW e \in window, Forget(e)
      PROVE  TypeOK'
  BY <1>6 DEF Forget, Fault, relayVars, projectionVars
<1>7. ASSUME NEW i \in Msg, AckTimeout(i)
      PROVE  TypeOK'
  BY <1>7 DEF AckTimeout, relayVars, projectionVars
<1>8. ASSUME NEW i \in Msg, NEW p \in Applier, Deliver(p, i)
      PROVE  TypeOK'
  <2>1. PICK n \in 1..MAX_GAP_WAIT :
            /\ delivered' = [delivered EXCEPT ![i] = n]
            /\ job' = [job EXCEPT ![p] = [pc |-> "received", msg |-> i, delivered |-> n]]
    <3> DEFINE n == IF delivered[i] < MAX_GAP_WAIT THEN delivered[i] + 1 ELSE MAX_GAP_WAIT
    <3>1. n \in 1..MAX_GAP_WAIT
      OBVIOUS
    <3>2. /\ delivered' = [delivered EXCEPT ![i] = n]
          /\ job' = [job EXCEPT ![p] = [pc |-> "received", msg |-> i, delivered |-> n]]
      BY <1>8 DEF Deliver
    <3> HIDE DEF n
    <3> QED BY <3>1, <3>2
  <2>2. job' \in [Applier -> Job]
    BY <2>1, JobRecords
  <2>3. delivered' \in [Msg -> 0..MAX_GAP_WAIT]
    BY <2>1
  <2> QED BY <1>8, <2>2, <2>3 DEF Deliver, relayVars, projectionVars
<1>9. ASSUME NEW p \in Applier, Gate(p)
      PROVE  TypeOK'
  <2> DEFINE i == job[p].msg
             d == decide(row[stream[i].agg], stream[i].version, job[p].delivered)
             b == row[stream[i].agg] = Null
  <2>1. job[p] \in Job /\ job[p].pc = "received"
    BY <1>9 DEF Gate
  <2>2. i \in Msg /\ job[p].delivered \in 1..MAX_GAP_WAIT
    BY <2>1, JobCases
  <2>3. d \in Decision /\ b \in BOOLEAN
    BY DEF decide, Decision
  <2>4. job' = [job EXCEPT ![p] =
                IF d = "apply"
                THEN [pc |-> "applying", msg |-> i, delivered |-> job[p].delivered, pending |-> b]
                ELSE [pc |-> "decided", msg |-> i, decision |-> d]]
    BY <1>9 DEF Gate
  <2> HIDE DEF d, i, b
  <2>5. job' \in [Applier -> Job]
    BY <2>2, <2>3, <2>4, JobRecords
  <2> QED BY <1>9, <2>5 DEF Gate, relayVars, brokerVars, projectionVars
<1>10. ASSUME NEW p \in Applier, Commit(p)
       PROVE  TypeOK'
  <2>1. job[p] \in Job /\ job[p].pc = "applying"
    BY <1>10 DEF Commit
  <2>2. job[p].msg \in Msg
    BY <2>1, JobCases
  <2>3. job' \in [Applier -> Job]
    BY <1>10, <2>2, JobRecords DEF Commit, Decision
  <2> DEFINE a == stream[job[p].msg].agg
             v == stream[job[p].msg].version
  <2>4. /\ row' = [row EXCEPT ![a] = Projected(@, v)]
        /\ gapped' \in {gapped, gapped \cup {a}}
        /\ overwritten' \in {overwritten, overwritten \cup {a}}
    BY <1>10 DEF Commit
  <2>5. a \in Aggregate /\ v \in 1..MaxVersion
    <3>1. job[p].msg \in 1..Len(stream)
      BY <2>1 DEF MessagesExist
    <3>2. stream[job[p].msg] \in Event
      BY <3>1, ElementOfSeq
    <3> QED BY <3>2 DEF Event
  <2> HIDE DEF a, v
  <2>6. Projected(row[a], v) \in Row \cup {Null}
    BY <2>5, ProjectedType
  <2>7. row' \in [Aggregate -> Row \cup {Null}] /\ gapped' \subseteq Aggregate
        /\ overwritten' \subseteq Aggregate
    BY <2>4, <2>5, <2>6
  <2> QED BY <1>10, <2>3, <2>7 DEF Commit, relayVars, brokerVars
<1>11. ASSUME NEW p \in Applier, Ack(p)
       PROVE  TypeOK'
  <2>1. job' \in [Applier -> Job]
    BY <1>11 DEF Ack, Job
  <2>2. status' \in [Msg -> {"new", "out", "ready", "acked"}] /\ faults' \in 0..MaxFaults
    <3>1. Settled(job[p].decision, status[job[p].msg]) \in {"new", "out", "ready", "acked"}
      <4>1. job[p].msg \in Msg
        BY <1>11, JobCases DEF Ack
      <4> QED BY <4>1 DEF Settled
    <3>2. CASE status' = [status EXCEPT ![job[p].msg] = Settled(job[p].decision, @)]
               /\ UNCHANGED faults
      BY <3>1, <3>2
    <3>3. CASE Fault /\ UNCHANGED status
      BY <3>3 DEF Fault
    <3> QED BY <1>11, <3>2, <3>3 DEF Ack
  <2> QED BY <1>11, <2>1, <2>2 DEF Ack, relayVars, projectionVars
<1>12. ASSUME NEW r \in Replica, Stop(r)
       PROVE  TypeOK'
  BY <1>12 DEF Stop, Fault, Job, relayVars, brokerVars, projectionVars
<1>13. ASSUME NEW r \in Replica, Restart(r)
       PROVE  TypeOK'
  BY <1>13 DEF Restart, relayVars, brokerVars, projectionVars
<1>14. CASE UNCHANGED vars
  BY <1>14 DEF vars
<1> QED
  BY <1>1, <1>2, <1>3, <1>4, <1>5, <1>6, <1>7, <1>8, <1>9, <1>10, <1>11, <1>12, <1>13, <1>14
  DEF Next, RelayNext, BrokerNext, ProjectorNext

-----------------------------------------------------------------------------
(* The relays *)

\* NoEventStranded, of any outbox and stream.
LEMMA StrandedListed ==
    NoEventStranded <=>
        \A a \in Aggregate : \A v \in 1..log[a] :
            Listed(outbox, [agg |-> a, version |-> v]) \/ Listed(stream, [agg |-> a, version |-> v])
BY DEF NoEventStranded, Listed

LEMMA RelayStep ==
    ASSUME TypeOK, TypeOK', RelayInv, [Next]_vars
    PROVE  RelayInv'
<1> USE DEF RelayInv
<1>0. \A a \in Aggregate : \A v \in 1..log[a] :
        /\ v \in 1..MaxVersion
        /\ [agg |-> a, version |-> v] \in Event
  <2>1. \A a \in Aggregate : log[a] \in 0..MaxVersion
    BY DEF TypeOK
  <2>2. MaxVersion \in Nat
    BY DeliveryAssumption
  <2> QED BY <2>1, <2>2 DEF Event
<1>1. ASSUME NEW a \in Aggregate, Enqueue(a)
      PROVE  RelayInv'
  <2> DEFINE new == [agg |-> a, version |-> log[a] + 1]
  <2>1. /\ log[a] \in 0..MaxVersion /\ log[a] < MaxVersion /\ log \in [Aggregate -> 0..MaxVersion]
        /\ log' = [log EXCEPT ![a] = log[a] + 1]
        /\ UNCHANGED <<batch, sent, stream, window>>
    BY <1>1 DEF Enqueue, TypeOK, brokerVars
  <2>2. new \in Event /\ new.version = log'[new.agg]
    BY <2>1, DeliveryAssumption DEF Event
  <2>3. PICK i \in 1..(Len(outbox) + 1) : outbox' = InsertAt(outbox, i, new)
    BY <1>1 DEF Enqueue
  <2>4. \A b \in Aggregate : log[b] <= log'[b] /\ log[b] \in Nat /\ log'[b] \in Nat
    BY <2>1
  <2>5. \A b \in Aggregate : \A v \in 1..log'[b] :
            v \in 1..log[b] \/ [agg |-> b, version |-> v] = new
    BY <2>1
  <2>6. outbox \in Seq(Event)
    BY DEF TypeOK
  <2> HIDE DEF new
  <2>7. \A e \in Event : Listed(outbox', e) <=> Listed(outbox, e) \/ e = new
    BY <2>2, <2>3, <2>6, InsertAtListed
  <2>8. EventsCommitted'
    <3>1. SUFFICES ASSUME NEW e \in Event,
                          \/ Listed(outbox', e)
                          \/ \E r \in Relay : Listed(batch[r], e)
                          \/ Listed(stream, e)
                   PROVE  e.version <= log'[e.agg]
      BY <2>1 DEF EventsCommitted, Listed
    <3>2. CASE e = new
      BY <2>2, <3>2 DEF Event
    <3>3. CASE e # new
      <4>1. e.version <= log[e.agg]
        BY <2>7, <3>1, <3>3 DEF EventsCommitted
      <4>2. e.agg \in Aggregate /\ e.version \in 1..MaxVersion
        BY DEF Event
      <4> QED BY <2>4, <4>1, <4>2
    <3> QED BY <3>2, <3>3
  <2>9. NoEventStranded'
    <3>1. \A b \in Aggregate : \A v \in 1..log'[b] :
            Listed(outbox', [agg |-> b, version |-> v]) \/ Listed(stream, [agg |-> b, version |-> v])
      <4> TAKE b \in Aggregate
      <4> TAKE v \in 1..log'[b]
      <4>1. CASE [agg |-> b, version |-> v] = new
        BY <2>2, <2>7, <4>1
      <4>2. CASE v \in 1..log[b]
        BY <1>0, <2>7, <4>2, StrandedListed
      <4> QED BY <2>5, <4>1, <4>2
    <3> QED BY <2>1, <3>1 DEF NoEventStranded, Listed
  <2>10. SentIsOnStream' /\ WindowIsOnStream'
    BY <2>1 DEF SentIsOnStream, WindowIsOnStream, Listed
  <2> QED BY <2>8, <2>9, <2>10
<1>2. ASSUME NEW r \in Relay, ReadBatch(r)
      PROVE  RelayInv'
  <2>1. /\ batch[r] = << >> /\ batch' = [batch EXCEPT ![r] = outbox] /\ batch \in [Relay -> Seq(Event)]
        /\ UNCHANGED <<log, outbox, sent, stream, window>>
    BY <1>2 DEF ReadBatch, TypeOK, brokerVars
  <2>2. \A q \in Relay : batch'[q] = IF q = r THEN outbox ELSE batch[q]
    BY <2>1
  <2>3. EventsCommitted'
    BY <2>1, <2>2 DEF EventsCommitted, Listed
  <2>4. SentIsOnStream'
    BY <2>1, <2>2 DEF SentIsOnStream, Listed
  <2>5. WindowIsOnStream' /\ NoEventStranded'
    BY <2>1 DEF WindowIsOnStream, NoEventStranded, Listed
  <2> QED BY <2>3, <2>4, <2>5
<1>3. ASSUME NEW r \in Relay, Publish(r)
      PROVE  RelayInv'
  <2> DEFINE e == Head(batch[r])
  <2>1. /\ batch[r] # << >> /\ batch[r] \in Seq(Event) /\ sent' = [sent EXCEPT ![r] = TRUE]
        /\ sent \in [Relay -> BOOLEAN] /\ stream \in Seq(Event) /\ window \subseteq Event
        /\ UNCHANGED <<log, outbox, batch>>
    BY <1>3 DEF Publish, TypeOK
  <2>2. e \in Event /\ Listed(batch[r], e)
    BY <2>1, TailListed
  <2>3. \/ e \in window /\ UNCHANGED <<stream, window>>
        \/ stream' = Append(stream, e) /\ window' = window \cup {e}
    BY <1>3 DEF Publish
  <2> HIDE DEF e
  <2>4. /\ Listed(stream', e)
        /\ \A f \in Event : Listed(stream, f) => Listed(stream', f)
        /\ \A f \in Event : Listed(stream', f) => Listed(stream, f) \/ f = e
        /\ window' \subseteq window \cup {e}
    <3>1. CASE e \in window /\ UNCHANGED <<stream, window>>
      BY <2>2, <3>1 DEF WindowIsOnStream
    <3>2. CASE stream' = Append(stream, e) /\ window' = window \cup {e}
      BY <2>1, <2>2, <3>2, AppendListed
    <3> QED BY <2>3, <3>1, <3>2
  <2>5. EventsCommitted'
    <3>1. \A f \in Event :
            Listed(outbox, f) \/ (\E q \in Relay : Listed(batch[q], f)) \/ Listed(stream', f)
            => f.version <= log[f.agg]
      BY <2>2, <2>4 DEF EventsCommitted
    <3> QED BY <2>1, <3>1 DEF EventsCommitted, Listed
  <2>6. SentIsOnStream'
    <3>1. ASSUME NEW q \in Relay, sent'[q]
          PROVE  batch[q] # << >> /\ Listed(stream', Head(batch[q]))
      <4>1. CASE q = r
        BY <2>1, <2>4, <4>1 DEF e
      <4>2. CASE q # r
        <5>1. batch[q] # << >> /\ Listed(stream, Head(batch[q]))
          BY <2>1, <3>1, <4>2 DEF SentIsOnStream
        <5>2. Head(batch[q]) \in Event
          BY <5>1, TailListed DEF TypeOK
        <5> QED BY <2>4, <5>1, <5>2
      <4> QED BY <4>1, <4>2
    <3> QED BY <2>1, <3>1 DEF SentIsOnStream, Listed
  <2>7. WindowIsOnStream'
    <3>1. \A f \in window' : Listed(stream', f)
      BY <2>1, <2>2, <2>4 DEF WindowIsOnStream
    <3> QED BY <3>1 DEF WindowIsOnStream, Listed
  <2>8. NoEventStranded'
    <3>1. \A b \in Aggregate : \A v \in 1..log[b] :
            Listed(outbox, [agg |-> b, version |-> v]) \/ Listed(stream', [agg |-> b, version |-> v])
      BY <1>0, <2>4, StrandedListed
    <3> QED BY <2>1, <3>1 DEF NoEventStranded, Listed
  <2> QED BY <2>5, <2>6, <2>7, <2>8
<1>4. ASSUME NEW r \in Relay, Delete(r)
      PROVE  RelayInv'
  <2> DEFINE e == Head(batch[r])
  <2>1. /\ batch[r] # << >> /\ batch[r] \in Seq(Event) /\ sent[r] /\ outbox \in Seq(Event)
        /\ batch' = [batch EXCEPT ![r] = Tail(batch[r])] /\ batch \in [Relay -> Seq(Event)]
        /\ sent' = [sent EXCEPT ![r] = FALSE] /\ sent \in [Relay -> BOOLEAN]
        /\ UNCHANGED <<log, stream, window>>
    BY <1>4 DEF Delete, Deletable, TypeOK, brokerVars
  <2>2. Listed(stream, e)
    BY <2>1 DEF SentIsOnStream
  <2>3. \A f \in Event : Listed(Tail(batch[r]), f) => Listed(batch[r], f)
    BY <2>1, TailListed
  <2>4. \/ \E k \in 1..Len(outbox) : outbox[k] = e /\ outbox' = RemoveAt(outbox, k)
        \/ outbox' = outbox
    BY <1>4 DEF Delete
  <2> HIDE DEF e
  <2>5. /\ \A f \in Event : Listed(outbox', f) => Listed(outbox, f)
        /\ \A f \in Event : Listed(outbox, f) => Listed(outbox', f) \/ f = e
    BY <2>1, <2>4, RemoveAtListed
  <2>6. \A q \in Relay : batch'[q] = (IF q = r THEN Tail(batch[r]) ELSE batch[q])
                          /\ (sent'[q] <=> q # r /\ sent[q])
    BY <2>1
  <2>7. EventsCommitted'
    <3>1. \A f \in Event :
            Listed(outbox', f) \/ (\E q \in Relay : Listed(batch'[q], f)) \/ Listed(stream, f)
            => f.version <= log[f.agg]
      BY <2>3, <2>5, <2>6 DEF EventsCommitted
    <3> QED BY <2>1, <3>1 DEF EventsCommitted, Listed
  <2>8. SentIsOnStream'
    BY <2>1, <2>6 DEF SentIsOnStream, Listed
  <2>9. WindowIsOnStream'
    BY <2>1 DEF WindowIsOnStream, Listed
  <2>10. NoEventStranded'
    <3>1. \A b \in Aggregate : \A v \in 1..log[b] :
            Listed(outbox', [agg |-> b, version |-> v]) \/ Listed(stream, [agg |-> b, version |-> v])
      BY <1>0, <2>2, <2>5, StrandedListed
    <3> QED BY <2>1, <3>1 DEF NoEventStranded, Listed
  <2> QED BY <2>7, <2>8, <2>9, <2>10
<1>5. ASSUME NEW r \in Relay, RelayFails(r)
      PROVE  RelayInv'
  <2>1. /\ batch' = [batch EXCEPT ![r] = << >>] /\ batch \in [Relay -> Seq(Event)]
        /\ sent' = [sent EXCEPT ![r] = FALSE] /\ sent \in [Relay -> BOOLEAN]
        /\ UNCHANGED <<log, outbox, stream, window>>
    BY <1>5 DEF RelayFails, TypeOK, brokerVars
  <2>2. \A q \in Relay : batch'[q] = (IF q = r THEN << >> ELSE batch[q])
                          /\ (sent'[q] <=> q # r /\ sent[q])
    BY <2>1
  <2>3. EventsCommitted'
    BY <2>1, <2>2 DEF EventsCommitted, Listed
  <2>4. SentIsOnStream' /\ WindowIsOnStream' /\ NoEventStranded'
    BY <2>1, <2>2 DEF SentIsOnStream, WindowIsOnStream, NoEventStranded, Listed
  <2> QED BY <2>3, <2>4
<1>6. CASE UNCHANGED <<log, outbox, batch, sent, stream>> /\ window' \subseteq window
  BY <1>6 DEF EventsCommitted, SentIsOnStream, WindowIsOnStream, NoEventStranded, Listed
<1>7. ASSUME BrokerNext \/ ProjectorNext \/ UNCHANGED vars
      PROVE  UNCHANGED <<log, outbox, batch, sent, stream>> /\ window' \subseteq window
  BY <1>7
  DEF BrokerNext, ProjectorNext, Forget, AckTimeout, Deliver, Gate, Commit, Ack, Stop, Restart,
      vars, relayVars, brokerVars
<1> QED BY <1>1, <1>2, <1>3, <1>4, <1>5, <1>6, <1>7 DEF Next, RelayNext

-----------------------------------------------------------------------------
(* The gate *)

\* The stream only grows.
LEMMA StreamGrows ==
    ASSUME TypeOK, [Next]_vars
    PROVE  \A i \in 1..Len(stream) : i \in 1..Len(stream') /\ stream'[i] = stream[i]
<1>1. CASE UNCHANGED stream
  BY <1>1
<1>2. ASSUME NEW r \in Relay, stream' = Append(stream, Head(batch[r])), batch[r] # << >>
      PROVE  \A i \in 1..Len(stream) : i \in 1..Len(stream') /\ stream'[i] = stream[i]
  <2>1. Head(batch[r]) \in Event /\ stream \in Seq(Event)
    BY <1>2, TailListed DEF TypeOK
  <2>2. Len(stream') = Len(stream) + 1 /\ \A i \in 1..Len(stream) : stream'[i] = stream[i]
    BY <1>2, <2>1, AppendListed
  <2>3. (1..Len(stream)) \subseteq 1..(Len(stream) + 1)
    BY <2>1
  <2> QED BY <2>2, <2>3
<1>3. UNCHANGED stream \/ \E r \in Relay : stream' = Append(stream, Head(batch[r])) /\ batch[r] # << >>
  BY DEF Next, RelayNext, BrokerNext, ProjectorNext, Enqueue, ReadBatch, Publish, Delete, RelayFails,
         Forget, AckTimeout, Deliver, Gate, Commit, Ack, Stop, Restart, vars, relayVars, brokerVars
<1> QED BY <1>1, <1>2, <1>3

\* What jobs and rows are about is in range.
LEMMA InRange ==
    ASSUME TypeOK, MessagesExist, NEW p \in Applier, job[p].pc # "idle"
    PROVE  /\ job[p].msg \in Msg
           /\ job[p].msg \in 1..Len(stream)
           /\ stream[job[p].msg] \in Event
           /\ stream[job[p].msg].agg \in Aggregate
           /\ stream[job[p].msg].version \in 1..MaxVersion
<1>1. job[p].msg \in Msg
  BY JobCases DEF TypeOK
<1>2. job[p].msg \in 1..Len(stream)
  BY DEF MessagesExist
<1>3. stream[job[p].msg] \in Event
  BY <1>2, ElementOfSeq DEF TypeOK
<1> QED BY <1>1, <1>2, <1>3 DEF Event

\* Steps after which no apply holds a row it did not hold, and no row has changed.
LEMMA QuietStep ==
    ASSUME GateInv, UNCHANGED row,
           \A i \in 1..Len(stream) : i \in 1..Len(stream') /\ stream'[i] = stream[i],
           \A q \in Applier :
              \/ job'[q] = job[q]
              \/ job'[q].pc = "idle"
              \/ job'[q].pc \in {"received", "decided"} /\ job'[q].msg \in 1..Len(stream),
           \A i \in Msg : status'[i] = "new" \/ status[i] # "new" \/ i \in 1..Len(stream)
    PROVE  GateInv'
<1>1. MessagesExist'
  BY DEF GateInv, MessagesExist
<1>2. \A q \in Applier : job'[q].pc = "applying" =>
        /\ job'[q] = job[q] /\ job[q].msg \in 1..Len(stream)
        /\ stream'[job[q].msg] = stream[job[q].msg]
  BY DEF GateInv, MessagesExist
<1>3. LockExclusive'
  BY <1>2 DEF GateInv, LockExclusive, HoldsRow
<1>4. GateStands'
  BY <1>2 DEF GateInv, GateStands, NextFor
<1> QED BY <1>1, <1>3, <1>4 DEF GateInv

\* What a gate lets through is the next event, or its row is missing, or it has waited enough.
LEMMA AppliedIsNext ==
    ASSUME NEW stored \in Row \cup {Null}, NEW v \in 1..MaxVersion, NEW n \in 1..MAX_GAP_WAIT,
           decide(stored, v, n) = "apply", n < MAX_GAP_WAIT
    PROVE  IF stored = Null THEN v = 1 ELSE NextFor(stored, v)
BY DeliveryAssumption DEF decide, NextFor

LEMMA GateStep ==
    ASSUME TypeOK, TypeOK', GateInv, [Next]_vars
    PROVE  GateInv'
<1>0. \A i \in 1..Len(stream) : i \in 1..Len(stream') /\ stream'[i] = stream[i]
  BY StreamGrows
<1>1. ASSUME NEW p \in Applier, Gate(p)
      PROVE  GateInv'
  <2> DEFINE i == job[p].msg
             e == stream[job[p].msg]
             d == decide(row[e.agg], e.version, job[p].delivered)
  <2>1. /\ job[p].pc = "received" /\ ~RowLocked(e.agg)
        /\ job \in [Applier -> Job]
        /\ UNCHANGED <<stream, status, row>>
    BY <1>1 DEF Gate, TypeOK, brokerVars, projectionVars
  <2>2. i \in 1..Len(stream) /\ e.agg \in Aggregate /\ e.version \in 1..MaxVersion
    BY <2>1, InRange DEF GateInv
  <2>3. row[e.agg] \in Row \cup {Null} /\ job[p].delivered \in 1..MAX_GAP_WAIT
    BY <2>1, <2>2, JobCases DEF TypeOK
  <2>4. job' = [job EXCEPT ![p] =
                IF d = "apply"
                THEN [pc |-> "applying", msg |-> i, delivered |-> job[p].delivered,
                      pending |-> row[e.agg] = Null]
                ELSE [pc |-> "decided", msg |-> i, decision |-> d]]
    BY <1>1 DEF Gate
  <2> HIDE DEF d
  <2>5. CASE d # "apply"
    <3>1. \A q \in Applier : job'[q] = IF q = p THEN [pc |-> "decided", msg |-> i, decision |-> d] ELSE job[q]
      BY <2>1, <2>4, <2>5
    <3>2. \A q \in Applier :
              \/ job'[q] = job[q]
              \/ job'[q].pc \in {"received", "decided"} /\ job'[q].msg \in 1..Len(stream)
      BY <2>2, <3>1
    <3> QED BY <1>0, <2>1, <3>2, QuietStep
  <2>6. CASE d = "apply"
    <3>1. \A q \in Applier : q # p => job'[q] = job[q]
      BY <2>1, <2>4, <2>6
    <3>2. /\ job'[p].pc = "applying" /\ job'[p].msg = i /\ job'[p].delivered = job[p].delivered
          /\ job'[p].pending <=> row[e.agg] = Null
      BY <2>1, <2>4, <2>6
    <3>3. MessagesExist'
      BY <2>1, <2>2, <3>1, <3>2 DEF GateInv, MessagesExist
    <3>4. \A q \in Applier : HoldsRow(q) => stream[job[q].msg].agg # e.agg
      BY <2>1 DEF RowLocked, HoldsRow
    <3>5. LockExclusive'
      BY <2>1, <3>1, <3>2, <3>4 DEF GateInv, LockExclusive, HoldsRow
    <3>6. job[p].delivered < MAX_GAP_WAIT =>
            IF row[e.agg] = Null THEN e.version = 1 ELSE NextFor(row[e.agg], e.version)
      BY <2>2, <2>3, <2>6, AppliedIsNext DEF d
    <3>7. GateStands'
      BY <2>1, <3>1, <3>2, <3>6 DEF GateInv, GateStands, NextFor
    <3> QED BY <3>3, <3>5, <3>7 DEF GateInv
  <2> QED BY <2>5, <2>6
<1>2. ASSUME NEW p \in Applier, Commit(p)
      PROVE  GateInv'
  <2> DEFINE a == stream[job[p].msg].agg
  <2>1. /\ job[p].pc = "applying" /\ (job[p].pending => ~RowLocked(a))
        /\ job \in [Applier -> Job] /\ row \in [Aggregate -> Row \cup {Null}]
        /\ job' = [job EXCEPT ![p] = [pc |-> "decided", msg |-> job[p].msg, decision |-> "apply"]]
        /\ UNCHANGED <<stream, status>>
    BY <1>2 DEF Commit, TypeOK, brokerVars
  <2>2. \A b \in Aggregate : b # a => row'[b] = row[b]
    BY <1>2, <2>1 DEF Commit
  <2>3. /\ \A q \in Applier : q # p => job'[q] = job[q]
        /\ job'[p].pc = "decided" /\ job'[p].msg = job[p].msg
    BY <2>1
  <2>4. \A q \in Applier \ {p} : HoldsRow(q) => stream[job[q].msg].agg # a
    <3>1. CASE job[p].pending
      BY <2>1, <3>1 DEF RowLocked, HoldsRow
    <3>2. CASE ~job[p].pending
      BY <2>1, <3>2 DEF GateInv, LockExclusive, HoldsRow
    <3> QED BY <3>1, <3>2
  <2>5. MessagesExist'
    BY <2>1, <2>3 DEF GateInv, MessagesExist
  <2>6. LockExclusive'
    BY <2>1, <2>3 DEF GateInv, LockExclusive, HoldsRow
  <2>7. GateStands'
    <3>1. ASSUME NEW q \in Applier, job'[q].pc = "applying"
          PROVE  LET f == stream[job[q].msg] IN
                 /\ q # p /\ job'[q] = job[q]
                 /\ ~job[q].pending => row'[f.agg] = row[f.agg]
      <4>1. q # p /\ job'[q] = job[q] /\ job[q].pc # "idle"
        BY <2>3, <3>1
      <4>2. stream[job[q].msg].agg \in Aggregate
        BY <4>1, InRange DEF GateInv
      <4> QED BY <2>2, <2>4, <3>1, <4>1, <4>2 DEF HoldsRow
    <3> QED BY <2>1, <3>1 DEF GateInv, GateStands, NextFor
  <2> QED BY <2>5, <2>6, <2>7 DEF GateInv
<1>3. ASSUME NEW i \in Msg, NEW p \in Applier, Deliver(p, i)
      PROVE  GateInv'
  <2>1. PICK n : job' = [job EXCEPT ![p] = [pc |-> "received", msg |-> i, delivered |-> n]]
    BY <1>3 DEF Deliver
  <2>2. i \in 1..Len(stream)
    BY <1>3 DEF Deliver, Deliverable, GateInv, MessagesExist, Msg
  <2>3. \A q \in Applier :
            \/ job'[q] = job[q]
            \/ job'[q].pc \in {"received", "decided"} /\ job'[q].msg \in 1..Len(stream)
    BY <2>1, <2>2 DEF TypeOK
  <2>4. row' = row /\ \A j \in Msg : status'[j] = "new" \/ status[j] # "new" \/ j \in 1..Len(stream)
    BY <1>3, <2>2 DEF Deliver, TypeOK, projectionVars
  <2> QED BY <1>0, <2>3, <2>4, QuietStep
<1>4. ASSUME NEW i \in Msg, AckTimeout(i)
      PROVE  GateInv'
  <2>1. row' = row /\ job' = job /\ \A j \in Msg : status'[j] = "new" \/ status[j] # "new"
    BY <1>4 DEF AckTimeout, TypeOK, projectionVars
  <2> QED BY <1>0, <2>1, QuietStep
<1>5. ASSUME NEW p \in Applier, Ack(p)
      PROVE  GateInv'
  <2>1. \A q \in Applier : job'[q] = job[q] \/ job'[q].pc = "idle"
    BY <1>5 DEF Ack, Idle, TypeOK
  <2>2. job[p].msg \in 1..Len(stream)
    BY <1>5 DEF Ack, GateInv, MessagesExist
  <2>3. row' = row /\ \A j \in Msg : status'[j] = "new" \/ status[j] # "new" \/ j \in 1..Len(stream)
    BY <1>5, <2>2 DEF Ack, TypeOK, projectionVars
  <2> QED BY <1>0, <2>1, <2>3, QuietStep
<1>6. ASSUME NEW r \in Replica, Stop(r)
      PROVE  GateInv'
  <2>1. row' = row /\ status' = status /\ \A q \in Applier : job'[q] = job[q] \/ job'[q].pc = "idle"
    BY <1>6 DEF Stop, Idle, brokerVars, projectionVars
  <2> QED BY <1>0, <2>1, QuietStep
<1>7. CASE UNCHANGED <<row, job, status>>
  BY <1>0, <1>7, QuietStep
<1>8. ASSUME \/ RelayNext \/ (\E e \in window : Forget(e)) \/ (\E r \in Replica : Restart(r))
             \/ UNCHANGED vars
      PROVE  UNCHANGED <<row, job, status>>
  BY <1>8 DEF RelayNext, Enqueue, ReadBatch, Publish, Delete, RelayFails, Forget, Restart,
              vars, brokerVars, projectionVars
<1> QED BY <1>1, <1>2, <1>3, <1>4, <1>5, <1>6, <1>7, <1>8 DEF Next, BrokerNext, ProjectorNext

-----------------------------------------------------------------------------
(* The rows *)

\* The first n events, in order.
Prefix(n) == [k \in 1..n |-> k]

LEMMA PrefixGrows ==
    ASSUME NEW n \in Nat
    PROVE  /\ Prefix(n) \in Seq(Nat) /\ Len(Prefix(n)) = n
           /\ Append(Prefix(n), n + 1) = Prefix(n + 1)
           /\ <<1>> = Prefix(1)
<1>1. Prefix(n) \in Seq(Nat) /\ Len(Prefix(n)) = n
  BY DEF Prefix
<1>2. Append(Prefix(n), n + 1) = Prefix(n + 1)
  BY <1>1 DEF Prefix
<1>3. <<1>> = Prefix(1)
  BY DEF Prefix
<1> QED BY <1>1, <1>2, <1>3

(***************************************************************************)
(* What Commit does to a row that stays whole: the create of an aggregate, *)
(* fresh or once more, or the event that comes next.                       *)
(***************************************************************************)
LEMMA CommitEffect ==
    ASSUME TypeOK, GateInv, NEW p \in Applier, Commit(p),
           stream[job[p].msg].agg \notin broken'
    PROVE  LET a == stream[job[p].msg].agg
               v == stream[job[p].msg].version
           IN
           /\ a \notin broken
           /\ \/ /\ v = 1
                 /\ row[a] # Null => row[a].version = 1
                 /\ row'[a] = [version |-> 1, effects |-> <<1>>]
              \/ /\ row[a] # Null /\ v = row[a].version + 1
                 /\ row'[a] = [version |-> v, effects |-> Append(row[a].effects, v)]
<1> DEFINE a == stream[job[p].msg].agg
           v == stream[job[p].msg].version
           n == job[p].delivered
<1>1. /\ job[p].pc = "applying" /\ job[p] \in Job
      /\ row' = [row EXCEPT ![a] = Projected(@, v)] /\ row \in [Aggregate -> Row \cup {Null}]
      /\ n >= MAX_GAP_WAIT /\ ~NextFor(row[a], v) => a \in broken'
      /\ v = 1 /\ row[a] # Null /\ row[a].version > 1 => a \in broken'
      /\ broken \subseteq broken'
  BY DEF Commit, TypeOK, broken
<1>2. a \in Aggregate /\ v \in 1..MaxVersion /\ MaxVersion \in Nat
  BY <1>1, InRange, DeliveryAssumption DEF GateInv
<1>3. n \in 1..MAX_GAP_WAIT /\ job[p].pending \in BOOLEAN /\ MAX_GAP_WAIT \in Nat
  BY <1>1, JobCases, DeliveryAssumption
<1>4. v = 1 \/ NextFor(row[a], v)
  <2>1. CASE n < MAX_GAP_WAIT
    BY <1>1, <1>3, <2>1 DEF GateInv, GateStands
  <2>2. CASE ~(n < MAX_GAP_WAIT)
    BY <1>1, <1>3, <2>2
  <2> QED BY <2>1, <2>2
<1>5. row'[a] = Projected(row[a], v)
  BY <1>1, <1>2
<1>6. row[a] # Null => row[a].version \in 1..MaxVersion
  BY <1>1, <1>2 DEF Row
<1> HIDE DEF a, v, n
<1>7. a \notin broken' /\ a \notin broken
  BY <1>1 DEF a
<1>8. CASE v = 1
  <2>1. row'[a] = [version |-> 1, effects |-> <<1>>]
    BY <1>5, <1>8 DEF Projected
  <2>2. row[a] # Null => row[a].version = 1
    BY <1>1, <1>6, <1>7, <1>8
  <2> QED BY <1>7, <1>8, <2>1, <2>2 DEF a, v
<1>9. CASE v # 1
  <2>1. row[a] # Null /\ v = row[a].version + 1
    BY <1>2, <1>4, <1>9 DEF NextFor
  <2>2. row'[a] = [version |-> v, effects |-> Append(row[a].effects, v)]
    <3>1. row'[a] = [version |-> IF row[a].version < v THEN v ELSE row[a].version,
                     effects |-> Append(row[a].effects, v)]
      BY <1>5, <1>9, <2>1 DEF Projected
    <3>2. row[a].version < v
      <4>1. row[a].version \in Nat
        BY <1>2, <1>6, <2>1
      <4> QED BY ONLY <2>1, <4>1
    <3> QED BY ONLY <3>1, <3>2
  <2> QED BY <1>7, <2>1, <2>2 DEF a, v
<1> QED BY <1>8, <1>9

\* A row that stays whole is never taken back.
RowsKept ==
    /\ broken \subseteq broken'
    /\ \A a \in Aggregate \ broken' :
        row[a] # Null => row'[a] # Null /\ row[a].version <= row'[a].version

LEMMA RowsKeptStep ==
    ASSUME TypeOK, GateInv, [Next]_vars
    PROVE  RowsKept
<1>0. \A a \in Aggregate : row[a] # Null => row[a] \in Row /\ row[a].version \in 1..MaxVersion
  BY DEF TypeOK, Row
<1>1. ASSUME NEW p \in Applier, Commit(p)
      PROVE  RowsKept
  <2> DEFINE a == stream[job[p].msg].agg
  <2>1. broken \subseteq broken' /\ \A b \in Aggregate : b # a => row'[b] = row[b]
    BY <1>1 DEF Commit, TypeOK, broken
  <2>2. a \in Aggregate
    BY <1>1, InRange DEF Commit, GateInv
  <2>3. ASSUME a \notin broken', row[a] # Null
        PROVE  row'[a] # Null /\ row[a].version <= row'[a].version
    <3>1. \/ row[a].version = 1 /\ row'[a] = [version |-> 1, effects |-> <<1>>]
          \/ row'[a] = [version |-> row[a].version + 1,
                        effects |-> Append(row[a].effects, row[a].version + 1)]
      BY <1>1, <2>3, CommitEffect
    <3>2. row[a].version \in Nat /\ row[a].version <= row[a].version + 1 /\ 1 <= 1
      BY <1>0, <2>2, <2>3, DeliveryAssumption
    <3>3. row[a].version <= row'[a].version
      <4> HIDE DEF a
      <4>1. CASE row[a].version = 1 /\ row'[a] = [version |-> 1, effects |-> <<1>>]
        BY <4>1
      <4>2. CASE row'[a] = [version |-> row[a].version + 1,
                           effects |-> Append(row[a].effects, row[a].version + 1)]
        <5>1. row'[a].version = row[a].version + 1
          BY ONLY <4>2
        <5> QED BY <3>2, <5>1
      <4> QED BY <3>1, <4>1, <4>2
    <3>4. row[a] \in Row /\ row[a].effects \in Seq(1..MaxVersion)
      BY <1>0, <2>2, <2>3 DEF Row
    <3>5. row'[a] # Null
      <4>1. stream[job[p].msg].version \in 1..MaxVersion
        BY <1>1, InRange DEF Commit, GateInv
      <4>2. row'[a] = Projected(row[a], stream[job[p].msg].version)
        BY <1>1, <2>2 DEF Commit, TypeOK
      <4>3. Projected(row[a], stream[job[p].msg].version) \in Row
        BY <2>3, <3>4, <4>1, ProjectedType
      <4> QED BY <4>2, <4>3, NoRowAssumption
    <3> QED BY <3>2, <3>3, <3>5
  <2>4. \A b \in Aggregate : b # a => (row[b] # Null => row'[b] # Null /\ row[b].version <= row'[b].version)
    BY <1>0, <2>1, DeliveryAssumption
  <2> HIDE DEF a
  <2> QED BY <2>1, <2>3, <2>4 DEF RowsKept
<1>2. CASE UNCHANGED <<row, gapped, overwritten>>
  BY <1>0, <1>2, DeliveryAssumption DEF RowsKept, broken
<1>3. (\E p \in Applier : Commit(p)) \/ UNCHANGED <<row, gapped, overwritten>>
  BY DEF Next, RelayNext, BrokerNext, ProjectorNext, Enqueue, ReadBatch, Publish, Delete, RelayFails,
         Forget, AckTimeout, Deliver, Gate, Ack, Stop, Restart, vars, projectionVars
<1> QED BY <1>1, <1>2, <1>3

LEMMA VersionType ==
    ASSUME NEW r \in [Aggregate -> Row \cup {Null}], NEW a \in Aggregate, r[a] # Null
    PROVE  r[a].version \in Nat
BY DeliveryAssumption DEF Row

\* A committed event stays committed.
LEMMA LogGrows ==
    ASSUME TypeOK, [Next]_vars
    PROVE  \A a \in Aggregate : log[a] \in Nat /\ log'[a] \in Nat /\ log[a] <= log'[a]
<1>1. \A a \in Aggregate : log[a] \in Nat /\ log[a] <= log[a] /\ log[a] + 1 \in Nat /\ log[a] <= log[a] + 1
  BY DeliveryAssumption DEF TypeOK
<1>2. \A a \in Aggregate : log'[a] \in {log[a], log[a] + 1}
  BY DEF TypeOK, Next, RelayNext, BrokerNext, ProjectorNext, Enqueue, ReadBatch, Publish, Delete,
         RelayFails, Forget, AckTimeout, Deliver, Gate, Commit, Ack, Stop, Restart, vars, relayVars
<1> QED BY <1>1, <1>2

LEMMA OrderStep ==
    ASSUME TypeOK, TypeOK', GateInv, RelayInv, ProjectedInOrder, [Next]_vars
    PROVE  ProjectedInOrder'
<1>0. \A b \in Aggregate : log[b] \in Nat /\ log'[b] \in Nat /\ log[b] <= log'[b]
  BY LogGrows
<1>1. \A b \in Aggregate \ broken : row[b] # Null =>
        row[b].version \in Nat /\ row[b].version <= log[b] /\ row[b].effects = Prefix(row[b].version)
  <2> SUFFICES ASSUME NEW b \in Aggregate \ broken, row[b] # Null
               PROVE  /\ row[b].version \in Nat
                      /\ row[b].version <= log[b] /\ row[b].effects = Prefix(row[b].version)
    OBVIOUS
  <2>1. row[b].version \in Nat
    <3>1. row \in [Aggregate -> Row \cup {Null}]
      BY DEF TypeOK
    <3> QED BY <3>1, VersionType
  <2>2. row[b].version <= log[b] /\ row[b].effects = Prefix(row[b].version)
    BY DEF ProjectedInOrder, Prefix
  <2> QED BY <2>1, <2>2
<1>2. SUFFICES ASSUME NEW b \in Aggregate, b \notin broken', row'[b] # Null
               PROVE  row'[b].version <= log'[b] /\ row'[b].effects = Prefix(row'[b].version)
  BY DEF ProjectedInOrder, Prefix
<1>3. b \notin broken
  BY <1>2, RowsKeptStep DEF RowsKept
<1>4. CASE row'[b] = row[b]
  BY <1>0, <1>1, <1>2, <1>3, <1>4
<1>5. CASE row'[b] # row[b]
  <2>1. PICK p \in Applier : Commit(p)
    BY <1>5
    DEF Next, RelayNext, BrokerNext, ProjectorNext, Enqueue, ReadBatch, Publish, Delete, RelayFails,
        Forget, AckTimeout, Deliver, Gate, Ack, Stop, Restart, vars, projectionVars
  <2> DEFINE v == stream[job[p].msg].version
  <2>2. b = stream[job[p].msg].agg
    BY <1>5, <2>1 DEF Commit, TypeOK
  <2>3. v <= log[b] /\ v \in Nat
    <3>1. job[p].msg \in 1..Len(stream) /\ stream[job[p].msg] \in Event /\ v \in 1..MaxVersion
      BY <2>1, InRange DEF Commit, GateInv
    <3>2. Listed(stream, stream[job[p].msg])
      BY <3>1 DEF Listed
    <3> QED BY <2>2, <3>1, <3>2 DEF RelayInv, EventsCommitted
  <2>4. \/ v = 1 /\ row'[b] = [version |-> 1, effects |-> <<1>>]
        \/ /\ row[b] # Null /\ v = row[b].version + 1
           /\ row'[b] = [version |-> v, effects |-> Append(row[b].effects, v)]
    BY <1>2, <2>1, <2>2, CommitEffect
  <2> HIDE DEF v
  <2>5. v <= log'[b]
    BY <1>0, <2>3
  <2>6. CASE v = 1 /\ row'[b] = [version |-> 1, effects |-> <<1>>]
    <3>1. row'[b].version = v /\ row'[b].effects = <<1>>
      BY <2>6
    <3> QED BY <2>5, <2>6, <3>1, PrefixGrows
  <2>7. CASE /\ row[b] # Null /\ v = row[b].version + 1
             /\ row'[b] = [version |-> v, effects |-> Append(row[b].effects, v)]
    <3>1. row'[b].version = v /\ row'[b].effects = Append(row[b].effects, v)
      BY <2>7
    <3>2. row[b].version \in Nat /\ row[b].effects = Prefix(row[b].version)
      BY <1>1, <1>3, <2>7
    <3>3. Append(row[b].effects, v) = Prefix(v)
      BY <2>7, <3>2, PrefixGrows
    <3> QED BY <2>5, <3>1, <3>3
  <2> QED BY <2>4, <2>6, <2>7
<1> QED BY <1>4, <1>5

\* An event whose apply is over, or has been skipped, is in the row.
LEMMA DecidedStep ==
    ASSUME TypeOK, TypeOK', GateInv, DecidedTrue, [Next]_vars
    PROVE  DecidedTrue'
<1>0. \A i \in 1..Len(stream) : i \in 1..Len(stream') /\ stream'[i] = stream[i]
  BY StreamGrows
<1>1. RowsKept
  BY RowsKeptStep
<1>2. SUFFICES ASSUME NEW q \in Applier, job'[q].pc = "decided", job'[q].decision # "park",
                      stream'[job'[q].msg].agg \notin broken'
               PROVE  LET e == stream'[job'[q].msg] IN
                      row'[e.agg] # Null /\ e.version <= row'[e.agg].version
  BY DEF DecidedTrue
<1>3. CASE job'[q] = job[q]
  <2> DEFINE e == stream[job[q].msg]
  <2>1. job[q].msg \in 1..Len(stream) /\ e.agg \in Aggregate /\ e.version \in 1..MaxVersion
    BY <1>2, <1>3, InRange DEF GateInv
  <2>2. stream'[job'[q].msg] = e
    BY <1>0, <1>3, <2>1
  <2>3. e.agg \notin broken' /\ e.agg \notin broken
    BY <1>1, <1>2, <2>2 DEF RowsKept
  <2>4. row[e.agg] # Null /\ e.version <= row[e.agg].version
    BY <1>2, <1>3, <2>3 DEF DecidedTrue
  <2>5. row'[e.agg] # Null /\ row[e.agg].version <= row'[e.agg].version
    BY <1>1, <2>1, <2>3, <2>4 DEF RowsKept
  <2> HIDE DEF e
  <2>6. row \in [Aggregate -> Row \cup {Null}] /\ row' \in [Aggregate -> Row \cup {Null}]
    BY DEF TypeOK
  <2>7. e.version \in Nat /\ row[e.agg].version \in Nat /\ row'[e.agg].version \in Nat
    BY <2>1, <2>4, <2>5, <2>6, VersionType, DeliveryAssumption
  <2> QED BY <2>2, <2>4, <2>5, <2>7
<1>4. ASSUME Gate(q)
      PROVE  LET e == stream'[job'[q].msg] IN
             row'[e.agg] # Null /\ e.version <= row'[e.agg].version
  <2> DEFINE e == stream[job[q].msg]
             d == decide(row[e.agg], e.version, job[q].delivered)
  <2>1. d # "apply" /\ job'[q] = [pc |-> "decided", msg |-> job[q].msg, decision |-> d]
        /\ UNCHANGED <<stream, row>>
    BY <1>2, <1>4 DEF Gate, TypeOK, brokerVars, projectionVars
  <2>2. d = "skip"
    BY <1>2, <2>1 DEF decide
  <2>3. row[e.agg] # Null /\ e.version <= row[e.agg].version
    BY <2>2 DEF decide
  <2> QED BY <2>1, <2>3
<1>5. ASSUME Commit(q)
      PROVE  LET e == stream'[job'[q].msg] IN
             row'[e.agg] # Null /\ e.version <= row'[e.agg].version
  <2> DEFINE a == stream[job[q].msg].agg
             v == stream[job[q].msg].version
  <2>1. job'[q].msg = job[q].msg /\ stream' = stream /\ a \in Aggregate /\ v \in 1..MaxVersion
    BY <1>5, InRange DEF Commit, TypeOK, brokerVars, GateInv
  <2>2. row'[a] = Projected(row[a], v) /\ row[a] \in Row \cup {Null}
    BY <1>5, <2>1 DEF Commit, TypeOK
  <2>3. /\ v = 1 \/ row[a] # Null
        /\ row'[a].version = v
    <3>1. \/ v = 1 /\ row'[a] = [version |-> 1, effects |-> <<1>>]
          \/ row[a] # Null /\ row'[a] = [version |-> v, effects |-> Append(row[a].effects, v)]
      BY <1>2, <1>5, <2>1, CommitEffect
    <3> HIDE DEF a, v
    <3>2. ASSUME NEW f, row'[a] = [version |-> v, effects |-> f]
          PROVE  row'[a].version = v
      BY <3>2
    <3> QED BY <3>1, <3>2
  <2> HIDE DEF a, v
  <2>4. row'[a] # Null /\ v <= row'[a].version
    BY <2>1, <2>2, <2>3, ProjectedType, NoRowAssumption, DeliveryAssumption
  <2> QED BY <2>1, <2>4 DEF a, v
<1>6. job'[q] = job[q] \/ Gate(q) \/ Commit(q)
  <2> USE DEF TypeOK
  <2>1. CASE UNCHANGED job
    BY <2>1
  <2>2. ASSUME NEW p \in Applier, Gate(p) \/ Commit(p)
        PROVE  job'[q] = job[q] \/ Gate(q) \/ Commit(q)
    BY <2>2 DEF Gate, Commit
  <2>3. ASSUME NEW p \in Applier, Ack(p) \/ \E i \in Msg : Deliver(p, i)
        PROVE  job'[q] = job[q]
    BY <1>2, <2>3 DEF Ack, Deliver, Idle
  <2>4. ASSUME NEW r \in Replica, Stop(r)
        PROVE  job'[q] = job[q]
    BY <1>2, <2>4 DEF Stop, Idle
  <2>5. \/ UNCHANGED job
        \/ \E p \in Applier :
              Gate(p) \/ Commit(p) \/ Ack(p) \/ \E i \in Msg : Deliver(p, i)
        \/ \E r \in Replica : Stop(r)
    BY DEF Next, RelayNext, BrokerNext, ProjectorNext, Enqueue, ReadBatch, Publish, Delete, RelayFails,
           Forget, AckTimeout, Restart, vars
  <2> QED BY <2>1, <2>2, <2>3, <2>4, <2>5
<1> QED BY <1>3, <1>4, <1>5, <1>6

\* An ack follows the commit, and no later step takes the effect back.
LEMMA AckedStep ==
    ASSUME TypeOK, TypeOK', GateInv, DecidedTrue, AckedIsProjected, [Next]_vars
    PROVE  AckedIsProjected'
<1>0. \A i \in 1..Len(stream) : i \in 1..Len(stream') /\ stream'[i] = stream[i]
  BY StreamGrows
<1>1. RowsKept
  BY RowsKeptStep
<1>2. SUFFICES ASSUME NEW i \in 1..Len(stream'), status'[i] = "acked", stream'[i].agg \notin broken'
               PROVE  LET e == stream'[i] IN row'[e.agg] # Null /\ e.version <= row'[e.agg].version
  BY DEF AckedIsProjected
<1>3. i \in Msg
  BY DeliveryAssumption DEF TypeOK, Msg
<1>4. \/ status[i] = "acked"
      \/ \E p \in Applier : job[p].pc = "decided" /\ job[p].decision # "park" /\ job[p].msg = i
  <2>1. CASE \E p \in Applier : Ack(p)
    BY <1>2, <1>3, <2>1 DEF Ack, Settled, TypeOK
  <2>2. CASE ~\E p \in Applier : Ack(p)
    BY <1>2, <1>3, <2>2
    DEF TypeOK, Next, RelayNext, BrokerNext, ProjectorNext, Enqueue, ReadBatch, Publish, Delete,
        RelayFails, Forget, AckTimeout, Deliver, Gate, Commit, Stop, Restart, vars, brokerVars
  <2> QED BY <2>1, <2>2
<1> DEFINE e == stream[i]
<1>5. i \in 1..Len(stream)
  BY <1>3, <1>4 DEF GateInv, MessagesExist
<1>6. stream'[i] = e /\ e.agg \in Aggregate /\ e.version \in 1..MaxVersion
  <2>1. e \in Event
    BY <1>5, ElementOfSeq DEF TypeOK
  <2> QED BY <1>0, <1>5, <2>1 DEF Event
<1>7. e.agg \notin broken' /\ e.agg \notin broken
  BY <1>1, <1>2, <1>6 DEF RowsKept
<1>8. row[e.agg] # Null /\ e.version <= row[e.agg].version
  BY <1>4, <1>5, <1>7 DEF AckedIsProjected, DecidedTrue
<1>9. row'[e.agg] # Null /\ row[e.agg].version <= row'[e.agg].version
  BY <1>1, <1>6, <1>7, <1>8 DEF RowsKept
<1> HIDE DEF e
<1>10. row \in [Aggregate -> Row \cup {Null}] /\ row' \in [Aggregate -> Row \cup {Null}]
  BY DEF TypeOK
<1>11. e.version \in Nat /\ row[e.agg].version \in Nat /\ row'[e.agg].version \in Nat
  BY <1>6, <1>8, <1>9, <1>10, VersionType, DeliveryAssumption
<1> QED BY <1>6, <1>8, <1>9, <1>11

-----------------------------------------------------------------------------
(* Theorems *)

LEMMA InitHolds == Init => IInv
<1> SUFFICES ASSUME Init PROVE IInv
  OBVIOUS
<1> USE DEF Init
<1>1. TypeOK
  <2>1. << >> \in Seq(Event) /\ Len(<< >>) = 0
    OBVIOUS
  <2> QED BY <2>1, DeliveryAssumption DEF TypeOK, Job
<1>2. RelayInv
  <2>1. \A e : ~Listed(<< >>, e)
    BY DEF Listed
  <2> QED BY <2>1 DEF RelayInv, EventsCommitted, SentIsOnStream, WindowIsOnStream, NoEventStranded
<1>3. GateInv
  BY DEF GateInv, MessagesExist, LockExclusive, GateStands, HoldsRow, Idle
<1>4. DecidedTrue /\ ProjectedInOrder /\ AckedIsProjected
  BY DEF DecidedTrue, ProjectedInOrder, AckedIsProjected, Idle
<1> QED BY <1>1, <1>2, <1>3, <1>4 DEF IInv

\* Every reachable state satisfies the inductive invariant.
THEOREM Invariance == Spec => []IInv
<1>1. ASSUME IInv, [Next]_vars
      PROVE  IInv'
  <2>1. TypeOK /\ RelayInv /\ GateInv /\ DecidedTrue /\ ProjectedInOrder /\ AckedIsProjected
    BY <1>1 DEF IInv
  <2>2. TypeOK'
    BY <1>1, <2>1, TypeStep DEF GateInv
  <2>3. RelayInv'
    BY <1>1, <2>1, <2>2, RelayStep
  <2>4. GateInv'
    BY <1>1, <2>1, <2>2, GateStep
  <2>5. DecidedTrue'
    BY <1>1, <2>1, <2>2, DecidedStep
  <2>6. ProjectedInOrder'
    BY <1>1, <2>1, <2>2, OrderStep
  <2>7. AckedIsProjected'
    BY <1>1, <2>1, <2>2, AckedStep
  <2> QED BY <2>2, <2>3, <2>4, <2>5, <2>6, <2>7 DEF IInv
<1> QED BY <1>1, InitHolds, PTL DEF Spec

\* Every variable keeps its type.
THEOREM TypeCorrectness == Spec => []TypeOK
<1>1. IInv => TypeOK
  BY DEF IInv
<1> QED BY <1>1, Invariance, PTL

(***************************************************************************)
(* However many relays crash or race, whatever the broker forgets, every   *)
(* committed event is still in the outbox or already on the stream.        *)
(***************************************************************************)
THEOREM NoEventStrandedHolds == Spec => []NoEventStranded
<1>1. IInv => NoEventStranded
  BY DEF IInv, RelayInv
<1> QED BY <1>1, Invariance, PTL

(***************************************************************************)
(* A row the escape hatch and late creates have left alone is the result   *)
(* of a prefix of its aggregate's events, each applied once and in order.  *)
(***************************************************************************)
THEOREM ProjectedInOrderHolds == Spec => []ProjectedInOrder
<1>1. IInv => ProjectedInOrder
  BY DEF IInv
<1> QED BY <1>1, Invariance, PTL

(***************************************************************************)
(* The consumer is never told to forget an event whose effect is not in    *)
(* the row: the ack follows the commit, and no commit is taken back.       *)
(***************************************************************************)
THEOREM AckedIsProjectedHolds == Spec => []AckedIsProjected
<1>1. IInv => AckedIsProjected
  BY DEF IInv
<1> QED BY <1>1, Invariance, PTL

-----------------------------------------------------------------------------
(* The refinement *)

\* What the abstract projection shows.
Shown == [a \in Aggregate |-> IF a \in broken \/ row[a] = Null THEN 0 ELSE Len(row[a].effects)]

\* A whole row shows as many effects as its version says.
LEMMA ShownIsVersion ==
    ASSUME TypeOK, ProjectedInOrder, NEW a \in Aggregate, a \notin broken
    PROVE  Shown[a] = IF row[a] = Null THEN 0 ELSE row[a].version
<1>1. CASE row[a] = Null
  BY <1>1 DEF Shown
<1>2. CASE row[a] # Null
  <2>1. row[a].version \in Nat
    BY <1>2, VersionType DEF TypeOK
  <2>2. row[a].effects = Prefix(row[a].version)
    BY <1>2 DEF ProjectedInOrder, Prefix
  <2> QED BY <1>2, <2>1, <2>2, PrefixGrows DEF Shown
<1> QED BY <1>1, <1>2

\* Only a commit moves the projection: one event further, or out of the promise.
LEMMA CommitRefines ==
    ASSUME IInv, IInv', NEW p \in Applier, Commit(p)
    PROVE  \/ UNCHANGED <<log, Shown, broken>>
           \/ \E a \in Aggregate :
                /\ UNCHANGED log
                /\ \/ /\ broken' = broken \cup {a}
                      /\ Shown' = [Shown EXCEPT ![a] = 0]
                   \/ /\ UNCHANGED broken
                      /\ a \notin broken /\ Shown[a] < log[a]
                      /\ Shown' = [Shown EXCEPT ![a] = @ + 1]
<1> USE DEF IInv
<1> DEFINE a == stream[job[p].msg].agg
           v == stream[job[p].msg].version
<1>1. /\ UNCHANGED log
      /\ broken' \in {broken, broken \cup {a}}
      /\ \A b \in Aggregate : b # a => row'[b] = row[b]
  BY DEF Commit, TypeOK, relayVars, broken
<1>2. a \in Aggregate /\ v \in 1..MaxVersion /\ v <= log[a]
  <2>1. job[p].msg \in 1..Len(stream) /\ stream[job[p].msg] \in Event /\ a \in Aggregate /\ v \in 1..MaxVersion
    BY InRange DEF Commit, GateInv
  <2>2. Listed(stream, stream[job[p].msg])
    BY <2>1 DEF Listed
  <2> QED BY <2>1, <2>2 DEF RelayInv, EventsCommitted
<1>3. \A b \in Aggregate : b # a => Shown'[b] = Shown[b]
  BY <1>1 DEF Shown
<1>4. Shown = [b \in Aggregate |-> Shown[b]] /\ Shown' = [b \in Aggregate |-> Shown'[b]]
  BY DEF Shown
<1>5. CASE a \in broken'
  <2>1. Shown'[a] = 0
    BY <1>2, <1>5 DEF Shown
  <2>2. Shown' = [Shown EXCEPT ![a] = 0]
    BY <1>2, <1>3, <1>4, <2>1
  <2>3. broken' = broken \cup {a}
    BY <1>1, <1>5
  <2> QED BY <1>1, <1>2, <2>2, <2>3
<1>6. CASE a \notin broken'
  <2>1. a \notin broken /\ broken' = broken
    BY <1>1, <1>6
  <2>2. Shown[a] = IF row[a] = Null THEN 0 ELSE row[a].version
    BY <1>2, <2>1, ShownIsVersion
  <2>3. \/ /\ v = 1
           /\ row[a] # Null => row[a].version = 1
           /\ row'[a] = [version |-> 1, effects |-> <<1>>]
        \/ /\ row[a] # Null /\ v = row[a].version + 1
           /\ row'[a] = [version |-> v, effects |-> Append(row[a].effects, v)]
    BY <1>6, CommitEffect
  <2>4. v \in Nat /\ row'[a] # Null /\ row'[a].version = v
    <3>1. v \in Nat /\ row'[a] = Projected(row[a], v) /\ row[a] \in Row \cup {Null}
      BY <1>2, DeliveryAssumption DEF Commit, TypeOK
    <3> HIDE DEF a, v
    <3>2. row'[a] # Null
      BY <1>2, <2>3, <3>1, ProjectedType, NoRowAssumption
    <3>3. ASSUME NEW f, row'[a] = [version |-> v, effects |-> f]
          PROVE  row'[a].version = v
      BY <3>3
    <3> QED BY <2>3, <3>1, <3>2, <3>3
  <2>5. Shown'[a] = v
    <3>1. row' \in [Aggregate -> Row \cup {Null}] /\ row'[a].effects = Prefix(row'[a].version)
      BY <1>2, <1>6, <2>4 DEF ProjectedInOrder, Prefix, TypeOK
    <3>2. Len(row'[a].effects) = v
      BY <2>4, <3>1, PrefixGrows
    <3> QED BY <1>2, <1>6, <2>4, <3>2 DEF Shown
  <2> HIDE DEF a, v
  <2>6. CASE row[a] # Null /\ v = 1 /\ row[a].version = 1
    <3>1. Shown'[a] = Shown[a]
      BY <2>2, <2>5, <2>6
    <3> QED BY <1>1, <1>3, <1>4, <2>1, <3>1
  <2>7. CASE \/ row[a] = Null /\ v = 1
             \/ row[a] # Null /\ v = row[a].version + 1
    <3>1. Shown[a] + 1 = v /\ Shown[a] \in Nat
      <4>1. row[a] # Null => row[a].version \in Nat
        BY <1>2, VersionType DEF TypeOK
      <4> QED BY <2>2, <2>7, <4>1
    <3>2. Shown[a] < log[a]
      BY <1>2, <3>1, DeliveryAssumption DEF TypeOK
    <3>3. Shown' = [Shown EXCEPT ![a] = @ + 1]
      BY <1>2, <1>3, <1>4, <2>5, <3>1
    <3> QED BY <1>1, <1>2, <2>1, <3>2, <3>3
  <2> QED BY <2>3, <2>6, <2>7
<1> QED BY <1>5, <1>6

(***************************************************************************)
(* The relays, the stream with its copies and its forgetting, the consumer *)
(* with its timeouts and the version gate together show a read model that  *)
(* applies a prefix of each aggregate's events in order -- and says so     *)
(* when it leaves that promise.                                            *)
(***************************************************************************)
THEOREM ImplementsProjectionHolds == Spec => ImplementsProjection
<1>1. Init => Projection!Init
  BY DEF Init, Projection!Init, broken
<1>2. ASSUME IInv, IInv', [Next]_vars
      PROVE  [Projection!Next]_(Projection!vars)
  <2>1. ASSUME NEW a \in Aggregate, Enqueue(a)
        PROVE  Projection!Next
    <3>1. Projection!Write(a)
      BY <2>1 DEF Enqueue, Projection!Write, projectionVars, broken
    <3> QED BY <3>1 DEF Projection!Next
  <2>2. ASSUME NEW p \in Applier, Commit(p)
        PROVE  [Projection!Next]_(Projection!vars)
    <3>1. CASE UNCHANGED <<log, Shown, broken>>
      BY <3>1 DEF Projection!vars, Shown
    <3>2. ASSUME NEW a \in Aggregate, UNCHANGED log, broken' = broken \cup {a},
                 Shown' = [Shown EXCEPT ![a] = 0]
          PROVE  Projection!Next
      <4>1. Projection!Break(a)
        BY <3>2 DEF Projection!Break, Shown
      <4> QED BY <4>1 DEF Projection!Next
    <3>3. ASSUME NEW a \in Aggregate, UNCHANGED log, UNCHANGED broken, a \notin broken,
                 Shown[a] < log[a], Shown' = [Shown EXCEPT ![a] = @ + 1]
          PROVE  Projection!Next
      <4>1. Projection!Project(a)
        BY <3>3 DEF Projection!Project, Shown
      <4> QED BY <4>1 DEF Projection!Next
    <3> QED BY <1>2, <2>2, <3>1, <3>2, <3>3, CommitRefines
  <2>3. CASE UNCHANGED <<log, row, gapped, overwritten>>
    BY <2>3 DEF Projection!vars, broken
  <2>4. \/ \E a \in Aggregate : Enqueue(a)
        \/ \E p \in Applier : Commit(p)
        \/ UNCHANGED <<log, row, gapped, overwritten>>
    BY <1>2
    DEF Next, RelayNext, BrokerNext, ProjectorNext, ReadBatch, Publish, Delete, RelayFails, Forget,
        AckTimeout, Deliver, Gate, Ack, Stop, Restart, vars, relayVars, projectionVars
  <2> QED BY <2>1, <2>2, <2>3, <2>4
<1> QED BY <1>1, <1>2, Invariance, PTL DEF Spec, ImplementsProjection, Projection!Spec
=============================================================================
