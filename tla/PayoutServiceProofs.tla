------------------------ MODULE PayoutServiceProofs ------------------------
(***************************************************************************)
(* What holds of PayoutService for every number of hosts, bookings,        *)
(* payouts, requests and replicas, and however often a delivery is         *)
(* repeated.                                                               *)
(***************************************************************************)
EXTENDS PayoutService, FiniteSums, SequenceTheorems

\* A message, and so a job, is about a payout that was committed.
MessagesExist ==
    /\ \A p \in inbox : payout[p] # Null
    /\ \A w \in Worker : job[w] # Idle => payout[job[w].id] # Null

\* The version tells whether the outcome is in: one transition per payout.
VersionTells ==
    \A p \in Payout : payout[p] # Null =>
        (payout[p].version = 1 <=> payout[p].status = "requested")

\* Only finitely many bookings have settled by any time.
EarnedFinite == IsFiniteSet(settled) /\ IsFiniteSet(unearned)

IInv == TypeOK /\ EarnedFinite /\ MessagesExist /\ VersionTells /\ OneOutcome

\* What a worker is about to record is what Stripe did, and will not undo.
AnswersTrue ==
    \A w \in Worker : job[w] # Idle /\ job[w].pc = "transferred" =>
        transfer[job[w].id] = IF job[w].to = "paid" THEN "made" ELSE "refused"

-----------------------------------------------------------------------------
(* Steps of one kind *)

\* The record sets of Job, told apart by pc.
LEMMA JobCases ==
    ASSUME NEW j \in Job
    PROVE  /\ j.id \in Payout
           /\ j.pc = "transferred" => j.to \in {"paid", "failed"}
           /\ \A pc \in {"taken", "transferring", "sent", "done"} : [pc |-> pc, id |-> j.id] \in Job
           /\ \A to \in {"paid", "failed"} : [pc |-> "transferred", id |-> j.id, to |-> to] \in Job
           /\ j.pc \in {"taken", "transferring", "sent", "done", "transferred"}
BY DEF Job

\* No job is idle, and an idle worker is told by its record.
LEMMA JobIsNotIdle ==
    ASSUME NEW j \in Job
    PROVE  j # Idle
<1>1. j.pc # "idle"
    BY JobCases
<1>2. Idle.pc = "idle"
    BY DEF Idle
<1> QED BY <1>1, <1>2

\* The row after its one transition.
LEMMA RowTransition ==
    ASSUME NEW r \in Row, r.version = 1, NEW to \in {"paid", "failed"}, NEW next,
           next = [[r EXCEPT !.status = to] EXCEPT !.version = r.version + 1]
    PROVE  /\ next \in Row /\ next.status = to /\ next.version = 2
           /\ next.host = r.host /\ next.amount = r.amount
<1> DEFINE half == [r EXCEPT !.status = to]
<1>1. half \in Row /\ half.status = to /\ half.host = r.host /\ half.amount = r.amount
    BY DEF Row, Status
<1>2. next = [half EXCEPT !.version = 2]
    OBVIOUS
<1> HIDE DEF half
<1> QED BY ONLY <1>1, <1>2 DEF Row

\* The event of the transition follows that of the request.
LEMMA SecondEvent ==
    ASSUME NEW s \in Seq(Status), Len(s) = 1, NEW e \in Status
    PROVE  Len(Append(s, e)) = 2 /\ Append(s, e)[2] = e
<1>1. Len(Append(s, e)) = Len(s) + 1 /\ Append(s, e)[Len(s) + 1] = e
    BY AppendProperties
<1>2. Len(s) + 1 = 2
    OBVIOUS
<1> QED BY <1>1, <1>2, Zenon

\* What CommitPayout does to the row and to the outcomes of a payout still requested.
LEMMA CommitEffect ==
    ASSUME TypeOK, VersionTells, NEW w \in Worker, CommitPayout(w), job[w] \in Job,
           payout[job[w].id] # Null, Applies(job[w].id)
    PROVE  /\ payout' = [payout EXCEPT ![job[w].id] = payout'[job[w].id]]
           /\ payout'[job[w].id] \in Row
           /\ payout'[job[w].id].status = job[w].to
           /\ payout'[job[w].id].version = 2
           /\ payout'[job[w].id].host = payout[job[w].id].host
           /\ payout'[job[w].id].amount = payout[job[w].id].amount
           /\ outcomes' = [outcomes EXCEPT ![job[w].id] = Append(outcomes[job[w].id], job[w].to)]
           /\ payout[job[w].id].version = 1
<1> DEFINE p == job[w].id
           r == payout[p]
           to == job[w].to
           next == payout'[p]
<1>1. p \in Payout /\ job[w].to \in {"paid", "failed"}
  BY JobCases DEF CommitPayout, Working
<1>2. r \in Row /\ r.version = 1
  BY <1>1 DEF TypeOK, VersionTells, Applies
<1>3. payout' = [payout EXCEPT ![p] = [[r EXCEPT !.status = job[w].to] EXCEPT !.version = r.version + 1]]
  BY <1>1 DEF CommitPayout, TypeOK
<1>4. outcomes' = [outcomes EXCEPT ![p] = Append(outcomes[p], job[w].to)]
  BY DEF CommitPayout
<1>5. payout'[p] = [[r EXCEPT !.status = job[w].to] EXCEPT !.version = r.version + 1]
  BY <1>1, <1>3 DEF TypeOK
<1>6. to \in {"paid", "failed"} /\ next = [[r EXCEPT !.status = to] EXCEPT !.version = r.version + 1]
  BY <1>1, <1>5
<1> HIDE DEF r, to, next
<1>7. /\ next \in Row /\ next.status = to /\ next.version = 2
      /\ next.host = r.host /\ next.amount = r.amount
  BY ONLY <1>2, <1>6, RowTransition
<1> QED BY <1>2, <1>3, <1>4, <1>5, <1>7 DEF r, to, next

-----------------------------------------------------------------------------
(* The inductive invariant *)

\* Nothing is requested, and nothing is under way.
LEMMA InitIInv == Init => IInv
<1>1. Init => EarnedFinite
    BY FS_EmptySet DEF Init, EarnedFinite
<1> QED BY <1>1, PayoutConstants DEF Init, IInv, TypeOK, MessagesExist, VersionTells, OneOutcome, Idle

\* Bookings settle, and are taken back, one at a time.
LEMMA EarnedFiniteStep ==
    ASSUME EarnedFinite, [Next]_vars
    PROVE  EarnedFinite'
<1>1. ASSUME NEW b \in Booking, Settles(b) PROVE EarnedFinite'
    BY <1>1, FS_AddElement DEF Settles, EarnedFinite
<1>2. ASSUME NEW b \in Booking, Unearns(b) PROVE EarnedFinite'
    BY <1>2, FS_AddElement, FS_RemoveElement DEF Unearns, EarnedFinite
<1>3. CASE UNCHANGED <<settled, unearned>>
    BY <1>3 DEF EarnedFinite
<1> QED
    BY <1>1, <1>2, <1>3
    DEF Next, WorkerStep, vars, Connect, Lock, ReadEarned, ReadBalance, InsertPayout, StripeDecides,
        Take, TakeAgain, Deliver, ReadPayout, SendTransfer, ReceiveAnswer, CommitPayout, Ack, WorkerFails

Earning(h) == {b \in settled : HostOf[b] = h}

\* What the code reads is a sum over the bookings that count as earned, and a number.
LEMMA EarnedIs ==
    ASSUME TypeOK, EarnedFinite, NEW h
    PROVE  /\ earned(h) = SumFunctionOnSet(Amount, Earning(h))
           /\ IsFiniteSet(Earning(h)) /\ (\A b \in Earning(h) : Amount[b] \in Nat)
           /\ earned(h) \in Nat
<1>1. earned(h) = SumFunctionOnSet(Amount, Earning(h))
    BY DEF earned, Earning, SumFunctionOnSet, FoldFunctionOnSet, MapThenSumSet, MapThenFoldSet
<1>2. IsFiniteSet(Earning(h))
  <2>1. Earning(h) \subseteq settled
    BY DEF Earning
  <2> QED BY <2>1, FS_Subset DEF EarnedFinite
<1>3. \A b \in Earning(h) : Amount[b] \in Nat
    BY PayoutConstants DEF Earning, TypeOK
<1> QED BY <1>1, <1>2, <1>3, SumOfNat

\* Every step keeps the types.
LEMMA TypeOKStep ==
    ASSUME IInv, [Next]_vars
    PROVE  TypeOK'
<1> USE DEF IInv, TypeOK
<1>1. \A w \in Worker : job[w] # Idle => job[w] \in Job
    OBVIOUS
<1>2. ASSUME NEW b \in Booking, Settles(b) \/ Unearns(b) PROVE TypeOK'
    BY <1>2 DEF Settles, Unearns, payoutVars, workerVars
<1>3. ASSUME NEW h \in Host, Connect(h) PROVE TypeOK'
    BY <1>3 DEF Connect, payoutVars, workerVars
<1>4. ASSUME NEW x \in Withdrawal, NEW h \in Host, Lock(x, h) PROVE TypeOK'
    BY <1>4 DEF Lock, payoutVars, workerVars, Request
<1>5. ASSUME NEW x \in Withdrawal, NEW cents \in Cents, ReadBalance(x, cents) PROVE TypeOK'
  <2>1. withdrawal[x] \in Request
    BY <1>5 DEF ReadBalance, At
  <2>2. withdrawal[x].host \in Host /\ withdrawal[x].before \in SUBSET Booking
    BY <2>1 DEF Request
  <2>3. [pc |-> "inserting", host |-> withdrawal[x].host, before |-> withdrawal[x].before,
         amount |-> cents] \in Request
    BY <2>2 DEF Request
  <2> QED BY <1>5, <2>3 DEF ReadBalance, payoutVars, workerVars
<1>16. ASSUME NEW x \in Withdrawal, ReadEarned(x) PROVE TypeOK'
  <2>1. withdrawal[x] \in Request
    BY <1>16 DEF ReadEarned, At
  <2>2. withdrawal[x].host \in Host /\ withdrawal[x].before \in SUBSET Booking
    BY <2>1 DEF Request
  <2>3. earned(withdrawal[x].host) \in Nat
    BY EarnedIs
  <2>4. [pc |-> "read", host |-> withdrawal[x].host, before |-> withdrawal[x].before,
         earned |-> earned(withdrawal[x].host)] \in Request
    BY <2>2, <2>3 DEF Request
  <2> QED BY <1>16, <2>4 DEF ReadEarned, payoutVars, workerVars
<1>6. ASSUME NEW x \in Withdrawal, NEW p \in Payout, InsertPayout(x, p) PROVE TypeOK'
  <2>1. withdrawal[x].host \in Host /\ withdrawal[x].amount \in Cents
    BY <1>6 DEF InsertPayout, At, Request
  <2>2. [host |-> withdrawal[x].host, amount |-> withdrawal[x].amount,
         status |-> "requested", version |-> 1] \in Row
    BY <2>1 DEF Row, Status
  <2>3. <<"requested">> \in Seq(Status)
    BY DEF Status
  <2> QED BY <1>6, <2>2, <2>3 DEF InsertPayout
<1>7. ASSUME NEW p \in Payout, StripeDecides(p) PROVE TypeOK'
    BY <1>7 DEF StripeDecides, payoutVars, workerVars
<1>8. ASSUME NEW w \in Worker, NEW p \in inbox, Take(w, p) \/ TakeAgain(w, p) PROVE TypeOK'
  <2>1. [pc |-> "taken", id |-> p] \in Job
    BY DEF Job
  <2>2. faults' \in 0..MaxFaults
    BY <1>8, PayoutConstants DEF Take, TakeAgain, Fault
  <2>3. Deliver(w, p)
    BY <1>8 DEF Take, TakeAgain
  <2>4. tries' \in [Payout -> 0..MAX_DELIVER]
    BY <2>3, PayoutConstants DEF Deliver
  <2>5. job' \in [Worker -> Job \cup {Idle}]
    BY <2>1, <2>3 DEF Deliver
  <2> QED BY <2>2, <2>3, <2>4, <2>5 DEF Deliver, payoutVars
<1>9. ASSUME NEW w \in Worker, ReadPayout(w) PROVE TypeOK'
  <2>1. job[w] \in Job
    BY <1>1, <1>9 DEF ReadPayout, Working
  <2>2. job' \in [Worker -> Job \cup {Idle}]
    BY <1>9, <2>1, JobCases DEF ReadPayout, Step
  <2> QED BY <1>9, <2>2 DEF ReadPayout, payoutVars
<1>10. ASSUME NEW w \in Worker, SendTransfer(w) PROVE TypeOK'
  <2>1. job[w] \in Job
    BY <1>1, <1>10 DEF SendTransfer, Working
  <2>2. job' \in [Worker -> Job \cup {Idle}]
    BY <1>10, <2>1, JobCases DEF SendTransfer, Step
  <2> QED BY <1>10, <2>2 DEF SendTransfer, payoutVars
<1>11. ASSUME NEW w \in Worker, ReceiveAnswer(w) PROVE TypeOK'
    BY <1>1, <1>11, JobCases DEF ReceiveAnswer, Working, payoutVars
<1>12. ASSUME NEW w \in Worker, CommitPayout(w) PROVE TypeOK'
  <2>1. job[w] \in Job /\ payout[job[w].id] # Null
    BY <1>1, <1>12 DEF CommitPayout, Working, MessagesExist
  <2>2. job' \in [Worker -> Job \cup {Idle}]
    BY <1>12, <2>1, JobCases DEF CommitPayout, Step
  <2>3. CASE Applies(job[w].id)
    <3>1. payout' \in [Payout -> Row \cup {Null}]
      BY <1>12, <2>1, <2>3, CommitEffect, JobCases
    <3>2. job[w].to \in Status
      BY <1>12, <2>1, JobCases DEF CommitPayout, Working, Status
    <3>3. job[w].id \in Payout
      BY <2>1, JobCases
    <3>4. Append(outcomes[job[w].id], job[w].to) \in Seq(Status)
      BY <3>2, <3>3
    <3>5. outcomes' \in [Payout -> Seq(Status)]
      BY <1>12, <2>1, <2>3, <3>4, CommitEffect
    <3> QED BY <1>12, <2>2, <3>1, <3>5 DEF CommitPayout
  <2>4. CASE ~Applies(job[w].id)
    BY <1>12, <2>2, <2>4 DEF CommitPayout, payoutVars
  <2> QED BY <2>3, <2>4
<1>13. ASSUME NEW w \in Worker, Ack(w) PROVE TypeOK'
    BY <1>13 DEF Ack, payoutVars
<1>14. ASSUME NEW w \in Worker, WorkerFails(w) PROVE TypeOK'
    BY <1>14, PayoutConstants DEF WorkerFails, Fault, payoutVars
<1>15. CASE UNCHANGED vars
    BY <1>15 DEF vars, payoutVars, workerVars
<1> QED
    BY <1>2, <1>3, <1>4, <1>5, <1>6, <1>7, <1>8, <1>9, <1>10, <1>11, <1>12, <1>13, <1>14, <1>15,
       <1>16
    DEF Next, WorkerStep


\* A payout, once committed, stays; and so do the ids of what is under way.
LEMMA MessagesExistStep ==
    ASSUME IInv, [Next]_vars
    PROVE  MessagesExist'
<1> USE DEF IInv, TypeOK, MessagesExist
<1>1. \A w \in Worker : job[w] # Idle => job[w] \in Job /\ job[w].id \in Payout
    BY JobCases
<1>2. \A p \in Payout : payout[p] # Null => payout'[p] # Null
  <2>1. ASSUME NEW x \in Withdrawal, NEW p \in Payout, InsertPayout(x, p)
        PROVE  \A q \in Payout : payout[q] # Null => payout'[q] # Null
    BY <2>1 DEF InsertPayout
  <2>2. ASSUME NEW w \in Worker, CommitPayout(w)
        PROVE  \A q \in Payout : payout[q] # Null => payout'[q] # Null
    <3>1. job[w] \in Job /\ payout[job[w].id] # Null
      BY <1>1, <2>2 DEF CommitPayout, Working
    <3>2. CASE Applies(job[w].id)
      BY <2>2, <3>1, <3>2, CommitEffect, PayoutNull
    <3>3. CASE ~Applies(job[w].id)
      BY <2>2, <3>3 DEF CommitPayout, payoutVars
    <3> QED BY <3>2, <3>3
  <2>3. CASE UNCHANGED payout
    BY <2>3
  <2> QED
    BY <2>1, <2>2, <2>3
    DEF Next, WorkerStep, vars, payoutVars, Settles, Unearns, Connect, Lock, ReadEarned, ReadBalance,
        StripeDecides, Take, TakeAgain, Deliver, ReadPayout, SendTransfer, ReceiveAnswer, Ack,
        WorkerFails
<1>3. \A p \in inbox' : payout'[p] # Null
  <2>1. ASSUME NEW x \in Withdrawal, NEW p \in Payout, InsertPayout(x, p)
        PROVE  \A q \in inbox' : payout'[q] # Null
    <3>1. payout'[p] # Null
      <4>1. withdrawal[x].host \in Host /\ withdrawal[x].amount \in Cents
        BY <2>1 DEF InsertPayout, At, Request
      <4> QED BY <2>1, <4>1, PayoutNull DEF InsertPayout, Row, Status
    <3> QED BY <1>2, <2>1, <3>1 DEF InsertPayout
  <2>2. CASE inbox' \subseteq inbox
    BY <1>2, <2>2
  <2> QED
    BY <2>1, <2>2
    DEF Next, WorkerStep, vars, workerVars, Settles, Unearns, Connect, Lock, ReadEarned, ReadBalance,
        StripeDecides, Take, TakeAgain, Deliver, ReadPayout, SendTransfer, ReceiveAnswer, CommitPayout,
        Ack, WorkerFails
<1>4. \A w \in Worker : job'[w] # Idle => payout'[job'[w].id] # Null
  <2>1. ASSUME NEW w \in Worker, NEW p \in inbox, job' = [job EXCEPT ![w] = [pc |-> "taken", id |-> p]]
        PROVE  \A v \in Worker : job'[v] # Idle => payout'[job'[v].id] # Null
    BY <1>1, <1>2, <2>1
  <2>2. ASSUME NEW w \in Worker, job[w] # Idle,
               job'[w] = Idle \/ job'[w].id = job[w].id,
               \A v \in Worker \ {w} : job'[v] = job[v]
        PROVE  \A v \in Worker : job'[v] # Idle => payout'[job'[v].id] # Null
    BY <1>1, <1>2, <2>2
  <2>3. CASE UNCHANGED job
    BY <1>1, <1>2, <2>3
  <2>4. ASSUME NEW w \in Worker,
               ReadPayout(w) \/ SendTransfer(w) \/ ReceiveAnswer(w) \/ CommitPayout(w) \/ Ack(w)
                 \/ WorkerFails(w)
        PROVE  /\ job[w] # Idle
               /\ job'[w] = Idle \/ job'[w].id = job[w].id
               /\ \A v \in Worker \ {w} : job'[v] = job[v]
    BY <2>4 DEF ReadPayout, SendTransfer, ReceiveAnswer, CommitPayout, Ack, WorkerFails, Working, Step
  <2> QED
    BY <2>1, <2>2, <2>3, <2>4
    DEF Next, WorkerStep, vars, workerVars, Settles, Unearns, Connect, Lock, ReadEarned, ReadBalance,
        InsertPayout, StripeDecides, Take, TakeAgain, Deliver
<1> QED BY <1>3, <1>4

\* One transition per payout, and one event per version.
LEMMA OneOutcomeStep ==
    ASSUME IInv, [Next]_vars
    PROVE  VersionTells' /\ OneOutcome'
<1> USE DEF IInv, TypeOK, VersionTells, OneOutcome
<1>1. ASSUME NEW x \in Withdrawal, NEW p \in Payout, InsertPayout(x, p)
      PROVE  VersionTells' /\ OneOutcome'
    BY <1>1 DEF InsertPayout
<1>2. ASSUME NEW w \in Worker, CommitPayout(w)
      PROVE  VersionTells' /\ OneOutcome'
  <2>1. job[w] \in Job /\ job[w].id \in Payout /\ payout[job[w].id] # Null
    BY <1>2, JobCases DEF CommitPayout, Working, MessagesExist
  <2>2. CASE Applies(job[w].id)
    <3> DEFINE p == job[w].id
    <3>1. job[w].to \in {"paid", "failed"}
      BY <1>2, <2>1, JobCases DEF CommitPayout, Working
    <3>2. /\ payout'[p].status = job[w].to /\ payout'[p].version = 2
          /\ payout[p].version = 1 /\ outcomes'[p] = Append(outcomes[p], job[w].to)
          /\ \A q \in Payout \ {p} : payout'[q] = payout[q] /\ outcomes'[q] = outcomes[q]
      BY <1>2, <2>1, <2>2, CommitEffect
    <3>3. Len(outcomes[p]) = 1 /\ outcomes[p] \in Seq(Status)
      BY <2>1, <3>2
    <3>4. Len(outcomes'[p]) = 2 /\ outcomes'[p][2] = job[w].to
      BY <3>1, <3>2, <3>3, SecondEvent DEF Status
    <3> HIDE DEF p
    <3>5. ASSUME NEW q \in Payout, payout'[q] # Null, q # p
          PROVE  /\ payout'[q].version = 1 <=> payout'[q].status = "requested"
                 /\ Len(outcomes'[q]) = payout'[q].version
                 /\ outcomes'[q][payout'[q].version] = payout'[q].status
      BY <3>2, <3>5
    <3> QED BY <3>1, <3>2, <3>4, <3>5
  <2>3. CASE ~Applies(job[w].id)
    BY <1>2, <2>3 DEF CommitPayout, payoutVars
  <2> QED BY <2>2, <2>3
<1>3. CASE UNCHANGED payoutVars
    BY <1>3 DEF payoutVars
<1> QED
    BY <1>1, <1>2, <1>3
    DEF Next, WorkerStep, vars, payoutVars, Settles, Unearns, Connect, Lock, ReadEarned, ReadBalance,
        StripeDecides, Take, TakeAgain, Deliver, ReadPayout, SendTransfer, ReceiveAnswer, Ack,
        WorkerFails

\* IInv is inductive.
LEMMA NextIInv == IInv /\ [Next]_vars => IInv'
BY TypeOKStep, EarnedFiniteStep, MessagesExistStep, OneOutcomeStep DEF IInv

\* Every state is well typed, every job has its payout, and the events are the row's.
THEOREM Invariance == Spec => []IInv
BY InitIInv, NextIInv, PTL DEF Spec

\* The rows, requests and jobs stay well typed.
THEOREM TypeCorrectness == Spec => []TypeOK
<1>1. IInv => TypeOK
    BY DEF IInv
<1> QED BY <1>1, Invariance, PTL

\* However often PayoutRequested is delivered, and to however many replicas, one outcome is
\* published: transition's guard.
THEOREM OneOutcomeHolds == Spec => []OneOutcome
<1>1. IInv => OneOutcome
    BY DEF IInv
<1> QED BY <1>1, Invariance, PTL

-----------------------------------------------------------------------------
(* What is recorded is what Stripe did *)

MoneyInv == IInv /\ AnswersTrue /\ OutcomeMatchesTransfer

\* What Stripe decided about a key it has decided for good.
LEMMA TransferFinal ==
    ASSUME TypeOK, [Next]_vars, NEW p \in Payout, transfer[p] \in {"made", "refused"}
    PROVE  transfer'[p] = transfer[p]
BY DEF TypeOK, Next, WorkerStep, vars, Settles, Unearns, Connect, Lock, ReadEarned, ReadBalance,
       InsertPayout, Take, TakeAgain, Deliver, ReadPayout, SendTransfer, StripeDecides, ReceiveAnswer,
       CommitPayout, Ack, WorkerFails

\* Only an answer that Stripe gave makes a job ready to commit.
LEMMA AnswersTrueStep ==
    ASSUME MoneyInv, ~KeyConflicts, [Next]_vars
    PROVE  AnswersTrue'
<1> USE DEF MoneyInv, IInv, TypeOK, AnswersTrue
<1>1. SUFFICES ASSUME NEW v \in Worker, job'[v] # Idle, job'[v].pc = "transferred"
               PROVE  transfer'[job'[v].id] = IF job'[v].to = "paid" THEN "made" ELSE "refused"
    OBVIOUS
<1>2. CASE job'[v] = job[v]
  <2>1. job[v] \in Job /\ job[v].id \in Payout
    BY <1>1, <1>2, JobCases
  <2>2. transfer[job[v].id] = IF job[v].to = "paid" THEN "made" ELSE "refused"
    BY <1>1, <1>2
  <2> QED BY <1>2, <2>1, <2>2, TransferFinal
<1>3. ASSUME NEW w \in Worker, ReceiveAnswer(w)
      PROVE  transfer'[job'[v].id] = IF job'[v].to = "paid" THEN "made" ELSE "refused"
  <2>1. CASE v = w
    BY <1>3, <2>1 DEF ReceiveAnswer
  <2>2. CASE v # w
    BY <1>2, <1>3, <2>2 DEF ReceiveAnswer
  <2> QED BY <2>1, <2>2
<1>4. ASSUME NEW w \in Worker,
             \/ \E p \in inbox : Take(w, p) \/ TakeAgain(w, p)
             \/ ReadPayout(w) \/ SendTransfer(w) \/ CommitPayout(w) \/ Ack(w) \/ WorkerFails(w)
      PROVE  job'[v] = job[v]
  <2>1. \A u \in Worker \ {w} : job'[u] = job[u]
    BY <1>4 DEF Take, TakeAgain, Deliver, ReadPayout, SendTransfer, CommitPayout, Ack, WorkerFails, Step
  <2>2. job'[w] = Idle \/ job'[w].pc # "transferred"
    BY <1>4
    DEF Take, TakeAgain, Deliver, ReadPayout, SendTransfer, CommitPayout, Ack, WorkerFails, Step,
        Working
  <2> QED BY <1>1, <2>1, <2>2
<1>5. CASE UNCHANGED job
    BY <1>2, <1>5
<1> QED
    BY <1>2, <1>3, <1>4, <1>5
    DEF Next, WorkerStep, vars, workerVars, Settles, Unearns, Connect, Lock, ReadEarned, ReadBalance,
        InsertPayout, StripeDecides

\* A row leaves `requested` with the answer of the worker that commits it.
LEMMA OutcomeStep ==
    ASSUME MoneyInv, [Next]_vars
    PROVE  OutcomeMatchesTransfer'
<1> USE DEF MoneyInv, IInv, TypeOK, OutcomeMatchesTransfer
<1>1. SUFFICES ASSUME NEW p \in Payout, payout'[p] # Null
               PROVE  /\ payout'[p].status = "paid" => transfer'[p] = "made"
                      /\ payout'[p].status = "failed" => transfer'[p] = "refused"
    OBVIOUS
<1>2. CASE payout'[p] = payout[p]
    BY <1>1, <1>2, TransferFinal
<1>3. CASE payout'[p].status = "requested"
    BY <1>3
<1>4. ASSUME NEW w \in Worker, CommitPayout(w), p = job[w].id, Applies(p)
      PROVE  /\ payout'[p].status = "paid" => transfer'[p] = "made"
             /\ payout'[p].status = "failed" => transfer'[p] = "refused"
  <2>1. job[w] \in Job /\ job[w] # Idle /\ job[w].pc = "transferred" /\ payout[job[w].id] # Null
    BY <1>4 DEF CommitPayout, Working, MessagesExist
  <2>2. payout'[p].status = job[w].to
    BY <1>4, <2>1, CommitEffect
  <2>3. transfer'[p] = IF job[w].to = "paid" THEN "made" ELSE "refused"
    BY <1>4, <2>1 DEF AnswersTrue, CommitPayout
  <2>4. job[w].to \in {"paid", "failed"}
    BY <2>1, JobCases
  <2> QED BY <2>2, <2>3, <2>4
<1>5. ASSUME NEW w \in Worker, CommitPayout(w), ~(p = job[w].id /\ Applies(p))
      PROVE  payout'[p] = payout[p]
    BY <1>5 DEF CommitPayout, payoutVars
<1>6. ASSUME NEW x \in Withdrawal, NEW q \in Payout, InsertPayout(x, q)
      PROVE  payout'[p] = payout[p] \/ payout'[p].status = "requested"
    BY <1>6 DEF InsertPayout
<1>7. CASE UNCHANGED payout
    BY <1>2, <1>7
<1> QED
    BY <1>2, <1>3, <1>4, <1>5, <1>6, <1>7
    DEF Next, WorkerStep, vars, payoutVars, Settles, Unearns, Connect, Lock, ReadEarned, ReadBalance,
        StripeDecides, Take, TakeAgain, Deliver, ReadPayout, SendTransfer, ReceiveAnswer, Ack,
        WorkerFails

(***************************************************************************)
(* As long as Stripe lets the second request of a key wait for the first,  *)
(* a payout is recorded as paid only if the money was sent, and as failed  *)
(* only if it never will be, whatever crashes, times out or races          *)
(* (pay_out, Stripe::transfer). The run payout_conflict shows the          *)
(* hypothesis is needed.                                                   *)
(***************************************************************************)
THEOREM OutcomeMatchesTransferHolds ==
    ASSUME ~KeyConflicts
    PROVE  Spec => []OutcomeMatchesTransfer
<1>1. Init => MoneyInv
  <2> SUFFICES ASSUME Init
               PROVE  AnswersTrue /\ OutcomeMatchesTransfer
    BY InitIInv DEF MoneyInv
  <2> QED BY DEF Init, AnswersTrue, OutcomeMatchesTransfer, Idle
<1>2. MoneyInv /\ [Next]_vars => MoneyInv'
  <2> SUFFICES ASSUME MoneyInv, [Next]_vars
               PROVE  MoneyInv'
    OBVIOUS
  <2>1. IInv'
    BY NextIInv DEF MoneyInv
  <2>2. AnswersTrue' /\ OutcomeMatchesTransfer'
    BY AnswersTrueStep, OutcomeStep
  <2> QED BY <2>1, <2>2 DEF MoneyInv
<1>3. MoneyInv => OutcomeMatchesTransfer
    BY DEF MoneyInv
<1> QED BY <1>1, <1>2, <1>3, PTL DEF Spec

-----------------------------------------------------------------------------
(* Sums of amounts *)

\* What the rows q add up to over S.
SumAmounts(q, S) == MapThenSumSet(LAMBDA p : q[p].amount, S)

\* SumAmounts is such a sum.
LEMMA AmountsTotal ==
    ASSUME NEW S, IsFiniteSet(S), NEW q, NEW f, \A p \in S : f[p] = q[p].amount
    PROVE  SumAmounts(q, S) = SumFunctionOnSet(f, S)
<1> DEFINE Is(i) == i = [s \in SUBSET S |->
                            IF s = {} THEN 0
                            ELSE q[CHOOSE x \in s : TRUE].amount + i[s \ {CHOOSE x \in s : TRUE}]]
           j == CHOOSE i : Is(i)
<1>1. SumAmounts(q, S) = j[S]
    BY DEF SumAmounts, MapThenSumSet, MapThenFoldSet
<1>2. ASSUME NEW i
      PROVE  Is(i) <=> Adds(i, f, S)
  <2>1. \A s \in SUBSET S : s # {} => f[Pick(s)] = q[Pick(s)].amount
    BY Picked
  <2> QED BY <2>1 DEF Adds, Pick
<1>3. Is(j)
  <2>1. \E i : Is(i)
    BY <1>2, AddsExists
  <2> HIDE DEF Is
  <2> QED BY <2>1
<1>4. Adds(j, f, S)
    BY <1>2, <1>3
<1> DEFINE k == CHOOSE i : Adds(i, f, S)
<1>5. Adds(k, f, S) /\ SumFunctionOnSet(f, S) = k[S]
    BY AddsExists, SumIs
<1> HIDE DEF j, k
<1>6. j[S] = k[S]
    BY <1>4, <1>5, AddsUnique
<1> QED BY <1>1, <1>5, <1>6

\* A balance with one row more is larger by the row.
LEMMA AmountsSplit ==
    ASSUME NEW S, IsFiniteSet(S), NEW q, \A p \in S : q[p].amount \in Nat
    PROVE  /\ SumAmounts(q, S) \in Nat
           /\ S = {} => SumAmounts(q, S) = 0
           /\ \A x \in S : SumAmounts(q, S) = q[x].amount + SumAmounts(q, S \ {x})
<1>1. PICK f : f = [p \in S |-> q[p].amount]
    OBVIOUS
<1>2. \A p \in S : f[p] = q[p].amount /\ f[p] \in Nat
    BY <1>1
<1>3. SumAmounts(q, S) = SumFunctionOnSet(f, S)
    BY <1>2, AmountsTotal
<1>4. ASSUME NEW x \in S
      PROVE  SumAmounts(q, S \ {x}) = SumFunctionOnSet(f, S \ {x})
  <2>1. IsFiniteSet(S \ {x})
    BY FS_RemoveElement
  <2> QED BY <1>2, <2>1, AmountsTotal
<1>5. /\ SumFunctionOnSet(f, S) \in Nat /\ (S = {} => SumFunctionOnSet(f, S) = 0)
      /\ \A x \in S : SumFunctionOnSet(f, S) = f[x] + SumFunctionOnSet(f, S \ {x})
    BY <1>2, SumOfNat
<1> QED BY <1>2, <1>3, <1>4, <1>5

\* Only the amounts matter to it.
LEMMA AmountsSame ==
    ASSUME NEW S, IsFiniteSet(S), NEW q, NEW r, \A p \in S : q[p].amount = r[p].amount
    PROVE  SumAmounts(q, S) = SumAmounts(r, S)
<1>1. PICK f : f = [p \in S |-> q[p].amount]
    OBVIOUS
<1>2. \A p \in S : f[p] = q[p].amount /\ f[p] = r[p].amount
    BY <1>1
<1>3. SumAmounts(q, S) = SumFunctionOnSet(f, S) /\ SumAmounts(r, S) = SumFunctionOnSet(f, S)
    BY <1>2, AmountsTotal
<1> QED BY <1>3

-----------------------------------------------------------------------------
(* The balance *)

Counted(h) == {p \in PayoutsOf(h) : payout[p].status \in COUNTED}
Kept(h, before) == {b \in settled \cup (unearned \ before) : HostOf[b] = h}

\* The sums of the code and of the property in these terms, before and after a step.
LEMMA TotalForIs ==
    ASSUME NEW h
    PROVE  /\ total_for(h) = SumAmounts(payout, Counted(h))
           /\ total_for(h)' = SumAmounts(payout', Counted(h)')
BY DEF total_for, Counted, SumAmounts, MapThenSumSet, MapThenFoldSet

LEMMA KeptIs ==
    ASSUME NEW h, NEW before
    PROVE  /\ EarnedSince(h, before) = SumFunctionOnSet(Amount, Kept(h, before))
           /\ EarnedSince(h, before)' = SumFunctionOnSet(Amount, Kept(h, before)')
BY DEF EarnedSince, Kept, SumFunctionOnSet, FoldFunctionOnSet, MapThenSumSet, MapThenFoldSet

\* Only finitely many payouts have been committed.
FiniteTables == IsFiniteSet({p \in Payout : payout[p] # Null})

\* The advisory lock: at most one withdrawal of a host is in its transaction.
HostLockExclusive ==
    \A x, y \in Withdrawal :
        withdrawal[x] # Idle /\ withdrawal[y] # Idle /\ withdrawal[x].host = withdrawal[y].host => x = y

\* A booking that was taken back is not earned again, and a request's history is what was
\* taken back before it.
HistoryTrue ==
    /\ settled \cap unearned = {}
    /\ \A x \in Withdrawal : withdrawal[x] # Idle => withdrawal[x].before \subseteq unearned

\* What a request has read was earned, but for what is taken back while it holds the lock.
ReadCovered ==
    \A x \in Withdrawal, h \in Host, before \in SUBSET Booking :
        At(x, "read") /\ withdrawal[x].host = h /\ withdrawal[x].before = before =>
            withdrawal[x].earned <= EarnedSince(h, before)

\* The figure checked under the lock is still covered when it is inserted.
ReservedCovered ==
    \A x \in Withdrawal, h \in Host, before \in SUBSET Booking :
        At(x, "inserting") /\ withdrawal[x].host = h /\ withdrawal[x].before = before =>
            total_for(h) + withdrawal[x].amount <= EarnedSince(h, before)

Covered == \A h \in Host : total_for(h) <= EarnedSince(h, {})

BalanceInv ==
    IInv /\ FiniteTables /\ HostLockExclusive /\ HistoryTrue /\ ReadCovered /\ ReservedCovered /\ Covered

\* The record sets of Request, told apart by pc.
LEMMA RequestCases ==
    ASSUME TypeOK, NEW x \in Withdrawal, withdrawal[x] # Idle
    PROVE  /\ withdrawal[x].host \in Host /\ withdrawal[x].before \in SUBSET Booking
           /\ withdrawal[x].pc = "read" => withdrawal[x].earned \in Nat
           /\ withdrawal[x].pc = "inserting" => withdrawal[x].amount \in Nat
<1>1. withdrawal[x] \in Request
    BY DEF TypeOK
<1>2. \A n \in Cents : n \in Nat
    BY DEF Cents
<1> QED BY <1>1, <1>2 DEF Request

\* The bookings that are summed are finitely many, and what is left of them as bookings are
\* forgiven only gets less.
LEMMA KeptFinite ==
    ASSUME TypeOK, EarnedFinite, NEW h, NEW before
    PROVE  /\ IsFiniteSet(Kept(h, before)) /\ \A b \in Kept(h, before) : Amount[b] \in Nat
           /\ EarnedSince(h, before) \in Nat
<1>1. IsFiniteSet(settled \cup unearned)
    BY FS_Union DEF EarnedFinite
<1>2. Kept(h, before) \subseteq settled \cup unearned
    BY DEF Kept
<1>3. IsFiniteSet(Kept(h, before))
    BY <1>1, <1>2, FS_Subset
<1>4. \A b \in Kept(h, before) : Amount[b] \in Nat
    BY PayoutConstants DEF Kept, TypeOK
<1> QED BY <1>3, <1>4, KeptIs, SumOfNat

\* What is earned now is part of it, and it is part of what was ever earned.
LEMMA EarnedWithin ==
    ASSUME TypeOK, EarnedFinite, NEW h, NEW before
    PROVE  /\ earned(h) <= EarnedSince(h, before)
           /\ EarnedSince(h, before) <= EarnedSince(h, {})
<1>1. Earning(h) \subseteq Kept(h, before) /\ Kept(h, before) \subseteq Kept(h, {})
    BY DEF Earning, Kept
<1>2. /\ IsFiniteSet(Kept(h, before)) /\ (\A b \in Kept(h, before) : Amount[b] \in Nat)
      /\ IsFiniteSet(Kept(h, {})) /\ (\A b \in Kept(h, {}) : Amount[b] \in Nat)
    BY KeptFinite
<1>3. SumFunctionOnSet(Amount, Earning(h)) <= SumFunctionOnSet(Amount, Kept(h, before))
    BY <1>1, <1>2, SumOfPart
<1>4. SumFunctionOnSet(Amount, Kept(h, before)) <= SumFunctionOnSet(Amount, Kept(h, {}))
    BY <1>1, <1>2, SumOfPart
<1> QED BY <1>3, <1>4, EarnedIs, KeptIs

\* A booking leaves the earned ones only for the ones taken back: with those taken back since
\* some time, what a host has earned never shrinks.
LEMMA EarnedStep ==
    ASSUME TypeOK, EarnedFinite, TypeOK', EarnedFinite', [Next]_vars,
           NEW h, NEW before, before \cap settled = {}
    PROVE  /\ EarnedSince(h, before) \in Nat /\ EarnedSince(h, before)' \in Nat
           /\ EarnedSince(h, before) <= EarnedSince(h, before)'
<1>1. Kept(h, before) \subseteq Kept(h, before)'
  <2>1. ASSUME NEW b \in Booking, Settles(b) PROVE Kept(h, before) \subseteq Kept(h, before)'
    BY <2>1 DEF Settles, Kept
  <2>2. ASSUME NEW b \in Booking, Unearns(b) PROVE Kept(h, before) \subseteq Kept(h, before)'
    BY <2>2 DEF Unearns, Kept
  <2>3. CASE UNCHANGED <<settled, unearned>>
    BY <2>3 DEF Kept
  <2> QED
    BY <2>1, <2>2, <2>3
    DEF Next, WorkerStep, vars, Connect, Lock, ReadEarned, ReadBalance, InsertPayout, StripeDecides,
        Take, TakeAgain, Deliver, ReadPayout, SendTransfer, ReceiveAnswer, CommitPayout, Ack, WorkerFails
<1>2. PICK S : S = Kept(h, before)'
    OBVIOUS
<1>3. IsFiniteSet(S) /\ \A b \in S : Amount[b] \in Nat
  <2>1. IsFiniteSet(settled' \cup unearned')
    BY FS_Union DEF EarnedFinite
  <2>2. S \subseteq settled' \cup unearned' /\ S \subseteq Booking
    BY <1>2 DEF Kept, TypeOK
  <2>3. IsFiniteSet(S)
    BY <2>1, <2>2, FS_Subset
  <2> QED BY <2>2, <2>3, PayoutConstants
<1>4. SumFunctionOnSet(Amount, Kept(h, before)) <= SumFunctionOnSet(Amount, S)
    BY <1>1, <1>2, <1>3, SumOfPart
<1>5. SumFunctionOnSet(Amount, S) \in Nat /\ EarnedSince(h, before) \in Nat
    BY <1>3, SumOfNat, KeptFinite
<1> QED BY <1>2, <1>4, <1>5, KeptIs

\* It moves with the bookings and with nothing else.
LEMMA EarnedStays ==
    ASSUME UNCHANGED <<settled, unearned>>, NEW h, NEW before
    PROVE  EarnedSince(h, before)' = EarnedSince(h, before)
<1>1. Kept(h, before)' = Kept(h, before)
    BY DEF Kept
<1> QED BY <1>1, KeptIs

\* The other side of the balance is a number too.
LEMMA SumsAreNat ==
    ASSUME TypeOK, FiniteTables, NEW h
    PROVE  /\ IsFiniteSet(Counted(h))
           /\ \A p \in Counted(h) : payout[p].amount \in Nat
           /\ total_for(h) \in Nat
<1>1. IsFiniteSet(Counted(h))
  <2>1. Counted(h) \subseteq {p \in Payout : payout[p] # Null}
    BY DEF Counted, PayoutsOf
  <2> QED BY <2>1, FS_Subset DEF FiniteTables
<1>2. \A p \in Counted(h) : payout[p].amount \in Nat
  <2>1. \A n \in Cents : n \in Nat
    BY DEF Cents
  <2> QED BY <2>1 DEF Counted, PayoutsOf, TypeOK, Row
<1>3. total_for(h) \in Nat
    BY <1>1, <1>2, TotalForIs, AmountsSplit
<1> QED BY <1>1, <1>2, <1>3

\* A transition moves a row's status and version and nothing else.
LEMMA CommitKeeps ==
    ASSUME IInv, NEW w \in Worker, CommitPayout(w), NEW q \in Payout, payout[q] # Null
    PROVE  /\ payout'[q] # Null
           /\ payout'[q].host = payout[q].host /\ payout'[q].amount = payout[q].amount
           /\ payout'[q].status \in COUNTED => payout[q].status \in COUNTED
<1>1. job[w] \in Job /\ job[w].id \in Payout /\ payout[job[w].id] # Null
    BY JobCases DEF IInv, TypeOK, CommitPayout, Working, MessagesExist
<1>2. CASE ~Applies(job[w].id)
    BY <1>2 DEF CommitPayout, payoutVars
<1>3. CASE Applies(job[w].id)
  <2>0. DOMAIN payout = Payout
    BY DEF IInv, TypeOK
  <2>1. /\ payout'[job[w].id] \in Row
        /\ payout'[job[w].id].host = payout[job[w].id].host
        /\ payout'[job[w].id].amount = payout[job[w].id].amount
        /\ payout' = [payout EXCEPT ![job[w].id] = payout'[job[w].id]]
    BY <1>1, <1>3, CommitEffect DEF IInv
  <2>2. payout[job[w].id].status \in COUNTED
    BY <1>3 DEF Applies, COUNTED
  <2>3. CASE q = job[w].id
    BY ONLY <2>1, <2>2, <2>3, PayoutNull
  <2>4. CASE q # job[w].id
    <3>1. payout'[q] = payout[q]
      BY ONLY <2>1, <2>4, <2>0, q \in Payout
    <3> QED BY <3>1
  <2> QED BY <2>3, <2>4
<1> QED BY <1>2, <1>3

\* No row appears by a transition.
LEMMA CommitAddsNone ==
    ASSUME IInv, NEW w \in Worker, CommitPayout(w), NEW q \in Payout, payout[q] = Null
    PROVE  payout'[q] = Null
<1>1. job[w] \in Job /\ job[w].id \in Payout /\ payout[job[w].id] # Null
    BY JobCases DEF IInv, TypeOK, CommitPayout, Working, MessagesExist
<1> QED BY <1>1 DEF CommitPayout, payoutVars, IInv, TypeOK

\* A transition to failed hands the money back; one to paid changes no balance.
LEMMA CommitWithdrawn ==
    ASSUME IInv, FiniteTables, NEW w \in Worker, CommitPayout(w), NEW h
    PROVE  total_for(h)' \in Nat /\ total_for(h)' <= total_for(h)
<1> DEFINE p == job[w].id
<1>1. p \in Payout /\ payout[p] # Null /\ \A q \in Payout \ {p} : payout'[q] = payout[q]
    BY JobCases DEF IInv, TypeOK, CommitPayout, Working, MessagesExist, payoutVars
<1>2. \A q \in Payout : payout'[q] # Null <=> payout[q] # Null
    BY CommitKeeps, CommitAddsNone
<1>3. Counted(h)' \subseteq Counted(h)
  <2>1. ASSUME NEW q \in Payout, payout'[q] # Null, payout'[q].host = h, payout'[q].status \in COUNTED
        PROVE  payout[q] # Null /\ payout[q].host = h /\ payout[q].status \in COUNTED
    BY <1>2, <2>1, CommitKeeps
  <2> QED BY <2>1 DEF Counted, PayoutsOf
<1>4. Counted(h) \ {p} \subseteq Counted(h)'
    BY <1>1 DEF Counted, PayoutsOf
<1> HIDE DEF p
<1>5. PICK S : S = Counted(h)
    OBVIOUS
<1>6. PICK T : T = Counted(h)'
    OBVIOUS
<1>7. IsFiniteSet(S) /\ (\A q \in S : payout[q].amount \in Nat) /\ total_for(h) \in Nat
    BY <1>5, SumsAreNat DEF IInv
<1>8. \A q \in S : payout'[q].amount = payout[q].amount
    BY <1>5, CommitKeeps DEF Counted, PayoutsOf
<1>9. T = S \/ (p \in S /\ T = S \ {p})
    BY <1>3, <1>4, <1>5, <1>6
<1>10. IsFiniteSet(T) /\ \A q \in T : payout'[q].amount = payout[q].amount
    BY <1>7, <1>8, <1>9, FS_RemoveElement
<1>11. total_for(h)' = SumAmounts(payout, T)
    BY <1>6, <1>10, AmountsSame, TotalForIs
<1>12. total_for(h) = SumAmounts(payout, S)
    BY <1>5, TotalForIs
<1>13. CASE T = S
    BY <1>7, <1>11, <1>12, <1>13
<1>14. CASE p \in S /\ T = S \ {p}
  <2>1. SumAmounts(payout, S) = payout[p].amount + SumAmounts(payout, T) /\ payout[p].amount \in Nat
    BY <1>7, <1>14, AmountsSplit
  <2>2. SumAmounts(payout, T) \in Nat
    BY <1>7, <1>9, <1>10, AmountsSplit
  <2> QED BY <1>11, <1>12, <2>1, <2>2
<1> QED BY <1>9, <1>13, <1>14

\* An insertion withdraws the figure that was checked, from its own host's balance.
LEMMA InsertWithdrawn ==
    ASSUME IInv, FiniteTables, NEW x \in Withdrawal, NEW p \in Payout, InsertPayout(x, p), NEW h
    PROVE  /\ total_for(h)' \in Nat
           /\ total_for(h)' = IF withdrawal[x].host = h THEN total_for(h) + withdrawal[x].amount
                              ELSE total_for(h)
<1>1. withdrawal[x].host \in Host /\ withdrawal[x].amount \in Nat
    BY RequestCases DEF InsertPayout, At, IInv
<1>2. withdrawal[x].amount \in Cents
    BY DEF IInv, TypeOK, Request, InsertPayout, At
<1>3. /\ payout'[p].host = withdrawal[x].host /\ payout'[p].amount = withdrawal[x].amount
      /\ payout'[p].status = "requested" /\ payout'[p] \in Row
      /\ \A q \in Payout \ {p} : payout'[q] = payout[q]
      /\ payout[p] = Null
    BY <1>1, <1>2 DEF InsertPayout, IInv, TypeOK, Row, Status
<1>4. payout'[p] # Null
    BY <1>3, PayoutNull
<1>5. PICK S : S = Counted(h)
    OBVIOUS
<1>6. PICK T : T = Counted(h)'
    OBVIOUS
<1>7. IsFiniteSet(S) /\ (\A q \in S : payout[q].amount \in Nat) /\ total_for(h) \in Nat
    BY <1>5, SumsAreNat DEF IInv
<1>8. p \notin S /\ (\A q \in S : payout'[q] = payout[q])
    BY <1>3, <1>5 DEF Counted, PayoutsOf
<1>9. SumAmounts(payout', S) = total_for(h)
    BY <1>5, <1>7, <1>8, AmountsSame, TotalForIs
<1>10. total_for(h)' = SumAmounts(payout', T)
    BY <1>6, TotalForIs
<1>11. CASE withdrawal[x].host = h
  <2>1. T = S \cup {p}
    BY <1>3, <1>4, <1>5, <1>6, <1>11 DEF Counted, PayoutsOf, COUNTED
  <2>2. IsFiniteSet(T) /\ p \in T /\ T \ {p} = S
    BY <1>7, <1>8, <2>1, FS_AddElement
  <2>3. \A q \in T : payout'[q].amount \in Nat
    BY <1>1, <1>3, <1>7, <1>8, <2>1
  <2>4. SumAmounts(payout', T) = payout'[p].amount + SumAmounts(payout', S)
    BY <2>2, <2>3, AmountsSplit
  <2> QED BY <1>1, <1>3, <1>7, <1>9, <1>10, <1>11, <2>4
<1>12. CASE withdrawal[x].host # h
  <2>1. T = S
    BY <1>3, <1>5, <1>6, <1>12 DEF Counted, PayoutsOf
  <2> QED BY <1>7, <1>9, <1>10, <1>12, <2>1
<1> QED BY <1>11, <1>12

\* A balance moves with the rows and with nothing else.
LEMMA WithdrawnStays ==
    ASSUME TypeOK, FiniteTables, UNCHANGED payout, NEW h
    PROVE  total_for(h)' = total_for(h) /\ total_for(h) \in Nat
<1>1. Counted(h)' = Counted(h)
    BY DEF Counted, PayoutsOf
<1> QED BY <1>1, TotalForIs, SumsAreNat

-----------------------------------------------------------------------------
(* Nothing is withdrawn twice *)

\* Nothing is earned and nothing withdrawn.
LEMMA InitBalance == Init => BalanceInv
<1> SUFFICES ASSUME Init
             PROVE  FiniteTables /\ HostLockExclusive /\ HistoryTrue /\ ReadCovered /\ ReservedCovered
                      /\ Covered
    BY InitIInv DEF BalanceInv
<1>1. FiniteTables
  <2>1. {p \in Payout : payout[p] # Null} = {}
    BY DEF Init
  <2> QED BY <2>1, FS_EmptySet DEF FiniteTables
<1>2. HostLockExclusive /\ HistoryTrue /\ ReadCovered /\ ReservedCovered
    BY DEF Init, HostLockExclusive, HistoryTrue, ReadCovered, ReservedCovered, At
<1>3. ASSUME NEW h \in Host
      PROVE  total_for(h) <= EarnedSince(h, {})
  <2>1. Counted(h) = {}
    BY DEF Init, Counted, PayoutsOf
  <2>2. EarnedSince(h, {}) \in Nat
    BY InitIInv, KeptFinite DEF IInv
  <2>3. SumAmounts(payout, {}) = 0
    BY FS_EmptySet, AmountsSplit
  <2> QED BY <2>1, <2>2, <2>3, TotalForIs
<1> QED BY <1>1, <1>2, <1>3 DEF Covered

\* The table grows by a row at a time.
LEMMA FiniteTablesStep ==
    ASSUME IInv, FiniteTables, [Next]_vars
    PROVE  FiniteTables'
<1> DEFINE Rows == {p \in Payout : payout[p] # Null}
<1>1. ASSUME NEW x \in Withdrawal, NEW p \in Payout, InsertPayout(x, p)
      PROVE  Rows' \subseteq Rows \cup {p}
    BY <1>1 DEF InsertPayout, IInv, TypeOK
<1>2. ASSUME NEW w \in Worker, CommitPayout(w)
      PROVE  Rows' \subseteq Rows
    BY <1>2, CommitAddsNone
<1>3. ASSUME UNCHANGED payout
      PROVE  Rows' \subseteq Rows
    BY <1>3
<1>4. \E p : Rows' \subseteq Rows \cup {p}
    BY <1>1, <1>2, <1>3
    DEF Next, WorkerStep, vars, payoutVars, Settles, Unearns, Connect, Lock, ReadEarned, ReadBalance,
        StripeDecides, Take, TakeAgain, Deliver, ReadPayout, SendTransfer, ReceiveAnswer, Ack,
        WorkerFails
<1>5. PICK p : Rows' \subseteq Rows \cup {p}
    BY <1>4
<1>6. IsFiniteSet(Rows \cup {p})
    BY FS_AddElement DEF FiniteTables
<1>7. IsFiniteSet(Rows')
    BY <1>5, <1>6, FS_Subset
<1> QED BY <1>7 DEF FiniteTables

\* Only a request that finds its host unlocked takes the lock.
LEMMA HostLockStep ==
    ASSUME IInv, HostLockExclusive, [Next]_vars
    PROVE  HostLockExclusive'
<1> USE DEF IInv, TypeOK, HostLockExclusive
<1>1. ASSUME NEW x \in Withdrawal, NEW h \in Host, Lock(x, h)
      PROVE  HostLockExclusive'
    BY <1>1 DEF Lock, HostLocked
<1>2. ASSUME NEW x \in Withdrawal,
             \A y \in Withdrawal \ {x} : withdrawal'[y] = withdrawal[y],
             withdrawal[x] # Idle, withdrawal'[x] = Idle \/ withdrawal'[x].host = withdrawal[x].host
      PROVE  HostLockExclusive'
    BY <1>2
<1>3. ASSUME NEW x \in Withdrawal, ReadEarned(x) \/ \E cents \in Cents : ReadBalance(x, cents)
      PROVE  HostLockExclusive'
  <2>1. withdrawal[x] # Idle /\ \A y \in Withdrawal \ {x} : withdrawal'[y] = withdrawal[y]
    BY <1>3 DEF ReadEarned, ReadBalance, At
  <2>2. withdrawal'[x] = Idle \/ withdrawal'[x].host = withdrawal[x].host
    BY <1>3 DEF ReadEarned, ReadBalance
  <2> QED BY <1>2, <2>1, <2>2
<1>4. ASSUME NEW x \in Withdrawal, NEW p \in Payout, InsertPayout(x, p)
      PROVE  HostLockExclusive'
    BY <1>2, <1>4 DEF InsertPayout, At
<1>5. CASE UNCHANGED withdrawal
    BY <1>5
<1> QED
    BY <1>1, <1>3, <1>4, <1>5
    DEF Next, WorkerStep, vars, Settles, Unearns, Connect, StripeDecides, Take, TakeAgain, Deliver,
        ReadPayout, SendTransfer, ReceiveAnswer, CommitPayout, Ack, WorkerFails

\* Nothing that was taken back settles again.
LEMMA HistoryStep ==
    ASSUME IInv, HistoryTrue, [Next]_vars
    PROVE  HistoryTrue'
<1> USE DEF IInv, TypeOK, HistoryTrue
<1>1. ASSUME NEW b \in Booking, Settles(b) \/ Unearns(b)
      PROVE  HistoryTrue'
    BY <1>1 DEF Settles, Unearns
<1>2. ASSUME NEW x \in Withdrawal,
             \/ \E h \in Host : Lock(x, h)
             \/ ReadEarned(x)
             \/ \E cents \in Cents : ReadBalance(x, cents)
             \/ \E p \in Payout : InsertPayout(x, p)
      PROVE  HistoryTrue'
  <2>1. UNCHANGED <<settled, unearned>> /\ \A y \in Withdrawal \ {x} : withdrawal'[y] = withdrawal[y]
    BY <1>2 DEF Lock, ReadEarned, ReadBalance, InsertPayout
  <2>2. withdrawal'[x] # Idle => withdrawal'[x].before \subseteq unearned
    BY <1>2 DEF Lock, ReadEarned, ReadBalance, InsertPayout, At
  <2> QED BY <2>1, <2>2
<1>3. CASE UNCHANGED <<settled, unearned, withdrawal>>
    BY <1>3
<1> QED
    BY <1>1, <1>2, <1>3
    DEF Next, WorkerStep, vars, Connect, StripeDecides, Take, TakeAgain, Deliver, ReadPayout,
        SendTransfer, ReceiveAnswer, CommitPayout, Ack, WorkerFails

\* Only an admitted withdrawal is money moved: every other step of a payout hands some back or
\* leaves it.
LEMMA WithdrawnStep ==
    ASSUME IInv, FiniteTables, [Next]_vars, NEW h
    PROVE  \/ total_for(h)' \in Nat /\ total_for(h)' <= total_for(h)
           \/ \E x \in Withdrawal, p \in Payout : InsertPayout(x, p) /\ withdrawal[x].host = h
<1>1. ASSUME NEW x \in Withdrawal, NEW p \in Payout, InsertPayout(x, p), withdrawal[x].host # h
      PROVE  total_for(h)' \in Nat /\ total_for(h)' <= total_for(h)
  <2>1. total_for(h)' \in Nat /\ total_for(h)' = total_for(h)
    BY <1>1, InsertWithdrawn
  <2> QED BY <2>1
<1>2. ASSUME NEW w \in Worker, CommitPayout(w)
      PROVE  total_for(h)' \in Nat /\ total_for(h)' <= total_for(h)
    BY <1>2, CommitWithdrawn
<1>3. ASSUME UNCHANGED payout
      PROVE  total_for(h)' \in Nat /\ total_for(h)' <= total_for(h)
  <2>1. total_for(h)' = total_for(h) /\ total_for(h) \in Nat
    BY <1>3, WithdrawnStays DEF IInv
  <2> QED BY <2>1
<1> QED
    BY <1>1, <1>2, <1>3
    DEF Next, WorkerStep, vars, payoutVars, Settles, Unearns, Connect, Lock, ReadEarned, ReadBalance,
        StripeDecides, Take, TakeAgain, Deliver, ReadPayout, SendTransfer, ReceiveAnswer, Ack,
        WorkerFails

\* What a request read stays earned, but for what is taken back under its eyes.
LEMMA ReadStep ==
    ASSUME BalanceInv, IInv', [Next]_vars
    PROVE  ReadCovered'
<1> USE DEF BalanceInv, IInv
<1>1. SUFFICES ASSUME NEW y \in Withdrawal, NEW h \in Host, NEW before \in SUBSET Booking,
                      withdrawal'[y] # Idle, withdrawal'[y].pc = "read",
                      withdrawal'[y].host = h, withdrawal'[y].before = before
               PROVE  withdrawal'[y].earned <= EarnedSince(h, before)'
    BY DEF ReadCovered, At
<1>2. CASE withdrawal'[y] = withdrawal[y]
  <2>1. withdrawal[y].earned <= EarnedSince(h, before) /\ withdrawal[y].earned \in Nat
    BY <1>1, <1>2, RequestCases DEF ReadCovered, At
  <2>2. before \cap settled = {}
    BY <1>1, <1>2 DEF HistoryTrue
  <2>3. /\ EarnedSince(h, before) <= EarnedSince(h, before)'
        /\ EarnedSince(h, before) \in Nat /\ EarnedSince(h, before)' \in Nat
    BY <2>2, EarnedStep
  <2> QED BY <1>2, <2>1, <2>3
<1>3. CASE ReadEarned(y)
  <2>1. withdrawal'[y].earned = earned(h) /\ UNCHANGED <<settled, unearned>>
    BY <1>1, <1>3 DEF ReadEarned, TypeOK
  <2>2. earned(h) <= EarnedSince(h, before)
    BY EarnedWithin
  <2>3. EarnedSince(h, before)' = EarnedSince(h, before)
    BY <2>1, EarnedStays
  <2> QED BY <2>1, <2>2, <2>3
<1>4. ASSUME NEW x \in Withdrawal,
             \/ \E g \in Host : Lock(x, g)
             \/ ReadEarned(x)
             \/ \E cents \in Cents : ReadBalance(x, cents)
             \/ \E p \in Payout : InsertPayout(x, p)
      PROVE  withdrawal'[y] = withdrawal[y] \/ ReadEarned(y)
    BY <1>1, <1>4 DEF Lock, ReadEarned, ReadBalance, InsertPayout, TypeOK
<1>5. CASE UNCHANGED withdrawal
    BY <1>2, <1>5
<1> QED
    BY <1>2, <1>3, <1>4, <1>5
    DEF Next, WorkerStep, vars, Settles, Unearns, Connect, StripeDecides, Take, TakeAgain, Deliver,
        ReadPayout, SendTransfer, ReceiveAnswer, CommitPayout, Ack, WorkerFails

\* A withdrawal that is not the one admitted has its cover as before: its host is another one.
LEMMA ReservedStays ==
    ASSUME BalanceInv, IInv', [Next]_vars,
           NEW y \in Withdrawal, NEW h \in Host, NEW before \in SUBSET Booking,
           withdrawal[y] # Idle, withdrawal[y].pc = "inserting", withdrawal[y].host = h,
           withdrawal[y].before = before, withdrawal'[y] = withdrawal[y]
    PROVE  total_for(h)' + withdrawal'[y].amount <= EarnedSince(h, before)'
<1> USE DEF BalanceInv, IInv
<1>1. total_for(h) + withdrawal[y].amount <= EarnedSince(h, before) /\ withdrawal[y].amount \in Nat
    BY RequestCases DEF ReservedCovered, At
<1>2. before \cap settled = {}
    BY DEF HistoryTrue
<1>3. /\ EarnedSince(h, before) <= EarnedSince(h, before)'
      /\ EarnedSince(h, before) \in Nat /\ EarnedSince(h, before)' \in Nat
    BY <1>2, EarnedStep
<1>4. total_for(h)' \in Nat /\ total_for(h)' <= total_for(h)
  <2>1. ASSUME NEW x \in Withdrawal, NEW p \in Payout, InsertPayout(x, p), withdrawal[x].host = h
        PROVE  FALSE
    <3>1. x = y
      BY <2>1 DEF HostLockExclusive, InsertPayout, At
    <3>2. withdrawal'[x] = Idle
      BY <2>1 DEF InsertPayout, TypeOK
    <3> QED BY <3>1, <3>2
  <2> QED BY <2>1, WithdrawnStep
<1>5. total_for(h) \in Nat
    BY SumsAreNat
<1> QED BY <1>1, <1>3, <1>4, <1>5

\* Under the lock the second query meets the first one's figure, and the check is kept.
LEMMA ReservedStep ==
    ASSUME BalanceInv, IInv', [Next]_vars
    PROVE  ReservedCovered'
<1> USE DEF BalanceInv, IInv
<1>1. SUFFICES ASSUME NEW y \in Withdrawal, NEW h \in Host, NEW before \in SUBSET Booking,
                      withdrawal'[y] # Idle, withdrawal'[y].pc = "inserting",
                      withdrawal'[y].host = h, withdrawal'[y].before = before
               PROVE  total_for(h)' + withdrawal'[y].amount <= EarnedSince(h, before)'
    BY DEF ReservedCovered, At
<1>2. CASE withdrawal'[y] = withdrawal[y]
    BY <1>1, <1>2, ReservedStays
<1>3. ASSUME NEW cents \in Cents, ReadBalance(y, cents)
      PROVE  total_for(h)' + withdrawal'[y].amount <= EarnedSince(h, before)'
  <2>1. PICK r : r = withdrawal[y]
    OBVIOUS
  <2>2. r # Idle /\ r.pc = "read"
    BY <1>3, <2>1 DEF ReadBalance, At
  <2>3. withdrawal'[y] = IF check(cents, r.earned - total_for(r.host))
                         THEN [pc |-> "inserting", host |-> r.host, before |-> r.before, amount |-> cents]
                         ELSE Idle
    BY <1>3, <2>1 DEF ReadBalance, TypeOK
  <2>4. /\ check(cents, r.earned - total_for(h)) /\ withdrawal'[y].amount = cents
        /\ r.host = h /\ r.before = before
    BY <1>1, <2>3
  <2>5. r.earned <= EarnedSince(h, before) /\ r.earned \in Nat
    BY <2>1, <2>2, <2>4, RequestCases DEF ReadCovered, At
  <2>6. cents <= r.earned - total_for(h) /\ cents \in Nat
    BY <2>4 DEF check, Cents
  <2>7. total_for(h)' = total_for(h) /\ total_for(h) \in Nat
    BY <1>3, WithdrawnStays DEF ReadBalance, payoutVars
  <2>8. EarnedSince(h, before)' = EarnedSince(h, before)
    BY <1>3, EarnedStays DEF ReadBalance
  <2>9. EarnedSince(h, before) \in Nat
    BY KeptFinite
  <2> QED BY <2>4, <2>5, <2>6, <2>7, <2>8, <2>9
<1>4. ASSUME NEW x \in Withdrawal,
             \/ \E g \in Host : Lock(x, g)
             \/ ReadEarned(x)
             \/ \E cents \in Cents : ReadBalance(x, cents)
             \/ \E p \in Payout : InsertPayout(x, p)
      PROVE  withdrawal'[y] = withdrawal[y] \/ \E cents \in Cents : ReadBalance(y, cents)
    BY <1>1, <1>4 DEF Lock, ReadEarned, ReadBalance, InsertPayout, TypeOK
<1>5. CASE UNCHANGED withdrawal
    BY <1>2, <1>5
<1> QED
    BY <1>2, <1>3, <1>4, <1>5
    DEF Next, WorkerStep, vars, Settles, Unearns, Connect, StripeDecides, Take, TakeAgain, Deliver,
        ReadPayout, SendTransfer, ReceiveAnswer, CommitPayout, Ack, WorkerFails

\* What an admitted withdrawal makes of the balance is what was checked.
LEMMA Admitted ==
    ASSUME BalanceInv, NEW x \in Withdrawal, NEW p \in Payout, InsertPayout(x, p),
           NEW h \in Host, withdrawal[x].host = h
    PROVE  /\ total_for(h)' \in Nat
           /\ total_for(h)' <= EarnedSince(h, withdrawal[x].before)
<1> USE DEF BalanceInv, IInv
<1>1. withdrawal[x] # Idle /\ withdrawal[x].pc = "inserting"
    BY DEF InsertPayout, At
<1>2. withdrawal[x].before \in SUBSET Booking
    BY <1>1, RequestCases
<1>3. total_for(h) + withdrawal[x].amount <= EarnedSince(h, withdrawal[x].before)
    BY <1>1, <1>2 DEF ReservedCovered, At
<1>4. total_for(h)' \in Nat /\ total_for(h)' = total_for(h) + withdrawal[x].amount
    BY InsertWithdrawn
<1> QED BY <1>3, <1>4

\* So every host is covered by what it ever earned.
LEMMA CoveredStep ==
    ASSUME BalanceInv, IInv', [Next]_vars
    PROVE  Covered'
<1> USE DEF BalanceInv, IInv
<1>1. SUFFICES ASSUME NEW h \in Host
               PROVE  total_for(h)' <= EarnedSince(h, {})'
    BY DEF Covered
<1>2. /\ EarnedSince(h, {}) <= EarnedSince(h, {})'
      /\ EarnedSince(h, {}) \in Nat /\ EarnedSince(h, {})' \in Nat
    BY EarnedStep
<1>3. CASE total_for(h)' \in Nat /\ total_for(h)' <= total_for(h)
  <2>1. total_for(h) <= EarnedSince(h, {}) /\ total_for(h) \in Nat
    BY SumsAreNat DEF Covered
  <2> QED BY <1>2, <1>3, <2>1
<1>4. ASSUME NEW x \in Withdrawal, NEW p \in Payout, InsertPayout(x, p), withdrawal[x].host = h
      PROVE  total_for(h)' <= EarnedSince(h, {})'
  <2>1. PICK B : B = withdrawal[x].before
    OBVIOUS
  <2>2. total_for(h)' \in Nat /\ total_for(h)' <= EarnedSince(h, B)
    BY <1>4, <2>1, Admitted
  <2>3. EarnedSince(h, B) <= EarnedSince(h, {}) /\ EarnedSince(h, B) \in Nat
    BY EarnedWithin, KeptFinite
  <2> QED BY <1>2, <2>2, <2>3
<1> QED BY <1>3, <1>4, WithdrawnStep

\* BalanceInv is inductive, whatever Stripe answers.
LEMMA NextBalance == BalanceInv /\ [Next]_vars => BalanceInv'
<1> SUFFICES ASSUME BalanceInv, [Next]_vars
             PROVE  BalanceInv'
    OBVIOUS
<1>1. IInv'
    BY NextIInv DEF BalanceInv
<1>2. FiniteTables' /\ HostLockExclusive' /\ HistoryTrue'
    BY FiniteTablesStep, HostLockStep, HistoryStep DEF BalanceInv
<1>3. ReadCovered' /\ ReservedCovered' /\ Covered'
    BY <1>1, ReadStep, ReservedStep, CoveredStep
<1> QED BY <1>1, <1>2, <1>3 DEF BalanceInv

(***************************************************************************)
(* The figures of a withdrawal, from the lock to the row: what it read was *)
(* earned, and what it inserts is covered, by the host's bookings and by   *)
(* those alone that were refunded while it held the lock. The payouts that *)
(* count are covered by all that ever settled (request_payout, lock_host,  *)
(* earned, total_for).                                                     *)
(***************************************************************************)
THEOREM BalanceInvariance == Spec => []BalanceInv
BY InitBalance, NextBalance, PTL DEF Spec

\* Nothing else was moved: a payout whose transfer was made is never recorded as failed.
LEMMA MovedIsCounted ==
    ASSUME TypeOK, OutcomeMatchesTransfer, NEW h
    PROVE  Moved(h) = total_for(h)
<1>1. ASSUME NEW p \in PayoutsOf(h), transfer[p] = "made"
      PROVE  payout[p].status \in COUNTED
    BY <1>1 DEF PayoutsOf, TypeOK, Row, Status, OutcomeMatchesTransfer, COUNTED
<1>2. {p \in PayoutsOf(h) : transfer[p] = "made" \/ payout[p].status \in COUNTED}
          = {p \in PayoutsOf(h) : payout[p].status \in COUNTED}
    BY <1>1
<1> QED BY <1>2 DEF Moved, total_for

\* And so it is after a step.
LEMMA MovedIsCountedNext ==
    ASSUME TypeOK', OutcomeMatchesTransfer', NEW h
    PROVE  Moved(h)' = total_for(h)'
<1>1. ASSUME NEW p \in PayoutsOf(h)', transfer'[p] = "made"
      PROVE  payout'[p].status \in COUNTED
    BY <1>1 DEF PayoutsOf, TypeOK, Row, Status, OutcomeMatchesTransfer, COUNTED
<1>2. {p \in PayoutsOf(h)' : transfer'[p] = "made" \/ payout'[p].status \in COUNTED}
          = {p \in PayoutsOf(h)' : payout'[p].status \in COUNTED}
    BY <1>1
<1> QED BY <1>2 DEF Moved, total_for, COUNTED

(***************************************************************************)
(* However withdrawals, workers and refunds race, what was and will be     *)
(* moved to a host grows only by an admitted withdrawal, and to no more    *)
(* than the host has earned by then; only a refund that commits while the  *)
(* request holds the lock goes unseen (request_payout, lock_host, earned,  *)
(* total_for). The hypothesis is that of OutcomeMatchesTransferHolds: a    *)
(* payout wrongly recorded as failed hands back money that was sent, as    *)
(* the run payout_conflict shows.                                          *)
(***************************************************************************)
THEOREM NoOverdraftHolds ==
    ASSUME ~KeyConflicts
    PROVE  Spec => NoOverdraft
<1> DEFINE Grows(h) ==
        Moved(h)' > Moved(h) =>
            \E x \in Withdrawal :
                /\ withdrawal[x] # Idle /\ withdrawal[x].host = h /\ withdrawal'[x] = Idle
                /\ Moved(h)' <= EarnedSince(h, withdrawal[x].before)
<1>1. ASSUME BalanceInv, BalanceInv', OutcomeMatchesTransfer, OutcomeMatchesTransfer', [Next]_vars,
             NEW h \in Host
      PROVE  Grows(h)
  <2>1. Moved(h) = total_for(h) /\ Moved(h)' = total_for(h)'
    BY <1>1, MovedIsCounted, MovedIsCountedNext DEF BalanceInv, IInv
  <2>2. total_for(h) \in Nat
    BY <1>1, SumsAreNat DEF BalanceInv, IInv
  <2>3. CASE total_for(h)' \in Nat /\ total_for(h)' <= total_for(h)
    BY <2>1, <2>2, <2>3
  <2>4. ASSUME NEW x \in Withdrawal, NEW p \in Payout, InsertPayout(x, p), withdrawal[x].host = h
        PROVE  Grows(h)
    <3>1. total_for(h)' <= EarnedSince(h, withdrawal[x].before)
      BY <1>1, <2>4, Admitted
    <3>2. withdrawal[x] # Idle /\ withdrawal'[x] = Idle
      BY <1>1, <2>4 DEF InsertPayout, At, BalanceInv, IInv, TypeOK
    <3> QED BY <2>1, <2>4, <3>1, <3>2
  <2> QED BY <1>1, <2>3, <2>4, WithdrawnStep DEF BalanceInv
<1>2. BalanceInv /\ BalanceInv' /\ OutcomeMatchesTransfer /\ OutcomeMatchesTransfer' /\ [Next]_vars
        => [\A h \in Host : Grows(h)]_vars
    BY <1>1
<1>3. Spec => []OutcomeMatchesTransfer
    BY OutcomeMatchesTransferHolds
<1> QED BY <1>2, <1>3, BalanceInvariance, PTL DEF Spec, NoOverdraft

\* Nobody is paid what was never earned, whatever is refunded afterwards (request_payout,
\* pay_out), as long as a payout recorded as failed is one whose transfer was not made.
THEOREM WithdrawnWasEarnedHolds ==
    ASSUME ~KeyConflicts
    PROVE  Spec => []WithdrawnWasEarned
<1>1. ASSUME BalanceInv, OutcomeMatchesTransfer
      PROVE  WithdrawnWasEarned
    BY <1>1, MovedIsCounted DEF WithdrawnWasEarned, BalanceInv, IInv, Covered
<1>2. Spec => []OutcomeMatchesTransfer
    BY OutcomeMatchesTransferHolds
<1>3. BalanceInv /\ OutcomeMatchesTransfer => WithdrawnWasEarned
    BY <1>1
<1> QED BY <1>2, <1>3, BalanceInvariance, PTL
=============================================================================
