-------------------------- MODULE ReadModelProofs --------------------------
(***************************************************************************)
(* What holds of ReadModel for every number of accounts, listings,         *)
(* bookings, payouts and readers, and however far the projectors lag.      *)
(*                                                                         *)
(* The argument: for each aggregate there is a history, the rows its owner *)
(* had after each of its events, and the projected row is the history at   *)
(* the version it stores.                                                  *)
(***************************************************************************)
EXTENDS ReadModel, SequenceTheorems, TLAPS

-----------------------------------------------------------------------------
(* Logs, histories and columns *)

(***************************************************************************)
(* The rows h that a log takes its aggregate through, from none to the one *)
(* its owner has now, each by one of the Moves: <<row, event, next row>>.  *)
(***************************************************************************)
History(h, log, row, R, Moves) ==
    /\ h \in [0..Len(log) -> R]
    /\ h[0] = Null /\ h[Len(log)] = row
    /\ \A v \in 1..Len(log) : <<h[v - 1], log[v], h[v]>> \in Moves

\* With an event more, the history is one row longer.
LEMMA HistoryGrows ==
    ASSUME NEW S, NEW log \in Seq(S), NEW R, NEW Moves, NEW h, NEW row, History(h, log, row, R, Moves),
           NEW e \in S, NEW succ \in R, <<row, e, succ>> \in Moves
    PROVE  /\ Append(log, e) \in Seq(S)
           /\ Len(Append(log, e)) = Len(log) + 1 /\ Len(log) \in Nat
           /\ \E k : /\ History(k, Append(log, e), succ, R, Moves)
                     /\ \A v \in 0..Len(log) : k[v] = h[v]
<1>1. PICK longer : longer = Append(log, e)
    OBVIOUS
<1>2. /\ longer \in Seq(S) /\ Len(log) \in Nat /\ Len(longer) = Len(log) + 1
      /\ \A v \in 1..Len(log) : longer[v] = log[v]
      /\ longer[Len(log) + 1] = e
    BY <1>1, AppendProperties, LenProperties
<1> DEFINE k == [v \in 0..Len(longer) |-> IF v <= Len(log) THEN h[v] ELSE succ]
<1>3. h \in [0..Len(log) -> R] /\ h[0] = Null /\ h[Len(log)] = row
    BY DEF History
<1>4. /\ k \in [0..Len(longer) -> R]
      /\ \A v \in 0..Len(log) : k[v] = h[v]
      /\ k[Len(log) + 1] = succ
    BY <1>2, <1>3
<1> HIDE DEF k
<1>5. ASSUME NEW v \in 1..Len(longer)
      PROVE  <<k[v - 1], longer[v], k[v]>> \in Moves
  <2>1. CASE v \in 1..Len(log)
    <3>1. k[v - 1] = h[v - 1] /\ k[v] = h[v] /\ longer[v] = log[v]
      BY <1>2, <1>4, <2>1
    <3>2. <<h[v - 1], log[v], h[v]>> \in Moves
      BY <2>1 DEF History
    <3> QED BY <3>1, <3>2
  <2>2. CASE v = Len(log) + 1
    <3>1. k[v - 1] = row /\ longer[v] = e /\ k[v] = succ
      BY <1>2, <1>3, <1>4, <2>2
    <3> QED BY <3>1
  <2> QED BY <1>2, <2>1, <2>2
<1>6. k[0] = Null /\ k[Len(longer)] = succ
    BY <1>2, <1>3, <1>4
<1>7. History(k, longer, succ, R, Moves)
    BY <1>4, <1>5, <1>6 DEF History
<1> QED BY <1>1, <1>2, <1>4, <1>7

\* What a changeset makes of a row, column by column.
LEMMA SetIs ==
    ASSUME NEW D, NEW row, DOMAIN row = D, NEW new, new = [c \in D |-> new[c]], NEW changes,
           \A c \in D : new[c] = IF c \in DOMAIN changes /\ changes[c] # Null THEN changes[c] ELSE row[c]
    PROVE  Set(row, changes) = new
BY DEF Set

-----------------------------------------------------------------------------
(* Steps *)

Scope == focus \in Focus /\ now \in 0..MaxTime

\* A behaviour writes to aggregates that there are, and the clock is a number.
LEMMA InScope ==
    ASSUME Scope
    PROVE  /\ focus.users \subseteq Users /\ focus.spots \subseteq Spots
           /\ focus.bookings \subseteq Bookings /\ focus.payouts \subseteq Payouts
           /\ focus.readers \subseteq Readers
           /\ now \in Nat
BY FocusAssumption, UpstreamAssumption DEF Scope

\* The clock only ticks, up to its bound.
LEMMA ScopeStep ==
    ASSUME Scope, [Next]_vars
    PROVE  Scope'
<1>1. focus' = focus
    BY DEF Next, vars
<1>2. now' = now \/ (now < MaxTime /\ now' = now + 1)
    BY DEF Next, vars, upstreamVars, WriterStep, Tick, UserStep, SpotStep, BookingStep, PaymentStep,
           PayoutStep, Register, Rename, UserMarker, SeeNotifications, DismissNotification, WriteUser,
           Reserve, Confirm, Release, Cancel, Rate, WriteBooking, OpenCharge, SettleCharge, Refund,
           WritePayment, RequestPayout, FinishPayout, WritePayout
<1> QED BY <1>1, <1>2, UpstreamAssumption DEF Scope

-----------------------------------------------------------------------------
(* USERS *)

UserEvent ==
    [type : {"Registered", "Updated"}, name : Names] \cup [type : {"Marker"}] \cup
    [type : {"NotificationsSeen"}, at : Nat] \cup
    [type : {"NotificationDismissed"}, user : Users, kind : Kinds, subject : Bookings]

\* From one name to the next by one event.
UserMoves ==
    {m \in (Names \cup {Null}) \X UserEvent \X Names :
        \/ m[1] = Null /\ m[2] = [type |-> "Registered", name |-> m[3]]
        \/ m[1] # Null /\ m[2] = [type |-> "Updated", name |-> m[3]]
        \/ m[1] = m[3] /\ m[2].type \notin {"Registered", "Updated"}}

UserMirrors(h, log, row) ==
    row # Null => row.version \in 1..Len(log) /\ row.name = h[row.version]

UserFollows(h, log, name, row) ==
    History(h, log, name, Names \cup {Null}, UserMoves) /\ UserMirrors(h, log, row)

UsersInv ==
    /\ user_db \in [Users -> Names \cup {Null}]
    /\ users_log \in [Users -> Seq(UserEvent)]
    /\ app_user \in [Users -> ViewUser \cup {Null}]
    /\ \A u \in Users : \E h : UserFollows(h, users_log[u], user_db[u], app_user[u])

\* A write of user-service.
LEMMA UserWritten ==
    ASSUME NEW log \in Seq(UserEvent), NEW name, NEW row \in ViewUser \cup {Null},
           \E h : UserFollows(h, log, name, row),
           NEW e \in UserEvent, NEW succ \in Names, <<name, e, succ>> \in UserMoves
    PROVE  /\ Append(log, e) \in Seq(UserEvent)
           /\ \E h : UserFollows(h, Append(log, e), succ, row)
<1>1. PICK h : UserFollows(h, log, name, row)
    OBVIOUS
<1>2. PICK R : R = Names \cup {Null}
    OBVIOUS
<1>3. History(h, log, name, R, UserMoves) /\ succ \in R
    BY <1>1, <1>2 DEF UserFollows
<1>4. /\ Append(log, e) \in Seq(UserEvent)
      /\ Len(Append(log, e)) = Len(log) + 1 /\ Len(log) \in Nat
      /\ \E k : History(k, Append(log, e), succ, R, UserMoves) /\ \A v \in 0..Len(log) : k[v] = h[v]
    BY <1>3, HistoryGrows
<1>5. PICK k : History(k, Append(log, e), succ, R, UserMoves) /\ \A v \in 0..Len(log) : k[v] = h[v]
    BY <1>4
<1>6. UserMirrors(k, Append(log, e), row)
    BY <1>1, <1>4, <1>5 DEF UserFollows, UserMirrors
<1> QED BY <1>2, <1>4, <1>5, <1>6 DEF UserFollows

\* What the arms of the projector make of a row.
LEMMA UserColumns ==
    ASSUME NEW row \in ViewUser, NEW v \in Nat
    PROVE  /\ At(row, v) \in ViewUser /\ At(row, v).version = v
           /\ At(row, v).name = row.name /\ At(row, v).seen_at = row.seen_at
BY DEF At, ViewUser

\* A rename is a patch of one column.
LEMMA UserPatched ==
    ASSUME NEW row \in ViewUser, NEW e, e.name \in Names
    PROVE  /\ PatchedUser(row, ViewUserPatch(e)) \in ViewUser
           /\ PatchedUser(row, ViewUserPatch(e)).name = e.name
           /\ PatchedUser(row, ViewUserPatch(e)).seen_at = row.seen_at
BY NullAssumption DEF PatchedUser, ViewUserPatch, Set, ViewUser

\* The watermark only rises.
LEMMA UserMarked ==
    ASSUME NEW row \in ViewUser, NEW at \in Nat
    PROVE  /\ MarkSeen(row, at) \in ViewUser
           /\ MarkSeen(row, at).name = row.name
           /\ MarkSeen(row, at).seen_at # Null
           /\ row.seen_at # Null => row.seen_at <= MarkSeen(row, at).seen_at
BY NullAssumption DEF MarkSeen, ViewUser

\* The next event of an account, and the row one event further.
UserArm(row, v, e, succ) ==
    \/ e.type = "Registered" /\ succ = Upsert(row, RegisteredUser(e, v))
    \/ e.type = "Updated" /\ succ = At(PatchedUser(row, ViewUserPatch(e)), v)
    \/ e.type \in {"Marker", "NotificationDismissed"} /\ succ = At(row, v)
    \/ e.type = "NotificationsSeen" /\ succ = At(MarkSeen(row, e.at), v)

\* A row one event further mirrors its owner's row of then, and saw no less.
LEMMA UserProjected ==
    ASSUME NEW log \in Seq(UserEvent), NEW name, NEW row \in ViewUser \cup {Null}, NEW h,
           UserFollows(h, log, name, row),
           NEW v \in DOMAIN log, Due(row, v), NEW succ, UserArm(row, v, log[v], succ)
    PROVE  /\ succ \in ViewUser /\ succ.version = Stored(row) + 1
           /\ UserFollows(h, log, name, succ)
           /\ row # Null /\ row.seen_at # Null => succ.seen_at # Null /\ row.seen_at <= succ.seen_at
<1>1. PICK e : e = log[v]
    OBVIOUS
<1>2. v \in 1..Len(log) /\ Len(log) \in Nat /\ e \in UserEvent
    BY <1>1, ElementOfSeq, LenProperties
<1>3. <<h[v - 1], e, h[v]>> \in UserMoves /\ h[0] = Null
    BY <1>1, <1>2 DEF UserFollows, History
<1>4. h[v] \in Names /\ UserArm(row, v, e, succ)
    BY <1>1, <1>3 DEF UserMoves
<1>5. CASE row = Null
  <2>1. v = 1 /\ h[v - 1] = Null
    BY <1>3, <1>5 DEF Due, Stored
  <2>2. e = [type |-> "Registered", name |-> h[v]]
    BY <1>3, <2>1, NullAssumption DEF UserMoves
  <2>3. succ = [version |-> v, name |-> h[v], seen_at |-> Null]
    BY <1>4, <1>5, <2>2 DEF UserArm, Upsert, RegisteredUser
  <2>4. succ \in ViewUser /\ succ.version = v /\ succ.name = h[v] /\ succ # Null
    BY <1>2, <1>4, <2>3, NullAssumption DEF ViewUser
  <2> QED BY <1>2, <1>5, <2>1, <2>4 DEF UserFollows, UserMirrors, Stored
<1>6. CASE row # Null
  <2>1. row \in ViewUser /\ row.version \in 1..Len(log) /\ row.name = h[row.version] /\ v = row.version + 1
    BY <1>6 DEF UserFollows, UserMirrors, Due, Stored
  <2>2. h[v - 1] \in Names /\ h[v - 1] # Null /\ row.name = h[v - 1] /\ v \in Nat
    BY <1>2, <2>1, NullAssumption DEF ViewUser
  <2>3. e.type # "Registered"
    BY <1>3, <2>2 DEF UserMoves
  <2>4. /\ succ \in ViewUser /\ succ.version = v /\ succ.name = h[v]
        /\ row.seen_at # Null => succ.seen_at # Null /\ row.seen_at <= succ.seen_at
    <3>1. CASE e.type = "Updated"
      <4>1. e.name \in Names /\ e.name = h[v]
        BY <1>3, <1>4, <3>1 DEF UserMoves
      <4>2. PICK half : half = PatchedUser(row, ViewUserPatch(e))
        OBVIOUS
      <4>3. half \in ViewUser /\ half.name = e.name /\ half.seen_at = row.seen_at
        BY <2>1, <4>1, <4>2, UserPatched
      <4>4. succ = At(half, v)
        BY <1>4, <3>1, <4>2 DEF UserArm
      <4>5. row.seen_at # Null => row.seen_at <= row.seen_at
        BY <2>1 DEF ViewUser
      <4>6. /\ succ \in ViewUser /\ succ.version = v
            /\ succ.name = half.name /\ succ.seen_at = half.seen_at
        BY ONLY <2>2, <4>3, <4>4, UserColumns
      <4> QED BY ONLY <4>1, <4>3, <4>5, <4>6
    <3>2. CASE e.type \in {"Marker", "NotificationDismissed"}
      <4>1. succ = At(row, v) /\ h[v] = row.name
        BY <1>3, <1>4, <2>2, <3>2 DEF UserArm, UserMoves
      <4>2. row.seen_at # Null => row.seen_at <= row.seen_at
        BY <2>1 DEF ViewUser
      <4>3. /\ succ \in ViewUser /\ succ.version = v
            /\ succ.name = row.name /\ succ.seen_at = row.seen_at
        BY ONLY <2>1, <2>2, <4>1, UserColumns
      <4> QED BY ONLY <4>1, <4>2, <4>3
    <3>3. CASE e.type = "NotificationsSeen"
      <4>1. succ = At(MarkSeen(row, e.at), v) /\ h[v] = row.name /\ e.at \in Nat
        BY <1>2, <1>3, <1>4, <2>2, <3>3 DEF UserArm, UserMoves, UserEvent
      <4>2. PICK half : half = MarkSeen(row, e.at)
        OBVIOUS
      <4>3. /\ half \in ViewUser /\ half.name = row.name
            /\ row.seen_at # Null => half.seen_at # Null /\ row.seen_at <= half.seen_at
        BY <2>1, <4>1, <4>2, UserMarked
      <4>4. /\ succ \in ViewUser /\ succ.version = v
            /\ succ.name = half.name /\ succ.seen_at = half.seen_at
        BY ONLY <2>2, <4>1, <4>2, <4>3, UserColumns
      <4> QED BY ONLY <4>1, <4>3, <4>4
    <3> QED BY <1>4, <2>3, <3>1, <3>2, <3>3 DEF UserArm
  <2>5. succ # Null
    BY <2>4, NullAssumption
  <2> QED BY <1>2, <1>6, <2>1, <2>4, <2>5 DEF UserFollows, UserMirrors, Stored
<1> QED BY <1>5, <1>6

\* What a step of the projector does to the table.
LEMMA UserProjection ==
    ASSUME UsersInv, NEW u \in Users, ProjectUser(u)
    PROVE  /\ app_user' = [app_user EXCEPT ![u] = app_user'[u]]
           /\ app_user'[u] \in ViewUser /\ app_user'[u].version = Stored(app_user[u]) + 1
           /\ \A h : UserFollows(h, users_log[u], user_db[u], app_user[u]) =>
                     UserFollows(h, users_log[u], user_db[u], app_user'[u])
           /\ app_user[u] # Null /\ app_user[u].seen_at # Null =>
                  app_user'[u].seen_at # Null /\ app_user[u].seen_at <= app_user'[u].seen_at
<1> DEFINE row == app_user[u]
           log == users_log[u]
           succ == app_user'[u]
<1>1. row \in ViewUser \cup {Null} /\ log \in Seq(UserEvent) /\ DOMAIN app_user = Users
    BY DEF UsersInv
<1>2. PICK v \in DOMAIN log :
          /\ Due(row, v)
          /\ \/ UserRegistered(u, v, log[v]) \/ UserUpdated(u, v, log[v]) \/ UserIgnored(u, v, log[v])
             \/ UserSeen(u, v, log[v]) \/ UserDismissed(u, v, log[v])
    BY DEF ProjectUser
<1>3. app_user' = [app_user EXCEPT ![u] = succ] /\ UserArm(row, v, log[v], succ)
    BY <1>1, <1>2
    DEF UserRegistered, UserUpdated, UserIgnored, UserSeen, UserDismissed, UpsertUser, UserArm
<1>4. PICK name : name = user_db[u]
    OBVIOUS
<1> HIDE DEF row, log, succ
<1>5. \E h : UserFollows(h, log, name, row)
    BY <1>4 DEF UsersInv, row, log
<1>6. PICK h : UserFollows(h, log, name, row)
    BY <1>5
<1>7. /\ succ \in ViewUser /\ succ.version = Stored(row) + 1
      /\ row # Null /\ row.seen_at # Null => succ.seen_at # Null /\ row.seen_at <= succ.seen_at
    BY <1>1, <1>2, <1>3, <1>6, UserProjected
<1>8. ASSUME NEW k, UserFollows(k, log, name, row)
      PROVE  UserFollows(k, log, name, succ)
    BY <1>1, <1>2, <1>3, <1>8, UserProjected
<1> QED BY <1>3, <1>4, <1>7, <1>8 DEF row, log, succ

\* Every request of user-service is a move.
LEMMA UserMoved ==
    ASSUME UsersInv, now \in Nat, NEW u \in Users, NEW B \in SUBSET Bookings,
           \/ \E name \in Names : Register(u, name) \/ Rename(u, name)
           \/ UserMarker(u) \/ SeeNotifications(u)
           \/ \E kind \in Kinds, b \in B : DismissNotification(u, kind, b)
    PROVE  \E e \in UserEvent, succ \in Names :
               <<user_db[u], e, succ>> \in UserMoves /\ WriteUser(u, succ, e)
<1>1. user_db[u] \in Names \cup {Null}
    BY DEF UsersInv
<1>2. ASSUME NEW e \in UserEvent, NEW succ \in Names, WriteUser(u, succ, e),
             \/ user_db[u] = Null /\ e = [type |-> "Registered", name |-> succ]
             \/ user_db[u] # Null /\ e = [type |-> "Updated", name |-> succ]
             \/ user_db[u] = succ /\ e.type \notin {"Registered", "Updated"}
      PROVE  \E d \in UserEvent, to \in Names :
                 <<user_db[u], d, to>> \in UserMoves /\ WriteUser(u, to, d)
  <2>1. <<user_db[u], e, succ>> \in UserMoves
    BY <1>1, <1>2 DEF UserMoves
  <2> QED BY <1>2, <2>1
<1>3. ASSUME NEW name \in Names, Register(u, name) \/ Rename(u, name)
      PROVE  \E d \in UserEvent, to \in Names :
                 <<user_db[u], d, to>> \in UserMoves /\ WriteUser(u, to, d)
  <2>1. [type |-> "Registered", name |-> name] \in UserEvent
    BY DEF UserEvent
  <2>2. [type |-> "Updated", name |-> name] \in UserEvent
    BY DEF UserEvent
  <2> QED BY <1>2, <1>3, <2>1, <2>2 DEF Register, Rename
<1>4. ASSUME UserMarker(u)
      PROVE  \E d \in UserEvent, to \in Names :
                 <<user_db[u], d, to>> \in UserMoves /\ WriteUser(u, to, d)
  <2>1. [type |-> "Marker"] \in UserEvent
    BY DEF UserEvent
  <2> QED BY <1>1, <1>2, <1>4, <2>1 DEF UserMarker
<1>5. ASSUME SeeNotifications(u)
      PROVE  \E d \in UserEvent, to \in Names :
                 <<user_db[u], d, to>> \in UserMoves /\ WriteUser(u, to, d)
  <2>1. [type |-> "NotificationsSeen", at |-> now] \in UserEvent
    BY DEF UserEvent
  <2> QED BY <1>1, <1>2, <1>5, <2>1 DEF SeeNotifications
<1>6. ASSUME NEW kind \in Kinds, NEW b \in B, DismissNotification(u, kind, b)
      PROVE  \E d \in UserEvent, to \in Names :
                 <<user_db[u], d, to>> \in UserMoves /\ WriteUser(u, to, d)
  <2>1. [type |-> "NotificationDismissed", user |-> u, kind |-> kind, subject |-> b] \in UserEvent
    BY DEF UserEvent
  <2> QED BY <1>1, <1>2, <1>6, <2>1 DEF DismissNotification
<1> QED BY <1>3, <1>4, <1>5, <1>6

\* Accounts and their projection.
LEMMA UsersStep ==
    ASSUME UsersInv, Scope, [Next]_vars
    PROVE  UsersInv'
<1>1. ASSUME NEW u \in Users, NEW e \in UserEvent, NEW succ \in Names,
             <<user_db[u], e, succ>> \in UserMoves, WriteUser(u, succ, e), UNCHANGED app_user
      PROVE  UsersInv'
  <2>1. /\ Append(users_log[u], e) \in Seq(UserEvent)
        /\ \E h : UserFollows(h, Append(users_log[u], e), succ, app_user[u])
    BY <1>1, UserWritten DEF UsersInv
  <2>2. /\ user_db' = [user_db EXCEPT ![u] = succ]
        /\ users_log' = [users_log EXCEPT ![u] = Append(users_log[u], e)]
    BY <1>1 DEF WriteUser
  <2>3. user_db' \in [Users -> Names \cup {Null}] /\ users_log' \in [Users -> Seq(UserEvent)]
    BY <2>1, <2>2 DEF UsersInv
  <2>4. ASSUME NEW w \in Users
        PROVE  \E h : UserFollows(h, users_log'[w], user_db'[w], app_user'[w])
    BY <1>1, <2>1, <2>2 DEF UsersInv
  <2> QED BY <1>1, <2>3, <2>4 DEF UsersInv
<1>2. ASSUME NEW u \in Users, ProjectUser(u), UNCHANGED <<user_db, users_log>>
      PROVE  UsersInv'
  <2>1. /\ app_user' = [app_user EXCEPT ![u] = app_user'[u]]
        /\ app_user'[u] \in ViewUser
        /\ \A h : UserFollows(h, users_log[u], user_db[u], app_user[u]) =>
                  UserFollows(h, users_log[u], user_db[u], app_user'[u])
    BY <1>2, UserProjection
  <2>2. app_user' \in [Users -> ViewUser \cup {Null}]
    BY <2>1 DEF UsersInv
  <2>3. ASSUME NEW w \in Users
        PROVE  \E h : UserFollows(h, users_log[w], user_db[w], app_user'[w])
    BY <2>1 DEF UsersInv
  <2> QED BY <1>2, <2>2, <2>3 DEF UsersInv
<1>3. CASE UNCHANGED <<user_db, users_log, app_user>>
    BY <1>3 DEF UsersInv
<1>4. ASSUME UserStep(focus.users, focus.bookings), UNCHANGED app_user
      PROVE  UsersInv'
    BY <1>1, <1>4, InScope, UserMoved DEF UserStep
<1>5. ASSUME ProjectionStep, UNCHANGED <<user_db, users_log>>
      PROVE  UsersInv'
    BY <1>2, <1>3, <1>5
    DEF ProjectionStep, ProjectSpot, ProjectBooking, ProjectPayment, ProjectPayout
<1>6. ASSUME WriterStep, ~UserStep(focus.users, focus.bookings)
      PROVE  UNCHANGED <<user_db, users_log>>
    BY <1>6
    DEF WriterStep, Tick, SpotStep, BookingStep, PaymentStep, PayoutStep, Reserve, Confirm, Release, Cancel,
        Rate, WriteBooking, OpenCharge, SettleCharge, Refund, WritePayment, RequestPayout, FinishPayout,
        WritePayout, userVars
<1> QED
    BY <1>3, <1>4, <1>5, <1>6 DEF Next, vars, upstreamVars, viewVars, userVars

\* A step of a projector moves one account's watermark, and forward.
LEMMA SeenStep ==
    ASSUME UsersInv, [Next]_vars, NEW u \in Users, seen_at(u) # Null
    PROVE  seen_at(u)' # Null /\ seen_at(u) <= seen_at(u)'
<1>1. app_user[u] # Null /\ seen_at(u) = app_user[u].seen_at
    BY DEF seen_at
<1>2. seen_at(u) \in Nat
    BY <1>1 DEF UsersInv, ViewUser
<1>3. ASSUME NEW w \in Users, ProjectUser(w)
      PROVE  seen_at(u)' # Null /\ seen_at(u) <= seen_at(u)'
  <2>1. /\ app_user' = [app_user EXCEPT ![w] = app_user'[w]]
        /\ app_user'[w] \in ViewUser
        /\ app_user[w] # Null /\ app_user[w].seen_at # Null =>
               app_user'[w].seen_at # Null /\ app_user[w].seen_at <= app_user'[w].seen_at
    BY <1>3, UserProjection
  <2>2. CASE w = u
    <3>1. app_user'[u] # Null
      BY <2>1, <2>2, NullAssumption
    <3>2. seen_at(u)' = app_user'[u].seen_at
      BY <3>1 DEF seen_at
    <3> QED BY <1>1, <2>1, <2>2, <3>2
  <2>3. CASE w # u
    <3>1. app_user'[u] = app_user[u]
      BY <2>1, <2>3 DEF UsersInv
    <3>2. seen_at(u)' = seen_at(u)
      BY <3>1 DEF seen_at
    <3> QED BY <1>2, <3>2
  <2> QED BY <2>2, <2>3
<1>4. CASE UNCHANGED app_user
  <2>1. seen_at(u)' = seen_at(u)
    BY <1>4 DEF seen_at
  <2> QED BY <1>2, <2>1
<1> QED
    BY <1>3, <1>4
    DEF Next, vars, viewVars, ProjectionStep, ProjectSpot, ProjectBooking, ProjectPayment, ProjectPayout

-----------------------------------------------------------------------------
(* SPOTS *)

\* The row an edit leaves, and a deletion.
EditedListing(row, patch) ==
    [version |-> row.version + 1, host |-> row.host, title |-> Coalesce(patch.title, row.title),
     active |-> Coalesce(patch.active, row.active), deleted |-> row.deleted, point |-> row.point]

DeletedListing(row) ==
    [version |-> row.version + 1, host |-> row.host, title |-> row.title, active |-> FALSE,
     deleted |-> TRUE, point |-> row.point]

SpotMoves ==
    {m \in (Listing \cup {Null}) \X SpotEvent \X Listing :
        \/ /\ m[1] = Null
           /\ m[2] = [type |-> "Created", host |-> m[3].host, title |-> m[3].title, point |-> m[3].point]
           /\ m[3] = [version |-> 1, host |-> m[3].host, title |-> m[3].title, active |-> TRUE,
                      deleted |-> FALSE, point |-> m[3].point]
        \/ m[1] # Null /\ m[2].type = "Updated" /\ m[3] = EditedListing(m[1], m[2].patch)
        \/ m[1] # Null /\ m[2].type = "Deleted" /\ m[3] = DeletedListing(m[1])}

\* A row of the read model is its owner's row of that version.
SpotMirrors(h, log, row) ==
    /\ \A v \in 1..Len(log) : h[v].version = v
    /\ row # Null => row.version \in 1..Len(log) /\ row = h[row.version]

SpotFollows(h, log, listing, row) ==
    History(h, log, listing, Listing \cup {Null}, SpotMoves) /\ SpotMirrors(h, log, row)

SpotsInv ==
    /\ SpotTypeOK
    /\ \A r \in SpotRequests : spot_call[r] # Null => spot_db[spot_call[r].spot] # Null
    /\ spot \in [Spots -> ViewSpot \cup {Null}]
    /\ \A s \in Spots : \E h : SpotFollows(h, spots_log[s], spot_db[s], spot[s])

\* The two tables have the same columns.
LEMMA SameColumns == ViewSpot = Listing
BY DEF ViewSpot, Listing

\* What the transactions of spot-service write.
LEMMA ListingWritten ==
    ASSUME NEW row \in Listing
    PROVE  /\ \A patch \in UpdateSpotRequest :
                  /\ [Patched(row, patch) EXCEPT !.version = @ + 1] = EditedListing(row, patch)
                  /\ EditedListing(row, patch) \in Listing
           /\ [Withdrawn(row) EXCEPT !.version = @ + 1] = DeletedListing(row)
           /\ DeletedListing(row) \in Listing
<1>1. ASSUME NEW patch \in UpdateSpotRequest
      PROVE  /\ [Patched(row, patch) EXCEPT !.version = @ + 1] = EditedListing(row, patch)
             /\ EditedListing(row, patch) \in Listing
  <2>1. PICK title : title = Coalesce(patch.title, row.title)
    OBVIOUS
  <2>2. PICK active : active = Coalesce(patch.active, row.active)
    OBVIOUS
  <2>3. title \in Titles /\ active \in BOOLEAN
    BY <2>1, <2>2 DEF Coalesce, Listing, UpdateSpotRequest
  <2>4. PICK half : half = [version |-> row.version, host |-> row.host, title |-> title,
                            active |-> active, deleted |-> row.deleted, point |-> row.point]
    OBVIOUS
  <2>5. Patched(row, patch) = half
    <3>1. Patched(row, patch) = [row EXCEPT !.title = title, !.active = active]
      BY <2>1, <2>2 DEF Patched, Listing
    <3> QED BY ONLY <2>4, <3>1, row \in Listing DEF Listing
  <2>6. [half EXCEPT !.version = @ + 1] =
            [version |-> row.version + 1, host |-> row.host, title |-> title,
             active |-> active, deleted |-> row.deleted, point |-> row.point]
    BY ONLY <2>4
  <2> QED BY <2>1, <2>2, <2>3, <2>5, <2>6 DEF EditedListing, Listing
<1>2. [Withdrawn(row) EXCEPT !.version = @ + 1] = DeletedListing(row)
  <2>1. PICK half : half = [row EXCEPT !.active = FALSE, !.deleted = TRUE]
    OBVIOUS
  <2>2. /\ half \in Listing /\ half.version = row.version /\ half.host = row.host
        /\ half.title = row.title /\ half.active = FALSE /\ half.deleted = TRUE /\ half.point = row.point
    BY <2>1 DEF Listing
  <2>3. PICK succ : succ = [half EXCEPT !.version = @ + 1]
    OBVIOUS
  <2>4. /\ succ \in Listing /\ succ.version = row.version + 1 /\ succ.host = row.host
        /\ succ.title = row.title /\ succ.active = FALSE /\ succ.deleted = TRUE /\ succ.point = row.point
    BY ONLY <2>2, <2>3, row \in Listing DEF Listing
  <2>5. succ = DeletedListing(row)
    BY ONLY <2>4 DEF DeletedListing, Listing
  <2>6. Withdrawn(row) = half
    BY <2>1 DEF Withdrawn
  <2> QED BY <2>3, <2>5, <2>6
<1>3. DeletedListing(row) \in Listing
    BY DEF DeletedListing, Listing
<1> QED BY <1>1, <1>2, <1>3

\* A write of spot-service.
LEMMA SpotWritten ==
    ASSUME NEW log \in Seq(SpotEvent), NEW listing, NEW row \in ViewSpot \cup {Null},
           \E h : SpotFollows(h, log, listing, row),
           NEW e \in SpotEvent, NEW succ \in Listing, <<listing, e, succ>> \in SpotMoves
    PROVE  /\ Append(log, e) \in Seq(SpotEvent)
           /\ \E h : SpotFollows(h, Append(log, e), succ, row)
<1>1. PICK h : SpotFollows(h, log, listing, row)
    OBVIOUS
<1>2. PICK R : R = Listing \cup {Null}
    OBVIOUS
<1>3. History(h, log, listing, R, SpotMoves) /\ succ \in R /\ SpotMirrors(h, log, row)
    BY <1>1, <1>2 DEF SpotFollows
<1>4. /\ Append(log, e) \in Seq(SpotEvent)
      /\ Len(Append(log, e)) = Len(log) + 1 /\ Len(log) \in Nat
      /\ \E k : History(k, Append(log, e), succ, R, SpotMoves) /\ \A v \in 0..Len(log) : k[v] = h[v]
    BY <1>3, HistoryGrows
<1>5. PICK k : History(k, Append(log, e), succ, R, SpotMoves) /\ \A v \in 0..Len(log) : k[v] = h[v]
    BY <1>4
<1>6. PICK n : n = Len(log)
    OBVIOUS
<1>7. k[n + 1] = succ /\ h[n] = listing /\ h[0] = Null
    BY <1>3, <1>4, <1>5, <1>6 DEF History
<1>8. succ.version = n + 1
  <2>1. CASE listing = Null
    <3>1. succ.version = 1
      BY <2>1 DEF SpotMoves
    <3>2. n = 0
      <4>1. ASSUME n # 0
            PROVE  FALSE
        <5>1. <<h[n - 1], log[n], h[n]>> \in SpotMoves
          BY <1>3, <1>4, <1>6, <4>1 DEF History
        <5> QED BY <1>7, <2>1, <5>1, NullAssumption DEF SpotMoves
      <4> QED BY <4>1
    <3> QED BY <3>1, <3>2
  <2>2. CASE listing # Null
    <3>1. succ.version = listing.version + 1
      BY <2>2 DEF SpotMoves, EditedListing, DeletedListing
    <3>2. n # 0
      BY <1>7, <2>2
    <3>3. listing.version = n
      BY <1>3, <1>4, <1>6, <1>7, <3>2 DEF SpotMirrors
    <3> QED BY <3>1, <3>3
  <2> QED BY <2>1, <2>2
<1>9. SpotMirrors(k, Append(log, e), row)
    BY <1>3, <1>4, <1>5, <1>6, <1>7, <1>8 DEF SpotMirrors
<1> QED BY <1>2, <1>4, <1>5, <1>9 DEF SpotFollows

\* A row as the arms of the projector leave it.
SpotArm(row, v, e, succ) ==
    \/ e.type = "Created" /\ succ = At(MergeSpot(row, CreatedPatch(e)), v)
    \/ e.type = "Updated" /\ succ = At(PatchSpot(row, UpdatedPatch(e)), v)
    \/ e.type = "Deleted" /\ succ = At(PatchSpot(row, DeletedPatch), v)

\* The columns a listing has, as a function.
LEMMA ListingColumns ==
    ASSUME NEW row \in Listing
    PROVE  LET D == {"version", "host", "title", "active", "deleted", "point"}
           IN DOMAIN row = D /\ row = [c \in D |-> row[c]]
BY DEF Listing

\* set_version!
LEMMA ListingAt ==
    ASSUME NEW row \in Listing, NEW v \in Nat
    PROVE  At(row, v) = [version |-> v, host |-> row.host, title |-> row.title, active |-> row.active,
                         deleted |-> row.deleted, point |-> row.point]
BY DEF At, Listing

\* The changeset of an edit and of a deletion, column by column.
LEMMA PatchColumns ==
    ASSUME NEW title, NEW active, NEW deleted
    PROVE  /\ [NoPatch EXCEPT !.title = title, !.active = active]
                  = [host |-> Null, title |-> title, active |-> active, deleted |-> Null, point |-> Null]
           /\ [NoPatch EXCEPT !.active = active, !.deleted = deleted]
                  = [host |-> Null, title |-> Null, active |-> active, deleted |-> deleted, point |-> Null]
<1>1. PICK none : none = NoPatch
    OBVIOUS
<1>2. none = [c \in {"host", "title", "active", "deleted", "point"} |-> Null]
    BY <1>1 DEF NoPatch
<1>3. PICK edit : edit = [none EXCEPT !.title = title, !.active = active]
    OBVIOUS
<1>4. /\ DOMAIN edit = {"host", "title", "active", "deleted", "point"}
      /\ edit = [c \in DOMAIN edit |-> edit[c]]
      /\ edit.host = Null /\ edit.title = title /\ edit.point = Null
    BY <1>2, <1>3
<1>5. edit.active = active /\ edit.deleted = Null
    BY <1>2, <1>3
<1>6. edit = [host |-> Null, title |-> title, active |-> active, deleted |-> Null, point |-> Null]
    BY ONLY <1>4, <1>5
<1>7. PICK gone : gone = [none EXCEPT !.active = active, !.deleted = deleted]
    OBVIOUS
<1>8. /\ DOMAIN gone = {"host", "title", "active", "deleted", "point"}
      /\ gone = [c \in DOMAIN gone |-> gone[c]]
      /\ gone.host = Null /\ gone.title = Null /\ gone.point = Null
    BY <1>2, <1>7
<1>9. gone.active = active /\ gone.deleted = deleted
    BY <1>2, <1>7
<1>10. gone = [host |-> Null, title |-> Null, active |-> active, deleted |-> deleted, point |-> Null]
    BY ONLY <1>8, <1>9
<1> QED BY <1>1, <1>3, <1>6, <1>7, <1>10, Zenon

\* The columns a patch has no value for stay.
LEMMA ListingPatched ==
    ASSUME NEW row \in Listing, NEW changes, NEW title, NEW active, NEW deleted,
           changes = [host |-> Null, title |-> title, active |-> active, deleted |-> deleted,
                      point |-> Null],
           NEW new \in Listing,
           new = [version |-> row.version, host |-> row.host, title |-> Coalesce(title, row.title),
                  active |-> Coalesce(active, row.active), deleted |-> Coalesce(deleted, row.deleted),
                  point |-> row.point],
           NEW v \in Nat
    PROVE  At(PatchSpot(row, changes), v)
               = [version |-> v, host |-> row.host, title |-> Coalesce(title, row.title),
                  active |-> Coalesce(active, row.active), deleted |-> Coalesce(deleted, row.deleted),
                  point |-> row.point]
<1>1. PICK D : D = {"version", "host", "title", "active", "deleted", "point"}
    OBVIOUS
<1>2. DOMAIN row = D /\ new = [c \in D |-> new[c]]
    BY <1>1, ListingColumns
<1>3. \A c \in D : new[c] = IF c \in DOMAIN changes /\ changes[c] # Null THEN changes[c] ELSE row[c]
    BY <1>1 DEF Coalesce
<1>4. Set(row, changes) = new
    BY <1>2, <1>3, SetIs
<1>5. PatchSpot(row, changes) = new
    BY <1>4, NullAssumption DEF PatchSpot
<1>6. At(new, v) = [version |-> v, host |-> new.host, title |-> new.title, active |-> new.active,
                    deleted |-> new.deleted, point |-> new.point]
    BY ListingAt
<1>7. /\ new.host = row.host /\ new.title = Coalesce(title, row.title)
      /\ new.active = Coalesce(active, row.active) /\ new.deleted = Coalesce(deleted, row.deleted)
      /\ new.point = row.point
    OBVIOUS
<1> QED BY <1>5, <1>6, <1>7, Zenon

\* An edit changes the columns it carries.
LEMMA SpotEdited ==
    ASSUME NEW row \in Listing, NEW patch \in UpdateSpotRequest, NEW e, e.patch = patch
    PROVE  At(PatchSpot(row, UpdatedPatch(e)), row.version + 1) = EditedListing(row, patch)
<1>1. PICK title : title = patch.title
    OBVIOUS
<1>2. PICK active : active = patch.active
    OBVIOUS
<1>3. PICK changes : changes = [host |-> Null, title |-> title, active |-> active, deleted |-> Null,
                                point |-> Null]
    OBVIOUS
<1>4. UpdatedPatch(e) = changes
  <2>1. [NoPatch EXCEPT !.title = title, !.active = active] = changes
    BY <1>3, PatchColumns, Zenon
  <2> QED BY <1>1, <1>2, <2>1, Zenon DEF UpdatedPatch
<1>5. PICK new : new = [version |-> row.version, host |-> row.host, title |-> Coalesce(title, row.title),
                        active |-> Coalesce(active, row.active), deleted |-> Coalesce(Null, row.deleted),
                        point |-> row.point]
    OBVIOUS
<1>6. new \in Listing /\ row.version + 1 \in Nat
    BY <1>1, <1>2, <1>5 DEF Listing, UpdateSpotRequest, Coalesce
<1>7. At(PatchSpot(row, changes), row.version + 1)
          = [version |-> row.version + 1, host |-> row.host, title |-> Coalesce(title, row.title),
             active |-> Coalesce(active, row.active), deleted |-> Coalesce(Null, row.deleted),
             point |-> row.point]
    BY <1>3, <1>5, <1>6, ListingPatched
<1>8. Coalesce(Null, row.deleted) = row.deleted
    BY DEF Coalesce
<1> QED BY <1>1, <1>2, <1>4, <1>7, <1>8, Zenon DEF EditedListing

\* A deletion clears the switch too.
LEMMA SpotRemoved ==
    ASSUME NEW row \in Listing
    PROVE  At(PatchSpot(row, DeletedPatch), row.version + 1) = DeletedListing(row)
<1>1. PICK no : no = FALSE
    OBVIOUS
<1>2. PICK yes : yes = TRUE
    OBVIOUS
<1>3. no # Null /\ yes # Null
    BY <1>1, <1>2, SpotAssumption, Zenon
<1>4. PICK changes : changes = [host |-> Null, title |-> Null, active |-> no, deleted |-> yes,
                                point |-> Null]
    OBVIOUS
<1>5. DeletedPatch = changes
  <2>1. [NoPatch EXCEPT !.active = no, !.deleted = yes] = changes
    BY <1>4, PatchColumns, Zenon
  <2> QED BY <1>1, <1>2, <2>1, Zenon DEF DeletedPatch
<1>6. PICK new : new = [version |-> row.version, host |-> row.host, title |-> Coalesce(Null, row.title),
                        active |-> Coalesce(no, row.active), deleted |-> Coalesce(yes, row.deleted),
                        point |-> row.point]
    OBVIOUS
<1>7. Coalesce(Null, row.title) = row.title /\ Coalesce(no, row.active) = no
      /\ Coalesce(yes, row.deleted) = yes
    BY <1>3 DEF Coalesce
<1>8. no \in BOOLEAN /\ yes \in BOOLEAN
    BY <1>1, <1>2
<1>9. new \in Listing /\ row.version + 1 \in Nat
    BY <1>6, <1>7, <1>8 DEF Listing
<1>10. At(PatchSpot(row, changes), row.version + 1)
          = [version |-> row.version + 1, host |-> row.host, title |-> Coalesce(Null, row.title),
             active |-> Coalesce(no, row.active), deleted |-> Coalesce(yes, row.deleted),
             point |-> row.point]
    BY <1>4, <1>6, <1>9, ListingPatched
<1> QED BY <1>1, <1>2, <1>5, <1>7, <1>10, Zenon DEF DeletedListing

\* A row appears with the columns of its event and the table's defaults.
LEMMA SpotAppears ==
    ASSUME NEW e, e.host \in Users, e.title \in Titles, e.point \in Points
    PROVE  At(MergeSpot(Null, CreatedPatch(e)), 1)
               = [version |-> 1, host |-> e.host, title |-> e.title, active |-> TRUE,
                  deleted |-> FALSE, point |-> e.point]
<1>1. PICK no : no = FALSE
    OBVIOUS
<1>2. PICK yes : yes = TRUE
    OBVIOUS
<1>3. no # Null /\ yes # Null /\ e.host # Null /\ e.title # Null /\ e.point # Null
    BY <1>1, <1>2, SpotAssumption, Zenon
<1>4. PICK changes : changes = [host |-> e.host, title |-> e.title, active |-> yes,
                                deleted |-> no, point |-> e.point]
    OBVIOUS
<1>5. CreatedPatch(e) = changes
    BY <1>1, <1>2, <1>4, Zenon DEF CreatedPatch
<1>6. PICK new : new = [version |-> 0, host |-> e.host, title |-> e.title, active |-> yes,
                        deleted |-> no, point |-> e.point]
    OBVIOUS
<1>7. no \in BOOLEAN /\ yes \in BOOLEAN
    BY <1>1, <1>2
<1>8. new \in Listing
    BY <1>6, <1>7 DEF Listing
<1>9. PICK D : D = {"version", "host", "title", "active", "deleted", "point"}
    OBVIOUS
<1>10. PICK old : old = [version |-> 0, host |-> Null, title |-> Null, active |-> yes,
                        deleted |-> no, point |-> Null]
    OBVIOUS
<1>11. DOMAIN old = D /\ new = [c \in D |-> new[c]]
    BY <1>8, <1>9, <1>10, ListingColumns
<1>12. \A c \in D : new[c] = IF c \in DOMAIN changes /\ changes[c] # Null THEN changes[c] ELSE old[c]
    BY <1>3, <1>4, <1>6, <1>9, <1>10
<1>13. Set(old, changes) = new
    BY <1>11, <1>12, SetIs
<1>14. DefaultSpot = old
    BY <1>1, <1>2, <1>10, Zenon DEF DefaultSpot
<1>15. MergeSpot(Null, CreatedPatch(e)) = new
    BY <1>5, <1>13, <1>14 DEF MergeSpot
<1>16. At(new, 1) = [version |-> 1, host |-> new.host, title |-> new.title, active |-> new.active,
                     deleted |-> new.deleted, point |-> new.point]
    BY <1>8, ListingAt
<1>17. /\ new.host = e.host /\ new.title = e.title /\ new.active = yes /\ new.deleted = no
       /\ new.point = e.point
    BY <1>6
<1> QED BY <1>1, <1>2, <1>15, <1>16, <1>17, Zenon

\* A row one event further is its owner's row of then.
LEMMA SpotProjected ==
    ASSUME NEW log \in Seq(SpotEvent), NEW listing, NEW row \in ViewSpot \cup {Null}, NEW h,
           SpotFollows(h, log, listing, row),
           NEW v \in DOMAIN log, Due(row, v), NEW succ, SpotArm(row, v, log[v], succ)
    PROVE  /\ succ \in ViewSpot /\ succ.version = Stored(row) + 1
           /\ SpotFollows(h, log, listing, succ)
<1>1. PICK e : e = log[v]
    OBVIOUS
<1>2. v \in 1..Len(log) /\ Len(log) \in Nat /\ e \in SpotEvent
    BY <1>1, ElementOfSeq, LenProperties
<1>3. <<h[v - 1], e, h[v]>> \in SpotMoves /\ h[0] = Null
    BY <1>1, <1>2 DEF SpotFollows, History
<1>4. h[v] \in Listing /\ SpotArm(row, v, e, succ) /\ v = Stored(row) + 1
    BY <1>1, <1>3 DEF SpotMoves, Due
<1>5. h[v].version = v
    BY <1>2 DEF SpotFollows, SpotMirrors
<1>6. succ = h[v]
  <2>1. CASE row = Null
    <3>1. v = 1 /\ h[v - 1] = Null
      BY <1>3, <1>4, <2>1 DEF Stored
    <3>2. /\ e = [type |-> "Created", host |-> h[v].host, title |-> h[v].title, point |-> h[v].point]
          /\ h[v] = [version |-> 1, host |-> h[v].host, title |-> h[v].title, active |-> TRUE,
                     deleted |-> FALSE, point |-> h[v].point]
      BY <1>3, <3>1, NullAssumption DEF SpotMoves
    <3>3. /\ e.type = "Created" /\ e.host = h[v].host /\ e.title = h[v].title /\ e.point = h[v].point
          /\ e.host \in Users /\ e.title \in Titles /\ e.point \in Points
      BY <1>4, <3>2 DEF Listing
    <3>4. succ = At(MergeSpot(Null, CreatedPatch(e)), 1)
      BY <1>4, <2>1, <3>1, <3>3 DEF SpotArm
    <3>5. succ = [version |-> 1, host |-> e.host, title |-> e.title, active |-> TRUE,
                  deleted |-> FALSE, point |-> e.point]
      BY <3>3, <3>4, SpotAppears
    <3> QED BY <3>2, <3>3, <3>5, Zenon
  <2>2. CASE row # Null
    <3>1. /\ row \in Listing /\ row.version \in 1..Len(log) /\ row = h[row.version]
          /\ v = row.version + 1
      BY <1>4, <2>2, SameColumns DEF SpotFollows, SpotMirrors, Stored
    <3>2. h[v - 1] = row /\ row # Null
      BY <1>2, <2>2, <3>1
    <3>3. \/ e.type = "Updated" /\ h[v] = EditedListing(row, e.patch)
          \/ e.type = "Deleted" /\ h[v] = DeletedListing(row)
      BY <1>3, <3>2 DEF SpotMoves
    <3>4. CASE e.type = "Updated"
      <4>1. e.patch \in UpdateSpotRequest
        BY <1>2, <3>4 DEF SpotEvent
      <4>2. succ = At(PatchSpot(row, UpdatedPatch(e)), row.version + 1)
        BY <1>4, <3>1, <3>4 DEF SpotArm
      <4> QED BY <3>1, <3>3, <3>4, <4>1, <4>2, SpotEdited
    <3>5. CASE e.type = "Deleted"
      <4>1. succ = At(PatchSpot(row, DeletedPatch), row.version + 1)
        BY <1>4, <3>1, <3>5 DEF SpotArm
      <4> QED BY <3>1, <3>3, <3>5, <4>1, SpotRemoved
    <3> QED BY <3>3, <3>4, <3>5
  <2> QED BY <2>1, <2>2
<1>7. succ \in ViewSpot /\ succ.version = v
    BY <1>4, <1>5, <1>6, SameColumns
<1>8. SpotMirrors(h, log, succ)
    BY <1>2, <1>6, <1>7 DEF SpotFollows, SpotMirrors
<1> QED BY <1>4, <1>7, <1>8 DEF SpotFollows

\* What a step of the projector does to the table.
LEMMA SpotProjection ==
    ASSUME SpotsInv, NEW s \in Spots, ProjectSpot(s)
    PROVE  /\ spot' = [spot EXCEPT ![s] = spot'[s]]
           /\ spot'[s] \in ViewSpot /\ spot'[s].version = Stored(spot[s]) + 1
           /\ \E h : SpotFollows(h, spots_log[s], spot_db[s], spot'[s])
<1> DEFINE row == spot[s]
           log == spots_log[s]
           succ == spot'[s]
<1>1. row \in ViewSpot \cup {Null} /\ log \in Seq(SpotEvent) /\ DOMAIN spot = Spots
    BY DEF SpotsInv, SpotTypeOK
<1>2. PICK v \in DOMAIN log :
          Due(row, v) /\ (SpotCreated(s, v, log[v]) \/ SpotUpdated(s, v, log[v]) \/ SpotDeleted(s, v, log[v]))
    BY DEF ProjectSpot
<1>3. spot' = [spot EXCEPT ![s] = succ] /\ SpotArm(row, v, log[v], succ)
    BY <1>1, <1>2 DEF SpotCreated, SpotUpdated, SpotDeleted, SpotArm
<1>4. PICK listing : listing = spot_db[s]
    OBVIOUS
<1> HIDE DEF row, log, succ
<1>5. \E h : SpotFollows(h, log, listing, row)
    BY <1>4 DEF SpotsInv, row, log
<1>6. PICK h : SpotFollows(h, log, listing, row)
    BY <1>5
<1>7. /\ succ \in ViewSpot /\ succ.version = Stored(row) + 1
      /\ SpotFollows(h, log, listing, succ)
    BY <1>1, <1>2, <1>3, <1>6, SpotProjected
<1> QED BY <1>3, <1>4, <1>7 DEF row, log, succ

\* Every transaction of spot-service is a move.
LEMMA SpotMoved ==
    ASSUME SpotsInv, NEW s \in Spots, NEW succ, NEW e, WriteSpot(s, succ, e),
           \/ \E title \in Titles, address \in Addresses :
                 /\ spot_db[s] = Null /\ PointOf[address] # Null
                 /\ succ = CreatedSpot(s, title, PointOf[address])
                 /\ e = [type |-> "Created", host |-> HostOf[s], title |-> title,
                         point |-> PointOf[address]]
           \/ \E patch \in UpdateSpotRequest :
                 /\ spot_db[s] # Null
                 /\ succ = [Patched(spot_db[s], patch) EXCEPT !.version = @ + 1]
                 /\ e = [type |-> "Updated", patch |-> patch]
           \/ /\ spot_db[s] # Null
              /\ succ = [Withdrawn(spot_db[s]) EXCEPT !.version = @ + 1]
              /\ e = [type |-> "Deleted"]
    PROVE  e \in SpotEvent /\ succ \in Listing /\ <<spot_db[s], e, succ>> \in SpotMoves
<1>1. spot_db[s] \in Listing \cup {Null}
    BY DEF SpotsInv, SpotTypeOK
<1>2. ASSUME NEW title \in Titles, NEW address \in Addresses,
             spot_db[s] = Null, PointOf[address] # Null,
             succ = CreatedSpot(s, title, PointOf[address]),
             e = [type |-> "Created", host |-> HostOf[s], title |-> title, point |-> PointOf[address]]
      PROVE  e \in SpotEvent /\ succ \in Listing /\ <<spot_db[s], e, succ>> \in SpotMoves
  <2>1. HostOf[s] \in Users /\ PointOf[address] \in Points
    BY <1>2, SpotAssumption
  <2>2. succ = [version |-> 1, host |-> HostOf[s], title |-> title, active |-> TRUE,
                deleted |-> FALSE, point |-> PointOf[address]]
    BY <1>2 DEF CreatedSpot
  <2>3. succ \in Listing
    BY <2>1, <2>2 DEF Listing
  <2>4. succ.host = HostOf[s] /\ succ.title = title /\ succ.point = PointOf[address]
    BY <2>2
  <2>5. e \in SpotEvent
    BY <1>2, <2>1 DEF SpotEvent
  <2>6. /\ e = [type |-> "Created", host |-> succ.host, title |-> succ.title, point |-> succ.point]
        /\ succ = [version |-> 1, host |-> succ.host, title |-> succ.title, active |-> TRUE,
                   deleted |-> FALSE, point |-> succ.point]
    BY <1>2, <2>2, <2>4, Zenon
  <2> QED BY <1>1, <1>2, <2>3, <2>5, <2>6 DEF SpotMoves
<1>3. ASSUME NEW patch \in UpdateSpotRequest, spot_db[s] # Null,
             succ = [Patched(spot_db[s], patch) EXCEPT !.version = @ + 1],
             e = [type |-> "Updated", patch |-> patch]
      PROVE  e \in SpotEvent /\ succ \in Listing /\ <<spot_db[s], e, succ>> \in SpotMoves
  <2>1. succ = EditedListing(spot_db[s], patch) /\ succ \in Listing
    BY <1>1, <1>3, ListingWritten
  <2>2. e \in SpotEvent /\ e.type = "Updated" /\ e.patch = patch
    BY <1>3 DEF SpotEvent
  <2> QED BY <1>1, <1>3, <2>1, <2>2 DEF SpotMoves
<1>4. ASSUME spot_db[s] # Null, succ = [Withdrawn(spot_db[s]) EXCEPT !.version = @ + 1],
             e = [type |-> "Deleted"]
      PROVE  e \in SpotEvent /\ succ \in Listing /\ <<spot_db[s], e, succ>> \in SpotMoves
  <2>1. succ = DeletedListing(spot_db[s]) /\ succ \in Listing
    BY <1>1, <1>4, ListingWritten
  <2>2. e \in SpotEvent /\ e.type = "Deleted"
    BY <1>4 DEF SpotEvent
  <2> QED BY <1>1, <1>4, <2>1, <2>2 DEF SpotMoves
<1> QED BY <1>2, <1>3, <1>4

\* Listings and their projection.
LEMMA SpotsStep ==
    ASSUME SpotsInv, Scope, [Next]_vars
    PROVE  SpotsInv'
<1>1. ASSUME NEW s \in Spots, NEW e \in SpotEvent, NEW succ \in Listing,
             <<spot_db[s], e, succ>> \in SpotMoves, WriteSpot(s, succ, e), UNCHANGED spot,
             spot_call' \in [SpotRequests -> SpotCall \cup {Null}],
             \A r \in SpotRequests : spot_call'[r] # Null => spot_call'[r] = spot_call[r]
      PROVE  SpotsInv'
  <2>1. /\ Append(spots_log[s], e) \in Seq(SpotEvent)
        /\ \E h : SpotFollows(h, Append(spots_log[s], e), succ, spot[s])
    BY <1>1, SpotWritten DEF SpotsInv, SpotTypeOK
  <2>2. /\ spot_db' = [spot_db EXCEPT ![s] = succ]
        /\ spots_log' = [spots_log EXCEPT ![s] = Append(spots_log[s], e)]
    BY <1>1 DEF WriteSpot
  <2>3. SpotTypeOK'
    BY <1>1, <2>1, <2>2 DEF SpotsInv, SpotTypeOK
  <2>4. ASSUME NEW t \in Spots
        PROVE  \E h : SpotFollows(h, spots_log'[t], spot_db'[t], spot'[t])
    BY <1>1, <2>1, <2>2 DEF SpotsInv, SpotTypeOK
  <2>5. ASSUME NEW r \in SpotRequests, spot_call'[r] # Null
        PROVE  spot_db'[spot_call'[r].spot] # Null
    <3>1. spot_call'[r] = spot_call[r] /\ spot_call[r] \in SpotCall
      BY <1>1, <2>5 DEF SpotsInv, SpotTypeOK
    <3>2. spot_call[r].spot \in Spots /\ spot_db[spot_call[r].spot] # Null
      BY <2>5, <3>1 DEF SpotsInv, SpotCall
    <3> QED BY <2>2, <3>1, <3>2, NullAssumption DEF SpotsInv, SpotTypeOK
  <2> QED BY <1>1, <2>3, <2>4, <2>5 DEF SpotsInv
<1>2. ASSUME NEW s \in Spots, ProjectSpot(s), UNCHANGED <<spot_db, spots_log, spot_call>>
      PROVE  SpotsInv'
  <2>1. /\ spot' = [spot EXCEPT ![s] = spot'[s]]
        /\ spot'[s] \in ViewSpot
        /\ \E h : SpotFollows(h, spots_log[s], spot_db[s], spot'[s])
    BY <1>2, SpotProjection
  <2>2. spot' \in [Spots -> ViewSpot \cup {Null}]
    BY <2>1 DEF SpotsInv
  <2>3. ASSUME NEW t \in Spots
        PROVE  \E h : SpotFollows(h, spots_log[t], spot_db[t], spot'[t])
    BY <2>1 DEF SpotsInv
  <2> QED BY <1>2, <2>2, <2>3 DEF SpotsInv, SpotTypeOK
<1>3. CASE UNCHANGED <<spot_db, spots_log, spot_call, spot>>
    BY <1>3 DEF SpotsInv, SpotTypeOK
<1>4. ASSUME NEW s \in Spots, NEW title \in Titles, NEW a \in Addresses, CreateSpot(s, title, a),
             UNCHANGED spot
      PROVE  SpotsInv'
  <2>1. PICK succ : succ = CreatedSpot(s, title, PointOf[a])
    OBVIOUS
  <2>2. PICK e : e = [type |-> "Created", host |-> HostOf[s], title |-> title, point |-> PointOf[a]]
    OBVIOUS
  <2>3. WriteSpot(s, succ, e) /\ spot_db[s] = Null /\ PointOf[a] # Null /\ spot_call' = spot_call
    BY <1>4, <2>1, <2>2 DEF CreateSpot
  <2>4. e \in SpotEvent /\ succ \in Listing /\ <<spot_db[s], e, succ>> \in SpotMoves
    BY <2>1, <2>2, <2>3, SpotMoved
  <2> QED BY <1>1, <1>4, <2>3, <2>4 DEF SpotsInv, SpotTypeOK
<1>5. ASSUME NEW r \in SpotRequests, UpdateSpot(r) \/ DeleteSpot(r), UNCHANGED spot
      PROVE  SpotsInv'
  <2>1. spot_call[r] # Null /\ spot_call[r] \in SpotCall
    BY <1>5 DEF UpdateSpot, DeleteSpot, SpotsInv, SpotTypeOK
  <2>2. PICK s : s = spot_call[r].spot
    OBVIOUS
  <2>3. s \in Spots /\ spot_db[s] # Null
    BY <2>1, <2>2 DEF SpotCall, SpotsInv
  <2>4. /\ spot_call' = [spot_call EXCEPT ![r] = Null]
        /\ spot_call' \in [SpotRequests -> SpotCall \cup {Null}]
        /\ \A q \in SpotRequests : spot_call'[q] # Null => spot_call'[q] = spot_call[q]
    BY <1>5 DEF UpdateSpot, DeleteSpot, SpotsInv, SpotTypeOK
  <2>5. CASE UpdateSpot(r)
    <3>1. PICK patch : patch = spot_call[r].patch
      OBVIOUS
    <3>2. patch \in UpdateSpotRequest
      BY <2>1, <2>5, <3>1 DEF UpdateSpot, SpotCall
    <3>3. PICK succ : succ = [Patched(spot_db[s], patch) EXCEPT !.version = @ + 1]
      OBVIOUS
    <3>4. PICK e : e = [type |-> "Updated", patch |-> patch]
      OBVIOUS
    <3>5. WriteSpot(s, succ, e)
      BY <2>2, <2>5, <3>1, <3>3, <3>4 DEF UpdateSpot
    <3>6. e \in SpotEvent /\ succ \in Listing /\ <<spot_db[s], e, succ>> \in SpotMoves
      BY <2>3, <3>2, <3>3, <3>4, <3>5, SpotMoved
    <3> QED BY <1>1, <1>5, <2>3, <2>4, <3>5, <3>6
  <2>6. CASE DeleteSpot(r)
    <3>1. PICK succ : succ = [Withdrawn(spot_db[s]) EXCEPT !.version = @ + 1]
      OBVIOUS
    <3>2. PICK e : e = [type |-> "Deleted"]
      OBVIOUS
    <3>3. WriteSpot(s, succ, e)
      BY <2>2, <2>6, <3>1, <3>2 DEF DeleteSpot
    <3>4. e \in SpotEvent /\ succ \in Listing /\ <<spot_db[s], e, succ>> \in SpotMoves
      BY <2>3, <3>1, <3>2, <3>3, SpotMoved
    <3> QED BY <1>1, <1>5, <2>3, <2>4, <3>3, <3>4
  <2> QED BY <1>5, <2>5, <2>6
<1>6. ASSUME NEW r \in SpotRequests, NEW u \in Users, NEW s \in Spots,
             NEW patch \in UpdateSpotRequest \cup {Null}, AuthorizeSpot(r, u, s, patch), UNCHANGED spot
      PROVE  SpotsInv'
  <2>1. /\ spot_call' = [spot_call EXCEPT ![r] = [spot |-> s, patch |-> patch]]
        /\ spot_db' = spot_db /\ spots_log' = spots_log /\ spot_db[s] # Null
    BY <1>6 DEF AuthorizeSpot, Owned
  <2>2. [spot |-> s, patch |-> patch] \in SpotCall
    BY DEF SpotCall
  <2>3. SpotTypeOK'
    BY <2>1, <2>2 DEF SpotsInv, SpotTypeOK
  <2>4. ASSUME NEW q \in SpotRequests, spot_call'[q] # Null
        PROVE  spot_db'[spot_call'[q].spot] # Null
    BY <2>1, <2>4 DEF SpotsInv, SpotTypeOK
  <2> QED BY <1>6, <2>1, <2>3, <2>4 DEF SpotsInv
<1>7. ASSUME SpotStep(focus.spots), UNCHANGED spot
      PROVE  SpotsInv'
  <2>1. SpotNext(focus.spots)
    BY <1>7 DEF SpotStep
  <2> QED BY <1>4, <1>5, <1>6, <1>7, <2>1, InScope DEF SpotNext
<1>8. ASSUME ProjectionStep, UNCHANGED <<spot_db, spots_log, spot_call>>
      PROVE  SpotsInv'
    BY <1>2, <1>3, <1>8
    DEF ProjectionStep, ProjectUser, ProjectBooking, ProjectPayment, ProjectPayout
<1>9. ASSUME WriterStep, ~SpotStep(focus.spots)
      PROVE  UNCHANGED <<spot_db, spots_log, spot_call>>
    BY <1>9
    DEF WriterStep, Tick, UserStep, BookingStep, PaymentStep, PayoutStep, Register, Rename, UserMarker,
        SeeNotifications, DismissNotification, WriteUser, Reserve, Confirm, Release, Cancel,
        Rate, WriteBooking, OpenCharge, SettleCharge, Refund, WritePayment, RequestPayout, FinishPayout,
        WritePayout, spotServiceVars
<1> QED
    BY <1>3, <1>7, <1>8, <1>9 DEF Next, vars, upstreamVars, viewVars, spotServiceVars

-----------------------------------------------------------------------------
(* BOOKINGS *)

BookingCreation(b) ==
    [type |-> "Created", spot |-> SpotOf[b], host |-> HostOf[SpotOf[b]], renter |-> RenterOf[b],
     ends_at |-> EndsAt[b]]

BookingEvent ==
    [type : {"Created"}, spot : Spots, host : Users, renter : Users, ends_at : Nat] \cup
    [type : {"Confirmed"}, at : Nat] \cup [type : {"Released", "Cancelled"}] \cup
    [type : {"Rated"}, rating : Ratings]

BookingMoves(b) ==
    {m \in (BookingRow \cup {Null}) \X BookingEvent \X BookingRow :
        \/ /\ m[1] = Null /\ m[2] = BookingCreation(b)
           /\ m[3].status = "reserved" /\ m[3].hold = TRUE /\ m[3].rating = Null
        \/ /\ m[1] # Null /\ m[1].status = "reserved" /\ m[2].type = "Confirmed"
           /\ m[3].status = "confirmed" /\ m[3].hold = FALSE /\ m[3].rating = m[1].rating
        \/ /\ m[1] # Null /\ m[1].status = "reserved" /\ m[2].type = "Released"
           /\ m[3].status = "released" /\ m[3].hold = FALSE /\ m[3].rating = m[1].rating
        \/ /\ m[1] # Null /\ m[1].status = "confirmed" /\ m[2].type = "Cancelled"
           /\ m[3].status = "cancelled" /\ m[3].hold = FALSE /\ m[3].rating = m[1].rating
        \/ /\ m[1] # Null /\ m[1].status = "confirmed" /\ m[2].type = "Rated"
           /\ m[3].status = "confirmed" /\ m[3].hold = m[1].hold /\ m[3].rating = m[2].rating}

\* What a row of booking-service looks like in the read model.
ShownBooking(b, row, v) ==
    [version |-> v, spot |-> SpotOf[b], host |-> HostOf[SpotOf[b]], renter |-> RenterOf[b],
     ends_at |-> EndsAt[b], status |-> row.status, hold |-> row.hold, rating |-> row.rating]

BookingMirrors(b, h, log, row) ==
    row # Null => row.version \in 1..Len(log) /\ row = ShownBooking(b, h[row.version], row.version)

BookingFollows(b, h, log, held, row) ==
    History(h, log, held, BookingRow \cup {Null}, BookingMoves(b)) /\ BookingMirrors(b, h, log, row)

BookingsInv ==
    /\ booking_db \in [Bookings -> BookingRow \cup {Null}]
    /\ bookings_log \in [Bookings -> Seq(BookingEvent)]
    /\ booking \in [Bookings -> ViewBooking \cup {Null}]
    /\ \A b \in Bookings : \E h :
           BookingFollows(b, h, bookings_log[b], booking_db[b], booking[b])

\* A write of booking-service.
LEMMA BookingWritten ==
    ASSUME NEW b \in Bookings, NEW log \in Seq(BookingEvent), NEW held, NEW row \in ViewBooking \cup {Null},
           \E h : BookingFollows(b, h, log, held, row),
           NEW e \in BookingEvent, NEW succ \in BookingRow, <<held, e, succ>> \in BookingMoves(b)
    PROVE  /\ Append(log, e) \in Seq(BookingEvent)
           /\ \E h : BookingFollows(b, h, Append(log, e), succ, row)
<1>1. PICK h : BookingFollows(b, h, log, held, row)
    OBVIOUS
<1>2. PICK R : R = BookingRow \cup {Null}
    OBVIOUS
<1>3. PICK Moves : Moves = BookingMoves(b)
    OBVIOUS
<1>4. History(h, log, held, R, Moves) /\ succ \in R /\ <<held, e, succ>> \in Moves
    BY <1>1, <1>2, <1>3 DEF BookingFollows
<1>5. /\ Append(log, e) \in Seq(BookingEvent)
      /\ Len(Append(log, e)) = Len(log) + 1 /\ Len(log) \in Nat
      /\ \E k : History(k, Append(log, e), succ, R, Moves) /\ \A v \in 0..Len(log) : k[v] = h[v]
    BY <1>4, HistoryGrows
<1>6. PICK k : History(k, Append(log, e), succ, R, Moves) /\ \A v \in 0..Len(log) : k[v] = h[v]
    BY <1>5
<1>7. BookingMirrors(b, k, Append(log, e), row)
    BY <1>1, <1>5, <1>6 DEF BookingFollows, BookingMirrors
<1> QED BY <1>2, <1>3, <1>5, <1>6, <1>7 DEF BookingFollows

\* A row as the arms of the projector leave it.
Turned(row, from, to) ==
    IF row.status = from THEN [Set(row, ViewBookingPatch(to)) EXCEPT !.hold = FALSE] ELSE row

BookingArm(row, v, e, succ) ==
    \/ e.type = "Created" /\ succ = Upsert(row, CreatedBooking(e, v))
    \/ e.type = "Confirmed" /\ succ = At(Turned(row, "reserved", "confirmed"), v)
    \/ e.type = "Released" /\ succ = At(Turned(row, "reserved", "released"), v)
    \/ e.type = "Cancelled" /\ succ = At(Turned(row, "confirmed", "cancelled"), v)
    \/ e.type = "Rated" /\ succ = At(Rated(row, e.rating), v)

\* A row is told by its columns.
LEMMA BookingColumns ==
    ASSUME NEW row \in ViewBooking
    PROVE  row = [version |-> row.version, spot |-> row.spot, host |-> row.host, renter |-> row.renter,
                  ends_at |-> row.ends_at, status |-> row.status, hold |-> row.hold,
                  rating |-> row.rating]
BY DEF ViewBooking

\* A transition the row is in the status for.
LEMMA BookingTurned ==
    ASSUME NEW row \in ViewBooking, NEW to \in {"confirmed", "released", "cancelled"}, NEW v \in Nat,
           NEW succ, succ = At(Turned(row, row.status, to), v)
    PROVE  /\ succ \in ViewBooking
           /\ succ = [version |-> v, spot |-> row.spot, host |-> row.host, renter |-> row.renter,
                      ends_at |-> row.ends_at, status |-> to, hold |-> FALSE, rating |-> row.rating]
<1>1. PICK half : half = Set(row, ViewBookingPatch(to))
    OBVIOUS
<1>2. half = [row EXCEPT !.status = to]
    BY <1>1, NullAssumption DEF Set, ViewBookingPatch, ViewBooking
<1>3. /\ half \in ViewBooking /\ half.spot = row.spot /\ half.host = row.host
      /\ half.renter = row.renter /\ half.ends_at = row.ends_at /\ half.status = to
      /\ half.rating = row.rating
    BY <1>2 DEF ViewBooking
<1>4. PICK no : no = FALSE
    OBVIOUS
<1>5. PICK full : full = [half EXCEPT !.hold = no]
    OBVIOUS
<1>6. no \in BOOLEAN
    BY <1>4
<1>7. /\ full \in ViewBooking /\ full.spot = row.spot /\ full.host = row.host
      /\ full.renter = row.renter /\ full.ends_at = row.ends_at /\ full.status = to
      /\ full.rating = row.rating /\ full.hold = no
    BY <1>3, <1>5, <1>6 DEF ViewBooking
<1>8. succ = [full EXCEPT !.version = v]
    BY <1>1, <1>4, <1>5 DEF Turned, At
<1>9. /\ succ \in ViewBooking /\ succ.version = v /\ succ.spot = row.spot /\ succ.host = row.host
      /\ succ.renter = row.renter /\ succ.ends_at = row.ends_at /\ succ.status = to
      /\ succ.rating = row.rating /\ succ.hold = no
    BY <1>7, <1>8 DEF ViewBooking
<1> QED BY <1>4, <1>9, BookingColumns, Zenon

\* A rating of a confirmed one.
LEMMA BookingGraded ==
    ASSUME NEW row \in ViewBooking, row.status = "confirmed", NEW rating \in Ratings, NEW v \in Nat,
           NEW succ, succ = At(Rated(row, rating), v)
    PROVE  /\ succ \in ViewBooking
           /\ succ = [version |-> v, spot |-> row.spot, host |-> row.host, renter |-> row.renter,
                      ends_at |-> row.ends_at, status |-> row.status, hold |-> row.hold,
                      rating |-> rating]
<1>1. PICK half : half = Rated(row, rating)
    OBVIOUS
<1>2. half = [row EXCEPT !.rating = rating]
    BY <1>1 DEF Rated
<1>3. /\ half \in ViewBooking /\ half.spot = row.spot /\ half.host = row.host
      /\ half.renter = row.renter /\ half.ends_at = row.ends_at /\ half.status = row.status
      /\ half.rating = rating /\ half.hold = row.hold
    BY <1>2 DEF ViewBooking
<1>4. succ = [half EXCEPT !.version = v]
    BY <1>1 DEF At
<1>5. /\ succ \in ViewBooking /\ succ.version = v /\ succ.spot = row.spot /\ succ.host = row.host
      /\ succ.renter = row.renter /\ succ.ends_at = row.ends_at /\ succ.status = row.status
      /\ succ.rating = rating /\ succ.hold = row.hold
    BY <1>3, <1>4 DEF ViewBooking
<1> QED BY <1>5, BookingColumns, Zenon

\* A row one event further shows its owner's row of then.
LEMMA BookingProjected ==
    ASSUME NEW b \in Bookings, NEW log \in Seq(BookingEvent), NEW held, NEW h,
           NEW row \in ViewBooking \cup {Null}, BookingFollows(b, h, log, held, row),
           NEW v \in DOMAIN log, Due(row, v), NEW succ, BookingArm(row, v, log[v], succ)
    PROVE  /\ succ \in ViewBooking /\ v = Stored(row) + 1
           /\ <<h[v - 1], log[v], h[v]>> \in BookingMoves(b)
           /\ row = IF h[v - 1] = Null THEN Null ELSE ShownBooking(b, h[v - 1], v - 1)
           /\ succ = ShownBooking(b, h[v], v)
           /\ BookingFollows(b, h, log, held, succ)
<1>1. PICK e : e = log[v]
    OBVIOUS
<1>2. v \in 1..Len(log) /\ Len(log) \in Nat /\ e \in BookingEvent
    BY <1>1, ElementOfSeq, LenProperties
<1>3. <<h[v - 1], e, h[v]>> \in BookingMoves(b) /\ h[0] = Null
    BY <1>1, <1>2 DEF BookingFollows, History
<1>4. h[v] \in BookingRow /\ BookingArm(row, v, e, succ) /\ v = Stored(row) + 1
    BY <1>1, <1>3 DEF BookingMoves, Due
<1>5. /\ succ \in ViewBooking /\ succ = ShownBooking(b, h[v], v)
      /\ row = IF h[v - 1] = Null THEN Null ELSE ShownBooking(b, h[v - 1], v - 1)
  <2>1. CASE row = Null
    <3>1. v = 1 /\ h[v - 1] = Null
      BY <1>3, <1>4, <2>1 DEF Stored
    <3>2. /\ e = BookingCreation(b)
          /\ h[v].status = "reserved" /\ h[v].hold = TRUE /\ h[v].rating = Null
      BY <1>3, <3>1, NullAssumption DEF BookingMoves
    <3>3. succ = CreatedBooking(e, v)
      BY <1>4, <2>1, <3>2 DEF BookingArm, Upsert, BookingCreation
    <3>4. succ = [version |-> v, spot |-> SpotOf[b], host |-> HostOf[SpotOf[b]], renter |-> RenterOf[b],
                  ends_at |-> EndsAt[b], status |-> "reserved", hold |-> TRUE, rating |-> Null]
      <4>1. /\ e.spot = SpotOf[b] /\ e.host = HostOf[SpotOf[b]] /\ e.renter = RenterOf[b]
            /\ e.ends_at = EndsAt[b]
        BY <3>2 DEF BookingCreation
      <4> QED BY <3>3, <4>1, Zenon DEF CreatedBooking
    <3>5. succ = ShownBooking(b, h[v], v)
      BY <3>2, <3>4, Zenon DEF ShownBooking
    <3>6. succ \in ViewBooking
      BY <1>2, <3>4, SpotAssumption, UpstreamAssumption DEF ViewBooking
    <3> QED BY <2>1, <3>1, <3>5, <3>6
  <2>2. CASE row # Null
    <3>1. row \in ViewBooking /\ row = ShownBooking(b, h[row.version], row.version) /\ v = row.version + 1
          /\ row.version \in 1..Len(log)
      BY <1>4, <2>2 DEF BookingFollows, BookingMirrors, Stored
    <3>2. v - 1 = row.version /\ v \in Nat
      BY <1>2, <3>1
    <3>3. h[v - 1] # Null
      <4>1. <<h[v - 2], log[v - 1], h[v - 1]>> \in BookingMoves(b)
        <5>1. v - 1 \in 1..Len(log) /\ (v - 1) - 1 = v - 2
          BY <1>2, <3>1
        <5> QED BY <5>1 DEF BookingFollows, History
      <4> QED BY <4>1, NullAssumption DEF BookingMoves
    <3>4. /\ row.spot = SpotOf[b] /\ row.host = HostOf[SpotOf[b]] /\ row.renter = RenterOf[b]
          /\ row.ends_at = EndsAt[b] /\ row.status = h[v - 1].status /\ row.hold = h[v - 1].hold
          /\ row.rating = h[v - 1].rating
      BY <3>1, <3>2 DEF ShownBooking
    <3>5. CASE e.type \in {"Confirmed", "Released", "Cancelled"}
      <4>1. PICK to : to = h[v].status
        OBVIOUS
      <4>2. /\ to \in {"confirmed", "released", "cancelled"}
            /\ succ = At(Turned(row, row.status, to), v)
            /\ h[v].rating = row.rating
        BY <1>3, <1>4, <3>3, <3>4, <3>5, <4>1 DEF BookingMoves, BookingArm
      <4>3. h[v].hold = FALSE
        BY <1>3, <3>3, <3>5 DEF BookingMoves, BookingCreation
      <4>4. /\ succ \in ViewBooking
            /\ succ = [version |-> v, spot |-> row.spot, host |-> row.host, renter |-> row.renter,
                       ends_at |-> row.ends_at, status |-> to, hold |-> FALSE, rating |-> row.rating]
        BY <3>1, <3>2, <4>2, BookingTurned
      <4>5. succ = ShownBooking(b, h[v], v)
        BY <3>4, <4>1, <4>2, <4>3, <4>4, Zenon DEF ShownBooking
      <4> QED BY <3>1, <3>2, <3>3, <4>4, <4>5
    <3>6. CASE e.type = "Rated"
      <4>1. /\ row.status = "confirmed" /\ succ = At(Rated(row, e.rating), v)
            /\ e.rating \in Ratings
            /\ h[v].status = row.status /\ h[v].hold = row.hold /\ h[v].rating = e.rating
        BY <1>2, <1>3, <1>4, <3>3, <3>4, <3>6 DEF BookingMoves, BookingArm, BookingEvent, BookingCreation
      <4>2. /\ succ \in ViewBooking
            /\ succ = [version |-> v, spot |-> row.spot, host |-> row.host, renter |-> row.renter,
                       ends_at |-> row.ends_at, status |-> row.status, hold |-> row.hold,
                       rating |-> e.rating]
        BY <3>1, <3>2, <4>1, BookingGraded
      <4>3. succ = ShownBooking(b, h[v], v)
        BY <3>4, <4>1, <4>2, Zenon DEF ShownBooking
      <4> QED BY <3>1, <3>2, <3>3, <4>2, <4>3
    <3>7. e.type # "Created"
      BY <1>3, <3>3 DEF BookingMoves
    <3> QED BY <1>4, <3>5, <3>6, <3>7 DEF BookingArm
  <2> QED BY <2>1, <2>2
<1>6. succ.version = v
    BY <1>5 DEF ShownBooking
<1>7. BookingMirrors(b, h, log, succ)
    BY <1>2, <1>5, <1>6 DEF BookingMirrors
<1> QED BY <1>1, <1>3, <1>4, <1>5, <1>7 DEF BookingFollows

\* What the arms of BookingProjector do to the row and to its notifications.
BookingNews(b, row, succ) ==
    /\ succ.host = HostOf[SpotOf[b]] /\ succ.renter = RenterOf[b] /\ succ.ends_at = EndsAt[b]
    /\ row # Null => row.host = succ.host /\ row.renter = succ.renter /\ row.ends_at = succ.ends_at
    /\ \/ row = Null /\ succ.status = "reserved" /\ succ.rating = Null /\ UNCHANGED notification
       \/ /\ row # Null /\ row.status = "reserved" /\ succ.status = "confirmed"
          /\ succ.rating = row.rating
          /\ \E at \in Nat : InsertForConfirmed(b, succ, at)
       \/ /\ row # Null /\ row.status = "reserved" /\ succ.status = "released"
          /\ UNCHANGED notification
       \/ /\ row # Null /\ row.status = "confirmed" /\ succ.status = "cancelled"
          /\ Handle(b, {"rate_booking", "spot_booked"})
       \/ /\ row # Null /\ row.status = "confirmed" /\ succ.status = "confirmed"
          /\ succ.rating # Null
          /\ Handle(b, {"rate_booking"})

\* What a step of the projector does to the table, and to the notifications.
LEMMA BookingProjection ==
    ASSUME BookingsInv, NEW b \in Bookings, ProjectBooking(b)
    PROVE  /\ booking' = [booking EXCEPT ![b] = booking'[b]]
           /\ booking'[b] \in ViewBooking /\ booking'[b].version = Stored(booking[b]) + 1
           /\ \E h : BookingFollows(b, h, bookings_log[b], booking_db[b], booking'[b])
           /\ BookingNews(b, booking[b], booking'[b])
<1> DEFINE row == booking[b]
           log == bookings_log[b]
           succ == booking'[b]
<1>1. row \in ViewBooking \cup {Null} /\ log \in Seq(BookingEvent) /\ DOMAIN booking = Bookings
    BY DEF BookingsInv
<1>2. PICK v \in DOMAIN log :
          /\ Due(row, v)
          /\ \/ BookingCreated(b, v, log[v]) \/ BookingConfirmed(b, v, log[v])
             \/ BookingReleased(b, v, log[v]) \/ BookingCancelled(b, v, log[v])
             \/ BookingRated(b, v, log[v])
    BY DEF ProjectBooking
<1>3. booking' = [booking EXCEPT ![b] = succ] /\ BookingArm(row, v, log[v], succ)
    BY <1>1, <1>2
    DEF BookingCreated, BookingConfirmed, BookingReleased, BookingCancelled, BookingRated, UpsertBooking,
        Settle, Turned, BookingArm
<1>4. /\ log[v].type = "Created" => UNCHANGED notification
      /\ log[v].type = "Confirmed" => InsertForConfirmed(b, succ, log[v].at)
      /\ log[v].type = "Released" => UNCHANGED notification
      /\ log[v].type = "Cancelled" => Handle(b, {"rate_booking", "spot_booked"})
      /\ log[v].type = "Rated" => Handle(b, {"rate_booking"})
    BY <1>2 DEF BookingCreated, BookingConfirmed, BookingReleased, BookingCancelled, BookingRated
<1>5. PICK held : held = booking_db[b]
    OBVIOUS
<1> HIDE DEF row, log, succ
<1>6. \E h : BookingFollows(b, h, log, held, row)
    BY <1>5 DEF BookingsInv, row, log
<1>7. PICK h : BookingFollows(b, h, log, held, row)
    BY <1>6
<1>8. /\ succ \in ViewBooking /\ v = Stored(row) + 1
      /\ <<h[v - 1], log[v], h[v]>> \in BookingMoves(b)
      /\ row = IF h[v - 1] = Null THEN Null ELSE ShownBooking(b, h[v - 1], v - 1)
      /\ succ = ShownBooking(b, h[v], v)
      /\ BookingFollows(b, h, log, held, succ)
    BY <1>1, <1>2, <1>3, <1>7, BookingProjected
<1>9. /\ succ.version = v /\ succ.host = HostOf[SpotOf[b]] /\ succ.renter = RenterOf[b]
      /\ succ.ends_at = EndsAt[b] /\ succ.status = h[v].status /\ succ.rating = h[v].rating
    BY <1>8 DEF ShownBooking
<1>10. row # Null => /\ h[v - 1] # Null /\ row.host = succ.host /\ row.renter = succ.renter
                     /\ row.ends_at = succ.ends_at /\ row.status = h[v - 1].status
                     /\ row.rating = h[v - 1].rating
    BY <1>8, <1>9 DEF ShownBooking
<1>11. row = Null => h[v - 1] = Null
  <2>1. ASSUME row = Null, h[v - 1] # Null
        PROVE  FALSE
    <3>1. row.version = v - 1
      BY <1>8, <2>1 DEF ShownBooking
    <3>2. ShownBooking(b, h[v - 1], v - 1) \in ViewBooking
      <4>1. v \in Nat /\ v - 1 \in Nat
        BY <1>1, <1>2, <1>8, <2>1 DEF Stored
      <4>2. h[v - 1] \in BookingRow
        BY <1>8, <2>1 DEF BookingMoves
      <4> QED BY <4>1, <4>2, SpotAssumption, UpstreamAssumption DEF ShownBooking, ViewBooking, BookingRow
    <3> QED BY <1>8, <2>1, <3>2, NullAssumption
  <2> QED BY <2>1
<1>12. BookingNews(b, row, succ)
  <2>1. PICK e : e = log[v]
    OBVIOUS
  <2>2. PICK m : m = <<h[v - 1], e, h[v]>>
    OBVIOUS
  <2>3. m \in BookingMoves(b) /\ m[1] = h[v - 1] /\ m[2] = e /\ m[3] = h[v]
    BY <1>8, <2>1, <2>2
  <2>4. CASE m[1] = Null /\ m[2] = BookingCreation(b) /\ m[3].status = "reserved" /\ m[3].rating = Null
    <3>1. e.type = "Created" /\ row = Null
      BY <1>10, <2>3, <2>4 DEF BookingCreation
    <3> QED BY <1>4, <1>9, <2>1, <2>3, <2>4, <3>1 DEF BookingNews
  <2>5. CASE m[1] # Null /\ m[1].status = "reserved" /\ m[2].type = "Confirmed"
             /\ m[3].status = "confirmed" /\ m[3].rating = m[1].rating
    <3>1. e \in BookingEvent /\ e.type = "Confirmed"
      BY <2>3, <2>5 DEF BookingMoves
    <3>2. e.at \in Nat
      BY <3>1 DEF BookingEvent
    <3> QED BY <1>4, <1>9, <1>10, <1>11, <2>1, <2>3, <2>5, <3>1, <3>2 DEF BookingNews
  <2>6. CASE m[1] # Null /\ m[1].status = "reserved" /\ m[2].type = "Released"
             /\ m[3].status = "released"
    BY <1>4, <1>9, <1>10, <1>11, <2>1, <2>3, <2>6 DEF BookingNews
  <2>7. CASE m[1] # Null /\ m[1].status = "confirmed" /\ m[2].type = "Cancelled"
             /\ m[3].status = "cancelled"
    BY <1>4, <1>9, <1>10, <1>11, <2>1, <2>3, <2>7 DEF BookingNews
  <2>8. CASE m[1] # Null /\ m[1].status = "confirmed" /\ m[2].type = "Rated"
             /\ m[3].status = "confirmed" /\ m[3].rating = m[2].rating
    <3>1. e \in BookingEvent /\ e.type = "Rated"
      BY <2>3, <2>8 DEF BookingMoves
    <3>2. e.rating \in Ratings
      BY <3>1 DEF BookingEvent
    <3>3. h[v].rating # Null
      BY <2>3, <2>8, <3>2, UpstreamAssumption
    <3> QED BY <1>4, <1>9, <1>10, <1>11, <2>1, <2>3, <2>8, <3>3 DEF BookingNews
  <2> QED BY <2>3, <2>4, <2>5, <2>6, <2>7, <2>8 DEF BookingMoves
<1> QED BY <1>3, <1>5, <1>8, <1>9, <1>12 DEF row, log, succ

\* A transition of booking-service's row.
LEMMA HeldTurned ==
    ASSUME NEW held \in BookingRow, NEW to \in {"confirmed", "released", "cancelled"}
    PROVE  LET succ == [held EXCEPT !.status = to, !.hold = FALSE] IN
           /\ succ \in BookingRow
           /\ succ.status = to /\ succ.hold = FALSE /\ succ.rating = held.rating
<1>1. PICK no : no = FALSE
    OBVIOUS
<1>2. PICK succ : succ = [held EXCEPT !.status = to, !.hold = no]
    OBVIOUS
<1>3. no \in BOOLEAN
    BY <1>1
<1>4. succ \in BookingRow /\ succ.status = to /\ succ.hold = no /\ succ.rating = held.rating
    BY <1>2, <1>3 DEF BookingRow
<1> QED BY <1>1, <1>2, <1>4

\* Every transaction of booking-service is a move.
LEMMA BookingMoved ==
    ASSUME BookingsInv, now \in Nat, NEW b \in Bookings,
           \/ Reserve(b) \/ Confirm(b) \/ Release(b) \/ Cancel(b)
           \/ \E rating \in Ratings : Rate(b, rating)
    PROVE  \E e \in BookingEvent, succ \in BookingRow :
               <<booking_db[b], e, succ>> \in BookingMoves(b) /\ WriteBooking(b, succ, e)
<1>1. PICK held : held = booking_db[b]
    OBVIOUS
<1>2. held \in BookingRow \cup {Null}
    BY <1>1 DEF BookingsInv
<1> DEFINE Goal == \E e \in BookingEvent, succ \in BookingRow :
                       <<booking_db[b], e, succ>> \in BookingMoves(b) /\ WriteBooking(b, succ, e)
<1>3. ASSUME Reserve(b)
      PROVE  Goal
  <2>1. PICK yes : yes = TRUE
    OBVIOUS
  <2>2. PICK succ : succ = [status |-> "reserved", hold |-> yes, rating |-> Null]
    OBVIOUS
  <2>3. yes \in BOOLEAN
    BY <2>1
  <2>4. succ \in BookingRow /\ succ.status = "reserved" /\ succ.hold = yes /\ succ.rating = Null
    BY <2>2, <2>3 DEF BookingRow
  <2>5. BookingCreation(b) \in BookingEvent
    BY SpotAssumption, UpstreamAssumption DEF BookingCreation, BookingEvent
  <2>6. held = Null /\ WriteBooking(b, succ, BookingCreation(b))
    BY <1>1, <1>3, <2>1, <2>2 DEF Reserve, BookingCreation
  <2>7. <<held, BookingCreation(b), succ>> \in BookingMoves(b)
    BY <1>2, <2>1, <2>4, <2>5, <2>6 DEF BookingMoves
  <2> QED BY <1>1, <2>4, <2>5, <2>6, <2>7
<1>4. ASSUME NEW to \in {"confirmed", "released", "cancelled"}, NEW e \in BookingEvent,
             held \in BookingRow, held # Null,
             \/ to = "confirmed" /\ held.status = "reserved" /\ e.type = "Confirmed"
             \/ to = "released" /\ held.status = "reserved" /\ e.type = "Released"
             \/ to = "cancelled" /\ held.status = "confirmed" /\ e.type = "Cancelled",
             WriteBooking(b, [held EXCEPT !.status = to, !.hold = FALSE], e)
      PROVE  Goal
  <2>1. PICK succ : succ = [held EXCEPT !.status = to, !.hold = FALSE]
    OBVIOUS
  <2>2. succ \in BookingRow /\ succ.status = to /\ succ.hold = FALSE /\ succ.rating = held.rating
    BY <1>4, <2>1, HeldTurned
  <2>3. <<held, e, succ>> \in BookingMoves(b)
    BY <1>4, <2>2 DEF BookingMoves
  <2> QED BY <1>1, <1>4, <2>1, <2>2, <2>3
<1>5. ASSUME NEW status, BookingIs(b, status)
      PROVE  held \in BookingRow /\ held # Null /\ held.status = status
    BY <1>1, <1>2, <1>5 DEF BookingIs
<1>6. ASSUME Confirm(b)
      PROVE  Goal
  <2>1. [type |-> "Confirmed", at |-> now] \in BookingEvent
    BY DEF BookingEvent
  <2> QED BY <1>1, <1>4, <1>5, <1>6, <2>1 DEF Confirm
<1>7. ASSUME Release(b)
      PROVE  Goal
  <2>1. [type |-> "Released"] \in BookingEvent
    BY DEF BookingEvent
  <2> QED BY <1>1, <1>4, <1>5, <1>7, <2>1 DEF Release
<1>8. ASSUME Cancel(b)
      PROVE  Goal
  <2>1. [type |-> "Cancelled"] \in BookingEvent
    BY DEF BookingEvent
  <2> QED BY <1>1, <1>4, <1>5, <1>8, <2>1 DEF Cancel
<1>9. ASSUME NEW rating \in Ratings, Rate(b, rating)
      PROVE  Goal
  <2>1. PICK e : e = [type |-> "Rated", rating |-> rating]
    OBVIOUS
  <2>2. PICK succ : succ = [held EXCEPT !.rating = rating]
    OBVIOUS
  <2>3. held \in BookingRow /\ held # Null /\ held.status = "confirmed" /\ WriteBooking(b, succ, e)
    BY <1>1, <1>5, <1>9, <2>1, <2>2 DEF Rate
  <2>4. e \in BookingEvent /\ e.type = "Rated" /\ e.rating = rating
    BY <2>1 DEF BookingEvent
  <2>5. /\ succ \in BookingRow /\ succ.status = "confirmed" /\ succ.hold = held.hold
        /\ succ.rating = rating
    BY <2>2, <2>3 DEF BookingRow
  <2>6. <<held, e, succ>> \in BookingMoves(b)
    BY <2>3, <2>4, <2>5 DEF BookingMoves
  <2> QED BY <1>1, <2>3, <2>4, <2>5, <2>6
<1> QED BY <1>3, <1>6, <1>7, <1>8, <1>9

\* Bookings and their projection.
LEMMA BookingsStep ==
    ASSUME BookingsInv, Scope, [Next]_vars
    PROVE  BookingsInv'
<1>1. ASSUME NEW b \in Bookings, NEW e \in BookingEvent, NEW succ \in BookingRow,
             <<booking_db[b], e, succ>> \in BookingMoves(b), WriteBooking(b, succ, e), UNCHANGED booking
      PROVE  BookingsInv'
  <2>1. /\ Append(bookings_log[b], e) \in Seq(BookingEvent)
        /\ \E h : BookingFollows(b, h, Append(bookings_log[b], e), succ, booking[b])
    BY <1>1, BookingWritten DEF BookingsInv
  <2>2. /\ booking_db' = [booking_db EXCEPT ![b] = succ]
        /\ bookings_log' = [bookings_log EXCEPT ![b] = Append(bookings_log[b], e)]
    BY <1>1 DEF WriteBooking
  <2>3. /\ booking_db' \in [Bookings -> BookingRow \cup {Null}]
        /\ bookings_log' \in [Bookings -> Seq(BookingEvent)]
    BY <2>1, <2>2 DEF BookingsInv
  <2>4. ASSUME NEW c \in Bookings
        PROVE  \E h : BookingFollows(c, h, bookings_log'[c], booking_db'[c], booking'[c])
    BY <1>1, <2>1, <2>2 DEF BookingsInv
  <2> QED BY <1>1, <2>3, <2>4 DEF BookingsInv
<1>2. ASSUME NEW b \in Bookings, ProjectBooking(b), UNCHANGED bookingVars
      PROVE  BookingsInv'
  <2>1. /\ booking' = [booking EXCEPT ![b] = booking'[b]]
        /\ booking'[b] \in ViewBooking
        /\ \E h : BookingFollows(b, h, bookings_log[b], booking_db[b], booking'[b])
    BY <1>2, BookingProjection
  <2>2. booking' \in [Bookings -> ViewBooking \cup {Null}]
    BY <2>1 DEF BookingsInv
  <2>3. ASSUME NEW c \in Bookings
        PROVE  \E h : BookingFollows(c, h, bookings_log[c], booking_db[c], booking'[c])
    BY <2>1 DEF BookingsInv
  <2> QED BY <1>2, <2>2, <2>3 DEF BookingsInv, bookingVars
<1>3. CASE UNCHANGED <<bookingVars, booking>>
    BY <1>3 DEF BookingsInv, bookingVars
<1>4. ASSUME BookingStep(focus.bookings), UNCHANGED booking
      PROVE  BookingsInv'
    BY <1>1, <1>4, InScope, BookingMoved DEF BookingStep
<1>5. ASSUME ProjectionStep, UNCHANGED bookingVars
      PROVE  BookingsInv'
    BY <1>2, <1>3, <1>5 DEF ProjectionStep, ProjectUser, ProjectSpot, ProjectPayment, ProjectPayout
<1>6. ASSUME WriterStep, ~BookingStep(focus.bookings)
      PROVE  UNCHANGED bookingVars
    BY <1>6
    DEF WriterStep, Tick, UserStep, SpotStep, PaymentStep, PayoutStep, Register, Rename, UserMarker,
        SeeNotifications, DismissNotification, WriteUser, OpenCharge, SettleCharge, Refund, WritePayment,
        RequestPayout, FinishPayout, WritePayout
<1> QED
    BY <1>3, <1>4, <1>5, <1>6 DEF Next, vars, upstreamVars, viewVars

-----------------------------------------------------------------------------
(* PAYMENTS: charges *)

PaymentCreation(b, at) ==
    [type |-> "Created", booking |-> b, host |-> HostOf[SpotOf[b]], renter |-> RenterOf[b],
     amount |-> Amount[b], at |-> at]

PaymentEvent ==
    [type : {"Created"}, booking : Bookings, host : Users, renter : Users, amount : Nat, at : Nat] \cup
    [type : {"succeeded", "failed", "expired"}] \cup [type : {"refunded"}, at : Nat]

\* A charge has a date of its refund when it was refunded.
Charge == {p \in PaymentRow : p.status # "refunded" <=> p.refunded_at = Null}

PaymentMoves(b) ==
    {m \in (Charge \cup {Null}) \X PaymentEvent \X Charge :
        \/ /\ m[1] = Null \/ m[1].status \in {"failed", "expired"}
           /\ m[2] = PaymentCreation(b, m[3].created_at)
           /\ m[3].status = "created" /\ m[3].refunded_at = Null
        \/ /\ m[1] # Null /\ m[1].status \in {"created", "failed"}
           /\ m[2].type \in {"succeeded", "failed", "expired"}
           /\ m[3].status = m[2].type /\ m[3].created_at = m[1].created_at /\ m[3].refunded_at = Null
        \/ /\ m[1] # Null /\ m[1].status = "succeeded" /\ m[2].type = "refunded"
           /\ m[3].status = "refunded" /\ m[3].created_at = m[1].created_at
           /\ m[3].refunded_at = m[2].at}

ShownPayment(b, row, v) ==
    [version |-> v, booking |-> b, host |-> HostOf[SpotOf[b]], renter |-> RenterOf[b],
     amount |-> Amount[b], status |-> row.status, created_at |-> row.created_at,
     refunded_at |-> row.refunded_at]

PaymentMirrors(b, h, log, row) ==
    row # Null => row.version \in 1..Len(log) /\ row = ShownPayment(b, h[row.version], row.version)

PaymentFollows(b, h, log, charge, row) ==
    History(h, log, charge, Charge \cup {Null}, PaymentMoves(b)) /\ PaymentMirrors(b, h, log, row)

PaymentsInv ==
    /\ payment_db \in [Bookings -> Charge \cup {Null}]
    /\ payments_log \in [Bookings -> Seq(PaymentEvent)]
    /\ payment \in [Bookings -> ViewPayment \cup {Null}]
    /\ \A b \in Bookings : \E h :
           PaymentFollows(b, h, payments_log[b], payment_db[b], payment[b])

\* A write of payment-service.
LEMMA PaymentWritten ==
    ASSUME NEW b \in Bookings, NEW log \in Seq(PaymentEvent), NEW charge,
           NEW row \in ViewPayment \cup {Null},
           \E h : PaymentFollows(b, h, log, charge, row),
           NEW e \in PaymentEvent, NEW succ \in Charge, <<charge, e, succ>> \in PaymentMoves(b)
    PROVE  /\ Append(log, e) \in Seq(PaymentEvent)
           /\ \E h : PaymentFollows(b, h, Append(log, e), succ, row)
<1>1. PICK h : PaymentFollows(b, h, log, charge, row)
    OBVIOUS
<1>2. PICK R : R = Charge \cup {Null}
    OBVIOUS
<1>3. PICK Moves : Moves = PaymentMoves(b)
    OBVIOUS
<1>4. History(h, log, charge, R, Moves) /\ succ \in R /\ <<charge, e, succ>> \in Moves
    BY <1>1, <1>2, <1>3 DEF PaymentFollows
<1>5. /\ Append(log, e) \in Seq(PaymentEvent)
      /\ Len(Append(log, e)) = Len(log) + 1 /\ Len(log) \in Nat
      /\ \E k : History(k, Append(log, e), succ, R, Moves) /\ \A v \in 0..Len(log) : k[v] = h[v]
    BY <1>4, HistoryGrows
<1>6. PICK k : History(k, Append(log, e), succ, R, Moves) /\ \A v \in 0..Len(log) : k[v] = h[v]
    BY <1>5
<1>7. PaymentMirrors(b, k, Append(log, e), row)
    BY <1>1, <1>5, <1>6 DEF PaymentFollows, PaymentMirrors
<1> QED BY <1>2, <1>3, <1>5, <1>6, <1>7 DEF PaymentFollows

\* A row as the arms of the projector leave it.
PaymentArm(row, v, e, succ) ==
    \/ e.type = "Created" /\ succ = Upsert(row, CreatedPayment(e, v))
    \/ e.type \in {"succeeded", "failed", "expired", "refunded"} /\ succ = At(Transition(row, e), v)

\* A row is told by its columns.
LEMMA PaymentColumns ==
    ASSUME NEW row \in ViewPayment
    PROVE  /\ row = [version |-> row.version, booking |-> row.booking, host |-> row.host,
                     renter |-> row.renter, amount |-> row.amount, status |-> row.status,
                     created_at |-> row.created_at, refunded_at |-> row.refunded_at]
           /\ LET D == {"version", "booking", "host", "renter", "amount", "status", "created_at",
                        "refunded_at"}
              IN DOMAIN row = D /\ row = [c \in D |-> row[c]]
BY DEF ViewPayment

\* A session opened again is a row of its own: no column of the old one is left.
LEMMA PaymentReopened ==
    ASSUME NEW old \in ViewPayment, NEW row \in ViewPayment, old.booking = row.booking,
           old.refunded_at = Null, row.refunded_at = Null
    PROVE  Upsert(old, row) = row
<1>1. PICK D : D = {"version", "booking", "host", "renter", "amount", "status", "created_at", "refunded_at"}
    OBVIOUS
<1>2. DOMAIN row = D /\ DOMAIN old = D /\ row = [c \in D |-> row[c]]
    BY <1>1, PaymentColumns
<1>3. row.version # Null /\ row.amount # Null /\ row.status # Null /\ row.created_at # Null
    BY NullAssumption DEF ViewPayment
<1>4. row.host # Null /\ row.renter # Null
    BY SpotAssumption DEF ViewPayment
<1>5. \A c \in D : row[c] = IF c \in DOMAIN row /\ row[c] # Null THEN row[c] ELSE old[c]
    BY <1>1, <1>2, <1>3, <1>4
<1>6. Set(old, row) = row
    BY <1>2, <1>5, SetIs
<1> QED BY <1>6, NullAssumption DEF Upsert

\* An event that ends a session, and one that gives the money back.
LEMMA PaymentTurns ==
    ASSUME NEW row \in ViewPayment, NEW e, NEW v \in Nat,
           NEW status \in {"succeeded", "failed", "expired", "refunded"}, e.type = status,
           status = "refunded" => e.at \in Nat,
           NEW refunded, refunded = IF status = "refunded" THEN e.at ELSE row.refunded_at
    PROVE  /\ At(Transition(row, e), v) \in ViewPayment
           /\ At(Transition(row, e), v)
                  = [version |-> v, booking |-> row.booking, host |-> row.host, renter |-> row.renter,
                     amount |-> row.amount, status |-> status, created_at |-> row.created_at,
                     refunded_at |-> refunded]
<1>1. PICK changes : changes = ViewPaymentPatch(e)
    OBVIOUS
<1>2. DOMAIN changes = {"status", "refunded_at"} /\ changes.status = status
      /\ changes.refunded_at = IF status = "refunded" THEN e.at ELSE Null
    BY <1>1 DEF ViewPaymentPatch
<1>3. PICK new : new = [row EXCEPT !.status = status, !.refunded_at = refunded]
    OBVIOUS
<1>4. PICK D : D = {"version", "booking", "host", "renter", "amount", "status", "created_at", "refunded_at"}
    OBVIOUS
<1>5. /\ new \in ViewPayment /\ new.booking = row.booking /\ new.host = row.host
      /\ new.renter = row.renter /\ new.amount = row.amount /\ new.created_at = row.created_at
      /\ new.version = row.version /\ new.status = status /\ new.refunded_at = refunded
    BY <1>3 DEF ViewPayment
<1>6. DOMAIN row = D /\ new = [c \in D |-> new[c]]
    BY <1>4, <1>5, PaymentColumns
<1>7. status # Null /\ (status = "refunded" => e.at # Null)
    BY NullAssumption
<1>8. \A c \in D : new[c] = IF c \in DOMAIN changes /\ changes[c] # Null THEN changes[c] ELSE row[c]
    BY <1>2, <1>4, <1>5, <1>7
<1>9. Transition(row, e) = new
    BY <1>1, <1>6, <1>8, SetIs DEF Transition
<1>10. PICK succ : succ = [new EXCEPT !.version = v]
    OBVIOUS
<1>11. /\ succ \in ViewPayment /\ succ.booking = row.booking /\ succ.host = row.host
       /\ succ.renter = row.renter /\ succ.amount = row.amount /\ succ.created_at = row.created_at
       /\ succ.version = v /\ succ.status = status /\ succ.refunded_at = refunded
    BY <1>5, <1>10 DEF ViewPayment
<1>12. At(Transition(row, e), v) = succ
    BY <1>9, <1>10 DEF At
<1> QED BY <1>11, <1>12, PaymentColumns, Zenon

\* A row one event further shows its owner's row of then.
LEMMA PaymentProjected ==
    ASSUME NEW b \in Bookings, NEW log \in Seq(PaymentEvent), NEW charge, NEW h,
           NEW row \in ViewPayment \cup {Null}, PaymentFollows(b, h, log, charge, row),
           NEW v \in DOMAIN log, Due(row, v), NEW succ, PaymentArm(row, v, log[v], succ)
    PROVE  /\ succ \in ViewPayment /\ succ.version = Stored(row) + 1
           /\ PaymentFollows(b, h, log, charge, succ)
<1>1. PICK e : e = log[v]
    OBVIOUS
<1>2. v \in 1..Len(log) /\ Len(log) \in Nat /\ e \in PaymentEvent
    BY <1>1, ElementOfSeq, LenProperties
<1>3. <<h[v - 1], e, h[v]>> \in PaymentMoves(b) /\ h[0] = Null
    BY <1>1, <1>2 DEF PaymentFollows, History
<1>4. h[v] \in Charge /\ PaymentArm(row, v, e, succ) /\ v = Stored(row) + 1
    BY <1>1, <1>3 DEF PaymentMoves, Due
<1>5. ASSUME row # Null
      PROVE  /\ row \in ViewPayment /\ v - 1 \in Nat /\ row.version = v - 1
             /\ h[v - 1] # Null /\ h[v - 1] \in Charge
             /\ row.booking = b /\ row.host = HostOf[SpotOf[b]] /\ row.renter = RenterOf[b]
             /\ row.amount = Amount[b] /\ row.status = h[v - 1].status
             /\ row.created_at = h[v - 1].created_at /\ row.refunded_at = h[v - 1].refunded_at
  <2>1. row \in ViewPayment /\ row = ShownPayment(b, h[row.version], row.version)
        /\ v = row.version + 1 /\ row.version \in 1..Len(log)
    BY <1>4, <1>5 DEF PaymentFollows, PaymentMirrors, Stored
  <2>2. v - 1 = row.version /\ v - 1 \in 1..Len(log) /\ (v - 1) - 1 = v - 2
    BY <1>2, <2>1
  <2>3. <<h[v - 2], log[v - 1], h[v - 1]>> \in PaymentMoves(b)
    BY <2>2 DEF PaymentFollows, History
  <2>4. h[v - 1] \in Charge /\ h[v - 1] # Null
    BY <2>3, NullAssumption DEF PaymentMoves, Charge
  <2> QED BY <2>1, <2>2, <2>4 DEF ShownPayment
<1>6. ASSUME row = Null
      PROVE  v = 1 /\ h[v - 1] = Null
    BY <1>3, <1>4, <1>6 DEF Stored
<1>7. succ \in ViewPayment /\ succ = ShownPayment(b, h[v], v)
  <2>1. CASE e.type = "Created"
    <3>1. /\ e = PaymentCreation(b, h[v].created_at)
          /\ h[v].status = "created" /\ h[v].refunded_at = Null
          /\ h[v - 1] = Null \/ h[v - 1].status \in {"failed", "expired"}
      BY <1>3, <2>1 DEF PaymentMoves
    <3>2. /\ e.booking = b /\ e.host = HostOf[SpotOf[b]] /\ e.renter = RenterOf[b]
          /\ e.amount = Amount[b] /\ e.at = h[v].created_at
      BY <3>1 DEF PaymentCreation
    <3>3. PICK new : new = CreatedPayment(e, v)
      OBVIOUS
    <3>4. new = ShownPayment(b, h[v], v)
      BY <3>1, <3>2, <3>3, Zenon DEF CreatedPayment, ShownPayment
    <3>5. h[v].created_at \in Nat /\ h[v].status \in {"created", "succeeded", "failed", "expired", "refunded"}
      BY <1>4 DEF Charge, PaymentRow
    <3>6. new \in ViewPayment /\ new.refunded_at = Null
      BY <1>2, <3>1, <3>4, <3>5, SpotAssumption, UpstreamAssumption DEF ShownPayment, ViewPayment
    <3>7. succ = Upsert(row, new)
      BY <1>4, <2>1, <3>3 DEF PaymentArm
    <3>8. CASE row = Null
      <4>1. succ = new
        BY <3>7, <3>8 DEF Upsert
      <4> QED BY <3>4, <3>6, <4>1
    <3>9. CASE row # Null
      <4>1. h[v - 1].refunded_at = Null
        BY <1>5, <3>1, <3>9 DEF Charge
      <4>2. new.booking = b
        BY <3>4 DEF ShownPayment
      <4>3. Upsert(row, new) = new
        BY <1>5, <3>6, <3>9, <4>1, <4>2, PaymentReopened
      <4>4. succ = new
        BY <3>7, <4>3
      <4> QED BY <3>4, <3>6, <4>4
    <3> QED BY <3>8, <3>9
  <2>2. CASE e.type # "Created"
    <3>1. h[v - 1] # Null
      BY <1>3, <2>2 DEF PaymentMoves, PaymentCreation
    <3>2. row # Null
      BY <1>6, <3>1
    <3>3. PICK status : status = e.type
      OBVIOUS
    <3>4. /\ status \in {"succeeded", "failed", "expired", "refunded"}
          /\ status = "refunded" => e.at \in Nat
          /\ succ = At(Transition(row, e), v)
      BY <1>2, <1>4, <2>2, <3>3 DEF PaymentArm, PaymentEvent
    <3>5. PICK refunded : refunded = IF status = "refunded" THEN e.at ELSE row.refunded_at
      OBVIOUS
    <3>6. /\ h[v].status = status /\ h[v].created_at = row.created_at
          /\ h[v].refunded_at = refunded
      <4>1. \/ /\ h[v - 1].status \in {"created", "failed"} /\ e.type \in {"succeeded", "failed", "expired"}
               /\ h[v].status = e.type /\ h[v].created_at = h[v - 1].created_at
               /\ h[v].refunded_at = Null
            \/ /\ e.type = "refunded" /\ h[v].status = "refunded"
               /\ h[v].created_at = h[v - 1].created_at /\ h[v].refunded_at = e.at
        BY <1>3, <2>2 DEF PaymentMoves, PaymentCreation
      <4>2. h[v - 1].status \in {"created", "failed"} => row.refunded_at = Null
        BY <1>5, <3>2 DEF Charge
      <4> QED BY <1>5, <3>2, <3>3, <3>5, <4>1, <4>2
    <3>7. v \in Nat
      BY <1>2
    <3>8. /\ At(Transition(row, e), v) \in ViewPayment
          /\ At(Transition(row, e), v)
                  = [version |-> v, booking |-> row.booking, host |-> row.host, renter |-> row.renter,
                     amount |-> row.amount, status |-> status, created_at |-> row.created_at,
                     refunded_at |-> refunded]
      BY <1>5, <3>2, <3>3, <3>4, <3>5, <3>7, PaymentTurns
    <3>9. /\ row.booking = b /\ row.host = HostOf[SpotOf[b]] /\ row.renter = RenterOf[b]
          /\ row.amount = Amount[b]
      BY <1>5, <3>2
    <3> QED BY <3>4, <3>6, <3>8, <3>9, Zenon DEF ShownPayment
  <2> QED BY <2>1, <2>2
<1>8. succ.version = v
    BY <1>7 DEF ShownPayment
<1>9. PaymentMirrors(b, h, log, succ)
    BY <1>2, <1>7, <1>8 DEF PaymentMirrors
<1> QED BY <1>4, <1>7, <1>8, <1>9 DEF PaymentFollows

\* What a step of the projector does to the table.
LEMMA PaymentProjection ==
    ASSUME PaymentsInv, NEW b \in Bookings, ProjectPayment(b)
    PROVE  /\ payment' = [payment EXCEPT ![b] = payment'[b]]
           /\ payment'[b] \in ViewPayment /\ payment'[b].version = Stored(payment[b]) + 1
           /\ \E h : PaymentFollows(b, h, payments_log[b], payment_db[b], payment'[b])
<1> DEFINE row == payment[b]
           log == payments_log[b]
           succ == payment'[b]
<1>1. row \in ViewPayment \cup {Null} /\ log \in Seq(PaymentEvent) /\ DOMAIN payment = Bookings
    BY DEF PaymentsInv
<1>2. PICK v \in DOMAIN log :
          Due(row, v) /\ (PaymentCreated(b, v, log[v]) \/ PaymentTurned(b, v, log[v]))
    BY DEF ProjectPayment
<1>3. payment' = [payment EXCEPT ![b] = succ] /\ PaymentArm(row, v, log[v], succ)
    BY <1>1, <1>2 DEF PaymentCreated, PaymentTurned, UpsertPayment, PaymentArm
<1>4. PICK charge : charge = payment_db[b]
    OBVIOUS
<1> HIDE DEF row, log, succ
<1>5. \E h : PaymentFollows(b, h, log, charge, row)
    BY <1>4 DEF PaymentsInv, row, log
<1>6. PICK h : PaymentFollows(b, h, log, charge, row)
    BY <1>5
<1>7. /\ succ \in ViewPayment /\ succ.version = Stored(row) + 1
      /\ PaymentFollows(b, h, log, charge, succ)
    BY <1>1, <1>2, <1>3, <1>6, PaymentProjected
<1> QED BY <1>3, <1>4, <1>7 DEF row, log, succ

\* Every transaction of payment-service about a charge is a move.
LEMMA PaymentMoved ==
    ASSUME PaymentsInv, now \in Nat, NEW b \in Bookings,
           \/ OpenCharge(b) \/ Refund(b)
           \/ \E status \in {"succeeded", "failed", "expired"} : SettleCharge(b, status)
    PROVE  \E e \in PaymentEvent, succ \in Charge :
               <<payment_db[b], e, succ>> \in PaymentMoves(b) /\ WritePayment(b, succ, e)
<1>1. PICK charge : charge = payment_db[b]
    OBVIOUS
<1>2. charge \in Charge \cup {Null}
    BY <1>1 DEF PaymentsInv
<1> DEFINE Goal == \E e \in PaymentEvent, succ \in Charge :
                       <<payment_db[b], e, succ>> \in PaymentMoves(b) /\ WritePayment(b, succ, e)
<1>3. ASSUME OpenCharge(b)
      PROVE  Goal
  <2>1. PICK succ : succ = [status |-> "created", created_at |-> now, refunded_at |-> Null]
    OBVIOUS
  <2>2. succ \in Charge /\ succ.status = "created" /\ succ.created_at = now /\ succ.refunded_at = Null
    BY <2>1 DEF Charge, PaymentRow
  <2>3. PICK e : e = PaymentCreation(b, now)
    OBVIOUS
  <2>4. e \in PaymentEvent
    BY <2>3, SpotAssumption, UpstreamAssumption DEF PaymentCreation, PaymentEvent
  <2>5. /\ WritePayment(b, succ, e)
        /\ charge = Null \/ charge.status \in {"failed", "expired"}
    BY <1>1, <1>3, <2>1, <2>3 DEF OpenCharge, PaymentIs, PaymentCreation
  <2>6. <<charge, e, succ>> \in PaymentMoves(b)
    BY <1>2, <2>2, <2>3, <2>4, <2>5 DEF PaymentMoves
  <2> QED BY <1>1, <2>2, <2>4, <2>5, <2>6
<1>4. ASSUME NEW status \in {"succeeded", "failed", "expired"}, SettleCharge(b, status)
      PROVE  Goal
  <2>1. PICK succ : succ = [charge EXCEPT !.status = status]
    OBVIOUS
  <2>2. PICK e : e = [type |-> status]
    OBVIOUS
  <2>3. /\ charge \in Charge /\ charge # Null /\ charge.status \in {"created", "failed"}
        /\ WritePayment(b, succ, e)
    BY <1>1, <1>2, <1>4, <2>1, <2>2 DEF SettleCharge, PaymentIs
  <2>4. charge.refunded_at = Null /\ charge \in PaymentRow
    BY <2>3 DEF Charge
  <2>5. /\ succ \in PaymentRow /\ succ.status = status /\ succ.created_at = charge.created_at
        /\ succ.refunded_at = Null
    BY <2>1, <2>4 DEF PaymentRow
  <2>6. succ \in Charge
    BY <2>5 DEF Charge
  <2>7. e \in PaymentEvent /\ e.type = status
    BY <2>2 DEF PaymentEvent
  <2>8. <<charge, e, succ>> \in PaymentMoves(b)
    BY <2>3, <2>5, <2>6, <2>7 DEF PaymentMoves
  <2> QED BY <1>1, <2>3, <2>6, <2>7, <2>8
<1>5. ASSUME Refund(b)
      PROVE  Goal
  <2>1. PICK succ : succ = [charge EXCEPT !.status = "refunded", !.refunded_at = now]
    OBVIOUS
  <2>2. PICK e : e = [type |-> "refunded", at |-> now]
    OBVIOUS
  <2>3. charge \in Charge /\ charge # Null /\ charge.status = "succeeded" /\ WritePayment(b, succ, e)
    BY <1>1, <1>2, <1>5, <2>1, <2>2 DEF Refund, PaymentIs
  <2>4. charge \in PaymentRow
    BY <2>3 DEF Charge
  <2>5. /\ succ \in PaymentRow /\ succ.status = "refunded" /\ succ.created_at = charge.created_at
        /\ succ.refunded_at = now
    BY <2>1, <2>4 DEF PaymentRow
  <2>6. succ \in Charge
    BY <2>5, NullAssumption DEF Charge
  <2>7. e \in PaymentEvent /\ e.type = "refunded" /\ e.at = now
    BY <2>2 DEF PaymentEvent
  <2>8. <<charge, e, succ>> \in PaymentMoves(b)
    BY <2>3, <2>5, <2>6, <2>7 DEF PaymentMoves
  <2> QED BY <1>1, <2>3, <2>6, <2>7, <2>8
<1> QED BY <1>3, <1>4, <1>5

\* Charges and their projection.
LEMMA PaymentsStep ==
    ASSUME PaymentsInv, Scope, [Next]_vars
    PROVE  PaymentsInv'
<1>1. ASSUME NEW b \in Bookings, NEW e \in PaymentEvent, NEW succ \in Charge,
             <<payment_db[b], e, succ>> \in PaymentMoves(b), WritePayment(b, succ, e), UNCHANGED payment
      PROVE  PaymentsInv'
  <2>1. /\ Append(payments_log[b], e) \in Seq(PaymentEvent)
        /\ \E h : PaymentFollows(b, h, Append(payments_log[b], e), succ, payment[b])
    BY <1>1, PaymentWritten DEF PaymentsInv
  <2>2. /\ payment_db' = [payment_db EXCEPT ![b] = succ]
        /\ payments_log' = [payments_log EXCEPT ![b] = Append(payments_log[b], e)]
    BY <1>1 DEF WritePayment
  <2>3. /\ payment_db' \in [Bookings -> Charge \cup {Null}]
        /\ payments_log' \in [Bookings -> Seq(PaymentEvent)]
    BY <2>1, <2>2 DEF PaymentsInv
  <2>4. ASSUME NEW c \in Bookings
        PROVE  \E h : PaymentFollows(c, h, payments_log'[c], payment_db'[c], payment'[c])
    BY <1>1, <2>1, <2>2 DEF PaymentsInv
  <2> QED BY <1>1, <2>3, <2>4 DEF PaymentsInv
<1>2. ASSUME NEW b \in Bookings, ProjectPayment(b), UNCHANGED paymentVars
      PROVE  PaymentsInv'
  <2>1. /\ payment' = [payment EXCEPT ![b] = payment'[b]]
        /\ payment'[b] \in ViewPayment
        /\ \E h : PaymentFollows(b, h, payments_log[b], payment_db[b], payment'[b])
    BY <1>2, PaymentProjection
  <2>2. payment' \in [Bookings -> ViewPayment \cup {Null}]
    BY <2>1 DEF PaymentsInv
  <2>3. ASSUME NEW c \in Bookings
        PROVE  \E h : PaymentFollows(c, h, payments_log[c], payment_db[c], payment'[c])
    BY <2>1 DEF PaymentsInv
  <2> QED BY <1>2, <2>2, <2>3 DEF PaymentsInv, paymentVars
<1>3. CASE UNCHANGED <<paymentVars, payment>>
    BY <1>3 DEF PaymentsInv, paymentVars
<1>4. ASSUME PaymentStep(focus.bookings \cap Charged), UNCHANGED payment
      PROVE  PaymentsInv'
    BY <1>1, <1>4, InScope, PaymentMoved DEF PaymentStep
<1>5. ASSUME ProjectionStep, UNCHANGED paymentVars
      PROVE  PaymentsInv'
    BY <1>2, <1>3, <1>5 DEF ProjectionStep, ProjectUser, ProjectSpot, ProjectBooking, ProjectPayout
<1>6. ASSUME WriterStep, ~PaymentStep(focus.bookings \cap Charged)
      PROVE  UNCHANGED paymentVars
    BY <1>6
    DEF WriterStep, Tick, UserStep, SpotStep, BookingStep, PayoutStep, Register, Rename, UserMarker,
        SeeNotifications, DismissNotification, WriteUser, Reserve, Confirm, Release, Cancel,
        Rate, WriteBooking, RequestPayout, FinishPayout, WritePayout
<1> QED
    BY <1>3, <1>4, <1>5, <1>6 DEF Next, vars, upstreamVars, viewVars

-----------------------------------------------------------------------------
(* PAYMENTS: withdrawals *)

Withdrawal(row) == [type |-> "PayoutRequested", host |-> row.host, amount |-> row.amount, at |-> row.created_at]

PayoutEvent ==
    [type : {"PayoutRequested"}, host : Users, amount : Nat, at : Nat] \cup [type : {"paid", "failed"}]

PayoutMoves ==
    {m \in (PayoutRow \cup {Null}) \X PayoutEvent \X PayoutRow :
        \/ m[1] = Null /\ m[2] = Withdrawal(m[3]) /\ m[3].status = "requested"
        \/ /\ m[1] # Null /\ m[2].type \in {"paid", "failed"} /\ m[3].status = m[2].type
           /\ m[3].host = m[1].host /\ m[3].amount = m[1].amount /\ m[3].created_at = m[1].created_at}

ShownPayout(row, v) ==
    [version |-> v, host |-> row.host, amount |-> row.amount, created_at |-> row.created_at,
     status |-> row.status]

PayoutMirrors(h, log, row) ==
    row # Null => row.version \in 1..Len(log) /\ row = ShownPayout(h[row.version], row.version)

PayoutFollows(h, log, withdrawal, row) ==
    History(h, log, withdrawal, PayoutRow \cup {Null}, PayoutMoves) /\ PayoutMirrors(h, log, row)

PayoutsInv ==
    /\ payout_db \in [Payouts -> PayoutRow \cup {Null}]
    /\ payouts_log \in [Payouts -> Seq(PayoutEvent)]
    /\ payout \in [Payouts -> ViewPayout \cup {Null}]
    /\ \A p \in Payouts : \E h : PayoutFollows(h, payouts_log[p], payout_db[p], payout[p])

\* A write of payment-service.
LEMMA PayoutWritten ==
    ASSUME NEW log \in Seq(PayoutEvent), NEW withdrawal, NEW row \in ViewPayout \cup {Null},
           \E h : PayoutFollows(h, log, withdrawal, row),
           NEW e \in PayoutEvent, NEW succ \in PayoutRow, <<withdrawal, e, succ>> \in PayoutMoves
    PROVE  /\ Append(log, e) \in Seq(PayoutEvent)
           /\ \E h : PayoutFollows(h, Append(log, e), succ, row)
<1>1. PICK h : PayoutFollows(h, log, withdrawal, row)
    OBVIOUS
<1>2. PICK R : R = PayoutRow \cup {Null}
    OBVIOUS
<1>3. History(h, log, withdrawal, R, PayoutMoves) /\ succ \in R
    BY <1>1, <1>2 DEF PayoutFollows
<1>4. /\ Append(log, e) \in Seq(PayoutEvent)
      /\ Len(Append(log, e)) = Len(log) + 1 /\ Len(log) \in Nat
      /\ \E k : History(k, Append(log, e), succ, R, PayoutMoves) /\ \A v \in 0..Len(log) : k[v] = h[v]
    BY <1>3, HistoryGrows
<1>5. PICK k : History(k, Append(log, e), succ, R, PayoutMoves) /\ \A v \in 0..Len(log) : k[v] = h[v]
    BY <1>4
<1>6. PayoutMirrors(k, Append(log, e), row)
    BY <1>1, <1>4, <1>5 DEF PayoutFollows, PayoutMirrors
<1> QED BY <1>2, <1>4, <1>5, <1>6 DEF PayoutFollows

\* A row as the arms of the projector leave it.
PayoutArm(row, v, e, succ) ==
    \/ /\ e.type = "PayoutRequested"
       /\ succ = Upsert(row, [version |-> v, host |-> e.host, amount |-> e.amount,
                              created_at |-> e.at, status |-> "requested"])
    \/ e.type \in {"paid", "failed"} /\ succ = At(SetStatus(row, e.type), v)

\* A row is told by its columns.
LEMMA PayoutColumns ==
    ASSUME NEW row \in ViewPayout
    PROVE  row = [version |-> row.version, host |-> row.host, amount |-> row.amount,
                  created_at |-> row.created_at, status |-> row.status]
BY DEF ViewPayout

\* A row one event further shows its owner's row of then.
LEMMA PayoutProjected ==
    ASSUME NEW log \in Seq(PayoutEvent), NEW withdrawal, NEW h,
           NEW row \in ViewPayout \cup {Null}, PayoutFollows(h, log, withdrawal, row),
           NEW v \in DOMAIN log, Due(row, v), NEW succ, PayoutArm(row, v, log[v], succ)
    PROVE  /\ succ \in ViewPayout /\ succ.version = Stored(row) + 1
           /\ PayoutFollows(h, log, withdrawal, succ)
<1>1. PICK e : e = log[v]
    OBVIOUS
<1>2. v \in 1..Len(log) /\ Len(log) \in Nat /\ e \in PayoutEvent
    BY <1>1, ElementOfSeq, LenProperties
<1>3. <<h[v - 1], e, h[v]>> \in PayoutMoves /\ h[0] = Null
    BY <1>1, <1>2 DEF PayoutFollows, History
<1>4. h[v] \in PayoutRow /\ PayoutArm(row, v, e, succ) /\ v = Stored(row) + 1
    BY <1>1, <1>3 DEF PayoutMoves, Due
<1>5. succ \in ViewPayout /\ succ = ShownPayout(h[v], v)
  <2>1. CASE row = Null
    <3>1. h[v - 1] = Null /\ v \in Nat
      BY <1>3, <1>4, <2>1 DEF Stored
    <3>2. e = Withdrawal(h[v]) /\ h[v].status = "requested"
      BY <1>3, <3>1 DEF PayoutMoves
    <3>3. /\ e.type = "PayoutRequested" /\ e.host = h[v].host /\ e.amount = h[v].amount
          /\ e.at = h[v].created_at
      BY <3>2 DEF Withdrawal
    <3>4. succ = [version |-> v, host |-> e.host, amount |-> e.amount, created_at |-> e.at,
                  status |-> "requested"]
      BY <1>4, <2>1, <3>3 DEF PayoutArm, Upsert
    <3>5. succ = ShownPayout(h[v], v)
      BY <3>2, <3>3, <3>4, Zenon DEF ShownPayout
    <3>6. succ \in ViewPayout
      BY <1>4, <3>1, <3>5 DEF ShownPayout, ViewPayout, PayoutRow
    <3> QED BY <3>5, <3>6
  <2>2. CASE row # Null
    <3>1. row \in ViewPayout /\ row = ShownPayout(h[row.version], row.version)
          /\ v = row.version + 1 /\ row.version \in 1..Len(log)
      BY <1>4, <2>2 DEF PayoutFollows, PayoutMirrors, Stored
    <3>2. v - 1 = row.version /\ v - 1 \in 1..Len(log) /\ (v - 1) - 1 = v - 2 /\ v \in Nat
      BY <1>2, <3>1
    <3>3. <<h[v - 2], log[v - 1], h[v - 1]>> \in PayoutMoves
      BY <3>2 DEF PayoutFollows, History
    <3>4. h[v - 1] # Null
      BY <3>3, NullAssumption DEF PayoutMoves
    <3>5. /\ row.host = h[v - 1].host /\ row.amount = h[v - 1].amount
          /\ row.created_at = h[v - 1].created_at
      BY <3>1, <3>2 DEF ShownPayout
    <3>6. /\ e.type \in {"paid", "failed"} /\ h[v].status = e.type
          /\ h[v].host = row.host /\ h[v].amount = row.amount /\ h[v].created_at = row.created_at
      BY <1>3, <3>4, <3>5 DEF PayoutMoves
    <3>7. PICK status : status = e.type
      OBVIOUS
    <3>8. PICK half : half = [row EXCEPT !.status = status]
      OBVIOUS
    <3>9. /\ half \in ViewPayout /\ half.host = row.host /\ half.amount = row.amount
          /\ half.created_at = row.created_at /\ half.status = status
      BY <3>1, <3>6, <3>7, <3>8 DEF ViewPayout
    <3>10. succ = [half EXCEPT !.version = v]
      BY <1>4, <3>6, <3>7, <3>8 DEF PayoutArm, SetStatus, At
    <3>11. /\ succ \in ViewPayout /\ succ.version = v /\ succ.host = row.host /\ succ.amount = row.amount
           /\ succ.created_at = row.created_at /\ succ.status = status
      BY <3>2, <3>9, <3>10 DEF ViewPayout
    <3>12. succ = [version |-> succ.version, host |-> succ.host, amount |-> succ.amount,
                   created_at |-> succ.created_at, status |-> succ.status]
      BY <3>11, PayoutColumns
    <3>13. /\ succ.version = v /\ succ.host = h[v].host /\ succ.amount = h[v].amount
           /\ succ.created_at = h[v].created_at /\ succ.status = h[v].status
      BY <3>6, <3>7, <3>11
    <3>14. succ = ShownPayout(h[v], v)
      BY ONLY <3>12, <3>13, Zenon DEF ShownPayout
    <3> QED BY <3>11, <3>14
  <2> QED BY <2>1, <2>2
<1>6. succ.version = v
    BY <1>5 DEF ShownPayout
<1>7. PayoutMirrors(h, log, succ)
    BY <1>2, <1>5, <1>6 DEF PayoutMirrors
<1> QED BY <1>4, <1>5, <1>6, <1>7 DEF PayoutFollows

\* What a step of the projector does to the table.
LEMMA PayoutProjection ==
    ASSUME PayoutsInv, NEW p \in Payouts, ProjectPayout(p)
    PROVE  /\ payout' = [payout EXCEPT ![p] = payout'[p]]
           /\ payout'[p] \in ViewPayout /\ payout'[p].version = Stored(payout[p]) + 1
           /\ \E h : PayoutFollows(h, payouts_log[p], payout_db[p], payout'[p])
<1> DEFINE row == payout[p]
           log == payouts_log[p]
           succ == payout'[p]
<1>1. row \in ViewPayout \cup {Null} /\ log \in Seq(PayoutEvent) /\ DOMAIN payout = Payouts
    BY DEF PayoutsInv
<1>2. PICK v \in DOMAIN log :
          Due(row, v) /\ (PayoutRequested(p, v, log[v]) \/ PayoutFinished(p, v, log[v]))
    BY DEF ProjectPayout
<1>3. payout' = [payout EXCEPT ![p] = succ] /\ PayoutArm(row, v, log[v], succ)
    BY <1>1, <1>2 DEF PayoutRequested, PayoutFinished, UpsertPayout, PayoutArm
<1>4. PICK withdrawal : withdrawal = payout_db[p]
    OBVIOUS
<1> HIDE DEF row, log, succ
<1>5. \E h : PayoutFollows(h, log, withdrawal, row)
    BY <1>4 DEF PayoutsInv, row, log
<1>6. PICK h : PayoutFollows(h, log, withdrawal, row)
    BY <1>5
<1>7. /\ succ \in ViewPayout /\ succ.version = Stored(row) + 1
      /\ PayoutFollows(h, log, withdrawal, succ)
    BY <1>1, <1>2, <1>3, <1>6, PayoutProjected
<1> QED BY <1>3, <1>4, <1>7 DEF row, log, succ

\* Every transaction of payment-service about a withdrawal is a move.
LEMMA PayoutMoved ==
    ASSUME PayoutsInv, now \in Nat, NEW p \in Payouts,
           \/ \E u \in Users : \E cents \in 1..Earned(u) : RequestPayout(p, u, cents)
           \/ \E status \in {"paid", "failed"} : FinishPayout(p, status)
    PROVE  \E e \in PayoutEvent, succ \in PayoutRow :
               <<payout_db[p], e, succ>> \in PayoutMoves /\ WritePayout(p, succ, e)
<1>1. PICK withdrawal : withdrawal = payout_db[p]
    OBVIOUS
<1>2. withdrawal \in PayoutRow \cup {Null}
    BY <1>1 DEF PayoutsInv
<1> DEFINE Goal == \E e \in PayoutEvent, succ \in PayoutRow :
                       <<payout_db[p], e, succ>> \in PayoutMoves /\ WritePayout(p, succ, e)
<1>3. ASSUME NEW u \in Users, NEW cents \in 1..Earned(u), RequestPayout(p, u, cents)
      PROVE  Goal
  <2>1. PICK succ : succ = [host |-> u, amount |-> cents, created_at |-> now, status |-> "requested"]
    OBVIOUS
  <2>2. cents \in Nat
    OBVIOUS
  <2>3. /\ succ \in PayoutRow /\ succ.host = u /\ succ.amount = cents /\ succ.created_at = now
        /\ succ.status = "requested"
    BY <2>1, <2>2 DEF PayoutRow
  <2>4. PICK e : e = Withdrawal(succ)
    OBVIOUS
  <2>5. e = [type |-> "PayoutRequested", host |-> u, amount |-> cents, at |-> now]
    BY <2>3, <2>4, Zenon DEF Withdrawal
  <2>6. e \in PayoutEvent
    BY <2>2, <2>5 DEF PayoutEvent
  <2>7. withdrawal = Null /\ WritePayout(p, succ, e)
    BY <1>1, <1>3, <2>1, <2>5 DEF RequestPayout
  <2>8. <<withdrawal, e, succ>> \in PayoutMoves
    BY <1>2, <2>3, <2>4, <2>6, <2>7 DEF PayoutMoves
  <2> QED BY <1>1, <2>3, <2>6, <2>7, <2>8
<1>4. ASSUME NEW status \in {"paid", "failed"}, FinishPayout(p, status)
      PROVE  Goal
  <2>1. PICK succ : succ = [withdrawal EXCEPT !.status = status]
    OBVIOUS
  <2>2. PICK e : e = [type |-> status]
    OBVIOUS
  <2>3. withdrawal \in PayoutRow /\ withdrawal # Null /\ WritePayout(p, succ, e)
    BY <1>1, <1>2, <1>4, <2>1, <2>2 DEF FinishPayout
  <2>4. /\ succ \in PayoutRow /\ succ.status = status /\ succ.host = withdrawal.host
        /\ succ.amount = withdrawal.amount /\ succ.created_at = withdrawal.created_at
    BY <2>1, <2>3 DEF PayoutRow
  <2>5. e \in PayoutEvent /\ e.type = status
    BY <2>2 DEF PayoutEvent
  <2>6. <<withdrawal, e, succ>> \in PayoutMoves
    BY <2>3, <2>4, <2>5 DEF PayoutMoves
  <2> QED BY <1>1, <2>3, <2>4, <2>5, <2>6
<1> QED BY <1>3, <1>4

\* Withdrawals and their projection.
LEMMA PayoutsStep ==
    ASSUME PayoutsInv, Scope, [Next]_vars
    PROVE  PayoutsInv'
<1>1. ASSUME NEW p \in Payouts, NEW e \in PayoutEvent, NEW succ \in PayoutRow,
             <<payout_db[p], e, succ>> \in PayoutMoves, WritePayout(p, succ, e), UNCHANGED payout
      PROVE  PayoutsInv'
  <2>1. /\ Append(payouts_log[p], e) \in Seq(PayoutEvent)
        /\ \E h : PayoutFollows(h, Append(payouts_log[p], e), succ, payout[p])
    BY <1>1, PayoutWritten DEF PayoutsInv
  <2>2. /\ payout_db' = [payout_db EXCEPT ![p] = succ]
        /\ payouts_log' = [payouts_log EXCEPT ![p] = Append(payouts_log[p], e)]
    BY <1>1 DEF WritePayout
  <2>3. /\ payout_db' \in [Payouts -> PayoutRow \cup {Null}]
        /\ payouts_log' \in [Payouts -> Seq(PayoutEvent)]
    BY <2>1, <2>2 DEF PayoutsInv
  <2>4. ASSUME NEW q \in Payouts
        PROVE  \E h : PayoutFollows(h, payouts_log'[q], payout_db'[q], payout'[q])
    BY <1>1, <2>1, <2>2 DEF PayoutsInv
  <2> QED BY <1>1, <2>3, <2>4 DEF PayoutsInv
<1>2. ASSUME NEW p \in Payouts, ProjectPayout(p), UNCHANGED payoutVars
      PROVE  PayoutsInv'
  <2>1. /\ payout' = [payout EXCEPT ![p] = payout'[p]]
        /\ payout'[p] \in ViewPayout
        /\ \E h : PayoutFollows(h, payouts_log[p], payout_db[p], payout'[p])
    BY <1>2, PayoutProjection
  <2>2. payout' \in [Payouts -> ViewPayout \cup {Null}]
    BY <2>1 DEF PayoutsInv
  <2>3. ASSUME NEW q \in Payouts
        PROVE  \E h : PayoutFollows(h, payouts_log[q], payout_db[q], payout'[q])
    BY <2>1 DEF PayoutsInv
  <2> QED BY <1>2, <2>2, <2>3 DEF PayoutsInv, payoutVars
<1>3. CASE UNCHANGED <<payoutVars, payout>>
    BY <1>3 DEF PayoutsInv, payoutVars
<1>4. ASSUME PayoutStep(focus.payouts), UNCHANGED payout
      PROVE  PayoutsInv'
    BY <1>1, <1>4, InScope, PayoutMoved DEF PayoutStep
<1>5. ASSUME ProjectionStep, UNCHANGED payoutVars
      PROVE  PayoutsInv'
    BY <1>2, <1>3, <1>5 DEF ProjectionStep, ProjectUser, ProjectSpot, ProjectBooking, ProjectPayment
<1>6. ASSUME WriterStep, ~PayoutStep(focus.payouts)
      PROVE  UNCHANGED payoutVars
    BY <1>6
    DEF WriterStep, Tick, UserStep, SpotStep, BookingStep, PaymentStep, Register, Rename, UserMarker,
        SeeNotifications, DismissNotification, WriteUser, Reserve, Confirm, Release, Cancel,
        Rate, WriteBooking, OpenCharge, SettleCharge, Refund, WritePayment
<1> QED
    BY <1>3, <1>4, <1>5, <1>6 DEF Next, vars, upstreamVars, viewVars

-----------------------------------------------------------------------------
(* The tables *)

TablesInv == Scope /\ UsersInv /\ SpotsInv /\ BookingsInv /\ PaymentsInv /\ PayoutsInv

\* Of an aggregate nobody has written yet.
LEMMA HistoryStarts ==
    ASSUME NEW R, Null \in R, NEW Moves
    PROVE  \E h : History(h, << >>, Null, R, Moves)
<1> DEFINE h == [v \in 0..0 |-> Null]
<1>1. Len(<< >>) = 0
    OBVIOUS
<1>2. History(h, << >>, Null, R, Moves)
    BY <1>1 DEF History
<1> QED BY <1>2

\* Nothing is written and nothing projected.
LEMMA TablesInit ==
    ASSUME Init
    PROVE  TablesInv
<1>1. Scope
    BY UpstreamAssumption DEF Init, UpstreamInit, Scope
<1>2. \A S : << >> \in Seq(S)
    OBVIOUS
<1>3. UsersInv
  <2>1. ASSUME NEW u \in Users
        PROVE  \E h : UserFollows(h, users_log[u], user_db[u], app_user[u])
    <3>1. users_log[u] = << >> /\ user_db[u] = Null /\ app_user[u] = Null
      BY DEF Init, UpstreamInit, ViewInit
    <3>2. \E h : History(h, << >>, Null, Names \cup {Null}, UserMoves)
      BY HistoryStarts
    <3> QED BY <3>1, <3>2 DEF UserFollows, UserMirrors
  <2>2. /\ user_db \in [Users -> Names \cup {Null}] /\ app_user \in [Users -> ViewUser \cup {Null}]
        /\ users_log \in [Users -> Seq(UserEvent)]
    BY <1>2 DEF Init, UpstreamInit, ViewInit
  <2> QED BY <2>1, <2>2 DEF UsersInv
<1>4. SpotsInv
  <2>1. ASSUME NEW s \in Spots
        PROVE  \E h : SpotFollows(h, spots_log[s], spot_db[s], spot[s])
    <3>1. spots_log[s] = << >> /\ spot_db[s] = Null /\ spot[s] = Null
      BY DEF Init, UpstreamInit, SpotInit, ViewInit
    <3>2. \E h : History(h, << >>, Null, Listing \cup {Null}, SpotMoves)
      BY HistoryStarts
    <3>3. Len(<< >>) = 0
      OBVIOUS
    <3>4. \A h : SpotMirrors(h, << >>, Null)
      BY <3>3 DEF SpotMirrors
    <3> QED BY <3>1, <3>2, <3>4 DEF SpotFollows
  <2>2. spot \in [Spots -> ViewSpot \cup {Null}] /\ SpotTypeOK
    BY <1>2 DEF Init, UpstreamInit, SpotInit, ViewInit, SpotTypeOK
  <2>3. \A r \in SpotRequests : spot_call[r] = Null
    BY DEF Init, UpstreamInit, SpotInit
  <2> QED BY <2>1, <2>2, <2>3 DEF SpotsInv
<1>5. BookingsInv
  <2>1. ASSUME NEW b \in Bookings
        PROVE  \E h : BookingFollows(b, h, bookings_log[b], booking_db[b], booking[b])
    <3>1. bookings_log[b] = << >> /\ booking_db[b] = Null /\ booking[b] = Null
      BY DEF Init, UpstreamInit, ViewInit
    <3>2. \E h : History(h, << >>, Null, BookingRow \cup {Null}, BookingMoves(b))
      BY HistoryStarts
    <3> QED BY <3>1, <3>2 DEF BookingFollows, BookingMirrors
  <2>2. /\ booking_db \in [Bookings -> BookingRow \cup {Null}]
        /\ booking \in [Bookings -> ViewBooking \cup {Null}]
        /\ bookings_log \in [Bookings -> Seq(BookingEvent)]
    BY <1>2 DEF Init, UpstreamInit, ViewInit
  <2> QED BY <2>1, <2>2 DEF BookingsInv
<1>6. PaymentsInv
  <2>1. ASSUME NEW b \in Bookings
        PROVE  \E h : PaymentFollows(b, h, payments_log[b], payment_db[b], payment[b])
    <3>1. payments_log[b] = << >> /\ payment_db[b] = Null /\ payment[b] = Null
      BY DEF Init, UpstreamInit, ViewInit
    <3>2. \E h : History(h, << >>, Null, Charge \cup {Null}, PaymentMoves(b))
      BY HistoryStarts
    <3> QED BY <3>1, <3>2 DEF PaymentFollows, PaymentMirrors
  <2>2. /\ payment_db \in [Bookings -> Charge \cup {Null}]
        /\ payment \in [Bookings -> ViewPayment \cup {Null}]
        /\ payments_log \in [Bookings -> Seq(PaymentEvent)]
    BY <1>2 DEF Init, UpstreamInit, ViewInit
  <2> QED BY <2>1, <2>2 DEF PaymentsInv
<1>7. PayoutsInv
  <2>1. ASSUME NEW p \in Payouts
        PROVE  \E h : PayoutFollows(h, payouts_log[p], payout_db[p], payout[p])
    <3>1. payouts_log[p] = << >> /\ payout_db[p] = Null /\ payout[p] = Null
      BY DEF Init, UpstreamInit, ViewInit
    <3>2. \E h : History(h, << >>, Null, PayoutRow \cup {Null}, PayoutMoves)
      BY HistoryStarts
    <3> QED BY <3>1, <3>2 DEF PayoutFollows, PayoutMirrors
  <2>2. /\ payout_db \in [Payouts -> PayoutRow \cup {Null}]
        /\ payout \in [Payouts -> ViewPayout \cup {Null}]
        /\ payouts_log \in [Payouts -> Seq(PayoutEvent)]
    BY <1>2 DEF Init, UpstreamInit, ViewInit
  <2> QED BY <2>1, <2>2 DEF PayoutsInv
<1> QED BY <1>1, <1>3, <1>4, <1>5, <1>6, <1>7 DEF TablesInv

\* Every row of the read model stays a row of its owner's history, whatever is
\* written meanwhile and in whatever order the projectors run.
THEOREM TablesInvariance == Spec => []TablesInv
<1>1. Init => TablesInv
    BY TablesInit
<1>2. TablesInv /\ [Next]_vars => TablesInv'
    BY ScopeStep, UsersStep, SpotsStep, BookingsStep, PaymentsStep, PayoutsStep DEF TablesInv
<1> QED BY <1>1, <1>2, PTL DEF Spec

\* The watermark of an account's notifications never goes back: neither a
\* rename nor any other event of the account lights the bell again.
THEOREM SeenStaysSeenHolds == Spec => SeenStaysSeen
<1>1. TablesInv /\ [Next]_vars =>
          [\A u \in Users : seen_at(u) # Null => seen_at(u)' # Null /\ seen_at(u) <= seen_at(u)']_vars
    BY SeenStep DEF TablesInv
<1> QED BY <1>1, TablesInvariance, PTL DEF Spec, SeenStaysSeen

-----------------------------------------------------------------------------
(* A row that is up to date *)

\* The last row of a history, and that a written aggregate has one.
LEMMA HistoryEnds ==
    ASSUME NEW S, NEW log \in Seq(S), NEW row, NEW R, NEW Moves, NEW h, History(h, log, row, R, Moves),
           \A m \in Moves : m[3] # Null
    PROVE  /\ Len(log) \in Nat
           /\ h[Len(log)] = row
           /\ row = Null <=> Len(log) = 0
<1>1. Len(log) \in Nat /\ h[0] = Null /\ h[Len(log)] = row
    BY DEF History
<1>2. ASSUME Len(log) # 0
      PROVE  row # Null
  <2>1. Len(log) \in 1..Len(log)
    BY <1>1, <1>2
  <2>2. <<h[Len(log) - 1], log[Len(log)], h[Len(log)]>> \in Moves
    BY <2>1 DEF History
  <2> QED BY <1>1, <2>2
<1> QED BY <1>1, <1>2

\* An account's name.
LEMMA UserCurrent ==
    ASSUME UsersInv, NEW u \in Users, app_user[u] # Null, Stored(app_user[u]) = Len(users_log[u])
    PROVE  app_user[u].name = user_db[u]
<1>1. PICK h : UserFollows(h, users_log[u], user_db[u], app_user[u])
    BY DEF UsersInv
<1> QED BY <1>1 DEF UserFollows, UserMirrors, History, Stored

\* A listing.
LEMMA SpotCurrent ==
    ASSUME SpotsInv, NEW s \in Spots, spot[s] # Null, Stored(spot[s]) = Len(spots_log[s])
    PROVE  spot[s] = spot_db[s]
<1>1. PICK h : SpotFollows(h, spots_log[s], spot_db[s], spot[s])
    BY DEF SpotsInv
<1> QED BY <1>1 DEF SpotFollows, SpotMirrors, History, Stored

\* A booking, there or not.
LEMMA BookingCurrent ==
    ASSUME BookingsInv, NEW b \in Bookings, Stored(booking[b]) = Len(bookings_log[b])
    PROVE  /\ booking[b] = Null <=> booking_db[b] = Null
           /\ booking[b] # Null => /\ booking_db[b] \in BookingRow
                                   /\ booking[b] = ShownBooking(b, booking_db[b], Len(bookings_log[b]))
<1>1. PICK held : held = booking_db[b]
    OBVIOUS
<1>2. PICK log : log = bookings_log[b]
    OBVIOUS
<1>3. PICK Moves : Moves = BookingMoves(b)
    OBVIOUS
<1>4. PICK R : R = BookingRow \cup {Null}
    OBVIOUS
<1>5. PICK h : History(h, log, held, R, Moves) /\ BookingMirrors(b, h, log, booking[b])
    BY <1>1, <1>2, <1>3, <1>4 DEF BookingsInv, BookingFollows
<1>6. log \in Seq(BookingEvent) /\ held \in BookingRow \cup {Null}
    BY <1>1, <1>2 DEF BookingsInv
<1>7. \A m \in Moves : m[3] # Null
    BY <1>3, NullAssumption DEF BookingMoves
<1>8. Len(log) \in Nat /\ h[Len(log)] = held /\ (held = Null <=> Len(log) = 0)
    BY <1>5, <1>6, <1>7, HistoryEnds
<1>9. CASE booking[b] = Null
    BY <1>1, <1>2, <1>8, <1>9 DEF Stored
<1>10. CASE booking[b] # Null
    BY <1>1, <1>2, <1>5, <1>6, <1>8, <1>10 DEF Stored, BookingMirrors
<1> QED BY <1>9, <1>10

\* A charge.
LEMMA PaymentCurrent ==
    ASSUME PaymentsInv, NEW b \in Bookings, payment[b] # Null, Stored(payment[b]) = Len(payments_log[b])
    PROVE  /\ payment_db[b] \in PaymentRow
           /\ payment[b] = ShownPayment(b, payment_db[b], Len(payments_log[b]))
<1>1. PICK charge : charge = payment_db[b]
    OBVIOUS
<1>2. PICK log : log = payments_log[b]
    OBVIOUS
<1>3. PICK Moves : Moves = PaymentMoves(b)
    OBVIOUS
<1>4. PICK R : R = Charge \cup {Null}
    OBVIOUS
<1>5. PICK h : History(h, log, charge, R, Moves) /\ PaymentMirrors(b, h, log, payment[b])
    BY <1>1, <1>2, <1>3, <1>4 DEF PaymentsInv, PaymentFollows
<1>6. log \in Seq(PaymentEvent) /\ charge \in Charge \cup {Null}
    BY <1>1, <1>2 DEF PaymentsInv
<1>7. \A m \in Moves : m[3] # Null
    BY <1>3, NullAssumption DEF PaymentMoves, Charge
<1>8. Len(log) \in Nat /\ h[Len(log)] = charge /\ (charge = Null <=> Len(log) = 0)
    BY <1>5, <1>6, <1>7, HistoryEnds
<1> QED BY <1>1, <1>2, <1>5, <1>6, <1>8 DEF Stored, PaymentMirrors, Charge

\* A withdrawal.
LEMMA PayoutCurrent ==
    ASSUME PayoutsInv, NEW p \in Payouts, payout[p] # Null, Stored(payout[p]) = Len(payouts_log[p])
    PROVE  /\ payout_db[p] \in PayoutRow
           /\ payout[p] = ShownPayout(payout_db[p], Len(payouts_log[p]))
<1>1. PICK withdrawal : withdrawal = payout_db[p]
    OBVIOUS
<1>2. PICK log : log = payouts_log[p]
    OBVIOUS
<1>3. PICK R : R = PayoutRow \cup {Null}
    OBVIOUS
<1>4. PICK h : History(h, log, withdrawal, R, PayoutMoves) /\ PayoutMirrors(h, log, payout[p])
    BY <1>1, <1>2, <1>3 DEF PayoutsInv, PayoutFollows
<1>5. log \in Seq(PayoutEvent) /\ withdrawal \in PayoutRow \cup {Null}
    BY <1>1, <1>2 DEF PayoutsInv
<1>6. \A m \in PayoutMoves : m[3] # Null
    BY NullAssumption DEF PayoutMoves
<1>7. Len(log) \in Nat /\ h[Len(log)] = withdrawal /\ (withdrawal = Null <=> Len(log) = 0)
    BY <1>4, <1>5, <1>6, HistoryEnds
<1> QED BY <1>1, <1>2, <1>4, <1>5, <1>7 DEF Stored, PayoutMirrors

\* Every table at the version of its owner's.
LEMMA RowsAgreeNow ==
    ASSUME TablesInv
    PROVE  RowsAgree
<1>1. ASSUME NEW u \in Rows(app_user), Stored(app_user[u]) = Len(users_log[u])
      PROVE  app_user[u].name = user_db[u]
    BY <1>1, UserCurrent DEF TablesInv, UsersInv, Rows
<1>2. ASSUME NEW s \in Rows(spot), Stored(spot[s]) = Len(spots_log[s])
      PROVE  spot[s] = spot_db[s]
    BY <1>2, SpotCurrent DEF TablesInv, SpotsInv, Rows
<1>3. ASSUME NEW b \in Rows(booking), Stored(booking[b]) = Len(bookings_log[b])
      PROVE  \A c \in DOMAIN booking_db[b] : booking[b][c] = booking_db[b][c]
  <2>1. b \in Bookings /\ booking[b] # Null
    BY DEF TablesInv, BookingsInv, Rows
  <2>2. booking_db[b] \in BookingRow /\ booking[b] = ShownBooking(b, booking_db[b], Len(bookings_log[b]))
    BY <1>3, <2>1, BookingCurrent DEF TablesInv
  <2> QED BY <2>2 DEF BookingRow, ShownBooking
<1>4. ASSUME NEW b \in Rows(payment), Stored(payment[b]) = Len(payments_log[b])
      PROVE  \A c \in DOMAIN payment_db[b] : payment[b][c] = payment_db[b][c]
  <2>1. b \in Bookings /\ payment[b] # Null
    BY DEF TablesInv, PaymentsInv, Rows
  <2>2. payment_db[b] \in PaymentRow /\ payment[b] = ShownPayment(b, payment_db[b], Len(payments_log[b]))
    BY <1>4, <2>1, PaymentCurrent DEF TablesInv
  <2> QED BY <2>2 DEF PaymentRow, ShownPayment
<1>5. ASSUME NEW p \in Rows(payout), Stored(payout[p]) = Len(payouts_log[p])
      PROVE  \A c \in DOMAIN payout_db[p] : payout[p][c] = payout_db[p][c]
  <2>1. p \in Payouts /\ payout[p] # Null
    BY DEF TablesInv, PayoutsInv, Rows
  <2>2. payout_db[p] \in PayoutRow /\ payout[p] = ShownPayout(payout_db[p], Len(payouts_log[p]))
    BY <1>5, <2>1, PayoutCurrent DEF TablesInv
  <2> QED BY <2>2 DEF PayoutRow, ShownPayout
<1> QED BY <1>1, <1>2, <1>3, <1>4, <1>5 DEF RowsAgree

\* The slots shown as taken are the ones that are.
LEMMA CalendarAgreesNow ==
    ASSUME TablesInv
    PROVE  CalendarAgrees
<1> SUFFICES ASSUME NEW s \in Spots, CaughtUp, public_spot(s) # Null
             PROVE  {b.id : b \in public_spot_bookings(s)}
                        = {b \in Bookings : /\ SpotOf[b] = s /\ now < EndsAt[b]
                                            /\ BookingIs(b, "reserved") \/ BookingIs(b, "confirmed")}
    BY DEF CalendarAgrees
<1>1. public_spot_bookings(s) = {PublicBookingProjection(b) : b \in Taken(s)}
    BY DEF public_spot, public_spot_bookings, find_for_public_spot
<1>2. {b.id : b \in public_spot_bookings(s)} = Taken(s)
  <2>1. \A b : PublicBookingProjection(b).id = b
    BY DEF PublicBookingProjection
  <2> QED BY <1>1, <2>1
<1>3. ASSUME NEW b \in Bookings
      PROVE  b \in Taken(s) <=> /\ SpotOf[b] = s /\ now < EndsAt[b]
                                /\ BookingIs(b, "reserved") \/ BookingIs(b, "confirmed")
  <2>1. /\ booking[b] = Null <=> booking_db[b] = Null
        /\ booking[b] # Null => booking[b] = ShownBooking(b, booking_db[b], Len(bookings_log[b]))
    BY BookingCurrent DEF TablesInv, CaughtUp
  <2>2. now \in Nat /\ EndsAt[b] \in Nat
    BY InScope, UpstreamAssumption DEF TablesInv
  <2>3. CASE booking[b] = Null
    BY <2>1, <2>3 DEF Taken, BookingsOf, Rows, BookingIs
  <2>4. CASE booking[b] # Null
    <3>1. /\ booking[b].spot = SpotOf[b] /\ booking[b].ends_at = EndsAt[b]
          /\ booking[b].status = booking_db[b].status
      BY <2>1, <2>4 DEF ShownBooking
    <3>2. b \in Rows(booking)
      BY <2>4 DEF TablesInv, BookingsInv, Rows
    <3> QED BY <2>1, <2>2, <2>4, <3>1, <3>2 DEF Taken, TAKEN, BookingsOf, BookingIs
  <2> QED BY <2>3, <2>4
<1>4. Taken(s) \subseteq Bookings
    BY DEF Taken, BookingsOf, Rows, TablesInv, BookingsInv
<1> QED BY <1>2, <1>3, <1>4

\* What view-service stores of a row, and what it shows strangers of the calendar,
\* is what the row's owner decided, once the row (or everything) is projected.
THEOREM ReadModelAgreesHolds == Spec => []ReadModelAgrees
<1>1. TablesInv => ReadModelAgrees
    BY RowsAgreeNow, CalendarAgreesNow DEF ReadModelAgrees
<1> QED BY <1>1, TablesInvariance, PTL

-----------------------------------------------------------------------------
(* Versions and the reads that wait for them *)

\* A projection raises the version of one row, and nothing lowers one.
LEMMA VersionsGrow ==
    ASSUME TablesInv, [Next]_vars
    PROVE  /\ \A s \in Spots : Stored(spot[s]) \in Nat /\ Stored(spot'[s]) >= Stored(spot[s])
           /\ \A b \in Bookings : Stored(booking[b]) \in Nat /\ Stored(booking'[b]) >= Stored(booking[b])
           /\ \A u \in Users : Stored(app_user[u]) \in Nat /\ Stored(app_user'[u]) >= Stored(app_user[u])
<1>1. \A s \in Spots : Stored(spot[s]) \in Nat
    BY DEF TablesInv, SpotsInv, ViewSpot, Stored
<1>2. \A b \in Bookings : Stored(booking[b]) \in Nat
    BY DEF TablesInv, BookingsInv, ViewBooking, Stored
<1>3. \A u \in Users : Stored(app_user[u]) \in Nat
    BY DEF TablesInv, UsersInv, ViewUser, Stored
<1>4. ASSUME NEW t \in Spots, ProjectSpot(t), NEW s \in Spots
      PROVE  Stored(spot'[s]) >= Stored(spot[s])
  <2>1. /\ spot' = [spot EXCEPT ![t] = spot'[t]]
        /\ spot'[t] \in ViewSpot /\ spot'[t].version = Stored(spot[t]) + 1
    BY <1>4, SpotProjection DEF TablesInv
  <2>2. spot'[t] # Null
    BY <2>1, NullAssumption
  <2>3. CASE s = t
    BY <1>1, <2>1, <2>2, <2>3 DEF Stored
  <2>4. CASE s # t
    BY <1>1, <2>1, <2>4 DEF TablesInv, SpotsInv
  <2> QED BY <2>3, <2>4
<1>5. ASSUME NEW c \in Bookings, ProjectBooking(c), NEW b \in Bookings
      PROVE  Stored(booking'[b]) >= Stored(booking[b])
  <2>1. /\ booking' = [booking EXCEPT ![c] = booking'[c]]
        /\ booking'[c] \in ViewBooking /\ booking'[c].version = Stored(booking[c]) + 1
    BY <1>5, BookingProjection DEF TablesInv
  <2>2. booking'[c] # Null
    BY <2>1, NullAssumption
  <2>3. CASE b = c
    BY <1>2, <2>1, <2>2, <2>3 DEF Stored
  <2>4. CASE b # c
    BY <1>2, <2>1, <2>4 DEF TablesInv, BookingsInv
  <2> QED BY <2>3, <2>4
<1>6. ASSUME NEW w \in Users, ProjectUser(w), NEW u \in Users
      PROVE  Stored(app_user'[u]) >= Stored(app_user[u])
  <2>1. /\ app_user' = [app_user EXCEPT ![w] = app_user'[w]]
        /\ app_user'[w] \in ViewUser /\ app_user'[w].version = Stored(app_user[w]) + 1
    BY <1>6, UserProjection DEF TablesInv
  <2>2. app_user'[w] # Null
    BY <2>1, NullAssumption
  <2>3. CASE u = w
    BY <1>3, <2>1, <2>2, <2>3 DEF Stored
  <2>4. CASE u # w
    BY <1>3, <2>1, <2>4 DEF TablesInv, UsersInv
  <2> QED BY <2>3, <2>4
<1>7. CASE UNCHANGED <<app_user, spot, booking>>
    BY <1>1, <1>2, <1>3, <1>7
<1>8. ASSUME NEW t \in Spots, ProjectSpot(t)
      PROVE  UNCHANGED <<app_user, booking>>
    BY <1>8 DEF ProjectSpot
<1>9. ASSUME NEW c \in Bookings, ProjectBooking(c)
      PROVE  UNCHANGED <<app_user, spot>>
    BY <1>9 DEF ProjectBooking
<1>10. ASSUME NEW w \in Users, ProjectUser(w)
      PROVE  UNCHANGED <<spot, booking>>
    BY <1>10 DEF ProjectUser
<1>11. \/ UNCHANGED <<app_user, spot, booking>>
       \/ \E t \in Spots : ProjectSpot(t)
       \/ \E c \in Bookings : ProjectBooking(c)
       \/ \E w \in Users : ProjectUser(w)
    BY DEF Next, vars, viewVars, ProjectionStep, ProjectPayment, ProjectPayout
<1> QED BY <1>1, <1>2, <1>3, <1>4, <1>5, <1>6, <1>7, <1>8, <1>9, <1>10, <1>11

\* The versions a client can name, of rows that may not be there yet.
LEMMA StoredVersionsGrow ==
    ASSUME TablesInv, [Next]_vars, NEW a \in Aggregates
    PROVE  StoredVersions[a] \in Nat /\ StoredVersions'[a] >= StoredVersions[a]
<1>1. StoredVersions[a] = IF a[1] = "spot" /\ a[2] \in Spots THEN Stored(spot[a[2]])
                          ELSE IF a[1] = "booking" /\ a[2] \in Bookings THEN Stored(booking[a[2]])
                          ELSE 0
    BY DEF StoredVersions
<1>2. StoredVersions'[a] = IF a[1] = "spot" /\ a[2] \in Spots THEN Stored(spot'[a[2]])
                           ELSE IF a[1] = "booking" /\ a[2] \in Bookings THEN Stored(booking'[a[2]])
                           ELSE 0
    BY DEF StoredVersions, Stored
<1> QED BY <1>1, <1>2, VersionsGrow

\* What a waiting or served read q has seen of its header, by the versions V.
Seen(q, V) ==
    q # Wait!Idle =>
        /\ q.next \in 1..(Len(q.header) + 1)
        /\ q.late = FALSE =>
               \A i \in 1..(q.next - 1) :
                   q.header[i].of[1] # "session" => V[q.header[i].of] >= q.header[i].at
        /\ q.pc = "served" /\ q.late = FALSE => q.next = Len(q.header) + 1

ReadsInv ==
    /\ reader \in [Readers -> Wait!Request \cup {Wait!Idle}]
    /\ \A r \in Readers : Seen(reader[r], StoredVersions)

\* What was seen stays seen.
LEMMA StillSeen ==
    ASSUME TablesInv, [Next]_vars, NEW q \in Wait!Request \cup {Wait!Idle}, Seen(q, StoredVersions)
    PROVE  Seen(q, StoredVersions')
<1>1. ASSUME q # Wait!Idle, q.late = FALSE, NEW i \in 1..(q.next - 1), q.header[i].of[1] # "session"
      PROVE  StoredVersions'[q.header[i].of] >= q.header[i].at
  <2>1. /\ q.next \in 1..(Len(q.header) + 1) /\ q.header \in Seq(Wait!Entry)
        /\ StoredVersions[q.header[i].of] >= q.header[i].at
    BY <1>1 DEF Seen, Wait!Request
  <2>2. i \in 1..Len(q.header) /\ Len(q.header) \in Nat
    BY <2>1, LenProperties
  <2>3. q.header[i] \in Wait!Entry
    BY <2>1, <2>2, ElementOfSeq
  <2>4. q.header[i].of \in Aggregates /\ q.header[i].at \in Nat
    BY <2>3 DEF Wait!Entry
  <2>5. /\ StoredVersions[q.header[i].of] \in Nat
        /\ StoredVersions'[q.header[i].of] >= StoredVersions[q.header[i].of]
        /\ StoredVersions'[q.header[i].of] \in Nat
    <3>1. TablesInv'
      BY ScopeStep, UsersStep, SpotsStep, BookingsStep, PaymentsStep, PayoutsStep DEF TablesInv
    <3>2. \A s \in Spots : Stored(spot'[s]) \in Nat
      BY <3>1 DEF TablesInv, SpotsInv, ViewSpot, Stored
    <3>3. \A b \in Bookings : Stored(booking'[b]) \in Nat
      BY <3>1 DEF TablesInv, BookingsInv, ViewBooking, Stored
    <3>4. \A a \in Aggregates : StoredVersions'[a] \in Nat
      BY <3>2, <3>3 DEF StoredVersions, Stored
    <3> QED BY <2>4, <3>4, StoredVersionsGrow
  <2> QED BY <2>1, <2>4, <2>5
<1> QED BY <1>1 DEF Seen

\* A read comes one entry further.
LEMMA OneFurther ==
    ASSUME NEW q \in Wait!Request, NEW V, Seen(q, V), q.pc = "waiting", q.next <= Len(q.header),
           NEW late \in BOOLEAN, NEW k, k = [q EXCEPT !.next = @ + 1, !.late = @ \/ late],
           late = FALSE => LET entry == q.header[q.next]
                           IN entry.of[1] = "session" \/ V[entry.of] >= entry.at
    PROVE  k \in Wait!Request /\ Seen(k, V)
<1>1. /\ q.pc \in {"waiting", "served"} /\ q.header \in Seq(Wait!Entry) /\ q.next \in Nat
      /\ q.late \in BOOLEAN
    BY DEF Wait!Request
<1>2. q # Wait!Idle
    BY DEF Wait!Idle
<1>3. PICK cut : cut = (q.late \/ late)
    OBVIOUS
<1>4. cut \in BOOLEAN
    BY <1>3
<1>5. k = [q EXCEPT !.next = q.next + 1, !.late = cut]
    BY <1>3
<1>6. /\ k \in Wait!Request /\ k.pc = "waiting" /\ k.header = q.header /\ k.next = q.next + 1
      /\ k.late = cut
  <2>1. PICK half : half = [q EXCEPT !.next = q.next + 1]
    OBVIOUS
  <2>2. /\ half \in Wait!Request /\ half.pc = q.pc /\ half.header = q.header
        /\ half.next = q.next + 1
    BY ONLY <1>1, <2>1, q \in Wait!Request DEF Wait!Request
  <2>3. k = [half EXCEPT !.late = cut]
    BY ONLY <1>5, <2>1, q \in Wait!Request DEF Wait!Request
  <2>4. /\ k \in Wait!Request /\ k.pc = half.pc /\ k.header = half.header /\ k.next = half.next
        /\ k.late = cut
    BY ONLY <1>4, <2>2, <2>3 DEF Wait!Request
  <2> QED BY <2>2, <2>4
<1>7. Len(q.header) \in Nat
    BY <1>1, LenProperties
<1>8. ASSUME cut = FALSE
      PROVE  q.late = FALSE /\ late = FALSE
    BY <1>1, <1>3, <1>8
<1>9. ASSUME k.late = FALSE, NEW i \in 1..(k.next - 1), k.header[i].of[1] # "session"
      PROVE  V[k.header[i].of] >= k.header[i].at
  <2>1. q.late = FALSE /\ late = FALSE
    BY <1>6, <1>8, <1>9
  <2>2. CASE i = q.next
    BY <1>6, <1>9, <2>1, <2>2
  <2>3. CASE i # q.next
    <3>1. i \in 1..(q.next - 1)
      BY <1>1, <1>6, <2>3
    <3> QED BY <1>2, <1>6, <1>9, <2>1, <3>1 DEF Seen
  <2> QED BY <2>2, <2>3
<1>10. k.next \in 1..(Len(k.header) + 1)
    BY <1>1, <1>6, <1>7
<1> QED BY <1>6, <1>9, <1>10 DEF Seen

\* A version a writer answered with names an aggregate of the read model, or a session.
LEMMA WrittenEntries ==
    ASSUME TablesInv
    PROVE  Written \subseteq Wait!Entry
<1>1. ASSUME NEW s \in focus.spots
      PROVE  [of |-> <<"spot", s>>, at |-> Len(spots_log[s])] \in Wait!Entry
  <2>1. s \in Spots /\ Len(spots_log[s]) \in Nat
    BY InScope, LenProperties DEF TablesInv, SpotsInv, SpotTypeOK
  <2>2. <<"spot", s>> \in Aggregates
    BY <2>1 DEF Aggregates
  <2> QED BY <2>1, <2>2 DEF Wait!Entry
<1>2. ASSUME NEW b \in focus.bookings
      PROVE  /\ [of |-> <<"booking", b>>, at |-> Len(bookings_log[b])] \in Wait!Entry
             /\ [of |-> <<"session", b>>, at |-> 1] \in Wait!Entry
  <2>1. b \in Bookings /\ Len(bookings_log[b]) \in Nat
    BY InScope, LenProperties DEF TablesInv, BookingsInv
  <2>2. <<"booking", b>> \in Aggregates /\ <<"session", b>> \in Aggregates
    BY <2>1 DEF Aggregates
  <2> QED BY <2>1, <2>2 DEF Wait!Entry
<1> QED BY <1>1, <1>2 DEF Written

\* Reads and the projections they wait for.
LEMMA ReadsStep ==
    ASSUME TablesInv, ReadsInv, [Next]_vars
    PROVE  ReadsInv'
<1>1. \A r \in Readers : reader[r] \in Wait!Request \cup {Wait!Idle} /\ Seen(reader[r], StoredVersions')
    BY StillSeen DEF ReadsInv
<1>2. ASSUME UNCHANGED reader
      PROVE  ReadsInv'
  <2>1. reader' \in [Readers -> Wait!Request \cup {Wait!Idle}]
    BY <1>2 DEF ReadsInv
  <2>2. \A r \in Readers : Seen(reader'[r], StoredVersions')
    BY <1>1, <1>2
  <2> QED BY <2>1, <2>2 DEF ReadsInv
<1>3. ASSUME NEW r \in Readers, NEW k \in Wait!Request \cup {Wait!Idle}, reader' = [reader EXCEPT ![r] = k],
             Seen(k, StoredVersions), UNCHANGED viewVars
      PROVE  ReadsInv'
  <2>1. StoredVersions' = StoredVersions
    BY <1>3 DEF StoredVersions, Stored, viewVars
  <2>2. reader' \in [Readers -> Wait!Request \cup {Wait!Idle}]
    BY <1>3 DEF ReadsInv
  <2>3. \A w \in Readers : Seen(reader'[w], StoredVersions')
    BY <1>3, <2>1 DEF ReadsInv
  <2> QED BY <2>2, <2>3 DEF ReadsInv
<1>4. ASSUME NEW r \in Readers, NEW one \in Written, NEW two \in Written, Wait!Ask(r, <<one, two>>),
             UNCHANGED viewVars
      PROVE  ReadsInv'
  <2>1. PICK header : header = <<one, two>>
    OBVIOUS
  <2>2. header \in Seq(Wait!Entry) /\ Len(header) = 2
    BY <2>1, WrittenEntries
  <2>3. PICK no : no = FALSE
    OBVIOUS
  <2>4. PICK k : k = [pc |-> "waiting", header |-> header, next |-> 1, late |-> no]
    OBVIOUS
  <2>5. no \in BOOLEAN
    BY <2>3
  <2>6. k \in Wait!Request /\ k.header = header /\ k.next = 1 /\ k.pc = "waiting"
    BY <2>2, <2>4, <2>5 DEF Wait!Request
  <2>7. Seen(k, StoredVersions)
    BY <2>2, <2>6 DEF Seen
  <2>8. reader' = [reader EXCEPT ![r] = k]
    BY <1>4, <2>1, <2>3, <2>4 DEF Wait!Ask
  <2> QED BY <1>3, <1>4, <2>6, <2>7, <2>8
<1>5. ASSUME NEW r \in Readers, Wait!WaitStep(r), UNCHANGED viewVars
      PROVE  ReadsInv'
  <2>1. PICK q : q = reader[r]
    OBVIOUS
  <2>2. q \in Wait!Request \cup {Wait!Idle} /\ Seen(q, StoredVersions)
    BY <2>1 DEF ReadsInv
  <2>3. DOMAIN reader = Readers
    BY DEF ReadsInv
  <2>4. ASSUME NEW late \in BOOLEAN, Wait!Waiting(r), Wait!Entries(r), Wait!Advance(r, late),
               late = FALSE => LET entry == q.header[q.next]
                               IN entry.of[1] = "session" \/ StoredVersions[entry.of] >= entry.at
        PROVE  ReadsInv'
    <3>1. q.pc = "waiting" /\ q.next <= Len(q.header)
      BY <2>1, <2>4 DEF Wait!Waiting, Wait!Entries
    <3>2. q \in Wait!Request
      BY <2>2, <3>1 DEF Wait!Idle
    <3>3. PICK k : k = [q EXCEPT !.next = @ + 1, !.late = @ \/ late]
      OBVIOUS
    <3>4. reader' = [reader EXCEPT ![r] = k]
      BY <2>1, <2>3, <2>4, <3>3 DEF Wait!Advance
    <3>5. k \in Wait!Request /\ Seen(k, StoredVersions)
      BY <2>2, <2>4, <3>1, <3>2, <3>3, OneFurther
    <3> QED BY <1>3, <1>5, <3>4, <3>5
  <2>5. CASE Wait!EntryReached(r)
    <3>1. PICK no : no = FALSE
      OBVIOUS
    <3>2. no \in BOOLEAN
      BY <3>1
    <3>3. Wait!Waiting(r) /\ Wait!Entries(r) /\ Wait!Advance(r, no)
      BY <2>5, <3>1 DEF Wait!EntryReached
    <3>4. StoredVersions[q.header[q.next].of] >= q.header[q.next].at
      BY <2>1, <2>5 DEF Wait!EntryReached, Wait!Reached
    <3> QED BY <2>4, <3>2, <3>3, <3>4
  <2>6. CASE Wait!NotKept(r)
    <3>1. PICK no : no = FALSE
      OBVIOUS
    <3>2. no \in BOOLEAN
      BY <3>1
    <3>3. Wait!Waiting(r) /\ Wait!Entries(r) /\ Wait!Advance(r, no)
      BY <2>6, <3>1 DEF Wait!NotKept
    <3>4. q.pc = "waiting" /\ q.next <= Len(q.header)
      BY <2>1, <3>3 DEF Wait!Waiting, Wait!Entries
    <3>5. q \in Wait!Request /\ q # Wait!Idle
      BY <2>2, <3>4 DEF Wait!Idle
    <3>6. q.header \in Seq(Wait!Entry) /\ q.next \in 1..Len(q.header)
      <4>1. q.next \in 1..(Len(q.header) + 1) /\ q.header \in Seq(Wait!Entry)
        BY <2>2, <3>5 DEF Seen, Wait!Request
      <4>2. Len(q.header) \in Nat
        BY <4>1, LenProperties
      <4> QED BY <3>4, <4>1, <4>2
    <3>7. q.header[q.next] \in Wait!Entry
      BY <3>6, ElementOfSeq
    <3>8. q.header[q.next].of \in Aggregates
      BY <3>7 DEF Wait!Entry
    <3>9. q.header[q.next].of \notin {a \in Aggregates : a[1] # "session"}
      BY <2>1, <2>6 DEF Wait!NotKept
    <3>10. q.header[q.next].of[1] = "session"
      BY <3>8, <3>9
    <3> QED BY <2>4, <3>2, <3>3, <3>10
  <2>7. CASE Wait!PollFails(r)
    <3>1. PICK yes : yes = TRUE
      OBVIOUS
    <3>2. yes \in BOOLEAN /\ yes # FALSE
      BY <3>1
    <3>3. Wait!Waiting(r) /\ Wait!Entries(r) /\ Wait!Advance(r, yes)
      BY <2>7, <3>1 DEF Wait!PollFails
    <3> QED BY <2>4, <3>2, <3>3
  <2>8. CASE Wait!TimesOut(r)
    <3>1. PICK yes : yes = TRUE
      OBVIOUS
    <3>2. yes \in BOOLEAN /\ yes # FALSE
      BY <3>1
    <3>3. q.pc = "waiting"
      BY <2>1, <2>8 DEF Wait!TimesOut, Wait!Waiting
    <3>4. q \in Wait!Request /\ q # Wait!Idle
      BY <2>2, <3>3 DEF Wait!Idle
    <3>5. PICK k : k = [q EXCEPT !.pc = "served", !.late = yes]
      OBVIOUS
    <3>6. /\ k \in Wait!Request /\ k.header = q.header /\ k.next = q.next /\ k.late = yes
      BY <3>2, <3>4, <3>5 DEF Wait!Request
    <3>7. Seen(k, StoredVersions)
      BY <2>2, <3>2, <3>4, <3>6 DEF Seen
    <3>8. reader' = [reader EXCEPT ![r] = k]
      BY <2>1, <2>3, <2>8, <3>1, <3>5 DEF Wait!TimesOut
    <3> QED BY <1>3, <1>5, <3>6, <3>7, <3>8
  <2>9. CASE Wait!Serve(r)
    <3>1. q.pc = "waiting" /\ ~(q.next <= Len(q.header))
      BY <2>1, <2>9 DEF Wait!Serve, Wait!Waiting, Wait!Entries
    <3>2. q \in Wait!Request /\ q # Wait!Idle
      BY <2>2, <3>1 DEF Wait!Idle
    <3>3. PICK k : k = [q EXCEPT !.pc = "served"]
      OBVIOUS
    <3>4. k \in Wait!Request /\ k.header = q.header /\ k.next = q.next /\ k.late = q.late
      BY <3>2, <3>3 DEF Wait!Request
    <3>5. q.next = Len(q.header) + 1
      <4>1. q.next \in 1..(Len(q.header) + 1) /\ q.header \in Seq(Wait!Entry)
        BY <2>2, <3>2 DEF Seen, Wait!Request
      <4>2. Len(q.header) \in Nat
        BY <4>1, LenProperties
      <4> QED BY <3>1, <4>1, <4>2
    <3>6. Seen(k, StoredVersions)
      BY <2>2, <3>2, <3>4, <3>5 DEF Seen
    <3>7. reader' = [reader EXCEPT ![r] = k]
      BY <2>1, <2>3, <2>9, <3>3 DEF Wait!Serve
    <3> QED BY <1>3, <1>5, <3>4, <3>6, <3>7
  <2>10. CASE Wait!Answered(r)
    <3>1. reader' = [reader EXCEPT ![r] = Wait!Idle]
      BY <2>10 DEF Wait!Answered
    <3>2. Seen(Wait!Idle, StoredVersions)
      BY DEF Seen
    <3> QED BY <1>3, <1>5, <3>1, <3>2
  <2> QED BY <1>5, <2>5, <2>6, <2>7, <2>8, <2>9, <2>10 DEF Wait!WaitStep
<1>6. ASSUME ReaderStep, UNCHANGED viewVars
      PROVE  ReadsInv'
    BY <1>4, <1>5, <1>6, InScope DEF ReaderStep, TablesInv
<1> QED BY <1>2, <1>6 DEF Next, vars

\* Every reader only went past versions that the read model holds.
THEOREM ReadsInvariance == Spec => []ReadsInv
<1>1. Init => ReadsInv
  <2> SUFFICES ASSUME Init
               PROVE  ReadsInv
    OBVIOUS
  <2>1. reader = [r \in Readers |-> Wait!Idle]
    BY DEF Init, Wait!AwaitInit
  <2> QED BY <2>1 DEF ReadsInv, Seen
<1>2. TablesInv /\ ReadsInv /\ [Next]_vars => ReadsInv'
    BY ReadsStep
<1> QED BY <1>1, <1>2, TablesInvariance, PTL DEF Spec

\* A read that was not cut short sees everything its client named, whatever was
\* projected, and in whatever order, while it waited.
THEOREM ReadYourWritesHolds == Spec => []ReadYourWrites
<1>1. ReadsInv => ReadYourWrites
  <2> SUFFICES ASSUME ReadsInv, NEW r \in Readers, reader[r].pc = "served", ~reader[r].late,
                      NEW i \in DOMAIN reader[r].header, reader[r].header[i].of[1] # "session"
               PROVE  StoredVersions[reader[r].header[i].of] >= reader[r].header[i].at
    BY DEF ReadYourWrites
  <2>1. PICK q : q = reader[r]
    OBVIOUS
  <2>2. q \in Wait!Request /\ q # Wait!Idle /\ Seen(q, StoredVersions)
    BY <2>1 DEF ReadsInv, Wait!Idle
  <2>3. q.late = FALSE /\ q.header \in Seq(Wait!Entry)
    BY <2>1, <2>2 DEF Wait!Request
  <2>4. q.next = Len(q.header) + 1 /\ Len(q.header) \in Nat
    BY <2>1, <2>2, <2>3, LenProperties DEF Seen
  <2>5. i \in 1..(q.next - 1)
    BY <2>1, <2>3, <2>4, LenProperties
  <2> QED BY <2>1, <2>2, <2>3, <2>5 DEF Seen
<1> QED BY <1>1, ReadsInvariance, PTL

-----------------------------------------------------------------------------
(* Notifications *)

\* Why n may be there, given the row of its booking and the tables of its user.
Justified(n, row) ==
    /\ row # Null /\ row.status \in {"confirmed", "cancelled"}
    /\ n.user = IF n.kind = "spot_booked" THEN row.host ELSE row.renter
    /\ n.kind = "rate_booking" => n.visible_from = row.ends_at

StillNews(row, kind) == row.status = "confirmed" /\ (kind = "rate_booking" => row.rating = Null)

Open(n) == n.handled = FALSE

NotesInv ==
    /\ notification \subseteq ViewNotification
    /\ \A n \in notification :
           /\ Justified(n, booking[n.subject])
           /\ Open(n) => StillNews(booking[n.subject], n.kind)
           /\ ~Open(n) /\ StillNews(booking[n.subject], n.kind) =>
                  DismissedBy(n.user, n.subject, n.kind)
    /\ \A b \in Bookings : booking[b] # Null =>
           /\ booking[b].status = "reserved" => booking[b].rating = Null
           /\ booking[b].status = "confirmed" =>
                  \A kind \in Kinds : \E n \in notification : n.subject = b /\ n.kind = kind

\* A fresh notification.
LEMMA FreshNote ==
    ASSUME NEW b \in Bookings, NEW kind \in Kinds, NEW u \in Users, NEW at \in Nat, NEW n,
           n = Notice(b, kind, u, at)
    PROVE  /\ n \in ViewNotification /\ n.subject = b /\ n.kind = kind /\ n.user = u
           /\ n.visible_from = at /\ Open(n)
<1>1. PICK no : no = FALSE
    OBVIOUS
<1>2. no \in BOOLEAN
    BY <1>1
<1>3. n = [subject |-> b, kind |-> kind, user |-> u, visible_from |-> at, handled |-> no]
    BY <1>1 DEF Notice
<1> QED BY <1>1, <1>2, <1>3 DEF ViewNotification, Open

\* One that is closed.
LEMMA ClosedNote ==
    ASSUME NEW m \in ViewNotification, NEW n, n = [m EXCEPT !.handled = TRUE]
    PROVE  /\ n \in ViewNotification /\ n.subject = m.subject /\ n.kind = m.kind /\ n.user = m.user
           /\ n.visible_from = m.visible_from /\ ~Open(n)
<1>1. PICK yes : yes = TRUE
    OBVIOUS
<1>2. yes \in BOOLEAN
    BY <1>1
<1>3. n = [m EXCEPT !.handled = yes]
    BY <1>1
<1> QED BY <1>1, <1>2, <1>3 DEF ViewNotification, Open

\* Logs grow and watermarks of the gate rise, so a dismissal stays known.
LEMMA DismissedForGood ==
    ASSUME TablesInv, [Next]_vars, NEW u \in Users, NEW b, NEW kind, DismissedBy(u, b, kind)
    PROVE  \E i \in 1..Stored(app_user'[u]) :
               LET e == users_log'[u][i] IN
               e.type = "NotificationDismissed" /\ e.kind = kind /\ e.subject = b
<1>1. PICK i \in 1..Stored(app_user[u]) :
          /\ users_log[u][i].type = "NotificationDismissed"
          /\ users_log[u][i].kind = kind /\ users_log[u][i].subject = b
    BY DEF DismissedBy
<1>2. TablesInv'
    BY ScopeStep, UsersStep, SpotsStep, BookingsStep, PaymentsStep, PayoutsStep DEF TablesInv
<1>3. Stored(app_user[u]) \in Nat /\ Stored(app_user'[u]) >= Stored(app_user[u])
    BY VersionsGrow
<1>4. Stored(app_user'[u]) \in Nat
    BY <1>2 DEF TablesInv, UsersInv, ViewUser, Stored
<1>5. users_log[u] \in Seq(UserEvent) /\ Len(users_log[u]) \in Nat
    BY LenProperties DEF TablesInv, UsersInv
<1>6. i \in 1..Len(users_log[u])
  <2>1. app_user[u] # Null
    BY <1>1, <1>3 DEF Stored
  <2>2. \E h : UserFollows(h, users_log[u], user_db[u], app_user[u])
    BY DEF TablesInv, UsersInv
  <2>3. app_user[u].version \in 1..Len(users_log[u])
    BY <2>1, <2>2 DEF UserFollows, UserMirrors
  <2> QED BY <1>1, <1>5, <2>1, <2>3 DEF Stored
<1>7. users_log'[u][i] = users_log[u][i]
  <2>1. ASSUME NEW w \in Users, NEW name, NEW e, WriteUser(w, name, e)
        PROVE  users_log'[u][i] = users_log[u][i]
    <3>1. users_log' = [users_log EXCEPT ![w] = Append(users_log[w], e)]
      BY <2>1 DEF WriteUser
    <3>2. CASE w = u
      <4>1. users_log'[u] = Append(users_log[u], e)
        BY <3>1, <3>2 DEF TablesInv, UsersInv
      <4> QED BY <1>5, <1>6, <4>1
    <3>3. CASE w # u
      BY <3>1, <3>3 DEF TablesInv, UsersInv
    <3> QED BY <3>2, <3>3
  <2>2. ASSUME UserStep(focus.users, focus.bookings)
        PROVE  users_log'[u][i] = users_log[u][i]
    BY <2>1, <2>2, InScope
    DEF UserStep, Register, Rename, UserMarker, SeeNotifications, DismissNotification, TablesInv
  <2>3. ASSUME WriterStep, ~UserStep(focus.users, focus.bookings)
        PROVE  users_log' = users_log
    BY <2>3
    DEF WriterStep, Tick, SpotStep, BookingStep, PaymentStep, PayoutStep, Reserve, Confirm, Release,
        Cancel, Rate, WriteBooking, OpenCharge, SettleCharge, Refund, WritePayment, RequestPayout,
        FinishPayout, WritePayout, userVars
  <2> QED BY <2>2, <2>3 DEF Next, vars, upstreamVars, userVars
<1> QED BY <1>1, <1>3, <1>4, <1>7

\* What a step of UserProjector does to the notifications.
LEMMA UserNews ==
    ASSUME NEW u, ProjectUser(u)
    PROVE  \/ UNCHANGED notification
           \/ \E v \in DOMAIN users_log[u] :
                  /\ v = Stored(app_user[u]) + 1
                  /\ users_log[u][v].type = "NotificationDismissed"
                  /\ Dismiss(u, users_log[u][v])
BY DEF ProjectUser, Due, UserRegistered, UserUpdated, UserIgnored, UserSeen, UserDismissed

Closed(N, P) == {IF n \in P THEN [n EXCEPT !.handled = TRUE] ELSE n : n \in N}

\* A step that closes the notifications P of N.
LEMMA Closing ==
    ASSUME NEW N, N \subseteq ViewNotification, NEW P, P \subseteq N,
           NEW new, new = Closed(N, P)
    PROVE  /\ new \subseteq ViewNotification
           /\ \A k \in new : \E n \in N :
                  /\ k.subject = n.subject /\ k.kind = n.kind /\ k.user = n.user
                  /\ k.visible_from = n.visible_from
                  /\ Open(k) <=> (Open(n) /\ n \notin P)
           /\ \A n \in N : \E k \in new : k.subject = n.subject /\ k.kind = n.kind
<1>1. ASSUME NEW k \in new
      PROVE  /\ k \in ViewNotification
             /\ \E n \in N :
                  /\ k.subject = n.subject /\ k.kind = n.kind /\ k.user = n.user
                  /\ k.visible_from = n.visible_from
                  /\ Open(k) <=> (Open(n) /\ n \notin P)
  <2>1. PICK n \in N : k = IF n \in P THEN [n EXCEPT !.handled = TRUE] ELSE n
    BY DEF Closed
  <2>2. CASE n \in P
    <3>1. k = [n EXCEPT !.handled = TRUE]
      BY <2>1, <2>2
    <3>2. /\ k \in ViewNotification /\ k.subject = n.subject /\ k.kind = n.kind /\ k.user = n.user
          /\ k.visible_from = n.visible_from /\ ~Open(k)
      BY <3>1, ClosedNote
    <3> QED BY <2>2, <3>2
  <2>3. CASE n \notin P
    BY <2>1, <2>3
  <2> QED BY <2>2, <2>3
<1>2. ASSUME NEW n \in N
      PROVE  \E k \in new : k.subject = n.subject /\ k.kind = n.kind
  <2>1. PICK k : k = IF n \in P THEN [n EXCEPT !.handled = TRUE] ELSE n
    OBVIOUS
  <2>2. k \in new
    BY <2>1 DEF Closed
  <2>3. CASE n \in P
    <3>1. k = [n EXCEPT !.handled = TRUE]
      BY <2>1, <2>3
    <3>2. k.subject = n.subject /\ k.kind = n.kind
      BY <3>1, ClosedNote
    <3> QED BY <2>2, <3>2
  <2>4. CASE n \notin P
    BY <2>1, <2>2, <2>4
  <2> QED BY <2>3, <2>4
<1> QED BY <1>1, <1>2

\* A dismissal that was projected stays projected.
LEMMA StillDismissed ==
    ASSUME TablesInv, [Next]_vars, NEW u \in Users, NEW b, NEW kind, DismissedBy(u, b, kind)
    PROVE  DismissedBy(u, b, kind)'
<1>1. \E i \in 1..Stored(app_user'[u]) :
          LET e == users_log'[u][i] IN
          e.type = "NotificationDismissed" /\ e.kind = kind /\ e.subject = b
    BY DismissedForGood
<1> QED BY <1>1 DEF DismissedBy, Stored

\* Notifications P are closed, and bookings move so that the others stay right.
LEMMA NotesClosed ==
    ASSUME TablesInv, NotesInv, [Next]_vars, NEW P, P \subseteq notification,
           notification' = Closed(notification, P),
           \A n \in notification :
               /\ Justified(n, booking'[n.subject])
               /\ n \notin P => (StillNews(booking'[n.subject], n.kind)
                                    <=> StillNews(booking[n.subject], n.kind))
               /\ n \in P /\ StillNews(booking'[n.subject], n.kind) =>
                      DismissedBy(n.user, n.subject, n.kind)',
           \A b \in Bookings : booking'[b] # Null =>
               /\ booking'[b].status = "reserved" => booking'[b].rating = Null
               /\ booking'[b].status = "confirmed" => booking[b] # Null /\ booking[b].status = "confirmed"
    PROVE  NotesInv'
<1>1. PICK N : N = notification
    OBVIOUS
<1>2. PICK new : new = notification'
    OBVIOUS
<1>3. N \subseteq ViewNotification /\ P \subseteq N
      /\ new = Closed(N, P)
    BY <1>1, <1>2 DEF NotesInv
<1>4. /\ new \subseteq ViewNotification
      /\ \A k \in new : \E n \in N :
             /\ k.subject = n.subject /\ k.kind = n.kind /\ k.user = n.user
             /\ k.visible_from = n.visible_from
             /\ Open(k) <=> (Open(n) /\ n \notin P)
      /\ \A n \in N : \E k \in new : k.subject = n.subject /\ k.kind = n.kind
    BY ONLY <1>3, Closing
<1>5. ASSUME NEW k \in new
      PROVE  /\ Justified(k, booking'[k.subject])
             /\ Open(k) => StillNews(booking'[k.subject], k.kind)
             /\ ~Open(k) /\ StillNews(booking'[k.subject], k.kind) =>
                    DismissedBy(k.user, k.subject, k.kind)'
  <2>1. PICK n \in N :
            /\ k.subject = n.subject /\ k.kind = n.kind /\ k.user = n.user
            /\ k.visible_from = n.visible_from
            /\ Open(k) <=> (Open(n) /\ n \notin P)
    BY <1>4
  <2>2. PICK row : row = booking'[n.subject]
    OBVIOUS
  <2>3. Justified(n, row) /\ n \in notification
    BY <1>1, <2>2
  <2>4. Justified(k, row)
    BY <2>1, <2>3 DEF Justified
  <2>5. n.user \in Users
    BY <1>3 DEF ViewNotification
  <2>6. CASE n \in P
    <3>1. ~Open(k)
      BY <2>1, <2>6
    <3>2. StillNews(row, n.kind) => DismissedBy(n.user, n.subject, n.kind)'
      BY <2>2, <2>3, <2>6
    <3> QED BY <2>1, <2>2, <2>4, <3>1, <3>2
  <2>7. CASE n \notin P
    <3>1. StillNews(row, n.kind) <=> StillNews(booking[n.subject], n.kind)
      BY <2>2, <2>3, <2>7
    <3>2. Open(k) <=> Open(n)
      BY <2>1, <2>7
    <3>3. /\ Open(n) => StillNews(booking[n.subject], n.kind)
          /\ ~Open(n) /\ StillNews(booking[n.subject], n.kind) =>
                 DismissedBy(n.user, n.subject, n.kind)
      BY <2>3 DEF NotesInv
    <3>4. DismissedBy(n.user, n.subject, n.kind) => DismissedBy(n.user, n.subject, n.kind)'
      BY <2>5, StillDismissed
    <3> QED BY <2>1, <2>2, <2>4, <3>1, <3>2, <3>3, <3>4
  <2> QED BY <2>6, <2>7
<1>6. ASSUME NEW b \in Bookings, booking'[b] # Null
      PROVE  /\ booking'[b].status = "reserved" => booking'[b].rating = Null
             /\ booking'[b].status = "confirmed" =>
                    \A kind \in Kinds : \E n \in new : n.subject = b /\ n.kind = kind
  <2>1. ASSUME booking'[b].status = "confirmed", NEW kind \in Kinds
        PROVE  \E k \in new : k.subject = b /\ k.kind = kind
    <3>1. \E n \in N : n.subject = b /\ n.kind = kind
      BY <1>1, <1>6, <2>1 DEF NotesInv
    <3> QED BY <1>4, <3>1
  <2> QED BY <1>6, <2>1
<1>7. new \subseteq ViewNotification
    BY <1>4
<1> QED BY <1>2, <1>5, <1>6, <1>7 DEF NotesInv

\* A booking is confirmed: its host and its renter are told.
LEMMA NotesInserted ==
    ASSUME TablesInv, NotesInv, [Next]_vars, NEW b \in Bookings, NEW succ \in ViewBooking,
           booking' = [booking EXCEPT ![b] = succ],
           booking[b] # Null, booking[b].status = "reserved", succ.rating = booking[b].rating,
           succ.status = "confirmed", NEW at \in Nat, InsertForConfirmed(b, succ, at)
    PROVE  NotesInv'
<1>1. PICK mine : mine = Notice(b, "spot_booked", succ.host, at)
    OBVIOUS
<1>2. PICK yours : yours = Notice(b, "rate_booking", succ.renter, succ.ends_at)
    OBVIOUS
<1>3. succ.host \in Users /\ succ.renter \in Users /\ succ.ends_at \in Nat /\ succ # Null
    BY NullAssumption DEF ViewBooking
<1>0. "spot_booked" \in Kinds /\ "rate_booking" \in Kinds
    BY DEF Kinds
<1>4. /\ mine \in ViewNotification /\ mine.subject = b /\ mine.kind = "spot_booked"
      /\ mine.user = succ.host /\ mine.visible_from = at /\ Open(mine)
    BY <1>1, <1>3, <1>0, FreshNote
<1>5. /\ yours \in ViewNotification /\ yours.subject = b /\ yours.kind = "rate_booking"
      /\ yours.user = succ.renter /\ yours.visible_from = succ.ends_at /\ Open(yours)
    BY <1>2, <1>3, <1>0, FreshNote
<1>6. \A m \in notification : m.subject # b
    BY DEF NotesInv, Justified
<1>7. notification' = notification \cup {mine, yours}
    BY <1>1, <1>2, <1>4, <1>5, <1>6 DEF InsertForConfirmed, Insert, SameKey
<1>8. succ.rating = Null
    BY DEF NotesInv
<1>9. booking'[b] = succ /\ \A c \in Bookings : c # b => booking'[c] = booking[c]
    BY DEF TablesInv, BookingsInv
<1>10. notification' \subseteq ViewNotification
    BY <1>4, <1>5, <1>7 DEF NotesInv
<1>11. ASSUME NEW n \in notification'
       PROVE  /\ Justified(n, booking'[n.subject])
              /\ Open(n) => StillNews(booking'[n.subject], n.kind)
              /\ ~Open(n) /\ StillNews(booking'[n.subject], n.kind) =>
                     DismissedBy(n.user, n.subject, n.kind)'
  <2>1. CASE n \in notification
    <3>1. n.subject # b /\ n.subject \in Bookings /\ n.user \in Users
      BY <1>6, <2>1 DEF NotesInv, ViewNotification
    <3>2. booking'[n.subject] = booking[n.subject]
      BY <1>9, <3>1
    <3>3. DismissedBy(n.user, n.subject, n.kind) => DismissedBy(n.user, n.subject, n.kind)'
      BY <3>1, StillDismissed
    <3> QED BY <2>1, <3>2, <3>3 DEF NotesInv
  <2>2. CASE n = mine
    <3>1. Justified(n, succ) /\ StillNews(succ, n.kind) /\ Open(n) /\ n.subject = b
      BY <1>3, <1>4, <2>2 DEF Justified, StillNews
    <3> QED BY <1>9, <3>1
  <2>3. CASE n = yours
    <3>1. Justified(n, succ) /\ StillNews(succ, n.kind) /\ Open(n) /\ n.subject = b
      BY <1>3, <1>5, <1>8, <2>3 DEF Justified, StillNews
    <3> QED BY <1>9, <3>1
  <2> QED BY <1>7, <2>1, <2>2, <2>3
<1>12. ASSUME NEW c \in Bookings, booking'[c] # Null
       PROVE  /\ booking'[c].status = "reserved" => booking'[c].rating = Null
              /\ booking'[c].status = "confirmed" =>
                     \A kind \in Kinds : \E n \in notification' : n.subject = c /\ n.kind = kind
  <2>1. CASE c = b
    BY <1>4, <1>5, <1>7, <1>9, <2>1 DEF Kinds
  <2>2. CASE c # b
    BY <1>7, <1>9, <1>12, <2>2 DEF NotesInv
  <2> QED BY <2>1, <2>2
<1> QED BY <1>10, <1>11, <1>12 DEF NotesInv

\* Notifications, their bookings and their users' dismissals.
LEMMA NotesStep ==
    ASSUME TablesInv, NotesInv, [Next]_vars
    PROVE  NotesInv'
<1>1. ASSUME UNCHANGED <<booking, notification>>
      PROVE  NotesInv'
  <2>1. ASSUME NEW n \in notification, DismissedBy(n.user, n.subject, n.kind)
        PROVE  DismissedBy(n.user, n.subject, n.kind)'
    <3>1. n.user \in Users
      BY DEF NotesInv, ViewNotification
    <3> QED BY <2>1, <3>1, StillDismissed
  <2> QED BY <1>1, <2>1 DEF NotesInv
<1>2. ASSUME NEW u \in Users, ProjectUser(u), NEW v \in DOMAIN users_log[u],
             v = Stored(app_user[u]) + 1, users_log[u][v].type = "NotificationDismissed",
             Dismiss(u, users_log[u][v]), UNCHANGED users_log
      PROVE  NotesInv'
  <2>1. PICK e : e = users_log[u][v]
    OBVIOUS
  <2>2. PICK P : P = {n \in notification : n.subject = e.subject /\ n.kind = e.kind /\ n.user = u}
    OBVIOUS
  <2>3. notification' = Closed(notification, P)
    BY <1>2, <2>1, <2>2 DEF Dismiss, Close, Closed
  <2>4. booking' = booking /\ users_log' = users_log
    BY <1>2 DEF ProjectUser
  <2>5. v \in 1..Stored(app_user'[u])
    <3>1. /\ app_user'[u] \in ViewUser /\ app_user'[u].version = v
      BY <1>2, UserProjection DEF TablesInv
    <3>2. app_user'[u] # Null
      BY <3>1, NullAssumption
    <3>3. Stored(app_user'[u]) = v /\ v \in Nat
      BY <3>1, <3>2 DEF Stored, ViewUser
    <3>4. v # 0
      BY <1>2, VersionsGrow
    <3> QED BY <3>3, <3>4
  <2>6. DismissedBy(u, e.subject, e.kind)'
    BY <1>2, <2>1, <2>4, <2>5 DEF DismissedBy, Stored
  <2>7. ASSUME NEW n \in notification
        PROVE  /\ Justified(n, booking'[n.subject])
               /\ n \notin P => (StillNews(booking'[n.subject], n.kind)
                                    <=> StillNews(booking[n.subject], n.kind))
               /\ n \in P => DismissedBy(n.user, n.subject, n.kind)'
    <3>1. n \in P => n.user = u /\ n.subject = e.subject /\ n.kind = e.kind
      BY <2>2
    <3>2. n \in P => DismissedBy(n.user, n.subject, n.kind)'
      BY <2>6, <3>1
    <3> QED BY <2>4, <3>2 DEF NotesInv
  <2>8. P \subseteq notification
    BY <2>2
  <2>9. \A b \in Bookings : booking'[b] # Null =>
            /\ booking'[b].status = "reserved" => booking'[b].rating = Null
            /\ booking'[b].status = "confirmed" => booking[b] # Null /\ booking[b].status = "confirmed"
    BY <2>4 DEF NotesInv
  <2> QED BY <2>3, <2>7, <2>8, <2>9, NotesClosed
<1>3. ASSUME NEW u \in Users, ProjectUser(u), UNCHANGED users_log
      PROVE  NotesInv'
    BY <1>1, <1>2, <1>3, UserNews DEF ProjectUser
<1>4. ASSUME NEW b \in Bookings, ProjectBooking(b)
      PROVE  NotesInv'
  <2>1. PICK row : row = booking[b]
    OBVIOUS
  <2>2. PICK succ : succ = booking'[b]
    OBVIOUS
  <2>3. /\ booking' = [booking EXCEPT ![b] = succ] /\ succ \in ViewBooking /\ succ # Null
        /\ BookingNews(b, row, succ)
    BY <1>4, <2>1, <2>2, BookingProjection, NullAssumption DEF TablesInv
  <2>4. booking'[b] = succ /\ \A c \in Bookings : c # b => booking'[c] = booking[c]
    BY <2>3 DEF TablesInv, BookingsInv
  <2>5. \A n \in notification : n.subject \in Bookings /\ Justified(n, booking[n.subject])
    BY DEF NotesInv, ViewNotification
  <2>6. row # Null => /\ row.host = succ.host /\ row.renter = succ.renter
                      /\ row.ends_at = succ.ends_at
                      /\ row.status = "reserved" => row.rating = Null
    BY <2>1, <2>3 DEF BookingNews, NotesInv
  <2>7. ASSUME NEW P, P \subseteq notification, notification' = Closed(notification, P),
               succ.status = "reserved" => succ.rating = Null,
               succ.status = "confirmed" => row # Null /\ row.status = "confirmed",
               \A n \in notification : n.subject = b =>
                   /\ succ.status \in {"confirmed", "cancelled"}
                   /\ n \notin P => (StillNews(succ, n.kind) <=> StillNews(row, n.kind))
                   /\ n \in P => ~StillNews(succ, n.kind),
               \A n \in P : n.subject = b
        PROVE  NotesInv'
    <3>1. ASSUME NEW n \in notification
          PROVE  /\ Justified(n, booking'[n.subject])
                 /\ n \notin P => (StillNews(booking'[n.subject], n.kind)
                                      <=> StillNews(booking[n.subject], n.kind))
                 /\ n \in P => ~StillNews(booking'[n.subject], n.kind)
      <4>1. CASE n.subject = b
        <5>1. Justified(n, row)
          BY <2>1, <2>5, <4>1
        <5>2. Justified(n, succ)
          BY <2>3, <2>6, <2>7, <4>1, <5>1 DEF Justified
        <5> QED BY <2>1, <2>4, <2>7, <4>1, <5>2
      <4>2. CASE n.subject # b
        <5>1. booking'[n.subject] = booking[n.subject] /\ n \notin P
          BY <2>4, <2>5, <2>7, <4>2
        <5> QED BY <2>5, <5>1
      <4> QED BY <4>1, <4>2
    <3>2. ASSUME NEW c \in Bookings, booking'[c] # Null
          PROVE  /\ booking'[c].status = "reserved" => booking'[c].rating = Null
                 /\ booking'[c].status = "confirmed" => booking[c] # Null /\ booking[c].status = "confirmed"
      <4>1. CASE c = b
        BY <2>1, <2>4, <2>7, <4>1
      <4>2. CASE c # b
        BY <2>4, <3>2, <4>2 DEF NotesInv
      <4> QED BY <4>1, <4>2
    <3> QED BY <2>7, <3>1, <3>2, NotesClosed
  <2>8. ASSUME UNCHANGED notification
        PROVE  notification' = Closed(notification, {})
    BY <2>8 DEF Closed
  <2>9. ASSUME row = Null \/ row.status = "reserved", NEW n \in notification
        PROVE  n.subject # b
    BY <2>1, <2>5, <2>9 DEF Justified
  <2>10. CASE row = Null /\ succ.status = "reserved" /\ succ.rating = Null /\ UNCHANGED notification
    BY <2>7, <2>8, <2>9, <2>10
  <2>11. CASE /\ row # Null /\ row.status = "reserved" /\ succ.status = "confirmed"
              /\ succ.rating = row.rating
              /\ \E at \in Nat : InsertForConfirmed(b, succ, at)
    BY <2>1, <2>3, <2>11, NotesInserted
  <2>12. CASE /\ row # Null /\ row.status = "reserved" /\ succ.status = "released"
              /\ UNCHANGED notification
    BY <2>7, <2>8, <2>9, <2>12
  <2>13. CASE /\ row # Null /\ row.status = "confirmed" /\ succ.status = "cancelled"
              /\ Handle(b, {"rate_booking", "spot_booked"})
    <3>1. PICK P : P = {n \in notification : n.subject = b /\ n.kind \in {"rate_booking", "spot_booked"}}
      OBVIOUS
    <3>2. notification' = Closed(notification, P)
      BY <2>13, <3>1 DEF Handle, Close, Closed
    <3>3. \A n \in notification : n.kind \in {"rate_booking", "spot_booked"}
      BY DEF NotesInv, ViewNotification, Kinds
    <3>4. \A n \in notification : n.subject = b => n \in P
      BY <3>1, <3>3
    <3>5. \A kind : ~StillNews(succ, kind)
      BY <2>13 DEF StillNews
    <3>6. P \subseteq notification /\ \A n \in P : n.subject = b
      BY <3>1
    <3> QED BY <2>7, <2>13, <3>2, <3>4, <3>5, <3>6
  <2>14. CASE /\ row # Null /\ row.status = "confirmed" /\ succ.status = "confirmed"
              /\ succ.rating # Null
              /\ Handle(b, {"rate_booking"})
    <3>1. PICK P : P = {n \in notification : n.subject = b /\ n.kind \in {"rate_booking"}}
      OBVIOUS
    <3>2. notification' = Closed(notification, P)
      BY <2>14, <3>1 DEF Handle, Close, Closed
    <3>3. ASSUME NEW n \in notification, n.subject = b
          PROVE  /\ n \notin P => (StillNews(succ, n.kind) <=> StillNews(row, n.kind))
                 /\ n \in P => ~StillNews(succ, n.kind)
      BY <2>14, <3>1, <3>3 DEF StillNews
    <3>4. P \subseteq notification /\ \A n \in P : n.subject = b
      BY <3>1
    <3> QED BY <2>7, <2>14, <3>2, <3>3, <3>4
  <2> QED BY <2>3, <2>10, <2>11, <2>12, <2>13, <2>14 DEF BookingNews
<1>5. ASSUME ProjectionStep, UNCHANGED users_log
      PROVE  NotesInv'
    BY <1>1, <1>3, <1>4, <1>5 DEF ProjectionStep, ProjectSpot, ProjectPayment, ProjectPayout
<1> QED BY <1>1, <1>5 DEF Next, vars, viewVars, upstreamVars, userVars

\* Every notification is there for a reason its booking's row still gives, and every
\* confirmed booking has all of its own.
THEOREM NotesInvariance == Spec => []NotesInv
<1>1. Init => NotesInv
  <2> SUFFICES ASSUME Init
               PROVE  NotesInv
    OBVIOUS
  <2>1. notification = {} /\ \A b \in Bookings : booking[b] = Null
    BY DEF Init, ViewInit
  <2> QED BY <2>1 DEF NotesInv
<1>2. TablesInv /\ NotesInv /\ [Next]_vars => NotesInv'
    BY NotesStep
<1> QED BY <1>1, <1>2, TablesInvariance, PTL DEF Spec

\* Nobody is told of a booking that was cancelled or asked for a rating that is not
\* wanted or not due; and what still matters is there until its own user dismisses it.
THEOREM NotificationsAgreeHolds == Spec => []NotificationsAgree
<1>1. TablesInv /\ NotesInv => NotificationsAgree
  <2> SUFFICES ASSUME TablesInv, NotesInv
               PROVE  NotificationsAgree
    OBVIOUS
  <2>1. \A b, kind : Relevant(b, kind) <=> StillNews(booking[b], kind)
    BY DEF Relevant, StillNews
  <2>2. \A n \in notification : n.user = Addressee(n.subject, n.kind) /\ n.handled \in BOOLEAN
    BY DEF NotesInv, Justified, Addressee, ViewNotification
  <2>3. OpenIsRelevant
    <3> SUFFICES ASSUME NEW u \in Users, NEW m \in notifications(u)
                 PROVE  /\ Relevant(m.subject, m.kind) /\ u = Addressee(m.subject, m.kind)
                        /\ m.kind = "rate_booking" => booking[m.subject].ends_at <= now
      BY DEF OpenIsRelevant
    <3>1. PICK n \in notification :
              /\ n.user = u /\ ~n.handled /\ n.visible_from <= now
              /\ m.subject = n.subject /\ m.kind = n.kind
      BY DEF notifications, find_open_for_account
    <3>2. Open(n)
      BY <2>2, <3>1 DEF Open
    <3>3. StillNews(booking[n.subject], n.kind) /\ Justified(n, booking[n.subject])
      BY <3>2 DEF NotesInv
    <3>4. n.kind = "rate_booking" => booking[n.subject].ends_at <= now
      BY <3>1, <3>3 DEF Justified
    <3> QED BY <2>1, <2>2, <3>1, <3>3, <3>4
  <2>4. ClosedForAReason
    <3> SUFFICES ASSUME NEW b \in Rows(booking), NEW kind \in Kinds, Relevant(b, kind)
                 PROVE  \E n \in notification :
                            /\ n.subject = b /\ n.kind = kind /\ n.user = Addressee(b, kind)
                            /\ n.handled => DismissedBy(n.user, b, kind)
      BY DEF ClosedForAReason
    <3>1. b \in Bookings /\ booking[b] # Null /\ booking[b].status = "confirmed"
      BY DEF Rows, Relevant, TablesInv, BookingsInv
    <3>2. PICK n \in notification : n.subject = b /\ n.kind = kind
      BY <3>1 DEF NotesInv
    <3>3. n.handled => ~Open(n)
      BY DEF Open
    <3>4. n.handled => DismissedBy(n.user, b, kind)
      BY <2>1, <3>2, <3>3 DEF NotesInv
    <3> QED BY <2>2, <3>2, <3>4
  <2> QED BY <2>3, <2>4 DEF NotificationsAgree
<1> QED BY <1>1, TablesInvariance, NotesInvariance, PTL

-----------------------------------------------------------------------------
(* Types *)

\* Whatever the projectors merge and patch, every table, log, call and reader holds
\* rows of its own columns: what the read model stores is a row its queries can read.
THEOREM TypesInvariance ==
    Spec => [](SpotTypeOK /\ UpstreamTypeOK /\ ViewTypeOK /\ Wait!AwaitTypeOK)
<1>1. TablesInv /\ ReadsInv /\ NotesInv =>
          SpotTypeOK /\ UpstreamTypeOK /\ ViewTypeOK /\ Wait!AwaitTypeOK
  <2> SUFFICES ASSUME TablesInv, ReadsInv, NotesInv
               PROVE  SpotTypeOK /\ UpstreamTypeOK /\ ViewTypeOK /\ Wait!AwaitTypeOK
    OBVIOUS
  <2>1. SpotTypeOK /\ spot \in [Spots -> ViewSpot \cup {Null}]
    BY DEF TablesInv, SpotsInv
  <2>2. payment_db \in [Bookings -> PaymentRow \cup {Null}]
    BY DEF TablesInv, PaymentsInv, Charge
  <2>3. UpstreamTypeOK
    BY <2>2 DEF TablesInv, Scope, UsersInv, BookingsInv, PayoutsInv, UpstreamTypeOK
  <2>4. ViewTypeOK
    BY <2>1 DEF TablesInv, UsersInv, BookingsInv, PaymentsInv, PayoutsInv, NotesInv, ViewTypeOK
  <2>5. Wait!AwaitTypeOK
    BY DEF ReadsInv, Wait!AwaitTypeOK
  <2> QED BY <2>1, <2>3, <2>4, <2>5
<1> QED BY <1>1, TablesInvariance, ReadsInvariance, NotesInvariance, PTL
=============================================================================
