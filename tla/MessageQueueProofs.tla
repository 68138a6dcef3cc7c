-------------------------- MODULE MessageQueueProofs --------------------------
(***************************************************************************)
(* What the operations on the message lists return, for lists of any length.  *)
(* The operator-free induction on naturals that the last lemmas use is        *)
(* derived from the library's theorems on well-founded relations.             *)
(***************************************************************************)
EXTENDS MessageQueue, TLAPS, WellFoundedInduction

LEMMA LessThanInOrder == \A x, y \in Nat : x < y => <<x, y>> \in OpToRel(<, Nat)
BY DEF OpToRel

LEMMA LeastNatural ==
  ASSUME NEW T \in SUBSET Nat, T # {}
  PROVE  \E x \in T : \A y \in T : x <= y
<1>1. PICK x \in T : \A y \in T : ~ (<<y, x>> \in OpToRel(<, Nat))
  BY WFMin, NatLessThanWellFounded
<1>2. \A y \in T : ~(y < x)
  BY <1>1, LessThanInOrder
<1> QED BY <1>2

(* A set of naturals that has 0 and is closed under successor is Nat.        *)
LEMMA SetInduction ==
  ASSUME NEW S \in SUBSET Nat, 0 \in S, \A n \in S : n + 1 \in S
  PROVE  S = Nat
<1> SUFFICES ASSUME Nat \ S # {} PROVE FALSE
  OBVIOUS
<1>1. PICK x \in Nat \ S : \A y \in Nat \ S : x <= y
  BY LeastNatural
<1>2. x # 0
  OBVIOUS
<1>3. x - 1 \in S
  BY <1>1, <1>2
<1> QED BY <1>3

-----------------------------------------------------------------------------
(* F solves the recursion of Kept.                                          *)
KeptSolution(F, q, id) ==
  F = [n \in 0..Len(q) |->
         IF n = 0 THEN <<>>
         ELSE IF q[n].id = id THEN F[n - 1] ELSE Append(F[n - 1], q[n])]

(* There is one ...                                                         *)
LEMMA KeptExists ==
  ASSUME NEW q, Len(q) \in Nat, NEW id
  PROVE  \E F : KeptSolution(F, q, id)
<1> DEFINE Step(F, n) ==
      IF n = 0 THEN <<>>
      ELSE IF q[n].id = id THEN F[n - 1] ELSE Append(F[n - 1], q[n])
<1> DEFINE S == {k \in Nat : k <= Len(q) => \E F : F = [n \in 0..k |-> Step(F, n)]}
<1>1. 0 \in S
  <2> DEFINE F == [n \in 0..0 |-> <<>>]
  <2>1. F = [n \in 0..0 |-> Step(F, n)]
    OBVIOUS
  <2> QED BY <2>1
<1>2. ASSUME NEW k \in S PROVE k + 1 \in S
  <2> SUFFICES ASSUME k + 1 <= Len(q) PROVE \E F : F = [n \in 0..(k + 1) |-> Step(F, n)]
    OBVIOUS
  <2>1. PICK G : G = [n \in 0..k |-> Step(G, n)]
    <3>1. k \in Nat /\ k <= Len(q)
      OBVIOUS
    <3> HIDE DEF Step
    <3> QED BY <3>1
  <2> DEFINE F == [n \in 0..(k + 1) |-> IF n = k + 1 THEN Step(G, n) ELSE G[n]]
  <2>2. \A n \in 0..k : F[n] = G[n]
    OBVIOUS
  <2>3. ASSUME NEW n \in 0..(k + 1) PROVE F[n] = Step(F, n)
    <3>1. CASE n = k + 1
      <4>1. F[n] = Step(G, n)
        BY <3>1
      <4>2. n - 1 \in 0..k
        BY <3>1
      <4>3. F[n - 1] = G[n - 1]
        BY <4>2, <2>2
      <4> HIDE DEF F
      <4> QED BY <4>1, <4>3
    <3>2. CASE n # k + 1
      <4>1. n \in 0..k
        BY <3>2
      <4>2. F[n] = Step(G, n)
        BY <2>1, <2>2, <4>1
      <4>3. n # 0 => F[n - 1] = G[n - 1]
        <5>1. n # 0 => n - 1 \in 0..k
          BY <4>1
        <5> QED BY <5>1, <2>2
      <4> HIDE DEF F
      <4> QED BY <4>2, <4>3
    <3> QED BY <3>1, <3>2
  <2>4. F = [n \in 0..(k + 1) |-> Step(F, n)]
    <3>1. F = [n \in 0..(k + 1) |-> F[n]]
      OBVIOUS
    <3> HIDE DEF F
    <3> QED BY <3>1, <2>3
  <2> HIDE DEF F, Step
  <2> QED BY <2>4
<1>3. S = Nat
  <2> HIDE DEF S
  <2>1. S \in SUBSET Nat
    BY DEF S
  <2> QED BY <1>1, <1>2, <2>1, SetInduction
<1>4. Len(q) \in S
  BY <1>3
<1> QED BY <1>4 DEF KeptSolution

(* ... so Kept is one.                                                      *)
LEMMA KeptUnfolds ==
  ASSUME NEW q, Len(q) \in Nat, NEW id
  PROVE  KeptSolution(Kept(q, id), q, id)
<1>1. Kept(q, id) = CHOOSE F : KeptSolution(F, q, id)
  BY DEF Kept, KeptSolution
<1> QED BY <1>1, KeptExists

(* Deleting the messages with identifier id from a list leaves a list of       *)
(* messages of the old list, none of which has that identifier.              *)
LEMMA KeptInSeq ==
  ASSUME NEW M, NEW q \in Seq(M), NEW id
  PROVE  Kept(q, id)[Len(q)] \in Seq({m \in M : m.id # id})
<1> DEFINE K == Kept(q, id)
<1> DEFINE R == {m \in M : m.id # id}
<1>1. Len(q) \in Nat
  OBVIOUS
<1>2. K = [n \in 0..Len(q) |->
             IF n = 0 THEN <<>>
             ELSE IF q[n].id = id THEN K[n - 1] ELSE Append(K[n - 1], q[n])]
  BY <1>1, KeptUnfolds DEF KeptSolution
<1> HIDE DEF K
<1> DEFINE S == {k \in Nat : k <= Len(q) => K[k] \in Seq(R)}
<1>3. 0 \in S
  BY <1>1, <1>2
<1>4. ASSUME NEW k \in S PROVE k + 1 \in S
  <2> SUFFICES ASSUME k + 1 <= Len(q) PROVE K[k + 1] \in Seq(R)
    OBVIOUS
  <2>1. K[k] \in Seq(R)
    BY <1>1
  <2>2. q[k + 1] \in M
    OBVIOUS
  <2>3. K[k + 1] = IF q[k + 1].id = id THEN K[k] ELSE Append(K[k], q[k + 1])
    <3>1. k + 1 \in 0..Len(q) /\ k + 1 # 0 /\ (k + 1) - 1 = k
      BY <1>1
    <3> QED BY <1>2, <3>1
  <2>4. CASE q[k + 1].id = id
    BY <2>1, <2>3, <2>4
  <2>5. CASE q[k + 1].id # id
    <3>1. q[k + 1] \in R
      BY <2>2, <2>5
    <3> QED BY <2>1, <2>3, <2>5, <3>1
  <2> QED BY <2>4, <2>5
<1>5. S = Nat
  <2> HIDE DEF S
  <2>1. S \in SUBSET Nat
    BY DEF S
  <2> QED BY <1>3, <1>4, <2>1, SetInduction
<1>6. Len(q) \in S
  BY <1>1, <1>5
<1> QED BY <1>6 DEF K

(* A message with another identifier stays in the list.                      *)
LEMMA KeptKeeps ==
  ASSUME NEW M, NEW q \in Seq(M), NEW id
  PROVE  \A i \in 1..Len(q) : q[i].id # id =>
           \E j \in 1..Len(Kept(q, id)[Len(q)]) : Kept(q, id)[Len(q)][j] = q[i]
<1> DEFINE K == Kept(q, id)
<1>1. Len(q) \in Nat
  OBVIOUS
<1>2. K = [n \in 0..Len(q) |->
             IF n = 0 THEN <<>>
             ELSE IF q[n].id = id THEN K[n - 1] ELSE Append(K[n - 1], q[n])]
  BY <1>1, KeptUnfolds DEF KeptSolution
<1> HIDE DEF K
<1> DEFINE Keeps(k) == \A i \in 1..k : q[i].id # id => \E j \in 1..Len(K[k]) : K[k][j] = q[i]
<1> DEFINE S == {k \in Nat : k <= Len(q) => K[k] \in Seq(M) /\ Keeps(k)}
<1>3. 0 \in S
  BY <1>1, <1>2
<1>4. ASSUME NEW k \in S PROVE k + 1 \in S
  <2> SUFFICES ASSUME k + 1 <= Len(q) PROVE K[k + 1] \in Seq(M) /\ Keeps(k + 1)
    OBVIOUS
  <2>1. K[k] \in Seq(M) /\ Keeps(k)
    BY <1>1
  <2>2. q[k + 1] \in M
    OBVIOUS
  <2>3. K[k + 1] = IF q[k + 1].id = id THEN K[k] ELSE Append(K[k], q[k + 1])
    <3>1. k + 1 \in 0..Len(q) /\ k + 1 # 0 /\ (k + 1) - 1 = k
      BY <1>1
    <3> QED BY <1>2, <3>1
  <2>4. CASE q[k + 1].id = id
    BY <2>1, <2>3, <2>4
  <2>5. CASE q[k + 1].id # id
    <3>1. K[k + 1] = Append(K[k], q[k + 1])
      BY <2>3, <2>5
    <3>2. K[k + 1] \in Seq(M) /\ Len(K[k + 1]) = Len(K[k]) + 1
      BY <2>1, <2>2, <3>1
    <3>3. K[k + 1][Len(K[k]) + 1] = q[k + 1]
      BY <2>1, <2>2, <3>1
    <3>4. \A j \in 1..Len(K[k]) : K[k + 1][j] = K[k][j]
      BY <2>1, <2>2, <3>1
    <3>5. Keeps(k + 1)
      <4> SUFFICES ASSUME NEW i \in 1..(k + 1), q[i].id # id
                   PROVE  \E j \in 1..Len(K[k + 1]) : K[k + 1][j] = q[i]
        OBVIOUS
      <4>1. CASE i = k + 1
        <5>1. Len(K[k]) + 1 \in 1..Len(K[k + 1])
          BY <2>1, <3>2
        <5> QED BY <3>3, <4>1, <5>1
      <4>2. CASE i # k + 1
        <5>1. PICK j \in 1..Len(K[k]) : K[k][j] = q[i]
          BY <2>1, <4>2
        <5>2. j \in 1..Len(K[k + 1])
          BY <2>1, <3>2
        <5> QED BY <3>4, <5>1, <5>2
      <4> QED BY <4>1, <4>2
    <3> QED BY <3>2, <3>5
  <2> QED BY <2>4, <2>5
<1>5. S = Nat
  <2> HIDE DEF S
  <2>1. S \in SUBSET Nat
    BY DEF S
  <2> QED BY <1>3, <1>4, <2>1, SetInduction
<1>6. Len(q) \in S
  BY <1>1, <1>5
<1> QED BY <1>1, <1>6 DEF K

-----------------------------------------------------------------------------
(* What the fields of a message say of each other.                          *)
LEMMA MessageFields ==
  ASSUME NEW m \in Message
  PROVE  /\ m.type \in MessageTypes
         /\ m.id \in Timers \cup {NoTimer}
         /\ m.type = "render" => m.id = NoTimer
<1>1. CASE \E type \in MessageTypes : m = Plain(type)
  BY <1>1 DEF Plain
<1>2. CASE \E t \in Timers, status \in Statuses : m = TimerMessage(t, status)
  <2>1. m.type = "timer" /\ m.id \in Timers
    BY <1>2 DEF TimerMessage
  <2> QED BY <2>1 DEF MessageTypes, ListNames
<1> QED BY <1>1, <1>2 DEF Message

LEMMA MessageConstructors ==
  /\ \A type \in MessageTypes : Plain(type) \in Message
  /\ \A t \in Timers, status \in Statuses : TimerMessage(t, status) \in Message
BY DEF Message

(* A push leaves well-formed lists, whatever it coalesces.                   *)
LEMMA PushType ==
  ASSUME NEW ls \in Lists, NEW active \in ListNames, NEW m \in Message, NEW stopping
  PROVE  /\ PushTo(ls, active, m, stopping) \in Lists
         /\ Target(active, m) \in ListNames
<1>1. Target(active, m) \in ListNames
  BY MessageFields DEF Target, MessageTypes
<1>2. PushTo(ls, active, m, stopping) \in Lists
  BY <1>1 DEF PushTo, Lists
<1> QED BY <1>1, <1>2

(* When some list has a message, popMessage finds a first one.                *)
LEMMA FirstListExists ==
  ASSUME NEW ls \in Lists, ~QueuesEmpty(ls)
  PROVE  FirstList(ls) \in ListNames /\ ls[FirstList(ls)] # <<>>
<1>1. \E l \in ListNames :
        /\ ls[l] # <<>>
        /\ \A k \in ListNames : ls[k] # <<>> => PopOrder[l] <= PopOrder[k]
  BY DEF QueuesEmpty, ListNames, PopOrder
<1> QED BY <1>1 DEF FirstList

LEMMA PopType ==
  ASSUME NEW ls \in Lists, ~QueuesEmpty(ls)
  PROVE  PopResult(ls) \in Message /\ PopRest(ls) \in Lists
<1>1. FirstList(ls) \in ListNames /\ ls[FirstList(ls)] # <<>>
  BY FirstListExists
<1>2. ls[FirstList(ls)] \in Seq(Message)
  BY <1>1 DEF Lists
<1>3. Head(ls[FirstList(ls)]) \in Message /\ Tail(ls[FirstList(ls)]) \in Seq(Message)
  BY <1>1, <1>2
<1> QED BY <1>3 DEF PopResult, PopRest, Lists

(* After deleteMessageByID(id) no list holds a message with that identifier.  *)
LEMMA DeleteType ==
  ASSUME NEW ls \in Lists, NEW id
  PROVE  /\ DeleteMessageByID(ls, id) \in Lists
         /\ ~Queued(DeleteMessageByID(ls, id), id)
<1> DEFINE R == {m \in Message : m.id # id}
<1>1. \A l \in ListNames : Kept(ls[l], id)[Len(ls[l])] \in Seq(R)
  BY KeptInSeq DEF Lists
<1>2. \A s \in Seq(R) : s \in Seq(Message)
  OBVIOUS
<1>3. DeleteMessageByID(ls, id) \in Lists
  BY <1>1, <1>2 DEF DeleteMessageByID, Lists
<1>4. \A l \in ListNames : DeleteMessageByID(ls, id)[l] \in Seq(R)
  BY <1>1 DEF DeleteMessageByID
<1>5. ~Queued(DeleteMessageByID(ls, id), id)
  <2> DEFINE d == DeleteMessageByID(ls, id)
  <2>1. SUFFICES ASSUME NEW l \in ListNames, NEW i \in 1..Len(d[l])
                 PROVE  d[l][i].id # id
    BY DEF Queued
  <2>2. d[l] \in Seq(R)
    BY <1>4
  <2> HIDE DEF d
  <2>3. d[l][i] \in R
    BY <2>2
  <2> QED BY <2>3
<1> QED BY <1>3, <1>5

(* Deleting from empty lists leaves them empty.                              *)
LEMMA DeleteFromEmpty ==
  ASSUME NEW ls \in Lists, QueuesEmpty(ls), NEW id
  PROVE  QueuesEmpty(DeleteMessageByID(ls, id))
<1>1. SUFFICES ASSUME NEW l \in ListNames
               PROVE  Kept(ls[l], id)[Len(ls[l])] = <<>>
  BY DEF QueuesEmpty, DeleteMessageByID
<1>2. ls[l] \in Seq({})
  <2>1. ls[l] = <<>>
    BY DEF QueuesEmpty
  <2>2. <<>> \in Seq({})
    OBVIOUS
  <2> QED BY <2>1, <2>2
<1>3. Kept(ls[l], id)[Len(ls[l])] \in Seq({m \in {} : m.id # id})
  BY <1>2, KeptInSeq
<1> QED BY <1>3

-----------------------------------------------------------------------------
(* Whose messages are queued.                                               *)

LEMMA NothingQueued == \A t \in Timers : ~Queued(NoMessages, t)
BY DEF Queued, NoMessages

(* A push queues nothing but the message pushed.                             *)
LEMMA PushQueues ==
  ASSUME NEW ls \in Lists, NEW active \in ListNames, NEW m \in Message, NEW stopping,
         NEW t, Queued(PushTo(ls, active, m, stopping), t)
  PROVE  Queued(ls, t) \/ m.id = t
<1> DEFINE new == PushTo(ls, active, m, stopping)
<1>1. PICK l \in ListNames : \E i \in 1..Len(new[l]) : new[l][i].id = t
  BY DEF Queued
<1>2. PICK i \in 1..Len(new[l]) : new[l][i].id = t
  BY <1>1
<1>3. ls[l] \in Seq(Message)
  BY DEF Lists
<1>4. new[l] = ls[l] \/ new[l] = Append(ls[l], m)
  BY DEF PushTo, Lists
<1> HIDE DEF new
<1>5. (i \in 1..Len(ls[l]) /\ new[l][i] = ls[l][i]) \/ new[l][i] = m
  BY <1>2, <1>3, <1>4
<1> QED BY <1>2, <1>5 DEF Queued

(* A pop queues nothing.                                                    *)
LEMMA PopQueues ==
  ASSUME NEW ls \in Lists, ~QueuesEmpty(ls), NEW t, Queued(PopRest(ls), t)
  PROVE  Queued(ls, t)
<1>1. FirstList(ls) \in ListNames /\ ls[FirstList(ls)] # <<>>
  BY FirstListExists
<1>2. PICK l \in ListNames : \E i \in 1..Len(PopRest(ls)[l]) : PopRest(ls)[l][i].id = t
  BY DEF Queued
<1>3. PICK i \in 1..Len(PopRest(ls)[l]) : PopRest(ls)[l][i].id = t
  BY <1>2
<1>4. ls[l] \in Seq(Message)
  BY DEF Lists
<1>5. CASE l = FirstList(ls)
  <2>1. PopRest(ls)[l] = Tail(ls[l])
    BY <1>5 DEF PopRest, Lists
  <2>2. i + 1 \in 1..Len(ls[l]) /\ ls[l][i + 1] = PopRest(ls)[l][i]
    BY <1>1, <1>3, <1>4, <1>5, <2>1
  <2> QED BY <1>3, <2>2 DEF Queued
<1>6. CASE l # FirstList(ls)
  <2>1. PopRest(ls)[l] = ls[l]
    BY <1>6 DEF PopRest, Lists
  <2> QED BY <1>3, <2>1 DEF Queued
<1> QED BY <1>5, <1>6

(* A deletion queues nothing.                                               *)
LEMMA DeleteQueues ==
  ASSUME NEW ls \in Lists, NEW id, NEW t, Queued(DeleteMessageByID(ls, id), t)
  PROVE  Queued(ls, t)
<1> DEFINE new == DeleteMessageByID(ls, id)
<1>1. PICK l \in ListNames : \E i \in 1..Len(new[l]) : new[l][i].id = t
  BY DEF Queued
<1>2. PICK i \in 1..Len(new[l]) : new[l][i].id = t
  BY <1>1
<1> DEFINE M == {ls[l][j] : j \in 1..Len(ls[l])}
<1>3. ls[l] \in Seq(M)
  <2>1. ls[l] \in Seq(Message)
    BY DEF Lists
  <2> QED BY <2>1
<1>4. new[l] \in Seq({m \in M : m.id # id})
  BY <1>3, KeptInSeq DEF DeleteMessageByID
<1> HIDE DEF new
<1>5. new[l][i] \in M
  BY <1>2, <1>4
<1> QED BY <1>2, <1>5 DEF Queued

(* No push takes a message of a timer away.                                 *)
LEMMA PushKeepsQueued ==
  ASSUME NEW ls \in Lists, NEW active \in ListNames, NEW m \in Message, NEW stopping,
         NEW t, Queued(ls, t)
  PROVE  Queued(PushTo(ls, active, m, stopping), t)
<1> DEFINE new == PushTo(ls, active, m, stopping)
<1>1. PICK l \in ListNames : \E i \in 1..Len(ls[l]) : ls[l][i].id = t
  BY DEF Queued
<1>2. PICK i \in 1..Len(ls[l]) : ls[l][i].id = t
  BY <1>1
<1>3. ls[l] \in Seq(Message)
  BY DEF Lists
<1>4. new[l] = ls[l] \/ new[l] = Append(ls[l], m)
  BY DEF PushTo, Lists
<1> HIDE DEF new
<1>5. i \in 1..Len(new[l]) /\ new[l][i] = ls[l][i]
  BY <1>2, <1>3, <1>4
<1>6. Queued(new, t)
  BY <1>2, <1>5 DEF Queued
<1> QED BY <1>6 DEF new

(* A timer message is never coalesced.                                      *)
LEMMA PushQueuesTimer ==
  ASSUME NEW ls \in Lists, NEW active, NEW t \in Timers, NEW status \in Statuses,
         NEW stopping
  PROVE  Queued(PushTo(ls, active, TimerMessage(t, status), stopping), t)
<1> DEFINE m == TimerMessage(t, status)
<1> DEFINE new == PushTo(ls, active, m, stopping)
<1>1. m.type = "timer" /\ m.id = t /\ m \in Message
  BY MessageConstructors DEF TimerMessage
<1>2. "timer" \in ListNames /\ ls["timer"] \in Seq(Message)
  BY DEF Lists, ListNames
<1>3. new["timer"] = Append(ls["timer"], m)
  BY <1>1, <1>2 DEF PushTo, Coalesced, Target, Lists
<1> HIDE DEF new, m
<1>4. Len(ls["timer"]) + 1 \in 1..Len(new["timer"]) /\ new["timer"][Len(ls["timer"]) + 1] = m
  BY <1>1, <1>2, <1>3
<1>5. Queued(new, t)
  BY <1>1, <1>2, <1>4 DEF Queued
<1> QED BY <1>5 DEF new, m

(* A pop takes messages of a timer away only by returning one.               *)
LEMMA PopKeepsQueued ==
  ASSUME NEW ls \in Lists, ~QueuesEmpty(ls), NEW t, Queued(ls, t), PopResult(ls).id # t
  PROVE  Queued(PopRest(ls), t)
<1>1. FirstList(ls) \in ListNames /\ ls[FirstList(ls)] # <<>>
  BY FirstListExists
<1>2. PICK l \in ListNames : \E i \in 1..Len(ls[l]) : ls[l][i].id = t
  BY DEF Queued
<1>3. PICK i \in 1..Len(ls[l]) : ls[l][i].id = t
  BY <1>2
<1>4. ls[l] \in Seq(Message)
  BY DEF Lists
<1>5. CASE l = FirstList(ls)
  <2>1. PopRest(ls)[l] = Tail(ls[l])
    BY <1>5 DEF PopRest, Lists
  <2>2. i # 1
    BY <1>3, <1>4, <1>5 DEF PopResult
  <2>3. i - 1 \in 1..Len(PopRest(ls)[l]) /\ PopRest(ls)[l][i - 1] = ls[l][i]
    BY <1>1, <1>3, <1>4, <1>5, <2>1, <2>2
  <2> QED BY <1>3, <2>3 DEF Queued
<1>6. CASE l # FirstList(ls)
  <2>1. PopRest(ls)[l] = ls[l]
    BY <1>6 DEF PopRest, Lists
  <2> QED BY <1>3, <2>1 DEF Queued
<1> QED BY <1>5, <1>6

(* Deleting the messages of one timer leaves those of the others.            *)
LEMMA DeleteKeepsQueued ==
  ASSUME NEW ls \in Lists, NEW id, NEW t, t # id, Queued(ls, t)
  PROVE  Queued(DeleteMessageByID(ls, id), t)
<1>1. PICK l \in ListNames : \E i \in 1..Len(ls[l]) : ls[l][i].id = t
  BY DEF Queued
<1>2. PICK i \in 1..Len(ls[l]) : ls[l][i].id = t
  BY <1>1
<1>3. ls[l] \in Seq(Message)
  BY DEF Lists
<1>4. \E j \in 1..Len(Kept(ls[l], id)[Len(ls[l])]) :
        Kept(ls[l], id)[Len(ls[l])][j] = ls[l][i]
  BY <1>2, <1>3, KeptKeeps
<1>5. DeleteMessageByID(ls, id)[l] = Kept(ls[l], id)[Len(ls[l])]
  BY DEF DeleteMessageByID
<1> QED BY <1>2, <1>4, <1>5 DEF Queued

-----------------------------------------------------------------------------
(* Whether a render message is queued.                                      *)

(* A render message pushed while the thread is not stopping is queued, or one  *)
(* queued before it stands for it.                                           *)
LEMMA PushRender ==
  ASSUME NEW ls \in Lists, NEW active \in ListNames
  PROVE  RenderQueued(PushTo(ls, active, Plain("render"), FALSE))
<1> DEFINE m == Plain("render")
<1> DEFINE new == PushTo(ls, active, m, FALSE)
<1>1. m.type = "render" /\ Target(active, m) = active
  BY DEF Plain, Target
<1>2. ls[active] \in Seq(Message)
  BY DEF Lists
<1>3. CASE Coalesced(ls, active, m, FALSE)
  <2>1. ls[active] # <<>> /\ ls[active][Len(ls[active])].type = "render"
    BY <1>3 DEF Coalesced
  <2>2. new = ls
    BY <1>3 DEF PushTo
  <2>3. Len(ls[active]) \in 1..Len(ls[active])
    BY <1>2, <2>1
  <2> QED BY <2>1, <2>2, <2>3 DEF RenderQueued
<1>4. CASE ~Coalesced(ls, active, m, FALSE)
  <2>1. new[active] = Append(ls[active], m)
    BY <1>1, <1>4 DEF PushTo, Lists
  <2>2. m \in Message
    BY MessageConstructors DEF MessageTypes
  <2> HIDE DEF new
  <2>3. Len(ls[active]) + 1 \in 1..Len(new[active]) /\ new[active][Len(ls[active]) + 1] = m
    BY <1>2, <2>1, <2>2
  <2> HIDE DEF m
  <2>4. RenderQueued(new)
    BY <1>1, <2>3 DEF RenderQueued
  <2> QED BY <2>4 DEF new, m
<1> QED BY <1>3, <1>4

(* No push takes a render message away.                                     *)
LEMMA PushKeepsRender ==
  ASSUME NEW ls \in Lists, NEW active \in ListNames, NEW m \in Message, NEW stopping,
         RenderQueued(ls)
  PROVE  RenderQueued(PushTo(ls, active, m, stopping))
<1> DEFINE new == PushTo(ls, active, m, stopping)
<1>1. PICK l \in ListNames : \E i \in 1..Len(ls[l]) : ls[l][i].type = "render"
  BY DEF RenderQueued
<1>2. PICK i \in 1..Len(ls[l]) : ls[l][i].type = "render"
  BY <1>1
<1>3. ls[l] \in Seq(Message)
  BY DEF Lists
<1>4. new[l] = ls[l] \/ new[l] = Append(ls[l], m)
  BY DEF PushTo, Lists
<1> HIDE DEF new
<1>5. i \in 1..Len(new[l]) /\ new[l][i] = ls[l][i]
  BY <1>2, <1>3, <1>4
<1>6. RenderQueued(new)
  BY <1>2, <1>5 DEF RenderQueued
<1> QED BY <1>6 DEF new

(* A pop takes a render message away only by returning one.                  *)
LEMMA PopKeepsRender ==
  ASSUME NEW ls \in Lists, ~QueuesEmpty(ls), RenderQueued(ls),
         PopResult(ls).type # "render"
  PROVE  RenderQueued(PopRest(ls))
<1>1. FirstList(ls) \in ListNames /\ ls[FirstList(ls)] # <<>>
  BY FirstListExists
<1>2. PICK l \in ListNames : \E i \in 1..Len(ls[l]) : ls[l][i].type = "render"
  BY DEF RenderQueued
<1>3. PICK i \in 1..Len(ls[l]) : ls[l][i].type = "render"
  BY <1>2
<1>4. ls[l] \in Seq(Message)
  BY DEF Lists
<1>5. CASE l = FirstList(ls)
  <2>1. PopRest(ls)[l] = Tail(ls[l])
    BY <1>5 DEF PopRest, Lists
  <2>2. i # 1
    BY <1>3, <1>4, <1>5 DEF PopResult
  <2>3. i - 1 \in 1..Len(PopRest(ls)[l]) /\ PopRest(ls)[l][i - 1] = ls[l][i]
    BY <1>1, <1>3, <1>4, <1>5, <2>1, <2>2
  <2> QED BY <1>3, <2>3 DEF RenderQueued
<1>6. CASE l # FirstList(ls)
  <2>1. PopRest(ls)[l] = ls[l]
    BY <1>6 DEF PopRest, Lists
  <2> QED BY <1>3, <2>1 DEF RenderQueued
<1> QED BY <1>5, <1>6

(* Deleting the messages of a timer takes no render message away.             *)
LEMMA DeleteKeepsRender ==
  ASSUME NEW ls \in Lists, NEW t \in Timers, RenderQueued(ls)
  PROVE  RenderQueued(DeleteMessageByID(ls, t))
<1> DEFINE new == DeleteMessageByID(ls, t)
<1>1. PICK l \in ListNames : \E i \in 1..Len(ls[l]) : ls[l][i].type = "render"
  BY DEF RenderQueued
<1>2. PICK i \in 1..Len(ls[l]) : ls[l][i].type = "render"
  BY <1>1
<1>3. ls[l] \in Seq(Message)
  BY DEF Lists
<1>4. ls[l][i] \in Message
  BY <1>3
<1>5. ls[l][i].id # t
  BY <1>2, <1>4, MessageFields, NoTimerAssumption
<1>6. \E j \in 1..Len(Kept(ls[l], t)[Len(ls[l])]) : Kept(ls[l], t)[Len(ls[l])][j] = ls[l][i]
  BY <1>3, <1>5, KeptKeeps
<1>7. new[l] = Kept(ls[l], t)[Len(ls[l])]
  BY DEF DeleteMessageByID
<1> QED BY <1>2, <1>6, <1>7 DEF RenderQueued

-----------------------------------------------------------------------------
(* The order of the messages in a list.                                      *)

(* f picks, in their order, those of the first k messages of q that do not     *)
(* have identifier id, and new is what it picks.                             *)
Picks(f, new, q, k, id) ==
  /\ f \in [1..Len(new) -> 1..k]
  /\ \A a, b \in 1..Len(new) : a < b => f[a] < f[b]
  /\ \A a \in 1..Len(new) : new[a] = q[f[a]] /\ q[f[a]].id # id
  /\ \A i \in 1..k : q[i].id # id => \E a \in 1..Len(new) : f[a] = i

(* new is q without the messages with identifier id, the others in order.     *)
Filtered(new, q, id) == \E f : Picks(f, new, q, Len(q), id)

(* deleteMessageByID deletes the messages with that identifier, and no other,  *)
(* and does not change the order of the rest.                                *)
LEMMA KeptFilters ==
  ASSUME NEW M, NEW q \in Seq(M), NEW id
  PROVE  Filtered(Kept(q, id)[Len(q)], q, id)
<1> DEFINE K == Kept(q, id)
<1>1. Len(q) \in Nat
  OBVIOUS
<1>2. K = [n \in 0..Len(q) |->
             IF n = 0 THEN <<>>
             ELSE IF q[n].id = id THEN K[n - 1] ELSE Append(K[n - 1], q[n])]
  BY <1>1, KeptUnfolds DEF KeptSolution
<1> HIDE DEF K
<1> DEFINE S == {k \in Nat : k <= Len(q) => K[k] \in Seq(M) /\ \E f : Picks(f, K[k], q, k, id)}
<1>3. 0 \in S
  <2>1. K[0] = <<>>
    BY <1>1, <1>2
  <2>2. Picks([a \in 1..0 |-> 1], <<>>, q, 0, id)
    BY DEF Picks
  <2>3. K[0] \in Seq(M)
    BY <2>1
  <2>4. \E f : Picks(f, K[0], q, 0, id)
    BY <2>1, <2>2
  <2> QED BY <2>3, <2>4
<1>4. ASSUME NEW k \in S PROVE k + 1 \in S
  <2> SUFFICES ASSUME k + 1 <= Len(q)
               PROVE  K[k + 1] \in Seq(M) /\ \E f : Picks(f, K[k + 1], q, k + 1, id)
    OBVIOUS
  <2>1. k \in Nat /\ K[k] \in Seq(M)
    BY <1>1
  <2>2. PICK f : Picks(f, K[k], q, k, id)
    BY <1>1
  <2>3. q[k + 1] \in M
    OBVIOUS
  <2>4. K[k + 1] = IF q[k + 1].id = id THEN K[k] ELSE Append(K[k], q[k + 1])
    <3>1. k + 1 \in 0..Len(q) /\ k + 1 # 0 /\ (k + 1) - 1 = k
      BY <1>1
    <3> QED BY <1>2, <3>1
  <2>5. \A i \in 1..(k + 1) : i \in 1..k \/ i = k + 1
    BY <2>1
  <2>6. \A i \in 1..k : i \in 1..(k + 1) /\ i < k + 1
    BY <2>1
  <2>7. CASE q[k + 1].id = id
    <3>1. K[k + 1] = K[k]
      BY <2>4, <2>7
    <3>2. Picks(f, K[k + 1], q, k + 1, id)
      BY <2>2, <2>5, <2>6, <2>7, <3>1 DEF Picks
    <3> QED BY <2>1, <3>1, <3>2
  <2>8. CASE q[k + 1].id # id
    <3> DEFINE old == K[k]
    <3> DEFINE new == K[k + 1]
    <3> DEFINE g == [a \in 1..Len(new) |-> IF a = Len(new) THEN k + 1 ELSE f[a]]
    <3>1. new = Append(old, q[k + 1])
      BY <2>4, <2>8
    <3>2. Len(old) \in Nat /\ new \in Seq(M) /\ Len(new) = Len(old) + 1
      BY <2>1, <2>3, <3>1
    <3>3. new[Len(new)] = q[k + 1] /\ \A a \in 1..Len(old) : new[a] = old[a]
      BY <2>1, <2>3, <3>1, <3>2
    <3> HIDE DEF old, new
    <3>4. \A a \in 1..Len(new) : a = Len(new) \/ (a \in 1..Len(old) /\ a # Len(new))
      BY <3>2
    <3>5. Len(new) \in 1..Len(new) /\ \A a \in 1..Len(old) : a \in 1..Len(new) /\ a # Len(new)
      BY <3>2
    <3>6. g[Len(new)] = k + 1 /\ \A a \in 1..Len(old) : g[a] = f[a] /\ f[a] \in 1..k
      BY <2>2, <3>5 DEF Picks, old
    <3>7. g \in [1..Len(new) -> 1..(k + 1)]
      <4>1. k + 1 \in 1..(k + 1)
        BY <2>1
      <4>2. \A a \in 1..Len(new) : g[a] \in 1..(k + 1)
        BY <2>6, <3>4, <3>6, <4>1
      <4> QED BY <4>2
    <3> HIDE DEF g
    <3>8. ASSUME NEW a \in 1..Len(new), NEW b \in 1..Len(new), a < b
          PROVE  g[a] < g[b]
      <4>1. a \in 1..Len(old)
        BY <3>2, <3>8
      <4>2. CASE b = Len(new)
        BY <2>6, <3>6, <4>1, <4>2
      <4>3. CASE b \in 1..Len(old)
        BY <2>2, <3>6, <3>8, <4>1, <4>3 DEF Picks, old
      <4> QED BY <3>4, <4>2, <4>3
    <3>9. \A a \in 1..Len(new) : new[a] = q[g[a]] /\ q[g[a]].id # id
      <4>1. \A a \in 1..Len(old) : new[a] = q[g[a]] /\ q[g[a]].id # id
        BY <2>2, <3>3, <3>6 DEF Picks, old
      <4> QED BY <2>8, <3>3, <3>4, <3>6, <4>1
    <3>10. ASSUME NEW i \in 1..(k + 1), q[i].id # id
           PROVE  \E a \in 1..Len(new) : g[a] = i
      <4>1. CASE i = k + 1
        BY <3>5, <3>6, <4>1
      <4>2. CASE i \in 1..k
        <5>1. PICK a \in 1..Len(old) : f[a] = i
          BY <2>2, <3>10, <4>2 DEF Picks, old
        <5> QED BY <3>5, <3>6, <5>1
      <4> QED BY <2>5, <4>1, <4>2
    <3>11. Picks(g, new, q, k + 1, id)
      BY <3>7, <3>8, <3>9, <3>10 DEF Picks
    <3> QED BY <3>2, <3>11 DEF new
  <2> QED BY <2>7, <2>8
<1>5. S = Nat
  <2> HIDE DEF S
  <2>1. S \in SUBSET Nat
    BY DEF S
  <2> QED BY <1>3, <1>4, <2>1, SetInduction
<1>6. Len(q) \in S
  BY <1>1, <1>5
<1> QED BY <1>1, <1>6 DEF K, Filtered

LEMMA DeleteFilters ==
  ASSUME NEW ls \in Lists, NEW id, NEW l \in ListNames
  PROVE  Filtered(DeleteMessageByID(ls, id)[l], ls[l], id)
<1>1. ls[l] \in Seq(Message)
  BY DEF Lists
<1> QED BY <1>1, KeptFilters DEF DeleteMessageByID

(* new is old without some of its messages.                                  *)
Sublist(new, old) ==
  /\ \A a \in 1..Len(new) : \E i \in 1..Len(old) : new[a] = old[i]
  /\ \A a, b \in 1..Len(new) : a < b =>
       \E i, j \in 1..Len(old) : i < j /\ new[a] = old[i] /\ new[b] = old[j]

LEMMA PopSublist ==
  ASSUME NEW ls \in Lists, ~QueuesEmpty(ls), NEW l \in ListNames
  PROVE  Sublist(PopRest(ls)[l], ls[l])
<1>1. FirstList(ls) \in ListNames /\ ls[FirstList(ls)] # <<>>
  BY FirstListExists
<1>2. ls[l] \in Seq(Message)
  BY DEF Lists
<1>3. CASE l = FirstList(ls)
  <2> DEFINE old == ls[l]
  <2> DEFINE new == Tail(old)
  <2>1. PopRest(ls)[l] = new
    BY <1>3 DEF PopRest, Lists
  <2>2. Len(old) \in Nat \ {0} /\ Len(new) = Len(old) - 1
    BY <1>1, <1>2, <1>3
  <2>3. \A a \in 1..Len(new) : a + 1 \in 1..Len(old) /\ new[a] = old[a + 1]
    BY <1>2, <2>2
  <2> HIDE DEF new, old
  <2>4. \A a, b \in 1..Len(new) : a < b => a + 1 < b + 1
    BY <2>2
  <2> QED BY <2>1, <2>3, <2>4 DEF Sublist, old
<1>4. CASE l # FirstList(ls)
  <2>1. PopRest(ls)[l] = ls[l]
    BY <1>4 DEF PopRest, Lists
  <2> QED BY <2>1 DEF Sublist
<1> QED BY <1>3, <1>4

LEMMA DeleteSublist ==
  ASSUME NEW ls \in Lists, NEW id, NEW l \in ListNames
  PROVE  Sublist(DeleteMessageByID(ls, id)[l], ls[l])
<1>1. PICK f : Picks(f, DeleteMessageByID(ls, id)[l], ls[l], Len(ls[l]), id)
  BY DeleteFilters DEF Filtered
<1> QED BY <1>1 DEF Picks, Sublist

(* A push leaves a list alone or appends the message to it.                  *)
LEMMA PushList ==
  ASSUME NEW ls \in Lists, NEW active \in ListNames, NEW m \in Message, NEW stopping,
         NEW l \in ListNames
  PROVE  \/ PushTo(ls, active, m, stopping)[l] = ls[l]
         \/ PushTo(ls, active, m, stopping)[l] = Append(ls[l], m)
BY DEF PushTo, Lists

-----------------------------------------------------------------------------
(* Completions.                                                             *)
CompletionQueued(q, t) ==
  \E i \in 1..Len(q) : q[i].id = t /\ q[i].status = "TS_TIMER_COMPLETE"

(* Nothing of a timer is queued behind its completion.                       *)
LastWords(q) ==
  \A i, j \in 1..Len(q) :
    i < j /\ q[i].status = "TS_TIMER_COMPLETE" => q[j].id # q[i].id

(* A change of a list that completes nothing and speaks after no completion.  *)
Quiet(new, old) ==
  /\ LastWords(old) => LastWords(new)
  /\ \A t \in Timers : CompletionQueued(new, t) => CompletionQueued(old, t)

LEMMA SublistQuiet ==
  ASSUME NEW new, NEW old, Sublist(new, old)
  PROVE  Quiet(new, old)
<1>1. ASSUME LastWords(old), NEW a \in 1..Len(new), NEW b \in 1..Len(new), a < b,
             new[a].status = "TS_TIMER_COMPLETE"
      PROVE  new[b].id # new[a].id
  <2>1. PICK i, j \in 1..Len(old) : i < j /\ new[a] = old[i] /\ new[b] = old[j]
    BY <1>1 DEF Sublist
  <2> QED BY <1>1, <2>1 DEF LastWords
<1>2. LastWords(old) => LastWords(new)
  BY <1>1 DEF LastWords
<1>3. ASSUME NEW t \in Timers, CompletionQueued(new, t) PROVE CompletionQueued(old, t)
  <2>1. PICK a \in 1..Len(new) : new[a].id = t /\ new[a].status = "TS_TIMER_COMPLETE"
    BY <1>3 DEF CompletionQueued
  <2>2. PICK i \in 1..Len(old) : new[a] = old[i]
    BY DEF Sublist
  <2> QED BY <2>1, <2>2 DEF CompletionQueued
<1> QED BY <1>2, <1>3 DEF Quiet

LEMMA CompletionFields ==
  ASSUME NEW m \in Message, m.status = "TS_TIMER_COMPLETE"
  PROVE  m.id \in Timers
<1>1. CASE \E type \in MessageTypes : m = Plain(type)
  BY <1>1 DEF Plain
<1>2. CASE \E t \in Timers, status \in Statuses : m = TimerMessage(t, status)
  BY <1>2 DEF TimerMessage
<1> QED BY <1>1, <1>2 DEF Message

(* What a message behind all others does to the completions before it.       *)
LEMMA AppendLastWords ==
  ASSUME NEW q \in Seq(Message), NEW m \in Message, ~CompletionQueued(q, m.id)
  PROVE  /\ LastWords(q) => LastWords(Append(q, m))
         /\ \A t : CompletionQueued(Append(q, m), t) =>
              CompletionQueued(q, t) \/ (m.id = t /\ m.status = "TS_TIMER_COMPLETE")
<1> DEFINE new == Append(q, m)
<1>1. Len(q) \in Nat /\ Len(new) = Len(q) + 1 /\ new[Len(q) + 1] = m
  OBVIOUS
<1>2. \A i \in 1..Len(q) : new[i] = q[i]
  OBVIOUS
<1> HIDE DEF new
<1>3. \A i \in 1..Len(new) : i \in 1..Len(q) \/ i = Len(q) + 1
  BY <1>1
<1>4. ASSUME LastWords(q), NEW i \in 1..Len(new), NEW j \in 1..Len(new), i < j,
             new[i].status = "TS_TIMER_COMPLETE"
      PROVE  new[j].id # new[i].id
  <2>1. i \in 1..Len(q)
    BY <1>1, <1>4
  <2>2. CASE j \in 1..Len(q)
    BY <1>2, <1>4, <2>1, <2>2 DEF LastWords
  <2>3. CASE j = Len(q) + 1
    BY <1>1, <1>2, <1>4, <2>1, <2>3 DEF CompletionQueued
  <2> QED BY <1>3, <2>2, <2>3
<1>5. ASSUME NEW t, CompletionQueued(new, t)
      PROVE  CompletionQueued(q, t) \/ (m.id = t /\ m.status = "TS_TIMER_COMPLETE")
  BY <1>1, <1>2, <1>3, <1>5 DEF CompletionQueued
<1> QED BY <1>4, <1>5 DEF LastWords, new

(* A push of a message that belongs to no timer completes nothing.           *)
LEMMA PlainPushQuiet ==
  ASSUME NEW ls \in Lists, NEW active \in ListNames, NEW type \in MessageTypes, NEW stopping
  PROVE  Quiet(PushTo(ls, active, Plain(type), stopping)["timer"], ls["timer"])
<1> DEFINE m == Plain(type)
<1> DEFINE q == ls["timer"]
<1> DEFINE new == PushTo(ls, active, m, stopping)["timer"]
<1>1. m \in Message /\ m.id = NoTimer /\ m.status = "none"
  BY MessageConstructors DEF Plain
<1>2. "timer" \in ListNames /\ q \in Seq(Message)
  BY DEF Lists, ListNames
<1> HIDE DEF m
<1>3. new = q \/ new = Append(q, m)
  BY <1>1, <1>2, PushList
<1> HIDE DEF new, q
<1>4. ~CompletionQueued(q, m.id)
  BY <1>1, <1>2, CompletionFields, NoTimerAssumption DEF CompletionQueued
<1>5. Quiet(new, q)
  <2>1. CASE new = q
    BY <2>1 DEF Quiet
  <2>2. CASE new = Append(q, m)
    <3>1. /\ LastWords(q) => LastWords(new)
          /\ \A t : CompletionQueued(new, t) =>
               CompletionQueued(q, t) \/ (m.id = t /\ m.status = "TS_TIMER_COMPLETE")
      BY <1>1, <1>2, <1>4, <2>2, AppendLastWords
    <3> QED BY <1>1, <3>1 DEF Quiet
  <2> QED BY <1>3, <2>1, <2>2
<1> QED BY <1>5 DEF m, new, q

(* A completion that is queued is a message of its timer.                    *)
LEMMA CompletionIsQueued ==
  ASSUME NEW ls, NEW t, CompletionQueued(ls["timer"], t)
  PROVE  Queued(ls, t)
BY DEF CompletionQueued, Queued, ListNames
=============================================================================
