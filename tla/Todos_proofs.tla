---------------------------- MODULE Todos_proofs ----------------------------
(***************************************************************************)
(* Theorems of Todos, for any number of rows, requests and edits: an       *)
(* occurrence has one successor at most, and a repeating todo that nobody  *)
(* has edited or deleted goes on.  Both rest on the row lock: what a       *)
(* request saw when it looked for the successor still holds when it        *)
(* commits, because every other request that could make or unlink a        *)
(* successor of the row needs the same lock.                               *)
(*                                                                         *)
(* The second half is about the dates: the loop that looks for the next    *)
(* one ends at a date after today, after the one before it and on its day, *)
(* so that no date comes twice in a chain and a monthly todo keeps its day. *)
(***************************************************************************)
EXTENDS Todos, TLAPS, FiniteSetTheorems, WellFoundedInduction

-----------------------------------------------------------------------------
(* A row that is locked is there, and one request has the lock.            *)
Locks ==
    /\ \A r \in Requests : HasLock(r) => Exists(request[r].id)
    /\ \A q, r \in Requests :
          HasLock(q) /\ HasLock(r) /\ request[q].id = request[r].id => q = r

(* Two occurrences never follow the same one, and the one an occurrence    *)
(* follows is there and belongs to the same chain.                         *)
Links ==
    /\ \A i, j \in Ids :
          Exists(i) /\ Exists(j) /\ todos[i].previous = todos[j].previous
            /\ todos[i].previous # None
          => i = j
    /\ \A j \in Ids :
          Exists(j) /\ todos[j].previous # None =>
             /\ Exists(todos[j].previous)
             /\ todos[todos[j].previous].root = todos[j].root

(* What a request has loaded differs from the row only if members changed  *)
(* the chain since.                                                        *)
Faithful(q) ==
    q.op # "reopen" /\ Exists(q.id) =>
       /\ q.row.root = todos[q.id].root
       /\ q.op = "complete" =>
            /\ q.row.previous = q.id /\ q.row.done = FALSE
            /\ todos[q.id].root \notin handled =>
                 /\ q.row.frequency = todos[q.id].frequency
                 /\ q.row.due = None <=> todos[q.id].due = None

Copies == \A r \in Requests : request[r] # Idle => Faithful(request[r])

(* What a request has seen of the successor still holds.                   *)
Current(q) ==
    q.stage = "looked" =>
       /\ q.next = None => \A j \in Ids : Exists(j) => todos[j].previous # q.id
       /\ q.next # None =>
            IF Exists(q.next.id) THEN todos[q.next.id].previous = q.id
            ELSE todos[q.id].root \in handled

Looks == \A r \in Requests : request[r] # Idle => Current(request[r])

Followed(i) == \E j \in Ids : Exists(j) /\ todos[j].previous = i

Chain ==
    \A i \in Ids :
       Exists(i) /\ todos[i].done /\ todos[i].frequency # "once" /\ todos[i].due # None
         /\ todos[i].root \notin handled
       => Followed(i)

IInv == TypeOK /\ Locks /\ Links /\ Copies /\ Looks /\ Chain

USE ConstantsAssumption
-----------------------------------------------------------------------------
(* Induction over the natural numbers, for a set.                          *)
LEMMA SetInduction ==
  ASSUME NEW S, S \subseteq Nat, 0 \in S, \A n \in S : n + 1 \in S
  PROVE  S = Nat
  <1> DEFINE Less == {p \in Nat \X Nat : p[1] < p[2]}
             C == Nat \ S
  <1>1. IsWellFoundedOn(Less, Nat)
    BY NatLessThanWellFounded DEF OpToRel
  <1>2. C \subseteq Nat
    OBVIOUS
  <1> SUFFICES ASSUME C # {} PROVE FALSE
    OBVIOUS
  <1> HIDE DEF C, Less
  <1>3. PICK n \in C : \A m \in C : ~(<<m, n>> \in Less)
    BY <1>1, <1>2, WFMin
  <1> USE DEF C
  <1>4. n \in Nat /\ n # 0 /\ n - 1 \in Nat /\ n - 1 < n
    OBVIOUS
  <1>5. n - 1 \notin C
    BY <1>3, <1>4 DEF Less
  <1>6. n - 1 \in S
    BY <1>4, <1>5
  <1>7. (n - 1) + 1 \in S
    BY <1>6
  <1> QED BY <1>4, <1>7

(* An occurrence and the next one.                                         *)
LEMMA DateFacts ==
  ASSUME NEW t \in Date
  PROVE  /\ t.m \in Nat /\ t.m =< MaxMonth + 1 /\ t.d \in 1..2
         /\ t.d =< Length(t.m)
         /\ t = [m |-> t.m, d |-> t.d]
  BY DEF Date

LEMMA LengthFact == \A m : Length(m) \in {1, 2}
  BY DEF Length

LEMMA Advances ==
  ASSUME NEW t \in Within, NEW frequency, NEW day \in 0..2
  PROVE  LET n == advance_due_date(t, frequency, day)
         IN  /\ n \in Date /\ Later(n, t)
             /\ frequency # "weekly" /\ day # 0 => n.d = Least(day, Length(n.m))
  <1>1. /\ t \in Date /\ t.m \in Nat /\ t.m =< MaxMonth /\ t.d \in 1..2 /\ t.d =< Length(t.m)
    BY DateFacts DEF Within
  <1>2. Length(t.m) \in {1, 2} /\ Length(t.m + 1) \in {1, 2}
    BY LengthFact
  <1>3. CASE frequency = "weekly" /\ t.d < Length(t.m)
    <2>1. advance_due_date(t, frequency, day) = [t EXCEPT !.d = @ + 1]
      BY <1>3 DEF advance_due_date, NextDay
    <2>2. [t EXCEPT !.d = @ + 1] = [m |-> t.m, d |-> t.d + 1]
      BY <1>1 DEF Date
    <2> QED BY <2>1, <2>2, <1>1, <1>2, <1>3 DEF Date, Later
  <1>4. CASE frequency = "weekly" /\ ~(t.d < Length(t.m))
    <2>1. advance_due_date(t, frequency, day) = [m |-> t.m + 1, d |-> 1]
      BY <1>4 DEF advance_due_date, NextDay
    <2> QED BY <2>1, <1>1, <1>2, <1>4 DEF Date, Later
  <1>5. CASE frequency # "weekly"
    <2> DEFINE D == IF day = 0 THEN t.d ELSE day
    <2>1. advance_due_date(t, frequency, day)
            = [m |-> t.m + 1, d |-> Least(D, Length(t.m + 1))]
      BY <1>5 DEF advance_due_date, add_months_with_day
    <2>2. D \in 1..2 /\ (day # 0 => D = day)
      BY <1>1
    <2>3. Least(D, Length(t.m + 1)) \in 1..2 /\ Least(D, Length(t.m + 1)) =< Length(t.m + 1)
      BY <2>2, <1>2 DEF Least
    <2> HIDE DEF D
    <2> QED BY <2>1, <2>2, <2>3, <1>1 DEF Date, Later
  <1> QED BY <1>3, <1>4, <1>5

(* The dates in the order of the calendar.                                 *)
Key(t) == 2 * t.m + t.d

LEMMA KeyFacts ==
  ASSUME NEW s \in Date, NEW t \in Date
  PROVE  /\ Key(t) \in Nat /\ Key(t) =< 2 * MaxMonth + 4
         /\ Later(s, t) <=> Key(s) > Key(t)
         /\ Later(s, t) => s # t
         /\ t \in Within <=> t.m =< MaxMonth
         /\ t \in Within => Key(t) =< 2 * MaxMonth + 2
  BY DateFacts DEF Key, Later, Within

LEMMA LaterIsTransitive ==
  ASSUME NEW s \in Date, NEW t \in Date, NEW u \in Date, Later(s, t), Later(t, u)
  PROVE  Later(s, u)
  BY DateFacts DEF Later

-----------------------------------------------------------------------------
(* _next_due_date: the loop and what it computes.                          *)
Loop(f, t, row, now) ==
  IF Later(advance_due_date(t, row.frequency, row.day), now)
  THEN advance_due_date(t, row.frequency, row.day)
  ELSE f[advance_due_date(t, row.frequency, row.day)]

Looped(f, row, now) == f = [t \in Within |-> Loop(f, t, row, now)]

LEMMA LoopStep ==
  ASSUME NEW row, row.day \in 0..2, NEW now \in Within, NEW t \in Within
  PROVE  LET n == advance_due_date(t, row.frequency, row.day)
         IN  /\ n \in Date /\ Key(n) > Key(t)
             /\ ~Later(n, now) => n \in Within
  <1> DEFINE n == advance_due_date(t, row.frequency, row.day)
  <1>1. n \in Date /\ Later(n, t)
    BY Advances
  <1> HIDE DEF n
  <1>2. t \in Date /\ now \in Date /\ now.m =< MaxMonth
    BY DEF Within
  <1>3. Key(n) > Key(t)
    BY <1>1, <1>2, KeyFacts
  <1>4. ~Later(n, now) => n.m =< MaxMonth
    BY <1>1, <1>2, DateFacts DEF Later
  <1>5. ~Later(n, now) => n \in Within
    BY <1>1, <1>4, KeyFacts
  <1> QED BY <1>1, <1>3, <1>5 DEF n

LEMMA LoopEnds ==
  ASSUME NEW row, row.day \in 0..2, NEW now \in Within
  PROVE  \E f : Looped(f, row, now)
  <1> DEFINE Top == 2 * MaxMonth + 2
             Settled(f, k) == \A t \in Within : Key(t) + k > Top => f[t] = Loop(f, t, row, now)
             S == {k \in Nat : \E f \in [Within -> Date] : Settled(f, k)}
  <1>0. Top \in Nat /\ \A t \in Within : t \in Date /\ Key(t) \in Nat /\ Key(t) =< Top
    BY KeyFacts DEF Within
  <1>1. 0 \in S
    <2> DEFINE f == [t \in Within |-> t]
    <2>1. f \in [Within -> Date]
      BY <1>0
    <2>2. Settled(f, 0)
      BY <1>0
    <2> QED BY <2>1, <2>2
  <1>2. ASSUME NEW k \in S PROVE k + 1 \in S
    <2>1. k \in Nat /\ k + 1 \in Nat
      OBVIOUS
    <2>2. PICK f \in [Within -> Date] : Settled(f, k)
      OBVIOUS
    <2> DEFINE g == [t \in Within |-> Loop(f, t, row, now)]
    <2>3. g \in [Within -> Date]
      BY LoopStep DEF Loop
    <2>4. Settled(g, k + 1)
      <3> SUFFICES ASSUME NEW t \in Within, Key(t) + (k + 1) > Top
                   PROVE  g[t] = Loop(g, t, row, now)
        OBVIOUS
      <3> DEFINE n == advance_due_date(t, row.frequency, row.day)
      <3>1. n \in Date /\ Key(n) > Key(t) /\ (~Later(n, now) => n \in Within)
        BY LoopStep
      <3> HIDE DEF n
      <3>2. CASE Later(n, now)
        BY <3>2 DEF Loop, n
      <3>3. CASE ~Later(n, now)
        <4>1. n \in Within /\ Key(n) \in Nat /\ Key(t) \in Nat
          BY <3>1, <3>3, <1>0
        <4>2. Key(n) + k > Top
          BY <4>1, <3>1, <2>1, <1>0
        <4>3. f[n] = Loop(f, n, row, now)
          BY <4>1, <4>2, <2>2
        <4>4. g[n] = Loop(f, n, row, now)
          BY <4>1
        <4>5. g[t] = f[n] /\ Loop(g, t, row, now) = g[n]
          BY <3>3 DEF Loop, n
        <4> QED BY <4>3, <4>4, <4>5
      <3> QED BY <3>2, <3>3
    <2> QED BY <2>1, <2>3, <2>4
  <1>3. S = Nat
    <2>1. S \subseteq Nat
      OBVIOUS
    <2> HIDE DEF S
    <2> QED BY <2>1, <1>1, <1>2, SetInduction
  <1>4. Top + 1 \in S
    BY <1>3, <1>0
  <1>5. PICK f \in [Within -> Date] : Settled(f, Top + 1)
    BY <1>4
  <1>6. \A t \in Within : f[t] = Loop(f, t, row, now)
    BY <1>5, <1>0
  <1>7. Looped(f, row, now)
    BY <1>6 DEF Looped
  <1> QED BY <1>7

(* The next occurrence is a date after the one it follows, on its day.     *)
LEMMA NextDueFacts ==
  ASSUME NEW row, row.day \in 0..2, NEW now \in Within, row.due \in Within
  PROVE  /\ NextDue(row, now) \in Date
         /\ Later(NextDue(row, now), row.due)
         /\ row.frequency # "weekly" /\ row.day # 0 =>
              NextDue(row, now).d = Least(row.day, Length(NextDue(row, now).m))
  <1> DEFINE from == CHOOSE f : Looped(f, row, now)
             Top == 2 * MaxMonth + 2
             Good(t, u) == /\ u \in Date /\ Later(u, t)
                           /\ row.frequency # "weekly" /\ row.day # 0 =>
                                u.d = Least(row.day, Length(u.m))
             S == {k \in Nat : \A t \in Within : Key(t) + k > Top => Good(t, from[t])}
  <1>0. Top \in Nat /\ \A t \in Within : t \in Date /\ Key(t) \in Nat /\ Key(t) =< Top
    BY KeyFacts DEF Within
  <1>1. Looped(from, row, now)
    BY LoopEnds
  <1>2. NextDue(row, now) = from[row.due]
    BY Zenon DEF NextDue, Looped, Loop
  <1> HIDE DEF from
  <1>3. \A t \in Within : from[t] = Loop(from, t, row, now)
    BY <1>1 DEF Looped
  <1>4. 0 \in S
    BY <1>0
  <1>5. ASSUME NEW k \in S PROVE k + 1 \in S
    <2> SUFFICES ASSUME NEW t \in Within, Key(t) + (k + 1) > Top PROVE Good(t, from[t])
      OBVIOUS
    <2> DEFINE n == advance_due_date(t, row.frequency, row.day)
    <2>1. /\ n \in Date /\ Key(n) > Key(t) /\ (~Later(n, now) => n \in Within)
          /\ Good(t, n)
      BY LoopStep, Advances
    <2>2. /\ Later(n, now) => from[t] = n
          /\ ~Later(n, now) => from[t] = from[n]
      BY <1>3 DEF Loop
    <2> HIDE DEF n
    <2>3. CASE Later(n, now)
      BY <2>1, <2>2, <2>3
    <2>4. CASE ~Later(n, now)
      <3>1. n \in Within /\ Key(n) \in Nat /\ Key(t) \in Nat
        BY <2>1, <2>4, <1>0
      <3>2. Key(n) + k > Top
        BY <3>1, <2>1, <1>0
      <3>3. Good(n, from[n])
        BY <3>1, <3>2
      <3>4. Later(from[n], t)
        BY <3>3, <2>1, <1>0, LaterIsTransitive
      <3> QED BY <3>3, <3>4, <2>2, <2>4
    <2> QED BY <2>3, <2>4
  <1>6. S = Nat
    <2>1. S \subseteq Nat
      OBVIOUS
    <2> HIDE DEF S
    <2> QED BY <2>1, <1>4, <1>5, SetInduction
  <1>7. Top + 1 \in S
    BY <1>6, <1>0
  <1>8. Good(row.due, from[row.due])
    BY <1>7, <1>0
  <1> QED BY <1>2, <1>8
-----------------------------------------------------------------------------
USE DEF Exists, history
-----------------------------------------------------------------------------
LEMMA RowFits ==
  ASSUME TypeOK, NEW i \in Ids, Exists(i)
  PROVE  /\ todos[i] \in Row
         /\ i \in Nat /\ used \in Nat /\ i =< used
  <1>1. todos[i] \in Row
    BY DEF TypeOK
  <1>2. i \in Nat /\ used \in Nat
    BY DEF TypeOK, Ids
  <1>3. ~(i > used)
    BY DEF TypeOK
  <1> QED BY <1>1, <1>2, <1>3

LEMMA RequestFits ==
  ASSUME TypeOK, NEW r \in Requests, request[r] # Idle
  PROVE  /\ request[r] \in Request /\ request[r].id \in Ids
         /\ request[r].next # None => request[r].next.id \in Ids
         /\ request[r].op # "reopen" => request[r].row \in Row
  BY DEF TypeOK, Request

LEMMA IdleIsNoRequest == Idle \notin Request
  BY DEF Idle, Request

(* The table after a deletion.                                             *)
LEMMA WithoutFacts ==
  ASSUME NEW table \in [Ids -> Row \cup {None}], NEW i \in Ids
  PROVE  /\ Without(table, i) \in [Ids -> Row \cup {None}]
         /\ \A j \in Ids :
              /\ Without(table, i)[j] = None <=> j = i \/ table[j] = None
              /\ Without(table, i)[j] # None =>
                   /\ Without(table, i)[j].due = table[j].due
                   /\ Without(table, i)[j].frequency = table[j].frequency
                   /\ Without(table, i)[j].done = table[j].done
                   /\ Without(table, i)[j].day = table[j].day
                   /\ Without(table, i)[j].root = table[j].root
                   /\ Without(table, i)[j].previous =
                        IF table[j].previous = i THEN None ELSE table[j].previous
  <1>1. ASSUME NEW j \in Ids, j # i, table[j] # None
        PROVE  LET row == Without(table, i)[j]
               IN  /\ row \in Row
                   /\ row.due = table[j].due /\ row.frequency = table[j].frequency
                   /\ row.done = table[j].done /\ row.root = table[j].root
                   /\ row.day = table[j].day
                   /\ row.previous =
                        IF table[j].previous = i THEN None ELSE table[j].previous
    <2>1. table[j] \in Row
      BY <1>1
    <2>2. CASE table[j].previous = i
      <3>1. Without(table, i)[j] = [table[j] EXCEPT !.previous = None]
        BY <1>1, <2>2 DEF Without
      <3> QED BY <2>1, <2>2, <3>1 DEF Row
    <2>3. CASE table[j].previous # i
      <3>1. Without(table, i)[j] = table[j]
        BY <1>1, <2>3 DEF Without
      <3> QED BY <2>1, <2>3, <3>1
    <2> QED BY <2>2, <2>3
  <1>2. ASSUME NEW j \in Ids, j = i \/ table[j] = None PROVE Without(table, i)[j] = None
    BY <1>2 DEF Without
  <1>3. Without(table, i) \in [Ids -> Row \cup {None}]
    BY <1>1, <1>2 DEF Without
  <1>4. \A j \in Ids : j # i /\ table[j] # None => Without(table, i)[j] # None
    BY <1>1
  <1> QED BY <1>1, <1>2, <1>3, <1>4

LEMMA InitIInv == Init => IInv
  <1> SUFFICES ASSUME Init PROVE IInv
    OBVIOUS
  <1>1. TypeOK
    <2>1. [m |-> 0, d |-> 1] \in Within
      BY DEF Within, Date, Length
    <2> QED BY <2>1 DEF Init, TypeOK, Ids
  <1> QED BY <1>1 DEF Init, IInv, Locks, HasLock, Links, Copies, Looks, Chain

(* What TypeOK says of the requests survives a table that grows.           *)
LEMMA RequestsStay ==
  ASSUME TypeOK, used' \in 0..MaxRows, used' >= used,
         NEW r \in Requests, request[r] # Idle
  PROVE  /\ request[r].id =< used'
         /\ request[r].row = None <=> request[r].op = "reopen"
         /\ request[r].next # None => request[r].next.id =< used'
  <1>1. used \in Nat /\ used' \in Nat
    BY DEF TypeOK
  <1>2. request[r].id \in Nat /\ request[r].id =< used
    BY RequestFits DEF TypeOK, Ids
  <1>3. request[r].next # None => request[r].next.id \in Nat /\ request[r].next.id =< used
    BY RequestFits DEF TypeOK, Ids
  <1>4. request[r].row = None <=> request[r].op = "reopen"
    BY DEF TypeOK
  <1> QED BY <1>1, <1>2, <1>3, <1>4

(* A step of one request that leaves the table alone: what has to hold of  *)
(* the request afterwards.                                                 *)
LEMMA RequestStep ==
  ASSUME IInv, NEW r \in Requests, NEW q \in Request \cup {Idle},
         UNCHANGED <<todos, used, today, history>>,
         request' = [request EXCEPT ![r] = q],
         q # Idle =>
            /\ q.id =< used
            /\ q.row = None <=> q.op = "reopen"
            /\ q.next # None => q.next.id =< used
            /\ Faithful(q)
            /\ Current(q)
            /\ q.stage # "loaded" =>
                 /\ Exists(q.id)
                 /\ \A p \in Requests \ {r} : ~(HasLock(p) /\ request[p].id = q.id)
  PROVE  IInv'
  <1>a. /\ request' \in [Requests -> Request \cup {Idle}]
        /\ request'[r] = q /\ \A p \in Requests \ {r} : request'[p] = request[p]
    BY DEF IInv, TypeOK
  <1>1. TypeOK'
    <2>1. ASSUME NEW p \in Requests, request'[p] # Idle
          PROVE  /\ request'[p].id =< used
                 /\ request'[p].row = None <=> request'[p].op = "reopen"
                 /\ request'[p].next # None => request'[p].next.id =< used
      BY <2>1, <1>a DEF IInv, TypeOK
    <2> QED BY <2>1, <1>a DEF IInv, TypeOK
  <1>2. Locks'
    BY <1>a DEF IInv, Locks, HasLock
  <1>3. Links' /\ Chain'
    BY DEF IInv, Links, Chain, Followed
  <1>4. Copies'
    BY <1>a DEF IInv, Copies, Faithful
  <1>5. Looks'
    BY <1>a DEF IInv, Looks, Current
  <1> QED BY <1>1, <1>2, <1>3, <1>4, <1>5 DEF IInv

-----------------------------------------------------------------------------
(* A member creates a todo: a chain of its own.                            *)
LEMMA CreateKeeps ==
  ASSUME IInv, NEW p \in Payload, create_todo(p[1], p[2])
  PROVE  IInv'
  <1> DEFINE n == used + 1
  <1>a. /\ n \in Ids /\ n > used /\ used' = n /\ roots' \in 0..MaxRoots /\ ~Exists(n)
        /\ UNCHANGED <<request, today, edits, handled, switched, overtaken, cut>>
    BY DEF IInv, TypeOK, create_todo, Ids
  <1>b. /\ p[1] \in Date \cup {None} /\ p[2] \in Frequencies /\ DayOf(p[1]) \in 0..2
    BY DEF Payload, Within, Date, DayOf
  <1>c. /\ todos' \in [Ids -> Row \cup {None}]
        /\ todos'[n] \in Row /\ todos'[n].previous = None /\ todos'[n].done = FALSE
        /\ \A j \in Ids \ {n} : todos'[j] = todos[j]
    BY <1>a, <1>b DEF IInv, TypeOK, create_todo, Row
  <1>1. TypeOK'
    <2>1. used' \in 0..MaxRows /\ used' > used /\ used \in Nat
      BY <1>a DEF IInv, TypeOK, Ids
    <2>2. (\A i \in Ids : i > used => ~Exists(i))'
      <3> SUFFICES ASSUME NEW i \in Ids, i > used' PROVE ~Exists(i)'
        OBVIOUS
      <3>1. i > used /\ i # n
        BY <1>a, <2>1 DEF Ids
      <3> QED BY <3>1, <1>c DEF IInv, TypeOK
    <2>3. request' \in [Requests -> Request \cup {Idle}]
      BY <1>a DEF IInv, TypeOK
    <2>4. ASSUME NEW r \in Requests, request[r] # Idle
          PROVE  /\ request[r].id =< used'
                 /\ request[r].row = None <=> request[r].op = "reopen"
                 /\ request[r].next # None => request[r].next.id =< used'
      <3>1. used' >= used
        BY <2>1
      <3> QED BY <2>1, <2>4, <3>1, RequestsStay DEF IInv
    <2> QED BY <2>1, <2>2, <2>3, <2>4, <1>a, <1>c DEF IInv, TypeOK
  <1>2. Locks'
    BY <1>a, <1>c, RequestFits DEF IInv, Locks, HasLock
  <1>3. Links'
    BY <1>a, <1>c, RowFits DEF IInv, Links, Row
  <1>4. Copies'
    BY <1>a, <1>c, RequestFits DEF IInv, Copies, Faithful, TypeOK
  <1>5. Looks'
    BY <1>a, <1>c, RequestFits DEF IInv, Looks, Current, TypeOK, Locks, HasLock
  <1>6. Chain'
    BY <1>a, <1>c DEF IInv, Chain, Followed
  <1> QED BY <1>1, <1>2, <1>3, <1>4, <1>5, <1>6 DEF IInv

-----------------------------------------------------------------------------
(* The steps of one request that write nothing.                            *)
LEMMA AbortKeeps ==
  ASSUME IInv, NEW r \in Requests, Abort(r)
  PROVE  IInv'
  BY RequestStep DEF Abort, Done

LEMMA LoadKeeps ==
  ASSUME IInv, NEW r \in Requests, NEW op \in {"complete", "update"}, NEW i \in Ids,
         Load(r, op, i)
  PROVE  IInv'
  <1> DEFINE row == IF op = "complete" THEN Successor(i)
                    ELSE [todos[i] EXCEPT !.done = FALSE, !.previous = None]
             q == [op |-> op, id |-> i, stage |-> "loaded", next |-> None, row |-> row]
  <1>a. /\ Exists(i) /\ todos[i] \in Row /\ today \in Within
        /\ request' = [request EXCEPT ![r] = q]
        /\ UNCHANGED <<todos, used, today, history>>
    BY RowFits DEF Load, IInv, TypeOK
  <1>b. /\ row \in Row /\ row.root = todos[i].root
        /\ op = "complete" =>
             /\ row.previous = i /\ row.done = FALSE
             /\ row.frequency = todos[i].frequency
             /\ row.due = None <=> todos[i].due = None
    <2>1. CASE op = "complete" /\ Repeats(todos[i])
      <3>1. NextDue(todos[i], today) \in Date
        <4>1. todos[i].day \in 0..2
          BY <1>a DEF Row
        <4>2. todos[i].due \in Within
          BY <2>1 DEF Load, Repeats
        <4> QED BY <4>1, <4>2, <1>a, NextDueFacts
      <3>2. row = [todos[i] EXCEPT !.due = NextDue(todos[i], today),
                                   !.done = FALSE, !.previous = i]
        BY <2>1 DEF Successor
      <3>3. None \notin Date
        OBVIOUS
      <3> HIDE DEF row
      <3>4. /\ row \in Row /\ row.root = todos[i].root
            /\ row.previous = i /\ row.done = FALSE
            /\ row.frequency = todos[i].frequency
            /\ row.due = NextDue(todos[i], today)
        BY <3>1, <3>2, <1>a DEF Row
      <3> QED BY <3>1, <3>3, <3>4, <2>1 DEF Repeats
    <2>2. CASE op = "complete" /\ ~Repeats(todos[i])
      <3>2. row = [todos[i] EXCEPT !.due = todos[i].due, !.done = FALSE, !.previous = i]
        BY <2>2 DEF Successor
      <3> HIDE DEF row
      <3> QED BY <3>2, <1>a DEF Row
    <2>3. CASE op = "update"
      <3>2. row = [todos[i] EXCEPT !.done = FALSE, !.previous = None]
        BY <2>3
      <3> HIDE DEF row
      <3> QED BY <3>2, <1>a, <2>3 DEF Row
    <2> QED BY <2>1, <2>2, <2>3
  <1> HIDE DEF row
  <1>c. /\ q \in Request /\ q # Idle /\ row # None
    BY <1>b, IdleIsNoRequest DEF Request
  <1>d. q.id =< used
    BY <1>a, RowFits DEF IInv
  <1>e. Faithful(q) /\ Current(q)
    BY <1>b DEF Faithful, Current
  <1> QED BY <1>a, <1>c, <1>d, <1>e, RequestStep

LEMMA StartCompleteKeeps ==
  ASSUME IInv, NEW r \in Requests, StartComplete(r)
  PROVE  IInv'
  <1>a. /\ request[r] # Idle /\ request[r].op = "complete" /\ request[r].stage = "loaded"
        /\ ~Locked(request[r].id)
        /\ UNCHANGED <<todos, used, today, history>>
    BY DEF StartComplete, Loaded
  <1>1. CASE ~Switchable("complete", request[r].id)
    BY <1>1, <1>a, RequestStep DEF StartComplete, Done
  <1>2. CASE Switchable("complete", request[r].id)
    <2> DEFINE old == request[r]
               q == [old EXCEPT !.stage = "written"]
    <2>1. request' = [request EXCEPT ![r] = q]
      BY <1>2 DEF StartComplete
    <2>2. old \in Request
      BY <1>a, RequestFits DEF IInv
    <2>3. /\ q \in Request /\ q # Idle /\ q.stage = "written"
          /\ q.id = old.id /\ q.next = old.next /\ q.row = old.row /\ q.op = old.op
      BY <2>2, IdleIsNoRequest DEF Request
    <2>4. /\ q.id =< used
          /\ q.row = None <=> q.op = "reopen"
          /\ q.next # None => q.next.id =< used
      BY <2>3, <1>a DEF IInv, TypeOK
    <2>5. Faithful(q) /\ Current(q)
      BY <2>3, <1>a DEF IInv, Copies, Faithful, Current
    <2>6. /\ Exists(q.id)
          /\ \A p \in Requests \ {r} : ~(HasLock(p) /\ request[p].id = q.id)
      BY <2>3, <1>2, <1>a DEF Switchable, Locked
    <2> HIDE DEF q
    <2> QED BY <2>1, <2>3, <2>4, <2>5, <2>6, <1>a, RequestStep
  <1> QED BY <1>1, <1>2

LEMMA StartReopenKeeps ==
  ASSUME IInv, NEW r \in Requests, NEW i \in Ids, StartReopen(r, i)
  PROVE  IInv'
  <1> DEFINE q == [op |-> "reopen", id |-> i, stage |-> "written", next |-> None, row |-> None]
  <1>a. /\ request[r] = Idle /\ ~Locked(i) /\ Exists(i)
        /\ request' = [request EXCEPT ![r] = q]
        /\ UNCHANGED <<todos, used, today, history>>
    BY DEF StartReopen, Switchable
  <1>b. q \in Request /\ q # Idle
    BY IdleIsNoRequest DEF Request
  <1>c. q.id =< used
    BY <1>a, RowFits DEF IInv
  <1>d. Faithful(q) /\ Current(q)
    BY DEF Faithful, Current
  <1>e. \A p \in Requests \ {r} : ~(HasLock(p) /\ request[p].id = q.id)
    BY <1>a DEF Locked
  <1> QED BY <1>a, <1>b, <1>c, <1>d, <1>e, RequestStep

LEMMA LookKeeps ==
  ASSUME IInv, NEW r \in Requests, Look(r)
  PROVE  IInv'
  <1>a. /\ request[r] # Idle /\ request[r].stage = "written"
        /\ UNCHANGED <<todos, used, today, history>>
    BY DEF Look
  <1> DEFINE old == request[r]
  <1>b. old \in Request /\ old.id \in Ids
    BY <1>a, RequestFits DEF IInv
  <1>c. PICK next \in Found(old.id) :
          request' = [request EXCEPT ![r].stage = "looked", ![r].next = next]
    BY DEF Look
  <1> DEFINE q == [old EXCEPT !.stage = "looked", !.next = next]
  <1>1. request' = [request EXCEPT ![r] = q]
    BY <1>c, <1>a DEF IInv, TypeOK
  <1>2. CASE next = None
    <2>1. \A j \in Ids : Exists(j) => todos[j].previous # old.id
      <3>1. \A j \in Next_occurrences(old.id) :
               [id |-> j, done |-> todos[j].done] \in [id : Ids, done : BOOLEAN]
        BY RowFits DEF IInv, Next_occurrences, Row
      <3>2. Next_occurrences(old.id) = {}
        BY <1>c, <1>2, <3>1 DEF Found
      <3> QED BY <3>2 DEF Next_occurrences
    <2>2. /\ q \in Request /\ q # Idle /\ q.stage = "looked" /\ q.next = None
          /\ q.id = old.id /\ q.row = old.row /\ q.op = old.op
      BY <1>b, <1>2, IdleIsNoRequest DEF Request
    <2>3. /\ q.id =< used
          /\ q.row = None <=> q.op = "reopen"
      BY <2>2, <1>a DEF IInv, TypeOK
    <2>4. Faithful(q) /\ Current(q)
      BY <2>1, <2>2, <1>a DEF IInv, Copies, Faithful, Current
    <2>5. /\ Exists(q.id)
          /\ \A p \in Requests \ {r} : ~(HasLock(p) /\ request[p].id = q.id)
      BY <2>2, <1>a DEF IInv, Locks, HasLock
    <2> HIDE DEF q
    <2> QED BY <1>1, <2>2, <2>3, <2>4, <2>5, <1>a, RequestStep
  <1>3. CASE next # None
    <2>0. PICK j \in Ids : Exists(j) /\ todos[j].previous = old.id
                          /\ next = [id |-> j, done |-> todos[j].done]
      BY <1>c, <1>3 DEF Found, Next_occurrences
    <2>1. /\ j =< used /\ next \in [id : Ids, done : BOOLEAN] /\ next.id = j
      BY <2>0, RowFits DEF IInv, Row
    <2>2. /\ q \in Request /\ q # Idle /\ q.stage = "looked" /\ q.next = next
          /\ q.id = old.id /\ q.row = old.row /\ q.op = old.op
      BY <1>b, <2>1, IdleIsNoRequest DEF Request
    <2>3. /\ q.id =< used
          /\ q.row = None <=> q.op = "reopen"
          /\ q.next # None => q.next.id =< used
      BY <2>2, <2>1, <1>a DEF IInv, TypeOK
    <2>4. Faithful(q) /\ Current(q)
      BY <2>0, <2>1, <2>2, <1>a, <1>3 DEF IInv, Copies, Faithful, Current
    <2>5. /\ Exists(q.id)
          /\ \A p \in Requests \ {r} : ~(HasLock(p) /\ request[p].id = q.id)
      BY <2>2, <1>a DEF IInv, Locks, HasLock
    <2> HIDE DEF q
    <2> QED BY <1>1, <2>2, <2>3, <2>4, <2>5, <1>a, RequestStep
  <1> QED BY <1>2, <1>3

LEMMA MidnightKeeps ==
  ASSUME IInv, Midnight
  PROVE  IInv'
  <1>a. today' \in Within /\ UNCHANGED <<todos, used, request, history>>
    BY DEF Midnight
  <1>1. TypeOK'
    BY <1>a DEF IInv, TypeOK
  <1> QED BY <1>1, <1>a DEF IInv, Locks, HasLock, Links, Copies, Faithful, Looks, Current,
                             Chain, Followed

-----------------------------------------------------------------------------
(* Completing: the successor is made under the row's lock, from what the   *)
(* request has loaded.                                                     *)
LEMMA CompleteKeeps ==
  ASSUME IInv, NEW r \in Requests, Complete(r)
  PROVE  IInv'
  <1> DEFINE i == request[r].id
             row == request[r].row
             next == request[r].next
             n == used + 1
             back == [todos[i] EXCEPT !.done = TRUE]
  <1>a. /\ request[r] # Idle /\ request[r].op = "complete" /\ request[r].stage = "looked"
        /\ i \in Ids /\ Exists(i) /\ row \in Row /\ HasLock(r)
        /\ UNCHANGED <<today, history>>
    BY RequestFits DEF Complete, Looked, IInv, Locks, HasLock
  <1>b. /\ request' \in [Requests -> Request \cup {Idle}]
        /\ request'[r] = Idle /\ \A q \in Requests \ {r} : request'[q] = request[q]
    BY DEF Complete, Done, IInv, TypeOK
  <1>c. /\ row.root = todos[i].root /\ row.previous = i /\ row.done = FALSE
        /\ todos[i].root \notin handled =>
             /\ row.frequency = todos[i].frequency
             /\ row.due = None <=> todos[i].due = None
    BY <1>a DEF IInv, Copies, Faithful
  <1>d. \A q \in Requests \ {r} : HasLock(q) => request[q].id # i
    BY <1>a DEF IInv, Locks
  <1>e. /\ back \in Row /\ back.due = todos[i].due /\ back.frequency = todos[i].frequency
        /\ back.previous = todos[i].previous /\ back.root = todos[i].root
    <2>1. todos[i] \in Row
      BY <1>a, RowFits DEF IInv
    <2> QED BY <2>1 DEF Row
  <1>f. \/ todos' = [todos EXCEPT ![i] = back] /\ used' = used
        \/ todos' = [todos EXCEPT ![i] = back, ![n] = row]
    BY DEF Complete, CreateNextOccurrence
  <1> HIDE DEF back
  <1>1. Locks'
    <2>1. \A q \in Requests : HasLock(q)' <=> HasLock(q) /\ q # r
      BY <1>a, <1>b DEF HasLock
    <2>2. \A j \in Ids : Exists(j) => Exists(j)'
      BY <1>a, <1>e, <1>f DEF IInv, TypeOK
    <2>3. \A q \in Requests : HasLock(q) => request[q].id \in Ids
      BY RequestFits DEF HasLock, IInv
    <2> QED BY <2>1, <2>2, <2>3, <1>b DEF IInv, Locks
  <1>2. CASE ~Repeats(row) \/ next # None
    <2>a. /\ todos' = [todos EXCEPT ![i] = back] /\ used' = used
      BY <1>2 DEF Complete, CreateNextOccurrence, back
    <2>b. /\ todos' \in [Ids -> Row \cup {None}]
          /\ \A j \in Ids : Exists(j)' <=> Exists(j)
          /\ \A j \in Ids : Exists(j) =>
                /\ todos'[j].due = todos[j].due /\ todos'[j].frequency = todos[j].frequency
                /\ todos'[j].previous = todos[j].previous /\ todos'[j].root = todos[j].root
                /\ j # i => todos'[j] = todos[j]
      BY <1>a, <2>a, <1>e DEF IInv, TypeOK
    <2>1. TypeOK'
      BY <1>a, <1>b, <2>a, <2>b DEF IInv, TypeOK
    <2>2. Links'
      BY <2>b, RowFits DEF IInv, Links, Row
    <2>3. Copies'
      BY <1>a, <1>b, <2>b, RequestFits DEF IInv, Copies, Faithful
    <2>4. Looks'
      <3> SUFFICES ASSUME NEW q \in Requests \ {r}, request[q] # Idle,
                          request[q].stage = "looked"
                   PROVE  Current(request[q])'
        BY <1>b DEF Looks, Current
      <3>1. request'[q] = request[q] /\ request[q].id \in Ids /\ Exists(request[q].id)
        BY <1>b, RequestFits DEF IInv, Locks, HasLock
      <3>2. request[q].next # None => request[q].next.id \in Ids
        BY RequestFits DEF IInv
      <3>3. Current(request[q])
        BY DEF IInv, Looks
      <3> QED BY <3>1, <3>2, <3>3, <2>b, <1>a DEF Current
    <2>5. Chain'
      <3> SUFFICES ASSUME NEW k \in Ids, Exists(k)', todos'[k].done,
                          todos'[k].frequency # "once", todos'[k].due # None,
                          todos'[k].root \notin handled'
                   PROVE  Followed(k)'
        BY DEF Chain
      <3>1. CASE k # i
        BY <3>1, <2>b, <1>a DEF IInv, Chain, Followed
      <3>2. CASE k = i
        <4>1. Repeats(row)
          BY <3>2, <2>b, <1>a, <1>c DEF Repeats
        <4>2. next # None /\ next.id \in Ids
          BY <4>1, <1>2, <1>a, RequestFits DEF IInv
        <4>3. Exists(next.id) /\ todos[next.id].previous = i
          BY <4>2, <1>a, <2>b, <3>2 DEF IInv, Looks, Current
        <4> QED BY <4>2, <4>3, <2>b, <3>2 DEF Followed
      <3> QED BY <3>1, <3>2
    <2> QED BY <1>1, <2>1, <2>2, <2>3, <2>4, <2>5 DEF IInv
  <1>3. CASE Repeats(row) /\ next = None
    <2>a. /\ todos' = [todos EXCEPT ![i] = back, ![n] = row]
          /\ used < MaxRows /\ used' = n
      BY <1>3 DEF Complete, CreateNextOccurrence, back
    <2>b. n \in Ids /\ n > used /\ ~Exists(n) /\ n # i /\ n >= used /\ n \in 0..MaxRows
      BY <2>a, <1>a DEF IInv, TypeOK, Ids
    <2>c. /\ todos' \in [Ids -> Row \cup {None}]
          /\ todos'[n] = row
          /\ \A j \in Ids \ {n} : Exists(j)' <=> Exists(j)
          /\ \A j \in Ids \ {n} : Exists(j) =>
                /\ todos'[j].due = todos[j].due /\ todos'[j].frequency = todos[j].frequency
                /\ todos'[j].previous = todos[j].previous /\ todos'[j].root = todos[j].root
                /\ j # i => todos'[j] = todos[j]
      BY <1>a, <2>a, <2>b, <1>e DEF IInv, TypeOK
    <2>d. \A j \in Ids : Exists(j) => todos[j].previous # i
      BY <1>3, <1>a DEF IInv, Looks, Current
    <2>e. ASSUME NEW q \in Requests, request[q] # Idle
          PROVE  /\ request[q].id \in Ids \ {n}
                 /\ request[q].next # None => request[q].next.id \in Ids \ {n}
      <3>1. /\ request[q].id \in Ids
            /\ request[q].next # None => request[q].next.id \in Ids
        BY <2>e, RequestFits DEF IInv
      <3>2. /\ request[q].id =< used
            /\ request[q].next # None => request[q].next.id =< used
        BY <2>e DEF IInv, TypeOK
      <3>3. used \in Nat
        BY DEF IInv, TypeOK
      <3> QED BY <3>1, <3>2, <3>3
    <2>f. \A j \in Ids : Exists(j) => j # n /\ todos[j] \in Row
      BY <2>b, RowFits DEF IInv
    <2>1. TypeOK'
      <3>1. (\A j \in Ids : j > used => ~Exists(j))'
        <4> SUFFICES ASSUME NEW j \in Ids, j > used' PROVE ~Exists(j)'
          OBVIOUS
        <4>1. j > used /\ j # n
          BY <2>a, <2>b DEF Ids, IInv, TypeOK
        <4> QED BY <4>1, <2>c DEF IInv, TypeOK
      <3>2. ASSUME NEW q \in Requests, request'[q] # Idle
            PROVE  /\ request'[q].id =< used'
                   /\ request'[q].row = None <=> request'[q].op = "reopen"
                   /\ request'[q].next # None => request'[q].next.id =< used'
        <4>1. q # r /\ request'[q] = request[q]
          BY <3>2, <1>b
        <4> QED BY <4>1, <3>2, <2>a, <2>b, RequestsStay DEF IInv
      <3> QED BY <3>1, <3>2, <1>a, <1>b, <2>a, <2>b, <2>c DEF IInv, TypeOK
    <2>2. Links'
      <3>1. \A j \in Ids : Exists(j)' => j = n \/ Exists(j)
        BY <2>c
      <3>2. ASSUME NEW j \in Ids, NEW k \in Ids, Exists(j)', Exists(k)',
                   todos'[j].previous = todos'[k].previous, todos'[j].previous # None
            PROVE  j = k
        BY <3>1, <3>2, <2>c, <2>d, <1>c DEF IInv, Links
      <3>3. ASSUME NEW j \in Ids, Exists(j)', todos'[j].previous # None
            PROVE  /\ Exists(todos[j].previous)'
                   /\ todos'[todos'[j].previous].root = todos'[j].root
        <4>1. CASE j = n
          <5>1. todos'[j].previous = i /\ todos'[j].root = todos[i].root
            BY <4>1, <2>c, <1>c
          <5>2. i \in Ids \ {n} /\ Exists(i)
            BY <2>b, <1>a
          <5>3. todos'[i] # None /\ todos'[i].root = todos[i].root
            BY <5>2, <2>c
          <5> QED BY <5>1, <5>3
        <4>2. CASE j # n
          <5>1. /\ Exists(j) /\ todos'[j].previous = todos[j].previous
                /\ todos'[j].root = todos[j].root
                /\ todos[j].previous \in Ids /\ todos[j] \in Row
            BY <3>3, <4>2, <3>1, <2>c, <2>f DEF Row
          <5>2. /\ Exists(todos[j].previous)
                /\ todos[todos[j].previous].root = todos[j].root
            BY <3>3, <5>1 DEF IInv, Links
          <5> QED BY <5>1, <5>2, <2>c, <2>f
        <4> QED BY <4>1, <4>2
      <3> QED BY <3>2, <3>3 DEF Links
    <2>3. Copies'
      <3> SUFFICES ASSUME NEW q \in Requests \ {r}, request[q] # Idle
                   PROVE  Faithful(request[q])'
        BY <1>b DEF Copies
      <3>1. request'[q] = request[q] /\ Faithful(request[q])
        BY <1>b DEF IInv, Copies
      <3> QED BY <3>1, <2>c, <2>e, <1>a DEF Faithful
    <2>4. Looks'
      <3> SUFFICES ASSUME NEW q \in Requests \ {r}, request[q] # Idle,
                          request[q].stage = "looked"
                   PROVE  Current(request[q])'
        BY <1>b DEF Looks, Current
      <3>1. /\ request'[q] = request[q] /\ Exists(request[q].id) /\ request[q].id # i
        BY <1>b, <1>d DEF IInv, Locks, HasLock
      <3>3. Current(request[q])
        BY DEF IInv, Looks
      <3>4. request[q].next = None => \A j \in Ids : Exists(j)' => todos'[j].previous # request[q].id
        BY <3>1, <3>3, <2>c, <1>c DEF Current
      <3>5. request[q].next # None =>
              IF Exists(request[q].next.id)'
              THEN todos'[request[q].next.id].previous = request[q].id
              ELSE todos'[request[q].id].root \in handled'
        BY <3>1, <3>3, <2>c, <2>e, <1>a DEF Current
      <3> QED BY <3>1, <3>4, <3>5 DEF Current
    <2>5. Chain'
      <3> SUFFICES ASSUME NEW k \in Ids, Exists(k)', todos'[k].done,
                          todos'[k].frequency # "once", todos'[k].due # None,
                          todos'[k].root \notin handled'
                   PROVE  Followed(k)'
        BY DEF Chain
      <3>1. CASE k = n
        BY <3>1, <2>c, <1>c
      <3>2. CASE k = i
        <4>1. todos'[n] # None /\ todos'[n].previous = i /\ n \in Ids
          BY <2>b, <2>c, <1>a, <1>c
        <4> QED BY <4>1, <3>2 DEF Followed
      <3>3. CASE k # i /\ k # n
        <4>1. Followed(k)
          BY <3>3, <2>c, <1>a DEF IInv, Chain
        <4> QED BY <4>1, <2>c, <2>f DEF Followed
      <3> QED BY <3>1, <3>2, <3>3
    <2> QED BY <1>1, <2>1, <2>2, <2>3, <2>4, <2>5 DEF IInv
  <1> QED BY <1>2, <1>3

-----------------------------------------------------------------------------
(* A deleted row: the chains whose rows were linked to it are the only ones *)
(* that lose a link, and who holds a lock holds it on another row.          *)
LEMMA LinksWithout ==
  ASSUME IInv, NEW table \in [Ids -> Row \cup {None}], NEW k \in Ids,
         \A j \in Ids : table[j] = None <=> todos[j] = None,
         \A j \in Ids : Exists(j) =>
            table[j].previous = todos[j].previous /\ table[j].root = todos[j].root,
         todos' = Without(table, k)
  PROVE  Links'
  <1>a. \A j \in Ids :
          /\ Exists(j)' <=> j # k /\ Exists(j)
          /\ Exists(j)' => /\ todos'[j].root = todos[j].root
                          /\ todos'[j].previous =
                               IF todos[j].previous = k THEN None ELSE todos[j].previous
    BY WithoutFacts
  <1>1. ASSUME NEW j \in Ids, NEW l \in Ids, Exists(j)', Exists(l)',
               todos'[j].previous = todos'[l].previous, todos'[j].previous # None
        PROVE  j = l
    <2>1. Exists(j) /\ Exists(l) /\ todos[j].previous = todos[l].previous
          /\ todos[j].previous # None
      BY <1>1, <1>a
    <2> QED BY <2>1 DEF IInv, Links
  <1>2. ASSUME NEW j \in Ids, Exists(j)', todos'[j].previous # None
        PROVE  Exists(todos[j].previous)'
               /\ todos'[todos'[j].previous].root = todos'[j].root
    <2>1. /\ Exists(j) /\ todos'[j].previous = todos[j].previous
          /\ todos[j].previous # k /\ todos[j].previous # None
          /\ todos'[j].root = todos[j].root
      BY <1>2, <1>a
    <2>2. todos[j].previous \in Ids
      BY <2>1, RowFits DEF IInv, Row
    <2>3. /\ Exists(todos[j].previous)
          /\ todos[todos[j].previous].root = todos[j].root
      BY <2>1 DEF IInv, Links
    <2> QED BY <2>1, <2>2, <2>3, <1>a
  <1> QED BY <1>1, <1>2 DEF Links

(* Reopening: the successor that goes follows the row it has locked, and    *)
(* its own followers lose their link.                                       *)
LEMMA ReopenRows ==
  ASSUME IInv, NEW r \in Requests, Reopen(r)
  PROVE  /\ todos' \in [Ids -> Row \cup {None}]
         /\ \A j \in Ids : todos'[j] # None <=> Exists(j) /\ ~(Doomed(r) /\ j = request[r].next.id)
         /\ \A j \in Ids : todos'[j] # None =>
              /\ todos'[j].due = todos[j].due /\ todos'[j].frequency = todos[j].frequency
              /\ todos'[j].root = todos[j].root /\ todos'[j].day = todos[j].day
              /\ \/ todos'[j].previous = todos[j].previous
                 \/ /\ Doomed(r) /\ todos[j].previous = request[r].next.id
                    /\ todos'[j].previous = None
  <1> DEFINE i == request[r].id
             next == request[r].next
             open == [todos[i] EXCEPT !.done = FALSE]
             back == [todos EXCEPT ![i] = open]
  <1>a. /\ request[r] # Idle /\ request[r].op = "reopen" /\ request[r].stage = "looked"
        /\ i \in Ids /\ Exists(i) /\ HasLock(r)
        /\ UNCHANGED <<used, today, roots, edits, handled, switched, overtaken>>
    BY RequestFits DEF Reopen, Looked, IInv, Locks, HasLock
  <1>d. /\ open \in Row /\ open.due = todos[i].due /\ open.frequency = todos[i].frequency
        /\ open.previous = todos[i].previous /\ open.root = todos[i].root
        /\ open.done = FALSE /\ open.day = todos[i].day
    <2>1. todos[i] \in Row
      BY <1>a, RowFits DEF IInv
    <2> QED BY <2>1 DEF Row
  <1>e. IF Doomed(r)
        THEN /\ ~Locked(next.id) /\ todos' = Without(back, next.id)
             /\ cut' = IF Next_occurrences(next.id) = {} THEN cut
                       ELSE cut \cup {todos[i].root}
        ELSE todos' = back /\ cut' = cut
    BY DEF Reopen, DeleteOpenNextOccurrence
  <1> HIDE DEF open
  <1>f. /\ back \in [Ids -> Row \cup {None}]
        /\ \A j \in Ids : back[j] = None <=> todos[j] = None
        /\ \A j \in Ids : Exists(j) =>
             /\ back[j].due = todos[j].due /\ back[j].frequency = todos[j].frequency
             /\ back[j].previous = todos[j].previous /\ back[j].root = todos[j].root
             /\ back[j].day = todos[j].day
    BY <1>a, <1>d DEF IInv, TypeOK
  <1> HIDE DEF back
  <1>g. Doomed(r) => next.id \in Ids /\ next # None
    BY <1>a, RequestFits DEF Doomed, IInv
  <1>t. /\ todos' \in [Ids -> Row \cup {None}]
        /\ \A j \in Ids : todos'[j] # None <=> Exists(j) /\ ~(Doomed(r) /\ j = next.id)
        /\ \A j \in Ids : todos'[j] # None =>
             /\ todos'[j].due = todos[j].due /\ todos'[j].frequency = todos[j].frequency
             /\ todos'[j].root = todos[j].root /\ todos'[j].day = todos[j].day
             /\ \/ todos'[j].previous = todos[j].previous
                \/ /\ Doomed(r) /\ todos[j].previous = next.id
                   /\ todos'[j].previous = None
    <2>1. CASE Doomed(r)
      <3> DEFINE k == next.id
      <3>1. k \in Ids /\ todos' = Without(back, k)
        BY <2>1, <1>e, <1>g
      <3> HIDE DEF k
      <3>2. /\ todos' \in [Ids -> Row \cup {None}]
            /\ \A j \in Ids :
                 /\ todos'[j] = None <=> j = k \/ back[j] = None
                 /\ todos'[j] # None =>
                      /\ todos'[j].due = back[j].due /\ todos'[j].frequency = back[j].frequency
                      /\ todos'[j].root = back[j].root /\ todos'[j].day = back[j].day
                      /\ todos'[j].previous =
                           IF back[j].previous = k THEN None ELSE back[j].previous
        BY <3>1, <1>f, WithoutFacts
      <3>3. ASSUME NEW j \in Ids PROVE todos'[j] # None <=> Exists(j) /\ j # k
        BY <3>2, <1>f
      <3>4. ASSUME NEW j \in Ids, todos'[j] # None
            PROVE  /\ todos'[j].due = todos[j].due /\ todos'[j].frequency = todos[j].frequency
                   /\ todos'[j].root = todos[j].root /\ todos'[j].day = todos[j].day
                   /\ \/ todos'[j].previous = todos[j].previous
                      \/ todos[j].previous = k /\ todos'[j].previous = None
        BY <3>2, <3>3, <3>4, <1>f
      <3> QED BY <3>2, <3>3, <3>4, <2>1 DEF k
    <2>2. CASE ~Doomed(r)
      <3>1. todos' = back
        BY <2>2, <1>e
      <3> QED BY <3>1, <2>2, <1>f
    <2> QED BY <2>1, <2>2
  <1> QED BY <1>t

LEMMA ReopenKeeps ==
  ASSUME IInv, NEW r \in Requests, Reopen(r)
  PROVE  IInv'
  <1> DEFINE i == request[r].id
             next == request[r].next
             open == [todos[i] EXCEPT !.done = FALSE]
             back == [todos EXCEPT ![i] = open]
  <1>a. /\ request[r] # Idle /\ request[r].op = "reopen" /\ request[r].stage = "looked"
        /\ i \in Ids /\ Exists(i) /\ HasLock(r)
        /\ UNCHANGED <<used, today, roots, edits, handled, switched, overtaken>>
    BY RequestFits DEF Reopen, Looked, IInv, Locks, HasLock
  <1>b. /\ request' \in [Requests -> Request \cup {Idle}]
        /\ request'[r] = Idle /\ \A q \in Requests \ {r} : request'[q] = request[q]
    BY DEF Reopen, Done, IInv, TypeOK
  <1>c. \A q \in Requests \ {r} : HasLock(q) => request[q].id # i
    BY <1>a DEF IInv, Locks
  <1>d. /\ open \in Row /\ open.due = todos[i].due /\ open.frequency = todos[i].frequency
        /\ open.previous = todos[i].previous /\ open.root = todos[i].root
        /\ open.done = FALSE
    <2>1. todos[i] \in Row
      BY <1>a, RowFits DEF IInv
    <2> QED BY <2>1 DEF Row
  <1>e. IF Doomed(r)
        THEN /\ ~Locked(next.id) /\ todos' = Without(back, next.id)
             /\ cut' = IF Next_occurrences(next.id) = {} THEN cut
                       ELSE cut \cup {todos[i].root}
        ELSE todos' = back /\ cut' = cut
    BY DEF Reopen, DeleteOpenNextOccurrence
  <1> HIDE DEF open
  <1>f. /\ back \in [Ids -> Row \cup {None}]
        /\ \A j \in Ids : back[j] = None <=> todos[j] = None
        /\ \A j \in Ids : Exists(j) =>
             /\ back[j].due = todos[j].due /\ back[j].frequency = todos[j].frequency
             /\ back[j].previous = todos[j].previous /\ back[j].root = todos[j].root
    BY <1>a, <1>d DEF IInv, TypeOK
  <1>w. \A j \in Ids : Exists(j) /\ back[j].done => todos[j].done /\ j # i
    BY <1>a, <1>d DEF IInv, TypeOK
  <1> HIDE DEF back
  <1>g. Doomed(r) => next.id \in Ids /\ next # None
    BY <1>a, RequestFits DEF Doomed, IInv
  <1>h. ASSUME NEW q \in Requests, HasLock(q), Doomed(r)
        PROVE  request[q].id # next.id
    BY <1>e, <1>h DEF Locked
  <1>k. Doomed(r) /\ Exists(next.id) => todos[next.id].previous = i
    BY <1>a, <1>g DEF IInv, Looks, Current
  <1>t. /\ todos' \in [Ids -> Row \cup {None}]
        /\ \A j \in Ids : todos'[j] # None <=> Exists(j) /\ ~(Doomed(r) /\ j = next.id)
        /\ \A j \in Ids : todos'[j] # None =>
             /\ todos'[j].due = todos[j].due /\ todos'[j].frequency = todos[j].frequency
             /\ todos'[j].root = todos[j].root
             /\ \/ todos'[j].previous = todos[j].previous
                \/ /\ Doomed(r) /\ todos[j].previous = next.id
                   /\ todos'[j].previous = None
    BY ReopenRows
  <1>u. ASSUME NEW j \in Ids, todos'[j] # None, todos'[j].done
        PROVE  todos[j].done /\ j # i
    <2>1. Exists(j) /\ back[j] # None
      BY <1>t, <1>u, <1>f
    <2>2. todos'[j].done = back[j].done
      <3>1. CASE Doomed(r)
        <4>1. todos' = Without(back, next.id) /\ next.id \in Ids
          BY <3>1, <1>e, <1>g
        <4> DEFINE k == next.id
        <4> HIDE DEF k
        <4>2. Without(back, k)[j] # None
          BY <4>1, <1>u DEF k
        <4>3. k \in Ids /\ back \in [Ids -> Row \cup {None}]
          BY <4>1, <1>f DEF k
        <4>4. Without(back, k)[j].done = back[j].done
          BY <4>2, <4>3, WithoutFacts
        <4> QED BY <4>1, <4>4 DEF k
      <3>2. CASE ~Doomed(r)
        BY <3>2, <1>e
      <3> QED BY <3>1, <3>2
    <2>3. back[j].done
      BY <2>2, <1>u
    <2> QED BY <2>1, <2>3, <1>w
  <1>1. TypeOK'
    <2>1. todos[i].root \in Ids
      BY <1>a, RowFits DEF IInv, Row
    <2>2. cut' \subseteq Ids
      BY <2>1, <1>e DEF IInv, TypeOK
    <2>3. \A j \in Ids : j > used' => ~Exists(j)'
      BY <1>a, <1>t DEF IInv, TypeOK
    <2> QED BY <2>2, <2>3, <1>a, <1>b, <1>t DEF IInv, TypeOK
  <1>2. Locks'
    <2>1. \A q \in Requests : HasLock(q)' <=> HasLock(q) /\ q # r
      BY <1>a, <1>b DEF HasLock
    <2>2. \A q \in Requests : HasLock(q) => request[q].id \in Ids
      BY RequestFits DEF HasLock, IInv
    <2> QED BY <2>1, <2>2, <1>b, <1>t, <1>h DEF IInv, Locks
  <1>3. Links'
    <2>1. CASE Doomed(r)
      BY <2>1, <1>e, <1>f, <1>g, LinksWithout
    <2>2. CASE ~Doomed(r)
      <3>1. \A j \in Ids : (Exists(j)' <=> Exists(j)) /\
              (Exists(j) => todos'[j].previous = todos[j].previous /\ todos'[j].root = todos[j].root)
        BY <2>2, <1>e, <1>f
      <3>2. \A j \in Ids : Exists(j) => todos[j].previous \in Ids \cup {None}
        BY RowFits DEF IInv, Row
      <3> QED BY <3>1, <3>2 DEF IInv, Links
    <2> QED BY <2>1, <2>2
  <1>4. Copies'
    <2> SUFFICES ASSUME NEW q \in Requests \ {r}, request[q] # Idle
                 PROVE  Faithful(request[q])'
      BY <1>b DEF Copies
    <2>1. request'[q] = request[q] /\ Faithful(request[q]) /\ request[q].id \in Ids
      BY <1>b, RequestFits DEF IInv, Copies
    <2> QED BY <2>1, <1>t, <1>a DEF Faithful
  <1>5. Looks'
    <2> SUFFICES ASSUME NEW q \in Requests \ {r}, request[q] # Idle,
                        request[q].stage = "looked"
                 PROVE  Current(request[q])'
      BY <1>b DEF Looks, Current
    <2> DEFINE x == request[q].id
               y == request[q].next
    <2>1. /\ request'[q] = request[q] /\ Exists(x) /\ x # i /\ x \in Ids
          /\ Doomed(r) => x # next.id
          /\ y # None => y.id \in Ids
      BY <1>b, <1>c, <1>h, RequestFits DEF IInv, Locks, HasLock
    <2>2. /\ y = None => \A j \in Ids : Exists(j) => todos[j].previous # x
          /\ y # None => IF Exists(y.id) THEN todos[y.id].previous = x
                         ELSE todos[x].root \in handled
      BY DEF IInv, Looks, Current
    <2>3. todos'[x] # None /\ todos'[x].root = todos[x].root
      BY <2>1, <1>t
    <2>4. ASSUME y = None, NEW j \in Ids, todos'[j] # None PROVE todos'[j].previous # x
      BY <2>1, <2>2, <2>4, <1>t
    <2>5. ASSUME y # None, todos'[y.id] # None PROVE todos'[y.id].previous = x
      BY <2>1, <2>2, <2>5, <1>t
    <2>6. ASSUME y # None, todos'[y.id] = None PROVE todos'[x].root \in handled'
      <3>1. ~Exists(y.id)
        BY <2>1, <2>2, <2>6, <1>t, <1>k
      <3> QED BY <3>1, <2>2, <2>3, <2>6, <1>a
    <2> QED BY <2>1, <2>4, <2>5, <2>6 DEF Current
  <1>6. Chain'
    <2> SUFFICES ASSUME NEW k \in Ids, Exists(k)', todos'[k].done,
                        todos'[k].frequency # "once", todos'[k].due # None,
                        todos'[k].root \notin handled'
                 PROVE  Followed(k)'
      BY DEF Chain
    <2>1. k # i /\ Followed(k) /\ Exists(k) /\ ~(Doomed(r) /\ k = next.id)
      BY <1>t, <1>u, <1>a DEF IInv, Chain
    <2>2. PICK j \in Ids : Exists(j) /\ todos[j].previous = k
      BY <2>1 DEF Followed
    <2>3. todos'[j] # None /\ todos'[j].previous = k
      BY <2>1, <2>2, <1>k, <1>t
    <2> QED BY <2>3 DEF Followed
  <1> QED BY <1>1, <1>2, <1>3, <1>4, <1>5, <1>6 DEF IInv

-----------------------------------------------------------------------------
(* An edit: it changes no link, and who changes the dates is remembered.   *)
LEMMA UpdateKeeps ==
  ASSUME IInv, NEW r \in Requests, NEW p \in Payload, update_todo(r, p[1], p[2])
  PROVE  IInv'
  <1> DEFINE i == request[r].id
             old == request[r].row
             day == IF p[1] = old.due THEN old.day ELSE DayOf(p[1])
             new == [todos[i] EXCEPT
                       !.due = IF p[1] # old.due THEN p[1] ELSE @,
                       !.day = IF day # old.day THEN day ELSE @,
                       !.frequency = IF p[2] # old.frequency THEN p[2] ELSE @]
  <1>a. /\ request[r] # Idle /\ request[r].op = "update" /\ request[r].stage = "loaded"
        /\ i \in Ids /\ old \in Row /\ ~Locked(i)
        /\ edits' \in 0..MaxEdits
        /\ UNCHANGED <<used, today, roots, cut>>
    BY RequestFits DEF update_todo, Loaded, IInv, TypeOK
  <1>b. /\ request' \in [Requests -> Request \cup {Idle}]
        /\ request'[r] = Idle /\ \A q \in Requests \ {r} : request'[q] = request[q]
    BY DEF update_todo, Done, IInv, TypeOK
  <1>c. p[1] \in Date \cup {None} /\ p[2] \in Frequencies /\ DayOf(p[1]) \in 0..2
    BY DEF Payload, Within, Date, DayOf
  <1>d. Exists(i) => old.root = todos[i].root
    BY <1>a DEF IInv, Copies, Faithful
  <1>e. /\ handled' = IF p[1] # old.due \/ p[2] # old.frequency
                      THEN handled \cup {old.root} ELSE handled
        /\ switched' \subseteq Ids /\ handled' \subseteq Ids /\ overtaken' \subseteq Ids
        /\ todos' = IF ~Exists(i) THEN todos ELSE
               [todos EXCEPT ![i].due = IF p[1] # old.due THEN p[1] ELSE @,
                             ![i].day = IF day # old.day THEN day ELSE @,
                             ![i].frequency = IF p[2] # old.frequency THEN p[2] ELSE @]
    BY <1>a DEF update_todo, IInv, TypeOK, Row
  <1>f. /\ todos' \in [Ids -> Row \cup {None}]
        /\ \A j \in Ids : todos'[j] # None <=> Exists(j)
        /\ \A j \in Ids : Exists(j) =>
             /\ todos'[j].previous = todos[j].previous /\ todos'[j].root = todos[j].root
             /\ todos'[j].done = todos[j].done
             /\ todos[j].root \notin handled' =>
                  /\ todos'[j].due = todos[j].due
                  /\ todos'[j].frequency = todos[j].frequency
    <2>1. CASE ~Exists(i)
      BY <2>1, <1>e DEF IInv, TypeOK
    <2>2. CASE Exists(i)
      <3>1. todos[i] \in Row
        BY <2>2, <1>a, RowFits DEF IInv
      <3>2. day \in 0..2
        BY <1>a, <1>c DEF Row
      <3> HIDE DEF day
      <3>3. /\ new \in Row
            /\ new.previous = todos[i].previous /\ new.root = todos[i].root
            /\ new.done = todos[i].done
            /\ p[1] = old.due => new.due = todos[i].due
            /\ p[2] = old.frequency => new.frequency = todos[i].frequency
        BY <3>1, <3>2, <1>c DEF Row
      <3>4. todos' = [todos EXCEPT ![i] = new]
        BY <1>e, <2>2, <1>a DEF IInv, TypeOK
      <3>5. todos[i].root \notin handled' => p[1] = old.due /\ p[2] = old.frequency
        BY <1>d, <1>e, <2>2
      <3> HIDE DEF new
      <3> QED BY <3>1, <3>3, <3>4, <3>5, <1>a, <2>2 DEF IInv, TypeOK
    <2> QED BY <2>1, <2>2
  <1>g. handled \subseteq handled'
    BY <1>e
  <1>1. TypeOK'
    <2>1. \A j \in Ids : j > used' => ~Exists(j)'
      BY <1>a, <1>f DEF IInv, TypeOK
    <2>2. \A q \in Requests : request'[q] # Idle =>
             /\ request'[q].id =< used'
             /\ request'[q].row = None <=> request'[q].op = "reopen"
             /\ request'[q].next # None => request'[q].next.id =< used'
      BY <1>a, <1>b DEF IInv, TypeOK
    <2>3. used' \in 0..MaxRows /\ today' \in Within /\ roots' \in 0..MaxRoots
      BY <1>a DEF IInv, TypeOK
    <2>4. handled' \cup switched' \cup overtaken' \cup cut' \subseteq Ids
      BY <1>a, <1>e DEF IInv, TypeOK
    <2> QED BY <2>1, <2>2, <2>3, <2>4, <1>a, <1>b, <1>f DEF TypeOK
  <1>2. Locks'
    <2>1. \A q \in Requests : HasLock(q)' => HasLock(q) /\ q # r
      BY <1>a, <1>b DEF HasLock
    <2>2. \A q \in Requests : HasLock(q) => request[q].id \in Ids
      BY RequestFits DEF HasLock, IInv
    <2> QED BY <2>1, <2>2, <1>b, <1>f DEF IInv, Locks
  <1>3. Links'
    <2>1. \A j \in Ids : Exists(j) => todos[j].previous \in Ids \cup {None}
      BY RowFits DEF IInv, Row
    <2> QED BY <2>1, <1>f DEF IInv, Links
  <1>4. Copies'
    <2> SUFFICES ASSUME NEW q \in Requests \ {r}, request[q] # Idle
                 PROVE  Faithful(request[q])'
      BY <1>b DEF Copies
    <2>1. request'[q] = request[q] /\ Faithful(request[q]) /\ request[q].id \in Ids
      BY <1>b, RequestFits DEF IInv, Copies
    <2> QED BY <2>1, <1>f, <1>g DEF Faithful
  <1>5. Looks'
    <2> SUFFICES ASSUME NEW q \in Requests \ {r}, request[q] # Idle,
                        request[q].stage = "looked"
                 PROVE  Current(request[q])'
      BY <1>b DEF Looks, Current
    <2>1. /\ request'[q] = request[q] /\ Exists(request[q].id) /\ request[q].id \in Ids
          /\ request[q].next # None => request[q].next.id \in Ids
          /\ Current(request[q])
      BY <1>b, RequestFits DEF IInv, Locks, HasLock, Looks
    <2> QED BY <2>1, <1>f, <1>g DEF Current
  <1>6. Chain'
    BY <1>f, <1>g DEF IInv, Chain, Followed
  <1> QED BY <1>1, <1>2, <1>3, <1>4, <1>5, <1>6 DEF IInv

(* A deletion: it waits for every row it changes, and its chain is known.  *)
LEMMA DeleteKeeps ==
  ASSUME IInv, NEW i \in Ids, delete_todo(i)
  PROVE  IInv'
  <1>a. /\ Exists(i) /\ todos' = Without(todos, i)
        /\ \A j \in {i} \cup Next_occurrences(i) : ~Locked(j)
        /\ handled' = handled \cup {todos[i].root}
        /\ UNCHANGED <<used, request, today, roots, edits, switched, overtaken, cut>>
    BY DEF delete_todo
  <1>b. todos \in [Ids -> Row \cup {None}] /\ todos[i].root \in Ids
    BY <1>a, RowFits DEF IInv, TypeOK, Row
  <1>c. /\ todos' \in [Ids -> Row \cup {None}]
        /\ \A j \in Ids : todos'[j] # None <=> Exists(j) /\ j # i
        /\ \A j \in Ids : todos'[j] # None =>
             /\ todos'[j].due = todos[j].due /\ todos'[j].frequency = todos[j].frequency
             /\ todos'[j].root = todos[j].root /\ todos'[j].done = todos[j].done
             /\ todos'[j].previous = IF todos[j].previous = i THEN None ELSE todos[j].previous
    BY <1>a, <1>b, WithoutFacts
  <1>d. ASSUME NEW q \in Requests, HasLock(q)
        PROVE  request[q].id # i
    BY <1>a, <1>d DEF Locked
  <1>1. TypeOK'
    <2>1. \A j \in Ids : j > used' => ~Exists(j)'
      BY <1>a, <1>c DEF IInv, TypeOK
    <2> QED BY <2>1, <1>a, <1>b, <1>c DEF IInv, TypeOK
  <1>2. Locks'
    <2>1. \A q \in Requests : HasLock(q) => request[q].id \in Ids
      BY RequestFits DEF HasLock, IInv
    <2> QED BY <2>1, <1>a, <1>c, <1>d DEF IInv, Locks, HasLock
  <1>3. Links'
    BY <1>a, <1>b, LinksWithout
  <1>4. Copies'
    <2> SUFFICES ASSUME NEW q \in Requests, request[q] # Idle
                 PROVE  Faithful(request[q])'
      BY <1>a DEF Copies
    <2>1. Faithful(request[q]) /\ request[q].id \in Ids
      BY RequestFits DEF IInv, Copies
    <2> QED BY <2>1, <1>a, <1>c DEF Faithful
  <1>5. Looks'
    <2> SUFFICES ASSUME NEW q \in Requests, request[q] # Idle,
                        request[q].stage = "looked"
                 PROVE  Current(request[q])'
      BY <1>a DEF Looks, Current
    <2> DEFINE x == request[q].id
               y == request[q].next
    <2>1. /\ Exists(x) /\ x # i /\ x \in Ids
          /\ y # None => y.id \in Ids
      BY <1>d, RequestFits DEF IInv, Locks, HasLock
    <2>2. /\ y = None => \A j \in Ids : Exists(j) => todos[j].previous # x
          /\ y # None => IF Exists(y.id) THEN todos[y.id].previous = x
                         ELSE todos[x].root \in handled
      BY DEF IInv, Looks, Current
    <2>3. todos'[x] # None /\ todos'[x].root = todos[x].root
      BY <2>1, <1>c
    <2>4. ASSUME y = None, NEW j \in Ids, todos'[j] # None PROVE todos'[j].previous # x
      BY <2>1, <2>2, <2>4, <1>c
    <2>5. ASSUME y # None, todos'[y.id] # None PROVE todos'[y.id].previous = x
      BY <2>1, <2>2, <2>5, <1>c
    <2>6. ASSUME y # None, todos'[y.id] = None PROVE todos'[x].root \in handled'
      <3>1. CASE ~Exists(y.id)
        BY <3>1, <2>2, <2>3, <2>6, <1>a
      <3>2. CASE Exists(y.id)
        <4>1. y.id = i /\ todos[i].previous = x
          BY <3>2, <2>1, <2>2, <2>6, <1>c
        <4>2. todos[x].root = todos[i].root
          BY <4>1, <2>1, <1>a DEF IInv, Links
        <4> QED BY <4>2, <2>3, <1>a
      <3> QED BY <3>1, <3>2
    <2>7. /\ request' = request
      BY <1>a
    <2> QED BY <2>4, <2>5, <2>6, <2>7 DEF Current
  <1>6. Chain'
    <2> SUFFICES ASSUME NEW k \in Ids, Exists(k)', todos'[k].done,
                        todos'[k].frequency # "once", todos'[k].due # None,
                        todos'[k].root \notin handled'
                 PROVE  Followed(k)'
      BY DEF Chain
    <2>1. k # i /\ Followed(k) /\ Exists(k) /\ todos[k].root # todos[i].root
      BY <1>a, <1>c DEF IInv, Chain
    <2>2. PICK j \in Ids : Exists(j) /\ todos[j].previous = k
      BY <2>1 DEF Followed
    <2>3. j # i
      BY <2>1, <2>2 DEF IInv, Links
    <2>4. todos'[j] # None /\ todos'[j].previous = k
      BY <2>1, <2>2, <2>3, <1>c
    <2> QED BY <2>4 DEF Followed
  <1> QED BY <1>1, <1>2, <1>3, <1>4, <1>5, <1>6 DEF IInv

-----------------------------------------------------------------------------
LEMMA NextIInv == IInv /\ [Next]_vars => IInv'
  <1> SUFFICES ASSUME IInv, [Next]_vars PROVE IInv'
    OBVIOUS
  <1>1. CASE UNCHANGED vars
    BY <1>1 DEF vars, IInv, TypeOK, Locks, HasLock, Links, Copies, Faithful, Looks, Current,
                Chain, Followed
  <1>2. CASE Next
    BY <1>2, CreateKeeps, LoadKeeps, StartCompleteKeeps, StartReopenKeeps, LookKeeps,
       CompleteKeeps, ReopenKeeps, UpdateKeeps, AbortKeeps, DeleteKeeps, MidnightKeeps DEF Next
  <1> QED BY <1>1, <1>2

(* What the row lock protects, in every reachable state.                   *)
THEOREM InductiveInvariant == Spec => []IInv
  BY InitIInv, NextIInv, PTL DEF Spec

(* The variables have their types.                                         *)
THEOREM TypeCorrect == Spec => []TypeOK
  <1>1. IInv => TypeOK
    BY DEF IInv
  <1> QED BY <1>1, InductiveInvariant, PTL

(* set_completed makes one next occurrence, whoever else completes, reopens *)
(* or edits the same todo at the same time.                                *)
THEOREM OneNextOccurrence == Spec => []OneSuccessor
  <1>1. IInv => OneSuccessor
    <2> SUFFICES ASSUME IInv, NEW i \in Ids
                 PROVE  Cardinality(Next_occurrences(i)) =< 1
      BY DEF OneSuccessor
    <2>1. i # None
      OBVIOUS
    <2>2. \A j, k \in Next_occurrences(i) : j = k
      BY <2>1 DEF Next_occurrences, IInv, Links
    <2>3. CASE Next_occurrences(i) = {}
      BY <2>3, FS_EmptySet
    <2>4. CASE Next_occurrences(i) # {}
      <3>1. PICK j \in Next_occurrences(i) : TRUE
        BY <2>4
      <3>2. Next_occurrences(i) = {j}
        BY <3>1, <2>2
      <3>3. Cardinality({j}) = 1
        BY FS_Singleton
      <3> QED BY <3>2, <3>3
    <2> QED BY <2>3, <2>4
  <1> QED BY <1>1, InductiveInvariant, PTL

(* A repeating todo that nobody has edited or deleted does not end.        *)
THEOREM RepetitionGoesOn == Spec => []ChainGoesOn
  <1>1. IInv => ChainGoesOn
    BY DEF IInv, Chain, ChainGoesOn, Followed, Next_occurrences
  <1> QED BY <1>1, InductiveInvariant, PTL

-----------------------------------------------------------------------------
(* The dates.  A row says on which day it is due as long as no edit was     *)
(* saved over another one; the successor a request is about to make says so *)
(* too, and comes after the row it follows.                                 *)
OnItsDay(row) ==
    row.due # None /\ row.root \notin overtaken =>
       /\ row.day # 0
       /\ row.frequency = "monthly" /\ row.root \notin switched
            => row.due.d = Least(row.day, Length(row.due.m))

Anchored == \A i \in Ids : Exists(i) => OnItsDay(todos[i])

Comes(q) ==
    q.op = "complete" =>
       /\ OnItsDay(q.row)
       /\ Exists(q.id) /\ Repeats(q.row) /\ q.row.root \notin handled =>
            /\ todos[q.id].due \in Date /\ q.row.due \in Date
            /\ Later(q.row.due, todos[q.id].due)

Ahead == \A r \in Requests : request[r] # Idle => Comes(request[r])

(* A chain is as old as its first row.                                     *)
Fresh == \A i \in Ids : Exists(i) => todos[i].root =< used

(* The rows of a chain that nobody has edited, deleted from or cut come in *)
(* the order of their dates; the one that follows a row is the next one.   *)
Ordered ==
    \A i, j \in Ids :
       Exists(i) /\ Exists(j) /\ i < j /\ todos[i].root = todos[j].root
         /\ todos[i].root \notin handled \cup cut =>
       /\ todos[i].due \in Date /\ todos[j].due \in Date
       /\ Later(todos[j].due, todos[i].due)
       /\ \E k \in Ids : k =< j /\ Exists(k) /\ todos[k].previous = i

Dates == Fresh /\ Anchored /\ Ahead /\ Ordered

(* What a step may do to a row that is there...                            *)
Aged(j) ==
    /\ todos'[j].root = todos[j].root
    /\ todos[j].root \notin handled' =>
          todos'[j].due = todos[j].due /\ todos'[j].frequency = todos[j].frequency
    /\ todos[j].root \notin overtaken' =>
          \/ /\ todos'[j].due = todos[j].due /\ todos'[j].day = todos[j].day
             /\ \/ todos'[j].frequency = todos[j].frequency
                \/ todos'[j].frequency # "monthly"
                \/ todos[j].root \in switched'
          \/ /\ todos'[j].due \in Within \cup {None}
             /\ todos'[j].day = DayOf(todos'[j].due)

(* ... which row it may make...                                            *)
New(j) ==
    \/ /\ todos'[j].root = j /\ todos'[j].due \in Within \cup {None}
       /\ todos'[j].day = DayOf(todos'[j].due)
    \/ \E r \in Requests :
          /\ request[r] # Idle /\ request[r].op = "complete" /\ Exists(request[r].id)
          /\ todos'[j] = request[r].row

(* ... and what it may do to what a request has loaded.                    *)
Carried(r) ==
    \/ request'[r] = Idle
    \/ /\ request[r] # Idle /\ request'[r].op = request[r].op
       /\ request'[r].id = request[r].id /\ request'[r].row = request[r].row
    \/ request'[r].op # "complete"
    \/ /\ request'[r].id \in Ids /\ Exists(request'[r].id)
       /\ request'[r].row = Successor(request'[r].id)
       /\ todos[request'[r].id].due # None => todos[request'[r].id].due \in Within

LEMMA AgedRows ==
  ASSUME IInv, NEW j \in Ids, Exists(j),
         todos'[j].due = todos[j].due, todos'[j].frequency = todos[j].frequency,
         todos'[j].root = todos[j].root, todos'[j].day = todos[j].day
  PROVE  Aged(j)
  BY DEF Aged

Steps ==
    /\ handled \subseteq handled' /\ switched \subseteq switched'
    /\ overtaken \subseteq overtaken' /\ cut \subseteq cut' /\ used =< used'
    /\ \A j \in Ids : todos'[j] # None =>
          IF Exists(j) THEN Aged(j) ELSE j = used' /\ used' > used /\ New(j)
    /\ \A r \in Requests : Carried(r)

(* A step of one request that leaves the table alone.                      *)
LEMMA QuietSteps ==
  ASSUME IInv, UNCHANGED <<todos, used, history>>, \A r \in Requests : Carried(r)
  PROVE  Steps
  <1>1. used =< used'
    BY DEF IInv, TypeOK
  <1>2. \A j \in Ids : Exists(j) => Aged(j)
    BY DEF Aged
  <1> QED BY <1>1, <1>2 DEF Steps

LEMMA RequestSteps ==
  ASSUME IInv, NEW r \in Requests,
         \/ StartComplete(r) \/ \E i \in Ids : StartReopen(r, i)
         \/ Look(r) \/ Abort(r)
         \/ \E op \in {"complete", "update"}, i \in Ids : Load(r, op, i)
  PROVE  Steps
  <1>0. request \in [Requests -> Request \cup {Idle}]
    BY DEF IInv, TypeOK
  <1>1. UNCHANGED <<todos, used, history>>
    BY DEF StartComplete, StartReopen, Look, Abort, Load
  <1>2. \A p \in Requests \ {r} : request'[p] = request[p]
    BY <1>0 DEF StartComplete, StartReopen, Look, Abort, Load, Done
  <1>3. \A p \in Requests \ {r} : Carried(p)
    BY <1>2 DEF Carried
  <1>4. Carried(r)
    <2>1. CASE Abort(r)
      BY <2>1, <1>0 DEF Abort, Done, Carried
    <2>2. CASE StartComplete(r)
      <3>1. request[r] # Idle /\ request[r] \in Request
        BY <2>2, RequestFits DEF StartComplete, Loaded, IInv
      <3>2. CASE Switchable("complete", request[r].id)
        <4>1. request'[r] = [request[r] EXCEPT !.stage = "written"]
          BY <3>2, <2>2, <1>0 DEF StartComplete
        <4>2. /\ request'[r].op = request[r].op /\ request'[r].id = request[r].id
              /\ request'[r].row = request[r].row
          BY <4>1, <3>1 DEF Request
        <4> QED BY <4>2, <3>1 DEF Carried
      <3>3. CASE ~Switchable("complete", request[r].id)
        BY <3>3, <2>2, <1>0 DEF StartComplete, Done, Carried
      <3> QED BY <3>2, <3>3
    <2>3. CASE \E i \in Ids : StartReopen(r, i)
      BY <2>3, <1>0 DEF StartReopen, Carried
    <2>4. CASE Look(r)
      <3>1. request[r] # Idle /\ request[r] \in Request
        BY <2>4, RequestFits DEF Look, IInv
      <3>2. PICK next \in Found(request[r].id) :
               request' = [request EXCEPT ![r].stage = "looked", ![r].next = next]
        BY <2>4 DEF Look
      <3>3. request'[r] = [request[r] EXCEPT !.stage = "looked", !.next = next]
        BY <3>2, <1>0
      <3>4. /\ request'[r].op = request[r].op /\ request'[r].id = request[r].id
            /\ request'[r].row = request[r].row
        BY <3>3, <3>1 DEF Request
      <3> QED BY <3>4, <3>1 DEF Carried
    <2>5. ASSUME NEW op \in {"complete", "update"}, NEW i \in Ids, Load(r, op, i)
          PROVE  Carried(r)
      <3>1. CASE op = "update"
        <4>1. request'[r].op = "update"
          BY <3>1, <2>5, <1>0 DEF Load
        <4> QED BY <4>1 DEF Carried
      <3>2. CASE op = "complete"
        <4>1. /\ request'[r].id = i /\ request'[r].row = Successor(i) /\ Exists(i)
              /\ todos[i].due # None => todos[i].due \in Within
          BY <3>2, <2>5, <1>0 DEF Load
        <4> QED BY <4>1 DEF Carried
      <3> QED BY <3>1, <3>2
    <2> QED BY <2>1, <2>2, <2>3, <2>4, <2>5
  <1> QED BY <1>1, <1>3, <1>4, QuietSteps

LEMMA CreateSteps ==
  ASSUME IInv, NEW p \in Payload, create_todo(p[1], p[2])
  PROVE  Steps
  <1> DEFINE n == used + 1
             row == [due |-> p[1], frequency |-> p[2], day |-> DayOf(p[1]),
                     done |-> FALSE, previous |-> None, root |-> n]
  <1>1. /\ used \in Nat /\ n \in Ids /\ n > used /\ used' = n /\ ~Exists(n)
        /\ todos' = [todos EXCEPT ![n] = row]
        /\ UNCHANGED <<request, handled, switched, overtaken, cut>>
    BY DEF IInv, TypeOK, create_todo, Ids
  <1>2. p[1] \in Within \cup {None}
    BY DEF Payload
  <1>3. /\ row.root = n /\ row.due = p[1] /\ row.day = DayOf(row.due)
    OBVIOUS
  <1> HIDE DEF row
  <1>4. todos'[n] = row /\ \A j \in Ids \ {n} : todos'[j] = todos[j]
    BY <1>1 DEF IInv, TypeOK
  <1>5. New(n)
    BY <1>2, <1>3, <1>4 DEF New
  <1>6. \A j \in Ids \ {n} : Exists(j) => Aged(j)
    BY <1>4, AgedRows
  <1>7. \A r \in Requests : Carried(r)
    BY <1>1 DEF Carried
  <1> QED BY <1>1, <1>4, <1>5, <1>6, <1>7 DEF Steps

(* Completing: every row stays, and the successor that is made, if one is, *)
(* is the first one of the row that is completed.                          *)
LEMMA CompleteRows ==
  ASSUME IInv, NEW r \in Requests, Complete(r)
  PROVE  /\ request[r] # Idle /\ request[r].op = "complete"
         /\ request[r].id \in Ids /\ Exists(request[r].id)
         /\ used \in Nat /\ UNCHANGED history
         /\ request'[r] = Idle /\ \A q \in Requests \ {r} : request'[q] = request[q]
         /\ \A j \in Ids : Exists(j) =>
               /\ todos'[j] # None
               /\ todos'[j].due = todos[j].due /\ todos'[j].frequency = todos[j].frequency
               /\ todos'[j].root = todos[j].root /\ todos'[j].day = todos[j].day
               /\ todos'[j].previous = todos[j].previous
         /\ \/ used' = used /\ \A j \in Ids : todos'[j] # None => Exists(j)
            \/ /\ used' = used + 1 /\ used' \in Ids /\ ~Exists(used')
               /\ todos'[used'] = request[r].row /\ Repeats(request[r].row)
               /\ request[r].row.previous = request[r].id
               /\ request[r].row.root = todos[request[r].id].root
               /\ \A j \in Ids : todos'[j] # None => Exists(j) \/ j = used'
               /\ \A j \in Ids : Exists(j) => todos[j].previous # request[r].id
  <1> DEFINE i == request[r].id
             row == request[r].row
             n == used + 1
             back == [todos[i] EXCEPT !.done = TRUE]
  <1>1. /\ request[r] # Idle /\ request[r].op = "complete" /\ request[r].stage = "looked"
        /\ i \in Ids /\ Exists(i) /\ row \in Row
        /\ used \in Nat /\ UNCHANGED history
    BY RequestFits DEF Complete, Looked, IInv, TypeOK, Locks, HasLock
  <1>2. request'[r] = Idle /\ \A q \in Requests \ {r} : request'[q] = request[q]
    BY DEF Complete, Done, IInv, TypeOK
  <1>3. row.root = todos[i].root /\ row.previous = i
    BY <1>1 DEF IInv, Copies, Faithful
  <1>4. /\ back \in Row /\ back.due = todos[i].due /\ back.frequency = todos[i].frequency
        /\ back.previous = todos[i].previous /\ back.root = todos[i].root
        /\ back.day = todos[i].day
    <2>1. todos[i] \in Row
      BY <1>1, RowFits DEF IInv
    <2> QED BY <2>1 DEF Row
  <1>5. CASE ~Repeats(row) \/ request[r].next # None
    <2>1. todos' = [todos EXCEPT ![i] = back] /\ used' = used
      BY <1>5 DEF Complete, CreateNextOccurrence
    <2> HIDE DEF back
    <2>2. todos'[i] = back /\ \A j \in Ids \ {i} : todos'[j] = todos[j]
      BY <2>1, <1>1 DEF IInv, TypeOK
    <2> QED BY <2>1, <2>2, <1>1, <1>2, <1>4
  <1>6. CASE Repeats(row) /\ request[r].next = None
    <2>1. todos' = [todos EXCEPT ![i] = back, ![n] = row] /\ used < MaxRows /\ used' = n
      BY <1>6 DEF Complete, CreateNextOccurrence
    <2> HIDE DEF back
    <2>2. n \in Ids /\ ~Exists(n) /\ n # i
      BY <2>1, <1>1 DEF IInv, TypeOK, Ids
    <2>3. todos'[n] = row /\ todos'[i] = back /\ \A j \in Ids \ {i, n} : todos'[j] = todos[j]
      BY <2>1, <2>2, <1>1 DEF IInv, TypeOK
    <2>4. \A j \in Ids : Exists(j) => todos[j].previous # i
      BY <1>6, <1>1 DEF IInv, Looks, Current
    <2> HIDE DEF i, row, n
    <2>5. used' = used + 1 /\ used' = n
      BY <2>1 DEF n
    <2>6. \A j \in Ids : todos'[j] # None => Exists(j) \/ j = used'
      BY <2>3, <2>5, <1>1
    <2>7. \A j \in Ids : Exists(j) =>
               /\ todos'[j] # None
               /\ todos'[j].due = todos[j].due /\ todos'[j].frequency = todos[j].frequency
               /\ todos'[j].root = todos[j].root /\ todos'[j].day = todos[j].day
               /\ todos'[j].previous = todos[j].previous
      BY <2>2, <2>3, <1>4
    <2> QED BY <2>2, <2>3, <2>4, <2>5, <2>6, <2>7, <1>1, <1>2, <1>3, <1>6 DEF i, row
  <1> QED BY <1>5, <1>6

LEMMA CompleteSteps ==
  ASSUME IInv, NEW r \in Requests, Complete(r)
  PROVE  Steps
  <1>1. \A j \in Ids : Exists(j) => Aged(j)
    BY CompleteRows, AgedRows
  <1>2. \A j \in Ids : todos'[j] # None /\ ~Exists(j) =>
           j = used' /\ used' > used /\ New(j)
    BY CompleteRows DEF New
  <1>3. \A q \in Requests : Carried(q)
    BY CompleteRows DEF Carried
  <1>4. used =< used'
    BY CompleteRows
  <1> QED BY <1>1, <1>2, <1>3, <1>4, CompleteRows DEF Steps

LEMMA ReopenSteps ==
  ASSUME IInv, NEW r \in Requests, Reopen(r)
  PROVE  Steps
  <1>1. \A j \in Ids : todos'[j] # None => Exists(j) /\ Aged(j)
    BY ReopenRows, AgedRows
  <1>2. /\ request'[r] = Idle /\ \A q \in Requests \ {r} : request'[q] = request[q]
        /\ UNCHANGED <<used, handled, switched, overtaken>> /\ used \in Nat
    BY DEF Reopen, Done, IInv, TypeOK
  <1>3. \A q \in Requests : Carried(q)
    BY <1>2 DEF Carried
  <1>4. cut \subseteq cut'
    BY DEF Reopen, DeleteOpenNextOccurrence
  <1> QED BY <1>1, <1>2, <1>3, <1>4 DEF Steps

LEMMA DeleteSteps ==
  ASSUME IInv, NEW i \in Ids, delete_todo(i)
  PROVE  Steps
  <1>1. /\ todos' = Without(todos, i) /\ todos \in [Ids -> Row \cup {None}]
        /\ handled \subseteq handled'
        /\ UNCHANGED <<used, request, switched, overtaken, cut>> /\ used \in Nat
    BY DEF delete_todo, IInv, TypeOK
  <1>2. \A j \in Ids : todos'[j] # None => Exists(j) /\ Aged(j)
    BY <1>1, WithoutFacts, AgedRows
  <1>3. \A q \in Requests : Carried(q)
    BY <1>1 DEF Carried
  <1> QED BY <1>1, <1>2, <1>3 DEF Steps

(* An edit: its date brings its own day along, unless the day it loaded is *)
(* no longer the row's.                                                    *)
LEMMA UpdateSteps ==
  ASSUME IInv, NEW r \in Requests, NEW p \in Payload, update_todo(r, p[1], p[2])
  PROVE  Steps
  <1> DEFINE i == request[r].id
             old == request[r].row
             day == IF p[1] = old.due THEN old.day ELSE DayOf(p[1])
             new == [todos[i] EXCEPT
                       !.due = IF p[1] # old.due THEN p[1] ELSE @,
                       !.day = IF day # old.day THEN day ELSE @,
                       !.frequency = IF p[2] # old.frequency THEN p[2] ELSE @]
  <1>1. /\ request[r] # Idle /\ request[r].op = "update" /\ i \in Ids /\ old \in Row
        /\ UNCHANGED <<used, cut>> /\ used \in Nat
    BY RequestFits DEF update_todo, Loaded, IInv, TypeOK
  <1>2. request'[r] = Idle /\ \A q \in Requests \ {r} : request'[q] = request[q]
    BY DEF update_todo, Done, IInv, TypeOK
  <1>3. \A q \in Requests : Carried(q)
    BY <1>2 DEF Carried
  <1>4. /\ handled' = IF p[1] # old.due \/ p[2] # old.frequency
                      THEN handled \cup {old.root} ELSE handled
        /\ switched' = IF p[1] = old.due /\ p[2] = "monthly" /\ old.frequency # "monthly"
                       THEN switched \cup {old.root} ELSE switched
        /\ overtaken' = IF Exists(i) /\ <<todos[i].due, todos[i].day>> # <<old.due, old.day>>
                        THEN overtaken \cup {old.root} ELSE overtaken
        /\ todos' = IF ~Exists(i) THEN todos ELSE
               [todos EXCEPT ![i].due = IF p[1] # old.due THEN p[1] ELSE @,
                             ![i].day = IF day # old.day THEN day ELSE @,
                             ![i].frequency = IF p[2] # old.frequency THEN p[2] ELSE @]
    BY DEF update_todo
  <1>5. p[1] \in Within \cup {None}
    BY DEF Payload
  <1>6. Exists(i) => old.root = todos[i].root
    BY <1>1 DEF IInv, Copies, Faithful
  <1>7. \A j \in Ids : todos'[j] # None => Exists(j) /\ Aged(j)
    <2>1. CASE ~Exists(i)
      BY <2>1, <1>4, AgedRows
    <2>2. CASE Exists(i)
      <3>1. todos[i] \in Row /\ todos \in [Ids -> Row \cup {None}]
        BY <2>2, <1>1, RowFits DEF IInv, TypeOK
      <3>2. todos' = [todos EXCEPT ![i] = new]
        BY <1>4, <2>2, <3>1, <1>1
      <3> HIDE DEF day
      <3>3. /\ new.root = todos[i].root
            /\ p[1] = old.due => new.due = todos[i].due
            /\ p[1] # old.due => new.due = p[1]
            /\ day = old.day => new.day = todos[i].day
            /\ day # old.day => new.day = day
            /\ p[2] = old.frequency => new.frequency = todos[i].frequency
            /\ p[2] # old.frequency => new.frequency = p[2]
        BY <3>1 DEF Row
      <3> HIDE DEF new
      <3>4. todos'[i] = new /\ \A j \in Ids \ {i} : todos'[j] = todos[j]
        BY <3>1, <3>2, <1>1
      <3>5. todos[i].root \notin handled' => p[1] = old.due /\ p[2] = old.frequency
        BY <1>4, <1>6, <2>2
      <3>6. todos[i].root \notin overtaken' => todos[i].due = old.due /\ todos[i].day = old.day
        BY <1>4, <1>6, <2>2
      <3>7. /\ p[1] = old.due => day = old.day
            /\ p[1] # old.due => day = DayOf(p[1])
        BY DEF day
      <3>8. CASE p[1] = old.due
        <4>1. new.due = todos[i].due /\ new.day = todos[i].day
          BY <3>3, <3>7, <3>8
        <4>2. \/ new.frequency = todos[i].frequency \/ new.frequency # "monthly"
              \/ todos[i].root \in switched'
          BY <3>3, <3>8, <1>4, <1>6, <2>2
        <4>3. Aged(i)
          BY <4>1, <4>2, <3>3, <3>4, <3>5 DEF Aged
        <4> QED BY <4>3, <3>4, <2>2, AgedRows
      <3>9. CASE p[1] # old.due
        <4>1. todos[i].root \notin overtaken' => new.due = p[1] /\ new.day = DayOf(p[1])
          BY <3>3, <3>6, <3>7, <3>9
        <4>2. Aged(i)
          BY <4>1, <3>3, <3>4, <3>5, <3>9, <1>5 DEF Aged
        <4> QED BY <4>2, <3>4, <2>2, AgedRows
      <3> QED BY <3>8, <3>9
    <2> QED BY <2>1, <2>2
  <1>8. handled \subseteq handled' /\ switched \subseteq switched' /\ overtaken \subseteq overtaken'
    BY <1>4
  <1> QED BY <1>1, <1>3, <1>7, <1>8 DEF Steps

LEMMA EveryStep == IInv /\ [Next]_vars => Steps
  <1> SUFFICES ASSUME IInv, [Next]_vars PROVE Steps
    OBVIOUS
  <1>1. CASE UNCHANGED vars \/ Midnight
    <2>1. UNCHANGED <<todos, used, request, history>>
      BY <1>1 DEF vars, Midnight
    <2>2. \A r \in Requests : Carried(r)
      BY <2>1 DEF Carried
    <2> QED BY <2>1, <2>2, QuietSteps
  <1> QED BY <1>1, CreateSteps, RequestSteps, CompleteSteps, ReopenSteps, UpdateSteps,
             DeleteSteps DEF Next

-----------------------------------------------------------------------------
LEMMA DateOnItsDay ==
  ASSUME NEW t \in Within
  PROVE  t.d # 0 /\ t.d = Least(t.d, Length(t.m)) /\ t # None /\ DayOf(t) = t.d
  <1>1. t \in Date /\ t.d \in 1..2 /\ t.d =< Length(t.m) /\ Length(t.m) \in {1, 2}
    BY DateFacts, LengthFact DEF Within
  <1>2. t # None
    BY <1>1
  <1>3. t.d = Least(t.d, Length(t.m))
    BY <1>1 DEF Least
  <1> QED BY <1>1, <1>2, <1>3 DEF DayOf

LEMMA AnchoredStep == IInv /\ Dates /\ Steps => Anchored'
  <1> SUFFICES ASSUME IInv, Dates, Steps, NEW j \in Ids, Exists(j)',
                      todos'[j].due # None, todos'[j].root \notin overtaken'
               PROVE  /\ todos'[j].day # 0
                      /\ todos'[j].frequency = "monthly" /\ todos'[j].root \notin switched'
                           => todos'[j].due.d = Least(todos'[j].day, Length(todos'[j].due.m))
    BY DEF Anchored, OnItsDay
  <1>1. overtaken \subseteq overtaken' /\ switched \subseteq switched'
    BY DEF Steps
  <1>2. CASE todos'[j].due \in Within /\ todos'[j].day = DayOf(todos'[j].due)
    BY <1>2, DateOnItsDay
  <1>3. CASE ~(todos'[j].due \in Within /\ todos'[j].day = DayOf(todos'[j].due)) /\ Exists(j)
    <2>1. Aged(j)
      BY <1>3 DEF Steps
    <2>2. /\ todos'[j].due = todos[j].due /\ todos'[j].day = todos[j].day
          /\ todos'[j].root = todos[j].root
          /\ \/ todos'[j].frequency = todos[j].frequency
             \/ todos'[j].frequency # "monthly"
             \/ todos[j].root \in switched'
      BY <2>1, <1>3 DEF Aged
    <2>3. OnItsDay(todos[j])
      BY <1>3 DEF Dates, Anchored
    <2> QED BY <2>2, <2>3, <1>1 DEF OnItsDay
  <1>4. CASE ~(todos'[j].due \in Within /\ todos'[j].day = DayOf(todos'[j].due)) /\ ~Exists(j)
    <2>1. PICK r \in Requests : /\ request[r] # Idle /\ request[r].op = "complete"
                                /\ todos'[j] = request[r].row
      BY <1>4 DEF Steps, New
    <2>2. OnItsDay(request[r].row)
      BY <2>1 DEF Dates, Ahead, Comes
    <2> QED BY <2>1, <2>2, <1>1 DEF OnItsDay
  <1> QED BY <1>2, <1>3, <1>4

LEMMA FreshStep == IInv /\ IInv' /\ Dates /\ Steps => Fresh'
  <1> SUFFICES ASSUME IInv, IInv', Dates, Steps, NEW j \in Ids, Exists(j)'
               PROVE  todos'[j].root =< used'
    BY DEF Fresh
  <1>1. used =< used' /\ used \in Nat
    BY DEF Steps, IInv, TypeOK
  <1>2. CASE Exists(j)
    <2>1. todos'[j].root = todos[j].root /\ todos[j].root =< used
      BY <1>2 DEF Steps, Aged, Dates, Fresh
    <2>2. todos[j].root \in Nat
      BY <1>2, RowFits DEF IInv, Row, Ids
    <2>3. j \in Nat
      BY DEF Ids
    <2>4. used' \in Nat
      BY DEF IInv, TypeOK
    <2> QED BY <2>1, <2>2, <2>4, <1>1
  <1>3. CASE ~Exists(j)
    <2>1. j = used' /\ used' > used /\ New(j)
      BY <1>3 DEF Steps
    <2>2. CASE todos'[j].root = j
      BY <2>1, <2>2 DEF Ids
    <2>3. CASE todos'[j].root # j
      <3>1. PICK r \in Requests :
               /\ request[r] # Idle /\ request[r].op = "complete" /\ Exists(request[r].id)
               /\ todos'[j] = request[r].row
        BY <2>1, <2>3 DEF New
      <3>2. request[r].id \in Ids /\ request[r].row.root = todos[request[r].id].root
        BY <3>1, RequestFits DEF IInv, Copies, Faithful
      <3>3. todos'[j].root =< used /\ todos'[j].root \in Nat
        BY <3>1, <3>2, RowFits DEF IInv, Row, Ids, Dates, Fresh
      <3> QED BY <3>3, <2>1, <1>1 DEF Ids
    <2> QED BY <2>2, <2>3
  <1> QED BY <1>2, <1>3

(* The successor of a row, when a request loads it.                        *)
LEMMA LoadedComes ==
  ASSUME IInv, Dates, NEW i \in Ids, Exists(i),
         todos[i].due # None => todos[i].due \in Within
  PROVE  /\ OnItsDay(Successor(i))
         /\ Successor(i).root = todos[i].root
         /\ Repeats(Successor(i)) =>
              /\ todos[i].due \in Date /\ Successor(i).due \in Date
              /\ Later(Successor(i).due, todos[i].due)
  <1>1. todos[i] \in Row /\ todos[i].day \in 0..2 /\ today \in Within
    BY RowFits DEF IInv, TypeOK, Row
  <1>2. OnItsDay(todos[i])
    BY DEF Dates, Anchored
  <1>3. CASE Repeats(todos[i])
    <2> DEFINE n == NextDue(todos[i], today)
               row == Successor(i)
    <2>1. /\ n \in Date /\ Later(n, todos[i].due)
          /\ todos[i].frequency # "weekly" /\ todos[i].day # 0 =>
               n.d = Least(todos[i].day, Length(n.m))
      BY <1>1, <1>3, NextDueFacts DEF Repeats
    <2> HIDE DEF n
    <2>2. row = [todos[i] EXCEPT !.due = n, !.done = FALSE, !.previous = i]
      BY <1>3 DEF Successor, n
    <2> HIDE DEF row
    <2>3. /\ row.due = n /\ row.day = todos[i].day /\ row.root = todos[i].root
          /\ row.frequency = todos[i].frequency
      BY <2>2, <1>1 DEF Row
    <2>4. OnItsDay(row)
      BY <2>1, <2>3, <1>2, <1>3 DEF OnItsDay, Repeats
    <2>5. todos[i].due \in Date
      BY <1>3 DEF Repeats, Within
    <2> QED BY <2>1, <2>3, <2>4, <2>5 DEF row
  <1>4. CASE ~Repeats(todos[i])
    <2> DEFINE row == Successor(i)
    <2>1. row = [todos[i] EXCEPT !.due = todos[i].due, !.done = FALSE, !.previous = i]
      BY <1>4 DEF Successor
    <2> HIDE DEF row
    <2>2. /\ row.due = todos[i].due /\ row.day = todos[i].day /\ row.root = todos[i].root
          /\ row.frequency = todos[i].frequency
      BY <2>1, <1>1 DEF Row
    <2>3. OnItsDay(row)
      BY <2>2, <1>2 DEF OnItsDay
    <2>4. ~Repeats(row)
      BY <2>2, <1>4 DEF Repeats
    <2> QED BY <2>2, <2>3, <2>4 DEF row
  <1> QED BY <1>3, <1>4

LEMMA AheadStep == IInv /\ IInv' /\ Dates /\ Steps => Ahead'
  <1> SUFFICES ASSUME IInv, IInv', Dates, Steps, NEW r \in Requests, request'[r] # Idle,
                      request'[r].op = "complete"
               PROVE  Comes(request[r])'
    BY DEF Ahead, Comes
  <1>0. /\ overtaken \subseteq overtaken' /\ switched \subseteq switched'
        /\ handled \subseteq handled'
    BY DEF Steps
  <1>1. CASE /\ request[r] # Idle /\ request'[r].op = request[r].op
             /\ request'[r].id = request[r].id /\ request'[r].row = request[r].row
    <2>0. PICK i, row : i = request[r].id /\ row = request[r].row
      OBVIOUS
    <2>1. Comes(request[r]) /\ request[r].op = "complete" /\ i \in Ids /\ i =< used
      BY <2>0, <1>1, RequestFits DEF Dates, Ahead, IInv, TypeOK
    <2>2. OnItsDay(row)'
      <3>1. OnItsDay(row)
        BY <2>0, <2>1 DEF Comes
      <3> QED BY <3>1, <1>0 DEF OnItsDay
    <2>3. ASSUME todos'[i] # None, Repeats(row), row.root \notin handled'
          PROVE  /\ todos'[i].due \in Date /\ row.due \in Date
                 /\ Later(row.due, todos'[i].due)
      <3>1. Exists(i)
        BY <2>1, <2>3 DEF Steps, Ids, IInv, TypeOK
      <3>2. row.root = todos[i].root
        BY <3>1, <2>0, <2>1, <1>1 DEF IInv, Copies, Faithful
      <3>3. todos'[i].due = todos[i].due
        BY <3>1, <3>2, <2>1, <2>3 DEF Steps, Aged
      <3>4. /\ todos[i].due \in Date /\ row.due \in Date
            /\ Later(row.due, todos[i].due)
        BY <3>1, <2>0, <2>1, <2>3, <1>0 DEF Comes
      <3> QED BY <3>3, <3>4
    <2>4. request'[r].id = i /\ request'[r].row = row
      BY <1>1, <2>0
    <2> QED BY <2>2, <2>3, <2>4 DEF Comes, OnItsDay, Repeats
  <1>2. CASE /\ request'[r].id \in Ids /\ Exists(request'[r].id)
             /\ request'[r].row = Successor(request'[r].id)
             /\ todos[request'[r].id].due # None => todos[request'[r].id].due \in Within
    <2>0. PICK i \in Ids : i = request'[r].id
      BY <1>2
    <2> DEFINE row == Successor(i)
    <2>1. /\ OnItsDay(row) /\ row.root = todos[i].root /\ Exists(i)
          /\ Repeats(row) =>
               /\ todos[i].due \in Date /\ row.due \in Date
               /\ Later(row.due, todos[i].due)
      BY <2>0, <1>2, LoadedComes
    <2>2. PICK new : new = row
      OBVIOUS
    <2>3. OnItsDay(new)'
      BY <2>1, <2>2, <1>0 DEF OnItsDay
    <2>4. ASSUME todos'[i] # None, Repeats(new), new.root \notin handled'
          PROVE  /\ todos'[i].due \in Date /\ new.due \in Date
                 /\ Later(new.due, todos'[i].due)
      <3>1. todos'[i].due = todos[i].due
        BY <2>1, <2>2, <2>4 DEF Steps, Aged
      <3> QED BY <3>1, <2>1, <2>2, <2>4
    <2>5. request'[r].row = new /\ request'[r].id = i
      BY <1>2, <2>0, <2>2
    <2> QED BY <2>3, <2>4, <2>5 DEF Comes, OnItsDay, Repeats
  <1> QED BY <1>1, <1>2 DEF Steps, Carried

-----------------------------------------------------------------------------
(* A step that makes no row keeps the order, if a row that goes was the    *)
(* last one of its chain or leaves its chain known to be broken.           *)
LEMMA OrderShrinks ==
  ASSUME IInv, Ordered, handled \subseteq handled', cut \subseteq cut',
         \A j \in Ids : todos'[j] # None =>
            /\ Exists(j) /\ todos'[j].root = todos[j].root
            /\ todos[j].root \notin handled' \cup cut' => todos'[j].due = todos[j].due,
         \A i, k \in Ids :
            /\ todos'[i] # None /\ Exists(k) /\ todos[k].previous = i
            /\ todos[i].root \notin handled' \cup cut'
            => \/ todos'[k] # None /\ todos'[k].previous = i
               \/ todos'[k] = None /\ \A l \in Ids : Exists(l) => todos[l].previous # k
  PROVE  Ordered'
  <1> SUFFICES ASSUME NEW i \in Ids, NEW j \in Ids, todos'[i] # None, todos'[j] # None, i < j,
                      todos'[i].root = todos'[j].root,
                      todos'[i].root \notin handled' \cup cut'
               PROVE  /\ todos'[i].due \in Date /\ todos'[j].due \in Date
                      /\ Later(todos'[j].due, todos'[i].due)
                      /\ \E k \in Ids : k =< j /\ todos'[k] # None /\ todos'[k].previous = i
    BY DEF Ordered
  <1>1. /\ Exists(i) /\ Exists(j) /\ todos[i].root = todos[j].root
        /\ todos[i].root \notin handled' \cup cut'
        /\ todos[i].root \notin handled \cup cut
        /\ todos'[i].due = todos[i].due /\ todos'[j].due = todos[j].due
    OBVIOUS
  <1>2. /\ todos[i].due \in Date /\ todos[j].due \in Date
        /\ Later(todos[j].due, todos[i].due)
        /\ \E k \in Ids : k =< j /\ Exists(k) /\ todos[k].previous = i
    BY <1>1 DEF Ordered
  <1>3. PICK k \in Ids : k =< j /\ Exists(k) /\ todos[k].previous = i
    BY <1>2
  <1>4. ASSUME todos'[k] = None PROVE FALSE
    <2>1. \A l \in Ids : Exists(l) => todos[l].previous # k
      BY <1>1, <1>3, <1>4
    <2>2. k # j /\ k \in Nat /\ j \in Nat
      BY <1>4 DEF Ids
    <2>3. k < j
      BY <1>3, <2>2
    <2>4. i # None
      OBVIOUS
    <2>5. todos[k].root = todos[i].root
      BY <1>3, <2>4 DEF IInv, Links
    <2> QED BY <2>1, <2>3, <2>5, <1>1, <1>3 DEF Ordered
  <1>5. todos'[k] # None /\ todos'[k].previous = i
    BY <1>1, <1>3, <1>4
  <1> QED BY <1>1, <1>2, <1>3, <1>5

LEMMA OrderStays ==
  ASSUME Ordered, UNCHANGED <<todos, handled, cut>>
  PROVE  Ordered'
  BY DEF Ordered

LEMMA OrderAfterCreate ==
  ASSUME IInv, Dates, NEW p \in Payload, create_todo(p[1], p[2])
  PROVE  Ordered'
  <1> DEFINE n == used + 1
             row == [due |-> p[1], frequency |-> p[2], day |-> DayOf(p[1]),
                     done |-> FALSE, previous |-> None, root |-> n]
  <1>1. /\ used \in Nat /\ n \in Ids /\ ~Exists(n) /\ UNCHANGED <<handled, cut>>
        /\ todos' = [todos EXCEPT ![n] = row] /\ row.root = n
    BY DEF IInv, TypeOK, create_todo, Ids
  <1> HIDE DEF row
  <1>2. todos'[n].root = n /\ \A j \in Ids \ {n} : todos'[j] = todos[j]
    BY <1>1 DEF IInv, TypeOK
  <1>3. \A j \in Ids : Exists(j) => todos[j].root # n
    <2> SUFFICES ASSUME NEW j \in Ids, Exists(j) PROVE todos[j].root # n
      OBVIOUS
    <2>1. todos[j].root =< used
      BY DEF Dates, Fresh
    <2> QED BY <2>1, <1>1
  <1> HIDE DEF n
  <1> SUFFICES ASSUME NEW i \in Ids, NEW j \in Ids, todos'[i] # None, todos'[j] # None, i < j,
                      todos'[i].root = todos'[j].root,
                      todos'[i].root \notin handled \cup cut
               PROVE  /\ todos'[i].due \in Date /\ todos'[j].due \in Date
                      /\ Later(todos'[j].due, todos'[i].due)
                      /\ \E k \in Ids : k =< j /\ todos'[k] # None /\ todos'[k].previous = i
    BY <1>1 DEF Ordered
  <1>4. i # j
    BY DEF Ids
  <1>5. i # n /\ j # n
    BY <1>2, <1>3, <1>4
  <1>6. /\ todos[i].due \in Date /\ todos[j].due \in Date
        /\ Later(todos[j].due, todos[i].due)
        /\ \E k \in Ids : k =< j /\ Exists(k) /\ todos[k].previous = i
    BY <1>2, <1>5 DEF Dates, Ordered
  <1> QED BY <1>1, <1>2, <1>5, <1>6

(* The successor comes after the last row of its chain: that row alone is  *)
(* not followed yet.                                                       *)
LEMMA OrderAfterComplete ==
  ASSUME IInv, Dates, NEW r \in Requests, Complete(r)
  PROVE  Ordered'
  <1>1. PICK l \in Ids, n \in Nat, row \in {request[r].row} :
           l = request[r].id /\ n = used + 1 /\ row = request[r].row
    <2>1. request[r].id \in Ids /\ used + 1 \in Nat
      BY CompleteRows
    <2> QED BY <2>1
  <1>2. /\ request[r] # Idle /\ request[r].op = "complete" /\ Exists(l) /\ UNCHANGED history
        /\ \A j \in Ids : Exists(j) =>
              /\ todos'[j] # None /\ todos'[j].due = todos[j].due
              /\ todos'[j].root = todos[j].root /\ todos'[j].previous = todos[j].previous
    BY <1>1, CompleteRows
  <1>3. CASE \A j \in Ids : todos'[j] # None => Exists(j)
    BY <1>2, <1>3, OrderShrinks DEF Dates
  <1>4. CASE ~\A j \in Ids : todos'[j] # None => Exists(j)
    <2>1. /\ n \in Ids /\ ~Exists(n) /\ todos'[n] = row /\ Repeats(row)
          /\ row.previous = l /\ row.root = todos[l].root
          /\ \A j \in Ids : todos'[j] # None => Exists(j) \/ j = n
          /\ \A j \in Ids : Exists(j) => todos[j].previous # l
      BY <1>1, <1>4, CompleteRows
    <2>2. row # None
      <3>1. row \in Row
        BY <1>1, <1>2, RequestFits DEF IInv
      <3> QED BY <3>1
    <2>3. \A j \in Ids : Exists(j) => j < n /\ j \in Nat
      BY <1>1, RowFits DEF IInv
    <2>4. l \in Nat /\ l < n
      BY <2>3, <1>2
    <2> SUFFICES ASSUME NEW i \in Ids, NEW j \in Ids, todos'[i] # None, todos'[j] # None, i < j,
                        todos'[i].root = todos'[j].root,
                        todos'[i].root \notin handled \cup cut
                 PROVE  /\ todos'[i].due \in Date /\ todos'[j].due \in Date
                        /\ Later(todos'[j].due, todos'[i].due)
                        /\ \E k \in Ids : k =< j /\ todos'[k] # None /\ todos'[k].previous = i
      BY <1>2 DEF Ordered
    <2>5. Exists(i) /\ i # n
      <3>1. CASE i = n
        <4>1. j # n /\ Exists(j)
          BY <3>1, <2>1 DEF Ids
        <4> QED BY <4>1, <3>1, <2>3 DEF Ids
      <3> QED BY <3>1, <2>1
    <2>6. CASE j # n
      <3>1. Exists(j)
        BY <2>6, <2>1
      <3>2. /\ todos[i].due \in Date /\ todos[j].due \in Date
            /\ Later(todos[j].due, todos[i].due)
            /\ \E k \in Ids : k =< j /\ Exists(k) /\ todos[k].previous = i
        BY <3>1, <2>5, <1>2 DEF Dates, Ordered
      <3> QED BY <3>1, <3>2, <2>5, <1>2
    <2>7. CASE j = n
      <3>1. todos[i].root = todos[l].root /\ todos[i].root \notin handled \cup cut
        BY <2>7, <2>1, <2>5, <1>2
      <3>2. /\ todos[l].due \in Date /\ row.due \in Date
            /\ Later(row.due, todos[l].due)
        BY <3>1, <2>1, <1>1, <1>2 DEF Dates, Ahead, Comes
      <3>3. CASE i = l
        <4>1. todos'[n] # None /\ todos'[n].previous = l /\ n =< n
          BY <2>1, <2>2
        <4> QED BY <4>1, <3>2, <3>3, <2>1, <2>5, <2>7, <1>2
      <3>4. CASE i # l
        <4>1. i < l
          <5>1. ~(l < i)
            BY <3>1, <2>1, <2>5, <1>2 DEF Dates, Ordered
          <5> QED BY <5>1, <3>4, <2>4 DEF Ids
        <4>2. /\ todos[i].due \in Date /\ Later(todos[l].due, todos[i].due)
              /\ \E k \in Ids : k =< l /\ Exists(k) /\ todos[k].previous = i
          BY <4>1, <3>1, <2>5, <1>2 DEF Dates, Ordered
        <4>3. Later(row.due, todos[i].due)
          BY <4>2, <3>2, LaterIsTransitive
        <4>4. PICK k \in Ids : k =< l /\ Exists(k) /\ todos[k].previous = i
          BY <4>2
        <4>5. k =< n
          BY <4>4, <2>4 DEF Ids
        <4> QED BY <4>2, <4>3, <4>4, <4>5, <3>2, <2>1, <2>5, <2>7, <1>2
      <3> QED BY <3>3, <3>4
    <2> QED BY <2>6, <2>7
  <1> QED BY <1>3, <1>4

LEMMA OrderAfterReopen ==
  ASSUME IInv, Dates, NEW r \in Requests, Reopen(r)
  PROVE  Ordered'
  <1>1. PICK l, d : l = request[r].id /\ d = request[r].next.id
    OBVIOUS
  <1>2. /\ request[r] # Idle /\ request[r].stage = "looked"
        /\ l \in Ids /\ Exists(l) /\ handled' = handled
        /\ request[r].next # None => d \in Ids
    BY <1>1, RequestFits DEF Reopen, Looked, IInv, Locks, HasLock
  <1>3. /\ \A j \in Ids : todos'[j] # None <=> Exists(j) /\ ~(Doomed(r) /\ j = d)
        /\ \A j \in Ids : todos'[j] # None =>
             /\ todos'[j].due = todos[j].due /\ todos'[j].root = todos[j].root
             /\ \/ todos'[j].previous = todos[j].previous
                \/ Doomed(r) /\ todos[j].previous = d
    BY <1>1, ReopenRows
  <1>4. /\ cut \subseteq cut'
        /\ Doomed(r) /\ Next_occurrences(d) # {} => todos[l].root \in cut'
    BY <1>1 DEF Reopen, DeleteOpenNextOccurrence
  <1>5. Doomed(r) /\ Exists(d) => todos[d].previous = l
    BY <1>1, <1>2 DEF Doomed, IInv, Looks, Current
  <1>6. ASSUME NEW i \in Ids, NEW k \in Ids, todos'[i] # None, Exists(k),
               todos[k].previous = i, todos[i].root \notin handled' \cup cut'
        PROVE  \/ todos'[k] # None /\ todos'[k].previous = i
               \/ todos'[k] = None /\ \A j \in Ids : Exists(j) => todos[j].previous # k
    <2>1. CASE Doomed(r) /\ k = d
      <3>1. i = l /\ todos'[k] = None
        BY <2>1, <1>3, <1>5, <1>6
      <3>2. Next_occurrences(k) = {}
        BY <3>1, <2>1, <1>4, <1>6
      <3> QED BY <3>1, <3>2 DEF Next_occurrences
    <2>2. CASE ~(Doomed(r) /\ k = d)
      BY <2>2, <1>3, <1>6
    <2> QED BY <2>1, <2>2
  <1> QED BY <1>2, <1>3, <1>4, <1>6, OrderShrinks DEF Dates

LEMMA OrderAfterUpdate ==
  ASSUME IInv, Dates, NEW r \in Requests, NEW p \in Payload, update_todo(r, p[1], p[2])
  PROVE  Ordered'
  <1>1. Steps
    BY UpdateSteps
  <1>2. cut' = cut /\ handled \subseteq handled' /\ used' = used
    BY DEF update_todo
  <1>3. \A j \in Ids : (todos'[j] # None <=> Exists(j)) /\
           (Exists(j) => todos'[j].previous = todos[j].previous)
    <2> DEFINE i == request[r].id
               old == request[r].row
               day == IF p[1] = old.due THEN old.day ELSE DayOf(p[1])
               new == [todos[i] EXCEPT
                         !.due = IF p[1] # old.due THEN p[1] ELSE @,
                         !.day = IF day # old.day THEN day ELSE @,
                         !.frequency = IF p[2] # old.frequency THEN p[2] ELSE @]
    <2>1. i \in Ids
      BY RequestFits DEF update_todo, Loaded, IInv
    <2>2. CASE ~Exists(i)
      BY <2>2 DEF update_todo
    <2>3. CASE Exists(i)
      <3>1. todos[i] \in Row /\ todos \in [Ids -> Row \cup {None}]
        BY <2>1, <2>3, RowFits DEF IInv, TypeOK
      <3>2. todos' = [todos EXCEPT ![i] = new]
        BY <2>1, <2>3, <3>1 DEF update_todo
      <3> HIDE DEF day
      <3>3. p[1] \in Date \cup {None} /\ p[2] \in Frequencies
        BY DEF Payload, Within
      <3>4. old \in Row /\ day \in 0..2
        <4>1. old \in Row
          BY RequestFits DEF update_todo, Loaded, IInv
        <4> QED BY <3>3, <4>1 DEF day, DayOf, Row, Date
      <3>5. new \in Row /\ new.previous = todos[i].previous
        BY <3>1, <3>3, <3>4 DEF Row
      <3> HIDE DEF new
      <3> QED BY <3>1, <3>2, <3>5, <2>1, <2>3
    <2> QED BY <2>2, <2>3
  <1>4. \A j \in Ids : todos'[j] # None =>
           /\ Exists(j) /\ todos'[j].root = todos[j].root
           /\ todos[j].root \notin handled' => todos'[j].due = todos[j].due
    BY <1>1, <1>3 DEF Steps, Aged
  <1> QED BY <1>2, <1>3, <1>4, OrderShrinks DEF Dates

LEMMA OrderAfterDelete ==
  ASSUME IInv, Dates, NEW i \in Ids, delete_todo(i)
  PROVE  Ordered'
  <1>1. /\ Exists(i) /\ todos' = Without(todos, i) /\ todos \in [Ids -> Row \cup {None}]
        /\ handled' = handled \cup {todos[i].root} /\ cut' = cut
    BY DEF delete_todo, IInv, TypeOK
  <1>2. /\ \A j \in Ids : todos'[j] # None <=> Exists(j) /\ j # i
        /\ \A j \in Ids : todos'[j] # None =>
             /\ todos'[j].due = todos[j].due /\ todos'[j].root = todos[j].root
             /\ todos'[j].previous = IF todos[j].previous = i THEN None ELSE todos[j].previous
    BY <1>1, WithoutFacts
  <1>3. ASSUME NEW l \in Ids, NEW k \in Ids, todos'[l] # None, Exists(k),
               todos[k].previous = l, todos[l].root \notin handled' \cup cut'
        PROVE  todos'[k] # None /\ todos'[k].previous = l
    <2>1. todos[k].root = todos[l].root
      BY <1>3 DEF IInv, Links
    <2>2. k # i /\ l # i
      BY <2>1, <1>1, <1>2, <1>3
    <2> QED BY <2>2, <1>2, <1>3
  <1> QED BY <1>1, <1>2, <1>3, OrderShrinks DEF Dates

LEMMA OrderStep == IInv /\ Dates /\ [Next]_vars => Ordered'
  <1> SUFFICES ASSUME IInv, Dates, [Next]_vars PROVE Ordered'
    OBVIOUS
  <1>1. CASE UNCHANGED vars \/ Midnight
    BY <1>1, OrderStays DEF vars, Midnight, Dates
  <1>2. ASSUME NEW r \in Requests,
               \/ StartComplete(r) \/ \E i \in Ids : StartReopen(r, i)
               \/ Look(r) \/ Abort(r)
               \/ \E op \in {"complete", "update"}, i \in Ids : Load(r, op, i)
        PROVE  Ordered'
    BY <1>2, OrderStays DEF StartComplete, StartReopen, Look, Abort, Load, Dates
  <1> QED BY <1>1, <1>2, OrderAfterCreate, OrderAfterComplete, OrderAfterReopen,
             OrderAfterUpdate, OrderAfterDelete DEF Next

LEMMA InitDates == Init => Dates
  BY DEF Init, Dates, Fresh, Anchored, Ahead, Ordered

LEMMA NextDates == IInv /\ IInv' /\ Dates /\ [Next]_vars => Dates'
  BY EveryStep, FreshStep, AnchoredStep, AheadStep, OrderStep DEF Dates

(* Days, dates and successors keep in every reachable state what an edit   *)
(* loaded before another one, or an unlinked row, has not spoiled.         *)
THEOREM DatesInvariant == Spec => []Dates
  <1>1. Spec => []IInv
    BY InductiveInvariant
  <1> QED BY <1>1, InitDates, NextDates, PTL DEF Spec

(* A monthly todo that comes due on the 31st comes due on the last day of   *)
(* shorter months and on the 31st again after them, whatever requests       *)
(* complete, reopen and edit it at the same time.                          *)
THEOREM TheDayIsKept == Spec => []DayKept
  <1>1. Dates => DayKept
    BY DEF Dates, Anchored, OnItsDay, DayKept
  <1> QED BY <1>1, DatesInvariant, PTL

(* The loop that skips past occurrences, repeated from row to row, never   *)
(* gives a chain the same date twice.                                      *)
THEOREM DatesDoNotRepeat == Spec => []NoDateTwice
  <1>1. Dates => NoDateTwice
    <2> SUFFICES ASSUME Dates, NEW i \in Ids, NEW j \in Ids, Exists(i), Exists(j), i # j,
                        todos[i].root = todos[j].root,
                        todos[i].root \notin handled \cup cut
                 PROVE  todos[i].due # todos[j].due
      BY DEF NoDateTwice
    <2>1. i < j \/ j < i
      BY DEF Ids
    <2>2. CASE i < j
      BY <2>2, KeyFacts DEF Dates, Ordered
    <2>3. CASE j < i
      BY <2>3, KeyFacts DEF Dates, Ordered
    <2> QED BY <2>1, <2>2, <2>3
  <1> QED BY <1>1, DatesInvariant, PTL
=============================================================================
