--------------------------- MODULE Household_proofs ---------------------------
(***************************************************************************)
(* What holds of the household however requests overlap, and what it takes *)
(* for the limit to hold and for somebody to stay.  Every step is the step *)
(* of one request, which changes its locals and at most one account; what  *)
(* the accounts and the requests say of each other follows from that.      *)
(***************************************************************************)
EXTENDS Household, FiniteSetTheorems, TLAPS

\* What is true of a request as long as it is open; users, invites and
\* emails are the tables.  The invite it has read is there or deleted, with
\* its address; an account that is to be let in has been seen without a row
\* or with a removed one; nobody removes himself.
Sound(r, users, invites, emails) ==
    /\ r.who = Nobody => r = Idle
    /\ r.pc = "insert" => r.was # "removed"
    /\ r.pc = "invite" => r.on \in People
    /\ r.pc = "remove" => r.on # r.who
    /\ r.inv # NoInvite =>
          /\ invites[r.inv] # "unused"
          /\ r.pc = "invite" => emails[r.inv] = r.on
          /\ r.pc \in {"capacity", "insert", "accept"} => emails[r.inv] = r.who
    /\ r.pc = "accept" \/ (r.pc = "capacity" /\ r.was # "absent") =>
          r.inv # NoInvite /\ users[r.who] # "absent"

AllSound == \A s \in Requests : Sound(request[s], user, invite, email)

\* An invite that is there or was there has an address.
Addressed == \A i \in Invites : invite[i] # "unused" => email[i] \in People

IInv == TypeOK /\ AllSound /\ Addressed /\ AcceptedHasUser

\* The write that lets somebody in.
LetsIn(r) == r.pc = "insert" \/ (r.pc = "accept" /\ r.was = "removed")

\* What a step does to the accounts while request s goes over to r: nothing
\* (only a request that has seen a place goes on to let somebody in), or it
\* lets the caller in, or it removes somebody.
Leaves(s, r) ==
    /\ UNCHANGED user
    /\ LetsIn(r) => HasCapacity
    /\ r.pc = "remove" => r.who \in Members

Enters(s, r) ==
    /\ LetsIn(request[s]) /\ ~LetsIn(r) /\ r.pc # "remove"
    /\ user' = [user EXCEPT ![request[s].who] = "member"]

Removes(s, r) ==
    /\ request[s].pc = "remove" /\ r = Idle
    /\ user' = [user EXCEPT ![request[s].on] = "removed"]

Effect ==
    \/ UNCHANGED <<user, request>>
    \/ \E s \in Requests, r \in Request :
          /\ request' = [request EXCEPT ![s] = r]
          /\ Leaves(s, r) \/ Enters(s, r) \/ Removes(s, r)
-----------------------------------------------------------------------------
\* Idle has the type of a request and breaks nothing.
LEMMA IdleFacts ==
    /\ Idle \in Request /\ ~LetsIn(Idle) /\ Idle.pc = "idle"
    /\ \A users, invites, emails : Sound(Idle, users, invites, emails)
BY DEF Idle, Request, LetsIn, Sound

\* A request that is not idle has somebody.
LEMMA SomebodyAsks ==
    ASSUME IInv, NEW s \in Requests
    PROVE  /\ request[s] \in Request
           /\ request[s].pc # "idle" => request[s].who \in People
<1>1. request[s] \in Request /\ (request[s].who = Nobody => request[s] = Idle)
    BY DEF IInv, TypeOK, AllSound, Sound
<1> QED BY <1>1 DEF Request, Idle

\* The initial state satisfies the invariant.
LEMMA InitIInv == Init => IInv
<1> SUFFICES ASSUME Init PROVE IInv
    OBVIOUS
<1>1. TypeOK
    BY IdleFacts DEF Init, TypeOK
<1>2. AllSound
    BY IdleFacts DEF Init, AllSound
<1>3. Addressed /\ AcceptedHasUser
    BY DEF Init, Addressed, AcceptedHasUser
<1> QED BY <1>1, <1>2, <1>3 DEF IInv

\* No row goes, no invite loses its address, and none is accepted for an
\* account without a row.
Grows ==
    /\ user' \in [People -> {"absent", "member", "removed"}]
    /\ invite' \in [Invites -> {"unused", "pending", "expired", "accepted",
                                "deleted"}]
    /\ email' \in [Invites -> People \cup {Nobody}]
    /\ \A p \in People : user[p] # "absent" => user'[p] # "absent"
    /\ \A i \in Invites :
          /\ invite[i] # "unused" => invite'[i] # "unused" /\ email'[i] = email[i]
          /\ invite'[i] # "unused" => email'[i] \in People
          /\ invite'[i] = "accepted" =>
                invite[i] = "accepted" \/ user'[email'[i]] # "absent"

\* What is true of the other requests stays true while the tables grow.
LEMMA OthersStaySound ==
    ASSUME IInv, Grows, NEW s \in Requests
    PROVE  Sound(request[s], user', invite', email')
<1>1. request[s] \in Request /\ Sound(request[s], user, invite, email)
    BY SomebodyAsks DEF IInv, AllSound
<1>2. CASE request[s].pc = "idle"
  <2>1. /\ request[s].inv # NoInvite => request[s].inv \in Invites
        /\ request[s].inv \in Invites /\ invite[request[s].inv] # "unused"
              => invite'[request[s].inv] # "unused"
      BY <1>1 DEF Grows, Request
  <2> QED BY <1>1, <1>2, <2>1 DEF Sound
<1>3. CASE request[s].pc # "idle"
  <2>1. request[s].who \in People
      BY <1>3, SomebodyAsks
  <2> QED BY <1>1, <2>1 DEF Sound, Grows, Request
<1> QED BY <1>2, <1>3

\* Whatever one request does to the tables, if it lets them grow.
LEMMA StepKeeps ==
    ASSUME IInv, NEW s \in Requests, NEW r \in Request,
           request' = [request EXCEPT ![s] = r],
           Sound(r, user', invite', email'), Grows
    PROVE  IInv'
<1>1. \A o \in Requests : request'[o] = IF o = s THEN r ELSE request[o]
    BY DEF IInv, TypeOK
<1>2. TypeOK'
    BY DEF IInv, TypeOK, Grows
<1>3. AllSound'
    BY <1>1, OthersStaySound DEF AllSound
<1>4. Addressed'
    BY DEF Grows, Addressed
<1>5. AcceptedHasUser'
  <2> SUFFICES ASSUME NEW i \in Invites, invite'[i] = "accepted",
                      invite[i] = "accepted"
               PROVE  user'[email'[i]] # "absent"
      BY DEF AcceptedHasUser, Grows
  <2>1. email'[i] = email[i] /\ email[i] \in People /\ user[email[i]] # "absent"
      BY DEF IInv, Addressed, AcceptedHasUser, Grows
  <2> QED BY <2>1 DEF Grows
<1> QED BY <1>2, <1>3, <1>4, <1>5 DEF IInv

\* A step that leaves the tables alone.
LEMMA TablesAlone ==
    ASSUME IInv, UNCHANGED <<user, invite, email>>
    PROVE  Grows
BY DEF IInv, TypeOK, Addressed, Grows
-----------------------------------------------------------------------------
\* Starting a request: what it has read is in the tables.
LEMMA StartDoes ==
    ASSUME IInv, NEW s \in Requests, NEW p \in People,
           NEW on \in People \cup {Nobody}, NEW inv \in Invites \cup {NoInvite},
           NEW pc \in {"capacity", "accept", "remove", "invite", "cancel"},
           Start(s, p, pc, on, inv),
           pc = "remove" => user[p] = "member" /\ on # p,
           pc = "invite" => on \in People,
           inv # NoInvite =>
              /\ invite[inv] # "unused"
              /\ pc = "invite" => email[inv] = on
              /\ pc \in {"capacity", "accept"} => email[inv] = p,
           pc = "accept" => user[p] = "member",
           pc = "accept" \/ (pc = "capacity" /\ user[p] # "absent") =>
              inv # NoInvite
    PROVE  IInv' /\ Effect
<1> DEFINE r == [pc |-> pc, who |-> p, on |-> on, inv |-> inv, was |-> user[p]]
<1>1. r \in Request
    BY DEF IInv, TypeOK, Request
<1>2. Sound(r, user, invite, email)
    BY ConstantsAssumption DEF Sound
<1>3. request' = [request EXCEPT ![s] = r] /\ UNCHANGED <<user, invite, email>>
    BY DEF Start
<1>4. Leaves(s, r)
    BY <1>3 DEF Leaves, LetsIn, Members
<1> HIDE DEF r
<1>5. IInv'
    BY <1>1, <1>2, <1>3, TablesAlone, StepKeeps
<1> QED BY <1>1, <1>3, <1>4, <1>5 DEF Effect

\* Every request a member or a stranger can send.
LEMMA StartsDo ==
    ASSUME IInv, NEW s \in Requests, NEW p \in People,
           \/ SignIn(s, p)
           \/ \E q \in People : StartRemove(s, p, q) \/ StartInvite(s, p, q)
           \/ \E i \in Invites : StartCancel(s, p, i) \/ StartAccept(s, p, i)
    PROVE  IInv' /\ Effect
<1>1. CASE SignIn(s, p)
    BY <1>1, StartDoes DEF SignIn
<1>2. ASSUME NEW q \in People, StartRemove(s, p, q) PROVE IInv' /\ Effect
    BY <1>2, StartDoes DEF StartRemove
<1>3. ASSUME NEW q \in People, StartInvite(s, p, q) PROVE IInv' /\ Effect
  <2>1. PICK i \in Invites \cup {NoInvite} :
          /\ Start(s, p, "invite", q, i)
          /\ i # NoInvite => invite[i] # "unused" /\ email[i] = q
      BY <1>3 DEF StartInvite
  <2> QED BY <2>1, StartDoes
<1>4. ASSUME NEW i \in Invites, StartCancel(s, p, i) PROVE IInv' /\ Effect
  <2>1. Start(s, p, "cancel", Nobody, i) /\ invite[i] # "unused"
      BY <1>4 DEF StartCancel
  <2> QED BY <2>1, StartDoes
<1>5. ASSUME NEW i \in Invites, StartAccept(s, p, i) PROVE IInv' /\ Effect
  <2>1. PICK pc \in {"capacity", "accept"} :
          Start(s, p, pc, p, i) /\ (pc = "accept" => user[p] = "member")
      BY <1>5 DEF StartAccept
  <2>2. invite[i] # "unused" /\ email[i] = p /\ i # NoInvite
      BY <1>5, ConstantsAssumption DEF StartAccept
  <2> QED BY <2>1, <2>2, StartDoes
<1> QED BY <1>1, <1>2, <1>3, <1>4, <1>5

\* A request that ends without touching the accounts.
LEMMA EndDoes ==
    ASSUME IInv, NEW s \in Requests, Finish(s), UNCHANGED user, Grows
    PROVE  IInv' /\ Effect
<1>1. request' = [request EXCEPT ![s] = Idle]
    BY DEF Finish
<1>2. Leaves(s, Idle)
    BY IdleFacts DEF Leaves
<1>3. IInv'
    BY <1>1, IdleFacts, StepKeeps
<1> QED BY <1>1, <1>2, <1>3, IdleFacts DEF Effect

\* The places are counted: only a request that saw one goes on to let
\* somebody in.
LEMMA CheckDoes ==
    ASSUME IInv, NEW s \in Requests, CheckCapacity(s)
    PROVE  IInv' /\ Effect
<1> DEFINE old == request[s]
           pc == IF old.was = "removed" THEN "accept" ELSE "insert"
           r == [old EXCEPT !.pc = pc]
<1>1. UNCHANGED <<user, invite, email>> /\ Grows
    BY TablesAlone DEF CheckCapacity
<1>2. /\ old \in Request /\ old.pc = "capacity" /\ old.who \in People
      /\ Sound(old, user, invite, email)
    BY SomebodyAsks DEF CheckCapacity, IInv, AllSound
<1>3. CASE ~HasCapacity
    BY <1>1, <1>3, EndDoes DEF CheckCapacity
<1>4. CASE HasCapacity
  <2>1. request' = [request EXCEPT ![s] = r]
      BY <1>4 DEF CheckCapacity, GoTo, IInv, TypeOK
  <2>2. /\ r \in Request /\ r.pc = pc /\ r.who = old.who /\ r.inv = old.inv
        /\ r.was = old.was
      BY <1>2 DEF Request
  <2> HIDE DEF r
  <2>3. Sound(r, user, invite, email) /\ r.pc # "remove"
      BY <1>2, <2>2, ConstantsAssumption DEF Sound
  <2>4. Leaves(s, r)
      BY <1>1, <1>4, <2>3 DEF Leaves
  <2>5. IInv'
      BY <1>1, <2>1, <2>2, <2>3, StepKeeps
  <2> QED BY <2>1, <2>2, <2>4, <2>5 DEF Effect
<1> QED BY <1>3, <1>4

\* Mirroring an account: a new member, or the row of a faster request.
LEMMA MirrorDoes ==
    ASSUME IInv, NEW s \in Requests, Mirror(s)
    PROVE  IInv' /\ Effect
<1> DEFINE old == request[s]
           on == [old EXCEPT !.pc = "accept"]
           r == IF old.inv = NoInvite THEN Idle ELSE on
<1>1. /\ old \in Request /\ old.pc = "insert" /\ old.who \in People
      /\ Sound(old, user, invite, email) /\ UNCHANGED <<invite, email>>
    BY SomebodyAsks DEF Mirror, IInv, AllSound
<1>2. request' = [request EXCEPT ![s] = r]
    BY DEF Mirror, Finish, GoTo, IInv, TypeOK
<1>3. /\ on \in Request /\ on.pc = "accept" /\ on.who = old.who
      /\ on.inv = old.inv /\ on.was = old.was
    BY <1>1 DEF Request
<1>4. /\ user' = user \/ user' = [user EXCEPT ![old.who] = "member"]
      /\ user'[old.who] # "absent"
    BY <1>1 DEF Mirror, IInv, TypeOK
<1>5. Grows
    BY <1>1, <1>4 DEF IInv, TypeOK, Addressed, Grows
<1> HIDE DEF on
<1>6. /\ r \in Request /\ Sound(r, user', invite', email')
      /\ ~LetsIn(r) /\ r.pc # "remove"
  <2>1. CASE old.inv = NoInvite
      BY <2>1, IdleFacts
  <2>2. CASE old.inv # NoInvite
    <3>1. r = on
        BY <2>2
    <3>2. Sound(on, user', invite', email')
        BY <1>1, <1>3, <1>4, <2>2, ConstantsAssumption DEF Sound
    <3>3. ~LetsIn(on)
        BY <1>1, <1>3 DEF Sound, LetsIn
    <3> QED BY <1>3, <3>1, <3>2, <3>3
  <2> QED BY <2>1, <2>2
<1> HIDE DEF r
<1>7. Leaves(s, r) \/ Enters(s, r)
    BY <1>1, <1>4, <1>6 DEF Leaves, Enters, LetsIn
<1>8. IInv'
    BY <1>2, <1>5, <1>6, StepKeeps
<1> QED BY <1>2, <1>6, <1>7, <1>8 DEF Effect

\* Accepting: a removed account is restored, any other has its row already.
LEMMA AcceptDoes ==
    ASSUME IInv, NEW s \in Requests, Accept(s)
    PROVE  IInv' /\ Effect
<1> DEFINE old == request[s]
<1>1. /\ old \in Request /\ old.pc = "accept" /\ old.who \in People
      /\ Sound(old, user, invite, email) /\ UNCHANGED email
      /\ request' = [request EXCEPT ![s] = Idle]
    BY SomebodyAsks DEF Accept, Finish, IInv, AllSound
<1>2. /\ old.inv \in Invites /\ invite[old.inv] # "unused"
      /\ email[old.inv] = old.who /\ user[old.who] # "absent"
    BY <1>1 DEF Sound, Request
<1>3. /\ \/ user' = user
         \/ old.was = "removed" /\ user' = [user EXCEPT ![old.who] = "member"]
      /\ invite' = invite \/ invite' = [invite EXCEPT ![old.inv] = "accepted"]
    BY DEF Accept
<1>4. Grows
    BY <1>1, <1>2, <1>3 DEF IInv, TypeOK, Addressed, Grows
<1>5. Leaves(s, Idle) \/ Enters(s, Idle)
    BY <1>1, <1>3, IdleFacts DEF Leaves, Enters, LetsIn
<1>6. IInv'
    BY <1>1, <1>4, IdleFacts, StepKeeps
<1> QED BY <1>1, <1>5, <1>6, IdleFacts DEF Effect

\* Removing somebody: the row stays.
LEMMA RemoveDoes ==
    ASSUME IInv, NEW s \in Requests, Remove(s)
    PROVE  IInv' /\ Effect
<1>1. /\ request[s].pc = "remove" /\ UNCHANGED <<invite, email>>
      /\ user' = [user EXCEPT ![request[s].on] = "removed"]
      /\ request' = [request EXCEPT ![s] = Idle]
    BY DEF Remove, Finish
<1>2. Grows
    BY <1>1 DEF IInv, TypeOK, Addressed, Grows
<1>3. Removes(s, Idle)
    BY <1>1 DEF Removes
<1>4. IInv'
    BY <1>1, <1>2, IdleFacts, StepKeeps
<1> QED BY <1>1, <1>3, <1>4, IdleFacts DEF Effect

\* Saving and cancelling an invite, and being dropped.
LEMMA InvitesDo ==
    ASSUME IInv, NEW s \in Requests, SaveInvite(s) \/ CancelInvite(s) \/ Drop(s)
    PROVE  IInv' /\ Effect
<1> DEFINE old == request[s]
<1>1. Finish(s) /\ UNCHANGED user
    BY DEF SaveInvite, CancelInvite, Drop
<1>2. old \in Request /\ Sound(old, user, invite, email)
    BY SomebodyAsks DEF IInv, AllSound
<1>3. CASE SaveInvite(s)
  <2>1. PICK i \in Invites :
          /\ IF old.inv = NoInvite THEN invite[i] = "unused" ELSE i = old.inv
          /\ invite' = IF invite[i] \in {"deleted", "accepted"} THEN invite
                       ELSE [invite EXCEPT ![i] = "pending"]
          /\ email' = [email EXCEPT ![i] = old.on]
      BY <1>3 DEF SaveInvite
  <2>2. old.on \in People /\ (old.inv # NoInvite => email[old.inv] = old.on)
      BY <1>2, <1>3 DEF SaveInvite, Sound
  <2>3. Grows
      BY <1>1, <2>1, <2>2 DEF IInv, TypeOK, Addressed, AcceptedHasUser, Grows
  <2> QED BY <1>1, <2>3, EndDoes
<1>4. CASE CancelInvite(s)
  <2>1. old.inv \in Invites => invite[old.inv] # "unused"
      BY <1>2, ConstantsAssumption DEF Sound
  <2>2. Grows
      BY <1>4, <2>1 DEF CancelInvite, IInv, TypeOK, Addressed, Grows
  <2> QED BY <1>1, <2>2, EndDoes
<1>5. CASE Drop(s)
    BY <1>1, <1>5, TablesAlone, EndDoes DEF Drop
<1> QED BY <1>3, <1>4, <1>5

\* The calendar and steps that change nothing.
LEMMA ExpireDoes ==
    ASSUME IInv, (\E i \in Invites : Expire(i)) \/ UNCHANGED vars
    PROVE  IInv' /\ Effect
<1>1. UNCHANGED <<user, email, request>>
    BY DEF Expire, vars
<1>2. Grows
    BY <1>1 DEF Expire, vars, IInv, TypeOK, Addressed, Grows
<1>3. TypeOK' /\ Addressed'
    BY <1>1, <1>2 DEF IInv, TypeOK, Addressed, Grows
<1>4. AllSound'
    BY <1>1, <1>2, OthersStaySound DEF AllSound
<1>5. AcceptedHasUser'
    BY <1>1 DEF Expire, vars, IInv, TypeOK, AcceptedHasUser
<1> QED BY <1>1, <1>3, <1>4, <1>5 DEF IInv, Effect

\* Every step keeps the invariant and has one of the effects.
LEMMA StepDoes ==
    ASSUME IInv, [Next]_vars
    PROVE  IInv' /\ Effect
<1>1. ASSUME NEW s \in Requests,
             \/ CheckCapacity(s) \/ Mirror(s) \/ Accept(s) \/ Remove(s)
             \/ SaveInvite(s) \/ CancelInvite(s) \/ Drop(s)
      PROVE  IInv' /\ Effect
    BY <1>1, CheckDoes, MirrorDoes, AcceptDoes, RemoveDoes, InvitesDo
<1> QED BY <1>1, StartsDo, ExpireDoes DEF Next
-----------------------------------------------------------------------------
\* The invariant on which the others are built.
THEOREM InductiveInvariant == Spec => []IInv
<1>1. Init => IInv
    BY InitIInv
<1>2. IInv /\ [Next]_vars => IInv'
    BY StepDoes
<1> QED BY <1>1, <1>2, PTL DEF Spec

\* Every variable keeps its type through sign-ins, invites and removals.
THEOREM TypeCorrect == Spec => []TypeOK
<1>1. IInv => TypeOK
    BY DEF IInv
<1> QED BY <1>1, InductiveInvariant, PTL

\* accept_invite marks an invite only after its account has a row, however
\* many requests there are and whatever they overlap with.
THEOREM AcceptedInviteHasUser == Spec => []AcceptedHasUser
<1>1. IInv => AcceptedHasUser
    BY DEF IInv
<1> QED BY <1>1, InductiveInvariant, PTL
-----------------------------------------------------------------------------
(***************************************************************************)
(* The limit.  household_has_capacity counts, and the write that lets      *)
(* somebody in comes later; what must not happen in between is that the    *)
(* same place is seen for somebody else.                                   *)
(***************************************************************************)

\* Those who have seen a place and are not in yet are one person.
OneEnters ==
    \A s, o \in Requests :
        (/\ LetsIn(request[s]) /\ request[s].who \notin Members
         /\ LetsIn(request[o]) /\ request[o].who \notin Members)
            => request[s].who = request[o].who

\* Whoever is about to be let in is in already, or there is a place.
PlaceIsFree ==
    \A s \in Requests :
        LetsIn(request[s]) => request[s].who \in Members \/ HasCapacity

Limit == PlaceIsFree /\ CapacityHolds

\* The members are finitely many.
LEMMA MembersFinite ==
    /\ IsFiniteSet(Members) /\ Cardinality(Members) \in Nat
BY FS_Subset, FS_CardinalityType, ConstantsAssumption DEF Members

LEMMA InitLimit == Init => Limit
<1> SUFFICES ASSUME Init PROVE Limit
    OBVIOUS
<1>1. PlaceIsFree
    BY IdleFacts DEF Init, PlaceIsFree
<1>2. Members = {}
    BY DEF Init, Members
<1>3. CapacityHolds
    BY <1>2, FS_EmptySet, ConstantsAssumption DEF CapacityHolds
<1> QED BY <1>1, <1>3 DEF Limit

\* Somebody for whom there is a place becomes a member; whoever else is
\* about to be let in is the same person, or in already.
LEMMA EnterLimit ==
    ASSUME IInv, Limit, OneEnters, NEW s \in Requests, NEW r \in Request,
           request' = [request EXCEPT ![s] = r], Enters(s, r)
    PROVE  Limit'
<1> DEFINE p == request[s].who
<1>1. /\ LetsIn(request[s]) /\ ~LetsIn(r)
      /\ \A o \in Requests : request'[o] = IF o = s THEN r ELSE request[o]
    BY DEF Enters, IInv, TypeOK
<1>2. p \in People
    BY <1>1, SomebodyAsks DEF LetsIn
<1>3. Members' = Members \cup {p}
    BY <1>2 DEF Enters, Members, IInv, TypeOK
<1>4. CapacityHolds'
  <2>1. Cardinality(Members') =
            IF p \in Members THEN Cardinality(Members)
            ELSE Cardinality(Members) + 1
      BY <1>3, MembersFinite, FS_AddElement
  <2>2. p \in Members \/ Cardinality(Members) < MAX_HOUSEHOLD_USERS
      BY <1>1 DEF Limit, PlaceIsFree, HasCapacity
  <2> QED BY <2>1, <2>2, MembersFinite, ConstantsAssumption DEF Limit, CapacityHolds
<1>5. PlaceIsFree'
  <2> SUFFICES ASSUME NEW o \in Requests, o # s, LetsIn(request[o])
               PROVE  request[o].who \in Members' \/ HasCapacity'
      BY <1>1 DEF PlaceIsFree
  <2>1. CASE p \in Members
    <3>1. Members' = Members
        BY <1>3, <2>1
    <3> QED BY <3>1 DEF Limit, PlaceIsFree, HasCapacity
  <2>2. CASE p \notin Members
      BY <1>1, <1>3, <2>2 DEF OneEnters
  <2> QED BY <2>1, <2>2
<1> QED BY <1>4, <1>5 DEF Limit

\* Removing somebody frees a place.
LEMMA RemoveLimit ==
    ASSUME IInv, Limit, NEW s \in Requests, NEW r \in Request,
           request' = [request EXCEPT ![s] = r], Removes(s, r)
    PROVE  Limit'
<1> DEFINE q == request[s].on
<1>1. /\ \A o \in Requests : request'[o] = IF o = s THEN Idle ELSE request[o]
      /\ Members' = Members \ {q}
    BY DEF Removes, Members, IInv, TypeOK
<1>2. Cardinality(Members') =
        IF q \in Members THEN Cardinality(Members) - 1 ELSE Cardinality(Members)
    BY <1>1, MembersFinite, FS_RemoveElement
<1>3. CapacityHolds'
    BY <1>2, MembersFinite, ConstantsAssumption DEF Limit, CapacityHolds
<1>4. PlaceIsFree'
  <2>1. CASE q \in Members
    <3>1. HasCapacity'
        BY <1>2, <2>1, MembersFinite, ConstantsAssumption
           DEF Limit, CapacityHolds, HasCapacity
    <3> QED BY <3>1 DEF PlaceIsFree
  <2>2. CASE q \notin Members
    <3>1. Members' = Members
        BY <1>1, <2>2
    <3> QED BY <1>1, <3>1, IdleFacts DEF Limit, PlaceIsFree, HasCapacity
  <2> QED BY <2>1, <2>2
<1> QED BY <1>3, <1>4 DEF Limit

\* Every step keeps the limit, if it starts with at most one who enters.
LEMMA StepLimit ==
    ASSUME IInv, Limit, OneEnters, [Next]_vars
    PROVE  Limit'
<1>1. CASE UNCHANGED <<user, request>>
    BY <1>1 DEF Limit, PlaceIsFree, CapacityHolds, HasCapacity, Members
<1>2. ASSUME NEW s \in Requests, NEW r \in Request,
             request' = [request EXCEPT ![s] = r], Leaves(s, r)
      PROVE  Limit'
  <2>1. /\ \A o \in Requests : request'[o] = IF o = s THEN r ELSE request[o]
        /\ Members' = Members /\ (LetsIn(r) => HasCapacity)
      BY <1>2 DEF Leaves, Members, IInv, TypeOK
  <2> QED BY <2>1 DEF Limit, PlaceIsFree, CapacityHolds, HasCapacity
<1> QED BY <1>1, <1>2, EnterLimit, RemoveLimit, StepDoes DEF Effect

\* The household never exceeds MAX_HOUSEHOLD_USERS, whatever that is, as long
\* as no two people have seen a place at the same time and both are not in
\* yet.
THEOREM HouseholdHoldsItsLimit == Spec /\ []OneEnters => []CapacityHolds
<1>1. IInv /\ Limit /\ OneEnters /\ [Next]_vars => Limit'
    BY StepLimit
<1>2. Limit => CapacityHolds
    BY DEF Limit
<1> QED BY <1>1, <1>2, InitLimit, InductiveInvariant, PTL DEF Spec
-----------------------------------------------------------------------------
(***************************************************************************)
(* Somebody stays.  remove_user checks that both are members, and writes   *)
(* later; what must not happen in between is that the one who removes is   *)
(* removed.                                                                *)
(***************************************************************************)

\* Nobody is removing one who is removing somebody.
NoCrossRemoval ==
    \A s, o \in Requests :
        request[s].pc = "remove" /\ request[o].pc = "remove"
           => request[s].who # request[o].on

\* Who removes somebody stays.
RemoverStays ==
    \A s \in Requests :
        request[s].pc = "remove" => request[s].who \in Members

Stay == RemoverStays /\ SomeoneStays

LEMMA InitStay == Init => Stay
BY DEF Init, Idle, Stay, RemoverStays, SomeoneStays

\* Every step keeps it, if it starts with no removal across another.
LEMMA StepStay ==
    ASSUME IInv, Stay, NoCrossRemoval, [Next]_vars
    PROVE  Stay'
<1>1. CASE UNCHANGED <<user, request>>
    BY <1>1 DEF Stay, RemoverStays, SomeoneStays, Members
<1>2. ASSUME NEW s \in Requests, NEW r \in Request,
             request' = [request EXCEPT ![s] = r],
             Leaves(s, r) \/ Enters(s, r) \/ Removes(s, r)
      PROVE  Stay'
  <2>1. \A o \in Requests : request'[o] = IF o = s THEN r ELSE request[o]
      BY <1>2 DEF IInv, TypeOK
  <2>2. CASE Leaves(s, r)
      BY <2>1, <2>2 DEF Leaves, Stay, RemoverStays, SomeoneStays, Members
  <2>3. CASE Enters(s, r)
    <3>1. request[s].who \in People
        BY <2>3, SomebodyAsks DEF Enters, LetsIn
    <3>2. Members' = Members \cup {request[s].who}
        BY <2>3, <3>1 DEF Enters, Members, IInv, TypeOK
    <3> QED BY <2>1, <2>3, <3>2 DEF Enters, Stay, RemoverStays, SomeoneStays
  <2>4. CASE Removes(s, r)
    <3>1. Members' = Members \ {request[s].on} /\ request[s].pc = "remove"
          /\ r.pc # "remove"
        BY <2>4, IdleFacts DEF Removes, Members, IInv, TypeOK
    <3>2. request[s].who \in Members'
        BY <3>1 DEF Stay, RemoverStays, IInv, AllSound, Sound
    <3>3. RemoverStays'
        BY <2>1, <3>1 DEF Stay, RemoverStays, NoCrossRemoval
    <3> QED BY <3>2, <3>3 DEF Stay, SomeoneStays
  <2> QED BY <1>2, <2>2, <2>3, <2>4
<1> QED BY <1>1, <1>2, StepDoes DEF Effect

\* From the first sign-in on the household has a member, as long as no
\* member removes another who is removing somebody: remove_user refuses
\* oneself, and who removes somebody is a member still.
THEOREM HouseholdIsNeverEmpty == Spec /\ []NoCrossRemoval => []SomeoneStays
<1>1. IInv /\ Stay /\ NoCrossRemoval /\ [Next]_vars => Stay'
    BY StepStay
<1>2. Stay => SomeoneStays
    BY DEF Stay
<1> QED BY <1>1, <1>2, InitStay, InductiveInvariant, PTL DEF Spec
-----------------------------------------------------------------------------
\* Two requests that are open have one person's token.
OnePerson ==
    \A s, o \in Requests :
        request[s].who # Nobody /\ request[o].who # Nobody
           => request[s].who = request[o].who

\* Both conditions hold when the requests of different people do not
\* overlap, however many requests one person has open, as in the instance
\* that the run "apart" checks.
THEOREM ApartIsInTurn ==
    ASSUME ~MayOverlap
    PROVE  Spec => [](OneEnters /\ NoCrossRemoval)
<1>1. Init => OnePerson
    BY DEF Init, OnePerson, Idle
<1>2. ASSUME IInv, OnePerson, [Next]_vars PROVE OnePerson'
  <2>1. ASSUME NEW s \in Requests, NEW p \in People, NEW pc, NEW on, NEW inv,
               Start(s, p, pc, on, inv)
        PROVE  OnePerson'
    <3>1. /\ \A o \in Requests : request[o].who \in {Nobody, p}
          /\ \A o \in Requests : o # s => request'[o] = request[o]
          /\ request'[s].who = p
        BY <1>2, <2>1 DEF Start, IInv, TypeOK
    <3> QED BY <3>1 DEF OnePerson
  <2>2. ASSUME NEW s \in Requests, NEW p \in People,
               \/ SignIn(s, p)
               \/ \E q \in People : StartRemove(s, p, q) \/ StartInvite(s, p, q)
               \/ \E i \in Invites : StartCancel(s, p, i) \/ StartAccept(s, p, i)
        PROVE  OnePerson'
    <3>1. \E pc, on, inv : Start(s, p, pc, on, inv)
        BY <2>2 DEF SignIn, StartRemove, StartInvite, StartCancel, StartAccept
    <3> QED BY <2>1, <3>1
  <2>3. ASSUME NEW s \in Requests, Finish(s) \/ \E pc : GoTo(s, pc)
        PROVE  OnePerson'
    <3>1. /\ \A o \in Requests : o # s => request'[o] = request[o]
          /\ request'[s].who \in {Nobody, request[s].who}
        BY <1>2, <2>3 DEF Finish, GoTo, Idle, IInv, TypeOK, Request
    <3> QED BY <1>2, <3>1 DEF OnePerson
  <2>4. CASE (\E i \in Invites : Expire(i)) \/ UNCHANGED vars
      BY <1>2, <2>4 DEF Expire, vars, OnePerson
  <2> QED BY <1>2, <2>2, <2>3, <2>4
          DEF Next, CheckCapacity, Mirror, Accept, Remove, SaveInvite,
              CancelInvite, Drop
<1>3. ASSUME IInv, OnePerson PROVE OneEnters /\ NoCrossRemoval
  <2>1. \A s \in Requests : request[s].pc # "idle" =>
            request[s].who # Nobody
      BY <1>3, SomebodyAsks, ConstantsAssumption
  <2>2. OneEnters
      BY <1>3, <2>1 DEF OneEnters, OnePerson, LetsIn
  <2>3. NoCrossRemoval
    <3> SUFFICES ASSUME NEW s \in Requests, NEW o \in Requests,
                        request[s].pc = "remove", request[o].pc = "remove"
                 PROVE  request[s].who # request[o].on
        BY DEF NoCrossRemoval
    <3>1. request[s].who = request[o].who
        BY <1>3, <2>1 DEF OnePerson
    <3>2. request[o].on # request[o].who
        BY <1>3 DEF IInv, AllSound, Sound
    <3> QED BY <3>1, <3>2
  <2> QED BY <2>2, <2>3
<1> QED BY <1>1, <1>2, <1>3, InductiveInvariant, PTL DEF Spec
=============================================================================
