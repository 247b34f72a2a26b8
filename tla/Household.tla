------------------------------ MODULE Household ------------------------------
(***************************************************************************)
(* Who belongs to the household: user_service.py, invite_service.py and    *)
(* get_current_user of app/dependencies.py.                                *)
(*                                                                         *)
(* Anyone who signs in with a Supabase account is mirrored into the users  *)
(* table until it holds two members.  A member invites somebody by email,  *)
(* or removes the other (removed_at, the row stays).  Every request reads, *)
(* decides and commits; nothing in the database enforces the limit.        *)
(***************************************************************************)
EXTENDS Naturals, FiniteSets

CONSTANTS
    People,         \* Supabase accounts, each with an email of its own
    Nobody,
    Invites,        \* bound: rows of the invites table ever inserted
    NoInvite,
    Requests,       \* requests being served at the same time
    MAX_HOUSEHOLD_USERS,
    MayOverlap      \* may requests of different people overlap?

ASSUME ConstantsAssumption ==
    /\ IsFiniteSet(People) /\ Nobody \notin People /\ NoInvite \notin Invites
    /\ MAX_HOUSEHOLD_USERS \in Nat \ {0} /\ MayOverlap \in BOOLEAN

VARIABLES
    user,           \* users: no row, a member, or removed_at is set
    invite,         \* invites: is the row there, and may it be accepted
    email,          \* .email of each invite
    request         \* the locals of each request

vars == <<user, invite, email, request>>

Members == {p \in People : user[p] = "member"}

HasCapacity == Cardinality(Members) < MAX_HOUSEHOLD_USERS

\* pc names the next thing the request does; who is the account of its JWT,
\* on whom or what it acts, was what it has read of its own account.
Request ==
    [ pc  : {"idle", "capacity", "insert", "accept", "remove", "invite",
             "cancel"},
      who : People \cup {Nobody},
      on  : People \cup {Nobody},
      inv : Invites \cup {NoInvite},
      was : {"absent", "member", "removed"} ]

Idle == [pc |-> "idle", who |-> Nobody, on |-> Nobody, inv |-> NoInvite,
         was |-> "absent"]

TypeOK ==
    /\ user \in [People -> {"absent", "member", "removed"}]
    /\ invite \in [Invites -> {"unused", "pending", "expired", "accepted",
                               "deleted"}]
    /\ email \in [Invites -> People \cup {Nobody}]
    /\ request \in [Requests -> Request]

Init ==
    /\ user = [p \in People |-> "absent"]
    /\ invite = [i \in Invites |-> "unused"]
    /\ email = [i \in Invites |-> Nobody]
    /\ request = [s \in Requests |-> Idle]
-----------------------------------------------------------------------------
\* A request of p starts with what its first queries have read.
Start(s, p, pc, on, inv) ==
    /\ request[s] = Idle
    /\ MayOverlap \/ \A o \in Requests : request[o].who \in {Nobody, p}
    /\ request' = [request EXCEPT ![s] =
          [pc |-> pc, who |-> p, on |-> on, inv |-> inv, was |-> user[p]]]
    /\ UNCHANGED <<user, invite, email>>

Finish(s) == request' = [request EXCEPT ![s] = Idle]

GoTo(s, pc) == request' = [request EXCEPT ![s].pc = pc]

\* get_current_user of an account without a row; a removed one is refused,
\* a member goes on to one of the requests below.
SignIn(s, p) == user[p] = "absent" /\ Start(s, p, "capacity", p, NoInvite)

\* A mutant: members may remove themselves.
MutRemoveSelf(s, p, q) ==
    /\ user[p] = "member" /\ user[q] = "member"
    /\ Start(s, p, "remove", q, NoInvite)

\* DELETE /users/q by a member, of an active member, not of oneself.
StartRemove(s, p, q) ==
    /\ user[p] = "member" /\ user[q] = "member" /\ p # q
    /\ Start(s, p, "remove", q, NoInvite)

\* POST /invites: a pending row for the address, expired or not, is reused.
StartInvite(s, p, q) ==
    LET open == {i \in Invites : /\ invite[i] \in {"pending", "expired"}
                                 /\ email[i] = q}
    IN
    /\ user[p] = "member" /\ HasCapacity
    /\ IF open = {} THEN Start(s, p, "invite", q, NoInvite)
       ELSE \E i \in open : Start(s, p, "invite", q, i)

\* DELETE /invites/i.
StartCancel(s, p, i) ==
    /\ user[p] = "member"
    /\ invite[i] \in {"pending", "expired"}
    /\ Start(s, p, "cancel", Nobody, i)

\* Mutants: a removed account is restored without looking for a place; the
\* invite is marked before the account has a row.
MutRestoreAlways(s, p, i) ==
    /\ invite[i] = "pending" /\ email[i] = p
    /\ Start(s, p, IF user[p] = "absent" THEN "capacity" ELSE "accept", p, i)

MutAcceptFirst(s, p, i) ==
    /\ invite[i] = "pending" /\ email[i] = p
    /\ Start(s, p, "accept", p, i)

\* POST /invites/token/.../accept with the JWT of the invited address: the
\* invite and the account's own row are read; only a member needs no place.
StartAccept(s, p, i) ==
    /\ invite[i] = "pending" /\ email[i] = p
    /\ Start(s, p, IF user[p] = "member" THEN "accept" ELSE "capacity", p, i)

\* household_has_capacity, or the request fails with 403 or 409.
CheckCapacity(s) ==
    LET r == request[s] IN
    /\ r.pc = "capacity"
    /\ IF ~HasCapacity THEN Finish(s)
       ELSE GoTo(s, IF r.was = "removed" THEN "accept" ELSE "insert")
    /\ UNCHANGED <<user, invite, email>>

\* mirror_supabase_user: the INSERT and its commit.  If a parallel request
\* of the same account was faster, its row is taken instead.
Mirror(s) ==
    LET r == request[s] IN
    /\ r.pc = "insert"
    /\ user' = IF user[r.who] = "absent"
               THEN [user EXCEPT ![r.who] = "member"] ELSE user
    /\ IF r.inv = NoInvite THEN Finish(s) ELSE GoTo(s, "accept")
    /\ UNCHANGED <<invite, email>>

\* The last commit of accept_invite: a row read as removed is restored.  If
\* the invite was cancelled meanwhile the commit fails; a row inserted by
\* the commit before stays.
Accept(s) ==
    LET r == request[s] IN
    /\ r.pc = "accept"
    /\ IF invite[r.inv] = "deleted" THEN UNCHANGED <<user, invite>>
       ELSE /\ invite' = [invite EXCEPT ![r.inv] = "accepted"]
            /\ user' = IF r.was = "removed"
                       THEN [user EXCEPT ![r.who] = "member"] ELSE user
    /\ Finish(s)
    /\ UNCHANGED <<email>>

\* remove_user: nothing is read again before the UPDATE.
Remove(s) ==
    LET r == request[s] IN
    /\ r.pc = "remove"
    /\ user' = [user EXCEPT ![r.on] = "removed"]
    /\ Finish(s)
    /\ UNCHANGED <<invite, email>>

\* create_invite: renews the row it found (its token and its seven days), or
\* inserts one.
SaveInvite(s) ==
    LET r == request[s] IN
    /\ r.pc = "invite"
    /\ \E i \in Invites :
          /\ IF r.inv = NoInvite THEN invite[i] = "unused" ELSE i = r.inv
          /\ invite' = IF invite[i] \in {"deleted", "accepted"} THEN invite
                       ELSE [invite EXCEPT ![i] = "pending"]
          /\ email' = [email EXCEPT ![i] = r.on]
    /\ Finish(s)
    /\ UNCHANGED user

CancelInvite(s) ==
    LET r == request[s] IN
    /\ r.pc = "cancel"
    /\ invite' = [invite EXCEPT ![r.inv] = "deleted"]
    /\ Finish(s)
    /\ UNCHANGED <<user, email>>

\* INVITE_EXPIRY_DAYS pass.
Expire(i) ==
    /\ invite[i] = "pending"
    /\ invite' = [invite EXCEPT ![i] = "expired"]
    /\ UNCHANGED <<user, email, request>>

\* The server dies under a request, or the client goes away.
Drop(s) ==
    /\ request[s] # Idle
    /\ Finish(s)
    /\ UNCHANGED <<user, invite, email>>

Next ==
    \/ \E s \in Requests :
        \/ \E p \in People :
            \/ SignIn(s, p)
            \/ \E q \in People : StartRemove(s, p, q) \/ StartInvite(s, p, q)
            \/ \E i \in Invites : StartCancel(s, p, i) \/ StartAccept(s, p, i)
        \/ CheckCapacity(s) \/ Mirror(s) \/ Accept(s) \/ Remove(s)
        \/ SaveInvite(s) \/ CancelInvite(s)
        \/ Drop(s)
    \/ \E i \in Invites : Expire(i)

Spec == Init /\ [][Next]_vars
-----------------------------------------------------------------------------
\* The household never has more than two members, though every request that
\* lets somebody in checks first and writes later ("로컬 users는 최대
\* 2명으로 제한된다").
CapacityHolds == Cardinality(Members) <= MAX_HOUSEHOLD_USERS

\* Somebody always stays who can let others in: from the first sign-in on,
\* the members cannot all be removed.
SomeoneStays ==
    (\E p \in People : user[p] # "absent") => Members # {}

\* An invite that was accepted belongs to somebody with a row, and stays.
AcceptedHasUser ==
    \A i \in Invites : invite[i] = "accepted" => user[email[i]] # "absent"
=============================================================================
