------------------------ MODULE ClientSession_proofs ------------------------
(***************************************************************************)
(* Theorems of ClientSession and of ClientCache, the two halves of what    *)
(* the browser keeps. Of the session, for every number of accounts, calls, *)
(* retries and faults: nobody is left in the queue of a refresh, a write   *)
(* is carried out once, and a cache that was cleared stays empty. The      *)
(* invariant says of each call who waits for it, so that no closure        *)
(* overwrites a call that is queued, and of a cleared cache that nobody is *)
(* signed in meanwhile. Of the query cache, for every number of saves,     *)
(* lost answers and reloads: what it passes off as fresh has in it every   *)
(* save whose success was shown, whenever the lists of keys name the       *)
(* responses a save changes.                                               *)
(***************************************************************************)
EXTENDS ClientSession, ClientCache, TLAPS

-----------------------------------------------------------------------------
\* A token that is good is somebody's, and so is one that was served.
Named(t) == t.good => t.user # Nobody

TokensNamed ==
    /\ Named(session) /\ Named(cachedToken)
    /\ \A c \in Calls : Named(call[c].token)
    /\ \A c \in Calls : call[c].pc = "ok" => call[c].token.user # Nobody
    /\ \A i \in {"app", "page"} : check[i].pc = "me" => check[i].user # Nobody

\* The calls of checkAuth and of the pages are each made by one closure, and a
\* page has one closure at a time.
OneClosure ==
    /\ path = "app" => step = "idle"
    /\ call["appMe"].pc # "idle" => check["app"].pc = "me"
    /\ call["pageMe"].pc # "idle" => check["page"].pc = "me" \/ step = "me"
    /\ call["accept"].pc # "idle" => step = "accept"
    /\ check["page"].pc # "idle" => step = "check"

\* A call the server has not carried out yet, and how often it has carried one
\* out that changes something.
Unserved == {"idle", "sent", "unauthorized", "refreshing", "waiting"}

Counted ==
    \A c \in Writes \cup {"accept"} :
        /\ call[c].done <= 1
        /\ call[c].pc \in Unserved => call[c].done = 0
        /\ call[c].pc = "ok" => call[c].done = 1

\* After the end of a session: nobody is signed in, on no cached answer either,
\* and whatever is on its way has lost its query.
Quiet ==
    cleared => /\ data = Nobody /\ ~store.auth /\ authMe = Nobody
               /\ \A c \in Queries : call[c].pc = "idle" \/ call[c].dropped

IInv == TypeOK /\ TokensNamed /\ OneClosure /\ NobodyStranded /\ Counted /\ Quiet

USE SessionAssumption
USE DEF Calls, storeVars, pageVars, clientVars, otherVars

-----------------------------------------------------------------------------
LEMMA Tokens ==
  /\ NoToken \in Token /\ ~NoToken.good /\ NoToken.user = Nobody
  /\ \A u \in Users : Good(u) \in Token /\ Good(u).good /\ Good(u).user = u
  BY DEF NoToken, Good, Token

\* What a fresh call looks like, and one that has just been sent.
LEMMA FreshCall ==
  /\ NoCall \in Call
  /\ NoCall.pc = "idle" /\ NoCall.done = 0 /\ ~NoCall.token.good
  BY Tokens DEF NoCall, Call, CallStates

LEMMA SentCall ==
  ASSUME NEW t \in Token
  PROVE  LET k == [NoCall EXCEPT !.pc = "sent", !.token = t]
         IN  /\ k \in Call
             /\ k.pc = "sent" /\ k.done = 0 /\ k.token = t
  BY FreshCall DEF Call, CallStates

\* The header has a token of the session, or none.
LEMMA HeaderTokenFits ==
  ASSUME TypeOK, TokensNamed
  PROVE  HeaderToken \in Token /\ Named(HeaderToken)
  BY Tokens DEF TypeOK, TokensNamed, Named, HeaderToken, Token

\* One call is replaced.
LEMMA OneReplaced ==
  ASSUME TypeOK, NEW x \in Calls, NEW k \in Call, call' = [call EXCEPT ![x] = k]
  PROVE  /\ call' \in [Calls -> Call]
         /\ call'[x] = k
         /\ \A d \in Calls \ {x} : call'[d] = call[d]
  BY DEF TypeOK

\* Those who wait go on together with the call that refreshed.
LEMMA RequeuedCalls ==
  ASSUME TypeOK, NEW c \in Calls, NEW pc \in {"sent", "rejected"},
         pc = "sent" => session.user # Nobody
  PROVE  /\ Requeued(c, pc) \in [Calls -> Call]
         /\ \A d \in Calls :
              LET k == Requeued(c, pc)[d]
                  moved == d = c \/ d \in failedQueue
              IN  /\ k.pc = IF moved THEN pc ELSE call[d].pc
                  /\ k.token = IF moved /\ pc = "sent" THEN Good(session.user)
                               ELSE call[d].token
                  /\ k.done = call[d].done /\ k.dropped = call[d].dropped
  <1>1. ASSUME NEW d \in Calls
        PROVE  LET k == Requeued(c, pc)[d]
                   moved == d = c \/ d \in failedQueue
               IN  /\ k \in Call
                   /\ k.pc = IF moved THEN pc ELSE call[d].pc
                   /\ k.token = IF moved /\ pc = "sent" THEN Good(session.user)
                                ELSE call[d].token
                   /\ k.done = call[d].done /\ k.dropped = call[d].dropped
    <2>1. pc = "sent" => Good(session.user) \in Token
      BY Tokens DEF TypeOK, Token
    <2>2. call[d] \in Call
      BY DEF TypeOK
    <2>3. CASE d = c \/ d \in failedQueue
      <3>1. Requeued(c, pc)[d] =
              [call[d] EXCEPT !.pc = pc,
                              !.token = IF pc = "sent" THEN Good(session.user) ELSE @]
        BY <2>3 DEF Requeued
      <3> QED BY <3>1, <2>1, <2>2, <2>3 DEF Call, CallStates
    <2>4. CASE ~(d = c \/ d \in failedQueue)
      BY <2>2, <2>4 DEF Requeued
    <2> QED BY <2>3, <2>4
  <1>2. Requeued(c, pc) \in [Calls -> Call]
    BY <1>1 DEF Requeued
  <1> QED BY <1>1, <1>2

\* Clearing the caches stops no call.
LEMMA ClearedCalls ==
  ASSUME NEW calls \in [Calls -> Call], Clear(calls)
  PROVE  /\ call' \in [Calls -> Call]
         /\ \A d \in Calls :
              /\ call'[d].pc = calls[d].pc /\ call'[d].token = calls[d].token
              /\ call'[d].done = calls[d].done
              /\ d \in Queries => call'[d].dropped
         /\ data' = Nobody /\ cleared' = TRUE
  <1>1. ASSUME NEW d \in Calls
        PROVE  /\ call'[d] \in Call
               /\ call'[d].pc = calls[d].pc /\ call'[d].token = calls[d].token
               /\ call'[d].done = calls[d].done
               /\ d \in Queries => call'[d].dropped
    <2>1. call'[d] = [calls[d] EXCEPT !.dropped = @ \/ d \in Queries]
      BY DEF Clear
    <2>2. calls[d] \in Call
      OBVIOUS
    <2> QED BY <2>1, <2>2 DEF Call
  <1>2. call' \in [Calls -> Call]
    BY <1>1 DEF Clear
  <1> QED BY <1>1, <1>2 DEF Clear

\* Neither does the end of the session, on whatever page it is noticed.
LEMMA ExpiredCalls ==
  ASSUME TypeOK, NEW calls \in [Calls -> Call], Expired(calls)
  PROVE  /\ call' \in [Calls -> Call]
         /\ \A d \in Calls :
              /\ call'[d].pc = calls[d].pc /\ call'[d].token = calls[d].token
              /\ call'[d].done = calls[d].done
         /\ \/ /\ \A d \in Queries : call'[d].dropped
               /\ cleared' = TRUE /\ data' = Nobody /\ authMe' = Nobody
               /\ store' = LoggedOut /\ signingOut' = TRUE
            \/ call' = calls /\ UNCHANGED <<data, cleared, store, authMe, signingOut>>
  <1>1. CASE path # "login"
    BY <1>1, ClearedCalls DEF Expired, LeaveStore
  <1>2. CASE path = "login"
    BY <1>2 DEF Expired
  <1> QED BY <1>1, <1>2

\* One call is sent anew, or has been answered.
LEMMA OneSent ==
  ASSUME TypeOK, NEW x \in Calls, NEW t \in Token,
         call' = [call EXCEPT ![x] = [NoCall EXCEPT !.pc = "sent", !.token = t]]
  PROVE  /\ call' \in [Calls -> Call]
         /\ call'[x].pc = "sent" /\ call'[x].token = t /\ call'[x].done = 0
         /\ \A d \in Calls \ {x} : call'[d] = call[d]
  BY SentCall, OneReplaced

LEMMA OneOver ==
  ASSUME TypeOK, NEW x \in Calls, call' = [call EXCEPT ![x] = NoCall]
  PROVE  /\ call' \in [Calls -> Call]
         /\ call'[x].pc = "idle" /\ ~call'[x].token.good /\ call'[x].done = 0
         /\ \A d \in Calls \ {x} : call'[d] = call[d]
  BY FreshCall, OneReplaced

\* The values of the store.
Stores == [auth : BOOLEAN, checking : BOOLEAN, user : Users \cup {Nobody}]
Honest(s) == s \in Stores /\ s.auth = (s.user # Nobody)

LEMMA StoreValues ==
  /\ \A u \in Users : Honest(LoggedIn(u))
  /\ Honest(LoggedOut) /\ ~LoggedOut.auth
  BY DEF LoggedIn, LoggedOut, Honest, Stores

LEMMA StoreFits ==
  TypeOK => Honest(store)
  BY DEF TypeOK, Honest, Stores

-----------------------------------------------------------------------------
LEMMA InitIInv == Init => IInv
  <1> SUFFICES ASSUME Init PROVE IInv
    OBVIOUS
  <1>1. TypeOK
    <2>1. call \in [Calls -> Call]
      BY FreshCall DEF Init
    <2>2. store \in Stores /\ store.auth = (store.user # Nobody)
      BY DEF Init, Stores
    <2>3. step \in {"idle", "waiting"} /\ path \in {"login", "app", "callback", "invite"}
      BY DEF Init, FirstStep
    <2>4. check \in [{"app", "page"} ->
                       [pc : {"idle", "session", "me"}, user : Users \cup {Nobody}]]
      BY DEF Init
    <2>5. /\ session \in Token /\ cachedToken \in Token
          /\ isRefreshing \in BOOLEAN /\ failedQueue \subseteq Calls
      BY Tokens DEF Init
    <2>6. authMe \in Users \cup {Nobody} /\ data \in Users \cup {Nobody}
      BY DEF Init
    <2>7. signingOut \in BOOLEAN /\ cleared \in BOOLEAN
      BY DEF Init
    <2>8. removed \subseteq Users /\ faults \in 0..MaxFaults /\ expiries \in 0..MaxExpiries
      BY DEF Init
    <2> QED BY <2>1, <2>2, <2>3, <2>4, <2>5, <2>6, <2>7, <2>8 DEF TypeOK, Stores
  <1>2. TokensNamed
    BY Tokens, FreshCall DEF Init, TokensNamed, Named
  <1>3. OneClosure
    BY FreshCall DEF Init, OneClosure, FirstStep
  <1>4. NobodyStranded
    BY FreshCall DEF Init, NobodyStranded
  <1>5. Counted
    BY FreshCall DEF Init, Counted
  <1>6. Quiet
    BY DEF Init, Quiet
  <1> QED BY <1>1, <1>2, <1>3, <1>4, <1>5, <1>6 DEF IInv

\* client.ts.
LEMMA ServeKeeps ==
  ASSUME IInv, NEW c \in Calls, Serve(c)
  PROVE  IInv'
  <1>1. TypeOK'
    BY DEF IInv, TypeOK, Call, CallStates, Token, Serve, To, Fault
  <1>2. TokensNamed'
    BY DEF IInv, TypeOK, Call, TokensNamed, Named, Serve, To, Fault
  <1>3. OneClosure'
    BY DEF IInv, TypeOK, OneClosure, Serve, To, Fault
  <1>4. NobodyStranded'
    BY DEF IInv, TypeOK, Call, NobodyStranded, Serve, To, Fault
  <1>5. Counted'
    BY DEF IInv, TypeOK, Call, Counted, Unserved, Serve, To, Fault
  <1>6. Quiet'
    BY DEF IInv, TypeOK, Call, Quiet, Serve, To, Fault
  <1> QED BY <1>1, <1>2, <1>3, <1>4, <1>5, <1>6 DEF IInv

LEMMA LoseKeeps ==
  ASSUME IInv, NEW c \in Calls, Lose(c)
  PROVE  IInv'
  <1>1. TypeOK'
    BY DEF IInv, TypeOK, Call, CallStates, Token, Lose, To, Fault
  <1>2. TokensNamed'
    BY DEF IInv, TokensNamed, Named, Lose, To, Fault
  <1>3. OneClosure'
    BY DEF IInv, OneClosure, Lose, To, Fault
  <1>4. NobodyStranded'
    BY DEF IInv, NobodyStranded, Lose, To, Fault
  <1>5. Counted'
    BY DEF IInv, Counted, Unserved, Lose, To, Fault
  <1>6. Quiet'
    BY DEF IInv, Quiet, Lose, To, Fault
  <1> QED BY <1>1, <1>2, <1>3, <1>4, <1>5, <1>6 DEF IInv

LEMMA NoAnswerKeeps ==
  ASSUME IInv, NEW c \in Calls, NoAnswer(c)
  PROVE  IInv'
  <1>1. TypeOK'
    BY DEF IInv, TypeOK, Call, NoAnswer, To, HeaderToken, Good, NoToken,
       Gets
  <1>2. TokensNamed'
    <2>1. /\ \A d \in Calls \ {c} : call'[d] = call[d]
          /\ call'[c].pc # "ok" /\ call'[c].token \in {call[c].token, HeaderToken}
          /\ UNCHANGED <<session, cachedToken, check>>
      BY DEF IInv, TypeOK, Call, NoAnswer, To
    <2>2. Named(HeaderToken)
      BY HeaderTokenFits DEF IInv
    <2> QED BY <2>1, <2>2 DEF IInv, TokensNamed, Named
  <1>3. OneClosure'
    BY DEF IInv, TypeOK, OneClosure, NoAnswer, To, HeaderToken, Good,
       NoToken, Gets
  <1>4. NobodyStranded'
    BY DEF IInv, TypeOK, NobodyStranded, NoAnswer, To, HeaderToken, Good,
       NoToken, Gets
  <1>5. Counted'
    BY DEF IInv, TypeOK, Counted, Unserved, NoAnswer, To, HeaderToken,
       Good, NoToken, Gets
  <1>6. Quiet'
    BY DEF IInv, TypeOK, Quiet, NoAnswer, To, HeaderToken, Good, NoToken,
       Gets
  <1> QED BY <1>1, <1>2, <1>3, <1>4, <1>5, <1>6 DEF IInv

LEMMA UnauthorizedKeeps ==
  ASSUME IInv, NEW c \in Calls, Unauthorized(c)
  PROVE  IInv'
  <1>1. TypeOK'
    BY DEF IInv, TypeOK, Call, CallStates, Token, Unauthorized, To
  <1>2. TokensNamed'
    BY DEF IInv, TypeOK, Call, TokensNamed, Named, Unauthorized, To
  <1>3. OneClosure'
    BY DEF IInv, TypeOK, OneClosure, Unauthorized, To
  <1>4. NobodyStranded'
    BY DEF IInv, TypeOK, Call, NobodyStranded, Unauthorized, To
  <1>5. Counted'
    BY DEF IInv, TypeOK, Call, Counted, Unserved, Unauthorized, To
  <1>6. Quiet'
    BY DEF IInv, TypeOK, Call, Quiet, Unauthorized, To
  <1> QED BY <1>1, <1>2, <1>3, <1>4, <1>5, <1>6 DEF IInv

LEMMA RefreshOkKeeps ==
  ASSUME IInv, NEW c \in Calls, RefreshOk(c)
  PROVE  IInv'
  <1> DEFINE moved(d) == d = c \/ d \in failedQueue
  <1>a. /\ call' \in [Calls -> Call]
        /\ \A d \in Calls :
             /\ call'[d].pc = IF moved(d) THEN "sent" ELSE call[d].pc
             /\ call'[d].token = IF moved(d) THEN Good(session.user) ELSE call[d].token
             /\ call'[d].done = call[d].done /\ call'[d].dropped = call[d].dropped
    <2>1. call' = Requeued(c, "sent") /\ session.user # Nobody
      BY DEF RefreshOk
    <2>2. Requeued(c, "sent") \in [Calls -> Call]
      BY <2>1, RequeuedCalls DEF IInv
    <2>3. \A d \in Calls :
            LET k == Requeued(c, "sent")[d]
            IN  /\ k.pc = IF moved(d) THEN "sent" ELSE call[d].pc
                /\ k.token = IF moved(d) THEN Good(session.user) ELSE call[d].token
                /\ k.done = call[d].done /\ k.dropped = call[d].dropped
      BY <2>1, RequeuedCalls DEF IInv
    <2> QED BY <2>1, <2>2, <2>3
  <1>b. /\ session.user \in Users /\ session' = Good(session.user)
        /\ cachedToken' = Good(session.user)
        /\ isRefreshing' = FALSE /\ failedQueue' = {} /\ call[c].pc = "refreshing"
        /\ UNCHANGED <<storeVars, pageVars, otherVars>>
    BY DEF IInv, TypeOK, RefreshOk, Token
  <1>1. TypeOK'
    <2>1. call' \in [Calls -> Call]
      BY <1>a
    <2>2. session' \in Token /\ cachedToken' \in Token
      BY <1>b, Tokens
    <2>3. /\ isRefreshing' \in BOOLEAN /\ failedQueue' \subseteq Calls
          /\ UNCHANGED <<storeVars, pageVars, otherVars>>
      BY <1>b
    <2> QED BY <2>1, <2>2, <2>3 DEF IInv, TypeOK
  <1>2. TokensNamed'
    BY <1>a, <1>b, Tokens DEF IInv, TokensNamed, Named
  <1>3. OneClosure'
    BY <1>a, <1>b DEF IInv, OneClosure, NobodyStranded
  <1>4. NobodyStranded'
    BY <1>a, <1>b DEF IInv, NobodyStranded
  <1>5. Counted'
    BY <1>a, <1>b DEF IInv, Counted, Unserved, NobodyStranded
  <1>6. Quiet'
    BY <1>a, <1>b DEF IInv, Quiet, NobodyStranded
  <1> QED BY <1>1, <1>2, <1>3, <1>4, <1>5, <1>6 DEF IInv

LEMMA RefreshFailsKeeps ==
  ASSUME IInv, NEW c \in Calls, RefreshFails(c)
  PROVE  IInv'
  <1> DEFINE moved(d) == d = c \/ d \in failedQueue
  <1>a. /\ call' \in [Calls -> Call]
        /\ \A d \in Calls :
             /\ call'[d].pc = IF moved(d) THEN "rejected" ELSE call[d].pc
             /\ call'[d].token = call[d].token /\ call'[d].done = call[d].done
        /\ \/ /\ \A d \in Queries : call'[d].dropped
              /\ cleared' = TRUE /\ data' = Nobody /\ authMe' = Nobody
              /\ store' = LoggedOut /\ signingOut' = TRUE
           \/ /\ \A d \in Calls : call'[d].dropped = call[d].dropped
              /\ UNCHANGED <<data, cleared, store, authMe, signingOut>>
    <2>1. Expired(Requeued(c, "rejected"))
      BY DEF RefreshFails
    <2>2. Requeued(c, "rejected") \in [Calls -> Call]
      BY RequeuedCalls DEF IInv
    <2>3. \A d \in Calls :
            LET k == Requeued(c, "rejected")[d]
            IN  /\ k.pc = IF moved(d) THEN "rejected" ELSE call[d].pc
                /\ k.token = call[d].token
                /\ k.done = call[d].done /\ k.dropped = call[d].dropped
      BY RequeuedCalls DEF IInv
    <2>4. PICK n : n = Requeued(c, "rejected")
      OBVIOUS
    <2>5. /\ call' \in [Calls -> Call]
          /\ \A d \in Calls : /\ call'[d].pc = n[d].pc /\ call'[d].token = n[d].token
                              /\ call'[d].done = n[d].done
          /\ \/ /\ \A d \in Queries : call'[d].dropped
                /\ cleared' = TRUE /\ data' = Nobody /\ authMe' = Nobody
                /\ store' = LoggedOut /\ signingOut' = TRUE
             \/ call' = n /\ UNCHANGED <<data, cleared, store, authMe, signingOut>>
      BY <2>1, <2>2, <2>4, ExpiredCalls DEF IInv
    <2>6. \A d \in Calls :
            /\ n[d].pc = IF moved(d) THEN "rejected" ELSE call[d].pc
            /\ n[d].token = call[d].token
            /\ n[d].done = call[d].done /\ n[d].dropped = call[d].dropped
      BY <2>3, <2>4
    <2> QED BY <2>5, <2>6
  <1>b. /\ isRefreshing' = FALSE /\ failedQueue' = {} /\ call[c].pc = "refreshing"
        /\ session' \in {session, NoToken} /\ cachedToken' \in {cachedToken, NoToken}
        /\ faults' \in 0..MaxFaults
        /\ UNCHANGED <<check, pageVars, removed, expiries>>
    BY DEF IInv, TypeOK, RefreshFails, Fault
  <1>1. TypeOK'
    <2>1. /\ Honest(store') /\ data' \in Users \cup {Nobody} /\ cleared' \in BOOLEAN
          /\ authMe' \in Users \cup {Nobody} /\ signingOut' \in BOOLEAN
      BY <1>a, StoreValues, StoreFits DEF IInv, TypeOK
    <2>2. session' \in Token /\ cachedToken' \in Token
      BY <1>b, Tokens DEF IInv, TypeOK
    <2> QED BY <1>a, <1>b, <2>1, <2>2 DEF IInv, TypeOK, Honest, Stores
  <1>2. TokensNamed'
    BY <1>a, <1>b, Tokens DEF IInv, TokensNamed, Named
  <1>3. OneClosure'
    BY <1>a, <1>b DEF IInv, OneClosure, NobodyStranded
  <1>4. NobodyStranded'
    BY <1>a, <1>b DEF IInv, NobodyStranded
  <1>5. Counted'
    BY <1>a, <1>b DEF IInv, Counted, Unserved, NobodyStranded
  <1>6. Quiet'
    BY <1>a, <1>b, StoreValues DEF IInv, Quiet, NobodyStranded
  <1> QED BY <1>1, <1>2, <1>3, <1>4, <1>5, <1>6 DEF IInv

LEMMA RemovedAnswerKeeps ==
  ASSUME IInv, NEW c \in Calls, RemovedAnswer(c)
  PROVE  IInv'
  <1>c. /\ To(c, "rejected") \in [Calls -> Call]
        /\ \A d \in Calls :
             /\ To(c, "rejected")[d].pc = IF d = c THEN "rejected" ELSE call[d].pc
             /\ To(c, "rejected")[d].token = call[d].token
             /\ To(c, "rejected")[d].done = call[d].done
             /\ To(c, "rejected")[d].dropped = call[d].dropped
    BY DEF IInv, TypeOK, To, Call, CallStates
  <1>a. /\ call' \in [Calls -> Call]
        /\ \A d \in Calls :
             /\ call'[d].pc = IF d = c THEN "rejected" ELSE call[d].pc
             /\ call'[d].token = call[d].token /\ call'[d].done = call[d].done
        /\ \/ /\ \A d \in Queries : call'[d].dropped
              /\ cleared' = TRUE /\ data' = Nobody /\ authMe' = Nobody
              /\ store' = LoggedOut /\ signingOut' = TRUE
           \/ /\ \A d \in Calls : call'[d].dropped = call[d].dropped
              /\ UNCHANGED <<data, cleared, store, authMe, signingOut>>
    <2>1. PICK n : n = To(c, "rejected")
      OBVIOUS
    <2>2. Expired(n) /\ n \in [Calls -> Call]
      BY <1>c, <2>1 DEF RemovedAnswer
    <2>3. /\ call' \in [Calls -> Call]
          /\ \A d \in Calls : /\ call'[d].pc = n[d].pc /\ call'[d].token = n[d].token
                              /\ call'[d].done = n[d].done
          /\ \/ /\ \A d \in Queries : call'[d].dropped
                /\ cleared' = TRUE /\ data' = Nobody /\ authMe' = Nobody
                /\ store' = LoggedOut /\ signingOut' = TRUE
             \/ call' = n /\ UNCHANGED <<data, cleared, store, authMe, signingOut>>
      BY <2>2, ExpiredCalls DEF IInv
    <2>4. \A d \in Calls :
            /\ n[d].pc = IF d = c THEN "rejected" ELSE call[d].pc
            /\ n[d].token = call[d].token
            /\ n[d].done = call[d].done /\ n[d].dropped = call[d].dropped
      BY <1>c, <2>1
    <2> QED BY <2>3, <2>4
  <1>b. /\ call[c].pc = "removed"
        /\ UNCHANGED <<session, cachedToken, isRefreshing, failedQueue, check,
                       pageVars, otherVars>>
    BY DEF RemovedAnswer
  <1>1. TypeOK'
    <2>1. call' \in [Calls -> Call]
      BY <1>a
    <2>2. /\ store' \in Stores /\ store'.auth = (store'.user # Nobody)
          /\ authMe' \in Users \cup {Nobody} /\ data' \in Users \cup {Nobody}
          /\ cleared' \in BOOLEAN /\ signingOut' \in BOOLEAN
      <3>1. CASE store' = LoggedOut
        BY <1>a, <3>1, StoreValues DEF IInv, TypeOK, Honest
      <3>2. CASE store' = store
        BY <1>a, <3>2, StoreFits DEF IInv, TypeOK, Honest
      <3> QED BY <1>a, <3>1, <3>2
    <2> QED BY <1>b, <2>1, <2>2 DEF IInv, TypeOK, Stores
  <1>2. TokensNamed'
    BY <1>a, <1>b DEF IInv, TokensNamed, Named
  <1>3. OneClosure'
    BY <1>a, <1>b DEF IInv, OneClosure
  <1>4. NobodyStranded'
    BY <1>a, <1>b DEF IInv, NobodyStranded
  <1>5. Counted'
    BY <1>a, <1>b DEF IInv, Counted, Unserved
  <1>6. Quiet'
    BY <1>a, <1>b, StoreValues DEF IInv, Quiet
  <1> QED BY <1>1, <1>2, <1>3, <1>4, <1>5, <1>6 DEF IInv

LEMMA SettleKeeps ==
  ASSUME IInv, NEW c \in Calls, Settle(c)
  PROVE  IInv'
  <1>1. TypeOK'
    BY DEF IInv, TypeOK, Call, CallStates, Token, Settle, NoCall, NoToken
  <1>2. TokensNamed'
    BY DEF IInv, TokensNamed, Named, Settle, NoCall, NoToken
  <1>3. OneClosure'
    BY DEF IInv, OneClosure, Settle, NoCall, NoToken
  <1>4. NobodyStranded'
    BY DEF IInv, NobodyStranded, Settle, NoCall, NoToken
  <1>5. Counted'
    BY DEF IInv, Counted, Unserved, Settle, NoCall, NoToken
  <1>6. Quiet'
    BY DEF IInv, Quiet, Settle, NoCall, NoToken
  <1> QED BY <1>1, <1>2, <1>3, <1>4, <1>5, <1>6 DEF IInv

LEMMA IssueKeeps ==
  ASSUME IInv, NEW c \in Calls, Issue(c)
  PROVE  IInv'
  <1>a. /\ call' \in [Calls -> Call]
        /\ call'[c].pc = "sent" /\ call'[c].token = HeaderToken /\ call'[c].done = 0
        /\ \A d \in Calls \ {c} : call'[d] = call[d]
    BY HeaderTokenFits, OneSent DEF IInv, Issue, Send
  <1>b. /\ call[c].pc = "idle" /\ c \in Queries \cup Writes /\ store.auth
        /\ UNCHANGED <<session, cachedToken, isRefreshing, failedQueue, storeVars,
                       pageVars, otherVars>>
    BY DEF Issue
  <1>1. TypeOK'
    BY <1>a, <1>b DEF IInv, TypeOK
  <1>2. TokensNamed'
    BY <1>a, <1>b, HeaderTokenFits DEF IInv, TokensNamed, Named
  <1>3. OneClosure'
    BY <1>a, <1>b DEF IInv, OneClosure
  <1>4. NobodyStranded'
    BY <1>a, <1>b DEF IInv, NobodyStranded
  <1>5. Counted'
    BY <1>a, <1>b DEF IInv, Counted
  <1>6. Quiet'
    BY <1>a, <1>b DEF IInv, Quiet
  <1> QED BY <1>1, <1>2, <1>3, <1>4, <1>5, <1>6 DEF IInv

\* The store.
LEMMA CheckSessionKeeps ==
  ASSUME IInv, NEW i \in {"app", "page"}, CheckSession(i)
  PROVE  IInv'
  <1>a. /\ check[i].pc = "session" /\ MeCall(i) \in Calls /\ MeCall(i) \notin Queries
        /\ call[MeCall(i)].pc = "idle"
        /\ UNCHANGED <<isRefreshing, failedQueue, authMe, signingOut, data, pageVars,
                       removed, expiries>>
    BY DEF IInv, OneClosure, CheckSession, MeCall
  <1>b. \/ /\ store' = LoggedOut /\ UNCHANGED <<cleared, call>>
           /\ check' = [check EXCEPT ![i].pc = "idle"]
        \/ /\ store' = LoggedIn(session.user) /\ session.user \in Users
           /\ cleared' = FALSE /\ UNCHANGED call
           /\ check' = [check EXCEPT ![i].pc = "idle"]
        \/ /\ UNCHANGED <<store, cleared>> /\ session.user \in Users
           /\ check' = [check EXCEPT ![i] = [pc |-> "me", user |-> session.user]]
           /\ call' = [call EXCEPT ![MeCall(i)] =
                [NoCall EXCEPT !.pc = "sent", !.token = Good(session.user)]]
    BY DEF IInv, TypeOK, Token, CheckSession, Leave, Enter
  <1>c. /\ session' \in Token /\ cachedToken' \in Token
        /\ Named(session') /\ Named(cachedToken') /\ faults' \in 0..MaxFaults
    BY Tokens DEF IInv, TypeOK, Token, TokensNamed, Named, CheckSession, Fault
  <1>d. /\ call' \in [Calls -> Call]
        /\ \A d \in Calls \ {MeCall(i)} : call'[d] = call[d]
        /\ \/ UNCHANGED call
           \/ /\ call'[MeCall(i)].pc = "sent" /\ call'[MeCall(i)].token = Good(session.user)
              /\ session.user \in Users
              /\ check'[i].pc = "me"
    <2>1. CASE UNCHANGED call
      BY <2>1 DEF IInv, TypeOK
    <2>2. CASE /\ session.user \in Users
               /\ check' = [check EXCEPT ![i] = [pc |-> "me", user |-> session.user]]
               /\ call' = [call EXCEPT ![MeCall(i)] =
                    [NoCall EXCEPT !.pc = "sent", !.token = Good(session.user)]]
      <3>1. check'[i].pc = "me"
        BY <2>2 DEF IInv, TypeOK
      <3>2. Good(session.user) \in Token
        BY <2>2, Tokens
      <3> QED BY <1>a, <2>2, <3>1, <3>2, OneSent DEF IInv
    <2> QED BY <1>b, <2>1, <2>2
  <1>e. /\ check' \in [{"app", "page"} ->
                    [pc : {"idle", "session", "me"}, user : Users \cup {Nobody}]]
        /\ check'[i].pc \in {"idle", "me"}
        /\ check'[i].pc = "me" => check'[i].user # Nobody
        /\ \A j \in {"app", "page"} \ {i} : check'[j] = check[j]
    BY <1>b DEF IInv, TypeOK
  <1>1. TypeOK'
    <2>1. Honest(store')
      BY <1>b, StoreValues, StoreFits DEF IInv
    <2>2. cleared' \in BOOLEAN
      BY <1>b DEF IInv, TypeOK
    <2> QED BY <1>a, <1>c, <1>d, <1>e, <2>1, <2>2 DEF IInv, TypeOK, Honest, Stores
  <1>2. TokensNamed'
    BY <1>a, <1>c, <1>d, <1>e, Tokens DEF IInv, TokensNamed, Named
  <1>3. OneClosure'
    BY <1>a, <1>d, <1>e DEF IInv, OneClosure, MeCall
  <1>4. NobodyStranded'
    BY <1>a, <1>d DEF IInv, NobodyStranded
  <1>5. Counted'
    BY <1>a, <1>d DEF IInv, Counted, MeCall
  <1>6. Quiet'
    BY <1>a, <1>b, <1>d, StoreValues DEF IInv, Quiet
  <1> QED BY <1>1, <1>2, <1>3, <1>4, <1>5, <1>6 DEF IInv

LEMMA CheckAnswerKeeps ==
  ASSUME IInv, NEW i \in {"app", "page"}, CheckAnswer(i)
  PROVE  IInv'
  <1>a. /\ check[i].pc = "me" /\ MeCall(i) \in Calls /\ MeCall(i) \notin Queries
        /\ call[MeCall(i)].pc \in {"ok", "rejected"} /\ check[i].user \in Users
        /\ check' = [check EXCEPT ![i] = [pc |-> "idle", user |-> Nobody]]
        /\ UNCHANGED <<session, cachedToken, isRefreshing, failedQueue, signingOut,
                       data, pageVars, otherVars>>
    BY DEF IInv, TypeOK, TokensNamed, CheckAnswer, MeCall
  <1>b. \/ store' = LoggedIn(check[i].user) /\ cleared' = FALSE /\ authMe' = check[i].user
        \/ store' = LoggedOut /\ UNCHANGED <<cleared, authMe>>
    BY DEF CheckAnswer, Enter, Leave
  <1>c. /\ call' \in [Calls -> Call]
        /\ call'[MeCall(i)].pc = "idle" /\ ~call'[MeCall(i)].token.good
        /\ \A d \in Calls \ {MeCall(i)} : call'[d] = call[d]
    BY <1>a, OneOver DEF IInv, CheckAnswer
  <1>1. TypeOK'
    <2>1. Honest(store')
      BY <1>a, <1>b, StoreValues
    <2>2. cleared' \in BOOLEAN
      BY <1>b DEF IInv, TypeOK
    <2>3. authMe' \in Users \cup {Nobody}
      BY <1>a, <1>b DEF IInv, TypeOK
    <2> QED BY <1>a, <1>c, <2>1, <2>2, <2>3 DEF IInv, TypeOK, Honest, Stores
  <1>2. TokensNamed'
    BY <1>a, <1>c DEF IInv, TypeOK, TokensNamed, Named
  <1>3. OneClosure'
    BY <1>a, <1>c DEF IInv, TypeOK, OneClosure, MeCall
  <1>4. NobodyStranded'
    BY <1>a, <1>c DEF IInv, NobodyStranded
  <1>5. Counted'
    BY <1>a, <1>c DEF IInv, Counted, MeCall
  <1>6. Quiet'
    BY <1>a, <1>b, <1>c, StoreValues DEF IInv, Quiet
  <1> QED BY <1>1, <1>2, <1>3, <1>4, <1>5, <1>6 DEF IInv

LEMMA LogoutKeeps ==
  ASSUME IInv, Logout
  PROVE  IInv'
  <1>a. /\ call' \in [Calls -> Call]
        /\ \A d \in Calls :
             /\ call'[d].pc = call[d].pc /\ call'[d].token = call[d].token
             /\ call'[d].done = call[d].done
             /\ d \in Queries => call'[d].dropped
        /\ cleared' = TRUE /\ data' = Nobody
    BY ClearedCalls DEF IInv, TypeOK, Logout
  <1>b. /\ authMe' = Nobody /\ store' = LoggedOut /\ signingOut' = TRUE /\ cleared' = TRUE
        /\ UNCHANGED <<session, cachedToken, isRefreshing, failedQueue, check,
                       pageVars, otherVars>>
    BY DEF Logout, LeaveStore, Clear
  <1>1. TypeOK'
    BY <1>a, <1>b, StoreValues DEF IInv, TypeOK, Honest, Stores
  <1>2. TokensNamed'
    BY <1>a, <1>b DEF IInv, TokensNamed, Named
  <1>3. OneClosure'
    BY <1>a, <1>b DEF IInv, OneClosure
  <1>4. NobodyStranded'
    BY <1>a, <1>b DEF IInv, NobodyStranded
  <1>5. Counted'
    BY <1>a, <1>b DEF IInv, Counted, Unserved
  <1>6. Quiet'
    BY <1>a, <1>b, StoreValues DEF IInv, Quiet
  <1> QED BY <1>1, <1>2, <1>3, <1>4, <1>5, <1>6 DEF IInv

LEMMA SignedOutKeeps ==
  ASSUME IInv, SignedOut
  PROVE  IInv'
  <1>a. /\ session' \in {session, NoToken} /\ cachedToken' \in {cachedToken, NoToken}
        /\ faults' \in 0..MaxFaults /\ signingOut' = FALSE
        /\ UNCHANGED <<isRefreshing, failedQueue, call, store, authMe, check, data,
                       cleared, pageVars, removed, expiries>>
    BY DEF IInv, TypeOK, SignedOut, Fault
  <1>1. TypeOK'
    <2>1. session' \in Token /\ cachedToken' \in Token
      BY <1>a, Tokens DEF IInv, TypeOK
    <2>2. faults' \in 0..MaxFaults /\ signingOut' \in BOOLEAN
      BY <1>a
    <2>3. UNCHANGED <<isRefreshing, failedQueue, call, store, authMe, check, data,
                      cleared, pageVars, removed, expiries>>
      BY <1>a
    <2> QED BY <2>1, <2>2, <2>3 DEF IInv, TypeOK
  <1>2. TokensNamed'
    BY <1>a, Tokens DEF IInv, TokensNamed, Named
  <1>3. OneClosure'
    BY <1>a DEF IInv, OneClosure
  <1>4. NobodyStranded'
    BY <1>a DEF IInv, NobodyStranded
  <1>5. Counted'
    BY <1>a DEF IInv, Counted
  <1>6. Quiet'
    BY <1>a DEF IInv, Quiet
  <1> QED BY <1>1, <1>2, <1>3, <1>4, <1>5, <1>6 DEF IInv

LEMMA PrivateRouteKeeps ==
  ASSUME IInv, PrivateRoute
  PROVE  IInv'
  <1>1. TypeOK'
    BY DEF IInv, TypeOK, PrivateRoute
  <1>2. TokensNamed'
    BY DEF IInv, TokensNamed, Named, PrivateRoute
  <1>3. OneClosure'
    BY DEF IInv, OneClosure, PrivateRoute
  <1>4. NobodyStranded'
    BY DEF IInv, NobodyStranded, PrivateRoute
  <1>5. Counted'
    BY DEF IInv, Counted, Unserved, PrivateRoute
  <1>6. Quiet'
    BY DEF IInv, Quiet, PrivateRoute
  <1> QED BY <1>1, <1>2, <1>3, <1>4, <1>5, <1>6 DEF IInv

\* The pages in front of the routes.
LEMMA SignInKeeps ==
  ASSUME IInv, NEW u \in Users, SignIn(u)
  PROVE  IInv'
  <1> DEFINE c == IF path = "login" THEN "pageMe" ELSE "accept"
  <1>a. /\ step = "idle" /\ call[c].pc = "idle" /\ c \in Calls /\ c \notin Queries
        /\ session' = Good(u) /\ cachedToken' = Good(u)
        /\ step' = IF path = "login" THEN "me" ELSE "accept"
        /\ path \in {"login", "invite"}
        /\ UNCHANGED <<isRefreshing, failedQueue, storeVars, path, otherVars>>
    BY DEF IInv, OneClosure, SignIn
  <1>b. /\ call' \in [Calls -> Call]
        /\ call'[c].pc = "sent" /\ call'[c].token = Good(u) /\ call'[c].done = 0
        /\ \A d \in Calls \ {c} : call'[d] = call[d]
    <2>1. call' = [call EXCEPT ![c] = [NoCall EXCEPT !.pc = "sent", !.token = Good(u)]]
      BY DEF SignIn
    <2>2. Good(u) \in Token
      BY Tokens
    <2> HIDE DEF c
    <2> QED BY <1>a, <2>1, <2>2, OneSent DEF IInv
  <1>1. TypeOK'
    BY <1>a, <1>b, Tokens DEF IInv, TypeOK
  <1>2. TokensNamed'
    BY <1>a, <1>b, Tokens DEF IInv, TokensNamed, Named
  <1>3. OneClosure'
    BY <1>a, <1>b DEF IInv, OneClosure
  <1>4. NobodyStranded'
    BY <1>a, <1>b DEF IInv, NobodyStranded
  <1>5. Counted'
    BY <1>a, <1>b DEF IInv, Counted
  <1>6. Quiet'
    BY <1>a, <1>b DEF IInv, Quiet
  <1> QED BY <1>1, <1>2, <1>3, <1>4, <1>5, <1>6 DEF IInv

LEMMA AwaitConfirmationKeeps ==
  ASSUME IInv, AwaitConfirmation
  PROVE  IInv'
  <1>1. TypeOK'
    BY DEF IInv, TypeOK, AwaitConfirmation
  <1>2. TokensNamed'
    BY DEF IInv, TokensNamed, Named, AwaitConfirmation
  <1>3. OneClosure'
    BY DEF IInv, OneClosure, AwaitConfirmation
  <1>4. NobodyStranded'
    BY DEF IInv, NobodyStranded, AwaitConfirmation
  <1>5. Counted'
    BY DEF IInv, Counted, Unserved, AwaitConfirmation
  <1>6. Quiet'
    BY DEF IInv, Quiet, AwaitConfirmation
  <1> QED BY <1>1, <1>2, <1>3, <1>4, <1>5, <1>6 DEF IInv

LEMMA LoginAnswerKeeps ==
  ASSUME IInv, LoginAnswer
  PROVE  IInv'
  <1>a. /\ call["pageMe"].pc \in {"ok", "rejected"} /\ step = "me" /\ step' = "idle"
        /\ UNCHANGED <<session, cachedToken, isRefreshing, failedQueue, check,
                       signingOut, data, otherVars>>
    BY DEF LoginAnswer
  <1>b. \/ \E u \in Users : /\ store' = LoggedIn(u) /\ cleared' = FALSE
                             /\ authMe' = u /\ path' = "app"
        \/ UNCHANGED <<store, cleared, authMe, path>>
    <2>1. CASE call["pageMe"].pc = "ok"
      <3>1. call["pageMe"].token.user \in Users
        BY <2>1 DEF IInv, TypeOK, TokensNamed, Call, Token
      <3> QED BY <2>1, <3>1 DEF LoginAnswer, Enter
    <2>2. CASE call["pageMe"].pc # "ok"
      BY <2>2 DEF LoginAnswer
    <2> QED BY <2>1, <2>2
  <1>c. /\ call' \in [Calls -> Call]
        /\ call'["pageMe"].pc = "idle" /\ ~call'["pageMe"].token.good
        /\ \A d \in Calls \ {"pageMe"} : call'[d] = call[d]
    BY OneOver DEF IInv, LoginAnswer
  <1>1. TypeOK'
    <2>1. Honest(store')
      BY <1>b, StoreValues, StoreFits DEF IInv
    <2>2. cleared' \in BOOLEAN
      BY <1>b DEF IInv, TypeOK
    <2>3. /\ authMe' \in Users \cup {Nobody}
          /\ path' \in {"login", "app", "callback", "invite"}
      BY <1>b DEF IInv, TypeOK
    <2> QED BY <1>a, <1>c, <2>1, <2>2, <2>3 DEF IInv, TypeOK, Honest, Stores
  <1>2. TokensNamed'
    BY <1>a, <1>c DEF IInv, TokensNamed, Named
  <1>3. OneClosure'
    BY <1>a, <1>c DEF IInv, OneClosure
  <1>4. NobodyStranded'
    BY <1>a, <1>c DEF IInv, NobodyStranded
  <1>5. Counted'
    BY <1>a, <1>c DEF IInv, Counted
  <1>6. Quiet'
    BY <1>a, <1>b, <1>c DEF IInv, Quiet
  <1> QED BY <1>1, <1>2, <1>3, <1>4, <1>5, <1>6 DEF IInv

LEMMA LinkOpenedKeeps ==
  ASSUME IInv, NEW u \in Users, LinkOpened(u)
  PROVE  IInv'
  <1>1. TypeOK'
    BY DEF IInv, TypeOK, Token, LinkOpened, Good
  <1>2. TokensNamed'
    BY DEF IInv, TokensNamed, Named, LinkOpened, Good
  <1>3. OneClosure'
    BY DEF IInv, OneClosure, LinkOpened, Good
  <1>4. NobodyStranded'
    BY DEF IInv, NobodyStranded, LinkOpened, Good
  <1>5. Counted'
    BY DEF IInv, Counted, Unserved, LinkOpened, Good
  <1>6. Quiet'
    BY DEF IInv, Quiet, LinkOpened, Good
  <1> QED BY <1>1, <1>2, <1>3, <1>4, <1>5, <1>6 DEF IInv

LEMMA SettleSuccessKeeps ==
  ASSUME IInv, SettleSuccess
  PROVE  IInv'
  <1>1. TypeOK'
    BY DEF IInv, TypeOK, SettleSuccess
  <1>2. TokensNamed'
    BY DEF IInv, TokensNamed, Named, SettleSuccess
  <1>3. OneClosure'
    BY DEF IInv, OneClosure, SettleSuccess
  <1>4. NobodyStranded'
    BY DEF IInv, NobodyStranded, SettleSuccess
  <1>5. Counted'
    BY DEF IInv, Counted, Unserved, SettleSuccess
  <1>6. Quiet'
    BY DEF IInv, Quiet, SettleSuccess
  <1> QED BY <1>1, <1>2, <1>3, <1>4, <1>5, <1>6 DEF IInv

LEMMA CallbackTimesOutKeeps ==
  ASSUME IInv, CallbackTimesOut
  PROVE  IInv'
  <1>1. TypeOK'
    BY DEF IInv, TypeOK, CallbackTimesOut
  <1>2. TokensNamed'
    BY DEF IInv, TokensNamed, Named, CallbackTimesOut
  <1>3. OneClosure'
    BY DEF IInv, OneClosure, CallbackTimesOut
  <1>4. NobodyStranded'
    BY DEF IInv, NobodyStranded, CallbackTimesOut
  <1>5. Counted'
    BY DEF IInv, Counted, Unserved, CallbackTimesOut
  <1>6. Quiet'
    BY DEF IInv, Quiet, CallbackTimesOut
  <1> QED BY <1>1, <1>2, <1>3, <1>4, <1>5, <1>6 DEF IInv

LEMMA CheckedKeeps ==
  ASSUME IInv, Checked
  PROVE  IInv'
  <1>a. /\ step = "check" /\ check["page"].pc = "idle"
        /\ call["accept"].pc = "idle" /\ call["pageMe"].pc = "idle"
        /\ UNCHANGED <<session, cachedToken, isRefreshing, failedQueue, storeVars,
                       otherVars>>
    BY DEF IInv, OneClosure, Checked
  <1>b. \/ /\ step' = "accept" /\ path = "callback" /\ path' = path
           /\ call' = [call EXCEPT !["accept"] =
                         [NoCall EXCEPT !.pc = "sent", !.token = HeaderToken]]
        \/ /\ step' = "success" /\ path = "callback" /\ path' = path /\ UNCHANGED call
        \/ /\ step' = "idle" /\ path' = "app" /\ UNCHANGED call
    BY DEF Checked
  <1>c. /\ call' \in [Calls -> Call]
        /\ \A d \in Calls \ {"accept"} : call'[d] = call[d]
        /\ \/ UNCHANGED call
           \/ /\ call'["accept"].pc = "sent" /\ call'["accept"].token = HeaderToken
              /\ call'["accept"].done = 0 /\ step' = "accept"
    <2>1. HeaderToken \in Token /\ "accept" \in Calls
      BY HeaderTokenFits DEF IInv
    <2>2. CASE call' = [call EXCEPT !["accept"] =
                          [NoCall EXCEPT !.pc = "sent", !.token = HeaderToken]]
      BY <1>b, <2>1, <2>2, OneSent DEF IInv
    <2>3. CASE UNCHANGED call
      BY <2>3 DEF IInv, TypeOK
    <2> QED BY <1>b, <2>2, <2>3
  <1>1. TypeOK'
    BY <1>a, <1>b, <1>c DEF IInv, TypeOK
  <1>2. TokensNamed'
    BY <1>a, <1>c, HeaderTokenFits DEF IInv, TokensNamed, Named
  <1>3. OneClosure'
    BY <1>a, <1>b, <1>c DEF IInv, OneClosure
  <1>4. NobodyStranded'
    BY <1>a, <1>c DEF IInv, NobodyStranded
  <1>5. Counted'
    BY <1>a, <1>c DEF IInv, Counted
  <1>6. Quiet'
    BY <1>a, <1>c DEF IInv, Quiet
  <1> QED BY <1>1, <1>2, <1>3, <1>4, <1>5, <1>6 DEF IInv

LEMMA AcceptAnswerKeeps ==
  ASSUME IInv, AcceptAnswer
  PROVE  IInv'
  <1>1. TypeOK'
    BY DEF IInv, TypeOK, Call, CallStates, Token, AcceptAnswer, NoCall,
       NoToken
  <1>2. TokensNamed'
    BY DEF IInv, TypeOK, TokensNamed, Named, AcceptAnswer, NoCall, NoToken
  <1>3. OneClosure'
    BY DEF IInv, TypeOK, OneClosure, AcceptAnswer, NoCall, NoToken
  <1>4. NobodyStranded'
    BY DEF IInv, NobodyStranded, AcceptAnswer, NoCall, NoToken
  <1>5. Counted'
    BY DEF IInv, Counted, Unserved, AcceptAnswer, NoCall, NoToken
  <1>6. Quiet'
    BY DEF IInv, Quiet, AcceptAnswer, NoCall, NoToken
  <1> QED BY <1>1, <1>2, <1>3, <1>4, <1>5, <1>6 DEF IInv

LEMMA RedirectKeeps ==
  ASSUME IInv, Redirect
  PROVE  IInv'
  <1>1. TypeOK'
    BY DEF IInv, TypeOK, Redirect
  <1>2. TokensNamed'
    BY DEF IInv, TokensNamed, Named, Redirect
  <1>3. OneClosure'
    BY DEF IInv, OneClosure, Redirect
  <1>4. NobodyStranded'
    BY DEF IInv, NobodyStranded, Redirect
  <1>5. Counted'
    BY DEF IInv, Counted, Unserved, Redirect
  <1>6. Quiet'
    BY DEF IInv, Quiet, Redirect
  <1> QED BY <1>1, <1>2, <1>3, <1>4, <1>5, <1>6 DEF IInv

LEMMA ToLoginKeeps ==
  ASSUME IInv, ToLogin
  PROVE  IInv'
  <1>1. TypeOK'
    BY DEF IInv, TypeOK, ToLogin
  <1>2. TokensNamed'
    BY DEF IInv, TokensNamed, Named, ToLogin
  <1>3. OneClosure'
    BY DEF IInv, OneClosure, ToLogin
  <1>4. NobodyStranded'
    BY DEF IInv, NobodyStranded, ToLogin
  <1>5. Counted'
    BY DEF IInv, Counted, Unserved, ToLogin
  <1>6. Quiet'
    BY DEF IInv, Quiet, ToLogin
  <1> QED BY <1>1, <1>2, <1>3, <1>4, <1>5, <1>6 DEF IInv

\* Around the tab.
LEMMA TokenCachedKeeps ==
  ASSUME IInv, TokenCached
  PROVE  IInv'
  <1>1. TypeOK'
    BY DEF IInv, TypeOK, Token, TokenCached, Good
  <1>2. TokensNamed'
    BY DEF IInv, TokensNamed, Named, TokenCached, Good
  <1>3. OneClosure'
    BY DEF IInv, OneClosure, TokenCached, Good
  <1>4. NobodyStranded'
    BY DEF IInv, NobodyStranded, TokenCached, Good
  <1>5. Counted'
    BY DEF IInv, Counted, Unserved, TokenCached, Good
  <1>6. Quiet'
    BY DEF IInv, Quiet, TokenCached, Good
  <1> QED BY <1>1, <1>2, <1>3, <1>4, <1>5, <1>6 DEF IInv

LEMMA ExpireKeeps ==
  ASSUME IInv, Expire
  PROVE  IInv'
  <1>a. ASSUME NEW t \in Token, Named(t)
        PROVE  LET s == [t EXCEPT !.good = FALSE]
               IN  s \in Token /\ ~s.good /\ s.user = t.user
    BY DEF Token
  <1>b. ASSUME NEW d \in Calls
        PROVE  /\ call'[d] \in Call
               /\ call'[d].pc = call[d].pc /\ call'[d].done = call[d].done
               /\ call'[d].dropped = call[d].dropped
               /\ ~call'[d].token.good /\ call'[d].token.user = call[d].token.user
    <2>1. call'[d] = [call[d] EXCEPT !.token.good = FALSE] /\ call[d] \in Call
      BY DEF IInv, TypeOK, Expire
    <2>2. PICK k, t : k = call[d] /\ t = [call[d].token EXCEPT !.good = FALSE]
      OBVIOUS
    <2>3. t \in Token /\ ~t.good /\ t.user = k.token.user
      BY <2>1, <2>2 DEF Call, Token
    <2>4. call'[d] = [k EXCEPT !.token = t] /\ k \in Call
      BY <2>1, <2>2
    <2> QED BY <2>2, <2>3, <2>4 DEF Call
  <1>c. call' \in [Calls -> Call]
    BY <1>b DEF Expire
  <1>d. /\ session' \in Token /\ ~session'.good
        /\ cachedToken' \in Token /\ ~cachedToken'.good
    BY <1>a DEF IInv, TypeOK, TokensNamed, Expire
  <1>e. /\ expiries' \in 0..MaxExpiries
        /\ UNCHANGED <<isRefreshing, failedQueue, storeVars, pageVars, removed, faults>>
    BY DEF IInv, TypeOK, Expire
  <1>1. TypeOK'
    BY <1>c, <1>d, <1>e DEF IInv, TypeOK
  <1>2. TokensNamed'
    BY <1>b, <1>d, <1>e DEF IInv, TokensNamed, Named
  <1>3. OneClosure'
    BY <1>b, <1>e DEF IInv, OneClosure
  <1>4. NobodyStranded'
    BY <1>b, <1>e DEF IInv, NobodyStranded
  <1>5. Counted'
    BY <1>b, <1>e DEF IInv, Counted
  <1>6. Quiet'
    BY <1>b, <1>e DEF IInv, Quiet
  <1> QED BY <1>1, <1>2, <1>3, <1>4, <1>5, <1>6 DEF IInv

LEMMA MeExpiresKeeps ==
  ASSUME IInv, MeExpires
  PROVE  IInv'
  <1>1. TypeOK'
    BY DEF IInv, TypeOK, MeExpires, Fault
  <1>2. TokensNamed'
    BY DEF IInv, TokensNamed, Named, MeExpires, Fault
  <1>3. OneClosure'
    BY DEF IInv, OneClosure, MeExpires, Fault
  <1>4. NobodyStranded'
    BY DEF IInv, NobodyStranded, MeExpires, Fault
  <1>5. Counted'
    BY DEF IInv, Counted, Unserved, MeExpires, Fault
  <1>6. Quiet'
    BY DEF IInv, Quiet, MeExpires, Fault
  <1> QED BY <1>1, <1>2, <1>3, <1>4, <1>5, <1>6 DEF IInv

LEMMA ReloadKeeps ==
  ASSUME IInv, NEW p \in {"login", "app", "callback", "invite"}, Reload(p)
  PROVE  IInv'
  <1>a. /\ isRefreshing' = FALSE /\ failedQueue' = {} /\ cachedToken' = NoToken
        /\ store' = Optimistic /\ signingOut' = FALSE /\ faults' \in 0..MaxFaults
        /\ path' = p /\ step' \in {"idle", "waiting"} /\ (p = "app" => step' = "idle")
        /\ UNCHANGED <<session, authMe, data, cleared, removed, expiries>>
    BY DEF IInv, TypeOK, Reload, Loaded, FirstStep, Fault
  <1>b. /\ check' \in [{"app", "page"} ->
                    [pc : {"idle", "session", "me"}, user : Users \cup {Nobody}]]
        /\ check'["app"].pc = "session" /\ check'["page"].pc = "idle"
    BY DEF Reload, Loaded
  <1>c. /\ call' \in [Calls -> Call]
        /\ \A d \in Calls : call'[d].pc = "idle" /\ call'[d].done = 0
                             /\ ~call'[d].token.good
    BY FreshCall DEF Reload, Loaded
  <1>d. /\ Honest(Optimistic)
        /\ authMe = Nobody => ~Optimistic.auth
    BY StoreValues DEF IInv, TypeOK, Optimistic, Honest, Stores
  <1>1. TypeOK'
    BY <1>a, <1>b, <1>c, <1>d, Tokens DEF IInv, TypeOK, Honest, Stores
  <1>2. TokensNamed'
    BY <1>a, <1>b, <1>c, Tokens DEF IInv, TokensNamed, Named
  <1>3. OneClosure'
    BY <1>a, <1>b, <1>c DEF IInv, OneClosure
  <1>4. NobodyStranded'
    BY <1>a, <1>c DEF IInv, NobodyStranded
  <1>5. Counted'
    BY <1>c DEF Counted
  <1>6. Quiet'
    BY <1>a, <1>c, <1>d DEF IInv, Quiet
  <1> QED BY <1>1, <1>2, <1>3, <1>4, <1>5, <1>6 DEF IInv

LEMMA RemoveAccountKeeps ==
  ASSUME IInv, NEW u \in Users, RemoveAccount(u)
  PROVE  IInv'
  <1>1. TypeOK'
    BY DEF IInv, TypeOK, RemoveAccount, Fault
  <1>2. TokensNamed'
    BY DEF IInv, TokensNamed, Named, RemoveAccount, Fault
  <1>3. OneClosure'
    BY DEF IInv, OneClosure, RemoveAccount, Fault
  <1>4. NobodyStranded'
    BY DEF IInv, NobodyStranded, RemoveAccount, Fault
  <1>5. Counted'
    BY DEF IInv, Counted, Unserved, RemoveAccount, Fault
  <1>6. Quiet'
    BY DEF IInv, Quiet, RemoveAccount, Fault
  <1> QED BY <1>1, <1>2, <1>3, <1>4, <1>5, <1>6 DEF IInv

-----------------------------------------------------------------------------
LEMMA NextIInv == IInv /\ [Next]_vars => IInv'
  <1> SUFFICES ASSUME IInv, [Next]_vars PROVE IInv'
    OBVIOUS
  <1>1. ASSUME NEW c \in Calls, CallStep(c) \/ Issue(c) PROVE IInv'
    BY <1>1, ServeKeeps, LoseKeeps, NoAnswerKeeps, UnauthorizedKeeps, RefreshOkKeeps,
       RefreshFailsKeeps, RemovedAnswerKeeps, SettleKeeps, IssueKeeps DEF CallStep
  <1>2. ASSUME NEW i \in {"app", "page"}, CheckStep(i) PROVE IInv'
    BY <1>2, CheckSessionKeeps, CheckAnswerKeeps DEF CheckStep
  <1>3. CASE PageStep
    BY <1>3, LoginAnswerKeeps, SettleSuccessKeeps, CallbackTimesOutKeeps, CheckedKeeps,
       AcceptAnswerKeeps, RedirectKeeps DEF PageStep
  <1>4. CASE PrivateRoute \/ SignedOut \/ AwaitConfirmation \/ Logout \/ ToLogin
    BY <1>4, PrivateRouteKeeps, SignedOutKeeps, AwaitConfirmationKeeps, LogoutKeeps,
       ToLoginKeeps
  <1>5. ASSUME NEW u \in Users, SignIn(u) \/ LinkOpened(u) \/ RemoveAccount(u) PROVE IInv'
    BY <1>5, SignInKeeps, LinkOpenedKeeps, RemoveAccountKeeps
  <1>6. ASSUME NEW p \in {"login", "app", "callback", "invite"}, Reload(p) PROVE IInv'
    BY <1>6, ReloadKeeps
  <1>7. CASE TokenCached \/ Expire \/ MeExpires
    BY <1>7, TokenCachedKeeps, ExpireKeeps, MeExpiresKeeps
  <1>8. CASE UNCHANGED vars
    BY <1>8 DEF vars, IInv, TypeOK, TokensNamed, OneClosure, NobodyStranded, Counted, Quiet
  <1> QED BY <1>1, <1>2, <1>3, <1>4, <1>5, <1>6, <1>7, <1>8 DEF Next

\* The inductive invariant holds throughout.
THEOREM InductiveInvariant == Spec => []IInv
  BY InitIInv, NextIInv, PTL DEF Spec

\* The variables keep their types.
THEOREM TypeCorrect == Spec => []TypeOK
  BY InductiveInvariant, PTL DEF IInv

\* No call waits for a refresh that nobody makes: the queue of client.ts is
\* emptied by the one call that refreshes, in whatever order the 401s, the
\* reloads and the failures come.
THEOREM QueueIsServed == Spec => []NobodyStranded
  BY InductiveInvariant, PTL DEF IInv

\* A write is carried out at most once, and was when its caller is told so.
THEOREM WrittenOnce == Spec => []WritesOnce
  <1>1. Counted => WritesOnce
    BY DEF Counted, WritesOnce
  <1> QED BY <1>1, InductiveInvariant, PTL DEF IInv

\* Nothing comes back into caches that were cleared at the end of a session.
THEOREM CachesStayCleared == Spec => []NoLateData
  <1>1. Quiet => NoLateData
    BY DEF Quiet, NoLateData
  <1> QED BY <1>1, InductiveInvariant, PTL DEF IInv

-----------------------------------------------------------------------------
(* The query cache, the other half of what the browser keeps.              *)

\* The keys a save invalidates are those of the response, too.
ListedPair == Reached(save, query)

\* The versions: a commit makes one, a write of the other member another, and
\* the answer acknowledges one that exists.
CacheVersions ==
    /\ acked <= mine /\ mine <= server
    /\ server + (IF sending = "sent" THEN 1 ELSE 0) <= saves + others

\* A response that nothing marks as old has every acknowledged save in it.
Upto(e) == ~e.inv /\ e.gap = "no" => e.ver >= acked

CachedIsNew == ListedPair /\ entry # None => Upto(entry)

\* So has a request that was read after the last answer, or will be.
FetchedIsNew ==
    ListedPair /\ fetch # None /\ ~fetch.late => fetch.ver = None \/ fetch.ver >= acked

\* So has the copy, if it was made since the last answer.
StoredIsNew == ListedPair /\ stored # None /\ ~unsaved => Upto(stored)

CacheIInv == CacheTypeOK /\ CacheVersions /\ CachedIsNew /\ FetchedIsNew /\ StoredIsNew

USE ConstantsAssumption
USE DEF counters, page

-----------------------------------------------------------------------------
\* What an answer, a failure and a reload make of a response and a request.
LEMMA NewRequestFits ==
  /\ NewRequest \in Fetch
  /\ NewRequest.ver = None /\ ~NewRequest.late
  BY DEF NewRequest, Fetch

LEMMA EntryChanges ==
  ASSUME NEW e \in Entry
  PROVE  /\ [e EXCEPT !.inv = TRUE] \in Entry /\ [e EXCEPT !.inv = TRUE].inv
         /\ [e EXCEPT !.gap = "restored"] \in Entry
         /\ [e EXCEPT !.gap = "restored"].gap = "restored"
  BY DEF Entry

LEMMA FetchLate ==
  ASSUME NEW f \in Fetch
  PROVE  /\ [f EXCEPT !.late = TRUE] \in Fetch
         /\ [f EXCEPT !.late = TRUE].late
  BY DEF Fetch

LEMMA NewEntry ==
  ASSUME NEW v \in Version, NEW g \in {"no", "late"}
  PROVE  [ver |-> v, inv |-> FALSE, age |-> 0, gap |-> g] \in Entry
  BY DEF Entry

LEMMA FetchVersion ==
  ASSUME NEW f \in Fetch, f.ver # None
  PROVE  f.ver \in Version
  BY DEF Fetch

-----------------------------------------------------------------------------
LEMMA MountKeeps ==
  ASSUME CacheIInv, Mount
  PROVE  CacheIInv'
  <1>1. CacheTypeOK'
    BY NewRequestFits DEF CacheIInv, CacheTypeOK, Mount, Request
  <1>2. CacheVersions'
    BY DEF CacheIInv, CacheVersions, Mount
  <1>3. CachedIsNew'
    BY DEF CacheIInv, CachedIsNew, Upto, ListedPair, Mount
  <1>4. FetchedIsNew'
    BY NewRequestFits DEF CacheIInv, FetchedIsNew, ListedPair, Mount, Request
  <1>5. StoredIsNew'
    BY DEF CacheIInv, StoredIsNew, Upto, ListedPair, Mount
  <1> QED BY <1>1, <1>2, <1>3, <1>4, <1>5 DEF CacheIInv

LEMMA UnmountKeeps ==
  ASSUME CacheIInv, Unmount
  PROVE  CacheIInv'
  <1>1. CacheTypeOK'
    BY DEF CacheIInv, CacheTypeOK, Unmount
  <1>2. CacheVersions'
    BY DEF CacheIInv, CacheVersions, Unmount
  <1>3. CachedIsNew'
    BY DEF CacheIInv, CachedIsNew, Upto, ListedPair, Unmount
  <1>4. FetchedIsNew'
    BY DEF CacheIInv, FetchedIsNew, ListedPair, Unmount
  <1>5. StoredIsNew'
    BY DEF CacheIInv, StoredIsNew, Upto, ListedPair, Unmount
  <1> QED BY <1>1, <1>2, <1>3, <1>4, <1>5 DEF CacheIInv

LEMMA ReadKeeps ==
  ASSUME CacheIInv, Read
  PROVE  CacheIInv'
  <1>1. CacheTypeOK'
    BY DEF CacheIInv, CacheTypeOK, Read, Fetch
  <1>2. CacheVersions'
    BY DEF CacheIInv, CacheVersions, Read
  <1>3. CachedIsNew'
    BY DEF CacheIInv, CachedIsNew, Upto, ListedPair, Read
  <1>4. FetchedIsNew'
    BY DEF CacheIInv, CacheTypeOK, Version, CacheVersions, FetchedIsNew, Read
  <1>5. StoredIsNew'
    BY DEF CacheIInv, StoredIsNew, Upto, ListedPair, Read
  <1> QED BY <1>1, <1>2, <1>3, <1>4, <1>5 DEF CacheIInv

LEMMA ArriveKeeps ==
  ASSUME CacheIInv, Arrive
  PROVE  CacheIInv'
  <1>1. CacheTypeOK'
    BY NewEntry, FetchVersion DEF CacheIInv, CacheTypeOK, Arrive
  <1>2. CacheVersions'
    BY DEF CacheIInv, CacheVersions, Arrive
  <1>3. CachedIsNew'
    BY DEF CacheIInv, CachedIsNew, FetchedIsNew, Upto, ListedPair, Arrive
  <1>4. FetchedIsNew'
    BY DEF FetchedIsNew, Arrive
  <1>5. StoredIsNew'
    BY DEF CacheIInv, StoredIsNew, Upto, ListedPair, Arrive
  <1> QED BY <1>1, <1>2, <1>3, <1>4, <1>5 DEF CacheIInv

LEMMA FetchFailsKeeps ==
  ASSUME CacheIInv, FetchFails
  PROVE  CacheIInv'
  <1>1. CacheTypeOK'
    <2>1. entry' \in Entry \cup {None}
      <3>1. CASE entry = None
        BY <3>1 DEF FetchFails
      <3>2. CASE entry # None
        BY <3>2, EntryChanges DEF CacheIInv, CacheTypeOK, FetchFails
      <3> QED BY <3>1, <3>2
    <2>2. UNCHANGED <<save, query, server, page, mounted, stored, unsaved, saves,
                      others, reloads>>
          /\ fetch' = None /\ failed' = TRUE /\ lost' \in 0..MaxLost
      BY DEF CacheIInv, CacheTypeOK, FetchFails
    <2> QED BY <2>1, <2>2 DEF CacheIInv, CacheTypeOK
  <1>2. CacheVersions'
    BY DEF CacheIInv, CacheVersions, FetchFails
  <1>3. CachedIsNew'
    BY DEF CachedIsNew, Upto, FetchFails
  <1>4. FetchedIsNew'
    BY DEF FetchedIsNew, FetchFails
  <1>5. StoredIsNew'
    BY DEF CacheIInv, StoredIsNew, Upto, ListedPair, FetchFails
  <1> QED BY <1>1, <1>2, <1>3, <1>4, <1>5 DEF CacheIInv

LEMMA AskAgainKeeps ==
  ASSUME CacheIInv, Focus \/ Poll \/ Ask
  PROVE  CacheIInv'
  <1>1. CacheTypeOK'
    BY NewRequestFits DEF CacheIInv, CacheTypeOK, Focus, Poll, Ask
  <1>2. CacheVersions'
    BY DEF CacheIInv, CacheVersions, Focus, Poll, Ask
  <1>3. CachedIsNew'
    BY DEF CacheIInv, CachedIsNew, Upto, ListedPair, Focus, Poll, Ask
  <1>4. FetchedIsNew'
    BY NewRequestFits DEF FetchedIsNew, Focus, Poll, Ask
  <1>5. StoredIsNew'
    BY DEF CacheIInv, StoredIsNew, Upto, ListedPair, Focus, Poll, Ask
  <1> QED BY <1>1, <1>2, <1>3, <1>4, <1>5 DEF CacheIInv

LEMMA AgeKeeps ==
  ASSUME CacheIInv, Age
  PROVE  CacheIInv'
  <1>1. CacheTypeOK'
    BY DEF CacheIInv, CacheTypeOK, Age, Older, Entry
  <1>2. CacheVersions'
    BY DEF CacheIInv, CacheVersions, Age
  <1>3. CachedIsNew'
    BY DEF CacheIInv, CacheTypeOK, CachedIsNew, Upto, ListedPair, Age, Older, Entry
  <1>4. FetchedIsNew'
    BY DEF CacheIInv, FetchedIsNew, ListedPair, Age
  <1>5. StoredIsNew'
    BY DEF CacheIInv, CacheTypeOK, StoredIsNew, Upto, ListedPair, Age, Older, Entry
  <1> QED BY <1>1, <1>2, <1>3, <1>4, <1>5 DEF CacheIInv

LEMMA CollectKeeps ==
  ASSUME CacheIInv, Collect
  PROVE  CacheIInv'
  <1>1. CacheTypeOK'
    BY DEF CacheIInv, CacheTypeOK, Collect
  <1>2. CacheVersions'
    BY DEF CacheIInv, CacheVersions, Collect
  <1>3. CachedIsNew'
    BY DEF CachedIsNew, Collect
  <1>4. FetchedIsNew'
    BY DEF FetchedIsNew, Collect
  <1>5. StoredIsNew'
    BY DEF CacheIInv, StoredIsNew, Upto, ListedPair, Collect
  <1> QED BY <1>1, <1>2, <1>3, <1>4, <1>5 DEF CacheIInv

LEMMA SendKeeps ==
  ASSUME CacheIInv, SendSave
  PROVE  CacheIInv'
  <1>1. CacheTypeOK'
    BY DEF CacheIInv, CacheTypeOK, SendSave
  <1>2. CacheVersions'
    BY DEF CacheIInv, CacheTypeOK, Version, CacheVersions, SendSave
  <1>3. CachedIsNew'
    BY DEF CacheIInv, CachedIsNew, Upto, ListedPair, SendSave
  <1>4. FetchedIsNew'
    BY DEF CacheIInv, FetchedIsNew, ListedPair, SendSave
  <1>5. StoredIsNew'
    BY DEF CacheIInv, StoredIsNew, Upto, ListedPair, SendSave
  <1> QED BY <1>1, <1>2, <1>3, <1>4, <1>5 DEF CacheIInv

LEMMA CommitKeeps ==
  ASSUME CacheIInv, Commit
  PROVE  CacheIInv'
  <1>1. CacheTypeOK'
    BY DEF CacheIInv, CacheVersions, CacheTypeOK, Commit, Version
  <1>2. CacheVersions'
    BY DEF CacheIInv, CacheTypeOK, Version, CacheVersions, Commit
  <1>3. CachedIsNew'
    BY DEF CacheIInv, CachedIsNew, Upto, ListedPair, Commit
  <1>4. FetchedIsNew'
    BY DEF CacheIInv, FetchedIsNew, ListedPair, Commit
  <1>5. StoredIsNew'
    BY DEF CacheIInv, StoredIsNew, Upto, ListedPair, Commit
  <1> QED BY <1>1, <1>2, <1>3, <1>4, <1>5 DEF CacheIInv

\* An answer marks what it reaches: the cached response as invalidated, a
\* request that cannot be repeated as late.
LEMMA AnswerKeeps ==
  ASSUME CacheIInv, Answer
  PROVE  CacheIInv'
  <1>1. ListedPair' => Reached(save, query)
    BY DEF ListedPair, Answer
  <1>2. Reached(save, query) /\ entry' # None => entry'.inv
    <2>1. CASE entry = None
      BY <2>1 DEF Answer, Invalidated
    <2>2. CASE entry # None
      BY <2>2, EntryChanges DEF Answer, Invalidated
    <2> QED BY <2>1, <2>2
  <1>3. Reached(save, query) /\ fetch' # None => fetch'.ver = None \/ fetch'.late
    <2>1. ASSUME Reached(save, query), Restarted = NewRequest
          PROVE  fetch'.ver = None
      BY <2>1, NewRequestFits DEF Answer
    <2>2. ASSUME Reached(save, query), fetch # None, Restarted = [fetch EXCEPT !.late = TRUE]
          PROVE  fetch'.late
      BY <2>2, FetchLate DEF Answer
    <2>3. \/ Restarted = NewRequest
          \/ Restarted = None
          \/ fetch # None /\ Restarted = [fetch EXCEPT !.late = TRUE]
      BY DEF Restarted
    <2> QED BY <2>1, <2>2, <2>3 DEF Answer
  <1>4. CacheTypeOK'
    BY NewRequestFits, EntryChanges, FetchLate
    DEF CacheIInv, CacheTypeOK, Answer, Invalidated, Restarted
  <1>5. CacheVersions'
    BY DEF CacheIInv, CacheTypeOK, Version, CacheVersions, Answer
  <1>6. CachedIsNew'
    BY <1>1, <1>2 DEF CachedIsNew, Upto
  <1>7. FetchedIsNew'
    BY <1>1, <1>3 DEF FetchedIsNew
  <1>8. StoredIsNew'
    BY DEF StoredIsNew, Answer
  <1> QED BY <1>4, <1>5, <1>6, <1>7, <1>8 DEF CacheIInv

LEMMA LoseSaveKeeps ==
  ASSUME CacheIInv, LoseSave
  PROVE  CacheIInv'
  <1>1. CacheTypeOK'
    BY DEF CacheIInv, CacheTypeOK, LoseSave
  <1>2. CacheVersions'
    BY DEF CacheIInv, CacheTypeOK, Version, CacheVersions, LoseSave
  <1>3. CachedIsNew'
    BY DEF CacheIInv, CachedIsNew, Upto, ListedPair, LoseSave
  <1>4. FetchedIsNew'
    BY DEF CacheIInv, FetchedIsNew, ListedPair, LoseSave
  <1>5. StoredIsNew'
    BY DEF CacheIInv, StoredIsNew, Upto, ListedPair, LoseSave
  <1> QED BY <1>1, <1>2, <1>3, <1>4, <1>5 DEF CacheIInv

LEMMA OtherWritesKeeps ==
  ASSUME CacheIInv, OtherWrites
  PROVE  CacheIInv'
  <1>1. CacheTypeOK'
    BY DEF CacheIInv, CacheVersions, CacheTypeOK, OtherWrites, Version
  <1>2. CacheVersions'
    BY DEF CacheIInv, CacheTypeOK, Version, CacheVersions, OtherWrites
  <1>3. CachedIsNew'
    BY DEF CacheIInv, CachedIsNew, Upto, ListedPair, OtherWrites
  <1>4. FetchedIsNew'
    BY DEF CacheIInv, FetchedIsNew, ListedPair, OtherWrites
  <1>5. StoredIsNew'
    BY DEF CacheIInv, StoredIsNew, Upto, ListedPair, OtherWrites
  <1> QED BY <1>1, <1>2, <1>3, <1>4, <1>5 DEF CacheIInv

LEMMA PersistKeeps ==
  ASSUME CacheIInv, Persist
  PROVE  CacheIInv'
  <1>1. CacheTypeOK'
    BY DEF CacheIInv, CacheTypeOK, Persist
  <1>2. CacheVersions'
    BY DEF CacheIInv, CacheVersions, Persist
  <1>3. CachedIsNew'
    BY DEF CacheIInv, CachedIsNew, Upto, ListedPair, Persist
  <1>4. FetchedIsNew'
    BY DEF CacheIInv, FetchedIsNew, ListedPair, Persist
  <1>5. StoredIsNew'
    BY DEF CacheIInv, CachedIsNew, StoredIsNew, Upto, ListedPair, Persist
  <1> QED BY <1>1, <1>2, <1>3, <1>4, <1>5 DEF CacheIInv

LEMMA CacheReloadKeeps ==
  ASSUME CacheIInv, ReloadPage
  PROVE  CacheIInv'
  <1>1. CacheTypeOK'
    <2>1. entry' \in Entry \cup {None}
      <3>1. CASE stored = None
        BY <3>1 DEF ReloadPage, Restored
      <3>2. CASE stored # None
        BY <3>2, EntryChanges DEF CacheIInv, CacheTypeOK, ReloadPage, Restored
      <3> QED BY <3>1, <3>2
    <2>2. /\ UNCHANGED <<save, query, server, mine, acked, unsaved, saves, others, lost>>
          /\ fetch' = None /\ failed' = FALSE /\ mounted' = FALSE /\ sending' = "idle"
          /\ stored' \in {stored, None} /\ reloads' \in 0..MaxReloads
      BY DEF CacheIInv, CacheTypeOK, ReloadPage
    <2> QED BY <2>1, <2>2 DEF CacheIInv, CacheTypeOK
  <1>2. CacheVersions'
    BY DEF CacheIInv, CacheTypeOK, Version, CacheVersions, ReloadPage
  <1>3. CachedIsNew'
    BY DEF CacheIInv, CachedIsNew, StoredIsNew, Upto, ListedPair, ReloadPage, Restored
  <1>4. FetchedIsNew'
    BY DEF FetchedIsNew, ReloadPage
  <1>5. StoredIsNew'
    BY DEF CacheIInv, StoredIsNew, Upto, ListedPair, ReloadPage
  <1> QED BY <1>1, <1>2, <1>3, <1>4, <1>5 DEF CacheIInv

-----------------------------------------------------------------------------
LEMMA CacheInitIInv ==
  ASSUME CacheInit
  PROVE  CacheIInv
  <1>1. <<save, query>> \in Pairs
    <2>1. PICK p \in Pairs : save = p[1] /\ query = p[2]
      BY DEF CacheInit
    <2>2. p = <<p[1], p[2]>>
      OBVIOUS
    <2> QED BY <2>1, <2>2
  <1>2. CacheTypeOK
    <2>1. 0 \in Version
      BY DEF Version
    <2>2. 0 \in 0..MaxSaves /\ 0 \in 0..MaxOthers /\ 0 \in 0..MaxLost /\ 0 \in 0..MaxReloads
      OBVIOUS
    <2> QED BY <1>1, <2>1, <2>2, Zenon DEF CacheInit, CacheTypeOK
  <1>3. CacheVersions /\ CachedIsNew /\ FetchedIsNew /\ StoredIsNew
    BY DEF CacheInit, CacheVersions, CachedIsNew, FetchedIsNew, StoredIsNew
  <1> QED BY <1>2, <1>3 DEF CacheIInv

LEMMA CacheNextIInv ==
  ASSUME CacheIInv, [CacheNext]_cacheVars
  PROVE  CacheIInv'
  <1>1. CASE Mount \/ Unmount \/ Read \/ Arrive \/ FetchFails \/ Focus \/ Poll \/ Ask
    BY <1>1, MountKeeps, UnmountKeeps, ReadKeeps, ArriveKeeps, FetchFailsKeeps,
       AskAgainKeeps
  <1>2. CASE Age \/ Collect \/ Persist \/ ReloadPage
    BY <1>2, AgeKeeps, CollectKeeps, PersistKeeps, CacheReloadKeeps
  <1>3. CASE SendSave \/ Commit \/ Answer \/ LoseSave \/ OtherWrites
    BY <1>3, SendKeeps, CommitKeeps, AnswerKeeps, LoseSaveKeeps,
       OtherWritesKeeps
  <1>4. CASE UNCHANGED cacheVars
    BY <1>4 DEF cacheVars, CacheIInv, CacheTypeOK, CacheVersions, CachedIsNew,
       FetchedIsNew, StoredIsNew, Upto, ListedPair
  <1> QED BY <1>1, <1>2, <1>3, <1>4 DEF CacheNext

\* The inductive invariant holds throughout.
THEOREM CacheInductiveInvariant ==
  CacheSpec => []CacheIInv
  <1>1. CacheIInv /\ [CacheNext]_cacheVars => CacheIInv'
    BY CacheNextIInv
  <1> QED BY <1>1, CacheInitIInv, PTL DEF CacheSpec

\* The variables keep their types.
THEOREM CacheTypeCorrect ==
  CacheSpec => []CacheTypeOK
  BY CacheInductiveInvariant, PTL DEF CacheIInv

\* The tables of ClientCache name every response a save changes, except the
\* pairs that are known to be missed.
ListsNameTheirQueries ==
    \A p \in Pairs : p \in Missed \/ Reached(p[1], p[2])

\* With lists that name the queries, the cache never passes off as fresh what
\* is older than an acknowledged save: however many saves, requests, lost
\* answers and reloads there are, and whatever order they come in.
THEOREM SavedIsShown ==
  ASSUME ListsNameTheirQueries
  PROVE  CacheSpec => []OwnWriteShows
  <1>1. CacheTypeOK /\ CachedIsNew => OwnWriteShows
    <2>1. ASSUME CacheTypeOK, <<save, query>> \notin Missed
          PROVE  ListedPair
      BY <2>1, ListsNameTheirQueries 
      DEF CacheTypeOK, ListedPair, ListsNameTheirQueries
    <2> QED BY <2>1 DEF CacheTypeOK, CachedIsNew, Upto, OwnWriteShows, Stale, Entry
  <1> QED BY <1>1, CacheInductiveInvariant, PTL DEF CacheIInv
=============================================================================
