---------------------------- MODULE ClientSession ----------------------------
(***************************************************************************)
(* The browser's side of being signed in: the interceptors of              *)
(* api/client.ts, stores/authStore.ts, the routes of App.tsx and the three *)
(* pages that let a member in (LoginPage, AuthCallbackPage,                *)
(* InviteAcceptPage), in one tab.                                          *)
(*                                                                         *)
(* Supabase keeps the session (external); client.ts caches its token, puts *)
(* it into each call, and refreshes it once for all calls that get a 401.  *)
(* The store says who is signed in, which decides what the routes show.    *)
(***************************************************************************)
EXTENDS Naturals, FiniteSets

CONSTANTS
    Users,          \* Supabase accounts that sign in on this browser
    Nobody,
    Queries,        \* GET calls of the pages
    Writes,         \* POST, PUT and DELETE calls of the pages
    Retries,        \* axiosRetry: retries of a GET that got no answer
    MaxExpiries,    \* bound: access tokens that grow too old
    MaxFaults       \* bound: reloads, lost or refused calls, removals

ASSUME SessionAssumption ==
    /\ Nobody \notin Users /\ Retries \in Nat /\ MaxFaults \in Nat
    /\ MaxExpiries \in Nat
    /\ Queries \cap Writes = {}
    /\ {"appMe", "pageMe", "accept"} \cap (Queries \cup Writes) = {}

\* GET /users/me of the two callers of checkAuth (a login takes the page's),
\* and the acceptance of an invite.
Calls == Queries \cup Writes \cup {"appMe", "pageMe", "accept"}
Gets == Queries \cup {"appMe", "pageMe"}

VARIABLES
    session,        \* what supabase-js keeps: the user and a good token?
    cachedToken,    \* client.ts: the token for the next call
    isRefreshing, failedQueue,
    call,           \* the calls on their way
    store,          \* authStore: checking, signed in, and as whom
    authMe,         \* localStorage AUTH_ME_CACHE_KEY: the user, while fresh
    check,          \* the two callers of checkAuth
    signingOut,     \* logout awaits supabase.auth.signOut
    path, step,     \* the route, and how far its page has come
    data,           \* whose answers the query cache holds
    cleared,        \* history: caches cleared, nobody signed in since
    removed,        \* the server: accounts removed from the household
    expiries, faults

clientVars == <<cachedToken, isRefreshing, failedQueue, call>>
storeVars == <<store, authMe, check, signingOut, data, cleared>>
pageVars == <<path, step>>
otherVars == <<removed, faults, expiries>>
vars == <<session, clientVars, storeVars, pageVars, otherVars>>

Token == [user : Users \cup {Nobody}, good : BOOLEAN]
NoToken == [user |-> Nobody, good |-> FALSE]
Good(u) == [user |-> u, good |-> TRUE]

NoCall == [pc |-> "idle", token |-> NoToken, retried |-> FALSE, tries |-> 0,
           done |-> 0, dropped |-> FALSE]

\* ok and rejected are what the caller is about to see.
CallStates == {"idle", "sent", "ok", "unauthorized", "removed", "lost",
               "refreshing", "waiting", "rejected"}

Call == [pc : CallStates, token : Token, retried : BOOLEAN, tries : 0..Retries,
         done : Nat, dropped : BOOLEAN]

\* The values each variable ranges over.
TypeOK ==
    /\ session \in Token /\ cachedToken \in Token
    /\ isRefreshing \in BOOLEAN /\ failedQueue \subseteq Calls
    /\ call \in [Calls -> Call]
    /\ store \in [auth : BOOLEAN, checking : BOOLEAN, user : Users \cup {Nobody}]
    /\ store.auth = (store.user # Nobody)
    /\ authMe \in Users \cup {Nobody}
    /\ check \in [{"app", "page"} ->
                    [pc : {"idle", "session", "me"}, user : Users \cup {Nobody}]]
    /\ signingOut \in BOOLEAN
    /\ path \in {"login", "app", "callback", "invite"}
    /\ step \in {"idle", "me", "waiting", "check", "accept",
                 "success", "error", "confirm"}
    /\ data \in Users \cup {Nobody} /\ cleared \in BOOLEAN /\ removed \subseteq Users
    /\ faults \in 0..MaxFaults /\ expiries \in 0..MaxExpiries

Fault == faults < MaxFaults /\ faults' = faults + 1
-----------------------------------------------------------------------------
(***************************************************************************)
(* The store.                                                              *)
(***************************************************************************)
LoggedIn(u) == [auth |-> TRUE, checking |-> FALSE, user |-> u]
LoggedOut == [auth |-> FALSE, checking |-> FALSE, user |-> Nobody]

\* A fresh cached answer next to a stored session is believed for the time
\* being.
Optimistic ==
    IF authMe # Nobody /\ session.user # Nobody THEN LoggedIn(authMe)
    ELSE [auth |-> FALSE, checking |-> TRUE, user |-> Nobody]

FirstStep(p) == IF p = "callback" THEN "waiting" ELSE "idle"

\* The document is loaded: modules are evaluated, App mounts and checks.
Loaded(p) ==
    /\ isRefreshing' = FALSE /\ failedQueue' = {} /\ cachedToken' = NoToken
    /\ call' = [c \in Calls |-> NoCall]
    /\ store' = Optimistic /\ signingOut' = FALSE
    /\ check' = [i \in {"app", "page"} |->
                    [pc |-> IF i = "app" THEN "session" ELSE "idle",
                     user |-> Nobody]]
    /\ path' = p /\ step' = FirstStep(p)

Init ==
    /\ session = NoToken /\ cachedToken = NoToken
    /\ isRefreshing = FALSE /\ failedQueue = {}
    /\ call = [c \in Calls |-> NoCall]
    /\ store = [auth |-> FALSE, checking |-> TRUE, user |-> Nobody]
    /\ authMe = Nobody /\ signingOut = FALSE
    /\ check = [i \in {"app", "page"} |->
                    [pc |-> IF i = "app" THEN "session" ELSE "idle",
                     user |-> Nobody]]
    /\ path \in {"login", "app", "callback", "invite"} /\ step = FirstStep(path)
    /\ data = Nobody /\ cleared = FALSE /\ removed = {} /\ faults = 0 /\ expiries = 0

\* A mutant: the answers of calls on their way are kept.
MutClear(calls) == call' = calls /\ data' = Nobody /\ cleared' = TRUE

\* clearClientCaches: the answers in memory and in localStorage go, and what
\* is on its way finds no query any more.
Clear(calls) ==
    /\ call' = [c \in Calls |->
                  [calls[c] EXCEPT !.dropped = @ \/ c \in Queries]]
    /\ data' = Nobody /\ cleared' = TRUE

\* logout, up to its await.
LeaveStore == store' = LoggedOut /\ authMe' = Nobody /\ signingOut' = TRUE

\* The session-expired event, which is not sent from the login page: App
\* clears and logs out.
Expired(calls) ==
    IF path # "login" THEN Clear(calls) /\ LeaveStore
    ELSE call' = calls /\ UNCHANGED <<data, cleared, store, authMe, signingOut>>
-----------------------------------------------------------------------------
(***************************************************************************)
(* client.ts.                                                              *)
(***************************************************************************)
\* The request interceptor: the cached token, or that of getSession.
HeaderToken ==
    IF cachedToken # NoToken THEN cachedToken
    ELSE IF session.user # Nobody THEN Good(session.user) ELSE NoToken

Send(c) == [call EXCEPT ![c] = [NoCall EXCEPT !.pc = "sent", !.token = HeaderToken]]

To(c, pc) == [call EXCEPT ![c].pc = pc]

\* The server looks at the token before anything else.
Serve(c) ==
    /\ call[c].pc = "sent"
    /\ LET t == call[c].token IN
       \/ /\ ~t.good
          /\ call' = To(c, "unauthorized") /\ UNCHANGED <<removed, faults>>
       \/ /\ t.good /\ t.user \in removed /\ c # "accept"
          /\ call' = To(c, "removed") /\ UNCHANGED <<removed, faults>>
       \/ /\ t.good /\ (t.user \notin removed \/ c = "accept")
          /\ call' = [To(c, "ok") EXCEPT ![c].done = @ + 1]
          /\ removed' = IF c = "accept" THEN removed \ {t.user} ELSE removed
          /\ UNCHANGED faults
       \/ t.good /\ call' = To(c, "rejected") /\ Fault /\ UNCHANGED removed
    /\ UNCHANGED <<session, cachedToken, isRefreshing, failedQueue, storeVars,
                   pageVars, expiries>>

\* No answer within 15 seconds: the call, or only its answer, was lost.
Lose(c) ==
    /\ call[c].pc \in {"sent", "ok"} /\ Fault
    /\ call' = To(c, "lost")
    /\ UNCHANGED <<session, cachedToken, isRefreshing, failedQueue, storeVars,
                   pageVars, removed, expiries>>

\* A mutant: writes are repeated, too.
MutNoAnswer(c) ==
    /\ call[c].pc = "lost"
    /\ call' = IF call[c].tries < Retries
               THEN [To(c, "sent") EXCEPT ![c].tries = @ + 1]
               ELSE To(c, "rejected")
    /\ UNCHANGED <<session, cachedToken, isRefreshing, failedQueue, storeVars,
                   pageVars, otherVars>>

\* axiosRetry: a GET without an answer is sent again.
NoAnswer(c) ==
    /\ call[c].pc = "lost"
    /\ call' = IF c \in Gets /\ call[c].tries < Retries
               THEN [To(c, "sent") EXCEPT ![c].tries = @ + 1,
                                          ![c].token = HeaderToken]
               ELSE To(c, "rejected")
    /\ UNCHANGED <<session, cachedToken, isRefreshing, failedQueue, storeVars,
                   pageVars, otherVars>>

\* A mutant: a second 401 starts a refresh of its own.
MutUnauthorized(c) ==
    /\ call[c].pc = "unauthorized"
    /\ IF call[c].retried
       THEN call' = To(c, "rejected") /\ UNCHANGED isRefreshing
       ELSE /\ call' = [To(c, "refreshing") EXCEPT ![c].retried = TRUE]
            /\ isRefreshing' = TRUE
    /\ UNCHANGED <<session, cachedToken, failedQueue, storeVars, pageVars,
                   otherVars>>

\* A 401: the first one refreshes, those that come meanwhile wait for it, and
\* a call that has been sent again gives up.
Unauthorized(c) ==
    /\ call[c].pc = "unauthorized"
    /\ \/ /\ call[c].retried
          /\ call' = To(c, "rejected") /\ UNCHANGED <<isRefreshing, failedQueue>>
       \/ /\ ~call[c].retried /\ isRefreshing
          /\ call' = To(c, "waiting") /\ failedQueue' = failedQueue \cup {c}
          /\ UNCHANGED isRefreshing
       \/ /\ ~call[c].retried /\ ~isRefreshing
          /\ call' = [To(c, "refreshing") EXCEPT ![c].retried = TRUE]
          /\ isRefreshing' = TRUE /\ UNCHANGED failedQueue
    /\ UNCHANGED <<session, cachedToken, storeVars, pageVars, otherVars>>

\* A mutant: a failed refresh rejects its own call only.
MutRequeued(c, pc) ==
    [d \in Calls |->
        IF d = c \/ (d \in failedQueue /\ pc = "sent")
        THEN [call[d] EXCEPT !.pc = pc,
                             !.token = IF pc = "sent" THEN Good(session.user) ELSE @]
        ELSE call[d]]

\* processQueue and the end of the try block: those who wait are resent or
\* rejected like the call that refreshed, and the next 401 refreshes again.
Requeued(c, pc) ==
    [d \in Calls |->
        IF d = c \/ d \in failedQueue
        THEN [call[d] EXCEPT !.pc = pc,
                             !.token = IF pc = "sent" THEN Good(session.user) ELSE @]
        ELSE call[d]]

\* supabase.auth.refreshSession answers with a new token.
RefreshOk(c) ==
    /\ call[c].pc = "refreshing" /\ session.user # Nobody
    /\ session' = Good(session.user) /\ cachedToken' = Good(session.user)
    /\ call' = Requeued(c, "sent")
    /\ failedQueue' = {} /\ isRefreshing' = FALSE
    /\ UNCHANGED <<storeVars, pageVars, otherVars>>

\* It has no session, its refresh token is refused (SIGNED_OUT), or it cannot
\* be reached: all of them lead out.
RefreshFails(c) ==
    /\ call[c].pc = "refreshing"
    /\ \/ /\ session.user = Nobody /\ UNCHANGED <<session, cachedToken, faults>>
       \/ /\ session.user # Nobody /\ Fault
          /\ session' = NoToken /\ cachedToken' = NoToken
       \/ /\ session.user # Nobody /\ Fault /\ UNCHANGED <<session, cachedToken>>
    /\ failedQueue' = {} /\ isRefreshing' = FALSE
    /\ Expired(Requeued(c, "rejected"))
    /\ UNCHANGED <<check, pageVars, removed, expiries>>

\* A mutant: the detail is worded differently, so that it is any 403.
MutRemovedAnswer(c) ==
    /\ call[c].pc = "removed"
    /\ call' = To(c, "rejected")
    /\ UNCHANGED <<session, cachedToken, isRefreshing, failedQueue, storeVars,
                   pageVars, otherVars>>

\* The 403 of a removed account leads out at once.
RemovedAnswer(c) ==
    /\ call[c].pc = "removed"
    /\ Expired(To(c, "rejected"))
    /\ UNCHANGED <<session, cachedToken, isRefreshing, failedQueue, check,
                   pageVars, otherVars>>

\* A page asks or writes; the header polls its notifications.
Issue(c) ==
    /\ c \in Queries \cup Writes /\ call[c].pc = "idle"
    /\ path = "app" /\ store.auth
    /\ call' = Send(c)
    /\ UNCHANGED <<session, cachedToken, isRefreshing, failedQueue, storeVars,
                   pageVars, otherVars>>

\* The answer reaches the query cache, unless the query is gone.
Settle(c) ==
    /\ c \in Queries \cup Writes /\ call[c].pc \in {"ok", "rejected"}
    /\ data' = IF c \in Queries /\ call[c].pc = "ok" /\ ~call[c].dropped
               THEN call[c].token.user ELSE data
    /\ call' = [call EXCEPT ![c] = NoCall]
    /\ UNCHANGED <<session, cachedToken, isRefreshing, failedQueue, store,
                   authMe, check, signingOut, cleared, pageVars, otherVars>>
-----------------------------------------------------------------------------
(***************************************************************************)
(* checkAuth, by App when it mounts or by a page.                          *)
(***************************************************************************)
\* setLoggedIn, setLoggedOut.
Enter(u) == store' = LoggedIn(u) /\ cleared' = FALSE
Leave == store' = LoggedOut /\ UNCHANGED cleared

MeCall(i) == IF i = "app" THEN "appMe" ELSE "pageMe"

\* getSession waits for a refresh, and renews a token that is too old; a
\* session that cannot be renewed is no session.
CheckSession(i) ==
    /\ check[i].pc = "session" /\ ~isRefreshing
    /\ \/ /\ session.user = Nobody
          /\ Leave
          /\ check' = [check EXCEPT ![i].pc = "idle"]
          /\ UNCHANGED <<session, cachedToken, call, faults>>
       \/ /\ session.user # Nobody /\ ~session.good /\ Fault
          /\ session' = NoToken /\ cachedToken' = NoToken
          /\ Leave
          /\ check' = [check EXCEPT ![i].pc = "idle"]
          /\ UNCHANGED call
       \/ /\ session.user # Nobody
          /\ session' = Good(session.user) /\ cachedToken' = Good(session.user)
          /\ IF authMe = session.user
             THEN /\ Enter(session.user)
                  /\ check' = [check EXCEPT ![i].pc = "idle"]
                  /\ UNCHANGED call
             ELSE /\ check' = [check EXCEPT ![i] = [pc |-> "me", user |-> session.user]]
                  /\ call' = [call EXCEPT ![MeCall(i)] =
                       [NoCall EXCEPT !.pc = "sent", !.token = Good(session.user)]]
                  /\ UNCHANGED <<store, cleared>>
          /\ UNCHANGED faults
    /\ UNCHANGED <<isRefreshing, failedQueue, authMe, signingOut, data, pageVars,
                   removed, expiries>>

\* A mutant: a failed fetchMe leaves the store as it is.
MutCheckAnswer(i) ==
    /\ check[i].pc = "me" /\ call[MeCall(i)].pc \in {"ok", "rejected"}
    /\ IF call[MeCall(i)].pc = "ok"
       THEN Enter(check[i].user) /\ authMe' = check[i].user
       ELSE UNCHANGED <<store, cleared, authMe>>
    /\ check' = [check EXCEPT ![i] = [pc |-> "idle", user |-> Nobody]]
    /\ call' = [call EXCEPT ![MeCall(i)] = NoCall]
    /\ UNCHANGED <<session, cachedToken, isRefreshing, failedQueue, signingOut,
                   data, pageVars, otherVars>>

\* fetchMe has answered, or has failed for whatever reason.
CheckAnswer(i) ==
    /\ check[i].pc = "me" /\ call[MeCall(i)].pc \in {"ok", "rejected"}
    /\ IF call[MeCall(i)].pc = "ok"
       THEN Enter(check[i].user) /\ authMe' = check[i].user
       ELSE Leave /\ UNCHANGED authMe
    /\ check' = [check EXCEPT ![i] = [pc |-> "idle", user |-> Nobody]]
    /\ call' = [call EXCEPT ![MeCall(i)] = NoCall]
    /\ UNCHANGED <<session, cachedToken, isRefreshing, failedQueue, signingOut,
                   data, pageVars, otherVars>>

\* useLogout: the menu of a signed-in member.
Logout ==
    /\ path = "app" /\ store.auth /\ ~signingOut
    /\ Clear(call) /\ LeaveStore
    /\ UNCHANGED <<session, cachedToken, isRefreshing, failedQueue, check,
                   pageVars, otherVars>>

\* supabase.auth.signOut drops the session, unless Supabase cannot be reached;
\* nobody looks at its result.
SignedOut ==
    /\ signingOut /\ ~isRefreshing /\ signingOut' = FALSE
    /\ \/ session' = NoToken /\ cachedToken' = NoToken /\ UNCHANGED faults
       \/ Fault /\ UNCHANGED <<session, cachedToken>>
    /\ UNCHANGED <<isRefreshing, failedQueue, call, store, authMe, check, data,
                   cleared, pageVars, removed, expiries>>

\* PrivateRoute: who is not signed in is sent to the login page.
PrivateRoute ==
    /\ path = "app" /\ ~store.checking /\ ~store.auth
    /\ path' = "login" /\ step' = "idle"
    /\ UNCHANGED <<session, clientVars, storeVars, otherVars>>
-----------------------------------------------------------------------------
(***************************************************************************)
(* The pages in front of the routes.                                       *)
(***************************************************************************)
\* supabase-js serves one of these at a time.
CanSignIn == ~isRefreshing /\ ~signingOut

\* LoginPage.handleSubmit and that of InviteAcceptPage: the button is blocked
\* until the closure has ended.  When Supabase knows the password (or has
\* signed the new account up), the login asks for the member's name, and the
\* invited accepts; otherwise there is but a message.
SignIn(u) ==
    /\ path \in {"login", "invite"} /\ step = "idle" /\ CanSignIn
    /\ session' = Good(u) /\ cachedToken' = Good(u)
    /\ LET c == IF path = "login" THEN "pageMe" ELSE "accept" IN
       call' = [call EXCEPT ![c] = [NoCall EXCEPT !.pc = "sent", !.token = Good(u)]]
    /\ step' = IF path = "login" THEN "me" ELSE "accept"
    /\ UNCHANGED <<isRefreshing, failedQueue, storeVars, path, otherVars>>

\* A new account whose address has to be confirmed by mail first.
AwaitConfirmation ==
    /\ path = "invite" /\ step = "idle"
    /\ step' = "confirm"
    /\ UNCHANGED <<session, clientVars, storeVars, path, otherVars>>

\* The end of login: without the member's name nobody is signed in, though
\* Supabase keeps its session.
LoginAnswer ==
    /\ step = "me" /\ call["pageMe"].pc \in {"ok", "rejected"}
    /\ IF call["pageMe"].pc = "ok"
       THEN LET u == call["pageMe"].token.user IN
            Enter(u) /\ authMe' = u /\ path' = "app"
       ELSE UNCHANGED <<store, cleared, authMe, path>>
    /\ step' = "idle"
    /\ call' = [call EXCEPT !["pageMe"] = NoCall]
    /\ UNCHANGED <<session, cachedToken, isRefreshing, failedQueue, check,
                   signingOut, data, otherVars>>

\* The link of the mail leaves a session behind, before or after the callback
\* page has mounted, or never.
LinkOpened(u) ==
    /\ path = "callback" /\ step = "waiting" /\ CanSignIn
    /\ session.user = Nobody
    /\ session' = Good(u) /\ cachedToken' = Good(u)
    /\ UNCHANGED <<isRefreshing, failedQueue, call, storeVars, pageVars, otherVars>>

\* settleSuccess, once.
SettleSuccess ==
    /\ path = "callback" /\ step = "waiting" /\ session.user # Nobody
    /\ step' = "check"
    /\ check' = [check EXCEPT !["page"].pc = "session"]
    /\ UNCHANGED <<session, clientVars, store, authMe, signingOut, data, cleared, path,
                   otherVars>>

\* AUTH_CALLBACK_TIMEOUT_MS pass first.
CallbackTimesOut ==
    /\ path = "callback" /\ step = "waiting"
    /\ step' = "error"
    /\ UNCHANGED <<session, clientVars, storeVars, path, otherVars>>

\* checkAuth of the page has come back, whatever it found: the callback page
\* accepts the invite of its link, if there is one; the invite page is done.
Checked ==
    /\ step = "check" /\ check["page"].pc = "idle"
    /\ \/ /\ path = "callback"
          /\ \/ step' = "accept" /\ call' = [call EXCEPT !["accept"] =
                     [NoCall EXCEPT !.pc = "sent", !.token = HeaderToken]]
             \/ step' = "success" /\ UNCHANGED call
          /\ UNCHANGED path
       \/ /\ path = "invite"
          /\ step' = "idle" /\ path' = "app" /\ UNCHANGED call
    /\ UNCHANGED <<session, cachedToken, isRefreshing, failedQueue, storeVars,
                   otherVars>>

\* The invite page checks after the acceptance, the callback page before it.
AcceptAnswer ==
    /\ step = "accept" /\ call["accept"].pc \in {"ok", "rejected"}
    /\ call' = [call EXCEPT !["accept"] = NoCall]
    /\ IF path = "invite"
       THEN IF call["accept"].pc = "ok"
            THEN step' = "check" /\ check' = [check EXCEPT !["page"].pc = "session"]
            ELSE step' = "idle" /\ UNCHANGED check
       ELSE /\ step' = IF call["accept"].pc = "ok" THEN "success" ELSE "error"
            /\ UNCHANGED check
    /\ UNCHANGED <<session, cachedToken, isRefreshing, failedQueue, store, authMe,
                   signingOut, data, cleared, path, otherVars>>

\* REDIRECT_DELAY_MS later.
Redirect ==
    /\ step = "success"
    /\ path' = "app" /\ step' = "idle"
    /\ UNCHANGED <<session, clientVars, storeVars, otherVars>>

\* The link to the login page.
ToLogin ==
    /\ \/ path = "invite" /\ step \in {"idle", "confirm"}
       \/ path = "callback" /\ step = "error"
    /\ path' = "login" /\ step' = "idle"
    /\ UNCHANGED <<session, clientVars, storeVars, otherVars>>
-----------------------------------------------------------------------------
(***************************************************************************)
(* Around the tab.                                                         *)
(***************************************************************************)
\* The first lines of client.ts, and supabase-js renewing a token by itself.
TokenCached ==
    /\ session.user # Nobody /\ ~isRefreshing
    /\ session' = Good(session.user) /\ cachedToken' = Good(session.user)
    /\ session' # session \/ cachedToken' # cachedToken
    /\ UNCHANGED <<isRefreshing, failedQueue, call, storeVars, pageVars, otherVars>>

\* The hour of an access token is over, wherever it is.
Expire ==
    /\ session.good
    /\ expiries < MaxExpiries /\ expiries' = expiries + 1
    /\ session' = [session EXCEPT !.good = FALSE]
    /\ cachedToken' = [cachedToken EXCEPT !.good = FALSE]
    /\ call' = [c \in Calls |-> [call[c] EXCEPT !.token.good = FALSE]]
    /\ UNCHANGED <<isRefreshing, failedQueue, storeVars, pageVars, removed, faults>>

\* AUTH_ME_TTL is over.
MeExpires ==
    /\ authMe # Nobody /\ authMe' = Nobody /\ Fault
    /\ UNCHANGED <<session, clientVars, store, check, signingOut, data, cleared, pageVars,
                   removed, expiries>>

\* The page is loaded anew, or another address is opened in the tab.
Reload(p) ==
    /\ Fault /\ Loaded(p)
    /\ UNCHANGED <<session, authMe, data, cleared, removed, expiries>>

\* The other member removes the account.
RemoveAccount(u) ==
    /\ u \notin removed /\ Fault
    /\ removed' = removed \cup {u}
    /\ UNCHANGED <<session, clientVars, storeVars, pageVars, expiries>>

CallStep(c) ==
    \/ Serve(c) \/ Lose(c) \/ NoAnswer(c) \/ Unauthorized(c) \/ RefreshOk(c)
    \/ RefreshFails(c) \/ RemovedAnswer(c) \/ Settle(c)

CheckStep(i) == CheckSession(i) \/ CheckAnswer(i)

PageStep ==
    \/ LoginAnswer \/ SettleSuccess \/ CallbackTimesOut
    \/ Checked \/ AcceptAnswer \/ Redirect

Next ==
    \/ \E c \in Calls : CallStep(c) \/ Issue(c)
    \/ \E i \in {"app", "page"} : CheckStep(i)
    \/ PageStep \/ PrivateRoute \/ SignedOut \/ AwaitConfirmation \/ Logout \/ ToLogin
    \/ \E u \in Users : SignIn(u) \/ LinkOpened(u) \/ RemoveAccount(u)
    \/ \E p \in {"login", "app", "callback", "invite"} : Reload(p)
    \/ TokenCached \/ Expire \/ MeExpires

Spec == Init /\ [][Next]_vars

\* Answers and time limits come, closures go on, and the header polls.
FairSpec ==
    /\ Spec
    /\ \A c \in Calls : WF_vars(CallStep(c))
    /\ \A c \in Queries : WF_vars(Issue(c))
    /\ \A i \in {"app", "page"} : WF_vars(CheckStep(i))
    /\ WF_vars(PageStep) /\ WF_vars(PrivateRoute) /\ WF_vars(SignedOut)
-----------------------------------------------------------------------------
\* Calls that got a 401 while another one refreshes are never forgotten: as
\* long as one waits in failedQueue there is exactly one that refreshes, and
\* with it they are all resent or rejected (client.ts 72-103).
NobodyStranded ==
    /\ isRefreshing <=> \E c \in Calls : call[c].pc = "refreshing"
    /\ \A c, d \in Calls :
          call[c].pc = "refreshing" /\ call[d].pc = "refreshing" => c = d
    /\ \A c \in Calls : c \in failedQueue <=> call[c].pc = "waiting"
    /\ failedQueue # {} => isRefreshing

\* However often a call is resent (after a refresh, or by axiosRetry), the
\* server carries a write out at most once, and has done so when the caller is
\* told that it succeeded (the comment above axiosRetry).
WritesOnce ==
    \A c \in Writes \cup {"accept"} :
        /\ call[c].done <= 1
        /\ call[c].pc = "ok" => call[c].done = 1

\* After a logout, or when a call found the session to be over, no answer that
\* was on its way comes back into the caches that were just cleared, neither
\* while the session ends nor on the login page (docstring of clearClientCaches).
NoLateData == cleared => data = Nobody

\* Whatever is lost, refused or refreshed, each call of a page ends for its
\* caller (those of the sign-in pages: LoadersEnd).
EveryCallSettles ==
    \A c \in Queries \cup Writes : call[c].pc # "idle" ~> call[c].pc = "idle"

\* Nobody looks at a loader for ever: neither the routes while the store is
\* checking, nor the page behind the link of a mail.
LoadersEnd ==
    LET loading == store.checking \/ (path = "callback" /\ step # "error")
    IN loading ~> ~loading

\* A member the other one has removed does not stay inside: the next poll is
\* refused and leads to the login page (comment of REMOVED_USER_DETAIL).
RemovedLeaves ==
    \A u \in Users :
        LET inside == /\ path = "app" /\ store.auth /\ store.user = u
                      /\ u \in removed
        IN inside ~> ~inside
=============================================================================
