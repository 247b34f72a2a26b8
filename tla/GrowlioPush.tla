----------------------------- MODULE GrowlioPush -----------------------------
(***************************************************************************)
(* The growlio outbox (app/services/growlio_push_service.py, its callers   *)
(* in transaction_service.py, the table models/growlio_push_queue.py).     *)
(*                                                                         *)
(* A committed ledger edit leaves queue rows; the request that committed   *)
(* them tries to send them at once, and every later page load of a user    *)
(* re-sends what is left, oldest first.  growlio is an external service:   *)
(* it writes only to accounts of the user whose token it is shown, may     *)
(* fail to answer before or after it recorded a movement, and records one  *)
(* external_ref once.                                                      *)
(*                                                                         *)
(* Requests and background tasks are threads of the server (Workers).  The *)
(* steps of a send are those between which other threads can run: the row  *)
(* is read, growlio is called, the outcome is committed.                   *)
(***************************************************************************)
EXTENDS Integers, FiniteSets

CONSTANTS
    Users,          \* the members of the household, who load pages
    NoOwner,        \* owner_user_id NULL: a product both share
    NoHolder,       \* the holder of an account that growlio has closed
    Accounts,       \* growlio accounts that products are linked to
    Holder,         \* Holder[a]: the user whose token growlio accepts for a
    RowKinds,       \* the <<account, owner>> pairs linked products have
    Workers,        \* server threads: requests and background tasks
    RowIds,         \* bound: the ids of the rows ever queued
    MaxStaged,      \* bound: rows one edit leaves (2: withdraw and deposit)
    MAX_ATTEMPTS,   \* failures after which a row is not sent any more
    FLUSH_BATCH,    \* rows one page load re-sends at most
    MaxFaults       \* bound: unreachable growlio, lost answers and crashes

NoRow == 0
Unstaged == [account |-> "none", owner |-> "none"]

ASSUME ConstantsAssumption ==
    /\ NoOwner \notin Users /\ NoHolder \notin Users
    /\ Holder \in [Accounts -> Users \cup {NoHolder}]
    /\ RowKinds \subseteq [account : Accounts, owner : Users \cup {NoOwner}]
    /\ Unstaged \notin RowKinds
    /\ RowIds \subseteq Nat \ {NoRow} /\ IsFiniteSet(RowIds)
    /\ MaxStaged \in Nat \ {0} /\ FLUSH_BATCH \in Nat \ {0}
    /\ MAX_ATTEMPTS \in Nat \ {0} /\ MaxFaults \in Nat

VARIABLES
    kind,       \* growlio_push_queue: account and owner, Unstaged if no row
    attempts,   \* .attempts
    sent,       \* .sent_at IS NOT NULL
    refs,       \* growlio: the external_refs it has recorded
    recorded,   \* growlio: how many entries it holds for each row
    task,       \* what each worker is doing, see Task
    answered,   \* history: rows answered without a warning, per kind of edit
    faults      \* faults spent

table == <<kind, attempts, sent>>
growlio == <<refs, recorded>>
vars == <<table, growlio, task, answered, faults>>

Queued == {i \in RowIds : kind[i] # Unstaged}

\* A transaction is saved (created or updated), or deleted, alone or with
\* others.
Edits == {"save", "delete"}

\* The routes that set X-Growlio-Sync-Warning when a row of theirs failed.
Warning == {"save"}

\* The locals of a sending request or of flush_pending.
Task ==
    [ pc     : {"idle", "load", "push", "commit"},
      mode   : {"request", "flush"},  \* right after a commit, on a page load
      edit   : Edits,                 \* what the request does to the ledger
      user   : Users \cup {NoOwner},  \* whose token the worker carries
      todo   : SUBSET RowIds,         \* rows it still has to send
      cur    : RowIds \cup {NoRow},   \* the row it is sending
      seen   : Nat,                   \* attempts, as read before the call
      ok     : BOOLEAN,               \* did the client get growlio's answer
      failed : BOOLEAN,               \* Transaction.growlio_sync_failed
      asked  : SUBSET RowIds ]        \* the rows its request committed

Idle ==
    [ pc |-> "idle", mode |-> "request", edit |-> "save", user |-> NoOwner,
      todo |-> {}, cur |-> NoRow, seen |-> 0, ok |-> FALSE, failed |-> FALSE,
      asked |-> {} ]

TypeOK ==
    /\ kind \in [RowIds -> RowKinds \cup {Unstaged}]
    /\ attempts \in [RowIds -> Nat]
    /\ sent \in [RowIds -> BOOLEAN]
    /\ recorded \in [RowIds -> Nat]
    /\ task \in [Workers -> Task]
    /\ answered \in [Edits -> SUBSET RowIds]
    /\ faults \in 0..MaxFaults

Init ==
    /\ kind = [i \in RowIds |-> Unstaged]
    /\ attempts = [i \in RowIds |-> 0]
    /\ sent = [i \in RowIds |-> FALSE]
    /\ refs = {}
    /\ recorded = [i \in RowIds |-> 0]
    /\ task = [w \in Workers |-> Idle]
    /\ answered = [e \in Edits |-> {}]
    /\ faults = 0
-----------------------------------------------------------------------------
\* A mutant: every attempt sends a reference of its own.
MutRefPerAttempt(i) == <<"nestlio:q", i, attempts[i]>>

\* The idempotency key: growlio records one reference once.
ExternalRef(i) == <<"nestlio:q", i>>

\* A mutant: the query forgets whose row it is.
MutPendingAnyOwner(u) ==
    {i \in Queued : ~sent[i] /\ attempts[i] < MAX_ATTEMPTS}

\* Rows a page load of u re-sends: unsent, not given up, u's own or shared.
Pending(u) ==
    {i \in Queued : /\ ~sent[i]
                    /\ attempts[i] < MAX_ATTEMPTS
                    /\ kind[i].owner \in {NoOwner, u}}

\* ORDER BY id LIMIT FLUSH_BATCH.
Batch(u) ==
    {i \in Pending(u) :
        Cardinality({j \in Pending(u) : j < i}) < FLUSH_BATCH}

Oldest(R) == {i \in R : \A j \in R : i <= j}

\* growlio scopes every write by the JWT it is shown.
CanWrite(u, a) == Holder[a] = u

\* growlio's side of POST /external/transactions.
GrowlioRecords(i) ==
    /\ refs' = refs \cup {ExternalRef(i)}
    /\ recorded' = IF ExternalRef(i) \in refs THEN recorded
                   ELSE [recorded EXCEPT ![i] = @ + 1]
-----------------------------------------------------------------------------
\* A ledger edit of user u commits with the rows R that stage() put in its
\* session; with a token the request goes on to send them.  Ids are drawn
\* from a database sequence before the commit, so a later commit may carry
\* smaller ids.
StageRows(w, u, R, edit, hasToken) ==
    /\ task[w] = Idle
    /\ R \cap Queued = {} /\ Cardinality(R) \in 1..MaxStaged
    /\ \E k \in [R -> RowKinds] :
          kind' = [i \in RowIds |-> IF i \in R THEN k[i] ELSE kind[i]]
    /\ task' = IF hasToken
               THEN [task EXCEPT ![w] = [Idle EXCEPT
                       !.pc = "load", !.edit = edit, !.user = u,
                       !.todo = R, !.asked = R]]
               ELSE task
    /\ UNCHANGED <<attempts, sent, growlio, answered, faults>>

\* send() reads row i: attributes expired by a commit are loaded again.
Read(t, i) == [t EXCEPT !.pc = "push", !.cur = i, !.seen = attempts[i]]

\* A page load of u runs flush_pending; the query also reads its first row.
StartFlush(w, u) ==
    /\ task[w] = Idle
    /\ \E i \in Oldest(Batch(u)) :
          task' = [task EXCEPT ![w] =
                     Read([Idle EXCEPT !.mode = "flush", !.user = u,
                                       !.todo = Batch(u)], i)]
    /\ UNCHANGED <<table, growlio, answered, faults>>

LoadRow(w) ==
    /\ task[w].pc = "load"
    /\ \E i \in Oldest(task[w].todo) :
          task' = [task EXCEPT ![w] = Read(@, i)]
    /\ UNCHANGED <<table, growlio, answered, faults>>

\* push_transaction() returns (isOk) or raises; nothing else changes here.
Answer(w, isOk) ==
    /\ task[w].pc = "push"
    /\ task' = [task EXCEPT ![w].pc = "commit", ![w].ok = isOk]
    /\ UNCHANGED <<table, answered>>

Reaches(w) == CanWrite(task[w].user, kind[task[w].cur].account)

PushAccepted(w) ==
    /\ Answer(w, TRUE)
    /\ Reaches(w)
    /\ GrowlioRecords(task[w].cur)
    /\ UNCHANGED faults

\* growlio recorded the movement, its answer never arrived.
PushAnswerLost(w) ==
    /\ Answer(w, FALSE)
    /\ Reaches(w)
    /\ GrowlioRecords(task[w].cur)
    /\ faults < MaxFaults /\ faults' = faults + 1

\* growlio is asleep, unreachable or not configured.
PushUnreachable(w) ==
    /\ Answer(w, FALSE)
    /\ faults < MaxFaults /\ faults' = faults + 1
    /\ UNCHANGED growlio

\* growlio refuses: the account is closed or not this user's.
PushRejected(w) ==
    /\ Answer(w, FALSE)
    /\ ~Reaches(w)
    /\ UNCHANGED <<growlio, faults>>

\* A mutant: sent_at is set whatever growlio answered.
MutSentAnyway(w) ==
    LET i == task[w].cur IN
    /\ task[w].pc = "commit"
    /\ sent' = [sent EXCEPT ![i] = TRUE]
    /\ task' = [task EXCEPT ![w].pc = "load", ![w].todo = @ \ {i}]
    /\ UNCHANGED <<kind, attempts, growlio, answered, faults>>

\* The success commit: sent_at is the only column written.
CommitSent(w) ==
    LET i == task[w].cur IN
    /\ task[w].pc = "commit" /\ task[w].ok
    /\ sent' = [sent EXCEPT ![i] = TRUE]
    /\ task' = [task EXCEPT ![w].pc = "load", ![w].todo = @ \ {i}]
    /\ UNCHANGED <<kind, attempts, growlio, answered, faults>>

\* A mutant: a failed re-send is not counted.
MutUncounted(w) ==
    /\ task[w].pc = "commit" /\ ~task[w].ok
    /\ task' = [task EXCEPT ![w].pc = "load", ![w].failed = TRUE,
                            ![w].todo = {}]
    /\ UNCHANGED <<table, growlio, answered, faults>>

\* The failure commit: attempts is one more than the value read before the
\* call.  A request warns and tries its next row, a flush stops.
CommitFailure(w) ==
    LET i == task[w].cur IN
    /\ task[w].pc = "commit" /\ ~task[w].ok
    /\ attempts' = [attempts EXCEPT ![i] = task[w].seen + 1]
    /\ task' = [task EXCEPT
                  ![w].pc = "load", ![w].failed = TRUE,
                  ![w].todo = IF task[w].mode = "flush" THEN {} ELSE @ \ {i}]
    /\ UNCHANGED <<kind, sent, growlio, answered, faults>>

\* A mutant: the flag of a row that failed is not looked at.
MutWarns(t) == FALSE

\* The answer carries X-Growlio-Sync-Warning: a row failed, and the route is
\* one that passes it on.
Warns(t) == t.failed /\ t.edit \in Warning

\* The request answers, with or without the warning; the background task
\* ends.
Finish(w) ==
    /\ task[w].pc = "load" /\ task[w].todo = {}
    /\ task' = [task EXCEPT ![w] = Idle]
    /\ answered' = IF task[w].mode = "request" /\ ~Warns(task[w])
                   THEN [answered EXCEPT
                          ![task[w].edit] = @ \cup task[w].asked]
                   ELSE answered
    /\ UNCHANGED <<table, growlio, faults>>

\* The server dies under a worker: what is not committed is gone.
Crash(w) ==
    /\ task[w] # Idle
    /\ faults < MaxFaults /\ faults' = faults + 1
    /\ task' = [task EXCEPT ![w] = Idle]
    /\ UNCHANGED <<table, growlio, answered>>

Push(w) ==
    \/ PushAccepted(w) \/ PushAnswerLost(w)
    \/ PushUnreachable(w) \/ PushRejected(w)

Sends(w) ==
    LoadRow(w) \/ Push(w) \/ CommitSent(w) \/ CommitFailure(w) \/ Finish(w)

Next ==
    \E w \in Workers :
        \/ \E u \in Users, R \in SUBSET RowIds,
              edit \in Edits, hasToken \in BOOLEAN :
              StageRows(w, u, R, edit, hasToken)
        \/ \E u \in Users : StartFlush(w, u)
        \/ Sends(w)
        \/ Crash(w)

Spec == Init /\ [][Next]_vars

\* A started send goes on (each call has a timeout), and every member keeps
\* opening pages, each load of which runs a flush.
Fairness ==
    /\ \A w \in Workers : WF_vars(Sends(w))
    /\ \A u \in Users : SF_vars(\E w \in Workers : StartFlush(w, u))

FairSpec == Spec /\ Fairness
-----------------------------------------------------------------------------
\* growlio never books a movement twice, although a row is sent again after
\* a lost answer, after a crash between the call and the commit, and by two
\* page loads that picked it up together.
AtMostOnce == \A i \in RowIds : recorded[i] <= 1

\* A row marked as sent is in growlio's books: no failure, crash or
\* overlapping send marks a row whose movement never arrived.
SentMeansRecorded == \A i \in RowIds : sent[i] => recorded[i] = 1

\* A save that answers without X-Growlio-Sync-Warning has told the truth:
\* every movement it queued is in growlio's books.  Of a save only: a delete
\* never warns.
NoSilentLoss == \A i \in answered["save"] : recorded[i] = 1

\* A row is given up only when nobody could have sent it: its account is
\* closed.  (Comment at MAX_ATTEMPTS: rows whose link is broken.)
GivenUpOnlyIfClosed ==
    \A i \in Queued :
        attempts[i] >= MAX_ATTEMPTS /\ recorded[i] = 0
            => Holder[kind[i].account] = NoHolder

\* Each movement of a product owned by the holder of its account arrives,
\* however often growlio slept, however many rows of a closed account are
\* queued before it, and whichever of the two made the edit: it does not stay
\* unbooked for ever.
EventuallyRecorded ==
    \A i \in RowIds :
        []<>(/\ kind[i] # Unstaged
             /\ kind[i].owner \in Users
             /\ Holder[kind[i].account] = kind[i].owner
             => recorded[i] = 1)

\* The outbox implements its abstract promise.
Delivery == INSTANCE PushDelivery
              WITH queued <- Queued,
                   applied <- recorded,
                   confirmed <- {i \in RowIds : sent[i]}

ImplementsDelivery == Delivery!Spec
=============================================================================
