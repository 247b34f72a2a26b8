----------------------------- MODULE RecurringJob -----------------------------
(***************************************************************************)
(* Recurring transactions (app/services/recurring_service.py) and the      *)
(* daily job that posts them (routers/internal_jobs.py, scheduler/jobs.py, *)
(* scheduler/job_lock.py).                                                 *)
(*                                                                         *)
(* GitHub Actions calls the job over HTTP and retries a call that takes    *)
(* too long, so calls overlap; an advisory lock lets one of them in.  The  *)
(* job queries the due rules once, then posts one transaction per due date *)
(* of each, committing after each; members edit the rules meanwhile, and   *)
(* their requests take no lock.  A day is a natural number.                *)
(***************************************************************************)
EXTENDS Naturals, FiniteSets

CONSTANTS
    Rules,          \* recurring_expenses rows
    Bad,            \* rules whose transaction is always refused
    Calls,          \* calls of the job: the cron's and its retries
    NoCall, NoRule, NoRequest,
    Expired,        \* a row its session has not loaded since its last commit
    Members,        \* members who edit rules
    Periods,        \* days between due dates: weekly, monthly, yearly
    Ends,           \* end dates a form can hold; one past MaxDay: none
    Starts,         \* start dates a form can hold
    JOB_GUARD,      \* periods of one rule that one run posts at most (24)
    REACTIVATE_GUARD, \* periods a reactivation skips at most (240)
    MaxDay,         \* bound: the last day
    MaxFaults,      \* bound: crashes of the server and passing DB errors
    MaxEdits,       \* bound: edits of the members
    RaceWithJob     \* may a reactivation be open while the job runs?

Days == 1..MaxDay

\* A rule as an ORM session has loaded it.
Row == [active : BOOLEAN, next : Nat, end : Nat, period : Periods]

\* A reactivation: the rule it has loaded, and when.
Request == [rule : Rules, row : Row, today : Nat]

ASSUME ConstantsAssumption ==
    /\ Bad \subseteq Rules /\ IsFiniteSet(Rules)
    /\ NoCall \notin Calls /\ NoRule \notin Rules
    /\ Expired \notin Row /\ NoRequest \notin Request
    /\ Periods \subseteq Nat \ {0} /\ Ends \subseteq Nat /\ Starts \subseteq Days
    /\ JOB_GUARD \in Nat \ {0} /\ REACTIVATE_GUARD \in Nat
    /\ MaxDay \in Nat \ {0} /\ MaxFaults \in Nat /\ MaxEdits \in Nat
    /\ RaceWithJob \in BOOLEAN

VARIABLES
    created,        \* the rules that exist
    active,         \* .is_active
    next,           \* .next_due_date
    end,            \* .end_date
    period,         \* .frequency and the days of the month
    posted,         \* how many transactions each rule has on each day
    today,          \* the calendar
    holder,         \* the call whose connection holds the advisory lock
    run,            \* the locals of each call of the job
    request,        \* the reactivation each member has open
    first,          \* history: the first due date of each rule
    plain,          \* history: rules no member has touched since
    resumed,        \* history: the day of each rule's last reactivation
    edits, faults   \* spent bounds

rows == <<created, active, next, end, period>>
history == <<first, plain, resumed>>
vars == <<rows, posted, today, holder, run, request, history, edits, faults>>

Load(r) ==
    [active |-> active[r], next |-> next[r], end |-> end[r],
     period |-> period[r]]

AllExpired == [r \in Rules |-> Expired]

Stopped ==
    [ pc |-> "idle", today |-> 0, items |-> {}, cur |-> NoRule, guard |-> 0,
      seen |-> AllExpired, dirty |-> {} ]

Run ==
    [ pc    : {"idle", "pick", "rule"},
      today : Nat,                   \* the day the job was called for
      items : SUBSET Rules,          \* due_items not handled yet
      cur   : Rules \cup {NoRule},   \* the rule it is posting
      guard : 0..JOB_GUARD,          \* periods of cur posted so far
      seen  : [Rules -> Row \cup {Expired}], \* its session's rows
      dirty : SUBSET Rules ]         \* is_active = False not committed yet

TypeOK ==
    /\ created \in SUBSET Rules /\ plain \in SUBSET Rules
    /\ active \in [Rules -> BOOLEAN]
    /\ next \in [Rules -> Nat] /\ end \in [Rules -> Nat]
    /\ period \in [Rules -> Periods]
    /\ posted \in [Rules -> [Days -> Nat]]
    /\ today \in Days
    /\ holder \in Calls \cup {NoCall}
    /\ run \in [Calls -> Run]
    /\ request \in [Members -> Request \cup {NoRequest}]
    /\ first \in [Rules -> Nat] /\ resumed \in [Rules -> Nat]

Init ==
    /\ created = {}
    /\ active = [r \in Rules |-> FALSE]
    /\ next = [r \in Rules |-> 0] /\ end = [r \in Rules |-> 0]
    /\ period \in [Rules -> Periods]
    /\ posted = [r \in Rules |-> [d \in Days |-> 0]]
    /\ today = 1
    /\ holder = NoCall
    /\ run = [j \in Calls |-> Stopped]
    /\ request = [m \in Members |-> NoRequest]
    /\ first = [r \in Rules |-> 0] /\ resumed = [r \in Rules |-> 0]
    /\ plain = {}
    /\ edits = 0 /\ faults = 0
-----------------------------------------------------------------------------
Edit == edits < MaxEdits /\ edits' = edits + 1

\* POST /recurring: the first due date is the start date.
CreateRecurring(r, day, last, p) ==
    /\ r \notin created /\ Edit
    /\ created' = created \cup {r} /\ plain' = plain \cup {r}
    /\ active' = [active EXCEPT ![r] = TRUE]
    /\ next' = [next EXCEPT ![r] = day]
    /\ end' = [end EXCEPT ![r] = last]
    /\ period' = [period EXCEPT ![r] = p]
    /\ first' = [first EXCEPT ![r] = day]
    /\ UNCHANGED <<posted, today, holder, run, request, resumed, faults>>

\* PUT /recurring/r writes the columns of the form, never next_due_date.
UpdateRecurring(r, last, p) ==
    /\ r \in created /\ Edit
    /\ end' = [end EXCEPT ![r] = last]
    /\ period' = [period EXCEPT ![r] = p]
    /\ plain' = plain \ {r}
    /\ UNCHANGED <<created, active, next, posted, today, holder, run, request,
                   first, resumed, faults>>

DeactivateRecurring(r) ==
    /\ r \in created /\ Edit
    /\ active' = [active EXCEPT ![r] = FALSE]
    /\ plain' = plain \ {r}
    /\ UNCHANGED <<created, next, end, period, posted, today, holder, run,
                   request, first, resumed, faults>>

\* reactivate_recurring loads the rule ...
StartReactivate(m, r) ==
    /\ r \in created /\ Edit
    /\ request[m] = NoRequest
    /\ RaceWithJob \/ holder = NoCall
    /\ request' = [request EXCEPT ![m] =
                     [rule |-> r, row |-> Load(r), today |-> today]]
    /\ UNCHANGED <<rows, posted, today, holder, run, history, faults>>

\* A mutant: the backlog is not skipped.
MutNoSkip(row, day) == {0}

\* ... skips what fell due before today, no more than the guard allows ...
Skips(row, day) ==
    {k \in 0..REACTIVATE_GUARD :
        k = REACTIVATE_GUARD \/ row.next + k * row.period >= day}

\* ... and writes back the columns that differ from what it loaded.
CommitReactivate(m) ==
    LET q == request[m]
        r == q.rule
    IN
    /\ q # NoRequest
    /\ active' = [active EXCEPT ![r] = @ \/ ~q.row.active]
    /\ \E k \in Skips(q.row, q.today) :
          /\ \A other \in Skips(q.row, q.today) : k <= other
          /\ next' = IF k = 0 THEN next
                     ELSE [next EXCEPT ![r] = q.row.next + k * q.row.period]
    /\ request' = [request EXCEPT ![m] = NoRequest]
    /\ resumed' = [resumed EXCEPT ![r] = q.today]
    /\ plain' = plain \ {r}
    /\ UNCHANGED <<created, end, period, posted, today, holder, run, first,
                   edits, faults>>
-----------------------------------------------------------------------------
Due(day) == {r \in created : active[r] /\ next[r] <= day}

\* The locals of the job after its query.
Entered ==
    [ pc |-> "pick", today |-> today, items |-> Due(today), cur |-> NoRule,
      guard |-> 0, dirty |-> {},
      seen |-> [r \in Rules |-> IF r \in Due(today) THEN Load(r)
                                ELSE Expired] ]

\* A mutant: no advisory lock is taken.
MutNoLock(j) ==
    /\ run[j] = Stopped
    /\ \A m \in Members : request[m] = NoRequest
    /\ holder' = j
    /\ run' = [run EXCEPT ![j] = Entered]
    /\ UNCHANGED <<rows, posted, today, request, history, edits, faults>>

\* POST /internal/jobs/daily-due-date-check: only the call that gets the
\* lock enters the job, which queries the due rules.  Any other call
\* answers "skipped" and changes nothing.
CallJob(j) ==
    /\ run[j] = Stopped
    /\ holder = NoCall
    /\ RaceWithJob \/ \A m \in Members : request[m] = NoRequest
    /\ holder' = j
    /\ run' = [run EXCEPT ![j] = Entered]
    /\ UNCHANGED <<rows, posted, today, request, history, edits, faults>>

\* The query has no ORDER BY.
PickRule(j) ==
    /\ run[j].pc = "pick"
    /\ \E r \in run[j].items :
          run' = [run EXCEPT ![j].pc = "rule", ![j].cur = r, ![j].guard = 0,
                             ![j].items = @ \ {r}]
    /\ UNCHANGED <<rows, posted, today, holder, request, history, edits, faults>>

\* An expired row is loaded again when the loop next looks at it.
Reload(j) ==
    LET r == run[j].cur IN
    /\ run[j].pc = "rule" /\ run[j].seen[r] = Expired
    /\ run' = [run EXCEPT ![j].seen[r] = Load(r)]
    /\ UNCHANGED <<rows, posted, today, holder, request, history, edits, faults>>

\* The while condition, on the row the session has loaded.
Continues(j) ==
    /\ run[j].pc = "rule" /\ run[j].seen[run[j].cur] # Expired
    /\ run[j].seen[run[j].cur].next <= run[j].today
    /\ run[j].guard < JOB_GUARD

\* A mutant: the end date itself is no due date any more.
MutEndedEarly(j) ==
    run[j].seen[run[j].cur].next >= run[j].seen[run[j].cur].end

Ended(j) ==
    run[j].seen[run[j].cur].next > run[j].seen[run[j].cur].end

\* A commit writes the is_active changes still pending.
Flushed(dirty) == [r \in Rules |-> active[r] /\ r \notin dirty]

\* The transaction and the next due date are saved by one commit, which
\* expires every row of the session.
PostPeriod(j) ==
    LET r == run[j].cur
        row == run[j].seen[r]
    IN
    /\ Continues(j) /\ ~Ended(j) /\ r \notin Bad
    /\ next' = [next EXCEPT ![r] = row.next + row.period]
    /\ posted' = [posted EXCEPT ![r][row.next] = @ + 1]
    /\ active' = Flushed(run[j].dirty)
    /\ run' = [run EXCEPT ![j].guard = @ + 1,
                          ![j].seen = AllExpired, ![j].dirty = {}]
    /\ UNCHANGED <<created, end, period, today, holder, request, history,
                   edits, faults>>

\* Mutants: without the rollback the next commit saves the advance; without
\* the try block a failure ends the run.
MutNoRollback(j) ==
    LET r == run[j].cur
        row == run[j].seen[r]
    IN
    /\ Continues(j) /\ ~Ended(j)
    /\ IF r \in Bad THEN UNCHANGED faults
       ELSE faults < MaxFaults /\ faults' = faults + 1
    /\ next' = [next EXCEPT ![r] = row.next + row.period]
    /\ run' = [run EXCEPT ![j].pc = "pick", ![j].seen = AllExpired]
    /\ UNCHANGED <<created, active, end, period, posted, today, holder, request,
                   history, edits>>

MutStopAtFailure(j) ==
    /\ Continues(j) /\ ~Ended(j)
    /\ IF run[j].cur \in Bad THEN UNCHANGED faults
       ELSE faults < MaxFaults /\ faults' = faults + 1
    /\ run' = [run EXCEPT ![j].pc = "pick", ![j].seen = AllExpired,
                          ![j].items = {}, ![j].dirty = {}]
    /\ UNCHANGED <<rows, posted, today, holder, request, history, edits>>

\* create_transaction raises: the rollback drops all that is pending.
FailRule(j) ==
    /\ Continues(j) /\ ~Ended(j)
    /\ IF run[j].cur \in Bad THEN UNCHANGED faults
       ELSE faults < MaxFaults /\ faults' = faults + 1
    /\ run' = [run EXCEPT ![j].pc = "pick", ![j].seen = AllExpired, ![j].dirty = {}]
    /\ UNCHANGED <<rows, posted, today, holder, request, history, edits>>

\* Past its end date the rule is switched off, by a later commit.
EndRule(j) ==
    LET r == run[j].cur IN
    /\ Continues(j) /\ Ended(j)
    /\ run' = [run EXCEPT ![j].pc = "pick",
                 ![j].dirty = IF run[j].seen[r].active THEN @ \cup {r} ELSE @,
                 ![j].seen[r].active = FALSE]
    /\ UNCHANGED <<rows, posted, today, holder, request, history, edits, faults>>

NextRule(j) ==
    /\ run[j].pc = "rule" /\ run[j].seen[run[j].cur] # Expired
    /\ ~Continues(j)
    /\ run' = [run EXCEPT ![j].pc = "pick"]
    /\ UNCHANGED <<rows, posted, today, holder, request, history, edits, faults>>

\* The last commit, and the lock is released.
FinishJob(j) ==
    /\ run[j].pc = "pick" /\ run[j].items = {}
    /\ active' = Flushed(run[j].dirty)
    /\ run' = [run EXCEPT ![j] = Stopped]
    /\ holder' = NoCall
    /\ UNCHANGED <<created, next, end, period, posted, today, request, history,
                   edits, faults>>

\* The server dies: its transaction is rolled back, its connections close
\* and Postgres frees the lock.
Crash ==
    /\ faults < MaxFaults /\ faults' = faults + 1
    /\ run' = [j \in Calls |-> Stopped]
    /\ request' = [m \in Members |-> NoRequest]
    /\ holder' = NoCall
    /\ UNCHANGED <<rows, posted, today, history, edits>>

Tick ==
    /\ today < MaxDay /\ today' = today + 1
    /\ UNCHANGED <<rows, posted, holder, run, request, history, edits, faults>>

JobStep(j) ==
    \/ PickRule(j) \/ Reload(j) \/ PostPeriod(j) \/ FailRule(j)
    \/ EndRule(j) \/ NextRule(j) \/ FinishJob(j)

MemberStep ==
    \E r \in Rules :
        \/ \E day \in Starts, last \in Ends, p \in Periods :
              CreateRecurring(r, day, last, p)
        \/ \E last \in Ends, p \in Periods : UpdateRecurring(r, last, p)
        \/ DeactivateRecurring(r)
        \/ \E m \in Members : StartReactivate(m, r)

Next ==
    \/ MemberStep
    \/ \E m \in Members : CommitReactivate(m)
    \/ \E j \in Calls : CallJob(j) \/ JobStep(j)
    \/ Crash
    \/ Tick

Spec == Init /\ [][Next]_vars

\* A run that has started goes on, requests are answered, and the cron
\* calls the job again and again.
Fairness ==
    /\ \A j \in Calls : WF_vars(JobStep(j))
    /\ \A m \in Members : WF_vars(CommitReactivate(m))
    /\ SF_vars(\E j \in Calls : CallJob(j))

FairSpec == Spec /\ Fairness
-----------------------------------------------------------------------------
\* A due date is posted once, although the job is called again while it
\* runs, is retried after a crash and starts over after another rule of the
\* same run failed ("Safe to call repeatedly (idempotent per due date)").
NeverPostedTwice == \A r \in Rules, d \in Days : posted[r][d] <= 1

\* No due date is skipped: a rule nobody touched since it was created has
\* posted exactly its due dates before next_due_date, and each of them once.
NoPeriodLost ==
    \A r \in plain, d \in Days :
        posted[r][d] = 1 <=> /\ first[r] <= d /\ d < next[r]
                             /\ (d - first[r]) % period[r] = 0

\* A rule that was switched back on posts nothing that fell due while it
\* was off (docstring of reactivate_recurring).
NoBackPosting ==
    [][\A r \in Rules, d \in Days :
          posted'[r][d] > posted[r][d] => d >= resumed[r]]_posted

\* A rule runs exactly to its end: it posts nothing later, and while no
\* member touches it the job switches it off only when no due date is left.
EndsOnItsDate ==
    \A r \in plain :
        /\ \A d \in Days : posted[r][d] > 0 => d <= end[r]
        /\ ~active[r] => next[r] > end[r]

Owes(r) ==
    r \in created /\ active[r] /\ next[r] <= today /\ next[r] <= end[r]

\* A rule that can be posted catches up whatever happens to the others: one
\* that is always refused does not hold it back, nor do a crash, an error
\* or a backlog of more than JOB_GUARD periods.
GoodRulesCatchUp == \A r \in Rules \ Bad : Owes(r) ~> ~Owes(r)
=============================================================================
