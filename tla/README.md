# nestlio: specifications, model checking and proofs

nestlio is a ledger for a couple: a FastAPI service over SQLAlchemy and a
Postgres database it shares with another application (Supabase), a React
single-page client, a handful of jobs that a GitHub Actions cron calls over
HTTP, and growlio, an external asset service the household's savings live in.

This directory holds TLA+ modules of the parts of nestlio whose correctness
depends on the order in which things happen, TLC configurations that check
them on small instances, and TLAPS proofs of the properties that matter most.
`PROJECT.json` lists, for machines, the components, the runs, the theorems,
the source lines behind every definition and the hazards the properties are
for.

## 1. The system

### Execution model

Everything in `app/` runs in one server process; each request and each
background task is a thread with a SQLAlchemy session of its own. Postgres
runs at READ COMMITTED and no query of the application locks a row
(`FOR UPDATE` does not occur), so between the moment a session loads a row and
the moment it commits, any other session may commit. A session is opened with
`autoflush=False` and `expire_on_commit`: an attribute is read from the database
once, and again only after a commit or a rollback; a commit writes the columns
whose value differs from the one loaded, computed from what was loaded. The
scheduled jobs are HTTP endpoints that GitHub Actions calls with
`--retry 2 --retry-all-errors --max-time 170`, so calls of a job overlap and are
repeated. growlio is called over HTTP with the user's own token and a timeout of
five seconds; it sleeps when it is not used.

In the models of the server, what a request has loaded is a local of the
request, a commit is one atomic step, and any other step may come between a
load and the commit. In the browser everything runs in one thread, and what
interleaves are the continuations: a callback or the code after an `await` is one
step, and an answer, another callback or the other member may come before it.

### Components

| Component | State | Hard part | What makes it correct | Modelled in |
|---|---|---|---|---|
| growlio outbox: `growlio_push_service`, `growlio_client` | `growlio_push_queue`; growlio's books | lost answers, crashes between call and commit, two workers with one row, head-of-line blocking | a movement is booked once; reported as sent only when booked; arrives in the end | `GrowlioPush`, `PushDelivery` |
| Ledger and savings products: `transaction_service`, `savings_product_service` | `transactions`, `current_balance`, links | loaded balances written back as sums, an edit submitted twice, a stale form | balance and outbox = what the transactions say | `SavingsLedger` (partly) |
| Recurring transactions and jobs: `recurring_service`, `scheduler/` | rules, advisory lock | overlapping calls, rollbacks that undo too much, a reactivation during the job | each due date posted once, none lost, nothing past the end | `RecurringJob` (partly) |
| Household: `user_service`, `invite_service`, `dependencies` | `users`, `invites` | check-then-insert, commits in two steps, old invites | never more than two members, never none | `Household` (partly) |
| Notifications and reminders: `notification_service`, `event_reminder_service` | the log | look, mail, log: three steps; a crash after the mail; a cron that misses a tick | one mail per key; no reminder too late | `Notifications` (partly) |
| Todos: `todo_service` | `todos` | two members complete one occurrence; a reopening after the next one was made | one next occurrence, on the right day | `Todos` (partly) |
| Calendar events: `event_service` | events | an event moved into or out of its window | reminders follow it | `Notifications`, `LedgerForms` (partly) |
| Calendar arithmetic: `utils/dates.py` | none | the 31st in a short month | strictly later, back to the anchor day | `Todos`, `RecurringJob` (partly) |
| API client, session store, sign-in pages: `api/client.ts`, `stores/authStore.ts`, `pages/` | token, refresh in flight, queue, route | many 401s at once, answers after a logout, a member who was removed | one refresh, no call forgotten, no write twice, no data back | `ClientSession` |
| Query cache: `constants/queryKeys.ts`, `queryConfig.ts`, `hooks/`, `utils/queryClient.ts`, `main.tsx` | cached responses, their copy in localStorage | lists of keys kept by hand, a response older than the save | what was saved shows | `ClientCache` |
| Forms and lists: `components/*`, `hooks/useAssetSection.ts`, the schemas and `update_` functions behind them | a dialog, a request, a cached list | a draft of a row another member changes, double clicks, fields a form does not show | what is saved is what was shown, once | `EditDialog` with the form modules (partly) |
| Goals, accounts, cards, loans, savings sync, net worth, CSV import, plans, budgets, reports, settings, Google connection, JWT, migrations, charts | see section 6 | | | their forms only |

How they meet: an edit of the ledger queues outbox rows in its own commit
(`SavingsLedger` ends where `GrowlioPush` starts); the recurring job posts through
`create_transaction`, without a token and without a savings product; a save of a
transaction is followed in its request by the check of its budget
(`Notifications.Save`); every screen sends through `ClientSession`'s client, keeps
what it got in `ClientCache`'s cache, and edits it as `EditDialog` says.

## 2. The modules

| Module | Models | Kind |
|---|---|---|
| `PushDelivery` | what the outbox promises | abstract specification |
| `GrowlioPush` | the outbox and growlio's side of it | implements `PushDelivery` |
| `SavingsLedger` | ledger edits, product balances, what is staged | state machine |
| `RecurringJob` | rules, the daily job, its lock, reactivation | state machine |
| `Household` | accounts, members, invites | state machine |
| `Notifications` | checks, reminders, mail and log | state machine |
| `Todos` | occurrences of a repeating todo | state machine, date functions |
| `ClientSession` | one browser tab: calls, tokens, routes | state machine |
| `ClientCache` | one cached response and one kind of save | state machine over tables |
| `EditDialog` | how a section edits its rows | state machine with operators as parameters |
| `FormKit`, `AssetForms`, `LedgerForms`, `PlanForms`, `GoalForms`, `HouseholdForms` | 23 forms and what the server makes of them | operators |
| `Forms` | `EditDialog` with each form | composition, properties |
| `FormFits` | what each form keeps true of its rows, drafts and requests | inductive invariant of `Forms` |
| `MC...` | constants of the runs, symmetry | instances |
| `..._proofs` | theorems of the module before the underscore; `ClientSession_proofs` also has those of `ClientCache` | TLAPS |

### GrowlioPush

`kind`, `attempts` and `sent` are the columns of `growlio_push_queue`
(`kind[i] = Unstaged` while there is no row; account and owner are copied into the
row by `stage` and never change). `refs` and `recorded` are growlio's: the
references it has seen and the entries it holds. `task[w]` is what a server
thread has in its locals. One send is three steps, as other threads see it: the
row is read (`Read`, within `LoadRow` and `StartFlush`), growlio is called
(`PushAccepted`, `PushAnswerLost`, `PushUnreachable`, `PushRejected`), and the
outcome is committed (`CommitSent`, `CommitFailure`). `CommitFailure` writes the
value read before the call plus one, because `row.attempts += 1` does. A request
tries all of its rows, a flush stops at its first failure. `answered` records
the rows of requests that answered without `X-Growlio-Sync-Warning`, apart for
saves and for deletes: only the two routes that save (`create_transaction`,
`update_transaction`) turn `growlio_sync_failed` into the header (`Warning`), so a
delete whose rows fail answers as if nothing had happened (`Finish`, `Warns`).

growlio is external and modelled by what `growlio_push_service` and
`growlio_client.push_transaction` rely on: a movement is accepted when the token
is that of the account's holder, and an `external_ref` is recorded once.

### SavingsLedger

`session[s]` is a request: the transactions it has loaded (`old`), what it is
about to save (`new`), and, once `LoadProducts` has taken place, the balances and
links it has loaded (`bal`, `acct`). `StartCreate`, `StartUpdate` and `StartDelete`
are the loads; `CommitCreate`, `CommitUpdate` and `CommitDelete` the commits with
everything they write: rows, `AdjustBalance` and `Stage`. An UPDATE of a row that
is gone rolls back; a DELETE of one does not, because the ORM only warns.
`Abort` is any failure before the commit. `OpenForm`/`SaveForm` are the product form,
which saves every field it shows. Two requests overlap on the same rows only
if the constant `MayOverlap` says so. A transaction's date and memo are left out.

### RecurringJob

`active`, `next`, `end` and `period` are the columns of a rule, `posted` counts its
transactions per due date, `holder` is the connection with the advisory lock,
`run[j]` the locals of a call of the job with its session's rows (`seen`, `Expired`
after each commit or rollback), with the `is_active = False` assignments that no
commit has written yet. `PostPeriod` is one turn of the loop that succeeds: the
transaction and the advanced `next_due_date` in one commit. `FailRule` is one that
raises, with its rollback. `StartReactivate` and `CommitReactivate` are the two
halves of `reactivate_recurring`; `RaceWithJob` says whether they may surround a run
of the job. Due dates are days with a fixed period per rule; the lengths of
months are in `Todos`.

### Household

A request starts (`SignIn`, `StartRemove`, `StartInvite`, `StartCancel`, `StartAccept`)
with what its first queries read, and goes on in the steps between which other
requests run: `CheckCapacity` (the count), `Mirror` (the INSERT and its commit; the
row of a faster request is taken instead), `Accept` (the last commit),
`Remove`, `SaveInvite`, `CancelInvite`. `Drop` ends a request anywhere. `MayOverlap` says
whether requests of different people overlap; those of one person always may,
as the client sends several at once.

### Notifications

An actor is a request after its save or a run of a job; `work[a]` is what it is
about: budgets it has yet to compute, keys it has yet to look at or to mail, the
key in hand. A budget is of a category and a month. A save (`Save`) checks the one of
its own category and date, which may be a past or a coming month; imports, deletions
and what a rule posts are spending that nothing checks (`Unchecked`); the daily job
takes the budgets of the month it starts in (`Current`), and months turn at any time
(`MonthTurns`). `Rows` is `budget_vs_actual`, `Look` the setting and the log, `Mail`
`send_email_best_effort`, `Log` `log_sent`: an alert is logged whatever became of the
mail, a reminder that failed is left for the next tick. `StartReminders` reads the
window and the log at once, as `send_due_reminders` does. A tick's call of the job may
be repeated at any time, as `curl --retry` repeats it: `Locked`, the advisory lock, is
all that keeps two runs apart, and `LoseLock` is the pooler that drops the connection
it lives on. `Fail` is an
exception over one key, `Crash` the end of the process. Time passes in ticks of
the cron. The history variables name the excuses: what was held by two at once,
mailed and not logged, or not to be sent by the last run that could.

### Todos

`todos` is the table, each row with its due date, its frequency, the anchor `day` and
the occurrence it follows (`previous`); `root` is the chain a row belongs to and no
column. `overtaken` remembers the chains in which one edit's date was saved over
another's day: two edits of a row that overlap each write the columns they changed, so
that a date can stand with a `recurrence_day` of the other. `StartComplete` and `StartReopen` are the load and the UPDATE that either waits
for the row's lock (`Locked`) or matches nothing (`Switchable`); `Look` is
`_next_occurrence` of a completion, `Complete` and `Reopen` the rest with the commit,
`Abort` a rollback. `add_months_with_day`, `advance_due_date` and `NextDue` are the date
functions over a calendar of months of two days and of one, where every case of
clamping occurs.

### ClientSession

`call[c]` is one axios call and how far it has come: `Serve`, `Lose`, `NoAnswer`,
`Unauthorized`, `RefreshOk`, `RefreshFails`, `RemovedAnswer` and `Settle` are what the
network, the two interceptors and axiosRetry do with it; `done` counts how often the
server has carried it out. `isRefreshing` and `failedQueue` are the variables of
`client.ts`. `check` holds the two closures of `checkAuth` (of `App` and of a page),
`path` and `step` the route and how far its page has come. `Reload` starts the program
anew over what localStorage has kept. supabase-js, the mail with its link and the
server are external.

### ClientCache

The first half is tables: the key of each query (`Path`), what its response shows
(`Shows`, from the schemas), what each save changes and invalidates (`Saves`). The
second half is one response while one kind of save is made: screens open and close,
requests are read and arrive, `Answer` invalidates what the list reaches and starts the
query again, `Persist` and `ReloadPage` go through localStorage. Its specification is
`CacheSpec`, so that one module can extend it together with `ClientSession`. The two `gap`s are ways in
which React Query, used as it is here, keeps a response that is behind: a first load
that an invalidation joins instead of repeating, and a copy restored from before a save.

### EditDialog and the forms

`EditDialog` is a section of the client and the server's rows behind it: a list, a
dialog whose draft is copied from a row when it opens, one request at a time, and a
success that closes whatever dialog is open by then. Its parameters are the form:
the rows, the draft of a row, what one input event makes of a draft (`Typed`), the
check before the request (`Ready`), the request (`Body`), the validation of the server
(`Accepts`) and what it stores (`Write`). The form modules give these for accounts, cards,
loans, products and real estate; transactions, events, rules, todos and categories;
the plan of a year, a month, a split amount and a product; goals with their progress
and achievements; policies, coverage targets and the settings. A section without a
dialog (`Live`) lays its inputs over the cached row. `FormSettled` is no code: it is what
a member expects to see when the form is opened again. `due` is no code either: it is the
id the next row may have at most, set anew each time a dialog for a new row opens and
raised by one when an answer is lost although the row was stored.

## 3. The runs

| Run | Instance | Shows |
|---|---|---|
| `GrowlioPush_safety` | 2 members, products of one on an open and a closed account, 2 rows, 2 workers, 2 faults, 4 attempts, batches of 2 | `AtMostOnce`, `SentMeansRecorded`, `NoSilentLoss`, `GivenUpOnlyIfClosed`; `ImplementsDelivery`; `EventuallyRecorded` |
| `SavingsLedger_apart` | 2 requests on different rows, 2 transactions, 2 products (one linked), 3 queue rows, one relink, one form | `BalanceAgrees`, `OutboxAgrees` |
| `SavingsLedger_lostupdate` | 2 requests on the same rows | violates `BalanceAgrees` |
| `RecurringJob_safety` | 2 rules, one always refused, 2 calls, 1 member, 3 days, 1 fault, 3 edits | `NeverPostedTwice`, `NoPeriodLost`, `EndsOnItsDate`, `NoBackPosting`, `GoodRulesCatchUp` |
| `RecurringJob_race` | a reactivation that overlaps the job | violates `NeverPostedTwice` |
| `Household_apart` | 3 accounts, 3 invites, 2 requests that overlap if they are of one person | `CapacityHolds`, `SomeoneStays`, `AcceptedHasUser` |
| `Household_race` | 3 accounts, requests overlap | violates `CapacityHolds` |
| `Notifications_faults` | 2 actors, 1 fault; alerts: 1 category, 2 months, 2 saves, 1 change; reminders: 2 events, starts 2 and 4 of 4 ticks, 1 missed tick, 2 changes | `AlertOnce`, `ReminderOnce`, `NoFalseReminder`, `RemindedInTime`, `AlertReaches` |
| `Todos_apart` | 2 requests, 3 rows of one chain, weekly and monthly, 2 edits, 2 months and the one after | `OneSuccessor`, `ChainGoesOn`, `NoDateTwice`, `DayKept` |
| `ClientSession_tab` | 1 account, 1 query, 1 write and the three calls of the store, 1 retry, 1 expiry, 1 fault | `NobodyStranded`, `WritesOnce`, `NoLateData`, `EveryCallSettles`, `LoadersEnd`, `RemovedLeaves` |
| `ClientCache_saves` | all 173 pairs of a save and a response it changes; 1 save, 1 write of the other, 1 fault, 1 reload | `OwnWriteShows`, `SaveShows` |
| `Forms_edit` | 23 forms, 3 ids, amounts 0, 1 and 4, 2 inputs, 1 dialog, 1 fault or foreign write | `OnlyBadInputRefused`, `NoneTwice`, `UntouchedSaveChangesNothing`, `ReopensAsSaved`, `OtherMonthsKept`, `SplitExact`, `AchievedKept` |

`Notifications_faults` and `ClientCache_saves` check for deadlock. The others do not:
with the bounds spent and no request open the system has nothing to do, and neither
has nestlio.

### Bounds

* Two workers, sessions, calls or requests are enough for the races the code has: each
  is between one that has loaded and one that commits. A third adds another copy
  of the second.
* `MAX_ATTEMPTS` is 10 and `FLUSH_BATCH` 20 in the code; the instance uses 4
  and 2, so that attempts do run out. With `MaxFaults` faults a sendable row fails
  `MaxFaults + 1` times at most (section 5), so `GivenUpOnlyIfClosed` needs
  `MAX_ATTEMPTS` to be more than that: a growlio that is unreachable ten times in a row
  does make nestlio give up, and the comment at `MAX_ATTEMPTS` accepts it.
* `JOB_GUARD` is 24 and `REACTIVATE_GUARD` 240; with three days and guards of 2 and 3
  a backlog longer than `JOB_GUARD` occurs, and one longer than `REACTIVATE_GUARD`
  does not, which is what 240 periods are for.
* Three invites allow for one that is open, one accepted and one from before.
* `Window` is two ticks: `window_minutes` (30) over the quarter of an hour of the cron; one missed
  tick is what that leaves room for, and `RemindedInTime` fails with a window of one.
  Alerts and reminders share nothing but the mail and the switches, so each behaviour of
  `MCNotifications` is about the one or the other: it begins (`InitAt`) with the bounds of the
  other spent, that is with no saves left, or in the last tick with its events behind it.
* Two months are a current and a coming one, and after the month has turned a past and a
  current one.
* In `GrowlioPush_safety` all products are of one member, and either member may edit and open
  pages: the rows of another would be in no batch with them, and a request whose token is
  refused for one of its two rows occurs with the closed account.
* A chain of three rows has a done occurrence in the middle of others; with `MaxEdits` 2
  two edits overlap, which `DayKept` needs: with one edit it held without naming the
  chains that are `overtaken`. A todo that does not repeat is left to the proofs.
* In `ClientSession_tab` one query and one write still make five calls, which can all
  wait for one refresh. `ClientCache` looks at each pair alone, as the responses of
  different keys do not touch one another.
* Two inputs and one dialog show what a form does with each pair of fields; row 2 is the
  one a dialog makes, row 3 the one a second click would.

### Fairness

`GrowlioPush`: a worker that has started goes on (`WF` on `Sends`), since every call
has a timeout; each member keeps opening pages (`SF` on `StartFlush`, strong because
the workers are shared). `RecurringJob`: the job goes on once started, an open
reactivation is answered, and the cron keeps calling (`SF` on `CallJob`: each day's
call finds the lock free infinitely often). `Notifications`: the daily job is called
again and again, and who has begun goes on. `ClientSession`: answers or their time
limits come (axios has a timeout), closures go on, and the header polls the inbox (`Issue`).
`ClientCache`: requests are answered and the timer of the inbox fires. Edits,
days, faults, crashes, clicks and window focus are fair nowhere. `EventuallyRecorded` and
`AlertReaches` are of the form `[]<>(owed => done)`: what is done stays done, so no debt
lasts for ever. `Todos`, `Household`,
`SavingsLedger` and `Forms` have no liveness properties.

## 4. What disagrees

Three runs show the code at odds with what it says of itself; `PROJECT.json` quotes the
lines.

1. **Lost update of a product balance** (`SavingsLedger_lostupdate`). Two overlapping saves
   to one product: `adjust_balance` writes a sum computed from a loaded balance.
2. **A reactivation during the job** (`RecurringJob_race`) writes back a `next_due_date` the
   job has already posted.
3. **Two first sign-ins at once** (`Household_race`) make three members.

Others came up while modelling. They are excluded by name from the properties, or by a
constant, so that what remains is what does hold:

* **A delete whose push fails says nothing.** The docstring of `_send_staged_pushes`
  (`transaction_service.py:82-86`) promises all its callers that the router tells by a header
  what could not be sent. Only the routes that create and update set `X-Growlio-Sync-Warning`
  (`routers/transactions.py:79` and 183); those that delete (144-153, 188-197) get a bool and
  a tuple from their services and set none. The model has it so: `Warning` is the set of the
  edits that warn, and `NoSilentLoss` is about those. Stated for deletes too it is false: a
  request that deletes, with growlio unreachable, is the counterexample. The row stays queued
  and arrives in the end (`EventuallyRecorded`).
* **The safety net looks at one month.** A save checks the month of its own date
  (`notification_service.py:265-269`), the daily job only the current one (line 220), although
  `jobs.py:61` says that it "catches any budget-threshold breaches the synchronous
  per-transaction check missed". When the check of a save in a past month dies, or the month
  turns before the job runs, nobody is told of that level. `AlertReaches` is about the current
  month for this reason; without the conjunct `month = b.month` TLC finds the save and the
  exception.
* **Two budget checks that overlap mail one level twice**, the docstring of
  `notification_service` (lines 125-126) notwithstanding: a request takes no lock, and
  `notification_log` has no unique key (`overlapped`).
* An edit submitted twice at the same time queues its withdrawal and deposit twice:
  the "nothing changed" test compares with the row loaded before the first commit
  (`MayOverlap`). Two deletes of one transaction commit its withdrawal twice, and a product
  form that is saved over a change of the ledger takes the balance back.
* Two members who remove each other at the same time leave nobody (`MayOverlap`,
  `NoCrossRemoval`).
* A product both members share is given up after ten page loads of the member who does
  not hold the growlio account (`RowKinds` of the run are owned).
* An invite from before lets a removed member in again (`AcceptedHasUser` allows it).
* A row that is stored while its answer is lost leaves a dialog that invites to send once
  more, and a second click stores a second row (`NoneTwice` counts the lost answers).
* Whoever saves a form last overwrites what another member saved in it since it was opened
  (`Unmoved`).
* Reopening a todo deletes its next occurrence also when that was completed
  between the look and the delete, although `todo_service.py:169` says that a finished
  occurrence stays (`cut`). A weekly todo that is edited to monthly keeps its old anchor
  (`switched`), and of two edits saved over one another the date of one can stand with
  the day of the other (`overtaken`).
* `checkAuth` logs out without clearing the caches, which the docstring of
  `utils/session.ts` says every way out does (`cleared`).
* Nine pairs of a save and a response that no list of keys connects (`Missed`), among
  them a changed name and the goals that show it.
* A goal form sends all of its months, and `apply_monthly_targets` deletes the rows it does
  not name: a month another member has added meanwhile is dropped, with what was achieved
  in it (`AchievedKept` is about a plan that is still the one the form opened on).
* Five drafts that a form lets through and the server refuses (`KnownGap`).

## 5. The proofs

Each proof module states an inductive invariant `IInv`, proves that the initial
states satisfy it and that every step keeps it (one lemma per action or kind of
action), and derives the theorems from it. Nothing is assumed but the named
assumptions on the constants, which TLC evaluates in each run, and where stated the
condition of the theorem, which the passing runs satisfy as well. Each module proves its
`TypeOK`; the theorems hold for any number of actors, rows and faults, unless a condition
bounds the faults.

* **`GrowlioPush_proofs`**: `BookedAtMostOnce`, `SentIsRecorded`, `WarningIsHonest`,
  `GivenUpIsClosed`, `OutboxDelivers`. That growlio books a row once follows from two facts: it has an
  entry for a row exactly when it has seen the row's reference (`BooksByKey`), and two
  rows never share one. `WarningIsHonest` is about saves, for the reason section 4 gives.
  That `sent` is truthful needs what a worker knows between the
  answer and its commit (`WorkerKnows`: if `ok`, growlio holds the row), and that
  nothing takes an entry back. The refinement maps `Queued`, `recorded` and the sent rows
  to the abstract variables; a re-send that growlio recognises, and every step of a
  worker's locals, is a stutter. `GivenUpIsClosed` is about rows whose owner holds an open
  account, under `MaxFaults + 1 < MAX_ATTEMPTS`: an attempt counted on such a row is a fault
  already spent (`Counted`), but for one: the first try of the request that queued it, which
  a member may have made with the other's account. There are never enough of them.
* **`RecurringJob_proofs`**: `OneRunAtATime`, `EveryPeriodPosted` and `RuleRunsToItsEnd`
  hold whatever members reactivate while the job runs: `EveryPeriodPosted` and
  `RuleRunsToItsEnd` speak of rules nobody has touched, so a reactivation that is still to
  commit takes its rule out of them. For those rules the invariant `Schedule` says that
  `next_due_date` is a whole number of periods after the first date, that exactly the dates of
  that grid before it are posted, and that the run has loaded it as it is; the lemmas on
  remainders at the head of that part show that no date of the grid lies between one due
  date and the next. `PostedOnce` and `BacklogIsSkipped` are about rules that are reactivated, and
  need `[]Undisturbed`: nobody reactivates a rule that a run has still to handle
  (`RecurringJob_race` is the counterexample without it, and `ApartIsUndisturbed` shows that
  the instance of `RecurringJob_safety` satisfies it). Then what is posted lies before
  `next_due_date`, the run's rows agree with the table on it, and an open reactivation has loaded
  a date from which nothing is posted (`Once`). `BacklogIsSkipped` (`NoBackPosting`) needs
  two hypotheses more, and `NothingBehind` says why: the next due date is never before the
  day of the last reactivation, and whatever an open one will commit lies on or after the day
  it began. Members may reactivate one rule together, but not from before and from after
  midnight (`[]SameDay`): the older request could then put back an earlier date, which TLC
  shows with two members. And `REACTIVATE_GUARD` must cover the backlog (`GuardReaches`).
* **`Household_proofs`**: `AcceptedInviteHasUser` holds however requests overlap: what a
  request has read of its invite and its account stays true while it is open (`Sound`), since
  rows never go and an invite keeps its address (`Grows`). The other two are false in general,
  and are proved from what the code relies on. `HouseholdHoldsItsLimit` needs `[]OneEnters`: of those
  who have seen a place and are not in yet, all are one person. Whoever is about to be let
  in is then a member already or there is a place (`PlaceIsFree`), and the first write takes the
  place while the others find their own row; `Household_race` is the counterexample without it.
  `HouseholdIsNeverEmpty` needs `[]NoCrossRemoval`: nobody removes one who is removing somebody.
  Whoever removes is then another member who stays (`RemoverStays`). `ApartIsInTurn` shows that
  both hold when requests of different people do not overlap, as in `Household_apart`. Every
  step has one of four effects on the accounts (`Effect`), and the two invariants are proved
  from those rather than from the actions.
* **`Notifications_proofs`**: `AlertedOnce`, `RemindedOnce`, `RemindersAreHonest`,
  `RemindersInTime`. As long as the
  log lacks a key, what was mailed for it is what its one holder has mailed and not
  logged, or what somebody could not log. For reminders the holder is unique because
  of the lock alone, however often the job is called within a tick; for alerts `overlapped` names the keys for which it is not. That a reminder
  comes in time (`RemindedInTime`) is proved for `MaxMissed < Window + Lead`
  (`CronIsFrequent`), the relation between `window_minutes`, the lead of an event and the ticks
  the cron may miss: an event that comes near was in the window of a tick that did run
  (`Prompt`), and that run sent it or has one of the named excuses.
* **`Todos_proofs`**: `OneNextOccurrence`, `RepetitionGoesOn`, `TheDayIsKept`,
  `DatesDoNotRepeat`. Whoever has looked for a next
  occurrence and found none holds the lock on the row until it has made one (`Looks`), so
  the second completion waits and then finds the todo done. The other two are about dates
  (`Dates`): a repeating row is due on its day or on the last one of a shorter month
  (`Anchored`), a successor lies after the row it follows (`Ahead`), and in a chain nobody has
  edited or cut no two rows have one date (`Ordered`). Nothing is assumed of the date
  functions: `NextDueFacts` proves by induction over the steps of the loop that
  `NextDue` ends on a date after the one it started from, on the day it started with.
* **`SavingsLedger_proofs`**: `TypeCorrect` for any overlap; `BalancesAgree` and `OutboxesAgree`
  under `~MayOverlap`. The first part of the module is about sums: what the folds of the
  community modules compute does not depend on the order they take (`SumFacts`,
  `SumRemove`), sums split (`SumSplit`), and the rows of a bulk delete add up piece by piece
  (`TallyJoin`); each by induction over the subsets of a finite set, with the set of those
  that satisfy the claim in the place of a predicate. Types need `Shape`: a request computes
  only with balances it has loaded, because it has loaded every product its entries name.
  The invariant `Apart` says that requests open together touch no common row and that
  what each has loaded is what the tables hold still (`Fresh`); then a commit changes the
  balance and the sum of the transactions by the same `PutIn` and `TakenOut`
  (`CommittedBalance`, `CommittedRows`), and the queue by what the transactions stood for
  before and after (`BackTally`, `DepositTally`). `SavingsLedger_lostupdate` is the
  counterexample without `Apart`.
* **`ClientSession_proofs`**: `QueueIsServed`, `WrittenOnce`, `CachesStayCleared`. Each call is made
  by one closure (`OneClosure`), so that no call in the queue is overwritten; a call that
  can still be resent has not been carried out (`Counted`); after the caches are cleared
  nobody is signed in and every query on its way has lost its observer (`Quiet`).
  In the same module, of `ClientCache`: `SavedIsShown`. A response in the cache, in a request that was
  read, or in the copy of localStorage, has every acknowledged save in it or is marked:
  invalidated, late, restored or followed by a save since. The theorem takes as its
  hypothesis that the lists name their queries, which is the half of `OwnWriteShows`
  about the tables: the run checks it pair by pair.

* **`Forms_proofs`**: `RefusedForAReason`, `CreatedOnce`, `UntouchedChangesNothing`, `ShownIsSaved`,
  `OtherMonthsStay`, `SplitAddsUp`, `AchievedStays`: all seven properties of the run, for any
  number of rows, any amounts a member types (`Amounts`) and any bounds on edits, dialogs and
  faults, where the run has three rows and the amounts 0, 1 and 4. The rows a section begins
  with, and what another member makes of them, are the examples the form modules name, but
  the contracts hold of every row that fits. Neither a row nor a draft is just of its type: a card is
  paid from an account that is open or from the one it had, the anchor of a rule is the
  first of its days, a goal has the inputs of its kind and no others (`RowFits`, `DraftFits` in
  `FormFits`). Each of the 23 forms X has a contract with `EditDialog` in three parts: what is
  stored fits, also after another member's edit (`XRowsStay`), what is typed keeps a draft in shape
  (`XDraftsStay`), and what is sent can be told apart by the server (`XRequestsFit`); and it
  has promises about a request: what a refusal means, that an untouched draft writes the row
  back, that what is written opens as it was sent (`XAnswers`). `AllFit` and `AllAnswer` put
  the forms together. `EditDialog`'s actions are then handled once for all forms, from the
  contract alone: the list and the server hold rows that fit, a dialog holds a draft that fits
  what it was opened on, and a request is what `Request` makes of such a draft (`IInv`).
  `CreatedOnce` needs none of the contracts: an open dialog for a new row, or its request on
  the way, has `fresh < due` (`Asked`), so that the row it makes is the one asked for. When it
  is stored the dialog closes or `due` rises by the lost answer, and a dialog that closes
  leaves no credit behind, since the next one that opens sets `due` anew. Hence the theorem says
  that one dialog makes one row, plus one for each row whose answer was lost.
  The assumptions say that null, the empty input, a lone minus sign and the two kinds
  of bad text differ from one another and from every value an input or a row can hold
  (`InputsAssumption`, `LedgerAssumption`, `FormsAssumption`), which TLC evaluates in `Forms_edit`.

The proof of `Forms` found two places where the model was not what the code does, and a property
that claimed too much, which the run's instance was too small to show:

* the item another member adds to the plan of this month did not stretch its period to
  this month, as `set_month_target` does (`PlanItemElsewhere`);
* another member who takes a month out of the plan of a goal left the amount achieved in it
  behind (`AchievedElsewhere`);
* a goal form that is open while another member adds a month to the plan and records what was
  achieved in it sends its own months back, and the server drops the new one with its amount
  (section 4): `AchievedKept` has the premise that the plan is the one the form opened on.

Only model-checked: liveness (`EventuallyRecorded`, `GoodRulesCatchUp`, `AlertReaches`,
`EveryCallSettles`, `LoadersEnd`, `RemovedLeaves`, `SaveShows`), which is out of the prover's
reach. Every other property of the passing runs is stated by a theorem.

## 6. Not modelled, and limits of what is

Not modelled, since nothing of another actor's steps matters to it or since TLA+ would
only repeat the code: the projections, budgets, reports and coaching (arithmetic
over decimals), CSV import (matching of text in one request), charts and read-only
screens, JWT and JWKS verification, HTTP and JSON, wording of mails and errors,
migrations, generated types.

Not modelled although requests can race there: the combined goal found and then
inserted (`goal_service.py:149`), a rebase of an account and a card's account, computed
from rows loaded without a lock (`account_service.py:45`, `card_service.py:56`), the monthly
snapshot (`net_worth_service.py:219`), the balance of a linked product that growlio's
answer overwrites (`savings_product_growlio_service.py:84`), and two open invites for one
person (`invite_service.py:79`). The pattern of the first five is that of `SavingsLedger`: a
value computed from what was loaded, written over what was committed since. A model of the
synchronisation would need growlio's valuation of an account, which this repository does
not define.

Limits of the modules:

* `SavingsLedger`: the card and category rules of a transaction, its date and memo, and the
  lists are left out.
* `RecurringJob`: the weekly and monthly summaries and the snapshot run under the same lock
  and are left out.
* `Notifications`: a run of the reminder job ends within its tick, the cron does not miss
  two ticks in a row. The summaries, the savings pace reminder, the goal milestones, the
  inbox and the mails about changed events and todos are left out.
* `Todos`: the assignee's notification is left out, a yearly todo repeats as a monthly one.
* `ClientSession`: one tab. `ClientCache`: React Query is external and modelled by its options
  and calls; the refetch after the browser was offline is left out.
* `Forms`: one dialog and one request at a time; the sections of the preferences and of the
  mail addresses could send two. The import page and the wizard for a new year are left out.
