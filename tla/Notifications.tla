---------------------------- MODULE Notifications ----------------------------
(***************************************************************************)
(* Budget alerts (app/services/notification_service.py) and reminders of   *)
(* events (event_reminder_service.py) over one log: look in the log, mail, *)
(* write the log.  A save checks the budget it is in, of its category and  *)
(* of the month of its date, inside its own request; the daily job checks  *)
(* all budgets of the current month and the reminder job all events, each  *)
(* under its advisory lock (scheduler/job_lock.py).  Mail is best effort.  *)
(*                                                                         *)
(* Time passes in ticks of the cron of the reminder job; a run ends within *)
(* its tick.  Months turn on their own.  A goal's milestones are checked   *)
(* as a budget's levels are.                                               *)
(***************************************************************************)
EXTENDS Integers, FiniteSets

CONSTANTS Actors,      \* requests and runs of jobs that can be under way
          None,
          Categories,
          Months,      \* of the budgets, numbered
          StartMonth,  \* the current month at first
          Events,
          Starts,      \* times an event may start at
          Lead,        \* reminder_minutes_before, in ticks
          MaxMissed,   \* ticks in a row that the cron may miss
          MaxTime,     \* bound: the last tick
          MaxSaves,    \* bound: saves of transactions
          MaxChanges,  \* bound: changes of mail, settings and events
          MaxFaults    \* bound: exceptions, crashes and lost locks

-----------------------------------------------------------------------------
Levels == 0..2         \* of a budget: "ok", "warn", "critical"
Budgets == [category : Categories, month : Months]
Alert(b, level) == [type |-> "alert", of |-> b, at |-> level]
Reminder(e, time) == [type |-> "reminder", of |-> e, at |-> time]
Alerts == {Alert(b, l) : b \in Budgets, l \in Levels \ {0}}
Reminders == {Reminder(e, t) : e \in Events, t \in Starts}
Keys == Alerts \cup Reminders

ASSUME ConstantsAssumption ==
    /\ None \notin Keys
    /\ Months \subseteq Nat /\ StartMonth \in Months
    /\ Starts \subseteq Nat /\ Lead \in Nat
    /\ MaxMissed \in Nat /\ MaxTime \in Nat

VARIABLES
    month,      \* the current one
    status,     \* the level of the spending under each budget
    start,      \* when each event starts
    done,       \* events marked as done
    muted,      \* types that are switched off
    mail,       \* "up", "down" (Gmail fails) or "off" (not connected)
    now,
    ran,        \* has the reminder job run in this tick
    missed,     \* ticks in a row in which it has not
    work,       \* what each actor is about
    log,        \* rows of notification_log per key
    mailed,     \* history: mails sent per key
    overlapped, \* history: keys two actors held at once
    unlogged,   \* history: keys mailed by somebody who could not log it
    silent,     \* history: keys logged while mail was not connected
    excused,    \* history: reminders the last run that was to send them could not
    dropped,    \* history: has a run lost its lock
    saves, changes, faults

world == <<month, status, start, done, muted, mail>>
clock == <<now, ran, missed>>
records == <<log, mailed>>
history == <<overlapped, unlogged, silent, excused, dropped>>
counters == <<saves, changes, faults>>
vars == <<world, clock, work, records, history, counters>>

(* rows: budgets to compute; todo: keys to look at or, for reminders, to    *)
(* mail; key: the one in hand; posted: past the mail.                      *)
Idle == [job |-> "none"]
Work == [job : {"save", "daily", "reminders"}, rows : SUBSET Budgets,
         todo : SUBSET Keys, key : Keys \cup {None}, posted : BOOLEAN, locked : BOOLEAN]
Busy(a) == work[a] # Idle
Own(job) == IF job = "reminders" THEN Reminders ELSE Alerts

TypeOK ==
    /\ month \in Months /\ status \in [Budgets -> Levels] /\ start \in [Events -> Starts]
    /\ done \subseteq Events /\ muted \subseteq {"alert", "reminder"}
    /\ mail \in {"up", "down", "off"}
    /\ now \in 0..MaxTime /\ ran \in BOOLEAN /\ missed \in 0..MaxMissed
    /\ work \in [Actors -> Work \cup {Idle}]
    /\ \A a \in Actors : Busy(a) =>
          /\ work[a].posted => work[a].key # None
          /\ work[a].rows # {} =>
                work[a].job # "reminders" /\ work[a].todo = {} /\ work[a].key = None
          /\ work[a].todo \subseteq Own(work[a].job)
          /\ work[a].key \in Own(work[a].job) \cup {None}
    /\ log \in [Keys -> Nat] /\ mailed \in [Keys -> Nat]
    /\ overlapped \cup unlogged \cup silent \cup excused \subseteq Keys
    /\ dropped \in BOOLEAN

(* The state at the start, in the month m, at the tick t, with the events  *)
(* E behind it and so many of the saves and changes spent.                 *)
InitAt(m, t, E, s, c) ==
    /\ month = m /\ status = [b \in Budgets |-> 0]
    /\ now = t /\ ran = FALSE /\ done = E
    /\ start \in [Events -> {u \in Starts : u > MaxMissed}]
    /\ muted = {} /\ mail = "up" /\ missed = 0
    /\ work = [a \in Actors |-> Idle]
    /\ log = [k \in Keys |-> 0] /\ mailed = [k \in Keys |-> 0]
    /\ overlapped = {} /\ unlogged = {} /\ silent = {} /\ excused = {} /\ dropped = FALSE
    /\ saves = s /\ changes = c /\ faults = 0

Init == InitAt(StartMonth, 0, {}, 0, 0)

Begin(a, job, rows, todo) ==
    work' = [work EXCEPT ![a] = [job |-> job, rows |-> rows, todo |-> todo, key |-> None,
                                 posted |-> FALSE, locked |-> job # "save"]]

(* The actor goes on with the rest of its keys, or is done.                *)
Proceed(a, todo) ==
    work' = [work EXCEPT ![a] =
       IF todo = {} THEN Idle
       ELSE [@ EXCEPT !.rows = {}, !.todo = todo, !.key = None, !.posted = FALSE]]

(* It takes one of them in hand, before or past the mail.                  *)
Take(a, k, past) ==
    work' = [work EXCEPT ![a] =
       [@ EXCEPT !.key = k, !.todo = work[a].todo \ {k}, !.posted = past]]

(* A key is held while it is known to be missing and not yet logged: an    *)
(* alert in hand, a reminder from the look at the log on.                  *)
Holds(a, k) == Busy(a) /\ (k = work[a].key \/ (k \in work[a].todo /\ k \in Reminders))
Held(k) == \E a \in Actors : Holds(a, k)

-----------------------------------------------------------------------------
(* Checks of budgets. *)

Spend(b, level) ==
    /\ saves < MaxSaves /\ saves' = saves + 1
    /\ status' = [status EXCEPT ![b] = level]
    /\ UNCHANGED <<month, start, done, muted, mail, clock, records, history, changes, faults>>

(* A save commits, then checks the budget of its category and date, which  *)
(* may be one of a past or a coming month (routers/transactions.py).       *)
Save(a, b, level) ==
    /\ ~Busy(a) /\ Begin(a, "save", {b}, {})
    /\ Spend(b, level)

(* Imported rows, a deletion, what a rule posts: no check follows.         *)
Unchecked(b, level) == Spend(b, level) /\ UNCHANGED work

(* pg_try_advisory_lock: a call that does not get the lock returns.        *)
MutLocked(job) == FALSE

Locked(job) == \E a \in Actors : Busy(a) /\ work[a].job = job /\ work[a].locked

(* The budgets of the current month; year_month is read once, at the start. *)
Current == {b \in Budgets : b.month = month}

StartDaily(a) ==
    /\ ~Busy(a) /\ ~Locked("daily")
    /\ Begin(a, "daily", Current, {})
    /\ UNCHANGED <<world, clock, records, history, counters>>

(* budget_vs_actual: the levels of one moment, for all that follows.       *)
Rows(a) ==
    /\ Busy(a) /\ work[a].rows # {}
    /\ Proceed(a, {Alert(b, status[b]) : b \in {b \in work[a].rows : status[b] > 0}})
    /\ UNCHANGED <<world, clock, records, history, counters>>

(* is_enabled, then already_sent. *)
MutUnsent(k) == "alert" \notin muted
MutUnsentOfCategory(k) ==
    /\ "alert" \notin muted
    /\ \A j \in Alerts : j.of.category = k.of.category /\ j.at = k.at => log[j] = 0

Unsent(k) == "alert" \notin muted /\ log[k] = 0

Look(a, k) ==
    /\ Busy(a) /\ work[a].job # "reminders"
    /\ work[a].key = None /\ k \in work[a].todo
    /\ IF Unsent(k)
       THEN /\ Take(a, k, FALSE)
            /\ overlapped' = IF Held(k) THEN overlapped \cup {k} ELSE overlapped
       ELSE Proceed(a, work[a].todo \ {k}) /\ UNCHANGED overlapped
    /\ UNCHANGED <<world, clock, records, unlogged, silent, excused, dropped, counters>>

-----------------------------------------------------------------------------
(* Reminders of events. *)

(* window_minutes: 30, two ticks of 15.                                    *)
MutWindow == 1

Window == 2

(* _due_occurrences: near enough, still to come and not done.              *)
IsDue(e) == /\ start[e] - Lead =< now + Window
            /\ now < start[e]
            /\ e \notin done

Due == {Reminder(e, start[e]) : e \in {e \in Events : IsDue(e)}}

(* _already_notified_pairs: the log is read once, for the whole run.       *)
Unreminded == {k \in Due : log[k] = 0}

StartReminders(a) ==
    /\ now < MaxTime /\ ~Busy(a) /\ ~Locked("reminders")
    /\ ran' = TRUE
    /\ IF "reminder" \in muted
       THEN /\ excused' = excused \cup Due
            /\ UNCHANGED <<work, overlapped>>
       ELSE /\ excused' = excused \ Due
            /\ overlapped' = overlapped \cup {k \in Unreminded : Held(k)}
            /\ IF Unreminded = {} THEN UNCHANGED work
               ELSE Begin(a, "reminders", {}, Unreminded)
    /\ UNCHANGED <<world, now, missed, records, unlogged, silent, dropped, counters>>

-----------------------------------------------------------------------------
(* send_email_best_effort, and what each caller makes of its result: an    *)
(* alert is logged whatever it was, a reminder that failed is left for the *)
(* next tick.                                                              *)
InHand(a) == IF work[a].key # None THEN {work[a].key}
             ELSE IF work[a].job = "reminders" THEN work[a].todo ELSE {}

MutLeftForLater(a) == FALSE

LeftForLater(a) == mail = "down" /\ work[a].job = "reminders"

Mail(a, k) ==
    /\ Busy(a) /\ ~work[a].posted /\ k \in InHand(a)
    /\ mailed' = IF mail = "up" THEN [mailed EXCEPT ![k] = @ + 1] ELSE mailed
    /\ IF LeftForLater(a)
       THEN /\ Proceed(a, work[a].todo \ {k})
            /\ excused' = excused \cup {k}
       ELSE /\ Take(a, k, TRUE)
            /\ UNCHANGED excused
    /\ silent' = IF mail = "off" THEN silent \cup {k} ELSE silent
    /\ UNCHANGED <<world, clock, log, overlapped, unlogged, dropped, counters>>

(* log_sent *)
Log(a) ==
    /\ Busy(a) /\ work[a].posted
    /\ log' = [log EXCEPT ![work[a].key] = @ + 1]
    /\ Proceed(a, work[a].todo)
    /\ UNCHANGED <<world, clock, mailed, history, counters>>

-----------------------------------------------------------------------------
(* An exception over one key is rolled back and logged; the loop goes on.  *)
Fail(a, k) ==
    /\ Busy(a) /\ k \in InHand(a) /\ faults < MaxFaults /\ faults' = faults + 1
    /\ Proceed(a, work[a].todo \ {k})
    /\ unlogged' = IF work[a].posted THEN unlogged \cup {k} ELSE unlogged
    /\ excused' = excused \cup ({k} \cap Reminders)
    /\ UNCHANGED <<world, clock, records, overlapped, silent, dropped, saves, changes>>

(* The process dies, and its locks with it. *)
Crash ==
    /\ faults < MaxFaults /\ faults' = faults + 1
    /\ work' = [a \in Actors |-> Idle]
    /\ unlogged' = unlogged \cup {work[a].key : a \in {a \in Actors : Busy(a) /\ work[a].posted}}
    /\ excused' = excused \cup {k \in Reminders : Held(k)}
    /\ UNCHANGED <<world, clock, records, overlapped, silent, dropped, saves, changes>>

(* The connection that holds the lock is closed; the retried call runs.    *)
LoseLock(a) ==
    /\ Busy(a) /\ work[a].locked /\ faults < MaxFaults /\ faults' = faults + 1
    /\ work' = [work EXCEPT ![a].locked = FALSE]
    /\ dropped' = TRUE
    /\ UNCHANGED <<world, clock, records, overlapped, unlogged, silent, excused, saves, changes>>

-----------------------------------------------------------------------------
Change ==
    /\ changes < MaxChanges /\ changes' = changes + 1
    /\ UNCHANGED <<month, status, clock, work, records, overlapped, unlogged, silent, dropped, saves, faults>>

(* Gmail, and the connection to it. *)
MailTurns(state) ==
    /\ mail # state /\ mail' = state
    /\ Change /\ UNCHANGED <<start, done, muted, excused>>

Switch(type) ==
    /\ muted' = IF type \in muted THEN muted \ {type} ELSE muted \cup {type}
    /\ Change /\ UNCHANGED <<start, done, mail, excused>>

(* What comes up when its window is open already has no run it can count on. *)
Late(e, t) == IF t - Lead =< now + Window THEN {Reminder(e, t)} ELSE {}

update_event(e, t) ==
    /\ now < MaxTime /\ start[e] # t /\ start' = [start EXCEPT ![e] = t]
    /\ excused' = excused \cup Late(e, t)
    /\ Change /\ UNCHANGED <<done, muted, mail>>

set_completed(e) ==
    /\ now < MaxTime /\ done' = IF e \in done THEN done \ {e} ELSE done \cup {e}
    /\ excused' = IF e \in done THEN excused \cup Late(e, start[e]) ELSE excused
    /\ Change /\ UNCHANGED <<start, muted, mail>>

MonthTurns ==
    /\ month + 1 \in Months /\ month' = month + 1
    /\ UNCHANGED <<status, start, done, muted, mail, clock, work, records, history, counters>>

Tick ==
    /\ now < MaxTime /\ now' = now + 1
    /\ \A a \in Actors : Busy(a) => work[a].job # "reminders"
    /\ ran \/ missed < MaxMissed
    /\ missed' = IF ran THEN 0 ELSE missed + 1
    /\ ran' = FALSE
    /\ UNCHANGED <<world, work, records, history, counters>>

Next ==
    \/ \E a \in Actors :
          \/ \E b \in Budgets, level \in Levels : Save(a, b, level)
          \/ StartDaily(a) \/ StartReminders(a) \/ Rows(a) \/ Log(a) \/ LoseLock(a)
          \/ \E k \in Keys : Look(a, k) \/ Mail(a, k) \/ Fail(a, k)
    \/ \E b \in Budgets, level \in Levels : Unchecked(b, level)
    \/ Crash \/ Tick \/ MonthTurns
    \/ \E state \in {"up", "down", "off"} : MailTurns(state)
    \/ \E type \in {"alert", "reminder"} : Switch(type)
    \/ \E e \in Events : set_completed(e) \/ \E t \in Starts : update_event(e, t)

(* The cron calls the daily job again and again, and who has begun goes on *)
(* unless a fault ends it.                                                 *)
Fairness ==
    /\ WF_vars(\E a \in Actors : StartDaily(a))
    /\ \A a \in Actors : WF_vars(Rows(a) \/ Log(a) \/ \E k \in Keys : Look(a, k) \/ Mail(a, k))

Spec == Init /\ [][Next]_vars /\ Fairness

-----------------------------------------------------------------------------
(* "Each status level fires at most once per category per month": two      *)
(* checks that overlap apart, a level is logged once, and mailed once more *)
(* only if somebody who had mailed it could not log it.                    *)
AlertOnce ==
    \A k \in Alerts \ overlapped :
       log[k] =< 1 /\ (mailed[k] =< 1 \/ k \in unlogged)

(* The lock leaves no room for two runs: no reminder is logged twice, nor  *)
(* mailed twice unless a fault came between the mail and the log.          *)
ReminderOnce ==
    \A k \in Reminders : ~dropped => log[k] =< 1 /\ (mailed[k] =< 1 \/ k \in unlogged)

(* A reminder in the log has been mailed, or mail was not connected then:  *)
(* a failure of Gmail is not taken for a reminder (_remind).               *)
NoFalseReminder ==
    \A k \in Reminders : log[k] > 0 => mailed[k] > 0 \/ k \in silent

(* An event does not start before its reminder although the cron misses a  *)
(* tick, mail fails for a while, events move and runs die: only what the   *)
(* last run of its window could not send is missing (send_due_reminders).  *)
RemindedInTime ==
    \A e \in Events :
       now >= start[e] /\ e \notin done =>
          \/ log[Reminder(e, start[e])] > 0
          \/ Reminder(e, start[e]) \in excused

(* A level that lasts is made known while its month is the current one, by *)
(* the save or, when that had no check or the check died, by the daily job *)
(* (daily_threshold_safety_net).                                           *)
AlertReaches ==
    \A b \in Budgets, level \in Levels \ {0} :
       []<>(status[b] = level /\ "alert" \notin muted /\ month = b.month
               => log[Alert(b, level)] > 0)
=============================================================================
