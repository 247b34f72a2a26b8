------------------------ MODULE Notifications_proofs ------------------------
(***************************************************************************)
(* Why nothing is made known twice, and nothing is taken for known that is *)
(* not, for any number of requests, jobs, categories and events.           *)
(***************************************************************************)
EXTENDS Notifications, TLAPS

\* Mailed and not yet logged.
Posted(a, k) == Busy(a) /\ work[a].posted /\ work[a].key = k

\* Nobody but one actor has had the key at a time.
Apart(k) == IF k \in Alerts THEN k \notin overlapped ELSE ~dropped

\* One actor holds the key, and only while the log lacks it; a mail that is
\* not in the log is in the hands of its holder.
Once(k) ==
    /\ \A a, b \in Actors : Holds(a, k) /\ Holds(b, k) => a = b
    /\ \A a \in Actors : Holds(a, k) => log[k] = 0
    /\ log[k] =< 1
    /\ k \notin unlogged =>
          /\ mailed[k] =< 1
          /\ log[k] = 0 /\ (\A a \in Actors : ~Posted(a, k)) => mailed[k] = 0

OnceEach == \A k \in Keys : Apart(k) => Once(k)

\* What is past the mail was mailed, or there was no mail to send it with.
Honest ==
    \A k \in Reminders :
        log[k] > 0 \/ (\E a \in Actors : Posted(a, k)) => mailed[k] > 0 \/ k \in silent

Reminding(a) == Busy(a) /\ work[a].job = "reminders"

\* The advisory lock of the reminder job.
LockHeld ==
    /\ \A a, b \in Actors :
          Reminding(a) /\ Reminding(b) /\ work[a].locked /\ work[b].locked => a = b
    /\ ~dropped => \A a \in Actors : Reminding(a) => work[a].locked

KeyTaken == \A a \in Actors : Busy(a) => work[a].key \notin work[a].todo

IInv == TypeOK /\ KeyTaken /\ LockHeld /\ OnceEach /\ Honest
-----------------------------------------------------------------------------
\* Alerts and reminders are different keys.
LEMMA TwoTypes == Alerts \cap Reminders = {}
BY DEF Alerts, Reminders, Alert, Reminder

\* An actor at work has a record of work, an idle one has none.
LEMMA BusyWork ==
    ASSUME TypeOK, NEW a \in Actors
    PROVE  /\ Busy(a) <=> work[a] \in Work
           /\ ~Busy(a) <=> work[a] = Idle
BY DEF TypeOK, Busy, Work, Idle

\* What Begin leaves in the hands of an actor.
LEMMA BeginFacts ==
    ASSUME TypeOK, NEW a \in Actors, NEW job \in {"save", "daily", "reminders"},
           NEW rows \in SUBSET Budgets, NEW todo \in SUBSET Keys,
           Begin(a, job, rows, todo)
    PROVE  /\ work' \in [Actors -> Work \cup {Idle}]
           /\ \A b \in Actors : b # a => work'[b] = work[b]
           /\ work'[a] # Idle
           /\ work'[a].job = job /\ work'[a].rows = rows /\ work'[a].todo = todo
           /\ work'[a].key = None /\ work'[a].posted = FALSE
           /\ work'[a].locked = (job # "save")
<1> DEFINE w == [job |-> job, rows |-> rows, todo |-> todo, key |-> None,
                 posted |-> FALSE, locked |-> job # "save"]
<1>1. w \in Work
    BY DEF Work
<1>2. w # Idle
    BY DEF Idle
<1>3. w.job = job /\ w.rows = rows /\ w.todo = todo /\ w.key = None /\ w.posted = FALSE
      /\ w.locked = (job # "save")
    OBVIOUS
<1>4. work' = [work EXCEPT ![a] = w]
    BY DEF Begin
<1>5. work \in [Actors -> Work \cup {Idle}]
    BY DEF TypeOK
<1> HIDE DEF w
<1> QED BY <1>1, <1>2, <1>3, <1>4, <1>5

\* What Proceed leaves in them.
LEMMA ProceedFacts ==
    ASSUME TypeOK, NEW a \in Actors, Busy(a), NEW todo \in SUBSET Keys, Proceed(a, todo)
    PROVE  /\ work' \in [Actors -> Work \cup {Idle}]
           /\ \A b \in Actors : b # a => work'[b] = work[b]
           /\ \/ work'[a] = Idle
              \/ /\ work'[a] # Idle
                 /\ work'[a].job = work[a].job /\ work'[a].rows = {}
                 /\ work'[a].todo = todo /\ work'[a].key = None
                 /\ work'[a].posted = FALSE /\ work'[a].locked = work[a].locked
<1> DEFINE w == [work[a] EXCEPT !.rows = {}, !.todo = todo, !.key = None, !.posted = FALSE]
<1>1. work[a] \in Work
    BY BusyWork
<1>2. w \in Work
    BY <1>1 DEF Work
<1>3. w # Idle
    BY <1>2 DEF Idle, Work
<1>4. w.job = work[a].job /\ w.rows = {} /\ w.todo = todo /\ w.key = None
      /\ w.posted = FALSE /\ w.locked = work[a].locked
    BY <1>1 DEF Work
<1>5. work' = [work EXCEPT ![a] = IF todo = {} THEN Idle ELSE w]
    BY DEF Proceed
<1>6. work \in [Actors -> Work \cup {Idle}]
    BY DEF TypeOK
<1> HIDE DEF w
<1> QED BY <1>2, <1>3, <1>4, <1>5, <1>6

\* What Take leaves in them.
LEMMA TakeFacts ==
    ASSUME TypeOK, NEW a \in Actors, Busy(a), NEW k \in Keys, NEW past \in BOOLEAN,
           Take(a, k, past)
    PROVE  /\ work' \in [Actors -> Work \cup {Idle}]
           /\ \A b \in Actors : b # a => work'[b] = work[b]
           /\ work'[a] # Idle
           /\ work'[a].job = work[a].job /\ work'[a].rows = work[a].rows
           /\ work'[a].todo = work[a].todo \ {k} /\ work'[a].key = k
           /\ work'[a].posted = past /\ work'[a].locked = work[a].locked
<1> DEFINE w == [work[a] EXCEPT !.key = k, !.todo = work[a].todo \ {k}, !.posted = past]
<1>1. work[a] \in Work
    BY BusyWork
<1>2. w \in Work
    BY <1>1 DEF Work
<1>3. w # Idle
    BY <1>2 DEF Idle, Work
<1>4. w.job = work[a].job /\ w.rows = work[a].rows /\ w.todo = work[a].todo \ {k}
      /\ w.key = k /\ w.posted = past /\ w.locked = work[a].locked
    BY <1>1 DEF Work
<1>5. work' = [work EXCEPT ![a] = w]
    BY DEF Take
<1> HIDE DEF w
<1> QED BY <1>2, <1>3, <1>4, <1>5 DEF TypeOK

\* What a lost lock leaves.
LEMMA LoseLockFacts ==
    ASSUME TypeOK, NEW a \in Actors, LoseLock(a)
    PROVE  /\ work' \in [Actors -> Work \cup {Idle}]
           /\ \A b \in Actors : b # a => work'[b] = work[b]
           /\ work'[a] # Idle
           /\ work'[a].job = work[a].job /\ work'[a].rows = work[a].rows
           /\ work'[a].todo = work[a].todo /\ work'[a].key = work[a].key
           /\ work'[a].posted = work[a].posted /\ work'[a].locked = FALSE
<1> DEFINE w == [work[a] EXCEPT !.locked = FALSE]
<1>1. work[a] \in Work
    BY BusyWork DEF LoseLock
<1>2. w \in Work
    BY <1>1 DEF Work
<1>3. w # Idle
    BY <1>2 DEF Idle, Work
<1>4. w.job = work[a].job /\ w.rows = work[a].rows /\ w.todo = work[a].todo
      /\ w.key = work[a].key /\ w.posted = work[a].posted /\ w.locked = FALSE
    BY <1>1 DEF Work
<1>5. work' = [work EXCEPT ![a] = w]
    BY DEF LoseLock
<1> HIDE DEF w
<1> QED BY <1>2, <1>3, <1>4, <1>5 DEF TypeOK
-----------------------------------------------------------------------------
\* The type of what one actor has.
WorkOK(a) ==
    Busy(a) =>
        /\ work[a].posted => work[a].key # None
        /\ work[a].rows # {} =>
              work[a].job # "reminders" /\ work[a].todo = {} /\ work[a].key = None
        /\ work[a].todo \subseteq Own(work[a].job)
        /\ work[a].key \in Own(work[a].job) \cup {None}

\* Steps that leave the records alone, take no key in hand and drop one past
\* the mail only if that is written down.
LEMMA Released ==
    ASSUME IInv, UNCHANGED records, silent \subseteq silent', unlogged \subseteq unlogged',
           overlapped \subseteq overlapped', dropped => dropped',
           \A a \in Actors, k \in Keys : Holds(a, k)' => Holds(a, k),
           \A a \in Actors, k \in Keys : Posted(a, k)' => Posted(a, k),
           \A a \in Actors, k \in Keys : Posted(a, k) => Posted(a, k)' \/ k \in unlogged'
    PROVE  OnceEach' /\ Honest'
<1>1. log' = log /\ mailed' = mailed
    BY DEF records
<1>2. ASSUME NEW k \in Keys, Apart(k)' PROVE Once(k)'
    <2>1. Apart(k)
        BY <1>2 DEF Apart
    <2>2. Once(k)
        BY <2>1 DEF IInv, OnceEach
    <2> QED BY <2>2, <1>1 DEF Once
<1>3. Honest'
    BY <1>1 DEF IInv, Honest, Keys
<1> QED BY <1>2, <1>3 DEF OnceEach

\* Steps that do not touch the work.
LEMMA WorkKept ==
    ASSUME IInv, UNCHANGED <<work, records, overlapped, unlogged, silent, dropped>>
    PROVE  KeyTaken' /\ LockHeld' /\ OnceEach' /\ Honest'
BY DEF IInv, KeyTaken, LockHeld, OnceEach, Honest, Reminding, Busy, Holds, Posted, Apart, Once, records

\* The initial states satisfy the invariant.
LEMMA InitIInv == Init => IInv
<1> SUFFICES ASSUME Init PROVE IInv
    OBVIOUS
<1>1. TypeOK
    <2>1. now \in 0..MaxTime /\ ran \in BOOLEAN /\ missed \in 0..MaxMissed /\ done \subseteq Events
        <3>1. 0 \in 0..MaxTime /\ 0 \in 0..MaxMissed
            BY ConstantsAssumption
        <3> QED BY <3>1 DEF Init, InitAt
    <2>2. status \in [Budgets -> Levels] /\ month \in Months /\ start \in [Events -> Starts]
        BY ConstantsAssumption DEF Init, InitAt, Levels
    <2>3. log \in [Keys -> Nat] /\ mailed \in [Keys -> Nat]
        BY DEF Init, InitAt
    <2>4. work \in [Actors -> Work \cup {Idle}] /\ \A a \in Actors : ~Busy(a)
        BY DEF Init, InitAt, Busy
    <2> QED BY <2>1, <2>2, <2>3, <2>4 DEF Init, InitAt, TypeOK
<1>2. KeyTaken /\ LockHeld
    BY DEF Init, InitAt, KeyTaken, LockHeld, Reminding, Busy
<1>3. OnceEach
    BY DEF Init, InitAt, OnceEach, Once, Holds, Posted, Busy
<1>4. Honest
    BY DEF Init, InitAt, Honest, Posted, Busy, Keys
<1> QED BY <1>1, <1>2, <1>3, <1>4 DEF IInv
-----------------------------------------------------------------------------
\* A save starts its check.
LEMMA SaveKeeps ==
    ASSUME IInv, NEW a \in Actors, NEW r \in Budgets, NEW level \in Levels,
           Save(a, r, level)
    PROVE  IInv'
<1>0. TypeOK
    BY DEF IInv
<1>1. /\ work' \in [Actors -> Work \cup {Idle}]
      /\ \A b \in Actors : b # a => work'[b] = work[b]
      /\ work'[a] # Idle
      /\ work'[a].job = "save" /\ work'[a].rows = {r} /\ work'[a].todo = {}
      /\ work'[a].key = None /\ work'[a].posted = FALSE
    <2>1. Begin(a, "save", {r}, {})
        BY DEF Save
    <2>2. {r} \in SUBSET Budgets /\ {} \in SUBSET Keys
        OBVIOUS
    <2>3. "save" \in {"save", "daily", "reminders"}
        OBVIOUS
    <2>4. work'[a].todo = {}
        BY <1>0, <2>1 DEF Begin, TypeOK
    <2>5. /\ work' \in [Actors -> Work \cup {Idle}]
          /\ \A b \in Actors : b # a => work'[b] = work[b]
          /\ work'[a] # Idle
          /\ work'[a].job = "save" /\ work'[a].rows = {r}
          /\ work'[a].key = None /\ work'[a].posted = FALSE
        BY <1>0, <2>1, <2>2, <2>3, BeginFacts
    <2> QED BY <2>4, <2>5
<1>2. work[a] = Idle
    BY DEF Save, Busy
<1>3. /\ UNCHANGED <<month, start, done, muted, mail, clock, records, history>>
      /\ status' = [status EXCEPT ![r] = level]
    BY DEF Save, Spend
<1>4. TypeOK'
    BY <1>0, <1>1, <1>3 DEF TypeOK, Busy, clock, records, history
<1>5. KeyTaken'
    BY <1>1 DEF IInv, KeyTaken, Busy
<1>6. LockHeld'
    BY <1>1, <1>3 DEF IInv, LockHeld, Reminding, Busy, history
<1>7. OnceEach' /\ Honest'
    <2>1. \A b \in Actors, k \in Keys : Holds(b, k)' => Holds(b, k)
        BY <1>1, ConstantsAssumption DEF Holds, Busy
    <2>2. \A b \in Actors, k \in Keys : Posted(b, k)' <=> Posted(b, k)
        BY <1>1, <1>2 DEF Posted, Busy
    <2> QED BY <2>1, <2>2, <1>3, Released DEF history
<1> QED BY <1>4, <1>5, <1>6, <1>7 DEF IInv

\* The daily job starts.
LEMMA StartDailyKeeps ==
    ASSUME IInv, NEW a \in Actors, StartDaily(a)
    PROVE  IInv'
<1>0. TypeOK
    BY DEF IInv
<1>1. /\ work' \in [Actors -> Work \cup {Idle}]
      /\ \A b \in Actors : b # a => work'[b] = work[b]
      /\ work'[a] # Idle
      /\ work'[a].job = "daily" /\ work'[a].todo = {}
      /\ work'[a].key = None /\ work'[a].posted = FALSE
    <2>1. Begin(a, "daily", Current, {})
        BY DEF StartDaily
    <2>2. Current \in SUBSET Budgets /\ {} \in SUBSET Keys
        BY DEF Current
    <2>3. "daily" \in {"save", "daily", "reminders"}
        OBVIOUS
    <2>4. work'[a].todo = {}
        BY <1>0, <2>1 DEF Begin, TypeOK
    <2>5. /\ work' \in [Actors -> Work \cup {Idle}]
          /\ \A b \in Actors : b # a => work'[b] = work[b]
          /\ work'[a] # Idle
          /\ work'[a].job = "daily"
          /\ work'[a].key = None /\ work'[a].posted = FALSE
        BY <1>0, <2>1, <2>2, <2>3, BeginFacts
    <2> QED BY <2>4, <2>5
<1>2. work[a] = Idle
    BY DEF StartDaily, Busy
<1>3. UNCHANGED <<world, clock, records, history>>
    BY DEF StartDaily
<1>4. TypeOK'
    BY <1>0, <1>1, <1>3 DEF TypeOK, Busy, world, clock, records, history
<1>5. KeyTaken'
    BY <1>1 DEF IInv, KeyTaken, Busy
<1>6. LockHeld'
    BY <1>1, <1>3 DEF IInv, LockHeld, Reminding, Busy, history
<1>7. OnceEach' /\ Honest'
    <2>1. \A b \in Actors, k \in Keys : Holds(b, k)' => Holds(b, k)
        BY <1>1, ConstantsAssumption DEF Holds, Busy
    <2>2. \A b \in Actors, k \in Keys : Posted(b, k)' <=> Posted(b, k)
        BY <1>1, <1>2 DEF Posted, Busy
    <2> QED BY <2>1, <2>2, <1>3, Released DEF history
<1> QED BY <1>4, <1>5, <1>6, <1>7 DEF IInv
-----------------------------------------------------------------------------
\* An actor that goes on lets go of what it has in hand and takes nothing.
LEMMA ProceedKeeps ==
    ASSUME IInv, NEW a \in Actors, Busy(a), NEW todo \in SUBSET Own(work[a].job),
           todo \subseteq work[a].todo \/ todo \subseteq Alerts, Proceed(a, todo)
    PROVE  /\ work' \in [Actors -> Work \cup {Idle}]
           /\ \A b \in Actors : WorkOK(b)'
           /\ KeyTaken'
           /\ \A b \in Actors : Reminding(b)' => Reminding(b) /\ work'[b].locked = work[b].locked
           /\ \A b \in Actors, k \in Keys : Holds(b, k)' => Holds(b, k)
           /\ \A b \in Actors, k \in Keys : Posted(b, k)' <=> Posted(b, k) /\ b # a
<1>0. TypeOK /\ KeyTaken
    BY DEF IInv
<1>1. todo \in SUBSET Keys
    BY DEF Own, Keys
<1>2. /\ work' \in [Actors -> Work \cup {Idle}]
      /\ \A b \in Actors : b # a => work'[b] = work[b]
      /\ \/ work'[a] = Idle
         \/ /\ work'[a] # Idle
            /\ work'[a].job = work[a].job /\ work'[a].rows = {}
            /\ work'[a].todo = todo /\ work'[a].key = None
            /\ work'[a].posted = FALSE /\ work'[a].locked = work[a].locked
    BY <1>0, <1>1, ProceedFacts
<1>3. \A b \in Actors : WorkOK(b)'
    <2>1. ASSUME NEW b \in Actors, b # a PROVE WorkOK(b)'
        <3>1. WorkOK(b)
            BY <1>0 DEF TypeOK, WorkOK
        <3> QED BY <2>1, <3>1, <1>2 DEF WorkOK, Busy
    <2>2. WorkOK(a)'
        BY <1>2 DEF WorkOK, Busy
    <2> QED BY <2>1, <2>2
<1>4. KeyTaken'
    BY <1>0, <1>1, <1>2, ConstantsAssumption DEF KeyTaken, Busy
<1>5. \A b \in Actors : Reminding(b)' => Reminding(b) /\ work'[b].locked = work[b].locked
    BY <1>2 DEF Reminding, Busy
<1>6. ASSUME NEW b \in Actors, NEW k \in Keys, Holds(b, k)' PROVE Holds(b, k)
    <2>1. CASE b # a
        BY <1>2, <1>6, <2>1 DEF Holds, Busy
    <2>2. CASE b = a
        BY <1>2, <1>6, <2>2, TwoTypes, ConstantsAssumption DEF Holds, Busy
    <2> QED BY <2>1, <2>2
<1>7. \A b \in Actors, k \in Keys : Posted(b, k)' <=> Posted(b, k) /\ b # a
    BY <1>2 DEF Posted, Busy
<1> QED BY <1>2, <1>3, <1>4, <1>5, <1>6, <1>7

\* A check has its levels.
LEMMA RowsKeeps ==
    ASSUME IInv, NEW a \in Actors, Rows(a)
    PROVE  IInv'
<1> DEFINE todo == {Alert(r, status[r]) : r \in {r \in work[a].rows : status[r] > 0}}
<1>0. TypeOK
    BY DEF IInv
<1>1. Busy(a) /\ work[a].rows # {} /\ Proceed(a, todo) /\ work[a] \in Work
    BY <1>0, BusyWork DEF Rows
<1>2. UNCHANGED <<world, clock, records, history>>
    BY DEF Rows
<1>3. work[a].job # "reminders"
    BY <1>0, <1>1 DEF TypeOK
<1>4. todo \subseteq Alerts
    <2>1. work[a].rows \subseteq Budgets
        BY <1>1 DEF Work
    <2>2. ASSUME NEW r \in Budgets, status[r] > 0 PROVE Alert(r, status[r]) \in Alerts
        BY <1>0, <2>2 DEF TypeOK, Alerts, Levels
    <2> QED BY <2>1, <2>2
<1> HIDE DEF todo
<1>5. todo \in SUBSET Own(work[a].job)
    BY <1>3, <1>4 DEF Own
<1>6. /\ work' \in [Actors -> Work \cup {Idle}]
      /\ \A b \in Actors : WorkOK(b)'
      /\ KeyTaken'
      /\ \A b \in Actors : Reminding(b)' => Reminding(b) /\ work'[b].locked = work[b].locked
      /\ \A b \in Actors, k \in Keys : Holds(b, k)' => Holds(b, k)
      /\ \A b \in Actors, k \in Keys : Posted(b, k)' <=> Posted(b, k) /\ b # a
    BY <1>1, <1>4, <1>5, ProceedKeeps
<1>7. TypeOK'
    BY <1>0, <1>2, <1>6 DEF TypeOK, WorkOK, world, clock, records, history
<1>8. LockHeld'
    BY <1>2, <1>6 DEF IInv, LockHeld, history
<1>9. \A k \in Keys : ~Posted(a, k)
    BY <1>0, <1>1, ConstantsAssumption DEF TypeOK, Posted
<1>10. OnceEach' /\ Honest'
    BY <1>2, <1>6, <1>9, Released DEF history
<1> QED BY <1>6, <1>7, <1>8, <1>10 DEF IInv

\* A check looks a level up in the log.
LEMMA LookKeeps ==
    ASSUME IInv, NEW a \in Actors, NEW k \in Keys, Look(a, k)
    PROVE  IInv'
<1>0. TypeOK
    BY DEF IInv
<1>1. /\ Busy(a) /\ work[a].job # "reminders" /\ work[a].key = None
      /\ k \in work[a].todo /\ work[a] \in Work /\ work[a].todo \subseteq Alerts
      /\ ~work[a].posted
    BY <1>0, BusyWork DEF Look, TypeOK, Own, Work
<1>2. UNCHANGED <<world, clock, records, unlogged, silent, excused, dropped>>
    BY DEF Look
<1>3. CASE Unsent(k)
    <2>1. Take(a, k, FALSE) /\ overlapped' = IF Held(k) THEN overlapped \cup {k} ELSE overlapped
        BY <1>3 DEF Look
    <2>2. /\ work' \in [Actors -> Work \cup {Idle}]
          /\ \A b \in Actors : b # a => work'[b] = work[b]
          /\ work'[a] # Idle
          /\ work'[a].job = work[a].job /\ work'[a].rows = work[a].rows
          /\ work'[a].todo = work[a].todo \ {k} /\ work'[a].key = k
          /\ work'[a].posted = FALSE /\ work'[a].locked = work[a].locked
        BY <1>0, <1>1, <2>1, TakeFacts
    <2>3. k \in Alerts /\ k \notin Reminders /\ log[k] = 0
        BY <1>1, <1>3, TwoTypes DEF Unsent
    <2>4. TypeOK'
        <3>1. \A b \in Actors : WorkOK(b)'
            <4>1. ASSUME NEW b \in Actors, b # a PROVE WorkOK(b)'
                <5>1. WorkOK(b)
                    BY <1>0 DEF TypeOK, WorkOK
                <5> QED BY <4>1, <5>1, <2>2 DEF WorkOK, Busy
            <4>2. work[a].rows = {}
                BY <1>0, <1>1 DEF TypeOK
            <4>3. WorkOK(a)'
                BY <2>2, <2>3, <1>1, <4>2 DEF WorkOK, Busy, Own
            <4> QED BY <4>1, <4>3
        <3> QED BY <1>0, <1>2, <2>1, <2>2, <3>1 DEF TypeOK, WorkOK, world, clock, records
    <2>5. KeyTaken'
        BY <2>2 DEF IInv, KeyTaken, Busy
    <2>6. LockHeld'
        BY <1>2, <2>2, <1>1 DEF IInv, LockHeld, Reminding, Busy
    <2>7. \A b \in Actors, j \in Keys : Posted(b, j)' <=> Posted(b, j)
        BY <2>2, <1>1 DEF Posted, Busy
    <2>8. \A b \in Actors, j \in Keys : Holds(b, j)' => Holds(b, j) \/ (b = a /\ j = k)
        BY <2>2, <1>1, ConstantsAssumption DEF Holds, Busy
    <2>9. ASSUME NEW j \in Keys, Apart(j)' PROVE Once(j)'
        <3>1. Apart(j) /\ (j = k => ~Held(k))
            BY <1>2, <2>1, <2>3, <2>9 DEF Apart
        <3>2. Once(j)
            BY <3>1 DEF IInv, OnceEach
        <3>3. j = k => \A b \in Actors : ~Holds(b, j)
            BY <3>1 DEF Held
        <3> QED BY <1>2, <2>3, <2>7, <2>8, <3>2, <3>3 DEF Once, records
    <2>10. Honest'
        BY <1>2, <2>7 DEF IInv, Honest, Keys, records
    <2> QED BY <2>4, <2>5, <2>6, <2>9, <2>10 DEF IInv, OnceEach
<1>4. CASE ~Unsent(k)
    <2>1. Proceed(a, work[a].todo \ {k}) /\ overlapped' = overlapped
        BY <1>4 DEF Look
    <2>2. work[a].todo \ {k} \in SUBSET Own(work[a].job)
        BY <1>1 DEF Own
    <2>3. /\ work' \in [Actors -> Work \cup {Idle}]
          /\ \A b \in Actors : WorkOK(b)'
          /\ KeyTaken'
          /\ \A b \in Actors : Reminding(b)' => Reminding(b) /\ work'[b].locked = work[b].locked
          /\ \A b \in Actors, j \in Keys : Holds(b, j)' => Holds(b, j)
          /\ \A b \in Actors, j \in Keys : Posted(b, j)' <=> Posted(b, j) /\ b # a
        BY <1>1, <2>1, <2>2, ProceedKeeps
    <2>4. TypeOK'
        BY <1>0, <1>2, <2>1, <2>3 DEF TypeOK, WorkOK, world, clock, records
    <2>5. LockHeld'
        BY <1>2, <2>3 DEF IInv, LockHeld
    <2>6. \A j \in Keys : ~Posted(a, j)
        BY <1>1 DEF Posted
    <2>7. OnceEach' /\ Honest'
        BY <1>2, <2>1, <2>3, <2>6, Released
    <2> QED BY <2>3, <2>4, <2>5, <2>7 DEF IInv
<1> QED BY <1>3, <1>4
-----------------------------------------------------------------------------
\* The keys of events that are due are reminders.
LEMMA DueReminders == TypeOK => Due \subseteq Reminders
BY DEF TypeOK, Due, Reminders

\* A run of the reminder job reads the log and starts on what it lacks.
LEMMA StartRemindersKeeps ==
    ASSUME IInv, NEW a \in Actors, StartReminders(a)
    PROVE  IInv'
<1>0. TypeOK /\ work[a] = Idle /\ ran' = TRUE
    BY DEF IInv, StartReminders, Busy
<1>1. UNCHANGED <<world, now, missed, records, unlogged, silent, dropped, counters>>
    BY DEF StartReminders
<1>2. Due \subseteq Keys /\ Unreminded \subseteq Reminders
    BY <1>0, DueReminders DEF Unreminded, Keys
<1>3. /\ overlapped \subseteq overlapped' /\ overlapped' \subseteq overlapped \cup Unreminded
      /\ excused' \subseteq excused \cup Due
    BY DEF StartReminders
<1>4. overlapped' \cup unlogged' \cup silent' \cup excused' \subseteq Keys
    BY <1>0, <1>1, <1>2, <1>3 DEF TypeOK, Keys
<1>5. CASE work' = work
    <2>1. TypeOK'
        BY <1>0, <1>1, <1>4, <1>5 DEF TypeOK, Busy, world, records
    <2>2. KeyTaken' /\ LockHeld'
        BY <1>1, <1>5 DEF IInv, KeyTaken, LockHeld, Reminding, Busy
    <2>3. OnceEach' /\ Honest'
        BY <1>1, <1>3, <1>5, Released DEF Holds, Posted, Busy
    <2> QED BY <2>1, <2>2, <2>3 DEF IInv
<1>6. CASE Begin(a, "reminders", {}, Unreminded)
    <2> DEFINE todo == Unreminded
    <2>1. todo \in SUBSET Keys /\ todo \subseteq Reminders /\ \A k \in todo : log[k] = 0
        BY <1>2 DEF Keys, Unreminded
    <2>2. Begin(a, "reminders", {}, todo)
        BY <1>6
    <2> HIDE DEF todo
    <2>3. /\ work' \in [Actors -> Work \cup {Idle}]
          /\ \A b \in Actors : b # a => work'[b] = work[b]
          /\ work'[a] # Idle
          /\ work'[a].job = "reminders" /\ work'[a].todo = todo
          /\ work'[a].key = None /\ work'[a].posted = FALSE
        <3>1. "reminders" \in {"save", "daily", "reminders"} /\ {} \in SUBSET Budgets
            OBVIOUS
        <3> DEFINE none == {}
        <3>2. Begin(a, "reminders", none, todo) /\ none \in SUBSET Budgets
            BY <2>2
        <3> HIDE DEF none
        <3>3. /\ work' \in [Actors -> Work \cup {Idle}]
              /\ \A b \in Actors : b # a => work'[b] = work[b]
              /\ work'[a] # Idle
            BY <1>0, <2>1, <3>1, <3>2, BeginFacts
        <3>4. work'[a].job = "reminders" /\ work'[a].key = None /\ work'[a].posted = FALSE
            BY <1>0, <2>1, <3>1, <3>2, BeginFacts
        <3>5. work'[a].todo = todo
            BY <1>0, <2>2 DEF Begin, TypeOK
        <3> QED BY <3>3, <3>4, <3>5
    <2>4. work'[a].rows = {} /\ work'[a].locked
        <3>1. a \in DOMAIN work
            BY <1>0 DEF TypeOK
        <3> QED BY <2>2, <3>1 DEF Begin
    <2>5. \A b \in Actors : Reminding(b) => ~work[b].locked
        BY DEF StartReminders, Locked, Reminding
    <2>6. TypeOK'
        <3>1. \A b \in Actors : WorkOK(b)'
            <4>1. ASSUME NEW b \in Actors, b # a PROVE WorkOK(b)'
                <5>1. WorkOK(b)
                    BY <1>0 DEF TypeOK, WorkOK
                <5> QED BY <4>1, <5>1, <2>3 DEF WorkOK, Busy
            <4>2. WorkOK(a)'
                BY <2>1, <2>3, <2>4 DEF WorkOK, Busy, Own
            <4> QED BY <4>1, <4>2
        <3> QED BY <1>0, <1>1, <1>4, <2>3, <3>1 DEF TypeOK, WorkOK, world, records
    <2>7. KeyTaken'
        BY <2>1, <2>3, ConstantsAssumption DEF IInv, KeyTaken, Busy
    <2>8. LockHeld'
        BY <1>1, <2>3, <2>4, <2>5 DEF IInv, LockHeld, Reminding, Busy
    <2>9. \A b \in Actors, k \in Keys : Posted(b, k)' <=> Posted(b, k)
        BY <1>0, <2>3 DEF Posted, Busy
    <2>10. \A b \in Actors, k \in Keys : Holds(b, k)' => Holds(b, k) \/ (b = a /\ k \in todo)
        BY <2>3, ConstantsAssumption DEF Holds, Busy
    <2>11. ASSUME ~dropped, NEW b \in Actors, NEW k \in Reminders PROVE ~Holds(b, k)
        <3>1. ~Reminding(b)
            BY <2>5, <2>11 DEF IInv, LockHeld
        <3>2. Busy(b) => work[b].todo \subseteq Alerts /\ work[b].key \in Alerts \cup {None}
            BY <1>0, <3>1 DEF TypeOK, Own, Reminding
        <3> QED BY <3>2, TwoTypes, ConstantsAssumption DEF Holds, Keys
    <2>12. ASSUME NEW k \in Keys, Apart(k)' PROVE Once(k)'
        <3>1. Apart(k)
            BY <1>1, <1>3, <2>12 DEF Apart
        <3>2. Once(k)
            BY <3>1 DEF IInv, OnceEach
        <3>3. k \in todo => \A b \in Actors : ~Holds(b, k)
            BY <2>1, <2>11, <3>1, TwoTypes DEF Apart
        <3> QED BY <1>1, <2>1, <2>9, <2>10, <3>2, <3>3 DEF Once, records
    <2>13. Honest'
        BY <1>1, <2>9 DEF IInv, Honest, Keys, records
    <2> QED BY <2>6, <2>7, <2>8, <2>12, <2>13 DEF IInv, OnceEach
<1> QED BY <1>5, <1>6 DEF StartReminders

\* A mail is sent, or fails.
LEMMA MailKeeps ==
    ASSUME IInv, NEW a \in Actors, NEW k \in Keys, Mail(a, k)
    PROVE  IInv'
<1>0. TypeOK /\ KeyTaken
    BY DEF IInv
<1>1. /\ Busy(a) /\ ~work[a].posted /\ k \in InHand(a) /\ work[a] \in Work
      /\ work[a].todo \subseteq Own(work[a].job)
      /\ work[a].key \in Own(work[a].job) \cup {None}
    BY <1>0, BusyWork DEF Mail, TypeOK
<1>2. /\ k = work[a].key \/ (work[a].job = "reminders" /\ k \in work[a].todo)
      /\ k \in Own(work[a].job)
    BY <1>1, ConstantsAssumption DEF InHand
<1>3. Holds(a, k)
    BY <1>1, <1>2 DEF Holds, Own
<1>4. /\ UNCHANGED <<world, clock, log, overlapped, unlogged, dropped, counters>>
      /\ mailed' = IF mail = "up" THEN [mailed EXCEPT ![k] = @ + 1] ELSE mailed
      /\ silent' = IF mail = "off" THEN silent \cup {k} ELSE silent
    BY DEF Mail
<1>5. CASE LeftForLater(a)
    <2>1. /\ Proceed(a, work[a].todo \ {k}) /\ excused' = excused \cup {k}
          /\ mailed' = mailed /\ silent' = silent
        BY <1>4, <1>5 DEF Mail, LeftForLater
    <2>2. work[a].todo \ {k} \in SUBSET Own(work[a].job)
        BY <1>1
    <2>3. /\ work' \in [Actors -> Work \cup {Idle}]
          /\ \A b \in Actors : WorkOK(b)'
          /\ KeyTaken'
          /\ \A b \in Actors : Reminding(b)' => Reminding(b) /\ work'[b].locked = work[b].locked
          /\ \A b \in Actors, j \in Keys : Holds(b, j)' => Holds(b, j)
          /\ \A b \in Actors, j \in Keys : Posted(b, j)' <=> Posted(b, j) /\ b # a
        BY <1>1, <2>1, <2>2, ProceedKeeps
    <2>4. TypeOK'
        BY <1>0, <1>4, <2>1, <2>3 DEF TypeOK, WorkOK, world, clock
    <2>5. LockHeld'
        BY <1>4, <2>3 DEF IInv, LockHeld
    <2>6. \A j \in Keys : ~Posted(a, j)
        BY <1>1 DEF Posted
    <2>7. OnceEach' /\ Honest'
        BY <1>4, <2>1, <2>3, <2>6, Released DEF records
    <2> QED BY <2>3, <2>4, <2>5, <2>7 DEF IInv
<1>6. CASE ~LeftForLater(a)
    <2>1. Take(a, k, TRUE) /\ excused' = excused
        BY <1>6 DEF Mail
    <2>2. /\ work' \in [Actors -> Work \cup {Idle}]
          /\ \A b \in Actors : b # a => work'[b] = work[b]
          /\ work'[a] # Idle
          /\ work'[a].job = work[a].job /\ work'[a].rows = work[a].rows
          /\ work'[a].todo = work[a].todo \ {k} /\ work'[a].key = k
          /\ work'[a].posted = TRUE /\ work'[a].locked = work[a].locked
        BY <1>0, <1>1, <2>1, TakeFacts
    <2>3. TypeOK'
        <3>1. \A b \in Actors : WorkOK(b)'
            <4>1. ASSUME NEW b \in Actors, b # a PROVE WorkOK(b)'
                <5>1. WorkOK(b)
                    BY <1>0 DEF TypeOK, WorkOK
                <5> QED BY <4>1, <5>1, <2>2 DEF WorkOK, Busy
            <4>2. work[a].rows = {}
                BY <1>0, <1>1, <1>2, ConstantsAssumption DEF TypeOK
            <4>3. WorkOK(a)'
                BY <2>2, <1>1, <1>2, <4>2, ConstantsAssumption DEF WorkOK, Busy
            <4> QED BY <4>1, <4>3
        <3>2. mailed' \in [Keys -> Nat] /\ silent' \subseteq Keys
            BY <1>0, <1>4 DEF TypeOK
        <3> QED BY <1>0, <1>4, <2>1, <2>2, <3>1, <3>2 DEF TypeOK, WorkOK, world, clock
    <2>4. KeyTaken'
        BY <1>0, <2>2 DEF KeyTaken, Busy
    <2>5. LockHeld'
        BY <1>4, <2>2, <1>1 DEF IInv, LockHeld, Reminding, Busy
    <2>6. \A b \in Actors, j \in Keys : Posted(b, j)' <=> (b = a /\ j = k) \/ Posted(b, j)
        BY <2>2, <1>1 DEF Posted, Busy
    <2>7. \A b \in Actors, j \in Keys : Holds(b, j)' => Holds(b, j)
        BY <2>2, <1>1, <1>3, ConstantsAssumption DEF Holds, Busy
    <2>8. \A j \in Keys : mailed'[j] = mailed[j] \/ (j = k /\ mailed'[j] = mailed[j] + 1)
        BY <1>0, <1>4 DEF TypeOK
    <2>9. ASSUME NEW j \in Keys, Apart(j)' PROVE Once(j)'
        <3>1. Apart(j)
            BY <1>4, <2>9 DEF Apart
        <3>2. Once(j)
            BY <3>1 DEF IInv, OnceEach
        <3>3. CASE j # k
            BY <1>4, <2>6, <2>7, <2>8, <3>2, <3>3 DEF Once
        <3>4. CASE j = k
            <4>1. log[k] = 0 /\ \A b \in Actors : Holds(b, k) => b = a
                BY <1>3, <3>2, <3>4 DEF Once
            <4>2. \A b \in Actors : ~Posted(b, k)
                BY <1>1, <4>1 DEF Posted, Holds
            <4>3. k \notin unlogged => mailed[k] = 0
                BY <3>2, <3>4, <4>1, <4>2 DEF Once
            <4>4. k \notin unlogged' => mailed'[k] =< 1
                BY <1>4, <2>8, <4>3
            <4>5. Posted(a, k)'
                BY <2>6
            <4> QED BY <1>4, <2>7, <3>2, <3>4, <4>1, <4>4, <4>5 DEF Once
        <3> QED BY <3>3, <3>4
    <2>10. Honest'
        <3>1. ASSUME NEW j \in Reminders, log'[j] > 0 \/ \E b \in Actors : Posted(b, j)'
              PROVE  mailed'[j] > 0 \/ j \in silent'
            <4>0. j \in Keys /\ mailed[j] \in Nat
                BY <1>0 DEF Keys, TypeOK
            <4>1. CASE j = k
                <5>1. work[a].job = "reminders"
                    BY <1>2, <4>1, TwoTypes DEF Own
                <5>2. mail = "up" \/ mail = "off"
                    BY <1>0, <1>6, <5>1 DEF LeftForLater, TypeOK
                <5> QED BY <1>0, <1>4, <4>0, <4>1, <5>2 DEF TypeOK
            <4>2. CASE j # k
                <5>1. mailed[j] > 0 \/ j \in silent
                    BY <1>4, <2>6, <3>1, <4>0, <4>2 DEF IInv, Honest
                <5> QED BY <1>4, <2>8, <4>0, <4>2, <5>1
            <4> QED BY <4>1, <4>2
        <3> QED BY <3>1 DEF Honest
    <2> QED BY <2>3, <2>4, <2>5, <2>9, <2>10 DEF IInv, OnceEach
<1> QED BY <1>5, <1>6

\* The row of the log is written.
LEMMA LogKeeps ==
    ASSUME IInv, NEW a \in Actors, Log(a)
    PROVE  IInv'
<1>0. TypeOK /\ KeyTaken
    BY DEF IInv
<1>a. /\ Busy(a) /\ work[a].posted /\ work[a] \in Work /\ work[a].key \in Keys
      /\ work[a].key \notin work[a].todo /\ work[a].todo \subseteq Own(work[a].job)
    BY <1>0, BusyWork DEF Log, TypeOK, KeyTaken, Work
<1>k. PICK k \in Keys : k = work[a].key
    BY <1>a
<1>1. /\ Busy(a) /\ work[a].posted /\ work[a] \in Work /\ k \notin work[a].todo
      /\ work[a].todo \subseteq Own(work[a].job)
    BY <1>a, <1>k
<1>2. /\ UNCHANGED <<world, clock, mailed, history, counters>>
      /\ log' = [log EXCEPT ![k] = @ + 1] /\ Proceed(a, work[a].todo)
    BY <1>k DEF Log
<1>3. Posted(a, k) /\ Holds(a, k)
    BY <1>1, <1>k DEF Posted, Holds
<1>4. \A j \in Keys : Posted(a, j) => j = k
    BY <1>k DEF Posted
<1>5. ~Holds(a, k)'
    <2>1. work'[a] = Idle \/ (work'[a].todo = work[a].todo /\ work'[a].key = None)
        BY <1>0, <1>1, <1>2, ProceedFacts DEF Work
    <2> QED BY <1>1, <2>1, ConstantsAssumption DEF Holds, Busy
<1>6. /\ work' \in [Actors -> Work \cup {Idle}]
      /\ \A b \in Actors : WorkOK(b)'
      /\ KeyTaken'
      /\ \A b \in Actors : Reminding(b)' => Reminding(b) /\ work'[b].locked = work[b].locked
      /\ \A b \in Actors, j \in Keys : Holds(b, j)' => Holds(b, j)
      /\ \A b \in Actors, j \in Keys : Posted(b, j)' <=> Posted(b, j) /\ b # a
    BY <1>1, <1>2, ProceedKeeps
<1>7. log' \in [Keys -> Nat] /\ log'[k] = log[k] + 1 /\ \A j \in Keys : j # k => log'[j] = log[j]
    BY <1>0, <1>1, <1>2 DEF TypeOK
<1>8. TypeOK'
    BY <1>0, <1>2, <1>6, <1>7 DEF TypeOK, WorkOK, world, clock, history
<1>9. LockHeld'
    BY <1>2, <1>6 DEF IInv, LockHeld, history
<1>10. ASSUME NEW j \in Keys, Apart(j)' PROVE Once(j)'
    <2>1. Apart(j)
        BY <1>2, <1>10 DEF Apart, history
    <2>2. Once(j)
        BY <2>1 DEF IInv, OnceEach
    <2>3. CASE j # k
        BY <1>2, <1>4, <1>6, <1>7, <2>2, <2>3 DEF Once, history
    <2>4. CASE j = k
        <3>1. log[k] = 0 /\ \A b \in Actors : Holds(b, k) => b = a
            BY <1>3, <2>2, <2>4 DEF Once
        <3>2. \A b \in Actors : ~Holds(b, k)'
            BY <1>1, <1>5, <1>6, <3>1
        <3> QED BY <1>2, <1>7, <2>2, <2>4, <3>1, <3>2 DEF Once, history
    <2> QED BY <2>3, <2>4
<1>11. Honest'
    <2>1. ASSUME NEW j \in Reminders, log'[j] > 0 \/ \E b \in Actors : Posted(b, j)'
          PROVE  mailed[j] > 0 \/ j \in silent
        BY <1>3, <1>6, <1>7, <2>1 DEF IInv, Honest, Keys
    <2> QED BY <1>2, <2>1 DEF Honest, history
<1> QED BY <1>6, <1>8, <1>9, <1>10, <1>11 DEF IInv, OnceEach

\* An exception ends the work on one key.
LEMMA FailKeeps ==
    ASSUME IInv, NEW a \in Actors, NEW k \in Keys, Fail(a, k)
    PROVE  IInv'
<1>0. TypeOK
    BY DEF IInv
<1>1. /\ Busy(a) /\ k \in InHand(a) /\ work[a].todo \subseteq Own(work[a].job)
      /\ work[a].posted => work[a].key # None
      /\ Proceed(a, work[a].todo \ {k})
    BY <1>0 DEF Fail, TypeOK
<1>2. /\ UNCHANGED <<world, clock, records, overlapped, silent, dropped, saves, changes>>
      /\ unlogged' = IF work[a].posted THEN unlogged \cup {k} ELSE unlogged
      /\ excused' = excused \cup ({k} \cap Reminders)
    BY DEF Fail
<1>3. work[a].todo \ {k} \in SUBSET Own(work[a].job)
    BY <1>1
<1>4. /\ work' \in [Actors -> Work \cup {Idle}]
      /\ \A b \in Actors : WorkOK(b)'
      /\ KeyTaken'
      /\ \A b \in Actors : Reminding(b)' => Reminding(b) /\ work'[b].locked = work[b].locked
      /\ \A b \in Actors, j \in Keys : Holds(b, j)' => Holds(b, j)
      /\ \A b \in Actors, j \in Keys : Posted(b, j)' <=> Posted(b, j) /\ b # a
    BY <1>1, <1>3, ProceedKeeps
<1>5. TypeOK'
    BY <1>0, <1>2, <1>4 DEF TypeOK, WorkOK, world, clock, records
<1>6. LockHeld'
    BY <1>2, <1>4 DEF IInv, LockHeld
<1>7. \A j \in Keys : Posted(a, j) => j \in unlogged'
    BY <1>1, <1>2 DEF Posted, InHand
<1>8. OnceEach' /\ Honest'
    BY <1>2, <1>4, <1>7, Released
<1> QED BY <1>4, <1>5, <1>6, <1>8 DEF IInv

\* The process dies.
LEMMA CrashKeeps ==
    ASSUME IInv, Crash
    PROVE  IInv'
<1>0. TypeOK
    BY DEF IInv
<1>1. /\ work' = [a \in Actors |-> Idle]
      /\ unlogged' = unlogged \cup {work[a].key : a \in {a \in Actors : Busy(a) /\ work[a].posted}}
      /\ excused' = excused \cup {k \in Reminders : Held(k)}
      /\ UNCHANGED <<world, clock, records, overlapped, silent, dropped, saves, changes>>
    BY DEF Crash
<1>2. \A a \in Actors : ~Busy(a)'
    BY <1>1 DEF Busy
<1>3. unlogged \subseteq unlogged' /\ unlogged' \subseteq Keys
    <2>1. ASSUME NEW a \in Actors, Busy(a), work[a].posted PROVE work[a].key \in Keys
        BY <1>0, <2>1, BusyWork DEF TypeOK, Work
    <2> QED BY <1>0, <1>1, <2>1 DEF TypeOK
<1>4. TypeOK'
    <2>1. excused' \subseteq Keys
        BY <1>0, <1>1 DEF TypeOK, Keys
    <2> QED BY <1>0, <1>1, <1>2, <1>3, <2>1 DEF TypeOK, world, clock, records
<1>5. KeyTaken' /\ LockHeld'
    BY <1>2 DEF KeyTaken, LockHeld, Reminding
<1>6. \A a \in Actors, k \in Keys : ~Holds(a, k)' /\ ~Posted(a, k)'
    BY <1>2 DEF Holds, Posted
<1>7. \A a \in Actors, k \in Keys : Posted(a, k) => k \in unlogged'
    BY <1>1 DEF Posted
<1>8. OnceEach' /\ Honest'
    BY <1>1, <1>3, <1>6, <1>7, Released
<1> QED BY <1>4, <1>5, <1>8 DEF IInv

\* A run goes on without its lock.
LEMMA LoseLockKeeps ==
    ASSUME IInv, NEW a \in Actors, LoseLock(a)
    PROVE  IInv'
<1>0. TypeOK
    BY DEF IInv
<1>1. /\ work' \in [Actors -> Work \cup {Idle}]
      /\ \A b \in Actors : b # a => work'[b] = work[b]
      /\ work'[a] # Idle
      /\ work'[a].job = work[a].job /\ work'[a].rows = work[a].rows
      /\ work'[a].todo = work[a].todo /\ work'[a].key = work[a].key
      /\ work'[a].posted = work[a].posted /\ work'[a].locked = FALSE
    BY <1>0, LoseLockFacts
<1>2. /\ Busy(a) /\ dropped' = TRUE
      /\ UNCHANGED <<world, clock, records, overlapped, unlogged, silent, excused>>
    BY <1>0 DEF LoseLock, TypeOK
<1>3. TypeOK'
    <2>1. \A b \in Actors : WorkOK(b)
        BY <1>0 DEF TypeOK, WorkOK
    <2>2. \A b \in Actors : WorkOK(b)'
        BY <1>1, <1>2, <2>1 DEF WorkOK, Busy
    <2> QED BY <1>0, <1>1, <1>2, <2>2 DEF TypeOK, WorkOK, world, clock, records
<1>4. KeyTaken' /\ LockHeld'
    BY <1>1, <1>2 DEF IInv, KeyTaken, LockHeld, Reminding, Busy
<1>5. \A b \in Actors, k \in Keys : Holds(b, k)' <=> Holds(b, k)
    BY <1>1, <1>2 DEF Holds, Busy
<1>6. \A b \in Actors, k \in Keys : Posted(b, k)' <=> Posted(b, k)
    BY <1>1, <1>2 DEF Posted, Busy
<1>7. OnceEach' /\ Honest'
    BY <1>2, <1>5, <1>6, Released
<1> QED BY <1>3, <1>4, <1>7 DEF IInv

\* Spending, mail, settings, events, the calendar and the clock change
\* around the work.
LEMMA WorldKeeps ==
    ASSUME IInv,
           \/ \E state \in {"up", "down", "off"} : MailTurns(state)
           \/ \E type \in {"alert", "reminder"} : Switch(type)
           \/ \E e \in Events : set_completed(e) \/ \E t \in Starts : update_event(e, t)
           \/ \E r \in Budgets, level \in Levels : Unchecked(r, level)
           \/ Tick \/ MonthTurns
    PROVE  IInv'
<1>0. TypeOK
    BY DEF IInv
<1>1. \A e \in Events, t \in Starts : Late(e, t) \subseteq Reminders
    BY DEF Late, Reminders
<1>2. /\ UNCHANGED <<work, records, overlapped, unlogged, silent, dropped>>
      /\ TypeOK'
    <2>1. ASSUME NEW state \in {"up", "down", "off"}, MailTurns(state)
          PROVE  UNCHANGED <<work, records, overlapped, unlogged, silent, dropped>> /\ TypeOK'
        BY <1>0, <2>1 DEF MailTurns, Change, TypeOK, Busy, clock, records
    <2>2. ASSUME NEW type \in {"alert", "reminder"}, Switch(type)
          PROVE  UNCHANGED <<work, records, overlapped, unlogged, silent, dropped>> /\ TypeOK'
        BY <1>0, <2>2 DEF Switch, Change, TypeOK, Busy, clock, records
    <2>3. ASSUME NEW e \in Events, set_completed(e)
          PROVE  UNCHANGED <<work, records, overlapped, unlogged, silent, dropped>> /\ TypeOK'
        <3>1. Late(e, start[e]) \subseteq Keys
            BY <1>0, <1>1 DEF TypeOK, Keys
        <3>2. done' \subseteq Events /\ excused' \subseteq Keys
            BY <1>0, <2>3, <3>1 DEF set_completed, TypeOK
        <3>3. UNCHANGED <<work, records, overlapped, unlogged, silent, dropped, month, status, clock,
                          start, muted, mail>>
            BY <2>3 DEF set_completed, Change
        <3> QED BY <1>0, <3>2, <3>3 DEF TypeOK, Busy, clock, records
    <2>4. ASSUME NEW e \in Events, NEW t \in Starts, update_event(e, t)
          PROVE  UNCHANGED <<work, records, overlapped, unlogged, silent, dropped>> /\ TypeOK'
        <3>1. Late(e, t) \subseteq Keys
            BY <1>1 DEF Keys
        <3>2. start' \in [Events -> Starts] /\ excused' \subseteq Keys
            BY <1>0, <2>4, <3>1 DEF update_event, TypeOK
        <3>3. UNCHANGED <<work, records, overlapped, unlogged, silent, dropped, month, status, clock,
                          done, muted, mail>>
            BY <2>4 DEF update_event, Change
        <3> QED BY <1>0, <3>2, <3>3 DEF TypeOK, Busy, clock, records
    <2>5. ASSUME Tick
          PROVE  UNCHANGED <<work, records, overlapped, unlogged, silent, dropped>> /\ TypeOK'
        <3>1. now' \in 0..MaxTime /\ missed' \in 0..MaxMissed /\ ran' \in BOOLEAN
            <4>1. now \in 0..MaxTime /\ missed \in 0..MaxMissed /\ ran \in BOOLEAN
                BY <1>0 DEF TypeOK
            <4>2. now < MaxTime /\ now' = now + 1 /\ ran' = FALSE
                BY <2>5 DEF Tick
            <4>3. missed' = 0 \/ (missed < MaxMissed /\ missed' = missed + 1)
                BY <2>5 DEF Tick
            <4>4. MaxTime \in Nat /\ MaxMissed \in Nat
                BY ConstantsAssumption
            <4>5. now' \in 0..MaxTime
                BY <4>1, <4>2, <4>4
            <4>6. missed' \in 0..MaxMissed
                BY <4>1, <4>3, <4>4
            <4>7. ran' \in BOOLEAN
                BY <4>2
            <4> QED BY <4>5, <4>6, <4>7
        <3>2. UNCHANGED <<world, work, records, history, counters>>
            BY <2>5 DEF Tick
        <3> QED BY <1>0, <3>1, <3>2 DEF TypeOK, Busy, world, records, history
    <2>6. ASSUME NEW r \in Budgets, NEW level \in Levels, Unchecked(r, level)
          PROVE  UNCHANGED <<work, records, overlapped, unlogged, silent, dropped>> /\ TypeOK'
        BY <1>0, <2>6 DEF Unchecked, Spend, TypeOK, Busy, clock, records, history
    <2>7. ASSUME MonthTurns
          PROVE  UNCHANGED <<work, records, overlapped, unlogged, silent, dropped>> /\ TypeOK'
        BY <1>0, <2>7 DEF MonthTurns, TypeOK, Busy, clock, records, history
    <2> QED BY <2>1, <2>2, <2>3, <2>4, <2>5, <2>6, <2>7
<1>3. KeyTaken' /\ LockHeld' /\ OnceEach' /\ Honest'
    BY <1>2, WorkKept
<1> QED BY <1>2, <1>3 DEF IInv
-----------------------------------------------------------------------------
\* Every step keeps the invariant.
LEMMA NextIInv == IInv /\ [Next]_vars => IInv'
<1> SUFFICES ASSUME IInv, [Next]_vars PROVE IInv'
    OBVIOUS
<1>1. ASSUME NEW a \in Actors, NEW r \in Budgets, NEW level \in Levels, Save(a, r, level)
      PROVE  IInv'
    BY <1>1, SaveKeeps
<1>2. ASSUME NEW a \in Actors,
             StartDaily(a) \/ StartReminders(a) \/ Rows(a) \/ Log(a) \/ LoseLock(a)
      PROVE  IInv'
    BY <1>2, StartDailyKeeps, StartRemindersKeeps, RowsKeeps, LogKeeps, LoseLockKeeps
<1>3. ASSUME NEW a \in Actors, NEW k \in Keys, Look(a, k) \/ Mail(a, k) \/ Fail(a, k)
      PROVE  IInv'
    BY <1>3, LookKeeps, MailKeeps, FailKeeps
<1>4. CASE Crash
    BY <1>4, CrashKeeps
<1>5. CASE \/ \E state \in {"up", "down", "off"} : MailTurns(state)
           \/ \E type \in {"alert", "reminder"} : Switch(type)
           \/ \E e \in Events : set_completed(e) \/ \E t \in Starts : update_event(e, t)
           \/ \E r \in Budgets, level \in Levels : Unchecked(r, level)
           \/ Tick \/ MonthTurns
    BY <1>5, WorldKeeps
<1>6. CASE UNCHANGED vars
    <2>1. UNCHANGED <<world, clock, work, records, history>>
        BY <1>6 DEF vars
    <2>2. TypeOK'
        BY <2>1 DEF IInv, TypeOK, Busy, world, clock, records, history
    <2>3. KeyTaken' /\ LockHeld' /\ OnceEach' /\ Honest'
        BY <2>1, WorkKept DEF history
    <2> QED BY <2>2, <2>3 DEF IInv
<1> QED BY <1>1, <1>2, <1>3, <1>4, <1>5, <1>6 DEF Next

\* The invariant holds in every reachable state.
THEOREM InductiveInvariant == Spec => []IInv
BY InitIInv, NextIInv, PTL DEF Spec

\* Every variable keeps its type.
THEOREM TypeCorrect == Spec => []TypeOK
<1>1. IInv => TypeOK
    BY DEF IInv
<1> QED BY <1>1, InductiveInvariant, PTL

\* Two checks of a level that do not overlap log it once, and a second mail
\* needs somebody who could not log the first.
THEOREM AlertedOnce == Spec => []AlertOnce
<1>1. IInv => AlertOnce
    BY DEF IInv, OnceEach, Once, Apart, AlertOnce, Keys
<1> QED BY <1>1, InductiveInvariant, PTL

\* With the lock of the job in force no reminder is logged twice, nor mailed
\* twice unless a fault came between.
THEOREM RemindedOnce == Spec => []ReminderOnce
<1>1. IInv => ReminderOnce
    BY TwoTypes DEF IInv, OnceEach, Once, Apart, ReminderOnce, Keys
<1> QED BY <1>1, InductiveInvariant, PTL

\* A reminder in the log was mailed, or mail was not connected.
THEOREM RemindersAreHonest == Spec => []NoFalseReminder
<1>1. IInv => NoFalseReminder
    BY DEF IInv, Honest, NoFalseReminder
<1> QED BY <1>1, InductiveInvariant, PTL
-----------------------------------------------------------------------------
\* The tick of the last run that counts, -1 before the first one.
LastRun == IF ran THEN now ELSE now - missed - 1

\* The reminder of an event is in the log, in hand, or given up by a run.
Settled(e) ==
    LET k == Reminder(e, start[e]) IN
    log[k] > 0 \/ k \in excused \/ Held(k)

\* Why no reminder is late: the last run left nothing open of what its
\* window showed it, and what is in hand is still to come.
Open(e) ==
    \/ start[e] - Lead > LastRun + Window
    \/ LastRun < 0 /\ start[e] > MaxMissed

Prompt ==
    /\ \A e \in Events : e \notin done => Settled(e) \/ Open(e)
    /\ \A a \in Actors, k \in Reminders : Holds(a, k) => now < k.at

\* The cron misses fewer ticks in a row than a reminder can be sent in.
CronIsFrequent == MaxMissed < Window + Lead

\* Reminders are told apart by their event and its time.
LEMMA ReminderFacts ==
    ASSUME NEW e \in Events, NEW t \in Starts
    PROVE  Reminder(e, t) \in Reminders /\ Reminder(e, t) \in Keys /\ Reminder(e, t).at = t
BY DEF Reminders, Reminder, Keys

\* The clock's facts: ticks are counted from the last run on.
LEMMA ClockFacts ==
    ASSUME TypeOK
    PROVE  /\ now \in Nat /\ missed \in Nat /\ missed =< MaxMissed /\ LastRun \in Int
           /\ LastRun =< now /\ now - MaxMissed - 1 =< LastRun
           /\ Window = 2 /\ Lead \in Nat /\ MaxMissed \in Nat
           /\ \A e \in Events : start[e] \in Starts /\ start[e] \in Nat
<1>1. now \in Nat /\ missed \in Nat /\ missed =< MaxMissed /\ MaxMissed \in Nat
    BY ConstantsAssumption DEF TypeOK
<1>2. LastRun = now \/ LastRun = now - missed - 1
    BY DEF LastRun
<1>3. \A e \in Events : start[e] \in Starts /\ start[e] \in Nat
    BY ConstantsAssumption DEF TypeOK
<1> QED BY <1>1, <1>2, <1>3, ConstantsAssumption DEF Window

\* At first no run has been, and none is late.
LEMMA InitPrompt == Init => Prompt
<1> SUFFICES ASSUME Init PROVE Prompt
    OBVIOUS
<1>1. \A a \in Actors, k \in Keys : ~Holds(a, k)
    BY DEF Init, InitAt, Holds, Busy
<1>2. ASSUME NEW e \in Events, e \notin done PROVE Open(e)
    <2>1. now = 0 /\ ran = FALSE /\ missed = 0
        BY <1>2 DEF Init, InitAt
    <2>2. LastRun < 0
        BY <2>1 DEF LastRun
    <2>3. start[e] > MaxMissed
        BY DEF Init, InitAt
    <2> QED BY <2>2, <2>3 DEF Open
<1> QED BY <1>1, <1>2 DEF Prompt, Keys
-----------------------------------------------------------------------------
\* Steps within a tick that drop a reminder in hand only to the log or to
\* what the run could not send.
LEMMA NothingLost ==
    ASSUME IInv, Prompt, UNCHANGED <<start, done, now, missed>>, ran' => ran,
           \A k \in Reminders : log[k] > 0 => log'[k] > 0, excused \subseteq excused',
           \A a \in Actors, k \in Reminders : Holds(a, k)' => Holds(a, k),
           \A a \in Actors, k \in Reminders :
               Holds(a, k) => Holds(a, k)' \/ log'[k] > 0 \/ k \in excused'
    PROVE  Prompt'
<1>0. TypeOK
    BY DEF IInv
<1>1. /\ LastRun \in Int /\ LastRun' \in Int /\ LastRun' =< LastRun
      /\ \A e \in Events : start[e] \in Starts /\ start[e] \in Nat
      /\ Lead \in Nat /\ Window = 2
    <2>1. now \in Nat /\ missed \in Nat
        BY <1>0, ClockFacts
    <2>2. LastRun' = LastRun \/ (LastRun = now /\ LastRun' = now - missed - 1)
        BY DEF LastRun
    <2> QED BY <1>0, <2>1, <2>2, ClockFacts
<1>2. ASSUME NEW e \in Events, e \notin done' PROVE Settled(e)' \/ Open(e)'
    <2>1. Settled(e) \/ Open(e)
        BY <1>2 DEF Prompt
    <2>2. CASE Settled(e)
        <3>1. PICK k \in Reminders : k = Reminder(e, start[e])
            BY <1>1, ReminderFacts
        <3>2. log[k] > 0 \/ k \in excused \/ \E a \in Actors : Holds(a, k)
            BY <2>2, <3>1 DEF Settled, Held
        <3>3. log'[k] > 0 \/ k \in excused' \/ \E a \in Actors : Holds(a, k)'
            BY <3>2
        <3>4. k = Reminder(e, start'[e])
            BY <3>1
        <3> QED BY <3>3, <3>4 DEF Settled, Held
    <2>3. CASE Open(e)
        <3>1. start'[e] = start[e]
            OBVIOUS
        <3> QED BY <2>3, <3>1, <1>1 DEF Open, Window
    <2> QED BY <2>1, <2>2, <2>3
<1> QED BY <1>2 DEF Prompt

\* Actors at alerts hold no reminder.
LEMMA AlertsOnly ==
    ASSUME TypeOK, NEW a \in Actors, Busy(a) => work[a].job # "reminders",
           NEW k \in Reminders
    PROVE  ~Holds(a, k)
BY TwoTypes, ConstantsAssumption DEF TypeOK, Own, Holds, Keys

\* Their steps touch no reminder.
LEMMA AlertStepPrompt ==
    ASSUME IInv, IInv', Prompt, NEW a \in Actors,
           UNCHANGED <<start, done, now, missed, ran, log, excused>>,
           Busy(a) => work[a].job # "reminders",
           Busy(a)' => work'[a].job # "reminders",
           \A b \in Actors : b # a => work'[b] = work[b]
    PROVE  Prompt'
<1>1. ASSUME NEW b \in Actors, NEW k \in Reminders PROVE Holds(b, k)' <=> Holds(b, k)
    <2>1. CASE b = a
        <3>1. ~Holds(a, k)
            BY AlertsOnly DEF IInv
        <3>2. ~Holds(a, k)'
            BY TwoTypes, ConstantsAssumption DEF IInv, TypeOK, Own, Holds, Keys
        <3> QED BY <2>1, <3>1, <3>2
    <2>2. CASE b # a
        BY <2>2 DEF Holds, Busy
    <2> QED BY <2>1, <2>2
<1> QED BY <1>1, NothingLost

LEMMA AlertsPrompt ==
    ASSUME IInv, IInv', Prompt, NEW a \in Actors,
           \/ \E r \in Budgets, level \in Levels : Save(a, r, level)
           \/ StartDaily(a) \/ Rows(a) \/ \E k \in Keys : Look(a, k)
    PROVE  Prompt'
<1>0. TypeOK
    BY DEF IInv
<1>1. UNCHANGED <<start, done, now, missed, ran, log, excused>>
    BY DEF Save, Spend, StartDaily, Rows, Look, world, clock, records, history
<1>2. Busy(a) => work[a].job # "reminders"
    BY <1>0 DEF Save, StartDaily, Rows, Look, TypeOK
<1>3. /\ Busy(a)' => work'[a].job # "reminders"
      /\ \A b \in Actors : b # a => work'[b] = work[b]
    <2>1. ASSUME NEW job \in {"save", "daily"}, NEW rows \in SUBSET Budgets,
                 Begin(a, job, rows, {})
          PROVE  <1>3
        <3>1. {} \in SUBSET Keys /\ job \in {"save", "daily", "reminders"}
            OBVIOUS
        <3>2. /\ \A b \in Actors : b # a => work'[b] = work[b]
              /\ work'[a].job = job
            BY <1>0, <2>1, <3>1, BeginFacts
        <3> QED BY <3>2
    <2>2. ASSUME NEW r \in Budgets, NEW level \in Levels, Save(a, r, level) PROVE <1>3
        <3>1. Begin(a, "save", {r}, {}) /\ {r} \in SUBSET Budgets
            BY <2>2 DEF Save
        <3> QED BY <2>1, <3>1
    <2>3. ASSUME StartDaily(a) PROVE <1>3
        <3>1. Begin(a, "daily", Current, {}) /\ Current \in SUBSET Budgets
            BY <2>3 DEF StartDaily, Current
        <3> QED BY <2>1, <3>1
    <2>4. ASSUME NEW todo \in SUBSET Keys, Busy(a), Proceed(a, todo) PROVE <1>3
        <3>1. /\ \A b \in Actors : b # a => work'[b] = work[b]
              /\ work'[a] = Idle \/ work'[a].job = work[a].job
            BY <1>0, <2>4, ProceedFacts
        <3> QED BY <2>4, <3>1, <1>2 DEF Busy
    <2>5. ASSUME Rows(a) PROVE <1>3
        <3>1. PICK todo : Proceed(a, todo) /\ todo
                 = {Alert(r, status[r]) : r \in {r \in work[a].rows : status[r] > 0}}
            BY <2>5 DEF Rows
        <3>2. Busy(a) /\ work[a] \in Work
            BY <2>5, <1>0, BusyWork DEF Rows
        <3>3. todo \in SUBSET Keys
            <4>1. \A r \in Budgets : status[r] > 0 => Alert(r, status[r]) \in Alerts
                BY <1>0 DEF TypeOK, Alerts, Levels
            <4>2. work[a].rows \subseteq Budgets
                BY <3>2 DEF Work
            <4> QED BY <3>1, <4>1, <4>2 DEF Keys
        <3> QED BY <2>4, <3>1, <3>2, <3>3
    <2>6. ASSUME NEW k \in Keys, Look(a, k) PROVE <1>3
        <3>1. Busy(a) /\ work[a] \in Work
            BY <2>6, <1>0, BusyWork DEF Look
        <3>2. CASE Take(a, k, FALSE)
            <4>1. /\ \A b \in Actors : b # a => work'[b] = work[b]
                  /\ work'[a].job = work[a].job
                BY <1>0, <3>1, <3>2, TakeFacts
            <4> QED BY <4>1, <3>1, <1>2
        <3>3. CASE Proceed(a, work[a].todo \ {k})
            <4>1. work[a].todo \ {k} \in SUBSET Keys
                BY <3>1 DEF Work
            <4> QED BY <2>4, <3>1, <3>3, <4>1
        <3> QED BY <2>6, <3>2, <3>3 DEF Look
    <2> QED BY <2>2, <2>3, <2>5, <2>6
<1> QED BY <1>1, <1>2, <1>3, AlertStepPrompt

\* A run takes in hand what its window shows and the log lacks.
LEMMA StartPrompt ==
    ASSUME CronIsFrequent, IInv, IInv', Prompt, NEW a \in Actors, StartReminders(a)
    PROVE  Prompt'
<1>0. TypeOK
    BY DEF IInv
<1>1. UNCHANGED <<start, done, now, missed, log>> /\ ran' = TRUE /\ ~Busy(a)
    BY DEF StartReminders, world, records
<1>2. /\ now \in Nat /\ Lead \in Nat /\ Window = 2 /\ MaxMissed \in Nat
      /\ LastRun \in Int /\ now - MaxMissed - 1 =< LastRun
      /\ \A e \in Events : start[e] \in Starts /\ start[e] \in Nat
    BY <1>0, ClockFacts
<1>3. LastRun' = now /\ \A k \in Reminders : ~Holds(a, k)
    BY <1>1 DEF LastRun, Holds
<1>4. /\ \A b \in Actors : b # a => work'[b] = work[b]
      /\ \A k \in Reminders : Holds(a, k)' => k \in Due
      /\ \A k \in Due : log[k] > 0 \/ k \in excused' \/ Holds(a, k)'
      /\ excused \ Due \subseteq excused'
    <2>0. Due \subseteq Reminders /\ Unreminded \subseteq Due
        BY <1>0, DueReminders DEF Unreminded
    <2>1. CASE "reminder" \in muted
        <3>1. excused' = excused \cup Due /\ work' = work
            BY <2>1 DEF StartReminders
        <3> QED BY <3>1, <1>3 DEF Holds, Busy
    <2>2. CASE "reminder" \notin muted
        <3>0. excused' = excused \ Due
            BY <2>2 DEF StartReminders
        <3>1. \A k \in Due : log[k] > 0 \/ k \in Unreminded
            BY <2>0, <1>0 DEF Unreminded, TypeOK, Keys
        <3>2. CASE Unreminded = {}
            <4>1. work' = work
                BY <2>2, <3>2 DEF StartReminders
            <4> QED BY <3>0, <3>1, <3>2, <4>1, <1>3 DEF Holds, Busy
        <3>3. CASE Unreminded # {}
            <4>1. Begin(a, "reminders", {}, Unreminded)
                BY <2>2, <3>3 DEF StartReminders
            <4>2. PICK w : w = [job |-> "reminders", rows |-> {}, todo |-> Unreminded,
                                key |-> None, posted |-> FALSE,
                                locked |-> "reminders" # "save"]
                OBVIOUS
            <4>3. w # Idle /\ w.todo = Unreminded /\ w.key = None
                BY <4>2 DEF Idle
            <4>4. /\ \A b \in Actors : b # a => work'[b] = work[b]
                  /\ work'[a] = w
                <5>1. work' = [work EXCEPT ![a] = w]
                    BY <4>1, <4>2 DEF Begin
                <5>2. work \in [Actors -> Work \cup {Idle}]
                    BY <1>0 DEF TypeOK
                <5> QED BY <5>1, <5>2
            <4> QED BY <2>0, <3>0, <3>1, <4>3, <4>4, ConstantsAssumption
                    DEF Holds, Busy, Keys
        <3> QED BY <3>2, <3>3
    <2> QED BY <2>1, <2>2
<1>5. ASSUME NEW b \in Actors, NEW k \in Reminders, Holds(b, k)' PROVE now' < k.at
    <2>1. CASE b # a
        BY <1>1, <1>4, <1>5, <2>1 DEF Holds, Busy, Prompt
    <2>2. CASE b = a
        <3>1. PICK e \in Events : k = Reminder(e, start[e]) /\ IsDue(e)
            BY <1>4, <1>5, <2>2 DEF Due
        <3>2. k.at = start[e] /\ now < start[e]
            BY <1>2, <3>1, ReminderFacts DEF IsDue
        <3> QED BY <1>1, <3>2
    <2> QED BY <2>1, <2>2
<1>6. ASSUME NEW e \in Events, e \notin done' PROVE Settled(e)' \/ Open(e)'
    <2>a. PICK r : r = Reminder(e, start[e])
        OBVIOUS
    <2>0. r \in Reminders /\ start'[e] = start[e] /\ start[e] \in Nat /\ e \notin done
        BY <1>1, <1>2, <1>6, <2>a, ReminderFacts
    <2>1. CASE r \in Due
        <3>1. log[r] > 0 \/ r \in excused' \/ Holds(a, r)'
            BY <2>1, <1>4
        <3> QED BY <3>1, <2>0, <2>a, <1>1 DEF Settled, Held
    <2>2. CASE r \notin Due
        <3>1. ~IsDue(e)
            BY <2>2, <2>a DEF Due
        <3>2. CASE now < start[e]
            <4>1. start[e] - Lead > now + Window
                BY <3>1, <3>2, <2>0, <1>2 DEF IsDue
            <4> QED BY <4>1, <2>0, <1>3 DEF Open, Window
        <3>3. CASE ~(now < start[e])
            <4>1. ~Open(e)
                BY <3>3, <2>0, <1>2 DEF Open, CronIsFrequent
            <4>2. log[r] > 0 \/ r \in excused \/ \E b \in Actors : Holds(b, r)
                BY <4>1, <2>0, <2>a DEF Prompt, Settled, Held
            <4>3. r.at = start[e]
                BY <1>2, <2>a, ReminderFacts
            <4>4. \A b \in Actors : ~Holds(b, r)
                <5>1. ~(now < r.at)
                    BY <3>3, <4>3
                <5> QED BY <5>1, <2>0 DEF Prompt
            <4>5. log[r] > 0 \/ r \in excused'
                BY <2>2, <4>2, <4>4, <1>4
            <4> QED BY <4>5, <2>0, <2>a, <1>1 DEF Settled
        <3> QED BY <3>2, <3>3
    <2> QED BY <2>1, <2>2
<1> QED BY <1>5, <1>6 DEF Prompt

\* An actor that goes on with the rest drops only its key and what it left.
LEMMA ProceedDrops ==
    ASSUME IInv, NEW a \in Actors, Busy(a), NEW k \in Keys,
           Proceed(a, work[a].todo \ {k}) \/ (Proceed(a, work[a].todo) /\ k = work[a].key),
           k = work[a].key \/ work[a].key = None
    PROVE  \A b \in Actors, j \in Reminders :
               /\ Holds(b, j)' => Holds(b, j)
               /\ Holds(b, j) => Holds(b, j)' \/ (b = a /\ j = k)
<1>0. TypeOK /\ KeyTaken
    BY DEF IInv
<1>1. work[a] \in Work /\ work[a].todo \subseteq Keys
    BY <1>0, BusyWork DEF Work
<1>2. PICK todo \in SUBSET Keys :
          /\ Proceed(a, todo) /\ todo \subseteq work[a].todo
          /\ \A j \in Keys : j \in work[a].todo /\ j # k => j \in todo
    <2>1. CASE Proceed(a, work[a].todo \ {k})
        BY <2>1, <1>1
    <2>2. CASE Proceed(a, work[a].todo)
        BY <2>2, <1>1
    <2> QED BY <2>1, <2>2
<1>3. /\ \A b \in Actors : b # a => work'[b] = work[b]
      /\ \/ work'[a] = Idle
         \/ work'[a] # Idle /\ work'[a].todo = todo /\ work'[a].key = None
      /\ work'[a] = Idle => todo = {}
    <2>1. /\ \A b \in Actors : b # a => work'[b] = work[b]
          /\ \/ work'[a] = Idle
             \/ work'[a] # Idle /\ work'[a].todo = todo /\ work'[a].key = None
        BY <1>0, <1>2, ProceedFacts
    <2>2. ASSUME todo # {} PROVE work'[a] # Idle
        <3> DEFINE w == [work[a] EXCEPT !.rows = {}, !.todo = todo, !.key = None,
                                        !.posted = FALSE]
        <3>1. w # Idle
            BY <1>1 DEF Idle, Work
        <3>2. work' = [work EXCEPT ![a] = w]
            BY <1>2, <2>2 DEF Proceed
        <3> HIDE DEF w
        <3> QED BY <3>1, <3>2, <1>0 DEF TypeOK
    <2> QED BY <2>1, <2>2
<1>4. ASSUME NEW b \in Actors, NEW j \in Reminders
      PROVE  /\ Holds(b, j)' => Holds(b, j)
             /\ Holds(b, j) => Holds(b, j)' \/ (b = a /\ j = k)
    <2>0. j \in Keys /\ j # None
        BY ConstantsAssumption DEF Keys
    <2>1. CASE b # a
        BY <1>3, <2>1 DEF Holds, Busy
    <2>2. CASE b = a
        BY <1>2, <1>3, <2>0, <2>2 DEF Holds, Busy
    <2> QED BY <2>1, <2>2
<1> QED BY <1>4

\* The mail keeps the key in hand, or leaves it for the next run.
LEMMA MailPrompt ==
    ASSUME IInv, Prompt, NEW a \in Actors, NEW k \in Keys, Mail(a, k)
    PROVE  Prompt'
<1>0. TypeOK
    BY DEF IInv
<1>1. /\ Busy(a) /\ k \in InHand(a) /\ work[a] \in Work
      /\ UNCHANGED <<start, done, now, missed, ran, log>>
    BY <1>0, BusyWork DEF Mail, world, clock
<1>2. /\ k = work[a].key \/ work[a].key = None
      /\ k = work[a].key \/ (work[a].job = "reminders" /\ k \in work[a].todo)
    BY <1>1 DEF InHand
<1>3. CASE LeftForLater(a)
    <2>1. Proceed(a, work[a].todo \ {k}) /\ excused' = excused \cup {k}
        BY <1>3 DEF Mail
    <2>2. \A b \in Actors, j \in Reminders :
              /\ Holds(b, j)' => Holds(b, j)
              /\ Holds(b, j) => Holds(b, j)' \/ (b = a /\ j = k)
        BY <1>1, <1>2, <2>1, ProceedDrops
    <2> QED BY <1>1, <2>1, <2>2, NothingLost
<1>4. CASE ~LeftForLater(a)
    <2>1. Take(a, k, TRUE) /\ excused' = excused
        BY <1>4 DEF Mail
    <2>2. /\ \A b \in Actors : b # a => work'[b] = work[b]
          /\ work'[a] # Idle
          /\ work'[a].todo = work[a].todo \ {k} /\ work'[a].key = k
        BY <1>0, <1>1, <2>1, TakeFacts
    <2>3. ASSUME NEW b \in Actors, NEW j \in Reminders PROVE Holds(b, j)' <=> Holds(b, j)
        <3>0. j # None /\ work[a].todo \subseteq Keys /\ KeyTaken
            BY <1>1, ConstantsAssumption DEF Keys, Work, IInv
        <3>1. CASE b # a
            BY <2>2, <3>1 DEF Holds, Busy
        <3>2. CASE b = a
            BY <1>1, <1>2, <2>2, <3>0, <3>2 DEF Holds, Busy
        <3> QED BY <3>1, <3>2
    <2> QED BY <1>1, <2>1, <2>3, NothingLost
<1> QED BY <1>3, <1>4

\* The log takes over from the hand.
LEMMA LogPrompt ==
    ASSUME IInv, Prompt, NEW a \in Actors, Log(a)
    PROVE  Prompt'
<1>0. TypeOK
    BY DEF IInv
<1>1. PICK k \in Keys : k = work[a].key
    BY <1>0 DEF Log, TypeOK, Own, Keys
<1>2. /\ Busy(a) /\ Proceed(a, work[a].todo) /\ log' = [log EXCEPT ![k] = @ + 1]
      /\ UNCHANGED <<start, done, now, missed, ran, excused>>
    BY <1>1 DEF Log, world, clock, history
<1>3. \A b \in Actors, j \in Reminders :
          /\ Holds(b, j)' => Holds(b, j)
          /\ Holds(b, j) => Holds(b, j)' \/ (b = a /\ j = k)
    BY <1>1, <1>2, ProceedDrops
<1>4. log'[k] > 0 /\ \A j \in Reminders : log[j] > 0 => log'[j] > 0
    BY <1>0, <1>2 DEF TypeOK, Keys
<1> QED BY <1>2, <1>3, <1>4, NothingLost

\* Faults: what they drop is not to be had from this run any more.
LEMMA FaultPrompt ==
    ASSUME IInv, Prompt,
           \/ \E a \in Actors, k \in Keys : Fail(a, k)
           \/ Crash
           \/ \E a \in Actors : LoseLock(a)
    PROVE  Prompt'
<1>0. TypeOK
    BY DEF IInv
<1>1. ASSUME NEW a \in Actors, NEW k \in Keys, Fail(a, k) PROVE Prompt'
    <2>1. /\ Busy(a) /\ Proceed(a, work[a].todo \ {k}) /\ k \in InHand(a)
          /\ excused' = excused \cup ({k} \cap Reminders)
          /\ UNCHANGED <<start, done, now, missed, ran, log>>
        BY <1>1 DEF Fail, world, clock, records
    <2>2. k = work[a].key \/ work[a].key = None
        BY <2>1 DEF InHand
    <2>3. \A b \in Actors, j \in Reminders :
              /\ Holds(b, j)' => Holds(b, j)
              /\ Holds(b, j) => Holds(b, j)' \/ (b = a /\ j = k)
        BY <2>1, <2>2, ProceedDrops
    <2> QED BY <2>1, <2>3, NothingLost
<1>2. ASSUME Crash PROVE Prompt'
    <2>1. /\ \A b \in Actors, j \in Reminders : ~Holds(b, j)'
          /\ excused' = excused \cup {k \in Reminders : Held(k)}
          /\ UNCHANGED <<start, done, now, missed, ran, log>>
        BY <1>2 DEF Crash, Holds, Busy, world, clock, records
    <2>2. \A b \in Actors, j \in Reminders : Holds(b, j) => j \in excused'
        BY <2>1 DEF Held
    <2> QED BY <2>1, <2>2, NothingLost
<1>3. ASSUME NEW a \in Actors, LoseLock(a) PROVE Prompt'
    <2>1. UNCHANGED <<start, done, now, missed, log, excused>> /\ (ran' => ran) /\ Busy(a)
        BY <1>0, <1>3 DEF LoseLock, world, clock, records, TypeOK
    <2>2. /\ \A b \in Actors : b # a => work'[b] = work[b]
          /\ work'[a] # Idle /\ work'[a].todo = work[a].todo /\ work'[a].key = work[a].key
        BY <1>0, <1>3, LoseLockFacts
    <2>3. \A b \in Actors, j \in Reminders : Holds(b, j)' <=> Holds(b, j)
        BY <2>1, <2>2 DEF Holds, Busy
    <2> QED BY <2>1, <2>3, NothingLost
<1> QED BY <1>1, <1>2, <1>3

\* What comes up late is excused, everything else has a run to come.
LEMMA EventPrompt ==
    ASSUME IInv, IInv', Prompt,
           \E e \in Events : set_completed(e) \/ \E t \in Starts : update_event(e, t)
    PROVE  Prompt'
<1>0. TypeOK
    BY DEF IInv
<1> DEFINE Moved(e, t) ==
        /\ UNCHANGED <<now, missed, ran, log, work>>
        /\ excused \subseteq excused'
        /\ \A d \in Events : d # e /\ d \notin done' => d \notin done /\ start'[d] = start[d]
        /\ e \notin done' => \/ e \notin done /\ start'[e] = start[e]
                             \/ start'[e] = t /\ Late(e, t) \subseteq excused'
<1>1. PICK e \in Events, t \in Starts : Moved(e, t)
    <2>1. ASSUME NEW e \in Events, set_completed(e) PROVE \E t \in Starts : Moved(e, t)
        <3>1. start[e] \in Starts
            BY <1>0 DEF TypeOK
        <3>2. /\ UNCHANGED <<now, missed, ran, log, work, start>>
              /\ excused \subseteq excused'
            BY <2>1 DEF set_completed, Change, clock, records
        <3>3. \A d \in Events : d # e /\ d \notin done' => d \notin done
            BY <2>1 DEF set_completed
        <3>4. e \notin done' => Late(e, start[e]) \subseteq excused'
            BY <2>1 DEF set_completed
        <3>5. Moved(e, start[e])
            BY <3>2, <3>3, <3>4
        <3> QED BY <3>1, <3>5
    <2>2. ASSUME NEW e \in Events, NEW t \in Starts, update_event(e, t) PROVE Moved(e, t)
        <3>1. /\ UNCHANGED <<now, missed, ran, log, work, done>>
              /\ excused' = excused \cup Late(e, t) /\ start' = [start EXCEPT ![e] = t]
            BY <2>2 DEF update_event, Change, clock, records
        <3>2. start'[e] = t /\ \A d \in Events : d # e => start'[d] = start[d]
            BY <3>1, <1>0 DEF TypeOK
        <3> QED BY <3>1, <3>2
    <2> QED BY <2>1, <2>2
<1>2. ASSUME NEW d \in Events, d \notin done' PROVE Settled(d)' \/ Open(d)'
    <2>1. CASE d \notin done /\ start'[d] = start[d]
        <3>1. Settled(d) => Settled(d)'
            BY <1>1, <2>1 DEF Settled, Held, Holds, Busy
        <3>2. LastRun' = LastRun
            BY <1>1 DEF LastRun
        <3>3. Open(d) => Open(d)'
            BY <2>1, <3>2 DEF Open, Window
        <3> QED BY <2>1, <3>1, <3>3 DEF Prompt
    <2>2. CASE d = e /\ start'[e] = t /\ Late(e, t) \subseteq excused'
        <3>1. /\ t \in Nat /\ now \in Nat /\ Lead \in Nat /\ Window = 2 /\ LastRun \in Int
              /\ LastRun =< now /\ LastRun' = LastRun
            BY <1>0, <1>1, ClockFacts, ConstantsAssumption DEF LastRun
        <3>2. CASE t - Lead =< now + Window
            <4>1. Reminder(e, t) \in excused'
                BY <2>2, <3>2 DEF Late
            <4> QED BY <4>1, <2>2 DEF Settled
        <3>3. CASE ~(t - Lead =< now + Window)
            <4>1. t - Lead > LastRun + Window
                BY <3>1, <3>3
            <4> QED BY <4>1, <3>1, <2>2 DEF Open, Window
        <3> QED BY <3>2, <3>3
    <2> QED BY <1>1, <1>2, <2>1, <2>2
<1>3. \A b \in Actors, k \in Reminders : Holds(b, k)' => now' < k.at
    BY <1>1 DEF Prompt, Holds, Busy
<1> QED BY <1>2, <1>3 DEF Prompt

\* Time passes only when no run is under way: nothing is in hand.
LEMMA TickPrompt ==
    ASSUME IInv, Prompt, Tick
    PROVE  Prompt'
<1>0. TypeOK
    BY DEF IInv
<1>1. /\ now' = now + 1 /\ missed' = (IF ran THEN 0 ELSE missed + 1) /\ ran' = FALSE
      /\ UNCHANGED <<start, done, work, log, excused>>
    BY DEF Tick, world, records, history
<1>2. \A b \in Actors, k \in Reminders : ~Holds(b, k)
    BY <1>0, AlertsOnly DEF Tick
<1>3. LastRun' = LastRun
    <2>1. now \in Nat /\ missed \in Nat
        BY <1>0, ClockFacts
    <2>2. LastRun' = now' - missed' - 1
        BY <1>1 DEF LastRun
    <2> QED BY <2>1, <2>2, <1>1 DEF LastRun
<1>4. \A b \in Actors, k \in Reminders : ~Holds(b, k)'
    BY <1>1, <1>2 DEF Holds, Busy
<1>5. ASSUME NEW e \in Events, e \notin done' PROVE Settled(e)' \/ Open(e)'
    <2>1. Settled(e) => Settled(e)'
        BY <1>1 DEF Settled, Held, Holds, Busy
    <2>2. Open(e) => Open(e)'
        BY <1>1, <1>3 DEF Open, Window
    <2> QED BY <1>1, <1>5, <2>1, <2>2 DEF Prompt
<1> QED BY <1>4, <1>5 DEF Prompt

\* Every step keeps reminders prompt.
LEMMA NextPrompt ==
    ASSUME CronIsFrequent
    PROVE  IInv /\ IInv' /\ Prompt /\ [Next]_vars => Prompt'
<1> SUFFICES ASSUME IInv, IInv', Prompt, [Next]_vars PROVE Prompt'
    OBVIOUS
<1>1. ASSUME NEW a \in Actors,
             \/ \E r \in Budgets, level \in Levels : Save(a, r, level)
             \/ StartDaily(a) \/ Rows(a) \/ \E k \in Keys : Look(a, k)
      PROVE  Prompt'
    BY <1>1, AlertsPrompt
<1>2. ASSUME NEW a \in Actors, StartReminders(a) \/ Log(a) PROVE Prompt'
    BY <1>2, StartPrompt, LogPrompt
<1>3. ASSUME NEW a \in Actors, NEW k \in Keys, Mail(a, k) PROVE Prompt'
    BY <1>3, MailPrompt
<1>4. CASE \/ \E a \in Actors, k \in Keys : Fail(a, k)
           \/ Crash
           \/ \E a \in Actors : LoseLock(a)
    BY <1>4, FaultPrompt
<1>5. CASE \/ \E state \in {"up", "down", "off"} : MailTurns(state)
           \/ \E type \in {"alert", "reminder"} : Switch(type)
           \/ \E r \in Budgets, level \in Levels : Unchecked(r, level)
           \/ MonthTurns \/ UNCHANGED vars
    <2>1. UNCHANGED <<start, done, now, missed, ran, log, excused, work>>
        BY <1>5 DEF MailTurns, Switch, Change, Unchecked, Spend, MonthTurns, vars, world,
                    clock, records, history
    <2>2. \A a \in Actors, k \in Reminders : Holds(a, k)' <=> Holds(a, k)
        BY <2>1 DEF Holds, Busy
    <2> QED BY <2>1, <2>2, NothingLost
<1>6. CASE \E e \in Events : set_completed(e) \/ \E t \in Starts : update_event(e, t)
    BY <1>6, EventPrompt
<1>7. CASE Tick
    BY <1>7, TickPrompt
<1> QED BY <1>1, <1>2, <1>3, <1>4, <1>5, <1>6, <1>7 DEF Next

\* However long the lead, and however many ticks fewer than window and lead
\* the cron misses in a row, no event starts before its reminder is in the
\* log or the last run of its window could not send it.
THEOREM RemindersInTime ==
    ASSUME CronIsFrequent
    PROVE  Spec => []RemindedInTime
<1>1. Init => Prompt
    BY InitPrompt
<1>2. IInv /\ IInv' /\ Prompt /\ [Next]_vars => Prompt'
    BY NextPrompt
<1>3. IInv /\ Prompt => RemindedInTime
    <2> SUFFICES ASSUME IInv, Prompt, NEW e \in Events, now >= start[e], e \notin done
                 PROVE  \/ log[Reminder(e, start[e])] > 0
                        \/ Reminder(e, start[e]) \in excused
        BY DEF RemindedInTime
    <2>1. /\ now \in Nat /\ Lead \in Nat /\ Window = 2 /\ MaxMissed \in Nat
          /\ LastRun \in Int /\ now - MaxMissed - 1 =< LastRun
          /\ start[e] \in Starts /\ start[e] \in Nat
        BY ClockFacts DEF IInv
    <2>2. ~Open(e)
        BY <2>1 DEF Open, CronIsFrequent
    <2>3. PICK k \in Reminders : k = Reminder(e, start[e]) /\ k.at = start[e]
        BY <2>1, ReminderFacts
    <2>4. log[k] > 0 \/ k \in excused \/ \E a \in Actors : Holds(a, k)
        BY <2>2, <2>3 DEF Prompt, Settled, Held
    <2>5. \A a \in Actors : ~Holds(a, k)
        BY <2>1, <2>3 DEF Prompt
    <2> QED BY <2>3, <2>4, <2>5
<1> QED BY <1>1, <1>2, <1>3, InductiveInvariant, PTL DEF Spec
=============================================================================
