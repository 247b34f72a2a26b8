------------------------- MODULE RecurringJob_proofs -------------------------
(***************************************************************************)
(* What holds of the daily job for any number of rules, members and calls. *)
(* A rule nobody has touched posts all its due dates, whatever happens.    *)
(* That none is posted twice, or after a reactivation from before it,      *)
(* needs what the code relies on without enforcing it: that nobody         *)
(* reactivates a rule which a run has still to handle (the run "race"      *)
(* shows what happens otherwise).                                          *)
(***************************************************************************)
EXTENDS RecurringJob, TLAPS

\* A call that is not stopped holds the advisory lock.
OnlyHolderRuns == \A j \in Calls : run[j] # Stopped => holder = j

\* Calls and reactivations work on rules that exist.
WorksOnRules ==
    /\ \A j \in Calls :
          /\ run[j].items \subseteq created
          /\ run[j].pc = "rule" => run[j].cur \in created
          /\ \A r \in Rules : run[j].seen[r] # Expired => r \in created
    /\ \A m \in Members : request[m] # NoRequest => request[m].rule \in created

NotCreatedYet ==
    \A r \in Rules \ created : next[r] = 0 /\ \A d \in Days : posted[r][d] = 0

Inv == OnlyHolderRuns /\ WorksOnRules /\ NotCreatedYet

IInv == TypeOK /\ Inv
-----------------------------------------------------------------------------
\* A loaded row is a row.
LEMMA LoadType ==
    ASSUME TypeOK, NEW r \in Rules
    PROVE  /\ Load(r) \in Row /\ Load(r) # Expired /\ Load(r).next = next[r]
           /\ Load(r).end = end[r] /\ Load(r).period = period[r]
BY ConstantsAssumption DEF TypeOK, Load, Row

\* Due dates lie at least a day apart.
LEMMA PeriodType == \A p \in Periods : p \in Nat /\ p > 0
BY ConstantsAssumption

\* No period of the rule has been posted yet.
LEMMA GuardType == 0 \in 0..JOB_GUARD
BY ConstantsAssumption

\* A call that is stopped has the type of a call.
LEMMA StoppedType == Stopped \in Run /\ AllExpired \in [Rules -> Row \cup {Expired}]
BY GuardType DEF Stopped, Run, AllExpired

\* The initial state satisfies the invariant.
LEMMA InitIInv == Init => IInv
<1> SUFFICES ASSUME Init PROVE IInv
    OBVIOUS
<1>1. TypeOK
    BY StoppedType, ConstantsAssumption DEF Init, TypeOK, Days
<1>2. OnlyHolderRuns /\ NotCreatedYet
    BY DEF Init, OnlyHolderRuns, NotCreatedYet
<1>3. WorksOnRules
    BY DEF Init, WorksOnRules, Stopped, AllExpired
<1> QED BY <1>1, <1>2, <1>3 DEF IInv, Inv
-----------------------------------------------------------------------------
\* Creating a rule: there are only more rules to work on.
LEMMA CreateKeeps ==
    ASSUME IInv, NEW r \in Rules, NEW day \in Starts, NEW last \in Ends,
           NEW p \in Periods, CreateRecurring(r, day, last, p)
    PROVE  IInv'
<1> USE DEF IInv, Inv, CreateRecurring, Edit
<1> day \in Nat /\ last \in Nat
    BY ConstantsAssumption DEF Days
<1>1. TypeOK'
    BY DEF TypeOK
<1>2. OnlyHolderRuns'
    BY DEF OnlyHolderRuns
<1>3. NotCreatedYet'
    BY DEF TypeOK, NotCreatedYet
<1>4. WorksOnRules'
    BY DEF WorksOnRules
<1> QED BY <1>1, <1>2, <1>3, <1>4

\* Editing a rule leaves its next due date alone.
LEMMA UpdateKeeps ==
    ASSUME IInv, NEW r \in Rules, NEW last \in Ends, NEW p \in Periods,
           UpdateRecurring(r, last, p)
    PROVE  IInv'
<1> USE DEF IInv, Inv, UpdateRecurring, Edit
<1> last \in Nat
    BY ConstantsAssumption
<1>1. TypeOK'
    BY DEF TypeOK
<1>2. Inv'
    BY DEF OnlyHolderRuns, WorksOnRules, NotCreatedYet
<1> QED BY <1>1, <1>2

\* So does switching it off.
LEMMA DeactivateKeeps ==
    ASSUME IInv, NEW r \in Rules, DeactivateRecurring(r)
    PROVE  IInv'
<1> USE DEF IInv, Inv, DeactivateRecurring, Edit, history
<1>1. TypeOK'
    BY DEF TypeOK
<1>2. Inv'
    BY DEF OnlyHolderRuns, WorksOnRules, NotCreatedYet
<1> QED BY <1>1, <1>2

\* A reactivation loads a rule that exists.
LEMMA StartReactivateKeeps ==
    ASSUME IInv, NEW m \in Members, NEW r \in Rules, StartReactivate(m, r)
    PROVE  IInv'
<1> USE DEF IInv, Inv, StartReactivate, Edit, rows, history
<1> DEFINE q == [rule |-> r, row |-> Load(r), today |-> today]
<1>1. q \in Request
  <2>1. Load(r) \in Row
      BY LoadType
  <2>2. today \in Nat
      BY DEF TypeOK, Days
  <2> QED BY <2>1, <2>2 DEF Request
<1>2. TypeOK'
    BY <1>1 DEF TypeOK
<1>3. OnlyHolderRuns' /\ NotCreatedYet'
    BY DEF OnlyHolderRuns, NotCreatedYet
<1>4. WorksOnRules'
  <2>1. \A n \in Members : request'[n] = IF n = m THEN q ELSE request[n]
      BY DEF TypeOK
  <2> QED BY <2>1 DEF WorksOnRules
<1> QED BY <1>2, <1>3, <1>4

\* Skipping periods never goes back before the due date that was loaded.
LEMMA SkipsForward ==
    ASSUME NEW row \in Row, NEW k \in Nat
    PROVE  /\ row.next + k * row.period \in Nat
           /\ row.next + k * row.period >= row.next
<1>1. row.next \in Nat /\ row.period \in Nat
    BY ConstantsAssumption DEF Row
<1>2. k * row.period \in Nat
    BY <1>1
<1> QED BY <1>1, <1>2

\* A reactivation leaves the due date alone or commits one that is no
\* earlier than the one it loaded.
LEMMA CommitFacts ==
    ASSUME IInv, NEW m \in Members, CommitReactivate(m)
    PROVE  LET q == request[m]
               r == q.rule
           IN
           /\ q \in Request /\ q # NoRequest /\ q.row \in Row /\ q.today \in Nat
           /\ r \in Rules /\ r \in created
           /\ next' \in [Rules -> Nat]
           /\ \A x \in Rules : x # r => next'[x] = next[x]
           /\ next'[r] = next[r] \/ next'[r] >= q.row.next
           /\ \A n \in Members : request'[n] = IF n = m THEN NoRequest ELSE request[n]
<1> DEFINE q == request[m]
           r == q.rule
<1>1. q \in Request /\ q # NoRequest
    BY DEF CommitReactivate, IInv, TypeOK
<1>2. r \in Rules /\ q.row \in Row /\ q.today \in Nat /\ r \in created
    BY <1>1 DEF Request, IInv, Inv, WorksOnRules
<1>3. request' = [request EXCEPT ![m] = NoRequest]
    BY DEF CommitReactivate
<1>4. PICK k \in Skips(q.row, q.today) :
        next' = IF k = 0 THEN next
                ELSE [next EXCEPT ![r] = q.row.next + k * q.row.period]
    BY DEF CommitReactivate
<1>5. k \in Nat
    BY <1>4, ConstantsAssumption DEF Skips
<1> DEFINE new == q.row.next + k * q.row.period
<1>6. new \in Nat /\ new >= q.row.next
    BY <1>2, <1>5, SkipsForward
<1>7. next' = next \/ next' = [next EXCEPT ![r] = new]
    BY <1>4
<1>8. \A n \in Members : request'[n] = IF n = m THEN NoRequest ELSE request[n]
    BY <1>3 DEF IInv, TypeOK
<1> HIDE DEF new, q, r
<1>9. next' \in [Rules -> Nat]
    BY <1>2, <1>6, <1>7 DEF IInv, TypeOK
<1>10. /\ \A x \in Rules : x # r => next'[x] = next[x]
       /\ next'[r] = next[r] \/ next'[r] >= q.row.next
    BY <1>2, <1>6, <1>7 DEF IInv, TypeOK
<1> QED BY <1>1, <1>2, <1>8, <1>9, <1>10 DEF q, r

LEMMA CommitReactivateKeeps ==
    ASSUME IInv, NEW m \in Members, CommitReactivate(m)
    PROVE  IInv'
<1> DEFINE q == request[m]
           r == q.rule
<1>1. /\ active' = [active EXCEPT ![r] = @ \/ ~q.row.active]
      /\ request' = [request EXCEPT ![m] = NoRequest]
      /\ resumed' = [resumed EXCEPT ![r] = q.today]
      /\ plain' = plain \ {r}
      /\ UNCHANGED <<created, end, period, posted, today, holder, run, first>>
    BY DEF CommitReactivate
<1>2. /\ r \in Rules /\ r \in created /\ q.today \in Nat
      /\ next' \in [Rules -> Nat] /\ \A x \in Rules : x # r => next'[x] = next[x]
      /\ \A n \in Members : request'[n] = IF n = m THEN NoRequest ELSE request[n]
    BY CommitFacts
<1> HIDE DEF q, r
<1>3. active' \in [Rules -> BOOLEAN]
    BY <1>1, <1>2, Zenon DEF IInv, TypeOK
<1>4. TypeOK'
    BY <1>1, <1>2, <1>3 DEF IInv, TypeOK
<1>5. OnlyHolderRuns' /\ NotCreatedYet'
    BY <1>1, <1>2 DEF IInv, Inv, OnlyHolderRuns, NotCreatedYet
<1>6. WorksOnRules'
    BY <1>1, <1>2 DEF IInv, Inv, WorksOnRules
<1> QED BY <1>4, <1>5, <1>6 DEF IInv, Inv
-----------------------------------------------------------------------------
\* What a step of call j that only changes its own locals must respect.
LEMMA OwnLocals ==
    ASSUME IInv, NEW j \in Calls, NEW t \in Run, holder = j,
           run' = [run EXCEPT ![j] = t],
           t.items \subseteq created, t.pc = "rule" => t.cur \in created,
           \A r \in Rules : t.seen[r] # Expired => r \in created,
           UNCHANGED <<rows, posted, today, holder, request, history>>
    PROVE  IInv'
<1> USE DEF IInv, Inv, rows, history
<1>1. TypeOK'
    BY DEF TypeOK
<1>2. \A i \in Calls : run'[i] = IF i = j THEN t ELSE run[i]
    BY DEF TypeOK
<1>3. OnlyHolderRuns' /\ WorksOnRules'
    BY <1>2 DEF OnlyHolderRuns, WorksOnRules
<1>4. NotCreatedYet'
    BY DEF NotCreatedYet
<1> QED BY <1>1, <1>3, <1>4

\* The call that gets the lock loads the rules as they are.
LEMMA CallKeeps ==
    ASSUME IInv, NEW j \in Calls, CallJob(j)
    PROVE  IInv'
<1> DEFINE loaded == [r \in Rules |-> IF r \in Due(today) THEN Load(r)
                                      ELSE Expired]
           t == [ pc |-> "pick", today |-> today, items |-> Due(today),
                  cur |-> NoRule, guard |-> 0, seen |-> loaded, dirty |-> {} ]
<1>1. Due(today) \subseteq Rules /\ Due(today) \subseteq created
    BY DEF Due, IInv, TypeOK
<1>2. \A r \in Rules : Load(r) \in Row
    BY LoadType DEF IInv
<1>3. loaded \in [Rules -> Row \cup {Expired}]
    BY <1>2
<1>4. \A r \in Rules : loaded[r] # Expired => r \in created
    BY <1>1
<1>5. t = Entered
    BY DEF Entered
<1>6. /\ run' = [run EXCEPT ![j] = t] /\ holder' = j /\ holder = NoCall
      /\ UNCHANGED <<created, active, next, end, period, posted, today,
                     request, first, plain, resumed>>
    BY <1>5, Zenon DEF CallJob, rows, history
<1> HIDE DEF loaded
<1>7. t \in Run
    BY <1>1, <1>3, GuardType DEF Run, IInv, TypeOK, Days
<1>8. t.seen = loaded /\ t.items \subseteq created /\ t.pc # "rule"
    BY <1>1
<1> HIDE DEF t
<1>9. \A i \in Calls : run'[i] = IF i = j THEN t ELSE run[i]
    BY <1>6 DEF IInv, TypeOK
<1>10. TypeOK'
    BY <1>6, <1>7 DEF IInv, TypeOK
<1>11. OnlyHolderRuns'
    BY <1>6, <1>9, ConstantsAssumption DEF IInv, Inv, OnlyHolderRuns
<1>12. WorksOnRules'
    BY <1>4, <1>6, <1>8, <1>9 DEF IInv, Inv, WorksOnRules
<1>13. NotCreatedYet'
    BY <1>6 DEF IInv, Inv, NotCreatedYet
<1> QED BY <1>10, <1>11, <1>12, <1>13 DEF IInv, Inv

\* A step of a call is a step of the holder of the lock.
LEMMA RunningHolds ==
    ASSUME IInv, NEW j \in Calls, run[j].pc # "idle"
    PROVE  holder = j /\ \A i \in Calls : i # j => run[i] = Stopped
BY DEF IInv, Inv, OnlyHolderRuns, Stopped

\* Choosing a rule.
LEMMA PickKeeps ==
    ASSUME IInv, NEW j \in Calls, PickRule(j)
    PROVE  IInv'
<1> DEFINE old == run[j]
<1>1. old \in Run /\ old.items \subseteq created /\ created \subseteq Rules
    BY DEF IInv, Inv, TypeOK, WorksOnRules
<1>2. PICK r \in old.items :
        run' = [run EXCEPT ![j].pc = "rule", ![j].cur = r, ![j].guard = 0,
                           ![j].items = @ \ {r}]
    BY DEF PickRule
<1> DEFINE t == [old EXCEPT !.pc = "rule", !.cur = r, !.guard = 0,
                            !.items = @ \ {r}]
<1>3. run' = [run EXCEPT ![j] = t]
    BY <1>2 DEF IInv, TypeOK
<1>4. r \in Rules /\ r \in created
    BY <1>1, <1>2
<1>5. t \in Run
    BY <1>1, <1>4, GuardType DEF Run
<1>6. /\ t.seen = old.seen /\ t.items = old.items \ {r}
      /\ t.cur = r
    BY <1>1 DEF Run
<1>7. holder = j
    BY RunningHolds DEF PickRule
<1>8. \A x \in Rules : t.seen[x] # Expired => x \in created
    BY <1>6 DEF IInv, Inv, WorksOnRules
<1>9. UNCHANGED <<rows, posted, today, holder, request, history>>
    BY DEF PickRule
<1> HIDE DEF t
<1> QED BY <1>1, <1>3, <1>4, <1>5, <1>6, <1>7, <1>8, <1>9, OwnLocals

\* Loading a rule again.
LEMMA ReloadKeeps ==
    ASSUME IInv, NEW j \in Calls, Reload(j)
    PROVE  IInv'
<1> DEFINE old == run[j]
           r == old.cur
           t == [old EXCEPT !.seen[r] = Load(r)]
<1>1. old \in Run /\ r \in created /\ created \subseteq Rules
      /\ old.items \subseteq created
    BY DEF IInv, Inv, TypeOK, WorksOnRules, Reload
<1>2. Load(r) \in Row
    BY <1>1, LoadType DEF IInv
<1>3. t \in Run
    BY <1>1, <1>2 DEF Run
<1>4. /\ t.items = old.items /\ t.cur = r
      /\ \A x \in Rules : t.seen[x] = IF x = r THEN Load(r) ELSE old.seen[x]
    BY <1>1 DEF Run
<1>5. run' = [run EXCEPT ![j] = t]
    BY DEF Reload, IInv, TypeOK
<1>6. holder = j
    BY RunningHolds DEF Reload
<1>7. \A x \in Rules : t.seen[x] # Expired => x \in created
    BY <1>1, <1>4 DEF IInv, Inv, WorksOnRules
<1>8. UNCHANGED <<rows, posted, today, holder, request, history>>
    BY DEF Reload
<1> HIDE DEF t
<1> QED BY <1>1, <1>3, <1>4, <1>5, <1>6, <1>7, <1>8, OwnLocals
-----------------------------------------------------------------------------
\* The rule stays in bounds: what the while condition and the loaded row say.
LEMMA PostedRule ==
    ASSUME IInv, NEW j \in Calls, Continues(j)
    PROVE  /\ run[j] \in Run /\ holder = j /\ run[j].pc = "rule"
           /\ run[j].cur \in created /\ run[j].cur \in Rules
           /\ run[j].seen[run[j].cur] \in Row
           /\ run[j].seen[run[j].cur] # Expired
<1>1. run[j] \in Run /\ run[j].cur \in created /\ run[j].cur \in Rules
    BY DEF IInv, Inv, TypeOK, WorksOnRules, Continues
<1>2. run[j].seen[run[j].cur] # Expired
    BY DEF Continues
<1>3. run[j].seen[run[j].cur] \in Row
    BY <1>1, <1>2 DEF Run
<1>4. holder = j /\ run[j].pc = "rule"
    BY RunningHolds DEF Continues
<1> QED BY <1>1, <1>2, <1>3, <1>4

\* What posting a due date does to the tables and the locals.
LEMMA PostFacts ==
    ASSUME IInv, NEW j \in Calls, PostPeriod(j)
    PROVE  LET r == run[j].cur
               row == run[j].seen[r]
               d == row.next
           IN
           /\ r \in Rules /\ r \in created /\ row \in Row /\ row # Expired
           /\ d \in Nat /\ row.end \in Nat /\ row.period \in Nat /\ row.period > 0
           /\ ~(d > row.end)
           /\ \A x \in Rules : next'[x] = IF x = r THEN d + row.period ELSE next[x]
           /\ \A x \in Rules, y \in Days :
                 posted'[x][y] = IF x = r /\ y = d THEN posted[x][y] + 1 ELSE posted[x][y]
           /\ run'[j].seen = AllExpired /\ run'[j].dirty = {}
           /\ run'[j].items = run[j].items /\ run'[j].cur = r /\ run'[j].pc = "rule"
           /\ \A i \in Calls : i # j => run'[i] = run[i] /\ run[i] = Stopped
           /\ active' = Flushed(run[j].dirty)
           /\ UNCHANGED <<created, end, period, today, holder, request, first,
                          plain, resumed>>
<1> DEFINE old == run[j]
           r == old.cur
           row == old.seen[r]
           d == row.next
           t == [old EXCEPT !.guard = @ + 1, !.seen = AllExpired, !.dirty = {}]
<1>1. /\ old \in Run /\ r \in created /\ r \in Rules /\ old.pc = "rule"
      /\ row \in Row /\ row # Expired
    BY PostedRule DEF PostPeriod
<1>2. d \in Nat /\ row.period \in Periods /\ row.end \in Nat
    BY <1>1 DEF Row
<1>3. row.period \in Nat /\ row.period > 0
    BY <1>2, PeriodType
<1>4. /\ next' = [next EXCEPT ![r] = d + row.period]
      /\ posted' = [posted EXCEPT ![r][d] = @ + 1]
      /\ active' = Flushed(old.dirty)
      /\ run' = [run EXCEPT ![j].guard = @ + 1, ![j].seen = AllExpired,
                            ![j].dirty = {}]
      /\ UNCHANGED <<created, end, period, today, holder, request, history>>
      /\ ~(d > row.end)
    BY DEF PostPeriod, Ended
<1>5. run' = [run EXCEPT ![j] = t]
    BY <1>4 DEF IInv, TypeOK
<1>6. /\ t.seen = AllExpired /\ t.items = old.items /\ t.cur = r
      /\ t.dirty = {} /\ t.pc = "rule"
    BY <1>1 DEF Run
<1>7. \A i \in Calls : run'[i] = IF i = j THEN t ELSE run[i]
    BY <1>5 DEF IInv, TypeOK
<1>8. \A i \in Calls : i # j => run[i] = Stopped
    BY <1>1, RunningHolds
<1>9. \A x \in Rules, y \in Days :
         posted'[x][y] = IF x = r /\ y = d THEN posted[x][y] + 1 ELSE posted[x][y]
    BY <1>1, <1>4 DEF IInv, TypeOK
<1> HIDE DEF t, d, row, r
<1>10. \A x \in Rules : next'[x] = IF x = r THEN d + row.period ELSE next[x]
    BY <1>1, <1>4 DEF IInv, TypeOK
<1>11. UNCHANGED <<created, end, period, today, holder, request, first, plain,
                   resumed>>
    BY <1>4 DEF history
<1> QED BY <1>1, <1>2, <1>3, <1>4, <1>6, <1>7, <1>8, <1>9, <1>10, <1>11 DEF d, row, r

\* A transaction is posted for a rule that exists.
LEMMA PostKeeps ==
    ASSUME IInv, NEW j \in Calls, PostPeriod(j)
    PROVE  IInv'
<1> DEFINE old == run[j]
           r == old.cur
           d == old.seen[r].next
           new == d + old.seen[r].period
           t == [old EXCEPT !.guard = @ + 1, !.seen = AllExpired, !.dirty = {}]
<1>1. /\ r \in Rules /\ r \in created /\ d \in Nat /\ new \in Nat
      /\ \A x \in Rules : next'[x] = IF x = r THEN new ELSE next[x]
      /\ \A x \in Rules, y \in Days :
            posted'[x][y] = IF x = r /\ y = d THEN posted[x][y] + 1 ELSE posted[x][y]
      /\ run'[j].seen = AllExpired /\ run'[j].items = old.items
      /\ run'[j].cur = r /\ run'[j].pc = "rule"
      /\ \A i \in Calls : i # j => run'[i] = run[i] /\ run[i] = Stopped
      /\ UNCHANGED <<created, end, period, today, holder, request, first,
                     plain, resumed>>
    BY PostFacts
<1>2. old \in Run /\ holder = j /\ old.guard < JOB_GUARD
    BY PostedRule DEF PostPeriod, Continues
<1>3. /\ next' = [next EXCEPT ![r] = new]
      /\ posted' = [posted EXCEPT ![r][d] = @ + 1]
      /\ active' = Flushed(old.dirty)
      /\ run' = [run EXCEPT ![j] = t]
    BY DEF PostPeriod, IInv, TypeOK
<1>4. t \in Run
  <2>1. old.guard + 1 \in 0..JOB_GUARD
      BY <1>2, ConstantsAssumption DEF Run
  <2> HIDE DEF old
  <2> QED BY <1>2, <2>1, StoppedType DEF Run
<1>5. Flushed(old.dirty) \in [Rules -> BOOLEAN]
    BY DEF Flushed
<1>6. posted' \in [Rules -> [Days -> Nat]]
  <2>1. posted[r] \in [Days -> Nat]
      BY <1>1 DEF IInv, TypeOK
  <2> HIDE DEF d, r
  <2>2. \A y \in Days : posted[r][y] + 1 \in Nat
      BY <2>1
  <2>3. [posted[r] EXCEPT ![d] = @ + 1] \in [Days -> Nat]
      BY <2>1, <2>2
  <2> DEFINE one == [posted[r] EXCEPT ![d] = @ + 1]
  <2>4. posted' = [posted EXCEPT ![r] = one]
      BY <1>3
  <2> HIDE DEF one
  <2> QED BY <2>3, <2>4 DEF IInv, TypeOK, one
<1> HIDE DEF t, new, d, r
<1>7. next' \in [Rules -> Nat]
    BY <1>1, <1>3 DEF IInv, TypeOK
<1>8. TypeOK'
  <2>1. run' \in [Calls -> Run]
      BY <1>3, <1>4 DEF IInv, TypeOK
  <2>2. active' \in [Rules -> BOOLEAN]
      BY <1>3, <1>5
  <2> QED BY <1>1, <1>6, <1>7, <2>1, <2>2 DEF IInv, TypeOK
<1>9. OnlyHolderRuns'
    BY <1>1, <1>2 DEF IInv, Inv, OnlyHolderRuns
<1>10. WorksOnRules'
    BY <1>1 DEF IInv, Inv, WorksOnRules, AllExpired
<1>11. NotCreatedYet'
    BY <1>1 DEF IInv, Inv, NotCreatedYet
<1> QED BY <1>8, <1>9, <1>10, <1>11 DEF IInv, Inv

\* A failure forgets what was loaded and goes on with the next rule.
LEMMA FailKeeps ==
    ASSUME IInv, NEW j \in Calls, FailRule(j)
    PROVE  IInv'
<1> DEFINE old == run[j]
           t == [old EXCEPT !.pc = "pick", !.seen = AllExpired, !.dirty = {}]
<1>1. old \in Run /\ holder = j
    BY PostedRule DEF FailRule
<1>2. /\ t \in Run /\ t.seen = AllExpired /\ t.items = old.items
      /\ t.pc # "rule"
  <2> HIDE DEF old
  <2> QED BY <1>1, StoppedType DEF Run
<1>3. old.items \subseteq created
    BY DEF IInv, Inv, WorksOnRules
<1>4. run' = [run EXCEPT ![j] = t]
    BY DEF FailRule, IInv, TypeOK
<1>5. UNCHANGED <<rows, posted, today, holder, request, history>>
    BY DEF FailRule
<1>6. \A x \in Rules : t.seen[x] # Expired => x \in created
    BY <1>2 DEF AllExpired
<1> HIDE DEF t
<1> QED BY <1>1, <1>2, <1>3, <1>4, <1>5, <1>6, OwnLocals

\* Switching an ended rule off changes no due date, loaded or stored.
LEMMA EndKeeps ==
    ASSUME IInv, NEW j \in Calls, EndRule(j)
    PROVE  IInv'
<1> DEFINE old == run[j]
           r == old.cur
           pending == IF old.seen[r].active THEN old.dirty \cup {r}
                      ELSE old.dirty
           row == [old.seen[r] EXCEPT !.active = FALSE]
           seen == [old.seen EXCEPT ![r] = row]
           t == [old EXCEPT !.pc = "pick", !.dirty = pending, !.seen = seen]
<1>1. /\ old \in Run /\ holder = j /\ r \in created /\ r \in Rules
      /\ old.seen[r] \in Row
    BY PostedRule DEF EndRule
<1>2. row \in Row
    BY <1>1 DEF Row
<1>3. old.seen \in [Rules -> Row \cup {Expired}] /\ old.dirty \in SUBSET Rules
    BY <1>1 DEF Run
<1>4. pending \in SUBSET Rules
    BY <1>1, <1>3
<1>5. /\ seen \in [Rules -> Row \cup {Expired}]
      /\ \A x \in Rules : seen[x] = IF x = r THEN row ELSE old.seen[x]
  <2> HIDE DEF row, old
  <2> QED BY <1>2, <1>3
<1>6. run' = [run EXCEPT ![j] = t]
  <2>1. run' = [run EXCEPT ![j].pc = "pick", ![j].dirty = pending,
                           ![j].seen[r].active = FALSE]
      BY DEF EndRule
  <2>2. run \in [Calls -> Run]
      BY DEF IInv, TypeOK
  <2> QED BY <2>1, <2>2
<1>7. UNCHANGED <<rows, posted, today, holder, request, history>>
    BY DEF EndRule
<1>8. \A x \in Rules : old.seen[x] # Expired => x \in created
    BY DEF IInv, Inv, WorksOnRules
<1>9. old.items \subseteq created
    BY DEF IInv, Inv, WorksOnRules
<1> HIDE DEF seen, pending, row, old, r
<1>10. /\ t \in Run /\ t.seen = seen /\ t.items = old.items /\ t.pc # "rule"
    BY <1>1, <1>4, <1>5 DEF Run
<1>11. \A x \in Rules : t.seen[x] # Expired => x \in created
    BY <1>1, <1>5, <1>8, <1>10
<1> HIDE DEF t
<1> QED BY <1>1, <1>6, <1>7, <1>9, <1>10, <1>11, OwnLocals

\* Leaving a rule that is not due any more.
LEMMA NextRuleKeeps ==
    ASSUME IInv, NEW j \in Calls, NextRule(j)
    PROVE  IInv'
<1> DEFINE old == run[j]
           t == [old EXCEPT !.pc = "pick"]
<1>1. old \in Run /\ old.items \subseteq created
    BY DEF IInv, Inv, TypeOK, WorksOnRules
<1>2. holder = j
    BY RunningHolds DEF NextRule
<1>3. /\ t \in Run /\ t.seen = old.seen /\ t.items = old.items
      /\ t.pc # "rule"
  <2> HIDE DEF old
  <2> QED BY <1>1 DEF Run
<1>4. run' = [run EXCEPT ![j] = t]
    BY DEF NextRule, IInv, TypeOK
<1>5. UNCHANGED <<rows, posted, today, holder, request, history>>
    BY DEF NextRule
<1>6. \A x \in Rules : t.seen[x] # Expired => x \in created
    BY <1>3 DEF IInv, Inv, WorksOnRules
<1> HIDE DEF t
<1> QED BY <1>1, <1>2, <1>3, <1>4, <1>5, <1>6, OwnLocals

\* The end of a run leaves every call stopped.
LEMMA FinishKeeps ==
    ASSUME IInv, NEW j \in Calls, FinishJob(j)
    PROVE  IInv' /\ \A i \in Calls : run'[i] = Stopped
<1>1. /\ run' = [run EXCEPT ![j] = Stopped] /\ holder' = NoCall
      /\ active' = Flushed(run[j].dirty)
      /\ UNCHANGED <<created, next, end, period, posted, today, request,
                     first, plain, resumed>>
    BY DEF FinishJob, history
<1>2. \A i \in Calls : i # j => run[i] = Stopped
    BY RunningHolds DEF FinishJob
<1>3. \A i \in Calls : run'[i] = Stopped
    BY <1>1, <1>2 DEF IInv, TypeOK
<1>4. Flushed(run[j].dirty) \in [Rules -> BOOLEAN]
    BY DEF Flushed
<1>5. TypeOK'
    BY <1>1, <1>4, StoppedType DEF IInv, TypeOK
<1>6. OnlyHolderRuns'
    BY <1>3 DEF OnlyHolderRuns
<1>7. WorksOnRules' /\ NotCreatedYet'
    BY <1>1, <1>3 DEF IInv, Inv, NotCreatedYet, WorksOnRules, Stopped, AllExpired
<1> QED BY <1>3, <1>5, <1>6, <1>7 DEF IInv, Inv

\* A crash forgets every local.
LEMMA CrashKeeps ==
    ASSUME IInv, Crash
    PROVE  IInv'
<1>1. /\ run' = [j \in Calls |-> Stopped] /\ holder' = NoCall
      /\ request' = [m \in Members |-> NoRequest]
      /\ UNCHANGED <<created, active, next, end, period, posted, today, first,
                     plain, resumed>>
    BY DEF Crash, rows, history
<1>2. TypeOK'
    BY <1>1, StoppedType DEF IInv, TypeOK
<1>3. OnlyHolderRuns' /\ WorksOnRules'
    BY <1>1 DEF OnlyHolderRuns, WorksOnRules, Stopped, AllExpired
<1>4. NotCreatedYet'
    BY <1>1 DEF IInv, Inv, NotCreatedYet
<1> QED BY <1>2, <1>3, <1>4 DEF IInv, Inv

\* The calendar and steps that change nothing.
LEMMA TickKeeps ==
    ASSUME IInv, Tick \/ UNCHANGED vars
    PROVE  IInv'
<1>1. today' \in Days
    BY ConstantsAssumption DEF Tick, vars, IInv, TypeOK, Days
<1>2. UNCHANGED <<rows, posted, holder, run, request, history>>
    BY DEF Tick, vars
<1>3. TypeOK'
    BY <1>1, <1>2 DEF IInv, TypeOK, rows, history
<1>4. Inv'
    BY <1>2 DEF IInv, Inv, OnlyHolderRuns, WorksOnRules, NotCreatedYet, rows
<1> QED BY <1>3, <1>4 DEF IInv

\* Every step keeps the invariant.
LEMMA StepIInv ==
    ASSUME IInv, [Next]_vars
    PROVE  IInv'
<1>1. CASE MemberStep
    BY <1>1, CreateKeeps, UpdateKeeps, DeactivateKeeps, StartReactivateKeeps
       DEF MemberStep
<1>2. CASE \E m \in Members : CommitReactivate(m)
    BY <1>2, CommitReactivateKeeps
<1>3. CASE \E j \in Calls : CallJob(j)
    BY <1>3, CallKeeps
<1>4. CASE \E j \in Calls : JobStep(j)
    BY <1>4, PickKeeps, ReloadKeeps, PostKeeps, FailKeeps, EndKeeps,
       NextRuleKeeps, FinishKeeps DEF JobStep
<1>5. CASE Crash \/ Tick \/ UNCHANGED vars
    BY <1>5, CrashKeeps, TickKeeps
<1> QED BY <1>1, <1>2, <1>3, <1>4, <1>5 DEF Next
-----------------------------------------------------------------------------
\* The invariant on which the others are built.
THEOREM InductiveInvariant == Spec => []IInv
<1>1. Init => IInv
    BY InitIInv
<1>2. IInv /\ [Next]_vars => IInv'
    BY StepIInv
<1> QED BY <1>1, <1>2, PTL DEF Spec

\* Every variable keeps its type through every interleaving of the job, its
\* retries and the members' edits.
THEOREM TypeCorrect == Spec => []TypeOK
<1>1. IInv => TypeOK
    BY DEF IInv
<1> QED BY <1>1, InductiveInvariant, PTL

\* Only one call of the job runs at a time: whoever runs holds the lock.
THEOREM OneRunAtATime == Spec => []OnlyHolderRuns
<1>1. IInv => OnlyHolderRuns
    BY DEF IInv, Inv
<1> QED BY <1>1, InductiveInvariant, PTL
(***************************************************************************)
(* No due date is lost, and a rule runs to its end.  The due dates of a    *)
(* rule are the days that lie a multiple of its period after the first,    *)
(* which takes some arithmetic of remainders.                              *)
(***************************************************************************)

LEMMA Division ==
    ASSUME NEW a \in Nat, NEW p \in Nat, p > 0
    PROVE  /\ a \div p \in Nat /\ a % p \in 0..(p - 1)
           /\ a = p * (a \div p) + (a % p)
OBVIOUS

LEMMA Smaller ==
    ASSUME NEW p \in Nat, p > 0, NEW u \in Nat, NEW v \in Nat, p * u < p * v
    PROVE  u < v
OBVIOUS

LEMMA Multiple ==
    ASSUME NEW a \in Nat, NEW p \in Nat, p > 0, a % p = 0
    PROVE  \E u \in Nat : a = p * u
<1> DEFINE u == a \div p
           m == a % p
<1>1. u \in Nat /\ a = p * u + m /\ m = 0
    BY Division
<1> HIDE DEF u, m
<1>2. a = p * u
    BY <1>1
<1> QED BY <1>1, <1>2

LEMMA MultipleHasNoRest ==
    ASSUME NEW p \in Nat, p > 0, NEW u \in Nat
    PROVE  (p * u) % p = 0
<1> DEFINE a == p * u
           v == a \div p
           m == a % p
<1>1. a \in Nat
    OBVIOUS
<1>2. v \in Nat /\ a = p * v + m /\ m \in 0..(p - 1)
    BY <1>1, Division
<1> HIDE DEF v, m
<1>3. p * v <= p * u /\ p * u < p * v + p
    BY <1>2
<1> HIDE DEF a
<1>4. ~(v < u)
  <2> SUFFICES ASSUME v < u PROVE FALSE
      OBVIOUS
  <2>1. v + 1 <= u
      BY <1>2
  <2>2. p * (v + 1) <= p * u
      BY <2>1, <1>2
  <2>3. p * (v + 1) = p * v + p
      BY <1>2
  <2> QED BY <2>2, <2>3, <1>2, <1>3
<1>5. ~(u < v)
  <2> SUFFICES ASSUME u < v PROVE FALSE
      OBVIOUS
  <2>1. p * u < p * v
      BY <1>2
  <2> QED BY <2>1, <1>2, <1>3
<1>6. u = v
    BY <1>2, <1>4, <1>5
<1>7. m = 0
    BY <1>2, <1>6 DEF a
<1> QED BY <1>7 DEF a, m

\* Between two due dates there is none, and a period later is the next.
LEMMA NoneBetween ==
    ASSUME NEW a \in Nat, NEW p \in Nat, p > 0, a % p = 0,
           NEW x \in Nat, a < x, x < a + p
    PROVE  x % p # 0
<1> SUFFICES ASSUME x % p = 0 PROVE FALSE
    OBVIOUS
<1>1. PICK u \in Nat : a = p * u
    BY Multiple
<1>2. PICK v \in Nat : x = p * v
    BY Multiple
<1>3. p * u < p * v /\ p * v < p * u + p
    BY <1>1, <1>2
<1>4. u < v
    BY <1>3, Smaller
<1>5. p * (u + 1) <= p * v
    BY <1>4
<1>6. p * (u + 1) = p * u + p
    OBVIOUS
<1> QED BY <1>3, <1>5, <1>6

LEMMA PeriodLater ==
    ASSUME NEW a \in Nat, NEW p \in Nat, p > 0, a % p = 0
    PROVE  (a + p) % p = 0
<1>1. PICK u \in Nat : a = p * u
    BY Multiple
<1> DEFINE w == u + 1
<1>2. a + p = p * w /\ w \in Nat
    BY <1>1
<1> HIDE DEF w
<1>3. (p * w) % p = 0
    BY <1>2, MultipleHasNoRest
<1> QED BY <1>2, <1>3, Zenon
-----------------------------------------------------------------------------
-----------------------------------------------------------------------------
\* A loaded row that says what the table says.
Loaded(j, r) ==
    /\ run[j].seen[r].next = next[r]
    /\ run[j].seen[r].end = end[r] /\ run[j].seen[r].period = period[r]

\* What a run has still to handle.
Working(j) ==
    run[j].items \cup (IF run[j].pc = "rule" THEN {run[j].cur} ELSE {})

\* The job's steps that write nothing: what they load is what the table
\* says, and a rule is switched off past its end.
LEMMA LocalsFacts ==
    ASSUME IInv, NEW j \in Calls,
           \/ CallJob(j) \/ PickRule(j) \/ Reload(j) \/ FailRule(j)
           \/ EndRule(j) \/ NextRule(j)
    PROVE  /\ UNCHANGED <<created, posted, first, plain, resumed, next, end,
                          period, active, request, today>>
           /\ \A i \in Calls : i # j => run'[i] = run[i]
           /\ \A r \in Rules : run'[j].seen[r] # Expired =>
                 \/ Loaded(j, r)'
                 \/ /\ r \in Working(j)' => r \in Working(j)
                    /\ run[j].seen[r] # Expired
                    /\ run'[j].seen[r].next = run[j].seen[r].next
                    /\ run'[j].seen[r].end = run[j].seen[r].end
                    /\ run'[j].seen[r].period = run[j].seen[r].period
           /\ \A r \in run'[j].dirty :
                 \/ r \in run[j].dirty
                 \/ /\ r \in created /\ run[j].seen[r] # Expired
                    /\ run[j].seen[r].next > run[j].seen[r].end
<1>1. /\ UNCHANGED <<created, posted, first, plain, resumed, next, end, period,
                     active, request>>
      /\ UNCHANGED today
    BY DEF CallJob, PickRule, Reload, FailRule, EndRule, NextRule, rows, history
<1>2. run[j] \in Run /\ run \in [Calls -> Run]
    BY DEF IInv, TypeOK
<1>3. \A i \in Calls : i # j => run'[i] = run[i]
    BY <1>2 DEF CallJob, PickRule, Reload, FailRule, EndRule, NextRule
<1>4. \A r \in Rules : /\ Load(r).next = next[r] /\ Load(r).end = end[r]
                       /\ Load(r).period = period[r]
    BY DEF Load
<1>5. CASE CallJob(j)
  <2>1. run'[j] = Entered
      BY <1>5, <1>2 DEF CallJob
  <2>2. /\ Entered.dirty = {}
        /\ \A r \in Rules : Entered.seen[r] # Expired => Entered.seen[r] = Load(r)
      BY DEF Entered
  <2> HIDE DEF Entered
  <2> QED BY <2>1, <2>2, <1>1, <1>3, <1>4 DEF Loaded
<1>6. CASE PickRule(j)
  <2>1. PICK r \in run[j].items :
          run' = [run EXCEPT ![j].pc = "rule", ![j].cur = r, ![j].guard = 0,
                             ![j].items = @ \ {r}]
      BY <1>6 DEF PickRule
  <2> DEFINE old == run[j]
             t == [old EXCEPT !.pc = "rule", !.cur = r, !.guard = 0,
                              !.items = @ \ {r}]
  <2>2. run'[j] = t
      BY <2>1, <1>2
  <2>3. t.seen = old.seen /\ t.dirty = old.dirty /\ t.items = old.items \ {r} /\ t.cur = r
      BY <1>2 DEF Run
  <2>4. Working(j)' \subseteq run[j].items
      BY <2>1, <2>2, <2>3 DEF Working
  <2> QED BY <2>2, <2>3, <2>4, <1>1, <1>3 DEF Working
<1>7. CASE Reload(j)
  <2> DEFINE c == run[j].cur
  <2>1. /\ run'[j].dirty = run[j].dirty /\ run'[j].items = run[j].items
        /\ run'[j].pc = run[j].pc /\ run'[j].cur = c
        /\ \A r \in Rules : run'[j].seen[r] = IF r = c THEN Load(c) ELSE run[j].seen[r]
      BY <1>7, <1>2 DEF Reload, Run
  <2>2. Working(j)' = Working(j)
      BY <2>1 DEF Working
  <2> HIDE DEF c
  <2>3. \A r \in Rules : run'[j].seen[r] # Expired => Loaded(j, r)' \/ run'[j].seen[r] = run[j].seen[r]
      BY <2>1, <1>1, <1>4 DEF Loaded
  <2> QED BY <2>1, <2>2, <2>3, <1>1, <1>3
<1>8. CASE FailRule(j)
  <2>1. run'[j].seen = AllExpired /\ run'[j].dirty = {}
      BY <1>8, <1>2 DEF FailRule, Run
  <2> QED BY <2>1, <1>1, <1>3 DEF AllExpired
<1>9. CASE EndRule(j)
  <2> DEFINE c == run[j].cur
             row == run[j].seen[c]
  <2>1. /\ c \in created /\ c \in Rules /\ row \in Row
        /\ row # Expired /\ row.next > row.end /\ run[j].pc = "rule"
      BY <1>9, PostedRule DEF EndRule, Ended
  <2>2. /\ run'[j].dirty \subseteq run[j].dirty \cup {c}
        /\ run'[j].items = run[j].items /\ run'[j].pc = "pick"
        /\ \A r \in Rules : run'[j].seen[r] =
              IF r = c THEN [row EXCEPT !.active = FALSE] ELSE run[j].seen[r]
      BY <1>9, <1>2 DEF EndRule, Run
  <2>3. /\ [row EXCEPT !.active = FALSE].end = row.end
        /\ [row EXCEPT !.active = FALSE].next = row.next
        /\ [row EXCEPT !.active = FALSE].period = row.period
      BY <2>1 DEF Row
  <2>4. Working(j)' \subseteq Working(j)
      BY <2>2 DEF Working
  <2>5. ASSUME NEW r \in Rules, run'[j].seen[r] # Expired
        PROVE  /\ r \in Working(j)' => r \in Working(j)
               /\ run[j].seen[r] # Expired
               /\ run'[j].seen[r].next = run[j].seen[r].next
               /\ run'[j].seen[r].end = run[j].seen[r].end
               /\ run'[j].seen[r].period = run[j].seen[r].period
      BY <2>1, <2>2, <2>3, <2>4, <2>5
  <2>6. \A r \in run'[j].dirty : r \in run[j].dirty \/ r = c
      BY <2>2
  <2> QED BY <2>1, <2>5, <2>6, <1>1, <1>3
<1>10. CASE NextRule(j)
  <2>1. /\ run'[j].seen = run[j].seen /\ run'[j].dirty = run[j].dirty
        /\ run'[j].items = run[j].items /\ run'[j].pc = "pick"
      BY <1>10, <1>2 DEF NextRule, Run
  <2> QED BY <2>1, <1>1, <1>3 DEF Working
<1> QED BY <1>5, <1>6, <1>7, <1>8, <1>9, <1>10
-----------------------------------------------------------------------------
\* The next due date of a rule that no member has touched.
OnSchedule ==
    \A r \in plain :
        /\ r \in created /\ first[r] <= next[r]
        /\ (next[r] - first[r]) % period[r] = 0
        /\ \A d \in Days : d >= next[r] => posted[r][d] = 0

\* The job has loaded what the table still says of such a rule, and switches
\* it off only when it has ended.
Knows(j) ==
    /\ run[j].dirty \subseteq created
    /\ \A r \in plain :
          /\ run[j].seen[r] # Expired => Loaded(j, r)
          /\ r \in run[j].dirty => next[r] > end[r]

Schedule ==
    /\ OnSchedule /\ NoPeriodLost /\ EndsOnItsDate
    /\ \A j \in Calls : Knows(j)

SInv == IInv /\ Schedule

\* Who has loaded nothing and switches nothing off knows nothing wrong.
LEMMA ForgetfulKnows ==
    ASSUME TypeOK, NEW j \in Calls, run[j].seen = AllExpired, run[j].dirty = {}
    PROVE  Knows(j)
BY DEF TypeOK, Knows, AllExpired

LEMMA ForgetfulKnowsNext ==
    ASSUME TypeOK', NEW j \in Calls, run'[j].seen = AllExpired, run'[j].dirty = {}
    PROVE  Knows(j)'
BY DEF TypeOK, Knows, AllExpired

LEMMA InitSInv == Init => SInv
<1> SUFFICES ASSUME Init PROVE SInv
    OBVIOUS
<1>1. \A j \in Calls : Knows(j)
    BY InitIInv, ForgetfulKnows DEF Init, IInv, Stopped
<1>2. Schedule
    BY <1>1 DEF Init, Schedule, OnSchedule, NoPeriodLost, EndsOnItsDate
<1> QED BY <1>2, InitIInv DEF SInv

\* A step that touches the tables of no rule that counts as untouched.
LEMMA ScheduleStays ==
    ASSUME SInv, TypeOK', plain' \subseteq plain, created \subseteq created',
           \A r \in plain' :
              /\ next'[r] = next[r] /\ end'[r] = end[r] /\ period'[r] = period[r]
              /\ first'[r] = first[r] /\ posted'[r] = posted[r],
           \A r \in plain' : active[r] => active'[r] \/ next[r] > end[r],
           \A j \in Calls : run'[j] = run[j] \/ Knows(j)'
    PROVE  Schedule'
<1>1. OnSchedule' /\ NoPeriodLost'
    BY DEF SInv, Schedule, OnSchedule, NoPeriodLost
<1>2. EndsOnItsDate'
  <2>1. ASSUME NEW r \in plain', ~active'[r] PROVE next'[r] > end'[r]
    <3>1. next[r] > end[r]
        BY <2>1 DEF SInv, Schedule, EndsOnItsDate
    <3> QED BY <3>1, <2>1
  <2>2. ASSUME NEW r \in plain', NEW d \in Days, posted'[r][d] > 0 PROVE d <= end'[r]
      BY <2>2 DEF SInv, Schedule, EndsOnItsDate
  <2> QED BY <2>1, <2>2 DEF EndsOnItsDate
<1>3. ASSUME NEW j \in Calls, run'[j] = run[j] PROVE Knows(j)'
    BY <1>3 DEF SInv, Schedule, Knows, Loaded
<1> QED BY <1>1, <1>2, <1>3 DEF Schedule

\* A new rule is due on its start date and has posted nothing.
LEMMA CreateOnSchedule ==
    ASSUME SInv, IInv', NEW r \in Rules, NEW day \in Starts, NEW last \in Ends,
           NEW p \in Periods, CreateRecurring(r, day, last, p)
    PROVE  Schedule'
<1> day \in Nat /\ last \in Nat /\ p \in Nat /\ p > 0 /\ (day - day) % p = 0
  <2>1. day \in Nat /\ last \in Nat /\ p \in Nat /\ p > 0
      BY ConstantsAssumption, PeriodType DEF Days
  <2>2. day - day = 0
      BY <2>1
  <2>3. 0 % p = 0
      BY <2>1
  <2> QED BY <2>1, <2>2, <2>3
<1>1. /\ r \notin created /\ created' = created \cup {r} /\ plain' = plain \cup {r}
      /\ active' = [active EXCEPT ![r] = TRUE]
      /\ next' = [next EXCEPT ![r] = day] /\ end' = [end EXCEPT ![r] = last]
      /\ period' = [period EXCEPT ![r] = p] /\ first' = [first EXCEPT ![r] = day]
      /\ UNCHANGED <<posted, run>>
    BY DEF CreateRecurring
<1>2. /\ next'[r] = day /\ first'[r] = day /\ period'[r] = p /\ active'[r]
      /\ \A x \in Rules \ {r} :
            /\ next'[x] = next[x] /\ end'[x] = end[x] /\ period'[x] = period[x]
            /\ first'[x] = first[x] /\ active'[x] = active[x]
    BY <1>1 DEF SInv, IInv, TypeOK
<1>3. \A d \in Days : posted[r][d] = 0
    BY <1>1 DEF SInv, IInv, Inv, NotCreatedYet
<1>4. r \notin plain /\ plain \subseteq Rules
    BY <1>1 DEF SInv, IInv, TypeOK, Schedule, OnSchedule
<1>5. OnSchedule'
    BY <1>1, <1>2, <1>3, <1>4 DEF SInv, Schedule, OnSchedule
<1>6. NoPeriodLost'
  <2>1. ASSUME NEW d \in Days PROVE ~(first'[r] <= d /\ d < next'[r])
      BY <1>2 DEF Days
  <2>2. ASSUME NEW x \in plain, NEW d \in Days
        PROVE  posted'[x][d] = 1 <=> /\ first'[x] <= d /\ d < next'[x]
                                     /\ (d - first'[x]) % period'[x] = 0
      BY <1>1, <1>2, <1>4 DEF SInv, Schedule, NoPeriodLost
  <2> QED BY <2>1, <2>2, <1>1, <1>3 DEF NoPeriodLost
<1>7. EndsOnItsDate'
    BY <1>1, <1>2, <1>3, <1>4 DEF SInv, Schedule, EndsOnItsDate
<1>8. \A j \in Calls : Knows(j)'
  <2> SUFFICES ASSUME NEW j \in Calls PROVE Knows(j)'
      OBVIOUS
  <2>1. run[j].seen[r] = Expired /\ r \notin run[j].dirty /\ Knows(j)
      BY <1>1 DEF SInv, IInv, Inv, WorksOnRules, Schedule, Knows
  <2> QED BY <2>1, <1>1, <1>2, <1>4 DEF Knows, Loaded
<1> QED BY <1>5, <1>6, <1>7, <1>8 DEF Schedule

\* The members' other steps: a rule they touch does not count any more.
LEMMA EditOnSchedule ==
    ASSUME SInv, IInv', NEW r \in Rules,
           \/ \E last \in Ends, p \in Periods : UpdateRecurring(r, last, p)
           \/ DeactivateRecurring(r)
           \/ \E m \in Members : StartReactivate(m, r)
    PROVE  Schedule'
<1>1. /\ UNCHANGED <<created, posted, run, first, next>>
      /\ \A x \in Rules \ {r} :
            end'[x] = end[x] /\ period'[x] = period[x] /\ active'[x] = active[x]
      /\ \/ plain' = plain \ {r}
         \/ plain' = plain /\ end' = end /\ period' = period /\ active' = active
    BY DEF UpdateRecurring, DeactivateRecurring, StartReactivate, rows, history,
           SInv, IInv, TypeOK
<1>2. plain \subseteq Rules
    BY DEF SInv, IInv, TypeOK
<1> QED BY <1>1, <1>2, ScheduleStays DEF IInv

LEMMA ReactivationOnSchedule ==
    ASSUME SInv, IInv', NEW m \in Members, CommitReactivate(m)
    PROVE  Schedule'
<1> DEFINE r == request[m].rule
<1>1. r \in Rules
    BY DEF CommitReactivate, SInv, IInv, TypeOK, Request
<1>2. /\ UNCHANGED <<created, posted, run, first, end, period>>
      /\ plain' = plain \ {r}
      /\ \A x \in Rules \ {r} : next'[x] = next[x]
    BY DEF CommitReactivate, SInv, IInv, TypeOK
<1>3. \A x \in Rules \ {r} : active'[x] = active[x]
    BY DEF CommitReactivate, SInv, IInv, TypeOK
<1>4. plain \subseteq Rules
    BY DEF SInv, IInv, TypeOK
<1> HIDE DEF r
<1> QED BY <1>1, <1>2, <1>3, <1>4, ScheduleStays DEF IInv

\* The job's steps that write nothing load what the table says.
LEMMA LocalsOnSchedule ==
    ASSUME SInv, IInv', NEW j \in Calls,
           \/ CallJob(j) \/ PickRule(j) \/ Reload(j) \/ FailRule(j)
           \/ EndRule(j) \/ NextRule(j)
    PROVE  Schedule'
<1>1. /\ IInv /\ TypeOK' /\ plain \subseteq Rules /\ Knows(j)
    BY DEF SInv, IInv, TypeOK, Schedule
<1>2. UNCHANGED <<created, posted, first, plain, next, end, period, active>>
    BY <1>1, LocalsFacts
<1>3. \A i \in Calls : i # j => run'[i] = run[i]
    BY <1>1, LocalsFacts
<1>4. ASSUME NEW r \in plain, run'[j].seen[r] # Expired PROVE Loaded(j, r)'
  <2>1. \/ Loaded(j, r)'
        \/ /\ run[j].seen[r] # Expired
           /\ run'[j].seen[r].next = run[j].seen[r].next
           /\ run'[j].seen[r].end = run[j].seen[r].end
           /\ run'[j].seen[r].period = run[j].seen[r].period
      BY <1>1, <1>4, LocalsFacts
  <2> QED BY <2>1, <1>1, <1>2 DEF Knows, Loaded
<1>5. ASSUME NEW r \in run'[j].dirty
      PROVE  r \in created /\ (r \in plain => next[r] > end[r])
  <2>1. \/ r \in run[j].dirty
        \/ /\ r \in created /\ run[j].seen[r] # Expired
           /\ run[j].seen[r].next > run[j].seen[r].end
      BY <1>1, LocalsFacts
  <2> QED BY <2>1, <1>1 DEF Knows, Loaded
<1>6. Knows(j)'
    BY <1>2, <1>4, <1>5 DEF Knows
<1> QED BY <1>1, <1>2, <1>3, <1>6, ScheduleStays

\* A commit switches off what has ended.
LEMMA FlushedEnded ==
    ASSUME SInv, NEW j \in Calls, NEW r \in plain, active[r], ~Flushed(run[j].dirty)[r]
    PROVE  next[r] > end[r]
<1>1. r \in Rules
    BY DEF SInv, IInv, TypeOK
<1>2. r \in run[j].dirty
    BY <1>1 DEF Flushed
<1> QED BY <1>2 DEF SInv, Schedule, Knows

LEMMA FinishOnSchedule ==
    ASSUME SInv, IInv', NEW j \in Calls, FinishJob(j)
    PROVE  Schedule'
<1>1. /\ UNCHANGED <<created, next, end, period, posted, first, plain>>
      /\ active' = Flushed(run[j].dirty)
      /\ run' = [run EXCEPT ![j] = Stopped]
    BY DEF FinishJob, history
<1>2. \A r \in plain : active[r] => active'[r] \/ next[r] > end[r]
    BY <1>1, FlushedEnded
<1>3. \A i \in Calls \ {j} : run'[i] = run[i]
    BY <1>1 DEF SInv, IInv, TypeOK
<1>4. run'[j].seen = AllExpired /\ run'[j].dirty = {}
    BY <1>1 DEF SInv, IInv, TypeOK, Stopped
<1>5. Knows(j)' /\ TypeOK'
    BY <1>4, ForgetfulKnowsNext DEF IInv
<1> QED BY <1>1, <1>2, <1>3, <1>5, ScheduleStays

LEMMA RestOnSchedule ==
    ASSUME SInv, IInv', Crash \/ Tick \/ UNCHANGED vars
    PROVE  Schedule'
<1>1. UNCHANGED <<created, active, next, end, period, posted, first, plain>>
    BY DEF Crash, Tick, vars, rows, history
<1>2. \A j \in Calls : run'[j] = run[j] \/ run'[j] = Stopped
    BY DEF Crash, Tick, vars
<1>3. ASSUME NEW j \in Calls, run'[j] = Stopped PROVE Knows(j)'
  <2>1. run'[j].seen = AllExpired /\ run'[j].dirty = {}
      BY <1>3 DEF Stopped
  <2> QED BY <2>1, ForgetfulKnowsNext DEF IInv
<1>4. TypeOK'
    BY DEF IInv
<1> QED BY <1>1, <1>2, <1>3, <1>4, ScheduleStays

\* Posting a due date moves on by one period: the days between are none.
LEMMA PostOnSchedule ==
    ASSUME SInv, IInv', NEW j \in Calls, PostPeriod(j)
    PROVE  Schedule'
<1> DEFINE r == run[j].cur
           row == run[j].seen[r]
           d == row.next
           new == d + row.period
<1>1. /\ IInv /\ Knows(j)
    BY DEF SInv, Schedule
<1>2. /\ r \in Rules /\ r \in created /\ row \in Row /\ row # Expired
      /\ ~(d > row.end) /\ d \in Nat
      /\ row.period \in Nat /\ row.period > 0 /\ row.end \in Nat
    BY <1>1, PostFacts
<1>3. new \in Nat /\ new > d
  <2> HIDE DEF d, row
  <2> QED BY <1>2
<1>4. r \in plain => row.end = end[r] /\ row.period = period[r] /\ d = next[r]
    BY <1>1, <1>2 DEF Knows, Loaded
<1>5. \A x \in Rules, y \in Days :
         posted'[x][y] = IF x = r /\ y = d THEN posted[x][y] + 1 ELSE posted[x][y]
    BY <1>1, PostFacts
<1>6. /\ \A x \in Rules : next'[x] = IF x = r THEN new ELSE next[x]
      /\ UNCHANGED <<created, end, period, first, plain>>
      /\ active' = Flushed(run[j].dirty)
    BY <1>1, PostFacts
<1>7. d \in Days /\ r \in plain => posted[r][d] = 0
    BY <1>2, <1>4 DEF SInv, Schedule, OnSchedule, Days
<1>8. run'[j].seen = AllExpired /\ run'[j].dirty = {}
    BY <1>1, PostFacts
<1>9. \A i \in Calls : i # j => run'[i] = run[i] /\ run[i] = Stopped
    BY <1>1, PostFacts
<1>10. plain \subseteq Rules
    BY DEF SInv, IInv, TypeOK
<1>11. /\ \A x \in Rules : /\ next[x] \in Nat /\ end[x] \in Nat /\ first[x] \in Nat
                           /\ period[x] \in Nat /\ period[x] > 0
       /\ Days \subseteq Nat
    BY PeriodType DEF SInv, IInv, TypeOK, Days
<1>12. r \in plain => first[r] <= d /\ (d - first[r]) % period[r] = 0 /\ d - first[r] \in Nat
    BY <1>2, <1>4, <1>11 DEF SInv, Schedule, OnSchedule
<1>13. r \in plain => new = d + period[r]
    BY <1>4
<1> HIDE DEF r, d, row, new
<1>14. OnSchedule'
  <2> SUFFICES ASSUME NEW x \in plain
               PROVE  /\ x \in created /\ first[x] <= next'[x]
                      /\ (next'[x] - first[x]) % period[x] = 0
                      /\ \A y \in Days : y >= next'[x] => posted'[x][y] = 0
      BY <1>6 DEF OnSchedule
  <2>1. CASE x # r
      BY <2>1, <1>5, <1>6, <1>10 DEF SInv, Schedule, OnSchedule
  <2>2. CASE x = r
    <3>1. new = d + period[r] /\ next'[x] = new
        BY <2>2, <1>2, <1>6, <1>13
    <3>2. new - first[r] = (d - first[r]) + period[r] /\ first[r] <= new
        BY <3>1, <2>2, <1>2, <1>3, <1>11, <1>12
    <3> DEFINE gap == d - first[r]
    <3>3. gap \in Nat /\ gap % period[r] = 0
        BY <2>2, <1>12
    <3> HIDE DEF gap
    <3>4. (gap + period[r]) % period[r] = 0
        BY <3>3, <1>2, <1>11, PeriodLater
    <3>5. (new - first[r]) % period[r] = 0
        BY <3>2, <3>4 DEF gap
    <3>6. ASSUME NEW y \in Days, y >= new PROVE posted'[r][y] = 0
      <4>1. y # d /\ y >= next[r]
          BY <3>6, <2>2, <1>2, <1>3, <1>4, <1>11
      <4>2. posted[r][y] = 0
          BY <4>1, <2>2 DEF SInv, Schedule, OnSchedule
      <4> QED BY <4>1, <4>2, <1>2, <1>5
    <3> QED BY <2>2, <3>1, <3>2, <3>5, <3>6, <1>2
  <2> QED BY <2>1, <2>2
<1>15. NoPeriodLost'
  <2> SUFFICES ASSUME NEW x \in plain, NEW y \in Days
               PROVE  posted'[x][y] = 1 <=>
                         /\ first[x] <= y /\ y < next'[x]
                         /\ (y - first[x]) % period[x] = 0
      BY <1>6 DEF NoPeriodLost
  <2>0. posted[x][y] = 1 <=> /\ first[x] <= y /\ y < next[x]
                             /\ (y - first[x]) % period[x] = 0
      BY DEF SInv, Schedule, NoPeriodLost
  <2>1. CASE x # r
      BY <2>0, <2>1, <1>5, <1>6, <1>10
  <2>2. CASE x = r /\ y = d
      BY <2>2, <1>2, <1>3, <1>5, <1>6, <1>7, <1>10, <1>12
  <2>3. CASE x = r /\ y # d
    <3>1. posted'[x][y] = posted[x][y] /\ next'[x] = new /\ next[x] = d
        BY <2>3, <1>2, <1>4, <1>5, <1>6
    <3>2. y < d <=> y < new /\ ~(d < y /\ y < new)
        BY <2>3, <1>2, <1>3, <1>11
    <3>3. ASSUME d < y, y < new PROVE (y - first[x]) % period[x] # 0
      <4> DEFINE gap == d - first[x]
                 z == y - first[x]
      <4>1. gap \in Nat /\ gap % period[x] = 0 /\ z \in Nat /\ gap < z /\ z < gap + period[x]
          BY <2>3, <3>3, <1>2, <1>11, <1>12, <1>13
      <4>2. period[x] \in Nat /\ period[x] > 0
          BY <1>10, <1>11
      <4> HIDE DEF gap, z
      <4>3. z % period[x] # 0
          BY <4>1, <4>2, NoneBetween
      <4> QED BY <4>3 DEF z
    <3> QED BY <2>0, <3>1, <3>2, <3>3
  <2> QED BY <2>1, <2>2, <2>3
<1>16. EndsOnItsDate'
  <2>1. ASSUME NEW x \in plain, NEW y \in Days, posted'[x][y] > 0 PROVE y <= end[x]
    <3>1. CASE x = r /\ y = d
        BY <3>1, <1>2, <1>4
    <3>2. CASE ~(x = r /\ y = d)
        BY <3>2, <2>1, <1>5, <1>10 DEF SInv, Schedule, EndsOnItsDate
    <3> QED BY <3>1, <3>2
  <2>2. ASSUME NEW x \in plain, ~active'[x] PROVE next'[x] > end[x]
    <3>1. next[x] > end[x]
      <4>1. CASE active[x]
          BY <4>1, <2>2, <1>6, FlushedEnded
      <4>2. CASE ~active[x]
          BY <4>2 DEF SInv, Schedule, EndsOnItsDate
      <4> QED BY <4>1, <4>2
    <3>2. next'[x] >= next[x]
        BY <1>2, <1>3, <1>4, <1>6, <1>10, <1>11
    <3>3. next'[x] \in Nat /\ next[x] \in Nat /\ end[x] \in Nat
        BY <1>3, <1>6, <1>10, <1>11
    <3> QED BY <3>1, <3>2, <3>3
  <2> QED BY <2>1, <2>2, <1>6 DEF EndsOnItsDate
<1>17. \A i \in Calls : Knows(i)'
  <2>1. ASSUME NEW i \in Calls, i # j PROVE run'[i].seen = AllExpired /\ run'[i].dirty = {}
      BY <2>1, <1>9 DEF Stopped
  <2> QED BY <2>1, <1>8, ForgetfulKnowsNext DEF IInv
<1> QED BY <1>14, <1>15, <1>16, <1>17 DEF Schedule

\* Every step keeps the schedule.
LEMMA StepSInv ==
    ASSUME SInv, [Next]_vars
    PROVE  SInv'
<1>0. IInv'
    BY StepIInv DEF SInv
<1>1. ASSUME MemberStep PROVE Schedule'
    BY <1>0, <1>1, CreateOnSchedule, EditOnSchedule DEF MemberStep
<1>2. ASSUME NEW m \in Members, CommitReactivate(m) PROVE Schedule'
    BY <1>0, <1>2, ReactivationOnSchedule
<1>3. ASSUME NEW j \in Calls, CallJob(j) \/ JobStep(j) PROVE Schedule'
    BY <1>0, <1>3, LocalsOnSchedule, PostOnSchedule, FinishOnSchedule DEF JobStep
<1>4. ASSUME Crash \/ Tick \/ UNCHANGED vars PROVE Schedule'
    BY <1>0, <1>4, RestOnSchedule
<1> QED BY <1>0, <1>1, <1>2, <1>3, <1>4 DEF Next, SInv

\* A rule nobody has touched has posted each of its due dates before the
\* next one, and nothing else, whatever failed or crashed meanwhile.
THEOREM EveryPeriodPosted == Spec => []NoPeriodLost
<1>1. SInv => NoPeriodLost
    BY DEF SInv, Schedule
<1> QED BY <1>1, InitSInv, StepSInv, PTL DEF Spec

\* Such a rule posts nothing past its end date, and the job switches it off
\* only when no due date is left.
THEOREM RuleRunsToItsEnd == Spec => []EndsOnItsDate
<1>1. SInv => EndsOnItsDate
    BY DEF SInv, Schedule
<1> QED BY <1>1, InitSInv, StepSInv, PTL DEF Spec
-----------------------------------------------------------------------------
(***************************************************************************)
(* No due date is posted twice.  The job and reactivate_recurring both     *)
(* write a next_due_date computed from one they have loaded, so neither    *)
(* may work on a rule that is loaded by the other.                         *)
(***************************************************************************)

\* Nobody reactivates a rule that a run of the job has still to handle.
Undisturbed ==
    \A m \in Members, j \in Calls :
        request[m] # NoRequest => request[m].rule \notin Working(j)

\* Nothing is posted from next_due_date on.
NothingAhead ==
    \A r \in Rules, d \in Days : d >= next[r] => posted[r][d] = 0

\* What a run has loaded of a rule it will handle is what the table says.
SeenIsCurrent ==
    \A j \in Calls : \A r \in Working(j) :
        run[j].seen[r] # Expired => run[j].seen[r].next = next[r]

\* Nothing has been posted from the due date on that a reactivation loaded.
OpenIsSafe ==
    \A m \in Members, d \in Days :
        (request[m] # NoRequest /\ d >= request[m].row.next)
            => posted[request[m].rule][d] = 0

Once == NothingAhead /\ SeenIsCurrent /\ OpenIsSafe /\ NeverPostedTwice

\* A run works on rules that exist, and one that is stopped on none.
LEMMA WorkingFacts ==
    ASSUME IInv, NEW j \in Calls
    PROVE  /\ Working(j) \subseteq created /\ created \subseteq Rules
           /\ run[j] = Stopped => Working(j) = {}
BY DEF IInv, Inv, TypeOK, WorksOnRules, Working, Stopped

LEMMA InitOnce == Init => Once
<1> SUFFICES ASSUME Init PROVE Once
    OBVIOUS
<1>1. \A j \in Calls : Working(j) = {}
    BY DEF Init, Working, Stopped
<1> QED BY <1>1 DEF Init, Once, NothingAhead, SeenIsCurrent, OpenIsSafe,
                    NeverPostedTwice

\* Steps that post nothing and leave the due dates.
LEMMA OnceStays ==
    ASSUME Once, UNCHANGED <<next, posted>>,
           \A m \in Members : request'[m] = request[m] \/ request'[m] = NoRequest,
           \A j \in Calls :
              \/ run'[j] = run[j] \/ Working(j)' = {}
              \/ \A r \in Working(j)' :
                    run'[j].seen[r] # Expired => run'[j].seen[r].next = next[r]
    PROVE  Once'
<1>1. NothingAhead' /\ OpenIsSafe' /\ NeverPostedTwice'
    BY DEF Once, NothingAhead, OpenIsSafe, NeverPostedTwice
<1>2. SeenIsCurrent'
  <2> SUFFICES ASSUME NEW j \in Calls, NEW r \in Working(j)', run'[j].seen[r] # Expired
               PROVE  run'[j].seen[r].next = next'[r]
      BY DEF SeenIsCurrent
  <2>1. CASE run'[j] = run[j]
      BY <2>1 DEF Once, SeenIsCurrent, Working
  <2> QED BY <2>1
<1> QED BY <1>1, <1>2 DEF Once

\* A new rule has posted nothing, and no run works on it.
LEMMA CreateOnce ==
    ASSUME IInv, Once, NEW r \in Rules, NEW day \in Starts, NEW last \in Ends,
           NEW p \in Periods, CreateRecurring(r, day, last, p)
    PROVE  Once'
<1>1. /\ r \notin created /\ UNCHANGED <<posted, run, request>>
      /\ \A x \in Rules : next'[x] = IF x = r THEN day ELSE next[x]
    BY DEF CreateRecurring, IInv, TypeOK
<1>2. \A d \in Days : posted[r][d] = 0
    BY <1>1 DEF IInv, Inv, NotCreatedYet
<1>3. NothingAhead' /\ OpenIsSafe' /\ NeverPostedTwice'
    BY <1>1, <1>2 DEF Once, NothingAhead, OpenIsSafe, NeverPostedTwice
<1>4. SeenIsCurrent'
  <2> SUFFICES ASSUME NEW j \in Calls, NEW x \in Working(j), run[j].seen[x] # Expired
               PROVE  run[j].seen[x].next = next'[x]
      BY <1>1 DEF SeenIsCurrent, Working
  <2>1. x \in Rules /\ x # r
      BY <1>1, WorkingFacts
  <2> QED BY <2>1, <1>1 DEF Once, SeenIsCurrent
<1> QED BY <1>3, <1>4 DEF Once

\* A reactivation loads a due date from which nothing has been posted.
LEMMA StartOnce ==
    ASSUME IInv, Once, NEW m \in Members, NEW r \in Rules, StartReactivate(m, r)
    PROVE  Once'
<1> DEFINE q == [rule |-> r, row |-> Load(r), today |-> today]
<1>1. /\ UNCHANGED <<next, posted, run>>
      /\ \A n \in Members : request'[n] = IF n = m THEN q ELSE request[n]
    BY DEF StartReactivate, rows, IInv, TypeOK
<1>2. q.rule = r /\ q.row.next = next[r]
    BY DEF Load
<1> HIDE DEF q
<1>3. OpenIsSafe'
    BY <1>1, <1>2 DEF Once, OpenIsSafe, NothingAhead
<1>4. NothingAhead' /\ NeverPostedTwice' /\ SeenIsCurrent'
    BY <1>1 DEF Once, NothingAhead, NeverPostedTwice, SeenIsCurrent, Working
<1> QED BY <1>3, <1>4 DEF Once

\* It commits a due date no earlier than that, on a rule no run works on.
LEMMA CommitOnce ==
    ASSUME IInv, Once, Undisturbed, NEW m \in Members, CommitReactivate(m)
    PROVE  Once'
<1> DEFINE q == request[m]
           r == q.rule
<1>1. /\ q # NoRequest /\ r \in Rules /\ q.row \in Row
      /\ \A x \in Rules : x # r => next'[x] = next[x]
      /\ next'[r] = next[r] \/ next'[r] >= q.row.next
      /\ next' \in [Rules -> Nat]
      /\ \A n \in Members : request'[n] = IF n = m THEN NoRequest ELSE request[n]
    BY CommitFacts
<1>2. UNCHANGED <<posted, run>>
    BY DEF CommitReactivate
<1>3. /\ \A j \in Calls : r \notin Working(j)
      /\ \A d \in Days : d >= q.row.next => posted[r][d] = 0
    BY <1>1 DEF Undisturbed, Once, OpenIsSafe
<1>4. q.row.next \in Nat
    BY <1>1 DEF Row
<1> HIDE DEF q, r
<1>5. NothingAhead'
  <2> SUFFICES ASSUME NEW x \in Rules, NEW d \in Days, d >= next'[x]
               PROVE  posted[x][d] = 0
      BY <1>2 DEF NothingAhead
  <2>1. CASE next'[x] = next[x]
      BY <2>1 DEF Once, NothingAhead
  <2>2. CASE x = r /\ next'[x] >= q.row.next
      BY <2>2, <1>1, <1>3, <1>4 DEF Days
  <2> QED BY <2>1, <2>2, <1>1
<1>6. SeenIsCurrent'
  <2> SUFFICES ASSUME NEW j \in Calls, NEW x \in Working(j), run[j].seen[x] # Expired
               PROVE  run[j].seen[x].next = next'[x]
      BY <1>2 DEF SeenIsCurrent, Working
  <2>1. x \in Rules /\ x # r
      BY <1>3, WorkingFacts
  <2> QED BY <2>1, <1>1 DEF Once, SeenIsCurrent
<1>7. OpenIsSafe' /\ NeverPostedTwice'
    BY <1>1, <1>2 DEF Once, OpenIsSafe, NeverPostedTwice
<1> QED BY <1>5, <1>6, <1>7 DEF Once

\* The job's own steps keep what they have loaded, or load it again.
LEMMA LocalsOnce ==
    ASSUME IInv, Once, NEW j \in Calls,
           \/ CallJob(j) \/ PickRule(j) \/ Reload(j) \/ FailRule(j)
           \/ EndRule(j) \/ NextRule(j)
    PROVE  Once'
<1>1. UNCHANGED <<next, posted, request>> /\ \A i \in Calls : i # j => run'[i] = run[i]
    BY LocalsFacts
<1>2. IInv'
    BY CallKeeps, PickKeeps, ReloadKeeps, FailKeeps, EndKeeps, NextRuleKeeps
<1>3. Working(j)' \subseteq Rules
    BY <1>2 DEF IInv, Inv, TypeOK, WorksOnRules, Working
<1>4. ASSUME NEW r \in Working(j)', run'[j].seen[r] # Expired
      PROVE  run'[j].seen[r].next = next[r]
  <2>1. \/ Loaded(j, r)'
        \/ /\ r \in Working(j) /\ run[j].seen[r] # Expired
           /\ run'[j].seen[r].next = run[j].seen[r].next
      BY <1>3, <1>4, LocalsFacts
  <2> QED BY <2>1, <1>1 DEF Once, SeenIsCurrent, Loaded
<1> QED BY <1>1, <1>4, OnceStays

\* A transaction is posted on a day on which there was none, and nobody who
\* has the rule loaded will put its due date back.
LEMMA PostOnce ==
    ASSUME IInv, Once, Undisturbed, NEW j \in Calls, PostPeriod(j)
    PROVE  Once'
<1> DEFINE r == run[j].cur
           d == run[j].seen[r].next
           new == d + run[j].seen[r].period
<1>1. /\ r \in Rules /\ run[j].seen[r] # Expired /\ d \in Nat
      /\ run[j].seen[r].period \in Nat /\ run[j].seen[r].period > 0
      /\ \A x \in Rules : next'[x] = IF x = r THEN new ELSE next[x]
      /\ \A x \in Rules, y \in Days :
            posted'[x][y] = IF x = r /\ y = d THEN posted[x][y] + 1 ELSE posted[x][y]
      /\ run'[j].seen = AllExpired /\ run'[j].items = run[j].items
      /\ run'[j].cur = r /\ run'[j].pc = "rule"
      /\ \A i \in Calls : i # j => run'[i] = run[i] /\ run[i] = Stopped
      /\ UNCHANGED request
    BY PostFacts
<1>2. r \in Working(j)
    BY DEF Working, PostPeriod, Continues
<1>3. d = next[r] /\ new \in Nat /\ new > d
    BY <1>1, <1>2 DEF Once, SeenIsCurrent
<1>4. d \in Days => posted[r][d] = 0
    BY <1>1, <1>3 DEF Once, NothingAhead
<1>5. \A x \in Rules : next[x] \in Nat
    BY DEF IInv, TypeOK
<1>6. Working(j)' \subseteq Rules
    BY <1>1, WorkingFacts DEF Working
<1> HIDE DEF r, d, new
<1>7. NothingAhead'
  <2> SUFFICES ASSUME NEW x \in Rules, NEW y \in Days, y >= next'[x]
               PROVE  posted'[x][y] = 0
      BY DEF NothingAhead
  <2>1. y >= next[x] /\ ~(x = r /\ y = d)
      BY <1>1, <1>3, <1>5 DEF Days
  <2> QED BY <2>1, <1>1 DEF Once, NothingAhead
<1>8. SeenIsCurrent'
  <2> SUFFICES ASSUME NEW i \in Calls, NEW x \in Working(i)', run'[i].seen[x] # Expired
               PROVE  FALSE
      BY DEF SeenIsCurrent
  <2>1. CASE i = j
      BY <2>1, <1>1, <1>6 DEF AllExpired
  <2>2. CASE i # j
      BY <2>2, <1>1 DEF Working, Stopped
  <2> QED BY <2>1, <2>2
<1>9. OpenIsSafe'
  <2> SUFFICES ASSUME NEW m \in Members, NEW y \in Days, request[m] # NoRequest,
                      y >= request[m].row.next
               PROVE  posted'[request[m].rule][y] = 0
      BY <1>1 DEF OpenIsSafe
  <2>1. request[m].rule # r /\ request[m].rule \in Rules
      BY <1>2 DEF Undisturbed, IInv, TypeOK, Request
  <2> QED BY <2>1, <1>1 DEF Once, OpenIsSafe
<1>10. NeverPostedTwice'
    BY <1>1, <1>4 DEF Once, NeverPostedTwice
<1> QED BY <1>7, <1>8, <1>9, <1>10 DEF Once

\* Every step keeps it, if it starts undisturbed.
LEMMA StepOnce ==
    ASSUME IInv, Once, Undisturbed, [Next]_vars
    PROVE  Once'
<1>1. ASSUME NEW r \in Rules,
             \/ \E last \in Ends, p \in Periods : UpdateRecurring(r, last, p)
             \/ DeactivateRecurring(r)
      PROVE  Once'
  <2>1. UNCHANGED <<next, posted, request, run>>
      BY <1>1 DEF UpdateRecurring, DeactivateRecurring
  <2> QED BY <2>1, OnceStays
<1>2. CASE MemberStep
    BY <1>1, <1>2, CreateOnce, StartOnce DEF MemberStep
<1>3. ASSUME NEW m \in Members, CommitReactivate(m) PROVE Once'
    BY <1>3, CommitOnce
<1>4. ASSUME NEW j \in Calls, FinishJob(j) PROVE Once'
  <2>1. UNCHANGED <<next, posted, request>> /\ \A i \in Calls : run'[i] = Stopped
      BY <1>4, FinishKeeps DEF FinishJob
  <2>2. \A i \in Calls : Working(i)' = {}
      BY <2>1 DEF Working, Stopped
  <2> QED BY <2>1, <2>2, OnceStays
<1>5. ASSUME NEW j \in Calls, CallJob(j) \/ JobStep(j) PROVE Once'
    BY <1>4, <1>5, LocalsOnce, PostOnce DEF JobStep
<1>6. CASE Crash
  <2>1. /\ UNCHANGED <<next, posted>> /\ \A m \in Members : request'[m] = NoRequest
        /\ \A i \in Calls : run'[i] = Stopped
      BY <1>6 DEF Crash, rows
  <2>2. \A i \in Calls : Working(i)' = {}
      BY <2>1 DEF Working, Stopped
  <2> QED BY <2>1, <2>2, OnceStays
<1>7. CASE Tick \/ UNCHANGED vars
  <2>1. UNCHANGED <<next, posted, request, run>>
      BY <1>7 DEF Tick, vars, rows
  <2> QED BY <2>1, OnceStays
<1> QED BY <1>2, <1>3, <1>5, <1>6, <1>7 DEF Next

\* generate_due_transactions posts no due date twice, for any number of
\* rules, calls, crashes and failures, as long as nobody reactivates a rule
\* that a run has still to handle.
THEOREM PostedOnce == Spec /\ []Undisturbed => []NeverPostedTwice
<1>1. IInv /\ Once /\ Undisturbed /\ [Next]_vars => Once'
    BY StepOnce
<1>2. Once => NeverPostedTwice
    BY DEF Once
<1> QED BY <1>1, <1>2, InitOnce, InductiveInvariant, PTL DEF Spec

\* That is so when reactivations keep out of the job's time altogether, as
\* in the instance that the run "safety" checks.
THEOREM ApartIsUndisturbed ==
    ASSUME ~RaceWithJob
    PROVE  Spec => []Undisturbed
<1> DEFINE Apart == \A m \in Members : request[m] # NoRequest => holder = NoCall
<1>1. Init => Apart
    BY DEF Init
<1>2. ASSUME IInv, Apart, [Next]_vars PROVE Apart'
  <2>1. CASE MemberStep
    <3>1. ASSUME NEW m \in Members, NEW r \in Rules, StartReactivate(m, r)
          PROVE  Apart'
      <4>1. holder = NoCall /\ holder' = holder
          BY <3>1 DEF StartReactivate
      <4> QED BY <4>1
    <3>2. ASSUME UNCHANGED <<holder, request>> PROVE Apart'
        BY <1>2, <3>2
    <3> QED BY <2>1, <3>1, <3>2 DEF MemberStep, CreateRecurring, UpdateRecurring,
                                    DeactivateRecurring
  <2>2. ASSUME NEW m \in Members, CommitReactivate(m) PROVE Apart'
    <3>1. /\ UNCHANGED holder
          /\ \A n \in Members : request'[n] = IF n = m THEN NoRequest ELSE request[n]
        BY <1>2, <2>2, CommitFacts DEF CommitReactivate
    <3> QED BY <1>2, <3>1
  <2>3. ASSUME NEW j \in Calls, CallJob(j) PROVE Apart'
    <3>1. UNCHANGED request /\ \A m \in Members : request[m] = NoRequest
        BY <2>3 DEF CallJob
    <3> QED BY <3>1
  <2>4. ASSUME NEW j \in Calls, JobStep(j) PROVE Apart'
    <3>1. UNCHANGED request /\ (holder' = holder \/ holder' = NoCall)
        BY <2>4 DEF JobStep, PickRule, Reload, PostPeriod, FailRule, EndRule,
                    NextRule, FinishJob
    <3> QED BY <1>2, <3>1
  <2>5. CASE Crash \/ Tick \/ UNCHANGED vars
    <3>1. \/ UNCHANGED <<holder, request>>
          \/ holder' = NoCall
        BY <2>5 DEF Crash, Tick, vars
    <3> QED BY <1>2, <3>1
  <2> QED BY <1>2, <2>1, <2>2, <2>3, <2>4, <2>5 DEF Next
<1>3. ASSUME IInv, Apart PROVE Undisturbed
  <2> SUFFICES ASSUME NEW m \in Members, NEW j \in Calls, request[m] # NoRequest
               PROVE  Working(j) = {}
      BY DEF Undisturbed
  <2>1. run[j] = Stopped
      BY <1>3, ConstantsAssumption DEF IInv, Inv, OnlyHolderRuns
  <2> QED BY <1>3, <2>1, WorkingFacts
<1> HIDE DEF Apart
<1> QED BY <1>1, <1>2, <1>3, InductiveInvariant, PTL DEF Spec
-----------------------------------------------------------------------------
\* Why a rule that was switched back on posts nothing from before: its next
\* due date is never before the day of the reactivation.  Two reactivations
\* of one rule may be open together, but not from before and from after
\* midnight: the older could write its due date over that of the younger.
SameDay ==
    \A m, n \in Members :
        (/\ request[m] # NoRequest /\ request[n] # NoRequest
         /\ request[m].rule = request[n].rule)
            => request[m].today = request[n].today

\* The guard of the skipping loop reaches over the calendar.
GuardReaches == \A p \in Periods : REACTIVATE_GUARD * p >= MaxDay

\* An open reactivation is no older than the last one committed, and if it
\* has nothing to skip, the table has nothing to skip either.
OpenIsCurrent ==
    \A m \in Members :
        request[m] # NoRequest =>
            /\ request[m].today \in Days /\ request[m].today <= today
            /\ resumed[request[m].rule] <= request[m].today
            /\ request[m].row.next >= request[m].today
                  => next[request[m].rule] >= request[m].today

NothingBehind ==
    /\ \A r \in Rules : resumed[r] <= next[r] /\ resumed[r] <= today
    /\ \A r \in Rules \ created : resumed[r] = 0
    /\ OpenIsCurrent

\* Nothing is due, nothing is resumed.
LEMMA InitBehind == Init => NothingBehind
BY DEF Init, NothingBehind, OpenIsCurrent

\* Steps that keep what exists, what is due, and what is open.
LEMMA BehindStays ==
    ASSUME IInv, NothingBehind, UNCHANGED <<created, next, resumed>>,
           today' = today \/ today' = today + 1,
           \A m \in Members : request'[m] = request[m] \/ request'[m] = NoRequest
    PROVE  NothingBehind'
<1>1. /\ today \in Nat /\ today' \in Nat /\ today' >= today
      /\ \A r \in Rules : resumed[r] \in Nat
    BY ConstantsAssumption DEF IInv, TypeOK, Days
<1>2. \A r \in Rules : resumed'[r] <= next'[r] /\ resumed'[r] <= today'
    BY <1>1 DEF NothingBehind
<1>3. OpenIsCurrent'
    BY <1>1, ConstantsAssumption DEF NothingBehind, OpenIsCurrent, Days
<1> QED BY <1>2, <1>3 DEF NothingBehind

\* The rule a reactivation works on exists, so a new one is none of its.
LEMMA CreateBehind ==
    ASSUME IInv, NothingBehind, NEW r \in Rules, NEW day \in Starts,
           NEW last \in Ends, NEW p \in Periods, CreateRecurring(r, day, last, p)
    PROVE  NothingBehind'
<1>1. /\ r \notin created /\ created' = created \cup {r} /\ resumed' = resumed
      /\ request' = request /\ day \in Nat /\ today' = today
      /\ \A x \in Rules : next'[x] = IF x = r THEN day ELSE next[x]
    BY ConstantsAssumption DEF CreateRecurring, IInv, TypeOK, Days
<1>2. \A x \in Rules : resumed'[x] <= next'[x] /\ resumed'[x] <= today'
    BY <1>1 DEF NothingBehind
<1>3. OpenIsCurrent'
  <2> SUFFICES ASSUME NEW m \in Members, request[m] # NoRequest
               PROVE  /\ request[m].today \in Days
                      /\ request[m].today <= today
                      /\ resumed[request[m].rule] <= request[m].today
                      /\ request[m].row.next >= request[m].today
                            => next'[request[m].rule] >= request[m].today
      BY <1>1 DEF OpenIsCurrent
  <2>1. request[m].rule \in created /\ request[m].rule \in Rules
      BY DEF IInv, Inv, WorksOnRules, TypeOK, Request
  <2> QED BY <1>1, <2>1 DEF NothingBehind, OpenIsCurrent
<1> QED BY <1>1, <1>2, <1>3 DEF NothingBehind

\* A reactivation loads the due date as it is, on the latest day so far.
LEMMA StartBehind ==
    ASSUME IInv, NothingBehind, NEW m \in Members, NEW r \in Rules,
           StartReactivate(m, r)
    PROVE  NothingBehind'
<1> DEFINE q == [rule |-> r, row |-> Load(r), today |-> today]
<1>1. /\ UNCHANGED <<created, next, resumed, today>>
      /\ request' = [request EXCEPT ![m] = q]
    BY DEF StartReactivate, rows, history
<1>2. /\ q.row.next = next[r] /\ q.rule = r
      /\ q.today \in Days /\ q.today = today
    BY DEF Load, IInv, TypeOK
<1>3. \A n \in Members : request'[n] = IF n = m THEN q ELSE request[n]
    BY <1>1 DEF IInv, TypeOK
<1> HIDE DEF q
<1>4. today \in Nat
    BY ConstantsAssumption DEF IInv, TypeOK, Days
<1>5. OpenIsCurrent'
    BY <1>1, <1>2, <1>3, <1>4 DEF NothingBehind, OpenIsCurrent
<1> QED BY <1>1, <1>5 DEF NothingBehind

\* Skipping ends on or after the day of the request.
LEMMA SkipsReach ==
    ASSUME GuardReaches, NEW row \in Row, NEW day \in Days,
           NEW k \in Skips(row, day)
    PROVE  /\ k \in Nat /\ row.next + k * row.period \in Nat
           /\ row.next + k * row.period >= day
           /\ k = 0 => row.next >= day
<1>1. /\ row.next \in Nat /\ row.period \in Nat /\ row.period \in Periods
      /\ day \in Nat /\ day <= MaxDay /\ MaxDay \in Nat /\ day >= 1
      /\ REACTIVATE_GUARD \in Nat
  <2>1. row.next \in Nat /\ row.period \in Periods
      BY DEF Row
  <2>2. row.period \in Nat
      BY <2>1, ConstantsAssumption
  <2>3. day \in Nat /\ day <= MaxDay /\ day >= 1 /\ MaxDay \in Nat
      BY ConstantsAssumption DEF Days
  <2> QED BY <2>1, <2>2, <2>3, ConstantsAssumption
<1>2. k \in Nat
    BY <1>1 DEF Skips
<1>3. k * row.period \in Nat /\ row.next + k * row.period >= row.next
    BY <1>1, <1>2, SkipsForward
<1>4. k = REACTIVATE_GUARD \/ row.next + k * row.period >= day
    BY DEF Skips
<1>5. REACTIVATE_GUARD * row.period >= MaxDay
    BY <1>1 DEF GuardReaches
<1>6. row.next + k * row.period >= day
  <2> DEFINE far == k * row.period
  <2>1. far \in Nat /\ (far >= MaxDay \/ row.next + far >= day)
      BY <1>3, <1>4, <1>5
  <2> HIDE DEF far
  <2>2. row.next + far >= day
      BY <1>1, <2>1
  <2> QED BY <2>2 DEF far
<1>7. k = 0 => k * row.period = 0
    BY <1>1
<1> QED BY <1>1, <1>2, <1>3, <1>6, <1>7

\* So the due date it commits is not before that day.
LEMMA CommitBehind ==
    ASSUME SameDay, GuardReaches, IInv, NothingBehind, NEW m \in Members,
           CommitReactivate(m)
    PROVE  NothingBehind'
<1> DEFINE q == request[m]
           r == q.rule
<1>1. /\ q \in Request /\ q # NoRequest /\ r \in Rules /\ q.row \in Row
      /\ q.today \in Days /\ r \in created
      /\ q.row.next >= q.today => next[r] >= q.today
    BY DEF CommitReactivate, IInv, Inv, TypeOK, Request, NothingBehind,
           OpenIsCurrent, WorksOnRules
<1>2. PICK k \in Skips(q.row, q.today) :
        next' = IF k = 0 THEN next
                ELSE [next EXCEPT ![r] = q.row.next + k * q.row.period]
    BY DEF CommitReactivate
<1> DEFINE new == q.row.next + k * q.row.period
<1>3. /\ new \in Nat /\ new >= q.today
      /\ k = 0 => q.row.next >= q.today
    BY <1>1, SkipsReach
<1>4. /\ created' = created /\ resumed' = [resumed EXCEPT ![r] = q.today]
      /\ request' = [request EXCEPT ![m] = NoRequest] /\ today' = today
    BY DEF CommitReactivate
<1>4a. q.today \in Nat /\ q.today <= today
    BY <1>1, ConstantsAssumption DEF Days, NothingBehind, OpenIsCurrent
<1>5. /\ \A x \in Rules : resumed'[x] = IF x = r THEN q.today ELSE resumed[x]
      /\ \A x \in Rules : x # r => next'[x] = next[x]
      /\ next'[r] >= q.today
  <2> HIDE DEF new, q, r
  <2>1. next' = IF k = 0 THEN next ELSE [next EXCEPT ![r] = new]
      BY <1>2 DEF new, r
  <2>2. resumed \in [Rules -> Nat] /\ next \in [Rules -> Nat]
      BY DEF IInv, TypeOK
  <2>3. \A x \in Rules : resumed'[x] = IF x = r THEN q.today ELSE resumed[x]
      BY <1>1, <1>4, <2>2
  <2>4. ASSUME k = 0
        PROVE  next' = next /\ next[r] >= q.today
      BY <1>1, <1>3, <2>1, <2>4
  <2>5. ASSUME k # 0
        PROVE  next' = [next EXCEPT ![r] = new]
      BY <2>1, <2>5
  <2>6. next'[r] >= q.today /\ \A x \in Rules : x # r => next'[x] = next[x]
    <3>1. CASE k = 0
        BY <2>4, <3>1
    <3>2. CASE k # 0
        BY <1>1, <1>3, <2>2, <2>5, <3>2
    <3> QED BY <3>1, <3>2
  <2> QED BY <2>3, <2>6
<1>6. OpenIsCurrent'
  <2> SUFFICES ASSUME NEW n \in Members, request'[n] # NoRequest
               PROVE  /\ request'[n].today \in Days
                      /\ request'[n].today <= today'
                      /\ resumed'[request'[n].rule] <= request'[n].today
                      /\ request'[n].row.next >= request'[n].today
                            => next'[request'[n].rule] >= request'[n].today
      BY DEF OpenIsCurrent
  <2> DEFINE o == request[n]
  <2>1. request'[n] = o /\ o # NoRequest /\ o.rule \in Rules
      BY <1>4 DEF IInv, TypeOK, Request
  <2>2. o.rule = r => o.today = q.today
      BY <1>1, <2>1 DEF SameDay
  <2>3. /\ o.today \in Days /\ o.today <= today
        /\ resumed[o.rule] <= o.today
        /\ o.row.next >= o.today => next[o.rule] >= o.today
      BY <2>1 DEF NothingBehind, OpenIsCurrent
  <2> HIDE DEF o, new, q, r
  <2>4. CASE o.rule = r
      BY <1>4, <1>4a, <1>5, <2>1, <2>2, <2>3, <2>4
  <2>5. CASE o.rule # r
      BY <1>4, <1>5, <2>1, <2>3, <2>5
  <2> QED BY <2>4, <2>5
<1>7. \A x \in Rules : resumed'[x] <= next'[x] /\ resumed'[x] <= today'
  <2> HIDE DEF new, q, r
  <2> QED BY <1>1, <1>4, <1>4a, <1>5 DEF NothingBehind
<1> QED BY <1>1, <1>4, <1>5, <1>6, <1>7 DEF NothingBehind

\* The job moves a due date forward, and nobody has its rule open.
LEMMA PostBehind ==
    ASSUME IInv, Once, Undisturbed, NothingBehind, NEW j \in Calls, PostPeriod(j)
    PROVE  /\ NothingBehind'
           /\ \A r \in Rules, d \in Days :
                 posted'[r][d] > posted[r][d] => d >= resumed[r]
<1> DEFINE r == run[j].cur
           d == run[j].seen[r].next
           new == d + run[j].seen[r].period
<1>1. /\ r \in Rules /\ run[j].seen[r] # Expired /\ d \in Nat
      /\ run[j].seen[r].period \in Nat
      /\ \A x \in Rules : next'[x] = IF x = r THEN new ELSE next[x]
      /\ \A x \in Rules, y \in Days :
            posted'[x][y] = IF x = r /\ y = d THEN posted[x][y] + 1 ELSE posted[x][y]
    BY PostFacts
<1>2. UNCHANGED <<created, resumed, request, today>>
    BY DEF PostPeriod, history
<1>3. r \in Working(j)
    BY DEF Working, PostPeriod, Continues
<1>4. d = next[r] /\ new \in Nat /\ new >= d
    BY <1>1, <1>3 DEF Once, SeenIsCurrent
<1>5. \A x \in Rules : resumed[x] \in Nat /\ next[x] \in Nat
    BY DEF IInv, TypeOK
<1>6. \A m \in Members :
         request[m] # NoRequest => request[m].rule \in Rules /\ request[m].rule # r
    BY <1>3 DEF Undisturbed, IInv, TypeOK, Request
<1> HIDE DEF r, d, new
<1>7. \A x \in Rules : resumed'[x] <= next'[x] /\ resumed'[x] <= today'
    BY <1>1, <1>2, <1>4, <1>5 DEF NothingBehind
<1>8. OpenIsCurrent'
    BY <1>1, <1>2, <1>6 DEF NothingBehind, OpenIsCurrent
<1>9. ASSUME NEW x \in Rules, NEW y \in Days, posted'[x][y] > posted[x][y]
      PROVE  y >= resumed[x]
  <2>1. posted[x][y] \in Nat
      BY DEF IInv, TypeOK
  <2>2. x = r /\ y = d
      BY <1>1, <1>9, <2>1
  <2> QED BY <1>4, <2>2 DEF NothingBehind
<1> QED BY <1>2, <1>7, <1>8, <1>9 DEF NothingBehind

\* Every other step posts nothing.
LEMMA StepBehind ==
    ASSUME Undisturbed, SameDay, GuardReaches, IInv, Once, NothingBehind,
           [Next]_vars
    PROVE  /\ NothingBehind'
           /\ posted' # posted =>
                 \A r \in Rules, d \in Days :
                    posted'[r][d] > posted[r][d] => d >= resumed[r]
<1>1. ASSUME NEW r \in Rules, NEW day \in Starts, NEW last \in Ends,
             NEW p \in Periods, CreateRecurring(r, day, last, p)
      PROVE  NothingBehind' /\ posted' = posted
    BY <1>1, CreateBehind DEF CreateRecurring
<1>2. ASSUME NEW r \in Rules, NEW last \in Ends, NEW p \in Periods,
             UpdateRecurring(r, last, p)
      PROVE  NothingBehind' /\ posted' = posted
  <2>1. UNCHANGED <<created, next, resumed, request, posted, today>>
      BY <1>2 DEF UpdateRecurring
  <2> QED BY <2>1, BehindStays
<1>2a. ASSUME NEW r \in Rules, DeactivateRecurring(r)
       PROVE  NothingBehind' /\ posted' = posted
  <2>1. UNCHANGED <<created, next, resumed, request, posted, today>>
      BY <1>2a DEF DeactivateRecurring
  <2> QED BY <2>1, BehindStays
<1>3. ASSUME NEW m \in Members, NEW r \in Rules, StartReactivate(m, r)
      PROVE  NothingBehind' /\ posted' = posted
    BY <1>3, StartBehind DEF StartReactivate
<1>4. ASSUME NEW m \in Members, CommitReactivate(m)
      PROVE  NothingBehind' /\ posted' = posted
    BY <1>4, CommitBehind DEF CommitReactivate
<1>5. ASSUME NEW j \in Calls,
             CallJob(j) \/ PickRule(j) \/ Reload(j) \/ FailRule(j) \/ EndRule(j)
                \/ NextRule(j) \/ FinishJob(j)
      PROVE  NothingBehind' /\ posted' = posted
  <2>1. UNCHANGED <<created, next, resumed, request, posted, today>>
      BY <1>5 DEF CallJob, PickRule, Reload, FailRule, EndRule, NextRule,
                  FinishJob, rows, history
  <2> QED BY <2>1, BehindStays
<1>6. CASE Crash
  <2>1. /\ UNCHANGED <<created, next, resumed, posted, today>>
        /\ \A m \in Members : request'[m] = NoRequest
      BY <1>6 DEF Crash, rows, history
  <2> QED BY <2>1, BehindStays
<1>7. CASE Tick \/ UNCHANGED vars
  <2>1. /\ UNCHANGED <<created, next, resumed, request, posted>>
        /\ today' = today \/ today' = today + 1
      BY <1>7 DEF Tick, vars, rows, history
  <2> QED BY <2>1, BehindStays
<1>8. ASSUME NEW j \in Calls, PostPeriod(j)
      PROVE  /\ NothingBehind'
             /\ \A r \in Rules, d \in Days :
                   posted'[r][d] > posted[r][d] => d >= resumed[r]
    BY <1>8, PostBehind
<1> QED BY <1>1, <1>2, <1>2a, <1>3, <1>4, <1>5, <1>6, <1>7, <1>8
        DEF Next, MemberStep, JobStep

\* A rule that was switched back on posts nothing that fell due while it
\* was off, as long as nobody reactivates a rule that a run has still to
\* handle, and reactivations of one rule that are open together began on the
\* same day.
THEOREM BacklogIsSkipped ==
    ASSUME GuardReaches
    PROVE  Spec /\ []Undisturbed /\ []SameDay => NoBackPosting
<1>1. IInv /\ Once /\ Undisturbed /\ [Next]_vars => Once'
    BY StepOnce
<1>2. IInv /\ Once /\ NothingBehind /\ Undisturbed /\ SameDay /\ [Next]_vars
         => NothingBehind'
    BY StepBehind
<1>3. IInv /\ Once /\ NothingBehind /\ Undisturbed /\ SameDay /\ [Next]_vars =>
         [\A r \in Rules, d \in Days :
             posted'[r][d] > posted[r][d] => d >= resumed[r]]_posted
    BY StepBehind
<1> QED BY <1>1, <1>2, <1>3, InitOnce, InitBehind, InductiveInvariant, PTL
        DEF Spec, NoBackPosting
=============================================================================
