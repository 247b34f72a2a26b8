------------------------- MODULE GrowlioPush_proofs -------------------------
(***************************************************************************)
(* For every household, queue, number of retries and number of server      *)
(* threads: growlio books a movement at most once, a row marked as sent    *)
(* and a save that answered without a warning are in its books, and the    *)
(* outbox implements PushDelivery.                                         *)
(***************************************************************************)
EXTENDS GrowlioPush, FiniteSetTheorems, TLAPS

\* The key identifies the row, so growlio's memory of keys is a memory of
\* rows.
BooksByKey ==
    \A i \in RowIds :
        \/ recorded[i] = 0 /\ ExternalRef(i) \notin refs
        \/ recorded[i] = 1 /\ ExternalRef(i) \in refs

\* What a worker knows of the row it sends, and what it already sent.
Knows(w) ==
    /\ task[w].todo \subseteq Queued /\ task[w].asked \subseteq Queued
    /\ task[w].pc \in {"push", "commit"} => task[w].cur \in Queued
    /\ task[w].pc = "commit" /\ task[w].ok => recorded[task[w].cur] = 1
    /\ ~task[w].failed =>
          \A i \in task[w].asked \ task[w].todo : sent[i]

WorkerKnows == \A w \in Workers : Knows(w)

\* Rows are sent only once they exist.
OnlyQueued ==
    \A i \in RowIds : sent[i] \/ recorded[i] = 1 => i \in Queued

\* A route that warns keeps its promise: what it answered was sent.
AnsweredSent == \A e \in Warning : \A i \in answered[e] : sent[i]

\* The inductive invariant.
IInv ==
    /\ TypeOK
    /\ BooksByKey
    /\ SentMeansRecorded
    /\ WorkerKnows
    /\ OnlyQueued
    /\ AnsweredSent

\* Two rows never share an idempotency key.
LEMMA KeyIdentifiesRow ==
    ASSUME NEW i, NEW j, ExternalRef(i) = ExternalRef(j)
    PROVE  i = j
  BY DEF ExternalRef

\* Idle has the type of a task.
LEMMA IdleType == Idle \in Task
  BY ConstantsAssumption DEF Idle, Task, Edits

\* The initial state satisfies the invariant.
LEMMA InitIInv == Init => IInv
<1> SUFFICES ASSUME Init PROVE IInv
  OBVIOUS
<1>1. TypeOK
  BY IdleType, ConstantsAssumption DEF Init, TypeOK
<1>2. BooksByKey /\ SentMeansRecorded /\ OnlyQueued /\ AnsweredSent
  BY DEF Init, BooksByKey, SentMeansRecorded, OnlyQueued, AnsweredSent,
         Edits, Warning
<1>3. WorkerKnows
  BY DEF Init, WorkerKnows, Knows, Idle
<1> QED
  BY <1>1, <1>2, <1>3 DEF IInv
-----------------------------------------------------------------------------
\* A row read for sending leaves the rest of the worker's locals alone.
LEMMA ReadType ==
    ASSUME TypeOK, NEW t \in Task, NEW i \in RowIds
    PROVE  /\ Read(t, i) \in Task
           /\ Read(t, i).pc = "push" /\ Read(t, i).cur = i
           /\ Read(t, i).todo = t.todo /\ Read(t, i).asked = t.asked
           /\ Read(t, i).failed = t.failed
  BY DEF Read, Task, TypeOK

\* Only facts that grow are shared, so a step that replaces one worker's
\* locals by t leaves every other worker's knowledge true.
LEMMA OneWorkerMoves ==
    ASSUME IInv, NEW w \in Workers, NEW t \in Task,
           task' = [task EXCEPT ![w] = t],
           Queued \subseteq Queued',
           \A i \in RowIds : recorded[i] = 1 => recorded'[i] = 1,
           \A i \in RowIds : sent[i] => sent'[i],
           t.todo \subseteq Queued', t.asked \subseteq Queued',
           t.pc \in {"push", "commit"} => t.cur \in Queued',
           t.pc = "commit" /\ t.ok => recorded'[t.cur] = 1,
           ~t.failed => \A i \in t.asked \ t.todo : sent'[i]
    PROVE  WorkerKnows' /\ task' \in [Workers -> Task]
<1>1. task \in [Workers -> Task] /\ Queued \subseteq RowIds
  BY DEF IInv, TypeOK, Queued
<1>2. task' \in [Workers -> Task] /\ task'[w] = t
  BY <1>1
<1>3. Knows(w)'
  BY <1>2 DEF Knows
<1>4. ASSUME NEW v \in Workers, v # w PROVE Knows(v)'
  <2>1. task'[v] = task[v] /\ task[v] \in Task
    BY <1>1, <1>4
  <2>2. Knows(v)
    BY DEF IInv, WorkerKnows
  <2> QED
    BY <2>1, <2>2, <1>1 DEF Knows, Task
<1> QED
  BY <1>2, <1>3, <1>4 DEF WorkerKnows

\* An edit that queues rows keeps the invariant.
LEMMA StageStep ==
    ASSUME IInv, NEW w \in Workers, NEW u \in Users,
           NEW R \in SUBSET RowIds, NEW edit \in Edits,
           NEW hasToken \in BOOLEAN, StageRows(w, u, R, edit, hasToken)
    PROVE  /\ IInv'
           /\ Queued' = Queued \cup R /\ R # {} /\ R \cap Queued = {}
           /\ UNCHANGED <<recorded, sent>>
<1> DEFINE t == [Idle EXCEPT !.pc = "load", !.edit = edit, !.user = u,
                              !.todo = R, !.asked = R]
<1>1. PICK k \in [R -> RowKinds] :
          kind' = [i \in RowIds |-> IF i \in R THEN k[i] ELSE kind[i]]
  BY DEF StageRows
<1>2. R # {} /\ R \cap Queued = {}
  BY FS_EmptySet DEF StageRows
<1>3. Queued' = Queued \cup R
  BY <1>1, ConstantsAssumption DEF Queued
<1>4. UNCHANGED <<attempts, sent, refs, recorded, answered, faults>>
  BY DEF StageRows, growlio
<1>5. kind' \in [RowIds -> RowKinds \cup {Unstaged}]
  BY <1>1 DEF IInv, TypeOK
<1>6. t \in Task /\ t.todo = R /\ t.asked = R /\ t.pc = "load"
  BY IdleType DEF Idle, Task
<1>7. task' = IF hasToken THEN [task EXCEPT ![w] = t] ELSE task
  BY DEF StageRows
<1> HIDE DEF t
<1>8. WorkerKnows' /\ task' \in [Workers -> Task]
  <2>1. CASE hasToken
    BY <2>1, <1>3, <1>4, <1>6, <1>7, OneWorkerMoves
  <2>2. CASE ~hasToken
    BY <2>2, <1>3, <1>4, <1>7 DEF IInv, TypeOK, WorkerKnows, Knows
  <2> QED
    BY <2>1, <2>2
<1>9. TypeOK'
  BY <1>4, <1>5, <1>8 DEF IInv, TypeOK
<1> QED
  BY <1>2, <1>3, <1>4, <1>8, <1>9
     DEF IInv, BooksByKey, SentMeansRecorded, OnlyQueued, AnsweredSent,
         ExternalRef

\* So does a page load that picks up its batch,
LEMMA FlushStep ==
    ASSUME IInv, NEW w \in Workers, NEW u \in Users, StartFlush(w, u)
    PROVE  IInv' /\ UNCHANGED <<Queued, recorded, sent>>
<1> DEFINE t == [Idle EXCEPT !.mode = "flush", !.user = u, !.todo = Batch(u)]
<1>1. PICK i \in Oldest(Batch(u)) : task' = [task EXCEPT ![w] = Read(t, i)]
  BY DEF StartFlush
<1>2. Batch(u) \subseteq Queued /\ i \in Queued /\ Queued \subseteq RowIds
  BY DEF Batch, Pending, Oldest, Queued
<1>3. t \in Task /\ t.todo = Batch(u) /\ t.asked = {}
  BY <1>2, IdleType DEF Idle, Task
<1>4. UNCHANGED <<Queued, recorded, sent, refs, kind, attempts, answered,
                  faults>>
  BY DEF StartFlush, table, growlio, Queued
<1> HIDE DEF t
<1> DEFINE r == Read(t, i)
<1>5. /\ r \in Task /\ r.pc = "push" /\ r.cur = i
      /\ r.todo = Batch(u) /\ r.asked = {}
  BY <1>2, <1>3, ReadType DEF IInv
<1> HIDE DEF r
<1>6. WorkerKnows' /\ task' \in [Workers -> Task]
  BY <1>1, <1>2, <1>4, <1>5, OneWorkerMoves DEF r
<1>7. TypeOK'
  BY <1>4, <1>6 DEF IInv, TypeOK
<1> QED
  BY <1>4, <1>6, <1>7
     DEF IInv, BooksByKey, SentMeansRecorded, OnlyQueued, AnsweredSent,
         ExternalRef

\* a worker that reads its next row,
LEMMA LoadStep ==
    ASSUME IInv, NEW w \in Workers, LoadRow(w)
    PROVE  IInv' /\ UNCHANGED <<Queued, recorded, sent>>
<1>1. PICK i \in Oldest(task[w].todo) :
          task' = [task EXCEPT ![w] = Read(task[w], i)]
  BY DEF LoadRow
<1>2. task[w] \in Task /\ Knows(w)
  BY DEF IInv, TypeOK, WorkerKnows
<1>3. i \in Queued /\ i \in RowIds
  BY <1>2 DEF Oldest, Knows, Queued
<1>4. UNCHANGED <<Queued, recorded, sent, refs, kind, attempts, answered,
                  faults>>
  BY DEF LoadRow, table, growlio, Queued
<1> DEFINE r == Read(task[w], i)
<1>5. /\ r \in Task /\ r.pc = "push" /\ r.cur = i
      /\ r.todo = task[w].todo /\ r.asked = task[w].asked
      /\ r.failed = task[w].failed
  BY <1>2, <1>3, ReadType DEF IInv
<1>6a. task' = [task EXCEPT ![w] = r]
  BY <1>1
<1> HIDE DEF r
<1>6. WorkerKnows' /\ task' \in [Workers -> Task]
  <2>1. /\ r.todo \subseteq Queued /\ r.asked \subseteq Queued
        /\ ~r.failed => \A j \in r.asked \ r.todo : sent[j]
    BY <1>2, <1>5 DEF Knows
  <2> QED
    BY <2>1, <1>3, <1>4, <1>5, <1>6a, OneWorkerMoves
<1>7. TypeOK'
  BY <1>4, <1>6 DEF IInv, TypeOK
<1> QED
  BY <1>4, <1>6, <1>7
     DEF IInv, BooksByKey, SentMeansRecorded, OnlyQueued, AnsweredSent,
         ExternalRef

\* a call to growlio, whatever becomes of its answer,
LEMMA AnswerStep ==
    ASSUME IInv, NEW w \in Workers, Push(w)
    PROVE  /\ IInv' /\ UNCHANGED <<Queued, sent>>
           /\ \/ UNCHANGED recorded
              \/ \E i \in Queued : /\ recorded[i] = 0
                                   /\ recorded' = [recorded EXCEPT ![i] = 1]
<1> DEFINE i == task[w].cur
           t(b) == [task[w] EXCEPT !.pc = "commit", !.ok = b]
           Outcome(b) == /\ Answer(w, b)
                         /\ b => GrowlioRecords(i)
                         /\ GrowlioRecords(i) \/ UNCHANGED growlio
                         /\ faults' \in 0..MaxFaults
<1>1. PICK b \in BOOLEAN : Outcome(b)
  <2>0. faults \in 0..MaxFaults /\ MaxFaults \in Nat
    BY ConstantsAssumption DEF IInv, TypeOK
  <2>1. CASE PushAccepted(w)
    <3>1. Outcome(TRUE)
      BY <2>0, <2>1 DEF PushAccepted
    <3> QED
      BY <3>1
  <2>2. CASE PushAnswerLost(w) \/ PushUnreachable(w) \/ PushRejected(w)
    <3>a. Answer(w, FALSE) /\ (GrowlioRecords(i) \/ UNCHANGED growlio)
      BY <2>2 DEF PushAnswerLost, PushUnreachable, PushRejected
    <3>b. \/ faults < MaxFaults /\ faults' = faults + 1
          \/ faults' = faults
      BY <2>2 DEF PushAnswerLost, PushUnreachable, PushRejected
    <3>c. faults' \in 0..MaxFaults
      BY <2>0, <3>b
    <3>1. Outcome(FALSE)
      BY <3>a, <3>c
    <3> QED
      BY <3>1
  <2> QED
    BY <2>1, <2>2 DEF Push
<1>2. /\ task[w] \in Task /\ Knows(w) /\ task[w].pc = "push"
      /\ i \in Queued /\ i \in RowIds
  BY <1>1 DEF Answer, IInv, TypeOK, WorkerKnows, Knows, Queued
<1>3. UNCHANGED <<Queued, kind, attempts, sent, answered>>
  BY <1>1 DEF Answer, table, Queued
<1>4. /\ t(b) \in Task /\ t(b).todo = task[w].todo /\ t(b).cur = i
      /\ t(b).asked = task[w].asked /\ t(b).failed = task[w].failed
      /\ t(b).pc = "commit" /\ t(b).ok = b
  BY <1>2 DEF Task
<1>5. task' = [task EXCEPT ![w] = t(b)]
  BY <1>1, <1>2 DEF Answer, IInv, TypeOK
<1>6. /\ recorded' \in [RowIds -> Nat]
      /\ BooksByKey'
      /\ b => recorded'[i] = 1
      /\ \A j \in RowIds : recorded[j] = 1 => recorded'[j] = 1
      /\ \/ UNCHANGED recorded
         \/ recorded[i] = 0 /\ recorded' = [recorded EXCEPT ![i] = 1]
  <2>1. CASE GrowlioRecords(i)
    <3>1. /\ recorded \in [RowIds -> Nat] /\ BooksByKey
          /\ refs' = refs \cup {ExternalRef(i)}
          /\ recorded' = IF ExternalRef(i) \in refs THEN recorded
                         ELSE [recorded EXCEPT ![i] = @ + 1]
      BY <2>1 DEF GrowlioRecords, IInv, TypeOK
    <3>2. recorded[i] \in {0, 1} /\ (recorded[i] = 1 <=> ExternalRef(i) \in refs)
      BY <3>1, <1>2 DEF BooksByKey
    <3>3. /\ recorded' \in [RowIds -> Nat] /\ recorded'[i] = 1
          /\ \A j \in RowIds \ {i} : recorded'[j] = recorded[j]
          /\ \/ UNCHANGED recorded
             \/ recorded[i] = 0 /\ recorded' = [recorded EXCEPT ![i] = 1]
      <4> HIDE DEF i
      <4>1. CASE ExternalRef(i) \in refs
        BY <4>1, <3>1, <3>2
      <4>2. CASE ExternalRef(i) \notin refs
        <5>a. recorded[i] = 0
          BY <4>2, <3>2
        <5>b. recorded' = [recorded EXCEPT ![i] = recorded[i] + 1]
          BY <4>2, <3>1
        <5>1. recorded[i] = 0 /\ recorded' = [recorded EXCEPT ![i] = 1]
          BY <5>a, <5>b
        <5> QED
          BY <5>1, <3>1, <1>2
      <4> QED
        BY <4>1, <4>2
    <3>4. BooksByKey'
      <4> SUFFICES ASSUME NEW j \in RowIds
                   PROVE  BooksByKey!(j)'
        BY DEF BooksByKey
      <4>1. CASE j = i
        BY <4>1, <3>1, <3>3 DEF ExternalRef
      <4>2. CASE j # i
        <5>1. ExternalRef(j) # ExternalRef(i)
          BY <4>2, KeyIdentifiesRow
        <5>2. ExternalRef(j) \in refs' <=> ExternalRef(j) \in refs
          BY <5>1, <3>1
        <5> QED
          BY <4>2, <5>2, <3>1, <3>3 DEF BooksByKey, ExternalRef
      <4> QED
        BY <4>1, <4>2
    <3> QED
      BY <3>3, <3>4
  <2>2. CASE UNCHANGED growlio /\ ~b
    BY <2>2 DEF growlio, IInv, TypeOK, BooksByKey, ExternalRef
  <2> QED
    BY <1>1, <2>1, <2>2
<1> HIDE DEF i, t
<1>7. WorkerKnows' /\ task' \in [Workers -> Task]
  <2>1. /\ t(b).todo \subseteq Queued /\ t(b).asked \subseteq Queued
        /\ ~t(b).failed => \A j \in t(b).asked \ t(b).todo : sent[j]
    BY <1>2, <1>4 DEF Knows
  <2> QED
    BY <2>1, <1>2, <1>3, <1>4, <1>5, <1>6, OneWorkerMoves
<1>8. TypeOK'
  BY <1>1, <1>3, <1>6, <1>7 DEF IInv, TypeOK
<1> QED
  BY <1>2, <1>3, <1>6, <1>7, <1>8
     DEF IInv, TypeOK, SentMeansRecorded, OnlyQueued, AnsweredSent

\* the commit after a success,
LEMMA CommitSentStep ==
    ASSUME IInv, NEW w \in Workers, CommitSent(w)
    PROVE  /\ IInv' /\ UNCHANGED <<Queued, recorded>>
           /\ \E i \in RowIds : /\ recorded[i] = 1
                               /\ sent' = [sent EXCEPT ![i] = TRUE]
<1> DEFINE i == task[w].cur
           t == [task[w] EXCEPT !.pc = "load", !.todo = @ \ {i}]
<1>1. /\ task[w] \in Task /\ Knows(w) /\ i \in Queued /\ i \in RowIds
      /\ recorded[i] = 1
  BY DEF CommitSent, IInv, TypeOK, WorkerKnows, Knows, Queued
<1>2. UNCHANGED <<Queued, kind, attempts, recorded, refs, answered, faults>>
  BY DEF CommitSent, growlio, Queued
<1>3. sent' = [sent EXCEPT ![i] = TRUE] /\ task' = [task EXCEPT ![w] = t]
  BY DEF CommitSent, IInv, TypeOK
<1>4. /\ t \in Task /\ t.pc = "load" /\ t.todo = task[w].todo \ {i}
      /\ t.asked = task[w].asked /\ t.failed = task[w].failed
  BY <1>1 DEF Task
<1> HIDE DEF i, t
<1>5. WorkerKnows' /\ task' \in [Workers -> Task]
  <2>1. /\ t.todo \subseteq Queued /\ t.asked \subseteq Queued
        /\ \A j \in RowIds : sent[j] => sent'[j]
        /\ ~t.failed => \A j \in t.asked \ t.todo : sent'[j]
    BY <1>1, <1>3, <1>4 DEF Knows, IInv, TypeOK, Task
  <2> QED
    BY <2>1, <1>2, <1>3, <1>4, OneWorkerMoves
<1>6. TypeOK' /\ SentMeansRecorded' /\ OnlyQueued' /\ AnsweredSent'
  BY <1>1, <1>2, <1>3, <1>5
     DEF IInv, TypeOK, SentMeansRecorded, OnlyQueued, AnsweredSent
<1> QED
  BY <1>1, <1>2, <1>3, <1>5, <1>6 DEF IInv, BooksByKey, ExternalRef

\* the commit after a failure,
LEMMA CommitFailureStep ==
    ASSUME IInv, NEW w \in Workers, CommitFailure(w)
    PROVE  IInv' /\ UNCHANGED <<Queued, recorded, sent>>
<1> DEFINE i == task[w].cur
           rest == IF task[w].mode = "flush" THEN {} ELSE task[w].todo \ {i}
           t == [task[w] EXCEPT !.pc = "load", !.failed = TRUE, !.todo = rest]
<1>1. /\ task[w] \in Task /\ Knows(w) /\ i \in RowIds
      /\ task[w].seen \in Nat
  BY DEF CommitFailure, IInv, TypeOK, WorkerKnows, Knows, Queued, Task
<1>2. UNCHANGED <<Queued, kind, sent, recorded, refs, answered, faults>>
  BY DEF CommitFailure, growlio, Queued
<1>3. task' = [task EXCEPT ![w] = t]
  BY DEF CommitFailure, IInv, TypeOK
<1>4. /\ t \in Task /\ t.pc = "load" /\ t.todo \subseteq task[w].todo
      /\ t.asked = task[w].asked /\ t.failed
  BY <1>1 DEF Task
<1>5. attempts' \in [RowIds -> Nat]
  BY <1>1 DEF CommitFailure, IInv, TypeOK
<1> HIDE DEF i, t
<1>6. WorkerKnows' /\ task' \in [Workers -> Task]
  <2>1. t.todo \subseteq Queued /\ t.asked \subseteq Queued
    BY <1>1, <1>4 DEF Knows
  <2> QED
    BY <2>1, <1>2, <1>3, <1>4, OneWorkerMoves
<1>7. TypeOK'
  BY <1>2, <1>5, <1>6 DEF IInv, TypeOK
<1> QED
  BY <1>2, <1>6, <1>7
     DEF IInv, BooksByKey, SentMeansRecorded, OnlyQueued, AnsweredSent,
         ExternalRef

\* Finish and Crash both leave an idle worker.
LEMMA EndStep ==
    ASSUME IInv, NEW w \in Workers, Finish(w) \/ Crash(w)
    PROVE  IInv' /\ UNCHANGED <<Queued, recorded, sent>>
<1>1. UNCHANGED <<Queued, kind, attempts, sent, recorded, refs>>
  BY DEF Finish, Crash, table, growlio, Queued
<1>2. task' = [task EXCEPT ![w] = Idle] /\ Idle \in Task
  BY IdleType DEF Finish, Crash
<1>3. Idle.todo = {} /\ Idle.asked = {} /\ Idle.pc = "idle"
  BY DEF Idle
<1>4. WorkerKnows' /\ task' \in [Workers -> Task]
  BY <1>1, <1>2, <1>3, OneWorkerMoves
<1>5. faults' \in 0..MaxFaults
  BY ConstantsAssumption DEF Finish, Crash, IInv, TypeOK
<1>6. answered' \in [Edits -> SUBSET RowIds] /\ AnsweredSent'
  <2>1. Knows(w) /\ task[w] \in Task
    BY DEF IInv, WorkerKnows, TypeOK
  <2>2. /\ task[w].todo = {} /\ ~task[w].failed =>
              \A i \in task[w].asked : sent[i]
        /\ task[w].asked \in SUBSET RowIds /\ task[w].edit \in Edits
    BY <2>1 DEF Knows, Task
  <2>3. answered \in [Edits -> SUBSET RowIds] /\ AnsweredSent
    BY DEF IInv, TypeOK
  <2>4. CASE answered' = answered
    BY <2>3, <2>4, <1>1 DEF AnsweredSent
  <2>5. CASE /\ task[w].todo = {} /\ ~Warns(task[w])
             /\ answered' = [answered EXCEPT
                               ![task[w].edit] = @ \cup task[w].asked]
    BY <2>2, <2>3, <2>5, <1>1 DEF AnsweredSent, Warns
  <2> QED
    BY <2>4, <2>5 DEF Finish, Crash
<1> QED
  BY <1>1, <1>4, <1>5, <1>6
     DEF IInv, TypeOK, BooksByKey, SentMeansRecorded, OnlyQueued, ExternalRef
-----------------------------------------------------------------------------
\* and every step of the outbox.
LEMMA StepIInv == IInv /\ [Next]_vars => IInv'
<1> SUFFICES ASSUME IInv, [Next]_vars PROVE IInv'
  OBVIOUS
<1>1. CASE Next
  <2>1. PICK w \in Workers :
          \/ \E u \in Users, R \in SUBSET RowIds,
                edit \in Edits, hasToken \in BOOLEAN :
                StageRows(w, u, R, edit, hasToken)
          \/ \E u \in Users : StartFlush(w, u)
          \/ Sends(w)
          \/ Crash(w)
    BY <1>1 DEF Next
  <2> QED
    BY <2>1, StageStep, FlushStep, LoadStep, AnswerStep, CommitSentStep,
       CommitFailureStep, EndStep DEF Sends
<1>2. CASE UNCHANGED vars
  BY <1>2 DEF vars, table, growlio, IInv, TypeOK, BooksByKey, ExternalRef,
              SentMeansRecorded, WorkerKnows, Knows, OnlyQueued, AnsweredSent,
              Queued
<1> QED
  BY <1>1, <1>2

\* The invariant the safety theorems follow from.
THEOREM InductiveInvariant == Spec => []IInv
  BY InitIInv, StepIInv, PTL DEF Spec

\* The table, growlio's books and the workers' locals keep their types.
THEOREM TypeCorrect == Spec => []TypeOK
<1>1. IInv => TypeOK
  BY DEF IInv
<1> QED
  BY <1>1, InductiveInvariant, PTL

\* growlio books a movement at most once, whatever is re-sent.
THEOREM BookedAtMostOnce == Spec => []AtMostOnce
<1>1. IInv => AtMostOnce
  BY DEF IInv, BooksByKey, AtMostOnce
<1> QED
  BY <1>1, InductiveInvariant, PTL

\* sent_at is filled only for a movement that growlio has booked.
THEOREM SentIsRecorded == Spec => []SentMeansRecorded
<1>1. IInv => SentMeansRecorded
  BY DEF IInv
<1> QED
  BY <1>1, InductiveInvariant, PTL

\* A save (a create or an update) that answers without a warning lost
\* nothing.  Not so a delete: its routes never set the header.
THEOREM WarningIsHonest == Spec => []NoSilentLoss
<1>1. IInv => NoSilentLoss
  BY DEF IInv, TypeOK, AnsweredSent, SentMeansRecorded, NoSilentLoss,
         Edits, Warning
<1> QED
  BY <1>1, InductiveInvariant, PTL
-----------------------------------------------------------------------------
\* The initial state is one of the abstract promise.
LEMMA InitDelivery == Init => Delivery!Init
  BY DEF Init, Delivery!Init, Queued

\* Every step is one of the abstract promise, or none of its business.
LEMMA StepDelivery == IInv /\ [Next]_vars => [Delivery!Next]_(Delivery!vars)
<1> SUFFICES ASSUME IInv, [Next]_vars
             PROVE  Delivery!Next \/ UNCHANGED Delivery!vars
  OBVIOUS
<1> USE DEF Delivery!vars
<1>1. ASSUME UNCHANGED <<Queued, recorded, sent>>
      PROVE  UNCHANGED Delivery!vars
  BY <1>1
<1>2. ASSUME NEW w \in Workers, NEW u \in Users, NEW R \in SUBSET RowIds,
             NEW edit \in Edits, NEW hasToken \in BOOLEAN,
             StageRows(w, u, R, edit, hasToken)
      PROVE  Delivery!Next
  <2>1. Delivery!Queue(R)
    BY <1>2, StageStep DEF Delivery!Queue
  <2> QED
    BY <2>1 DEF Delivery!Next
<1>3. ASSUME NEW w \in Workers, Push(w)
      PROVE  Delivery!Next \/ UNCHANGED Delivery!vars
  <2>1. CASE UNCHANGED recorded
    BY <2>1, <1>3, AnswerStep
  <2>2. ASSUME NEW i \in Queued, recorded[i] = 0,
               recorded' = [recorded EXCEPT ![i] = 1]
        PROVE  Delivery!Next
    <3>1. Delivery!Apply(i)
      BY <2>2, <1>3, AnswerStep DEF Delivery!Apply
    <3> QED
      BY <3>1 DEF Delivery!Next, Queued
  <2> QED
    BY <1>3, <2>1, <2>2, AnswerStep
<1>4. ASSUME NEW w \in Workers, CommitSent(w)
      PROVE  Delivery!Next \/ UNCHANGED Delivery!vars
  <2>1. PICK i \in RowIds :
          recorded[i] = 1 /\ sent' = [sent EXCEPT ![i] = TRUE]
    BY <1>4, CommitSentStep
  <2>2. UNCHANGED <<Queued, recorded>> /\ sent \in [RowIds -> BOOLEAN]
    BY <1>4, CommitSentStep DEF IInv, TypeOK
  <2>3. CASE sent[i]
    <3>1. sent' = sent
      BY <2>1, <2>2, <2>3
    <3> QED
      BY <2>2, <3>1
  <2>4. CASE ~sent[i]
    <3>1. {j \in RowIds : sent'[j]} = {j \in RowIds : sent[j]} \cup {i}
      BY <2>1, <2>2
    <3>2. Delivery!Confirm(i)
      BY <2>1, <2>2, <2>4, <3>1 DEF Delivery!Confirm
    <3> QED
      BY <3>2 DEF Delivery!Next
  <2> QED
    BY <2>3, <2>4
<1>5. CASE Next
  <2>1. PICK w \in Workers :
          \/ \E u \in Users, R \in SUBSET RowIds,
                edit \in Edits, hasToken \in BOOLEAN :
                StageRows(w, u, R, edit, hasToken)
          \/ \E u \in Users : StartFlush(w, u)
          \/ Sends(w)
          \/ Crash(w)
    BY <1>5 DEF Next
  <2>2. CASE (\E u \in Users : StartFlush(w, u)) \/ LoadRow(w)
             \/ CommitFailure(w) \/ Finish(w) \/ Crash(w)
    BY <2>2, <1>1, FlushStep, LoadStep, CommitFailureStep, EndStep
  <2> QED
    BY <2>1, <2>2, <1>2, <1>3, <1>4 DEF Sends
<1>6. CASE UNCHANGED vars
  BY <1>6, <1>1 DEF vars, table, growlio, Queued
<1> QED
  BY <1>5, <1>6

\* Every behaviour of the outbox, with its crashes, lost answers and
\* overlapping sends, is a behaviour of the abstract delivery.
THEOREM OutboxDelivers == Spec => ImplementsDelivery
  BY InitDelivery, StepDelivery, InductiveInvariant, PTL
     DEF Spec, ImplementsDelivery, Delivery!Spec
-----------------------------------------------------------------------------
\* Why a row its page loads can send is never given up: growlio refuses it
\* at most once, in the request that queued it (its member may have edited
\* the partner's product); every other failure is a fault.

\* The products are linked to accounts of their owner, or to closed ones.
OwnersHold ==
    \A k \in RowKinds : Holder[k.account] \in {k.owner, NoHolder}

\* Rows growlio accepts from their owner.
Open ==
    {i \in Queued : /\ kind[i].owner \in Users
                    /\ Holder[kind[i].account] = kind[i].owner}

\* The first try of row i, in the request of worker w, is still to come.
Waits(w, i) ==
    /\ task[w].mode = "request" /\ i \in task[w].todo
    /\ ~(task[w].pc = "commit" /\ task[w].cur = i)

FirstTry(i) == \E w \in Workers : Waits(w, i)

\* What can have gone wrong with row i so far.
Spent(i) == IF FirstTry(i) THEN faults ELSE faults + 1

\* Each failure counted, or about to be, was one of those.
CountedRow(i) == attempts[i] <= Spent(i)

CountedBy(w) ==
    task[w].cur \in Open =>
        /\ task[w].pc = "push" => task[w].seen <= Spent(task[w].cur)
        /\ task[w].pc = "commit" /\ ~task[w].ok =>
              task[w].seen + 1 <= Spent(task[w].cur)

\* Whose rows a worker holds: a request those it queued, a flush its user's.
Holds(w) ==
    /\ task[w].pc = "idle" => task[w] = Idle
    /\ task[w].pc \in {"push", "commit"} => task[w].cur \in task[w].todo
    /\ task[w].mode = "request" => task[w].todo \subseteq task[w].asked
    /\ task[w].mode = "flush" =>
          \A i \in task[w].todo : kind[i].owner \in {NoOwner, task[w].user}

Counted ==
    /\ \A i \in RowIds \ Queued : attempts[i] = 0
    /\ \A i \in Open : CountedRow(i)
    /\ \A w \in Workers : CountedBy(w) /\ Holds(w)
    /\ \A v, w \in Workers : v # w => task[v].asked \cap task[w].asked = {}

\* An idle worker waits for nothing and holds no row.
LEMMA InitCounted == Init => Counted
<1> SUFFICES ASSUME Init PROVE Counted
  OBVIOUS
<1>1. Queued = {} /\ Open = {}
  BY DEF Init, Queued, Open
<1> QED
  BY <1>1 DEF Init, Counted, CountedRow, CountedBy, Holds, Idle

\* Fewer first tries to come and more faults: more can have gone wrong.
LEMMA SpentGrows ==
    ASSUME IInv, IInv', NEW w \in Workers, NEW t \in Task, NEW i \in RowIds,
           task' = [task EXCEPT ![w] = t], faults <= faults',
           Waits(w, i)' => Waits(w, i)
    PROVE  Spent(i) \in Nat /\ Spent(i)' \in Nat /\ Spent(i) <= Spent(i)'
<1>1. faults \in Nat /\ faults' \in Nat /\ task \in [Workers -> Task]
  BY ConstantsAssumption DEF IInv, TypeOK
<1>2. FirstTry(i)' => FirstTry(i)
  <2> SUFFICES ASSUME NEW v \in Workers, Waits(v, i)' PROVE Waits(v, i)
    BY DEF FirstTry
  <2>1. CASE v # w
    BY <2>1, <1>1 DEF Waits
  <2> QED
    BY <2>1
<1>3. /\ FirstTry(i) => Spent(i) = faults
      /\ ~FirstTry(i) => Spent(i) = faults + 1
  BY DEF Spent
<1>4. /\ FirstTry(i)' => Spent(i)' = faults'
      /\ ~FirstTry(i)' => Spent(i)' = faults' + 1
  BY DEF Spent
<1> QED
  BY <1>1, <1>2, <1>3, <1>4

\* A step of one worker that adds no first try to the rows there are leaves
\* what is counted of the other workers true.
LEMMA OthersCounted ==
    ASSUME IInv, IInv', Counted, NEW w \in Workers, NEW t \in Task,
           task' = [task EXCEPT ![w] = t], Queued \subseteq Queued',
           \A i \in Queued : kind'[i] = kind[i], faults <= faults',
           \A i \in Queued : Waits(w, i)' => Waits(w, i),
           t.asked \subseteq task[w].asked \/ t.asked \cap Queued = {}
    PROVE  /\ Open' \cap Queued = Open
           /\ \A i \in Open : /\ Spent(i) \in Nat /\ Spent(i)' \in Nat
                             /\ Spent(i) <= Spent(i)'
           /\ \A v \in Workers \ {w} : CountedBy(v)' /\ Holds(v)'
           /\ \A u, v \in Workers :
                 u # v => task'[u].asked \cap task'[v].asked = {}
<1>1. task \in [Workers -> Task] /\ Queued \subseteq RowIds /\ task'[w] = t
  BY DEF IInv, TypeOK, Queued
<1>2. Open' \cap Queued = Open
  BY DEF Open
<1>3. \A i \in Open : /\ Spent(i) \in Nat /\ Spent(i)' \in Nat
                      /\ Spent(i) <= Spent(i)'
  BY <1>1, SpentGrows DEF Open
<1>4. ASSUME NEW v \in Workers, v # w PROVE CountedBy(v)' /\ Holds(v)'
  <2>1. task'[v] = task[v] /\ task[v] \in Task
    BY <1>1, <1>4
  <2>2. Knows(v) /\ CountedBy(v) /\ Holds(v)
    BY DEF IInv, WorkerKnows, Counted
  <2>3. Holds(v)'
    BY <2>1, <2>2 DEF Holds, Knows
  <2>4. CountedBy(v)'
    <3> SUFFICES ASSUME task[v].cur \in Open', task[v].pc \in {"push", "commit"}
                 PROVE  CountedBy(v)'
      BY <2>1 DEF CountedBy
    <3>1. task[v].cur \in Open
      BY <2>2, <1>2 DEF Knows
    <3>2. /\ task[v].seen \in Nat /\ Spent(task[v].cur) \in Nat
          /\ Spent(task[v].cur)' \in Nat
          /\ Spent(task[v].cur) <= Spent(task[v].cur)'
      BY <2>1, <3>1, <1>3 DEF Task
    <3> QED
      BY <2>1, <2>2, <3>1, <3>2 DEF CountedBy
  <2> QED
    BY <2>3, <2>4
<1>5. ASSUME NEW u \in Workers, NEW v \in Workers, u # v
      PROVE  task'[u].asked \cap task'[v].asked = {}
  <2>1. /\ task[u].asked \cap task[v].asked = {}
        /\ task[u].asked \subseteq Queued /\ task[v].asked \subseteq Queued
    BY <1>5 DEF Counted, IInv, WorkerKnows, Knows
  <2> QED
    BY <2>1, <1>1, <1>5
<1> QED
  BY <1>2, <1>3, <1>4, <1>5

\* The rows an edit queues have failed never.
LEMMA StageCounted ==
    ASSUME IInv, IInv', Counted, NEW w \in Workers, NEW u \in Users,
           NEW R \in SUBSET RowIds, NEW edit \in Edits,
           NEW hasToken \in BOOLEAN, StageRows(w, u, R, edit, hasToken)
    PROVE  Counted'
<1> DEFINE t == IF hasToken
                THEN [Idle EXCEPT !.pc = "load", !.edit = edit, !.user = u,
                                  !.todo = R, !.asked = R]
                ELSE Idle
<1>1. /\ task \in [Workers -> Task] /\ task[w] = Idle
      /\ attempts' = attempts /\ faults' = faults
  BY DEF StageRows, IInv, TypeOK
<1>2. /\ t \in Task /\ t.todo \subseteq R /\ t.asked = t.todo
      /\ t.pc \in {"idle", "load"} /\ t.mode = "request"
      /\ t.pc = "idle" => t = Idle
  BY IdleType DEF Idle, Task
<1>3. task' = [task EXCEPT ![w] = t]
  <2>1. CASE hasToken
    BY <2>1 DEF StageRows
  <2>2. CASE ~hasToken
    <3>1. task' = task /\ t = Idle
      BY <2>2 DEF StageRows
    <3> QED
      BY <3>1, <1>1
  <2> QED
    BY <2>1, <2>2
<1> HIDE DEF t
<1>4. Queued' = Queued \cup R /\ R \cap Queued = {}
  BY StageStep
<1>5. \A i \in Queued : kind'[i] = kind[i]
  BY <1>4 DEF StageRows, Queued
<1>6. task'[w] = t
  BY <1>1, <1>3
<1>7. \A i \in Queued : ~Waits(w, i)'
  BY <1>2, <1>4, <1>6 DEF Waits
<1>8. Holds(w)' /\ CountedBy(w)'
  BY <1>2, <1>6 DEF Holds, CountedBy
<1>9. faults \in Nat /\ t.asked \cap Queued = {}
  BY <1>2, <1>4, ConstantsAssumption DEF IInv, TypeOK
<1>9a. faults <= faults'
  BY <1>1, <1>9
<1>10. /\ Open' \cap Queued = Open
       /\ \A i \in Open : /\ Spent(i) \in Nat /\ Spent(i)' \in Nat
                        /\ Spent(i) <= Spent(i)'
       /\ \A v \in Workers \ {w} : CountedBy(v)' /\ Holds(v)'
       /\ \A v, x \in Workers :
             v # x => task'[v].asked \cap task'[x].asked = {}
  BY <1>2, <1>3, <1>4, <1>5, <1>7, <1>9, <1>9a, OthersCounted
<1>11. ASSUME NEW i \in Open' PROVE CountedRow(i)'
  <2>1. i \in RowIds /\ attempts[i] \in Nat /\ Spent(i)' \in Nat
    <3>1. i \in RowIds /\ attempts[i] \in Nat
      BY <1>1 DEF Open, Queued, IInv, TypeOK
    <3>2. Spent(i)' = faults' \/ Spent(i)' = faults' + 1
      BY DEF Spent
    <3> QED
      BY <3>1, <3>2, <1>1, <1>9
  <2>2. CASE i \in Queued
    BY <2>1, <2>2, <1>1, <1>10 DEF CountedRow, Counted
  <2>3. CASE i \notin Queued
    BY <2>1, <2>3, <1>1 DEF CountedRow, Counted
  <2> QED
    BY <2>2, <2>3
<1>12. \A i \in RowIds \ Queued' : attempts'[i] = 0
  BY <1>1, <1>4 DEF Counted
<1> QED
  BY <1>8, <1>10, <1>11, <1>12 DEF Counted

\* A worker that reads a row sees what was counted.
LEMMA ReadCounted ==
    ASSUME IInv, IInv', Counted, NEW w \in Workers,
           (\E u \in Users : StartFlush(w, u)) \/ LoadRow(w)
    PROVE  Counted'
<1>1a. UNCHANGED <<kind, attempts, faults>>
  BY DEF StartFlush, LoadRow, table
<1>1. /\ task \in [Workers -> Task] /\ UNCHANGED <<kind, attempts, faults>>
      /\ faults \in Nat /\ Queued \subseteq RowIds
  BY <1>1a, ConstantsAssumption DEF IInv, TypeOK, Queued
<1>1b. faults <= faults'
  BY <1>1
<1>2. PICK s \in Task, i \in Queued :
          /\ task' = [task EXCEPT ![w] = Read(s, i)] /\ i \in s.todo
          /\ \/ /\ s.mode = "flush" /\ s.asked = {} /\ task[w] = Idle
                /\ \A j \in s.todo : kind[j].owner \in {NoOwner, s.user}
             \/ s = task[w] /\ task[w].pc = "load"
  <2>1. CASE \E u \in Users : StartFlush(w, u)
    <3> PICK u \in Users : StartFlush(w, u)
      BY <2>1
    <3> DEFINE b == [Idle EXCEPT !.mode = "flush", !.user = u,
                                 !.todo = Batch(u)]
    <3>1. PICK i \in Oldest(Batch(u)) : task' = [task EXCEPT ![w] = Read(b, i)]
      BY DEF StartFlush
    <3>2. Batch(u) \subseteq Queued /\ i \in Batch(u)
      BY DEF Batch, Pending, Oldest
    <3>3. /\ b \in Task /\ b.mode = "flush" /\ b.asked = {}
          /\ b.todo = Batch(u) /\ b.user = u
      BY <3>2, <1>1, IdleType DEF Idle, Task
    <3>4. \A j \in Batch(u) : kind[j].owner \in {NoOwner, u}
      BY DEF Batch, Pending
    <3>5. task[w] = Idle
      BY DEF StartFlush
    <3> HIDE DEF b
    <3> QED
      BY <3>1, <3>2, <3>3, <3>4, <3>5
  <2>2. CASE LoadRow(w)
    <3>1. PICK i \in Oldest(task[w].todo) :
              task' = [task EXCEPT ![w] = Read(task[w], i)]
      BY <2>2 DEF LoadRow
    <3>2. task[w].todo \subseteq Queued /\ i \in task[w].todo
      BY DEF Oldest, IInv, WorkerKnows, Knows
    <3>3. task[w].pc = "load" /\ task[w] \in Task
      BY <2>2, <1>1 DEF LoadRow
    <3> QED
      BY <3>1, <3>2, <3>3
  <2> QED
    BY <2>1, <2>2
<1> DEFINE t == Read(s, i)
<1>3. /\ t \in Task /\ t.pc = "push" /\ t.cur = i /\ t.seen = attempts[i]
      /\ t.todo = s.todo /\ t.asked = s.asked /\ t.mode = s.mode
      /\ t.user = s.user
  BY <1>1, <1>2, ReadType DEF IInv, TypeOK, Read, Task
<1>4. task' = [task EXCEPT ![w] = t]
  BY <1>2
<1> HIDE DEF t
<1>5. task'[w] = t /\ UNCHANGED <<Queued, Open>>
  BY <1>1, <1>4 DEF Queued, Open
<1>6. Idle.mode = "request" /\ Idle.asked = {}
  BY DEF Idle
<1>7. \A j \in Queued : Waits(w, j)' => Waits(w, j)
  BY <1>2, <1>3, <1>5 DEF Waits
<1>8. Holds(w)'
  <2>1. Holds(w)
    BY DEF Counted
  <2> QED
    BY <2>1, <1>1, <1>2, <1>3, <1>5 DEF Holds
<1>9. t.asked \subseteq task[w].asked \/ t.asked \cap Queued = {}
  BY <1>2, <1>3
<1>10. /\ \A j \in Open : /\ Spent(j) \in Nat /\ Spent(j)' \in Nat
                        /\ Spent(j) <= Spent(j)'
       /\ \A v \in Workers \ {w} : CountedBy(v)' /\ Holds(v)'
       /\ \A v, x \in Workers :
             v # x => task'[v].asked \cap task'[x].asked = {}
  BY <1>1, <1>3, <1>4, <1>5, <1>7, <1>9, <1>1b, OthersCounted
<1>11. ASSUME NEW j \in Open PROVE CountedRow(j)' /\ attempts[j] <= Spent(j)'
  <2>1. attempts[j] \in Nat /\ attempts[j] <= Spent(j)
    BY <1>1 DEF Open, Queued, IInv, TypeOK, Counted, CountedRow
  <2> QED
    BY <2>1, <1>1, <1>10 DEF CountedRow
<1>12. CountedBy(w)'
  BY <1>3, <1>5, <1>11 DEF CountedBy
<1> QED
  BY <1>1, <1>5, <1>8, <1>10, <1>11, <1>12 DEF Counted

\* A call that fails: growlio was not reached, or this was the first try of
\* a row its request cannot send.
LEMMA AnswerCounted ==
    ASSUME OwnersHold, IInv, IInv', Counted, NEW w \in Workers, Push(w)
    PROVE  Counted'
<1>0. PICK b \in BOOLEAN : Answer(w, b)
  BY DEF Push, PushAccepted, PushAnswerLost, PushUnreachable, PushRejected
<1>a. PICK i : i = task[w].cur
  OBVIOUS
<1> DEFINE t == [task[w] EXCEPT !.pc = "commit", !.ok = b]
<1>1. /\ task \in [Workers -> Task] /\ UNCHANGED <<kind, attempts>>
      /\ faults \in Nat /\ faults' \in Nat /\ Queued \subseteq RowIds
      /\ task[w] \in Task /\ task[w].pc = "push"
  BY <1>0, ConstantsAssumption DEF Answer, table, IInv, TypeOK, Queued
<1>2. faults <= faults'
  <2>1. faults' = faults \/ faults' = faults + 1
    BY DEF Push, PushAccepted, PushAnswerLost, PushUnreachable,
           PushRejected
  <2> QED
    BY <2>1, <1>1
<1>3. /\ t \in Task /\ t.pc = "commit" /\ t.cur = i /\ t.ok = b
      /\ t.seen = task[w].seen /\ t.todo = task[w].todo
      /\ t.asked = task[w].asked /\ t.mode = task[w].mode
      /\ t.user = task[w].user
  BY <1>1, <1>a DEF Task
<1>4. task' = [task EXCEPT ![w] = t]
  BY <1>0, <1>1 DEF Answer
<1> HIDE DEF t
<1>5. task'[w] = t /\ UNCHANGED <<Queued, Open>>
  BY <1>1, <1>4 DEF Queued, Open
<1>6. Knows(w) /\ Holds(w) /\ CountedBy(w)
  BY DEF IInv, WorkerKnows, Counted
<1>7. \A j \in Queued : Waits(w, j)' => Waits(w, j)
  BY <1>1, <1>3, <1>5 DEF Waits
<1>8. Holds(w)'
  BY <1>1, <1>3, <1>5, <1>6, <1>a DEF Holds
<1>9. /\ \A j \in Open : /\ Spent(j) \in Nat /\ Spent(j)' \in Nat
                        /\ Spent(j) <= Spent(j)'
      /\ \A v \in Workers \ {w} : CountedBy(v)' /\ Holds(v)'
      /\ \A v, x \in Workers :
            v # x => task'[v].asked \cap task'[x].asked = {}
  BY <1>1, <1>2, <1>3, <1>4, <1>5, <1>7, OthersCounted
<1>10. \A j \in Open : CountedRow(j)'
  <2> SUFFICES ASSUME NEW j \in Open PROVE CountedRow(j)'
    OBVIOUS
  <2>1. attempts[j] \in Nat /\ attempts[j] <= Spent(j)
    BY <1>1 DEF Open, Queued, IInv, TypeOK, Counted, CountedRow
  <2> QED
    BY <2>1, <1>1, <1>9 DEF CountedRow
<1>11. CountedBy(w)'
  <2> SUFFICES ASSUME i \in Open, ~b
               PROVE  task[w].seen + 1 <= Spent(i)'
    BY <1>3, <1>5, <1>a DEF CountedBy
  <2>1. /\ task[w].seen \in Nat /\ task[w].seen <= Spent(i)
        /\ Spent(i) \in Nat /\ Spent(i)' \in Nat /\ i \in RowIds
        /\ i \in Queued /\ i \in task[w].todo
    BY <1>1, <1>6, <1>9, <1>a DEF CountedBy, Holds, Open, Task, Queued
  <2>2. CASE faults' = faults + 1
    <3>1. FirstTry(i)' => FirstTry(i)
      <4> SUFFICES ASSUME NEW v \in Workers, Waits(v, i)' PROVE Waits(v, i)
        BY DEF FirstTry
      <4>1. CASE v # w
        <5>1. task'[v] = task[v]
          BY <4>1, <1>1, <1>4
        <5> QED
          BY <5>1 DEF Waits
      <4> QED
        BY <4>1, <1>7, <2>1
    <3> QED
      BY <2>1, <2>2, <3>1, <1>1 DEF Spent
  <2>3. CASE PushRejected(w)
    <3>1. /\ Holder[kind[i].account] = kind[i].owner
          /\ Holder[kind[i].account] # task[w].user /\ faults' = faults
      BY <2>3, <1>a DEF PushRejected, Reaches, CanWrite, Open
    <3>2. kind[i].owner # NoOwner
      BY ConstantsAssumption DEF Open
    <3>3. task[w].mode = "request"
      BY <2>1, <3>1, <3>2, <1>1, <1>6 DEF Holds, Task
    <3>4. FirstTry(i)
      BY <2>1, <3>3, <1>1 DEF FirstTry, Waits
    <3>5. ~FirstTry(i)'
      <4> SUFFICES ASSUME NEW v \in Workers, Waits(v, i)' PROVE FALSE
        BY DEF FirstTry
      <4>1. v # w
        BY <1>3, <1>5 DEF Waits
      <4>2. Waits(v, i)
        <5>1. task'[v] = task[v]
          BY <4>1, <1>1, <1>4
        <5> QED
          BY <5>1 DEF Waits
      <4>3. i \in task[v].asked /\ i \in task[w].asked
        BY <4>2, <2>1, <3>3, <1>6 DEF Counted, Waits, Holds
      <4> QED
        BY <4>1, <4>3 DEF Counted
    <3> QED
      BY <2>1, <3>1, <3>4, <3>5, <1>1 DEF Spent
  <2>4. ~PushAccepted(w)
    <3>1. ~Answer(w, TRUE)
      <4> SUFFICES ASSUME Answer(w, TRUE) PROVE FALSE
        OBVIOUS
      <4>1. task' = [task EXCEPT ![w] =
                        [task[w] EXCEPT !.pc = "commit", !.ok = TRUE]]
        BY <1>1 DEF Answer
      <4>2. task'[w].ok = TRUE
        BY <4>1, <1>1 DEF Task
      <4> QED
        BY <4>2, <1>3, <1>5
    <3> QED
      BY <3>1 DEF PushAccepted
  <2> QED
    BY <2>2, <2>3, <2>4 DEF Push, PushAnswerLost, PushUnreachable
<1> QED
  BY <1>1, <1>5, <1>8, <1>9, <1>10, <1>11 DEF Counted

\* A commit writes one more than was read, and that failure was counted; the
\* worker goes on to its next row, or ends.
LEMMA CommitCounted ==
    ASSUME IInv, IInv', Counted, NEW w \in Workers,
           CommitSent(w) \/ CommitFailure(w)
    PROVE  Counted'
<1> DEFINE i == task[w].cur
<1>1. /\ task \in [Workers -> Task] /\ task[w] \in Task
      /\ task[w].pc = "commit" /\ kind' = kind /\ faults' = faults
      /\ faults \in Nat /\ Queued \subseteq RowIds
  BY ConstantsAssumption
     DEF CommitSent, CommitFailure, IInv, TypeOK, Queued
<1>1b. faults <= faults'
  BY <1>1
<1>2. PICK f \in BOOLEAN, R \in SUBSET task[w].todo :
          /\ i \notin R
          /\ task' = [task EXCEPT ![w] = [task[w] EXCEPT
                         !.pc = "load", !.failed = f, !.todo = R]]
  <2>1. CASE CommitSent(w)
    <3>1. task' = [task EXCEPT ![w] = [task[w] EXCEPT
                     !.pc = "load", !.todo = task[w].todo \ {i}]]
      BY <2>1, <1>1 DEF CommitSent
    <3>2. [task[w] EXCEPT !.pc = "load", !.todo = task[w].todo \ {i}]
            = [task[w] EXCEPT !.pc = "load", !.failed = task[w].failed,
                              !.todo = task[w].todo \ {i}]
      BY <1>1 DEF Task
    <3>3. task[w].failed \in BOOLEAN
      BY <1>1 DEF Task
    <3> QED
      BY <3>1, <3>2, <3>3
  <2>2. CASE CommitFailure(w)
    <3> DEFINE rest == IF task[w].mode = "flush" THEN {}
                       ELSE task[w].todo \ {i}
    <3>1. task' = [task EXCEPT ![w] = [task[w] EXCEPT
                     !.pc = "load", !.failed = TRUE, !.todo = rest]]
      BY <2>2, <1>1 DEF CommitFailure
    <3>2. rest \in SUBSET task[w].todo /\ i \notin rest
      OBVIOUS
    <3> HIDE DEF rest
    <3> QED
      BY <3>1, <3>2
  <2> QED
    BY <2>1, <2>2
<1> DEFINE t == [task[w] EXCEPT !.pc = "load", !.failed = f, !.todo = R]
<1>3. /\ t \in Task /\ t.pc = "load" /\ t.todo = R
      /\ t.asked = task[w].asked /\ t.mode = task[w].mode
      /\ t.user = task[w].user
  BY <1>1, <1>2 DEF Task
<1>4. task' = [task EXCEPT ![w] = t]
  BY <1>2
<1> HIDE DEF t
<1>5. task'[w] = t /\ UNCHANGED <<Queued, Open>>
  BY <1>1, <1>4 DEF Queued, Open
<1>6. Knows(w) /\ Holds(w) /\ CountedBy(w)
  BY DEF IInv, WorkerKnows, Counted
<1>7. \A j \in Queued : Waits(w, j)' => Waits(w, j)
  BY <1>1, <1>2, <1>3, <1>5 DEF Waits
<1>8. Holds(w)' /\ CountedBy(w)'
  BY <1>1, <1>2, <1>3, <1>5, <1>6 DEF Holds, CountedBy
<1>9. /\ \A j \in Open : /\ Spent(j) \in Nat /\ Spent(j)' \in Nat
                        /\ Spent(j) <= Spent(j)'
      /\ \A v \in Workers \ {w} : CountedBy(v)' /\ Holds(v)'
      /\ \A v, x \in Workers :
            v # x => task'[v].asked \cap task'[x].asked = {}
  BY <1>1, <1>1b, <1>3, <1>4, <1>5, <1>7, OthersCounted
<1>10. \A j \in RowIds : \/ attempts'[j] = attempts[j]
                         \/ /\ j = i /\ attempts'[j] = task[w].seen + 1
                            /\ ~task[w].ok
  BY <1>1 DEF CommitSent, CommitFailure, IInv, TypeOK
<1>11. \A j \in Open : CountedRow(j)'
  <2> SUFFICES ASSUME NEW j \in Open PROVE CountedRow(j)'
    OBVIOUS
  <2>1. /\ attempts[j] \in Nat /\ Spent(j) \in Nat /\ Spent(j)' \in Nat
        /\ attempts[j] <= Spent(j) /\ Spent(j) <= Spent(j)' /\ j \in RowIds
    BY <1>1, <1>9 DEF Open, Queued, IInv, TypeOK, Counted, CountedRow
  <2>2. CASE attempts'[j] = attempts[j]
    BY <2>1, <2>2 DEF CountedRow
  <2>3. CASE j = i /\ attempts'[j] = task[w].seen + 1 /\ ~task[w].ok
    <3>1. task[w].seen + 1 <= Spent(j) /\ task[w].seen \in Nat
      BY <2>3, <1>1, <1>6 DEF CountedBy, Task
    <3> QED
      BY <3>1, <2>1, <2>3 DEF CountedRow
  <2> QED
    BY <2>1, <2>2, <2>3, <1>10
<1>12. \A j \in RowIds \ Queued' : attempts'[j] = 0
  BY <1>1, <1>5, <1>6, <1>10 DEF Counted, Knows
<1> QED
  BY <1>5, <1>8, <1>9, <1>11, <1>12 DEF Counted

\* A worker that ends, or dies, waits for nothing any more.
LEMMA EndCounted ==
    ASSUME IInv, IInv', Counted, NEW w \in Workers, Finish(w) \/ Crash(w)
    PROVE  Counted'
<1>1. /\ task \in [Workers -> Task] /\ UNCHANGED <<kind, attempts>>
      /\ faults \in Nat /\ faults' \in Nat /\ faults <= faults'
      /\ Queued \subseteq RowIds
  BY ConstantsAssumption DEF Finish, Crash, table, IInv, TypeOK, Queued
<1>2. task' = [task EXCEPT ![w] = Idle] /\ Idle \in Task
  BY IdleType DEF Finish, Crash
<1>3. /\ Idle.todo = {} /\ Idle.asked = {} /\ Idle.pc = "idle"
      /\ Idle.mode = "request"
  BY DEF Idle
<1>4. task'[w] = Idle /\ UNCHANGED <<Queued, Open>>
  BY <1>1, <1>2 DEF Queued, Open
<1>5. Holds(w)' /\ CountedBy(w)' /\ \A j \in Queued : ~Waits(w, j)'
  BY <1>3, <1>4 DEF Holds, CountedBy, Waits
<1>6. /\ \A j \in Open : /\ Spent(j) \in Nat /\ Spent(j)' \in Nat
                        /\ Spent(j) <= Spent(j)'
      /\ \A v \in Workers \ {w} : CountedBy(v)' /\ Holds(v)'
      /\ \A v, x \in Workers :
            v # x => task'[v].asked \cap task'[x].asked = {}
  BY <1>1, <1>2, <1>3, <1>4, <1>5, OthersCounted
<1>7. \A j \in Open : CountedRow(j)'
  <2> SUFFICES ASSUME NEW j \in Open PROVE CountedRow(j)'
    OBVIOUS
  <2>1. attempts[j] \in Nat /\ attempts[j] <= Spent(j)
    BY <1>1 DEF Open, Queued, IInv, TypeOK, Counted, CountedRow
  <2> QED
    BY <2>1, <1>1, <1>6 DEF CountedRow
<1> QED
  BY <1>1, <1>4, <1>5, <1>6, <1>7 DEF Counted

\* Every step of the outbox counts its failures.
LEMMA StepCounted ==
    ASSUME OwnersHold
    PROVE  IInv /\ IInv' /\ Counted /\ [Next]_vars => Counted'
<1> SUFFICES ASSUME IInv, IInv', Counted, [Next]_vars PROVE Counted'
  OBVIOUS
<1>1. CASE Next
  <2>1. PICK w \in Workers :
          \/ \E u \in Users, R \in SUBSET RowIds,
                edit \in Edits, hasToken \in BOOLEAN :
                StageRows(w, u, R, edit, hasToken)
          \/ \E u \in Users : StartFlush(w, u)
          \/ Sends(w)
          \/ Crash(w)
    BY <1>1 DEF Next
  <2> QED
    BY <2>1, StageCounted, ReadCounted, AnswerCounted, CommitCounted,
       EndCounted DEF Sends
<1>2. CASE UNCHANGED vars
  BY <1>2 DEF vars, table, growlio, Counted, CountedRow, CountedBy, Holds,
              Open, Queued, Spent, FirstTry, Waits
<1> QED
  BY <1>1, <1>2

\* Each failure of a row that growlio takes from its owner is a fault, but
\* for the first try of the request that queued it: overlapping sends that
\* read the same attempts, or write them late, never count one twice.
THEOREM FailuresCounted ==
    ASSUME OwnersHold
    PROVE  Spec => [](\A i \in Open : attempts[i] <= faults + 1)
<1>1. Init => Counted
  BY InitCounted
<1>2. IInv /\ IInv' /\ Counted /\ [Next]_vars => Counted'
  BY StepCounted
<1>3. IInv /\ Counted => \A i \in Open : attempts[i] <= faults + 1
  <2> SUFFICES ASSUME IInv, Counted, NEW i \in Open
               PROVE  attempts[i] <= faults + 1
    OBVIOUS
  <2>1. attempts[i] \in Nat /\ faults \in Nat
    BY ConstantsAssumption DEF IInv, TypeOK, Open, Queued
  <2> QED
    BY <2>1 DEF Counted, CountedRow, Spent
<1> QED
  BY <1>1, <1>2, <1>3, InductiveInvariant, PTL DEF Spec

\* So with two attempts more than there are faults, a row is given up only
\* when its account is closed.
THEOREM GivenUpIsClosed ==
    ASSUME OwnersHold, MaxFaults + 1 < MAX_ATTEMPTS
    PROVE  Spec => []GivenUpOnlyIfClosed
<1>1. IInv /\ (\A i \in Open : attempts[i] <= faults + 1)
        => GivenUpOnlyIfClosed
  <2> SUFFICES ASSUME IInv, \A j \in Open : attempts[j] <= faults + 1,
                      NEW i \in Queued, attempts[i] >= MAX_ATTEMPTS
               PROVE  Holder[kind[i].account] = NoHolder
    BY DEF GivenUpOnlyIfClosed
  <2>1. /\ attempts[i] \in Nat /\ faults \in 0..MaxFaults
        /\ MaxFaults \in Nat /\ MAX_ATTEMPTS \in Nat /\ kind[i] \in RowKinds
    BY ConstantsAssumption DEF IInv, TypeOK, Queued
  <2>2. i \notin Open
    BY <2>1
  <2> QED
    <3>1. /\ Holder[kind[i].account] \in {kind[i].owner, NoHolder}
          /\ Holder[kind[i].account] \in Users \cup {NoHolder}
      BY <2>1, ConstantsAssumption DEF OwnersHold
    <3> QED
      BY <2>2, <3>1 DEF Open
<1> QED
  BY <1>1, FailuresCounted, InductiveInvariant, PTL
=============================================================================
