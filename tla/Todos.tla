------------------------------- MODULE Todos -------------------------------
(***************************************************************************)
(* The household's todos (app/services/todo_service.py).  A repeating todo *)
(* is one row per occurrence: completing an occurrence makes the next one, *)
(* reopening it takes an open next one away.  Two members click at the     *)
(* same time: a request loads its row, writes under the row lock of        *)
(* PostgreSQL and commits; what it has loaded may be old by then.          *)
(*                                                                         *)
(* The calendar is small: months of two days and of one take turns, a      *)
(* week is a day.  Title, memo, assignee and author are left out: they are *)
(* copied.  Yearly todos repeat as monthly ones do.                        *)
(***************************************************************************)
EXTENDS Integers, FiniteSets

CONSTANTS Requests,     \* the requests that can be under way
          None,
          Frequencies,  \* of "once", "weekly" and "monthly"
          MaxRows,      \* bound: rows ever made
          MaxRoots,     \* bound: todos created by members
          MaxEdits,     \* bound: edits
          MaxMonth      \* bound: the last month anybody lives in

-----------------------------------------------------------------------------
(* Dates. *)

Length(m) == IF m % 2 = 0 THEN 2 ELSE 1
Date == {t \in [m : 0..MaxMonth + 1, d : 1..2] : t.d =< Length(t.m)}
Within == {t \in Date : t.m =< MaxMonth}
Later(s, t) == s.m > t.m \/ (s.m = t.m /\ s.d > t.d)

Least(x, y) == IF x < y THEN x ELSE y
NextDay(t) == IF t.d < Length(t.m) THEN [t EXCEPT !.d = @ + 1]
              ELSE [m |-> t.m + 1, d |-> 1]

add_months_with_day(t, day) ==
    [m |-> t.m + 1, d |-> Least(day, Length(t.m + 1))]

(* The day is the anchor of monthly todos: it is what a short month does   *)
(* not forget.                                                             *)
MutAdvance(t, frequency, day) ==
    IF frequency = "weekly" THEN NextDay(t) ELSE add_months_with_day(t, t.d)

advance_due_date(t, frequency, day) ==
    IF frequency = "weekly" THEN NextDay(t) ELSE add_months_with_day(t, IF day = 0 THEN t.d ELSE day)

(* The first occurrence after today, and after the one that is done. *)
MutNextDue(row, now) ==
    LET from[t \in Within] ==
            LET n == advance_due_date(t, row.frequency, row.day)
            IN IF Later(n, now) THEN n ELSE from[n]
    IN IF Later(row.due, now) THEN row.due ELSE from[row.due]

NextDue(row, now) ==
    LET from[t \in Within] ==
            LET n == advance_due_date(t, row.frequency, row.day)
            IN IF Later(n, now) THEN n ELSE from[n]
    IN from[row.due]

-----------------------------------------------------------------------------
Ids == 1..MaxRows
Row == [due : Date \cup {None}, frequency : Frequencies, day : 0..2,
        done : BOOLEAN, previous : Ids \cup {None}, root : Ids]

ASSUME ConstantsAssumption ==
    /\ MaxRows \in Nat /\ MaxRoots \in Nat /\ MaxEdits \in Nat /\ MaxMonth \in Nat
    /\ Frequencies \subseteq {"once", "weekly", "monthly"}
    /\ None \notin Date \cup Ids \cup Row \cup [id : Ids, done : BOOLEAN]

VARIABLES
    todos,    \* the table: a row or None for each id
    used,     \* ids given out
    request,  \* what each request has loaded and seen
    today,
    roots,    \* todos created by members
    edits,    \* edits so far
    handled,  \* history: chains in which a member deleted a todo or changed its dates
    switched, \* history: chains that an edit made monthly without a new date
    overtaken, \* history: chains in which an edit was saved over another one's date
    cut       \* history: chains that lost a link to a reopening

history == <<roots, edits, handled, switched, overtaken, cut>>
vars == <<todos, used, request, today, history>>

Idle == [op |-> "idle"]
Request == [op : {"complete", "reopen", "update"}, id : Ids,
            stage : {"loaded", "written", "looked"},
            next : [id : Ids, done : BOOLEAN] \cup {None}, row : Row \cup {None}]
Exists(i) == todos[i] # None

(* From its UPDATE to its COMMIT a request has the row lock.               *)
HasLock(r) == request[r] # Idle /\ request[r].stage # "loaded"
Locked(i) == \E r \in Requests : HasLock(r) /\ request[r].id = i

TypeOK ==
    /\ todos \in [Ids -> Row \cup {None}]
    /\ used \in 0..MaxRows
    /\ \A i \in Ids : i > used => ~Exists(i)
    /\ request \in [Requests -> Request \cup {Idle}]
    /\ \A r \in Requests : request[r] # Idle =>
          /\ request[r].id =< used
          /\ request[r].row = None <=> request[r].op = "reopen"
          /\ request[r].next # None => request[r].next.id =< used
    /\ today \in Within
    /\ roots \in 0..MaxRoots /\ edits \in 0..MaxEdits
    /\ handled \cup switched \cup overtaken \cup cut \subseteq Ids

Init ==
    /\ todos = [i \in Ids |-> None] /\ used = 0
    /\ request = [r \in Requests |-> Idle]
    /\ today = [m |-> 0, d |-> 1]
    /\ roots = 0 /\ edits = 0
    /\ handled = {} /\ switched = {} /\ overtaken = {} /\ cut = {}

Next_occurrences(i) == {j \in Ids : Exists(j) /\ todos[j].previous = i}
DayOf(due) == IF due = None THEN 0 ELSE due.d

(* TodoCreateIn._recurring_needs_due_date: what a form may send. *)
Payload == {p \in (Within \cup {None}) \X Frequencies : p[2] = "once" \/ p[1] # None}

-----------------------------------------------------------------------------
create_todo(due, frequency) ==
    /\ roots < MaxRoots /\ used < MaxRows
    /\ used' = used + 1 /\ roots' = roots + 1
    /\ todos' = [todos EXCEPT ![used'] =
          [due |-> due, frequency |-> frequency, day |-> DayOf(due),
           done |-> FALSE, previous |-> None, root |-> used']]
    /\ UNCHANGED <<request, today, edits, handled, switched, overtaken, cut>>

Done(r) == request' = [request EXCEPT ![r] = Idle]

Repeats(row) == row.frequency # "once" /\ row.due # None

(* The next occurrence, made from the row as it was loaded and from the    *)
(* date of the request.                                                    *)
MutSuccessor(i) ==
    [todos[i] EXCEPT !.due = IF Repeats(todos[i]) THEN NextDue(todos[i], today) ELSE @,
                     !.done = FALSE]

Successor(i) ==
    [todos[i] EXCEPT !.due = IF Repeats(todos[i]) THEN NextDue(todos[i], today) ELSE @,
                     !.done = FALSE, !.previous = i]

(* now_kst and db.get: the handler begins with the date and the row as they *)
(* are; a completion keeps the successor they determine, an edit the row.  *)
Load(r, op, i) ==
    /\ request[r] = Idle /\ Exists(i)
    /\ op = "complete" /\ todos[i].due # None => todos[i].due \in Within
    /\ op = "update" => edits < MaxEdits
    /\ request' = [request EXCEPT ![r] =
          [op |-> op, id |-> i, stage |-> "loaded", next |-> None,
           row |-> IF op = "complete" THEN Successor(i)
                   ELSE [todos[i] EXCEPT !.done = FALSE, !.previous = None]]]
    /\ UNCHANGED <<todos, used, today, history>>

Loaded(r, op) ==
    /\ request[r] # Idle /\ request[r].op = op /\ request[r].stage = "loaded"
    /\ ~Locked(request[r].id)

-----------------------------------------------------------------------------
(* set_completed *)

(* The conditional UPDATE: it waits for the row's lock and matches the row *)
(* only if it is still to be changed; who does not change it goes home.    *)
Switchable(op, i) == Exists(i) /\ todos[i].done = (op = "reopen")

StartComplete(r) ==
    /\ Loaded(r, "complete")
    /\ IF Switchable("complete", request[r].id)
       THEN request' = [request EXCEPT ![r].stage = "written"]
       ELSE Done(r)
    /\ UNCHANGED <<todos, used, today, history>>

(* A reopening uses nothing of the row it has loaded.                      *)
StartReopen(r, i) ==
    /\ request[r] = Idle /\ ~Locked(i)
    /\ Switchable("reopen", i)
    /\ request' = [request EXCEPT ![r] =
          [op |-> "reopen", id |-> i, stage |-> "written", next |-> None,
           row |-> None]]
    /\ UNCHANGED <<todos, used, today, history>>

(* _next_occurrence: what is committed by now. *)
MutFound(i) == {None}

Found(i) == IF Next_occurrences(i) = {} THEN {None}
            ELSE {[id |-> j, done |-> todos[j].done] : j \in Next_occurrences(i)}

Look(r) ==
    /\ request[r] # Idle /\ request[r].stage = "written"
    /\ \E next \in Found(request[r].id) :
          request' = [request EXCEPT ![r].stage = "looked", ![r].next = next]
    /\ UNCHANGED <<todos, used, today, history>>

Looked(r, op) ==
    request[r] # Idle /\ request[r].op = op /\ request[r].stage = "looked"

CreateNextOccurrence(r) ==
    IF ~Repeats(request[r].row) \/ request[r].next # None
    THEN /\ todos' = [todos EXCEPT ![request[r].id].done = TRUE]
         /\ used' = used
    ELSE /\ used < MaxRows /\ used' = used + 1
         /\ todos' = [todos EXCEPT ![request[r].id].done = TRUE,
                                   ![used'] = request[r].row]

Complete(r) ==
    /\ Looked(r, "complete")
    /\ CreateNextOccurrence(r)
    /\ Done(r)
    /\ UNCHANGED <<today, history>>

(* ON DELETE SET NULL: a deleted row leaves the later ones without a link. *)
Without(table, i) ==
    [j \in Ids |-> IF j = i \/ table[j] = None THEN None
                   ELSE IF table[j].previous = i THEN [table[j] EXCEPT !.previous = None]
                   ELSE table[j]]

(* The open next occurrence is deleted; one that is done is a record.      *)
Doomed(r) == request[r].next # None /\ ~request[r].next.done

DeleteOpenNextOccurrence(r) ==
    LET back == [todos EXCEPT ![request[r].id].done = FALSE]
    IN IF Doomed(r)
       THEN /\ ~Locked(request[r].next.id)
            /\ todos' = Without(back, request[r].next.id)
            /\ cut' = IF Next_occurrences(request[r].next.id) = {} THEN cut
                      ELSE cut \cup {todos[request[r].id].root}
       ELSE todos' = back /\ cut' = cut

Reopen(r) ==
    /\ Looked(r, "reopen")
    /\ DeleteOpenNextOccurrence(r)
    /\ Done(r)
    /\ UNCHANGED <<used, today, roots, edits, handled, switched, overtaken>>

-----------------------------------------------------------------------------
(* The anchor moves with the date only.  SQLAlchemy writes the columns that *)
(* differ from what was loaded; a row that has gone fails the request.     *)
update_todo(r, due, frequency) ==
    LET old == request[r].row
        i == request[r].id
        day == IF due = old.due THEN old.day ELSE DayOf(due)
    IN /\ Loaded(r, "update")
       /\ edits < MaxEdits /\ edits' = edits + 1
       /\ todos' = IF ~Exists(i) THEN todos ELSE [todos EXCEPT
             ![i].due = IF due # old.due THEN due ELSE @,
             ![i].day = IF day # old.day THEN day ELSE @,
             ![i].frequency = IF frequency # old.frequency THEN frequency ELSE @]
       /\ handled' = IF due # old.due \/ frequency # old.frequency
                     THEN handled \cup {old.root} ELSE handled
       /\ switched' = IF due = old.due /\ frequency = "monthly" /\ old.frequency # "monthly"
                      THEN switched \cup {old.root} ELSE switched
       /\ overtaken' = IF Exists(i) /\ <<todos[i].due, todos[i].day>> # <<old.due, old.day>>
                       THEN overtaken \cup {old.root} ELSE overtaken
       /\ Done(r)
       /\ UNCHANGED <<used, today, roots, cut>>

(* The DELETE waits for the row and for those whose link it clears.        *)
delete_todo(i) ==
    /\ Exists(i)
    /\ \A j \in {i} \cup Next_occurrences(i) : ~Locked(j)
    /\ todos' = Without(todos, i)
    /\ handled' = handled \cup {todos[i].root}
    /\ UNCHANGED <<used, request, today, roots, edits, switched, overtaken, cut>>

(* The server dies, or the connection: nothing is committed. *)
Abort(r) ==
    /\ request[r] # Idle
    /\ Done(r)
    /\ UNCHANGED <<todos, used, today, history>>

Midnight ==
    /\ NextDay(today) \in Within
    /\ today' = NextDay(today)
    /\ UNCHANGED <<todos, used, request, history>>

Next ==
    \/ \E p \in Payload : create_todo(p[1], p[2])
    \/ \E r \in Requests :
          \/ \E op \in {"complete", "update"}, i \in Ids : Load(r, op, i)
          \/ StartComplete(r) \/ \E i \in Ids : StartReopen(r, i)
          \/ Look(r) \/ Complete(r) \/ Reopen(r)
          \/ \E p \in Payload : update_todo(r, p[1], p[2])
          \/ Abort(r)
    \/ \E i \in Ids : delete_todo(i)
    \/ Midnight

Spec == Init /\ [][Next]_vars

-----------------------------------------------------------------------------
(* Two members who complete one occurrence, in whatever order, and the     *)
(* reopenings between, make one next occurrence of it.                     *)
OneSuccessor == \A i \in Ids : Cardinality(Next_occurrences(i)) =< 1

(* A repeating todo goes on: an occurrence that is done has a next one, as *)
(* long as no member deletes an occurrence or changes the chain's dates.   *)
ChainGoesOn ==
    \A i \in Ids :
       Exists(i) /\ todos[i].done /\ todos[i].frequency # "once" /\ todos[i].due # None
         /\ todos[i].root \notin handled
       => Next_occurrences(i) # {}

(* No date of a chain comes twice, again unless members changed it or a    *)
(* reopening deleted an occurrence that had a next one by then.            *)
NoDateTwice ==
    \A i, j \in Ids :
       Exists(i) /\ Exists(j) /\ i # j /\ todos[i].root = todos[j].root
         /\ todos[i].root \notin handled \cup cut
       => todos[i].due # todos[j].due

(* "The anchor day of monthly and yearly repetition" (models/todo.py): a   *)
(* monthly todo is due on its day, or on the last day of a shorter month.  *)
(* An edit that makes a todo monthly and leaves its date breaks it, and one *)
(* saved over another: it writes its date, but its day only if it is not   *)
(* the one it has loaded.                                                  *)
DayKept ==
    \A i \in Ids :
       Exists(i) /\ todos[i].frequency = "monthly" /\ todos[i].due # None
         /\ todos[i].root \notin switched \cup overtaken
       => todos[i].due.d = Least(todos[i].day, Length(todos[i].due.m))
=============================================================================
