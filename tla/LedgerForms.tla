----------------------------- MODULE LedgerForms -----------------------------
(***************************************************************************)
(* The forms of the ledger: transactions, events, recurring rules, todos   *)
(* and categories, each with the operators that AssetForms explains.       *)
(* FSuggested are the drafts that a chip of the form submits at once.      *)
(***************************************************************************)
EXTENDS FormKit

(* Active categories, and one that has been deactivated. *)
Category == {"food", "salary", "deposit", "old"}
KindOf == [c \in Category |-> IF c = "salary" THEN "income" ELSE "expense"]
Savings == "deposit"
Chosen(kind) == {c \in Category \ {"old"} : KindOf[c] = kind}

(* Account "z" is closed, card "x" and product "q" are deactivated; card   *)
(* "c" is paid from "b" now, and was paid from "a" once.                   *)
OpenAccounts == {"a", "b"}
ActiveCards == {"c"}
PaidFrom == [c \in ActiveCards |-> "b"]
CardMethod == [c \in {"c", "x"} |-> IF c = "c" THEN "credit_card" ELSE "debit_card"]
ActiveProducts == {"p"}

Dates == {"d1", "d2"}
-----------------------------------------------------------------------------
(* Transactions. *)

TransactionRow ==
    [amount: Nat, type: {"income", "expense"}, category: Category, date: Dates,
     memo: Names \cup {None}, method: {None, "cash", "credit_card", "debit_card"},
     account: {None, "a", "b", "z"}, product: {None, "p", "q"},
     card: {None, "c", "x"}, owner: Owners]

Plain == [amount |-> 1, type |-> "expense", category |-> "food", date |-> "d1",
          memo |-> None, method |-> None, account |-> None, product |-> None,
          card |-> None, owner |-> None]

ByOldCard == [Plain EXCEPT !.card = "c", !.account = "a",
                           !.method = "credit_card", !.owner = "gone"]
ByDeadCard == [Plain EXCEPT !.category = "old", !.card = "x", !.account = "a",
                            !.method = "debit_card"]
Pay == [Plain EXCEPT !.type = "income", !.category = "salary", !.account = "z"]
DeadDeposit == [Plain EXCEPT !.category = Savings, !.product = "q"]
ByMethod == [Plain EXCEPT !.method = "credit_card", !.memo = "n"]

TransactionRows == {ByOldCard, ByDeadCard, Pay, DeadDeposit, ByMethod}

UiType(r) == IF r.category = Savings THEN "savings" ELSE r.type

TransactionDraft(r) ==
    [ui |-> UiType(r), amount |-> r.amount, type |-> r.type,
     category |-> r.category, date |-> r.date, memo |-> OrBlank(r.memo),
     method |-> OrBlank(r.method), account |-> OrBlank(r.account),
     product |-> OrBlank(r.product), card |-> OrBlank(r.card),
     owner |-> OrBlank(r.owner)]

TransactionEmpty ==
    [ui |-> "expense", amount |-> Blank, type |-> "expense", category |-> Blank,
     date |-> "d1", memo |-> Blank, method |-> Blank, account |-> Blank,
     product |-> Blank, card |-> Blank, owner |-> "me"]

(* A new type empties what was chosen for the old one. *)
TypeToggled(d) ==
    {[d EXCEPT !.ui = t, !.type = IF t = "income" THEN "income" ELSE "expense",
               !.category = IF t = "savings" THEN Savings ELSE Blank,
               !.product = Blank, !.card = Blank, !.method = Blank] :
        t \in {"income", "expense", "savings"}}

(* The card a transaction was booked with stays a choice, and choosing it  *)
(* again brings back the account it was booked on.                         *)
CardChosen(d, r) ==
    {[d EXCEPT !.card = c,
               !.account = IF r # None /\ c = r.card THEN OrBlank(r.account)
                           ELSE PaidFrom[c]] :
        c \in ActiveCards \cup (IF r = None THEN {} ELSE {r.card} \ {None})}

MethodChosen(d) ==
    {[d EXCEPT !.card = Blank, !.method = m] :
        m \in {Blank, "cash"} \cup IF d.card = Blank THEN {d.method} ELSE {}}

(* A card locks the account. *)
AccountChosen(d) ==
    IF d.card = Blank THEN Put(d, "account", {Blank} \cup OpenAccounts) ELSE {}

(* A chip of this month's plan fills the form in. *)
PlanApplied(d) ==
    IF d.ui = "savings" THEN {}
    ELSE {[d EXCEPT !.amount = 1, !.memo = "n",
                    !.category = IF c = None THEN @ ELSE c,
                    !.owner = IF d.ui = "income" THEN Blank ELSE @] :
              c \in {None} \cup (Chosen(d.type) \ {Savings})}

TransactionTyped(d, r) ==
    UNION {TypeToggled(d), AccountChosen(d),
           IF d.type = "expense" /\ d.ui # "savings"
           THEN CardChosen(d, r) \cup MethodChosen(d) ELSE {},
           IF r = None THEN PlanApplied(d) ELSE {},
           Put(d, "amount", TypedAmounts), Put(d, "date", {Blank, "d2"}),
           Put(d, "memo", TypedNames), Put(d, "owner", {Blank, "me"}),
           IF d.ui = "savings" THEN Put(d, "product", {Blank} \cup ActiveProducts)
           ELSE Put(d, "category", Chosen(d.type) \ {Savings})}

(* A deposit needs a product that its select can show. *)
TransactionReady(d) ==
    /\ d.amount # Blank /\ d.date # Blank
    /\ IF d.ui = "savings" THEN d.product \in ActiveProducts ELSE d.category # Blank

TransactionBody(d, r) ==
    [amount |-> d.amount, type |-> d.type, category |-> d.category, date |-> d.date,
     memo |-> OrNone(d.memo), method |-> OrNone(d.method),
     account |-> OrNone(d.account),
     product |-> IF d.ui = "savings" THEN OrNone(d.product) ELSE None,
     card |-> OrNone(d.card), owner |-> OrNone(d.owner)]

(* A chip of a recent transaction books it again, on the date and for the  *)
(* owner of the form; a card that is no longer active is left out.         *)
TransactionSuggested(d) ==
    {[TransactionDraft(t) EXCEPT !.date = d.date, !.owner = d.owner,
          !.card = IF @ \in ActiveCards THEN @ ELSE Blank] :
        t \in {u \in TransactionRows : UiType(u) = d.ui}}

TransactionAccepts(b, r) ==
    /\ AmountFits(b.amount) /\ b.date # Blank
    /\ b.category # Blank /\ KindOf[b.category] = b.type
    /\ b.product # None => b.type = "expense" /\ b.category = Savings
    /\ b.card \in {None} \cup ActiveCards \/ (r # None => b.card = r.card)

MutTransactionWrite(b, r) ==
    [b EXCEPT !.amount = Won(@),
        !.account = IF b.card = None THEN @
                    ELSE IF r # None THEN r.account ELSE PaidFrom[b.card],
        !.method = IF b.card = None THEN @ ELSE CardMethod[b.card]]

(* A card decides account and method when it is chosen, and keeps what it  *)
(* decided then.                                                           *)
TransactionWrite(b, r) ==
    [b EXCEPT !.amount = Won(@),
        !.account = IF b.card = None THEN @
                    ELSE IF r # None /\ r.card = b.card THEN r.account
                    ELSE PaidFrom[b.card],
        !.method = IF b.card = None THEN @
                   ELSE IF r # None /\ r.card = b.card THEN r.method
                   ELSE CardMethod[b.card]]

TransactionSettled(d, r) ==
    [d EXCEPT !.amount = Won(@),
        !.method = IF d.card = Blank THEN @
                   ELSE IF r # None /\ r.card = d.card THEN OrBlank(r.method)
                   ELSE CardMethod[d.card],
        !.account = IF d.card = Blank THEN @
                    ELSE IF r # None /\ r.card = d.card THEN OrBlank(r.account)
                    ELSE PaidFrom[d.card]]

(* A transaction is deleted from inside its dialog. *)
TransactionOffers == {"add", "delete", "inside"}

TransactionElsewhere(r) == {[r EXCEPT !.amount = @ + 1]}

-----------------------------------------------------------------------------
(* Events.  A moment is <<date, time>>. *)

Times == {"00:00", "09:00"}

EventRow == [title: TypedNames, allDay: BOOLEAN, start: Dates \X Times,
             finish: {None} \cup (Dates \X Times),
             frequency: {"once", "weekly"}, until: {None} \cup Dates,
             reminder: {None, 10}, assignee: Owners]

EventRows ==
    {[title |-> "n", allDay |-> FALSE, start |-> <<"d1", "09:00">>,
      finish |-> <<"d1", "09:00">>, frequency |-> "weekly", until |-> "d2",
      reminder |-> 10, assignee |-> "gone"],
     [title |-> "n", allDay |-> TRUE, start |-> <<"d1", "00:00">>, finish |-> None,
      frequency |-> "once", until |-> None, reminder |-> None, assignee |-> None]}

EventEmpty == [title |-> Blank, allDay |-> FALSE, startDate |-> "d1",
               startTime |-> "09:00", endDate |-> Blank, endTime |-> Blank,
               frequency |-> "once", until |-> Blank, reminder |-> Blank,
               assignee |-> Blank]

EventDraft(r) ==
    [title |-> r.title, allDay |-> r.allDay,
     startDate |-> r.start[1], startTime |-> r.start[2],
     endDate |-> IF r.finish = None THEN Blank ELSE r.finish[1],
     endTime |-> IF r.finish = None THEN Blank ELSE r.finish[2],
     frequency |-> r.frequency, until |-> OrBlank(r.until),
     reminder |-> OrBlank(r.reminder), assignee |-> OrBlank(r.assignee)]

EventTyped(d, r) ==
    UNION {Put(d, "title", TypedNames), Put(d, "allDay", BOOLEAN),
           Put(d, "startDate", {Blank, "d2"}), Put(d, "endDate", {Blank, "d2"}),
           IF d.allDay THEN {}
           ELSE Put(d, "startTime", {Blank, "09:00"})
                  \cup Put(d, "endTime", {Blank, "09:00"}),
           Put(d, "frequency", {"once", "weekly"}),
           IF d.frequency = "once" THEN {} ELSE Put(d, "until", {Blank, "d2"}),
           Put(d, "reminder", {Blank, 10}), Put(d, "assignee", {Blank, "me"})}

EventReady(d) == d.title # Blank /\ d.startDate # Blank

At(date, time, allDay) == <<date, IF allDay \/ time = Blank THEN "00:00" ELSE time>>

EventBody(d, r) ==
    [title |-> d.title, allDay |-> d.allDay,
     start |-> At(d.startDate, d.startTime, d.allDay),
     finish |-> IF d.endDate = Blank THEN None
                ELSE At(d.endDate, d.endTime, d.allDay),
     frequency |-> d.frequency,
     until |-> IF d.frequency = "once" THEN None ELSE OrNone(d.until),
     reminder |-> OrNone(d.reminder), assignee |-> OrNone(d.assignee)]

(* Only a new assignee has to be a member. *)
EventAccepts(b, r) ==
    b.assignee \in Members \cup {None} \/ (r # None => b.assignee = r.assignee)

EventWrite(b, r) == b

EventSettled(d, r) ==
    [d EXCEPT !.startTime = At(d.startDate, @, d.allDay)[2],
              !.endTime = IF d.endDate = Blank THEN Blank
                          ELSE At(d.endDate, @, d.allDay)[2],
              !.until = IF d.frequency = "once" THEN Blank ELSE @]

EventOffers == {"add", "delete"}

EventElsewhere(r) == {[r EXCEPT !.start[1] = "d2"]}

-----------------------------------------------------------------------------
(* Recurring rules.  anchor is the day of the month that the next due      *)
(* dates keep to.                                                          *)

(* None is no set of days, and no moment. *)
ASSUME LedgerAssumption ==
    /\ \A days \in SUBSET {15, 31} : days # None
    /\ \A moment \in Dates \X Times : moment # None

DayOf == [d \in Dates |-> IF d = "d1" THEN 1 ELSE 31]

RecurringRow == [name: Names, category: Category, amount: Nat,
                 type: {"income", "expense"}, frequency: {"weekly", "monthly"},
                 days: {None} \cup SUBSET {15, 31}, start: Dates,
                 finish: {None} \cup Dates, remind: Nat, anchor: {1, 15, 31}]

RecurringRows ==
    {[name |-> "n", category |-> "old", amount |-> 1, type |-> "expense",
      frequency |-> "monthly", days |-> {15, 31}, start |-> "d1", finish |-> "d2",
      remind |-> 3, anchor |-> 15],
     [name |-> "n", category |-> "salary", amount |-> 1, type |-> "income",
      frequency |-> "monthly", days |-> None, start |-> "d2", finish |-> None,
      remind |-> 0, anchor |-> 31]}

RecurringEmpty == [name |-> Blank, category |-> Blank, amount |-> Blank,
                   type |-> "expense", frequency |-> "monthly", days |-> {},
                   start |-> Blank, finish |-> Blank, remind |-> 3]

RecurringDraft(r) ==
    [name |-> r.name, category |-> r.category, amount |-> r.amount, type |-> r.type,
     frequency |-> r.frequency, days |-> IF r.days = None THEN {} ELSE r.days,
     start |-> r.start, finish |-> OrBlank(r.finish), remind |-> r.remind]

DayToggled(d) ==
    IF d.frequency # "monthly" THEN {}
    ELSE {[d EXCEPT !.days = IF n \in @ THEN @ \ {n} ELSE @ \cup {n}] : n \in {15, 31}}

RecurringTyped(d, r) ==
    UNION {{[d EXCEPT !.type = t, !.category = Blank] : t \in {"income", "expense"}},
           DayToggled(d),
           Put(d, "name", TypedNames), Put(d, "category", Chosen(d.type)),
           Put(d, "amount", TypedAmounts), Put(d, "frequency", {"weekly", "monthly"}),
           Put(d, "start", {Blank, "d1"}), Put(d, "finish", {Blank, "d2"}),
           Put(d, "remind", {Blank, 2})}

(* The category must be one its select can show. *)
RecurringReady(d) ==
    /\ d.name # Blank /\ d.start # Blank /\ d.amount # Blank
    /\ d.category \in Chosen(d.type)

RecurringBody(d, r) ==
    [d EXCEPT !.days = IF d.frequency = "monthly" /\ @ # {} THEN @ ELSE None,
              !.finish = OrNone(@), !.remind = Won(@)]

RecurringAccepts(b, r) ==
    AmountFits(b.amount) /\ KindOf[b.category] = b.type

RecurringWrite(b, r) ==
    [name |-> b.name, category |-> b.category, amount |-> Won(b.amount),
     type |-> b.type, frequency |-> b.frequency, days |-> b.days, start |-> b.start,
     finish |-> b.finish, remind |-> b.remind,
     anchor |-> IF b.days = None THEN DayOf[b.start]
                ELSE CHOOSE n \in b.days : \A k \in b.days : n <= k]

RecurringSettled(d, r) ==
    [d EXCEPT !.amount = Won(@), !.remind = Won(@),
              !.days = IF d.frequency = "monthly" THEN @ ELSE {}]

RecurringOffers == {"add", "deactivate"}

RecurringElsewhere(r) == {[r EXCEPT !.amount = @ + 1]}

-----------------------------------------------------------------------------
(* Todos.  day is the day of the month a monthly todo comes back to: one   *)
(* for the 31st that fell on a shorter month is due before its day.        *)

TodoRow == [title: Names, due: {None} \cup Dates, frequency: {"once", "monthly"},
            day: {None, 1, 31}, memo: Names \cup {None}, assignee: Owners]

TodoRows ==
    {[title |-> "n", due |-> "d1", frequency |-> "monthly", day |-> 31,
      memo |-> "n", assignee |-> "gone"],
     [title |-> "n", due |-> None, frequency |-> "once", day |-> None,
      memo |-> None, assignee |-> None]}

TodoEmpty == [title |-> Blank, assignee |-> Blank, due |-> Blank,
              frequency |-> "once", memo |-> Blank]

TodoDraft(r) == [title |-> r.title, assignee |-> OrBlank(r.assignee),
                 due |-> OrBlank(r.due), frequency |-> r.frequency,
                 memo |-> OrBlank(r.memo)]

MutDueChanged(d) == {[d EXCEPT !.due = v] : v \in {Blank, "d2"}}

(* Without a date there is nothing to repeat. *)
DueChanged(d) ==
    {[d EXCEPT !.due = v, !.frequency = IF v = Blank THEN "once" ELSE @] :
        v \in {Blank, "d2"}}

TodoTyped(d, r) ==
    UNION {DueChanged(d), Put(d, "title", TypedNames),
           Put(d, "assignee", {Blank, "me"}), Put(d, "memo", TypedNames),
           IF d.due = Blank THEN {} ELSE Put(d, "frequency", {"once", "monthly"})}

TodoReady(d) == d.title # Blank

TodoBody(d, r) ==
    [d EXCEPT !.assignee = OrNone(@), !.due = OrNone(@), !.memo = OrNone(@)]

TodoAccepts(b, r) ==
    /\ b.frequency # "once" => b.due # None
    /\ b.assignee \in Members \cup {None} \/ (r # None => b.assignee = r.assignee)

(* The day moves with the date and stays with it. *)
TodoWrite(b, r) ==
    [title |-> b.title, assignee |-> b.assignee, due |-> b.due,
     frequency |-> b.frequency, memo |-> b.memo,
     day |-> IF r # None /\ r.due = b.due THEN r.day
             ELSE IF b.due = None THEN None ELSE DayOf[b.due]]

TodoSettled(d, r) == d

TodoOffers == {"add", "delete"}

TodoElsewhere(r) == {[r EXCEPT !.memo = "m"]}

-----------------------------------------------------------------------------
(* Categories.  The kind and the type of expense are separate: the type    *)
(* is hidden, not cleared, while the kind is income.                       *)

CategoryRow == [name: Names, kind: {"income", "expense"},
                type: {"fixed", "variable"}, color: {"red", "blue"},
                group: {None, "living"}]

CategoryRows ==
    {[name |-> "n", kind |-> "expense", type |-> "fixed", color |-> "red",
      group |-> "living"],
     [name |-> "n", kind |-> "income", type |-> "variable", color |-> "red",
      group |-> None]}

CategoryEmpty == [name |-> Blank, kind |-> "expense", type |-> "variable",
                  color |-> "blue", group |-> Blank]

CategoryDraft(r) == [r EXCEPT !.group = OrBlank(@)]

CategoryTyped(d, r) ==
    UNION {Put(d, "name", TypedNames), Put(d, "kind", {"income", "expense"}),
           IF d.kind = "income" THEN {} ELSE Put(d, "type", {"fixed", "variable"}),
           Put(d, "group", {Blank, "living"}), Put(d, "color", {"red", "blue"})}

CategoryReady(d) == d.name # Blank

CategoryBody(d, r) == [d EXCEPT !.group = OrNone(@)]

CategoryAccepts(b, r) == TRUE

CategoryWrite(b, r) == b

CategorySettled(d, r) == d

(* Old and new categories have a dialog each, and the draft of a new one   *)
(* outlives its dialog.                                                    *)
CategoryOffers == {"add", "deactivate", "keep", "apart"}

CategoryElsewhere(r) == {[r EXCEPT !.name = "m"]}
=============================================================================
