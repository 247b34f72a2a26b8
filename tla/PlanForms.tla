----------------------------- MODULE PlanForms -----------------------------
(***************************************************************************)
(* The forms of the plan, each with the operators that AssetForms          *)
(* explains: an item of the year's plan, the same item seen from one month, *)
(* an amount split over the rest of the year, and the year's plan of a      *)
(* savings product.                                                        *)
(* There is one stored plan.  An item linked to a recurring rule shows the *)
(* amount and the category of the rule, whatever is stored with the item.  *)
(***************************************************************************)
EXTENDS FormKit

(* A year of three months; the month screen shows the second. *)
Months == 1 .. 3
This == 2

PlanCategory == {"food", "rent"}

(* targets[m] is None when the item has no row for month m. *)
PlanItemRow ==
    [name: Names, owner: Owners, category: {None} \cup PlanCategory,
     start: Months, finish: Months, targets: [Months -> {None} \cup Nat],
     rule: {None} \cup [amount: Nat, category: PlanCategory]]

PlanItemRows ==
    LET item == [name |-> "n", owner |-> "gone", category |-> "food", start |-> 1,
                 finish |-> 3, targets |-> <<3, 2, 3>>, rule |-> None]
    IN  {item,
         [item EXCEPT !.owner = None, !.category = None, !.targets = <<2, 2, None>>,
                      !.finish = 2],
         [item EXCEPT !.rule = [amount |-> 5, category |-> "rent"]]}

(* amount_for and effective_category. *)
Shown(r) == [m \in Months |-> IF r.targets[m] = None \/ r.rule = None
                              THEN r.targets[m] ELSE r.rule.amount]
ShownCategory(r) == IF r.rule = None THEN r.category ELSE r.rule.category

(* `Number(x) || 0`, summed. *)
SumOf(t) == LET n(m) == IF t[m] \in Nat THEN t[m] ELSE 0 IN n(1) + n(2) + n(3)
TotalOf(t) == IF SumOf(t) > 0 THEN SumOf(t) ELSE Blank

(* syncTargetsToPeriod: the months of the period, each with what it had.   *)
SyncToPeriod(t, s, f) ==
    [m \in Months |-> IF m \notin s .. f THEN None ELSE IF t[m] = None THEN 0 ELSE t[m]]

(* distributeAmountEvenly: what is left over goes to the first months.     *)
MutEvenly(total, s, f) ==
    [m \in Months |-> IF m \in s .. f THEN total \div (f - s + 1) ELSE None]

Evenly(total, s, f) ==
    LET n == f - s + 1
    IN  [m \in Months |-> IF m \notin s .. f THEN None
                          ELSE total \div n + (IF m - s < total % n THEN 1 ELSE 0)]

(* The grid: one cell, a cell copied to the months after it, one amount    *)
(* for all, the total in even parts.                                       *)
GridTyped(t, s, f, total) ==
    LET synced == SyncToPeriod(t, s, f)
        With(S, v) == [m \in Months |-> IF m \in S THEN v ELSE synced[m]]
    IN  UNION {{With({m}, v) : m \in s .. f, v \in TypedAmounts},
               {With(m .. f, synced[m]) :
                    m \in {k \in s .. f : synced[k] \notin {Blank, 0}}},
               {With(s .. f, v) : v \in {TooBig} \cup (Amounts \ {0})},
               {Evenly(Won(total), s, f)}}

(* What the two forms with a grid share. *)
PeriodTyped(d) ==
    UNION {{[d EXCEPT !.start = s, !.targets = SyncToPeriod(@, s, d.finish)] :
                s \in 1 .. d.finish},
           {[d EXCEPT !.finish = f, !.targets = SyncToPeriod(@, d.start, f)] :
                f \in d.start .. 3},
           Put(d, "targets", GridTyped(d.targets, d.start, d.finish, d.total)),
           Put(d, "total", {Blank, 4})}

TargetsFit(t) == \A m \in Months : t[m] = None \/ AmountFits(t[m])
Stored(t) == [m \in Months |-> Won(t[m])]

(* Choosing a category names an item that has no name yet. *)
PlanCategoryChosen(d) ==
    {[d EXCEPT !.category = c,
               !.name = IF @ = Blank /\ c # Blank THEN "n" ELSE @] :
        c \in {Blank} \cup PlanCategory}
-----------------------------------------------------------------------------
(* An item of the year's plan. *)

AnnualItemEmpty == [name |-> Blank, owner |-> Blank, category |-> Blank,
                    start |-> 1, finish |-> 3,
                    targets |-> [m \in Months |-> None], total |-> Blank]

AnnualItemDraft(r) ==
    [name |-> r.name, owner |-> OrBlank(r.owner),
     category |-> OrBlank(ShownCategory(r)), start |-> r.start,
     finish |-> r.finish, targets |-> Shown(r), total |-> TotalOf(Shown(r))]

AnnualItemTyped(d, r) ==
    UNION {PlanCategoryChosen(d), PeriodTyped(d),
           Put(d, "name", TypedNames), Put(d, "owner", {Blank, "me"})}

AnnualItemReady(d) == d.name # Blank

AnnualItemBody(d, r) ==
    [name |-> d.name, owner |-> OrNone(d.owner), category |-> OrNone(d.category),
     start |-> d.start, finish |-> d.finish, targets |-> d.targets]

AnnualItemAccepts(b, r) == TargetsFit(b.targets)

(* The months that are sent replace the stored ones. *)
AnnualItemWrite(b, r) ==
    [name |-> b.name, owner |-> b.owner, category |-> b.category, start |-> b.start,
     finish |-> b.finish, targets |-> Stored(b.targets),
     rule |-> IF r = None THEN None ELSE r.rule]

AnnualItemSettled(d, r) ==
    LET linked == r # None /\ r.rule # None
        t == IF linked THEN Shown([r EXCEPT !.targets = Stored(d.targets)])
             ELSE Stored(d.targets)
    IN  [d EXCEPT !.targets = t, !.total = TotalOf(t),
                  !.category = IF linked THEN ShownCategory(r) ELSE @]

AnnualItemOffers == {"add", "delete"}

(* The month screen changes this month, and the period grows to it; the    *)
(* rule changes its amount or is deleted.                                  *)
PlanItemElsewhere(r) ==
    {[r EXCEPT !.targets[This] = 7, !.start = IF @ > This THEN This ELSE @,
               !.finish = IF @ < This THEN This ELSE @]}
        \cup IF r.rule = None THEN {}
             ELSE {[r EXCEPT !.rule.amount = 6], [r EXCEPT !.rule = None]}

-----------------------------------------------------------------------------
(* The same item on the month screen, which lists it while it has a row    *)
(* for the month.                                                          *)

MonthItemEmpty == [name |-> Blank, owner |-> Blank, amount |-> Blank,
                   category |-> Blank]

MonthItemDraft(r) ==
    [name |-> r.name, owner |-> OrBlank(r.owner), amount |-> Shown(r)[This],
     category |-> OrBlank(ShownCategory(r))]

(* Amount and category of a linked item are not editable here. *)
MonthItemTyped(d, r) ==
    UNION {Put(d, "name", TypedNames), Put(d, "owner", {Blank, "me"}),
           IF r # None /\ r.rule # None THEN {}
           ELSE PlanCategoryChosen(d) \cup Put(d, "amount", TypedAmounts)}

MonthItemReady(d) == d.name # Blank /\ d.amount # Blank

MonthItemBody(d, r) ==
    [d EXCEPT !.owner = OrNone(@), !.category = OrNone(@)]

MonthItemAccepts(b, r) == AmountFits(b.amount)

(* set_month_target: this month only, within a period that grows to it.    *)
MonthItemWrite(b, r) ==
    LET one == [name |-> b.name, owner |-> b.owner, category |-> b.category,
                start |-> This, finish |-> This,
                targets |-> [m \in Months |-> IF m = This THEN Won(b.amount)
                                              ELSE None],
                rule |-> None]
    IN  IF r = None THEN one
        ELSE [one EXCEPT !.start = IF r.start < @ THEN r.start ELSE @,
                         !.finish = IF r.finish > @ THEN r.finish ELSE @,
                         !.targets = [r.targets EXCEPT ![This] = Won(b.amount)],
                         !.rule = r.rule]

MonthItemSettled(d, r) == [d EXCEPT !.amount = Won(@)]

MonthItemOffers == {"add", "delete"}

MonthItemLists(r) == r.targets[This] # None

MutMonthItemAfter(r) == None

(* delete_month: the row of this month, and the item with its last row.    *)
MonthItemAfter(r) ==
    LET left == {m \in Months \ {This} : r.targets[m] # None}
    IN  IF left = {} THEN None
        ELSE [r EXCEPT !.targets[This] = None,
                       !.start = CHOOSE m \in left : \A k \in left : m <= k,
                       !.finish = CHOOSE m \in left : \A k \in left : m >= k]

-----------------------------------------------------------------------------
(* An amount split over the rest of the year: a new item with an equal     *)
(* part in each month, edited as an item afterwards.                       *)

SplitEmpty == [name |-> Blank, total |-> Blank, start |-> This, category |-> Blank]

SplitTyped(d, r) ==
    UNION {Put(d, "name", TypedNames), Put(d, "total", TypedAmounts),
           Put(d, "start", {Blank} \cup Months),
           Put(d, "category", {Blank} \cup PlanCategory)}

SplitReady(d) == d.name # Blank /\ d.total # Blank /\ d.start # Blank

SplitBody(d, r) == [d EXCEPT !.category = OrNone(@)]

SplitAccepts(b, r) == AmountFits(b.total)

SplitWrite(b, r) ==
    [name |-> b.name, owner |-> None, category |-> b.category, start |-> b.start,
     finish |-> 3, targets |-> Evenly(Won(b.total), b.start, 3), rule |-> None]

SplitOffers == {"add"}

-----------------------------------------------------------------------------
(* The year's plan of a savings product.  Until it is saved for the first  *)
(* time the form shows the monthly amount of the product in every month.   *)

ProductPlanRow == [start: Months, finish: Months,
                   targets: [Months -> {None} \cup Nat], monthly: Nat,
                   saved: BOOLEAN]

ProductPlanRows ==
    {[start |-> 1, finish |-> 3, targets |-> <<None, None, None>>, monthly |-> 2,
      saved |-> FALSE],
     [start |-> 2, finish |-> 3, targets |-> <<None, 1, 0>>, monthly |-> 2,
      saved |-> TRUE]}

ProductPlanDraft(r) ==
    LET t == IF r.saved THEN r.targets ELSE [m \in Months |-> r.monthly]
    IN  [start |-> IF r.saved THEN r.start ELSE 1,
         finish |-> IF r.saved THEN r.finish ELSE 3,
         targets |-> t, total |-> TotalOf(t)]

ProductPlanTyped(d, r) == PeriodTyped(d)

ProductPlanBody(d, r) ==
    [start |-> d.start, finish |-> d.finish, targets |-> d.targets]

ProductPlanWrite(b, r) ==
    [r EXCEPT !.start = b.start, !.finish = b.finish,
              !.targets = Stored(b.targets), !.saved = TRUE]

ProductPlanSettled(d, r) ==
    [d EXCEPT !.targets = Stored(@), !.total = TotalOf(Stored(d.targets))]

(* The monthly amount of the product is edited. *)
ProductPlanElsewhere(r) == {[r EXCEPT !.monthly = @ + 1]}
=============================================================================
