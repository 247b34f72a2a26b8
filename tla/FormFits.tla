------------------------------ MODULE FormFits ------------------------------
(***************************************************************************)
(* The inductive invariant of Forms.                                       *)
(***************************************************************************)
EXTENDS Forms

-----------------------------------------------------------------------------
AnyForm == Dialogs \cup Live

(* What a row of each form is beyond the type of its fields.               *)

CardFits(r) == r.pay \in {None} \cup r.open

LoanFits(r) == r.balance \in Nat /\ r.monthly \in Nat

ProductFits(r) ==
    /\ r.kind \in Kinds /\ r.monthly \in Nat /\ r.principal \in {None} \cup Nat
    /\ r.kind = "savings" => r.principal = None

RealEstateFits(r) ==
    /\ r.kind = "real_estate" /\ r.monthly = 0 /\ r.balance \in Nat
    /\ r.principal \in {None} \cup Nat

\* A category is of the kind of its transaction, and only a deposit has a
\* product.
TransactionFits(r) ==
    /\ KindOf[r.category] = r.type
    /\ r.product # None => r.category = Savings

\* An event that lasts all day has no times, one that happens once no end.
EventFits(r) ==
    /\ r.allDay => r.start[2] = "00:00" /\ (r.finish # None => r.finish[2] = "00:00")
    /\ r.frequency = "once" => r.until = None

\* The anchor is the first of the days, or the day of the start.
RecurringFits(r) ==
    /\ r.days # {} /\ (r.frequency # "monthly" => r.days = None)
    /\ r.days = None => r.anchor = DayOf[r.start]
    /\ r.days # None => r.anchor \in r.days /\ \A k \in r.days : r.anchor <= k

TodoFits(r) == r.frequency # "once" => r.due # None

\* A month with an amount lies in the period of its item.
MonthItemFits(r) == MonthItemLists(r) => r.start <= This /\ This <= r.finish

\* Each kind of goal has its own inputs, and the others are empty.
GoalFits(r) ==
    /\ r.kind = "challenge" => r.since # None /\ r.rate = None
    /\ r.kind # "challenge" => r.about = None /\ r.since = None
    /\ r.kind # "goal" => /\ r.age = None /\ r.monthly = 0 /\ r.products = {}
                          /\ r.targets = NoTargets
    /\ r.kind \in Derives => r.manual = 0
    /\ r.kind # "combined" => r.parts = {}
    /\ r.kind = "combined" => r.required = 2 * Cardinality(r.parts)
    /\ r.kind # "net_worth" => ~r.exclude
    /\ r.taken => r.products = {}
    /\ \A m \in Months : r.targets[m] = None => r.achieved[m] = 0
    /\ r.kind = "challenge" /\ r.required > 0 /\ r.manual >= r.required => r.done

\* Saved riders are numbered and decide the coverages.
PolicyFits(r) ==
    /\ Len(r.riders) <= 2
    /\ \A i \in DOMAIN r.riders : r.riders[i].id # None
    /\ r.coverages = Covered(r.riders, r.coverages)
    /\ r.insured # None => r.insuredName = None
    /\ r.type = "auto" => r.renewable
    /\ ~r.renewable => r.renewal = None

\* Somebody receives the notifications.
EmailsFits(r) == r.emails # {}

\* The card of a goal that is saved by typing: nothing of a plan is achieved.
ProgressFits(r) ==
    /\ r.kind \in {"goal", "challenge"} /\ GoalFits(r)
    /\ \A m \in Months : r.achieved[m] = 0
    /\ r.kind = "challenge" => r.required \in {2, 5}

RowFits(f, r) ==
    /\ r \in FormRow(f)
    /\ f = "card" => CardFits(r)
    /\ f = "loan" => LoanFits(r)
    /\ f = "product" => ProductFits(r)
    /\ f = "realEstate" => RealEstateFits(r)
    /\ f = "transaction" => TransactionFits(r)
    /\ f = "event" => EventFits(r)
    /\ f = "recurring" => RecurringFits(r)
    /\ f = "todo" => TodoFits(r)
    /\ f = "monthItem" => MonthItemFits(r)
    /\ f \in {"goal", "achieved"} => GoalFits(r)
    /\ f = "progress" => ProgressFits(r)
    /\ f = "policy" => PolicyFits(r)
    /\ f = "emails" => EmailsFits(r)

-----------------------------------------------------------------------------
(* What a draft holds: what was in the row b it was copied from, or in an  *)
(* empty one, and what can be typed.                                       *)

DraftOwners == {Blank, "me", "you", "gone"}
DraftAmounts == {Blank, TooBig} \cup Nat
DraftTargets == [Months -> {None, Blank, TooBig} \cup Nat]

\* A member who has left stays in the row that names him.
OwnersOver(o) == {Blank, "me", OrBlank(o)}

AccountDrafts == [name: TypedNames, type: {"bank", "cash"},
                  amount: Int \cup {Blank, TooBig, Sign}, owner: DraftOwners]

CardDrafts(b) ==
    [name: TypedNames, type: {"credit", "debit"},
     pay: {Blank} \cup IF b = None THEN {"a"} ELSE b.open,
     owner: OwnersOver(IF b = None THEN None ELSE b.owner), applyToUnlinked: BOOLEAN]

LoanDrafts == [name: TypedNames, balance: DraftAmounts, monthly: DraftAmounts,
               since: {Blank, "2024-01"}, term: Int \cup {Blank, Malformed},
               rate: Int \cup {Blank}, method: {Blank, "bullet"}, owner: DraftOwners]

ProductDrafts(b) ==
    [name: TypedNames, balance: TypedAmounts \cup {IF b = None THEN 0 ELSE b.balance},
     monthly: DraftAmounts, kind: Kinds, principal: DraftAmounts, owner: DraftOwners]

RealEstateDrafts == [name: TypedNames, balance: DraftAmounts, principal: DraftAmounts,
                     owner: DraftOwners]

\* The card a transaction was booked with stays a choice.
CardsOver(b) == {Blank, "c"} \cup (IF b = None THEN {} ELSE {OrBlank(b.card)})

TransactionDrafts(b) ==
    [ui: {"expense", "income", "savings"}, amount: DraftAmounts,
     type: {"income", "expense"}, category: {Blank} \cup Category,
     date: {Blank} \cup Dates, memo: TypedNames,
     method: {Blank, "cash", "credit_card", "debit_card"},
     account: {Blank, "a", "b", "z"}, product: {Blank, "p", "q"},
     card: CardsOver(b),
     owner: DraftOwners]

\* What the three types of the form have to do with the two of a transaction.
TypesAgree(d) ==
    /\ d.type = IF d.ui = "income" THEN "income" ELSE "expense"
    /\ d.ui = "savings" <=> d.category = Savings
    /\ d.ui # "savings" => d.product = Blank
    /\ d.category # Blank => KindOf[d.category] = d.type

EventDrafts(b) ==
    [title: TypedNames, allDay: BOOLEAN, startDate: {Blank} \cup Dates,
     startTime: {Blank} \cup Times, endDate: {Blank} \cup Dates,
     endTime: {Blank} \cup Times, frequency: {"once", "weekly"},
     until: {Blank} \cup Dates, reminder: {Blank, 10},
     assignee: OwnersOver(IF b = None THEN None ELSE b.assignee)]

RecurringDrafts ==
    [name: TypedNames, category: {Blank} \cup Category, amount: DraftAmounts,
     type: {"income", "expense"}, frequency: {"weekly", "monthly"},
     days: SUBSET {15, 31}, start: {Blank} \cup Dates, finish: {Blank} \cup Dates,
     remind: {Blank} \cup Nat]

TodoDrafts(b) ==
    [title: TypedNames, assignee: OwnersOver(IF b = None THEN None ELSE b.assignee),
     due: {Blank} \cup Dates, frequency: {"once", "monthly"}, memo: TypedNames]

CategoryDrafts == [name: TypedNames, kind: {"income", "expense"},
                   type: {"fixed", "variable"}, color: {"red", "blue"},
                   group: {Blank, "living"}]

AnnualItemDrafts ==
    [name: TypedNames, owner: DraftOwners, category: {Blank} \cup PlanCategory,
     start: Months, finish: Months, targets: DraftTargets, total: {Blank} \cup Nat]

MonthItemDrafts == [name: TypedNames, owner: DraftOwners, amount: DraftAmounts,
                    category: {Blank} \cup PlanCategory]

\* The amount and the category of a rule are not edited with its item.
RuleStands(d, b) ==
    b # None /\ b.rule # None =>
        d.amount = b.rule.amount /\ d.category = b.rule.category

SplitDrafts == [name: TypedNames, total: DraftAmounts,
                start: {Blank} \cup Months, category: {Blank} \cup PlanCategory]

ProductPlanDrafts ==
    [start: Months, finish: Months, targets: DraftTargets, total: {Blank} \cup Nat]

GoalDrafts(b) ==
    [kind: GoalKinds, name: TypedNames, priority: {Blank} \cup Nat, about: {Blank, "n"},
     age: {Blank, 40}, date: {Blank} \cup Months, since: {Blank} \cup Months,
     required: DraftAmounts, monthly: DraftAmounts, rate: {Blank} \cup Nat,
     current: DraftAmounts \cup {IF b = None THEN 0 ELSE Progress(b)},
     products: SUBSET {"p"}, targets: DraftTargets, parts: SUBSET Members,
     exclude: BOOLEAN]

\* The inputs of another kind are empty, and the kind of a goal stays.
KindsAgree(d, b) ==
    /\ b # None => d.kind = b.kind
    /\ d.kind = "challenge" => d.rate = Blank /\ d.monthly = 0
    /\ d.kind # "challenge" => d.about = Blank
    /\ d.kind # "goal" => d.age = Blank /\ d.products = {} /\ d.targets = NoTargets
    /\ d.kind # "combined" => d.parts = {}
    /\ d.kind # "net_worth" => ~d.exclude
    /\ ~Free(b) => d.products = {}

ProgressDrafts == [current: {None} \cup DraftAmounts]
AchievedDrafts == [Months -> {None} \cup DraftAmounts]

DraftRiders(b) ==
    [id: {None} \cup (IF b = None THEN {} ELSE {b.riders[i].id : i \in DOMAIN b.riders}),
     coverage: {"cancer", "other"}, amount: {Blank} \cup Nat, premium: DraftAmounts,
     finish: {None, "d1"}]

PolicyDrafts(b) ==
    [name: TypedNames, type: PolicyTypes,
     insured: Members \cup {None, IF b = None THEN None ELSE b.insured},
     insuredName: TypedNames, premium: DraftAmounts, renewable: BOOLEAN,
     renewal: {Blank, "d1"}, coverages: SUBSET Coverages,
     riders: Seq(DraftRiders(b)), rule: {Blank, "r"}]

TargetsDrafts == [cancer: DraftAmounts, death: DraftAmounts]
ThresholdsDrafts == [warn: {None} \cup 0 .. 3, critical: {None} \cup 0 .. 3]
PrefsDrafts == [weekly: {None} \cup BOOLEAN, todo: {None} \cup BOOLEAN]
EmailsDrafts == [email: {Blank, "b@", "c@", Malformed}, drop: {None, "a@", "b@", "c@"}]
NameDrafts == [name: {None} \cup TypedNames]

DraftFits(f, d, b) ==
    CASE f = "account" -> d \in AccountDrafts
      [] f = "card" -> d \in CardDrafts(b)
      [] f = "loan" -> d \in LoanDrafts
      [] f = "product" -> d \in ProductDrafts(b)
      [] f = "realEstate" -> d \in RealEstateDrafts
      [] f = "transaction" -> d \in TransactionDrafts(b) /\ TypesAgree(d)
      [] f = "event" -> d \in EventDrafts(b)
      [] f = "recurring" -> d \in RecurringDrafts
      [] f = "todo" -> d \in TodoDrafts(b) /\ (d.frequency # "once" => d.due # Blank)
      [] f = "category" -> d \in CategoryDrafts
      [] f = "annualItem" -> d \in AnnualItemDrafts
      [] f = "monthItem" -> d \in MonthItemDrafts /\ RuleStands(d, b)
      [] f = "split" -> d \in SplitDrafts
      [] f = "productPlan" -> d \in ProductPlanDrafts
      [] f = "goal" -> d \in GoalDrafts(b) /\ KindsAgree(d, b)
      [] f = "progress" -> d \in ProgressDrafts
      [] f = "achieved" -> d \in AchievedDrafts
      [] f = "policy" -> d \in PolicyDrafts(b) /\ Len(d.riders) <= 2
      [] f = "targets" -> d \in TargetsDrafts
      [] f = "thresholds" -> d \in ThresholdsDrafts
      [] f = "prefs" -> d \in PrefsDrafts
      [] f = "emails" -> d \in EmailsDrafts
      [] f = "name" -> d \in NameDrafts

\* The button of an address sends a draft of its own, the input never has one
\* to drop.
Inputs(f, d) == f = "emails" => d.drop = None

\* What is sent has passed the check of its form, or comes from a chip or a
\* button that knows better.
Sendable(f, d, b) ==
    CASE f = "transaction" -> d.amount # Blank /\ d.category # Blank
      [] f = "prefs" -> TRUE
      [] f = "emails" -> IF d.drop = None THEN d.email # Blank ELSE b.emails # {d.drop}
      [] OTHER -> FormReady(f, d, b)

-----------------------------------------------------------------------------
\* A row a dialog can be open on, and what a dialog is about: that, or a new
\* row.
Opens(f, r) == r # None /\ RowFits(f, r) /\ FormLists(f, r)
OnRow(f, t, r) ==
    IF t = New THEN r = None /\ FormOffers(f, "add")
    ELSE t \in Ids /\ Opens(f, r)

\* A row as the side request of its dialog would have it.
Linked(f, r) == f \in {"product", "realEstate"} /\ r.linked \in BOOLEAN

\* What a row has for as long as it is there: a goal stays of its kind.
Kin(f, r, s) == f \in {"goal", "progress"} => r.kind = s.kind

-----------------------------------------------------------------------------
\* What EditDialog relies on: each operator of a form takes rows, drafts and
\* requests of that form to such.
RowsStay(f) ==
    /\ \A r \in FormRows(f) : RowFits(f, r)
    /\ \A r : RowFits(f, r) => \A x \in FormElsewhere(f, r) : RowFits(f, x) /\ Kin(f, x, r)
    /\ \A r : RowFits(f, r) /\ FormAfter(f, r) # None =>
           RowFits(f, FormAfter(f, r)) /\ Kin(f, FormAfter(f, r), r)
    /\ \A r : RowFits(f, r) => \A x \in FormLinks(f, r) : Linked(f, x)
    /\ \A r, x : RowFits(f, r) /\ Linked(f, x) => RowFits(f, [r EXCEPT !.linked = x.linked])

DraftsStay(f) ==
    /\ FormOffers(f, "add") => DraftFits(f, FormEmpty(f), None)
    /\ \A r : Opens(f, r) => DraftFits(f, FormDraft(f, r), r) /\ Inputs(f, FormDraft(f, r))
    /\ \A d, t, r : OnRow(f, t, r) /\ DraftFits(f, d, r) /\ Inputs(f, d) =>
           \A x \in FormTyped(f, d, r) : DraftFits(f, x, r) /\ Inputs(f, x)
    /\ f \in Live => \A d, r, s : DraftFits(f, d, r) => DraftFits(f, d, s)

RequestsFit(f) ==
    /\ \A d, t, r : OnRow(f, t, r) /\ DraftFits(f, d, r) /\ Inputs(f, d)
                       /\ FormReady(f, d, r) => Sendable(f, d, r)
    /\ \A d, t, r : OnRow(f, t, r) /\ DraftFits(f, d, r) =>
           \A x \in FormSuggested(f, d, r) : DraftFits(f, x, r) /\ Sendable(f, x, r)
    /\ \A d, t, r, s :
           /\ OnRow(f, t, r) /\ DraftFits(f, d, r) /\ Sendable(f, d, r)
           /\ IF t = New THEN s = None ELSE s # None /\ RowFits(f, s) /\ Kin(f, r, s)
           /\ FormAccepts(f, FormBody(f, d, r), s)
           => /\ RowFits(f, FormWrite(f, FormBody(f, d, r), s))
              /\ t # New => Kin(f, FormWrite(f, FormBody(f, d, r), s), s)

Contract(f) == RowsStay(f) /\ DraftsStay(f) /\ RequestsFit(f)

-----------------------------------------------------------------------------
(* What a form promises of a request, on the row it was made for.          *)

\* The draft a dialog opened with.
Original(f, t, r) == IF t = New THEN FormEmpty(f) ELSE FormDraft(f, r)

\* What BadInput, KnownGap and ShownOtherwise say, of one form.
Unsuited(f, d, o) ==
    \E k \in DOMAIN d :
        /\ d[k] # o[k]
        /\ IF f \in {"annualItem", "productPlan", "goal"} /\ k = "targets"
           THEN \E m \in Months : d.targets[m] = TooBig
           ELSE IF f = "policy" /\ k = "riders"
           THEN \E i \in DOMAIN d.riders : TooBig \in {d.riders[i].amount, d.riders[i].premium}
           ELSE d[k] \in NoInput

Gap(f, d, r) ==
    \/ f = "product" /\ r # None /\ r.balance < 0
    \/ f = "goal" /\ r # None /\ Progress(r) < 0
    \/ f = "goal" /\ d.kind = "challenge" /\ d.since = Blank
    \/ f = "transaction" /\ d.date = Blank
    \/ f = "thresholds" /\ ~InOrder(FormBody(f, d, r))

Differs(f, r) ==
    CASE f \in {"annualItem", "monthItem"} -> r.rule # None
      [] f = "productPlan" -> ~r.saved
      [] f = "goal" -> Progress(r) # r.manual
      [] OTHER -> FALSE

Answers(f) ==
    /\ \A d, t, r :
           /\ OnRow(f, t, r) /\ DraftFits(f, d, r) /\ Sendable(f, d, r)
           /\ ~FormAccepts(f, FormBody(f, d, r), r)
           => Unsuited(f, d, Original(f, t, r)) \/ Gap(f, d, r)
    /\ \A r : /\ Opens(f, r) /\ ~Differs(f, r) /\ Sendable(f, FormDraft(f, r), r)
               /\ FormAccepts(f, FormBody(f, FormDraft(f, r), r), r)
              => FormWrite(f, FormBody(f, FormDraft(f, r), r), r) = r
    /\ \A d, t, r, w :
           /\ OnRow(f, t, r) /\ DraftFits(f, d, r) /\ Sendable(f, d, r)
           /\ FormAccepts(f, FormBody(f, d, r), r)
           /\ w = FormWrite(f, FormBody(f, d, r), r) /\ FormLists(f, w)
           => FormShows(f, FormDraft(f, w), w) = FormSettled(f, d, r)

-----------------------------------------------------------------------------
Table(t) == t = [i \in Ids |-> t[i]] /\ \A i \in Ids : t[i] # None => RowFits(form, t[i])

\* What is remembered of a row goes with what has become of it: a removed row
\* does not come back, and nothing is remembered of rows to come.
Known(i, r) ==
    r # None => i < fresh /\ (server[i] # None => Kin(form, r, server[i]))

TablesFit ==
    /\ form \in AnyForm /\ fresh \in Nat
    /\ Table(server) /\ Table(cache)
    /\ \A i \in Ids : i >= fresh => server[i] = None
    /\ \A i \in Ids : Known(i, cache[i])

\* An open dialog is on a row of its form, and inputs over the cache are over a
\* row that is there.
DialogFits ==
    dialog # None =>
        /\ dialog = [target |-> dialog.target, base |-> dialog.base, draft |-> dialog.draft]
        /\ OnRow(form, dialog.target, dialog.base)
        /\ DraftFits(form, dialog.draft, dialog.base) /\ Inputs(form, dialog.draft)
        /\ dialog.target # New => Known(dialog.target, dialog.base)
        /\ form \in Live => Opens(form, cache[dialog.target])

WireFits ==
    wire # None =>
        /\ OnRow(form, wire.target, wire.base)
        /\ DraftFits(form, wire.draft, wire.base) /\ Sendable(form, wire.draft, wire.base)
        /\ wire.body = FormBody(form, wire.draft, wire.base)
        /\ wire.target = New => fresh \in Ids
        /\ wire.target # New => Known(wire.target, wire.base)

OthersFit ==
    /\ kept # None => FormOffers(form, "add") /\ DraftFits(form, kept, None)
                      /\ Inputs(form, kept)
    /\ side # None => side.target \in Ids /\ Linked(form, side.row)
    /\ doomed # None => doomed \in Ids /\ form # "split"

\* Whoever is about to create a row has asked for one.
Asked ==
    /\ due \in Nat /\ fresh =< due
    /\ dialog # None /\ dialog.target = New => fresh < due
    /\ wire # None /\ wire.target = New => fresh < due

IInv == TablesFit /\ DialogFits /\ WireFits /\ OthersFit /\ Asked
=============================================================================
