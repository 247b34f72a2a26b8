-------------------------------- MODULE Forms --------------------------------
(***************************************************************************)
(* The edit dialogs of the frontend: EditDialog with every form of the     *)
(* form modules.                                                           *)
(***************************************************************************)
EXTENDS AssetForms, LedgerForms, GoalForms, HouseholdForms

CONSTANTS Form, Ids, New, MaxTouches, MaxOpens, MaxFaults

VARIABLES form, server, fresh, cache, dialog, kept, wire, side, doomed, due,
          touches, opens, faults

FormRow(f) ==
    CASE f = "account" -> AccountRow [] f = "card" -> CardRow
      [] f = "loan" -> LoanRow [] f = "product" -> ProductRow
      [] f = "realEstate" -> ProductRow [] f = "transaction" -> TransactionRow
      [] f = "event" -> EventRow [] f = "recurring" -> RecurringRow
      [] f = "todo" -> TodoRow [] f = "category" -> CategoryRow
      [] f = "annualItem" -> PlanItemRow [] f = "monthItem" -> PlanItemRow
      [] f = "split" -> PlanItemRow [] f = "productPlan" -> ProductPlanRow
      [] f = "goal" -> GoalRow [] f = "progress" -> GoalRow
      [] f = "achieved" -> GoalRow [] f = "policy" -> PolicyRow
      [] f = "targets" -> TargetsRow [] f = "thresholds" -> ThresholdsRow
      [] f = "prefs" -> PrefsRow [] f = "emails" -> EmailsRow
      [] f = "name" -> NameRow

FormRows(f) ==
    CASE f = "account" -> AccountRows [] f = "card" -> CardRows
      [] f = "loan" -> LoanRows [] f = "product" -> ProductRows
      [] f = "realEstate" -> RealEstateRows
      [] f = "transaction" -> TransactionRows [] f = "event" -> EventRows
      [] f = "recurring" -> RecurringRows [] f = "todo" -> TodoRows
      [] f = "category" -> CategoryRows [] f = "annualItem" -> PlanItemRows
      [] f = "monthItem" -> PlanItemRows [] f = "split" -> PlanItemRows
      [] f = "productPlan" -> ProductPlanRows [] f = "goal" -> GoalRows
      [] f = "progress" -> ProgressRows [] f = "achieved" -> AchievedRows
      [] f = "policy" -> PolicyRows [] f = "targets" -> TargetsRows
      [] f = "thresholds" -> ThresholdsRows [] f = "prefs" -> PrefsRows
      [] f = "emails" -> EmailsRows [] f = "name" -> NameRows

FormEmpty(f) ==
    CASE f = "account" -> AccountEmpty [] f = "card" -> CardEmpty
      [] f = "loan" -> LoanEmpty [] f = "product" -> ProductEmpty
      [] f = "realEstate" -> RealEstateEmpty
      [] f = "transaction" -> TransactionEmpty [] f = "event" -> EventEmpty
      [] f = "recurring" -> RecurringEmpty [] f = "todo" -> TodoEmpty
      [] f = "category" -> CategoryEmpty [] f = "annualItem" -> AnnualItemEmpty
      [] f = "monthItem" -> MonthItemEmpty [] f = "split" -> SplitEmpty
      [] f = "goal" -> GoalEmpty [] f = "policy" -> PolicyEmpty

FormDraft(f, r) ==
    CASE f = "account" -> AccountDraft(r) [] f = "card" -> CardDraft(r)
      [] f = "loan" -> LoanDraft(r) [] f = "product" -> ProductDraft(r)
      [] f = "realEstate" -> RealEstateDraft(r)
      [] f = "transaction" -> TransactionDraft(r)
      [] f = "event" -> EventDraft(r) [] f = "recurring" -> RecurringDraft(r)
      [] f = "todo" -> TodoDraft(r) [] f = "category" -> CategoryDraft(r)
      [] f = "annualItem" -> AnnualItemDraft(r)
      [] f = "monthItem" -> MonthItemDraft(r) [] f = "split" -> SplitEmpty
      [] f = "productPlan" -> ProductPlanDraft(r) [] f = "goal" -> GoalDraft(r)
      [] f = "progress" -> [current |-> None]
      [] f = "achieved" -> AchievedDraft(r) [] f = "policy" -> PolicyDraft(r)
      [] f = "targets" -> r [] f = "thresholds" -> Untouched(r)
      [] f = "prefs" -> Untouched(r) [] f = "emails" -> EmailsDraft(r)
      [] f = "name" -> Untouched(r)

FormTyped(f, d, r) ==
    CASE f = "account" -> AccountTyped(d, r) [] f = "card" -> CardTyped(d, r)
      [] f = "loan" -> LoanTyped(d, r) [] f = "product" -> ProductTyped(d, r)
      [] f = "realEstate" -> RealEstateTyped(d, r)
      [] f = "transaction" -> TransactionTyped(d, r)
      [] f = "event" -> EventTyped(d, r)
      [] f = "recurring" -> RecurringTyped(d, r)
      [] f = "todo" -> TodoTyped(d, r) [] f = "category" -> CategoryTyped(d, r)
      [] f = "annualItem" -> AnnualItemTyped(d, r)
      [] f = "monthItem" -> MonthItemTyped(d, r)
      [] f = "split" -> SplitTyped(d, r)
      [] f = "productPlan" -> ProductPlanTyped(d, r)
      [] f = "goal" -> GoalTyped(d, r) [] f = "progress" -> ProgressTyped(d, r)
      [] f = "achieved" -> AchievedTyped(d, r)
      [] f = "policy" -> PolicyTyped(d, r)
      [] f = "targets" -> TargetsTyped(d, r)
      [] f = "thresholds" -> ThresholdsTyped(d, r) [] f = "prefs" -> {}
      [] f = "emails" -> EmailsTyped(d, r) [] f = "name" -> NameTyped(d, r)

FormReady(f, d, r) ==
    CASE f = "account" -> AccountReady(d) [] f = "card" -> CardReady(d)
      [] f = "loan" -> LoanReady(d) [] f = "product" -> ProductReady(d)
      [] f = "realEstate" -> RealEstateReady(d)
      [] f = "transaction" -> TransactionReady(d)
      [] f = "event" -> EventReady(d) [] f = "recurring" -> RecurringReady(d)
      [] f = "todo" -> TodoReady(d) [] f = "category" -> CategoryReady(d)
      [] f = "annualItem" -> AnnualItemReady(d)
      [] f = "monthItem" -> MonthItemReady(d) [] f = "split" -> SplitReady(d)
      [] f = "productPlan" -> TRUE [] f = "goal" -> GoalReady(d)
      [] f = "progress" -> TRUE [] f = "achieved" -> TRUE
      [] f = "policy" -> PolicyReady(d) [] f = "targets" -> TRUE
      [] f = "thresholds" -> ThresholdsReady(d) [] f = "prefs" -> FALSE
      [] f = "emails" -> EmailsReady(d, r) [] f = "name" -> NameReady(d, r)

FormBody(f, d, r) ==
    CASE f = "account" -> AccountBody(d, r) [] f = "card" -> CardBody(d, r)
      [] f = "loan" -> LoanBody(d, r) [] f = "product" -> ProductBody(d, r)
      [] f = "realEstate" -> RealEstateBody(d, r)
      [] f = "transaction" -> TransactionBody(d, r)
      [] f = "event" -> EventBody(d, r)
      [] f = "recurring" -> RecurringBody(d, r) [] f = "todo" -> TodoBody(d, r)
      [] f = "category" -> CategoryBody(d, r)
      [] f = "annualItem" -> AnnualItemBody(d, r)
      [] f = "monthItem" -> MonthItemBody(d, r)
      [] f = "split" -> SplitBody(d, r)
      [] f = "productPlan" -> ProductPlanBody(d, r)
      [] f = "goal" -> GoalBody(d, r) [] f = "progress" -> ProgressBody(d, r)
      [] f = "achieved" -> AchievedBody(d, r)
      [] f = "policy" -> PolicyBody(d, r) [] f = "targets" -> TargetsBody(d, r)
      [] f = "thresholds" -> ThresholdsBody(d, r) [] f = "prefs" -> Over(d, r)
      [] f = "emails" -> EmailsBody(d, r) [] f = "name" -> Over(d, r)

FormAccepts(f, b, r) ==
    CASE f = "account" -> AccountAccepts(b, r)
      [] f = "card" -> CardAccepts(b, r) [] f = "loan" -> LoanAccepts(b, r)
      [] f = "product" -> ProductAccepts(b, r)
      [] f = "realEstate" -> ProductAccepts(b, r)
      [] f = "transaction" -> TransactionAccepts(b, r)
      [] f = "event" -> EventAccepts(b, r)
      [] f = "recurring" -> RecurringAccepts(b, r)
      [] f = "todo" -> TodoAccepts(b, r)
      [] f = "category" -> CategoryAccepts(b, r)
      [] f = "annualItem" -> AnnualItemAccepts(b, r)
      [] f = "monthItem" -> MonthItemAccepts(b, r)
      [] f = "split" -> SplitAccepts(b, r)
      [] f = "productPlan" -> AnnualItemAccepts(b, r)
      [] f = "goal" -> GoalAccepts(b, r) [] f = "progress" -> GoalAccepts(b, r)
      [] f = "achieved" -> AchievedAccepts(b, r)
      [] f = "policy" -> PolicyAccepts(b, r)
      [] f = "targets" -> TargetsAccepts(b, r)
      [] f = "thresholds" -> ThresholdsAccepts(b, r) [] f = "prefs" -> TRUE
      [] f = "emails" -> EmailsAccepts(b, r) [] f = "name" -> TRUE

FormWrite(f, b, r) ==
    CASE f = "account" -> AccountWrite(b, r) [] f = "card" -> CardWrite(b, r)
      [] f = "loan" -> LoanWrite(b, r) [] f = "product" -> ProductWrite(b, r)
      [] f = "realEstate" -> ProductWrite(b, r)
      [] f = "transaction" -> TransactionWrite(b, r)
      [] f = "event" -> EventWrite(b, r)
      [] f = "recurring" -> RecurringWrite(b, r)
      [] f = "todo" -> TodoWrite(b, r) [] f = "category" -> CategoryWrite(b, r)
      [] f = "annualItem" -> AnnualItemWrite(b, r)
      [] f = "monthItem" -> MonthItemWrite(b, r)
      [] f = "split" -> SplitWrite(b, r)
      [] f = "productPlan" -> ProductPlanWrite(b, r)
      [] f = "goal" -> GoalWrite(b, r) [] f = "progress" -> GoalWrite(b, r)
      [] f = "achieved" -> AchievedWrite(b, r)
      [] f = "policy" -> PolicyWrite(b, r) [] f = "targets" -> b
      [] f = "thresholds" -> b [] f = "prefs" -> b [] f = "emails" -> b
      [] f = "name" -> b

FormElsewhere(f, r) ==
    CASE f = "account" -> AccountElsewhere(r) [] f = "card" -> CardElsewhere(r)
      [] f = "loan" -> LoanElsewhere(r) [] f = "product" -> ProductElsewhere(r)
      [] f = "realEstate" -> ProductElsewhere(r)
      [] f = "transaction" -> TransactionElsewhere(r)
      [] f = "event" -> EventElsewhere(r)
      [] f = "recurring" -> RecurringElsewhere(r)
      [] f = "todo" -> TodoElsewhere(r)
      [] f = "category" -> CategoryElsewhere(r)
      [] f = "annualItem" -> PlanItemElsewhere(r)
      [] f = "monthItem" -> PlanItemElsewhere(r) [] f = "split" -> {}
      [] f = "productPlan" -> ProductPlanElsewhere(r)
      [] f = "goal" -> GoalElsewhere(r)
      [] f = "progress" -> ProgressElsewhere(r)
      [] f = "achieved" -> AchievedElsewhere(r)
      [] f = "policy" -> PolicyElsewhere(r)
      [] f = "targets" -> TargetsElsewhere(r)
      [] f = "thresholds" -> ThresholdsElsewhere(r)
      [] f = "prefs" -> PrefsElsewhere(r) [] f = "emails" -> EmailsElsewhere(r)
      [] f = "name" -> NameElsewhere(r)

FormSettled(f, d, r) ==
    CASE f = "account" -> AccountSettled(d, r)
      [] f = "card" -> CardSettled(d, r) [] f = "loan" -> LoanSettled(d, r)
      [] f = "product" -> ProductSettled(d, r)
      [] f = "realEstate" -> RealEstateSettled(d, r)
      [] f = "transaction" -> TransactionSettled(d, r)
      [] f = "event" -> EventSettled(d, r)
      [] f = "recurring" -> RecurringSettled(d, r)
      [] f = "todo" -> TodoSettled(d, r)
      [] f = "category" -> CategorySettled(d, r)
      [] f = "annualItem" -> AnnualItemSettled(d, r)
      [] f = "monthItem" -> MonthItemSettled(d, r) [] f = "split" -> d
      [] f = "productPlan" -> ProductPlanSettled(d, r)
      [] f = "goal" -> GoalSettled(d, r)
      [] f = "progress" -> ProgressSettled(d, r)
      [] f = "achieved" -> AchievedSettled(d, r)
      [] f = "policy" -> PolicySettled(d, r)
      [] f = "targets" -> TargetsBody(d, r) [] f = "thresholds" -> Over(d, r)
      [] f = "prefs" -> Over(d, r) [] f = "emails" -> EmailsBody(d, r)
      [] f = "name" -> Over(d, r)


FormLinks(f, r) == IF f \in {"product", "realEstate"} THEN ProductLinks(r) ELSE {}

FormSuggested(f, d, r) ==
    CASE f = "transaction" -> IF r = None THEN TransactionSuggested(d) ELSE {}
      [] f = "prefs" -> PrefsSuggested(r) [] f = "emails" -> EmailsSuggested(r)
      [] OTHER -> {}

FormAfter(f, r) == IF f = "monthItem" THEN MonthItemAfter(r) ELSE None

FormLists(f, r) ==
    CASE f = "monthItem" -> MonthItemLists(r) [] f = "split" -> FALSE
      [] f = "progress" -> ProgressLists(r) [] f = "achieved" -> AchievedLists(r)
      [] OTHER -> TRUE

(* What a section shows of a row with a draft laid over it; a dialog shows *)
(* its draft.                                                              *)
FormShows(f, d, r) ==
    CASE f = "progress" -> ProgressShows(d, r) [] f = "achieved" -> AchievedShows(d, r)
      [] f \in {"thresholds", "prefs", "name"} -> Over(d, r)
      [] f = "emails" -> r
      [] OTHER -> d

Dialogs == {"account", "card", "loan", "product", "realEstate", "transaction",
            "event", "recurring", "todo", "category", "annualItem", "monthItem",
            "split", "productPlan", "goal", "policy", "targets"}
Live == {"progress", "achieved", "thresholds", "prefs", "emails", "name"}

ASSUME FormsAssumption ==
    /\ Form \subseteq Dialogs \cup Live
    /\ Ids \subseteq Nat \ {0} /\ 1 \in Ids /\ New \notin Ids
    /\ \A f \in Dialogs \cup Live : None \notin FormRow(f)

FormOffers(f, what) ==
    what \in CASE f = "account" -> AccountOffers [] f = "card" -> CardOffers
              [] f = "loan" -> LoanOffers [] f = "product" -> ProductOffers
              [] f = "realEstate" -> RealEstateOffers
              [] f = "transaction" -> TransactionOffers
              [] f = "event" -> EventOffers [] f = "recurring" -> RecurringOffers
              [] f = "todo" -> TodoOffers [] f = "category" -> CategoryOffers
              [] f = "annualItem" -> AnnualItemOffers
              [] f = "monthItem" -> MonthItemOffers [] f = "split" -> SplitOffers
              [] f = "goal" -> GoalOffers [] f = "policy" -> PolicyOffers
              [] f \in {"productPlan", "targets"} -> {}
              [] f \in Live -> {"live"}

INSTANCE EditDialog
    WITH Rows <- FormRows, Empty <- FormEmpty, Draft <- FormDraft,
         Typed <- FormTyped, Ready <- FormReady, Body <- FormBody,
         Accepts <- FormAccepts, Write <- FormWrite,
         Elsewhere <- FormElsewhere, Links <- FormLinks,
         Suggested <- FormSuggested, After <- FormAfter, Lists <- FormLists,
         Offers <- FormOffers

Opened(w) == IF w.target = New THEN FormEmpty(form) ELSE FormDraft(form, w.base)

Touched(w) == {k \in DOMAIN w.draft : w.draft[k] # Opened(w)[k]}

(* The row is still the one the dialog was opened on. *)
Unmoved(w) == w.target # New => server[w.target] = w.base

(* What the server shows instead of what is stored: a linked plan item has *)
(* the amount and the category of its rule, a product plan that was never  *)
(* saved the monthly amount of the product, and a goal the progress that   *)
(* is computed for it.  A save stores what was shown.                      *)
ShownOtherwise(r) ==
    CASE form \in {"annualItem", "monthItem"} -> r.rule # None
      [] form = "productPlan" -> ~r.saved
      [] form = "goal" -> Progress(r) # r.manual
      [] OTHER -> FALSE

(* An untouched dialog that is saved writes back the row it was opened on. *)
UntouchedSaveChangesNothing ==
    [][/\ wire # None /\ wire' = None /\ wire.target # New
       /\ Touched(wire) = {} /\ Unmoved(wire) /\ ~ShownOtherwise(wire.base)
       => server' = server]_vars

(* What a save wrote is what the dialog showed: opened again, it shows the *)
(* draft that was sent.                                                    *)
ReopensAsSaved ==
    [][wire # None /\ wire' = None /\ server' # server /\ Unmoved(wire)
       => LET t == IF wire.target = New THEN fresh ELSE wire.target
          IN  FormLists(form, server'[t]) =>
                  FormShows(form, FormDraft(form, server'[t]), server'[t])
                      = FormSettled(form, wire.draft, wire.base)]_vars

(* An amount, or a text, that no input should have taken. *)
NoInput == {Sign, Malformed, TooBig}
BadInput(w) ==
    \E k \in Touched(w) :
        IF form \in {"annualItem", "productPlan", "goal"} /\ k = "targets"
        THEN \E m \in Months : w.draft.targets[m] = TooBig
        ELSE IF form = "policy" /\ k = "riders"
        THEN \E i \in DOMAIN w.draft.riders :
                 TooBig \in {w.draft.riders[i].amount, w.draft.riders[i].premium}
        ELSE w.draft[k] \in NoInput

(* What a form lets through and the server refuses, although every input   *)
(* is right: a product that is below zero, a goal whose sources are, a     *)
(* chip that books on a date the user has cleared, a challenge without a   *)
(* start, thresholds in the wrong order.                                   *)
KnownGap(w) ==
    \/ form = "product" /\ w.base # None /\ w.base.balance < 0
    \/ form = "goal" /\ w.base # None /\ Progress(w.base) < 0
    \/ form = "goal" /\ w.draft.kind = "challenge" /\ w.draft.since = Blank
    \/ form = "transaction" /\ w.draft.date = Blank
    \/ form = "thresholds" /\ ~InOrder(w.body)

(* A draft that a form lets through is refused only for what an input      *)
(* should not have taken, because the row is gone or has moved on, or for  *)
(* one of the known gaps.                                                  *)
OnlyBadInputRefused ==
    wire # None /\ ~Taken(wire) =>
        BadInput(wire) \/ KnownGap(wire) \/ ~Unmoved(wire)

(* Nothing is created twice: since the last dialog for a new row was opened *)
(* one row has been stored at most, and one more for each that was stored  *)
(* and whose answer was lost.  A closed dialog leaves no room for another. *)
NoneTwice == fresh =< due

(* A step of this browser: an answer, or a confirmed removal. *)
Own == (wire # None /\ wire' = None) \/ (doomed # None /\ doomed' = None)

(* Whatever is saved or removed on the month screen is about that month:   *)
(* the plan of the others stays, and the item with it.                     *)
OtherMonthsKept ==
    [][form = "monthItem" /\ Own =>
        \A i \in Ids, m \in Months \ {This} :
            server[i] # None => LET was == server[i].targets[m]
                                IN  was # None => /\ server'[i] # None
                                                  /\ server'[i].targets[m] = was]_vars

(* An amount that is split over the year is all there. *)
SplitExact ==
    [][form = "split" /\ server' # server =>
        SumOf(server'[fresh].targets) = Won(wire.draft.total)]_vars

(* A goal form that touched neither the end nor the plan loses nothing of  *)
(* what was achieved, not even what the other member recorded while it was *)
(* open, as long as the plan is the one it opened on: a form that is older *)
(* than the plan drops the months it does not know.                        *)
AchievedKept ==
    [][form = "goal" /\ wire # None /\ wire' = None /\ wire.target # New
       /\ Touched(wire) \cap {"date", "targets"} = {} /\ ~Gone(wire)
       /\ server[wire.target].targets = wire.base.targets
       => server'[wire.target].achieved = server[wire.target].achieved]_vars
==============================================================================
