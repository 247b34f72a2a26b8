----------------------------- MODULE GoalForms -----------------------------
(***************************************************************************)
(* The form of a goal and the two small inputs of a goal's card, with the  *)
(* operators that AssetForms explains.  One draft serves four kinds of     *)
(* goal: a long-term goal (fed by linked sources, by a plan of months or   *)
(* by hand), a challenge, the net worth of the household and the combined  *)
(* goal of both members.                                                   *)
(***************************************************************************)
EXTENDS PlanForms

(* The month in which everything happens; the first one is past. *)
Today == 2

GoalKinds == {"goal", "challenge", "net_worth", "combined"}
Derives == {"net_worth", "combined"}

(* balance is what the sources of the goal are worth, the net worth, or    *)
(* the total of the combined goals; manual is the amount typed by hand;    *)
(* taken says that the product "p" feeds another goal.                     *)
GoalRow ==
    [kind: GoalKinds, name: Names, priority: Nat, about: {None, "n"},
     age: {None, 40}, date: {None} \cup Months, since: {None} \cup Months,
     required: Nat, monthly: Nat, rate: {None} \cup Nat, manual: Nat,
     products: SUBSET {"p"}, targets: [Months -> {None} \cup Nat],
     achieved: [Months -> Nat], parts: SUBSET Members, exclude: BOOLEAN,
     done: BOOLEAN, balance: Int, taken: BOOLEAN]

NoTargets == [m \in Months |-> None]

ByHand == [kind |-> "goal", name |-> "n", priority |-> 2, about |-> None, age |-> 40,
           date |-> None, since |-> None, required |-> 9, monthly |-> 1,
           rate |-> None, manual |-> 1, products |-> {}, targets |-> NoTargets,
           achieved |-> [m \in Months |-> 0], parts |-> {}, exclude |-> FALSE,
           done |-> FALSE, balance |-> 4, taken |-> FALSE]

Fed == [ByHand EXCEPT !.products = {"p"}, !.balance = -1, !.rate = 5]
Planned == [ByHand EXCEPT !.date = 3, !.targets = <<3, 3, 3>>, !.achieved = <<2, 1, 0>>]
Challenge == [ByHand EXCEPT !.kind = "challenge", !.about = "n", !.age = None,
                            !.date = 3, !.since = 1, !.required = 2, !.monthly = 0]
NetWorth == [ByHand EXCEPT !.kind = "net_worth", !.age = None, !.monthly = 0,
                           !.manual = 0, !.exclude = TRUE]
Combined == [NetWorth EXCEPT !.kind = "combined", !.exclude = FALSE,
                             !.parts = {"me", "you"}, !.required = 4]

GoalRows == {ByHand, Fed, Planned, Challenge, NetWorth, Combined}

HasPlan(t) == \E m \in Months : t[m] # None

(* compute_current_amount. *)
Progress(r) ==
    IF r.kind \in Derives \/ r.products # {} THEN r.balance
    ELSE IF HasPlan(r.targets) THEN SumOf(r.achieved)
    ELSE r.manual
-----------------------------------------------------------------------------
GoalEmpty ==
    [kind |-> "goal", name |-> Blank, priority |-> 1, about |-> Blank, age |-> Blank,
     date |-> Blank, since |-> Blank, required |-> 0, monthly |-> 0, rate |-> Blank,
     current |-> 0, products |-> {}, targets |-> NoTargets, parts |-> {},
     exclude |-> FALSE]

(* A challenge starts and ends today, the combined goal takes in everyone. *)
EmptyOf(k) ==
    [GoalEmpty EXCEPT !.kind = k,
        !.since = IF k = "challenge" THEN Today ELSE @,
        !.date = IF k = "challenge" THEN Today ELSE @,
        !.name = IF k \in Derives THEN "n" ELSE @,
        !.parts = IF k = "combined" THEN Members ELSE @]

(* The tabs of a new goal: everything is reset but a name the user typed.  *)
KindChosen(d) ==
    {[EmptyOf(k) EXCEPT !.name = IF d.kind \in Derives \/ d.name = Blank THEN @
                                 ELSE d.name] : k \in GoalKinds \ {d.kind}}

GoalDraft(r) ==
    [kind |-> r.kind, name |-> r.name, priority |-> r.priority,
     about |-> OrBlank(r.about), age |-> OrBlank(r.age), date |-> OrBlank(r.date),
     since |-> IF r.since = None THEN Today ELSE r.since, required |-> r.required,
     monthly |-> r.monthly, rate |-> OrBlank(r.rate), current |-> Progress(r),
     products |-> r.products, targets |-> r.targets, parts |-> r.parts,
     exclude |-> r.exclude]

(* A product that feeds another goal is not on offer. *)
Free(r) == IF r = None THEN TRUE ELSE ~r.taken

(* "Fill in from growlio". *)
GrowlioFilled(d, r) ==
    {[d EXCEPT !.name = IF @ = Blank THEN "m" ELSE @, !.required = 8, !.monthly = 2,
               !.products = IF d.kind = "goal" /\ Free(r) THEN {"p"} ELSE @,
               !.rate = 5]}

(* A new end keeps the months from today to it; no end, no plan. *)
EndChanged(d) ==
    {[d EXCEPT !.date = v, !.targets = IF v = Blank THEN NoTargets
                                       ELSE SyncToPeriod(@, Today, v)] :
        v \in {Blank} \cup Months}

(* What each of the remaining months would have to bring, rounded. *)
Rounded(a, n) == (2 * a + n) \div (2 * n)
Suggestion(d) ==
    LET missing == Won(d.required) - d.current
        n == IF d.date # Blank THEN d.date - Today
             ELSE IF d.age # Blank THEN 12 ELSE 0
    IN  IF n <= 0 \/ d.products # {} \/ d.required = TooBig \/ d.current \notin Int
        THEN {}
        ELSE {[d EXCEPT !.monthly = IF missing < 0 THEN 0 ELSE Rounded(missing, n)]}

(* The amount still missing, in even parts. *)
Missing(d, r) ==
    LET progress == IF r # None /\ d.products # {} THEN Progress(r) ELSE d.current
        have == IF progress \in Int THEN progress ELSE 0
    IN  IF d.required \in Nat /\ d.required > have THEN d.required - have ELSE 0

(* A long-term goal is filled in over three steps. *)
BasicsTyped(d, r) ==
    UNION {GrowlioFilled(d, r), EndChanged(d), Put(d, "name", TypedNames),
           IF d.date = Blank THEN Put(d, "age", {Blank, 40}) ELSE {},
           Put(d, "priority", {Blank, 3}), Put(d, "required", TypedAmounts)}

SourcesTyped(d, r) == IF Free(r) THEN Put(d, "products", {{}, {"p"}}) ELSE {}

SavingTyped(d, r) ==
    UNION {IF d.date = Blank THEN {}
           ELSE Put(d, "targets", GridTyped(d.targets, Today, d.date, Missing(d, r))),
           IF d.products # {} THEN {} ELSE Suggestion(d) \cup Put(d, "monthly", TypedAmounts),
           IF d.products # {} \/ HasPlan(d.targets) THEN {}
           ELSE Put(d, "current", TypedAmounts),
           Put(d, "rate", {Blank, 5})}

ChallengeTyped(d, r) ==
    UNION {Put(d, "name", TypedNames), Put(d, "about", {Blank, "n"}),
           Put(d, "required", TypedAmounts),
           Put(d, "since", {Blank, 3}), Put(d, "date", {Blank, 3}),
           IF r = None THEN {} ELSE Put(d, "current", TypedAmounts)}

NetWorthTyped(d, r) ==
    UNION {GrowlioFilled(d, r), Put(d, "name", TypedNames),
           Put(d, "required", TypedAmounts), Put(d, "date", {Blank, 3}),
           Put(d, "rate", {Blank, 5}), Put(d, "exclude", BOOLEAN)}

CombinedTyped(d) ==
    UNION {Put(d, "name", TypedNames), Put(d, "parts", SUBSET Members),
           Put(d, "date", {Blank, 3}), Put(d, "rate", {Blank, 5})}

GoalTyped(d, r) ==
    UNION {IF r = None THEN KindChosen(d) ELSE {},
           CASE d.kind = "goal" -> UNION {BasicsTyped(d, r), SourcesTyped(d, r),
                                          SavingTyped(d, r)}
             [] d.kind = "challenge" -> ChallengeTyped(d, r)
             [] d.kind = "net_worth" -> NetWorthTyped(d, r)
             [] d.kind = "combined" -> CombinedTyped(d)}

GoalReady(d) == d.name # Blank /\ (d.kind = "combined" => d.parts # {})

(* toPayload: each kind sends its own inputs and empties the others. *)
GoalBody(d, r) ==
    LET own(k, x, otherwise) == IF d.kind \in k THEN x ELSE otherwise
    IN  [d EXCEPT
            !.priority = IF @ = Blank THEN 1 ELSE @,
            !.about = own({"challenge"}, OrNone(@), None),
            !.age = own({"goal"}, OrNone(@), None),
            !.date = OrNone(@),
            !.since = own({"challenge"}, @, None),
            !.monthly = own({"goal"}, @, 0),
            !.rate = IF d.kind = "challenge" THEN None ELSE OrNone(@),
            !.current = own({"goal", "challenge"}, @, 0),
            !.products = own({"goal"}, @, {}),
            !.targets = own({"goal"}, @, NoTargets),
            !.parts = own({"combined"}, @, {}),
            !.exclude = own({"net_worth"}, @, FALSE)]

(* A product feeds one goal; a start date is a date. *)
GoalAccepts(b, r) ==
    /\ AmountFits(b.required) /\ AmountFits(b.monthly) /\ AmountFits(b.current)
    /\ TargetsFit(b.targets)
    /\ b.since # Blank
    /\ "p" \in b.products => Free(r)

(* What was achieved stays with a month that stays. *)
MutKept(t, r) == [m \in Months |-> 0]

Kept(t, r) ==
    [m \in Months |-> IF t[m] = None \/ r = None THEN 0
                      ELSE IF r.targets[m] = None THEN 0 ELSE r.achieved[m]]

(* create_goal and update_goal: the goal is replaced, its kind and what it *)
(* has achieved excepted.  A challenge that reaches its amount is done.    *)
GoalWrite(b, r) ==
    LET kind == IF r = None THEN b.kind ELSE r.kind
        required == IF kind = "combined" THEN 2 * Cardinality(b.parts)
                    ELSE Won(b.required)
    IN  [kind |-> kind, name |-> b.name, priority |-> b.priority, about |-> b.about,
         age |-> b.age, date |-> b.date, since |-> b.since, required |-> required,
         monthly |-> Won(b.monthly), rate |-> b.rate, manual |-> Won(b.current),
         products |-> b.products, targets |-> Stored(b.targets),
         achieved |-> Kept(b.targets, r), parts |-> b.parts, exclude |-> b.exclude,
         done |-> \/ r # None /\ r.done
                  \/ kind = "challenge" /\ required > 0 /\ Won(b.current) >= required,
         balance |-> IF r = None THEN 4 ELSE r.balance,
         taken |-> IF r = None THEN FALSE ELSE r.taken]

GoalSettled(d, r) ==
    LET amounts == [d EXCEPT !.priority = IF @ = Blank THEN 1 ELSE @,
                             !.since = IF d.kind = "challenge" THEN @ ELSE Today,
                             !.monthly = Won(@), !.targets = Stored(@)]
    IN  [amounts EXCEPT
            !.required = IF d.kind = "combined" THEN 2 * Cardinality(d.parts) ELSE Won(@),
            !.current = IF d.kind \in Derives \/ d.products # {}
                        THEN IF r = None THEN 4 ELSE r.balance
                        ELSE IF HasPlan(d.targets) THEN SumOf(Kept(d.targets, r))
                        ELSE Won(@),
            !.monthly = IF d.kind \in Derives THEN 0 ELSE @]

GoalOffers == {"add", "delete"}

(* The other member records a month's savings or links the product to a    *)
(* goal of theirs; the sources move.                                       *)
GoalElsewhere(r) ==
    {[r EXCEPT !.achieved[m] = 3] : m \in {k \in Months : r.targets[k] # None}}
        \cup {[r EXCEPT !.balance = @ + 1]}
        \cup IF r.products = {} THEN {[r EXCEPT !.taken = TRUE]} ELSE {}

-----------------------------------------------------------------------------
(* The amount on the card of a goal without sources and plan: the card     *)
(* sends the whole goal, as the cache has it, with the new amount.  Until  *)
(* something is typed the input shows the amount of the goal.              *)

ByTyping(r) == r.products = {} /\ ~HasPlan(r.targets) /\ r.kind \notin Derives

ProgressRows == {ByHand, Challenge}

ProgressShows(d, r) == [current |-> IF d.current = None THEN Progress(r) ELSE d.current]

ProgressTyped(d, r) == Put(d, "current", TypedAmounts)

ProgressBody(d, r) ==
    GoalBody([GoalDraft(r) EXCEPT !.current = ProgressShows(d, r).current], r)

ProgressSettled(d, r) == [current |-> Won(ProgressShows(d, r).current)]

ProgressLists(r) == ByTyping(r) /\ ~r.done

(* The other member edits the goal and gives it a plan. *)
ProgressElsewhere(r) ==
    IF r.kind = "goal" THEN {[r EXCEPT !.targets = <<None, 3, 3>>]}
    ELSE {[r EXCEPT !.required = 5]}

-----------------------------------------------------------------------------
(* The savings of the earliest open month, on the card of a goal with a    *)
(* plan of months: only that amount is sent.                               *)

OpenMonth(r) ==
    LET late == {m \in Months : r.targets[m] # None /\ r.achieved[m] < r.targets[m]}
    IN  IF late = {} THEN None ELSE CHOOSE m \in late : \A k \in late : m <= k

AchievedRows == {Planned}

(* What is typed belongs to one month and waits there. *)
AchievedDraft(r) == [m \in Months |-> None]

AchievedShows(d, r) == [m \in Months |-> IF d[m] = None THEN r.achieved[m] ELSE d[m]]

AchievedTyped(d, r) == Put(d, OpenMonth(r), TypedAmounts)

AchievedBody(d, r) ==
    [month |-> OpenMonth(r), amount |-> AchievedShows(d, r)[OpenMonth(r)]]

(* The month has to be planned still. *)
AchievedAccepts(b, r) == AmountFits(b.amount) /\ (r # None => r.targets[b.month] # None)

AchievedWrite(b, r) == [r EXCEPT !.achieved[b.month] = Won(b.amount)]

AchievedSettled(d, r) ==
    [r.achieved EXCEPT ![OpenMonth(r)] = Won(AchievedShows(d, r)[OpenMonth(r)])]

AchievedLists(r) == r.products = {} /\ OpenMonth(r) # None

(* The other member moves the end of the goal. *)
AchievedElsewhere(r) ==
    {[r EXCEPT !.date = 2, !.targets = [@ EXCEPT ![1] = None, ![3] = None],
               !.achieved = [@ EXCEPT ![1] = 0, ![3] = 0]]}
=============================================================================
