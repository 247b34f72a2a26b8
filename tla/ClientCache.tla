---------------------------- MODULE ClientCache ----------------------------
(***************************************************************************)
(* The query cache of the frontend: what a member saves has to show up in  *)
(* every screen that is drawn from a cached response.  A response has a    *)
(* key; a save that was answered invalidates a list of key prefixes.  The  *)
(* first half of the module says which server data each response shows and *)
(* which data each save changes; the second half is the life of one cached *)
(* response while one kind of save is made: any of the Pairs.              *)
(*                                                                         *)
(* The cache itself (React Query 5) is external: it is modelled by what    *)
(* the options in main.tsx and the calls in the hooks make of it.  Time is *)
(* the age of a response in four steps: up to 30 s, up to a minute, longer,*)
(* older than its staleTime.                                               *)
(***************************************************************************)
EXTENDS Naturals, FiniteSets, Sequences
LOCAL INSTANCE SequencesExt

CONSTANTS Pairs,       \* the saves and responses to look at, <<save, query>>
          None,
          MaxSaves,    \* bound: saves of this member
          MaxOthers,   \* bound: writes of the other one
          MaxLost,   \* bound: lost answers
          MaxReloads   \* bound: reloads of the page

-----------------------------------------------------------------------------
(* Keys. *)

Path ==
    [dashboard |-> <<"dashboard">>,
     retrospective |-> <<"dashboard", "retrospective">>,
     savingsReview |-> <<"dashboard", "savings-review">>,
     categories |-> <<"categories">>, transactions |-> <<"transactions">>,
     recentTransactions |-> <<"recent-transactions">>,
     categoryBreakdown |-> <<"category-breakdown">>, events |-> <<"events">>,
     todos |-> <<"todos">>, accounts |-> <<"accounts">>, cards |-> <<"cards">>,
     yearlyReport |-> <<"yearly-report">>, categoryTrend |-> <<"category-trend">>,
     settings |-> <<"settings">>, dashboardBootstrap |-> <<"dashboard-bootstrap">>,
     me |-> <<"me">>, users |-> <<"users">>, invites |-> <<"invites">>,
     cashflowPlan |-> <<"cashflow-plan">>, financialGoals |-> <<"financial-goals">>,
     growlioInsight |-> <<"financial-goals", "growlio-insight">>,
     annualPlan |-> <<"annual-plan">>, savingsProducts |-> <<"savings-products">>,
     savingsProductsPlan |-> <<"savings-products", "plan">>,
     savingsProductsAnnualPlan |-> <<"savings-products", "annual-plan">>,
     loans |-> <<"loans">>, netWorth |-> <<"net-worth">>,
     growlioUnlinked |-> <<"net-worth", "growlio-unlinked">>,
     recurring |-> <<"recurring">>, insurancePolicies |-> <<"insurance-policies">>,
     notifications |-> <<"notifications">>]

Responses == DOMAIN Path

ASSET_RELATED_KEYS ==
    {<<"accounts">>, <<"cards">>, <<"loans">>, <<"savings-products">>,
     <<"net-worth">>, <<"dashboard-bootstrap">>, <<"financial-goals">>,
     <<"dashboard">>}

MutCategoryKeys ==
    {<<"categories">>, <<"transactions">>, <<"category-breakdown">>,
     <<"recent-transactions">>, <<"category-trend">>, <<"cashflow-plan">>,
     <<"annual-plan">>, <<"yearly-report">>, <<"dashboard">>}

CATEGORY_RELATED_KEYS ==
    {<<"categories">>, <<"transactions">>, <<"category-breakdown">>,
     <<"recent-transactions">>, <<"recurring">>, <<"category-trend">>,
     <<"cashflow-plan">>, <<"annual-plan">>, <<"yearly-report">>,
     <<"dashboard">>, <<"dashboard", "retrospective">>}

USER_RELATED_KEYS ==
    {<<"me">>, <<"users">>, <<"transactions">>, <<"events">>, <<"todos">>,
     <<"notifications">>, <<"dashboard">>, <<"dashboard-bootstrap">>,
     <<"dashboard", "retrospective">>}

TRANSACTION_RELATED_KEYS ==
    {<<"transactions">>, <<"dashboard">>, <<"category-breakdown">>,
     <<"savings-products">>, <<"net-worth">>, <<"dashboard-bootstrap">>,
     <<"cashflow-plan">>, <<"annual-plan">>, <<"accounts">>, <<"cards">>,
     <<"financial-goals">>, <<"recent-transactions">>, <<"yearly-report">>,
     <<"category-trend">>, <<"dashboard", "retrospective">>}

PLAN_RELATED_KEYS == {<<"cashflow-plan">>, <<"annual-plan">>, <<"dashboard">>}

RECURRING_RELATED_KEYS ==
    {<<"recurring">>, <<"events">>, <<"cashflow-plan">>, <<"annual-plan">>,
     <<"dashboard">>}

-----------------------------------------------------------------------------
(* What the screens show of each response: the parts it is made of, named  *)
(* for their schemas.  "names" are the names of the members, "products"    *)
(* what a product is and "balances" what is on it; "notices" is the inbox, *)
(* "snapshots" the goals copied from growlio.                              *)

Totals == {"transactions"}
OwnerTotals == {"transactions", "names"}
CategoryAmount == {"transactions", "categories"}
OwnerOverspend == CategoryAmount \cup {"names"}
Thresholds == {"thresholds"}
Insight == CategoryAmount \cup {"plan", "rules", "goals", "products", "balances",
                                "productPlans"} \cup Thresholds
TransactionsShow == {"transactions", "categories", "cards", "products"}
RecentShow == CategoryAmount
BreakdownShows == CategoryAmount
TrendShows == CategoryAmount
CategoriesShow == {"categories"}
UsersShow == {"names"}

AccountsShow == {"accounts", "transactions"}
CardPart == {"cards", "accounts"}
CardsShow == CardPart \cup {"transactions"}
LoansShow == {"loans"}
ProductsShow == {"products", "balances", "goals"}
ProductMonth == {"products", "productPlans", "transactions"} \cup Thresholds
ProductsPlanShows == ProductMonth
ProductYear == {"products", "productPlans", "transactions"}
ProductsYearShows == ProductYear \cup Thresholds
NetWorthShows == {"accounts", "transactions", "products", "balances", "loans"}
UnlinkedShows == {"accounts", "products", "loans"}

CashflowItem == {"plan", "rules", "categories"}
CategoryBudget == CashflowItem \cup {"transactions"} \cup Thresholds
CashflowShows == CashflowItem \cup CategoryBudget
AnnualItem == {"plan", "rules", "categories"}
AnnualBudget == AnnualItem \cup {"transactions"} \cup Thresholds
AnnualShows == AnnualItem \cup AnnualBudget
RecurringShows == {"rules", "categories"}
EventsShow == {"events", "rules", "names"}
TodosShow == {"todos", "names"}

FundingSource == {"products", "balances", "accounts", "loans"}
Snapshot == {"snapshots"}
CombinedMember == {"goals", "names"} \cup Snapshot
GoalsShow == {"goals", "transactions", "productPlans"}
                \cup FundingSource \cup CombinedMember
InsightShows == {"goals", "products"}

SettingsShow == Thresholds \cup {"prefs", "targets", "photo"}
BootstrapShows ==
    SettingsShow \cup NetWorthShows \cup GoalsShow \cup ProductsShow \cup UsersShow
DashboardShows ==
    Totals \cup OwnerTotals \cup CategoryAmount \cup OwnerOverspend \cup Insight
RetrospectiveShows == Totals \cup OwnerTotals \cup CategoryAmount \cup Insight
SpendingReview == {"plan", "rules"} \cup CategoryAmount \cup Thresholds
InsuranceReview == {"policies", "targets", "transactions", "names"}
ReviewShows == SpendingReview \cup InsuranceReview
YearlyShows == Totals \cup CategoryAmount \cup Thresholds
PoliciesShow == {"policies"}
Reaction == {"names"}
NotificationsShow == {"notices"} \cup Reaction
InvitesShow == {"invites"}

Shows(q) ==
    CASE q = "dashboard" -> DashboardShows
      [] q = "retrospective" -> RetrospectiveShows
      [] q = "savingsReview" -> ReviewShows
      [] q = "categories" -> CategoriesShow
      [] q = "transactions" -> TransactionsShow
      [] q = "recentTransactions" -> RecentShow
      [] q = "categoryBreakdown" -> BreakdownShows
      [] q = "events" -> EventsShow [] q = "todos" -> TodosShow
      [] q = "accounts" -> AccountsShow [] q = "cards" -> CardsShow
      [] q = "yearlyReport" -> YearlyShows [] q = "categoryTrend" -> TrendShows
      [] q = "settings" -> SettingsShow
      [] q = "dashboardBootstrap" -> BootstrapShows
      [] q \in {"me", "users"} -> UsersShow [] q = "invites" -> InvitesShow
      [] q = "cashflowPlan" -> CashflowShows [] q = "annualPlan" -> AnnualShows
      [] q = "financialGoals" -> GoalsShow [] q = "growlioInsight" -> InsightShows
      [] q = "savingsProducts" -> ProductsShow
      [] q = "savingsProductsPlan" -> ProductsPlanShows
      [] q = "savingsProductsAnnualPlan" -> ProductsYearShows
      [] q = "loans" -> LoansShow [] q = "netWorth" -> NetWorthShows
      [] q = "growlioUnlinked" -> UnlinkedShows
      [] q = "recurring" -> RecurringShows
      [] q = "insurancePolicies" -> PoliciesShow
      [] q = "notifications" -> NotificationsShow

-----------------------------------------------------------------------------
(* What each kind of save changes, and what its success invalidates.       *)

Save(writes, keys) == [writes |-> writes, keys |-> keys]

AccountSave == Save({"accounts"}, ASSET_RELATED_KEYS)
CardSave == Save({"cards", "accounts"}, ASSET_RELATED_KEYS)
LoanSave == Save({"loans"}, ASSET_RELATED_KEYS)
ProductSave == Save({"products", "balances"}, ASSET_RELATED_KEYS)
GrowlioSync == Save({"balances", "accounts", "loans"}, ASSET_RELATED_KEYS)
GrowlioImport == Save({"products", "balances", "accounts", "loans"}, ASSET_RELATED_KEYS)
GrowlioSyncAll == Save({"balances", "accounts", "loans"}, ASSET_RELATED_KEYS)
CategorySave == Save({"categories"}, CATEGORY_RELATED_KEYS)
NameSave == Save({"names"}, USER_RELATED_KEYS)
SpouseRemoval == Save({"names"}, USER_RELATED_KEYS)
TransactionSave == Save({"transactions", "balances"}, TRANSACTION_RELATED_KEYS)
PlanSave == Save({"plan"}, PLAN_RELATED_KEYS)
AnnualSave == Save({"plan"}, PLAN_RELATED_KEYS)
YearStart == Save({"plan"}, PLAN_RELATED_KEYS)
RuleSave == Save({"rules"}, RECURRING_RELATED_KEYS)
GoalSave == Save({"goals"}, {<<"financial-goals">>, <<"savings-products">>,
                             <<"dashboard-bootstrap">>, <<"dashboard">>})
SnapshotRefresh ==
    Save({"snapshots"}, {<<"financial-goals">>, <<"dashboard-bootstrap">>})
Cheer == Save({"notices"}, {<<"notifications">>})
ProductPlanSave ==
    Save({"productPlans"}, {<<"savings-products">>, <<"dashboard-bootstrap">>,
                            <<"financial-goals">>, <<"dashboard">>})
ThresholdsSave ==
    Save({"thresholds"}, {<<"settings">>, <<"dashboard">>, <<"dashboard-bootstrap">>,
                          <<"yearly-report">>})
PrefsSave == Save({"prefs"}, {<<"settings">>, <<"dashboard-bootstrap">>})
PhotoSave ==
    Save({"photo"}, {<<"settings">>, <<"dashboard">>, <<"dashboard-bootstrap">>})
TargetsSave ==
    Save({"targets"}, {<<"settings">>, <<"dashboard-bootstrap">>,
                       <<"dashboard", "savings-review">>})
PolicySave ==
    Save({"policies"}, {<<"insurance-policies">>, <<"dashboard", "savings-review">>})
InviteSave == Save({"invites"}, {<<"invites">>})
TodoSave == Save({"todos"}, {<<"todos">>})
EventSave == Save({"events"}, {<<"events">>})
InboxSave == Save({"notices"}, {<<"notifications">>})

Saves ==
    [account |-> AccountSave, card |-> CardSave, loan |-> LoanSave,
     product |-> ProductSave, sync |-> GrowlioSync, import |-> GrowlioImport,
     syncAll |-> GrowlioSyncAll, category |-> CategorySave, name |-> NameSave,
     removal |-> SpouseRemoval, transaction |-> TransactionSave,
     plan |-> PlanSave, annual |-> AnnualSave, yearStart |-> YearStart,
     rule |-> RuleSave, goal |-> GoalSave, snapshot |-> SnapshotRefresh,
     cheer |-> Cheer, productPlan |-> ProductPlanSave,
     thresholds |-> ThresholdsSave, prefs |-> PrefsSave, photo |-> PhotoSave,
     targets |-> TargetsSave, policy |-> PolicySave, invite |-> InviteSave,
     todo |-> TodoSave, event |-> EventSave, inbox |-> InboxSave]

(* The pairs that matter: the save changes what the response shows. *)
Affects(s, q) == Saves[s].writes \cap Shows(q) # {}

(* invalidateQueries matches every key that starts with the given one. *)
Reached(s, q) == \E k \in Saves[s].keys : IsPrefix(k, Path[q])

(* Responses that a save changes and no list of its screen names. *)
Missed ==
    {<<"card", "transactions">>, <<"product", "transactions">>,
     <<"import", "transactions">>, <<"name", "financialGoals">>,
     <<"removal", "financialGoals">>, <<"thresholds", "cashflowPlan">>,
     <<"thresholds", "annualPlan">>, <<"thresholds", "savingsProductsPlan">>,
     <<"thresholds", "savingsProductsAnnualPlan">>}

-----------------------------------------------------------------------------
(* How a response is kept. *)

Root(q) == Path[q][1]

(* PERSIST_QUERY_KEYS: the responses that survive a reload. *)
Persisted(q) ==
    Root(q) \in {"dashboard", "transactions", "accounts", "net-worth",
                 "financial-goals", "cashflow-plan", "annual-plan",
                 "savings-products"}

(* The reference data and the reviews are good for minutes, the rest 30 s. *)
LongLived ==
    {"accounts", "cards", "categories", "savingsProducts", "users", "me",
     "settings", "financialGoals", "loans", "netWorth", "dashboardBootstrap",
     "yearlyReport", "savingsReview", "growlioInsight"}

StaleTime(q) == IF q \in LongLived THEN 3 ELSE 1

(* The inbox asks again every minute; the total of growlio's accounts that *)
(* are not linked is asked for only by its button (enabled: false).        *)
Polled(q) == q = "notifications"
OnDemand(q) == q = "growlioUnlinked"

-----------------------------------------------------------------------------
VARIABLES
    save, query,  \* the pair this behaviour is about
    server,       \* version of the data the save changes
    sending,      \* the mutation of this page: "idle", "sent" or "done"
    mine,         \* the version its commit made
    acked,        \* the newest own version whose answer has arrived
    entry,        \* the cached response: [ver, inv, age, gap] or None
    fetch,        \* the request in flight: [ver, late] or None
    failed,       \* the last request failed
    mounted,      \* a screen that shows the response is open
    stored,       \* the copy of entry in localStorage
    unsaved,      \* history: a save was answered since that copy was made
    saves, others, lost, reloads    \* counters of the bounds

page == <<sending, mine, acked>>
counters == <<saves, others, lost, reloads>>
cacheVars == <<save, query, server, page, entry, fetch, failed, mounted, stored,
          unsaved, counters>>

Version == 0..(MaxSaves + MaxOthers)

(* gap says why a response may be behind although it counts as fresh:      *)
(* "late" was asked for before an answer and could not be asked again,     *)
(* "restored" is a copy from before an answer.                             *)
Entry == [ver : Version, inv : BOOLEAN, age : 0..3, gap : {"no", "late", "restored"}]

Fetch == [ver : Version \cup {None}, late : BOOLEAN]

ASSUME ConstantsAssumption ==
    /\ MaxSaves \in Nat /\ MaxOthers \in Nat
    /\ MaxLost \in Nat /\ MaxReloads \in Nat
    /\ Pairs \subseteq (DOMAIN Saves) \X Responses
    /\ None \notin Version \cup Entry \cup Fetch

CacheTypeOK ==
    /\ <<save, query>> \in Pairs
    /\ server \in Version /\ mine \in Version /\ acked \in Version
    /\ sending \in {"idle", "sent", "done"}
    /\ entry \in Entry \cup {None} /\ stored \in Entry \cup {None}
    /\ stored # None => Persisted(query)
    /\ fetch \in Fetch \cup {None}
    /\ failed \in BOOLEAN /\ mounted \in BOOLEAN /\ unsaved \in BOOLEAN
    /\ saves \in 0..MaxSaves /\ others \in 0..MaxOthers
    /\ lost \in 0..MaxLost /\ reloads \in 0..MaxReloads

CacheInit ==
    /\ \E p \in Pairs : save = p[1] /\ query = p[2]
    /\ server = 0 /\ mine = 0 /\ acked = 0 /\ sending = "idle"
    /\ entry = None /\ fetch = None /\ stored = None
    /\ failed = FALSE /\ mounted = FALSE /\ unsaved = FALSE
    /\ saves = 0 /\ others = 0 /\ lost = 0 /\ reloads = 0

Stale(e) == e # None => e.inv \/ e.age >= StaleTime(query)

NewRequest == [ver |-> None, late |-> FALSE]

(* React Query joins the request that is already on its way. *)
Request == IF fetch = None THEN NewRequest ELSE fetch

-----------------------------------------------------------------------------
(* Reading: screens open and close, requests are answered. *)

Mount ==
    /\ ~mounted
    /\ mounted' = TRUE
    /\ fetch' = IF Stale(entry) /\ ~OnDemand(query) THEN Request ELSE fetch
    /\ UNCHANGED <<save, query, server, page, entry, failed, stored, unsaved, counters>>

(* A request goes on when its screen closes: no query function takes the   *)
(* abort signal.                                                           *)
Unmount ==
    /\ mounted
    /\ mounted' = FALSE
    /\ UNCHANGED <<save, query, server, page, entry, fetch, failed, stored, unsaved, counters>>

Read ==
    /\ fetch # None /\ fetch.ver = None
    /\ fetch' = [fetch EXCEPT !.ver = server]
    /\ UNCHANGED <<save, query, server, page, entry, failed, mounted, stored, unsaved, counters>>

Arrive ==
    /\ fetch # None /\ fetch.ver # None
    /\ entry' = [ver |-> fetch.ver, inv |-> FALSE, age |-> 0,
                 gap |-> IF fetch.late THEN "late" ELSE "no"]
    /\ fetch' = None /\ failed' = FALSE
    /\ UNCHANGED <<save, query, server, page, mounted, stored, unsaved, counters>>

(* The request and its one retry fail. *)
FetchFails ==
    /\ fetch # None /\ lost < MaxLost
    /\ fetch' = None /\ failed' = TRUE
    /\ entry' = IF entry = None THEN None ELSE [entry EXCEPT !.inv = TRUE]
    /\ lost' = lost + 1
    /\ UNCHANGED <<save, query, server, page, mounted, stored, unsaved, saves, others,
                   reloads>>

(* The window gets the focus: refetchOnWindowFocus asks again when the     *)
(* response is a minute old, and React Query only what is stale.           *)
Focus ==
    /\ mounted /\ ~OnDemand(query)
    /\ entry # None => entry.age >= 2
    /\ Stale(entry) /\ fetch = None
    /\ fetch' = NewRequest
    /\ UNCHANGED <<save, query, server, page, entry, failed, mounted, stored, unsaved,
                   counters>>

Poll ==
    /\ mounted /\ Polled(query) /\ fetch = None
    /\ fetch' = NewRequest
    /\ UNCHANGED <<save, query, server, page, entry, failed, mounted, stored, unsaved,
                   counters>>

Ask ==
    /\ mounted /\ OnDemand(query) /\ fetch = None
    /\ fetch' = NewRequest
    /\ UNCHANGED <<save, query, server, page, entry, failed, mounted, stored, unsaved,
                   counters>>

Older(e) ==
    IF e = None THEN {None} ELSE {[e EXCEPT !.age = a] : a \in e.age..3}

Age ==
    /\ entry' \in Older(entry) /\ stored' \in Older(stored)
    /\ entry' # None /\ stored' # None => entry'.age =< stored'.age
    /\ UNCHANGED <<save, query, server, page, fetch, failed, mounted, unsaved, counters>>

(* gcTime: a response no screen has shown for a day. *)
Collect ==
    /\ ~mounted /\ fetch = None /\ entry # None /\ entry.age = 3
    /\ entry' = None /\ failed' = FALSE
    /\ UNCHANGED <<save, query, server, page, fetch, mounted, stored, unsaved, counters>>

-----------------------------------------------------------------------------
(* Writing: a save of this member, and those of the other one. *)

SendSave ==
    /\ sending = "idle" /\ saves < MaxSaves
    /\ sending' = "sent" /\ saves' = saves + 1
    /\ UNCHANGED <<save, query, server, mine, acked, entry, fetch, failed, mounted,
                   stored, unsaved, others, lost, reloads>>

Commit ==
    /\ sending = "sent"
    /\ server' = server + 1 /\ mine' = server'
    /\ sending' = "done"
    /\ UNCHANGED <<save, query, acked, entry, fetch, failed, mounted, stored, unsaved,
                   counters>>

Invalidated(e) == IF e = None THEN None ELSE [e EXCEPT !.inv = TRUE]

(* An open screen asks again: it drops a request that has an older         *)
(* response to fall back on, and joins the first one.  A request whose     *)
(* screen has closed goes on.                                              *)
Restarted ==
    IF mounted /\ ~OnDemand(query) /\ (fetch = None \/ entry # None) THEN NewRequest
    ELSE IF fetch = None THEN None
    ELSE [fetch EXCEPT !.late = TRUE]

(* onSuccess: invalidateKeys. *)
MutAnswer ==
    /\ sending = "done"
    /\ sending' = "idle" /\ acked' = mine
    /\ entry' = IF Reached(save, query) THEN Invalidated(entry) ELSE entry
    /\ unsaved' = TRUE
    /\ UNCHANGED <<save, query, server, mine, fetch, failed, mounted, stored, counters>>

Answer ==
    /\ sending = "done"
    /\ sending' = "idle" /\ acked' = mine
    /\ entry' = IF Reached(save, query) THEN Invalidated(entry) ELSE entry
    /\ fetch' = IF Reached(save, query) THEN Restarted ELSE fetch
    /\ unsaved' = TRUE
    /\ UNCHANGED <<save, query, server, mine, failed, mounted, stored, counters>>

(* No answer: the save is in the database or not, and nothing is           *)
(* invalidated.                                                            *)
LoseSave ==
    /\ sending # "idle" /\ lost < MaxLost
    /\ sending' = "idle" /\ lost' = lost + 1
    /\ UNCHANGED <<save, query, server, mine, acked, entry, fetch, failed, mounted,
                   stored, unsaved, saves, others, reloads>>

OtherWrites ==
    /\ others < MaxOthers
    /\ server' = server + 1 /\ others' = others + 1
    /\ UNCHANGED <<save, query, page, entry, fetch, failed, mounted, stored, unsaved,
                   saves, lost, reloads>>

-----------------------------------------------------------------------------
(* The copy in localStorage. *)

(* The persister writes what has succeeded, up to two seconds late.  With *)
(* MaxReloads reached nothing reads the copy any more: it is left out.    *)
Persist ==
    /\ Persisted(query) /\ reloads < MaxReloads
    /\ stored' = IF failed THEN None ELSE entry
    /\ unsaved' = FALSE
    /\ UNCHANGED <<save, query, server, page, entry, fetch, failed, mounted, counters>>

Restored ==
    IF stored = None THEN None
    ELSE IF unsaved THEN [stored EXCEPT !.gap = "restored"] ELSE stored

ReloadPage ==
    /\ reloads < MaxReloads
    /\ reloads' = reloads + 1
    /\ entry' = Restored
    /\ fetch' = None /\ failed' = FALSE /\ mounted' = FALSE
    /\ sending' = "idle"
    /\ stored' = IF reloads' < MaxReloads THEN stored ELSE None
    /\ UNCHANGED <<save, query, server, mine, acked, unsaved, saves, others, lost>>

-----------------------------------------------------------------------------
CacheNext ==
    \/ Mount \/ Unmount \/ Read \/ Arrive \/ FetchFails \/ Focus \/ Poll \/ Ask
    \/ Age \/ Collect
    \/ SendSave \/ Commit \/ Answer \/ LoseSave \/ OtherWrites
    \/ Persist \/ ReloadPage

(* Requests and saves are answered, and the timer of the inbox fires. *)
CacheFairness ==
    /\ WF_cacheVars(Read) /\ WF_cacheVars(Arrive)
    /\ WF_cacheVars(Poll)

CacheSpec == CacheInit /\ [][CacheNext]_cacheVars /\ CacheFairness

-----------------------------------------------------------------------------
Behind == (IF entry = None THEN 0 ELSE entry.ver) < acked

(* A response that counts as fresh has in it every save of this member     *)
(* whose success was shown: the key groups of queryKeys.ts and the lists   *)
(* of the screens name every response a save changes, and no request from  *)
(* before the save gets past the invalidation.  Exempt are the pairs the   *)
(* lists do not name, and the two gaps of the cache: a first load or a     *)
(* closed screen's request that is not repeated, and a restored copy.      *)
OwnWriteShows ==
    entry # None /\ ~Stale(entry) /\ entry.gap = "no" /\ <<save, query>> \notin Missed
        => entry.ver >= acked

(* An open screen that lags behind an acknowledged save catches up by      *)
(* itself, without a click or a reload, unless its request failed.  The    *)
(* inbox, which polls, catches up even then.                               *)
Lagging ==
    /\ mounted /\ Behind
    /\ \/ Polled(query)
       \/ /\ ~failed /\ ~OnDemand(query) /\ <<save, query>> \notin Missed
          /\ entry # None => entry.gap = "no"

SaveShows == Lagging ~> ~Lagging
=============================================================================
