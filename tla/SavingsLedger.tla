---------------------------- MODULE SavingsLedger ----------------------------
(***************************************************************************)
(* Ledger edits and what they leave behind: transaction_service.py with    *)
(* adjust_balance, update_product and set_growlio_link of                  *)
(* savings_product_service.py and stage() of growlio_push_service.py.      *)
(*                                                                         *)
(* A request loads the rows it edits into its ORM session, computes new    *)
(* values from what it loaded and commits: the transaction row, the        *)
(* product balance and the outbox rows together.  Between the loads and    *)
(* the commit other requests commit (READ COMMITTED, no row is locked when *)
(* it is loaded); an UPDATE writes the values computed from the load.      *)
(***************************************************************************)
EXTENDS Integers, Sequences, FiniteSets, FiniteSetsExt

CONSTANTS
    Sessions,       \* requests being served at the same time
    Products,       \* savings products
    NoProduct,      \* savings_product_id NULL
    Accounts,       \* growlio accounts
    NoAccount,      \* growlio_account_id NULL
    Unused, Deleted, \* a transaction id not drawn yet, a row that is gone
    InitialLink,    \* how the products are linked at the start
    Amounts,        \* amounts a form can hold
    TxIds,          \* bound: ids of the transactions ever created
    MaxRows,        \* bound: outbox rows ever staged
    MaxRelinks,     \* bound: changes of a product's link
    MaxForms,       \* bound: saves of the product form
    MayOverlap      \* may two open edits share a transaction or a product?

ASSUME ConstantsAssumption ==
    /\ {Unused, Deleted} \cap [product : Products \cup {NoProduct}, amount : Amounts] = {}
    /\ NoProduct \notin Products /\ NoAccount \notin Accounts
    /\ InitialLink \in [Products -> Accounts \cup {NoAccount}]
    /\ Amounts \subseteq Nat \ {0}
    /\ MaxRows \in Nat /\ MaxRelinks \in Nat /\ MaxForms \in Nat
    /\ IsFiniteSet(TxIds)
    /\ MayOverlap \in BOOLEAN

VARIABLES
    tx,             \* transactions: the row of each id
    balance,        \* savings_products.current_balance
    link,           \* savings_products.growlio_account_id
    queue,          \* growlio_push_queue, in commit order
    session,        \* what each request has loaded and is about to write
    corrected,      \* history: what the product form added to each balance
    relinks, forms  \* spent bounds

vars == <<tx, balance, link, queue, session, corrected, relinks, forms>>

Entry == [product : Products \cup {NoProduct}, amount : Amounts]
Row == [account : Accounts, type : {"DEPOSIT", "WITHDRAWAL"},
        amount : Amounts, tx : TxIds]

\* op: what the request does; ids: the transactions it touches; old: those
\* it loaded; new: the entry it saves; bal, acct: the products it loaded.
Closed == [op |-> "none"]

TypeOK ==
    /\ tx \in [TxIds -> Entry \cup {Unused, Deleted}]
    /\ balance \in [Products -> Int]
    /\ link \in [Products -> Accounts \cup {NoAccount}]
    /\ queue \in Seq(Row) /\ Len(queue) <= MaxRows
    /\ \A s \in Sessions :
          /\ session[s].op \in {"none", "create", "update", "delete", "form"}
          /\ session[s].op \in {"create", "update"} => session[s].new \in Entry
          /\ session[s].op \in {"update", "delete"} =>
                session[s].old \in [session[s].ids -> Entry]
    /\ corrected \in [Products -> Int]

Init ==
    /\ tx = [t \in TxIds |-> Unused]
    /\ balance = [p \in Products |-> 0]
    /\ link = InitialLink
    /\ queue = <<>>
    /\ session = [s \in Sessions |-> Closed]
    /\ corrected = [p \in Products |-> 0]
    /\ relinks = 0 /\ forms = 0

Live == {t \in TxIds : tx[t] \notin {Unused, Deleted}}
-----------------------------------------------------------------------------
\* The transactions and products an open request works on.
Touches(r) ==
    IF r.op = "none" THEN {}
    ELSE r.ids \cup r.products

Admit(s, r) ==
    /\ session[s] = Closed
    /\ MayOverlap \/ \A o \in Sessions \ {s} :
                        Touches(session[o]) \cap Touches(r) = {}
    /\ session' = [session EXCEPT ![s] = r]

Close(s) == session' = [session EXCEPT ![s] = Closed]

\* db.get: the request's copy of the products, kept until it commits.
Loaded(r) ==
    [r EXCEPT !.bal = [p \in r.products |-> balance[p]],
              !.acct = [p \in r.products |-> link[p]],
              !.loaded = TRUE]

Request(op, ids, old, new, products) ==
    [op |-> op, ids |-> ids, old |-> old, new |-> new, loaded |-> FALSE,
     products |-> products \ {NoProduct}, bal |-> <<>>, acct |-> <<>>]

\* POST /transactions: the reference check loads the product; the id comes
\* from a sequence, so an id is used once.
StartCreate(s, t, e) ==
    /\ tx[t] = Unused /\ \A o \in Sessions : t \notin Touches(session[o])
    /\ Admit(s, Loaded(Request("create", {t}, <<>>, e, {e.product})))
    /\ UNCHANGED <<tx, balance, link, queue, corrected, relinks, forms>>

\* PUT /transactions/t: loads the row the form is going to replace.
StartUpdate(s, t, e) ==
    /\ t \in Live
    /\ Admit(s, Request("update", {t}, [i \in {t} |-> tx[i]], e,
                        {e.product, tx[t].product}))
    /\ UNCHANGED <<tx, balance, link, queue, corrected, relinks, forms>>

\* DELETE /transactions/t and POST /transactions/bulk-delete.
StartDelete(s, T) ==
    /\ T # {} /\ T \subseteq Live
    /\ Admit(s, Request("delete", T, [i \in T |-> tx[i]], Closed,
                        {tx[i].product : i \in T}))
    /\ UNCHANGED <<tx, balance, link, queue, corrected, relinks, forms>>

\* The products are loaded later than the transactions they belong to.
LoadProducts(s) ==
    /\ session[s].op \in {"update", "delete"} /\ ~session[s].loaded
    /\ session' = [session EXCEPT ![s] = Loaded(@)]
    /\ UNCHANGED <<tx, balance, link, queue, corrected, relinks, forms>>

\* The request fails before its commit: the session is rolled back.
Abort(s) ==
    /\ session[s] # Closed
    /\ Close(s)
    /\ UNCHANGED <<tx, balance, link, queue, corrected, relinks, forms>>
-----------------------------------------------------------------------------
\* A mutant: only a change of product counts.
MutProductChanged(r) == \A t \in r.ids : r.old[t].product # r.new.product

\* Whether an update concerns the savings side at all.
SavingsChanged(r) == \A t \in r.ids : r.old[t] # r.new

\* The sum of f over a set.
SumOver(f, S) == MapThenSumSet(LAMBDA x : f[x], S)

\* The rows f gives for the members of a set, one after the other.
RowsOver(f, S) == FoldSet(LAMBDA x, rows : rows \o f[x], <<>>, S)

\* A mutant: an update forgets the old amount.
MutKeepOld(r, p) ==
    IF r.op # "delete" THEN 0
    ELSE SumOver([t \in r.ids |-> r.old[t].amount],
                 {t \in r.ids : r.old[t].product = p})

\* What the request takes out of product p and puts into it.
TakenOut(r, p) ==
    IF r.op = "create" THEN 0
    ELSE SumOver([t \in r.ids |-> r.old[t].amount],
                 {t \in r.ids : r.old[t].product = p})

PutIn(r, p) ==
    IF r.op \in {"create", "update"} /\ r.new.product = p
    THEN r.new.amount ELSE 0

\* adjust_balance: the loaded balance plus the request's deltas.  A balance
\* that ends as it was loaded is not written.
AdjustBalance(r) ==
    balance' = [p \in Products |->
                  IF TakenOut(r, p) = PutIn(r, p) THEN balance[p]
                  ELSE r.bal[p] - TakenOut(r, p) + PutIn(r, p)]

\* stage(): a queue row for a linked product, none for the others.
Stage(r, type, e, t) ==
    IF e.product \in Products /\ r.acct[e.product] \in Accounts
    THEN << [account |-> r.acct[e.product], type |-> type,
             amount |-> e.amount, tx |-> t] >>
    ELSE <<>>

Withdrawals(r) ==
    RowsOver([t \in r.ids |-> Stage(r, "WITHDRAWAL", r.old[t], t)], r.ids)

Push(rows) ==
    /\ Len(queue) + Len(rows) <= MaxRows
    /\ queue' = queue \o rows

CommitCreate(s) ==
    LET r == session[s] IN
    /\ r.op = "create"
    /\ tx' = [t \in TxIds |-> IF t \in r.ids THEN r.new ELSE tx[t]]
    /\ AdjustBalance(r)
    /\ \E t \in r.ids : Push(Stage(r, "DEPOSIT", r.new, t))
    /\ Close(s)
    /\ UNCHANGED <<link, corrected, relinks, forms>>

\* UPDATE writes the columns the form changed; if the row is gone the whole
\* transaction is rolled back (Abort).
CommitUpdate(s) ==
    LET r == session[s]
        Column(t, c) == IF r.new[c] # r.old[t][c] THEN r.new[c] ELSE tx[t][c]
    IN
    /\ r.op = "update" /\ r.loaded
    /\ r.ids \subseteq Live
    /\ tx' = [t \in TxIds |->
                IF t \in r.ids
                THEN [product |-> Column(t, "product"),
                      amount |-> Column(t, "amount")]
                ELSE tx[t]]
    /\ IF SavingsChanged(r)
       THEN /\ AdjustBalance(r)
            /\ \E t \in r.ids :
                  Push(Withdrawals(r) \o Stage(r, "DEPOSIT", r.new, t))
       ELSE UNCHANGED <<balance, queue>>
    /\ Close(s)
    /\ UNCHANGED <<link, corrected, relinks, forms>>

\* One commit for all of them.  A row that is already gone is no error: the
\* DELETE matches nothing and the rest is committed.
CommitDelete(s) ==
    LET r == session[s] IN
    /\ r.op = "delete" /\ r.loaded
    /\ tx' = [t \in TxIds |-> IF t \in r.ids THEN Deleted ELSE tx[t]]
    /\ AdjustBalance(r)
    /\ Push(Withdrawals(r))
    /\ Close(s)
    /\ UNCHANGED <<link, corrected, relinks, forms>>
-----------------------------------------------------------------------------
\* The product form shows the balance of the moment it is opened...
OpenForm(s, p) ==
    /\ forms < MaxForms
    /\ Admit(s, Loaded(Request("form", {}, <<>>, Closed, {p})))
    /\ forms' = forms + 1
    /\ UNCHANGED <<tx, balance, link, queue, corrected, relinks>>

\* ... and update_product saves every field of it, a balance corrected by
\* the user or left as shown.
SaveForm(s, p, correction) ==
    LET r == session[s] IN
    /\ r.op = "form" /\ p \in r.products
    /\ balance' = [balance EXCEPT ![p] = r.bal[p] + correction]
    /\ corrected' = [corrected EXCEPT ![p] = @ + correction]
    /\ Close(s)
    /\ UNCHANGED <<tx, link, queue, relinks, forms>>

\* set_growlio_link; deactivate_product unlinks.
SetGrowlioLink(p, a) ==
    /\ relinks < MaxRelinks /\ relinks' = relinks + 1
    /\ a # link[p]
    /\ link' = [link EXCEPT ![p] = a]
    /\ UNCHANGED <<tx, balance, queue, session, corrected, forms>>

Next ==
    \/ \E s \in Sessions :
        \/ \E t \in TxIds, e \in Entry : StartCreate(s, t, e)
        \/ \E t \in TxIds, e \in Entry : StartUpdate(s, t, e)
        \/ \E T \in SUBSET TxIds : StartDelete(s, T)
        \/ LoadProducts(s)
        \/ CommitCreate(s) \/ CommitUpdate(s) \/ CommitDelete(s)
        \/ \E p \in Products : OpenForm(s, p)
        \/ \E p \in Products, c \in {0} \cup Amounts : SaveForm(s, p, c)
        \/ Abort(s)
    \/ \E p \in Products, a \in Accounts \cup {NoAccount} : SetGrowlioLink(p, a)

Spec == Init /\ [][Next]_vars
-----------------------------------------------------------------------------
Saved(p) ==
    SumOver([t \in Live |-> tx[t].amount], {t \in Live : tx[t].product = p})

\* The balance of a savings product is what its transactions put into it,
\* plus what the user corrected by hand: create, update, delete and bulk
\* delete commit the row and the balance together.
BalanceAgrees == \A p \in Products : balance[p] = Saved(p) + corrected[p]

Signed(row) == IF row.type = "DEPOSIT" THEN row.amount ELSE -row.amount

Owed(t, a) ==
    SumOver([k \in DOMAIN queue |-> Signed(queue[k])],
            {k \in DOMAIN queue : queue[k].tx = t /\ queue[k].account = a})

\* The rows staged for a transaction add up to the deposit it stands for
\* now: nothing once it is deleted, its present amount on the account of
\* its present product, and nothing on any other account.
OutboxAgrees ==
    relinks = 0 =>
        \A t \in TxIds, a \in Accounts :
            Owed(t, a) = IF /\ t \in Live /\ tx[t].product \in Products
                            /\ link[tx[t].product] = a
                         THEN tx[t].amount ELSE 0
=============================================================================
