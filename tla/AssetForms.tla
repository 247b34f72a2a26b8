----------------------------- MODULE AssetForms -----------------------------
(***************************************************************************)
(* The forms of the asset page: accounts, cards, loans, savings products   *)
(* and real estate.  For a form F: FRows are rows the server can hold when *)
(* the page opens, FEmpty the draft of a new row, FDraft(r) the draft of   *)
(* row r, FTyped(d, r) the drafts one input event away (r is None for a    *)
(* new row), FReady the check before the request, FBody the request,       *)
(* FAccepts the validation of the server, FWrite the row it then keeps     *)
(* and FElsewhere(r) what row r can have become by another hand.           *)
(* FOffers is what the section lets the user do (see EditDialog).          *)
(* FSettled(d, r) is not code: it is the draft the user expects to see     *)
(* when a form saved with d opens again.                                   *)
(***************************************************************************)
EXTENDS FormKit

-----------------------------------------------------------------------------
(* Accounts.  net is the sum of the account's transactions; the balance    *)
(* shown is initial + net.  One input is the initial balance of a new      *)
(* account and the current balance of an existing one.                     *)

AccountRow == [name: Names, type: {"bank", "cash"}, initial: Int, net: Int,
               owner: Owners, linked: BOOLEAN]

AccountRows ==
    {[name |-> "n", type |-> "bank", initial |-> 1, net |-> -2,
      owner |-> "gone", linked |-> TRUE],
     [name |-> "n", type |-> "cash", initial |-> 0, net |-> 1,
      owner |-> None, linked |-> FALSE]}

AccountEmpty == [name |-> Blank, type |-> "bank", amount |-> 0, owner |-> Blank]

AccountDraft(r) == [name |-> r.name, type |-> r.type,
                    amount |-> r.initial + r.net, owner |-> OrBlank(r.owner)]

AccountTyped(d, r) ==
    UNION {Put(d, "name", TypedNames), Put(d, "type", {"bank", "cash"}),
           Put(d, "owner", {Blank, "me"}), Put(d, "amount", TypedSigned)}

AccountReady(d) == d.name # Blank

AccountBody(d, r) ==
    IF r = None
    THEN [name |-> d.name, type |-> d.type, owner |-> OrNone(d.owner),
          initial_balance |-> d.amount]
    ELSE [name |-> d.name, type |-> d.type, owner |-> OrNone(d.owner),
          current_balance |-> d.amount]

AccountAccepts(b, r) ==
    SignedFits(IF r = None THEN b.initial_balance ELSE b.current_balance)

(* _rebase_initial_balance: the initial balance that makes the current one *)
(* what was sent.                                                          *)
AccountWrite(b, r) ==
    IF r = None
    THEN [name |-> b.name, type |-> b.type, initial |-> Won(b.initial_balance),
          net |-> 0, owner |-> b.owner, linked |-> FALSE]
    ELSE [r EXCEPT !.name = b.name, !.type = b.type, !.owner = b.owner,
                   !.initial = Won(b.current_balance) - r.net]

AccountSettled(d, r) == [d EXCEPT !.amount = Won(@)]

AccountOffers == {"add", "deactivate"}

(* A transaction of the account is booked. *)
AccountElsewhere(r) == {[r EXCEPT !.net = @ + 1]}
-----------------------------------------------------------------------------
(* Cards.  open is the set of active accounts, the only ones the select    *)
(* offers; unlinked counts the card's transactions without an account.     *)

CardRow == [name: Names, type: {"credit", "debit"}, pay: {None, "a", "b"},
            owner: Owners, unlinked: 0 .. 1, open: SUBSET {"a", "b"}]

CardRows ==
    {[name |-> "n", type |-> "credit", pay |-> "a", owner |-> "gone",
      unlinked |-> 1, open |-> {"a", "b"}],
     [name |-> "n", type |-> "debit", pay |-> None, owner |-> None,
      unlinked |-> 1, open |-> {"a"}]}

CardEmpty == [name |-> Blank, type |-> "credit", pay |-> Blank,
              owner |-> Blank, applyToUnlinked |-> FALSE]

CardDraft(r) == [name |-> r.name, type |-> r.type,
                 pay |-> IF r.pay \in r.open THEN r.pay ELSE Blank,
                 owner |-> OrBlank(r.owner), applyToUnlinked |-> FALSE]

(* The box that also books the old transactions is drawn only while there  *)
(* are some and an account is chosen; clearing the account leaves it set.  *)
CardTyped(d, r) ==
    UNION {Put(d, "name", TypedNames), Put(d, "type", {"credit", "debit"}),
           Put(d, "owner", {Blank, "me"}),
           Put(d, "pay", {Blank} \cup IF r = None THEN {"a"} ELSE r.open),
           IF r # None /\ d.pay # Blank
           THEN IF r.unlinked > 0 THEN Put(d, "applyToUnlinked", BOOLEAN) ELSE {}
           ELSE {}}

CardReady(d) == d.name # Blank

CardBody(d, r) ==
    IF r = None
    THEN [name |-> d.name, type |-> d.type, pay |-> OrNone(d.pay),
          owner |-> OrNone(d.owner)]
    ELSE [name |-> d.name, type |-> d.type, pay |-> OrNone(d.pay),
          owner |-> OrNone(d.owner), applyToUnlinked |-> d.applyToUnlinked]

(* An owner the card had before may stay, even a removed one. *)
CardAccepts(b, r) ==
    /\ b.pay \in {None} \cup IF r = None THEN {"a", "b"} ELSE r.open
    /\ b.owner \in Members \cup {None} \/ (r # None => b.owner = r.owner)

CardWrite(b, r) ==
    IF r = None
    THEN [name |-> b.name, type |-> b.type, pay |-> b.pay, owner |-> b.owner,
          unlinked |-> 0, open |-> {"a", "b"}]
    ELSE [r EXCEPT !.name = b.name, !.type = b.type, !.pay = b.pay,
                   !.owner = b.owner,
                   !.unlinked = IF b.applyToUnlinked /\ b.pay # None THEN 0 ELSE @]

CardSettled(d, r) == [d EXCEPT !.applyToUnlinked = FALSE]

CardOffers == {"add", "deactivate"}

(* deactivate_account: the account closes and leaves its cards. *)
CardElsewhere(r) ==
    {[r EXCEPT !.open = @ \ {"a"}, !.pay = IF @ = "a" THEN None ELSE @]}

-----------------------------------------------------------------------------
(* Loans. *)

LoanRow == [name: Names, balance: Int, monthly: Int, since: {None, "2024-01"},
            term: {None} \cup Int, rate: {None} \cup Int,
            method: {None, "bullet"}, owner: Owners, linked: BOOLEAN]

LoanRows ==
    {[name |-> "n", balance |-> 2, monthly |-> 1, since |-> "2024-01", term |-> 1,
      rate |-> 1, method |-> "bullet", owner |-> "gone", linked |-> TRUE],
     [name |-> "n", balance |-> 0, monthly |-> 0, since |-> None, term |-> None,
      rate |-> None, method |-> None, owner |-> None, linked |-> FALSE]}

LoanEmpty == [name |-> Blank, balance |-> 0, monthly |-> 0, since |-> Blank,
              term |-> Blank, rate |-> Blank, method |-> Blank, owner |-> Blank]

LoanDraft(r) == [name |-> r.name, balance |-> r.balance, monthly |-> r.monthly,
                 since |-> OrBlank(r.since), term |-> OrBlank(r.term),
                 rate |-> OrBlank(r.rate), method |-> OrBlank(r.method),
                 owner |-> OrBlank(r.owner)]

LoanTyped(d, r) ==
    UNION {Put(d, "name", TypedNames), Put(d, "balance", TypedAmounts),
           Put(d, "monthly", TypedAmounts), Put(d, "since", {Blank, "2024-01"}),
           Put(d, "term", {Blank, 2, Malformed}), Put(d, "rate", {Blank, 2}),
           Put(d, "method", {Blank, "bullet"}), Put(d, "owner", {Blank, "me"})}

LoanReady(d) == d.name # Blank

LoanBody(d, r) ==
    [d EXCEPT !.since = OrNone(@), !.term = OrNone(@), !.rate = OrNone(@),
              !.method = OrNone(@), !.owner = OrNone(@)]

LoanAccepts(b, r) ==
    AmountFits(b.balance) /\ AmountFits(b.monthly) /\ b.term # Malformed

LoanWrite(b, r) ==
    [name |-> b.name, balance |-> Won(b.balance), monthly |-> Won(b.monthly),
     since |-> b.since, term |-> b.term, rate |-> b.rate, method |-> b.method,
     owner |-> b.owner, linked |-> IF r = None THEN FALSE ELSE r.linked]

LoanSettled(d, r) == [d EXCEPT !.balance = Won(@), !.monthly = Won(@)]

LoanOffers == {"add", "deactivate"}

(* A synchronisation writes the balance of the mortgage. *)
LoanElsewhere(r) == IF r.linked THEN {[r EXCEPT !.balance = @ + 1]} ELSE {}

-----------------------------------------------------------------------------
(* Savings products.  A product booked against after its balance was typed *)
(* down can be below zero: an amount the form shows and cannot send.       *)

Kinds == {"savings", "investment", "emergency_fund"}

ProductRow == [name: Names, balance: Int, monthly: Int,
               kind: Kinds \cup {"real_estate"}, principal: {None} \cup Int,
               owner: Owners, linked: BOOLEAN]

ProductRows ==
    {[name |-> "n", balance |-> 1, monthly |-> 1, kind |-> "investment",
      principal |-> 1, owner |-> "gone", linked |-> TRUE],
     [name |-> "n", balance |-> -1, monthly |-> 0, kind |-> "savings",
      principal |-> None, owner |-> None, linked |-> FALSE]}

ProductEmpty == [name |-> Blank, balance |-> 0, monthly |-> 0,
                 kind |-> "savings", principal |-> Blank, owner |-> Blank]

ProductDraft(r) == [name |-> r.name, balance |-> r.balance, monthly |-> r.monthly,
                    kind |-> r.kind, principal |-> OrBlank(r.principal),
                    owner |-> OrBlank(r.owner)]

(* The monthly amount is an input of a new product only, the principal one *)
(* of an investment only.                                                  *)
ProductTyped(d, r) ==
    UNION {Put(d, "name", TypedNames), Put(d, "balance", TypedAmounts),
           Put(d, "kind", Kinds), Put(d, "owner", {Blank, "me"}),
           IF r = None THEN Put(d, "monthly", TypedAmounts) ELSE {},
           IF d.kind = "investment" THEN Put(d, "principal", TypedAmounts) ELSE {}}

ProductReady(d) == d.name # Blank

(* A principal stays with an emergency fund, whose form does not show it.  *)
ProductBody(d, r) ==
    [d EXCEPT !.principal = IF d.kind # "savings" THEN OrNone(@) ELSE None,
              !.owner = OrNone(@)]

ProductAccepts(b, r) ==
    /\ AmountFits(b.balance) /\ AmountFits(b.monthly)
    /\ OptAmountFits(b.principal)

ProductWrite(b, r) ==
    [name |-> b.name, balance |-> Won(b.balance), monthly |-> Won(b.monthly),
     kind |-> b.kind, principal |-> b.principal, owner |-> b.owner,
     linked |-> IF r = None THEN FALSE ELSE r.linked]

ProductSettled(d, r) ==
    [d EXCEPT !.balance = Won(@), !.monthly = Won(@),
              !.principal = IF d.kind = "savings" THEN Blank ELSE @]

ProductOffers == {"add", "deactivate"}

(* A deposit linked to the product is booked. *)
ProductElsewhere(r) == {[r EXCEPT !.balance = @ + 1]}

(* The link section of an open form: link, unlink or switch the automatic  *)
(* synchronisation, each a request of its own.                             *)
ProductLinks(r) == {[r EXCEPT !.linked = ~@]}

-----------------------------------------------------------------------------
(* Real estate: products whose type and monthly amount the form fixes.     *)

RealEstateRows ==
    {[name |-> "n", balance |-> 1, monthly |-> 0, kind |-> "real_estate",
      principal |-> p, owner |-> None, linked |-> TRUE] : p \in {None, 1}}

RealEstateEmpty == [name |-> Blank, balance |-> 0, principal |-> Blank,
                    owner |-> Blank]

RealEstateDraft(r) == [name |-> r.name, balance |-> r.balance,
                       principal |-> OrBlank(r.principal),
                       owner |-> OrBlank(r.owner)]

RealEstateTyped(d, r) ==
    UNION {Put(d, "name", TypedNames), Put(d, "balance", TypedAmounts),
           Put(d, "principal", TypedAmounts), Put(d, "owner", {Blank, "me"})}

RealEstateReady(d) == d.name # Blank

RealEstateBody(d, r) ==
    [name |-> d.name, balance |-> d.balance, monthly |-> 0,
     kind |-> "real_estate", principal |-> OrNone(d.principal),
     owner |-> OrNone(d.owner)]

RealEstateSettled(d, r) == [d EXCEPT !.balance = Won(@)]

RealEstateOffers == {"add", "deactivate"}
=============================================================================
