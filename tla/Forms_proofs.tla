---------------------------- MODULE Forms_proofs ----------------------------
(***************************************************************************)
(* Theorems of Forms, for all ids, bounds and amounts typed: every form    *)
(* keeps its contract with EditDialog (FormFits), so the tables, the open  *)
(* dialog and the request under way always fit the form on screen; and     *)
(* from that, each property that the run of Forms checks.                  *)
(*   1. What the operators of Forms are for each form.                     *)
(*   2. For each form X: XRowsStay, XDraftsStay and XRequestsFit, which    *)
(*      are its contract, and XAnswers, what it promises of a request.     *)
(*   3. The inductive invariant, one lemma for each action of EditDialog.  *)
(*   4. The properties.                                                    *)
(***************************************************************************)
EXTENDS FormFits, FiniteSetTheorems, SequenceTheorems, TLAPS

USE InputsAssumption DEF Texts

-----------------------------------------------------------------------------
\* Null, an empty input and an amount, from the row to the draft, from the
\* draft to the body, and back.

LEMMA OwnerFacts ==
    /\ \A o \in Owners : OrBlank(o) \in DraftOwners /\ OrNone(OrBlank(o)) = o
    /\ \A o \in DraftOwners : OrNone(o) \in Owners /\ OrBlank(OrNone(o)) = o
  BY DEF Owners, Members, DraftOwners, OrBlank, OrNone

LEMMA AmountFacts ==
    /\ \A a \in DraftAmounts : AmountFits(a) <=> a # TooBig
    /\ \A a \in Nat : Won(a) = a /\ AmountFits(a)
    /\ \A a : AmountFits(a) => Won(a) \in Nat
    /\ \A a : SignedFits(a) => Won(a) \in Int
  BY DEF DraftAmounts, AmountFits, SignedFits, Won

LEMMA TypedFits ==
    /\ TypedAmounts \subseteq DraftAmounts
    /\ TypedSigned \subseteq Int \cup {Blank, TooBig, Sign}
    /\ \A a \in TypedAmounts : AmountFits(a) \/ a = TooBig
  <1>1. TypedAmounts \subseteq DraftAmounts
    BY AmountsAssumption DEF TypedAmounts, DraftAmounts
  <1>2. \A a \in Amounts : -a \in Int
    BY AmountsAssumption
  <1>3. TypedSigned \subseteq Int \cup {Blank, TooBig, Sign}
    BY <1>1, <1>2 DEF TypedSigned, DraftAmounts
  <1>4. \A a \in TypedAmounts : AmountFits(a) \/ a = TooBig
    BY <1>1 DEF DraftAmounts, AmountFits
  <1> QED BY <1>1, <1>3, <1>4

-----------------------------------------------------------------------------
(* 1. What the operators of Forms are for each form.                       *)

LEMMA AccountIs ==
    LET f == "account"
    IN  /\ \A r : RowFits(f, r) <=> r \in AccountRow
        /\ \A d, b : DraftFits(f, d, b) <=> d \in AccountDrafts
        /\ \A d, b : FormReady(f, d, b) <=> AccountReady(d)
        /\ \A d, b : Sendable(f, d, b) <=> AccountReady(d)
        /\ FormRows(f) = AccountRows
        /\ FormEmpty(f) = AccountEmpty
        /\ \A r : FormDraft(f, r) = AccountDraft(r)
        /\ \A d, r : FormTyped(f, d, r) = AccountTyped(d, r)
        /\ \A d, r : FormBody(f, d, r) = AccountBody(d, r)
        /\ \A b, r : FormAccepts(f, b, r) <=> AccountAccepts(b, r)
        /\ \A b, r : FormWrite(f, b, r) = AccountWrite(b, r)
        /\ \A r : FormElsewhere(f, r) = AccountElsewhere(r)
        /\ \A d, r : FormSettled(f, d, r) = AccountSettled(d, r)
        /\ \A d, r : FormShows(f, d, r) = d
        /\ \A d, r : FormSuggested(f, d, r) = {}
        /\ \A r : FormAfter(f, r) = None
        /\ \A r : FormLinks(f, r) = {} /\ ~Linked(f, r)
        /\ \A r : FormLists(f, r)
        /\ \A r : ~Differs(f, r)
        /\ \A r, s : Kin(f, r, s)
        /\ \A d : Inputs(f, d)
        /\ FormOffers(f, "add")
        /\ f \notin Live
  <1>1. \A r : RowFits("account", r) <=> r \in AccountRow
    BY DEF RowFits, FormRow
  <1>2. \A d, b : DraftFits("account", d, b) <=> d \in AccountDrafts
    BY DEF DraftFits
  <1>3. /\ \A d, b : FormReady("account", d, b) <=> AccountReady(d)
        /\ \A d, b : Sendable("account", d, b) <=> AccountReady(d)
    BY DEF FormReady, Sendable
  <1>4. /\ FormRows("account") = AccountRows
        /\ FormEmpty("account") = AccountEmpty
        /\ \A r : FormDraft("account", r) = AccountDraft(r)
    BY DEF FormRows, FormEmpty, FormDraft
  <1>5. /\ \A d, r : FormTyped("account", d, r) = AccountTyped(d, r)
        /\ \A d, r : FormBody("account", d, r) = AccountBody(d, r)
    BY DEF FormTyped, FormBody
  <1>6. /\ \A b, r : FormAccepts("account", b, r) <=> AccountAccepts(b, r)
        /\ \A b, r : FormWrite("account", b, r) = AccountWrite(b, r)
        /\ \A r : FormElsewhere("account", r) = AccountElsewhere(r)
    BY DEF FormAccepts, FormWrite, FormElsewhere
  <1>7. /\ \A d, r : FormSettled("account", d, r) = AccountSettled(d, r)
        /\ \A d, r : FormShows("account", d, r) = d
        /\ \A d, r : FormSuggested("account", d, r) = {}
        /\ \A r : FormAfter("account", r) = None
    BY DEF FormSettled, FormShows, FormSuggested, FormAfter
  <1>8. /\ \A r : FormLinks("account", r) = {} /\ ~Linked("account", r)
        /\ \A r : FormLists("account", r)
        /\ \A r : ~Differs("account", r)
        /\ \A r, s : Kin("account", r, s)
        /\ \A d : Inputs("account", d)
    BY DEF FormLinks, Linked, FormLists, Differs, Kin, Inputs
  <1>9. /\ FormOffers("account", "add")
        /\ "account" \notin Live
    BY DEF FormOffers, Live, AccountOffers
  <1> QED BY <1>1, <1>2, <1>3, <1>4, <1>5, <1>6, <1>7, <1>8, <1>9

LEMMA CardIs ==
    LET f == "card"
    IN  /\ \A r : RowFits(f, r) <=> r \in CardRow /\ CardFits(r)
        /\ \A d, b : DraftFits(f, d, b) <=> d \in CardDrafts(b)
        /\ \A d, b : FormReady(f, d, b) <=> CardReady(d)
        /\ \A d, b : Sendable(f, d, b) <=> CardReady(d)
        /\ FormRows(f) = CardRows
        /\ FormEmpty(f) = CardEmpty
        /\ \A r : FormDraft(f, r) = CardDraft(r)
        /\ \A d, r : FormTyped(f, d, r) = CardTyped(d, r)
        /\ \A d, r : FormBody(f, d, r) = CardBody(d, r)
        /\ \A b, r : FormAccepts(f, b, r) <=> CardAccepts(b, r)
        /\ \A b, r : FormWrite(f, b, r) = CardWrite(b, r)
        /\ \A r : FormElsewhere(f, r) = CardElsewhere(r)
        /\ \A d, r : FormSettled(f, d, r) = CardSettled(d, r)
        /\ \A d, r : FormShows(f, d, r) = d
        /\ \A d, r : FormSuggested(f, d, r) = {}
        /\ \A r : FormAfter(f, r) = None
        /\ \A r : FormLinks(f, r) = {} /\ ~Linked(f, r)
        /\ \A r : FormLists(f, r)
        /\ \A r : ~Differs(f, r)
        /\ \A r, s : Kin(f, r, s)
        /\ \A d : Inputs(f, d)
        /\ FormOffers(f, "add")
        /\ f \notin Live
  <1>1. \A r : RowFits("card", r) <=> r \in CardRow /\ CardFits(r)
    BY DEF RowFits, FormRow
  <1>2. \A d, b : DraftFits("card", d, b) <=> d \in CardDrafts(b)
    BY DEF DraftFits
  <1>3. /\ \A d, b : FormReady("card", d, b) <=> CardReady(d)
        /\ \A d, b : Sendable("card", d, b) <=> CardReady(d)
    BY DEF FormReady, Sendable
  <1>4. /\ FormRows("card") = CardRows
        /\ FormEmpty("card") = CardEmpty
        /\ \A r : FormDraft("card", r) = CardDraft(r)
    BY DEF FormRows, FormEmpty, FormDraft
  <1>5. /\ \A d, r : FormTyped("card", d, r) = CardTyped(d, r)
        /\ \A d, r : FormBody("card", d, r) = CardBody(d, r)
    BY DEF FormTyped, FormBody
  <1>6. /\ \A b, r : FormAccepts("card", b, r) <=> CardAccepts(b, r)
        /\ \A b, r : FormWrite("card", b, r) = CardWrite(b, r)
        /\ \A r : FormElsewhere("card", r) = CardElsewhere(r)
    BY DEF FormAccepts, FormWrite, FormElsewhere
  <1>7. /\ \A d, r : FormSettled("card", d, r) = CardSettled(d, r)
        /\ \A d, r : FormShows("card", d, r) = d
        /\ \A d, r : FormSuggested("card", d, r) = {}
        /\ \A r : FormAfter("card", r) = None
    BY DEF FormSettled, FormShows, FormSuggested, FormAfter
  <1>8. /\ \A r : FormLinks("card", r) = {} /\ ~Linked("card", r)
        /\ \A r : FormLists("card", r)
        /\ \A r : ~Differs("card", r)
        /\ \A r, s : Kin("card", r, s)
        /\ \A d : Inputs("card", d)
    BY DEF FormLinks, Linked, FormLists, Differs, Kin, Inputs
  <1>9. /\ FormOffers("card", "add")
        /\ "card" \notin Live
    BY DEF FormOffers, Live, CardOffers
  <1> QED BY <1>1, <1>2, <1>3, <1>4, <1>5, <1>6, <1>7, <1>8, <1>9

LEMMA LoanIs ==
    LET f == "loan"
    IN  /\ \A r : RowFits(f, r) <=> r \in LoanRow /\ LoanFits(r)
        /\ \A d, b : DraftFits(f, d, b) <=> d \in LoanDrafts
        /\ \A d, b : FormReady(f, d, b) <=> LoanReady(d)
        /\ \A d, b : Sendable(f, d, b) <=> LoanReady(d)
        /\ FormRows(f) = LoanRows
        /\ FormEmpty(f) = LoanEmpty
        /\ \A r : FormDraft(f, r) = LoanDraft(r)
        /\ \A d, r : FormTyped(f, d, r) = LoanTyped(d, r)
        /\ \A d, r : FormBody(f, d, r) = LoanBody(d, r)
        /\ \A b, r : FormAccepts(f, b, r) <=> LoanAccepts(b, r)
        /\ \A b, r : FormWrite(f, b, r) = LoanWrite(b, r)
        /\ \A r : FormElsewhere(f, r) = LoanElsewhere(r)
        /\ \A d, r : FormSettled(f, d, r) = LoanSettled(d, r)
        /\ \A d, r : FormShows(f, d, r) = d
        /\ \A d, r : FormSuggested(f, d, r) = {}
        /\ \A r : FormAfter(f, r) = None
        /\ \A r : FormLinks(f, r) = {} /\ ~Linked(f, r)
        /\ \A r : FormLists(f, r)
        /\ \A r : ~Differs(f, r)
        /\ \A r, s : Kin(f, r, s)
        /\ \A d : Inputs(f, d)
        /\ FormOffers(f, "add")
        /\ f \notin Live
  <1>1. \A r : RowFits("loan", r) <=> r \in LoanRow /\ LoanFits(r)
    BY DEF RowFits, FormRow
  <1>2. \A d, b : DraftFits("loan", d, b) <=> d \in LoanDrafts
    BY DEF DraftFits
  <1>3. /\ \A d, b : FormReady("loan", d, b) <=> LoanReady(d)
        /\ \A d, b : Sendable("loan", d, b) <=> LoanReady(d)
    BY DEF FormReady, Sendable
  <1>4. /\ FormRows("loan") = LoanRows
        /\ FormEmpty("loan") = LoanEmpty
        /\ \A r : FormDraft("loan", r) = LoanDraft(r)
    BY DEF FormRows, FormEmpty, FormDraft
  <1>5. /\ \A d, r : FormTyped("loan", d, r) = LoanTyped(d, r)
        /\ \A d, r : FormBody("loan", d, r) = LoanBody(d, r)
    BY DEF FormTyped, FormBody
  <1>6. /\ \A b, r : FormAccepts("loan", b, r) <=> LoanAccepts(b, r)
        /\ \A b, r : FormWrite("loan", b, r) = LoanWrite(b, r)
        /\ \A r : FormElsewhere("loan", r) = LoanElsewhere(r)
    BY DEF FormAccepts, FormWrite, FormElsewhere
  <1>7. /\ \A d, r : FormSettled("loan", d, r) = LoanSettled(d, r)
        /\ \A d, r : FormShows("loan", d, r) = d
        /\ \A d, r : FormSuggested("loan", d, r) = {}
        /\ \A r : FormAfter("loan", r) = None
    BY DEF FormSettled, FormShows, FormSuggested, FormAfter
  <1>8. /\ \A r : FormLinks("loan", r) = {} /\ ~Linked("loan", r)
        /\ \A r : FormLists("loan", r)
        /\ \A r : ~Differs("loan", r)
        /\ \A r, s : Kin("loan", r, s)
        /\ \A d : Inputs("loan", d)
    BY DEF FormLinks, Linked, FormLists, Differs, Kin, Inputs
  <1>9. /\ FormOffers("loan", "add")
        /\ "loan" \notin Live
    BY DEF FormOffers, Live, LoanOffers
  <1> QED BY <1>1, <1>2, <1>3, <1>4, <1>5, <1>6, <1>7, <1>8, <1>9

LEMMA ProductIs ==
    LET f == "product"
    IN  /\ \A r : RowFits(f, r) <=> r \in ProductRow /\ ProductFits(r)
        /\ \A d, b : DraftFits(f, d, b) <=> d \in ProductDrafts(b)
        /\ \A d, b : FormReady(f, d, b) <=> ProductReady(d)
        /\ \A d, b : Sendable(f, d, b) <=> ProductReady(d)
        /\ FormRows(f) = ProductRows
        /\ FormEmpty(f) = ProductEmpty
        /\ \A r : FormDraft(f, r) = ProductDraft(r)
        /\ \A d, r : FormTyped(f, d, r) = ProductTyped(d, r)
        /\ \A d, r : FormBody(f, d, r) = ProductBody(d, r)
        /\ \A b, r : FormAccepts(f, b, r) <=> ProductAccepts(b, r)
        /\ \A b, r : FormWrite(f, b, r) = ProductWrite(b, r)
        /\ \A r : FormElsewhere(f, r) = ProductElsewhere(r)
        /\ \A d, r : FormSettled(f, d, r) = ProductSettled(d, r)
        /\ \A d, r : FormShows(f, d, r) = d
        /\ \A d, r : FormSuggested(f, d, r) = {}
        /\ \A r : FormAfter(f, r) = None
        /\ \A r : FormLinks(f, r) = ProductLinks(r) /\ (Linked(f, r) <=> r.linked \in BOOLEAN)
        /\ \A r : FormLists(f, r)
        /\ \A r : ~Differs(f, r)
        /\ \A r, s : Kin(f, r, s)
        /\ \A d : Inputs(f, d)
        /\ FormOffers(f, "add")
        /\ f \notin Live
  <1>1. \A r : RowFits("product", r) <=> r \in ProductRow /\ ProductFits(r)
    BY DEF RowFits, FormRow
  <1>2. \A d, b : DraftFits("product", d, b) <=> d \in ProductDrafts(b)
    BY DEF DraftFits
  <1>3. /\ \A d, b : FormReady("product", d, b) <=> ProductReady(d)
        /\ \A d, b : Sendable("product", d, b) <=> ProductReady(d)
    BY DEF FormReady, Sendable
  <1>4. /\ FormRows("product") = ProductRows
        /\ FormEmpty("product") = ProductEmpty
        /\ \A r : FormDraft("product", r) = ProductDraft(r)
    BY DEF FormRows, FormEmpty, FormDraft
  <1>5. /\ \A d, r : FormTyped("product", d, r) = ProductTyped(d, r)
        /\ \A d, r : FormBody("product", d, r) = ProductBody(d, r)
    BY DEF FormTyped, FormBody
  <1>6. /\ \A b, r : FormAccepts("product", b, r) <=> ProductAccepts(b, r)
        /\ \A b, r : FormWrite("product", b, r) = ProductWrite(b, r)
        /\ \A r : FormElsewhere("product", r) = ProductElsewhere(r)
    BY DEF FormAccepts, FormWrite, FormElsewhere
  <1>7. /\ \A d, r : FormSettled("product", d, r) = ProductSettled(d, r)
        /\ \A d, r : FormShows("product", d, r) = d
        /\ \A d, r : FormSuggested("product", d, r) = {}
        /\ \A r : FormAfter("product", r) = None
    BY DEF FormSettled, FormShows, FormSuggested, FormAfter
  <1>8. /\ \A r : FormLinks("product", r) = ProductLinks(r)
        /\ \A r : Linked("product", r) <=> r.linked \in BOOLEAN
        /\ \A r : FormLists("product", r)
        /\ \A r : ~Differs("product", r)
        /\ \A r, s : Kin("product", r, s)
        /\ \A d : Inputs("product", d)
    BY DEF FormLinks, Linked, FormLists, Differs, Kin, Inputs
  <1>9. /\ FormOffers("product", "add")
        /\ "product" \notin Live
    BY DEF FormOffers, Live, ProductOffers
  <1> QED BY <1>1, <1>2, <1>3, <1>4, <1>5, <1>6, <1>7, <1>8, <1>9

LEMMA RealEstateIs ==
    LET f == "realEstate"
    IN  /\ \A r : RowFits(f, r) <=> r \in ProductRow /\ RealEstateFits(r)
        /\ \A d, b : DraftFits(f, d, b) <=> d \in RealEstateDrafts
        /\ \A d, b : FormReady(f, d, b) <=> RealEstateReady(d)
        /\ \A d, b : Sendable(f, d, b) <=> RealEstateReady(d)
        /\ FormRows(f) = RealEstateRows
        /\ FormEmpty(f) = RealEstateEmpty
        /\ \A r : FormDraft(f, r) = RealEstateDraft(r)
        /\ \A d, r : FormTyped(f, d, r) = RealEstateTyped(d, r)
        /\ \A d, r : FormBody(f, d, r) = RealEstateBody(d, r)
        /\ \A b, r : FormAccepts(f, b, r) <=> ProductAccepts(b, r)
        /\ \A b, r : FormWrite(f, b, r) = ProductWrite(b, r)
        /\ \A r : FormElsewhere(f, r) = ProductElsewhere(r)
        /\ \A d, r : FormSettled(f, d, r) = RealEstateSettled(d, r)
        /\ \A d, r : FormShows(f, d, r) = d
        /\ \A d, r : FormSuggested(f, d, r) = {}
        /\ \A r : FormAfter(f, r) = None
        /\ \A r : FormLinks(f, r) = ProductLinks(r) /\ (Linked(f, r) <=> r.linked \in BOOLEAN)
        /\ \A r : FormLists(f, r)
        /\ \A r : ~Differs(f, r)
        /\ \A r, s : Kin(f, r, s)
        /\ \A d : Inputs(f, d)
        /\ FormOffers(f, "add")
        /\ f \notin Live
  <1>1. \A r : RowFits("realEstate", r) <=> r \in ProductRow /\ RealEstateFits(r)
    BY DEF RowFits, FormRow
  <1>2. \A d, b : DraftFits("realEstate", d, b) <=> d \in RealEstateDrafts
    BY DEF DraftFits
  <1>3. /\ \A d, b : FormReady("realEstate", d, b) <=> RealEstateReady(d)
        /\ \A d, b : Sendable("realEstate", d, b) <=> RealEstateReady(d)
    BY DEF FormReady, Sendable
  <1>4. /\ FormRows("realEstate") = RealEstateRows
        /\ FormEmpty("realEstate") = RealEstateEmpty
        /\ \A r : FormDraft("realEstate", r) = RealEstateDraft(r)
    BY DEF FormRows, FormEmpty, FormDraft
  <1>5. /\ \A d, r : FormTyped("realEstate", d, r) = RealEstateTyped(d, r)
        /\ \A d, r : FormBody("realEstate", d, r) = RealEstateBody(d, r)
    BY DEF FormTyped, FormBody
  <1>6. /\ \A b, r : FormAccepts("realEstate", b, r) <=> ProductAccepts(b, r)
        /\ \A b, r : FormWrite("realEstate", b, r) = ProductWrite(b, r)
        /\ \A r : FormElsewhere("realEstate", r) = ProductElsewhere(r)
    BY DEF FormAccepts, FormWrite, FormElsewhere
  <1>7. /\ \A d, r : FormSettled("realEstate", d, r) = RealEstateSettled(d, r)
        /\ \A d, r : FormShows("realEstate", d, r) = d
        /\ \A d, r : FormSuggested("realEstate", d, r) = {}
        /\ \A r : FormAfter("realEstate", r) = None
    BY DEF FormSettled, FormShows, FormSuggested, FormAfter
  <1>8. /\ \A r : FormLinks("realEstate", r) = ProductLinks(r)
        /\ \A r : Linked("realEstate", r) <=> r.linked \in BOOLEAN
        /\ \A r : FormLists("realEstate", r)
        /\ \A r : ~Differs("realEstate", r)
        /\ \A r, s : Kin("realEstate", r, s)
        /\ \A d : Inputs("realEstate", d)
    BY DEF FormLinks, Linked, FormLists, Differs, Kin, Inputs
  <1>9. /\ FormOffers("realEstate", "add")
        /\ "realEstate" \notin Live
    BY DEF FormOffers, Live, RealEstateOffers
  <1> QED BY <1>1, <1>2, <1>3, <1>4, <1>5, <1>6, <1>7, <1>8, <1>9

LEMMA TransactionIs ==
    LET f == "transaction"
    IN  /\ \A r : RowFits(f, r) <=> r \in TransactionRow /\ TransactionFits(r)
        /\ \A d, b : DraftFits(f, d, b) <=> d \in TransactionDrafts(b) /\ TypesAgree(d)
        /\ \A d, b : FormReady(f, d, b) <=> TransactionReady(d)
        /\ \A d, b : Sendable(f, d, b) <=> d.amount # Blank /\ d.category # Blank
        /\ FormRows(f) = TransactionRows
        /\ FormEmpty(f) = TransactionEmpty
        /\ \A r : FormDraft(f, r) = TransactionDraft(r)
        /\ \A d, r : FormTyped(f, d, r) = TransactionTyped(d, r)
        /\ \A d, r : FormBody(f, d, r) = TransactionBody(d, r)
        /\ \A b, r : FormAccepts(f, b, r) <=> TransactionAccepts(b, r)
        /\ \A b, r : FormWrite(f, b, r) = TransactionWrite(b, r)
        /\ \A r : FormElsewhere(f, r) = TransactionElsewhere(r)
        /\ \A d, r : FormSettled(f, d, r) = TransactionSettled(d, r)
        /\ \A d, r : FormShows(f, d, r) = d
        /\ \A d, r : FormSuggested(f, d, r) = IF r = None THEN TransactionSuggested(d) ELSE {}
        /\ \A r : FormAfter(f, r) = None
        /\ \A r : FormLinks(f, r) = {} /\ ~Linked(f, r)
        /\ \A r : FormLists(f, r)
        /\ \A r : ~Differs(f, r)
        /\ \A r, s : Kin(f, r, s)
        /\ \A d : Inputs(f, d)
        /\ FormOffers(f, "add")
        /\ f \notin Live
  <1>1. \A r : RowFits("transaction", r) <=> r \in TransactionRow /\ TransactionFits(r)
    BY DEF RowFits, FormRow
  <1>2. \A d, b : DraftFits("transaction", d, b) <=> d \in TransactionDrafts(b) /\ TypesAgree(d)
    BY DEF DraftFits
  <1>3. /\ \A d, b : FormReady("transaction", d, b) <=> TransactionReady(d)
        /\ \A d, b : Sendable("transaction", d, b) <=> d.amount # Blank /\ d.category # Blank
    BY DEF FormReady, Sendable
  <1>4. /\ FormRows("transaction") = TransactionRows
        /\ FormEmpty("transaction") = TransactionEmpty
        /\ \A r : FormDraft("transaction", r) = TransactionDraft(r)
    BY DEF FormRows, FormEmpty, FormDraft
  <1>5. /\ \A d, r : FormTyped("transaction", d, r) = TransactionTyped(d, r)
        /\ \A d, r : FormBody("transaction", d, r) = TransactionBody(d, r)
    BY DEF FormTyped, FormBody
  <1>6. /\ \A b, r : FormAccepts("transaction", b, r) <=> TransactionAccepts(b, r)
        /\ \A b, r : FormWrite("transaction", b, r) = TransactionWrite(b, r)
        /\ \A r : FormElsewhere("transaction", r) = TransactionElsewhere(r)
    BY DEF FormAccepts, FormWrite, FormElsewhere
  <1>7. /\ \A d, r : FormSettled("transaction", d, r) = TransactionSettled(d, r)
        /\ \A d, r : FormShows("transaction", d, r) = d
        /\ \A d, r : FormSuggested("transaction", d, r)
                          = IF r = None THEN TransactionSuggested(d) ELSE {}
        /\ \A r : FormAfter("transaction", r) = None
    BY DEF FormSettled, FormShows, FormSuggested, FormAfter
  <1>8. /\ \A r : FormLinks("transaction", r) = {} /\ ~Linked("transaction", r)
        /\ \A r : FormLists("transaction", r)
        /\ \A r : ~Differs("transaction", r)
        /\ \A r, s : Kin("transaction", r, s)
        /\ \A d : Inputs("transaction", d)
    BY DEF FormLinks, Linked, FormLists, Differs, Kin, Inputs
  <1>9. /\ FormOffers("transaction", "add")
        /\ "transaction" \notin Live
    BY DEF FormOffers, Live, TransactionOffers
  <1> QED BY <1>1, <1>2, <1>3, <1>4, <1>5, <1>6, <1>7, <1>8, <1>9

LEMMA EventIs ==
    LET f == "event"
    IN  /\ \A r : RowFits(f, r) <=> r \in EventRow /\ EventFits(r)
        /\ \A d, b : DraftFits(f, d, b) <=> d \in EventDrafts(b)
        /\ \A d, b : FormReady(f, d, b) <=> EventReady(d)
        /\ \A d, b : Sendable(f, d, b) <=> EventReady(d)
        /\ FormRows(f) = EventRows
        /\ FormEmpty(f) = EventEmpty
        /\ \A r : FormDraft(f, r) = EventDraft(r)
        /\ \A d, r : FormTyped(f, d, r) = EventTyped(d, r)
        /\ \A d, r : FormBody(f, d, r) = EventBody(d, r)
        /\ \A b, r : FormAccepts(f, b, r) <=> EventAccepts(b, r)
        /\ \A b, r : FormWrite(f, b, r) = EventWrite(b, r)
        /\ \A r : FormElsewhere(f, r) = EventElsewhere(r)
        /\ \A d, r : FormSettled(f, d, r) = EventSettled(d, r)
        /\ \A d, r : FormShows(f, d, r) = d
        /\ \A d, r : FormSuggested(f, d, r) = {}
        /\ \A r : FormAfter(f, r) = None
        /\ \A r : FormLinks(f, r) = {} /\ ~Linked(f, r)
        /\ \A r : FormLists(f, r)
        /\ \A r : ~Differs(f, r)
        /\ \A r, s : Kin(f, r, s)
        /\ \A d : Inputs(f, d)
        /\ FormOffers(f, "add")
        /\ f \notin Live
  <1>1. \A r : RowFits("event", r) <=> r \in EventRow /\ EventFits(r)
    BY DEF RowFits, FormRow
  <1>2. \A d, b : DraftFits("event", d, b) <=> d \in EventDrafts(b)
    BY DEF DraftFits
  <1>3. /\ \A d, b : FormReady("event", d, b) <=> EventReady(d)
        /\ \A d, b : Sendable("event", d, b) <=> EventReady(d)
    BY DEF FormReady, Sendable
  <1>4. /\ FormRows("event") = EventRows
        /\ FormEmpty("event") = EventEmpty
        /\ \A r : FormDraft("event", r) = EventDraft(r)
    BY DEF FormRows, FormEmpty, FormDraft
  <1>5. /\ \A d, r : FormTyped("event", d, r) = EventTyped(d, r)
        /\ \A d, r : FormBody("event", d, r) = EventBody(d, r)
    BY DEF FormTyped, FormBody
  <1>6. /\ \A b, r : FormAccepts("event", b, r) <=> EventAccepts(b, r)
        /\ \A b, r : FormWrite("event", b, r) = EventWrite(b, r)
        /\ \A r : FormElsewhere("event", r) = EventElsewhere(r)
    BY DEF FormAccepts, FormWrite, FormElsewhere
  <1>7. /\ \A d, r : FormSettled("event", d, r) = EventSettled(d, r)
        /\ \A d, r : FormShows("event", d, r) = d
        /\ \A d, r : FormSuggested("event", d, r) = {}
        /\ \A r : FormAfter("event", r) = None
    BY DEF FormSettled, FormShows, FormSuggested, FormAfter
  <1>8. /\ \A r : FormLinks("event", r) = {} /\ ~Linked("event", r)
        /\ \A r : FormLists("event", r)
        /\ \A r : ~Differs("event", r)
        /\ \A r, s : Kin("event", r, s)
        /\ \A d : Inputs("event", d)
    BY DEF FormLinks, Linked, FormLists, Differs, Kin, Inputs
  <1>9. /\ FormOffers("event", "add")
        /\ "event" \notin Live
    BY DEF FormOffers, Live, EventOffers
  <1> QED BY <1>1, <1>2, <1>3, <1>4, <1>5, <1>6, <1>7, <1>8, <1>9

LEMMA RecurringIs ==
    LET f == "recurring"
    IN  /\ \A r : RowFits(f, r) <=> r \in RecurringRow /\ RecurringFits(r)
        /\ \A d, b : DraftFits(f, d, b) <=> d \in RecurringDrafts
        /\ \A d, b : FormReady(f, d, b) <=> RecurringReady(d)
        /\ \A d, b : Sendable(f, d, b) <=> RecurringReady(d)
        /\ FormRows(f) = RecurringRows
        /\ FormEmpty(f) = RecurringEmpty
        /\ \A r : FormDraft(f, r) = RecurringDraft(r)
        /\ \A d, r : FormTyped(f, d, r) = RecurringTyped(d, r)
        /\ \A d, r : FormBody(f, d, r) = RecurringBody(d, r)
        /\ \A b, r : FormAccepts(f, b, r) <=> RecurringAccepts(b, r)
        /\ \A b, r : FormWrite(f, b, r) = RecurringWrite(b, r)
        /\ \A r : FormElsewhere(f, r) = RecurringElsewhere(r)
        /\ \A d, r : FormSettled(f, d, r) = RecurringSettled(d, r)
        /\ \A d, r : FormShows(f, d, r) = d
        /\ \A d, r : FormSuggested(f, d, r) = {}
        /\ \A r : FormAfter(f, r) = None
        /\ \A r : FormLinks(f, r) = {} /\ ~Linked(f, r)
        /\ \A r : FormLists(f, r)
        /\ \A r : ~Differs(f, r)
        /\ \A r, s : Kin(f, r, s)
        /\ \A d : Inputs(f, d)
        /\ FormOffers(f, "add")
        /\ f \notin Live
  <1>1. \A r : RowFits("recurring", r) <=> r \in RecurringRow /\ RecurringFits(r)
    BY DEF RowFits, FormRow
  <1>2. \A d, b : DraftFits("recurring", d, b) <=> d \in RecurringDrafts
    BY DEF DraftFits
  <1>3. /\ \A d, b : FormReady("recurring", d, b) <=> RecurringReady(d)
        /\ \A d, b : Sendable("recurring", d, b) <=> RecurringReady(d)
    BY DEF FormReady, Sendable
  <1>4. /\ FormRows("recurring") = RecurringRows
        /\ FormEmpty("recurring") = RecurringEmpty
        /\ \A r : FormDraft("recurring", r) = RecurringDraft(r)
    BY DEF FormRows, FormEmpty, FormDraft
  <1>5. /\ \A d, r : FormTyped("recurring", d, r) = RecurringTyped(d, r)
        /\ \A d, r : FormBody("recurring", d, r) = RecurringBody(d, r)
    BY DEF FormTyped, FormBody
  <1>6. /\ \A b, r : FormAccepts("recurring", b, r) <=> RecurringAccepts(b, r)
        /\ \A b, r : FormWrite("recurring", b, r) = RecurringWrite(b, r)
        /\ \A r : FormElsewhere("recurring", r) = RecurringElsewhere(r)
    BY DEF FormAccepts, FormWrite, FormElsewhere
  <1>7. /\ \A d, r : FormSettled("recurring", d, r) = RecurringSettled(d, r)
        /\ \A d, r : FormShows("recurring", d, r) = d
        /\ \A d, r : FormSuggested("recurring", d, r) = {}
        /\ \A r : FormAfter("recurring", r) = None
    BY DEF FormSettled, FormShows, FormSuggested, FormAfter
  <1>8. /\ \A r : FormLinks("recurring", r) = {} /\ ~Linked("recurring", r)
        /\ \A r : FormLists("recurring", r)
        /\ \A r : ~Differs("recurring", r)
        /\ \A r, s : Kin("recurring", r, s)
        /\ \A d : Inputs("recurring", d)
    BY DEF FormLinks, Linked, FormLists, Differs, Kin, Inputs
  <1>9. /\ FormOffers("recurring", "add")
        /\ "recurring" \notin Live
    BY DEF FormOffers, Live, RecurringOffers
  <1> QED BY <1>1, <1>2, <1>3, <1>4, <1>5, <1>6, <1>7, <1>8, <1>9

LEMMA TodoIs ==
    LET f == "todo"
    IN  /\ \A r : RowFits(f, r) <=> r \in TodoRow /\ TodoFits(r)
        /\ \A d, b : DraftFits(f, d, b) <=>
               d \in TodoDrafts(b) /\ (d.frequency # "once" => d.due # Blank)
        /\ \A d, b : FormReady(f, d, b) <=> TodoReady(d)
        /\ \A d, b : Sendable(f, d, b) <=> TodoReady(d)
        /\ FormRows(f) = TodoRows
        /\ FormEmpty(f) = TodoEmpty
        /\ \A r : FormDraft(f, r) = TodoDraft(r)
        /\ \A d, r : FormTyped(f, d, r) = TodoTyped(d, r)
        /\ \A d, r : FormBody(f, d, r) = TodoBody(d, r)
        /\ \A b, r : FormAccepts(f, b, r) <=> TodoAccepts(b, r)
        /\ \A b, r : FormWrite(f, b, r) = TodoWrite(b, r)
        /\ \A r : FormElsewhere(f, r) = TodoElsewhere(r)
        /\ \A d, r : FormSettled(f, d, r) = TodoSettled(d, r)
        /\ \A d, r : FormShows(f, d, r) = d
        /\ \A d, r : FormSuggested(f, d, r) = {}
        /\ \A r : FormAfter(f, r) = None
        /\ \A r : FormLinks(f, r) = {} /\ ~Linked(f, r)
        /\ \A r : FormLists(f, r)
        /\ \A r : ~Differs(f, r)
        /\ \A r, s : Kin(f, r, s)
        /\ \A d : Inputs(f, d)
        /\ FormOffers(f, "add")
        /\ f \notin Live
  <1>1. \A r : RowFits("todo", r) <=> r \in TodoRow /\ TodoFits(r)
    BY DEF RowFits, FormRow
  <1>2. \A d, b : DraftFits("todo", d, b) <=>
               d \in TodoDrafts(b) /\ (d.frequency # "once" => d.due # Blank)
    BY DEF DraftFits
  <1>3. /\ \A d, b : FormReady("todo", d, b) <=> TodoReady(d)
        /\ \A d, b : Sendable("todo", d, b) <=> TodoReady(d)
    BY DEF FormReady, Sendable
  <1>4. /\ FormRows("todo") = TodoRows
        /\ FormEmpty("todo") = TodoEmpty
        /\ \A r : FormDraft("todo", r) = TodoDraft(r)
    BY DEF FormRows, FormEmpty, FormDraft
  <1>5. /\ \A d, r : FormTyped("todo", d, r) = TodoTyped(d, r)
        /\ \A d, r : FormBody("todo", d, r) = TodoBody(d, r)
    BY DEF FormTyped, FormBody
  <1>6. /\ \A b, r : FormAccepts("todo", b, r) <=> TodoAccepts(b, r)
        /\ \A b, r : FormWrite("todo", b, r) = TodoWrite(b, r)
        /\ \A r : FormElsewhere("todo", r) = TodoElsewhere(r)
    BY DEF FormAccepts, FormWrite, FormElsewhere
  <1>7. /\ \A d, r : FormSettled("todo", d, r) = TodoSettled(d, r)
        /\ \A d, r : FormShows("todo", d, r) = d
        /\ \A d, r : FormSuggested("todo", d, r) = {}
        /\ \A r : FormAfter("todo", r) = None
    BY DEF FormSettled, FormShows, FormSuggested, FormAfter
  <1>8. /\ \A r : FormLinks("todo", r) = {} /\ ~Linked("todo", r)
        /\ \A r : FormLists("todo", r)
        /\ \A r : ~Differs("todo", r)
        /\ \A r, s : Kin("todo", r, s)
        /\ \A d : Inputs("todo", d)
    BY DEF FormLinks, Linked, FormLists, Differs, Kin, Inputs
  <1>9. /\ FormOffers("todo", "add")
        /\ "todo" \notin Live
    BY DEF FormOffers, Live, TodoOffers
  <1> QED BY <1>1, <1>2, <1>3, <1>4, <1>5, <1>6, <1>7, <1>8, <1>9

LEMMA CategoryIs ==
    LET f == "category"
    IN  /\ \A r : RowFits(f, r) <=> r \in CategoryRow
        /\ \A d, b : DraftFits(f, d, b) <=> d \in CategoryDrafts
        /\ \A d, b : FormReady(f, d, b) <=> CategoryReady(d)
        /\ \A d, b : Sendable(f, d, b) <=> CategoryReady(d)
        /\ FormRows(f) = CategoryRows
        /\ FormEmpty(f) = CategoryEmpty
        /\ \A r : FormDraft(f, r) = CategoryDraft(r)
        /\ \A d, r : FormTyped(f, d, r) = CategoryTyped(d, r)
        /\ \A d, r : FormBody(f, d, r) = CategoryBody(d, r)
        /\ \A b, r : FormAccepts(f, b, r) <=> CategoryAccepts(b, r)
        /\ \A b, r : FormWrite(f, b, r) = CategoryWrite(b, r)
        /\ \A r : FormElsewhere(f, r) = CategoryElsewhere(r)
        /\ \A d, r : FormSettled(f, d, r) = CategorySettled(d, r)
        /\ \A d, r : FormShows(f, d, r) = d
        /\ \A d, r : FormSuggested(f, d, r) = {}
        /\ \A r : FormAfter(f, r) = None
        /\ \A r : FormLinks(f, r) = {} /\ ~Linked(f, r)
        /\ \A r : FormLists(f, r)
        /\ \A r : ~Differs(f, r)
        /\ \A r, s : Kin(f, r, s)
        /\ \A d : Inputs(f, d)
        /\ FormOffers(f, "add")
        /\ f \notin Live
  <1>1. \A r : RowFits("category", r) <=> r \in CategoryRow
    BY DEF RowFits, FormRow
  <1>2. \A d, b : DraftFits("category", d, b) <=> d \in CategoryDrafts
    BY DEF DraftFits
  <1>3. /\ \A d, b : FormReady("category", d, b) <=> CategoryReady(d)
        /\ \A d, b : Sendable("category", d, b) <=> CategoryReady(d)
    BY DEF FormReady, Sendable
  <1>4. /\ FormRows("category") = CategoryRows
        /\ FormEmpty("category") = CategoryEmpty
        /\ \A r : FormDraft("category", r) = CategoryDraft(r)
    BY DEF FormRows, FormEmpty, FormDraft
  <1>5. /\ \A d, r : FormTyped("category", d, r) = CategoryTyped(d, r)
        /\ \A d, r : FormBody("category", d, r) = CategoryBody(d, r)
    BY DEF FormTyped, FormBody
  <1>6. /\ \A b, r : FormAccepts("category", b, r) <=> CategoryAccepts(b, r)
        /\ \A b, r : FormWrite("category", b, r) = CategoryWrite(b, r)
        /\ \A r : FormElsewhere("category", r) = CategoryElsewhere(r)
    BY DEF FormAccepts, FormWrite, FormElsewhere
  <1>7. /\ \A d, r : FormSettled("category", d, r) = CategorySettled(d, r)
        /\ \A d, r : FormShows("category", d, r) = d
        /\ \A d, r : FormSuggested("category", d, r) = {}
        /\ \A r : FormAfter("category", r) = None
    BY DEF FormSettled, FormShows, FormSuggested, FormAfter
  <1>8. /\ \A r : FormLinks("category", r) = {} /\ ~Linked("category", r)
        /\ \A r : FormLists("category", r)
        /\ \A r : ~Differs("category", r)
        /\ \A r, s : Kin("category", r, s)
        /\ \A d : Inputs("category", d)
    BY DEF FormLinks, Linked, FormLists, Differs, Kin, Inputs
  <1>9. /\ FormOffers("category", "add")
        /\ "category" \notin Live
    BY DEF FormOffers, Live, CategoryOffers
  <1> QED BY <1>1, <1>2, <1>3, <1>4, <1>5, <1>6, <1>7, <1>8, <1>9

LEMMA AnnualItemIs ==
    LET f == "annualItem"
    IN  /\ \A r : RowFits(f, r) <=> r \in PlanItemRow
        /\ \A d, b : DraftFits(f, d, b) <=> d \in AnnualItemDrafts
        /\ \A d, b : FormReady(f, d, b) <=> AnnualItemReady(d)
        /\ \A d, b : Sendable(f, d, b) <=> AnnualItemReady(d)
        /\ FormRows(f) = PlanItemRows
        /\ FormEmpty(f) = AnnualItemEmpty
        /\ \A r : FormDraft(f, r) = AnnualItemDraft(r)
        /\ \A d, r : FormTyped(f, d, r) = AnnualItemTyped(d, r)
        /\ \A d, r : FormBody(f, d, r) = AnnualItemBody(d, r)
        /\ \A b, r : FormAccepts(f, b, r) <=> AnnualItemAccepts(b, r)
        /\ \A b, r : FormWrite(f, b, r) = AnnualItemWrite(b, r)
        /\ \A r : FormElsewhere(f, r) = PlanItemElsewhere(r)
        /\ \A d, r : FormSettled(f, d, r) = AnnualItemSettled(d, r)
        /\ \A d, r : FormShows(f, d, r) = d
        /\ \A d, r : FormSuggested(f, d, r) = {}
        /\ \A r : FormAfter(f, r) = None
        /\ \A r : FormLinks(f, r) = {} /\ ~Linked(f, r)
        /\ \A r : FormLists(f, r)
        /\ \A r : Differs(f, r) <=> r.rule # None
        /\ \A r, s : Kin(f, r, s)
        /\ \A d : Inputs(f, d)
        /\ FormOffers(f, "add")
        /\ f \notin Live
  <1>1. \A r : RowFits("annualItem", r) <=> r \in PlanItemRow
    BY DEF RowFits, FormRow
  <1>2. \A d, b : DraftFits("annualItem", d, b) <=> d \in AnnualItemDrafts
    BY DEF DraftFits
  <1>3. /\ \A d, b : FormReady("annualItem", d, b) <=> AnnualItemReady(d)
        /\ \A d, b : Sendable("annualItem", d, b) <=> AnnualItemReady(d)
    BY DEF FormReady, Sendable
  <1>4. /\ FormRows("annualItem") = PlanItemRows
        /\ FormEmpty("annualItem") = AnnualItemEmpty
        /\ \A r : FormDraft("annualItem", r) = AnnualItemDraft(r)
    BY DEF FormRows, FormEmpty, FormDraft
  <1>5. /\ \A d, r : FormTyped("annualItem", d, r) = AnnualItemTyped(d, r)
        /\ \A d, r : FormBody("annualItem", d, r) = AnnualItemBody(d, r)
    BY DEF FormTyped, FormBody
  <1>6. /\ \A b, r : FormAccepts("annualItem", b, r) <=> AnnualItemAccepts(b, r)
        /\ \A b, r : FormWrite("annualItem", b, r) = AnnualItemWrite(b, r)
        /\ \A r : FormElsewhere("annualItem", r) = PlanItemElsewhere(r)
    BY DEF FormAccepts, FormWrite, FormElsewhere
  <1>7. /\ \A d, r : FormSettled("annualItem", d, r) = AnnualItemSettled(d, r)
        /\ \A d, r : FormShows("annualItem", d, r) = d
        /\ \A d, r : FormSuggested("annualItem", d, r) = {}
        /\ \A r : FormAfter("annualItem", r) = None
    BY DEF FormSettled, FormShows, FormSuggested, FormAfter
  <1>8. /\ \A r : FormLinks("annualItem", r) = {} /\ ~Linked("annualItem", r)
        /\ \A r : FormLists("annualItem", r)
        /\ \A r : Differs("annualItem", r) <=> r.rule # None
        /\ \A r, s : Kin("annualItem", r, s)
        /\ \A d : Inputs("annualItem", d)
    BY DEF FormLinks, Linked, FormLists, Differs, Kin, Inputs
  <1>9. /\ FormOffers("annualItem", "add")
        /\ "annualItem" \notin Live
    BY DEF FormOffers, Live, AnnualItemOffers
  <1> QED BY <1>1, <1>2, <1>3, <1>4, <1>5, <1>6, <1>7, <1>8, <1>9

LEMMA MonthItemIs ==
    LET f == "monthItem"
    IN  /\ \A r : RowFits(f, r) <=> r \in PlanItemRow /\ MonthItemFits(r)
        /\ \A d, b : DraftFits(f, d, b) <=> d \in MonthItemDrafts /\ RuleStands(d, b)
        /\ \A d, b : FormReady(f, d, b) <=> MonthItemReady(d)
        /\ \A d, b : Sendable(f, d, b) <=> MonthItemReady(d)
        /\ FormRows(f) = PlanItemRows
        /\ FormEmpty(f) = MonthItemEmpty
        /\ \A r : FormDraft(f, r) = MonthItemDraft(r)
        /\ \A d, r : FormTyped(f, d, r) = MonthItemTyped(d, r)
        /\ \A d, r : FormBody(f, d, r) = MonthItemBody(d, r)
        /\ \A b, r : FormAccepts(f, b, r) <=> MonthItemAccepts(b, r)
        /\ \A b, r : FormWrite(f, b, r) = MonthItemWrite(b, r)
        /\ \A r : FormElsewhere(f, r) = PlanItemElsewhere(r)
        /\ \A d, r : FormSettled(f, d, r) = MonthItemSettled(d, r)
        /\ \A d, r : FormShows(f, d, r) = d
        /\ \A d, r : FormSuggested(f, d, r) = {}
        /\ \A r : FormAfter(f, r) = MonthItemAfter(r)
        /\ \A r : FormLinks(f, r) = {} /\ ~Linked(f, r)
        /\ \A r : FormLists(f, r) <=> MonthItemLists(r)
        /\ \A r : Differs(f, r) <=> r.rule # None
        /\ \A r, s : Kin(f, r, s)
        /\ \A d : Inputs(f, d)
        /\ FormOffers(f, "add")
        /\ f \notin Live
  <1>1. \A r : RowFits("monthItem", r) <=> r \in PlanItemRow /\ MonthItemFits(r)
    BY DEF RowFits, FormRow
  <1>2. \A d, b : DraftFits("monthItem", d, b) <=> d \in MonthItemDrafts /\ RuleStands(d, b)
    BY DEF DraftFits
  <1>3. /\ \A d, b : FormReady("monthItem", d, b) <=> MonthItemReady(d)
        /\ \A d, b : Sendable("monthItem", d, b) <=> MonthItemReady(d)
    BY DEF FormReady, Sendable
  <1>4. /\ FormRows("monthItem") = PlanItemRows
        /\ FormEmpty("monthItem") = MonthItemEmpty
        /\ \A r : FormDraft("monthItem", r) = MonthItemDraft(r)
    BY DEF FormRows, FormEmpty, FormDraft
  <1>5. /\ \A d, r : FormTyped("monthItem", d, r) = MonthItemTyped(d, r)
        /\ \A d, r : FormBody("monthItem", d, r) = MonthItemBody(d, r)
    BY DEF FormTyped, FormBody
  <1>6. /\ \A b, r : FormAccepts("monthItem", b, r) <=> MonthItemAccepts(b, r)
        /\ \A b, r : FormWrite("monthItem", b, r) = MonthItemWrite(b, r)
        /\ \A r : FormElsewhere("monthItem", r) = PlanItemElsewhere(r)
    BY DEF FormAccepts, FormWrite, FormElsewhere
  <1>7. /\ \A d, r : FormSettled("monthItem", d, r) = MonthItemSettled(d, r)
        /\ \A d, r : FormShows("monthItem", d, r) = d
        /\ \A d, r : FormSuggested("monthItem", d, r) = {}
        /\ \A r : FormAfter("monthItem", r) = MonthItemAfter(r)
    BY DEF FormSettled, FormShows, FormSuggested, FormAfter
  <1>8. /\ \A r : FormLinks("monthItem", r) = {} /\ ~Linked("monthItem", r)
        /\ \A r : FormLists("monthItem", r) <=> MonthItemLists(r)
        /\ \A r : Differs("monthItem", r) <=> r.rule # None
        /\ \A r, s : Kin("monthItem", r, s)
        /\ \A d : Inputs("monthItem", d)
    BY DEF FormLinks, Linked, FormLists, Differs, Kin, Inputs
  <1>9. /\ FormOffers("monthItem", "add")
        /\ "monthItem" \notin Live
    BY DEF FormOffers, Live, MonthItemOffers
  <1> QED BY <1>1, <1>2, <1>3, <1>4, <1>5, <1>6, <1>7, <1>8, <1>9

LEMMA SplitIs ==
    LET f == "split"
    IN  /\ \A r : RowFits(f, r) <=> r \in PlanItemRow
        /\ \A d, b : DraftFits(f, d, b) <=> d \in SplitDrafts
        /\ \A d, b : FormReady(f, d, b) <=> SplitReady(d)
        /\ \A d, b : Sendable(f, d, b) <=> SplitReady(d)
        /\ FormRows(f) = PlanItemRows
        /\ FormEmpty(f) = SplitEmpty
        /\ \A r : FormDraft(f, r) = SplitEmpty
        /\ \A d, r : FormTyped(f, d, r) = SplitTyped(d, r)
        /\ \A d, r : FormBody(f, d, r) = SplitBody(d, r)
        /\ \A b, r : FormAccepts(f, b, r) <=> SplitAccepts(b, r)
        /\ \A b, r : FormWrite(f, b, r) = SplitWrite(b, r)
        /\ \A r : FormElsewhere(f, r) = {}
        /\ \A d, r : FormSettled(f, d, r) = d
        /\ \A d, r : FormShows(f, d, r) = d
        /\ \A d, r : FormSuggested(f, d, r) = {}
        /\ \A r : FormAfter(f, r) = None
        /\ \A r : FormLinks(f, r) = {} /\ ~Linked(f, r)
        /\ \A r : FormLists(f, r) <=> FALSE
        /\ \A r : ~Differs(f, r)
        /\ \A r, s : Kin(f, r, s)
        /\ \A d : Inputs(f, d)
        /\ FormOffers(f, "add")
        /\ f \notin Live
  <1>1. \A r : RowFits("split", r) <=> r \in PlanItemRow
    BY DEF RowFits, FormRow
  <1>2. \A d, b : DraftFits("split", d, b) <=> d \in SplitDrafts
    BY DEF DraftFits
  <1>3. /\ \A d, b : FormReady("split", d, b) <=> SplitReady(d)
        /\ \A d, b : Sendable("split", d, b) <=> SplitReady(d)
    BY DEF FormReady, Sendable
  <1>4. /\ FormRows("split") = PlanItemRows
        /\ FormEmpty("split") = SplitEmpty
        /\ \A r : FormDraft("split", r) = SplitEmpty
    BY DEF FormRows, FormEmpty, FormDraft
  <1>5. /\ \A d, r : FormTyped("split", d, r) = SplitTyped(d, r)
        /\ \A d, r : FormBody("split", d, r) = SplitBody(d, r)
    BY DEF FormTyped, FormBody
  <1>6. /\ \A b, r : FormAccepts("split", b, r) <=> SplitAccepts(b, r)
        /\ \A b, r : FormWrite("split", b, r) = SplitWrite(b, r)
        /\ \A r : FormElsewhere("split", r) = {}
    BY DEF FormAccepts, FormWrite, FormElsewhere
  <1>7. /\ \A d, r : FormSettled("split", d, r) = d
        /\ \A d, r : FormShows("split", d, r) = d
        /\ \A d, r : FormSuggested("split", d, r) = {}
        /\ \A r : FormAfter("split", r) = None
    BY DEF FormSettled, FormShows, FormSuggested, FormAfter
  <1>8. /\ \A r : FormLinks("split", r) = {} /\ ~Linked("split", r)
        /\ \A r : FormLists("split", r) <=> FALSE
        /\ \A r : ~Differs("split", r)
        /\ \A r, s : Kin("split", r, s)
        /\ \A d : Inputs("split", d)
    BY DEF FormLinks, Linked, FormLists, Differs, Kin, Inputs
  <1>9. /\ FormOffers("split", "add")
        /\ "split" \notin Live
    BY DEF FormOffers, Live, SplitOffers
  <1> QED BY <1>1, <1>2, <1>3, <1>4, <1>5, <1>6, <1>7, <1>8, <1>9

LEMMA ProductPlanIs ==
    LET f == "productPlan"
    IN  /\ \A r : RowFits(f, r) <=> r \in ProductPlanRow
        /\ \A d, b : DraftFits(f, d, b) <=> d \in ProductPlanDrafts
        /\ \A d, b : FormReady(f, d, b) <=> TRUE
        /\ \A d, b : Sendable(f, d, b) <=> TRUE
        /\ FormRows(f) = ProductPlanRows
        /\ \A r : FormDraft(f, r) = ProductPlanDraft(r)
        /\ \A d, r : FormTyped(f, d, r) = ProductPlanTyped(d, r)
        /\ \A d, r : FormBody(f, d, r) = ProductPlanBody(d, r)
        /\ \A b, r : FormAccepts(f, b, r) <=> AnnualItemAccepts(b, r)
        /\ \A b, r : FormWrite(f, b, r) = ProductPlanWrite(b, r)
        /\ \A r : FormElsewhere(f, r) = ProductPlanElsewhere(r)
        /\ \A d, r : FormSettled(f, d, r) = ProductPlanSettled(d, r)
        /\ \A d, r : FormShows(f, d, r) = d
        /\ \A d, r : FormSuggested(f, d, r) = {}
        /\ \A r : FormAfter(f, r) = None
        /\ \A r : FormLinks(f, r) = {} /\ ~Linked(f, r)
        /\ \A r : FormLists(f, r)
        /\ \A r : Differs(f, r) <=> ~r.saved
        /\ \A r, s : Kin(f, r, s)
        /\ \A d : Inputs(f, d)
        /\ ~FormOffers(f, "add")
        /\ f \notin Live
  <1>1. \A r : RowFits("productPlan", r) <=> r \in ProductPlanRow
    BY DEF RowFits, FormRow
  <1>2. \A d, b : DraftFits("productPlan", d, b) <=> d \in ProductPlanDrafts
    BY DEF DraftFits
  <1>3. /\ \A d, b : FormReady("productPlan", d, b) <=> TRUE
        /\ \A d, b : Sendable("productPlan", d, b) <=> TRUE
    BY DEF FormReady, Sendable
  <1>4. /\ FormRows("productPlan") = ProductPlanRows
        /\ \A r : FormDraft("productPlan", r) = ProductPlanDraft(r)
    BY DEF FormRows, FormDraft
  <1>5. /\ \A d, r : FormTyped("productPlan", d, r) = ProductPlanTyped(d, r)
        /\ \A d, r : FormBody("productPlan", d, r) = ProductPlanBody(d, r)
    BY DEF FormTyped, FormBody
  <1>6. /\ \A b, r : FormAccepts("productPlan", b, r) <=> AnnualItemAccepts(b, r)
        /\ \A b, r : FormWrite("productPlan", b, r) = ProductPlanWrite(b, r)
        /\ \A r : FormElsewhere("productPlan", r) = ProductPlanElsewhere(r)
    BY DEF FormAccepts, FormWrite, FormElsewhere
  <1>7. /\ \A d, r : FormSettled("productPlan", d, r) = ProductPlanSettled(d, r)
        /\ \A d, r : FormShows("productPlan", d, r) = d
        /\ \A d, r : FormSuggested("productPlan", d, r) = {}
        /\ \A r : FormAfter("productPlan", r) = None
    BY DEF FormSettled, FormShows, FormSuggested, FormAfter
  <1>8. /\ \A r : FormLinks("productPlan", r) = {} /\ ~Linked("productPlan", r)
        /\ \A r : FormLists("productPlan", r)
        /\ \A r : Differs("productPlan", r) <=> ~r.saved
        /\ \A r, s : Kin("productPlan", r, s)
        /\ \A d : Inputs("productPlan", d)
    BY DEF FormLinks, Linked, FormLists, Differs, Kin, Inputs
  <1>9. /\ ~FormOffers("productPlan", "add")
        /\ "productPlan" \notin Live
    BY DEF FormOffers, Live
  <1> QED BY <1>1, <1>2, <1>3, <1>4, <1>5, <1>6, <1>7, <1>8, <1>9

LEMMA GoalIs ==
    LET f == "goal"
    IN  /\ \A r : RowFits(f, r) <=> r \in GoalRow /\ GoalFits(r)
        /\ \A d, b : DraftFits(f, d, b) <=> d \in GoalDrafts(b) /\ KindsAgree(d, b)
        /\ \A d, b : FormReady(f, d, b) <=> GoalReady(d)
        /\ \A d, b : Sendable(f, d, b) <=> GoalReady(d)
        /\ FormRows(f) = GoalRows
        /\ FormEmpty(f) = GoalEmpty
        /\ \A r : FormDraft(f, r) = GoalDraft(r)
        /\ \A d, r : FormTyped(f, d, r) = GoalTyped(d, r)
        /\ \A d, r : FormBody(f, d, r) = GoalBody(d, r)
        /\ \A b, r : FormAccepts(f, b, r) <=> GoalAccepts(b, r)
        /\ \A b, r : FormWrite(f, b, r) = GoalWrite(b, r)
        /\ \A r : FormElsewhere(f, r) = GoalElsewhere(r)
        /\ \A d, r : FormSettled(f, d, r) = GoalSettled(d, r)
        /\ \A d, r : FormShows(f, d, r) = d
        /\ \A d, r : FormSuggested(f, d, r) = {}
        /\ \A r : FormAfter(f, r) = None
        /\ \A r : FormLinks(f, r) = {} /\ ~Linked(f, r)
        /\ \A r : FormLists(f, r)
        /\ \A r : Differs(f, r) <=> Progress(r) # r.manual
        /\ \A r, s : Kin(f, r, s) <=> r.kind = s.kind
        /\ \A d : Inputs(f, d)
        /\ FormOffers(f, "add")
        /\ f \notin Live
  <1>1. \A r : RowFits("goal", r) <=> r \in GoalRow /\ GoalFits(r)
    BY DEF RowFits, FormRow
  <1>2. \A d, b : DraftFits("goal", d, b) <=> d \in GoalDrafts(b) /\ KindsAgree(d, b)
    BY DEF DraftFits
  <1>3. /\ \A d, b : FormReady("goal", d, b) <=> GoalReady(d)
        /\ \A d, b : Sendable("goal", d, b) <=> GoalReady(d)
    BY DEF FormReady, Sendable
  <1>4. /\ FormRows("goal") = GoalRows
        /\ FormEmpty("goal") = GoalEmpty
        /\ \A r : FormDraft("goal", r) = GoalDraft(r)
    BY DEF FormRows, FormEmpty, FormDraft
  <1>5. /\ \A d, r : FormTyped("goal", d, r) = GoalTyped(d, r)
        /\ \A d, r : FormBody("goal", d, r) = GoalBody(d, r)
    BY DEF FormTyped, FormBody
  <1>6. /\ \A b, r : FormAccepts("goal", b, r) <=> GoalAccepts(b, r)
        /\ \A b, r : FormWrite("goal", b, r) = GoalWrite(b, r)
        /\ \A r : FormElsewhere("goal", r) = GoalElsewhere(r)
    BY DEF FormAccepts, FormWrite, FormElsewhere
  <1>7. /\ \A d, r : FormSettled("goal", d, r) = GoalSettled(d, r)
        /\ \A d, r : FormShows("goal", d, r) = d
        /\ \A d, r : FormSuggested("goal", d, r) = {}
        /\ \A r : FormAfter("goal", r) = None
    BY DEF FormSettled, FormShows, FormSuggested, FormAfter
  <1>8. /\ \A r : FormLinks("goal", r) = {} /\ ~Linked("goal", r)
        /\ \A r : FormLists("goal", r)
        /\ \A r : Differs("goal", r) <=> Progress(r) # r.manual
        /\ \A r, s : Kin("goal", r, s) <=> r.kind = s.kind
        /\ \A d : Inputs("goal", d)
    BY DEF FormLinks, Linked, FormLists, Differs, Kin, Inputs
  <1>9. /\ FormOffers("goal", "add")
        /\ "goal" \notin Live
    BY DEF FormOffers, Live, GoalOffers
  <1> QED BY <1>1, <1>2, <1>3, <1>4, <1>5, <1>6, <1>7, <1>8, <1>9

LEMMA ProgressIs ==
    LET f == "progress"
    IN  /\ \A r : RowFits(f, r) <=> r \in GoalRow /\ ProgressFits(r)
        /\ \A d, b : DraftFits(f, d, b) <=> d \in ProgressDrafts
        /\ \A d, b : FormReady(f, d, b) <=> TRUE
        /\ \A d, b : Sendable(f, d, b) <=> TRUE
        /\ FormRows(f) = ProgressRows
        /\ \A r : FormDraft(f, r) = [current |-> None]
        /\ \A d, r : FormTyped(f, d, r) = ProgressTyped(d, r)
        /\ \A d, r : FormBody(f, d, r) = ProgressBody(d, r)
        /\ \A b, r : FormAccepts(f, b, r) <=> GoalAccepts(b, r)
        /\ \A b, r : FormWrite(f, b, r) = GoalWrite(b, r)
        /\ \A r : FormElsewhere(f, r) = ProgressElsewhere(r)
        /\ \A d, r : FormSettled(f, d, r) = ProgressSettled(d, r)
        /\ \A d, r : FormShows(f, d, r) = ProgressShows(d, r)
        /\ \A d, r : FormSuggested(f, d, r) = {}
        /\ \A r : FormAfter(f, r) = None
        /\ \A r : FormLinks(f, r) = {} /\ ~Linked(f, r)
        /\ \A r : FormLists(f, r) <=> ProgressLists(r)
        /\ \A r : ~Differs(f, r)
        /\ \A r, s : Kin(f, r, s) <=> r.kind = s.kind
        /\ \A d : Inputs(f, d)
        /\ ~FormOffers(f, "add")
        /\ f \in Live
  <1>1. \A r : RowFits("progress", r) <=> r \in GoalRow /\ ProgressFits(r)
    BY DEF RowFits, FormRow
  <1>2. \A d, b : DraftFits("progress", d, b) <=> d \in ProgressDrafts
    BY DEF DraftFits
  <1>3. /\ \A d, b : FormReady("progress", d, b) <=> TRUE
        /\ \A d, b : Sendable("progress", d, b) <=> TRUE
    BY DEF FormReady, Sendable
  <1>4. /\ FormRows("progress") = ProgressRows
        /\ \A r : FormDraft("progress", r) = [current |-> None]
    BY DEF FormRows, FormDraft
  <1>5. /\ \A d, r : FormTyped("progress", d, r) = ProgressTyped(d, r)
        /\ \A d, r : FormBody("progress", d, r) = ProgressBody(d, r)
    BY DEF FormTyped, FormBody
  <1>6. /\ \A b, r : FormAccepts("progress", b, r) <=> GoalAccepts(b, r)
        /\ \A b, r : FormWrite("progress", b, r) = GoalWrite(b, r)
        /\ \A r : FormElsewhere("progress", r) = ProgressElsewhere(r)
    BY DEF FormAccepts, FormWrite, FormElsewhere
  <1>7. /\ \A d, r : FormSettled("progress", d, r) = ProgressSettled(d, r)
        /\ \A d, r : FormShows("progress", d, r) = ProgressShows(d, r)
        /\ \A d, r : FormSuggested("progress", d, r) = {}
        /\ \A r : FormAfter("progress", r) = None
    BY DEF FormSettled, FormShows, FormSuggested, FormAfter
  <1>8. /\ \A r : FormLinks("progress", r) = {} /\ ~Linked("progress", r)
        /\ \A r : FormLists("progress", r) <=> ProgressLists(r)
        /\ \A r : ~Differs("progress", r)
        /\ \A r, s : Kin("progress", r, s) <=> r.kind = s.kind
        /\ \A d : Inputs("progress", d)
    BY DEF FormLinks, Linked, FormLists, Differs, Kin, Inputs
  <1>9. /\ ~FormOffers("progress", "add")
        /\ "progress" \in Live
    BY DEF FormOffers, Live
  <1> QED BY <1>1, <1>2, <1>3, <1>4, <1>5, <1>6, <1>7, <1>8, <1>9

LEMMA AchievedIs ==
    LET f == "achieved"
    IN  /\ \A r : RowFits(f, r) <=> r \in GoalRow /\ GoalFits(r)
        /\ \A d, b : DraftFits(f, d, b) <=> d \in AchievedDrafts
        /\ \A d, b : FormReady(f, d, b) <=> TRUE
        /\ \A d, b : Sendable(f, d, b) <=> TRUE
        /\ FormRows(f) = AchievedRows
        /\ \A r : FormDraft(f, r) = AchievedDraft(r)
        /\ \A d, r : FormTyped(f, d, r) = AchievedTyped(d, r)
        /\ \A d, r : FormBody(f, d, r) = AchievedBody(d, r)
        /\ \A b, r : FormAccepts(f, b, r) <=> AchievedAccepts(b, r)
        /\ \A b, r : FormWrite(f, b, r) = AchievedWrite(b, r)
        /\ \A r : FormElsewhere(f, r) = AchievedElsewhere(r)
        /\ \A d, r : FormSettled(f, d, r) = AchievedSettled(d, r)
        /\ \A d, r : FormShows(f, d, r) = AchievedShows(d, r)
        /\ \A d, r : FormSuggested(f, d, r) = {}
        /\ \A r : FormAfter(f, r) = None
        /\ \A r : FormLinks(f, r) = {} /\ ~Linked(f, r)
        /\ \A r : FormLists(f, r) <=> AchievedLists(r)
        /\ \A r : ~Differs(f, r)
        /\ \A r, s : Kin(f, r, s)
        /\ \A d : Inputs(f, d)
        /\ ~FormOffers(f, "add")
        /\ f \in Live
  <1>1. \A r : RowFits("achieved", r) <=> r \in GoalRow /\ GoalFits(r)
    BY DEF RowFits, FormRow
  <1>2. \A d, b : DraftFits("achieved", d, b) <=> d \in AchievedDrafts
    BY DEF DraftFits
  <1>3. /\ \A d, b : FormReady("achieved", d, b) <=> TRUE
        /\ \A d, b : Sendable("achieved", d, b) <=> TRUE
    BY DEF FormReady, Sendable
  <1>4. /\ FormRows("achieved") = AchievedRows
        /\ \A r : FormDraft("achieved", r) = AchievedDraft(r)
    BY DEF FormRows, FormDraft
  <1>5. /\ \A d, r : FormTyped("achieved", d, r) = AchievedTyped(d, r)
        /\ \A d, r : FormBody("achieved", d, r) = AchievedBody(d, r)
    BY DEF FormTyped, FormBody
  <1>6. /\ \A b, r : FormAccepts("achieved", b, r) <=> AchievedAccepts(b, r)
        /\ \A b, r : FormWrite("achieved", b, r) = AchievedWrite(b, r)
        /\ \A r : FormElsewhere("achieved", r) = AchievedElsewhere(r)
    BY DEF FormAccepts, FormWrite, FormElsewhere
  <1>7. /\ \A d, r : FormSettled("achieved", d, r) = AchievedSettled(d, r)
        /\ \A d, r : FormShows("achieved", d, r) = AchievedShows(d, r)
        /\ \A d, r : FormSuggested("achieved", d, r) = {}
        /\ \A r : FormAfter("achieved", r) = None
    BY DEF FormSettled, FormShows, FormSuggested, FormAfter
  <1>8. /\ \A r : FormLinks("achieved", r) = {} /\ ~Linked("achieved", r)
        /\ \A r : FormLists("achieved", r) <=> AchievedLists(r)
        /\ \A r : ~Differs("achieved", r)
        /\ \A r, s : Kin("achieved", r, s)
        /\ \A d : Inputs("achieved", d)
    BY DEF FormLinks, Linked, FormLists, Differs, Kin, Inputs
  <1>9. /\ ~FormOffers("achieved", "add")
        /\ "achieved" \in Live
    BY DEF FormOffers, Live
  <1> QED BY <1>1, <1>2, <1>3, <1>4, <1>5, <1>6, <1>7, <1>8, <1>9

LEMMA PolicyIs ==
    LET f == "policy"
    IN  /\ \A r : RowFits(f, r) <=> r \in PolicyRow /\ PolicyFits(r)
        /\ \A d, b : DraftFits(f, d, b) <=> d \in PolicyDrafts(b) /\ Len(d.riders) <= 2
        /\ \A d, b : FormReady(f, d, b) <=> PolicyReady(d)
        /\ \A d, b : Sendable(f, d, b) <=> PolicyReady(d)
        /\ FormRows(f) = PolicyRows
        /\ FormEmpty(f) = PolicyEmpty
        /\ \A r : FormDraft(f, r) = PolicyDraft(r)
        /\ \A d, r : FormTyped(f, d, r) = PolicyTyped(d, r)
        /\ \A d, r : FormBody(f, d, r) = PolicyBody(d, r)
        /\ \A b, r : FormAccepts(f, b, r) <=> PolicyAccepts(b, r)
        /\ \A b, r : FormWrite(f, b, r) = PolicyWrite(b, r)
        /\ \A r : FormElsewhere(f, r) = PolicyElsewhere(r)
        /\ \A d, r : FormSettled(f, d, r) = PolicySettled(d, r)
        /\ \A d, r : FormShows(f, d, r) = d
        /\ \A d, r : FormSuggested(f, d, r) = {}
        /\ \A r : FormAfter(f, r) = None
        /\ \A r : FormLinks(f, r) = {} /\ ~Linked(f, r)
        /\ \A r : FormLists(f, r)
        /\ \A r : ~Differs(f, r)
        /\ \A r, s : Kin(f, r, s)
        /\ \A d : Inputs(f, d)
        /\ FormOffers(f, "add")
        /\ f \notin Live
  <1>1. \A r : RowFits("policy", r) <=> r \in PolicyRow /\ PolicyFits(r)
    BY DEF RowFits, FormRow
  <1>2. \A d, b : DraftFits("policy", d, b) <=> d \in PolicyDrafts(b) /\ Len(d.riders) <= 2
    BY DEF DraftFits
  <1>3. /\ \A d, b : FormReady("policy", d, b) <=> PolicyReady(d)
        /\ \A d, b : Sendable("policy", d, b) <=> PolicyReady(d)
    BY DEF FormReady, Sendable
  <1>4. /\ FormRows("policy") = PolicyRows
        /\ FormEmpty("policy") = PolicyEmpty
        /\ \A r : FormDraft("policy", r) = PolicyDraft(r)
    BY DEF FormRows, FormEmpty, FormDraft
  <1>5. /\ \A d, r : FormTyped("policy", d, r) = PolicyTyped(d, r)
        /\ \A d, r : FormBody("policy", d, r) = PolicyBody(d, r)
    BY DEF FormTyped, FormBody
  <1>6. /\ \A b, r : FormAccepts("policy", b, r) <=> PolicyAccepts(b, r)
        /\ \A b, r : FormWrite("policy", b, r) = PolicyWrite(b, r)
        /\ \A r : FormElsewhere("policy", r) = PolicyElsewhere(r)
    BY DEF FormAccepts, FormWrite, FormElsewhere
  <1>7. /\ \A d, r : FormSettled("policy", d, r) = PolicySettled(d, r)
        /\ \A d, r : FormShows("policy", d, r) = d
        /\ \A d, r : FormSuggested("policy", d, r) = {}
        /\ \A r : FormAfter("policy", r) = None
    BY DEF FormSettled, FormShows, FormSuggested, FormAfter
  <1>8. /\ \A r : FormLinks("policy", r) = {} /\ ~Linked("policy", r)
        /\ \A r : FormLists("policy", r)
        /\ \A r : ~Differs("policy", r)
        /\ \A r, s : Kin("policy", r, s)
        /\ \A d : Inputs("policy", d)
    BY DEF FormLinks, Linked, FormLists, Differs, Kin, Inputs
  <1>9. /\ FormOffers("policy", "add")
        /\ "policy" \notin Live
    BY DEF FormOffers, Live, PolicyOffers
  <1> QED BY <1>1, <1>2, <1>3, <1>4, <1>5, <1>6, <1>7, <1>8, <1>9

LEMMA TargetsIs ==
    LET f == "targets"
    IN  /\ \A r : RowFits(f, r) <=> r \in TargetsRow
        /\ \A d, b : DraftFits(f, d, b) <=> d \in TargetsDrafts
        /\ \A d, b : FormReady(f, d, b) <=> TRUE
        /\ \A d, b : Sendable(f, d, b) <=> TRUE
        /\ FormRows(f) = TargetsRows
        /\ \A r : FormDraft(f, r) = r
        /\ \A d, r : FormTyped(f, d, r) = TargetsTyped(d, r)
        /\ \A d, r : FormBody(f, d, r) = TargetsBody(d, r)
        /\ \A b, r : FormAccepts(f, b, r) <=> TargetsAccepts(b, r)
        /\ \A b, r : FormWrite(f, b, r) = b
        /\ \A r : FormElsewhere(f, r) = TargetsElsewhere(r)
        /\ \A d, r : FormSettled(f, d, r) = TargetsBody(d, r)
        /\ \A d, r : FormShows(f, d, r) = d
        /\ \A d, r : FormSuggested(f, d, r) = {}
        /\ \A r : FormAfter(f, r) = None
        /\ \A r : FormLinks(f, r) = {} /\ ~Linked(f, r)
        /\ \A r : FormLists(f, r)
        /\ \A r : ~Differs(f, r)
        /\ \A r, s : Kin(f, r, s)
        /\ \A d : Inputs(f, d)
        /\ ~FormOffers(f, "add")
        /\ f \notin Live
  <1>1. \A r : RowFits("targets", r) <=> r \in TargetsRow
    BY DEF RowFits, FormRow
  <1>2. \A d, b : DraftFits("targets", d, b) <=> d \in TargetsDrafts
    BY DEF DraftFits
  <1>3. /\ \A d, b : FormReady("targets", d, b) <=> TRUE
        /\ \A d, b : Sendable("targets", d, b) <=> TRUE
    BY DEF FormReady, Sendable
  <1>4. /\ FormRows("targets") = TargetsRows
        /\ \A r : FormDraft("targets", r) = r
    BY DEF FormRows, FormDraft
  <1>5. /\ \A d, r : FormTyped("targets", d, r) = TargetsTyped(d, r)
        /\ \A d, r : FormBody("targets", d, r) = TargetsBody(d, r)
    BY DEF FormTyped, FormBody
  <1>6. /\ \A b, r : FormAccepts("targets", b, r) <=> TargetsAccepts(b, r)
        /\ \A b, r : FormWrite("targets", b, r) = b
        /\ \A r : FormElsewhere("targets", r) = TargetsElsewhere(r)
    BY DEF FormAccepts, FormWrite, FormElsewhere
  <1>7. /\ \A d, r : FormSettled("targets", d, r) = TargetsBody(d, r)
        /\ \A d, r : FormShows("targets", d, r) = d
        /\ \A d, r : FormSuggested("targets", d, r) = {}
        /\ \A r : FormAfter("targets", r) = None
    BY DEF FormSettled, FormShows, FormSuggested, FormAfter
  <1>8. /\ \A r : FormLinks("targets", r) = {} /\ ~Linked("targets", r)
        /\ \A r : FormLists("targets", r)
        /\ \A r : ~Differs("targets", r)
        /\ \A r, s : Kin("targets", r, s)
        /\ \A d : Inputs("targets", d)
    BY DEF FormLinks, Linked, FormLists, Differs, Kin, Inputs
  <1>9. /\ ~FormOffers("targets", "add")
        /\ "targets" \notin Live
    BY DEF FormOffers, Live
  <1> QED BY <1>1, <1>2, <1>3, <1>4, <1>5, <1>6, <1>7, <1>8, <1>9

LEMMA ThresholdsIs ==
    LET f == "thresholds"
    IN  /\ \A r : RowFits(f, r) <=> r \in ThresholdsRow
        /\ \A d, b : DraftFits(f, d, b) <=> d \in ThresholdsDrafts
        /\ \A d, b : FormReady(f, d, b) <=> ThresholdsReady(d)
        /\ \A d, b : Sendable(f, d, b) <=> ThresholdsReady(d)
        /\ FormRows(f) = ThresholdsRows
        /\ \A r : FormDraft(f, r) = Untouched(r)
        /\ \A d, r : FormTyped(f, d, r) = ThresholdsTyped(d, r)
        /\ \A d, r : FormBody(f, d, r) = ThresholdsBody(d, r)
        /\ \A b, r : FormAccepts(f, b, r) <=> ThresholdsAccepts(b, r)
        /\ \A b, r : FormWrite(f, b, r) = b
        /\ \A r : FormElsewhere(f, r) = ThresholdsElsewhere(r)
        /\ \A d, r : FormSettled(f, d, r) = Over(d, r)
        /\ \A d, r : FormShows(f, d, r) = Over(d, r)
        /\ \A d, r : FormSuggested(f, d, r) = {}
        /\ \A r : FormAfter(f, r) = None
        /\ \A r : FormLinks(f, r) = {} /\ ~Linked(f, r)
        /\ \A r : FormLists(f, r)
        /\ \A r : ~Differs(f, r)
        /\ \A r, s : Kin(f, r, s)
        /\ \A d : Inputs(f, d)
        /\ ~FormOffers(f, "add")
        /\ f \in Live
  <1>1. \A r : RowFits("thresholds", r) <=> r \in ThresholdsRow
    BY DEF RowFits, FormRow
  <1>2. \A d, b : DraftFits("thresholds", d, b) <=> d \in ThresholdsDrafts
    BY DEF DraftFits
  <1>3. /\ \A d, b : FormReady("thresholds", d, b) <=> ThresholdsReady(d)
        /\ \A d, b : Sendable("thresholds", d, b) <=> ThresholdsReady(d)
    BY DEF FormReady, Sendable
  <1>4. /\ FormRows("thresholds") = ThresholdsRows
        /\ \A r : FormDraft("thresholds", r) = Untouched(r)
    BY DEF FormRows, FormDraft
  <1>5. /\ \A d, r : FormTyped("thresholds", d, r) = ThresholdsTyped(d, r)
        /\ \A d, r : FormBody("thresholds", d, r) = ThresholdsBody(d, r)
    BY DEF FormTyped, FormBody
  <1>6. /\ \A b, r : FormAccepts("thresholds", b, r) <=> ThresholdsAccepts(b, r)
        /\ \A b, r : FormWrite("thresholds", b, r) = b
        /\ \A r : FormElsewhere("thresholds", r) = ThresholdsElsewhere(r)
    BY DEF FormAccepts, FormWrite, FormElsewhere
  <1>7. /\ \A d, r : FormSettled("thresholds", d, r) = Over(d, r)
        /\ \A d, r : FormShows("thresholds", d, r) = Over(d, r)
        /\ \A d, r : FormSuggested("thresholds", d, r) = {}
        /\ \A r : FormAfter("thresholds", r) = None
    BY DEF FormSettled, FormShows, FormSuggested, FormAfter
  <1>8. /\ \A r : FormLinks("thresholds", r) = {} /\ ~Linked("thresholds", r)
        /\ \A r : FormLists("thresholds", r)
        /\ \A r : ~Differs("thresholds", r)
        /\ \A r, s : Kin("thresholds", r, s)
        /\ \A d : Inputs("thresholds", d)
    BY DEF FormLinks, Linked, FormLists, Differs, Kin, Inputs
  <1>9. /\ ~FormOffers("thresholds", "add")
        /\ "thresholds" \in Live
    BY DEF FormOffers, Live
  <1> QED BY <1>1, <1>2, <1>3, <1>4, <1>5, <1>6, <1>7, <1>8, <1>9

LEMMA PrefsIs ==
    LET f == "prefs"
    IN  /\ \A r : RowFits(f, r) <=> r \in PrefsRow
        /\ \A d, b : DraftFits(f, d, b) <=> d \in PrefsDrafts
        /\ \A d, b : FormReady(f, d, b) <=> FALSE
        /\ \A d, b : Sendable(f, d, b) <=> TRUE
        /\ FormRows(f) = PrefsRows
        /\ \A r : FormDraft(f, r) = Untouched(r)
        /\ \A d, r : FormTyped(f, d, r) = {}
        /\ \A d, r : FormBody(f, d, r) = Over(d, r)
        /\ \A b, r : FormAccepts(f, b, r) <=> TRUE
        /\ \A b, r : FormWrite(f, b, r) = b
        /\ \A r : FormElsewhere(f, r) = PrefsElsewhere(r)
        /\ \A d, r : FormSettled(f, d, r) = Over(d, r)
        /\ \A d, r : FormShows(f, d, r) = Over(d, r)
        /\ \A d, r : FormSuggested(f, d, r) = PrefsSuggested(r)
        /\ \A r : FormAfter(f, r) = None
        /\ \A r : FormLinks(f, r) = {} /\ ~Linked(f, r)
        /\ \A r : FormLists(f, r)
        /\ \A r : ~Differs(f, r)
        /\ \A r, s : Kin(f, r, s)
        /\ \A d : Inputs(f, d)
        /\ ~FormOffers(f, "add")
        /\ f \in Live
  <1>1. \A r : RowFits("prefs", r) <=> r \in PrefsRow
    BY DEF RowFits, FormRow
  <1>2. \A d, b : DraftFits("prefs", d, b) <=> d \in PrefsDrafts
    BY DEF DraftFits
  <1>3. /\ \A d, b : FormReady("prefs", d, b) <=> FALSE
        /\ \A d, b : Sendable("prefs", d, b) <=> TRUE
    BY DEF FormReady, Sendable
  <1>4. /\ FormRows("prefs") = PrefsRows
        /\ \A r : FormDraft("prefs", r) = Untouched(r)
    BY DEF FormRows, FormDraft
  <1>5. /\ \A d, r : FormTyped("prefs", d, r) = {}
        /\ \A d, r : FormBody("prefs", d, r) = Over(d, r)
    BY DEF FormTyped, FormBody
  <1>6. /\ \A b, r : FormAccepts("prefs", b, r) <=> TRUE
        /\ \A b, r : FormWrite("prefs", b, r) = b
        /\ \A r : FormElsewhere("prefs", r) = PrefsElsewhere(r)
    BY DEF FormAccepts, FormWrite, FormElsewhere
  <1>7. /\ \A d, r : FormSettled("prefs", d, r) = Over(d, r)
        /\ \A d, r : FormShows("prefs", d, r) = Over(d, r)
        /\ \A d, r : FormSuggested("prefs", d, r) = PrefsSuggested(r)
        /\ \A r : FormAfter("prefs", r) = None
    BY DEF FormSettled, FormShows, FormSuggested, FormAfter
  <1>8. /\ \A r : FormLinks("prefs", r) = {} /\ ~Linked("prefs", r)
        /\ \A r : FormLists("prefs", r)
        /\ \A r : ~Differs("prefs", r)
        /\ \A r, s : Kin("prefs", r, s)
        /\ \A d : Inputs("prefs", d)
    BY DEF FormLinks, Linked, FormLists, Differs, Kin, Inputs
  <1>9. /\ ~FormOffers("prefs", "add")
        /\ "prefs" \in Live
    BY DEF FormOffers, Live
  <1> QED BY <1>1, <1>2, <1>3, <1>4, <1>5, <1>6, <1>7, <1>8, <1>9

LEMMA EmailsIs ==
    LET f == "emails"
    IN  /\ \A r : RowFits(f, r) <=> r \in EmailsRow /\ EmailsFits(r)
        /\ \A d, b : DraftFits(f, d, b) <=> d \in EmailsDrafts
        /\ \A d, b : FormReady(f, d, b) <=> EmailsReady(d, b)
        /\ \A d, b : Sendable(f, d, b) <=>
               IF d.drop = None THEN d.email # Blank ELSE b.emails # {d.drop}
        /\ FormRows(f) = EmailsRows
        /\ \A r : FormDraft(f, r) = EmailsDraft(r)
        /\ \A d, r : FormTyped(f, d, r) = EmailsTyped(d, r)
        /\ \A d, r : FormBody(f, d, r) = EmailsBody(d, r)
        /\ \A b, r : FormAccepts(f, b, r) <=> EmailsAccepts(b, r)
        /\ \A b, r : FormWrite(f, b, r) = b
        /\ \A r : FormElsewhere(f, r) = EmailsElsewhere(r)
        /\ \A d, r : FormSettled(f, d, r) = EmailsBody(d, r)
        /\ \A d, r : FormShows(f, d, r) = r
        /\ \A d, r : FormSuggested(f, d, r) = EmailsSuggested(r)
        /\ \A r : FormAfter(f, r) = None
        /\ \A r : FormLinks(f, r) = {} /\ ~Linked(f, r)
        /\ \A r : FormLists(f, r)
        /\ \A r : ~Differs(f, r)
        /\ \A r, s : Kin(f, r, s)
        /\ \A d : Inputs(f, d) <=> d.drop = None
        /\ ~FormOffers(f, "add")
        /\ f \in Live
  <1>1. \A r : RowFits("emails", r) <=> r \in EmailsRow /\ EmailsFits(r)
    BY DEF RowFits, FormRow
  <1>2. \A d, b : DraftFits("emails", d, b) <=> d \in EmailsDrafts
    BY DEF DraftFits
  <1>3. /\ \A d, b : FormReady("emails", d, b) <=> EmailsReady(d, b)
        /\ \A d, b : Sendable("emails", d, b) <=>
               IF d.drop = None THEN d.email # Blank ELSE b.emails # {d.drop}
    BY DEF FormReady, Sendable
  <1>4. /\ FormRows("emails") = EmailsRows
        /\ \A r : FormDraft("emails", r) = EmailsDraft(r)
    BY DEF FormRows, FormDraft
  <1>5. /\ \A d, r : FormTyped("emails", d, r) = EmailsTyped(d, r)
        /\ \A d, r : FormBody("emails", d, r) = EmailsBody(d, r)
    BY DEF FormTyped, FormBody
  <1>6. /\ \A b, r : FormAccepts("emails", b, r) <=> EmailsAccepts(b, r)
        /\ \A b, r : FormWrite("emails", b, r) = b
        /\ \A r : FormElsewhere("emails", r) = EmailsElsewhere(r)
    BY DEF FormAccepts, FormWrite, FormElsewhere
  <1>7. /\ \A d, r : FormSettled("emails", d, r) = EmailsBody(d, r)
        /\ \A d, r : FormShows("emails", d, r) = r
        /\ \A d, r : FormSuggested("emails", d, r) = EmailsSuggested(r)
        /\ \A r : FormAfter("emails", r) = None
    BY DEF FormSettled, FormShows, FormSuggested, FormAfter
  <1>8. /\ \A r : FormLinks("emails", r) = {} /\ ~Linked("emails", r)
        /\ \A r : FormLists("emails", r)
        /\ \A r : ~Differs("emails", r)
        /\ \A r, s : Kin("emails", r, s)
        /\ \A d : Inputs("emails", d) <=> d.drop = None
    BY DEF FormLinks, Linked, FormLists, Differs, Kin, Inputs
  <1>9. /\ ~FormOffers("emails", "add")
        /\ "emails" \in Live
    BY DEF FormOffers, Live
  <1> QED BY <1>1, <1>2, <1>3, <1>4, <1>5, <1>6, <1>7, <1>8, <1>9

LEMMA NameIs ==
    LET f == "name"
    IN  /\ \A r : RowFits(f, r) <=> r \in NameRow
        /\ \A d, b : DraftFits(f, d, b) <=> d \in NameDrafts
        /\ \A d, b : FormReady(f, d, b) <=> NameReady(d, b)
        /\ \A d, b : Sendable(f, d, b) <=> NameReady(d, b)
        /\ FormRows(f) = NameRows
        /\ \A r : FormDraft(f, r) = Untouched(r)
        /\ \A d, r : FormTyped(f, d, r) = NameTyped(d, r)
        /\ \A d, r : FormBody(f, d, r) = Over(d, r)
        /\ \A b, r : FormAccepts(f, b, r) <=> TRUE
        /\ \A b, r : FormWrite(f, b, r) = b
        /\ \A r : FormElsewhere(f, r) = NameElsewhere(r)
        /\ \A d, r : FormSettled(f, d, r) = Over(d, r)
        /\ \A d, r : FormShows(f, d, r) = Over(d, r)
        /\ \A d, r : FormSuggested(f, d, r) = {}
        /\ \A r : FormAfter(f, r) = None
        /\ \A r : FormLinks(f, r) = {} /\ ~Linked(f, r)
        /\ \A r : FormLists(f, r)
        /\ \A r : ~Differs(f, r)
        /\ \A r, s : Kin(f, r, s)
        /\ \A d : Inputs(f, d)
        /\ ~FormOffers(f, "add")
        /\ f \in Live
  <1>1. \A r : RowFits("name", r) <=> r \in NameRow
    BY DEF RowFits, FormRow
  <1>2. \A d, b : DraftFits("name", d, b) <=> d \in NameDrafts
    BY DEF DraftFits
  <1>3. /\ \A d, b : FormReady("name", d, b) <=> NameReady(d, b)
        /\ \A d, b : Sendable("name", d, b) <=> NameReady(d, b)
    BY DEF FormReady, Sendable
  <1>4. /\ FormRows("name") = NameRows
        /\ \A r : FormDraft("name", r) = Untouched(r)
    BY DEF FormRows, FormDraft
  <1>5. /\ \A d, r : FormTyped("name", d, r) = NameTyped(d, r)
        /\ \A d, r : FormBody("name", d, r) = Over(d, r)
    BY DEF FormTyped, FormBody
  <1>6. /\ \A b, r : FormAccepts("name", b, r) <=> TRUE
        /\ \A b, r : FormWrite("name", b, r) = b
        /\ \A r : FormElsewhere("name", r) = NameElsewhere(r)
    BY DEF FormAccepts, FormWrite, FormElsewhere
  <1>7. /\ \A d, r : FormSettled("name", d, r) = Over(d, r)
        /\ \A d, r : FormShows("name", d, r) = Over(d, r)
        /\ \A d, r : FormSuggested("name", d, r) = {}
        /\ \A r : FormAfter("name", r) = None
    BY DEF FormSettled, FormShows, FormSuggested, FormAfter
  <1>8. /\ \A r : FormLinks("name", r) = {} /\ ~Linked("name", r)
        /\ \A r : FormLists("name", r)
        /\ \A r : ~Differs("name", r)
        /\ \A r, s : Kin("name", r, s)
        /\ \A d : Inputs("name", d)
    BY DEF FormLinks, Linked, FormLists, Differs, Kin, Inputs
  <1>9. /\ ~FormOffers("name", "add")
        /\ "name" \in Live
    BY DEF FormOffers, Live
  <1> QED BY <1>1, <1>2, <1>3, <1>4, <1>5, <1>6, <1>7, <1>8, <1>9

-----------------------------------------------------------------------------
(* 2. The forms.                                                           *)

-----------------------------------------------------------------------------
(* Accounts. *)

LEMMA AccountRowsStay == RowsStay("account")
  <1>1. AccountRows \subseteq AccountRow
    BY DEF AccountRows, AccountRow, Names, Owners, Members
  <1>2. ASSUME NEW r \in AccountRow, NEW x \in AccountElsewhere(r)
        PROVE  x \in AccountRow
    BY DEF AccountRow, AccountElsewhere
  <1> QED BY <1>1, <1>2, AccountIs DEF RowsStay

LEMMA AccountDraftsStay == DraftsStay("account")
  <1>1. AccountEmpty \in AccountDrafts
    BY DEF AccountEmpty, AccountDrafts, TypedNames, DraftOwners
  <1>2. ASSUME NEW r \in AccountRow
        PROVE  AccountDraft(r) \in AccountDrafts
    <2>1. /\ r.name \in TypedNames /\ r.type \in {"bank", "cash"}
          /\ r.initial + r.net \in Int \cup {Blank, TooBig, Sign}
          /\ OrBlank(r.owner) \in DraftOwners
      BY OwnerFacts DEF AccountRow, TypedNames
    <2> QED BY <2>1 DEF AccountDraft, AccountDrafts
  <1>3. ASSUME NEW d \in AccountDrafts, NEW r, NEW x \in AccountTyped(d, r)
        PROVE  x \in AccountDrafts
    BY <1>3, TypedFits DEF AccountTyped, AccountDrafts, Put, TypedNames, DraftOwners
  <1> QED BY <1>1, <1>2, <1>3, AccountIs DEF DraftsStay, OnRow, Opens

\* What a draft that is accepted sends.
LEMMA AccountSends ==
  ASSUME NEW d \in AccountDrafts, NEW r, NEW s, AccountReady(d), r = None <=> s = None,
         AccountAccepts(AccountBody(d, r), s)
  PROVE  d.name \in Names /\ SignedFits(d.amount) /\ Won(d.amount) \in Int
  BY AmountFacts DEF AccountDrafts, AccountReady, AccountAccepts, AccountBody, TypedNames

LEMMA AccountRequestsFit == RequestsFit("account")
  <1>1. ASSUME NEW d \in AccountDrafts, NEW r, NEW s, AccountReady(d), r = None <=> s = None,
               s # None => s \in AccountRow, AccountAccepts(AccountBody(d, r), s)
        PROVE  AccountWrite(AccountBody(d, r), s) \in AccountRow
    <2>1. /\ OrNone(d.owner) \in Owners /\ d.type \in {"bank", "cash"}
          /\ d.name \in Names /\ Won(d.amount) \in Int
      BY <1>1, AccountSends, OwnerFacts DEF AccountDrafts
    <2>2. CASE s = None
      BY <1>1, <2>1, <2>2 DEF AccountWrite, AccountBody, AccountRow
    <2>3. CASE s # None
      <3>1. Won(d.amount) - s.net \in Int
        BY <1>1, <2>1, <2>3 DEF AccountRow
      <3> QED BY <1>1, <2>1, <2>3, <3>1 DEF AccountWrite, AccountBody, AccountRow
    <2> QED BY <2>2, <2>3
  <1> QED BY <1>1, AccountIs DEF RequestsFit, OnRow, Opens

LEMMA AccountAnswers == Answers("account")
  <1>1. ASSUME NEW d \in AccountDrafts, NEW t, NEW r, OnRow("account", t, r),
               ~AccountAccepts(AccountBody(d, r), r)
        PROVE  Unsuited("account", d, Original("account", t, r))
    BY <1>1, AccountIs
       DEF AccountBody, AccountAccepts, AccountDrafts, AccountRow, SignedFits, OnRow, Opens,
           Unsuited, Original, AccountDraft, AccountEmpty, NoInput
  <1>2. ASSUME NEW r \in AccountRow, r # None
        PROVE  AccountWrite(AccountBody(AccountDraft(r), r), r) = r
    <2>1. Won(r.initial + r.net) - r.net = r.initial /\ OrNone(OrBlank(r.owner)) = r.owner
      BY OwnerFacts DEF AccountRow, Won
    <2> QED BY <1>2, <2>1 DEF AccountWrite, AccountBody, AccountDraft, AccountRow
  <1>3. ASSUME NEW d \in AccountDrafts, NEW r, AccountReady(d), r # None => r \in AccountRow,
               AccountAccepts(AccountBody(d, r), r), NEW w, w = AccountWrite(AccountBody(d, r), r)
        PROVE  AccountDraft(w) = AccountSettled(d, r)
    <2>1. w.name = d.name /\ w.type = d.type /\ OrBlank(w.owner) = d.owner
      BY <1>3, OwnerFacts DEF AccountWrite, AccountBody, AccountDrafts, AccountRow
    <2>2. w.initial + w.net = Won(d.amount)
      <3>1. CASE r = None
        <4>1. w.initial = Won(d.amount) /\ w.net = 0 /\ Won(d.amount) \in Int
          BY <1>3, <3>1, AccountSends DEF AccountWrite, AccountBody
        <4> QED BY <4>1
      <3>2. CASE r # None
        <4>1. w.initial = Won(d.amount) - r.net /\ w.net = r.net
          BY <1>3, <3>2 DEF AccountWrite, AccountBody, AccountRow
        <4> QED BY <1>3, <3>2, <4>1, AccountSends DEF AccountRow
      <3> QED BY <3>1, <3>2
    <2> QED BY <2>1, <2>2 DEF AccountDrafts, AccountSettled, AccountDraft
  <1> QED BY <1>1, <1>2, <1>3, AccountIs DEF Answers, OnRow, Opens

-----------------------------------------------------------------------------
(* Cards. *)

LEMMA CardRowsStay == RowsStay("card")
  <1>1. CardRows \subseteq CardRow
    BY DEF CardRows, CardRow, Names, Owners, Members
  <1>2. \A r \in CardRows : CardFits(r)
    BY DEF CardRows, CardFits
  <1>3. ASSUME NEW r \in CardRow, CardFits(r), NEW x \in CardElsewhere(r)
        PROVE  x \in CardRow /\ CardFits(x)
    <2>1. x = [r EXCEPT !.open = r.open \ {"a"},
                        !.pay = IF r.pay = "a" THEN None ELSE r.pay]
      BY DEF CardElsewhere, CardRow
    <2>2. x \in CardRow
      BY <2>1 DEF CardRow
    <2>3. x.open = r.open \ {"a"} /\ x.pay = IF r.pay = "a" THEN None ELSE r.pay
      BY <2>1 DEF CardRow
    <2> QED BY <1>3, <2>2, <2>3 DEF CardFits
  <1> QED BY <1>1, <1>2, <1>3, CardIs DEF RowsStay

LEMMA CardDraftsStay == DraftsStay("card")
  <1>1. CardEmpty \in CardDrafts(None)
    BY DEF CardEmpty, CardDrafts, TypedNames, OwnersOver
  <1>2. ASSUME NEW r \in CardRow, r # None
        PROVE  CardDraft(r) \in CardDrafts(r)
    BY <1>2 DEF CardRow, CardDraft, CardDrafts, TypedNames, OwnersOver
  <1>3. ASSUME NEW r, NEW d \in CardDrafts(r), NEW x \in CardTyped(d, r)
        PROVE  x \in CardDrafts(r)
    BY <1>3 DEF CardTyped, CardDrafts, Put, TypedNames, OwnersOver
  <1> QED BY <1>1, <1>2, <1>3, CardIs DEF DraftsStay, OnRow, Opens

LEMMA CardRequestsFit == RequestsFit("card")
  <1>1. ASSUME NEW r, r # None => r \in CardRow, NEW d \in CardDrafts(r), NEW s, CardReady(d),
               r = None <=> s = None, s # None => s \in CardRow /\ CardFits(s),
               CardAccepts(CardBody(d, r), s)
        PROVE  /\ CardWrite(CardBody(d, r), s) \in CardRow
               /\ CardFits(CardWrite(CardBody(d, r), s))
    <2>1. /\ d.name \in Names /\ d.type \in {"credit", "debit"} /\ d.applyToUnlinked \in BOOLEAN
          /\ OrNone(d.owner) \in Owners
          /\ OrNone(d.pay) \in {None} \cup IF s = None THEN {"a", "b"} ELSE s.open
      BY <1>1, OwnerFacts DEF CardDrafts, CardReady, TypedNames, CardAccepts, CardBody,
         OwnersOver, CardRow, Owners, Members, OrNone, OrBlank
    <2>2. CASE s = None
      BY <1>1, <2>1, <2>2 DEF CardWrite, CardBody, CardRow, CardFits
    <2>3. CASE s # None
      <3> DEFINE n == IF d.applyToUnlinked /\ OrNone(d.pay) # None THEN 0 ELSE s.unlinked
      <3>1. n \in 0 .. 1
        BY <1>1, <2>3 DEF CardRow
      <3>2. CardWrite(CardBody(d, r), s)
              = [s EXCEPT !.name = d.name, !.type = d.type, !.pay = OrNone(d.pay),
                          !.owner = OrNone(d.owner), !.unlinked = n]
        BY <1>1, <2>3 DEF CardWrite, CardBody, CardRow
      <3> HIDE DEF n
      <3>3. PICK z : z = [s EXCEPT !.name = d.name, !.type = d.type, !.pay = OrNone(d.pay),
                                   !.owner = OrNone(d.owner), !.unlinked = n]
        OBVIOUS
      <3>4. /\ z = [name |-> d.name, type |-> d.type, pay |-> OrNone(d.pay),
                    owner |-> OrNone(d.owner), unlinked |-> n, open |-> s.open]
            /\ s.open \subseteq {"a", "b"} /\ OrNone(d.pay) \in {None, "a", "b"}
        BY <1>1, <2>1, <2>3, <3>3 DEF CardRow
      <3>5. z \in CardRow
        BY <2>1, <3>1, <3>4 DEF CardRow
      <3>6. z.pay \in {None} \cup z.open
        BY <2>1, <2>3, <3>4
      <3> QED BY <3>2, <3>3, <3>5, <3>6 DEF CardFits
    <2> QED BY <2>2, <2>3
  <1> QED BY <1>1, CardIs DEF RequestsFit, OnRow, Opens

LEMMA CardAnswers == Answers("card")
  <1>1. ASSUME NEW r, r # None => r \in CardRow, NEW d \in CardDrafts(r)
        PROVE  CardAccepts(CardBody(d, r), r)
    BY <1>1 DEF CardAccepts, CardBody, CardDrafts, CardRow, OwnersOver, OrNone, OrBlank,
       Owners, Members
  <1>2. ASSUME NEW r \in CardRow, CardFits(r), r # None
        PROVE  CardWrite(CardBody(CardDraft(r), r), r) = r
    <2>1. /\ OrNone(OrBlank(r.owner)) = r.owner
          /\ OrNone(IF r.pay \in r.open THEN r.pay ELSE Blank) = r.pay
      BY <1>2, OwnerFacts DEF CardRow, CardFits, OrNone
    <2>2. PICK b : b = CardBody(CardDraft(r), r)
      OBVIOUS
    <2>3. /\ b.name = r.name /\ b.type = r.type /\ b.pay = r.pay /\ b.owner = r.owner
          /\ b.applyToUnlinked = FALSE
      BY <1>2, <2>1, <2>2 DEF CardBody, CardDraft
    <2>4. r = [name |-> r.name, type |-> r.type, pay |-> r.pay, owner |-> r.owner,
               unlinked |-> r.unlinked, open |-> r.open]
      BY DEF CardRow
    <2>5. CardWrite(b, r) = [r EXCEPT !.name = r.name, !.type = r.type, !.pay = r.pay,
                                      !.owner = r.owner, !.unlinked = r.unlinked]
      BY <1>2, <2>3 DEF CardWrite
    <2>6. CardWrite(b, r) = [name |-> r.name, type |-> r.type, pay |-> r.pay,
                             owner |-> r.owner, unlinked |-> r.unlinked, open |-> r.open]
      BY <2>4, <2>5
    <2> QED BY <2>2, <2>4, <2>6
  <1>3. ASSUME NEW r, r # None => r \in CardRow, NEW d \in CardDrafts(r),
               NEW w, w = CardWrite(CardBody(d, r), r)
        PROVE  CardDraft(w) = CardSettled(d, r)
    <2>1. w.name = d.name /\ w.type = d.type
      BY <1>3 DEF CardWrite, CardBody, CardRow
    <2>2. OrBlank(w.owner) = d.owner
      BY <1>3 DEF CardWrite, CardBody, CardRow, CardDrafts, OwnersOver, OrNone, OrBlank,
         Owners, Members
    <2>3. (IF w.pay \in w.open THEN w.pay ELSE Blank) = d.pay
      BY <1>3 DEF CardWrite, CardBody, CardRow, CardDrafts, OrNone
    <2>4. PICK z : z = CardSettled(d, r)
      OBVIOUS
    <2>5. /\ z = [name |-> z.name, type |-> z.type, pay |-> z.pay, owner |-> z.owner,
                  applyToUnlinked |-> z.applyToUnlinked]
          /\ z.name = d.name /\ z.type = d.type /\ z.pay = d.pay /\ z.owner = d.owner
          /\ z.applyToUnlinked = FALSE
      <3> DEFINE pays == {Blank} \cup IF r = None THEN {"a"} ELSE r.open
                 owners == OwnersOver(IF r = None THEN None ELSE r.owner)
      <3>1. d \in [name: TypedNames, type: {"credit", "debit"}, pay: pays, owner: owners,
                   applyToUnlinked: BOOLEAN]
        BY DEF CardDrafts
      <3> HIDE DEF pays, owners
      <3> QED BY <2>4, <3>1 DEF CardSettled
    <2> QED BY <2>1, <2>2, <2>3, <2>4, <2>5 DEF CardDraft
  <1> QED BY <1>1, <1>2, <1>3, CardIs DEF Answers, OnRow, Opens

-----------------------------------------------------------------------------
(* Loans. *)

LEMMA LoanRowsStay == RowsStay("loan")
  <1>1. LoanRows \subseteq LoanRow
    BY DEF LoanRows, LoanRow, Names, Owners, Members
  <1>2. \A r \in LoanRows : LoanFits(r)
    BY DEF LoanRows, LoanFits
  <1>3. ASSUME NEW r \in LoanRow, LoanFits(r), NEW x \in LoanElsewhere(r)
        PROVE  x \in LoanRow /\ LoanFits(x)
    BY <1>3 DEF LoanRow, LoanElsewhere, LoanFits
  <1> QED BY <1>1, <1>2, <1>3, LoanIs DEF RowsStay

LEMMA LoanDraftsStay == DraftsStay("loan")
  <1>1. LoanEmpty \in LoanDrafts
    BY DEF LoanEmpty, LoanDrafts, TypedNames, DraftOwners, DraftAmounts
  <1>2. ASSUME NEW r \in LoanRow, LoanFits(r)
        PROVE  LoanDraft(r) \in LoanDrafts
    BY <1>2, OwnerFacts
       DEF LoanRow, LoanFits, LoanDraft, LoanDrafts, TypedNames, DraftAmounts, OrBlank
  <1>3. ASSUME NEW r, NEW d \in LoanDrafts, NEW x \in LoanTyped(d, r)
        PROVE  x \in LoanDrafts
    BY <1>3, TypedFits DEF LoanTyped, LoanDrafts, Put, TypedNames, DraftAmounts,
       DraftOwners
  <1> QED BY <1>1, <1>2, <1>3, LoanIs DEF DraftsStay, OnRow, Opens

LEMMA LoanRequestsFit == RequestsFit("loan")
  <1>1. ASSUME NEW d \in LoanDrafts, NEW r, NEW s, LoanReady(d), s # None => s \in LoanRow,
               LoanAccepts(LoanBody(d, r), s), NEW w, w = LoanWrite(LoanBody(d, r), s)
        PROVE  w \in LoanRow /\ LoanFits(w)
    <2>1. /\ d.name \in Names /\ OrNone(d.owner) \in Owners
          /\ Won(d.balance) \in Nat /\ Won(d.monthly) \in Nat
      BY <1>1, OwnerFacts, AmountFacts
         DEF LoanDrafts, LoanReady, TypedNames, LoanAccepts, LoanBody
    <2>2. /\ OrNone(d.since) \in {None, "2024-01"} /\ OrNone(d.term) \in {None} \cup Int
          /\ OrNone(d.rate) \in {None} \cup Int /\ OrNone(d.method) \in {None, "bullet"}
      BY <1>1 DEF LoanDrafts, OrNone, LoanAccepts, LoanBody
    <2>3. (IF s = None THEN FALSE ELSE s.linked) \in BOOLEAN
      BY <1>1 DEF LoanRow
    <2> DEFINE linked == IF s = None THEN FALSE ELSE s.linked
    <2>4. w = [name |-> d.name, balance |-> Won(d.balance), monthly |-> Won(d.monthly),
               since |-> OrNone(d.since), term |-> OrNone(d.term), rate |-> OrNone(d.rate),
               method |-> OrNone(d.method), owner |-> OrNone(d.owner), linked |-> linked]
      BY <1>1 DEF LoanWrite, LoanBody, LoanDrafts
    <2>5. linked \in BOOLEAN
      BY <2>3
    <2> HIDE DEF linked
    <2>6. w \in LoanRow
      BY <2>1, <2>2, <2>4, <2>5 DEF LoanRow
    <2> QED BY <2>1, <2>4, <2>6 DEF LoanFits
  <1> QED BY <1>1, LoanIs DEF RequestsFit, OnRow, Opens

LEMMA LoanAnswers == Answers("loan")
  <1>1. ASSUME NEW d \in LoanDrafts, NEW t, NEW r, OnRow("loan", t, r),
               ~LoanAccepts(LoanBody(d, r), r)
        PROVE  Unsuited("loan", d, Original("loan", t, r))
    <2>1. d.balance = TooBig \/ d.monthly = TooBig \/ d.term = Malformed
      BY <1>1, AmountFacts DEF LoanAccepts, LoanBody, LoanDrafts, OrNone
    <2>2. LET o == Original("loan", t, r)
          IN  o.balance # TooBig /\ o.monthly # TooBig /\ o.term # Malformed
      BY <1>1, LoanIs DEF OnRow, Opens, Original, LoanDraft, LoanEmpty, LoanRow, OrBlank
    <2> QED BY <2>1, <2>2 DEF Unsuited, LoanDrafts, NoInput
  <1>2. ASSUME NEW r \in LoanRow, LoanFits(r), r # None
        PROVE  LoanWrite(LoanBody(LoanDraft(r), r), r) = r
    <2>1. /\ OrNone(OrBlank(r.owner)) = r.owner /\ OrNone(OrBlank(r.since)) = r.since
          /\ OrNone(OrBlank(r.term)) = r.term /\ OrNone(OrBlank(r.rate)) = r.rate
          /\ OrNone(OrBlank(r.method)) = r.method
      BY OwnerFacts DEF LoanRow, OrNone, OrBlank
    <2>2. Won(r.balance) = r.balance /\ Won(r.monthly) = r.monthly
      BY <1>2, AmountFacts DEF LoanFits
    <2> QED BY <1>2, <2>1, <2>2 DEF LoanWrite, LoanBody, LoanDraft, LoanRow
  <1>3. ASSUME NEW d \in LoanDrafts, NEW r, LoanAccepts(LoanBody(d, r), r), NEW w, 
               w = LoanWrite(LoanBody(d, r), r)
        PROVE  LoanDraft(w) = LoanSettled(d, r)
    <2>1. /\ w.name = d.name /\ w.balance = Won(d.balance) /\ w.monthly = Won(d.monthly)
          /\ w.since = OrNone(d.since) /\ w.term = OrNone(d.term)
          /\ w.rate = OrNone(d.rate) /\ w.method = OrNone(d.method)
          /\ w.owner = OrNone(d.owner)
      BY <1>3 DEF LoanWrite, LoanBody, LoanDrafts
    <2>2. /\ OrBlank(w.owner) = d.owner /\ OrBlank(w.since) = d.since
          /\ OrBlank(w.term) = d.term /\ OrBlank(w.rate) = d.rate
          /\ OrBlank(w.method) = d.method
      BY <1>3, <2>1, OwnerFacts DEF LoanDrafts, OrNone, OrBlank
    <2>3. PICK z : z = LoanSettled(d, r)
      OBVIOUS
    <2>4. z = [name |-> z.name, balance |-> z.balance, monthly |-> z.monthly,
               since |-> z.since, term |-> z.term, rate |-> z.rate, method |-> z.method,
               owner |-> z.owner]
      BY <2>3 DEF LoanSettled, LoanDrafts
    <2>5. /\ z.name = d.name /\ z.balance = Won(d.balance) /\ z.monthly = Won(d.monthly)
          /\ z.since = d.since /\ z.term = d.term /\ z.rate = d.rate
          /\ z.method = d.method /\ z.owner = d.owner
      BY <2>3 DEF LoanSettled, LoanDrafts
    <2> QED BY <2>1, <2>2, <2>3, <2>4, <2>5 DEF LoanDraft
  <1> QED BY <1>1, <1>2, <1>3, LoanIs DEF Answers, OnRow, Opens

-----------------------------------------------------------------------------
(* Savings products. *)

LEMMA ProductRowsStay == RowsStay("product")
  <1>1. ProductRows \subseteq ProductRow
    BY DEF ProductRows, ProductRow, Names, Owners, Members, Kinds
  <1>2. \A r \in ProductRows : ProductFits(r)
    BY DEF ProductRows, ProductFits, Kinds
  <1>3. ASSUME NEW r \in ProductRow, ProductFits(r), NEW x \in ProductElsewhere(r)
        PROVE  x \in ProductRow /\ ProductFits(x)
    BY <1>3 DEF ProductRow, ProductElsewhere, ProductFits
  <1>4. ASSUME NEW r \in ProductRow, NEW x \in ProductLinks(r)
        PROVE  x.linked \in BOOLEAN
    BY <1>4 DEF ProductRow, ProductLinks
  <1>5. ASSUME NEW r \in ProductRow, ProductFits(r), NEW v \in BOOLEAN
        PROVE  [r EXCEPT !.linked = v] \in ProductRow /\ ProductFits([r EXCEPT !.linked = v])
    BY <1>5 DEF ProductRow, ProductFits
  <1> QED BY <1>1, <1>2, <1>3, <1>4, <1>5, ProductIs DEF RowsStay

LEMMA ProductDraftsStay == DraftsStay("product")
  <1>1. ProductEmpty \in ProductDrafts(None)
    BY DEF ProductEmpty, ProductDrafts, TypedNames, DraftOwners, DraftAmounts, Kinds
  <1>2. ASSUME NEW r \in ProductRow, ProductFits(r), r # None
        PROVE  ProductDraft(r) \in ProductDrafts(r)
    BY <1>2, OwnerFacts
       DEF ProductRow, ProductFits, ProductDraft, ProductDrafts, TypedNames, DraftAmounts,
           OrBlank
  <1>3. ASSUME NEW r, NEW d \in ProductDrafts(r), NEW x \in ProductTyped(d, r)
        PROVE  x \in ProductDrafts(r)
    BY <1>3, TypedFits DEF ProductTyped, ProductDrafts, Put, TypedNames,
       DraftAmounts, DraftOwners
  <1> QED BY <1>1, <1>2, <1>3, ProductIs DEF DraftsStay, OnRow, Opens

LEMMA ProductRequestsFit == RequestsFit("product")
  <1>1. ASSUME NEW r, NEW d \in ProductDrafts(r), NEW s, ProductReady(d),
               s # None => s \in ProductRow, ProductAccepts(ProductBody(d, r), s),
               NEW w, w = ProductWrite(ProductBody(d, r), s)
        PROVE  w \in ProductRow /\ ProductFits(w)
    <2>1. /\ d.name \in Names /\ OrNone(d.owner) \in Owners /\ d.kind \in Kinds
          /\ Won(d.balance) \in Nat /\ Won(d.monthly) \in Nat
      BY <1>1, OwnerFacts, AmountFacts
         DEF ProductDrafts, ProductReady, TypedNames, ProductAccepts, ProductBody
    <2> DEFINE p == IF d.kind # "savings" THEN OrNone(d.principal) ELSE None
               linked == IF s = None THEN FALSE ELSE s.linked
    <2>2. p \in {None} \cup Nat
      BY <1>1 DEF ProductDrafts, OrNone, ProductAccepts, ProductBody, OptAmountFits,
         AmountFits, DraftAmounts
    <2>3. linked \in BOOLEAN
      BY <1>1 DEF ProductRow
    <2>4. w = [name |-> d.name, balance |-> Won(d.balance), monthly |-> Won(d.monthly),
               kind |-> d.kind, principal |-> p, owner |-> OrNone(d.owner),
               linked |-> linked]
      BY <1>1 DEF ProductWrite, ProductBody, ProductDrafts
    <2>5. d.kind = "savings" => p = None
      OBVIOUS
    <2> HIDE DEF p, linked
    <2>6. w \in ProductRow
      BY <2>1, <2>2, <2>3, <2>4 DEF ProductRow
    <2> QED BY <2>1, <2>2, <2>4, <2>5, <2>6 DEF ProductFits
  <1> QED BY <1>1, ProductIs DEF RequestsFit, OnRow, Opens

LEMMA ProductAnswers == Answers("product")
  <1>1. ASSUME NEW t, NEW r, NEW d \in ProductDrafts(r), OnRow("product", t, r),
               ~ProductAccepts(ProductBody(d, r), r)
        PROVE  \/ Unsuited("product", d, Original("product", t, r))
               \/ Gap("product", d, r)
    <2>1. \/ d.balance = TooBig \/ d.monthly = TooBig \/ d.principal = TooBig
          \/ r # None /\ r.balance < 0
      <3>1. r # None => r.balance \in Int
        BY <1>1, ProductIs DEF OnRow, Opens, ProductRow
      <3>2. AmountFits(d.balance) \/ d.balance = TooBig \/ (r # None /\ r.balance < 0)
        BY <3>1, TypedFits DEF ProductDrafts, AmountFits
      <3>3. AmountFits(d.monthly) \/ d.monthly = TooBig
        BY AmountFacts DEF ProductDrafts
      <3>4. \/ OptAmountFits(IF d.kind # "savings" THEN OrNone(d.principal) ELSE None)
            \/ d.principal = TooBig
        BY AmountFacts DEF ProductDrafts, OptAmountFits, OrNone
      <3>5. ProductAccepts(ProductBody(d, r), r) <=>
              /\ AmountFits(d.balance) /\ AmountFits(d.monthly)
              /\ OptAmountFits(IF d.kind # "savings" THEN OrNone(d.principal) ELSE None)
        BY DEF ProductAccepts, ProductBody, ProductDrafts
      <3> QED BY <1>1, <3>2, <3>3, <3>4, <3>5
    <2>2. LET o == Original("product", t, r)
          IN  o.balance # TooBig /\ o.monthly # TooBig /\ o.principal # TooBig
      BY <1>1, ProductIs
         DEF OnRow, Opens, Original, ProductDraft, ProductEmpty, ProductRow, OrBlank
    <2>3. {"balance", "monthly", "principal"} \subseteq DOMAIN d
      BY DEF ProductDrafts
    <2> QED BY <2>1, <2>2, <2>3 DEF Unsuited, Gap, NoInput
  <1>2. ASSUME NEW r \in ProductRow, ProductFits(r), r # None,
               ProductAccepts(ProductBody(ProductDraft(r), r), r)
        PROVE  ProductWrite(ProductBody(ProductDraft(r), r), r) = r
    <2>1. OrNone(OrBlank(r.owner)) = r.owner
      BY OwnerFacts DEF ProductRow
    <2>2. (IF r.kind # "savings" THEN OrNone(OrBlank(r.principal)) ELSE None) = r.principal
      BY <1>2 DEF ProductRow, ProductFits, OrNone, OrBlank
    <2>3. Won(r.balance) = r.balance /\ Won(r.monthly) = r.monthly
      BY DEF Won, ProductRow
    <2>4. PICK y : y = ProductBody(ProductDraft(r), r)
      OBVIOUS
    <2>5. /\ y.name = r.name /\ y.balance = r.balance /\ y.monthly = r.monthly
          /\ y.kind = r.kind /\ y.principal = r.principal /\ y.owner = r.owner
      BY <2>1, <2>2, <2>4 DEF ProductBody, ProductDraft
    <2> QED BY <1>2, <2>3, <2>4, <2>5 DEF ProductWrite, ProductRow
  <1>3. ASSUME NEW r, NEW d \in ProductDrafts(r), ProductAccepts(ProductBody(d, r), r),
               NEW w, w = ProductWrite(ProductBody(d, r), r)
        PROVE  ProductDraft(w) = ProductSettled(d, r)
    <2> DEFINE p == IF d.kind # "savings" THEN OrNone(d.principal) ELSE None
    <2>1. /\ w.name = d.name /\ w.balance = Won(d.balance) /\ w.monthly = Won(d.monthly)
          /\ w.kind = d.kind /\ w.principal = p /\ w.owner = OrNone(d.owner)
      BY <1>3 DEF ProductWrite, ProductBody, ProductDrafts
    <2>2. OrBlank(w.owner) = d.owner
      BY <2>1, OwnerFacts DEF ProductDrafts
    <2>3. OrBlank(p) = IF d.kind = "savings" THEN Blank ELSE d.principal
      BY DEF ProductDrafts, DraftAmounts, OrNone, OrBlank
    <2>4. PICK z : z = ProductSettled(d, r)
      OBVIOUS
    <2>5. z = [name |-> z.name, balance |-> z.balance, monthly |-> z.monthly,
               kind |-> z.kind, principal |-> z.principal, owner |-> z.owner]
      BY <2>4 DEF ProductSettled, ProductDrafts
    <2>6. /\ z.name = d.name /\ z.balance = Won(d.balance) /\ z.monthly = Won(d.monthly)
          /\ z.principal = (IF d.kind = "savings" THEN Blank ELSE d.principal)
          /\ z.kind = d.kind /\ z.owner = d.owner
      BY <2>4 DEF ProductSettled, ProductDrafts
    <2> HIDE DEF p
    <2> QED BY <2>1, <2>2, <2>3, <2>4, <2>5, <2>6 DEF ProductDraft
  <1> QED BY <1>1, <1>2, <1>3, ProductIs DEF Answers, OnRow, Opens

-----------------------------------------------------------------------------
(* Real estate. *)

LEMMA RealEstateRowsStay == RowsStay("realEstate")
  <1>1. RealEstateRows \subseteq ProductRow
    <2>1. \A p \in {None, 1} :
            [name |-> "n", balance |-> 1, monthly |-> 0, kind |-> "real_estate",
             principal |-> p, owner |-> None, linked |-> TRUE] \in ProductRow
      BY DEF ProductRow, Names, Owners, Members, Kinds
    <2> QED BY <2>1 DEF RealEstateRows
  <1>2. \A r \in RealEstateRows : RealEstateFits(r)
    BY DEF RealEstateRows, RealEstateFits
  <1>3. ASSUME NEW r \in ProductRow, RealEstateFits(r), NEW x \in ProductElsewhere(r)
        PROVE  x \in ProductRow /\ RealEstateFits(x)
    BY <1>3 DEF ProductRow, ProductElsewhere, RealEstateFits
  <1>4. ASSUME NEW r \in ProductRow, NEW x \in ProductLinks(r)
        PROVE  x.linked \in BOOLEAN
    BY <1>4 DEF ProductRow, ProductLinks
  <1>5. ASSUME NEW r \in ProductRow, RealEstateFits(r), NEW v \in BOOLEAN
        PROVE  /\ [r EXCEPT !.linked = v] \in ProductRow
               /\ RealEstateFits([r EXCEPT !.linked = v])
    BY <1>5 DEF ProductRow, RealEstateFits
  <1> QED BY <1>1, <1>2, <1>3, <1>4, <1>5, RealEstateIs DEF RowsStay

LEMMA RealEstateDraftsStay == DraftsStay("realEstate")
  <1>1. RealEstateEmpty \in RealEstateDrafts
    BY DEF RealEstateEmpty, RealEstateDrafts, TypedNames, DraftOwners, DraftAmounts
  <1>2. ASSUME NEW r \in ProductRow, RealEstateFits(r)
        PROVE  RealEstateDraft(r) \in RealEstateDrafts
    BY <1>2, OwnerFacts
       DEF ProductRow, RealEstateFits, RealEstateDraft, RealEstateDrafts, TypedNames,
           DraftAmounts, OrBlank
  <1>3. ASSUME NEW r, NEW d \in RealEstateDrafts, NEW x \in RealEstateTyped(d, r)
        PROVE  x \in RealEstateDrafts
    BY <1>3, TypedFits DEF RealEstateTyped, RealEstateDrafts, Put, TypedNames,
       DraftAmounts, DraftOwners
  <1> QED BY <1>1, <1>2, <1>3, RealEstateIs DEF DraftsStay, OnRow, Opens

\* The body of a draft, as the server keeps it.
LEMMA RealEstateKept ==
  ASSUME NEW d \in RealEstateDrafts, NEW r, NEW s
  PROVE  ProductWrite(RealEstateBody(d, r), s) =
            [name |-> d.name, balance |-> Won(d.balance), monthly |-> 0,
             kind |-> "real_estate", principal |-> OrNone(d.principal),
             owner |-> OrNone(d.owner), linked |-> IF s = None THEN FALSE ELSE s.linked]
  BY DEF ProductWrite, RealEstateBody, Won

LEMMA RealEstateRequestsFit == RequestsFit("realEstate")
  <1>1. ASSUME NEW d \in RealEstateDrafts, NEW r, NEW s, RealEstateReady(d),
               s # None => s \in ProductRow, ProductAccepts(RealEstateBody(d, r), s),
               NEW w, w = ProductWrite(RealEstateBody(d, r), s)
        PROVE  w \in ProductRow /\ RealEstateFits(w)
    <2>1. d.name \in Names /\ OrNone(d.owner) \in Owners /\ Won(d.balance) \in Nat
      BY <1>1, OwnerFacts, AmountFacts
         DEF RealEstateDrafts, RealEstateReady, TypedNames, ProductAccepts, RealEstateBody
    <2>2. OrNone(d.principal) \in {None} \cup Nat
      BY <1>1 DEF RealEstateDrafts, OrNone, ProductAccepts, RealEstateBody, OptAmountFits,
         AmountFits, DraftAmounts
    <2> DEFINE linked == IF s = None THEN FALSE ELSE s.linked
    <2>3. linked \in BOOLEAN
      BY <1>1 DEF ProductRow
    <2>4. w = [name |-> d.name, balance |-> Won(d.balance), monthly |-> 0,
               kind |-> "real_estate", principal |-> OrNone(d.principal),
               owner |-> OrNone(d.owner), linked |-> linked]
      BY <1>1, RealEstateKept
    <2> HIDE DEF linked
    <2>5. w \in ProductRow
      BY <2>1, <2>2, <2>3, <2>4 DEF ProductRow
    <2> QED BY <2>1, <2>2, <2>4, <2>5 DEF RealEstateFits
  <1> QED BY <1>1, RealEstateIs DEF RequestsFit, OnRow, Opens

LEMMA RealEstateAnswers == Answers("realEstate")
  <1>1. ASSUME NEW t, NEW r, NEW d \in RealEstateDrafts, OnRow("realEstate", t, r),
               ~ProductAccepts(RealEstateBody(d, r), r)
        PROVE  Unsuited("realEstate", d, Original("realEstate", t, r))
    <2>1. d.balance = TooBig \/ d.principal = TooBig
      BY <1>1, AmountFacts
         DEF ProductAccepts, RealEstateBody, RealEstateDrafts, OrNone, OptAmountFits,
             AmountFits, DraftAmounts
    <2>2. LET o == Original("realEstate", t, r)
          IN  o.balance # TooBig /\ o.principal # TooBig
      BY <1>1, RealEstateIs
         DEF OnRow, Opens, Original, RealEstateDraft, RealEstateEmpty, ProductRow, OrBlank
    <2>3. {"balance", "principal"} \subseteq DOMAIN d
      BY DEF RealEstateDrafts
    <2> QED BY <2>1, <2>2, <2>3 DEF Unsuited, NoInput
  <1>2. ASSUME NEW r \in ProductRow, RealEstateFits(r), r # None
        PROVE  ProductWrite(RealEstateBody(RealEstateDraft(r), r), r) = r
    <2>1. OrNone(OrBlank(r.owner)) = r.owner
      BY OwnerFacts DEF ProductRow
    <2>2. OrNone(OrBlank(r.principal)) = r.principal
      BY DEF ProductRow, OrNone, OrBlank
    <2>3. Won(r.balance) = r.balance
      BY DEF Won, ProductRow
    <2>4. PICK y : y = RealEstateBody(RealEstateDraft(r), r)
      OBVIOUS
    <2>5. /\ y.name = r.name /\ y.balance = r.balance /\ y.monthly = 0
          /\ y.kind = "real_estate" /\ y.principal = r.principal /\ y.owner = r.owner
      BY <2>1, <2>2, <2>4 DEF RealEstateBody, RealEstateDraft
    <2> QED BY <1>2, <2>3, <2>4, <2>5 DEF ProductWrite, ProductRow, RealEstateFits, Won
  <1>3. ASSUME NEW r, NEW d \in RealEstateDrafts, NEW w,
               w = ProductWrite(RealEstateBody(d, r), r)
        PROVE  RealEstateDraft(w) = RealEstateSettled(d, r)
    <2>1. /\ w.name = d.name /\ w.balance = Won(d.balance)
          /\ w.principal = OrNone(d.principal) /\ w.owner = OrNone(d.owner)
      BY <1>3 DEF ProductWrite, RealEstateBody
    <2>2. OrBlank(w.owner) = d.owner /\ OrBlank(w.principal) = d.principal
      BY <2>1, OwnerFacts DEF RealEstateDrafts, DraftAmounts, OrNone, OrBlank
    <2>3. RealEstateSettled(d, r) = [name |-> d.name, balance |-> Won(d.balance),
                                     principal |-> d.principal, owner |-> d.owner]
      BY DEF RealEstateSettled, RealEstateDrafts
    <2> QED BY <2>1, <2>2, <2>3 DEF RealEstateDraft
  <1> QED BY <1>1, <1>2, <1>3, RealEstateIs DEF Answers, OnRow, Opens

-----------------------------------------------------------------------------
(* Transactions. *)

LEMMA TransactionRowsStay == RowsStay("transaction")
  <1>1. TransactionRows \subseteq TransactionRow
    <2>1. Plain \in TransactionRow
      BY DEF Plain, TransactionRow, Category, Dates, Names, Owners, Members
    <2>2. ByOldCard \in TransactionRow /\ ByDeadCard \in TransactionRow
      BY DEF ByOldCard, ByDeadCard, Plain, TransactionRow, Category, Dates, Names, Owners,
             Members
    <2>3. Pay \in TransactionRow /\ DeadDeposit \in TransactionRow /\ ByMethod \in TransactionRow
      BY DEF Pay, DeadDeposit, ByMethod, Plain, TransactionRow, Category, Savings, Dates,
         Names, Owners, Members
    <2> QED BY <2>2, <2>3 DEF TransactionRows
  <1>2. \A r \in TransactionRows : TransactionFits(r)
    <2>1. TransactionFits(ByOldCard)
      BY DEF ByOldCard, Plain, TransactionFits, KindOf, Category, Savings
    <2>2. TransactionFits(ByDeadCard)
      BY DEF ByDeadCard, Plain, TransactionFits, KindOf, Category, Savings
    <2>3. TransactionFits(Pay)
      BY DEF Pay, Plain, TransactionFits, KindOf, Category, Savings
    <2>4. TransactionFits(DeadDeposit)
      BY DEF DeadDeposit, Plain, TransactionFits, KindOf, Category, Savings
    <2>5. TransactionFits(ByMethod)
      BY DEF ByMethod, Plain, TransactionFits, KindOf, Category, Savings
    <2> QED BY <2>1, <2>2, <2>3, <2>4, <2>5 DEF TransactionRows
  <1>3. ASSUME NEW r \in TransactionRow, TransactionFits(r), NEW x \in TransactionElsewhere(r)
        PROVE  x \in TransactionRow /\ TransactionFits(x)
    BY <1>3 DEF TransactionRow, TransactionElsewhere, TransactionFits
  <1> QED BY <1>1, <1>2, <1>3, TransactionIs DEF RowsStay

LEMMA TransactionDraftsStay == DraftsStay("transaction")
  <1>1. TransactionEmpty \in TransactionDrafts(None) /\ TypesAgree(TransactionEmpty)
    BY DEF TransactionEmpty, TransactionDrafts, CardsOver, TypesAgree, TypedNames,
           DraftOwners,
       DraftAmounts, Dates, Savings
  <1>2. ASSUME NEW r \in TransactionRow, TransactionFits(r), r # None
        PROVE  TransactionDraft(r) \in TransactionDrafts(r) /\ TypesAgree(TransactionDraft(r))
    <2>1. TransactionDraft(r) \in TransactionDrafts(r)
      BY <1>2, OwnerFacts
         DEF TransactionRow, TransactionDraft, TransactionDrafts, CardsOver, UiType,
             TypedNames, Names,
             DraftAmounts, OrBlank
    <2>2. TypesAgree(TransactionDraft(r))
      BY <1>2 DEF TransactionRow, TransactionFits, TransactionDraft, TypesAgree, UiType,
         OrBlank, KindOf, Category, Savings
    <2> QED BY <2>1, <2>2
  <1>3. ASSUME NEW r, r # None => r \in TransactionRow, NEW d \in TransactionDrafts(r),
               TypesAgree(d), NEW x \in TransactionTyped(d, r)
        PROVE  x \in TransactionDrafts(r) /\ TypesAgree(x)
    <2>1. CASE x \in TypeToggled(d)
      <3>1. PICK t \in {"income", "expense", "savings"} :
              x = [d EXCEPT !.ui = t, !.type = IF t = "income" THEN "income" ELSE "expense",
                            !.category = IF t = "savings" THEN Savings ELSE Blank,
                            !.product = Blank, !.card = Blank, !.method = Blank]
        BY <2>1 DEF TypeToggled
      <3>2. /\ x.ui = t /\ x.type = (IF t = "income" THEN "income" ELSE "expense")
            /\ x.category = (IF t = "savings" THEN Savings ELSE Blank) /\ x.product = Blank
        BY <3>1 DEF TransactionDrafts
      <3>3. x \in TransactionDrafts(r)
        <4>1. /\ (IF t = "income" THEN "income" ELSE "expense") \in {"income", "expense"}
              /\ (IF t = "savings" THEN Savings ELSE Blank) \in {Blank} \cup Category
              /\ Blank \in CardsOver(r)
          BY DEF CardsOver, Savings, Category
        <4>2. x = [ui |-> x.ui, amount |-> x.amount, type |-> x.type,
                   category |-> x.category, date |-> x.date, memo |-> x.memo,
                   method |-> x.method, account |-> x.account, product |-> x.product,
                   card |-> x.card, owner |-> x.owner]
          BY <3>1 DEF TransactionDrafts
        <4>3. /\ x.amount = d.amount /\ x.date = d.date /\ x.memo = d.memo
              /\ x.account = d.account /\ x.owner = d.owner /\ x.method = Blank
              /\ x.card = Blank
          BY <3>1 DEF TransactionDrafts
        <4> HIDE <3>1
        <4> QED BY <3>2, <4>1, <4>2, <4>3 DEF TransactionDrafts
      <3> QED BY <3>2, <3>3 DEF TypesAgree, KindOf, Category, Savings
    <2>2. CASE x \in AccountChosen(d)
      BY <1>3, <2>2 DEF AccountChosen, Put, OpenAccounts, TransactionDrafts, TypesAgree
    <2>3. CASE x \in CardChosen(d, r)
      <3>1. PICK c \in ActiveCards \cup (IF r = None THEN {} ELSE {r.card} \ {None}) :
              x = [d EXCEPT !.card = c,
                            !.account = IF r # None /\ c = r.card THEN OrBlank(r.account)
                                        ELSE PaidFrom[c]]
        BY <2>3 DEF CardChosen
      <3>2. c \in CardsOver(r)
        BY DEF ActiveCards, CardsOver, OrBlank
      <3>3. (IF r # None /\ c = r.card THEN OrBlank(r.account) ELSE PaidFrom[c])
              \in {Blank, "a", "b", "z"}
        BY <1>3 DEF ActiveCards, PaidFrom, TransactionRow, OrBlank
      <3>4. x = [ui |-> d.ui, amount |-> d.amount, type |-> d.type,
                 category |-> d.category, date |-> d.date, memo |-> d.memo,
                 method |-> d.method,
                 account |-> IF r # None /\ c = r.card THEN OrBlank(r.account)
                             ELSE PaidFrom[c],
                 product |-> d.product, card |-> c, owner |-> d.owner]
        BY <3>1 DEF TransactionDrafts
      <3>5. x \in TransactionDrafts(r)
        BY <3>2, <3>3, <3>4 DEF TransactionDrafts
      <3> QED BY <1>3, <3>4, <3>5 DEF TypesAgree
    <2>4. CASE x \in MethodChosen(d)
      <3>1. PICK m \in {Blank, "cash", d.method} : x = [d EXCEPT !.card = Blank, !.method = m]
        BY <2>4 DEF MethodChosen
      <3>2. x = [ui |-> d.ui, amount |-> d.amount, type |-> d.type,
                 category |-> d.category, date |-> d.date, memo |-> d.memo,
                 method |-> m, account |-> d.account, product |-> d.product,
                 card |-> Blank, owner |-> d.owner]
        BY <3>1 DEF TransactionDrafts
      <3>3. m \in {Blank, "cash", "credit_card", "debit_card"} /\ Blank \in CardsOver(r)
        BY DEF TransactionDrafts, CardsOver
      <3>4. x \in TransactionDrafts(r)
        BY <3>2, <3>3 DEF TransactionDrafts
      <3> QED BY <1>3, <3>2, <3>4 DEF TypesAgree
    <2>5. CASE d.ui # "savings" /\ x \in PlanApplied(d)
      <3>1. PICK c \in {None} \cup (Chosen(d.type) \ {Savings}) :
              x = [d EXCEPT !.amount = 1, !.memo = "n",
                            !.category = IF c = None THEN @ ELSE c,
                            !.owner = IF d.ui = "income" THEN Blank ELSE @]
        BY <2>5 DEF PlanApplied
      <3>2. /\ x.ui = d.ui /\ x.type = d.type /\ x.product = d.product
            /\ x.category = (IF c = None THEN d.category ELSE c)
        BY <3>1 DEF TransactionDrafts
      <3>3. c = None \/ (c \in Category /\ c # Savings /\ KindOf[c] = d.type)
        BY DEF Chosen
      <3>4. TypesAgree(x)
        BY <1>3, <2>5, <3>2, <3>3 DEF TypesAgree
      <3>5. x \in TransactionDrafts(r)
        <4>1. /\ (IF c = None THEN d.category ELSE c) \in {Blank} \cup Category
              /\ (IF d.ui = "income" THEN Blank ELSE d.owner) \in DraftOwners
              /\ 1 \in DraftAmounts /\ "n" \in TypedNames
          BY <3>3 DEF TransactionDrafts, DraftAmounts, TypedNames, Names, DraftOwners
        <4>2. x = [ui |-> d.ui, amount |-> 1, type |-> d.type,
                   category |-> IF c = None THEN d.category ELSE c, date |-> d.date,
                   memo |-> "n", method |-> d.method, account |-> d.account,
                   product |-> d.product, card |-> d.card,
                   owner |-> IF d.ui = "income" THEN Blank ELSE d.owner]
          BY <3>1 DEF TransactionDrafts
        <4> QED BY <4>1, <4>2 DEF TransactionDrafts
      <3> QED BY <3>4, <3>5
    <2>6. CASE x \in Put(d, "amount", TypedAmounts)
      BY <1>3, <2>6, TypedFits DEF Put, TransactionDrafts, TypesAgree, DraftAmounts
    <2>7. CASE x \in Put(d, "date", {Blank, "d2"})
      BY <1>3, <2>7 DEF Put, TransactionDrafts, TypesAgree, Dates
    <2>8. CASE x \in Put(d, "memo", TypedNames)
      BY <1>3, <2>8 DEF Put, TransactionDrafts, TypesAgree
    <2>9. CASE x \in Put(d, "owner", {Blank, "me"})
      BY <1>3, <2>9 DEF Put, TransactionDrafts, TypesAgree, DraftOwners
    <2>10. CASE d.ui = "savings" /\ x \in Put(d, "product", {Blank} \cup ActiveProducts)
      BY <1>3, <2>10 DEF Put, ActiveProducts, TransactionDrafts, TypesAgree
    <2>11. CASE d.ui # "savings" /\ x \in Put(d, "category", Chosen(d.type) \ {Savings})
      BY <1>3, <2>11 DEF Put, Chosen, TransactionDrafts, TypesAgree, KindOf, Category,
                         Savings
    <2> QED BY <1>3, <2>1, <2>2, <2>3, <2>4, <2>5, <2>6, <2>7, <2>8, <2>9, <2>10, <2>11
            DEF TransactionTyped, PlanApplied
  <1> QED BY <1>1, <1>2, <1>3, TransactionIs DEF DraftsStay, OnRow, Opens

LEMMA TransactionRequestsFit == RequestsFit("transaction")
  <1>1. ASSUME NEW d, NEW x \in TransactionSuggested(d), d \in TransactionDrafts(None)
        PROVE  /\ x \in TransactionDrafts(None) /\ TypesAgree(x)
               /\ x.amount # Blank /\ x.category # Blank
    <2>1. PICK t \in TransactionRows :
            x = [TransactionDraft(t) EXCEPT !.date = d.date, !.owner = d.owner,
                   !.card = IF @ \in ActiveCards THEN @ ELSE Blank]
      BY DEF TransactionSuggested
    <2>2. t \in TransactionRow /\ TransactionFits(t)
      BY TransactionRowsStay, TransactionIs DEF RowsStay
    <2>3. d.date \in {Blank} \cup Dates /\ d.owner \in DraftOwners
      BY <1>1 DEF TransactionDrafts
    <2>4. x = [ui |-> UiType(t), amount |-> t.amount, type |-> t.type,
               category |-> t.category, date |-> d.date, memo |-> OrBlank(t.memo),
               method |-> OrBlank(t.method), account |-> OrBlank(t.account),
               product |-> OrBlank(t.product),
               card |-> IF OrBlank(t.card) \in ActiveCards THEN OrBlank(t.card) ELSE Blank,
               owner |-> d.owner]
      BY <2>1 DEF TransactionDraft
    <2>5. x \in TransactionDrafts(None)
      BY <2>2, <2>3, <2>4
         DEF TransactionRow, TransactionDrafts, CardsOver, UiType, TypedNames, Names,
             DraftAmounts,
             OrBlank, ActiveCards
    <2>6. TypesAgree(x) /\ x.amount # Blank /\ x.category # Blank
      BY <2>2, <2>4 DEF TransactionRow, TransactionFits, TypesAgree, UiType, OrBlank,
                        KindOf,
         Category, Savings
    <2> QED BY <2>5, <2>6
  <1>2. ASSUME NEW r, NEW d \in TransactionDrafts(r), TypesAgree(d), NEW s,
               r # None => r \in TransactionRow, r = None <=> s = None,
               s # None => s \in TransactionRow,
               TransactionAccepts(TransactionBody(d, r), s),
               NEW w, w = TransactionWrite(TransactionBody(d, r), s)
        PROVE  w \in TransactionRow /\ TransactionFits(w)
    <2> DEFINE product == IF d.ui = "savings" THEN OrNone(d.product) ELSE None
               card == OrNone(d.card)
               account == IF card = None THEN OrNone(d.account)
                          ELSE IF s # None /\ s.card = card THEN s.account
                          ELSE PaidFrom[card]
               method == IF card = None THEN OrNone(d.method)
                         ELSE IF s # None /\ s.card = card THEN s.method
                         ELSE CardMethod[card]
    <2>1. w = [amount |-> Won(d.amount), type |-> d.type, category |-> d.category,
               date |-> d.date, memo |-> OrNone(d.memo), method |-> method,
               account |-> account, product |-> product, card |-> card,
               owner |-> OrNone(d.owner)]
      <3>1. PICK b : b = TransactionBody(d, r)
        OBVIOUS
      <3>2. b = [amount |-> d.amount, type |-> d.type, category |-> d.category,
                 date |-> d.date, memo |-> OrNone(d.memo), method |-> OrNone(d.method),
                 account |-> OrNone(d.account), product |-> product, card |-> card,
                 owner |-> OrNone(d.owner)]
        BY <3>1 DEF TransactionBody
      <3>3. w = [b EXCEPT !.amount = Won(d.amount), !.account = account, !.method = method]
        BY <1>2, <3>1, <3>2 DEF TransactionWrite
      <3> HIDE DEF product, card, account, method
      <3> QED BY <3>2, <3>3
    <2>2. /\ Won(d.amount) \in Nat /\ d.date \in Dates /\ d.category \in Category
          /\ d.type \in {"income", "expense"} /\ KindOf[d.category] = d.type
          /\ product # None => d.category = Savings
      BY <1>2, AmountFacts DEF TransactionAccepts, TransactionBody, TransactionDrafts
    <2>3. /\ OrNone(d.memo) \in Names \cup {None} /\ OrNone(d.owner) \in Owners
          /\ product \in {None, "p", "q"}
      BY OwnerFacts DEF TransactionDrafts, TypedNames, OrNone
    <2>4. /\ card \in {None, "c", "x"}
          /\ card \in {None} \cup ActiveCards \/ (s # None /\ s.card = card)
      BY <1>2 DEF TransactionDrafts, CardsOver, TransactionRow, TransactionAccepts,
         TransactionBody, OrNone, OrBlank, ActiveCards
    <2>5. /\ account \in {None, "a", "b", "z"}
          /\ method \in {None, "cash", "credit_card", "debit_card"}
      BY <1>2, <2>4 DEF TransactionDrafts, TransactionRow, OrNone, ActiveCards, PaidFrom,
         CardMethod
    <2> HIDE DEF product, card, account, method
    <2>6. w \in TransactionRow
      BY <2>1, <2>2, <2>3, <2>4, <2>5 DEF TransactionRow
    <2> QED BY <2>1, <2>2, <2>6 DEF TransactionFits
  <1>3. \A d : TransactionReady(d) /\ TypesAgree(d) => d.amount # Blank /\ d.category # Blank
    BY DEF TransactionReady, TypesAgree, Savings
  <1> QED BY <1>1, <1>2, <1>3, TransactionIs DEF RequestsFit, OnRow, Opens

LEMMA TransactionAnswers == Answers("transaction")
  <1>1. ASSUME NEW t, NEW r, NEW d \in TransactionDrafts(r), TypesAgree(d),
               OnRow("transaction", t, r), d.amount # Blank, d.category # Blank,
               ~TransactionAccepts(TransactionBody(d, r), r)
        PROVE  \/ Unsuited("transaction", d, Original("transaction", t, r))
               \/ Gap("transaction", d, r)
    <2>1. r # None => r \in TransactionRow
      BY <1>1, TransactionIs DEF OnRow, Opens
    <2>2. KindOf[d.category] = d.type
      BY <1>1 DEF TypesAgree
    <2>3. OrNone(d.card) \in {None} \cup ActiveCards \/ (r # None => OrNone(d.card) = r.card)
      BY <2>1 DEF TransactionDrafts, CardsOver, TransactionRow, OrNone, OrBlank, ActiveCards
    <2>4. d.ui = "savings" => d.type = "expense" /\ d.category = Savings
      BY <1>1 DEF TypesAgree
    <2>5. AmountFits(d.amount) \/ d.amount = TooBig
      BY AmountFacts DEF TransactionDrafts
    <2>6. d.amount = TooBig \/ d.date = Blank
      BY <1>1, <2>2, <2>3, <2>4, <2>5 DEF TransactionAccepts, TransactionBody
    <2>7. Original("transaction", t, r).amount # TooBig
      BY <1>1, <2>1, TransactionIs
         DEF OnRow, Opens, Original, TransactionDraft, TransactionEmpty, TransactionRow
    <2>8. "amount" \in DOMAIN d
      BY DEF TransactionDrafts
    <2> QED BY <2>6, <2>7, <2>8 DEF Unsuited, Gap, NoInput
  <1>2. ASSUME NEW r \in TransactionRow, TransactionFits(r), r # None
        PROVE  TransactionWrite(TransactionBody(TransactionDraft(r), r), r) = r
    <2>1. PICK y : y = TransactionBody(TransactionDraft(r), r)
      OBVIOUS
    <2>2. y = [amount |-> r.amount, type |-> r.type, category |-> r.category,
               date |-> r.date, memo |-> y.memo, method |-> y.method,
               account |-> y.account, product |-> y.product, card |-> y.card,
               owner |-> y.owner]
      BY <2>1 DEF TransactionBody, TransactionDraft
    <2>3. /\ y.memo = r.memo /\ y.method = r.method /\ y.account = r.account
          /\ y.card = r.card /\ y.owner = r.owner
      BY <2>1, OwnerFacts
         DEF TransactionBody, TransactionDraft, TransactionRow, OrNone, OrBlank, Names
    <2>4. y.product = r.product
      BY <1>2, <2>1 DEF TransactionBody, TransactionDraft, TransactionRow, TransactionFits,
         UiType, OrNone, OrBlank
    <2>5. Won(r.amount) = r.amount
      BY DEF TransactionRow, Won
    <2>6. y = r
      BY <2>2, <2>3, <2>4 DEF TransactionRow
    <2>7. TransactionWrite(r, r) = r
      BY <1>2, <2>5 DEF TransactionWrite, TransactionRow
    <2> QED BY <2>1, <2>6, <2>7
  <1>3. ASSUME NEW r, r # None => r \in TransactionRow, NEW d \in TransactionDrafts(r),
               TypesAgree(d), d.category # Blank, TransactionAccepts(TransactionBody(d, r), r),
               NEW w, w = TransactionWrite(TransactionBody(d, r), r)
        PROVE  TransactionDraft(w) = TransactionSettled(d, r)
    <2>1. /\ w.amount = Won(d.amount) /\ w.type = d.type /\ w.category = d.category
          /\ w.date = d.date /\ w.memo = OrNone(d.memo) /\ w.card = OrNone(d.card)
          /\ w.product = (IF d.ui = "savings" THEN OrNone(d.product) ELSE None)
          /\ w.owner = OrNone(d.owner)
      BY <1>3 DEF TransactionWrite, TransactionBody
    <2>2. /\ OrBlank(w.memo) = d.memo /\ OrBlank(w.owner) = d.owner
          /\ OrBlank(w.product) = d.product
      BY <1>3, <2>1, OwnerFacts DEF TransactionDrafts, TypesAgree, TypedNames, Names,
                                    OrNone,
         OrBlank
    <2>3. OrBlank(w.card) = d.card /\ (w.card = None <=> d.card = Blank)
          /\ (r # None =>
                 (r.card = w.card <=> r.card = d.card \/ (r.card = None /\ d.card = Blank)))
      BY <1>3, <2>1 DEF TransactionDrafts, CardsOver, TransactionRow, OrNone, OrBlank
    <2>4. UiType(w) = d.ui
      BY <1>3, <2>1 DEF UiType, TypesAgree, TransactionDrafts
    <2>5. /\ w.method = (IF w.card = None THEN OrNone(d.method)
                         ELSE IF r # None /\ r.card = w.card THEN r.method
                         ELSE CardMethod[w.card])
          /\ w.account = (IF w.card = None THEN OrNone(d.account)
                          ELSE IF r # None /\ r.card = w.card THEN r.account
                          ELSE PaidFrom[w.card])
      BY <1>3 DEF TransactionWrite, TransactionBody
    <2>6. PICK z : z = TransactionSettled(d, r)
      OBVIOUS
    <2>7. z = [ui |-> z.ui, amount |-> z.amount, type |-> z.type, category |-> z.category,
               date |-> z.date, memo |-> z.memo, method |-> z.method,
               account |-> z.account, product |-> z.product, card |-> z.card,
               owner |-> z.owner]
      BY <2>6 DEF TransactionSettled, TransactionDrafts
    <2>8. /\ z.ui = d.ui /\ z.amount = Won(d.amount) /\ z.type = d.type
          /\ z.category = d.category /\ z.date = d.date /\ z.memo = d.memo
          /\ z.product = d.product /\ z.card = d.card /\ z.owner = d.owner
      BY <2>6 DEF TransactionSettled, TransactionDrafts
    <2>9. /\ z.method = (IF d.card = Blank THEN d.method
                         ELSE IF r # None /\ r.card = d.card THEN OrBlank(r.method)
                         ELSE CardMethod[d.card])
          /\ z.account = (IF d.card = Blank THEN d.account
                          ELSE IF r # None /\ r.card = d.card THEN OrBlank(r.account)
                          ELSE PaidFrom[d.card])
      BY <2>6 DEF TransactionSettled, TransactionDrafts
    <2>10. OrBlank(w.method) = z.method /\ OrBlank(w.account) = z.account
      <3>1. CASE d.card = Blank
        BY <2>3, <2>5, <2>9, <3>1 DEF TransactionDrafts, OrNone, OrBlank
      <3>2. CASE d.card # Blank /\ r # None /\ r.card = d.card
        BY <2>3, <2>5, <2>9, <3>2 DEF OrBlank
      <3>3. CASE d.card # Blank /\ ~(r # None /\ r.card = d.card)
        <4>1. d.card = "c" /\ w.card = "c" /\ ~(r # None /\ r.card = w.card)
          BY <1>3, <2>1, <2>3, <3>3 DEF TransactionDrafts, CardsOver, TransactionRow,
                                        TransactionAccepts,
             TransactionBody, OrNone, OrBlank
        <4> QED BY <2>5, <2>9, <3>3, <4>1 DEF OrBlank, PaidFrom, CardMethod, ActiveCards
      <3> QED BY <3>1, <3>2, <3>3
    <2> QED BY <2>1, <2>2, <2>3, <2>4, <2>6, <2>7, <2>8, <2>10 DEF TransactionDraft
  <1> QED BY <1>1, <1>2, <1>3, TransactionIs DEF Answers, OnRow, Opens

-----------------------------------------------------------------------------
(* Events. *)

LEMMA EventRowsStay == RowsStay("event")
  <1>1. EventRows \subseteq EventRow
    BY DEF EventRows, EventRow, TypedNames, Names, Dates, Times, Owners, Members
  <1>2. \A r \in EventRows : EventFits(r)
    BY DEF EventRows, EventFits
  <1>3. ASSUME NEW r \in EventRow, EventFits(r), NEW x \in EventElsewhere(r)
        PROVE  x \in EventRow /\ EventFits(x)
    <2>1. PICK moment \in Dates \X Times : r.start = moment
      BY DEF EventRow
    <2>2. x = [r EXCEPT !.start = [moment EXCEPT ![1] = "d2"]]
      BY <2>1 DEF EventElsewhere
    <2>3. [moment EXCEPT ![1] = "d2"] = <<"d2", moment[2]>> /\ moment[2] \in Times
      OBVIOUS
    <2>4. x = [r EXCEPT !.start = <<"d2", moment[2]>>]
      BY <2>2, <2>3
    <2>5. x \in EventRow /\ x.start[2] = r.start[2] /\ x.allDay = r.allDay
      BY <2>1, <2>3, <2>4 DEF EventRow, Dates
    <2>6. x.finish = r.finish /\ x.frequency = r.frequency /\ x.until = r.until
      BY <2>4 DEF EventRow
    <2> QED BY <1>3, <2>5, <2>6 DEF EventFits
  <1> QED BY <1>1, <1>2, <1>3, EventIs DEF RowsStay

LEMMA EventDraftsStay == DraftsStay("event")
  <1>1. EventEmpty \in EventDrafts(None)
    BY DEF EventEmpty, EventDrafts, TypedNames, Dates, Times, OwnersOver
  <1>2. ASSUME NEW r \in EventRow, r # None
        PROVE  EventDraft(r) \in EventDrafts(r)
    <2>1. r.start[1] \in Dates /\ r.start[2] \in Times
      BY DEF EventRow
    <2>2. r.finish # None => r.finish[1] \in Dates /\ r.finish[2] \in Times
      BY DEF EventRow
    <2>3. /\ OrBlank(r.until) \in {Blank} \cup Dates /\ OrBlank(r.reminder) \in {Blank, 10}
          /\ OrBlank(r.assignee) \in OwnersOver(r.assignee)
      BY DEF EventRow, OrBlank, OwnersOver
    <2>4. /\ r.title \in TypedNames /\ r.allDay \in BOOLEAN
          /\ r.frequency \in {"once", "weekly"}
      BY DEF EventRow
    <2> QED BY <1>2, <2>1, <2>2, <2>3, <2>4 DEF EventDraft, EventDrafts
  <1>3. ASSUME NEW r, NEW d \in EventDrafts(r), NEW x \in EventTyped(d, r)
        PROVE  x \in EventDrafts(r)
    BY <1>3 DEF EventTyped, EventDrafts, Put, TypedNames, Dates, Times, OwnersOver
  <1> QED BY <1>1, <1>2, <1>3, EventIs DEF DraftsStay, OnRow, Opens

\* An assignee is one of the members or the one the row names.
LEMMA AssigneeFacts ==
  ASSUME NEW o \in Owners, NEW a \in OwnersOver(o)
  PROVE  /\ OrNone(a) \in Owners /\ OrBlank(OrNone(a)) = a
         /\ OrNone(a) \in Members \cup {None, o}
  BY DEF OwnersOver, Owners, Members, OrNone, OrBlank

\* What a request for an event holds.
LEMMA EventBodyFits ==
  ASSUME NEW r, r # None => r \in EventRow, NEW d \in EventDrafts(r), EventReady(d),
         NEW w, w = EventBody(d, r)
  PROVE  /\ w \in EventRow /\ EventFits(w)
         /\ w.title = d.title /\ w.allDay = d.allDay
         /\ w.start = <<d.startDate, IF d.allDay \/ d.startTime = Blank THEN "00:00"
                                     ELSE d.startTime>>
         /\ d.endDate = Blank => w.finish = None
         /\ d.endDate # Blank =>
              /\ w.finish # None
              /\ w.finish = <<d.endDate, IF d.allDay \/ d.endTime = Blank THEN "00:00"
                                         ELSE d.endTime>>
         /\ w.frequency = d.frequency
         /\ w.until = (IF d.frequency = "once" THEN None ELSE OrNone(d.until))
         /\ w.reminder = OrNone(d.reminder) /\ w.assignee = OrNone(d.assignee)
  <1> DEFINE startTime == IF d.allDay \/ d.startTime = Blank THEN "00:00" ELSE d.startTime
             endTime == IF d.allDay \/ d.endTime = Blank THEN "00:00" ELSE d.endTime
             finish == IF d.endDate = Blank THEN None ELSE <<d.endDate, endTime>>
             until == IF d.frequency = "once" THEN None ELSE OrNone(d.until)
  <1>1. w = [title |-> d.title, allDay |-> d.allDay, start |-> <<d.startDate, startTime>>,
             finish |-> finish, frequency |-> d.frequency, until |-> until,
             reminder |-> OrNone(d.reminder), assignee |-> OrNone(d.assignee)]
    BY DEF EventBody, At
  <1>2. /\ d.title \in TypedNames /\ d.allDay \in BOOLEAN /\ d.startDate \in Dates
        /\ d.endDate \in {Blank} \cup Dates /\ d.frequency \in {"once", "weekly"}
        /\ startTime \in Times /\ endTime \in Times /\ OrNone(d.reminder) \in {None, 10}
        /\ until \in {None} \cup Dates
    BY DEF EventDrafts, EventReady, OrNone, Times
  <1>3. OrNone(d.assignee) \in Owners
    BY AssigneeFacts DEF EventDrafts, EventRow, Owners
  <1>4. /\ finish \in {None} \cup (Dates \X Times)
        /\ d.endDate # Blank => finish # None /\ finish = <<d.endDate, endTime>>
    BY <1>2, LedgerAssumption
  <1>5. <<d.startDate, startTime>> \in Dates \X Times
    BY <1>2
  <1>6. d.allDay => startTime = "00:00" /\ endTime = "00:00"
    OBVIOUS
  <1>7. d.endDate = Blank => finish = None
    OBVIOUS
  <1>8. d.frequency = "once" => until = None
    OBVIOUS
  <1> HIDE DEF startTime, endTime, finish, until
  <1>9. w \in EventRow
    BY <1>1, <1>2, <1>3, <1>4, <1>5 DEF EventRow
  <1>10. EventFits(w)
    BY <1>1, <1>4, <1>6, <1>7, <1>8 DEF EventFits
  <1>11. w.start = <<d.startDate, startTime>> /\ w.finish = finish
    BY <1>1
  <1> QED BY <1>1, <1>4, <1>7, <1>9, <1>10, <1>11 DEF startTime, endTime, until

LEMMA EventRequestsFit == RequestsFit("event")
  BY EventBodyFits, EventIs DEF RequestsFit, OnRow, Opens, EventWrite

LEMMA EventAnswers == Answers("event")
  <1>1. ASSUME NEW r, r # None => r \in EventRow, NEW d \in EventDrafts(r)
        PROVE  EventAccepts(EventBody(d, r), r)
    BY <1>1, AssigneeFacts DEF EventAccepts, EventBody, EventDrafts, EventRow, Owners
  <1>2. ASSUME NEW r \in EventRow, EventFits(r), r # None
        PROVE  EventBody(EventDraft(r), r) = r
    <2>1. PICK y : y = EventBody(EventDraft(r), r)
      OBVIOUS
    <2>2. r.start = <<r.start[1], r.start[2]>> /\ r.start[2] \in Times
      BY DEF EventRow
    <2>3. r.finish # None => /\ r.finish = <<r.finish[1], r.finish[2]>>
                             /\ r.finish[1] \in Dates /\ r.finish[2] \in Times
      BY DEF EventRow
    <2>4. y = [title |-> r.title, allDay |-> r.allDay, start |-> y.start,
               finish |-> y.finish, frequency |-> r.frequency, until |-> y.until,
               reminder |-> y.reminder, assignee |-> y.assignee]
      BY <2>1 DEF EventBody, EventDraft
    <2>5. y.start = r.start
      <3>1. y.start = <<r.start[1], IF r.allDay \/ r.start[2] = Blank THEN "00:00"
                                    ELSE r.start[2]>>
        BY <2>1 DEF EventBody, EventDraft, At
      <3>2. (IF r.allDay \/ r.start[2] = Blank THEN "00:00" ELSE r.start[2]) = r.start[2]
        BY <1>2, <2>2 DEF EventFits, Times
      <3> QED BY <2>2, <3>1, <3>2
    <2>6. y.finish = r.finish
      <3>1. CASE r.finish = None
        BY <2>1, <3>1 DEF EventBody, EventDraft
      <3>2. CASE r.finish # None
        <4>1. y.finish = <<r.finish[1], IF r.allDay \/ r.finish[2] = Blank THEN "00:00"
                                        ELSE r.finish[2]>>
          BY <2>1, <2>3, <3>2 DEF EventBody, EventDraft, At, Dates
        <4>2. (IF r.allDay \/ r.finish[2] = Blank THEN "00:00" ELSE r.finish[2]) = r.finish[2]
          BY <1>2, <2>3, <3>2 DEF EventFits, Times
        <4> QED BY <2>3, <3>2, <4>1, <4>2
      <3> QED BY <3>1, <3>2
    <2>7. y.until = r.until /\ y.reminder = r.reminder /\ y.assignee = r.assignee
      BY <1>2, <2>1, OwnerFacts
         DEF EventBody, EventDraft, EventRow, EventFits, OrNone, OrBlank, Dates
    <2>8. r = [title |-> r.title, allDay |-> r.allDay, start |-> r.start,
               finish |-> r.finish, frequency |-> r.frequency, until |-> r.until,
               reminder |-> r.reminder, assignee |-> r.assignee]
      BY DEF EventRow
    <2> QED BY <2>1, <2>4, <2>5, <2>6, <2>7, <2>8
  <1>3. ASSUME NEW r, r # None => r \in EventRow, NEW d \in EventDrafts(r), EventReady(d),
               NEW w, w = EventBody(d, r)
        PROVE  EventDraft(w) = EventSettled(d, r)
    <2>1. /\ w.title = d.title /\ w.allDay = d.allDay /\ w.frequency = d.frequency
          /\ w.start[1] = d.startDate
          /\ w.start[2] = (IF d.allDay \/ d.startTime = Blank THEN "00:00" ELSE d.startTime)
      BY <1>3, EventBodyFits
    <2>2. /\ (IF w.finish = None THEN Blank ELSE w.finish[1]) = d.endDate
          /\ (IF w.finish = None THEN Blank ELSE w.finish[2])
                = (IF d.endDate = Blank THEN Blank
                   ELSE IF d.allDay \/ d.endTime = Blank THEN "00:00" ELSE d.endTime)
      BY <1>3, EventBodyFits
    <2>3. /\ OrBlank(w.until) = (IF d.frequency = "once" THEN Blank ELSE d.until)
          /\ OrBlank(w.reminder) = d.reminder /\ OrBlank(w.assignee) = d.assignee
      BY <1>3, EventBodyFits, AssigneeFacts
         DEF EventDrafts, EventRow, OrNone, OrBlank, Owners, Dates
    <2>4. PICK z : z = EventSettled(d, r)
      OBVIOUS
    <2>5. z = [title |-> z.title, allDay |-> z.allDay, startDate |-> z.startDate,
               startTime |-> z.startTime, endDate |-> z.endDate, endTime |-> z.endTime,
               frequency |-> z.frequency, until |-> z.until, reminder |-> z.reminder,
               assignee |-> z.assignee]
      BY <2>4 DEF EventSettled, EventDrafts
    <2>6. /\ z.title = d.title /\ z.allDay = d.allDay /\ z.startDate = d.startDate
          /\ z.endDate = d.endDate /\ z.frequency = d.frequency
          /\ z.reminder = d.reminder /\ z.assignee = d.assignee
          /\ z.until = (IF d.frequency = "once" THEN Blank ELSE d.until)
      BY <2>4 DEF EventSettled, EventDrafts
    <2>7. /\ z.startTime = (IF d.allDay \/ d.startTime = Blank THEN "00:00" ELSE d.startTime)
          /\ z.endTime = (IF d.endDate = Blank THEN Blank
                          ELSE IF d.allDay \/ d.endTime = Blank THEN "00:00" ELSE d.endTime)
      BY <2>4 DEF EventSettled, EventDrafts, At
    <2> QED BY <2>1, <2>2, <2>3, <2>4, <2>5, <2>6, <2>7 DEF EventDraft
  <1> QED BY <1>1, <1>2, <1>3, EventIs DEF Answers, OnRow, Opens, EventWrite

-----------------------------------------------------------------------------
(* Recurring rules. *)

LEMMA RecurringRowsStay == RowsStay("recurring")
  <1>1. RecurringRows \subseteq RecurringRow
    BY DEF RecurringRows, RecurringRow, Names, Dates, Category
  <1>2. \A r \in RecurringRows : RecurringFits(r)
    <2>1. {15, 31} # None /\ DayOf["d2"] = 31
      BY LedgerAssumption DEF DayOf, Dates
    <2>2. ASSUME NEW r, r.days = {15, 31}, r.frequency = "monthly", r.anchor = 15
          PROVE  RecurringFits(r)
      BY <2>1, <2>2 DEF RecurringFits
    <2>3. ASSUME NEW r, r.days = None, r.start = "d2", r.anchor = 31
          PROVE  RecurringFits(r)
      BY <2>1, <2>3, LedgerAssumption DEF RecurringFits
    <2> QED BY <2>2, <2>3 DEF RecurringRows
  <1>3. ASSUME NEW r \in RecurringRow, RecurringFits(r), NEW x \in RecurringElsewhere(r)
        PROVE  x \in RecurringRow /\ RecurringFits(x)
    BY <1>3 DEF RecurringRow, RecurringElsewhere, RecurringFits
  <1> QED BY <1>1, <1>2, <1>3, RecurringIs DEF RowsStay

LEMMA RecurringDraftsStay == DraftsStay("recurring")
  <1>1. RecurringEmpty \in RecurringDrafts
    BY DEF RecurringEmpty, RecurringDrafts, TypedNames, DraftAmounts
  <1>2. ASSUME NEW r \in RecurringRow
        PROVE  RecurringDraft(r) \in RecurringDrafts
    BY DEF RecurringRow, RecurringDraft, RecurringDrafts, TypedNames, DraftAmounts, OrBlank
  <1>3. ASSUME NEW r, NEW d \in RecurringDrafts, NEW x \in RecurringTyped(d, r)
        PROVE  x \in RecurringDrafts
    <2>1. CASE x \in {[d EXCEPT !.type = t, !.category = Blank] : t \in {"income", "expense"}}
      <3>1. PICK t \in {"income", "expense"} : x = [d EXCEPT !.type = t, !.category = Blank]
        BY <2>1
      <3>2. x = [name |-> d.name, category |-> Blank, amount |-> d.amount, type |-> t,
                 frequency |-> d.frequency, days |-> d.days, start |-> d.start,
                 finish |-> d.finish, remind |-> d.remind]
        BY <3>1 DEF RecurringDrafts
      <3> QED BY <3>2 DEF RecurringDrafts
    <2>2. CASE x \in DayToggled(d)
      BY <2>2 DEF DayToggled, RecurringDrafts
    <2>3. CASE \/ x \in Put(d, "name", TypedNames) \/ x \in Put(d, "category", Chosen(d.type))
               \/ x \in Put(d, "amount", TypedAmounts)
               \/ x \in Put(d, "frequency", {"weekly", "monthly"})
      BY <2>3, TypedFits DEF Put, RecurringDrafts, TypedNames, Chosen, DraftAmounts
    <2>4. CASE \/ x \in Put(d, "start", {Blank, "d1"}) \/ x \in Put(d, "finish", {Blank, "d2"})
               \/ x \in Put(d, "remind", {Blank, 2})
      BY <2>4 DEF Put, RecurringDrafts, Dates
    <2> QED BY <1>3, <2>1, <2>2, <2>3, <2>4 DEF RecurringTyped
  <1> QED BY <1>1, <1>2, <1>3, RecurringIs DEF DraftsStay, OnRow, Opens

\* The first of some days.
LEMMA FirstDay ==
  ASSUME NEW days \in SUBSET {15, 31}, days # {}
  PROVE  LET first == CHOOSE n \in days : \A k \in days : n <= k
         IN  first \in days /\ \A k \in days : first <= k
  <1>1. \E n \in days : \A k \in days : n <= k
    <2>1. CASE 15 \in days
      BY <2>1
    <2>2. CASE 15 \notin days
      <3>1. \A k \in days : k = 31
        BY <2>2
      <3>2. 31 \in days
        BY <3>1
      <3>3. \A k \in days : 31 <= k
        BY <3>1
      <3> QED BY <3>2, <3>3
    <2> QED BY <2>1, <2>2
  <1> QED BY <1>1

LEMMA RecurringRequestsFit == RequestsFit("recurring")
  <1>1. ASSUME NEW d \in RecurringDrafts, NEW r, NEW s, RecurringReady(d),
               RecurringAccepts(RecurringBody(d, r), s),
               NEW w, w = RecurringWrite(RecurringBody(d, r), s)
        PROVE  w \in RecurringRow /\ RecurringFits(w)
    <2> DEFINE days == IF d.frequency = "monthly" /\ d.days # {} THEN d.days ELSE None
               anchor == IF days = None THEN DayOf[d.start]
                         ELSE CHOOSE n \in days : \A k \in days : n <= k
    <2>1. w = [name |-> d.name, category |-> d.category, amount |-> Won(d.amount),
               type |-> d.type, frequency |-> d.frequency, days |-> days,
               start |-> d.start, finish |-> OrNone(d.finish), remind |-> Won(d.remind),
               anchor |-> anchor]
      BY <1>1 DEF RecurringWrite, RecurringBody, RecurringDrafts
    <2>2. /\ d.name \in Names /\ d.category \in Category /\ d.start \in Dates
          /\ d.type \in {"income", "expense"} /\ d.frequency \in {"weekly", "monthly"}
          /\ Won(d.amount) \in Nat /\ Won(d.remind) \in Nat
          /\ OrNone(d.finish) \in {None} \cup Dates
      BY <1>1, AmountFacts DEF RecurringDrafts, RecurringReady, RecurringAccepts,
         RecurringBody, TypedNames, Chosen, OrNone, Won
    <2>3. /\ days \in {None} \cup SUBSET {15, 31} /\ days # {}
          /\ d.frequency # "monthly" => days = None
      BY LedgerAssumption DEF RecurringDrafts
    <2>4. /\ days = None => anchor = DayOf[d.start]
          /\ days # None => anchor \in days /\ \A k \in days : anchor <= k
      BY <2>3, FirstDay
    <2>5. anchor \in {1, 15, 31}
      BY <2>2, <2>3, <2>4 DEF DayOf
    <2> HIDE DEF days, anchor
    <2>6. w \in RecurringRow
      BY <2>1, <2>2, <2>3, <2>5 DEF RecurringRow
    <2> QED BY <2>1, <2>3, <2>4, <2>6 DEF RecurringFits
  <1> QED BY <1>1, RecurringIs DEF RequestsFit, OnRow, Opens

LEMMA RecurringAnswers == Answers("recurring")
  <1>1. ASSUME NEW t, NEW r, NEW d \in RecurringDrafts, OnRow("recurring", t, r),
               RecurringReady(d), ~RecurringAccepts(RecurringBody(d, r), r)
        PROVE  Unsuited("recurring", d, Original("recurring", t, r))
    <2>1. KindOf[d.category] = d.type
      BY <1>1 DEF RecurringReady, Chosen
    <2>2. d.amount = TooBig
      BY <1>1, <2>1, AmountFacts DEF RecurringAccepts, RecurringBody, RecurringDrafts
    <2>3. Original("recurring", t, r).amount # TooBig
      BY <1>1, RecurringIs
         DEF OnRow, Opens, Original, RecurringDraft, RecurringEmpty, RecurringRow
    <2>4. "amount" \in DOMAIN d
      BY DEF RecurringDrafts
    <2> QED BY <2>2, <2>3, <2>4 DEF Unsuited, NoInput
  <1>2. ASSUME NEW r \in RecurringRow, RecurringFits(r), r # None
        PROVE  RecurringWrite(RecurringBody(RecurringDraft(r), r), r) = r
    <2>1. PICK y : y = RecurringBody(RecurringDraft(r), r)
      OBVIOUS
    <2>2. /\ y.name = r.name /\ y.category = r.category /\ y.amount = r.amount
          /\ y.type = r.type /\ y.frequency = r.frequency /\ y.start = r.start
          /\ y.finish = OrNone(OrBlank(r.finish)) /\ y.remind = Won(r.remind)
      BY <2>1 DEF RecurringBody, RecurringDraft
    <2>3. y.days = r.days
      BY <1>2, <2>1 DEF RecurringBody, RecurringDraft, RecurringRow, RecurringFits
    <2>4. y.finish = r.finish /\ Won(y.amount) = r.amount /\ y.remind = r.remind
      BY <2>2 DEF RecurringRow, OrNone, OrBlank, Won, Dates
    <2>5. r.anchor = IF r.days = None THEN DayOf[r.start]
                     ELSE CHOOSE n \in r.days : \A k \in r.days : n <= k
      <3>1. CASE r.days = None
        BY <1>2, <3>1 DEF RecurringFits
      <3>2. CASE r.days # None
        <4>1. r.days \in SUBSET {15, 31} /\ r.days # {}
          BY <1>2, <3>2 DEF RecurringRow, RecurringFits
        <4>2. /\ r.anchor \in r.days /\ \A k \in r.days : r.anchor <= k
          BY <1>2, <3>2 DEF RecurringFits
        <4> DEFINE first == CHOOSE n \in r.days : \A k \in r.days : n <= k
        <4>3. first \in r.days /\ \A k \in r.days : first <= k
          BY <4>1, FirstDay
        <4> HIDE DEF first
        <4>4. r.anchor = first
          BY <4>1, <4>2, <4>3
        <4> QED BY <3>2, <4>4 DEF first
      <3> QED BY <3>1, <3>2
    <2>6. RecurringWrite(y, r) =
            [name |-> r.name, category |-> r.category, amount |-> r.amount,
             type |-> r.type, frequency |-> r.frequency, days |-> r.days,
             start |-> r.start, finish |-> r.finish, remind |-> r.remind,
             anchor |-> r.anchor]
      BY <2>2, <2>3, <2>4, <2>5 DEF RecurringWrite
    <2> QED BY <2>1, <2>6 DEF RecurringRow
  <1>3. ASSUME NEW r, NEW d \in RecurringDrafts, NEW w,
               w = RecurringWrite(RecurringBody(d, r), r)
        PROVE  RecurringDraft(w) = RecurringSettled(d, r)
    <2>1. /\ w.name = d.name /\ w.category = d.category /\ w.amount = Won(d.amount)
          /\ w.type = d.type /\ w.frequency = d.frequency /\ w.start = d.start
          /\ w.finish = OrNone(d.finish) /\ w.remind = Won(d.remind)
          /\ w.days = (IF d.frequency = "monthly" /\ d.days # {} THEN d.days ELSE None)
      BY <1>3 DEF RecurringWrite, RecurringBody, RecurringDrafts
    <2>2. /\ OrBlank(w.finish) = d.finish
          /\ (IF w.days = None THEN {} ELSE w.days)
                = (IF d.frequency = "monthly" THEN d.days ELSE {})
      BY <2>1, LedgerAssumption DEF RecurringDrafts, OrNone, OrBlank, Dates
    <2>3. PICK z : z = RecurringSettled(d, r)
      OBVIOUS
    <2>4. z = [name |-> z.name, category |-> z.category, amount |-> z.amount,
               type |-> z.type, frequency |-> z.frequency, days |-> z.days,
               start |-> z.start, finish |-> z.finish, remind |-> z.remind]
      BY <2>3 DEF RecurringSettled, RecurringDrafts
    <2>5. /\ z.name = d.name /\ z.category = d.category /\ z.amount = Won(d.amount)
          /\ z.type = d.type /\ z.frequency = d.frequency /\ z.start = d.start
          /\ z.finish = d.finish /\ z.remind = Won(d.remind)
          /\ z.days = (IF d.frequency = "monthly" THEN d.days ELSE {})
      BY <2>3 DEF RecurringSettled, RecurringDrafts
    <2> QED BY <2>1, <2>2, <2>3, <2>4, <2>5 DEF RecurringDraft
  <1> QED BY <1>1, <1>2, <1>3, RecurringIs DEF Answers, OnRow, Opens

-----------------------------------------------------------------------------
(* Todos. *)

LEMMA TodoRowsStay == RowsStay("todo")
  <1>1. TodoRows \subseteq TodoRow
    BY DEF TodoRows, TodoRow, Names, Dates, Owners, Members
  <1>2. \A r \in TodoRows : TodoFits(r)
    BY DEF TodoRows, TodoFits
  <1>3. ASSUME NEW r \in TodoRow, TodoFits(r), NEW x \in TodoElsewhere(r)
        PROVE  x \in TodoRow /\ TodoFits(x)
    BY <1>3 DEF TodoRow, TodoElsewhere, TodoFits, Names
  <1> QED BY <1>1, <1>2, <1>3, TodoIs DEF RowsStay

LEMMA TodoDraftsStay == DraftsStay("todo")
  <1>1. TodoEmpty \in TodoDrafts(None) /\ TodoEmpty.frequency = "once"
    BY DEF TodoEmpty, TodoDrafts, TypedNames, OwnersOver
  <1>2. ASSUME NEW r \in TodoRow, TodoFits(r), r # None
        PROVE  /\ TodoDraft(r) \in TodoDrafts(r)
               /\ TodoDraft(r).frequency # "once" => TodoDraft(r).due # Blank
    BY <1>2 DEF TodoRow, TodoFits, TodoDraft, TodoDrafts, TypedNames, Names, OwnersOver,
       OrBlank, Dates
  <1>3. ASSUME NEW r, NEW d \in TodoDrafts(r), d.frequency # "once" => d.due # Blank,
               NEW x \in TodoTyped(d, r)
        PROVE  x \in TodoDrafts(r) /\ (x.frequency # "once" => x.due # Blank)
    <2>1. CASE x \in DueChanged(d)
      <3>1. PICK v \in {Blank, "d2"} :
              x = [d EXCEPT !.due = v, !.frequency = IF v = Blank THEN "once" ELSE @]
        BY <2>1 DEF DueChanged
      <3>2. x \in TodoDrafts(r)
        BY <3>1 DEF TodoDrafts, Dates
      <3> QED BY <3>1, <3>2 DEF TodoDrafts
    <2>2. CASE x \in Put(d, "title", TypedNames) \/ x \in Put(d, "memo", TypedNames)
      BY <1>3, <2>2 DEF Put, TodoDrafts
    <2>3. CASE x \in Put(d, "assignee", {Blank, "me"})
      BY <1>3, <2>3 DEF Put, TodoDrafts, OwnersOver
    <2>4. CASE d.due # Blank /\ x \in Put(d, "frequency", {"once", "monthly"})
      BY <1>3, <2>4 DEF Put, TodoDrafts
    <2> QED BY <1>3, <2>1, <2>2, <2>3, <2>4 DEF TodoTyped
  <1> QED BY <1>1, <1>2, <1>3, TodoIs DEF DraftsStay, OnRow, Opens

LEMMA TodoRequestsFit == RequestsFit("todo")
  <1>1. ASSUME NEW r, r # None => r \in TodoRow, NEW d \in TodoDrafts(r), NEW s,
               d.frequency # "once" => d.due # Blank, TodoReady(d),
               s # None => s \in TodoRow, NEW w, w = TodoWrite(TodoBody(d, r), s)
        PROVE  w \in TodoRow /\ TodoFits(w)
    <2> DEFINE day == IF s # None /\ s.due = OrNone(d.due) THEN s.day
                      ELSE IF OrNone(d.due) = None THEN None ELSE DayOf[OrNone(d.due)]
    <2>1. w = [title |-> d.title, assignee |-> OrNone(d.assignee), due |-> OrNone(d.due),
               frequency |-> d.frequency, memo |-> OrNone(d.memo), day |-> day]
      BY <1>1 DEF TodoWrite, TodoBody, TodoDrafts
    <2>2. /\ d.title \in Names /\ d.frequency \in {"once", "monthly"}
          /\ OrNone(d.memo) \in Names \cup {None} /\ OrNone(d.due) \in {None} \cup Dates
      BY <1>1 DEF TodoDrafts, TodoReady, TypedNames, OrNone
    <2>3. OrNone(d.assignee) \in Owners
      BY <1>1, AssigneeFacts DEF TodoDrafts, TodoRow, Owners
    <2>4. day \in {None, 1, 31}
      BY <1>1, <2>2 DEF TodoRow, DayOf
    <2>5. d.frequency # "once" => OrNone(d.due) # None
      BY <1>1 DEF TodoDrafts, OrNone, Dates
    <2> HIDE DEF day
    <2>6. w \in TodoRow
      BY <2>1, <2>2, <2>3, <2>4 DEF TodoRow
    <2> QED BY <2>1, <2>5, <2>6 DEF TodoFits
  <1> QED BY <1>1, TodoIs DEF RequestsFit, OnRow, Opens

LEMMA TodoAnswers == Answers("todo")
  <1>1. ASSUME NEW r, r # None => r \in TodoRow, NEW d \in TodoDrafts(r),
               d.frequency # "once" => d.due # Blank
        PROVE  TodoAccepts(TodoBody(d, r), r)
    <2>1. /\ OrNone(d.assignee) \in Members \cup {None}
                \/ (r # None => OrNone(d.assignee) = r.assignee)
          /\ d.frequency # "once" => OrNone(d.due) # None
      BY <1>1, AssigneeFacts DEF TodoDrafts, TodoRow, Owners, OrNone, Dates
    <2> QED BY <2>1 DEF TodoAccepts, TodoBody, TodoDrafts
  <1>2. ASSUME NEW r \in TodoRow, r # None
        PROVE  TodoWrite(TodoBody(TodoDraft(r), r), r) = r
    <2>1. /\ OrNone(OrBlank(r.assignee)) = r.assignee /\ OrNone(OrBlank(r.due)) = r.due
          /\ OrNone(OrBlank(r.memo)) = r.memo
      BY OwnerFacts DEF TodoRow, OrNone, OrBlank, Dates, Names
    <2>2. PICK y : y = TodoBody(TodoDraft(r), r)
      OBVIOUS
    <2>3. /\ y.title = r.title /\ y.assignee = r.assignee /\ y.due = r.due
          /\ y.frequency = r.frequency /\ y.memo = r.memo
      BY <2>1, <2>2 DEF TodoBody, TodoDraft
    <2> QED BY <1>2, <2>2, <2>3 DEF TodoWrite, TodoRow
  <1>3. ASSUME NEW r, r # None => r \in TodoRow, NEW d \in TodoDrafts(r),
               NEW w, w = TodoWrite(TodoBody(d, r), r)
        PROVE  TodoDraft(w) = d
    <2>1. /\ w.title = d.title /\ w.assignee = OrNone(d.assignee) /\ w.due = OrNone(d.due)
          /\ w.frequency = d.frequency /\ w.memo = OrNone(d.memo)
      BY <1>3 DEF TodoWrite, TodoBody, TodoDrafts
    <2>2. /\ OrBlank(w.assignee) = d.assignee /\ OrBlank(w.due) = d.due
          /\ OrBlank(w.memo) = d.memo
      BY <1>3, <2>1, AssigneeFacts
         DEF TodoDrafts, TodoRow, Owners, OrNone, OrBlank, Dates, TypedNames, Names
    <2>3. d = [title |-> d.title, assignee |-> d.assignee, due |-> d.due,
               frequency |-> d.frequency, memo |-> d.memo]
      BY DEF TodoDrafts
    <2> QED BY <2>1, <2>2, <2>3 DEF TodoDraft
  <1> QED BY <1>1, <1>2, <1>3, TodoIs DEF Answers, OnRow, Opens, TodoSettled

-----------------------------------------------------------------------------
(* Categories. *)

LEMMA CategoryRowsStay == RowsStay("category")
  <1>1. CategoryRows \subseteq CategoryRow
    BY DEF CategoryRows, CategoryRow, Names
  <1>2. ASSUME NEW r \in CategoryRow, NEW x \in CategoryElsewhere(r)
        PROVE  x \in CategoryRow
    BY DEF CategoryRow, CategoryElsewhere, Names
  <1> QED BY <1>1, <1>2, CategoryIs DEF RowsStay

LEMMA CategoryDraftsStay == DraftsStay("category")
  <1>1. CategoryEmpty \in CategoryDrafts
    BY DEF CategoryEmpty, CategoryDrafts, TypedNames
  <1>2. ASSUME NEW r \in CategoryRow
        PROVE  CategoryDraft(r) \in CategoryDrafts
    BY DEF CategoryRow, CategoryDraft, CategoryDrafts, TypedNames, OrBlank
  <1>3. ASSUME NEW r, NEW d \in CategoryDrafts, NEW x \in CategoryTyped(d, r)
        PROVE  x \in CategoryDrafts
    BY <1>3 DEF CategoryTyped, CategoryDrafts, Put, TypedNames
  <1> QED BY <1>1, <1>2, <1>3, CategoryIs DEF DraftsStay, OnRow, Opens

LEMMA CategoryRequestsFit == RequestsFit("category")
  <1>1. ASSUME NEW d \in CategoryDrafts, NEW r, CategoryReady(d)
        PROVE  CategoryBody(d, r) \in CategoryRow
    BY <1>1 DEF CategoryDrafts, CategoryReady, CategoryBody, CategoryRow, TypedNames, OrNone
  <1> QED BY <1>1, CategoryIs DEF RequestsFit, OnRow, Opens, CategoryWrite

LEMMA CategoryAnswers == Answers("category")
  <1>1. ASSUME NEW r \in CategoryRow
        PROVE  CategoryBody(CategoryDraft(r), r) = r
    BY DEF CategoryBody, CategoryDraft, CategoryRow, OrNone, OrBlank
  <1>2. ASSUME NEW r, NEW d \in CategoryDrafts
        PROVE  CategoryDraft(CategoryBody(d, r)) = d
    BY DEF CategoryBody, CategoryDraft, CategoryDrafts, OrNone, OrBlank
  <1> QED BY <1>1, <1>2, CategoryIs
          DEF Answers, OnRow, Opens, CategoryAccepts, CategoryWrite, CategorySettled

-----------------------------------------------------------------------------
(* The amounts of the months. *)

LEMMA TargetsStored ==
  /\ \A t \in DraftTargets : TargetsFit(t) => Stored(t) \in [Months -> {None} \cup Nat]
  /\ \A t \in [Months -> {None} \cup Nat] : Stored(t) = t /\ t \in DraftTargets
  /\ \A t \in DraftTargets, o \in [Months -> {None} \cup Nat] :
         ~TargetsFit(t) => t # o /\ \E m \in Months : t[m] = TooBig
  <1>1. ASSUME NEW t \in DraftTargets, TargetsFit(t)
        PROVE  Stored(t) \in [Months -> {None} \cup Nat]
    <2>1. ASSUME NEW m \in Months
          PROVE  Won(t[m]) \in {None} \cup Nat
      BY <1>1 DEF TargetsFit, Won, AmountFits, DraftTargets
    <2> QED BY <2>1 DEF Stored
  <1>2. ASSUME NEW t \in [Months -> {None} \cup Nat]
        PROVE  Stored(t) = t /\ t \in DraftTargets
    <2>1. \A m \in Months : Won(t[m]) = t[m]
      BY DEF Won
    <2> QED BY <2>1 DEF Stored, DraftTargets
  <1>3. ASSUME NEW t \in DraftTargets, NEW o \in [Months -> {None} \cup Nat], ~TargetsFit(t)
        PROVE  t # o /\ \E m \in Months : t[m] = TooBig
    <2>1. PICK m \in Months : t[m] # None /\ ~AmountFits(t[m])
      BY <1>3 DEF TargetsFit
    <2>2. t[m] = TooBig
      BY <2>1 DEF AmountFits, DraftTargets
    <2> QED BY <2>2
  <1> QED BY <1>1, <1>2, <1>3

LEMMA TotalFits == \A t : TotalOf(t) \in {Blank} \cup Nat
  <1>1. ASSUME NEW t
        PROVE  SumOf(t) \in Nat
    BY DEF SumOf
  <1> QED BY <1>1 DEF TotalOf

LEMMA EvenlyFits ==
  ASSUME NEW total \in Nat, NEW s \in Months, NEW f \in Months
  PROVE  Evenly(total, s, f) \in [Months -> {None} \cup Nat]
  <1> DEFINE n == f - s + 1
  <1>1. ASSUME NEW m \in s .. f
        PROVE  total \div n + (IF m - s < total % n THEN 1 ELSE 0) \in Nat
    <2>1. n \in Nat /\ n > 0
      BY DEF Months
    <2> HIDE DEF n
    <2>2. total \div n \in Nat
      BY <2>1
    <2> QED BY <2>2
  <1> QED BY <1>1 DEF Evenly

LEMMA SyncFits ==
  ASSUME NEW t \in DraftTargets, NEW s, NEW f
  PROVE  SyncToPeriod(t, s, f) \in DraftTargets
  <1>1. ASSUME NEW m \in Months
        PROVE  (IF m \notin s .. f THEN None ELSE IF t[m] = None THEN 0 ELSE t[m])
                   \in {None, Blank, TooBig} \cup Nat
    BY DEF DraftTargets
  <1> QED BY <1>1 DEF SyncToPeriod, DraftTargets

LEMMA GridFits ==
  ASSUME NEW t \in DraftTargets, NEW s \in Months, NEW f \in Months,
         NEW total \in {Blank} \cup Nat, NEW g \in GridTyped(t, s, f, total)
  PROVE  g \in DraftTargets
  <1> DEFINE synced == SyncToPeriod(t, s, f)
             With(S, v) == [m \in Months |-> IF m \in S THEN v ELSE synced[m]]
  <1>1. synced \in DraftTargets
    BY SyncFits
  <1> HIDE DEF synced
  <1>2. ASSUME NEW S, NEW v \in {None, Blank, TooBig} \cup Nat
        PROVE  With(S, v) \in DraftTargets
    BY <1>1 DEF DraftTargets
  <1> HIDE DEF With
  <1>3. CASE \E m \in s .. f, v \in TypedAmounts : g = With({m}, v)
    BY <1>2, <1>3, TypedFits DEF DraftAmounts
  <1>4. CASE \E m \in s .. f : g = With(m .. f, synced[m])
    <2>1. PICK m \in s .. f : g = With(m .. f, synced[m])
      BY <1>4
    <2>2. synced[m] \in {None, Blank, TooBig} \cup Nat
      BY <1>1 DEF DraftTargets, Months
    <2> QED BY <1>2, <2>1, <2>2
  <1>5. CASE \E v \in {TooBig} \cup (Amounts \ {0}) : g = With(s .. f, v)
    <2>1. PICK v \in {TooBig} \cup (Amounts \ {0}) : g = With(s .. f, v)
      BY <1>5
    <2>2. v \in {None, Blank, TooBig} \cup Nat
      BY AmountsAssumption
    <2> QED BY <1>2, <2>1, <2>2
  <1>6. CASE g = Evenly(Won(total), s, f)
    <2>1. Won(total) \in Nat
      BY DEF Won
    <2> QED BY <1>6, <2>1, EvenlyFits, TargetsStored
  <1>7. \/ \E m \in s .. f, v \in TypedAmounts : g = With({m}, v)
        \/ \E m \in s .. f : g = With(m .. f, synced[m])
        \/ \E v \in {TooBig} \cup (Amounts \ {0}) : g = With(s .. f, v)
        \/ g = Evenly(Won(total), s, f)
    BY DEF GridTyped, With, synced
  <1> QED BY <1>3, <1>4, <1>5, <1>6, <1>7

\* One input event of a form with a grid changes the period, the amounts and
\* the total.
LEMMA PeriodFits ==
  ASSUME NEW d, d.start \in Months, d.finish \in Months, d.targets \in DraftTargets,
         d.total \in {Blank} \cup Nat, NEW x \in PeriodTyped(d)
  PROVE  \/ \E s \in Months, t \in DraftTargets : x = [d EXCEPT !.start = s, !.targets = t]
         \/ \E f \in Months, t \in DraftTargets : x = [d EXCEPT !.finish = f, !.targets = t]
         \/ \E t \in DraftTargets : x = [d EXCEPT !.targets = t]
         \/ \E n \in {Blank} \cup Nat : x = [d EXCEPT !.total = n]
  <1> DEFINE Starts == {[d EXCEPT !.start = s, !.targets = SyncToPeriod(@, s, d.finish)] :
                            s \in 1 .. d.finish}
             Ends == {[d EXCEPT !.finish = f, !.targets = SyncToPeriod(@, d.start, f)] :
                          f \in d.start .. 3}
  <1>0. \/ x \in Starts \/ x \in Ends
        \/ x \in Put(d, "targets", GridTyped(d.targets, d.start, d.finish, d.total))
        \/ x \in Put(d, "total", {Blank, 4})
    <2> HIDE DEF Starts, Ends
    <2> QED BY DEF PeriodTyped, Starts, Ends
  <1>1. CASE x \in Starts
    <2>1. PICK s \in 1 .. d.finish :
            x = [d EXCEPT !.start = s, !.targets = SyncToPeriod(@, s, d.finish)]
      BY <1>1
    <2>2. s \in Months
      BY DEF Months
    <2> QED BY <2>1, <2>2, SyncFits
  <1>2. CASE x \in Ends
    <2>1. PICK f \in d.start .. 3 :
            x = [d EXCEPT !.finish = f, !.targets = SyncToPeriod(@, d.start, f)]
      BY <1>2
    <2>2. f \in Months
      BY DEF Months
    <2> QED BY <2>1, <2>2, SyncFits
  <1>3. CASE x \in Put(d, "targets", GridTyped(d.targets, d.start, d.finish, d.total))
    <2>1. PICK t \in GridTyped(d.targets, d.start, d.finish, d.total) :
            x = [d EXCEPT !.targets = t]
      BY <1>3 DEF Put
    <2> QED BY <2>1, GridFits
  <1>4. CASE x \in Put(d, "total", {Blank, 4})
    <2>1. PICK n \in {Blank, 4} : x = [d EXCEPT !.total = n]
      BY <1>4 DEF Put
    <2> QED BY <2>1
  <1> QED BY <1>0, <1>1, <1>2, <1>3, <1>4

-----------------------------------------------------------------------------
(* An item of the year's plan. *)

LEMMA PlanItemRowsFit ==
  /\ PlanItemRows \subseteq PlanItemRow
  /\ \A r \in PlanItemRows : r.start <= This /\ This <= r.finish
  /\ \A r \in PlanItemRow : \A x \in PlanItemElsewhere(r) :
         /\ x \in PlanItemRow
         /\ \/ x.start <= This /\ This <= x.finish
            \/ x.start = r.start /\ x.finish = r.finish /\ x.targets = r.targets
  <1>1. /\ PlanItemRows \subseteq PlanItemRow
        /\ \A r \in PlanItemRows : r.start <= This /\ This <= r.finish
    <2> DEFINE item == [name |-> "n", owner |-> "gone", category |-> "food", start |-> 1,
                        finish |-> 3, targets |-> <<3, 2, 3>>, rule |-> None]
               short == [item EXCEPT !.owner = None, !.category = None,
                                     !.targets = <<2, 2, None>>, !.finish = 2]
               linked == [item EXCEPT !.rule = [amount |-> 5, category |-> "rent"]]
    <2>1. /\ <<3, 2, 3>> \in [Months -> {None} \cup Nat]
          /\ <<2, 2, None>> \in [Months -> {None} \cup Nat]
      BY DEF Months
    <2>2. item \in PlanItemRow /\ item.start = 1 /\ item.finish = 3
      BY <2>1 DEF PlanItemRow, Names, Owners, Members, PlanCategory, Months
    <2>3. short \in PlanItemRow /\ short.start = 1 /\ short.finish = 2
      <3>1. PICK z : z = short
        OBVIOUS
      <3>2. z = [name |-> z.name, owner |-> z.owner, category |-> z.category,
                 start |-> z.start, finish |-> z.finish, targets |-> z.targets,
                 rule |-> z.rule]
        BY <3>1
      <3>3. /\ z.name = "n" /\ z.owner = None /\ z.category = None /\ z.start = 1
            /\ z.finish = 2 /\ z.targets = <<2, 2, None>> /\ z.rule = None
        BY <3>1
      <3> HIDE DEF short
      <3> QED BY <2>1, <3>1, <3>2, <3>3 DEF PlanItemRow, Names, Owners, Months
    <2>4. linked \in PlanItemRow /\ linked.start = 1 /\ linked.finish = 3
      BY <2>2 DEF PlanItemRow, PlanCategory
    <2>5. PlanItemRows = {item, short, linked}
      BY DEF PlanItemRows
    <2> HIDE DEF item, short, linked
    <2> QED BY <2>2, <2>3, <2>4, <2>5 DEF This
  <1>2. ASSUME NEW r \in PlanItemRow, NEW x \in PlanItemElsewhere(r)
        PROVE  /\ x \in PlanItemRow
               /\ \/ x.start <= This /\ This <= x.finish
                  \/ x.start = r.start /\ x.finish = r.finish /\ x.targets = r.targets
    <2>1. CASE x = [r EXCEPT !.targets[This] = 7, !.start = IF @ > This THEN This ELSE @,
                             !.finish = IF @ < This THEN This ELSE @]
      <3>1. x = [name |-> r.name, owner |-> r.owner, category |-> r.category,
                 start |-> IF r.start > This THEN This ELSE r.start,
                 finish |-> IF r.finish < This THEN This ELSE r.finish,
                 targets |-> [r.targets EXCEPT ![This] = 7], rule |-> r.rule]
        BY <2>1 DEF PlanItemRow
      <3>2. [r.targets EXCEPT ![This] = 7] \in [Months -> {None} \cup Nat]
        BY DEF PlanItemRow
      <3>3. /\ (IF r.start > This THEN This ELSE r.start) \in Months
            /\ (IF r.finish < This THEN This ELSE r.finish) \in Months
            /\ (IF r.start > This THEN This ELSE r.start) <= This
            /\ This <= (IF r.finish < This THEN This ELSE r.finish)
        BY DEF PlanItemRow, Months, This
      <3> QED BY <3>1, <3>2, <3>3 DEF PlanItemRow
    <2>2. CASE r.rule # None /\ x = [r EXCEPT !.rule.amount = 6]
      <3>1. r.rule \in [amount: Nat, category: PlanCategory]
        BY <2>2 DEF PlanItemRow
      <3>2. [r.rule EXCEPT !.amount = 6] \in [amount: Nat, category: PlanCategory]
        BY <3>1
      <3>3. x = [r EXCEPT !.rule = [r.rule EXCEPT !.amount = 6]]
        BY <2>2
      <3> QED BY <3>2, <3>3 DEF PlanItemRow
    <2>3. CASE x = [r EXCEPT !.rule = None]
      BY <2>3 DEF PlanItemRow
    <2> QED BY <2>1, <2>2, <2>3 DEF PlanItemElsewhere
  <1> QED BY <1>1, <1>2

LEMMA AnnualItemRowsStay == RowsStay("annualItem")
  BY PlanItemRowsFit, AnnualItemIs DEF RowsStay

\* What the screens show of an item.
LEMMA ShownFits ==
  ASSUME NEW r \in PlanItemRow
  PROVE  /\ Shown(r) \in [Months -> {None} \cup Nat]
         /\ ShownCategory(r) \in {None} \cup PlanCategory
         /\ r.rule = None => Shown(r) = r.targets /\ ShownCategory(r) = r.category
         /\ r.rule # None => /\ r.rule.amount \in Nat /\ r.rule.category \in PlanCategory
                             /\ ShownCategory(r) = r.rule.category
  <1>1. r.rule # None => r.rule.amount \in Nat /\ r.rule.category \in PlanCategory
    BY DEF PlanItemRow
  <1>2. r.targets \in [Months -> {None} \cup Nat] /\ r.category \in {None} \cup PlanCategory
    BY DEF PlanItemRow
  <1>3. ASSUME NEW m \in Months
        PROVE  (IF r.targets[m] = None \/ r.rule = None THEN r.targets[m] ELSE r.rule.amount)
                   \in {None} \cup Nat
    BY <1>1, <1>2
  <1>4. Shown(r) \in [Months -> {None} \cup Nat]
    BY <1>3 DEF Shown
  <1>5. r.rule = None => Shown(r) = r.targets
    BY <1>2 DEF Shown
  <1> QED BY <1>1, <1>2, <1>4, <1>5 DEF ShownCategory

LEMMA PlanCategoryFits ==
  ASSUME NEW d, d.name \in TypedNames, NEW x \in PlanCategoryChosen(d)
  PROVE  \E c \in {Blank} \cup PlanCategory, n \in TypedNames :
             x = [d EXCEPT !.category = c, !.name = n]
  <1>1. PICK c \in {Blank} \cup PlanCategory :
          x = [d EXCEPT !.category = c, !.name = IF @ = Blank /\ c # Blank THEN "n" ELSE @]
    BY DEF PlanCategoryChosen
  <1>2. (IF d.name = Blank /\ c # Blank THEN "n" ELSE d.name) \in TypedNames
    BY DEF TypedNames, Names
  <1> QED BY <1>1, <1>2

LEMMA AnnualItemDraftsStay == DraftsStay("annualItem")
  <1>1. AnnualItemEmpty \in AnnualItemDrafts
    BY DEF AnnualItemEmpty, AnnualItemDrafts, TypedNames, DraftOwners, Months, DraftTargets
  <1>2. ASSUME NEW r \in PlanItemRow
        PROVE  AnnualItemDraft(r) \in AnnualItemDrafts
    <2>1. /\ Shown(r) \in DraftTargets
          /\ OrBlank(ShownCategory(r)) \in {Blank} \cup PlanCategory
      BY ShownFits, TargetsStored DEF OrBlank
    <2>2. TotalOf(Shown(r)) \in {Blank} \cup Nat
      BY TotalFits
    <2>3. /\ r.name \in TypedNames /\ OrBlank(r.owner) \in DraftOwners
          /\ r.start \in Months /\ r.finish \in Months
      BY OwnerFacts DEF PlanItemRow, TypedNames
    <2> QED BY <2>1, <2>2, <2>3 DEF AnnualItemDraft, AnnualItemDrafts
  <1>3. ASSUME NEW r, NEW d \in AnnualItemDrafts, NEW x \in AnnualItemTyped(d, r)
        PROVE  x \in AnnualItemDrafts
    <2>1. CASE x \in PlanCategoryChosen(d)
      <3>1. PICK c \in {Blank} \cup PlanCategory, n \in TypedNames :
              x = [d EXCEPT !.category = c, !.name = n]
        BY <2>1, PlanCategoryFits DEF AnnualItemDrafts
      <3> QED BY <3>1 DEF AnnualItemDrafts
    <2>2. CASE x \in PeriodTyped(d)
      <3>1. /\ d.start \in Months /\ d.finish \in Months /\ d.targets \in DraftTargets
            /\ d.total \in {Blank} \cup Nat
        BY DEF AnnualItemDrafts
      <3>2. \/ \E s \in Months, t \in DraftTargets : x = [d EXCEPT !.start = s, !.targets = t]
            \/ \E f \in Months, t \in DraftTargets : x = [d EXCEPT !.finish = f, !.targets = t]
            \/ \E t \in DraftTargets : x = [d EXCEPT !.targets = t]
            \/ \E n \in {Blank} \cup Nat : x = [d EXCEPT !.total = n]
        BY <2>2, <3>1, PeriodFits
      <3> QED BY <3>2 DEF AnnualItemDrafts
    <2>3. CASE x \in Put(d, "name", TypedNames) \cup Put(d, "owner", {Blank, "me"})
      BY <2>3 DEF Put, AnnualItemDrafts, DraftOwners
    <2> QED BY <1>3, <2>1, <2>2, <2>3 DEF AnnualItemTyped
  <1> QED BY <1>1, <1>2, <1>3, AnnualItemIs DEF DraftsStay, OnRow, Opens

LEMMA AnnualItemWrites ==
  ASSUME NEW d \in AnnualItemDrafts, AnnualItemReady(d), TargetsFit(d.targets),
         NEW r, NEW s, s # None => s \in PlanItemRow,
         NEW w, w = AnnualItemWrite(AnnualItemBody(d, r), s)
  PROVE  /\ w \in PlanItemRow
         /\ w.name = d.name /\ w.owner = OrNone(d.owner) /\ w.category = OrNone(d.category)
         /\ w.start = d.start /\ w.finish = d.finish /\ w.targets = Stored(d.targets)
         /\ w.rule = (IF s = None THEN None ELSE s.rule)
  <1> DEFINE rule == IF s = None THEN None ELSE s.rule
  <1>1. w = [name |-> d.name, owner |-> OrNone(d.owner), category |-> OrNone(d.category),
             start |-> d.start, finish |-> d.finish, targets |-> Stored(d.targets),
             rule |-> rule]
    BY DEF AnnualItemWrite, AnnualItemBody
  <1>2. /\ d.name \in Names /\ OrNone(d.owner) \in Owners
        /\ OrNone(d.category) \in {None} \cup PlanCategory
        /\ d.start \in Months /\ d.finish \in Months
    BY OwnerFacts DEF AnnualItemDrafts, AnnualItemReady, TypedNames, OrNone
  <1>3. Stored(d.targets) \in [Months -> {None} \cup Nat]
    BY TargetsStored DEF AnnualItemDrafts
  <1>4. rule \in {None} \cup [amount: Nat, category: PlanCategory]
    BY DEF PlanItemRow
  <1> HIDE DEF rule
  <1>5. w \in PlanItemRow
    BY <1>1, <1>2, <1>3, <1>4 DEF PlanItemRow
  <1>6. w.rule = rule
    BY <1>1
  <1> QED BY <1>1, <1>5, <1>6 DEF rule

LEMMA AnnualItemRequestsFit == RequestsFit("annualItem")
  BY AnnualItemWrites, AnnualItemIs
     DEF RequestsFit, OnRow, Opens, AnnualItemAccepts, AnnualItemBody

LEMMA AnnualItemAnswers == Answers("annualItem")
  <1>1. ASSUME NEW d \in AnnualItemDrafts, NEW t, NEW r, OnRow("annualItem", t, r),
               ~TargetsFit(d.targets)
        PROVE  Unsuited("annualItem", d, Original("annualItem", t, r))
    <2>1. Original("annualItem", t, r).targets \in [Months -> {None} \cup Nat]
      BY <1>1, ShownFits, AnnualItemIs
         DEF Original, OnRow, Opens, AnnualItemEmpty, AnnualItemDraft
    <2>2. d.targets \in DraftTargets /\ "targets" \in DOMAIN d
      BY DEF AnnualItemDrafts
    <2> QED BY <1>1, <2>1, <2>2, TargetsStored DEF Unsuited
  <1>2. ASSUME NEW r \in PlanItemRow, r.rule = None, r # None,
               AnnualItemReady(AnnualItemDraft(r))
        PROVE  AnnualItemWrite(AnnualItemBody(AnnualItemDraft(r), r), r) = r
    <2>1. PICK w : w = AnnualItemWrite(AnnualItemBody(AnnualItemDraft(r), r), r)
      OBVIOUS
    <2>2. w = [name |-> r.name, owner |-> OrNone(OrBlank(r.owner)),
               category |-> OrNone(OrBlank(r.category)), start |-> r.start,
               finish |-> r.finish, targets |-> Stored(r.targets), rule |-> r.rule]
      BY <1>2, <2>1, ShownFits DEF AnnualItemWrite, AnnualItemBody, AnnualItemDraft
    <2>3. Stored(r.targets) = r.targets
      BY TargetsStored DEF PlanItemRow
    <2>4. OrNone(OrBlank(r.owner)) = r.owner /\ OrNone(OrBlank(r.category)) = r.category
      BY OwnerFacts DEF PlanItemRow, PlanCategory, OrNone, OrBlank
    <2>5. r = [name |-> r.name, owner |-> r.owner, category |-> r.category,
               start |-> r.start, finish |-> r.finish, targets |-> r.targets,
               rule |-> r.rule]
      BY DEF PlanItemRow
    <2> QED BY <2>1, <2>2, <2>3, <2>4, <2>5
  <1>3. ASSUME NEW d \in AnnualItemDrafts, AnnualItemReady(d), TargetsFit(d.targets),
               NEW r, r # None => r \in PlanItemRow,
               NEW w, w = AnnualItemWrite(AnnualItemBody(d, r), r)
        PROVE  AnnualItemDraft(w) = AnnualItemSettled(d, r)
    <2>1. /\ w \in PlanItemRow
          /\ w.name = d.name /\ w.owner = OrNone(d.owner) /\ w.category = OrNone(d.category)
          /\ w.start = d.start /\ w.finish = d.finish /\ w.targets = Stored(d.targets)
          /\ w.rule = (IF r = None THEN None ELSE r.rule)
      BY <1>3, AnnualItemWrites
    <2>2. OrBlank(w.owner) = d.owner /\ OrBlank(w.category) = OrBlank(OrNone(d.category))
      BY <2>1, OwnerFacts DEF AnnualItemDrafts
    <2>3. OrBlank(OrNone(d.category)) = d.category
      BY DEF AnnualItemDrafts, PlanCategory, OrNone, OrBlank
    <2>4. PICK z : z = AnnualItemSettled(d, r)
      OBVIOUS
    <2>5. PICK y : y = AnnualItemDraft(w)
      OBVIOUS
    <2>6. y = [name |-> d.name, owner |-> d.owner, category |-> OrBlank(ShownCategory(w)),
               start |-> d.start, finish |-> d.finish, targets |-> Shown(w),
               total |-> TotalOf(Shown(w))]
      BY <2>1, <2>2, <2>5 DEF AnnualItemDraft
    <2>7. CASE r # None /\ r.rule # None
      <3> DEFINE shown == [r EXCEPT !.targets = Stored(d.targets)]
      <3>1. shown.targets = w.targets /\ shown.rule = w.rule
        BY <1>3, <2>1, <2>7 DEF PlanItemRow
      <3>2. Shown(shown) = Shown(w)
        BY <3>1 DEF Shown
      <3>3. z = [d EXCEPT !.targets = Shown(shown), !.total = TotalOf(Shown(shown)),
                          !.category = ShownCategory(r)]
        BY <2>4, <2>7 DEF AnnualItemSettled
      <3> HIDE DEF shown
      <3>4. OrBlank(ShownCategory(w)) = ShownCategory(r)
        <4>1. ShownCategory(r) \in PlanCategory /\ ShownCategory(w) = ShownCategory(r)
          BY <1>3, <2>1, <2>7, ShownFits
        <4> QED BY <4>1 DEF OrBlank, PlanCategory
      <3>5. z = [name |-> d.name, owner |-> d.owner, category |-> ShownCategory(r),
                 start |-> d.start, finish |-> d.finish, targets |-> Shown(w),
                 total |-> TotalOf(Shown(w))]
        BY <3>2, <3>3 DEF AnnualItemDrafts
      <3> QED BY <2>4, <2>5, <2>6, <3>4, <3>5
    <2>8. CASE r = None \/ r.rule = None
      <3>1. w.rule = None
        BY <2>1, <2>8
      <3>2. Shown(w) = Stored(d.targets) /\ ShownCategory(w) = w.category
        BY <2>1, <3>1, ShownFits
      <3>3. z = [d EXCEPT !.targets = Stored(d.targets), !.total = TotalOf(Stored(d.targets)),
                          !.category = d.category]
        BY <2>4, <2>8 DEF AnnualItemSettled
      <3>4. z = [name |-> d.name, owner |-> d.owner, category |-> d.category,
                 start |-> d.start, finish |-> d.finish, targets |-> Stored(d.targets),
                 total |-> TotalOf(Stored(d.targets))]
        BY <3>3 DEF AnnualItemDrafts
      <3> QED BY <2>1, <2>2, <2>3, <2>4, <2>5, <2>6, <3>2, <3>4
    <2> QED BY <2>7, <2>8
  <1>4. \A d, r, s : AnnualItemAccepts(AnnualItemBody(d, r), s) <=> TargetsFit(d.targets)
    BY DEF AnnualItemAccepts, AnnualItemBody
  <1> QED BY <1>1, <1>2, <1>3, <1>4, AnnualItemIs DEF Answers, OnRow, Opens

-----------------------------------------------------------------------------
(* The same item on the month screen. *)

\* The row of the month goes, and the item with its last row.
LEMMA MonthItemLeft ==
  ASSUME NEW r \in PlanItemRow, \E m \in Months \ {This} : r.targets[m] # None
  PROVE  /\ MonthItemAfter(r) \in PlanItemRow
         /\ MonthItemAfter(r).targets = [r.targets EXCEPT ![This] = None]
  <1> DEFINE left == {m \in Months \ {This} : r.targets[m] # None}
             start == CHOOSE m \in left : \A k \in left : m <= k
             finish == CHOOSE m \in left : \A k \in left : m >= k
  <1>1. left = {1} \/ left = {3} \/ left = {1, 3}
    <2>1. left # {}
      OBVIOUS
    <2>2. left \subseteq {1, 3}
      BY DEF Months, This
    <2> HIDE DEF left
    <2>3. 1 \in left \/ 3 \in left
      BY <2>1, <2>2
    <2>4. CASE 1 \in left /\ 3 \in left
      <3>1. left = {1, 3}
        BY <2>2, <2>4
      <3> QED BY <3>1
    <2>5. CASE 1 \in left /\ 3 \notin left
      <3>1. left = {1}
        BY <2>2, <2>5
      <3> QED BY <3>1
    <2>6. CASE 1 \notin left /\ 3 \in left
      <3>1. left = {3}
        BY <2>2, <2>6
      <3> QED BY <3>1
    <2> QED BY <2>3, <2>4, <2>5, <2>6
  <1> HIDE DEF left
  <1>2. start \in Months /\ finish \in Months
    <2>1. \E m \in left : \A k \in left : m <= k
      BY <1>1
    <2>2. \E m \in left : \A k \in left : m >= k
      BY <1>1
    <2>3. left \subseteq Months
      BY <1>1 DEF Months
    <2> QED BY <2>1, <2>2, <2>3
  <1> HIDE DEF start, finish
  <1>3. PICK x : x = MonthItemAfter(r)
    OBVIOUS
  <1>4. x = [r EXCEPT !.targets[This] = None, !.start = start, !.finish = finish]
    BY <1>1, <1>3 DEF MonthItemAfter, left, start, finish
  <1>5. x = [name |-> x.name, owner |-> x.owner, category |-> x.category, start |-> x.start,
             finish |-> x.finish, targets |-> x.targets, rule |-> x.rule]
    BY <1>4 DEF PlanItemRow
  <1>6. /\ x.name = r.name /\ x.owner = r.owner /\ x.category = r.category
        /\ x.start = start /\ x.finish = finish /\ x.rule = r.rule
        /\ x.targets = [r.targets EXCEPT ![This] = None]
    BY <1>4 DEF PlanItemRow
  <1>7. [r.targets EXCEPT ![This] = None] \in [Months -> {None} \cup Nat]
    BY DEF PlanItemRow
  <1>8. x \in PlanItemRow
    BY <1>2, <1>5, <1>6, <1>7 DEF PlanItemRow
  <1> QED BY <1>3, <1>6, <1>8

LEMMA MonthItemRowsStay == RowsStay("monthItem")
  <1>1. \A r \in PlanItemRows : MonthItemFits(r)
    BY PlanItemRowsFit DEF MonthItemFits
  <1>2. ASSUME NEW r \in PlanItemRow, MonthItemFits(r), NEW x \in PlanItemElsewhere(r)
        PROVE  x \in PlanItemRow /\ MonthItemFits(x)
    <2>1. x \in PlanItemRow
      BY PlanItemRowsFit
    <2>2. \/ x.start <= This /\ This <= x.finish
          \/ x.start = r.start /\ x.finish = r.finish /\ x.targets = r.targets
      BY PlanItemRowsFit
    <2>3. MonthItemFits(x)
      BY <1>2, <2>2 DEF MonthItemFits, MonthItemLists
    <2> QED BY <2>1, <2>3
  <1>3. ASSUME NEW r \in PlanItemRow, MonthItemAfter(r) # None
        PROVE  MonthItemAfter(r) \in PlanItemRow /\ MonthItemFits(MonthItemAfter(r))
    <2>1. r.targets \in [Months -> {None} \cup Nat] /\ This \in Months
      BY DEF PlanItemRow, Months, This
    <2>2. \E m \in Months \ {This} : r.targets[m] # None
      BY <1>3 DEF MonthItemAfter
    <2>3. MonthItemAfter(r).targets[This] = None
      BY <2>1, <2>2, MonthItemLeft
    <2> QED BY <2>2, <2>3, MonthItemLeft DEF MonthItemFits, MonthItemLists
  <1> QED BY <1>1, <1>2, <1>3, PlanItemRowsFit, MonthItemIs DEF RowsStay

\* What the month screen shows of an item.
LEMMA ShownHere ==
  ASSUME NEW r \in PlanItemRow, MonthItemLists(r)
  PROVE  /\ Shown(r)[This] \in Nat
         /\ r.rule = None => Shown(r)[This] = r.targets[This]
         /\ r.rule # None => Shown(r)[This] = r.rule.amount
  <1>1. This \in Months
    BY DEF This, Months
  <1>2. r.targets[This] \in Nat
    BY <1>1 DEF PlanItemRow, MonthItemLists
  <1>3. Shown(r)[This] = IF r.targets[This] = None \/ r.rule = None THEN r.targets[This]
                         ELSE r.rule.amount
    BY <1>1 DEF Shown
  <1>4. r.targets[This] # None
    BY DEF MonthItemLists
  <1> QED BY <1>2, <1>3, <1>4, ShownFits

LEMMA MonthItemDraftsStay == DraftsStay("monthItem")
  <1>1. MonthItemEmpty \in MonthItemDrafts /\ RuleStands(MonthItemEmpty, None)
    BY DEF MonthItemEmpty, MonthItemDrafts, TypedNames, DraftOwners, DraftAmounts,
           RuleStands
  <1>2. ASSUME NEW r \in PlanItemRow, MonthItemLists(r)
        PROVE  MonthItemDraft(r) \in MonthItemDrafts /\ RuleStands(MonthItemDraft(r), r)
    <2>1. /\ OrBlank(ShownCategory(r)) \in {Blank} \cup PlanCategory
          /\ r.rule # None => OrBlank(ShownCategory(r)) = r.rule.category
      BY ShownFits DEF OrBlank, PlanCategory
    <2>2. r.name \in TypedNames /\ OrBlank(r.owner) \in DraftOwners
      BY OwnerFacts DEF PlanItemRow, TypedNames
    <2>3. Shown(r)[This] \in DraftAmounts
      BY <1>2, ShownHere DEF DraftAmounts
    <2>4. RuleStands(MonthItemDraft(r), r)
      BY <1>2, <2>1, ShownHere DEF MonthItemDraft, RuleStands
    <2> QED BY <2>1, <2>2, <2>3, <2>4 DEF MonthItemDraft, MonthItemDrafts
  <1>3. ASSUME NEW r, NEW d \in MonthItemDrafts, RuleStands(d, r), NEW x \in MonthItemTyped(d, r)
        PROVE  x \in MonthItemDrafts /\ RuleStands(x, r)
    <2>1. CASE x \in Put(d, "name", TypedNames) \cup Put(d, "owner", {Blank, "me"})
      BY <1>3, <2>1 DEF Put, MonthItemDrafts, DraftOwners, RuleStands
    <2>2. CASE ~(r # None /\ r.rule # None) /\ x \in PlanCategoryChosen(d)
      <3>1. d.name \in TypedNames
        BY DEF MonthItemDrafts
      <3>2. PICK c \in {Blank} \cup PlanCategory, n \in TypedNames :
              x = [d EXCEPT !.category = c, !.name = n]
        <4>1. x \in PlanCategoryChosen(d)
          BY <2>2
        <4> QED BY <3>1, <4>1, PlanCategoryFits
      <3>3. x = [name |-> n, owner |-> d.owner, amount |-> d.amount, category |-> c]
        BY <3>2 DEF MonthItemDrafts
      <3>4. x \in MonthItemDrafts
        BY <3>3 DEF MonthItemDrafts
      <3> QED BY <2>2, <3>4 DEF RuleStands
    <2>3. CASE ~(r # None /\ r.rule # None) /\ x \in Put(d, "amount", TypedAmounts)
      BY <2>3, TypedFits DEF Put, MonthItemDrafts, DraftAmounts, RuleStands
    <2> QED BY <1>3, <2>1, <2>2, <2>3 DEF MonthItemTyped
  <1> QED BY <1>1, <1>2, <1>3, MonthItemIs DEF DraftsStay, OnRow, Opens

\* The month screen changes the amount of its month and no other.
LEMMA MonthItemWrites ==
  ASSUME NEW d \in MonthItemDrafts, MonthItemReady(d), AmountFits(d.amount), NEW r,
         NEW s, s # None => s \in PlanItemRow,
         NEW w, w = MonthItemWrite(MonthItemBody(d, r), s)
  PROVE  /\ w \in PlanItemRow /\ MonthItemFits(w)
         /\ w.name = d.name /\ w.owner = OrNone(d.owner) /\ w.category = OrNone(d.category)
         /\ w.targets[This] = Won(d.amount) /\ Won(d.amount) = d.amount
         /\ w.rule = (IF s = None THEN None ELSE s.rule)
         /\ s # None => /\ \A m \in Months \ {This} : w.targets[m] = s.targets[m]
                        /\ w.start = (IF s.start < This THEN s.start ELSE This)
                        /\ w.finish = (IF s.finish > This THEN s.finish ELSE This)
  <1> DEFINE b == MonthItemBody(d, r)
             rule == IF s = None THEN None ELSE s.rule
             start == IF s = None THEN This ELSE IF s.start < This THEN s.start ELSE This
             finish == IF s = None THEN This ELSE IF s.finish > This THEN s.finish ELSE This
             targets == IF s = None
                        THEN [m \in Months |-> IF m = This THEN Won(d.amount) ELSE None]
                        ELSE [s.targets EXCEPT ![This] = Won(d.amount)]
  <1>1. b = [name |-> d.name, owner |-> OrNone(d.owner), amount |-> d.amount,
             category |-> OrNone(d.category)]
    <2>1. PICK z : z = b
      OBVIOUS
    <2>2. z = [name |-> z.name, owner |-> z.owner, amount |-> z.amount,
               category |-> z.category]
      BY <2>1 DEF MonthItemBody, MonthItemDrafts
    <2>3. /\ z.name = d.name /\ z.owner = OrNone(d.owner) /\ z.amount = d.amount
          /\ z.category = OrNone(d.category)
      BY <2>1 DEF MonthItemBody, MonthItemDrafts
    <2> QED BY <2>1, <2>2, <2>3
  <1>2. /\ b.name = d.name /\ b.owner = OrNone(d.owner) /\ b.amount = d.amount
        /\ b.category = OrNone(d.category)
    BY <1>1
  <1> HIDE DEF b
  <1>3. w = [name |-> d.name, owner |-> OrNone(d.owner), category |-> OrNone(d.category),
             start |-> start, finish |-> finish, targets |-> targets, rule |-> rule]
    <2>1. CASE s = None
      BY <1>2, <2>1 DEF MonthItemWrite, b
    <2>2. CASE s # None
      <3>2. /\ w.name = d.name /\ w.owner = OrNone(d.owner)
            /\ w.category = OrNone(d.category) /\ w.rule = rule
        BY <1>2, <2>2 DEF MonthItemWrite, b
      <3>3. w.start = start
        BY <1>2, <2>2 DEF MonthItemWrite, b
      <3>4. w.finish = finish
        BY <1>2, <2>2 DEF MonthItemWrite, b
      <3>5. w.targets = targets
        BY <1>2, <2>2 DEF MonthItemWrite, b
      <3>6. w = [name |-> w.name, owner |-> w.owner, category |-> w.category,
                 start |-> w.start, finish |-> w.finish, targets |-> w.targets,
                 rule |-> w.rule]
        BY <2>2 DEF MonthItemWrite
      <3> QED BY <3>2, <3>3, <3>4, <3>5, <3>6
    <2> QED BY <2>1, <2>2
  <1>4. /\ d.name \in Names /\ OrNone(d.owner) \in Owners
        /\ OrNone(d.category) \in {None} \cup PlanCategory
    BY OwnerFacts DEF MonthItemDrafts, MonthItemReady, TypedNames, OrNone
  <1>5. Won(d.amount) = d.amount /\ d.amount \in Nat
    BY DEF MonthItemDrafts, MonthItemReady, DraftAmounts, AmountFits, Won
  <1>6. rule \in {None} \cup [amount: Nat, category: PlanCategory]
    BY DEF PlanItemRow
  <1>7. /\ start \in Months /\ finish \in Months /\ start <= This /\ This <= finish
    BY DEF PlanItemRow, Months, This
  <1>8. targets \in [Months -> {None} \cup Nat] /\ targets[This] = Won(d.amount)
    <2>1. This \in Months
      BY DEF This, Months
    <2>2. CASE s = None
      BY <1>5, <2>1, <2>2
    <2>3. CASE s # None
      <3>1. s.targets \in [Months -> {None} \cup Nat]
        BY <2>3 DEF PlanItemRow
      <3> QED BY <1>5, <2>1, <2>3, <3>1
    <2> QED BY <2>2, <2>3
  <1>9. s # None => \A m \in Months \ {This} : targets[m] = s.targets[m]
    BY DEF PlanItemRow
  <1>10. s # None => /\ start = (IF s.start < This THEN s.start ELSE This)
                     /\ finish = (IF s.finish > This THEN s.finish ELSE This)
    OBVIOUS
  <1>11. rule = (IF s = None THEN None ELSE s.rule)
    OBVIOUS
  <1> HIDE DEF rule, start, finish, targets
  <1>12. w \in PlanItemRow
    BY <1>3, <1>4, <1>6, <1>7, <1>8 DEF PlanItemRow
  <1>13. MonthItemFits(w)
    BY <1>3, <1>7 DEF MonthItemFits
  <1> QED BY <1>3, <1>5, <1>8, <1>9, <1>10, <1>11, <1>12, <1>13

LEMMA MonthItemRequestsFit == RequestsFit("monthItem")
  <1>1. \A d \in MonthItemDrafts : \A r :
          MonthItemBody(d, r).amount = d.amount
    BY DEF MonthItemDrafts, MonthItemBody
  <1>2. ASSUME NEW d \in MonthItemDrafts, MonthItemReady(d), AmountFits(d.amount), NEW r,
               NEW s, s # None => s \in PlanItemRow
        PROVE  /\ MonthItemWrite(MonthItemBody(d, r), s) \in PlanItemRow
               /\ MonthItemFits(MonthItemWrite(MonthItemBody(d, r), s))
    BY <1>2, MonthItemWrites
  <1> QED BY <1>1, <1>2, MonthItemIs DEF RequestsFit, OnRow, Opens, MonthItemAccepts

LEMMA MonthItemAnswers == Answers("monthItem")
  <1>1. ASSUME NEW d \in MonthItemDrafts, NEW t, NEW r, OnRow("monthItem", t, r),
               ~AmountFits(d.amount)
        PROVE  Unsuited("monthItem", d, Original("monthItem", t, r))
    <2>1. Original("monthItem", t, r).amount \in {Blank} \cup Nat
      <3>1. CASE t = New
        BY <3>1, MonthItemIs DEF Original, MonthItemEmpty
      <3>2. CASE t # New
        <4>1. r \in PlanItemRow /\ MonthItemLists(r)
          BY <1>1, <3>2, MonthItemIs DEF OnRow, Opens
        <4>2. Original("monthItem", t, r) = MonthItemDraft(r)
          BY <3>2, MonthItemIs DEF Original
        <4>3. Shown(r)[This] \in Nat
          BY <4>1, ShownHere
        <4> QED BY <4>2, <4>3 DEF MonthItemDraft
      <3> QED BY <3>1, <3>2
    <2>2. d.amount = TooBig /\ "amount" \in DOMAIN d
      BY <1>1 DEF MonthItemDrafts, DraftAmounts, AmountFits
    <2> QED BY <2>1, <2>2 DEF Unsuited, NoInput
  <1>2. ASSUME NEW r \in PlanItemRow, MonthItemFits(r), MonthItemLists(r), r.rule = None,
               r # None, MonthItemReady(MonthItemDraft(r))
        PROVE  MonthItemWrite(MonthItemBody(MonthItemDraft(r), r), r) = r
    <2>1. PICK d : d = MonthItemDraft(r)
      OBVIOUS
    <2>2. d \in MonthItemDrafts
      BY <1>2, <2>1, MonthItemDraftsStay, MonthItemIs DEF DraftsStay, Opens
    <2>3. /\ d.name = r.name /\ d.owner = OrBlank(r.owner)
          /\ d.category = OrBlank(r.category) /\ d.amount = r.targets[This]
          /\ d.amount \in Nat
      BY <1>2, <2>1, ShownFits, ShownHere DEF MonthItemDraft
    <2>4. PICK w : w = MonthItemWrite(MonthItemBody(d, r), r)
      OBVIOUS
    <2>5. /\ w \in PlanItemRow /\ w.name = d.name /\ w.owner = OrNone(d.owner)
          /\ w.category = OrNone(d.category) /\ w.rule = r.rule /\ Won(d.amount) = d.amount
          /\ w.targets[This] = Won(d.amount)
          /\ \A m \in Months \ {This} : w.targets[m] = r.targets[m]
          /\ w.start = (IF r.start < This THEN r.start ELSE This)
          /\ w.finish = (IF r.finish > This THEN r.finish ELSE This)
      BY <1>2, <2>1, <2>2, <2>3, <2>4, AmountFacts, MonthItemWrites
    <2>6. w.targets = r.targets
      <3>1. /\ r.targets \in [Months -> {None} \cup Nat]
            /\ w.targets \in [Months -> {None} \cup Nat]
        BY <2>5 DEF PlanItemRow
      <3>2. \A m \in Months : w.targets[m] = r.targets[m]
        BY <2>3, <2>5
      <3> QED BY <3>1, <3>2
    <2>7. w.start = r.start /\ w.finish = r.finish
      BY <1>2, <2>5 DEF MonthItemFits, PlanItemRow, Months, This
    <2>8. OrNone(OrBlank(r.owner)) = r.owner /\ OrNone(OrBlank(r.category)) = r.category
      BY OwnerFacts DEF PlanItemRow, PlanCategory, OrNone, OrBlank
    <2>9. /\ r = [name |-> r.name, owner |-> r.owner, category |-> r.category,
                  start |-> r.start, finish |-> r.finish, targets |-> r.targets,
                  rule |-> r.rule]
          /\ w = [name |-> w.name, owner |-> w.owner, category |-> w.category,
                  start |-> w.start, finish |-> w.finish, targets |-> w.targets,
                  rule |-> w.rule]
      BY <2>5 DEF PlanItemRow
    <2> QED BY <2>1, <2>3, <2>4, <2>5, <2>6, <2>7, <2>8, <2>9
  <1>3. ASSUME NEW d \in MonthItemDrafts, MonthItemReady(d), AmountFits(d.amount),
               NEW r, r # None => r \in PlanItemRow, RuleStands(d, r),
               NEW w, w = MonthItemWrite(MonthItemBody(d, r), r)
        PROVE  MonthItemDraft(w) = MonthItemSettled(d, r)
    <2>1. /\ w \in PlanItemRow
          /\ w.name = d.name /\ w.owner = OrNone(d.owner) /\ w.category = OrNone(d.category)
          /\ w.targets[This] = Won(d.amount) /\ Won(d.amount) = d.amount
          /\ w.rule = (IF r = None THEN None ELSE r.rule)
      BY <1>3, MonthItemWrites
    <2>2. d.amount \in Nat
      BY <1>3 DEF MonthItemDrafts, MonthItemReady, DraftAmounts, AmountFits
    <2>3. MonthItemLists(w)
      BY <2>1, <2>2 DEF MonthItemLists
    <2>4. OrBlank(w.owner) = d.owner /\ OrBlank(OrNone(d.category)) = d.category
      BY <2>1, OwnerFacts DEF MonthItemDrafts, PlanCategory, OrNone, OrBlank
    <2>5. Shown(w)[This] = d.amount /\ OrBlank(ShownCategory(w)) = d.category
      <3>1. CASE w.rule = None
        BY <2>1, <2>3, <2>4, <3>1, ShownFits, ShownHere
      <3>2. CASE w.rule # None
        <4>1. w.rule = r.rule /\ r # None /\ r.rule # None
          BY <2>1, <3>2
        <4>2. d.amount = w.rule.amount /\ d.category = w.rule.category
          BY <1>3, <4>1 DEF RuleStands
        <4>3. ShownCategory(w) = d.category /\ d.category \in PlanCategory
          BY <2>1, <3>2, <4>2, ShownFits
        <4> QED BY <2>1, <2>3, <3>2, <4>2, <4>3, ShownHere DEF OrBlank, PlanCategory
      <3> QED BY <3>1, <3>2
    <2>6. MonthItemSettled(d, r) = [name |-> d.name, owner |-> d.owner, amount |-> d.amount,
                                    category |-> d.category]
      BY <2>1 DEF MonthItemSettled, MonthItemDrafts
    <2> QED BY <2>1, <2>4, <2>5, <2>6 DEF MonthItemDraft
  <1>4. \A d \in MonthItemDrafts : \A r, s :
          MonthItemAccepts(MonthItemBody(d, r), s) <=> AmountFits(d.amount)
    BY DEF MonthItemAccepts, MonthItemDrafts, MonthItemBody
  <1> QED BY <1>1, <1>2, <1>3, <1>4, MonthItemIs DEF Answers, OnRow, Opens

-----------------------------------------------------------------------------
(* An amount split over the rest of the year. *)

LEMMA SplitRowsStay == RowsStay("split")
  BY PlanItemRowsFit, SplitIs DEF RowsStay

LEMMA SplitDraftsStay == DraftsStay("split")
  <1>1. SplitEmpty \in SplitDrafts
    BY DEF SplitEmpty, SplitDrafts, DraftAmounts, TypedNames, Months, This
  <1>2. ASSUME NEW r, NEW d \in SplitDrafts, NEW x \in SplitTyped(d, r)
        PROVE  x \in SplitDrafts
    BY <1>2, TypedFits DEF SplitTyped, Put, SplitDrafts, DraftAmounts
  <1> QED BY <1>1, <1>2, SplitIs DEF DraftsStay, OnRow, Opens

LEMMA SplitWrites ==
  ASSUME NEW d \in SplitDrafts, SplitReady(d), AmountFits(d.total), NEW r, NEW s,
         NEW w, w = SplitWrite(SplitBody(d, r), s)
  PROVE  /\ w \in PlanItemRow
         /\ w.targets = Evenly(Won(d.total), d.start, 3) /\ Won(d.total) \in Nat
         /\ d.start \in Months
  <1>1. /\ d.name \in Names /\ OrNone(d.category) \in {None} \cup PlanCategory
        /\ d.start \in Months /\ 3 \in Months /\ Won(d.total) \in Nat
    BY DEF SplitDrafts, DraftAmounts, SplitReady, TypedNames, OrNone, AmountFits, Won, Months
  <1>2. /\ SplitBody(d, r).name = d.name /\ SplitBody(d, r).category = OrNone(d.category)
        /\ SplitBody(d, r).start = d.start /\ SplitBody(d, r).total = d.total
    BY DEF SplitBody, SplitDrafts
  <1>3. w = [name |-> d.name, owner |-> None, category |-> OrNone(d.category),
             start |-> d.start, finish |-> 3, targets |-> Evenly(Won(d.total), d.start, 3),
             rule |-> None]
    BY <1>2 DEF SplitWrite
  <1>4. Evenly(Won(d.total), d.start, 3) \in [Months -> {None} \cup Nat]
    BY <1>1, EvenlyFits
  <1> QED BY <1>1, <1>3, <1>4 DEF PlanItemRow, Owners

LEMMA SplitTaken ==
  \A d \in SplitDrafts : \A r, s : SplitAccepts(SplitBody(d, r), s) <=> AmountFits(d.total)
  BY DEF SplitAccepts, SplitBody, SplitDrafts

LEMMA SplitRequestsFit == RequestsFit("split")
  BY SplitTaken, SplitWrites, SplitIs DEF RequestsFit, OnRow, Opens

LEMMA SplitAnswers == Answers("split")
  <1>1. ASSUME NEW d \in SplitDrafts, NEW t, NEW r, OnRow("split", t, r),
               ~AmountFits(d.total)
        PROVE  Unsuited("split", d, Original("split", t, r))
    <2>1. Original("split", t, r).total = Blank
      BY <1>1, SplitIs DEF Original, OnRow, Opens, SplitEmpty
    <2>2. d.total = TooBig /\ "total" \in DOMAIN d
      BY <1>1 DEF SplitDrafts, DraftAmounts, AmountFits
    <2> QED BY <2>1, <2>2 DEF Unsuited, NoInput
  <1> QED BY <1>1, SplitTaken, SplitIs DEF Answers, OnRow, Opens

-----------------------------------------------------------------------------
(* The year's plan of a savings product. *)

LEMMA ProductPlanRowsStay == RowsStay("productPlan")
  <1>1. ProductPlanRows \subseteq ProductPlanRow
    <2>1. /\ <<None, None, None>> \in [Months -> {None} \cup Nat]
          /\ <<None, 1, 0>> \in [Months -> {None} \cup Nat]
      BY DEF Months
    <2> QED BY <2>1 DEF ProductPlanRows, ProductPlanRow, Months
  <1>2. ASSUME NEW r \in ProductPlanRow, NEW x \in ProductPlanElsewhere(r)
        PROVE  x \in ProductPlanRow
    BY DEF ProductPlanElsewhere, ProductPlanRow
  <1> QED BY <1>1, <1>2, ProductPlanIs DEF RowsStay

LEMMA ProductPlanDraftFits ==
  ASSUME NEW r \in ProductPlanRow
  PROVE  /\ ProductPlanDraft(r) \in ProductPlanDrafts
         /\ ProductPlanDraft(r).targets \in [Months -> {None} \cup Nat]
  <1> DEFINE t == IF r.saved THEN r.targets ELSE [m \in Months |-> r.monthly]
             s == IF r.saved THEN r.start ELSE 1
             f == IF r.saved THEN r.finish ELSE 3
  <1>1. t \in [Months -> {None} \cup Nat]
    BY DEF ProductPlanRow
  <1>2. s \in Months /\ f \in Months
    BY DEF ProductPlanRow, Months
  <1>3. ProductPlanDraft(r) = [start |-> s, finish |-> f, targets |-> t,
                               total |-> TotalOf(t)]
    BY DEF ProductPlanDraft
  <1> HIDE DEF t, s, f
  <1>4. t \in DraftTargets /\ TotalOf(t) \in {Blank} \cup Nat
    BY <1>1, TargetsStored, TotalFits
  <1> QED BY <1>1, <1>2, <1>3, <1>4 DEF ProductPlanDrafts

LEMMA ProductPlanDraftsStay == DraftsStay("productPlan")
  <1>1. ASSUME NEW r, NEW d \in ProductPlanDrafts, NEW x \in ProductPlanTyped(d, r)
        PROVE  x \in ProductPlanDrafts
    <2>1. /\ d.start \in Months /\ d.finish \in Months /\ d.targets \in DraftTargets
          /\ d.total \in {Blank} \cup Nat
      BY DEF ProductPlanDrafts
    <2>2. \/ \E s \in Months, t \in DraftTargets : x = [d EXCEPT !.start = s, !.targets = t]
          \/ \E f \in Months, t \in DraftTargets : x = [d EXCEPT !.finish = f, !.targets = t]
          \/ \E t \in DraftTargets : x = [d EXCEPT !.targets = t]
          \/ \E n \in {Blank} \cup Nat : x = [d EXCEPT !.total = n]
      BY <1>1, <2>1, PeriodFits DEF ProductPlanTyped
    <2> QED BY <2>2 DEF ProductPlanDrafts
  <1> QED BY <1>1, ProductPlanDraftFits, ProductPlanIs DEF DraftsStay, OnRow, Opens

LEMMA ProductPlanWrites ==
  ASSUME NEW d \in ProductPlanDrafts, TargetsFit(d.targets), NEW r, NEW s \in ProductPlanRow,
         NEW w, w = ProductPlanWrite(ProductPlanBody(d, r), s)
  PROVE  /\ w \in ProductPlanRow
         /\ w = [start |-> d.start, finish |-> d.finish, targets |-> Stored(d.targets),
                 monthly |-> s.monthly, saved |-> TRUE]
  <1>1. w = [start |-> w.start, finish |-> w.finish, targets |-> w.targets,
             monthly |-> w.monthly, saved |-> w.saved]
    BY DEF ProductPlanWrite, ProductPlanRow
  <1>2. /\ w.start = d.start /\ w.finish = d.finish /\ w.targets = Stored(d.targets)
        /\ w.monthly = s.monthly /\ w.saved = TRUE
    BY DEF ProductPlanWrite, ProductPlanBody, ProductPlanRow
  <1>3. /\ d.start \in Months /\ d.finish \in Months /\ s.monthly \in Nat
        /\ Stored(d.targets) \in [Months -> {None} \cup Nat]
    BY TargetsStored DEF ProductPlanDrafts, ProductPlanRow
  <1>4. w = [start |-> d.start, finish |-> d.finish, targets |-> Stored(d.targets),
             monthly |-> s.monthly, saved |-> TRUE]
    BY <1>1, <1>2
  <1> QED BY <1>3, <1>4 DEF ProductPlanRow

LEMMA ProductPlanTaken ==
  \A d, r, s : AnnualItemAccepts(ProductPlanBody(d, r), s) <=> TargetsFit(d.targets)
  BY DEF AnnualItemAccepts, ProductPlanBody

LEMMA ProductPlanRequestsFit == RequestsFit("productPlan")
  BY ProductPlanTaken, ProductPlanWrites, ProductPlanIs DEF RequestsFit, OnRow, Opens

LEMMA ProductPlanAnswers == Answers("productPlan")
  <1>1. ASSUME NEW d \in ProductPlanDrafts, NEW t, NEW r, OnRow("productPlan", t, r),
               ~TargetsFit(d.targets)
        PROVE  Unsuited("productPlan", d, Original("productPlan", t, r))
    <2>1. Original("productPlan", t, r).targets \in [Months -> {None} \cup Nat]
      BY <1>1, ProductPlanDraftFits, ProductPlanIs DEF Original, OnRow, Opens
    <2>2. d.targets \in DraftTargets /\ "targets" \in DOMAIN d
      BY DEF ProductPlanDrafts
    <2> QED BY <1>1, <2>1, <2>2, TargetsStored DEF Unsuited
  <1>2. ASSUME NEW r \in ProductPlanRow, r.saved,
               TargetsFit(ProductPlanDraft(r).targets)
        PROVE  ProductPlanWrite(ProductPlanBody(ProductPlanDraft(r), r), r) = r
    <2>1. PICK d : d = ProductPlanDraft(r)
      OBVIOUS
    <2>2. /\ d \in ProductPlanDrafts /\ d.start = r.start /\ d.finish = r.finish
          /\ d.targets = r.targets
      BY <1>2, <2>1, ProductPlanDraftFits DEF ProductPlanDraft
    <2>3. ProductPlanWrite(ProductPlanBody(d, r), r)
            = [start |-> d.start, finish |-> d.finish, targets |-> Stored(d.targets),
               monthly |-> r.monthly, saved |-> TRUE]
      BY <1>2, <2>1, <2>2, ProductPlanWrites
    <2>4. Stored(r.targets) = r.targets /\ r.saved = TRUE
      BY <1>2, TargetsStored DEF ProductPlanRow
    <2>5. r = [start |-> r.start, finish |-> r.finish, targets |-> r.targets,
               monthly |-> r.monthly, saved |-> r.saved]
      BY DEF ProductPlanRow
    <2> QED BY <2>1, <2>2, <2>3, <2>4, <2>5
  <1>3. ASSUME NEW d \in ProductPlanDrafts, TargetsFit(d.targets), NEW r \in ProductPlanRow,
               NEW w, w = ProductPlanWrite(ProductPlanBody(d, r), r)
        PROVE  ProductPlanDraft(w) = ProductPlanSettled(d, r)
    <2>1. w = [start |-> d.start, finish |-> d.finish, targets |-> Stored(d.targets),
               monthly |-> r.monthly, saved |-> TRUE]
      BY <1>3, ProductPlanWrites
    <2>2. ProductPlanDraft(w) = [start |-> d.start, finish |-> d.finish,
                                 targets |-> Stored(d.targets),
                                 total |-> TotalOf(Stored(d.targets))]
      BY <2>1 DEF ProductPlanDraft
    <2>3. PICK z : z = ProductPlanSettled(d, r)
      OBVIOUS
    <2>4. z = [start |-> z.start, finish |-> z.finish, targets |-> z.targets,
               total |-> z.total]
      BY <2>3 DEF ProductPlanSettled, ProductPlanDrafts
    <2>5. /\ z.start = d.start /\ z.finish = d.finish /\ z.targets = Stored(d.targets)
          /\ z.total = TotalOf(Stored(d.targets))
      BY <2>3 DEF ProductPlanSettled, ProductPlanDrafts
    <2> QED BY <2>2, <2>3, <2>4, <2>5
  <1> QED BY <1>1, <1>2, <1>3, ProductPlanTaken, ProductPlanIs DEF Answers, OnRow, Opens

-----------------------------------------------------------------------------
(* Goals. *)

LEMMA PartsCounted ==
  /\ \A p \in SUBSET Members : Cardinality(p) \in Nat
  /\ Cardinality(Members) = 2
  <1> DEFINE one == {"me"}
  <1>1. Cardinality(one) = 1 /\ IsFiniteSet(one)
    BY FS_Singleton
  <1>2. "you" \notin one /\ Members = one \cup {"you"}
    BY DEF Members
  <1> HIDE DEF one
  <1>3. IsFiniteSet(Members) /\ Cardinality(Members) = 2
    BY <1>1, <1>2, FS_AddElement
  <1> QED BY <1>3, FS_Subset, FS_CardinalityType

\* A row of a goal is its fields.
LEMMA GoalRowMade ==
  ASSUME NEW z,
         z = [kind |-> z.kind, name |-> z.name, priority |-> z.priority, about |-> z.about,
              age |-> z.age, date |-> z.date, since |-> z.since, required |-> z.required,
              monthly |-> z.monthly, rate |-> z.rate, manual |-> z.manual,
              products |-> z.products, targets |-> z.targets, achieved |-> z.achieved,
              parts |-> z.parts, exclude |-> z.exclude, done |-> z.done,
              balance |-> z.balance, taken |-> z.taken],
         z.kind \in GoalKinds, z.name \in Names, z.priority \in Nat, z.about \in {None, "n"},
         z.age \in {None, 40}, z.date \in {None} \cup Months, z.since \in {None} \cup Months,
         z.required \in Nat, z.monthly \in Nat, z.rate \in {None} \cup Nat, z.manual \in Nat,
         z.products \in SUBSET {"p"}, z.targets \in [Months -> {None} \cup Nat],
         z.achieved \in [Months -> Nat], z.parts \in SUBSET Members, z.exclude \in BOOLEAN,
         z.done \in BOOLEAN, z.balance \in Int, z.taken \in BOOLEAN
  PROVE  z \in GoalRow
  BY DEF GoalRow

LEMMA ByHandFits ==
  /\ ByHand \in GoalRow /\ GoalFits(ByHand)
  /\ ByHand.targets = NoTargets /\ ByHand.achieved = [m \in Months |-> 0]
  /\ ByHand.kind = "goal" /\ ~ByHand.taken
  <1>1. NoTargets \in [Months -> {None} \cup Nat] /\ [m \in Months |-> 0] \in [Months -> Nat]
    BY DEF NoTargets
  <1>2. ByHand \in GoalRow
    BY <1>1 DEF ByHand, GoalRow, GoalKinds, Names
  <1>3. GoalFits(ByHand)
    BY <1>1 DEF ByHand, GoalFits, Derives
  <1> QED BY <1>2, <1>3 DEF ByHand

LEMMA FedFits == Fed \in GoalRow /\ GoalFits(Fed)
  <1>1. PICK z : z = Fed
    OBVIOUS
  <1>2. z \in GoalRow
    <2>1. {"p"} \in SUBSET {"p"} /\ -1 \in Int /\ 5 \in Nat
      OBVIOUS
    <2> QED BY <1>1, <2>1, ByHandFits DEF Fed, GoalRow
  <1>3. /\ z.kind = "goal" /\ z.parts = {} /\ ~z.exclude /\ ~z.taken /\ z.about = None
        /\ z.since = None /\ z.achieved = [m \in Months |-> 0]
    BY <1>1 DEF Fed, ByHand
  <1>4. GoalFits(z)
    BY <1>3 DEF GoalFits, Derives
  <1> QED BY <1>1, <1>2, <1>4

LEMMA PlannedFits == Planned \in GoalRow /\ GoalFits(Planned)
  <1>1. PICK z : z = Planned
    OBVIOUS
  <1>2. /\ <<3, 3, 3>> \in [Months -> {None} \cup Nat] /\ <<2, 1, 0>> \in [Months -> Nat]
        /\ 3 \in Months
    BY DEF Months
  <1>3. z \in GoalRow
    BY <1>1, <1>2, ByHandFits DEF Planned, GoalRow
  <1>4. /\ z.kind = "goal" /\ z.parts = {} /\ ~z.exclude /\ ~z.taken /\ z.about = None
        /\ z.since = None /\ z.targets = <<3, 3, 3>>
    BY <1>1 DEF Planned, ByHand
  <1>5. \A m \in Months : z.targets[m] # None
    BY <1>4 DEF Months
  <1>6. GoalFits(z)
    BY <1>4, <1>5 DEF GoalFits, Derives
  <1> QED BY <1>1, <1>3, <1>6

LEMMA ChallengeFits == Challenge \in GoalRow /\ ProgressFits(Challenge)
  <1>1. PICK z : z = Challenge
    OBVIOUS
  <1>2. 3 \in Months /\ 1 \in Months /\ "challenge" \in GoalKinds
    BY DEF Months, GoalKinds
  <1>3. z \in GoalRow
    BY <1>1, <1>2, ByHandFits DEF Challenge, GoalRow
  <1>4. /\ z.kind = "challenge" /\ z.parts = {} /\ ~z.exclude /\ ~z.taken
        /\ z.since = 1 /\ z.rate = None /\ z.age = None /\ z.monthly = 0
        /\ z.products = {} /\ z.required = 2 /\ z.manual = 1
    BY <1>1 DEF Challenge, ByHand
  <1>5. z.targets = NoTargets /\ z.achieved = [m \in Months |-> 0]
    BY <1>1 DEF Challenge, ByHand
  <1>6. GoalFits(z)
    BY <1>4, <1>5 DEF GoalFits, Derives
  <1> QED BY <1>1, <1>3, <1>4, <1>5, <1>6 DEF ProgressFits

LEMMA NetWorthFits == NetWorth \in GoalRow /\ GoalFits(NetWorth)
  <1>1. PICK z : z = NetWorth
    OBVIOUS
  <1>2. z = [kind |-> "net_worth", name |-> "n", priority |-> 2, about |-> None, age |-> None,
             date |-> None, since |-> None, required |-> 9, monthly |-> 0, rate |-> None,
             manual |-> 0, products |-> {}, targets |-> NoTargets,
             achieved |-> [m \in Months |-> 0], parts |-> {}, exclude |-> TRUE,
             done |-> FALSE, balance |-> 4, taken |-> FALSE]
    BY <1>1 DEF NetWorth, ByHand
  <1>3. NoTargets \in [Months -> {None} \cup Nat] /\ [m \in Months |-> 0] \in [Months -> Nat]
    BY DEF NoTargets
  <1>4. z \in GoalRow
    BY <1>2, <1>3 DEF GoalRow, GoalKinds, Names
  <1>5. GoalFits(z)
    BY <1>2 DEF GoalFits, Derives
  <1> QED BY <1>1, <1>4, <1>5

LEMMA CombinedFits == Combined \in GoalRow /\ GoalFits(Combined)
  <1>1. PICK z : z = Combined
    OBVIOUS
  <1>2. z = [kind |-> "combined", name |-> "n", priority |-> 2, about |-> None, age |-> None,
             date |-> None, since |-> None, required |-> 4, monthly |-> 0, rate |-> None,
             manual |-> 0, products |-> {}, targets |-> NoTargets,
             achieved |-> [m \in Months |-> 0], parts |-> Members, exclude |-> FALSE,
             done |-> FALSE, balance |-> 4, taken |-> FALSE]
    BY <1>1 DEF Combined, NetWorth, ByHand, Members
  <1>3. NoTargets \in [Months -> {None} \cup Nat] /\ [m \in Months |-> 0] \in [Months -> Nat]
    BY DEF NoTargets
  <1>4. z \in GoalRow
    BY <1>2, <1>3 DEF GoalRow, GoalKinds, Names
  <1>5. z.required = 2 * Cardinality(z.parts)
    BY <1>2, PartsCounted
  <1>6. GoalFits(z)
    BY <1>2, <1>5 DEF GoalFits, Derives
  <1> QED BY <1>1, <1>4, <1>6

LEMMA GoalRowsStay == RowsStay("goal")
  <1>1. ASSUME NEW r \in GoalRows
        PROVE  r \in GoalRow /\ GoalFits(r)
    BY ByHandFits, FedFits, PlannedFits, ChallengeFits, NetWorthFits, CombinedFits
       DEF GoalRows, ProgressFits
  <1>2. ASSUME NEW r \in GoalRow, GoalFits(r), NEW x \in GoalElsewhere(r)
        PROVE  x \in GoalRow /\ GoalFits(x) /\ x.kind = r.kind
    <2>1. CASE \E m \in Months : r.targets[m] # None /\ x = [r EXCEPT !.achieved[m] = 3]
      <3>1. PICK m \in Months : r.targets[m] # None /\ x = [r EXCEPT !.achieved[m] = 3]
        BY <2>1
      <3>2. [r.achieved EXCEPT ![m] = 3] \in [Months -> Nat]
        BY DEF GoalRow
      <3>3. x = [r EXCEPT !.achieved = [r.achieved EXCEPT ![m] = 3]]
        BY <3>1
      <3>4. x \in GoalRow
        BY <3>2, <3>3 DEF GoalRow
      <3>5. \A k \in Months : k # m => x.achieved[k] = r.achieved[k]
        BY <3>3 DEF GoalRow
      <3> QED BY <1>2, <3>1, <3>3, <3>4, <3>5 DEF GoalFits, GoalRow
    <2>2. CASE x = [r EXCEPT !.balance = @ + 1]
      <3>1. r.balance + 1 \in Int
        BY DEF GoalRow
      <3>2. x \in GoalRow
        BY <2>2, <3>1 DEF GoalRow
      <3>3. /\ x.kind = r.kind /\ x.since = r.since /\ x.rate = r.rate /\ x.about = r.about
            /\ x.age = r.age /\ x.monthly = r.monthly /\ x.products = r.products
            /\ x.targets = r.targets /\ x.manual = r.manual /\ x.parts = r.parts
            /\ x.required = r.required /\ x.exclude = r.exclude /\ x.taken = r.taken
            /\ x.achieved = r.achieved /\ x.done = r.done
        BY <2>2 DEF GoalRow
      <3>4. GoalFits(x)
        BY <1>2, <3>3 DEF GoalFits
      <3> QED BY <3>2, <3>3, <3>4
    <2>3. CASE r.products = {} /\ x = [r EXCEPT !.taken = TRUE]
      <3>1. x \in GoalRow
        BY <2>3 DEF GoalRow
      <3>2. /\ x.kind = r.kind /\ x.since = r.since /\ x.rate = r.rate /\ x.about = r.about
            /\ x.age = r.age /\ x.monthly = r.monthly /\ x.products = {}
            /\ x.targets = r.targets /\ x.manual = r.manual /\ x.parts = r.parts
            /\ x.required = r.required /\ x.exclude = r.exclude
            /\ x.achieved = r.achieved /\ x.done = r.done
        BY <2>3 DEF GoalRow
      <3>3. GoalFits(x)
        BY <1>2, <2>3, <3>2 DEF GoalFits
      <3> QED BY <3>1, <3>2, <3>3
    <2> QED BY <2>1, <2>2, <2>3 DEF GoalElsewhere
  <1> QED BY <1>1, <1>2, GoalIs DEF RowsStay

LEMMA ProgressFitsInt == \A r \in GoalRow : Progress(r) \in Int
  <1>1. ASSUME NEW t
        PROVE  SumOf(t) \in Int
    BY DEF SumOf
  <1> QED BY <1>1 DEF Progress, GoalRow

LEMMA GoalDraftFits ==
  ASSUME NEW r \in GoalRow, GoalFits(r), r # None
  PROVE  GoalDraft(r) \in GoalDrafts(r) /\ KindsAgree(GoalDraft(r), r)
  <1>1. PICK d : d = GoalDraft(r)
    OBVIOUS
  <1> DEFINE since == IF r.since = None THEN Today ELSE r.since
  <1>2. d = [kind |-> r.kind, name |-> r.name, priority |-> r.priority,
             about |-> OrBlank(r.about), age |-> OrBlank(r.age), date |-> OrBlank(r.date),
             since |-> since, required |-> r.required, monthly |-> r.monthly,
             rate |-> OrBlank(r.rate), current |-> Progress(r), products |-> r.products,
             targets |-> r.targets, parts |-> r.parts, exclude |-> r.exclude]
    BY <1>1 DEF GoalDraft
  <1>3. /\ OrBlank(r.about) \in {Blank, "n"} /\ OrBlank(r.age) \in {Blank, 40}
        /\ OrBlank(r.date) \in {Blank} \cup Months /\ OrBlank(r.rate) \in {Blank} \cup Nat
    BY DEF GoalRow, OrBlank
  <1>4. since \in {Blank} \cup Months
    BY DEF GoalRow, Today, Months
  <1>5. r.targets \in DraftTargets
    BY TargetsStored DEF GoalRow
  <1>6. /\ r.name \in TypedNames /\ r.priority \in {Blank} \cup Nat /\ r.kind \in GoalKinds
        /\ r.required \in DraftAmounts /\ r.monthly \in DraftAmounts
        /\ r.products \in SUBSET {"p"} /\ r.parts \in SUBSET Members /\ r.exclude \in BOOLEAN
    BY DEF GoalRow, TypedNames, DraftAmounts
  <1> HIDE DEF since
  <1>7. d \in GoalDrafts(r)
    BY <1>2, <1>3, <1>4, <1>5, <1>6 DEF GoalDrafts
  <1>8. KindsAgree(d, r)
    BY <1>2 DEF KindsAgree, GoalFits, OrBlank, Free, GoalRow
  <1> QED BY <1>1, <1>7, <1>8

LEMMA EmptyFits ==
  ASSUME NEW k \in GoalKinds
  PROVE  EmptyOf(k) \in GoalDrafts(None) /\ KindsAgree(EmptyOf(k), None)
  <1>1. PICK d : d = EmptyOf(k)
    OBVIOUS
  <1>2. d = [kind |-> d.kind, name |-> d.name, priority |-> d.priority, about |-> d.about,
             age |-> d.age, date |-> d.date, since |-> d.since, required |-> d.required,
             monthly |-> d.monthly, rate |-> d.rate, current |-> d.current,
             products |-> d.products, targets |-> d.targets, parts |-> d.parts,
             exclude |-> d.exclude]
    BY <1>1 DEF EmptyOf, GoalEmpty
  <1>3. d.kind = k
    BY <1>1 DEF EmptyOf, GoalEmpty
  <1>4. d.name \in TypedNames /\ d.date \in {Blank} \cup Months
    BY <1>1 DEF EmptyOf, GoalEmpty, TypedNames, Names, Today, Months
  <1>5. d.since \in {Blank} \cup Months /\ d.parts \in SUBSET Members
    BY <1>1 DEF EmptyOf, GoalEmpty, Today, Months
  <1>6. k # "combined" => d.parts = {}
    BY <1>1 DEF EmptyOf, GoalEmpty
  <1>7. /\ d.priority = 1 /\ d.about = Blank /\ d.age = Blank /\ d.required = 0
        /\ d.monthly = 0 /\ d.rate = Blank /\ d.current = 0 /\ d.products = {}
        /\ d.targets = NoTargets /\ d.exclude = FALSE
    BY <1>1 DEF EmptyOf, GoalEmpty
  <1>8. NoTargets \in DraftTargets /\ 0 \in DraftAmounts
    BY DEF NoTargets, DraftTargets, DraftAmounts
  <1>9. d \in GoalDrafts(None)
    <2>1. /\ d.kind \in GoalKinds /\ d.priority \in {Blank} \cup Nat
          /\ d.about \in {Blank, "n"} /\ d.age \in {Blank, 40} /\ d.rate \in {Blank} \cup Nat
      BY <1>3, <1>7
    <2>2. /\ d.required \in DraftAmounts /\ d.monthly \in DraftAmounts
          /\ d.current \in DraftAmounts \cup {IF None = None THEN 0 ELSE Progress(None)}
      BY <1>7, <1>8
    <2>3. /\ d.products \in SUBSET {"p"} /\ d.targets \in DraftTargets
          /\ d.exclude \in BOOLEAN
      BY <1>7, <1>8
    <2> QED BY <1>2, <1>4, <1>5, <2>1, <2>2, <2>3 DEF GoalDrafts
  <1>10. KindsAgree(d, None)
    BY <1>3, <1>6, <1>7 DEF KindsAgree, Free
  <1> QED BY <1>1, <1>9, <1>10

LEMMA RoundedFits == \A a \in Nat, n \in Nat \ {0} : Rounded(a, n) \in Nat
  <1>1. ASSUME NEW b \in Nat, NEW k \in Nat \ {0}
        PROVE  b \div k \in Nat
    OBVIOUS
  <1>2. ASSUME NEW a \in Nat, NEW n \in Nat \ {0}
        PROVE  2 * a + n \in Nat /\ 2 * n \in Nat \ {0}
    OBVIOUS
  <1> QED BY <1>1, <1>2 DEF Rounded

\* The inputs of a draft that one event changes, each within what it can hold.
LEMMA GoalInputFits ==
  ASSUME NEW r, NEW d \in GoalDrafts(r), KindsAgree(d, r)
  PROVE  /\ \A v \in TypedNames : LET x == [d EXCEPT !.name = v]
                                  IN  x \in GoalDrafts(r) /\ KindsAgree(x, r)
         /\ \A v \in {Blank} \cup Nat : LET x == [d EXCEPT !.priority = v]
                                        IN  x \in GoalDrafts(r) /\ KindsAgree(x, r)
         /\ \A v \in DraftAmounts : LET x == [d EXCEPT !.required = v]
                                    IN  x \in GoalDrafts(r) /\ KindsAgree(x, r)
         /\ \A v \in {Blank} \cup Months : LET x == [d EXCEPT !.date = v]
                                           IN  x \in GoalDrafts(r) /\ KindsAgree(x, r)
         /\ \A v \in {Blank} \cup Months : LET x == [d EXCEPT !.since = v]
                                           IN  x \in GoalDrafts(r) /\ KindsAgree(x, r)
         /\ \A v \in DraftAmounts : LET x == [d EXCEPT !.current = v]
                                    IN  x \in GoalDrafts(r) /\ KindsAgree(x, r)
         /\ d.kind # "challenge" =>
                \A v \in {Blank} \cup Nat : LET x == [d EXCEPT !.rate = v]
                                            IN  x \in GoalDrafts(r) /\ KindsAgree(x, r)
         /\ d.kind # "challenge" =>
                \A v \in DraftAmounts : LET x == [d EXCEPT !.monthly = v]
                                        IN  x \in GoalDrafts(r) /\ KindsAgree(x, r)
  <1>1. ASSUME NEW v \in TypedNames
        PROVE  LET x == [d EXCEPT !.name = v] IN x \in GoalDrafts(r) /\ KindsAgree(x, r)
    BY DEF GoalDrafts, KindsAgree
  <1>2. ASSUME NEW v \in {Blank} \cup Nat
        PROVE  LET x == [d EXCEPT !.priority = v] IN x \in GoalDrafts(r) /\ KindsAgree(x, r)
    BY DEF GoalDrafts, KindsAgree
  <1>3. ASSUME NEW v \in DraftAmounts
        PROVE  LET x == [d EXCEPT !.required = v] IN x \in GoalDrafts(r) /\ KindsAgree(x, r)
    BY DEF GoalDrafts, KindsAgree
  <1>4. ASSUME NEW v \in {Blank} \cup Months
        PROVE  LET x == [d EXCEPT !.date = v] IN x \in GoalDrafts(r) /\ KindsAgree(x, r)
    BY DEF GoalDrafts, KindsAgree
  <1>5. ASSUME NEW v \in {Blank} \cup Months
        PROVE  LET x == [d EXCEPT !.since = v] IN x \in GoalDrafts(r) /\ KindsAgree(x, r)
    BY DEF GoalDrafts, KindsAgree
  <1>6. ASSUME NEW v \in DraftAmounts
        PROVE  LET x == [d EXCEPT !.current = v] IN x \in GoalDrafts(r) /\ KindsAgree(x, r)
    BY DEF GoalDrafts, KindsAgree
  <1>7. ASSUME d.kind # "challenge", NEW v \in {Blank} \cup Nat
        PROVE  LET x == [d EXCEPT !.rate = v] IN x \in GoalDrafts(r) /\ KindsAgree(x, r)
    BY <1>7 DEF GoalDrafts, KindsAgree
  <1>8. ASSUME d.kind # "challenge", NEW v \in DraftAmounts
        PROVE  LET x == [d EXCEPT !.monthly = v] IN x \in GoalDrafts(r) /\ KindsAgree(x, r)
    BY <1>8 DEF GoalDrafts, KindsAgree
  <1> QED BY <1>1, <1>2, <1>3, <1>4, <1>5, <1>6, <1>7, <1>8

LEMMA GrowlioFits ==
  ASSUME NEW r, NEW d \in GoalDrafts(r), KindsAgree(d, r), d.kind # "challenge",
         NEW x \in GrowlioFilled(d, r)
  PROVE  x \in GoalDrafts(r) /\ KindsAgree(x, r)
  <1> DEFINE name == IF d.name = Blank THEN "m" ELSE d.name
             products == IF d.kind = "goal" /\ Free(r) THEN {"p"} ELSE d.products
  <1>1. x = [d EXCEPT !.name = name, !.required = 8, !.monthly = 2, !.products = products,
                      !.rate = 5]
    BY DEF GrowlioFilled
  <1>2. name \in TypedNames /\ products \in SUBSET {"p"}
    BY DEF GoalDrafts, TypedNames, Names
  <1>3. (d.kind # "goal" \/ ~Free(r)) => products = {}
    BY DEF KindsAgree
  <1> HIDE DEF name, products
  <1>4. x = [kind |-> x.kind, name |-> x.name, priority |-> x.priority, about |-> x.about,
             age |-> x.age, date |-> x.date, since |-> x.since, required |-> x.required,
             monthly |-> x.monthly, rate |-> x.rate, current |-> x.current,
             products |-> x.products, targets |-> x.targets, parts |-> x.parts,
             exclude |-> x.exclude]
    BY <1>1 DEF GoalDrafts
  <1>5. /\ x.kind = d.kind /\ x.priority = d.priority /\ x.about = d.about /\ x.age = d.age
        /\ x.date = d.date /\ x.since = d.since /\ x.current = d.current
        /\ x.targets = d.targets /\ x.parts = d.parts /\ x.exclude = d.exclude
    BY <1>1 DEF GoalDrafts
  <1>6. /\ x.name = name /\ x.required = 8 /\ x.monthly = 2 /\ x.products = products
        /\ x.rate = 5
    BY <1>1 DEF GoalDrafts
  <1>7. 8 \in DraftAmounts /\ 2 \in DraftAmounts /\ 5 \in Nat
    BY DEF DraftAmounts
  <1> HIDE <1>1
  <1>8. x \in GoalDrafts(r)
    BY <1>2, <1>4, <1>5, <1>6, <1>7 DEF GoalDrafts
  <1>9. KindsAgree(x, r)
    BY <1>3, <1>5, <1>6 DEF KindsAgree
  <1> QED BY <1>8, <1>9

LEMMA EndFits ==
  ASSUME NEW r, NEW d \in GoalDrafts(r), KindsAgree(d, r), d.kind = "goal",
         NEW x \in EndChanged(d)
  PROVE  x \in GoalDrafts(r) /\ KindsAgree(x, r)
  <1>1. PICK v \in {Blank} \cup Months :
          x = [d EXCEPT !.date = v, !.targets = IF v = Blank THEN NoTargets
                                                ELSE SyncToPeriod(@, Today, v)]
    BY DEF EndChanged
  <1> DEFINE t == IF v = Blank THEN NoTargets ELSE SyncToPeriod(d.targets, Today, v)
  <1>2. t \in DraftTargets
    <2>1. d.targets \in DraftTargets /\ NoTargets \in DraftTargets
      BY DEF GoalDrafts, NoTargets, DraftTargets
    <2> QED BY <2>1, SyncFits
  <1>3. x = [d EXCEPT !.date = v, !.targets = t]
    BY <1>1
  <1> HIDE DEF t
  <1> QED BY <1>2, <1>3 DEF GoalDrafts, KindsAgree

LEMMA SavingFits ==
  ASSUME NEW r, r # None => r \in GoalRow, NEW d \in GoalDrafts(r), KindsAgree(d, r),
         d.kind = "goal", NEW x \in SavingTyped(d, r)
  PROVE  x \in GoalDrafts(r) /\ KindsAgree(x, r)
  <1>1. CASE d.date # Blank
             /\ x \in Put(d, "targets", GridTyped(d.targets, Today, d.date, Missing(d, r)))
    <2>1. Missing(d, r) \in Nat
      <3> DEFINE progress == IF r # None /\ d.products # {} THEN Progress(r) ELSE d.current
                 have == IF progress \in Int THEN progress ELSE 0
      <3>1. have \in Int
        OBVIOUS
      <3>2. Missing(d, r) = IF d.required \in Nat /\ d.required > have
                            THEN d.required - have ELSE 0
        BY DEF Missing
      <3> HIDE DEF have
      <3> QED BY <3>1, <3>2
    <2>2. PICK t \in GridTyped(d.targets, Today, d.date, Missing(d, r)) :
            x = [d EXCEPT !.targets = t]
      BY <1>1 DEF Put
    <2>3. d.targets \in DraftTargets /\ d.date \in Months /\ Today \in Months
      BY <1>1 DEF GoalDrafts, Today, Months
    <2>4. t \in DraftTargets
      BY <2>1, <2>2, <2>3, GridFits
    <2> QED BY <2>2, <2>4 DEF GoalDrafts, KindsAgree
  <1>2. CASE x \in Suggestion(d)
    <2> DEFINE missing == Won(d.required) - d.current
               n == IF d.date # Blank THEN d.date - Today
                    ELSE IF d.age # Blank THEN 12 ELSE 0
    <2>1. /\ ~(n <= 0) /\ d.required # TooBig /\ d.current \in Int
          /\ x = [d EXCEPT !.monthly = IF missing < 0 THEN 0 ELSE Rounded(missing, n)]
      BY <1>2 DEF Suggestion
    <2>2. n \in Nat \ {0}
      BY <2>1 DEF GoalDrafts, Today, Months
    <2>3. missing \in Int
      BY <2>1 DEF GoalDrafts, DraftAmounts, Won
    <2> HIDE DEF missing, n
    <2>4. (IF missing < 0 THEN 0 ELSE Rounded(missing, n)) \in Nat
      BY <2>2, <2>3, RoundedFits
    <2>5. (IF missing < 0 THEN 0 ELSE Rounded(missing, n)) \in DraftAmounts
      BY <2>4 DEF DraftAmounts
    <2> QED BY <2>1, <2>5, GoalInputFits
  <1>3. CASE x \in Put(d, "monthly", TypedAmounts)
    BY <1>3, GoalInputFits, TypedFits DEF Put, DraftAmounts
  <1>4. CASE x \in Put(d, "current", TypedAmounts)
    BY <1>4, GoalInputFits, TypedFits DEF Put, DraftAmounts
  <1>5. CASE x \in Put(d, "rate", {Blank, 5})
    BY <1>5, GoalInputFits DEF Put
  <1> QED BY <1>1, <1>2, <1>3, <1>4, <1>5 DEF SavingTyped

LEMMA GoalDraftsStay == DraftsStay("goal")
  <1>1. GoalEmpty \in GoalDrafts(None) /\ KindsAgree(GoalEmpty, None)
    <2>1. NoTargets \in DraftTargets
      BY DEF NoTargets, DraftTargets
    <2>2. GoalEmpty \in GoalDrafts(None)
      BY <2>1 DEF GoalEmpty, GoalDrafts, GoalKinds, TypedNames, DraftAmounts
    <2> QED BY <2>2 DEF GoalEmpty, KindsAgree, Free
  <1>0. 3 \in Months
    BY DEF Months
  <1>2. ASSUME NEW r, r # None => r \in GoalRow, NEW d \in GoalDrafts(r), KindsAgree(d, r),
               NEW x \in GoalTyped(d, r)
        PROVE  x \in GoalDrafts(r) /\ KindsAgree(x, r)
    <2>1. CASE r = None /\ x \in KindChosen(d)
      <3>1. PICK k \in GoalKinds :
              x = [EmptyOf(k) EXCEPT !.name = IF d.kind \in Derives \/ d.name = Blank THEN @
                                              ELSE d.name]
        BY <2>1 DEF KindChosen
      <3> DEFINE name == IF d.kind \in Derives \/ d.name = Blank THEN EmptyOf(k).name
                         ELSE d.name
      <3>2. x = [EmptyOf(k) EXCEPT !.name = name]
        BY <3>1
      <3>3. name \in TypedNames
        BY EmptyFits DEF GoalDrafts
      <3> HIDE DEF name
      <3> QED BY <2>1, <3>2, <3>3, EmptyFits, GoalInputFits
    <2>2. CASE d.kind = "goal" /\ x \in BasicsTyped(d, r)
      <3>1. CASE x \in GrowlioFilled(d, r)
        BY <1>2, <2>2, <3>1, GrowlioFits
      <3>2. CASE x \in EndChanged(d)
        BY <1>2, <2>2, <3>2, EndFits
      <3>3. CASE x \in Put(d, "age", {Blank, 40})
        BY <1>2, <2>2, <3>3 DEF Put, GoalDrafts, KindsAgree
      <3>4. CASE x \in Put(d, "name", TypedNames)
        BY <1>2, <3>4, GoalInputFits DEF Put
      <3>5. CASE x \in Put(d, "priority", {Blank, 3})
        BY <1>2, <3>5, GoalInputFits DEF Put
      <3>6. CASE x \in Put(d, "required", TypedAmounts)
        BY <1>2, <3>6, GoalInputFits, TypedFits DEF Put, DraftAmounts
      <3> QED BY <2>2, <3>1, <3>2, <3>3, <3>4, <3>5, <3>6 DEF BasicsTyped
    <2>3. CASE d.kind = "goal" /\ x \in SourcesTyped(d, r)
      <3>1. Free(r) /\ \E v \in {{}, {"p"}} : x = [d EXCEPT !.products = v]
        BY <2>3 DEF SourcesTyped, Put
      <3> QED BY <1>2, <2>3, <3>1 DEF GoalDrafts, KindsAgree
    <2>4. CASE d.kind = "goal" /\ x \in SavingTyped(d, r)
      BY <1>2, <2>4, SavingFits
    <2>5. CASE d.kind = "challenge" /\ x \in ChallengeTyped(d, r)
      <3>1. CASE x \in Put(d, "about", {Blank, "n"})
        BY <1>2, <2>5, <3>1 DEF Put, GoalDrafts, KindsAgree
      <3>2. CASE x \in Put(d, "name", TypedNames)
        BY <1>2, <3>2, GoalInputFits DEF Put
      <3>3. CASE x \in Put(d, "required", TypedAmounts) \cup Put(d, "current", TypedAmounts)
        BY <1>2, <3>3, GoalInputFits, TypedFits DEF Put, DraftAmounts
      <3>4. CASE x \in Put(d, "since", {Blank, 3})
        BY <1>0, <1>2, <3>4, GoalInputFits DEF Put
      <3>5. CASE x \in Put(d, "date", {Blank, 3})
        BY <1>0, <1>2, <3>5, GoalInputFits DEF Put
      <3> QED BY <2>5, <3>1, <3>2, <3>3, <3>4, <3>5 DEF ChallengeTyped
    <2>6. CASE d.kind = "net_worth" /\ x \in NetWorthTyped(d, r)
      <3>1. CASE x \in GrowlioFilled(d, r)
        BY <1>2, <2>6, <3>1, GrowlioFits
      <3>2. CASE x \in Put(d, "exclude", BOOLEAN)
        BY <1>2, <2>6, <3>2 DEF Put, GoalDrafts, KindsAgree
      <3>3. CASE x \in Put(d, "name", TypedNames)
        BY <1>2, <3>3, GoalInputFits DEF Put
      <3>4. CASE x \in Put(d, "required", TypedAmounts)
        BY <1>2, <3>4, GoalInputFits, TypedFits DEF Put, DraftAmounts
      <3>5. CASE x \in Put(d, "date", {Blank, 3})
        BY <1>0, <1>2, <3>5, GoalInputFits DEF Put
      <3>6. CASE x \in Put(d, "rate", {Blank, 5})
        BY <1>2, <2>6, <3>6, GoalInputFits DEF Put
      <3> QED BY <2>6, <3>1, <3>2, <3>3, <3>4, <3>5, <3>6 DEF NetWorthTyped
    <2>7. CASE d.kind = "combined" /\ x \in CombinedTyped(d)
      <3>1. CASE x \in Put(d, "parts", SUBSET Members)
        BY <1>2, <2>7, <3>1 DEF Put, GoalDrafts, KindsAgree
      <3>2. CASE x \in Put(d, "name", TypedNames)
        BY <1>2, <3>2, GoalInputFits DEF Put
      <3>3. CASE x \in Put(d, "date", {Blank, 3})
        BY <1>0, <1>2, <3>3, GoalInputFits DEF Put
      <3>4. CASE x \in Put(d, "rate", {Blank, 5})
        BY <1>2, <2>7, <3>4, GoalInputFits DEF Put
      <3> QED BY <2>7, <3>1, <3>2, <3>3, <3>4 DEF CombinedTyped
    <2>8. d.kind \in {"goal", "challenge", "net_worth", "combined"}
      BY DEF GoalDrafts, GoalKinds
    <2> QED BY <1>2, <2>1, <2>2, <2>3, <2>4, <2>5, <2>6, <2>7, <2>8 DEF GoalTyped
  <1> QED BY <1>1, <1>2, GoalDraftFits, GoalIs DEF DraftsStay, OnRow, Opens

\* Each kind sends its own inputs, the others are empty anyway.
LEMMA GoalSent ==
  ASSUME NEW r, NEW d \in GoalDrafts(r), KindsAgree(d, r), NEW b, b = GoalBody(d, r)
  PROVE  /\ b.kind = d.kind /\ b.name = d.name
         /\ b.priority = (IF d.priority = Blank THEN 1 ELSE d.priority)
         /\ b.about = OrNone(d.about) /\ b.age = OrNone(d.age) /\ b.date = OrNone(d.date)
         /\ b.since = (IF d.kind = "challenge" THEN d.since ELSE None)
         /\ b.required = d.required
         /\ b.monthly = (IF d.kind = "goal" THEN d.monthly ELSE 0)
         /\ b.rate = OrNone(d.rate)
         /\ b.current = (IF d.kind \in {"goal", "challenge"} THEN d.current ELSE 0)
         /\ b.products = d.products /\ b.targets = d.targets /\ b.parts = d.parts
         /\ b.exclude = d.exclude
  <1>1. /\ b.kind = d.kind /\ b.name = d.name /\ b.required = d.required
        /\ b.priority = (IF d.priority = Blank THEN 1 ELSE d.priority)
        /\ b.date = OrNone(d.date)
    BY DEF GoalBody, GoalDrafts
  <1>2. /\ b.about = (IF d.kind = "challenge" THEN OrNone(d.about) ELSE None)
        /\ b.age = (IF d.kind = "goal" THEN OrNone(d.age) ELSE None)
        /\ b.rate = (IF d.kind = "challenge" THEN None ELSE OrNone(d.rate))
    BY DEF GoalBody, GoalDrafts
  <1>3. /\ b.since = (IF d.kind = "challenge" THEN d.since ELSE None)
        /\ b.monthly = (IF d.kind = "goal" THEN d.monthly ELSE 0)
        /\ b.current = (IF d.kind \in {"goal", "challenge"} THEN d.current ELSE 0)
    BY DEF GoalBody, GoalDrafts
  <1>4. /\ b.products = (IF d.kind = "goal" THEN d.products ELSE {})
        /\ b.targets = (IF d.kind = "goal" THEN d.targets ELSE NoTargets)
    BY DEF GoalBody, GoalDrafts
  <1>5. /\ b.parts = (IF d.kind = "combined" THEN d.parts ELSE {})
        /\ b.exclude = (IF d.kind = "net_worth" THEN d.exclude ELSE FALSE)
    BY DEF GoalBody, GoalDrafts
  <1>6. /\ d.kind = "challenge" => d.rate = Blank
        /\ d.kind # "challenge" => d.about = Blank
        /\ d.kind # "goal" => d.age = Blank /\ d.products = {} /\ d.targets = NoTargets
        /\ d.kind # "combined" => d.parts = {}
        /\ d.kind # "net_worth" => d.exclude = FALSE
    BY DEF KindsAgree, GoalDrafts
  <1>7. OrNone(Blank) = None
    BY DEF OrNone
  <1> QED BY <1>1, <1>2, <1>3, <1>4, <1>5, <1>6, <1>7

\* What the server keeps of a draft, in the place of row s.
GoalStands(w, d, s) ==
    /\ w.kind = d.kind /\ w.name = d.name
    /\ w.priority = (IF d.priority = Blank THEN 1 ELSE d.priority)
    /\ w.about = OrNone(d.about) /\ w.age = OrNone(d.age) /\ w.date = OrNone(d.date)
    /\ w.since = (IF d.kind = "challenge" THEN d.since ELSE None)
    /\ w.required = (IF d.kind = "combined" THEN 2 * Cardinality(d.parts)
                     ELSE Won(d.required))
    /\ w.monthly = (IF d.kind = "goal" THEN Won(d.monthly) ELSE 0)
    /\ w.rate = OrNone(d.rate)
    /\ w.manual = (IF d.kind \in {"goal", "challenge"} THEN Won(d.current) ELSE 0)
    /\ w.products = d.products /\ w.targets = Stored(d.targets)
    /\ w.achieved = Kept(d.targets, s) /\ w.parts = d.parts /\ w.exclude = d.exclude
    /\ s = None => w.balance = 4 /\ w.taken = FALSE
    /\ s # None => w.balance = s.balance /\ w.taken = s.taken
    /\ w.done <=> \/ s # None /\ s.done
                  \/ d.kind = "challenge" /\ w.required > 0 /\ w.manual >= w.required

LEMMA GoalKept ==
  ASSUME NEW r, NEW d \in GoalDrafts(r), KindsAgree(d, r), GoalReady(d),
         NEW s, GoalAccepts(GoalBody(d, r), s),
         s # None => s \in GoalRow /\ GoalFits(s) /\ s.kind = d.kind,
         NEW w, w = GoalWrite(GoalBody(d, r), s)
  PROVE  /\ w \in GoalRow /\ GoalFits(w)
         /\ GoalStands(w, d, s)
  <1>1. PICK b : b = GoalBody(d, r)
    OBVIOUS
  <1>2. /\ b.kind = d.kind /\ b.name = d.name
        /\ b.priority = (IF d.priority = Blank THEN 1 ELSE d.priority)
        /\ b.about = OrNone(d.about) /\ b.age = OrNone(d.age) /\ b.date = OrNone(d.date)
        /\ b.since = (IF d.kind = "challenge" THEN d.since ELSE None)
        /\ b.required = d.required
        /\ b.monthly = (IF d.kind = "goal" THEN d.monthly ELSE 0)
        /\ b.rate = OrNone(d.rate)
        /\ b.current = (IF d.kind \in {"goal", "challenge"} THEN d.current ELSE 0)
        /\ b.products = d.products /\ b.targets = d.targets /\ b.parts = d.parts
        /\ b.exclude = d.exclude
    BY <1>1, GoalSent
  <1>3. /\ AmountFits(d.required) /\ AmountFits(b.monthly) /\ AmountFits(b.current)
        /\ TargetsFit(d.targets) /\ b.since # Blank /\ ("p" \in d.products => Free(s))
    BY <1>1, <1>2 DEF GoalAccepts
  <1>4. Won(0) = 0
    BY DEF Won
  <1>5. w = [kind |-> w.kind, name |-> w.name, priority |-> w.priority, about |-> w.about,
             age |-> w.age, date |-> w.date, since |-> w.since, required |-> w.required,
             monthly |-> w.monthly, rate |-> w.rate, manual |-> w.manual,
             products |-> w.products, targets |-> w.targets, achieved |-> w.achieved,
             parts |-> w.parts, exclude |-> w.exclude, done |-> w.done,
             balance |-> w.balance, taken |-> w.taken]
    BY DEF GoalWrite
  <1>6. /\ w.kind = d.kind /\ w.name = d.name /\ w.priority = b.priority
        /\ w.about = OrNone(d.about) /\ w.age = OrNone(d.age) /\ w.date = OrNone(d.date)
        /\ w.since = b.since /\ w.monthly = Won(b.monthly) /\ w.rate = OrNone(d.rate)
        /\ w.manual = Won(b.current)
    BY <1>1, <1>2 DEF GoalWrite
  <1>7. /\ w.products = d.products /\ w.targets = Stored(d.targets)
        /\ w.achieved = Kept(d.targets, s) /\ w.parts = d.parts /\ w.exclude = d.exclude
        /\ w.balance = (IF s = None THEN 4 ELSE s.balance)
        /\ w.taken = (IF s = None THEN FALSE ELSE s.taken)
    BY <1>1, <1>2 DEF GoalWrite
  <1>8. w.required = (IF d.kind = "combined" THEN 2 * Cardinality(d.parts)
                      ELSE Won(d.required))
    BY <1>1, <1>2 DEF GoalWrite
  <1>9. w.done = ((s # None /\ s.done)
                  \/ (d.kind = "challenge" /\ w.required > 0 /\ w.manual >= w.required))
    <2>1. w.done = ((s # None /\ s.done)
                    \/ (w.kind = "challenge" /\ w.required > 0 /\ Won(b.current) >= w.required))
      BY <1>1 DEF GoalWrite
    <2> QED BY <1>6, <2>1
  <1>10. /\ w.monthly = (IF d.kind = "goal" THEN Won(d.monthly) ELSE 0)
         /\ w.manual = (IF d.kind \in {"goal", "challenge"} THEN Won(d.current) ELSE 0)
    BY <1>2, <1>4, <1>6
  <1>11. /\ d.kind \in GoalKinds /\ d.name \in Names /\ b.priority \in Nat
         /\ OrNone(d.about) \in {None, "n"} /\ OrNone(d.age) \in {None, 40}
         /\ OrNone(d.date) \in {None} \cup Months /\ OrNone(d.rate) \in {None} \cup Nat
         /\ d.products \in SUBSET {"p"} /\ d.parts \in SUBSET Members
         /\ d.exclude \in BOOLEAN
    BY <1>2 DEF GoalDrafts, GoalReady, TypedNames, OrNone
  <1>12. b.since \in {None} \cup Months /\ (d.kind = "challenge" => b.since # None)
    BY <1>2, <1>3 DEF GoalDrafts, Months
  <1>13. Won(b.monthly) \in Nat /\ Won(b.current) \in Nat /\ w.required \in Nat
    <2>1. Cardinality(d.parts) \in Nat
      BY <1>11, PartsCounted
    <2> QED BY <1>3, <1>8, <2>1, AmountFacts
  <1>14. Stored(d.targets) \in [Months -> {None} \cup Nat]
    BY <1>3, TargetsStored DEF GoalDrafts
  <1>15. /\ Kept(d.targets, s) \in [Months -> Nat]
         /\ \A m \in Months : d.targets[m] = None => Kept(d.targets, s)[m] = 0
    <2>1. s # None => s.achieved \in [Months -> Nat]
      BY DEF GoalRow
    <2> QED BY <2>1 DEF Kept
  <1>16. \A m \in Months : Stored(d.targets)[m] = None => d.targets[m] = None
    BY DEF Stored, Won
  <1>17. /\ (IF s = None THEN 4 ELSE s.balance) \in Int
         /\ (IF s = None THEN FALSE ELSE s.taken) \in BOOLEAN
    <2>1. s # None => s.balance \in Int /\ s.taken \in BOOLEAN
      BY DEF GoalRow
    <2>2. CASE s = None
      BY <2>2
    <2>3. CASE s # None
      BY <2>1, <2>3
    <2> QED BY <2>2, <2>3
  <1>18. ((s # None /\ s.done)
            \/ (d.kind = "challenge" /\ w.required > 0 /\ w.manual >= w.required)) \in BOOLEAN
    OBVIOUS
  <1>19. w \in GoalRow
    <2>1. w.balance \in Int /\ w.taken \in BOOLEAN
      BY <1>7, <1>17
    <2>2. w.done \in BOOLEAN
      BY <1>9, <1>18
    <2>3. /\ w.kind \in GoalKinds /\ w.name \in Names /\ w.priority \in Nat
          /\ w.about \in {None, "n"} /\ w.age \in {None, 40}
          /\ w.date \in {None} \cup Months /\ w.since \in {None} \cup Months
          /\ w.required \in Nat /\ w.monthly \in Nat /\ w.rate \in {None} \cup Nat
          /\ w.manual \in Nat
      BY <1>6, <1>11, <1>12, <1>13
    <2>4. /\ w.products \in SUBSET {"p"} /\ w.targets \in [Months -> {None} \cup Nat]
          /\ w.achieved \in [Months -> Nat] /\ w.parts \in SUBSET Members
          /\ w.exclude \in BOOLEAN
      BY <1>7, <1>11, <1>14, <1>15
    <2> QED BY <1>5, <2>1, <2>2, <2>3, <2>4, GoalRowMade
  <1>20. /\ d.kind = "challenge" => d.rate = Blank
         /\ d.kind # "challenge" => d.about = Blank
         /\ d.kind # "goal" => d.age = Blank /\ d.products = {} /\ d.targets = NoTargets
         /\ d.kind # "combined" => d.parts = {}
         /\ d.kind # "net_worth" => ~d.exclude
    BY DEF KindsAgree
  <1>21. OrNone(Blank) = None
    BY DEF OrNone
  <1>22. d.targets = NoTargets => w.targets = NoTargets
    BY <1>7 DEF Stored, NoTargets, Won
  <1>23. w.taken => w.products = {}
    BY <1>3, <1>7, <1>11 DEF Free
  <1>24. /\ w.kind = "challenge" => w.since # None /\ w.rate = None
         /\ w.kind # "challenge" => w.about = None /\ w.since = None
         /\ w.kind # "goal" => w.age = None /\ w.monthly = 0 /\ w.products = {}
                               /\ w.targets = NoTargets
    BY <1>2, <1>6, <1>7, <1>10, <1>12, <1>20, <1>21, <1>22
  <1>25. /\ w.kind \in Derives => w.manual = 0
         /\ w.kind # "combined" => w.parts = {}
         /\ w.kind = "combined" => w.required = 2 * Cardinality(w.parts)
         /\ w.kind # "net_worth" => ~w.exclude
    BY <1>6, <1>7, <1>8, <1>10, <1>20 DEF Derives
  <1>26. \A m \in Months : w.targets[m] = None => w.achieved[m] = 0
    BY <1>7, <1>15, <1>16
  <1>27. w.kind = "challenge" /\ w.required > 0 /\ w.manual >= w.required => w.done
    BY <1>6, <1>9
  <1>28. GoalFits(w)
    BY <1>23, <1>24, <1>25, <1>26, <1>27 DEF GoalFits
  <1> QED BY <1>2, <1>6, <1>7, <1>8, <1>9, <1>10, <1>19, <1>28 DEF GoalStands

LEMMA GoalRequestsFit == RequestsFit("goal")
  <1>1. ASSUME NEW r, NEW d \in GoalDrafts(r), KindsAgree(d, r), GoalReady(d),
               NEW s, GoalAccepts(GoalBody(d, r), s),
               s # None => s \in GoalRow /\ GoalFits(s) /\ s.kind = d.kind
        PROVE  /\ GoalWrite(GoalBody(d, r), s) \in GoalRow
               /\ GoalFits(GoalWrite(GoalBody(d, r), s))
               /\ GoalWrite(GoalBody(d, r), s).kind = d.kind
    <2>1. PICK w : w = GoalWrite(GoalBody(d, r), s)
      OBVIOUS
    <2>2. w \in GoalRow /\ GoalFits(w) /\ GoalStands(w, d, s)
      BY <1>1, <2>1, GoalKept
    <2> QED BY <2>1, <2>2 DEF GoalStands
  <1>2. \A r, d : KindsAgree(d, r) /\ r # None => d.kind = r.kind
    BY DEF KindsAgree
  <1> QED BY <1>1, <1>2, GoalIs DEF RequestsFit, OnRow, Opens

\* The row that was opened is written back, if the amount typed by hand is the
\* one that was shown.
LEMMA GoalUntouched ==
  ASSUME NEW r \in GoalRow, GoalFits(r), r # None, Progress(r) = r.manual,
         GoalAccepts(GoalBody(GoalDraft(r), r), r), GoalReady(GoalDraft(r))
  PROVE  GoalWrite(GoalBody(GoalDraft(r), r), r) = r
  <1>1. PICK d : d = GoalDraft(r)
    OBVIOUS
  <1>2. d \in GoalDrafts(r) /\ KindsAgree(d, r)
    BY <1>1, GoalDraftFits
  <1>3. /\ d.kind = r.kind /\ d.name = r.name /\ d.priority = r.priority
        /\ d.about = OrBlank(r.about) /\ d.age = OrBlank(r.age) /\ d.date = OrBlank(r.date)
        /\ d.since = (IF r.since = None THEN Today ELSE r.since)
        /\ d.required = r.required /\ d.monthly = r.monthly /\ d.rate = OrBlank(r.rate)
        /\ d.current = r.manual /\ d.products = r.products /\ d.targets = r.targets
        /\ d.parts = r.parts /\ d.exclude = r.exclude
    BY <1>1 DEF GoalDraft
  <1>4. PICK w : w = GoalWrite(GoalBody(d, r), r)
    OBVIOUS
  <1>5. /\ w \in GoalRow
        /\ w.kind = d.kind /\ w.name = d.name
        /\ w.priority = (IF d.priority = Blank THEN 1 ELSE d.priority)
        /\ w.about = OrNone(d.about) /\ w.age = OrNone(d.age) /\ w.date = OrNone(d.date)
        /\ w.since = (IF d.kind = "challenge" THEN d.since ELSE None)
        /\ w.required = (IF d.kind = "combined" THEN 2 * Cardinality(d.parts)
                         ELSE Won(d.required))
        /\ w.monthly = (IF d.kind = "goal" THEN Won(d.monthly) ELSE 0)
        /\ w.rate = OrNone(d.rate)
        /\ w.manual = (IF d.kind \in {"goal", "challenge"} THEN Won(d.current) ELSE 0)
        /\ w.products = d.products /\ w.targets = Stored(d.targets)
        /\ w.achieved = Kept(d.targets, r) /\ w.parts = d.parts /\ w.exclude = d.exclude
        /\ w.balance = r.balance /\ w.taken = r.taken
        /\ w.done <=> \/ r.done
                      \/ d.kind = "challenge" /\ w.required > 0 /\ w.manual >= w.required
    <2>1. GoalAccepts(GoalBody(d, r), r) /\ GoalReady(d) /\ r.kind = d.kind
      BY <1>1, <1>3
    <2>2. w \in GoalRow /\ GoalStands(w, d, r)
      BY <1>2, <1>4, <2>1, GoalKept
    <2> QED BY <2>2 DEF GoalStands
  <1>6. /\ OrNone(OrBlank(r.about)) = r.about /\ OrNone(OrBlank(r.age)) = r.age
        /\ OrNone(OrBlank(r.date)) = r.date /\ OrNone(OrBlank(r.rate)) = r.rate
        /\ r.priority # Blank /\ Won(r.required) = r.required
        /\ Won(r.monthly) = r.monthly /\ Won(r.manual) = r.manual
    BY DEF GoalRow, OrNone, OrBlank, Won, Months
  <1>7. Stored(r.targets) = r.targets
    BY TargetsStored DEF GoalRow
  <1>8. Kept(r.targets, r) = r.achieved
    <2>1. r.achieved \in [Months -> Nat]
      BY DEF GoalRow
    <2>2. \A m \in Months : r.targets[m] = None => r.achieved[m] = 0
      BY DEF GoalFits
    <2> QED BY <2>1, <2>2 DEF Kept
  <1>9. /\ w.kind = r.kind /\ w.name = r.name /\ w.priority = r.priority
        /\ w.about = r.about /\ w.age = r.age /\ w.date = r.date /\ w.rate = r.rate
        /\ w.products = r.products /\ w.targets = r.targets /\ w.achieved = r.achieved
        /\ w.parts = r.parts /\ w.exclude = r.exclude /\ w.balance = r.balance
        /\ w.taken = r.taken
    BY <1>3, <1>5, <1>6, <1>7, <1>8
  <1>10. /\ w.since = r.since /\ w.required = r.required /\ w.monthly = r.monthly
    BY <1>3, <1>5, <1>6 DEF GoalFits
  <1>11. w.manual = r.manual
    <2>1. r.kind \in {"goal", "challenge"} \/ r.kind \in Derives
      BY DEF GoalRow, GoalKinds, Derives
    <2> QED BY <1>3, <1>5, <1>6, <2>1 DEF GoalFits
  <1>12. w.done = r.done
    <2>1. r.kind = "challenge" /\ r.required > 0 /\ r.manual >= r.required => r.done
      BY DEF GoalFits
    <2>2. w.done \in BOOLEAN /\ r.done \in BOOLEAN
      BY <1>5 DEF GoalRow
    <2> QED BY <1>3, <1>5, <1>10, <1>11, <2>1, <2>2
  <1>13. \A z \in GoalRow :
           z = [kind |-> z.kind, name |-> z.name, priority |-> z.priority, about |-> z.about,
                age |-> z.age, date |-> z.date, since |-> z.since, required |-> z.required,
                monthly |-> z.monthly, rate |-> z.rate, manual |-> z.manual,
                products |-> z.products, targets |-> z.targets, achieved |-> z.achieved,
                parts |-> z.parts, exclude |-> z.exclude, done |-> z.done,
                balance |-> z.balance, taken |-> z.taken]
    BY DEF GoalRow
  <1>14. /\ r = [kind |-> r.kind, name |-> r.name, priority |-> r.priority, about |-> r.about,
                 age |-> r.age, date |-> r.date, since |-> r.since, required |-> r.required,
                 monthly |-> r.monthly, rate |-> r.rate, manual |-> r.manual,
                 products |-> r.products, targets |-> r.targets, achieved |-> r.achieved,
                 parts |-> r.parts, exclude |-> r.exclude, done |-> r.done,
                 balance |-> r.balance, taken |-> r.taken]
         /\ w = [kind |-> w.kind, name |-> w.name, priority |-> w.priority, about |-> w.about,
                 age |-> w.age, date |-> w.date, since |-> w.since, required |-> w.required,
                 monthly |-> w.monthly, rate |-> w.rate, manual |-> w.manual,
                 products |-> w.products, targets |-> w.targets, achieved |-> w.achieved,
                 parts |-> w.parts, exclude |-> w.exclude, done |-> w.done,
                 balance |-> w.balance, taken |-> w.taken]
    BY <1>5, <1>13
  <1>15. w = r
    BY <1>9, <1>10, <1>11, <1>12, <1>14
  <1> QED BY <1>1, <1>4, <1>15

LEMMA GoalRefused ==
  ASSUME NEW r, r # None => r \in GoalRow, NEW d \in GoalDrafts(r), KindsAgree(d, r),
         ~GoalAccepts(GoalBody(d, r), r)
  PROVE  \/ d.required = TooBig
         \/ d.kind = "goal" /\ d.monthly = TooBig
         \/ d.current = TooBig
         \/ r # None /\ Progress(r) < 0
         \/ ~TargetsFit(d.targets)
         \/ d.kind = "challenge" /\ d.since = Blank
  <1>1. PICK b : b = GoalBody(d, r)
    OBVIOUS
  <1>2. /\ b.required = d.required
        /\ b.since = (IF d.kind = "challenge" THEN d.since ELSE None)
        /\ b.monthly = (IF d.kind = "goal" THEN d.monthly ELSE 0)
        /\ b.current = (IF d.kind \in {"goal", "challenge"} THEN d.current ELSE 0)
        /\ b.products = d.products /\ b.targets = d.targets
    BY <1>1, GoalSent
  <1>3. "p" \in d.products => Free(r)
    BY DEF KindsAgree
  <1>4. \/ ~AmountFits(d.required) \/ ~AmountFits(b.monthly) \/ ~AmountFits(b.current)
        \/ ~TargetsFit(d.targets) \/ b.since = Blank
    BY <1>1, <1>2, <1>3 DEF GoalAccepts
  <1>5. AmountFits(0)
    BY DEF AmountFits
  <1>6. ~AmountFits(d.required) => d.required = TooBig
    BY DEF GoalDrafts, DraftAmounts, AmountFits
  <1>7. ~AmountFits(b.monthly) => d.kind = "goal" /\ d.monthly = TooBig
    BY <1>2, <1>5 DEF GoalDrafts, DraftAmounts, AmountFits
  <1>8. ~AmountFits(b.current) => d.current = TooBig \/ (r # None /\ Progress(r) < 0)
    <2>1. d.current \in DraftAmounts \cup {IF r = None THEN 0 ELSE Progress(r)}
      BY DEF GoalDrafts
    <2>2. r # None => Progress(r) \in Int
      BY ProgressFitsInt
    <2> QED BY <1>2, <1>5, <2>1, <2>2 DEF DraftAmounts, AmountFits
  <1> QED BY <1>2, <1>4, <1>6, <1>7, <1>8

LEMMA GoalShown ==
  ASSUME NEW r, r # None => r \in GoalRow, NEW d \in GoalDrafts(r), KindsAgree(d, r),
         NEW w \in GoalRow, GoalStands(w, d, r)
  PROVE  GoalDraft(w) = GoalSettled(d, r)
  <1> DEFINE t == Stored(d.targets)
             current == IF d.kind \in Derives \/ d.products # {}
                        THEN IF r = None THEN 4 ELSE r.balance
                        ELSE IF HasPlan(d.targets) THEN SumOf(Kept(d.targets, r))
                        ELSE Won(d.current)
  <1>1. PICK y : y = GoalDraft(w)
    OBVIOUS
  <1>2. PICK z : z = GoalSettled(d, r)
    OBVIOUS
  <1>3. y = [kind |-> y.kind, name |-> y.name, priority |-> y.priority, about |-> y.about,
             age |-> y.age, date |-> y.date, since |-> y.since, required |-> y.required,
             monthly |-> y.monthly, rate |-> y.rate, current |-> y.current,
             products |-> y.products, targets |-> y.targets, parts |-> y.parts,
             exclude |-> y.exclude]
    BY <1>1 DEF GoalDraft
  <1>4. z = [kind |-> z.kind, name |-> z.name, priority |-> z.priority, about |-> z.about,
             age |-> z.age, date |-> z.date, since |-> z.since, required |-> z.required,
             monthly |-> z.monthly, rate |-> z.rate, current |-> z.current,
             products |-> z.products, targets |-> z.targets, parts |-> z.parts,
             exclude |-> z.exclude]
    BY <1>2 DEF GoalSettled, GoalDrafts
  <1>5. /\ z.kind = d.kind /\ z.name = d.name
        /\ z.priority = (IF d.priority = Blank THEN 1 ELSE d.priority)
        /\ z.about = d.about /\ z.age = d.age /\ z.date = d.date /\ z.rate = d.rate
    BY <1>2 DEF GoalSettled, GoalDrafts
  <1>6. /\ z.since = (IF d.kind = "challenge" THEN d.since ELSE Today)
        /\ z.required = (IF d.kind = "combined" THEN 2 * Cardinality(d.parts)
                         ELSE Won(d.required))
    BY <1>2 DEF GoalSettled, GoalDrafts
  <1>7. z.monthly = (IF d.kind \in Derives THEN 0 ELSE Won(d.monthly))
    BY <1>2 DEF GoalSettled, GoalDrafts
  <1>8. /\ z.products = d.products /\ z.targets = t /\ z.parts = d.parts
        /\ z.exclude = d.exclude
    BY <1>2 DEF GoalSettled, GoalDrafts
  <1>9. z.current = current
    BY <1>2 DEF GoalSettled, GoalDrafts
  <1>10. /\ y.kind = d.kind /\ y.name = d.name /\ y.priority = z.priority
         /\ y.about = OrBlank(OrNone(d.about)) /\ y.age = OrBlank(OrNone(d.age))
         /\ y.date = OrBlank(OrNone(d.date)) /\ y.rate = OrBlank(OrNone(d.rate))
         /\ y.required = z.required /\ y.products = d.products /\ y.targets = t
         /\ y.parts = d.parts /\ y.exclude = d.exclude
    BY <1>1, <1>5, <1>6 DEF GoalDraft, GoalStands
  <1>11. /\ OrBlank(OrNone(d.about)) = d.about /\ OrBlank(OrNone(d.age)) = d.age
         /\ OrBlank(OrNone(d.date)) = d.date /\ OrBlank(OrNone(d.rate)) = d.rate
    BY DEF GoalDrafts, OrBlank, OrNone, Months
  <1>12. y.since = z.since
    <2>1. w.since = (IF d.kind = "challenge" THEN d.since ELSE None)
      BY DEF GoalStands
    <2>2. y.since = (IF w.since = None THEN Today ELSE w.since)
      BY <1>1 DEF GoalDraft
    <2>3. d.since # None
      BY DEF GoalDrafts, Months
    <2> QED BY <1>6, <2>1, <2>2, <2>3
  <1>13. y.monthly = z.monthly
    <2>1. y.monthly = (IF d.kind = "goal" THEN Won(d.monthly) ELSE 0)
      BY <1>1 DEF GoalDraft, GoalStands
    <2>2. d.kind = "challenge" => Won(d.monthly) = 0
      BY DEF KindsAgree, Won
    <2>3. d.kind \in {"goal", "challenge"} \cup Derives /\ "goal" \notin Derives
          /\ "challenge" \notin Derives
      BY DEF GoalDrafts, GoalKinds, Derives
    <2> QED BY <1>7, <2>1, <2>2, <2>3
  <1>14. y.current = z.current
    <2>1. y.current = Progress(w)
      BY <1>1 DEF GoalDraft
    <2>2. w.kind = d.kind /\ w.products = d.products /\ w.targets = t
          /\ w.achieved = Kept(d.targets, r)
          /\ w.balance = (IF r = None THEN 4 ELSE r.balance)
      BY DEF GoalStands
    <2>3. HasPlan(t) <=> HasPlan(d.targets)
      BY DEF HasPlan, Stored, Won
    <2>4. w.manual = (IF d.kind \in {"goal", "challenge"} THEN Won(d.current) ELSE 0)
      BY DEF GoalStands
    <2>5. d.kind \in {"goal", "challenge"} \/ d.kind \in Derives
      BY DEF GoalDrafts, GoalKinds, Derives
    <2>6. Progress(w) = IF d.kind \in Derives \/ d.products # {} THEN w.balance
                        ELSE IF HasPlan(t) THEN SumOf(w.achieved) ELSE w.manual
      BY <2>2 DEF Progress
    <2> QED BY <1>9, <2>1, <2>2, <2>3, <2>4, <2>5, <2>6
  <1> HIDE DEF t, current
  <1> QED BY <1>1, <1>2, <1>3, <1>4, <1>5, <1>8, <1>10, <1>11, <1>12, <1>13, <1>14

LEMMA GoalAnswers == Answers("goal")
  <1>1. ASSUME NEW t, NEW r, NEW d \in GoalDrafts(r), KindsAgree(d, r), OnRow("goal", t, r),
               ~GoalAccepts(GoalBody(d, r), r)
        PROVE  Unsuited("goal", d, Original("goal", t, r)) \/ Gap("goal", d, r)
    <2>1. PICK o : o = Original("goal", t, r)
      OBVIOUS
    <2>2. r # None => r \in GoalRow
      BY <1>1, GoalIs DEF OnRow, Opens
    <2>3. /\ o.required # TooBig /\ o.monthly # TooBig /\ o.current # TooBig
          /\ o.targets \in [Months -> {None} \cup Nat]
      <3>1. CASE t = New
        <4>1. o = GoalEmpty
          BY <2>1, <3>1, GoalIs DEF Original
        <4> QED BY <4>1 DEF GoalEmpty, NoTargets
      <3>2. CASE t # New
        <4>1. r \in GoalRow /\ o = GoalDraft(r)
          BY <1>1, <2>1, <2>2, <3>2, GoalIs DEF Original, OnRow, Opens
        <4>2. Progress(r) # TooBig
          BY <4>1, ProgressFitsInt
        <4> QED BY <4>1, <4>2 DEF GoalDraft, GoalRow
      <3> QED BY <3>1, <3>2
    <2>4. DOMAIN d = {"kind", "name", "priority", "about", "age", "date", "since", "required",
                      "monthly", "rate", "current", "products", "targets", "parts",
                      "exclude"}
      BY DEF GoalDrafts
    <2>5. \/ d.required = TooBig
          \/ d.kind = "goal" /\ d.monthly = TooBig
          \/ d.current = TooBig
          \/ r # None /\ Progress(r) < 0
          \/ ~TargetsFit(d.targets)
          \/ d.kind = "challenge" /\ d.since = Blank
      BY <1>1, <2>2, GoalRefused
    <2>6. CASE d.required = TooBig
      BY <2>1, <2>3, <2>4, <2>6 DEF Unsuited, NoInput
    <2>7. CASE d.monthly = TooBig
      BY <2>1, <2>3, <2>4, <2>7 DEF Unsuited, NoInput
    <2>8. CASE d.current = TooBig
      BY <2>1, <2>3, <2>4, <2>8 DEF Unsuited, NoInput
    <2>9. CASE ~TargetsFit(d.targets)
      <3>1. d.targets # o.targets /\ \E m \in Months : d.targets[m] = TooBig
        BY <2>3, <2>9, TargetsStored DEF GoalDrafts
      <3> QED BY <2>1, <2>4, <3>1 DEF Unsuited
    <2> QED BY <2>5, <2>6, <2>7, <2>8, <2>9 DEF Gap
  <1>2. ASSUME NEW r, r # None => r \in GoalRow /\ GoalFits(r), NEW d \in GoalDrafts(r),
               KindsAgree(d, r), GoalReady(d), GoalAccepts(GoalBody(d, r), r),
               NEW w, w = GoalWrite(GoalBody(d, r), r)
        PROVE  GoalDraft(w) = GoalSettled(d, r)
    <2>1. r # None => r.kind = d.kind
      BY <1>2 DEF KindsAgree
    <2>2. w \in GoalRow /\ GoalStands(w, d, r)
      BY <1>2, <2>1, GoalKept
    <2> QED BY <1>2, <2>2, GoalShown
  <1> QED BY <1>1, <1>2, GoalUntouched, GoalIs DEF Answers, OnRow, Opens

-----------------------------------------------------------------------------
(* The amount on the card of a goal. *)

\* What the card sends: the goal as the cache has it, with the amount shown.
Carded(d, r) == [GoalDraft(r) EXCEPT !.current = ProgressShows(d, r).current]

LEMMA CardedFits ==
  ASSUME NEW r \in GoalRow, GoalFits(r), ProgressLists(r), r # None,
         NEW d \in ProgressDrafts,
         NEW g, g = Carded(d, r)
  PROVE  /\ g \in GoalDrafts(r) /\ KindsAgree(g, r) /\ GoalReady(g)
         /\ g.kind = r.kind /\ g.kind \in {"goal", "challenge"}
         /\ g.targets = r.targets /\ g.products = {} /\ g.parts = r.parts
         /\ g.required = r.required /\ g.monthly = r.monthly
         /\ g.since = (IF r.since = None THEN Today ELSE r.since)
         /\ g.current = (IF d.current = None THEN Progress(r) ELSE d.current)
         /\ ~HasPlan(r.targets) /\ Progress(r) = r.manual
  <1>1. PICK h : h = GoalDraft(r)
    OBVIOUS
  <1>2. h \in GoalDrafts(r) /\ KindsAgree(h, r)
    BY <1>1, GoalDraftFits
  <1>3. PICK v : v = (IF d.current = None THEN Progress(r) ELSE d.current)
    OBVIOUS
  <1>4. g = [h EXCEPT !.current = v]
    BY <1>1, <1>3 DEF Carded, ProgressShows
  <1>5. v \in DraftAmounts \cup {Progress(r)}
    BY <1>3 DEF ProgressDrafts, DraftAmounts
  <1>6. g \in GoalDrafts(r) /\ KindsAgree(g, r)
    BY <1>2, <1>4, <1>5 DEF GoalDrafts, KindsAgree
  <1>7. /\ g.kind = h.kind /\ g.name = h.name /\ g.targets = h.targets
        /\ g.products = h.products /\ g.parts = h.parts /\ g.required = h.required
        /\ g.monthly = h.monthly /\ g.since = h.since /\ g.current = v
    BY <1>2, <1>4 DEF GoalDrafts
  <1>8. /\ h.kind = r.kind /\ h.name = r.name /\ h.targets = r.targets
        /\ h.products = r.products /\ h.parts = r.parts /\ h.required = r.required
        /\ h.monthly = r.monthly
        /\ h.since = (IF r.since = None THEN Today ELSE r.since)
    BY <1>1 DEF GoalDraft
  <1>9. /\ r.products = {} /\ ~HasPlan(r.targets) /\ r.kind \in {"goal", "challenge"}
    BY DEF ProgressLists, ByTyping, GoalRow, GoalKinds, Derives
  <1>10. Progress(r) = r.manual
    BY <1>9 DEF Progress, Derives
  <1>11. GoalReady(g)
    BY <1>7, <1>8, <1>9 DEF GoalReady, GoalRow, Names
  <1> QED BY <1>3, <1>6, <1>7, <1>8, <1>9, <1>10, <1>11

LEMMA ProgressIsCarded ==
  /\ \A d, r : ProgressBody(d, r) = GoalBody(Carded(d, r), r)
  BY DEF ProgressBody, Carded

LEMMA ProgressRowsStay == RowsStay("progress")
  <1>1. ASSUME NEW r \in ProgressRows
        PROVE  r \in GoalRow /\ ProgressFits(r)
    <2>1. ByHand.kind # "challenge" /\ \A m \in Months : ByHand.achieved[m] = 0
      BY ByHandFits
    <2> QED BY <2>1, ByHandFits, ChallengeFits DEF ProgressRows, ProgressFits
  <1>2. ASSUME NEW r \in GoalRow, ProgressFits(r), NEW x \in ProgressElsewhere(r)
        PROVE  x \in GoalRow /\ ProgressFits(x) /\ x.kind = r.kind
    <2>1. CASE r.kind = "goal"
      <3>1. x = [r EXCEPT !.targets = <<None, 3, 3>>]
        BY <2>1 DEF ProgressElsewhere
      <3>2. <<None, 3, 3>> \in [Months -> {None} \cup Nat]
        BY DEF Months
      <3>3. x \in GoalRow
        BY <3>1, <3>2 DEF GoalRow
      <3>4. /\ x.kind = r.kind /\ x.since = r.since /\ x.rate = r.rate /\ x.about = r.about
            /\ x.age = r.age /\ x.monthly = r.monthly /\ x.products = r.products
            /\ x.manual = r.manual /\ x.parts = r.parts /\ x.required = r.required
            /\ x.achieved = r.achieved /\ x.done = r.done /\ x.taken = r.taken
        BY <3>1 DEF GoalRow
      <3>5. x.exclude <=> r.exclude
        BY <3>1 DEF GoalRow
      <3> QED BY <1>2, <2>1, <3>3, <3>4, <3>5 DEF ProgressFits, GoalFits, Derives
    <2>2. CASE r.kind # "goal"
      <3>1. x = [r EXCEPT !.required = 5] \/ r.kind = "combined"
        BY <2>2 DEF ProgressElsewhere
      <3>2. r.kind = "challenge"
        BY <1>2, <2>2 DEF ProgressFits
      <3> QED BY <3>2, <1>2, <2>2, <3>1 DEF ProgressFits, GoalFits, GoalRow
    <2> QED BY <2>1, <2>2
  <1> QED BY <1>1, <1>2, ProgressIs DEF RowsStay

LEMMA ProgressDraftsStay == DraftsStay("progress")
  <1>1. \A d \in ProgressDrafts : \A r : \A x \in ProgressTyped(d, r) : x \in ProgressDrafts
    BY TypedFits DEF ProgressTyped, Put, ProgressDrafts
  <1>2. [current |-> None] \in ProgressDrafts
    BY DEF ProgressDrafts
  <1> QED BY <1>1, <1>2, ProgressIs DEF DraftsStay

LEMMA ProgressRequestsFit == RequestsFit("progress")
  <1>1. ASSUME NEW r \in GoalRow, ProgressFits(r), ProgressLists(r), r # None,
               NEW d \in ProgressDrafts, NEW s \in GoalRow, ProgressFits(s), s # None,
               s.kind = r.kind, GoalAccepts(ProgressBody(d, r), s)
        PROVE  /\ GoalWrite(ProgressBody(d, r), s) \in GoalRow
               /\ ProgressFits(GoalWrite(ProgressBody(d, r), s))
               /\ GoalWrite(ProgressBody(d, r), s).kind = s.kind
    <2>1. PICK g : g = Carded(d, r)
      OBVIOUS
    <2>2. PICK w : w = GoalWrite(ProgressBody(d, r), s)
      OBVIOUS
    <2>3. GoalFits(r) /\ GoalFits(s)
      BY <1>1 DEF ProgressFits
    <2>4. /\ g \in GoalDrafts(r) /\ KindsAgree(g, r) /\ GoalReady(g)
          /\ g.kind = r.kind /\ g.targets = r.targets /\ g.required = r.required
          /\ ~HasPlan(r.targets)
      BY <1>1, <2>1, <2>3, CardedFits
    <2>5. w = GoalWrite(GoalBody(g, r), s) /\ GoalAccepts(GoalBody(g, r), s)
      BY <1>1, <2>1, <2>2, ProgressIsCarded
    <2>6. w \in GoalRow /\ GoalFits(w) /\ GoalStands(w, g, s)
      BY <1>1, <2>3, <2>4, <2>5, GoalKept
    <2>7. w.kind = r.kind /\ w.achieved = Kept(r.targets, s)
      BY <2>4, <2>6 DEF GoalStands
    <2>8. \A m \in Months : w.achieved[m] = 0
      BY <2>4, <2>7 DEF Kept, HasPlan
    <2>9. r.kind = "challenge" => w.required \in {2, 5}
      <3>1. r.kind = "challenge" => w.required = Won(r.required)
        BY <2>4, <2>6 DEF GoalStands
      <3> QED BY <1>1, <3>1 DEF ProgressFits, Won
    <2> QED BY <1>1, <2>2, <2>6, <2>7, <2>8, <2>9 DEF ProgressFits
  <1> QED BY <1>1, ProgressIs DEF RequestsFit, OnRow, Opens

LEMMA ProgressAnswers == Answers("progress")
  <1>1. ASSUME NEW r \in GoalRow, ProgressFits(r), ProgressLists(r), r # None,
               NEW d \in ProgressDrafts, ~GoalAccepts(ProgressBody(d, r), r)
        PROVE  d.current = TooBig
    <2>1. PICK g : g = Carded(d, r)
      OBVIOUS
    <2>3. /\ g \in GoalDrafts(r) /\ KindsAgree(g, r)
          /\ g.kind = r.kind /\ g.targets = r.targets /\ g.required = r.required
          /\ g.monthly = r.monthly
          /\ g.since = (IF r.since = None THEN Today ELSE r.since)
          /\ g.current = (IF d.current = None THEN Progress(r) ELSE d.current)
          /\ Progress(r) = r.manual
      <3>1. GoalFits(r)
        BY <1>1 DEF ProgressFits
      <3> QED BY <1>1, <2>1, <3>1, CardedFits
    <2>4. ~GoalAccepts(GoalBody(g, r), r)
      BY <1>1, <2>1, ProgressIsCarded
    <2>5. \/ g.required = TooBig
          \/ g.kind = "goal" /\ g.monthly = TooBig
          \/ g.current = TooBig
          \/ r # None /\ Progress(r) < 0
          \/ ~TargetsFit(g.targets)
          \/ g.kind = "challenge" /\ g.since = Blank
      BY <1>1, <2>3, <2>4, GoalRefused
    <2>6. /\ r.required \in Nat /\ r.monthly \in Nat /\ r.manual \in Nat
          /\ r.targets \in [Months -> {None} \cup Nat] /\ r.since \in {None} \cup Months
      BY DEF GoalRow
    <2>7. g.since # Blank
      BY <2>3, <2>6 DEF Today, Months
    <2>8. TargetsFit(g.targets)
      <3>1. r.targets \in DraftTargets
        BY <2>6, TargetsStored
      <3> QED BY <2>3, <2>6, <3>1, TargetsStored
    <2>9. g.current = TooBig
      BY <2>3, <2>5, <2>6, <2>7, <2>8
    <2> QED BY <2>3, <2>6, <2>9
  <1>2. ASSUME NEW t, NEW r, OnRow("progress", t, r), NEW d \in ProgressDrafts,
               d.current = TooBig
        PROVE  Unsuited("progress", d, Original("progress", t, r))
    <2>1. Original("progress", t, r) = [current |-> None]
      BY <1>2, ProgressIs DEF OnRow, Original
    <2>2. DOMAIN d = {"current"}
      BY DEF ProgressDrafts
    <2> QED BY <1>2, <2>1, <2>2 DEF Unsuited, NoInput
  <1>3. ASSUME NEW r \in GoalRow, ProgressFits(r), ProgressLists(r), r # None,
               GoalAccepts(ProgressBody([current |-> None], r), r)
        PROVE  GoalWrite(ProgressBody([current |-> None], r), r) = r
    <2>1. PICK d : d = [current |-> None]
      OBVIOUS
    <2>2. PICK g : g = Carded(d, r)
      OBVIOUS
    <2>3. d \in ProgressDrafts /\ d.current = None /\ GoalFits(r)
      BY <1>3, <2>1 DEF ProgressDrafts, ProgressFits
    <2>4. g \in GoalDrafts(r) /\ GoalReady(g) /\ Progress(r) = r.manual
      BY <1>3, <2>2, <2>3, CardedFits
    <2>5. g = GoalDraft(r)
      BY <2>2, <2>3 DEF Carded, ProgressShows, GoalDraft
    <2>6. GoalAccepts(GoalBody(GoalDraft(r), r), r)
      BY <1>3, <2>1, <2>2, <2>5, ProgressIsCarded
    <2>7. GoalWrite(GoalBody(GoalDraft(r), r), r) = r
      BY <1>3, <2>3, <2>4, <2>5, <2>6, GoalUntouched
    <2> QED BY <2>1, <2>2, <2>5, <2>7, ProgressIsCarded
  <1>4. ASSUME NEW r \in GoalRow, ProgressFits(r), ProgressLists(r), r # None,
               NEW d \in ProgressDrafts, GoalAccepts(ProgressBody(d, r), r),
               NEW w, w = GoalWrite(ProgressBody(d, r), r), ProgressLists(w)
        PROVE  ProgressShows([current |-> None], w) = ProgressSettled(d, r)
    <2>1. PICK g : g = Carded(d, r)
      OBVIOUS
    <2>2. GoalFits(r)
      BY <1>4 DEF ProgressFits
    <2>3. /\ g \in GoalDrafts(r) /\ KindsAgree(g, r) /\ GoalReady(g)
          /\ g.kind = r.kind /\ g.kind \in {"goal", "challenge"}
          /\ g.current = (IF d.current = None THEN Progress(r) ELSE d.current)
      BY <1>4, <2>1, <2>2, CardedFits
    <2>4. w = GoalWrite(GoalBody(g, r), r) /\ GoalAccepts(GoalBody(g, r), r)
      BY <1>4, <2>1, ProgressIsCarded
    <2>5. w \in GoalRow /\ GoalStands(w, g, r)
      BY <1>4, <2>2, <2>3, <2>4, GoalKept
    <2>6. w.manual = Won(g.current)
      BY <2>3, <2>5 DEF GoalStands
    <2>7. Progress(w) = w.manual
      BY <1>4 DEF ProgressLists, ByTyping, Progress
    <2>8. ProgressShows([current |-> None], w) = [current |-> Progress(w)]
      BY DEF ProgressShows
    <2>9. ProgressSettled(d, r) = [current |-> Won(g.current)]
      BY <2>3 DEF ProgressSettled, ProgressShows
    <2> QED BY <2>6, <2>7, <2>8, <2>9
  <1> QED BY <1>1, <1>2, <1>3, <1>4, ProgressIs DEF Answers, OnRow, Opens
-----------------------------------------------------------------------------
(* The amount of the open month on the card of a goal. *)

LEMMA OpenMonthFits ==
  ASSUME NEW r \in GoalRow, AchievedLists(r)
  PROVE  OpenMonth(r) \in Months /\ r.targets[OpenMonth(r)] # None
  <1> DEFINE late == {m \in Months : r.targets[m] # None /\ r.achieved[m] < r.targets[m]}
             first == CHOOSE m \in late : \A k \in late : m <= k
  <1>1. OpenMonth(r) = IF late = {} THEN None ELSE first
    BY DEF OpenMonth
  <1>2. late # {}
    BY <1>1 DEF AchievedLists
  <1>3. late \subseteq Months
    OBVIOUS
  <1>4. \E m \in late : \A k \in late : m <= k
    <2> HIDE DEF late
    <2>1. CASE 1 \in late
      BY <1>3, <2>1 DEF Months
    <2>2. CASE 1 \notin late /\ 2 \in late
      BY <1>3, <2>2 DEF Months
    <2>3. CASE 1 \notin late /\ 2 \notin late
      <3>1. \A k \in late : k = 3
        BY <1>3, <2>3 DEF Months
      <3>2. 3 \in late
        BY <1>2, <3>1
      <3> QED BY <3>1, <3>2
    <2> QED BY <2>1, <2>2, <2>3
  <1>5. first \in late
    <2> HIDE DEF late
    <2> QED BY <1>4
  <1> QED BY <1>1, <1>2, <1>5

LEMMA AchievedRowsStay == RowsStay("achieved")
  <1>1. ASSUME NEW r \in AchievedRows
        PROVE  r \in GoalRow /\ GoalFits(r)
    BY PlannedFits DEF AchievedRows
  <1>2. ASSUME NEW r \in GoalRow, GoalFits(r), NEW x \in AchievedElsewhere(r)
        PROVE  x \in GoalRow /\ GoalFits(x)
    <2>1. PICK t : t = [r.targets EXCEPT ![1] = None, ![3] = None]
      OBVIOUS
    <2>2. PICK a : a = [r.achieved EXCEPT ![1] = 0, ![3] = 0]
      OBVIOUS
    <2>3. x = [r EXCEPT !.date = 2, !.targets = t, !.achieved = a]
      BY <2>1, <2>2 DEF AchievedElsewhere
    <2>4. t \in [Months -> {None} \cup Nat] /\ a \in [Months -> Nat]
      BY <2>1, <2>2 DEF GoalRow
    <2>5. 2 \in Months
      BY DEF Months
    <2>6. x \in GoalRow
      BY <2>3, <2>4, <2>5 DEF GoalRow
    <2>7. /\ x.kind = r.kind /\ x.since = r.since /\ x.rate = r.rate /\ x.about = r.about
          /\ x.age = r.age /\ x.monthly = r.monthly /\ x.products = r.products
          /\ x.manual = r.manual /\ x.parts = r.parts /\ x.required = r.required
          /\ x.targets = t /\ x.achieved = a
      BY <2>3 DEF GoalRow
    <2>8. (x.exclude <=> r.exclude) /\ (x.done <=> r.done) /\ (x.taken <=> r.taken)
      BY <2>3 DEF GoalRow
    <2>9. r.targets = NoTargets => t = NoTargets
      BY <2>1 DEF NoTargets
    <2>10. \A m \in Months : t[m] = None => a[m] = 0
      <3>1. ASSUME NEW m \in Months, t[m] = None
            PROVE  a[m] = 0
        <4>1. CASE m \in {1, 3}
          BY <2>2, <4>1 DEF GoalRow
        <4>2. CASE m \notin {1, 3}
          BY <1>2, <2>1, <2>2, <3>1, <4>2 DEF GoalRow, GoalFits
        <4> QED BY <4>1, <4>2
      <3> QED BY <3>1
    <2> QED BY <1>2, <2>6, <2>7, <2>8, <2>9, <2>10 DEF GoalFits
  <1> QED BY <1>1, <1>2, AchievedIs DEF RowsStay

LEMMA AchievedDraftsStay == DraftsStay("achieved")
  <1>1. ASSUME NEW r \in GoalRow, AchievedLists(r), NEW d \in AchievedDrafts,
               NEW x \in AchievedTyped(d, r)
        PROVE  x \in AchievedDrafts
    <2>1. PICK v \in TypedAmounts : x = [d EXCEPT ![OpenMonth(r)] = v]
      BY <1>1 DEF AchievedTyped, Put
    <2>2. v \in DraftAmounts
      BY TypedFits
    <2> QED BY <2>1, <2>2 DEF AchievedDrafts
  <1>2. \A r : AchievedDraft(r) \in AchievedDrafts
    BY DEF AchievedDraft, AchievedDrafts
  <1> QED BY <1>1, <1>2, AchievedIs DEF DraftsStay, OnRow, Opens

\* The request is of the open month, and its amount what the card shows.
LEMMA AchievedSent ==
  ASSUME NEW r \in GoalRow, AchievedLists(r), NEW d \in AchievedDrafts,
         NEW m, m = OpenMonth(r), NEW b, b = AchievedBody(d, r)
  PROVE  /\ m \in Months /\ r.targets[m] # None /\ b.month = m
         /\ b.amount = (IF d[m] = None THEN r.achieved[m] ELSE d[m])
         /\ ~AmountFits(b.amount) => d[m] = TooBig
  <1>1. m \in Months /\ r.targets[m] # None
    BY OpenMonthFits
  <1>2. b.month = m /\ b.amount = (IF d[m] = None THEN r.achieved[m] ELSE d[m])
    BY <1>1 DEF AchievedBody, AchievedShows
  <1>3. r.achieved[m] \in Nat /\ d[m] \in {None} \cup DraftAmounts
    BY <1>1 DEF GoalRow, AchievedDrafts
  <1> QED BY <1>1, <1>2, <1>3 DEF AmountFits, DraftAmounts

LEMMA AchievedKeeps ==
  ASSUME NEW r \in GoalRow, AchievedLists(r), NEW d \in AchievedDrafts,
         NEW s \in GoalRow, GoalFits(s), s # None, AchievedAccepts(AchievedBody(d, r), s),
         NEW w, w = AchievedWrite(AchievedBody(d, r), s)
  PROVE  /\ w \in GoalRow /\ GoalFits(w)
         /\ w.achieved = [s.achieved EXCEPT ![OpenMonth(r)] = Won(AchievedBody(d, r).amount)]
  <1>1. PICK m, b : m = OpenMonth(r) /\ b = AchievedBody(d, r)
    OBVIOUS
  <1>2. m \in Months /\ b.month = m
    BY <1>1, AchievedSent
  <1>3. AmountFits(b.amount) /\ s.targets[m] # None
    BY <1>1, <1>2 DEF AchievedAccepts
  <1>4. PICK v : v = Won(b.amount)
    OBVIOUS
  <1>5. v \in Nat
    BY <1>3, <1>4, AmountFacts
  <1>6. PICK a : a = [s.achieved EXCEPT ![m] = v]
    OBVIOUS
  <1>7. w = [s EXCEPT !.achieved = a]
    BY <1>1, <1>2, <1>4, <1>6 DEF AchievedWrite
  <1>8. a \in [Months -> Nat]
    BY <1>2, <1>5, <1>6 DEF GoalRow
  <1>9. w \in GoalRow
    BY <1>7, <1>8 DEF GoalRow
  <1>10. \A k \in Months : k # m => a[k] = s.achieved[k]
    BY <1>6 DEF GoalRow
  <1>11. GoalFits(w)
    BY <1>3, <1>7, <1>10 DEF GoalFits, GoalRow
  <1> QED BY <1>1, <1>4, <1>6, <1>7, <1>9, <1>11 DEF GoalRow

LEMMA AchievedRequestsFit == RequestsFit("achieved")
  <1>1. ASSUME NEW r \in GoalRow, AchievedLists(r), NEW d \in AchievedDrafts,
               NEW s \in GoalRow, GoalFits(s), s # None,
               AchievedAccepts(AchievedBody(d, r), s)
        PROVE  /\ AchievedWrite(AchievedBody(d, r), s) \in GoalRow
               /\ GoalFits(AchievedWrite(AchievedBody(d, r), s))
    BY <1>1, AchievedKeeps
  <1> QED BY <1>1, AchievedIs DEF RequestsFit, OnRow, Opens

LEMMA AchievedAnswers == Answers("achieved")
  <1>1. ASSUME NEW t, NEW r \in GoalRow, OnRow("achieved", t, r), NEW d \in AchievedDrafts,
               ~AchievedAccepts(AchievedBody(d, r), r)
        PROVE  Unsuited("achieved", d, Original("achieved", t, r))
    <2>1. AchievedLists(r) /\ r # None
      BY <1>1, AchievedIs DEF OnRow, Opens
    <2>2. PICK m, b : m = OpenMonth(r) /\ b = AchievedBody(d, r)
      OBVIOUS
    <2>3. m \in Months /\ r.targets[m] # None /\ b.month = m
          /\ (~AmountFits(b.amount) => d[m] = TooBig)
      BY <2>1, <2>2, AchievedSent
    <2>4. d[m] = TooBig
      BY <1>1, <2>2, <2>3 DEF AchievedAccepts
    <2>5. Original("achieved", t, r) = AchievedDraft(r)
      BY <1>1, AchievedIs DEF OnRow, Original
    <2>6. DOMAIN d = Months /\ AchievedDraft(r)[m] = None
      BY <2>3 DEF AchievedDrafts, AchievedDraft
    <2> QED BY <2>3, <2>4, <2>5, <2>6 DEF Unsuited, NoInput
  <1>2. ASSUME NEW r \in GoalRow, GoalFits(r), AchievedLists(r), r # None,
               AchievedAccepts(AchievedBody(AchievedDraft(r), r), r)
        PROVE  AchievedWrite(AchievedBody(AchievedDraft(r), r), r) = r
    <2>1. PICK d : d = AchievedDraft(r)
      OBVIOUS
    <2>2. PICK m, b : m = OpenMonth(r) /\ b = AchievedBody(d, r)
      OBVIOUS
    <2>3. d \in AchievedDrafts
      BY <2>1 DEF AchievedDraft, AchievedDrafts
    <2>4. m \in Months /\ b.month = m /\ b.amount = r.achieved[m]
      <3>1. m \in Months /\ b.month = m
            /\ b.amount = (IF d[m] = None THEN r.achieved[m] ELSE d[m])
        BY <1>2, <2>2, <2>3, AchievedSent
      <3> QED BY <2>1, <3>1 DEF AchievedDraft
    <2>5. Won(b.amount) = r.achieved[m]
      BY <2>4 DEF GoalRow, Won
    <2>6. [r.achieved EXCEPT ![m] = r.achieved[m]] = r.achieved
      BY DEF GoalRow
    <2>7. AchievedWrite(b, r) = [r EXCEPT !.achieved = [r.achieved EXCEPT ![m] = r.achieved[m]]]
      BY <2>4, <2>5 DEF AchievedWrite
    <2>8. [r EXCEPT !.achieved = r.achieved] = r
      BY DEF GoalRow
    <2> QED BY <2>1, <2>2, <2>6, <2>7, <2>8
  <1>3. ASSUME NEW r \in GoalRow, GoalFits(r), AchievedLists(r), r # None,
               NEW d \in AchievedDrafts, AchievedAccepts(AchievedBody(d, r), r),
               NEW w, w = AchievedWrite(AchievedBody(d, r), r)
        PROVE  AchievedShows(AchievedDraft(w), w) = AchievedSettled(d, r)
    <2>1. PICK m, b : m = OpenMonth(r) /\ b = AchievedBody(d, r)
      OBVIOUS
    <2>2. w \in GoalRow /\ w.achieved = [r.achieved EXCEPT ![m] = Won(b.amount)]
      BY <1>3, <2>1, AchievedKeeps
    <2>3. AchievedShows(AchievedDraft(w), w) = w.achieved
      <3>1. w.achieved = [k \in Months |-> w.achieved[k]]
        BY <2>2 DEF GoalRow
      <3> QED BY <3>1 DEF AchievedShows, AchievedDraft
    <2>4. b.amount = AchievedShows(d, r)[m]
      BY <2>1 DEF AchievedBody
    <2> QED BY <2>1, <2>2, <2>3, <2>4 DEF AchievedSettled
  <1> QED BY <1>1, <1>2, <1>3, AchievedIs DEF Answers, OnRow, Opens

-----------------------------------------------------------------------------
(* Insurance policies. *)

\* The ids that riders have, how many new ones there are up to one of them,
\* and the number that the k-th new one gets.
UsedIds(x) == {x[i].id : i \in DOMAIN x} \ {None}
NewUpTo(x, i) == Cardinality({j \in 1 .. i : x[j].id = None})
FreeId(used, k) ==
    CHOOSE n \in 1 .. 3 : n \notin used /\ Cardinality({m \in 1 .. n : m \notin used}) = k
IdOf(x, i) ==
    IF x[i].id # None THEN x[i].id ELSE FreeId(UsedIds(x), NewUpTo(x, i))

\* What riders are on their way: in a row, in a draft, in a request.
Riders(x) ==
    /\ DOMAIN x = 1 .. Len(x) /\ Len(x) \in Nat /\ Len(x) <= 2
    /\ \A i \in DOMAIN x :
        /\ x[i] = [id |-> x[i].id, coverage |-> x[i].coverage, amount |-> x[i].amount,
                   premium |-> x[i].premium, finish |-> x[i].finish]
        /\ x[i].id \in {None} \cup 1 .. 3

LEMMA SmallSets ==
  /\ \A e : Cardinality({e}) = 1
  /\ Cardinality({1, 2}) = 2
  <1>1. ASSUME NEW e
        PROVE  Cardinality({e}) = 1 /\ IsFiniteSet({e})
    BY FS_Singleton
  <1>2. PICK one : one = {1}
    OBVIOUS
  <1>3. PICK e : e = 2
    OBVIOUS
  <1>4. IsFiniteSet(one) /\ Cardinality(one) = 1 /\ e \notin one
    <2>1. IsFiniteSet({1}) /\ Cardinality({1}) = 1
      BY <1>1
    <2>2. e \notin {1}
      BY <1>3
    <2> QED BY <1>2, <2>1, <2>2
  <1>5. one \cup {e} = {1, 2}
    BY <1>2, <1>3
  <1> HIDE <1>2, <1>3
  <1>6. Cardinality(one \cup {e}) = Cardinality(one) + 1
    BY <1>4, FS_AddElement
  <1>7. Cardinality({1, 2}) = 2
    BY <1>4, <1>5, <1>6
  <1> QED BY <1>1, <1>7

LEMMA FreeIdFits ==
  ASSUME NEW used, NEW k, k = 1 \/ (k = 2 /\ used = {}), ~(1 \in used /\ 2 \in used)
  PROVE  FreeId(used, k) \in 1 .. 3
  <1>1. \E n \in 1 .. 3 : n \notin used /\ Cardinality({m \in 1 .. n : m \notin used}) = k
    <2>1. CASE k = 1 /\ 1 \notin used
      <3>1. {m \in 1 .. 1 : m \notin used} = {1}
        BY <2>1
      <3>2. Cardinality({m \in 1 .. 1 : m \notin used}) = k
        BY <2>1, <3>1, SmallSets
      <3> QED BY <2>1, <3>2
    <2>2. CASE k = 1 /\ 1 \in used
      <3>1. {m \in 1 .. 2 : m \notin used} = {2}
        BY <2>2
      <3>2. Cardinality({m \in 1 .. 2 : m \notin used}) = k
        BY <2>2, <3>1, SmallSets
      <3> QED BY <2>2, <3>2
    <2>3. CASE k = 2 /\ used = {}
      <3>1. {m \in 1 .. 2 : m \notin used} = {1, 2}
        BY <2>3
      <3>2. Cardinality({m \in 1 .. 2 : m \notin used}) = k
        BY <2>3, <3>1, SmallSets
      <3> QED BY <2>3, <3>2
    <2> QED BY <2>1, <2>2, <2>3
  <1> QED BY <1>1 DEF FreeId

LEMMA IdFits ==
  ASSUME NEW x, Riders(x), NEW i \in DOMAIN x
  PROVE  IdOf(x, i) \in 1 .. 3
  <1>1. CASE x[i].id # None
    BY <1>1 DEF IdOf, Riders
  <1>2. CASE x[i].id = None
    <2>1. i \in 1 .. 2 /\ (Len(x) = 1 \/ Len(x) = 2) /\ DOMAIN x = 1 .. Len(x)
      BY DEF Riders
    <2>2. CASE Len(x) = 1
      <3>1. i = 1 /\ {j \in 1 .. i : x[j].id = None} = {1}
        BY <1>2, <2>1, <2>2
      <3>2. UsedIds(x) = {}
        BY <1>2, <2>1, <2>2, <3>1 DEF UsedIds
      <3>3. NewUpTo(x, i) = 1
        BY <3>1, SmallSets DEF NewUpTo
      <3> QED BY <1>2, <3>2, <3>3, FreeIdFits DEF IdOf
    <2>3. CASE Len(x) = 2 /\ i = 1
      <3>1. {j \in 1 .. i : x[j].id = None} = {1}
        BY <1>2, <2>3
      <3>2. UsedIds(x) \subseteq {x[2].id}
        BY <1>2, <2>1, <2>3 DEF UsedIds
      <3>3. NewUpTo(x, i) = 1
        BY <3>1, SmallSets DEF NewUpTo
      <3> QED BY <1>2, <3>2, <3>3, FreeIdFits DEF IdOf
    <2>4. CASE Len(x) = 2 /\ i = 2 /\ x[1].id # None
      <3>1. {j \in 1 .. i : x[j].id = None} = {2}
        BY <1>2, <2>4
      <3>2. UsedIds(x) \subseteq {x[1].id}
        BY <1>2, <2>1, <2>4 DEF UsedIds
      <3>3. NewUpTo(x, i) = 1
        BY <3>1, SmallSets DEF NewUpTo
      <3> QED BY <1>2, <3>2, <3>3, FreeIdFits DEF IdOf
    <2>5. CASE Len(x) = 2 /\ i = 2 /\ x[1].id = None
      <3>1. {j \in 1 .. i : x[j].id = None} = {1, 2}
        BY <1>2, <2>5
      <3>2. UsedIds(x) = {}
        BY <1>2, <2>1, <2>5 DEF UsedIds
      <3>3. NewUpTo(x, i) = 2
        BY <3>1, SmallSets DEF NewUpTo
      <3> QED BY <1>2, <3>2, <3>3, FreeIdFits DEF IdOf
    <2> QED BY <2>1, <2>2, <2>3, <2>4, <2>5
  <1> QED BY <1>1, <1>2

\* Numbering keeps the places of the riders.
LEMMA NumberedAll ==
  ASSUME NEW x
  PROVE  Numbered(x) = [i \in DOMAIN x |-> Numbered(x)[i]]
  BY DEF Numbered

\* Numbering gives every rider its id and leaves the rest.
LEMMA NumberedFits ==
  ASSUME NEW x, Riders(x), NEW y, y = Numbered(x)
  PROVE  /\ DOMAIN y = DOMAIN x
         /\ \A i \in DOMAIN x :
               y[i] = [id |-> IdOf(x, i), coverage |-> x[i].coverage,
                       amount |-> x[i].amount, premium |-> x[i].premium,
                       finish |-> x[i].finish]
  <1>1. y = [i \in DOMAIN x |-> IF x[i].id # None THEN x[i]
                                ELSE [x[i] EXCEPT !.id = FreeId(UsedIds(x), NewUpTo(x, i))]]
    BY DEF Numbered, FreeId, UsedIds, NewUpTo
  <1>2. ASSUME NEW i \in DOMAIN x
        PROVE  y[i] = [id |-> IdOf(x, i), coverage |-> x[i].coverage,
                       amount |-> x[i].amount, premium |-> x[i].premium,
                       finish |-> x[i].finish]
    <2>1. PICK z : z = x[i]
      OBVIOUS
    <2>2. z = [id |-> z.id, coverage |-> z.coverage, amount |-> z.amount,
               premium |-> z.premium, finish |-> z.finish]
      BY <2>1 DEF Riders
    <2>3. CASE z.id # None
      BY <1>1, <2>1, <2>2, <2>3 DEF IdOf
    <2>4. CASE z.id = None
      <3>1. PICK n : n = FreeId(UsedIds(x), NewUpTo(x, i))
        OBVIOUS
      <3>2. y[i] = [z EXCEPT !.id = n] /\ IdOf(x, i) = n
        BY <1>1, <2>1, <2>4, <3>1 DEF IdOf
      <3> QED BY <2>1, <2>2, <3>2
    <2> QED BY <2>3, <2>4
  <1> QED BY <1>1, <1>2

\* The numbers depend on the ids alone.
LEMMA SameIds ==
  ASSUME NEW x, NEW y, Riders(x), DOMAIN y = DOMAIN x,
         \A i \in DOMAIN x : y[i].id = x[i].id,
         NEW i \in DOMAIN x
  PROVE  IdOf(y, i) = IdOf(x, i)
  <1>1. UsedIds(y) = UsedIds(x)
    BY DEF UsedIds
  <1>2. 1 .. i \subseteq DOMAIN x
    BY DEF Riders
  <1>3. {j \in 1 .. i : y[j].id = None} = {j \in 1 .. i : x[j].id = None}
    BY <1>2
  <1>4. NewUpTo(y, i) = NewUpTo(x, i)
    BY <1>3 DEF NewUpTo
  <1> QED BY <1>1, <1>4 DEF IdOf

LEMMA MadeSeq ==
  ASSUME NEW S, NEW n \in Nat, NEW f, DOMAIN f = 1 .. n, f = [i \in 1 .. n |-> f[i]],
         \A i \in 1 .. n : f[i] \in S
  PROVE  f \in Seq(S) /\ Len(f) = n
  <1>1. f \in [1 .. n -> S]
    OBVIOUS
  <1>2. f \in Seq(S)
    BY <1>1, SeqDef
  <1> QED BY <1>2, LenProperties

LEMMA RowRiders ==
  ASSUME NEW r \in PolicyRow, PolicyFits(r)
  PROVE  /\ Riders(r.riders) /\ r.riders \in Seq(Rider)
         /\ \A i \in DOMAIN r.riders : r.riders[i] \in Rider /\ r.riders[i].id \in 1 .. 3
  <1>1. r.riders \in Seq(Rider)
    BY DEF PolicyRow
  <1>2. Len(r.riders) \in Nat /\ DOMAIN r.riders = 1 .. Len(r.riders)
    BY <1>1, LenProperties
  <1>3. \A i \in DOMAIN r.riders : r.riders[i] \in Rider
    BY <1>1, <1>2, ElementOfSeq
  <1>4. \A i \in DOMAIN r.riders : r.riders[i].id # None
    BY DEF PolicyFits
  <1>5. ASSUME NEW x \in Rider
        PROVE  /\ x = [id |-> x.id, coverage |-> x.coverage, amount |-> x.amount,
                       premium |-> x.premium, finish |-> x.finish]
               /\ x.id \in {None} \cup 1 .. 3
    BY DEF Rider
  <1>6. Len(r.riders) \in Nat /\ Len(r.riders) <= 2
    BY <1>2 DEF PolicyFits
  <1>7. Riders(r.riders)
    BY <1>2, <1>3, <1>5, <1>6 DEF Riders
  <1> QED BY <1>1, <1>3, <1>4, <1>5, <1>7

LEMMA DraftedRiders ==
  ASSUME NEW r, r # None => r \in PolicyRow /\ PolicyFits(r), NEW d \in PolicyDrafts(r),
         Len(d.riders) <= 2
  PROVE  /\ Riders(d.riders) /\ d.riders \in Seq(DraftRiders(r))
         /\ \A i \in DOMAIN d.riders : d.riders[i] \in DraftRiders(r)
         /\ \A i \in DOMAIN d.riders : d.riders[i].id # None =>
               /\ r # None
               /\ \E j \in DOMAIN r.riders : r.riders[j].id = d.riders[i].id
  <1>1. d.riders \in Seq(DraftRiders(r))
    BY DEF PolicyDrafts
  <1>2. Len(d.riders) \in Nat /\ DOMAIN d.riders = 1 .. Len(d.riders)
    BY <1>1, LenProperties
  <1>3. \A i \in DOMAIN d.riders : d.riders[i] \in DraftRiders(r)
    BY <1>1, <1>2, ElementOfSeq
  <1>4. ASSUME NEW i \in DOMAIN d.riders
        PROVE  /\ d.riders[i].id \in {None} \cup 1 .. 3
               /\ d.riders[i].id # None =>
                     r # None /\ \E j \in DOMAIN r.riders : r.riders[j].id = d.riders[i].id
    <2>1. d.riders[i].id \in {None} \cup (IF r = None THEN {}
                                          ELSE {r.riders[j].id : j \in DOMAIN r.riders})
      BY <1>3 DEF DraftRiders
    <2> QED BY <2>1, RowRiders
  <1>5. \A i \in DOMAIN d.riders :
          d.riders[i] = [id |-> d.riders[i].id, coverage |-> d.riders[i].coverage,
                         amount |-> d.riders[i].amount, premium |-> d.riders[i].premium,
                         finish |-> d.riders[i].finish]
    BY <1>3 DEF DraftRiders
  <1>6. Len(d.riders) \in Nat /\ Len(d.riders) <= 2
    BY <1>2
  <1>7. Riders(d.riders)
    BY <1>2, <1>4, <1>5, <1>6 DEF Riders
  <1> QED BY <1>1, <1>3, <1>4, <1>7

LEMMA PolicyRowsStay == RowsStay("policy")
  <1> DEFINE rider == [id |-> 1, coverage |-> "cancer", amount |-> None, premium |-> 1,
                       finish |-> "d1"]
             gone == [name |-> "n", type |-> "indemnity", insured |-> "gone",
                      insuredName |-> None, premium |-> 2, renewable |-> TRUE,
                      renewal |-> "d1", coverages |-> {"cancer"}, riders |-> <<rider>>,
                      rule |-> "r"]
             named == [name |-> "n", type |-> "auto", insured |-> None,
                       insuredName |-> "n", premium |-> 2, renewable |-> TRUE,
                       renewal |-> None, coverages |-> {"driver"}, riders |-> <<>>,
                       rule |-> None]
  <1>1. gone \in PolicyRow /\ PolicyFits(gone)
    <2>1. rider \in Rider
      BY DEF Rider
    <2>2. rider.id = 1 /\ rider.coverage = "cancer"
      OBVIOUS
    <2> HIDE DEF rider
    <2>3. PICK x : x = <<rider>>
      OBVIOUS
    <2>4. x \in Seq(Rider) /\ Len(x) = 1 /\ DOMAIN x = {1} /\ x[1] = rider /\ x # <<>>
      BY <2>1, <2>3
    <2>5. {x[i].coverage : i \in DOMAIN x} = {"cancer"}
      BY <2>2, <2>4
    <2>6. Covered(x, {"cancer"}) = {"cancer"}
      BY <2>4, <2>5 DEF Covered
    <2>7. gone \in PolicyRow
      BY <2>3, <2>4 DEF PolicyRow, PolicyTypes, Coverages, Names, Owners
    <2>8. PolicyFits(gone)
      BY <2>2, <2>3, <2>4, <2>6 DEF PolicyFits
    <2> QED BY <2>7, <2>8
  <1>2. named \in PolicyRow /\ PolicyFits(named)
    <2>1. PICK x : x = <<>>
      OBVIOUS
    <2>2. x \in Seq(Rider) /\ Len(x) = 0 /\ DOMAIN x = {}
      BY <2>1
    <2>3. Covered(x, {"driver"}) = {"driver"}
      BY <2>1 DEF Covered
    <2>4. named \in PolicyRow
      BY <2>1, <2>2 DEF PolicyRow, PolicyTypes, Coverages, Names, Owners, Members
    <2>5. PolicyFits(named)
      BY <2>1, <2>2, <2>3 DEF PolicyFits
    <2> QED BY <2>4, <2>5
  <1>3. PolicyRows = {gone, named}
    BY DEF PolicyRows
  <1> HIDE DEF gone, named
  <1>4. ASSUME NEW r \in PolicyRow, PolicyFits(r), NEW x \in PolicyElsewhere(r)
        PROVE  x \in PolicyRow /\ PolicyFits(x)
    <2>1. CASE x = [r EXCEPT !.riders = <<>>]
      <3>1. PICK y : y = <<>>
        OBVIOUS
      <3>2. y \in Seq(Rider) /\ Len(y) = 0 /\ DOMAIN y = {}
        BY <3>1
      <3>3. x = [r EXCEPT !.riders = y]
        BY <2>1, <3>1
      <3>4. x \in PolicyRow
        BY <3>2, <3>3 DEF PolicyRow
      <3>5. x.riders = y /\ Covered(y, x.coverages) = x.coverages
        BY <3>1, <3>3 DEF PolicyRow, Covered
      <3>6. /\ x.insured = r.insured /\ x.insuredName = r.insuredName /\ x.type = r.type
            /\ x.renewable <=> r.renewable
            /\ x.renewal = r.renewal
        BY <3>3 DEF PolicyRow
      <3> QED BY <1>4, <3>2, <3>4, <3>5, <3>6 DEF PolicyFits
    <2>2. CASE x = [r EXCEPT !.premium = @ + 1]
      BY <1>4, <2>2 DEF PolicyFits, PolicyRow
    <2> QED BY <2>1, <2>2 DEF PolicyElsewhere
  <1> QED BY <1>1, <1>2, <1>3, <1>4, PolicyIs DEF RowsStay

\* A draft of a policy is its inputs.
LEMMA PolicyDraftMade ==
  ASSUME NEW r, NEW z,
         z = [name |-> z.name, type |-> z.type, insured |-> z.insured,
              insuredName |-> z.insuredName, premium |-> z.premium,
              renewable |-> z.renewable, renewal |-> z.renewal,
              coverages |-> z.coverages, riders |-> z.riders, rule |-> z.rule],
         z.name \in TypedNames, z.type \in PolicyTypes,
         z.insured \in Members \cup {None, IF r = None THEN None ELSE r.insured},
         z.insuredName \in TypedNames, z.premium \in DraftAmounts, z.renewable \in BOOLEAN,
         z.renewal \in {Blank, "d1"}, z.coverages \in SUBSET Coverages,
         z.riders \in Seq(DraftRiders(r)), z.rule \in {Blank, "r"}
  PROVE  z \in PolicyDrafts(r)
  BY DEF PolicyDrafts

LEMMA PolicyDraftFits ==
  ASSUME NEW r \in PolicyRow, PolicyFits(r), NEW d, d = PolicyDraft(r)
  PROVE  /\ r # None => d \in PolicyDrafts(r)
         /\ Len(d.riders) <= 2
         /\ d = [name |-> d.name, type |-> d.type, insured |-> d.insured,
                insuredName |-> d.insuredName, premium |-> d.premium,
                renewable |-> d.renewable, renewal |-> d.renewal,
                coverages |-> d.coverages, riders |-> d.riders, rule |-> d.rule]
         /\ d.name = r.name /\ d.type = r.type /\ d.insured = r.insured
         /\ d.insuredName = OrBlank(r.insuredName) /\ d.premium = r.premium
         /\ (d.renewable <=> r.renewable) /\ d.renewal = OrBlank(r.renewal)
         /\ d.coverages = r.coverages /\ d.rule = OrBlank(r.rule)
         /\ DOMAIN d.riders = DOMAIN r.riders
         /\ \A i \in DOMAIN r.riders : d.riders[i] = RiderDraft(r.riders[i])
  <1>1. PICK x : x = [i \in DOMAIN r.riders |-> RiderDraft(r.riders[i])]
    OBVIOUS
  <1>2. d = [r EXCEPT !.insuredName = OrBlank(r.insuredName), !.renewal = OrBlank(r.renewal),
                      !.riders = x, !.rule = OrBlank(r.rule)]
    BY <1>1 DEF PolicyDraft
  <1>3. /\ d.name = r.name /\ d.type = r.type /\ d.insured = r.insured
        /\ d.premium = r.premium /\ d.coverages = r.coverages
    BY <1>2 DEF PolicyRow
  <1>4. /\ d.insuredName = OrBlank(r.insuredName) /\ d.renewal = OrBlank(r.renewal)
        /\ d.riders = x /\ d.rule = OrBlank(r.rule)
    BY <1>2 DEF PolicyRow
  <1>5. d.renewable = r.renewable
    BY <1>2 DEF PolicyRow
  <1>6. d = [name |-> d.name, type |-> d.type, insured |-> d.insured,
             insuredName |-> d.insuredName, premium |-> d.premium,
             renewable |-> d.renewable, renewal |-> d.renewal,
             coverages |-> d.coverages, riders |-> d.riders, rule |-> d.rule]
    BY <1>2 DEF PolicyRow
  <1>7. Len(r.riders) \in Nat /\ Len(r.riders) <= 2 /\ DOMAIN r.riders = 1 .. Len(r.riders)
    BY RowRiders DEF Riders
  <1>8. r # None => \A i \in DOMAIN r.riders : RiderDraft(r.riders[i]) \in DraftRiders(r)
    <2>1. ASSUME r # None, NEW i \in DOMAIN r.riders
          PROVE  RiderDraft(r.riders[i]) \in DraftRiders(r)
      <3>1. PICK z : z = r.riders[i]
        OBVIOUS
      <3>2. z \in Rider
        BY <3>1, RowRiders
      <3>3. z.id \in {None} \cup (IF r = None THEN {}
                                  ELSE {r.riders[j].id : j \in DOMAIN r.riders})
        BY <2>1, <3>1
      <3>4. OrBlank(z.amount) \in {Blank} \cup Nat /\ z.premium \in DraftAmounts
        BY <3>2 DEF Rider, OrBlank, DraftAmounts
      <3>5. RiderDraft(z) \in DraftRiders(r)
        BY <3>2, <3>3, <3>4 DEF RiderDraft, DraftRiders, Rider
      <3> QED BY <3>1, <3>5
    <2> QED BY <2>1
  <1>9. /\ r # None => x \in Seq(DraftRiders(r))
        /\ Len(x) = Len(r.riders) /\ DOMAIN x = DOMAIN r.riders
    <2>1. /\ DOMAIN x = 1 .. Len(r.riders)
          /\ x = [i \in 1 .. Len(r.riders) |-> x[i]]
      BY <1>1, <1>7
    <2>2. r # None => \A i \in 1 .. Len(r.riders) : x[i] \in DraftRiders(r)
      BY <1>1, <1>7, <1>8
    <2>3. PICK All : All = {x[i] : i \in DOMAIN x}
      OBVIOUS
    <2>4. \A i \in 1 .. Len(r.riders) : x[i] \in All
      BY <2>1, <2>3
    <2>5. Len(x) = Len(r.riders)
      BY <1>7, <2>1, <2>4, MadeSeq
    <2>6. r # None => x \in Seq(DraftRiders(r))
      BY <1>7, <2>1, <2>2, MadeSeq
    <2> QED BY <1>7, <2>1, <2>5, <2>6
  <1>10. /\ d.name \in TypedNames /\ d.type \in PolicyTypes
         /\ r # None =>
               d.insured \in Members \cup {None, IF r = None THEN None ELSE r.insured}
         /\ d.premium \in DraftAmounts /\ d.renewable \in BOOLEAN
         /\ d.coverages \in SUBSET Coverages
    BY <1>3, <1>5 DEF PolicyRow, TypedNames, DraftAmounts
  <1>11. /\ d.insuredName \in TypedNames /\ d.renewal \in {Blank, "d1"}
         /\ d.rule \in {Blank, "r"}
    BY <1>4 DEF PolicyRow, OrBlank, TypedNames
  <1>12. r # None => d \in PolicyDrafts(r)
    BY <1>4, <1>6, <1>9, <1>10, <1>11, PolicyDraftMade
  <1> QED BY <1>1, <1>3, <1>4, <1>5, <1>6, <1>7, <1>9, <1>12

\* One input event in the list of riders.
LEMMA RidersTypedFit ==
  ASSUME NEW r, NEW d \in PolicyDrafts(r), Len(d.riders) <= 2, NEW z \in RidersTyped(d)
  PROVE  z \in PolicyDrafts(r) /\ Len(z.riders) <= 2
  <1> DEFINE x == d.riders
             rider == [id |-> None, coverage |-> "cancer", amount |-> Blank,
                       premium |-> Blank, finish |-> None]
             With(i, S) == {[x EXCEPT ![i] = y] : y \in S}
             Edits(i) == Put(x[i], "coverage", {"cancer", "other"})
                             \cup Put(x[i], "amount", {Blank, 1})
                             \cup Put(x[i], "premium", TypedAmounts)
             Longer == IF Len(x) < 2 THEN {Append(x, rider)} ELSE {}
             Shorter == {SubSeq(x, 1, i - 1) \o SubSeq(x, i + 1, Len(x)) : i \in DOMAIN x}
             Edited == {With(i, Edits(i)) : i \in DOMAIN x}
  <1>1. \E y \in UNION ({Longer, Shorter} \cup Edited) : z = [d EXCEPT !.riders = y]
    BY DEF RidersTyped
  <1>2. \A y \in UNION ({Longer, Shorter} \cup Edited) :
          y \in Longer \/ y \in Shorter \/ \E i \in DOMAIN x : y \in With(i, Edits(i))
    <2> HIDE DEF Longer, Shorter, At, Edits, x
    <2> QED OBVIOUS
  <1>3. PICK y : /\ z = [d EXCEPT !.riders = y]
                 /\ y \in Longer \/ y \in Shorter \/ \E i \in DOMAIN x : y \in With(i, Edits(i))
    <2> HIDE DEF Longer, Shorter, Edited, At, Edits
    <2> QED BY <1>1, <1>2
  <1>4. x \in Seq(DraftRiders(r))
    BY DEF PolicyDrafts
  <1>5. Len(x) \in Nat /\ DOMAIN x = 1 .. Len(x) /\ Len(x) <= 2
    BY <1>4, LenProperties
  <1>6. ASSUME NEW i \in DOMAIN x
        PROVE  x[i] \in DraftRiders(r)
    BY <1>4, <1>5, ElementOfSeq
  <1>7. y \in Seq(DraftRiders(r)) /\ Len(y) <= 2
    <2>1. CASE y \in Longer
      <3>1. rider \in DraftRiders(r)
        BY DEF DraftRiders, DraftAmounts
      <3>2. y = Append(x, rider) /\ Len(x) < 2
        BY <2>1
      <3> HIDE DEF rider, x
      <3> QED BY <1>4, <1>5, <3>1, <3>2
    <2>2. CASE y \in Shorter
      <3>1. PICK i \in DOMAIN x : y = SubSeq(x, 1, i - 1) \o SubSeq(x, i + 1, Len(x))
        BY <2>2
      <3> HIDE DEF x, Longer, Shorter, Edits, At
      <3>2. i \in Nat /\ 1 <= i /\ i <= Len(x)
        BY <1>5
      <3>3. (\A k \in 1 .. i - 1 : x[k] \in DraftRiders(r))
            /\ \A k \in i + 1 .. Len(x) : x[k] \in DraftRiders(r)
        BY <1>5, <1>6, <3>2
      <3>4. PICK u, v : u = SubSeq(x, 1, i - 1) /\ v = SubSeq(x, i + 1, Len(x))
        OBVIOUS
      <3>5. u \in Seq(DraftRiders(r)) /\ Len(u) = IF 1 <= i - 1 THEN i - 1 - 1 + 1 ELSE 0
        BY <3>2, <3>3, <3>4, SubSeqProperties
      <3>6. v \in Seq(DraftRiders(r))
            /\ Len(v) = IF i + 1 <= Len(x) THEN Len(x) - (i + 1) + 1 ELSE 0
        BY <1>5, <3>2, <3>3, <3>4, SubSeqProperties
      <3>7. u \o v \in Seq(DraftRiders(r)) /\ Len(u \o v) = Len(u) + Len(v)
        <4>1. PICK S : S = DraftRiders(r)
          OBVIOUS
        <4>2. u \in Seq(S) /\ v \in Seq(S)
          BY <3>5, <3>6, <4>1
        <4>3. u \o v \in Seq(S) /\ Len(u \o v) = Len(u) + Len(v)
          BY <4>2, ConcatProperties
        <4> QED BY <4>1, <4>3
      <3>8. Len(u) + Len(v) <= 2
        BY <1>5, <3>2, <3>5, <3>6
      <3> QED BY <3>1, <3>4, <3>7, <3>8
    <2>3. CASE \E i \in DOMAIN x : y \in With(i, Edits(i))
      <3>1. PICK i \in DOMAIN x : \E e \in Edits(i) : y = [x EXCEPT ![i] = e]
        BY <2>3
      <3>2. PICK e \in Edits(i) : y = [x EXCEPT ![i] = e]
        BY <3>1
      <3>3. e \in DraftRiders(r)
        BY <1>6, <3>1, <3>2, TypedFits DEF Put, DraftRiders, DraftAmounts
      <3> HIDE DEF x, Longer, Shorter, Edits, At
      <3> QED BY <1>4, <1>5, <3>1, <3>2, <3>3, ExceptSeq
    <2> QED BY <1>3, <2>1, <2>2, <2>3
  <1> HIDE DEF x, Longer, Shorter, Edits, At
  <1>8. z \in PolicyDrafts(r) /\ z.riders = y
    BY <1>3, <1>7 DEF PolicyDrafts
  <1> QED BY <1>7, <1>8

LEMMA PolicyDraftsStay == DraftsStay("policy")
  <1>1. PolicyEmpty \in PolicyDrafts(None) /\ Len(PolicyEmpty.riders) <= 2
    <2>1. PICK x : x = <<>>
      OBVIOUS
    <2>2. x \in Seq(DraftRiders(None)) /\ Len(x) = 0
      BY <2>1
    <2>3. PolicyEmpty.riders = x
      BY <2>1 DEF PolicyEmpty
    <2>4. {"medical"} \in SUBSET Coverages /\ Typical("indemnity") = {"medical"}
      BY DEF Coverages, Typical
    <2>5. PolicyEmpty \in PolicyDrafts(None)
      BY <2>1, <2>2, <2>4
         DEF PolicyEmpty, PolicyDrafts, TypedNames, PolicyTypes, Members, DraftAmounts
    <2> QED BY <2>2, <2>3, <2>5
  <1>2. ASSUME NEW r, NEW d \in PolicyDrafts(r), Len(d.riders) <= 2, NEW x \in PolicyTyped(d, r)
        PROVE  x \in PolicyDrafts(r) /\ Len(x.riders) <= 2
    <2>1. CASE x \in PolicyTypeChosen(d)
      <3>1. PICK t \in PolicyTypes :
              x = [d EXCEPT !.type = t, !.coverages = IF @ = Typical(d.type) THEN Typical(t)
                                                      ELSE @]
        BY <2>1 DEF PolicyTypeChosen
      <3>2. PICK c : c = IF d.coverages = Typical(d.type) THEN Typical(t) ELSE d.coverages
        OBVIOUS
      <3>3. x = [d EXCEPT !.type = t, !.coverages = c]
        BY <3>1, <3>2
      <3>4. c \in SUBSET Coverages
        BY <3>1, <3>2 DEF Typical, Coverages, PolicyTypes, PolicyDrafts
      <3> QED BY <1>2, <3>3, <3>4 DEF PolicyDrafts
    <2>2. CASE x \in RidersTyped(d)
      BY <1>2, <2>2, RidersTypedFit
    <2>3. CASE x \in Put(d, "name", TypedNames)
      BY <1>2, <2>3 DEF Put, PolicyDrafts
    <2>4. CASE x \in Put(d, "premium", TypedAmounts)
      BY <1>2, <2>4, TypedFits DEF Put, PolicyDrafts, DraftAmounts
    <2>5. CASE x \in Put(d, "insured", Members \cup {None})
      BY <1>2, <2>5 DEF Put, PolicyDrafts
    <2>6. CASE x \in Put(d, "insuredName", TypedNames)
      BY <1>2, <2>6 DEF Put, PolicyDrafts
    <2>7. CASE x \in Put(d, "renewable", BOOLEAN)
      BY <1>2, <2>7 DEF Put, PolicyDrafts
    <2>8. CASE x \in Put(d, "renewal", {Blank, "d1"})
      BY <1>2, <2>8 DEF Put, PolicyDrafts
    <2>9. CASE \E c \in Coverages :
                 x = [d EXCEPT !.coverages = IF c \in @ THEN @ \ {c} ELSE @ \cup {c}]
      <3>1. PICK c \in Coverages :
              x = [d EXCEPT !.coverages = IF c \in @ THEN @ \ {c} ELSE @ \cup {c}]
        BY <2>9
      <3>2. PICK s : s = IF c \in d.coverages THEN d.coverages \ {c} ELSE d.coverages \cup {c}
        OBVIOUS
      <3>3. s \in SUBSET Coverages /\ x = [d EXCEPT !.coverages = s]
        BY <3>1, <3>2 DEF PolicyDrafts
      <3> QED BY <1>2, <3>3 DEF PolicyDrafts
    <2>10. CASE x \in Put(d, "rule", {Blank, "r"})
      BY <1>2, <2>10 DEF Put, PolicyDrafts
    <2> QED BY <1>2, <2>1, <2>2, <2>3, <2>4, <2>5, <2>6, <2>7, <2>8, <2>9, <2>10
            DEF PolicyTyped
  <1> QED BY <1>1, <1>2, PolicyDraftFits, PolicyIs DEF DraftsStay, OnRow, Opens

\* The body of a draft that fits, and the riders that are written for it.
LEMMA PolicySent ==
  ASSUME NEW r, r # None => r \in PolicyRow /\ PolicyFits(r), NEW d \in PolicyDrafts(r),
         Len(d.riders) <= 2, NEW b, b = PolicyBody(d, r)
  PROVE  /\ b = [name |-> b.name, type |-> b.type, insured |-> b.insured,
                insuredName |-> b.insuredName, premium |-> b.premium,
                renewable |-> b.renewable, renewal |-> b.renewal,
                coverages |-> b.coverages, riders |-> b.riders, rule |-> b.rule]
         /\ b.name = d.name /\ b.type = d.type /\ b.insured = d.insured
         /\ b.insuredName = (IF d.insured = None THEN OrNone(d.insuredName) ELSE None)
         /\ b.premium = d.premium
         /\ b.renewable <=> (d.renewable \/ d.type = "auto")
         /\ b.renewable \in BOOLEAN
         /\ b.renewal = (IF d.renewable \/ d.type = "auto" THEN OrNone(d.renewal) ELSE None)
         /\ b.coverages = d.coverages /\ b.rule = OrNone(d.rule)
         /\ DOMAIN b.riders = DOMAIN d.riders
         /\ b.riders = [i \in DOMAIN d.riders |-> RiderBody(d.riders[i])]
  <1>1. PICK v, n, x :
          /\ v = (d.renewable \/ d.type = "auto")
          /\ n = (IF d.insured = None THEN OrNone(d.insuredName) ELSE None)
          /\ x = [i \in DOMAIN d.riders |-> RiderBody(d.riders[i])]
    OBVIOUS
  <1>2. PICK w : w = (IF v THEN OrNone(d.renewal) ELSE None)
    OBVIOUS
  <1>3. b = [d EXCEPT !.insuredName = n, !.renewable = v, !.renewal = w, !.riders = x,
                      !.rule = OrNone(d.rule)]
    BY <1>1, <1>2 DEF PolicyBody
  <1>4. /\ b.name = d.name /\ b.type = d.type /\ b.insured = d.insured
        /\ b.premium = d.premium /\ b.coverages = d.coverages
    BY <1>3 DEF PolicyDrafts
  <1>5. /\ b.insuredName = n /\ b.renewable = v /\ b.renewal = w /\ b.riders = x
        /\ b.rule = OrNone(d.rule)
    BY <1>3 DEF PolicyDrafts
  <1>6. b = [name |-> b.name, type |-> b.type, insured |-> b.insured,
             insuredName |-> b.insuredName, premium |-> b.premium,
             renewable |-> b.renewable, renewal |-> b.renewal,
             coverages |-> b.coverages, riders |-> b.riders, rule |-> b.rule]
    BY <1>3 DEF PolicyDrafts
  <1>7. v \in BOOLEAN /\ (v <=> (d.renewable \/ d.type = "auto"))
    BY <1>1
  <1> QED BY <1>1, <1>2, <1>4, <1>5, <1>6, <1>7

\* One rider on its way from the draft to the body.
LEMMA RiderSent ==
  ASSUME NEW r, NEW x \in DraftRiders(r), NEW y, y = RiderBody(x)
  PROVE  /\ y = [id |-> x.id, coverage |-> x.coverage, amount |-> OrNone(x.amount),
                 premium |-> Won(x.premium), finish |-> x.finish]
         /\ y.id = x.id /\ y.coverage = x.coverage /\ y.amount = OrNone(x.amount)
         /\ y.premium = Won(x.premium) /\ y.finish = x.finish
         /\ OptAmountFits(y.amount)
         /\ ~AmountFits(y.premium) => x.premium = TooBig
         /\ AmountFits(y.premium) => Won(x.premium) \in Nat
  <1>1. y = [id |-> x.id, coverage |-> x.coverage, amount |-> OrNone(x.amount),
             premium |-> Won(x.premium), finish |-> x.finish]
    BY DEF DraftRiders, RiderBody
  <1>2. x.amount \in {Blank} \cup Nat /\ x.premium \in DraftAmounts
    BY DEF DraftRiders
  <1>3. OptAmountFits(OrNone(x.amount))
    BY <1>2 DEF OptAmountFits, AmountFits, OrNone
  <1>4. /\ ~AmountFits(Won(x.premium)) => x.premium = TooBig
        /\ AmountFits(Won(x.premium)) => Won(x.premium) \in Nat
    BY <1>2 DEF DraftAmounts, AmountFits, Won
  <1> QED BY <1>1, <1>3, <1>4

\* What is written of a draft: the riders with their numbers, and the coverages
\* they decide.
PolicyStands(w, d) ==
    /\ w.name = d.name /\ w.type = d.type /\ w.insured = d.insured
    /\ w.insuredName = (IF d.insured = None THEN OrNone(d.insuredName) ELSE None)
    /\ w.premium = Won(d.premium)
    /\ w.renewable <=> (d.renewable \/ d.type = "auto")
    /\ w.renewal = (IF d.renewable \/ d.type = "auto" THEN OrNone(d.renewal) ELSE None)
    /\ w.coverages = Covered(d.riders, d.coverages) /\ w.rule = OrNone(d.rule)
    /\ DOMAIN w.riders = DOMAIN d.riders
    /\ \A i \in DOMAIN d.riders :
          w.riders[i] = [id |-> IdOf(d.riders, i), coverage |-> d.riders[i].coverage,
                         amount |-> OrNone(d.riders[i].amount),
                         premium |-> Won(d.riders[i].premium),
                         finish |-> d.riders[i].finish]

\* The coverages are decided by those of the riders.
LEMMA CoveredAlike ==
  ASSUME NEW x, NEW y, Riders(x), DOMAIN y = DOMAIN x, (y = <<>>) <=> (x = <<>>),
         \A i \in DOMAIN x : y[i].coverage = x[i].coverage, NEW c
  PROVE  /\ Covered(y, c) = Covered(x, c)
         /\ Covered(y, Covered(x, c)) = Covered(x, c)
  <1>1. {y[i].coverage : i \in DOMAIN y} = {x[i].coverage : i \in DOMAIN x}
    OBVIOUS
  <1> QED BY <1>1 DEF Covered

LEMMA NoneOrSome ==
  ASSUME NEW S, NEW x \in Seq(S), NEW T, NEW y \in Seq(T), DOMAIN y = DOMAIN x
  PROVE  y = <<>> <=> x = <<>>
  <1>1. /\ Len(x) \in Nat /\ DOMAIN x = 1 .. Len(x)
        /\ Len(y) \in Nat /\ DOMAIN y = 1 .. Len(y)
    BY LenProperties
  <1>2. x = <<>> <=> DOMAIN x = {}
    BY <1>1, EmptySeq
  <1>3. y = <<>> <=> DOMAIN y = {}
    BY <1>1, EmptySeq
  <1> QED BY <1>2, <1>3

LEMMA PolicyKept ==
  ASSUME NEW r, r # None => r \in PolicyRow /\ PolicyFits(r), NEW d \in PolicyDrafts(r),
         Len(d.riders) <= 2, PolicyReady(d),
         NEW s, PolicyAccepts(PolicyBody(d, r), s),
         NEW w, w = PolicyWrite(PolicyBody(d, r), s)
  PROVE  w \in PolicyRow /\ PolicyFits(w) /\ PolicyStands(w, d)
  <1>1. PICK b : b = PolicyBody(d, r)
    OBVIOUS
  <1>2. /\ b = [name |-> b.name, type |-> b.type, insured |-> b.insured,
                insuredName |-> b.insuredName, premium |-> b.premium,
                renewable |-> b.renewable, renewal |-> b.renewal,
                coverages |-> b.coverages, riders |-> b.riders, rule |-> b.rule]
        /\ b.name = d.name /\ b.type = d.type /\ b.insured = d.insured
        /\ b.insuredName = (IF d.insured = None THEN OrNone(d.insuredName) ELSE None)
        /\ b.premium = d.premium
        /\ b.renewable <=> (d.renewable \/ d.type = "auto")
        /\ b.renewable \in BOOLEAN
        /\ b.renewal = (IF d.renewable \/ d.type = "auto" THEN OrNone(d.renewal) ELSE None)
        /\ b.coverages = d.coverages /\ b.rule = OrNone(d.rule)
        /\ DOMAIN b.riders = DOMAIN d.riders
        /\ b.riders = [i \in DOMAIN d.riders |-> RiderBody(d.riders[i])]
    BY <1>1, PolicySent
  <1>3. PICK x : x = b.riders
    OBVIOUS
  <1>4. PICK y : y = Numbered(x)
    OBVIOUS
  <1>5. PICK c : c = Covered(x, d.coverages)
    OBVIOUS
  <1>6. /\ Riders(d.riders) /\ d.riders \in Seq(DraftRiders(r))
        /\ \A i \in DOMAIN d.riders : d.riders[i] \in DraftRiders(r)
    BY DraftedRiders
  <1>7. /\ Len(d.riders) \in Nat /\ DOMAIN d.riders = 1 .. Len(d.riders)
        /\ Len(d.riders) <= 2
    BY <1>6 DEF Riders
  <1>8. ASSUME NEW i \in DOMAIN d.riders
        PROVE  /\ x[i] = [id |-> d.riders[i].id, coverage |-> d.riders[i].coverage,
                         amount |-> OrNone(d.riders[i].amount),
                         premium |-> Won(d.riders[i].premium),
                         finish |-> d.riders[i].finish]
               /\ x[i].id = d.riders[i].id /\ x[i].coverage = d.riders[i].coverage
               /\ x[i].amount = OrNone(d.riders[i].amount)
               /\ x[i].premium = Won(d.riders[i].premium)
               /\ x[i].finish = d.riders[i].finish
               /\ AmountFits(x[i].premium) => x[i].premium \in Nat
    <2>1. PICK z : z = d.riders[i]
      OBVIOUS
    <2>2. x[i] = RiderBody(z) /\ z \in DraftRiders(r)
      BY <1>2, <1>3, <1>6, <2>1
    <2> QED BY <2>1, <2>2, RiderSent
  <1>9. /\ DOMAIN x = 1 .. Len(d.riders) /\ x = [i \in 1 .. Len(d.riders) |-> x[i]]
    BY <1>2, <1>3, <1>7
  <1>10. PICK All : All = {x[i] : i \in DOMAIN x}
    OBVIOUS
  <1>11. x \in Seq(All) /\ Len(x) = Len(d.riders)
    <2>1. \A i \in 1 .. Len(d.riders) : x[i] \in All
      BY <1>9, <1>10
    <2> QED BY <1>7, <1>9, <2>1, MadeSeq
  <1>12. Riders(x)
    BY <1>6, <1>7, <1>8, <1>9, <1>11 DEF Riders
  <1>13. /\ DOMAIN y = DOMAIN x
         /\ \A i \in DOMAIN x :
               y[i] = [id |-> IdOf(x, i), coverage |-> x[i].coverage,
                       amount |-> x[i].amount, premium |-> x[i].premium,
                       finish |-> x[i].finish]
    BY <1>4, <1>12, NumberedFits
  <1>14. \A i \in DOMAIN x : IdOf(x, i) \in 1 .. 3 /\ IdOf(x, i) = IdOf(d.riders, i)
    <2>1. ASSUME NEW i \in DOMAIN x
          PROVE  IdOf(x, i) \in 1 .. 3 /\ IdOf(x, i) = IdOf(d.riders, i)
      <3>1. IdOf(x, i) \in 1 .. 3
        BY <1>12, IdFits
      <3>2. DOMAIN x = DOMAIN d.riders /\ \A j \in DOMAIN d.riders : x[j].id = d.riders[j].id
        BY <1>2, <1>3, <1>8
      <3>3. IdOf(x, i) = IdOf(d.riders, i)
        BY <1>6, <3>2, SameIds
      <3> QED BY <3>1, <3>3
    <2> QED BY <2>1
  <1>15. \A i \in DOMAIN x : y[i] \in Rider /\ y[i].id # None /\ y[i].coverage = x[i].coverage
    <2>1. ASSUME NEW i \in DOMAIN x
          PROVE  y[i] \in Rider /\ y[i].id # None /\ y[i].coverage = x[i].coverage
      <3>1. PICK z : z = d.riders[i]
        OBVIOUS
      <3>2. z \in DraftRiders(r)
        BY <1>2, <1>3, <1>6, <2>1, <3>1
      <3>3. AmountFits(x[i].premium)
        BY <1>1, <1>3, <2>1 DEF PolicyAccepts
      <3>4. x[i].premium \in Nat
        BY <1>2, <1>3, <1>8, <2>1, <3>3
      <3>5. x[i].amount \in {None} \cup Nat
        BY <1>2, <1>3, <1>8, <2>1, <3>1, <3>2 DEF OrNone, DraftRiders
      <3>6. x[i].coverage \in {"cancer", "other"} /\ x[i].finish \in {None, "d1"}
        BY <1>2, <1>3, <1>8, <2>1, <3>1, <3>2 DEF DraftRiders
      <3>7. IdOf(x, i) \in 1 .. 3
        BY <1>14, <2>1
      <3>8. PICK k, a, p, cc, ff :
              /\ k = IdOf(x, i) /\ a = x[i].amount /\ p = x[i].premium
              /\ cc = x[i].coverage /\ ff = x[i].finish
        OBVIOUS
      <3>9. y[i] = [id |-> k, coverage |-> cc, amount |-> a, premium |-> p, finish |-> ff]
        BY <1>13, <2>1, <3>8
      <3>10. y[i] \in Rider
        BY <3>4, <3>5, <3>6, <3>7, <3>8, <3>9 DEF Rider
      <3> QED BY <3>7, <3>8, <3>9, <3>10
    <2> QED BY <2>1
  <1>16. y \in Seq(Rider) /\ Len(y) = Len(d.riders)
    <2>1. /\ DOMAIN y = 1 .. Len(d.riders) /\ y = [i \in 1 .. Len(d.riders) |-> y[i]]
      BY <1>4, <1>9, <1>13, NumberedAll
    <2>2. \A i \in 1 .. Len(d.riders) : y[i] \in Rider
      BY <1>9, <1>15
    <2> QED BY <1>7, <2>1, <2>2, MadeSeq
  <1>17. c = Covered(d.riders, d.coverages) /\ Covered(y, c) = c
    <2>1. DOMAIN x = DOMAIN d.riders /\ \A i \in DOMAIN d.riders :
            x[i].coverage = d.riders[i].coverage
      BY <1>2, <1>3, <1>8
    <2>2. (x = <<>> <=> d.riders = <<>>) /\ (y = <<>> <=> x = <<>>)
      BY <1>6, <1>11, <1>13, <1>16, <2>1, NoneOrSome
    <2>3. Covered(x, d.coverages) = Covered(d.riders, d.coverages)
      BY <1>6, <2>1, <2>2, CoveredAlike
    <2>4. Covered(y, Covered(x, d.coverages)) = Covered(x, d.coverages)
      BY <1>12, <1>13, <1>15, <2>2, CoveredAlike
    <2> QED BY <1>5, <2>3, <2>4
  <1>18. c \in SUBSET Coverages
    <2>1. \A i \in DOMAIN x : x[i].coverage \in {"cancer", "other"}
      BY <1>2, <1>3, <1>6, <1>8 DEF DraftRiders
    <2>2. d.coverages \in SUBSET Coverages
      BY DEF PolicyDrafts
    <2> QED BY <1>5, <2>1, <2>2 DEF Covered, Coverages
  <1>19. w = [b EXCEPT !.premium = Won(b.premium), !.riders = y, !.coverages = c]
    BY <1>1, <1>2, <1>3, <1>4, <1>5 DEF PolicyWrite
  <1>20. /\ w.name = d.name /\ w.type = d.type /\ w.insured = d.insured
         /\ w.insuredName = b.insuredName /\ w.premium = Won(d.premium)
    BY <1>2, <1>19
  <1>21. w.renewal = b.renewal /\ w.rule = b.rule /\ w.riders = y /\ w.coverages = c
    BY <1>2, <1>19
  <1>22. w.renewable = b.renewable
    BY <1>2, <1>19
  <1>23. w = [name |-> w.name, type |-> w.type, insured |-> w.insured,
              insuredName |-> w.insuredName, premium |-> w.premium,
              renewable |-> w.renewable, renewal |-> w.renewal,
              coverages |-> w.coverages, riders |-> w.riders, rule |-> w.rule]
    BY <1>2, <1>19
  <1>24. /\ d.name \in Names /\ d.type \in PolicyTypes /\ d.insured \in Owners
         /\ Won(d.premium) \in Nat
    <2>1. d.name \in Names
      BY DEF PolicyReady, PolicyDrafts, TypedNames
    <2>2. d.insured \in Owners
      <3>1. r # None => r.insured \in Owners
        BY DEF PolicyRow
      <3>2. d.insured \in Members \cup {None, IF r = None THEN None ELSE r.insured}
        BY DEF PolicyDrafts
      <3> QED BY <3>1, <3>2 DEF Owners
    <2>3. AmountFits(d.premium)
      BY <1>1, <1>2 DEF PolicyAccepts
    <2> QED BY <2>1, <2>2, <2>3, AmountFacts DEF PolicyDrafts
  <1>25. /\ b.insuredName \in Names \cup {None} /\ b.renewal \in {None, "d1"}
         /\ b.rule \in {None, "r"}
    BY <1>2 DEF PolicyDrafts, TypedNames, OrNone
  <1>26. w \in PolicyRow
    BY <1>2, <1>16, <1>18, <1>20, <1>21, <1>22, <1>23, <1>24, <1>25 DEF PolicyRow
  <1>27. PolicyFits(w)
    <2>1. \A i \in DOMAIN w.riders : w.riders[i].id # None
      BY <1>13, <1>15, <1>21
    <2>2. w.insured # None => w.insuredName = None
      BY <1>2, <1>20
    <2>3. (w.type = "auto" => w.renewable) /\ (~w.renewable => w.renewal = None)
      BY <1>2, <1>20, <1>21, <1>22
    <2>4. Len(w.riders) <= 2 /\ w.coverages = Covered(w.riders, w.coverages)
      BY <1>7, <1>16, <1>17, <1>21
    <2> QED BY <2>1, <2>2, <2>3, <2>4 DEF PolicyFits
  <1>28. PolicyStands(w, d)
    <2>1. DOMAIN w.riders = DOMAIN d.riders
      BY <1>2, <1>3, <1>13, <1>21
    <2>2. \A i \in DOMAIN d.riders :
            w.riders[i] = [id |-> IdOf(d.riders, i), coverage |-> d.riders[i].coverage,
                           amount |-> OrNone(d.riders[i].amount),
                           premium |-> Won(d.riders[i].premium),
                           finish |-> d.riders[i].finish]
      <3>1. ASSUME NEW i \in DOMAIN d.riders
            PROVE  w.riders[i] = [id |-> IdOf(d.riders, i),
                                  coverage |-> d.riders[i].coverage,
                                  amount |-> OrNone(d.riders[i].amount),
                                  premium |-> Won(d.riders[i].premium),
                                  finish |-> d.riders[i].finish]
        <4>1. i \in DOMAIN x
          BY <1>2, <1>3, <3>1
        <4> QED BY <1>8, <1>13, <1>14, <1>21, <3>1, <4>1
      <3> QED BY <3>1
    <2>3. w.renewable <=> (d.renewable \/ d.type = "auto")
      BY <1>2, <1>22
    <2>4. w.coverages = Covered(d.riders, d.coverages)
      BY <1>17, <1>21
    <2> QED BY <1>2, <1>20, <1>21, <2>1, <2>2, <2>3, <2>4 DEF PolicyStands
  <1> QED BY <1>26, <1>27, <1>28

LEMMA PolicyRequestsFit == RequestsFit("policy")
  <1>1. ASSUME NEW r, r # None => r \in PolicyRow /\ PolicyFits(r),
               NEW d \in PolicyDrafts(r), Len(d.riders) <= 2, PolicyReady(d),
               NEW s, PolicyAccepts(PolicyBody(d, r), s)
        PROVE  /\ PolicyWrite(PolicyBody(d, r), s) \in PolicyRow
               /\ PolicyFits(PolicyWrite(PolicyBody(d, r), s))
    BY <1>1, PolicyKept
  <1> QED BY <1>1, PolicyIs DEF RequestsFit, OnRow, Opens

\* A draft that is refused on the row it was made for has an amount that the
\* columns cannot hold.
LEMMA PolicyRefused ==
  ASSUME NEW r, r # None => r \in PolicyRow /\ PolicyFits(r), NEW d \in PolicyDrafts(r),
         Len(d.riders) <= 2, ~PolicyAccepts(PolicyBody(d, r), r)
  PROVE  d.premium = TooBig \/ \E i \in DOMAIN d.riders : d.riders[i].premium = TooBig
  <1>1. PICK b : b = PolicyBody(d, r)
    OBVIOUS
  <1>2. /\ b.insured = d.insured /\ b.premium = d.premium
        /\ DOMAIN b.riders = DOMAIN d.riders
        /\ b.riders = [i \in DOMAIN d.riders |-> RiderBody(d.riders[i])]
    BY <1>1, PolicySent
  <1>3. ASSUME NEW i \in DOMAIN d.riders
        PROVE  /\ b.riders[i].id = d.riders[i].id
               /\ OptAmountFits(b.riders[i].amount)
               /\ ~AmountFits(b.riders[i].premium) => d.riders[i].premium = TooBig
    <2>1. PICK z : z = d.riders[i]
      OBVIOUS
    <2>2. b.riders[i] = RiderBody(z) /\ z \in DraftRiders(r)
      BY <1>2, <2>1, DraftedRiders
    <2> QED BY <2>1, <2>2, RiderSent
  <1>4. b.insured \in Members \cup {None} \/ (r # None => b.insured = r.insured)
    BY <1>2 DEF PolicyDrafts
  <1>5. r # None => \A i \in DOMAIN b.riders : b.riders[i].id # None =>
                       \E j \in DOMAIN r.riders : r.riders[j].id = b.riders[i].id
    <2>1. ASSUME r # None, NEW i \in DOMAIN d.riders, d.riders[i].id # None
          PROVE  \E j \in DOMAIN r.riders : r.riders[j].id = d.riders[i].id
      BY <2>1, DraftedRiders
    <2>2. \A i \in DOMAIN d.riders : b.riders[i].id = d.riders[i].id
      BY <1>3
    <2> HIDE <1>3
    <2> QED BY <1>2, <2>1, <2>2
  <1>6. ~AmountFits(b.premium) => d.premium = TooBig
    BY <1>2, AmountFacts DEF PolicyDrafts
  <1> QED BY <1>1, <1>2, <1>3, <1>4, <1>5, <1>6 DEF PolicyAccepts

LEMMA PolicyUntouched ==
  ASSUME NEW r \in PolicyRow, PolicyFits(r), r # None,
         PolicyAccepts(PolicyBody(PolicyDraft(r), r), r), PolicyReady(PolicyDraft(r))
  PROVE  PolicyWrite(PolicyBody(PolicyDraft(r), r), r) = r
  <1>1. PICK d : d = PolicyDraft(r)
    OBVIOUS
  <1>2. /\ d \in PolicyDrafts(r) /\ Len(d.riders) <= 2
        /\ d.name = r.name /\ d.type = r.type /\ d.insured = r.insured
        /\ d.insuredName = OrBlank(r.insuredName) /\ d.premium = r.premium
        /\ (d.renewable <=> r.renewable) /\ d.renewal = OrBlank(r.renewal)
        /\ d.coverages = r.coverages /\ d.rule = OrBlank(r.rule)
        /\ DOMAIN d.riders = DOMAIN r.riders
        /\ \A i \in DOMAIN r.riders : d.riders[i] = RiderDraft(r.riders[i])
    BY <1>1, PolicyDraftFits
  <1>3. PICK w : w = PolicyWrite(PolicyBody(d, r), r)
    OBVIOUS
  <1>4. w \in PolicyRow /\ PolicyFits(w) /\ PolicyStands(w, d)
    BY <1>1, <1>2, <1>3, PolicyKept
  <1>5. /\ OrNone(OrBlank(r.insuredName)) = r.insuredName
        /\ OrNone(OrBlank(r.renewal)) = r.renewal /\ OrNone(OrBlank(r.rule)) = r.rule
        /\ Won(r.premium) = r.premium
    BY DEF PolicyRow, OrNone, OrBlank, Won, Names
  <1>6. ASSUME NEW i \in DOMAIN r.riders
        PROVE  w.riders[i] = r.riders[i]
    <2>1. PICK z : z = r.riders[i]
      OBVIOUS
    <2>2. z \in Rider /\ z.id # None
      BY <2>1, RowRiders
    <2>3. /\ d.riders[i].id = z.id /\ d.riders[i].coverage = z.coverage
          /\ d.riders[i].amount = OrBlank(z.amount) /\ d.riders[i].premium = z.premium
          /\ d.riders[i].finish = z.finish
      <3>1. PICK y : y = d.riders[i]
        OBVIOUS
      <3>2. y = [z EXCEPT !.amount = OrBlank(z.amount)]
        BY <1>2, <2>1, <3>1 DEF RiderDraft
      <3>3. /\ y.id = z.id /\ y.coverage = z.coverage /\ y.amount = OrBlank(z.amount)
            /\ y.premium = z.premium /\ y.finish = z.finish
        BY <2>2, <3>2 DEF Rider
      <3> QED BY <3>1, <3>3
    <2>4. OrNone(OrBlank(z.amount)) = z.amount /\ Won(z.premium) = z.premium
      BY <2>2 DEF Rider, OrNone, OrBlank, Won
    <2>5. IdOf(d.riders, i) = z.id
      BY <2>2, <2>3 DEF IdOf
    <2>6. w.riders[i] = [id |-> z.id, coverage |-> z.coverage, amount |-> z.amount,
                         premium |-> z.premium, finish |-> z.finish]
      <3>1. w.riders[i] = [id |-> IdOf(d.riders, i), coverage |-> d.riders[i].coverage,
                           amount |-> OrNone(d.riders[i].amount),
                           premium |-> Won(d.riders[i].premium),
                           finish |-> d.riders[i].finish]
        BY <1>2, <1>4 DEF PolicyStands
      <3> QED BY <2>3, <2>4, <2>5, <3>1
    <2>7. z = [id |-> z.id, coverage |-> z.coverage, amount |-> z.amount,
               premium |-> z.premium, finish |-> z.finish]
      BY <2>2 DEF Rider
    <2> QED BY <2>1, <2>6, <2>7
  <1>7. w.riders = r.riders
    <2>1. r.riders \in Seq(Rider) /\ w.riders \in Seq(Rider)
      BY <1>4 DEF PolicyRow
    <2>2. DOMAIN w.riders = DOMAIN r.riders
      BY <1>2, <1>4 DEF PolicyStands
    <2>3. /\ Len(r.riders) \in Nat /\ DOMAIN r.riders = 1 .. Len(r.riders)
          /\ Len(w.riders) \in Nat /\ DOMAIN w.riders = 1 .. Len(w.riders)
      BY <2>1, LenProperties
    <2>4. r.riders \in [DOMAIN r.riders -> Rider] /\ w.riders \in [DOMAIN r.riders -> Rider]
      BY <2>1, <2>2, <2>3, LenProperties
    <2> QED BY <1>6, <2>4
  <1>8. w.coverages = r.coverages
    <2>1. Covered(w.riders, w.coverages) = w.coverages
          /\ Covered(r.riders, r.coverages) = r.coverages
      BY <1>4 DEF PolicyFits
    <2>2. w.coverages = Covered(d.riders, r.coverages)
      BY <1>2, <1>4 DEF PolicyStands
    <2>3. \A i \in DOMAIN r.riders : d.riders[i].coverage = r.riders[i].coverage
      <3>1. ASSUME NEW i \in DOMAIN r.riders
            PROVE  d.riders[i].coverage = r.riders[i].coverage
        <4>1. r.riders[i] \in Rider
          BY RowRiders
        <4>2. PICK z : z = r.riders[i]
          OBVIOUS
        <4>3. RiderDraft(z).coverage = z.coverage
          BY <4>1, <4>2 DEF RiderDraft, Rider
        <4>4. d.riders[i] = RiderDraft(z)
          BY <1>2, <4>2
        <4> QED BY <4>2, <4>3, <4>4
      <3> QED BY <3>1
    <2>4. Riders(r.riders) /\ r.riders \in Seq(Rider) /\ d.riders \in Seq(DraftRiders(r))
      BY <1>2, RowRiders, DraftedRiders
    <2>5. d.riders = <<>> <=> r.riders = <<>>
      BY <1>2, <2>4, NoneOrSome
    <2>6. Covered(d.riders, r.coverages) = Covered(r.riders, r.coverages)
      BY <1>2, <2>3, <2>4, <2>5, CoveredAlike
    <2> QED BY <2>1, <2>2, <2>6
  <1>9. /\ w.name = r.name /\ w.type = r.type /\ w.insured = r.insured
        /\ w.premium = r.premium /\ w.rule = r.rule
    BY <1>2, <1>4, <1>5 DEF PolicyStands
  <1>10. w.insuredName = r.insuredName
    BY <1>2, <1>4, <1>5 DEF PolicyStands, PolicyFits
  <1>11. /\ w.renewable = r.renewable
         /\ w.renewal = r.renewal
    <2>1. w.renewable <=> (r.renewable \/ r.type = "auto")
      BY <1>2, <1>4 DEF PolicyStands
    <2>2. w.renewal = (IF r.renewable \/ r.type = "auto" THEN OrNone(OrBlank(r.renewal))
                       ELSE None)
      BY <1>2, <1>4 DEF PolicyStands
    <2>3. (r.type = "auto" => r.renewable) /\ (~r.renewable => r.renewal = None)
      BY DEF PolicyFits
    <2>4. w.renewable \in BOOLEAN /\ r.renewable \in BOOLEAN
      BY <1>4 DEF PolicyRow
    <2> QED BY <1>5, <2>1, <2>2, <2>3, <2>4
  <1>12. ASSUME NEW z \in PolicyRow
         PROVE  z = [name |-> z.name, type |-> z.type, insured |-> z.insured,
                     insuredName |-> z.insuredName, premium |-> z.premium,
                     renewable |-> z.renewable, renewal |-> z.renewal,
                     coverages |-> z.coverages, riders |-> z.riders, rule |-> z.rule]
    BY DEF PolicyRow
  <1>13. w = r
    <2>1. /\ r = [name |-> r.name, type |-> r.type, insured |-> r.insured,
                  insuredName |-> r.insuredName, premium |-> r.premium,
                  renewable |-> r.renewable, renewal |-> r.renewal,
                  coverages |-> r.coverages, riders |-> r.riders, rule |-> r.rule]
          /\ w = [name |-> w.name, type |-> w.type, insured |-> w.insured,
                  insuredName |-> w.insuredName, premium |-> w.premium,
                  renewable |-> w.renewable, renewal |-> w.renewal,
                  coverages |-> w.coverages, riders |-> w.riders, rule |-> w.rule]
      BY <1>4, <1>12
    <2> QED BY <1>7, <1>8, <1>9, <1>10, <1>11, <2>1
  <1> QED BY <1>1, <1>3, <1>13

LEMMA PolicyShown ==
  ASSUME NEW r, r # None => r \in PolicyRow /\ PolicyFits(r), NEW d \in PolicyDrafts(r),
         Len(d.riders) <= 2, NEW w \in PolicyRow, PolicyFits(w),
         PolicyStands(w, d), PolicyReady(d)
  PROVE  PolicyDraft(w) = PolicySettled(d, r)
  <1>1. PICK y : y = PolicyDraft(w)
    OBVIOUS
  <1>2. PICK x : x = [i \in DOMAIN d.riders |->
                        [d.riders[i] EXCEPT !.premium = Won(d.riders[i].premium)]]
    OBVIOUS
  <1>3. PICK n : n = Numbered(x)
    OBVIOUS
  <1>4. /\ Riders(d.riders) /\ \A i \in DOMAIN d.riders : d.riders[i] \in DraftRiders(r)
    BY DraftedRiders
  <1>5. /\ Len(d.riders) \in Nat /\ DOMAIN d.riders = 1 .. Len(d.riders)
    BY <1>4 DEF Riders
  <1>6. ASSUME NEW i \in DOMAIN d.riders
        PROVE  /\ x[i] = [id |-> d.riders[i].id, coverage |-> d.riders[i].coverage,
                         amount |-> d.riders[i].amount,
                         premium |-> Won(d.riders[i].premium),
                         finish |-> d.riders[i].finish]
               /\ x[i].id = d.riders[i].id /\ x[i].coverage = d.riders[i].coverage
               /\ x[i].amount = d.riders[i].amount
               /\ x[i].premium = Won(d.riders[i].premium)
               /\ x[i].finish = d.riders[i].finish
    <2>1. PICK z, p : z = d.riders[i] /\ p = Won(z.premium)
      OBVIOUS
    <2>2. x[i] = [z EXCEPT !.premium = p] /\ z \in DraftRiders(r)
      BY <1>2, <1>4, <2>1
    <2>3. x[i] = [id |-> z.id, coverage |-> z.coverage, amount |-> z.amount,
                  premium |-> p, finish |-> z.finish]
      BY <2>2 DEF DraftRiders
    <2> QED BY <2>1, <2>3
  <1>7. DOMAIN x = 1 .. Len(d.riders) /\ x = [i \in 1 .. Len(d.riders) |-> x[i]]
    BY <1>2, <1>5
  <1>8. Riders(x)
    <2>1. PICK All : All = {x[i] : i \in DOMAIN x}
      OBVIOUS
    <2>2. \A i \in 1 .. Len(d.riders) : x[i] \in All
      BY <1>7, <2>1
    <2>3. Len(x) = Len(d.riders)
      BY <1>5, <1>7, <2>2, MadeSeq
    <2> QED BY <1>4, <1>5, <1>6, <1>7, <2>3 DEF Riders
  <1>9. /\ DOMAIN n = DOMAIN d.riders
        /\ \A i \in DOMAIN d.riders :
              n[i] = [id |-> IdOf(x, i), coverage |-> x[i].coverage,
                      amount |-> x[i].amount, premium |-> x[i].premium,
                      finish |-> x[i].finish]
    <2>1. DOMAIN x = DOMAIN d.riders
      BY <1>5, <1>7
    <2>2. /\ DOMAIN n = DOMAIN x
          /\ \A i \in DOMAIN x :
                n[i] = [id |-> IdOf(x, i), coverage |-> x[i].coverage,
                        amount |-> x[i].amount, premium |-> x[i].premium,
                        finish |-> x[i].finish]
      BY <1>3, <1>8, NumberedFits
    <2> QED BY <2>1, <2>2
  <1>10. \A i \in DOMAIN d.riders : IdOf(x, i) = IdOf(d.riders, i)
    <2>1. ASSUME NEW i \in DOMAIN d.riders
          PROVE  IdOf(x, i) = IdOf(d.riders, i)
      <3>1. DOMAIN x = DOMAIN d.riders /\ \A j \in DOMAIN d.riders : x[j].id = d.riders[j].id
        BY <1>5, <1>6, <1>7
      <3> QED BY <1>4, <2>1, <3>1, SameIds
    <2> QED BY <2>1
  <1>11. /\ y.name = w.name /\ y.type = w.type /\ y.insured = w.insured
         /\ y.insuredName = OrBlank(w.insuredName) /\ y.premium = w.premium
         /\ (y.renewable <=> w.renewable) /\ y.renewal = OrBlank(w.renewal)
         /\ y.coverages = w.coverages /\ y.rule = OrBlank(w.rule)
         /\ DOMAIN y.riders = DOMAIN w.riders
         /\ \A i \in DOMAIN w.riders : y.riders[i] = RiderDraft(w.riders[i])
    BY <1>1, PolicyDraftFits
  <1>12. DOMAIN w.riders = DOMAIN d.riders
    BY DEF PolicyStands
  <1>13. ASSUME NEW i \in DOMAIN d.riders
         PROVE  y.riders[i] = n[i]
    <2>1. PICK z, k, p : z = d.riders[i] /\ k = IdOf(d.riders, i) /\ p = Won(z.premium)
      OBVIOUS
    <2>2. PICK v : v = w.riders[i]
      OBVIOUS
    <2>3. v = [id |-> k, coverage |-> z.coverage, amount |-> OrNone(z.amount),
               premium |-> p, finish |-> z.finish]
      BY <2>1, <2>2 DEF PolicyStands
    <2>4. y.riders[i] = RiderDraft(v)
      BY <1>11, <1>12, <2>2
    <2>5. RiderDraft(v) = [id |-> k, coverage |-> z.coverage,
                           amount |-> OrBlank(OrNone(z.amount)), premium |-> p,
                           finish |-> z.finish]
      BY <2>3 DEF RiderDraft
    <2>6. OrBlank(OrNone(z.amount)) = z.amount
      <3>1. z.amount \in {Blank} \cup Nat
        BY <1>4, <2>1 DEF DraftRiders
      <3> QED BY <3>1 DEF OrBlank, OrNone
    <2>7. n[i] = [id |-> k, coverage |-> z.coverage, amount |-> z.amount, premium |-> p,
                  finish |-> z.finish]
      BY <1>6, <1>9, <1>10, <2>1
    <2> QED BY <2>4, <2>5, <2>6, <2>7
  <1>14. y.riders = n
    <2>1. y.riders = [i \in DOMAIN d.riders |-> y.riders[i]]
      <3>1. y.riders = [i \in DOMAIN w.riders |-> RiderDraft(w.riders[i])]
        BY <1>1 DEF PolicyDraft, PolicyRow
      <3> QED BY <1>12, <3>1
    <2>2. n = [i \in DOMAIN d.riders |-> n[i]]
      BY <1>3, <1>5, <1>7, NumberedAll
    <2> QED BY <1>13, <2>1, <2>2
  <1>15. PICK a, g :
           /\ a = (IF d.insured = None THEN d.insuredName ELSE Blank)
           /\ g = (IF d.renewable \/ d.type = "auto" THEN d.renewal ELSE Blank)
    OBVIOUS
  <1>16. PICK v, c : v = (d.renewable \/ d.type = "auto") /\ c = Covered(d.riders, d.coverages)
    OBVIOUS
  <1>17. PICK z : z = PolicySettled(d, r)
    OBVIOUS
  <1>18. z = [name |-> z.name, type |-> z.type, insured |-> z.insured,
              insuredName |-> z.insuredName, premium |-> z.premium,
              renewable |-> z.renewable, renewal |-> z.renewal,
              coverages |-> z.coverages, riders |-> z.riders, rule |-> z.rule]
    BY <1>17 DEF PolicySettled, PolicyDrafts
  <1>19. /\ z.name = d.name /\ z.type = d.type /\ z.insured = d.insured
         /\ z.premium = d.premium /\ z.rule = d.rule
    BY <1>17 DEF PolicySettled, PolicyDrafts
  <1>20. z.insuredName = a /\ z.renewal = g
    BY <1>15, <1>17 DEF PolicySettled, PolicyDrafts
  <1>21. z.coverages = c
    BY <1>16, <1>17 DEF PolicySettled, PolicyDrafts
  <1>22. z.riders = n
    <2>1. z.riders = Numbered([i \in DOMAIN d.riders |-> RiderSettled(d.riders[i])])
      BY <1>17 DEF PolicySettled, PolicyDrafts
    <2>2. x = [i \in DOMAIN d.riders |-> RiderSettled(d.riders[i])]
      BY <1>2 DEF RiderSettled
    <2> QED BY <1>3, <2>1, <2>2
  <1>23. z.renewable = v
    BY <1>16, <1>17 DEF PolicySettled, PolicyDrafts
  <1>24. y = [name |-> y.name, type |-> y.type, insured |-> y.insured,
              insuredName |-> y.insuredName, premium |-> y.premium,
              renewable |-> y.renewable, renewal |-> y.renewal,
              coverages |-> y.coverages, riders |-> y.riders, rule |-> y.rule]
    BY <1>1, PolicyDraftFits
  <1>25. /\ y.name = z.name /\ y.type = z.type /\ y.insured = z.insured
         /\ y.coverages = z.coverages /\ y.rule = z.rule
    <2>1. d.rule \in {Blank, "r"}
      BY DEF PolicyDrafts
    <2>2. OrBlank(OrNone(d.rule)) = d.rule
      BY <2>1 DEF OrBlank, OrNone
    <2>3. y.rule = OrBlank(OrNone(d.rule))
      BY <1>11 DEF PolicyStands
    <2>4. y.name = d.name /\ y.type = d.type /\ y.insured = d.insured /\ y.coverages = c
      BY <1>11, <1>16 DEF PolicyStands
    <2> QED BY <1>19, <1>21, <2>2, <2>3, <2>4
  <1>26. y.premium = z.premium
    <2>1. d.premium # Blank
      BY DEF PolicyReady
    <2> QED BY <1>11, <1>19, <2>1 DEF PolicyStands, Won
  <1>27. y.insuredName = z.insuredName
    <2>1. d.insuredName # None /\ OrBlank(None) = Blank
          /\ OrBlank(OrNone(d.insuredName)) = d.insuredName
      BY DEF PolicyDrafts, TypedNames, Names, OrBlank, OrNone
    <2>2. y.insuredName = OrBlank(IF d.insured = None THEN OrNone(d.insuredName) ELSE None)
      BY <1>11 DEF PolicyStands
    <2> QED BY <1>15, <1>20, <2>1, <2>2
  <1>28. y.renewable = z.renewable
    <2>1. y.renewable <=> v
      BY <1>11, <1>16 DEF PolicyStands
    <2>2. y.renewable \in BOOLEAN /\ v \in BOOLEAN
      BY <1>1, <1>16 DEF PolicyDraft, PolicyRow
    <2> QED BY <1>23, <2>1, <2>2
  <1>29. y.renewal = z.renewal
    <2>1. OrBlank(OrNone(d.renewal)) = d.renewal /\ OrBlank(None) = Blank
      BY DEF PolicyDrafts, OrBlank, OrNone
    <2>2. w.renewal = (IF d.renewable \/ d.type = "auto" THEN OrNone(d.renewal) ELSE None)
      BY DEF PolicyStands
    <2> QED BY <1>11, <1>15, <1>20, <2>1, <2>2
  <1>30. y = z
    BY <1>14, <1>18, <1>22, <1>24, <1>25, <1>26, <1>27, <1>28, <1>29
  <1> QED BY <1>1, <1>17, <1>30

LEMMA PolicyAnswers == Answers("policy")
  <1>1. ASSUME NEW t, NEW r, NEW d \in PolicyDrafts(r), Len(d.riders) <= 2,
               OnRow("policy", t, r), ~PolicyAccepts(PolicyBody(d, r), r)
        PROVE  Unsuited("policy", d, Original("policy", t, r))
    <2>1. PICK o : o = Original("policy", t, r)
      OBVIOUS
    <2>2. r # None => r \in PolicyRow /\ PolicyFits(r)
      BY <1>1, PolicyIs DEF OnRow, Opens
    <2>3. o.premium # TooBig /\ \A i \in DOMAIN o.riders : o.riders[i].premium # TooBig
      <3>1. CASE t = New
        <4>1. o = PolicyEmpty
          BY <2>1, <3>1, PolicyIs DEF Original
        <4>2. o.premium = Blank /\ o.riders = <<>>
          BY <4>1 DEF PolicyEmpty
        <4> QED BY <4>2
      <3>2. CASE t # New
        <4>1. r \in PolicyRow /\ PolicyFits(r) /\ r # None /\ o = PolicyDraft(r)
          BY <1>1, <2>1, <2>2, <3>2, PolicyIs DEF Original, OnRow, Opens
        <4>2. /\ o.premium = r.premium /\ DOMAIN o.riders = DOMAIN r.riders
              /\ \A i \in DOMAIN r.riders : o.riders[i] = RiderDraft(r.riders[i])
          BY <4>1, PolicyDraftFits
        <4>3. ASSUME NEW i \in DOMAIN r.riders
              PROVE  o.riders[i].premium # TooBig
          <5>1. PICK x : x = r.riders[i]
            OBVIOUS
          <5>2. x \in Rider
            BY <4>1, <5>1, RowRiders
          <5>3. RiderDraft(x).premium = x.premium
            BY <5>2 DEF RiderDraft, Rider
          <5>4. x.premium # TooBig
            BY <5>2 DEF Rider
          <5> QED BY <4>2, <5>1, <5>3, <5>4
        <4> QED BY <4>1, <4>2, <4>3 DEF PolicyRow
      <3> QED BY <3>1, <3>2
    <2>4. DOMAIN d = {"name", "type", "insured", "insuredName", "premium", "renewable",
                      "renewal", "coverages", "riders", "rule"}
      BY DEF PolicyDrafts
    <2>5. CASE d.premium = TooBig
      BY <2>1, <2>3, <2>4, <2>5 DEF Unsuited, NoInput
    <2>6. CASE \E i \in DOMAIN d.riders : d.riders[i].premium = TooBig
      <3>1. PICK i \in DOMAIN d.riders : d.riders[i].premium = TooBig
        BY <2>6
      <3>2. d.riders # o.riders
        BY <2>3, <3>1
      <3>3. \E j \in DOMAIN d.riders : TooBig \in {d.riders[j].amount, d.riders[j].premium}
        BY <3>1
      <3>4. d["riders"] # o["riders"] /\ "riders" \in DOMAIN d
        BY <2>4, <3>2
      <3> QED BY <2>1, <3>3, <3>4 DEF Unsuited
    <2> QED BY <1>1, <2>2, <2>5, <2>6, PolicyRefused
  <1>2. ASSUME NEW r, r # None => r \in PolicyRow /\ PolicyFits(r),
               NEW d \in PolicyDrafts(r), Len(d.riders) <= 2, PolicyReady(d),
               PolicyAccepts(PolicyBody(d, r), r),
               NEW w, w = PolicyWrite(PolicyBody(d, r), r)
        PROVE  PolicyDraft(w) = PolicySettled(d, r)
    <2>1. w \in PolicyRow /\ PolicyFits(w) /\ PolicyStands(w, d)
      BY <1>2, PolicyKept
    <2> QED BY <1>2, <2>1, PolicyShown
  <1> QED BY <1>1, <1>2, PolicyUntouched, PolicyIs DEF Answers, OnRow, Opens

-----------------------------------------------------------------------------
(* What each coverage should amount to. *)

LEMMA TargetsRowsStay == RowsStay("targets")
  <1>1. TargetsRows \subseteq TargetsRow
    BY DEF TargetsRows, TargetsRow
  <1>2. ASSUME NEW r \in TargetsRow, NEW x \in TargetsElsewhere(r)
        PROVE  x \in TargetsRow
    BY DEF TargetsRow, TargetsElsewhere
  <1> QED BY <1>1, <1>2, TargetsIs DEF RowsStay

LEMMA TargetsDraftsStay == DraftsStay("targets")
  <1>1. ASSUME NEW r \in TargetsRow
        PROVE  r \in TargetsDrafts
    BY DEF TargetsRow, TargetsDrafts, DraftAmounts
  <1>2. ASSUME NEW r, NEW d \in TargetsDrafts, NEW x \in TargetsTyped(d, r)
        PROVE  x \in TargetsDrafts
    BY <1>2, TypedFits DEF TargetsTyped, TargetsDrafts, Put, DraftAmounts
  <1> QED BY <1>1, <1>2, TargetsIs DEF DraftsStay, OnRow, Opens

LEMMA TargetsRequestsFit == RequestsFit("targets")
  <1>1. ASSUME NEW d \in TargetsDrafts, NEW r, NEW s, TargetsAccepts(TargetsBody(d, r), s)
        PROVE  TargetsBody(d, r) \in TargetsRow
    BY <1>1 DEF TargetsDrafts, TargetsBody, TargetsAccepts, TargetsRow, AmountFits,
                DraftAmounts
  <1> QED BY <1>1, TargetsIs DEF RequestsFit, OnRow, Opens

LEMMA TargetsAnswers == Answers("targets")
  <1>1. ASSUME NEW t, NEW r, NEW d \in TargetsDrafts, OnRow("targets", t, r),
               ~TargetsAccepts(TargetsBody(d, r), r)
        PROVE  Unsuited("targets", d, Original("targets", t, r))
    <2>1. d.cancer = TooBig \/ d.death = TooBig
      BY <1>1 DEF TargetsAccepts, TargetsBody, TargetsDrafts, AmountFits, DraftAmounts
    <2>2. LET o == Original("targets", t, r) IN o.cancer # TooBig /\ o.death # TooBig
      BY <1>1, TargetsIs DEF OnRow, Opens, Original, TargetsRow
    <2>3. DOMAIN d = {"cancer", "death"}
      BY DEF TargetsDrafts
    <2> QED BY <2>1, <2>2, <2>3 DEF Unsuited, NoInput
  <1>2. ASSUME NEW r \in TargetsRow
        PROVE  TargetsBody(r, r) = r
    BY DEF TargetsBody, TargetsRow
  <1> QED BY <1>1, <1>2, TargetsIs DEF Answers, OnRow, Opens

-----------------------------------------------------------------------------
(* The settings that are laid over the cached row. *)

LEMMA OverNothing ==
  ASSUME NEW r, r = [k \in DOMAIN r |-> r[k]]
  PROVE  Over(Untouched(r), r) = r
  BY DEF Over, Untouched

LEMMA ThresholdsOver ==
  ASSUME NEW r \in ThresholdsRow, NEW d \in ThresholdsDrafts
  PROVE  Over(d, r) \in ThresholdsRow
  BY DEF ThresholdsRow, ThresholdsDrafts, Over

LEMMA ThresholdsRowsStay == RowsStay("thresholds")
  <1>1. ThresholdsRows \subseteq ThresholdsRow
    BY DEF ThresholdsRows, ThresholdsRow
  <1>2. ASSUME NEW r \in ThresholdsRow, NEW x \in ThresholdsElsewhere(r)
        PROVE  x \in ThresholdsRow
    BY DEF ThresholdsRow, ThresholdsElsewhere
  <1> QED BY <1>1, <1>2, ThresholdsIs DEF RowsStay

LEMMA ThresholdsDraftsStay == DraftsStay("thresholds")
  <1>1. ASSUME NEW r \in ThresholdsRow
        PROVE  Untouched(r) \in ThresholdsDrafts
    BY DEF ThresholdsRow, ThresholdsDrafts, Untouched
  <1>2. ASSUME NEW r, NEW d \in ThresholdsDrafts, NEW x \in ThresholdsTyped(d, r)
        PROVE  x \in ThresholdsDrafts
    <2>1. Presets \subseteq ThresholdsDrafts
      BY DEF Presets, ThresholdsDrafts
    <2>2. Put(d, "warn", {0, 1, 3}) \cup Put(d, "critical", {0, 3}) \subseteq ThresholdsDrafts
      BY DEF Put, ThresholdsDrafts
    <2> QED BY <1>2, <2>1, <2>2 DEF ThresholdsTyped
  <1> QED BY <1>1, <1>2, ThresholdsIs DEF DraftsStay, OnRow, Opens

LEMMA ThresholdsRequestsFit == RequestsFit("thresholds")
  BY ThresholdsOver, ThresholdsIs DEF RequestsFit, OnRow, Opens, ThresholdsBody

LEMMA ThresholdsAnswers == Answers("thresholds")
  <1>1. ASSUME NEW r \in ThresholdsRow
        PROVE  Over(Untouched(r), r) = r
    BY OverNothing DEF ThresholdsRow
  <1> QED BY <1>1, ThresholdsOver, ThresholdsIs
          DEF Answers, OnRow, Opens, ThresholdsBody, ThresholdsAccepts, Gap

LEMMA PrefsOver ==
  ASSUME NEW r \in PrefsRow, NEW d \in PrefsDrafts
  PROVE  Over(d, r) \in PrefsRow
  BY DEF PrefsRow, PrefsDrafts, Over

LEMMA PrefsRowsStay == RowsStay("prefs")
  <1>1. PrefsRows \subseteq PrefsRow
    BY DEF PrefsRows, PrefsRow
  <1>2. ASSUME NEW r \in PrefsRow, NEW x \in PrefsElsewhere(r)
        PROVE  x \in PrefsRow
    BY DEF PrefsRow, PrefsElsewhere
  <1> QED BY <1>1, <1>2, PrefsIs DEF RowsStay

LEMMA PrefsDraftsStay == DraftsStay("prefs")
  <1>1. ASSUME NEW r \in PrefsRow
        PROVE  Untouched(r) \in PrefsDrafts
    BY DEF PrefsRow, PrefsDrafts, Untouched
  <1> QED BY <1>1, PrefsIs DEF DraftsStay, OnRow, Opens

LEMMA PrefsRequestsFit == RequestsFit("prefs")
  <1>1. ASSUME NEW r \in PrefsRow, NEW x \in PrefsSuggested(r)
        PROVE  x \in PrefsDrafts
    <2>1. PICK k \in DOMAIN r : x = [Untouched(r) EXCEPT ![k] = ~r[k]]
      BY DEF PrefsSuggested
    <2>2. k \in {"weekly", "todo"} /\ (~r[k]) \in {None} \cup BOOLEAN
      BY DEF PrefsRow
    <2>3. Untouched(r) \in PrefsDrafts
      BY DEF PrefsRow, PrefsDrafts, Untouched
    <2> QED BY <2>1, <2>2, <2>3 DEF PrefsDrafts
  <1> QED BY <1>1, PrefsOver, PrefsIs DEF RequestsFit, OnRow, Opens

LEMMA PrefsAnswers == Answers("prefs")
  <1>1. ASSUME NEW r \in PrefsRow
        PROVE  Over(Untouched(r), r) = r
    BY OverNothing DEF PrefsRow
  <1> QED BY <1>1, PrefsOver, PrefsIs DEF Answers, OnRow, Opens

LEMMA NameOver ==
  ASSUME NEW r \in NameRow, NEW d \in NameDrafts, d.name # Blank
  PROVE  Over(d, r) \in NameRow
  BY DEF NameRow, NameDrafts, Over, TypedNames

LEMMA NameRowsStay == RowsStay("name")
  <1>1. NameRows \subseteq NameRow
    BY DEF NameRows, NameRow, Names
  <1>2. ASSUME NEW r \in NameRow, NEW x \in NameElsewhere(r)
        PROVE  x \in NameRow
    BY DEF NameRow, NameElsewhere, Names
  <1> QED BY <1>1, <1>2, NameIs DEF RowsStay

LEMMA NameDraftsStay == DraftsStay("name")
  <1>1. ASSUME NEW r \in NameRow
        PROVE  Untouched(r) \in NameDrafts
    BY DEF NameRow, NameDrafts, Untouched
  <1>2. ASSUME NEW r, NEW d \in NameDrafts, NEW x \in NameTyped(d, r)
        PROVE  x \in NameDrafts
    BY DEF NameTyped, Put, NameDrafts
  <1> QED BY <1>1, <1>2, NameIs DEF DraftsStay, OnRow, Opens

LEMMA NameRequestsFit == RequestsFit("name")
  BY NameOver, NameIs DEF RequestsFit, OnRow, Opens, NameReady

LEMMA NameAnswers == Answers("name")
  <1>1. ASSUME NEW r \in NameRow
        PROVE  Over(Untouched(r), r) = r
    BY OverNothing DEF NameRow
  <1> QED BY <1>1, NameOver, NameIs DEF Answers, OnRow, Opens, NameReady

-----------------------------------------------------------------------------
(* Who receives the notifications. *)

LEMMA EmailsRowsStay == RowsStay("emails")
  <1>1. EmailsRows \subseteq EmailsRow /\ \A r \in EmailsRows : EmailsFits(r)
    BY DEF EmailsRows, EmailsRow, EmailsFits
  <1>2. ASSUME NEW r \in EmailsRow, NEW x \in EmailsElsewhere(r)
        PROVE  x \in EmailsRow /\ EmailsFits(x)
    BY DEF EmailsRow, EmailsElsewhere, EmailsFits
  <1> QED BY <1>1, <1>2, EmailsIs DEF RowsStay

LEMMA EmailsDraftsStay == DraftsStay("emails")
  <1>1. \A r : EmailsDraft(r) \in EmailsDrafts /\ EmailsDraft(r).drop = None
    BY DEF EmailsDraft, EmailsDrafts
  <1>2. ASSUME NEW r, NEW d \in EmailsDrafts, d.drop = None, NEW x \in EmailsTyped(d, r)
        PROVE  x \in EmailsDrafts /\ x.drop = None
    BY <1>2 DEF EmailsTyped, Put, EmailsDrafts
  <1> QED BY <1>1, <1>2, EmailsIs DEF DraftsStay, OnRow, Opens

LEMMA EmailsRequestsFit == RequestsFit("emails")
  <1>1. ASSUME NEW r \in EmailsRow, NEW x \in EmailsSuggested(r)
        PROVE  x \in EmailsDrafts /\ x.drop # None /\ r.emails # {x.drop}
    <2>1. PICK e \in r.emails : x = [email |-> Blank, drop |-> e]
      BY DEF EmailsSuggested
    <2>2. e \in {"a@", "b@", "c@"}
      BY DEF EmailsRow
    <2>3. Cardinality(r.emails) > 1
      BY DEF EmailsSuggested
    <2>4. Cardinality({e}) = 1
      BY FS_Singleton
    <2>5. r.emails # {e}
      BY <2>3, <2>4
    <2> QED BY <2>1, <2>2, <2>5 DEF EmailsDrafts
  <1>2. ASSUME NEW r \in EmailsRow, NEW d \in EmailsDrafts, NEW s,
               d.drop = None => d.email # Blank, EmailsAccepts(EmailsBody(d, r), s)
        PROVE  EmailsBody(d, r) \in EmailsRow /\ EmailsFits(EmailsBody(d, r))
    BY <1>2 DEF EmailsRow, EmailsDrafts, EmailsBody, EmailsAccepts, EmailsFits
  <1>3. \A d, r : EmailsReady(d, r) => d.email # Blank
    BY DEF EmailsReady
  <1> QED BY <1>1, <1>2, <1>3, EmailsIs DEF RequestsFit, OnRow, Opens

LEMMA EmailsAnswers == Answers("emails")
  <1>1. ASSUME NEW r \in EmailsRow, EmailsFits(r), NEW d \in EmailsDrafts, NEW t,
               OnRow("emails", t, r),
               IF d.drop = None THEN d.email # Blank ELSE r.emails # {d.drop},
               ~EmailsAccepts(EmailsBody(d, r), r)
        PROVE  Unsuited("emails", d, Original("emails", t, r))
    <2>1. CASE d.drop # None
      <3>1. r.emails \ {d.drop} # {}
        <4>1. PICK e \in r.emails : e # d.drop
          BY <1>1, <2>1 DEF EmailsFits
        <4> QED BY <4>1
      <3>2. Malformed \notin r.emails
        BY DEF EmailsRow
      <3>3. EmailsBody(d, r).emails = r.emails \ {d.drop}
        BY <2>1 DEF EmailsBody
      <3> QED BY <1>1, <3>1, <3>2, <3>3 DEF EmailsAccepts
    <2>2. CASE d.drop = None /\ d.email # Malformed
      <3>1. EmailsBody(d, r).emails = r.emails \cup {d.email}
        BY <2>2 DEF EmailsBody
      <3>2. Malformed \notin r.emails
        BY DEF EmailsRow
      <3> QED BY <1>1, <2>2, <3>1, <3>2 DEF EmailsAccepts
    <2>3. CASE d.drop = None /\ d.email = Malformed
      <3>1. Original("emails", t, r).email = Blank
        BY <1>1, EmailsIs DEF Original, OnRow, EmailsDraft
      <3>2. "email" \in DOMAIN d
        BY DEF EmailsDrafts
      <3> QED BY <2>3, <3>1, <3>2 DEF Unsuited, NoInput
    <2> QED BY <2>1, <2>2, <2>3
  <1>2. \A r : EmailsDraft(r).email = Blank /\ EmailsDraft(r).drop = None
    BY DEF EmailsDraft
  <1> QED BY <1>1, <1>2, EmailsIs DEF Answers, OnRow, Opens

-----------------------------------------------------------------------------
(* 3. The inductive invariant.                                             *)

\* Every form keeps its contract, and promises the same of a request.
LEMMA AllFit == \A f \in AnyForm : Contract(f)
  <1>1. Contract("account")
    BY AccountRowsStay, AccountDraftsStay, AccountRequestsFit DEF Contract
  <1>2. Contract("card")
    BY CardRowsStay, CardDraftsStay, CardRequestsFit DEF Contract
  <1>3. Contract("loan")
    BY LoanRowsStay, LoanDraftsStay, LoanRequestsFit DEF Contract
  <1>4. Contract("product")
    BY ProductRowsStay, ProductDraftsStay, ProductRequestsFit DEF Contract
  <1>5. Contract("realEstate")
    BY RealEstateRowsStay, RealEstateDraftsStay, RealEstateRequestsFit DEF Contract
  <1>6. Contract("transaction")
    BY TransactionRowsStay, TransactionDraftsStay, TransactionRequestsFit DEF Contract
  <1>7. Contract("event")
    BY EventRowsStay, EventDraftsStay, EventRequestsFit DEF Contract
  <1>8. Contract("recurring")
    BY RecurringRowsStay, RecurringDraftsStay, RecurringRequestsFit DEF Contract
  <1>9. Contract("todo")
    BY TodoRowsStay, TodoDraftsStay, TodoRequestsFit DEF Contract
  <1>10. Contract("category")
    BY CategoryRowsStay, CategoryDraftsStay, CategoryRequestsFit DEF Contract
  <1>11. Contract("annualItem")
    BY AnnualItemRowsStay, AnnualItemDraftsStay, AnnualItemRequestsFit DEF Contract
  <1>12. Contract("monthItem")
    BY MonthItemRowsStay, MonthItemDraftsStay, MonthItemRequestsFit DEF Contract
  <1>13. Contract("split")
    BY SplitRowsStay, SplitDraftsStay, SplitRequestsFit DEF Contract
  <1>14. Contract("productPlan")
    BY ProductPlanRowsStay, ProductPlanDraftsStay, ProductPlanRequestsFit DEF Contract
  <1>15. Contract("goal")
    BY GoalRowsStay, GoalDraftsStay, GoalRequestsFit DEF Contract
  <1>16. Contract("progress")
    BY ProgressRowsStay, ProgressDraftsStay, ProgressRequestsFit DEF Contract
  <1>17. Contract("achieved")
    BY AchievedRowsStay, AchievedDraftsStay, AchievedRequestsFit DEF Contract
  <1>18. Contract("policy")
    BY PolicyRowsStay, PolicyDraftsStay, PolicyRequestsFit DEF Contract
  <1>19. Contract("targets")
    BY TargetsRowsStay, TargetsDraftsStay, TargetsRequestsFit DEF Contract
  <1>20. Contract("thresholds")
    BY ThresholdsRowsStay, ThresholdsDraftsStay, ThresholdsRequestsFit DEF Contract
  <1>21. Contract("prefs")
    BY PrefsRowsStay, PrefsDraftsStay, PrefsRequestsFit DEF Contract
  <1>22. Contract("emails")
    BY EmailsRowsStay, EmailsDraftsStay, EmailsRequestsFit DEF Contract
  <1>23. Contract("name")
    BY NameRowsStay, NameDraftsStay, NameRequestsFit DEF Contract
  <1> QED BY <1>1, <1>2, <1>3, <1>4, <1>5, <1>6, <1>7, <1>8, <1>9, <1>10, <1>11, <1>12,
             <1>13, <1>14, <1>15, <1>16, <1>17, <1>18, <1>19, <1>20, <1>21, <1>22,
             <1>23
          DEF AnyForm, Dialogs, Live

LEMMA AllAnswer == \A f \in AnyForm : Answers(f)
  <1>1. Answers("account")
    BY AccountAnswers
  <1>2. Answers("card")
    BY CardAnswers
  <1>3. Answers("loan")
    BY LoanAnswers
  <1>4. Answers("product")
    BY ProductAnswers
  <1>5. Answers("realEstate")
    BY RealEstateAnswers
  <1>6. Answers("transaction")
    BY TransactionAnswers
  <1>7. Answers("event")
    BY EventAnswers
  <1>8. Answers("recurring")
    BY RecurringAnswers
  <1>9. Answers("todo")
    BY TodoAnswers
  <1>10. Answers("category")
    BY CategoryAnswers
  <1>11. Answers("annualItem")
    BY AnnualItemAnswers
  <1>12. Answers("monthItem")
    BY MonthItemAnswers
  <1>13. Answers("split")
    BY SplitAnswers
  <1>14. Answers("productPlan")
    BY ProductPlanAnswers
  <1>15. Answers("goal")
    BY GoalAnswers
  <1>16. Answers("progress")
    BY ProgressAnswers
  <1>17. Answers("achieved")
    BY AchievedAnswers
  <1>18. Answers("policy")
    BY PolicyAnswers
  <1>19. Answers("targets")
    BY TargetsAnswers
  <1>20. Answers("thresholds")
    BY ThresholdsAnswers
  <1>21. Answers("prefs")
    BY PrefsAnswers
  <1>22. Answers("emails")
    BY EmailsAnswers
  <1>23. Answers("name")
    BY NameAnswers
  <1> QED BY <1>1, <1>2, <1>3, <1>4, <1>5, <1>6, <1>7, <1>8, <1>9, <1>10, <1>11, <1>12,
             <1>13, <1>14, <1>15, <1>16, <1>17, <1>18, <1>19, <1>20, <1>21, <1>22,
             <1>23
          DEF AnyForm, Dialogs, Live

LEMMA LiveOffers == \A f \in Live : FormOffers(f, "live") /\ ~FormOffers(f, "add")
  BY DEF Live, FormOffers

LEMMA DialogOffers == \A f \in Dialogs : ~FormOffers(f, "live")
  BY DEF Dialogs, Live, FormOffers, AccountOffers, CardOffers, LoanOffers, ProductOffers,
     RealEstateOffers, TransactionOffers, EventOffers, RecurringOffers, TodoOffers,
     CategoryOffers, AnnualItemOffers, MonthItemOffers, SplitOffers, GoalOffers,
     PolicyOffers

USE FormsAssumption DEF bounds, AnyForm

-----------------------------------------------------------------------------
LEMMA Facts ==
  ASSUME IInv
  PROVE  /\ Contract(form) /\ Answers(form)
         /\ form \in Live => FormOffers(form, "live") /\ ~FormOffers(form, "add")
         /\ form \notin Live => ~FormOffers(form, "live")
  BY AllFit, AllAnswer, LiveOffers, DialogOffers DEF IInv, TablesFit

LEMMA KinFacts ==
    /\ \A f, r : Kin(f, r, r)
    /\ \A f, r, s, t : Kin(f, r, s) /\ Kin(f, s, t) => Kin(f, r, t)
    /\ \A f, r, s : Kin(f, r, s) => Kin(f, s, r)
  BY DEF Kin

\* What the draft of the open dialog is about.
LEMMA BaseFits ==
  ASSUME IInv, dialog # None
  PROVE  /\ OnRow(form, dialog.target, Base) /\ DraftFits(form, dialog.draft, Base)
         /\ Inputs(form, dialog.draft)
         /\ dialog.target # New => Known(dialog.target, Base)
  <1>1. CASE dialog.target # New /\ form \in Live
    <2>1. Base = cache[dialog.target]
      BY <1>1, Facts DEF Base
    <2>2. dialog.target \in Ids /\ Opens(form, Base)
      BY <1>1, <2>1 DEF IInv, DialogFits, OnRow
    <2>3. DraftFits(form, dialog.draft, Base)
      BY <1>1, <2>2, Facts DEF IInv, DialogFits, Contract, DraftsStay
    <2> QED BY <1>1, <2>1, <2>2, <2>3 DEF IInv, DialogFits, OnRow, TablesFit
  <1>2. CASE ~(dialog.target # New /\ form \in Live)
    <2>1. Base = dialog.base
      BY <1>2, Facts DEF Base
    <2> QED BY <2>1 DEF IInv, DialogFits
  <1> QED BY <1>1, <1>2

-----------------------------------------------------------------------------
\* What a step leaves alone still fits.

LEMMA TablesStay ==
  ASSUME IInv, UNCHANGED <<form, server, fresh, cache>>
  PROVE  TablesFit'
  BY DEF IInv, TablesFit, Table, Known

LEMMA DialogStays ==
  ASSUME IInv, UNCHANGED <<form, server, fresh, cache>>, dialog' = dialog \/ dialog' = None
  PROVE  DialogFits'
  BY DEF IInv, DialogFits, Known

LEMMA WireStays ==
  ASSUME IInv, UNCHANGED <<form, server, fresh>>, wire' = wire \/ wire' = None
  PROVE  WireFits'
  BY DEF IInv, WireFits, Known

LEMMA OthersStay ==
  ASSUME IInv, form' = form, kept' = kept \/ kept' = None, side' = side \/ side' = None,
         doomed' = doomed \/ doomed' = None
  PROVE  OthersFit'
  BY DEF IInv, OthersFit

\* The rows that were there are there, each of the same kind, or removed.
RowsLast ==
    /\ form' = form /\ fresh' \in Nat /\ fresh' >= fresh
    /\ \A j \in Ids : j < fresh /\ server'[j] # None =>
           server[j] # None /\ Kin(form, server[j], server'[j])

LEMMA KnownLasts ==
  ASSUME IInv, RowsLast, NEW i \in Ids, NEW r, Known(i, r)
  PROVE  r # None => i < fresh' /\ (server'[i] # None => Kin(form, r, server'[i]))
  <1> SUFFICES ASSUME r # None
               PROVE  i < fresh' /\ (server'[i] # None => Kin(form, r, server'[i]))
    OBVIOUS
  <1>1. i < fresh
    BY DEF Known
  <1>2. i < fresh'
    BY <1>1 DEF RowsLast, IInv, TablesFit
  <1>3. ASSUME server'[i] # None PROVE Kin(form, r, server'[i])
    <2>1. server[i] # None /\ Kin(form, server[i], server'[i])
      BY <1>1, <1>3 DEF RowsLast
    <2>2. Kin(form, r, server[i])
      BY <2>1 DEF Known
    <2> QED BY <2>1, <2>2, KinFacts
  <1> QED BY <1>2, <1>3

LEMMA CacheLasts ==
  ASSUME IInv, RowsLast, cache' = cache, NEW i \in Ids
  PROVE  cache'[i] # None =>
             i < fresh' /\ (server'[i] # None => Kin(form', cache'[i], server'[i]))
  <1>1. Known(i, cache[i])
    BY DEF IInv, TablesFit
  <1> QED BY <1>1, KnownLasts DEF RowsLast

LEMMA DialogLasts ==
  ASSUME IInv, RowsLast, cache' = cache, dialog' = dialog \/ dialog' = None
  PROVE  DialogFits'
  <1>1. CASE dialog' = None
    BY <1>1 DEF DialogFits
  <1>2. CASE dialog' = dialog /\ dialog # None
    <2>1. dialog.target # New => dialog.target \in Ids /\ Known(dialog.target, dialog.base)
      BY <1>2 DEF IInv, DialogFits, OnRow
    <2>2. dialog.target # New /\ dialog.base # None => dialog.target < fresh' /\
              (server'[dialog.target] # None => Kin(form, dialog.base, server'[dialog.target]))
      BY <2>1, KnownLasts
    <2> QED BY <1>2, <2>2 DEF IInv, DialogFits, Known, RowsLast
  <1> QED BY <1>1, <1>2

LEMMA WireLasts ==
  ASSUME IInv, RowsLast, wire' = None \/ (wire' = wire /\ fresh' = fresh)
  PROVE  WireFits'
  <1>1. CASE wire' = None
    BY <1>1 DEF WireFits
  <1>2. CASE wire' = wire /\ fresh' = fresh /\ wire # None
    <2>1. wire.target # New => wire.target \in Ids /\ Known(wire.target, wire.base)
      BY <1>2 DEF IInv, WireFits, OnRow
    <2>2. wire.target # New /\ wire.base # None => wire.target < fresh' /\
              (server'[wire.target] # None => Kin(form, wire.base, server'[wire.target]))
      BY <2>1, KnownLasts
    <2> QED BY <1>2, <2>2 DEF IInv, WireFits, Known, RowsLast
  <1> QED BY <1>1, <1>2

-----------------------------------------------------------------------------
LEMMA InitKeeps == Init => IInv
  <1> SUFFICES ASSUME Init PROVE IInv
    OBVIOUS
  <1>1. TablesFit
    <2>1. form \in AnyForm
      BY DEF Init
    <2>2. Table(server)
      BY <2>1, AllFit DEF Init, Table, Contract, RowsStay
    <2>3. \A i \in Ids : server[i] # None => i = 1
      BY DEF Init
    <2>4. \A i \in Ids : Known(i, cache[i])
      BY <2>3, KinFacts DEF Init, Known
    <2>5. cache = server /\ fresh = 2
      BY DEF Init
    <2>6. \A i \in Ids : i >= fresh => server[i] = None
      BY <2>3, <2>5
    <2>7. fresh \in Nat /\ Table(cache)
      BY <2>2, <2>5
    <2> QED BY <2>1, <2>2, <2>4, <2>6, <2>7 DEF TablesFit
  <1> QED BY <1>1 DEF Init, IInv, DialogFits, WireFits, OthersFit, Asked

LEMMA OpenNewKeeps ==
  ASSUME IInv, OpenNew
  PROVE  IInv'
  <1>1. TablesFit' /\ WireFits' /\ OthersFit'
    BY TablesStay, WireStays, OthersStay DEF OpenNew
  <1>2. DialogFits'
    <2> DEFINE d == IF kept = None THEN FormEmpty(form) ELSE kept
    <2>1. form \notin Live
      BY Facts DEF OpenNew
    <2>2. Inputs(form, d)
      BY <2>1 DEF Inputs, Live
    <2>3. DraftFits(form, d, None)
      BY Facts DEF IInv, OpenNew, OthersFit, Contract, DraftsStay
    <2>4. dialog' = [target |-> New, base |-> None, draft |-> d] /\ form' = form
      BY DEF OpenNew
    <2>5. OnRow(form, New, None)
      BY DEF OpenNew, OnRow
    <2> HIDE DEF d
    <2> QED BY <2>1, <2>2, <2>3, <2>4, <2>5 DEF DialogFits
  <1>3. Asked'
    <2>1. fresh \in Nat /\ fresh' = fresh /\ due' = fresh + 1 /\ wire' = wire
      BY DEF IInv, TablesFit, OpenNew
    <2> QED BY <2>1 DEF Asked
  <1> QED BY <1>1, <1>2, <1>3 DEF IInv

LEMMA OpenRowKeeps ==
  ASSUME IInv, NEW i \in Ids, OpenRow(i)
  PROVE  IInv'
  <1>1. TablesFit' /\ WireFits' /\ OthersFit'
    BY TablesStay, WireStays, OthersStay DEF OpenRow
  <1>2. DialogFits'
    <2> DEFINE d == FormDraft(form, cache[i])
    <2>1. Opens(form, cache[i])
      BY DEF IInv, OpenRow, Listed, TablesFit, Table, Opens
    <2>2. DraftFits(form, d, cache[i]) /\ Inputs(form, d)
      BY <2>1, Facts DEF Contract, DraftsStay
    <2>3. dialog' = [target |-> i, base |-> cache[i], draft |-> d]
      BY DEF OpenRow
    <2>4. UNCHANGED <<form, server, fresh, cache>>
      BY DEF OpenRow
    <2>5. Known(i, cache[i])
      BY DEF IInv, TablesFit
    <2>6. OnRow(form, i, cache[i])
      BY <2>1 DEF OnRow
    <2> HIDE DEF d
    <2> QED BY <2>1, <2>2, <2>3, <2>4, <2>5, <2>6 DEF DialogFits, Known
  <1>3. Asked'
    BY DEF IInv, OpenRow, Asked
  <1> QED BY <1>1, <1>2, <1>3 DEF IInv

LEMMA TypeKeeps ==
  ASSUME IInv, Type
  PROVE  IInv'
  <1>1. TablesFit' /\ WireFits' /\ OthersFit'
    BY TablesStay, WireStays, OthersStay DEF Type
  <1>2. PICK d \in FormTyped(form, dialog.draft, Base) : dialog' = [dialog EXCEPT !.draft = d]
    BY DEF Type
  <1>3. DraftFits(form, d, Base) /\ Inputs(form, d)
    <2>1. dialog # None
      BY DEF Type
    <2>2. OnRow(form, dialog.target, Base) /\ DraftFits(form, dialog.draft, Base)
          /\ Inputs(form, dialog.draft)
      BY <2>1, BaseFits
    <2> QED BY <1>2, <2>2, Facts DEF Contract, DraftsStay
  <1>4. DraftFits(form, d, dialog.base)
    BY <1>3, Facts DEF Contract, DraftsStay, Base
  <1>5. dialog' = [target |-> dialog.target, base |-> dialog.base, draft |-> d]
    BY <1>2 DEF IInv, DialogFits, Type
  <1>6. DialogFits'
    BY <1>3, <1>4, <1>5 DEF IInv, DialogFits, Known, Type
  <1>7. Asked'
    BY <1>5 DEF IInv, Type, Asked
  <1> QED BY <1>1, <1>6, <1>7 DEF IInv

LEMMA CloseKeeps ==
  ASSUME IInv, Close
  PROVE  IInv'
  <1>1. TablesFit' /\ WireFits' /\ DialogFits'
    BY TablesStay, WireStays, DialogStays DEF Close
  <1>2. OthersFit'
    BY DEF IInv, Close, OthersFit, DialogFits, OnRow
  <1>3. Asked'
    BY DEF IInv, Close, Asked, bounds
  <1> QED BY <1>1, <1>2, <1>3 DEF IInv

LEMMA RequestKeeps ==
  ASSUME IInv, dialog # None, NEW d, DraftFits(form, d, Base), Sendable(form, d, Base),
         wire' = Request(d), dialog.target = New => fresh \in Ids,
         UNCHANGED <<form, server, fresh, cache, dialog, kept, side, doomed, due>>
  PROVE  IInv'
  <1>1. TablesFit' /\ DialogFits' /\ OthersFit'
    BY TablesStay, DialogStays, OthersStay
  <1>2. wire'.target = dialog.target /\ wire'.base = Base /\ wire'.draft = d
        /\ wire'.body = FormBody(form, d, Base)
    BY DEF Request
  <1>3. WireFits'
    <2>1. OnRow(form, dialog.target, Base) /\ (dialog.target # New => Known(dialog.target, Base))
      BY BaseFits
    <2> HIDE DEF Base
    <2> QED BY <1>2, <2>1 DEF WireFits, Known
  <1>4. Asked'
    BY <1>2 DEF IInv, Asked
  <1> QED BY <1>1, <1>3, <1>4 DEF IInv

LEMMA SubmitKeeps ==
  ASSUME IInv, Submit
  PROVE  IInv'
  <1>1. dialog # None /\ FormReady(form, dialog.draft, Base)
    BY DEF Submit
  <1>2. OnRow(form, dialog.target, Base) /\ DraftFits(form, dialog.draft, Base)
        /\ Inputs(form, dialog.draft)
    BY <1>1, BaseFits
  <1>3. Sendable(form, dialog.draft, Base)
    BY <1>1, <1>2, Facts DEF Contract, RequestsFit
  <1> QED BY <1>1, <1>2, <1>3, RequestKeeps DEF Submit, bounds

LEMMA SubmitSuggestedKeeps ==
  ASSUME IInv, SubmitSuggested
  PROVE  IInv'
  <1>1. dialog # None
    BY DEF SubmitSuggested
  <1>2. PICK d \in FormSuggested(form, dialog.draft, Base) : wire' = Request(d)
    BY DEF SubmitSuggested
  <1>3. OnRow(form, dialog.target, Base) /\ DraftFits(form, dialog.draft, Base)
    BY <1>1, BaseFits
  <1>4. DraftFits(form, d, Base) /\ Sendable(form, d, Base)
    BY <1>2, <1>3, Facts DEF Contract, RequestsFit
  <1> QED BY <1>1, <1>2, <1>4, RequestKeeps DEF SubmitSuggested, bounds

LEMMA ServerStays ==
  ASSUME IInv, UNCHANGED <<form, server, fresh, cache>>
  PROVE  TablesFit' /\ RowsLast
  <1>1. TablesFit'
    BY TablesStay
  <1>2. RowsLast
    BY KinFacts DEF RowsLast, IInv, TablesFit
  <1> QED BY <1>1, <1>2

\* What the server makes of a request is a row, and of the kind it was.
LEMMA WrittenFits ==
  ASSUME IInv, wire # None, Taken(wire), ~Gone(wire)
  PROVE  LET s == IF wire.target = New THEN None ELSE server[wire.target]
             w == FormWrite(form, wire.body, s)
         IN  RowFits(form, w) /\ (wire.target # New => Kin(form, w, s))
  <1> DEFINE s == IF wire.target = New THEN None ELSE server[wire.target]
  <1>1. OnRow(form, wire.target, wire.base) /\ DraftFits(form, wire.draft, wire.base)
        /\ Sendable(form, wire.draft, wire.base)
        /\ wire.body = FormBody(form, wire.draft, wire.base)
    BY DEF IInv, WireFits
  <1>2. FormAccepts(form, FormBody(form, wire.draft, wire.base), s)
    BY <1>1 DEF Taken, Gone
  <1>3. IF wire.target = New THEN s = None
        ELSE s # None /\ RowFits(form, s) /\ Kin(form, wire.base, s)
    <2>1. CASE wire.target = New
      BY <2>1
    <2>2. CASE wire.target # New
      <3>1. wire.target \in Ids /\ s = server[wire.target] /\ s # None /\ wire.base # None
        BY <1>1, <2>2 DEF Gone, OnRow, Opens
      <3>2. Known(wire.target, wire.base)
        BY <2>2 DEF IInv, WireFits
      <3> QED BY <2>2, <3>1, <3>2 DEF Known, IInv, TablesFit, Table
    <2> QED BY <2>1, <2>2
  <1> HIDE DEF s
  <1>4. RowFits(form, FormWrite(form, wire.body, s))
        /\ (wire.target # New => Kin(form, FormWrite(form, wire.body, s), s))
    BY <1>1, <1>2, <1>3, Facts DEF Contract, RequestsFit
  <1> QED BY <1>4 DEF s

LEMMA ApplyKeeps ==
  ASSUME IInv, wire # None, Taken(wire), Apply(wire), UNCHANGED <<form, cache>>
  PROVE  TablesFit' /\ RowsLast
  <1> DEFINE t == IF wire.target = New THEN fresh ELSE wire.target
             s == IF wire.target = New THEN None ELSE server[wire.target]
             r == FormWrite(form, wire.body, s)
  <1>1. CASE Gone(wire)
    <2>1. UNCHANGED <<form, server, fresh, cache>>
      BY <1>1 DEF Apply, Gone
    <2> QED BY <2>1, ServerStays
  <1>2. CASE ~Gone(wire)
    <2>1. t \in Ids /\ server' = [server EXCEPT ![t] = r]
      BY <1>2 DEF Apply, IInv, WireFits, OnRow
    <2>2. RowFits(form, r) /\ (wire.target # New => Kin(form, r, s))
      BY <1>2, WrittenFits
    <2>3. fresh' \in Nat /\ fresh' >= fresh /\ (wire.target = New => fresh' = fresh + 1)
      BY DEF Apply, IInv, TablesFit
    <2>4. IF wire.target = New THEN t = fresh
          ELSE t = wire.target /\ s = server[t] /\ s # None
      BY <1>2 DEF Gone
    <2>5. DOMAIN server = Ids /\ fresh \in Nat /\ Ids \subseteq Nat
      BY DEF IInv, TablesFit, Table
    <2> HIDE DEF r, t, s
    <2>6. Table(server')
      BY <2>1, <2>2 DEF Table, IInv, TablesFit
    <2>7. ASSUME NEW i \in Ids, i >= fresh' PROVE server'[i] = None
      <3>1. i >= fresh /\ server[i] = None
        BY <2>3, <2>5, <2>7 DEF IInv, TablesFit
      <3>2. i # t
        BY <2>3, <2>4, <2>5, <2>7, <3>1
      <3> QED BY <2>1, <2>5, <3>1, <3>2
    <2>8. RowsLast
      <3>1. ASSUME NEW j \in Ids, j < fresh, server'[j] # None
            PROVE  server[j] # None /\ Kin(form, server[j], server'[j])
        <4>1. CASE j = t
          <5>1. wire.target # New
            BY <2>4, <2>5, <3>1, <4>1
          <5> QED BY <2>1, <2>2, <2>4, <2>5, <4>1, <5>1, KinFacts
        <4>2. CASE j # t
          BY <2>1, <2>5, <3>1, <4>2, KinFacts
        <4> QED BY <4>1, <4>2
      <3> QED BY <2>3, <3>1 DEF RowsLast
    <2> QED BY <2>3, <2>6, <2>7, <2>8, CacheLasts DEF IInv, TablesFit, Table, Known
  <1> QED BY <1>1, <1>2

LEMMA SavedKeeps ==
  ASSUME IInv, Saved
  PROVE  IInv'
  <1>1. TablesFit' /\ RowsLast
    BY ApplyKeeps DEF Saved
  <1>2. WireFits' /\ OthersFit'
    BY OthersStay DEF Saved, WireFits
  <1>3. DialogFits'
    <2>1. CASE dialog' = dialog \/ dialog' = None
      BY <1>1, <2>1, DialogLasts DEF Saved
    <2>2. CASE dialog # None /\ form \in Live
               /\ dialog' = [dialog EXCEPT !.draft = FormDraft(form, dialog.base)]
      <3>1. dialog.target # New /\ Opens(form, dialog.base) /\ dialog.target \in Ids
            /\ Known(dialog.target, dialog.base) /\ Opens(form, cache[dialog.target])
        BY <2>2, Facts DEF IInv, DialogFits, OnRow
      <3>2. DraftFits(form, FormDraft(form, dialog.base), dialog.base)
            /\ Inputs(form, FormDraft(form, dialog.base))
        BY <3>1, Facts DEF Contract, DraftsStay
      <3>3. dialog' = [target |-> dialog.target, base |-> dialog.base,
                       draft |-> FormDraft(form, dialog.base)]
        BY <2>2 DEF IInv, DialogFits
      <3>4. dialog.target < fresh' /\
              (server'[dialog.target] # None => Kin(form, dialog.base, server'[dialog.target]))
        BY <1>1, <3>1, KnownLasts DEF Opens
      <3>5. form' = form /\ cache' = cache
        BY DEF Saved
      <3> QED BY <3>1, <3>2, <3>3, <3>4, <3>5 DEF DialogFits, Known, OnRow
    <2> QED BY <2>1, <2>2, Facts DEF Saved, Closed
  <1>4. Asked'
    <2>1. dialog' # None /\ dialog'.target = New =>
            wire.target # New /\ dialog # None /\ dialog.target = New
      BY Facts DEF Saved, Closed, IInv, DialogFits, OnRow
    <2>2. wire' = None /\ due' = due /\ due \in Nat /\ fresh \in Nat /\ fresh =< due
      BY DEF IInv, TablesFit, Asked, Saved
    <2>3. CASE wire.target = New
      <3>1. fresh' = fresh + 1 /\ fresh < due
        BY <2>3 DEF IInv, Asked, Saved, Apply
      <3> QED BY <2>1, <2>2, <2>3, <3>1 DEF Asked
    <2>4. CASE wire.target # New
      <3>1. fresh' = fresh
        BY <2>4 DEF Saved, Apply
      <3>2. dialog # None /\ dialog.target = New => fresh < due
        BY DEF IInv, Asked
      <3> QED BY <2>1, <2>2, <3>1, <3>2 DEF Asked
    <2> QED BY <2>3, <2>4
  <1> QED BY <1>1, <1>2, <1>3, <1>4 DEF IInv

LEMMA RefusedKeeps ==
  ASSUME IInv, Refused
  PROVE  IInv'
  <1>1. TablesFit' /\ DialogFits' /\ WireFits' /\ OthersFit'
    BY TablesStay, DialogStays, WireStays, OthersStay DEF Refused
  <1>2. Asked'
    BY DEF IInv, Refused, Asked, bounds
  <1> QED BY <1>1, <1>2 DEF IInv

LEMMA LoseAnswerKeeps ==
  ASSUME IInv, LoseAnswer
  PROVE  IInv'
  <1>1. TablesFit' /\ RowsLast
    <2>1. CASE UNCHANGED <<server, fresh>>
      BY <2>1, ServerStays DEF LoseAnswer
    <2>2. CASE Taken(wire) /\ Apply(wire)
      BY <2>2, ApplyKeeps DEF LoseAnswer
    <2> QED BY <2>1, <2>2 DEF LoseAnswer
  <1>2. DialogFits' /\ WireFits' /\ OthersFit'
    BY <1>1, DialogLasts, WireLasts, OthersStay DEF LoseAnswer
  <1>3. Asked'
    <2>1. fresh \in Nat /\ due \in Nat /\ wire' = None /\ dialog' = dialog
      BY DEF IInv, TablesFit, Asked, LoseAnswer
    <2>2. \/ fresh' = fresh /\ due' = due
          \/ fresh' = fresh + 1 /\ due' = due + 1
      BY DEF LoseAnswer, Apply
    <2> QED BY <2>1, <2>2 DEF IInv, Asked
  <1> QED BY <1>1, <1>2, <1>3 DEF IInv

LEMMA AskSideKeeps ==
  ASSUME IInv, AskSide
  PROVE  IInv'
  <1>1. TablesFit' /\ DialogFits' /\ WireFits'
    BY TablesStay, DialogStays, WireStays DEF AskSide
  <1>2. OthersFit'
    <2>1. PICK r \in FormLinks(form, dialog.base) :
            side' = [target |-> dialog.target, row |-> r]
      BY DEF AskSide
    <2>2. dialog.target \in Ids /\ RowFits(form, dialog.base)
      BY DEF IInv, DialogFits, OnRow, Opens, AskSide
    <2>3. Linked(form, r)
      BY <2>1, <2>2, Facts DEF Contract, RowsStay
    <2> QED BY <2>1, <2>2, <2>3 DEF IInv, OthersFit, AskSide
  <1>3. Asked'
    BY DEF IInv, AskSide, Asked, bounds
  <1> QED BY <1>1, <1>2, <1>3 DEF IInv

\* A row that is there is replaced by one of its kind or by nothing.
LEMMA RowChanges ==
  ASSUME IInv, NEW i \in Ids, NEW x, server[i] # None,
         x # None => RowFits(form, x) /\ Kin(form, x, server[i]),
         server' = [server EXCEPT ![i] = x], UNCHANGED <<form, fresh, cache>>
  PROVE  TablesFit' /\ RowsLast
  <1>1. Table(server')
    BY DEF IInv, TablesFit, Table
  <1>2. ASSUME NEW j \in Ids, j >= fresh PROVE server'[j] = None
    BY <1>2 DEF IInv, TablesFit, Table
  <1>3. RowsLast
    BY KinFacts DEF RowsLast, IInv, TablesFit, Table
  <1> QED BY <1>1, <1>2, <1>3, CacheLasts DEF IInv, TablesFit, Table, Known

LEMMA SideSavedKeeps ==
  ASSUME IInv, SideSaved
  PROVE  IInv'
  <1>1. TablesFit' /\ RowsLast
    <2>1. CASE server[side.target] = None
      BY <2>1, ServerStays DEF SideSaved
    <2>2. CASE server[side.target] # None
      <3> DEFINE i == side.target
                 x == [server[i] EXCEPT !.linked = side.row.linked]
      <3>1. i \in Ids /\ Linked(form, side.row) /\ RowFits(form, server[i])
        BY <2>2 DEF IInv, OthersFit, SideSaved, TablesFit, Table
      <3>2. RowFits(form, x)
        BY <3>1, Facts DEF Contract, RowsStay
      <3>3. Kin(form, x, server[i])
        BY <3>1 DEF Linked, Kin
      <3>4. server' = [server EXCEPT ![i] = x]
        BY <2>2, <3>1 DEF SideSaved, IInv, TablesFit, Table
      <3>5. UNCHANGED <<form, fresh, cache>>
        BY DEF SideSaved
      <3> HIDE DEF x, i
      <3>6. server[i] # None
        BY <2>2 DEF i
      <3> QED BY <3>1, <3>2, <3>3, <3>4, <3>5, <3>6, RowChanges
    <2> QED BY <2>1, <2>2
  <1>2. DialogFits' /\ WireFits' /\ OthersFit'
    BY <1>1, DialogLasts, WireLasts, OthersStay DEF SideSaved
  <1>3. Asked'
    BY DEF IInv, SideSaved, Asked, bounds
  <1> QED BY <1>1, <1>2, <1>3 DEF IInv

LEMMA AskRemoveKeeps ==
  ASSUME IInv, NEW i \in Ids, AskRemove(i)
  PROVE  IInv'
  <1>1. TablesFit' /\ DialogFits' /\ WireFits'
    BY TablesStay, DialogStays, WireStays DEF AskRemove
  <1>2. form # "split"
    BY DEF AskRemove, Listed, FormLists
  <1>3. OthersFit'
    BY <1>2 DEF IInv, AskRemove, OthersFit
  <1>4. Asked'
    BY DEF IInv, AskRemove, Asked, bounds
  <1> QED BY <1>1, <1>3, <1>4 DEF IInv

LEMMA CancelRemoveKeeps ==
  ASSUME IInv, CancelRemove
  PROVE  IInv'
  <1>1. TablesFit' /\ DialogFits' /\ WireFits' /\ OthersFit'
    BY TablesStay, DialogStays, WireStays, OthersStay DEF CancelRemove
  <1>2. Asked'
    BY DEF IInv, CancelRemove, Asked, bounds
  <1> QED BY <1>1, <1>2 DEF IInv

\* A removal leaves of a row what is left of it.
LEMMA AfterKeeps ==
  ASSUME IInv, NEW i \in Ids, server[i] # None,
         server' = [server EXCEPT ![i] = FormAfter(form, server[i])],
         UNCHANGED <<form, fresh, cache>>
  PROVE  TablesFit' /\ RowsLast
  <1> DEFINE x == FormAfter(form, server[i])
  <1>1. RowFits(form, server[i])
    BY DEF IInv, TablesFit, Table
  <1>2. x # None => RowFits(form, x) /\ Kin(form, x, server[i])
    BY <1>1, Facts DEF Contract, RowsStay
  <1>3. server' = [server EXCEPT ![i] = x]
    OBVIOUS
  <1> HIDE DEF x
  <1> QED BY <1>2, <1>3, RowChanges

LEMMA RemovedKeeps ==
  ASSUME IInv, Removed
  PROVE  IInv'
  <1>1. TablesFit' /\ RowsLast
    <2>0. doomed \in Ids /\ DOMAIN server = Ids
      BY DEF IInv, OthersFit, Removed, TablesFit, Table
    <2>1. CASE server[doomed] = None
      <3>1. server' = server
        BY <2>0, <2>1 DEF Removed, IInv, TablesFit, Table
      <3> QED BY <3>1, ServerStays DEF Removed
    <2>2. CASE server[doomed] # None
      <3>1. server' = [server EXCEPT ![doomed] = FormAfter(form, server[doomed])]
        BY <2>0, <2>2 DEF Removed
      <3> QED BY <2>0, <2>2, <3>1, AfterKeeps DEF Removed
    <2> QED BY <2>1, <2>2
  <1>2. DialogFits' /\ WireFits' /\ OthersFit'
    BY <1>1, DialogLasts, WireLasts, OthersStay DEF Removed
  <1>3. Asked'
    BY DEF IInv, Removed, Asked
  <1> QED BY <1>1, <1>2, <1>3 DEF IInv

LEMMA OtherWritesKeeps ==
  ASSUME IInv, OtherWrites
  PROVE  IInv'
  <1>1. PICK i \in Ids :
          /\ server[i] # None
          /\ \/ \E r \in FormElsewhere(form, server[i]) : server' = [server EXCEPT ![i] = r]
             \/ server' = [server EXCEPT ![i] = FormAfter(form, @)]
    BY DEF OtherWrites
  <1>2. RowFits(form, server[i]) /\ DOMAIN server = Ids
    BY <1>1 DEF IInv, TablesFit, Table
  <1>3. UNCHANGED <<form, fresh, cache>>
    BY DEF OtherWrites
  <1>4. TablesFit' /\ RowsLast
    <2>1. ASSUME NEW r \in FormElsewhere(form, server[i]), server' = [server EXCEPT ![i] = r]
          PROVE  TablesFit' /\ RowsLast
      <3>1. RowFits(form, r) /\ Kin(form, r, server[i])
        BY <1>2, <2>1, Facts DEF Contract, RowsStay
      <3> QED BY <1>1, <1>3, <2>1, <3>1, RowChanges
    <2>2. CASE server' = [server EXCEPT ![i] = FormAfter(form, @)]
      <3>1. server' = [server EXCEPT ![i] = FormAfter(form, server[i])]
        BY <1>2, <2>2
      <3> QED BY <1>1, <1>3, <3>1, AfterKeeps
    <2> QED BY <1>1, <2>1, <2>2
  <1>5. DialogFits' /\ WireFits' /\ OthersFit'
    BY <1>4, DialogLasts, WireLasts, OthersStay DEF OtherWrites
  <1>6. Asked'
    BY DEF IInv, OtherWrites, Asked
  <1> QED BY <1>4, <1>5, <1>6 DEF IInv

LEMMA RefetchKeeps ==
  ASSUME IInv, Refetch
  PROVE  IInv'
  <1>0. UNCHANGED <<form, server, fresh>> /\ cache' = server
    BY DEF Refetch
  <1>1. TablesFit'
    <2>1. \A i \in Ids : server[i] # None => i < fresh
      BY DEF IInv, TablesFit, Table
    <2> QED BY <1>0, <2>1, KinFacts DEF IInv, TablesFit, Table, Known
  <1>2. WireFits' /\ OthersFit'
    BY WireStays, OthersStay DEF Refetch
  <1>3. DialogFits'
    <2>1. CASE dialog' = None
      BY <2>1 DEF DialogFits
    <2>2. CASE dialog' # None
      <3>1. dialog' = dialog /\ dialog # None
        BY <2>2 DEF Refetch
      <3>2. ASSUME form \in Live PROVE Opens(form, server[dialog.target])
        <4>1. FormOffers(form, "live") /\ ~FormOffers(form, "add")
          BY <3>2, Facts
        <4>2. dialog.target \in Ids
          BY <3>1, <4>1 DEF IInv, DialogFits, OnRow
        <4>3. Listed(server[dialog.target])
          BY <2>2, <3>1, <4>1, <4>2 DEF Refetch
        <4> QED BY <4>2, <4>3 DEF Opens, Listed, IInv, TablesFit, Table
      <3> QED BY <1>0, <3>1, <3>2 DEF IInv, DialogFits, Known
    <2> QED BY <2>1, <2>2
  <1>4. Asked'
    BY DEF IInv, Refetch, Asked, bounds
  <1> QED BY <1>1, <1>2, <1>3, <1>4 DEF IInv

-----------------------------------------------------------------------------
LEMMA NextKeeps == IInv /\ [Next]_vars => IInv'
  <1> SUFFICES ASSUME IInv, [Next]_vars PROVE IInv'
    OBVIOUS
  <1>1. CASE OpenNew \/ Type \/ Close \/ Submit \/ SubmitSuggested
    BY <1>1, OpenNewKeeps, TypeKeeps, CloseKeeps, SubmitKeeps, SubmitSuggestedKeeps
  <1>2. CASE Saved \/ Refused \/ LoseAnswer \/ AskSide \/ SideSaved
    BY <1>2, SavedKeeps, RefusedKeeps, LoseAnswerKeeps, AskSideKeeps, SideSavedKeeps
  <1>3. CASE CancelRemove \/ Removed \/ OtherWrites \/ Refetch
    BY <1>3, CancelRemoveKeeps, RemovedKeeps, OtherWritesKeeps, RefetchKeeps
  <1>4. ASSUME NEW i \in Ids, OpenRow(i) \/ AskRemove(i) PROVE IInv'
    BY <1>4, OpenRowKeeps, AskRemoveKeeps
  <1>5. CASE UNCHANGED vars
    <2>1. TablesFit' /\ DialogFits' /\ WireFits' /\ OthersFit'
      BY <1>5, TablesStay, DialogStays, WireStays, OthersStay DEF vars
    <2>2. Asked'
      BY <1>5 DEF vars, IInv, Asked
    <2> QED BY <2>1, <2>2 DEF IInv
  <1> QED BY <1>1, <1>2, <1>3, <1>4, <1>5 DEF Next

\* The inductive invariant holds throughout.
THEOREM InductiveInvariant == Spec => []IInv
  BY InitKeeps, NextKeeps, PTL DEF Spec

-----------------------------------------------------------------------------
(* 4. The properties.                                                      *)

\* Nothing is created twice unless an answer is lost: since a dialog for a new
\* row last opened one row has been stored at most, and one more for each that
\* was stored without the browser hearing of it.
THEOREM CreatedOnce == Spec => []NoneTwice
  <1>1. IInv => NoneTwice
    BY DEF IInv, Asked, NoneTwice
  <1> QED BY <1>1, InductiveInvariant, PTL

\* Two drafts of a form that agree in every input are the same draft.
Exact(f) ==
    \A d, e, b : DraftFits(f, d, b) /\ DraftFits(f, e, b)
                 /\ (\A k \in DOMAIN d : d[k] = e[k]) => d = e

LEMMA DraftsAreExact == \A f \in AnyForm : Exact(f)
  <1>1. Exact("account")
    BY AccountIs DEF Exact, AccountDrafts
  <1>2. Exact("card")
    BY CardIs DEF Exact, CardDrafts
  <1>3. Exact("loan")
    BY LoanIs DEF Exact, LoanDrafts
  <1>4. Exact("product")
    BY ProductIs DEF Exact, ProductDrafts
  <1>5. Exact("realEstate")
    BY RealEstateIs DEF Exact, RealEstateDrafts
  <1>6. Exact("transaction")
    BY TransactionIs DEF Exact, TransactionDrafts
  <1>7. Exact("event")
    BY EventIs DEF Exact, EventDrafts
  <1>8. Exact("recurring")
    BY RecurringIs DEF Exact, RecurringDrafts
  <1>9. Exact("todo")
    BY TodoIs DEF Exact, TodoDrafts
  <1>10. Exact("category")
    BY CategoryIs DEF Exact, CategoryDrafts
  <1>11. Exact("annualItem")
    BY AnnualItemIs DEF Exact, AnnualItemDrafts
  <1>12. Exact("monthItem")
    BY MonthItemIs DEF Exact, MonthItemDrafts
  <1>13. Exact("split")
    BY SplitIs DEF Exact, SplitDrafts
  <1>14. Exact("productPlan")
    BY ProductPlanIs DEF Exact, ProductPlanDrafts
  <1>15. Exact("goal")
    BY GoalIs DEF Exact, GoalDrafts
  <1>16. Exact("progress")
    BY ProgressIs DEF Exact, ProgressDrafts
  <1>17. Exact("achieved")
    BY AchievedIs DEF Exact, AchievedDrafts
  <1>18. Exact("policy")
    BY PolicyIs DEF Exact, PolicyDrafts
  <1>19. Exact("targets")
    BY TargetsIs DEF Exact, TargetsDrafts
  <1>20. Exact("thresholds")
    BY ThresholdsIs DEF Exact, ThresholdsDrafts
  <1>21. Exact("prefs")
    BY PrefsIs DEF Exact, PrefsDrafts
  <1>22. Exact("emails")
    BY EmailsIs DEF Exact, EmailsDrafts
  <1>23. Exact("name")
    BY NameIs DEF Exact, NameDrafts
  <1> QED BY <1>1, <1>2, <1>3, <1>4, <1>5, <1>6, <1>7, <1>8, <1>9, <1>10, <1>11, <1>12,
             <1>13, <1>14, <1>15, <1>16, <1>17, <1>18, <1>19, <1>20, <1>21, <1>22, <1>23
          DEF Dialogs, Live

\* The steps that answer the request of a dialog.
LEMMA Answered ==
  ASSUME [Next]_vars, wire # None, wire' = None
  PROVE  /\ form' = form
         /\ UNCHANGED <<server, fresh>> \/ (Taken(wire) /\ Apply(wire))
  BY DEF Next, vars, OpenNew, OpenRow, Type, Close, Submit, SubmitSuggested, Saved, Refused,
     LoseAnswer, AskSide, SideSaved, AskRemove, CancelRemove, Removed, OtherWrites, Refetch

LEMMA SentFits ==
  ASSUME IInv, wire # None
  PROVE  /\ OnRow(form, wire.target, wire.base)
         /\ DraftFits(form, wire.draft, wire.base)
         /\ Sendable(form, wire.draft, wire.base)
         /\ wire.body = FormBody(form, wire.draft, wire.base)
         /\ Opened(wire) = Original(form, wire.target, wire.base)
  BY DEF IInv, WireFits, Opened, Original

\* A request whose row has not moved meets the row its dialog was opened on.
LEMMA UnmovedIsBase ==
  ASSUME IInv, wire # None, Unmoved(wire)
  PROVE  /\ ~Gone(wire)
         /\ (IF wire.target = New THEN None ELSE server[wire.target]) = wire.base
         /\ Taken(wire) <=> FormAccepts(form, FormBody(form, wire.draft, wire.base), wire.base)
  <1>1. ~Gone(wire)
    BY SentFits DEF Gone, Unmoved, OnRow, Opens
  <1>2. (IF wire.target = New THEN None ELSE server[wire.target]) = wire.base
    BY SentFits DEF Unmoved, OnRow
  <1> QED BY <1>1, <1>2, SentFits DEF Taken

\* What a request that is taken leaves in the table.
LEMMA Written ==
  ASSUME IInv, wire # None, Taken(wire), Apply(wire), ~Gone(wire),
         NEW t, t = (IF wire.target = New THEN fresh ELSE wire.target),
         NEW s, s = (IF wire.target = New THEN None ELSE server[wire.target])
  PROVE  /\ t \in Ids
         /\ server' = [server EXCEPT ![t] = FormWrite(form, wire.body, s)]
         /\ server'[t] = FormWrite(form, wire.body, s)
         /\ \A i \in Ids \ {t} : server'[i] = server[i]
  <1>1. t \in Ids
    BY SentFits DEF IInv, WireFits, OnRow
  <1>2. server' = [server EXCEPT ![t] = FormWrite(form, wire.body, s)]
    BY <1>1 DEF Apply
  <1>3. DOMAIN server = Ids
    BY DEF IInv, TablesFit, Table
  <1> QED BY <1>1, <1>2, <1>3

-----------------------------------------------------------------------------
\* A draft that a form lets through is refused only for what an input should not
\* have taken, because the row is gone or has moved on, or for a known gap.
THEOREM RefusedForAReason == Spec => []OnlyBadInputRefused
  <1>1. ASSUME IInv PROVE OnlyBadInputRefused
    <2> SUFFICES ASSUME wire # None, ~Taken(wire), Unmoved(wire)
                 PROVE  BadInput(wire) \/ KnownGap(wire)
      BY DEF OnlyBadInputRefused
    <2>1. ~FormAccepts(form, FormBody(form, wire.draft, wire.base), wire.base)
      BY <1>1, UnmovedIsBase
    <2>2. \/ Unsuited(form, wire.draft, Original(form, wire.target, wire.base))
          \/ Gap(form, wire.draft, wire.base)
      BY <1>1, <2>1, SentFits, Facts DEF Answers
    <2>3. ASSUME Unsuited(form, wire.draft, Original(form, wire.target, wire.base))
          PROVE  BadInput(wire)
      BY <1>1, <2>3, SentFits DEF Unsuited, BadInput, Touched
    <2>4. ASSUME Gap(form, wire.draft, wire.base)
          PROVE  KnownGap(wire)
      BY <1>1, <2>4, SentFits DEF Gap, KnownGap
    <2> QED BY <2>2, <2>3, <2>4
  <1> QED BY <1>1, InductiveInvariant, PTL

\* An untouched dialog that is saved writes back the row it was opened on.
THEOREM UntouchedChangesNothing == Spec => UntouchedSaveChangesNothing
  <1>1. ASSUME IInv, [Next]_vars, wire # None, wire' = None, wire.target # New,
               Touched(wire) = {}, Unmoved(wire), ~ShownOtherwise(wire.base)
        PROVE  server' = server
    <2> DEFINE r == wire.base
               t == wire.target
    <2>1. CASE server' = server
      BY <2>1
    <2>2. CASE Taken(wire) /\ Apply(wire)
      <3>1. Opens(form, r) /\ DraftFits(form, wire.draft, r) /\ Sendable(form, wire.draft, r)
            /\ wire.body = FormBody(form, wire.draft, r)
        BY <1>1, SentFits DEF OnRow
      <3>2. DraftFits(form, FormDraft(form, r), r)
        BY <1>1, <3>1, Facts DEF Contract, DraftsStay
      <3>3. wire.draft = FormDraft(form, r)
        <4>1. \A k \in DOMAIN wire.draft : wire.draft[k] = FormDraft(form, r)[k]
          BY <1>1 DEF Touched, Opened
        <4>2. Exact(form)
          BY <1>1, DraftsAreExact DEF IInv, TablesFit
        <4> QED BY <3>1, <3>2, <4>1, <4>2 DEF Exact
      <3>4. FormAccepts(form, FormBody(form, FormDraft(form, r), r), r)
        BY <1>1, <2>2, <3>3, UnmovedIsBase
      <3>5. ~Differs(form, r)
        BY <1>1 DEF Differs, ShownOtherwise
      <3>6. FormWrite(form, FormBody(form, FormDraft(form, r), r), r) = r
        BY <1>1, <3>1, <3>3, <3>4, <3>5, Facts DEF Answers
      <3>7. t \in Ids /\ server[t] = r /\ ~Gone(wire)
        BY <1>1, SentFits, UnmovedIsBase DEF OnRow
      <3>8. server' = [server EXCEPT ![t] = r]
        BY <1>1, <2>2, <3>1, <3>3, <3>6, <3>7, Written
      <3>9. server = [i \in Ids |-> server[i]]
        BY <1>1 DEF IInv, TablesFit, Table
      <3> HIDE DEF r, t
      <3> QED BY <3>7, <3>8, <3>9
    <2> QED BY <1>1, <2>1, <2>2, Answered
  <1>2. IInv /\ [Next]_vars =>
          [/\ wire # None /\ wire' = None /\ wire.target # New
           /\ Touched(wire) = {} /\ Unmoved(wire) /\ ~ShownOtherwise(wire.base)
           => server' = server]_vars
    BY <1>1 DEF vars
  <1> QED BY <1>2, InductiveInvariant, PTL DEF Spec, UntouchedSaveChangesNothing

\* What a save wrote is what the dialog showed.
THEOREM ShownIsSaved == Spec => ReopensAsSaved
  <1>1. ASSUME IInv, [Next]_vars, wire # None, wire' = None, server' # server, Unmoved(wire),
               NEW t, t = (IF wire.target = New THEN fresh ELSE wire.target),
               FormLists(form, server'[t])
        PROVE  FormShows(form, FormDraft(form, server'[t]), server'[t])
                   = FormSettled(form, wire.draft, wire.base)
    <2>1. Taken(wire) /\ Apply(wire)
      BY <1>1, Answered
    <2>2. ~Gone(wire)
          /\ wire.base = (IF wire.target = New THEN None ELSE server[wire.target])
          /\ FormAccepts(form, FormBody(form, wire.draft, wire.base), wire.base)
      BY <1>1, <2>1, UnmovedIsBase
    <2>3. server'[t] = FormWrite(form, wire.body, wire.base)
      BY <1>1, <2>1, <2>2, Written
    <2>4. OnRow(form, wire.target, wire.base) /\ DraftFits(form, wire.draft, wire.base)
          /\ Sendable(form, wire.draft, wire.base)
          /\ wire.body = FormBody(form, wire.draft, wire.base)
      BY <1>1, SentFits
    <2> QED BY <1>1, <2>2, <2>3, <2>4, Facts DEF Answers
  <1>2. IInv /\ [Next]_vars =>
          [wire # None /\ wire' = None /\ server' # server /\ Unmoved(wire)
           => LET t == IF wire.target = New THEN fresh ELSE wire.target
              IN  FormLists(form, server'[t]) =>
                      FormShows(form, FormDraft(form, server'[t]), server'[t])
                          = FormSettled(form, wire.draft, wire.base)]_vars
    BY <1>1 DEF vars
  <1> QED BY <1>2, InductiveInvariant, PTL DEF Spec, ReopensAsSaved

-----------------------------------------------------------------------------
LEMMA EvenlyIsAll ==
  ASSUME NEW a \in Nat, NEW s \in Months
  PROVE  SumOf(Evenly(a, s, 3)) = a
  <1> DEFINE e == Evenly(a, s, 3)
  <1>1. CASE s = 1
    <2>1. PICK q, x \in Nat : q = a \div 3 /\ x = a % 3 /\ x < 3 /\ a = 3 * q + x
      OBVIOUS
    <2>2. /\ e[1] = q + (IF 0 < x THEN 1 ELSE 0)
          /\ e[2] = q + (IF 1 < x THEN 1 ELSE 0)
          /\ e[3] = q + (IF 2 < x THEN 1 ELSE 0)
      BY <1>1, <2>1 DEF Evenly, Months
    <2> HIDE DEF e
    <2>3. e[1] \in Nat /\ e[2] \in Nat /\ e[3] \in Nat /\ e[1] + e[2] + e[3] = a
      <3>1. x = 0 \/ x = 1 \/ x = 2
        BY <2>1
      <3>2. CASE x = 0
        BY <2>1, <2>2, <3>2
      <3>3. CASE x = 1
        BY <2>1, <2>2, <3>3
      <3>4. CASE x = 2
        BY <2>1, <2>2, <3>4
      <3> QED BY <3>1, <3>2, <3>3, <3>4
    <2>4. SumOf(e) = a
      BY <2>3 DEF SumOf
    <2> QED BY <2>4 DEF e
  <1>2. CASE s = 2
    <2>1. PICK q, x \in Nat : q = a \div 2 /\ x = a % 2 /\ x < 2 /\ a = 2 * q + x
      OBVIOUS
    <2>2. /\ e[1] = None
          /\ e[2] = q + (IF 0 < x THEN 1 ELSE 0)
          /\ e[3] = q + (IF 1 < x THEN 1 ELSE 0)
      BY <1>2, <2>1 DEF Evenly, Months
    <2>3. e[1] \notin Nat /\ e[2] \in Nat /\ e[3] \in Nat /\ e[2] + e[3] = a
      BY <2>1, <2>2
    <2> HIDE DEF e
    <2>4. SumOf(e) = a
      BY <2>3 DEF SumOf
    <2> QED BY <2>4 DEF e
  <1>3. CASE s = 3
    <2>2. e[1] = None /\ e[2] = None /\ e[3] = a \div 1 + (IF 0 < a % 1 THEN 1 ELSE 0)
      BY <1>3 DEF Evenly, Months
    <2>3. e[1] \notin Nat /\ e[2] \notin Nat /\ e[3] \in Nat /\ e[3] = a
      BY <2>2
    <2> HIDE DEF e
    <2>4. SumOf(e) = a
      BY <2>3 DEF SumOf
    <2> QED BY <2>4 DEF e
  <1> QED BY <1>1, <1>2, <1>3 DEF Months

\* Only a request changes the plan that an amount is split over.
LEMMA SplitIsSent ==
  ASSUME IInv, [Next]_vars, form = "split", server' # server
  PROVE  wire # None /\ wire.target = New /\ Taken(wire) /\ Apply(wire)
  <1>1. side = None /\ doomed = None
    BY DEF IInv, OthersFit, Linked
  <1>2. (\A r : FormElsewhere(form, r) = {}) /\ ~Removes
    BY DEF FormElsewhere, Removes, FormOffers, SplitOffers
  <1>3. wire # None /\ Taken(wire) /\ Apply(wire)
    BY <1>1, <1>2 DEF Next, vars, OpenNew, OpenRow, Type, Close, Submit, SubmitSuggested,
       Saved, Refused, LoseAnswer, AskSide, SideSaved, AskRemove, CancelRemove, Removed,
       OtherWrites, Refetch
  <1>4. wire.target = New
    BY <1>3, SentFits, SplitIs DEF OnRow, Opens
  <1> QED BY <1>3, <1>4

\* An amount that is split over the year is all there.
THEOREM SplitAddsUp == Spec => SplitExact
  <1>1. ASSUME IInv, [Next]_vars, form = "split", server' # server
        PROVE  SumOf(server'[fresh].targets) = Won(wire.draft.total)
    <2> DEFINE d == wire.draft
    <2>1. wire # None /\ wire.target = New /\ Taken(wire) /\ Apply(wire)
      BY <1>1, SplitIsSent
    <2>2. d \in SplitDrafts /\ SplitReady(d) /\ wire.body = SplitBody(d, wire.base)
      BY <1>1, <2>1, SentFits, SplitIs
    <2>3. ~Gone(wire)
      BY <2>1 DEF Gone
    <2>4. AmountFits(d.total)
      BY <1>1, <2>1, <2>2, <2>3, SplitTaken, SplitIs DEF Taken
    <2>5. PICK w : w = SplitWrite(SplitBody(d, wire.base), None)
      OBVIOUS
    <2>6. server'[fresh] = w
      BY <1>1, <2>1, <2>2, <2>3, <2>5, Written, SplitIs
    <2>7. w.targets = Evenly(Won(d.total), d.start, 3) /\ Won(d.total) \in Nat
          /\ d.start \in Months
      BY <2>2, <2>4, <2>5, SplitWrites
    <2> QED BY <2>6, <2>7, EvenlyIsAll
  <1>2. IInv /\ [Next]_vars =>
          [form = "split" /\ server' # server =>
            SumOf(server'[fresh].targets) = Won(wire.draft.total)]_vars
    BY <1>1 DEF vars
  <1> QED BY <1>2, InductiveInvariant, PTL DEF Spec, SplitExact

-----------------------------------------------------------------------------
\* The steps of this browser that change a row.
LEMMA OwnSteps ==
  ASSUME [Next]_vars, Own
  PROVE  \/ UNCHANGED <<server, fresh>>
         \/ wire # None /\ Taken(wire) /\ Apply(wire)
         \/ /\ doomed # None
            /\ server' = [server EXCEPT ![doomed] = IF @ = None THEN None
                                                   ELSE FormAfter(form, @)]
  BY DEF Own, Next, vars, OpenNew, OpenRow, Type, Close, Submit, SubmitSuggested, Saved,
     Refused, LoseAnswer, AskSide, SideSaved, AskRemove, CancelRemove, Removed, OtherWrites,
     Refetch

\* What is saved on the month screen leaves the other months of an item.
LEMMA MonthSaved ==
  ASSUME IInv, form = "monthItem", wire # None, Taken(wire), Apply(wire),
         NEW i \in Ids, NEW m \in Months \ {This}, server[i] # None
  PROVE  server'[i] # None /\ server'[i].targets[m] = server[i].targets[m]
  <1> DEFINE d == wire.draft
             t == IF wire.target = New THEN fresh ELSE wire.target
             s == IF wire.target = New THEN None ELSE server[wire.target]
  <1>1. CASE Gone(wire)
    BY <1>1 DEF Apply, Gone
  <1>2. CASE ~Gone(wire) /\ i # t
    BY <1>2, Written
  <1>3. CASE ~Gone(wire) /\ i = t
    <2>1. wire.target # New
      BY <1>3 DEF IInv, TablesFit
    <2>2. wire.target = i /\ s = server[i] /\ s # None
      BY <1>3, <2>1
    <2>3. d \in MonthItemDrafts /\ MonthItemReady(d) /\ wire.body = MonthItemBody(d, wire.base)
      BY SentFits, MonthItemIs
    <2>4. AmountFits(d.amount)
      <3>1. MonthItemAccepts(MonthItemBody(d, wire.base), s)
        BY <1>3, <2>1, <2>3, MonthItemIs DEF Taken
      <3>2. MonthItemBody(d, wire.base).amount = d.amount
        BY <2>3 DEF MonthItemBody, MonthItemDrafts
      <3> QED BY <3>1, <3>2 DEF MonthItemAccepts
    <2>5. s \in PlanItemRow
      BY <2>2, MonthItemIs DEF IInv, TablesFit, Table
    <2>6. PICK w : w = MonthItemWrite(MonthItemBody(d, wire.base), s)
      OBVIOUS
    <2>7. server'[i] = w
      BY <1>3, <2>3, <2>6, Written, MonthItemIs
    <2> HIDE DEF s, d
    <2>8. w \in PlanItemRow /\ w.targets[m] = s.targets[m]
      BY <2>2, <2>3, <2>4, <2>5, <2>6, MonthItemWrites
    <2>9. w # None
      BY <2>8 DEF Dialogs, FormRow
    <2> QED BY <2>2, <2>7, <2>8, <2>9
  <1> QED BY <1>1, <1>2, <1>3

\* A removal on the month screen leaves the other months, and the item with them.
LEMMA MonthRemoved ==
  ASSUME NEW r \in PlanItemRow, NEW m \in Months \ {This}, r.targets[m] # None
  PROVE  /\ MonthItemAfter(r) # None
         /\ MonthItemAfter(r).targets[m] = r.targets[m]
  <1>1. PICK x : x = MonthItemAfter(r)
    OBVIOUS
  <1>2. x \in PlanItemRow /\ x.targets = [r.targets EXCEPT ![This] = None]
    BY <1>1, MonthItemLeft
  <1>3. x # None
    BY <1>2 DEF Dialogs, FormRow
  <1>4. r.targets \in [Months -> {None} \cup Nat]
    BY DEF PlanItemRow
  <1> QED BY <1>1, <1>2, <1>3, <1>4

\* Whatever is saved or removed on the month screen is about that month.
THEOREM OtherMonthsStay == Spec => OtherMonthsKept
  <1>1. ASSUME IInv, [Next]_vars, form = "monthItem", Own,
               NEW i \in Ids, NEW m \in Months \ {This}, server[i] # None,
               server[i].targets[m] # None
        PROVE  server'[i] # None /\ server'[i].targets[m] = server[i].targets[m]
    <2>1. CASE UNCHANGED <<server, fresh>>
      BY <1>1, <2>1
    <2>2. CASE wire # None /\ Taken(wire) /\ Apply(wire)
      BY <1>1, <2>2, MonthSaved
    <2>3. CASE doomed # None /\ server' = [server EXCEPT ![doomed] = IF @ = None THEN None
                                                                 ELSE FormAfter(form, @)]
      <3>1. DOMAIN server = Ids /\ server[i] \in PlanItemRow
        BY <1>1, MonthItemIs DEF IInv, TablesFit, Table
      <3>2. server'[i] = server[i] \/ server'[i] = MonthItemAfter(server[i])
        BY <1>1, <2>3, <3>1, MonthItemIs
      <3>3. PICK r : r = server[i]
        OBVIOUS
      <3> QED BY <1>1, <3>1, <3>2, <3>3, MonthRemoved
    <2> QED BY <1>1, <2>1, <2>2, <2>3, OwnSteps
  <1>2. IInv /\ [Next]_vars =>
          [form = "monthItem" /\ Own =>
            \A i \in Ids, m \in Months \ {This} :
                server[i] # None => LET was == server[i].targets[m]
                                    IN  was # None => /\ server'[i] # None
                                                      /\ server'[i].targets[m] = was]_vars
    BY <1>1 DEF vars, Own
  <1> QED BY <1>2, InductiveInvariant, PTL DEF Spec, OtherMonthsKept

-----------------------------------------------------------------------------
LEMMA KeptIsAll ==
  ASSUME NEW r \in GoalRow, GoalFits(r), r # None
  PROVE  Kept(r.targets, r) = r.achieved
  <1>1. r.achieved \in [Months -> Nat]
    BY DEF GoalRow
  <1>2. \A m \in Months : r.targets[m] = None => r.achieved[m] = 0
    BY DEF GoalFits
  <1> QED BY <1>1, <1>2 DEF Kept

\* A goal form that touched neither the end nor the plan loses nothing of what was
\* achieved, as long as the plan is the one it opened on.
THEOREM AchievedStays == Spec => AchievedKept
  <1>1. ASSUME IInv, [Next]_vars, form = "goal", wire # None, wire' = None,
               wire.target # New, Touched(wire) \cap {"date", "targets"} = {}, ~Gone(wire),
               server[wire.target].targets = wire.base.targets
        PROVE  server'[wire.target].achieved = server[wire.target].achieved
    <2>1. CASE UNCHANGED <<server, fresh>>
      BY <2>1
    <2>2. CASE Taken(wire) /\ Apply(wire)
      <3> DEFINE d == wire.draft
                 r == wire.base
                 i == wire.target
                 s == server[i]
      <3>1. i \in Ids /\ r # None /\ r \in GoalRow /\ d \in GoalDrafts(r) /\ KindsAgree(d, r)
            /\ GoalReady(d) /\ wire.body = GoalBody(d, r)
        BY <1>1, SentFits, GoalIs DEF OnRow, Opens
      <3>2. s # None /\ s \in GoalRow /\ GoalFits(s)
        BY <1>1, <3>1, GoalIs DEF Gone, IInv, TablesFit, Table
      <3>3. s.kind = d.kind
        <4>1. Known(i, r)
          BY <1>1 DEF IInv, WireFits
        <4>2. r.kind = s.kind
          BY <1>1, <3>1, <3>2, <4>1, GoalIs DEF Known
        <4> QED BY <3>1, <4>2 DEF KindsAgree
      <3>4. GoalAccepts(GoalBody(d, r), s)
        BY <1>1, <2>2, <3>1, GoalIs DEF Taken
      <3>5. d.targets = s.targets
        <4>1. "targets" \in DOMAIN d
          BY <3>1 DEF GoalDrafts
        <4>2. d["targets"] = GoalDraft(r)["targets"]
          BY <1>1, <4>1, GoalIs DEF Touched, Opened
        <4> QED BY <1>1, <4>2 DEF GoalDraft
      <3>6. PICK w : w = GoalWrite(GoalBody(d, r), s)
        OBVIOUS
      <3>7. server'[i] = w
        BY <1>1, <2>2, <3>1, <3>6, Written, GoalIs
      <3> HIDE DEF s, d, r, i
      <3>8. w.achieved = Kept(d.targets, s)
        <4>1. GoalStands(w, d, s)
          BY <3>1, <3>2, <3>3, <3>4, <3>6, GoalKept
        <4> QED BY <4>1 DEF GoalStands
      <3>9. w.achieved = s.achieved
        BY <3>2, <3>5, <3>8, KeptIsAll
      <3> QED BY <3>7, <3>9 DEF s, i
    <2> QED BY <1>1, <2>1, <2>2, Answered
  <1>2. IInv /\ [Next]_vars =>
          [form = "goal" /\ wire # None /\ wire' = None /\ wire.target # New
           /\ Touched(wire) \cap {"date", "targets"} = {} /\ ~Gone(wire)
           /\ server[wire.target].targets = wire.base.targets
           => server'[wire.target].achieved = server[wire.target].achieved]_vars
    BY <1>1 DEF vars
  <1> QED BY <1>2, InductiveInvariant, PTL DEF Spec, AchievedKept
=============================================================================
