------------------------------- MODULE Console -------------------------------
(***************************************************************************)
(* The frontend: the three forms of App.tsx and its two tables, with a     *)
(* server whose sales and transactions change meanwhile.  What a table     *)
(* shows is the version of the data it was answered with: a number that    *)
(* grows with every change.  A request that was sent at one version is     *)
(* answered with that version or a later one.                              *)
(***************************************************************************)
EXTENDS Integers, FiniteSets, Sequences

LOCAL INSTANCE SequencesExt

CONSTANTS
    Product,     \* the id of the product
    OtherId,     \* an id of no product
    MaxPolls,    \* bound: polls under way at the same time
    MaxActs,     \* bound: what the user does
    MaxChanges,  \* bound: what happens at the server
    None         \* no id, no load, no revision

ASSUME ConsoleAssumption ==
    /\ Cardinality({Product, OtherId, None}) = 3
    /\ None \notin {Product, OtherId} \X Nat \X Nat
    /\ MaxPolls \in Nat \ {0}
    /\ MaxActs \in Nat
    /\ MaxChanges \in Nat

VARIABLES
    exists,           \* server: has the product been created?
    saleVersion,      \* server: the sales of the product
    transactionVersion,  \* server: the transactions
    form,             \* the three forms: idle, pending, or stored by the server
    createdProductId, \* App: the product this page has created
    salesRevision, transactionsRevision,   \* App: bumped by successful submits
    selectedProductId, salesRefresh,       \* FlashSalesTable
    sales, salesError, salesLoaded, salesLoad, salesOvertaken,
    refresh,          \* TransactionsTable
    polls,            \* ... its polls under way: the versions they were sent at
    transactions, error, loaded, load, overtaken,
    storedVersion,    \* history: the sales the server had at the last bump
    acts, changes     \* history: for the bounds

serverVars == <<exists, saleVersion, transactionVersion, changes>>
formVars == <<form, createdProductId>>
salesState == <<sales, salesError, salesLoaded, salesLoad, salesOvertaken>>
salesVars == <<salesRevision, selectedProductId, salesRefresh, salesState,
               storedVersion>>
transactionsState == <<transactions, error, loaded, load, overtaken>>
transactionsVars == <<transactionsRevision, refresh, polls, transactionsState>>
vars == <<serverVars, formVars, salesVars, transactionsVars, acts>>

SalesTable == INSTANCE TableLoader WITH
    rows <- sales, error <- salesError, loadedRevision <- salesLoaded,
    load <- salesLoad, overtaken <- salesOvertaken

TransactionsTable == INSTANCE TableLoader WITH
    rows <- transactions, loadedRevision <- loaded

Forms == {"product", "sale", "purchase"}

\* A load of the sales of an id, and the sales of an id at a version.  An id of
\* no product is answered with a 404, one of the errors a load may end with;
\* here it may also be answered with no sales.
AskFor(id) == [id |-> id, version |-> saleVersion]
SalesOf(id, version) ==
    [of |-> id, version |-> IF id = Product THEN version ELSE 0]
NoSales == SalesOf(None, 0)

(***************************************************************************)
(* Revisions                                                               *)
(***************************************************************************)
\* Mutant of SalesRevision: without the product id.
SalesRevisionOfAny(id, revision, count) == <<revision, count>>

\* Mutant of SalesRevision: without the revision of the form.
SalesRevisionOfTable(id, revision, count) == <<id, count>>

SalesRevision(id, revision, count) == <<id, revision, count>>

salesRequest == SalesRevision(selectedProductId, salesRevision, salesRefresh)
salesLoading == selectedProductId # None /\ salesLoaded # salesRequest

request == <<transactionsRevision, refresh>>
loading == loaded # request

Init ==
    /\ exists = FALSE
    /\ saleVersion = 0
    /\ transactionVersion = 0
    /\ form = [f \in Forms |-> "idle"]
    /\ createdProductId = None
    /\ salesRevision = 0
    /\ transactionsRevision = 0
    /\ selectedProductId = None
    /\ salesRefresh = 0
    /\ SalesTable!LoaderInit(NoSales)
    /\ salesLoad = None
    /\ refresh = 0
    /\ polls = <<>>
    /\ TransactionsTable!LoaderInit(0)
    /\ load = TransactionsTable!Load(<<0, 0>>, 0)
    /\ storedVersion = 0
    /\ acts = 0
    /\ changes = 0

Act == acts < MaxActs /\ acts' = acts + 1
Change == changes < MaxChanges /\ changes' = changes + 1

(***************************************************************************)
(* FlashSalesTable                                                         *)
(***************************************************************************)
\* The effect runs when its dependencies change: the id or the revision.
SalesEffect(id, revision, count) ==
    LET next == SalesRevision(id, revision, count) IN
    IF id = None THEN SalesTable!Abort
    ELSE IF id # selectedProductId \/ next # salesRequest
         THEN SalesTable!Reload(next, AskFor(id))
         ELSE UNCHANGED salesState

\* The user types another id.
SelectProduct(id) ==
    /\ Act
    /\ id # selectedProductId
    /\ selectedProductId' = id
    /\ SalesEffect(id, salesRevision, salesRefresh)
    /\ UNCHANGED <<serverVars, formVars, salesRevision, salesRefresh,
                   storedVersion, transactionsVars>>

\* The button is not disabled while a load is under way.
RefreshSales ==
    /\ Act
    /\ salesRefresh' = salesRefresh + 1
    /\ SalesEffect(selectedProductId, salesRevision, salesRefresh + 1)
    /\ UNCHANGED <<serverVars, formVars, salesRevision, selectedProductId,
                   storedVersion, transactionsVars>>

\* What a request for the sales of an id, sent at a version, may be answered.
SalesAnswers(l) ==
    {SalesOf(l.asked.id, v) : v \in l.asked.version .. saleVersion}

SalesLoadEnds ==
    /\ salesLoad # None
    /\ SalesTable!LoadEnds(SalesAnswers(salesLoad))
    /\ UNCHANGED <<serverVars, formVars, salesRevision, selectedProductId,
                   salesRefresh, storedVersion, transactionsVars, acts>>

SalesOvertakenEnds ==
    /\ \E l \in salesOvertaken : SalesTable!OvertakenEnds(l, SalesAnswers(l))
    /\ UNCHANGED <<serverVars, formVars, salesRevision, selectedProductId,
                   salesRefresh, storedVersion, transactionsVars, acts>>

(***************************************************************************)
(* TransactionsTable                                                       *)
(***************************************************************************)
\* The button is disabled while a load is under way.
RefreshTransactions ==
    /\ Act
    /\ ~loading
    /\ refresh' = refresh + 1
    /\ TransactionsTable!Reload(<<transactionsRevision, refresh + 1>>,
                                transactionVersion)
    /\ UNCHANGED <<serverVars, formVars, salesVars, transactionsRevision, polls>>

TransactionsAnswers(l) == l.asked .. transactionVersion

TransactionsLoadEnds ==
    /\ load # None
    /\ TransactionsTable!LoadEnds(TransactionsAnswers(load))
    /\ UNCHANGED <<serverVars, formVars, salesVars, transactionsRevision,
                   refresh, polls, acts>>

TransactionsOvertakenEnds ==
    /\ \E l \in overtaken :
         TransactionsTable!OvertakenEnds(l, TransactionsAnswers(l))
    /\ UNCHANGED <<serverVars, formVars, salesVars, transactionsRevision,
                   refresh, polls, acts>>

PollSent ==
    /\ Len(polls) < MaxPolls
    /\ polls' = Append(polls, transactionVersion)
    /\ UNCHANGED <<serverVars, formVars, salesVars, transactionsRevision,
                   refresh, transactionsState, acts>>

\* Mutant of PollAnswered: a poll does not replace rows that were loaded.
PollIgnored(i) ==
    /\ polls' = RemoveAt(polls, i)
    /\ UNCHANGED <<serverVars, formVars, salesVars, transactionsRevision,
                   refresh, transactionsState, acts>>

\* Rows without a revision; polls are answered in any order.
PollAnswered(i) ==
    /\ polls' = RemoveAt(polls, i)
    /\ \E version \in polls[i] .. transactionVersion : transactions' = version
    /\ error' = FALSE
    /\ UNCHANGED <<serverVars, formVars, salesVars, transactionsRevision,
                   refresh, loaded, load, overtaken, acts>>

\* Errors of a poll are ignored.
PollFailed(i) ==
    /\ polls' = RemoveAt(polls, i)
    /\ UNCHANGED <<serverVars, formVars, salesVars, transactionsRevision,
                   refresh, transactionsState, acts>>

(***************************************************************************)
(* The forms                                                               *)
(***************************************************************************)
\* A form is submitted once at a time; the product form no more once this page
\* has created the product.
Submit(f) ==
    /\ Act
    /\ form[f] = "idle"
    /\ f = "product" => createdProductId = None
    /\ form' = [form EXCEPT ![f] = "pending"]
    /\ UNCHANGED <<serverVars, createdProductId, salesVars, transactionsVars>>

\* The server creates the product once, and sales and purchases only of a
\* product that exists.
StoreProduct ==
    /\ ~exists
    /\ exists' = TRUE
    /\ UNCHANGED <<saleVersion, transactionVersion>>

StoreSale ==
    /\ exists
    /\ saleVersion' = saleVersion + 1
    /\ UNCHANGED <<exists, transactionVersion>>

StorePurchase ==
    /\ exists
    /\ transactionVersion' = transactionVersion + 1
    /\ UNCHANGED <<exists, saleVersion>>

\* The server does what was asked for, if it does.
Stored(f) ==
    /\ form[f] = "pending"
    /\ Change
    /\ \/ f = "product" /\ StoreProduct
       \/ f = "sale" /\ StoreSale
       \/ f = "purchase" /\ StorePurchase
    /\ form' = [form EXCEPT ![f] = "stored"]
    /\ UNCHANGED <<createdProductId, salesVars, transactionsVars, acts>>

\* The answer is an error, or no answer: nothing is bumped, stored or not.
SubmitFails(f) ==
    /\ form[f] # "idle"
    /\ form' = [form EXCEPT ![f] = "idle"]
    /\ UNCHANGED <<serverVars, createdProductId, salesVars, transactionsVars, acts>>

\* The created product is remembered, and the table of its sales, whose key it
\* is, mounted anew.
ProductCreated ==
    /\ form["product"] = "stored"
    /\ form' = [form EXCEPT !["product"] = "idle"]
    /\ createdProductId' = Product
    /\ selectedProductId' = Product
    /\ salesRefresh' = 0
    /\ SalesTable!Remount(NoSales, SalesRevision(Product, salesRevision, 0),
                          AskFor(Product))
    /\ storedVersion' = saleVersion
    /\ UNCHANGED <<serverVars, salesRevision, transactionsVars, acts>>

\* A sale was created: the table of the sales loads again.
SaleCreated ==
    /\ form["sale"] = "stored"
    /\ form' = [form EXCEPT !["sale"] = "idle"]
    /\ salesRevision' = salesRevision + 1
    /\ SalesEffect(selectedProductId, salesRevision + 1, salesRefresh)
    /\ storedVersion' = saleVersion
    /\ UNCHANGED <<serverVars, createdProductId, selectedProductId, salesRefresh,
                   transactionsVars, acts>>

\* A purchase was accepted: the table of the transactions loads again.
PurchaseAccepted ==
    /\ form["purchase"] = "stored"
    /\ form' = [form EXCEPT !["purchase"] = "idle"]
    /\ transactionsRevision' = transactionsRevision + 1
    /\ TransactionsTable!Reload(<<transactionsRevision + 1, refresh>>,
                                transactionVersion)
    /\ UNCHANGED <<serverVars, createdProductId, salesVars, refresh, polls, acts>>

\* The worker, the reconciler and other pages change the data as well.
ServerChanges ==
    /\ Change
    /\ exists
    /\ \/ saleVersion' = saleVersion + 1 /\ UNCHANGED transactionVersion
       \/ transactionVersion' = transactionVersion + 1 /\ UNCHANGED saleVersion
    /\ UNCHANGED <<exists, formVars, salesVars, transactionsVars, acts>>

FormStep ==
    \/ \E f \in Forms : Submit(f) \/ Stored(f) \/ SubmitFails(f)
    \/ ProductCreated \/ SaleCreated \/ PurchaseAccepted

TableStep ==
    \/ \E id \in {Product, OtherId, None} : SelectProduct(id)
    \/ RefreshSales \/ SalesLoadEnds \/ SalesOvertakenEnds
    \/ RefreshTransactions \/ TransactionsLoadEnds \/ TransactionsOvertakenEnds

PollStep ==
    \/ PollSent
    \/ \E i \in DOMAIN polls : PollAnswered(i) \/ PollFailed(i)

\* The poll that was sent first gets its answer.
OldestPollAnswered == polls # <<>> /\ PollAnswered(1)

Next == FormStep \/ TableStep \/ PollStep \/ ServerChanges

Spec == Init /\ [][Next]_vars

\* The browser ends every request, the interval goes on, and not every poll
\* fails.
Fairness ==
    /\ WF_vars(SalesLoadEnds) /\ WF_vars(TransactionsLoadEnds)
    /\ WF_vars(SalesOvertakenEnds) /\ WF_vars(TransactionsOvertakenEnds)
    /\ WF_vars(PollSent) /\ SF_vars(OldestPollAnswered)

FairSpec == Spec /\ Fairness

-----------------------------------------------------------------------------
\* Sales shown without an error or a running load are those of the selected
\* product, whatever was selected before and whichever answer came late
\* (FlashSalesTable.tsx:31-33, 51-66).
SalesBelongToSelection ==
    (selectedProductId # None /\ ~salesLoading /\ ~salesError)
        => sales.of = selectedProductId

\* They include the sale this page has just created, also when the answer to
\* an older load comes later (App.tsx:97, FlashSalesTable.tsx:51).
CreatedSaleIsShown ==
    (selectedProductId = Product /\ ~salesLoading /\ ~salesError)
        => sales.version >= storedVersion

\* "Loading" ends: no load that was overtaken or has failed leaves a table
\* waiting for an answer nobody will give, nor Refresh disabled
\* (TransactionsTable.tsx:22, 34-38, 69).
LoadingEnds == []<>(~loading) /\ []<>(~salesLoading)

\* Once the purchases are processed, the table ends up showing it and stays
\* with it, whatever order the polls are answered in (README.md:156: "The
\* frontend discovers the final status through polling.").
TableCatchesUp == <>[](transactions = transactionVersion)
=============================================================================
