---------------------------- MODULE ConsoleProofs -----------------------------
(***************************************************************************)
(* The theorems about the sales table of the frontend, for any number of   *)
(* acts of the user, changes at the server and polls.                      *)
(***************************************************************************)
EXTENDS Console, FiniteSetTheorems, TLAPS

Ids == {Product, OtherId, None}

LEMMA ProductIsNotNone == Product # None
<1> SUFFICES ASSUME Product = None PROVE FALSE
  OBVIOUS
<1>1. {Product, OtherId, None} = {OtherId, None}
  OBVIOUS
<1>2. IsFiniteSet({None}) /\ Cardinality({None}) = 1
  BY FS_Singleton
<1>3. Cardinality({None} \cup {OtherId}) \in {1, 2}
  BY <1>2, FS_AddElement
<1>4. {None} \cup {OtherId} = {OtherId, None}
  OBVIOUS
<1> QED BY <1>1, <1>3, <1>4, ConsoleAssumption

(***************************************************************************)
(* The invariant                                                           *)
(***************************************************************************)
CountersOK ==
    /\ saleVersion \in Nat /\ storedVersion \in Nat /\ storedVersion <= saleVersion
    /\ selectedProductId \in Ids /\ salesRevision \in Nat /\ salesRefresh \in Nat

\* The load of the current effect is for what the table would show now, and
\* asks at a time when the server had the latest sale this page knows of.
LoadOK ==
    salesLoad # None =>
      /\ selectedProductId # None
      /\ \E v \in Nat :
           /\ storedVersion <= v
           /\ salesLoad = SalesTable!Load(salesRequest, [id |-> selectedProductId, version |-> v])

\* What is shown without an error is what its revision names, although the
\* revision need not be the one of now: that of an id may come back later.
ShownOK ==
    salesLoaded # None =>
      \E id \in Ids, revision, count \in Nat :
        /\ salesLoaded = <<id, revision, count>>
        /\ revision <= salesRevision
        /\ ~salesError => sales.of = id
        /\ (~salesError /\ id = Product /\ revision = salesRevision)
             => sales.version >= storedVersion

SalesInv == CountersOK /\ LoadOK /\ ShownOK

LEMMA SalesInit == Init => SalesInv
BY DEF Init, SalesInv, CountersOK, LoadOK, ShownOK, Ids, SalesTable!LoaderInit

\* A step that leaves the table alone.
LEMMA ElsewhereInv ==
    ASSUME SalesInv, UNCHANGED <<salesVars>>, saleVersion' \in {saleVersion, saleVersion + 1}
    PROVE  SalesInv'
<1>1. /\ saleVersion \in Nat /\ storedVersion \in Nat /\ storedVersion <= saleVersion
      /\ UNCHANGED <<salesRevision, selectedProductId, salesRefresh, sales, salesError,
                     salesLoaded, salesLoad, storedVersion>>
  BY DEF SalesInv, CountersOK, salesVars, salesState
<1>2. saleVersion' \in Nat /\ storedVersion' <= saleVersion'
  BY <1>1
<1>3. CountersOK'
  BY <1>1, <1>2 DEF SalesInv, CountersOK
<1>4. LoadOK'
  BY <1>1 DEF SalesInv, LoadOK, salesRequest, SalesRevision, SalesTable!Load
<1>5. ShownOK'
  BY <1>1 DEF SalesInv, ShownOK
<1> QED BY <1>3, <1>4, <1>5 DEF SalesInv

\* The effect runs for a new id, a new revision or a new refresh.
LEMMA EffectInv ==
    ASSUME SalesInv, NEW id \in Ids, NEW revision \in Nat, NEW count \in Nat,
           SalesEffect(id, revision, count),
           <<id, revision, count>> # <<selectedProductId, salesRevision, salesRefresh>>,
           selectedProductId' = id, salesRevision' = revision, salesRefresh' = count,
           salesRevision <= revision,
           saleVersion' = saleVersion,
           \/ storedVersion' = storedVersion
           \/ storedVersion' = saleVersion /\ salesRevision < revision
    PROVE  SalesInv'
<1>1. /\ saleVersion \in Nat /\ storedVersion \in Nat /\ storedVersion <= saleVersion
      /\ salesRevision \in Nat
  BY DEF SalesInv, CountersOK
<1>2. CountersOK'
  BY <1>1 DEF CountersOK
<1>3. UNCHANGED <<sales, salesError, salesLoaded>>
  BY DEF SalesEffect, SalesTable!Abort, SalesTable!Reload, SalesTable!stateVars, salesState
<1>4. LoadOK'
  <2>1. CASE id = None
    BY <2>1 DEF SalesEffect, SalesTable!Abort, LoadOK
  <2>2. CASE id # None
    <3>1. SalesTable!Reload(<<id, revision, count>>, AskFor(id))
      BY <2>2 DEF SalesEffect, SalesRevision, salesRequest
    <3>2. salesLoad' = SalesTable!Load(<<id, revision, count>>, [id |-> id, version |-> saleVersion])
      BY <3>1 DEF SalesTable!Reload, AskFor
    <3>3. salesRequest' = <<id, revision, count>> /\ storedVersion' <= saleVersion
      BY <1>1 DEF salesRequest, SalesRevision
    <3> QED BY <1>1, <2>2, <3>2, <3>3 DEF LoadOK, SalesTable!Load
  <2> QED BY <2>1, <2>2
<1>5. ShownOK'
  <2> SUFFICES ASSUME salesLoaded # None PROVE ShownOK'
    BY <1>3 DEF ShownOK
  <2>1. PICK i \in Ids, r \in Nat, c \in Nat :
          /\ salesLoaded = <<i, r, c>>
          /\ r <= salesRevision
          /\ ~salesError => sales.of = i
          /\ (~salesError /\ i = Product /\ r = salesRevision) => sales.version >= storedVersion
    BY DEF SalesInv, ShownOK
  <2>2. r <= salesRevision'
    BY <1>1, <2>1
  <2>3. (~salesError /\ i = Product /\ r = salesRevision') => sales.version >= storedVersion'
    BY <1>1, <2>1
  <2> QED BY <1>3, <2>1, <2>2, <2>3 DEF ShownOK
<1> QED BY <1>2, <1>4, <1>5 DEF SalesInv

LEMMA SelectInv ==
    ASSUME SalesInv, NEW id \in Ids, SelectProduct(id)
    PROVE  SalesInv'
<1>1. /\ SalesEffect(id, salesRevision, salesRefresh)
      /\ id # selectedProductId /\ selectedProductId' = id
      /\ UNCHANGED <<salesRevision, salesRefresh, storedVersion, saleVersion>>
  BY DEF SelectProduct, serverVars
<1>2. salesRevision \in Nat /\ salesRefresh \in Nat /\ salesRevision <= salesRevision
  BY DEF SalesInv, CountersOK
<1> QED BY <1>1, <1>2, EffectInv

LEMMA RefreshInv == SalesInv /\ RefreshSales => SalesInv'
<1> SUFFICES ASSUME SalesInv, RefreshSales PROVE SalesInv'
  OBVIOUS
<1>1. /\ SalesEffect(selectedProductId, salesRevision, salesRefresh + 1)
      /\ salesRefresh' = salesRefresh + 1
      /\ UNCHANGED <<salesRevision, selectedProductId, storedVersion, saleVersion>>
  BY DEF RefreshSales, serverVars
<1>2. /\ salesRevision \in Nat /\ salesRefresh + 1 \in Nat /\ salesRefresh + 1 # salesRefresh
      /\ salesRevision <= salesRevision /\ selectedProductId \in Ids
  BY DEF SalesInv, CountersOK
<1> QED BY <1>1, <1>2, EffectInv

LEMMA SaleCreatedInv == SalesInv /\ SaleCreated => SalesInv'
<1> SUFFICES ASSUME SalesInv, SaleCreated PROVE SalesInv'
  OBVIOUS
<1>1. /\ SalesEffect(selectedProductId, salesRevision + 1, salesRefresh)
      /\ salesRevision' = salesRevision + 1 /\ storedVersion' = saleVersion
      /\ UNCHANGED <<selectedProductId, salesRefresh, saleVersion>>
  BY DEF SaleCreated, serverVars
<1>2. /\ salesRevision + 1 \in Nat /\ salesRevision < salesRevision + 1
      /\ salesRevision <= salesRevision + 1 /\ salesRevision + 1 # salesRevision
      /\ salesRefresh \in Nat /\ selectedProductId \in Ids
  BY DEF SalesInv, CountersOK
<1> QED BY <1>1, <1>2, EffectInv

\* The table that is mounted anew shows nothing and asks for the new product.
LEMMA ProductCreatedInv == SalesInv /\ ProductCreated => SalesInv'
<1> SUFFICES ASSUME SalesInv, ProductCreated PROVE SalesInv'
  OBVIOUS
<1>1. /\ selectedProductId' = Product /\ salesRefresh' = 0 /\ salesRevision' = salesRevision
      /\ storedVersion' = saleVersion /\ saleVersion' = saleVersion
      /\ salesLoaded' = None
      /\ salesLoad' = SalesTable!Load(<<Product, salesRevision, 0>>,
                                      [id |-> Product, version |-> saleVersion])
  BY DEF ProductCreated, serverVars, SalesTable!Remount, SalesRevision, AskFor
<1>2. saleVersion \in Nat /\ salesRevision \in Nat /\ saleVersion <= saleVersion
  BY DEF SalesInv, CountersOK
<1>3. Product # None
  BY ProductIsNotNone
<1> QED BY <1>1, <1>2, <1>3
        DEF SalesInv, CountersOK, LoadOK, ShownOK, Ids, salesRequest, SalesRevision,
            SalesTable!Load

\* The answer is for the current revision, with the sales of its id as the
\* server had them when it was asked or later.
LEMMA LoadEndsInv == SalesInv /\ SalesLoadEnds => SalesInv'
<1> SUFFICES ASSUME SalesInv, SalesLoadEnds PROVE SalesInv'
  OBVIOUS
<1>1. /\ salesLoad # None /\ salesLoad' = None
      /\ UNCHANGED <<salesRevision, selectedProductId, salesRefresh, storedVersion, saleVersion>>
      /\ \/ \E answer \in SalesAnswers(salesLoad) : SalesTable!SetRows(salesLoad, answer)
         \/ SalesTable!SetError(salesLoad)
  BY DEF SalesLoadEnds, SalesTable!LoadEnds, serverVars
<1>2. PICK v \in Nat :
        /\ storedVersion <= v
        /\ salesLoad = SalesTable!Load(salesRequest, [id |-> selectedProductId, version |-> v])
  BY <1>1 DEF SalesInv, LoadOK
<1>3. /\ salesLoad.revision = <<selectedProductId, salesRevision, salesRefresh>>
      /\ salesLoad.asked.id = selectedProductId /\ salesLoad.asked.version = v
  BY <1>2 DEF SalesTable!Load, salesRequest, SalesRevision
<1>4. /\ CountersOK /\ salesRevision \in Nat /\ salesRefresh \in Nat /\ storedVersion \in Nat
      /\ selectedProductId \in Ids /\ saleVersion \in Nat
  BY DEF SalesInv, CountersOK
<1>5. CountersOK' /\ LoadOK'
  BY <1>1, <1>4 DEF CountersOK, LoadOK
<1>6. CASE SalesTable!SetError(salesLoad)
  <2>1. salesError' = TRUE /\ salesLoaded' = <<selectedProductId, salesRevision, salesRefresh>>
    BY <1>3, <1>6 DEF SalesTable!SetError
  <2> QED BY <1>1, <1>4, <1>5, <2>1 DEF SalesInv, ShownOK
<1>7. CASE \E answer \in SalesAnswers(salesLoad) : SalesTable!SetRows(salesLoad, answer)
  <2>1. PICK w \in v .. saleVersion : SalesTable!SetRows(salesLoad, SalesOf(selectedProductId, w))
    BY <1>3, <1>7 DEF SalesAnswers
  <2>2. /\ salesLoaded' = <<selectedProductId, salesRevision, salesRefresh>>
        /\ sales' = SalesOf(selectedProductId, w)
    BY <1>3, <2>1 DEF SalesTable!SetRows
  <2>3. sales'.of = selectedProductId /\ (selectedProductId = Product => sales'.version = w)
    BY <2>2 DEF SalesOf
  <2>4. w >= storedVersion
    BY <1>2, <1>4, <2>1
  <2> QED BY <1>1, <1>4, <1>5, <2>2, <2>3, <2>4 DEF SalesInv, ShownOK
<1> QED BY <1>1, <1>6, <1>7

LEMMA OvertakenInv == SalesInv /\ SalesOvertakenEnds => SalesInv'
<1> SUFFICES ASSUME SalesInv, SalesOvertakenEnds PROVE SalesInv'
  OBVIOUS
<1>1. UNCHANGED <<sales, salesError, salesLoaded, salesLoad, salesRevision,
                  selectedProductId, salesRefresh, storedVersion, saleVersion>>
  BY DEF SalesOvertakenEnds, SalesTable!OvertakenEnds, SalesTable!AfterAbort,
         SalesTable!stateVars, serverVars
<1> QED BY <1>1 DEF SalesInv, CountersOK, LoadOK, ShownOK, salesRequest, SalesRevision,
                    SalesTable!Load

LEMMA SalesInvariant == Spec => []SalesInv
<1>1. ASSUME SalesInv, Next PROVE SalesInv'
  <2>1. CASE UNCHANGED <<salesVars>> /\ saleVersion' \in {saleVersion, saleVersion + 1}
    BY <1>1, <2>1, ElsewhereInv
  <2>2. CASE FormStep
    <3>1. ASSUME NEW f \in Forms, Stored(f) PROVE SalesInv'
      <4>1. saleVersion' \in {saleVersion, saleVersion + 1}
        BY <3>1 DEF Stored, StoreProduct, StoreSale, StorePurchase
      <4> QED BY <2>1, <3>1, <4>1 DEF Stored
    <3>2. ASSUME NEW f \in Forms, Submit(f) \/ SubmitFails(f) PROVE SalesInv'
      BY <2>1, <3>2 DEF Submit, SubmitFails, serverVars
    <3>3. CASE PurchaseAccepted
      BY <2>1, <3>3 DEF PurchaseAccepted, serverVars
    <3> QED BY <1>1, <2>2, <3>1, <3>2, <3>3, SaleCreatedInv, ProductCreatedInv DEF FormStep
  <2>3. CASE TableStep
    <3>1. CASE RefreshTransactions \/ TransactionsLoadEnds \/ TransactionsOvertakenEnds
      BY <2>1, <3>1 DEF RefreshTransactions, TransactionsLoadEnds, TransactionsOvertakenEnds,
                        serverVars
    <3> QED BY <1>1, <2>3, <3>1, SelectInv, RefreshInv, LoadEndsInv, OvertakenInv
            DEF TableStep, Ids
  <2>4. CASE PollStep
    BY <2>1, <2>4 DEF PollStep, PollSent, PollAnswered, PollFailed, serverVars
  <2>5. CASE ServerChanges
    BY <2>1, <2>5 DEF ServerChanges
  <2> QED BY <1>1, <2>2, <2>3, <2>4, <2>5 DEF Next
<1>2. ASSUME SalesInv, UNCHANGED vars PROVE SalesInv'
  BY <1>2, ElsewhereInv DEF vars, serverVars
<1> QED BY <1>1, <1>2, SalesInit, PTL DEF Spec

(***************************************************************************)
(* The theorems                                                            *)
(***************************************************************************)
LEMMA RevisionIsSomething ==
    ASSUME CountersOK, selectedProductId # None
    PROVE  salesRequest # None
BY ConsoleAssumption DEF CountersOK, Ids, salesRequest, SalesRevision

\* Whatever was selected before, in whatever order loads are aborted and
\* answered: sales shown as loaded are those of the selected product
\* (FlashSalesTable.tsx:31-33, 51-66).
THEOREM SalesAreOfSelection == Spec => []SalesBelongToSelection
<1>1. ASSUME SalesInv PROVE SalesBelongToSelection
  <2> SUFFICES ASSUME selectedProductId # None, ~salesLoading, ~salesError
               PROVE  sales.of = selectedProductId
    BY DEF SalesBelongToSelection
  <2>1. salesLoaded = <<selectedProductId, salesRevision, salesRefresh>> /\ salesLoaded # None
    BY <1>1, RevisionIsSomething DEF salesLoading, salesRequest, SalesRevision, SalesInv
  <2> QED BY <1>1, <2>1 DEF SalesInv, ShownOK
<1> QED BY <1>1, SalesInvariant, PTL

\* A sale this page has created is among the sales it shows as loaded, also
\* when the answer to an older load comes later (App.tsx:97).
THEOREM CreatedSalesAreShown == Spec => []CreatedSaleIsShown
<1>1. ASSUME SalesInv PROVE CreatedSaleIsShown
  <2> SUFFICES ASSUME selectedProductId = Product, ~salesLoading, ~salesError
               PROVE  sales.version >= storedVersion
    BY DEF CreatedSaleIsShown
  <2>1. salesLoaded = <<selectedProductId, salesRevision, salesRefresh>> /\ salesLoaded # None
    BY <1>1, RevisionIsSomething, ProductIsNotNone
       DEF salesLoading, salesRequest, SalesRevision, SalesInv
  <2> QED BY <1>1, <2>1 DEF SalesInv, ShownOK
<1> QED BY <1>1, SalesInvariant, PTL
=============================================================================
