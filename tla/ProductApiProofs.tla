--------------------------- MODULE ProductApiProofs ---------------------------
(***************************************************************************)
(* The theorems about the product cache under clients that call its        *)
(* scripts in any order, about the product requests among those clients,   *)
(* and about the limiter in front of them, for any number of creators,     *)
(* readers, users, keys and sales, any stock, limit and window.            *)
(***************************************************************************)
EXTENDS ProductApi, ProductCacheLemmas

(***************************************************************************)
(* The cache and its clients                                               *)
(***************************************************************************)
LEMMA InitInv == Init => CacheInv
BY CapacityAssumption, CacheInitInv DEF Init

LEMMA StepInv == CacheInv /\ [Next]_vars => CacheInv'
<1> SUFFICES ASSUME CacheInv, [Next]_vars PROVE CacheInv'
  OBVIOUS
<1>1. CASE \E p \in Purchases : Call(p)
  BY <1>1, ReserveInv, MarkCompletedInv, ReleaseInv DEF Call
<1>2. CASE \E n \in 0 .. Capacity : Fill(n)
  BY <1>2, CapacityAssumption, SetStockInv DEF Fill
<1>3. CASE Clock
  BY <1>3, ClockInv
<1>4. CASE UNCHANGED vars
  BY <1>4, CacheStutterInv DEF vars
<1> QED BY <1>1, <1>2, <1>3, <1>4 DEF Next

\* Whatever the clients call, every key holds a value of its kind; the stock
\* counter never goes below zero (the script checks before it decrements).
THEOREM CacheIsTyped == Spec => []TypeOK
<1>1. CacheInv => TypeOK
  BY DEF CacheInv, TypeOK
<1> QED BY InitInv, StepInv, <1>1, PTL DEF Spec

\* In any sequence of script calls, for any users and keys, a reservation key
\* exists exactly while its user's marker is pending for the same key.
THEOREM ReservationsMatchBuyers == Spec => []ReservationMatchesBuyer
<1>1. CacheInv => ReservationMatchesBuyer
  BY DEF CacheInv
<1> QED BY InitInv, StepInv, <1>1, PTL DEF Spec

(***************************************************************************)
(* A completed marker is never overwritten                                 *)
(***************************************************************************)
CompletedNow(u) == buyerKey[u] # NoMarker /\ buyerKey[u].state = "completed"

CompletedStays == \A u \in Users :
    CompletedNow(u) => buyerKey'[u] \in {buyerKey[u], NoMarker}

LEMMA CallKeepsCompleted ==
    ASSUME CacheInv, NEW p \in Purchases, Call(p)
    PROVE  CompletedStays
<1> SUFFICES ASSUME NEW u \in Users, CompletedNow(u)
             PROVE  buyerKey'[u] \in {buyerKey[u], NoMarker}
  BY DEF CompletedStays
<1>1. p.user \in Users /\ buyerKey \in [Users -> Markers \cup {NoMarker}]
  BY PurchaseByFields DEF CacheInv, CacheTypeOK
<1>2. CASE UNCHANGED buyerKey
  BY <1>2
<1>3. CASE Reserve(p) /\ ReserveStatus(p) = "RESERVED"
  <2>1. buyerKey[p.user] = NoMarker
    BY <1>3, ReservedMeans DEF CacheInv
  <2>2. u # p.user
    BY <2>1 DEF CompletedNow
  <2> QED BY <1>1, <1>3, <2>2 DEF Reserve, TakeReservation
<1>4. CASE IsPending(p) /\ (MarkCompleted(p) \/ Release(p))
  <2>1. u # p.user
    BY <1>4 DEF IsPending, Pending, CompletedNow
  <2> QED BY <1>1, <1>4, <2>1 DEF MarkCompleted, Release, cacheVars
<1> QED BY <1>2, <1>3, <1>4 DEF Call, Reserve, MarkCompleted, Release, cacheVars

LEMMA StepKeepsCompleted == CacheInv /\ Next => CompletedStays
<1> SUFFICES ASSUME CacheInv, Next PROVE CompletedStays
  OBVIOUS
<1>1. CASE \E p \in Purchases : Call(p)
  BY <1>1, CallKeepsCompleted
<1>2. CASE \E n \in 0 .. Capacity : Fill(n)
  BY <1>2 DEF Fill, SetStock, CompletedStays
<1>3. CASE Clock
  <2>1. CASE UNCHANGED buyerKey
    BY <2>1 DEF CompletedStays
  <2>2. CASE \E v \in Users : MarkerExpires(v)
    BY <2>2 DEF MarkerExpires, CompletedStays, CacheInv, CacheTypeOK
  <2> QED BY <1>3, <2>1, <2>2 DEF Clock
<1> QED BY <1>1, <1>2, <1>3 DEF Next

\* A completed marker is never made pending again nor given to another key by
\* any sequence of script calls: while it lives, its user takes no second unit.
THEOREM CompletedMarkersOnlyExpire == Spec => CompletedOnlyExpires
<1>1. CacheInv /\ [Next]_vars
        => [\A u \in Users :
              (buyerKey[u] # NoMarker /\ buyerKey[u].state = "completed")
                => buyerKey'[u] \in {buyerKey[u], NoMarker}]_vars
  BY StepKeepsCompleted DEF CompletedStays, CompletedNow
<1> QED BY InitInv, StepInv, <1>1, PTL DEF Spec, CompletedOnlyExpires

(***************************************************************************)
(* No unit is made or lost                                                 *)
(***************************************************************************)
UnitsStay == stockKey # NoStock =>
    \/ stockKey' + Held' = stockKey + Held
    \/ stockKey' = stockKey /\ ExpiryOfCompleted

\* The users holding a unit are finitely many: that many calls have been made.
UnitsInv == CacheInv /\ IsFiniteSet(Holders)

LEMMA UnitsInit == Init => UnitsInv
<1> SUFFICES ASSUME Init PROVE IsFiniteSet(Holders)
  BY InitInv DEF UnitsInv
<1>1. Holders = {}
  BY DEF Init, CacheInit, Holders
<1> QED BY <1>1, FS_EmptySet

LEMMA UnitsStep == UnitsInv /\ Next => IsFiniteSet(Holders)' /\ UnitsStay
<1> SUFFICES ASSUME UnitsInv, Next PROVE IsFiniteSet(Holders') /\ UnitsStay
  OBVIOUS
<1> USE DEF UnitsInv
<1>0. /\ Held \in Nat
      /\ stockKey # NoStock => stockKey \in Nat
  BY FS_CardinalityType DEF Held, CacheInv, CacheTypeOK
<1>1. CASE UNCHANGED buyerKey /\ (stockKey # NoStock => UNCHANGED stockKey)
  <2>1. Holders' = Holders
    BY <1>1 DEF Holders
  <2> QED BY <1>0, <1>1, <2>1 DEF UnitsStay, Held
<1>2. ASSUME NEW p \in Purchases, Reserve(p), ReserveStatus(p) = "RESERVED"
      PROVE  IsFiniteSet(Holders') /\ UnitsStay
  BY <1>0, <1>2, ReserveTakesUnit DEF UnitsStay, Held
<1>3. ASSUME NEW p \in Purchases, MarkCompleted(p)
      PROVE  IsFiniteSet(Holders') /\ UnitsStay
  BY <1>0, <1>3, MarkKeepsUnits DEF UnitsStay, Held
<1>4. ASSUME NEW p \in Purchases, IsPending(p), Release(p)
      PROVE  IsFiniteSet(Holders') /\ UnitsStay
  BY <1>0, <1>4, ReleaseReturnsUnit DEF UnitsStay, Held, Increment
<1>5. ASSUME NEW u \in Users, MarkerExpires(u)
      PROVE  IsFiniteSet(Holders') /\ UnitsStay
  <2>1. Holders' = Holders \ {u}
    BY <1>5, HoldersAfter DEF MarkerExpires
  <2>2. IsFiniteSet(Holders')
    BY <2>1, FS_RemoveElement
  <2>3. ExpiryOfCompleted
    BY <1>5, <2>1 DEF MarkerExpires, ExpiryOfCompleted
  <2> QED BY <1>5, <2>2, <2>3 DEF UnitsStay, MarkerExpires
<1>6. CASE \E p \in Purchases : Call(p)
  <2>1. PICK p \in Purchases : Call(p)
    BY <1>6
  <2> QED BY <1>1, <1>2, <1>3, <1>4, <2>1
          DEF Call, Reserve, MarkCompleted, Release, cacheVars
<1>7. CASE \E n \in 0 .. Capacity : Fill(n)
  BY <1>1, <1>7 DEF Fill, SetStock
<1>8. CASE Clock
  BY <1>1, <1>5, <1>8 DEF Clock
<1> QED BY <1>6, <1>7, <1>8 DEF Next

LEMMA UnitsStutter == UnitsInv /\ UNCHANGED vars => IsFiniteSet(Holders)'
<1> SUFFICES ASSUME UnitsInv, UNCHANGED vars PROVE IsFiniteSet(Holders')
  OBVIOUS
<1>1. Holders' = Holders
  BY DEF vars, cacheVars, Holders
<1> QED BY <1>1 DEF UnitsInv

\* For any number of users and any stock, no sequence of script calls makes or
\* loses a unit: what leaves the counter is held under a buyer marker and comes
\* back only when that marker goes.
THEOREM NoUnitIsLost == Spec => UnitsConserved
<1>1. UnitsInv /\ [Next]_vars => UnitsInv'
  BY StepInv, UnitsStep, UnitsStutter DEF UnitsInv
<1>2. UnitsInv /\ [Next]_vars
        => [stockKey # NoStock =>
              \/ stockKey' + Held' = stockKey + Held
              \/ stockKey' = stockKey /\ ExpiryOfCompleted]_vars
  BY UnitsStep DEF UnitsStay
<1> QED BY UnitsInit, <1>1, <1>2, PTL DEF Spec, UnitsConserved

(***************************************************************************)
(* To the cache, the whole application is one of its clients               *)
(***************************************************************************)
LEMMA CreatorIsClient ==
    ASSUME NEW c \in Creators, CreatorStep(c)
    PROVE  [Next]_vars
<1>1. CASE UNCHANGED cacheAndClock
  BY <1>1 DEF cacheAndClock, vars
<1>2. CASE SetStock(Capacity) /\ UNCHANGED clockVars
  BY <1>2, CapacityAssumption DEF Next, Fill
<1>3. CASE UNCHANGED cacheVars /\ UNCHANGED clockVars
  BY <1>3 DEF vars
<1> QED BY <1>1, <1>2, <1>3
        DEF CreatorStep, PostProduct, LockTable, CheckProduct, InsertProduct,
            CommitProduct, WriteDetails, WriteStock, TransactionFails, PrewarmFails

LEMMA ReaderIsClient ==
    ASSUME NEW r \in Readers, ReaderStep(r)
    PROVE  [Next]_vars
<1>1. CASE UNCHANGED cacheAndClock
  BY <1>1 DEF cacheAndClock, vars
<1>2. CASE (\E n \in 0 .. Capacity : SetStock(n)) /\ UNCHANGED clockVars
  BY <1>2 DEF Next, Fill
<1> QED BY <1>1, <1>2
        DEF ReaderStep, GetProduct, ReadDetails, ReadStock, FillDetails,
            FillStockKey, FillMissingStock, ReaderFails

LEMMA StepIsClient == [ApiNext]_apiVars => [Next]_vars
<1> SUFFICES ASSUME [ApiNext]_apiVars PROVE [Next]_vars
  OBVIOUS
<1>1. CASE OtherRequest
  BY <1>1 DEF OtherRequest, cacheAndClock, vars
<1>2. CASE CacheClients
  BY <1>2 DEF CacheClients, Next
<1>3. CASE Time
  BY <1>3 DEF Time, Next, cacheAndClock, vars
<1>4. CASE UNCHANGED apiVars
  BY <1>4 DEF apiVars
<1> QED BY CreatorIsClient, ReaderIsClient, <1>1, <1>2, <1>3, <1>4 DEF ApiNext

\* Creating and reading the product, prewarm and refills included, is nothing
\* but calls of the cache's clients: what they preserve, the application does.
THEOREM ApiIsCacheClient == ApiSpec => Spec
<1>1. ApiInit => Init
  BY DEF ApiInit
<1> QED BY <1>1, StepIsClient, PTL DEF ApiSpec, Spec

\* The guarantees of the scripts hold for the application as a whole.
THEOREM ApiKeepsCache ==
    ApiSpec => /\ []TypeOK
               /\ []ReservationMatchesBuyer
               /\ UnitsConserved
               /\ CompletedOnlyExpires
BY ApiIsCacheClient, CacheIsTyped, ReservationsMatchBuyers, NoUnitIsLost,
   CompletedMarkersOnlyExpire, PTL

(***************************************************************************)
(* Creation                                                                *)
(***************************************************************************)
\* Whoever is in the transaction has the lock, ...
LockHeld == \A c \in Creators : creator[c] \in InTransaction => tableLock = c

\* ... so nobody commits a row between the check and the insert.
NoRowSinceCheck ==
    \A c \in Creators : creator[c] \in {"insert", "commit"} => rows = {}

OneRow == \A c, d \in rows : c = d

RowMatchesStage ==
    \A c \in Creators :
        /\ c \in rows => creator[c] \in {"details", "stock", "201", "500"}
        /\ creator[c] \in {"details", "stock", "201"} => c \in rows
        /\ creator[c] = "409" => rows # {}

\* OneRow needs that the committing creator found no row and that nobody else
\* has committed one since, which is the lock.
CreationInv ==
    ApiTypeOK /\ LockHeld /\ NoRowSinceCheck /\ OneRow /\ RowMatchesStage

LEMMA CreationInit == ApiInit => CreationInv
<1> SUFFICES ASSUME ApiInit PROVE CreationInv
  OBVIOUS
<1>1. ApiTypeOK
  BY DEF ApiInit, ApiTypeOK, CreatorStages, ReaderStages, IdleReader
<1>2. LockHeld /\ NoRowSinceCheck /\ OneRow /\ RowMatchesStage
  BY DEF ApiInit, LockHeld, NoRowSinceCheck, OneRow, RowMatchesStage,
         InTransaction
<1> QED BY <1>1, <1>2 DEF CreationInv

\* Steps that change neither the rows nor the lock nor a creator.
LEMMA CreationUntouched ==
    ASSUME CreationInv, UNCHANGED <<rows, tableLock, creator>>,
           detailsKey' \in BOOLEAN,
           reader' \in [Readers -> [stage : ReaderStages, details : BOOLEAN,
                                    miss : BOOLEAN]]
    PROVE  CreationInv'
BY DEF CreationInv, ApiTypeOK, LockHeld, NoRowSinceCheck, OneRow, RowMatchesStage

LEMMA CreatorKeepsCreation ==
    ASSUME CreationInv, NEW c \in Creators, CreatorStep(c)
    PROVE  CreationInv'
<1> USE CreatorAssumption
    DEF CreationInv, ApiTypeOK, LockHeld, NoRowSinceCheck, OneRow,
        RowMatchesStage, InTransaction, CreatorGoes, Unlock, CreatorStages,
        CreatorAnswers
<1>0. UNCHANGED reader
  BY DEF CreatorStep
<1>1. CASE PostProduct(c)
  BY <1>0, <1>1 DEF PostProduct, productVars
<1>2. CASE LockTable(c)
  BY <1>0, <1>2 DEF LockTable
<1>3. CASE CheckProduct(c)
  BY <1>0, <1>3 DEF CheckProduct
<1>4. CASE InsertProduct(c)
  BY <1>0, <1>4 DEF InsertProduct, productVars
<1>5. CASE CommitProduct(c)
  BY <1>0, <1>5 DEF CommitProduct
<1>6. CASE WriteDetails(c)
  BY <1>0, <1>6 DEF WriteDetails, productVars
<1>7. CASE WriteStock(c)
  BY <1>0, <1>7 DEF WriteStock, productVars
<1>8. CASE TransactionFails(c)
  <2>1. CASE UNCHANGED rows
    BY <1>0, <1>8, <2>1 DEF TransactionFails
  <2>2. CASE creator[c] = "commit" /\ rows' = rows \cup {c}
    BY <1>0, <1>8, <2>2 DEF TransactionFails
  <2> QED BY <1>8, <2>1, <2>2 DEF TransactionFails
<1>9. CASE PrewarmFails(c)
  BY <1>0, <1>9 DEF PrewarmFails, productVars
<1> QED BY <1>1, <1>2, <1>3, <1>4, <1>5, <1>6, <1>7, <1>8, <1>9 DEF CreatorStep

LEMMA ReaderKeepsCreation ==
    ASSUME CreationInv, NEW r \in Readers, ReaderStep(r)
    PROVE  CreationInv'
<1> USE DEF ReaderGoes, ReaderEnds, IdleReader, ReaderStages
<1>1. UNCHANGED <<rows, tableLock, creator>>
  BY DEF ReaderStep, productVars
<1>2. detailsKey' \in BOOLEAN
  BY DEF ReaderStep, CreationInv, ApiTypeOK, GetProduct, ReadDetails, ReadStock,
         FillDetails, FillStockKey, FillMissingStock, ReaderFails
<1>3. reader' \in [Readers -> [stage : ReaderStages, details : BOOLEAN,
                               miss : BOOLEAN]]
  <2> DEFINE R == [stage : ReaderStages, details : BOOLEAN, miss : BOOLEAN]
  <2>1. reader \in [Readers -> R] /\ reader[r] \in R
    BY DEF CreationInv, ApiTypeOK
  <2>2. detailsKey \in BOOLEAN /\ (stockKey = NoStock) \in BOOLEAN
    BY DEF CreationInv, ApiTypeOK
  <2>3. ASSUME NEW x \in R, reader' = [reader EXCEPT ![r] = x]
        PROVE  reader' \in [Readers -> R]
    BY <2>1, <2>3
  <2>4. ASSUME NEW s \in ReaderStages
        PROVE  [reader[r] EXCEPT !.stage = s] \in R
    BY <2>1
  <2>5. ASSUME ReaderGoes(r, "details") \/ ReaderGoes(r, "fillStock")
                 \/ ReaderGoes(r, "setStock") \/ ReaderEnds(r)
        PROVE  reader' \in [Readers -> R]
    BY <2>3, <2>4, <2>5
  <2>6. CASE ReadDetails(r)
    BY <2>1, <2>2, <2>3, <2>6 DEF ReadDetails
  <2>7. CASE ReadStock(r)
    BY <2>1, <2>2, <2>3, <2>5, <2>7 DEF ReadStock
  <2> QED BY <2>5, <2>6, <2>7
          DEF ReaderStep, GetProduct, FillDetails, FillStockKey,
              FillMissingStock, ReaderFails
<1> QED BY <1>1, <1>2, <1>3, CreationUntouched

LEMMA CreationStep == CreationInv /\ [ApiNext]_apiVars => CreationInv'
<1> SUFFICES ASSUME CreationInv, [ApiNext]_apiVars PROVE CreationInv'
  OBVIOUS
<1>1. CASE OtherRequest \/ CacheClients \/ UNCHANGED apiVars
  BY <1>1, CreationUntouched
     DEF OtherRequest, CacheClients, apiVars, productVars, CreationInv, ApiTypeOK
<1>2. CASE Time
  BY <1>2, CreationUntouched DEF Time, productVars, CreationInv, ApiTypeOK
<1> QED BY CreatorKeepsCreation, ReaderKeepsCreation, <1>1, <1>2 DEF ApiNext

\* The product requests keep their state well typed, and the lock's holder is
\* always a request that is inside its transaction.
THEOREM ApiIsTyped == ApiSpec => []ApiTypeOK
<1>1. CreationInv => ApiTypeOK
  BY DEF CreationInv
<1> QED BY CreationInit, CreationStep, <1>1, PTL DEF ApiSpec

\* However many requests create the product at the same time, and however they
\* fail, there is one row at most.
THEOREM ProductIsUnique == ApiSpec => []AtMostOneProduct
<1>1. OneRow => AtMostOneProduct
  <2> SUFFICES ASSUME OneRow PROVE Cardinality(rows) <= 1
    BY DEF AtMostOneProduct
  <2>1. CASE rows = {}
    BY <2>1, FS_EmptySet
  <2>2. CASE rows # {}
    <3>1. PICK c : c \in rows
      BY <2>2
    <3>2. rows = {c}
      BY <3>1 DEF OneRow
    <3> QED BY <3>2, FS_Singleton
  <2> QED BY <2>1, <2>2
<1>2. CreationInv => AtMostOneProduct
  BY <1>1 DEF CreationInv
<1> QED BY CreationInit, CreationStep, <1>2, PTL DEF ApiSpec

\* 201 goes to the request whose row exists, 409 to one that lost to another,
\* and a refused request has left no row.
THEOREM CreationAnswersHold == ApiSpec => []CreationAnswersAreTrue
<1>1. CreationInv => CreationAnswersAreTrue
  BY DEF CreationInv, RowMatchesStage, CreationAnswersAreTrue
<1> QED BY CreationInit, CreationStep, <1>1, PTL DEF ApiSpec

(***************************************************************************)
(* The stock key of a created product                                      *)
(***************************************************************************)
\* No script and no command of the clients removes the stock key.
LEMMA StockKeyStays ==
    ASSUME CacheInv, [Next]_vars, stockKey # NoStock
    PROVE  stockKey' # NoStock
<1>1. stockKey \in Nat
  BY DEF CacheInv, CacheTypeOK
<1>2. CASE \E p \in Purchases : Call(p)
  BY <1>1, <1>2, CacheAssumption
     DEF Call, Reserve, TakeReservation, MarkCompleted, Release, Increment, cacheVars
<1>3. CASE \E n \in 0 .. Capacity : Fill(n)
  BY <1>3 DEF Fill, SetStock
<1>4. CASE Clock
  BY <1>4 DEF Clock, MarkerExpires
<1>5. CASE UNCHANGED vars
  BY <1>5 DEF vars, cacheVars
<1> QED BY <1>2, <1>3, <1>4, <1>5 DEF Next

LEMMA CreatedStep ==
    ASSUME CacheInv, CreationInv, CreatedIsOnSale, [ApiNext]_apiVars
    PROVE  CreatedIsOnSale'
<1> SUFFICES ASSUME NEW c \in Creators, creator'[c] = "201"
             PROVE  stockKey' # NoStock
  BY DEF CreatedIsOnSale
<1>1. CASE creator[c] = "201"
  BY <1>1, StockKeyStays, StepIsClient DEF CreatedIsOnSale
<1>2. CASE creator[c] # "201"
  <2>1. creator' # creator
    BY <1>2
  <2>2. PICK d \in Creators : CreatorStep(d)
    BY <2>1 DEF ApiNext, ReaderStep, OtherRequest, CacheClients, Time, apiVars
  <2>3. creator \in [Creators -> CreatorStages \cup CreatorAnswers]
    BY DEF CreationInv, ApiTypeOK
  <2>4. WriteStock(d)
    BY <1>2, <2>2, <2>3
       DEF CreatorStep, CreatorGoes, PostProduct, LockTable, CheckProduct,
           InsertProduct, CommitProduct, WriteDetails, TransactionFails, PrewarmFails
  <2>5. Capacity # NoStock
    BY CapacityAssumption, CacheAssumption
  <2> QED BY <2>4, <2>5 DEF WriteStock, SetStock
<1> QED BY <1>1, <1>2

\* After a 201 the product can be bought: its stock key exists from then on,
\* whichever of creation and readers wrote it first and whatever buyers do.
THEOREM CreatedProductsAreOnSale == ApiSpec => []CreatedIsOnSale
<1>1. ApiInit => CreatedIsOnSale
  BY DEF ApiInit, CreatedIsOnSale
<1>2. ApiInit => CacheInv
  BY InitInv DEF ApiInit
<1>3. CacheInv /\ [ApiNext]_apiVars => CacheInv'
  BY StepInv, StepIsClient
<1> QED BY CreationInit, CreationStep, <1>1, <1>2, <1>3, CreatedStep, PTL DEF ApiSpec

(***************************************************************************)
(* The limiter                                                             *)
(***************************************************************************)
\* The requests let through in the window that the counter is about, and those
\* of the window before.
Current == {r \in recent : hits > 0 /\ r.ago <= WindowSeconds - left}
Earlier == recent \ Current

CountsDiffer(R) == \A r, q \in R : r.count = q.count => r = q

LimiterTypes ==
    /\ hits \in 0 .. MaxRequests + 1
    /\ left \in 0 .. WindowSeconds
    /\ recent \subseteq [ago : Span, count : 1 .. MaxRequests]
    /\ hits = 0 <=> left = 0

\* A counter that exists was started by a request that was let through, as
\* long ago as the time to live has shrunk.  So the first request of the
\* window before has left the span when the next window begins, and every
\* count is taken once in each of the two.
LimiterInv ==
    /\ LimiterTypes
    /\ hits = 0 => \A r \in recent : r.ago # 0
    /\ hits > 0 => Passed(WindowSeconds - left, 1) \in recent
    /\ CountsDiffer(Current) /\ \A r \in Current : r.count <= hits
    /\ CountsDiffer(Earlier) /\ \A r \in Earlier : r.count # 1

LEMMA LimiterInitInv == LimiterInit => LimiterInv
BY LimiterAssumption
   DEF LimiterInit, LimiterInv, LimiterTypes, Span, Current, Earlier, CountsDiffer

LEMMA AllowKeepsLimiter == LimiterInv /\ Allow => LimiterInv'
<1> SUFFICES ASSUME LimiterInv, Allow PROVE LimiterInv'
  OBVIOUS
<1> DEFINE new == Passed(0, hits + 1)
<1>1. /\ MaxRequests \in Nat \ {0} /\ WindowSeconds \in Nat \ {0}
      /\ hits \in 0 .. MaxRequests - 1 /\ left \in 0 .. WindowSeconds
      /\ hits' = hits + 1 /\ left' = IF hits = 0 THEN WindowSeconds ELSE left
      /\ recent' = recent \cup {new}
      /\ recent \subseteq [ago : Span, count : 1 .. MaxRequests]
      /\ hits = 0 <=> left = 0
  BY LimiterAssumption DEF LimiterInv, LimiterTypes, Allow, WithinLimit, Increase
<1>2. new \in [ago : Span, count : 1 .. MaxRequests] /\ new.ago = 0 /\ new.count = hits + 1
  BY <1>1 DEF Passed, Span
<1>3. \A r \in recent : r.ago \in 0 .. WindowSeconds - 1 /\ r.count \in 1 .. MaxRequests
  BY <1>1 DEF Span
<1>4. Current' = Current \cup {new}
  <2>1. CASE hits = 0
    <3>1. \A r \in recent : ~(r.ago <= 0)
      BY <1>3, <2>1 DEF LimiterInv
    <3>2. hits' > 0 /\ WindowSeconds - left' = 0
      BY <1>1, <2>1
    <3> QED BY <1>1, <1>2, <2>1, <3>1, <3>2 DEF Current
  <2>2. CASE hits # 0
    <3>1. hits > 0 /\ hits' > 0 /\ left' = left /\ 0 <= WindowSeconds - left
      BY <1>1, <2>2
    <3> QED BY <1>1, <1>2, <3>1 DEF Current
  <2> QED BY <2>1, <2>2
<1>5. new \notin recent
  <2>1. CASE hits = 0
    BY <1>2, <2>1 DEF LimiterInv
  <2>2. CASE hits # 0
    <3>1. SUFFICES ASSUME new \in recent PROVE FALSE
      OBVIOUS
    <3>2. new \in Current
      BY <1>1, <1>2, <2>2, <3>1 DEF Current
    <3> QED BY <1>1, <1>2, <3>2 DEF LimiterInv
  <2> QED BY <2>1, <2>2
<1>6. Earlier' = Earlier
  BY <1>1, <1>4, <1>5 DEF Earlier
<1> HIDE DEF new
<1>7. LimiterTypes'
  BY <1>1, <1>2 DEF LimiterTypes
<1>8. hits' > 0 /\ Passed(WindowSeconds - left', 1) \in recent'
  <2>1. CASE hits = 0
    BY <1>1, <2>1 DEF new
  <2>2. CASE hits # 0
    BY <1>1, <2>2 DEF LimiterInv
  <2> QED BY <2>1, <2>2
<1>9. \A r \in Current : r.count \in Nat /\ r.count <= hits
  BY <1>3 DEF LimiterInv, Current
<1>10. CountsDiffer(Current)'
  BY <1>1, <1>2, <1>4, <1>9 DEF LimiterInv, CountsDiffer
<1>11. \A r \in Current' : r.count <= hits'
  BY <1>1, <1>2, <1>4, <1>9
<1>12. CountsDiffer(Earlier)' /\ \A r \in Earlier' : r.count # 1
  BY <1>6 DEF LimiterInv, CountsDiffer
<1> QED BY <1>1, <1>7, <1>8, <1>10, <1>11, <1>12 DEF LimiterInv

LEMMA RefuseKeepsLimiter == LimiterInv /\ Refuse => LimiterInv'
<1> SUFFICES ASSUME LimiterInv, Refuse PROVE LimiterInv'
  OBVIOUS
<1>1. /\ MaxRequests \in Nat \ {0} /\ WindowSeconds \in Nat \ {0}
      /\ hits \in 1 .. MaxRequests + 1 /\ hits' \in {hits, hits + 1}
      /\ hits' \in 1 .. MaxRequests + 1 /\ left' = left /\ recent' = recent
  BY LimiterAssumption DEF LimiterInv, LimiterTypes, Refuse, WithinLimit, Increase
<1>2. Current' = Current /\ Earlier' = Earlier
  BY <1>1 DEF Current, Earlier
<1>3. \A r \in Current : r.count \in Nat
  BY DEF Current, LimiterInv, LimiterTypes
<1>4. LimiterTypes'
  BY <1>1 DEF LimiterInv, LimiterTypes
<1> QED BY <1>1, <1>2, <1>3, <1>4 DEF LimiterInv, CountsDiffer

LEMMA TickKeepsLimiter == LimiterInv /\ LimiterTick => LimiterInv'
<1> SUFFICES ASSUME LimiterInv, LimiterTick PROVE LimiterInv'
  OBVIOUS
<1> DEFINE older(r) == Passed(r.ago + 1, r.count)
<1>1. /\ MaxRequests \in Nat \ {0} /\ WindowSeconds \in Nat \ {0}
      /\ hits \in 0 .. MaxRequests + 1 /\ left \in 0 .. WindowSeconds
      /\ hits = 0 <=> left = 0
      /\ hits' = IF left <= 1 THEN 0 ELSE hits
      /\ left' = IF left <= 1 THEN 0 ELSE left - 1
  BY LimiterAssumption DEF LimiterInv, LimiterTypes, LimiterTick
<1>2. \A r \in recent : r \in [ago : Span, count : 1 .. MaxRequests]
  BY DEF LimiterInv, LimiterTypes
<1>3. recent' = {older(r) : r \in {q \in recent : q.ago + 1 \in Span}}
  BY DEF LimiterTick
<1>4. \A r \in recent : /\ r.ago \in Nat /\ r.ago <= WindowSeconds - 1
                        /\ r.count \in 1 .. MaxRequests
                        /\ older(r).ago = r.ago + 1 /\ older(r).count = r.count
  BY <1>1, <1>2 DEF Span, Passed
<1>5. \A r, q \in recent : r = q <=> (r.ago = q.ago /\ r.count = q.count)
  BY <1>2
<1>6. ASSUME NEW x \in recent'
      PROVE  \E r \in recent : /\ r.ago + 1 \in Span /\ x = older(r)
                               /\ x.ago = r.ago + 1 /\ x.count = r.count
  BY <1>3, <1>4, <1>6
<1>7. LimiterTypes' /\ \A x \in recent' : x.ago # 0
  <2>1. ASSUME NEW x \in recent'
        PROVE  x \in [ago : Span, count : 1 .. MaxRequests] /\ x.ago # 0
    <3>1. PICK r \in recent : r.ago + 1 \in Span /\ x = older(r)
      BY <1>6
    <3> QED BY <1>4, <3>1 DEF Passed
  <2>2. hits' \in 0 .. MaxRequests + 1 /\ left' \in 0 .. WindowSeconds /\ (hits' = 0 <=> left' = 0)
    BY <1>1
  <2> QED BY <2>1, <2>2 DEF LimiterTypes
<1> HIDE DEF older
<1>8. CASE left <= 1
  <2>1. hits' = 0 /\ left' = 0 /\ Current' = {} /\ Earlier' = recent'
    BY <1>1, <1>8 DEF Current, Earlier
  <2>2. CASE hits = 0
    <3>1. Earlier = recent
      BY <2>2 DEF Current, Earlier
    <3>2. CountsDiffer(Earlier)' /\ \A x \in Earlier' : x.count # 1
      BY <1>5, <1>6, <2>1, <3>1 DEF LimiterInv, CountsDiffer
    <3> QED BY <1>7, <2>1, <3>2 DEF LimiterInv, CountsDiffer
  <2>3. CASE hits # 0
    <3>1. left = 1 /\ hits > 0 /\ \A r \in recent : r.ago <= WindowSeconds - left
      BY <1>1, <1>4, <1>8, <2>3
    <3>2. Current = recent
      BY <3>1 DEF Current
    <3>3. /\ Passed(WindowSeconds - 1, 1) \in recent
          /\ Passed(WindowSeconds - 1, 1).ago = WindowSeconds - 1
          /\ Passed(WindowSeconds - 1, 1).count = 1
      BY <3>1 DEF LimiterInv, Passed
    <3>4. \A r \in recent : r.ago + 1 \in Span => r.count # 1
      <4>1. \A r \in recent : r.count = 1 => r.ago = WindowSeconds - 1
        BY <3>2, <3>3 DEF LimiterInv, CountsDiffer
      <4> QED BY <1>1, <4>1 DEF Span
    <3>5. CountsDiffer(Earlier)' /\ \A x \in Earlier' : x.count # 1
      BY <1>6, <2>1, <3>2, <3>4 DEF LimiterInv, CountsDiffer
    <3> QED BY <1>7, <2>1, <3>5 DEF LimiterInv, CountsDiffer
  <2> QED BY <2>2, <2>3
<1>9. CASE left > 1
  <2>1. hits > 0 /\ hits' = hits /\ left' = left - 1 /\ WindowSeconds - left' = WindowSeconds - left + 1
    BY <1>1, <1>9
  <2>2. ASSUME NEW x \in recent'
        PROVE  \E r \in recent : /\ x = older(r) /\ x.count = r.count
                                 /\ x \in Current' <=> r \in Current
    <3>1. PICK r \in recent : x = older(r) /\ x.ago = r.ago + 1 /\ x.count = r.count
      BY <1>6
    <3>2. x.ago <= WindowSeconds - left' <=> r.ago <= WindowSeconds - left
      BY <1>1, <1>4, <2>1, <3>1
    <3> QED BY <2>1, <3>1, <3>2 DEF Current
  <2>3. CountsDiffer(Current)' /\ \A x \in Current' : x.count <= hits'
    <3>1. \A x \in Current' : x \in recent'
      BY DEF Current
    <3> QED BY <2>1, <2>2, <3>1 DEF LimiterInv, CountsDiffer
  <2>4. CountsDiffer(Earlier)' /\ \A x \in Earlier' : x.count # 1
    BY <2>2 DEF Earlier, LimiterInv, CountsDiffer
  <2>5. Passed(WindowSeconds - left', 1) \in recent'
    <3>1. Passed(WindowSeconds - left, 1) \in recent
      BY <2>1 DEF LimiterInv
    <3>2. Passed(WindowSeconds - left, 1).ago + 1 \in Span
      BY <1>1, <1>9 DEF Passed, Span
    <3>3. older(Passed(WindowSeconds - left, 1)) = Passed(WindowSeconds - left', 1)
      BY <2>1 DEF older, Passed
    <3> QED BY <1>3, <3>1, <3>2, <3>3
  <2> QED BY <1>7, <2>1, <2>3, <2>4, <2>5 DEF LimiterInv
<1> QED BY <1>1, <1>8, <1>9

LEMMA LimiterInvariant == ApiSpec => []LimiterInv
<1>1. ApiInit => LimiterInv
  BY LimiterInitInv DEF ApiInit
<1>2. LimiterInv /\ [ApiNext]_apiVars => LimiterInv'
  <2> SUFFICES ASSUME LimiterInv, [ApiNext]_apiVars PROVE LimiterInv'
    OBVIOUS
  <2>1. CASE UNCHANGED limiterVars
    BY <2>1 DEF limiterVars, LimiterInv, LimiterTypes, Current, Earlier, CountsDiffer
  <2>2. Allow \/ Refuse \/ LimiterTick \/ UNCHANGED limiterVars
    BY DEF ApiNext, CreatorStep, PostProduct, LockTable, CheckProduct,
           InsertProduct, CommitProduct, WriteDetails, WriteStock,
           TransactionFails, PrewarmFails, ReaderStep, GetProduct, ReadDetails,
           ReadStock, FillDetails, FillStockKey, FillMissingStock, ReaderFails,
           OtherRequest, CacheClients, Time, Admit, FailOpen, apiVars
  <2> QED BY <2>1, <2>2, AllowKeepsLimiter, RefuseKeepsLimiter, TickKeepsLimiter
<1> QED BY <1>1, <1>2, PTL DEF ApiSpec

\* Whoever is refused was let through within the last window, for any limit and
\* any window: refused requests never prolong the refusal.
THEOREM RefusalsEnd == ApiSpec => []RefusalsEndWithTheWindow
<1>1. LimiterInv => RefusalsEndWithTheWindow
  BY LimiterAssumption DEF LimiterInv, LimiterTypes, RefusalsEndWithTheWindow
<1> QED BY <1>1, LimiterInvariant, PTL

\* A place for each request that was let through: by its count in the current
\* window, after those by its count in the window before.
LEMMA RecentIsBounded ==
    ASSUME LimiterInv
    PROVE  Cardinality(recent) <= 2 * MaxRequests - 1
<1> DEFINE places == 1 .. 2 * MaxRequests - 1
           place == [r \in recent |->
                       IF r \in Current THEN r.count ELSE MaxRequests + r.count - 1]
<1>1. MaxRequests \in Nat \ {0}
  BY LimiterAssumption
<1>2. \A r \in recent : /\ r.count \in 1 .. MaxRequests
                        /\ r \notin Current => r.count # 1
  BY DEF LimiterInv, LimiterTypes, Earlier
<1>3. place \in [recent -> places]
  BY <1>1, <1>2
<1>4. ASSUME NEW r \in recent, NEW q \in recent, place[r] = place[q]
      PROVE  r = q
  <2>1. CASE r \in Current /\ q \in Current
    BY <1>4, <2>1 DEF LimiterInv, CountsDiffer
  <2>2. CASE r \notin Current /\ q \notin Current
    <3>1. r.count = q.count
      BY <1>1, <1>2, <1>4, <2>2
    <3> QED BY <2>2, <3>1 DEF LimiterInv, CountsDiffer, Earlier
  <2>3. CASE r \in Current /\ q \notin Current
    BY <1>1, <1>2, <1>4, <2>3
  <2>4. CASE r \notin Current /\ q \in Current
    BY <1>1, <1>2, <1>4, <2>4
  <2> QED BY <2>1, <2>2, <2>3, <2>4
<1>5. place \in Injection(recent, places)
  BY <1>3, <1>4 DEF Injection, IsInjective
<1> HIDE DEF place
<1>6. IsFiniteSet(places) /\ Cardinality(places) = 2 * MaxRequests - 1
  <2> DEFINE n == 2 * MaxRequests - 1
  <2>1. n \in Nat \ {0}
    BY <1>1
  <2> HIDE DEF n
  <2>2. IsFiniteSet(1 .. n) /\ Cardinality(1 .. n) = IF 1 > n THEN 0 ELSE n - 1 + 1
    BY <2>1, FS_Interval
  <2>3. IsFiniteSet(1 .. n) /\ Cardinality(1 .. n) = n
    BY <2>1, <2>2
  <2> QED BY <2>3 DEF n
<1> QED BY <1>5, <1>6, FS_Injection

\* Whatever the limit, the window and the requests: no stretch of time as long
\* as a window sees two full windows let through.
THEOREM LimitSlides == ApiSpec => []SlidingBound
<1>1. LimiterInv => SlidingBound
  BY RecentIsBounded DEF SlidingBound
<1> QED BY <1>1, LimiterInvariant, PTL
=============================================================================
