-------------------------- MODULE ProductCacheLemmas --------------------------
(***************************************************************************)
(* What every script and command of the product cache preserves, for any   *)
(* number of users, keys and sales and any stock.  ProductApiProofs and    *)
(* PurchaseFlowProofs build on these lemmas.                               *)
(***************************************************************************)
EXTENDS ProductCache, FiniteSetTheorems, TLAPS

\* Neither part is inductive alone: that a reservation is new follows from the
\* marker that is missing, and the marker's type from the script's checks.
CacheInv == CacheTypeOK /\ ReservationMatchesBuyer

LEMMA PendingIsMarker ==
    \A k \in Keys : Pending(k) \in Markers /\ Pending(k) # NoMarker
BY CacheAssumption DEF Pending, Markers

LEMMA CompletedIsMarker ==
    \A k \in Keys, s \in Sales \cup {NoSale} :
        Completed(k, s) \in Markers /\ Completed(k, s) # NoMarker
BY CacheAssumption DEF Completed, Markers

LEMMA PendingIsNotCompleted ==
    \A k \in Keys, l \in Keys, s \in Sales \cup {NoSale} : Pending(k) # Completed(l, s)
BY DEF Pending, Completed

LEMMA PendingInjective == \A k \in Keys, l \in Keys : Pending(k) = Pending(l) => k = l
BY DEF Pending

LEMMA CacheInitInv ==
    ASSUME NEW stock \in Nat, CacheInit(stock)
    PROVE  CacheInv
<1> USE DEF CacheInit, SaleInit
<1>1. CacheTypeOK
  BY DEF CacheTypeOK, SaleTypeOK
<1>2. ReservationMatchesBuyer
  <2>1. SUFFICES ASSUME NEW p \in Purchases PROVE ~IsPending(p)
    BY DEF ReservationMatchesBuyer
  <2>2. p.user \in Users /\ p.key \in Keys
    BY DEF Purchases
  <2> QED BY <2>2, PendingIsMarker DEF IsPending
<1> QED BY <1>1, <1>2 DEF CacheInv

LEMMA PurchaseByFields ==
    ASSUME NEW p \in Purchases, NEW q \in Purchases
    PROVE  /\ p.user \in Users /\ p.key \in Keys
           /\ p.user = q.user /\ p.key = q.key => p = q
BY DEF Purchases

LEMMA BuyerIsRefused ==
    \A m \in Markers, k \in Keys : BuyerStatus(m, k) # "RESERVED"
<1> SUFFICES ASSUME NEW m \in Markers, NEW k \in Keys
             PROVE  BuyerStatus(m, k) # "RESERVED"
  OBVIOUS
<1>1. CASE m.state = "completed" /\ m.key = k
  BY <1>1 DEF BuyerStatus
<1>2. CASE m.state = "completed" /\ m.key # k
  BY <1>2 DEF BuyerStatus
<1>3. CASE m.state = "pending" /\ m.key = k
  BY <1>3 DEF BuyerStatus
<1>4. CASE m.state = "pending" /\ m.key # k
  BY <1>4 DEF BuyerStatus
<1>5. m.state \in {"pending", "completed"}
  BY DEF Markers
<1> QED BY <1>1, <1>2, <1>3, <1>4, <1>5

\* The script reserves only for a user without marker, from a positive stock.
LEMMA ReservedMeans ==
    ASSUME CacheTypeOK, NEW p \in Purchases, ReserveStatus(p) = "RESERVED"
    PROVE  stockKey \in Nat /\ stockKey > 0 /\ buyerKey[p.user] = NoMarker
<1>1. p.user \in Users /\ p.key \in Keys
  BY PurchaseByFields
<1>2. buyerKey[p.user] \in Markers \cup {NoMarker}
  BY <1>1 DEF CacheTypeOK
<1>3. stockKey # NoStock /\ stockKey \in Nat
  BY DEF ReserveStatus, CacheTypeOK
<1>4. buyerKey[p.user] = NoMarker
  BY <1>1, <1>2, BuyerIsRefused DEF ReserveStatus
<1>5. ~(stockKey <= 0)
  BY <1>4 DEF ReserveStatus
<1> QED BY <1>3, <1>4, <1>5

\* A marker added, replaced or removed adds or removes its user.
LEMMA HoldersAfter ==
    ASSUME CacheInv, NEW u \in Users, NEW m \in Markers \cup {NoMarker},
           buyerKey' = [buyerKey EXCEPT ![u] = m]
    PROVE  Holders' = IF m = NoMarker THEN Holders \ {u} ELSE Holders \cup {u}
BY DEF CacheInv, CacheTypeOK, Holders

(***************************************************************************)
(* One lemma per script                                                    *)
(***************************************************************************)
LEMMA ReserveInv ==
    ASSUME CacheInv, NEW p \in Purchases, Reserve(p), UNCHANGED clockVars
    PROVE  CacheInv'
<1> USE DEF CacheInv, CacheTypeOK, SaleTypeOK, clockVars, cacheVars
<1>1. CASE ReserveStatus(p) = "RESERVED"
  <2>1. TakeReservation(p)
    BY <1>1 DEF Reserve
  <2>2. stockKey \in Nat /\ stockKey > 0 /\ buyerKey[p.user] = NoMarker
    BY <1>1, ReservedMeans
  <2>3. p.user \in Users /\ Pending(p.key) \in Markers
    BY PurchaseByFields, PendingIsMarker
  <2>4. CacheTypeOK'
    BY <2>1, <2>2, <2>3 DEF TakeReservation
  <2>5. ASSUME NEW q \in Purchases
        PROVE  q \in reservationKey' <=> IsPending(q)'
    <3>1. q.user \in Users /\ q.key \in Keys /\ p.key \in Keys
      BY PurchaseByFields
    <3>2. CASE q.user = p.user
      <4>1. q \notin reservationKey
        BY <2>2, <3>1, <3>2, PendingIsMarker
           DEF ReservationMatchesBuyer, IsPending
      <4>2. IsPending(q)' <=> q = p
        BY <2>1, <2>3, <3>1, <3>2, PendingInjective, PurchaseByFields
           DEF TakeReservation, IsPending
      <4> QED BY <2>1, <4>1, <4>2 DEF TakeReservation
    <3>3. CASE q.user # p.user
      <4>1. IsPending(q)' <=> IsPending(q)
        BY <2>1, <2>3, <3>1, <3>3 DEF TakeReservation, IsPending
      <4> QED BY <2>1, <3>3, <4>1 DEF TakeReservation, ReservationMatchesBuyer
    <3> QED BY <3>2, <3>3
  <2> QED BY <2>4, <2>5 DEF ReservationMatchesBuyer
<1>2. CASE ReserveStatus(p) # "RESERVED"
  BY <1>2 DEF Reserve, ReservationMatchesBuyer, IsPending
<1> QED BY <1>1, <1>2

LEMMA MarkCompletedInv ==
    ASSUME CacheInv, NEW p \in Purchases, MarkCompleted(p), UNCHANGED clockVars
    PROVE  CacheInv'
<1> USE DEF CacheInv, CacheTypeOK, SaleTypeOK, clockVars, cacheVars
<1>1. CASE IsPending(p)
  <2> DEFINE m == Completed(p.key, saleWindowKey)
  <2>1. p.user \in Users /\ p.key \in Keys /\ m \in Markers
    BY PurchaseByFields, CompletedIsMarker
  <2>2. /\ buyerKey' = [buyerKey EXCEPT ![p.user] = m]
        /\ reservationKey' = reservationKey \ {p}
        /\ UNCHANGED <<stockKey, saleWindowKey>>
    BY <1>1 DEF MarkCompleted
  <2>3. CacheTypeOK'
    BY <2>1, <2>2
  <2>4. ASSUME NEW q \in Purchases
        PROVE  q \in reservationKey' <=> IsPending(q)'
    <3>1. q.user \in Users /\ q.key \in Keys
      BY PurchaseByFields
    <3>2. CASE q.user = p.user
      <4>1. ~IsPending(q)'
        <5>1. buyerKey'[q.user] = m
          BY <2>1, <2>2, <3>2
        <5>2. Pending(q.key) # m
          BY <2>1, <3>1, PendingIsNotCompleted
        <5> QED BY <5>1, <5>2 DEF IsPending
      <4>2. q \in reservationKey => q = p
        BY <1>1, <2>1, <3>1, <3>2, PendingInjective, PurchaseByFields
           DEF ReservationMatchesBuyer, IsPending
      <4> QED BY <2>2, <4>1, <4>2
    <3>3. CASE q.user # p.user
      <4>1. IsPending(q)' <=> IsPending(q)
        BY <2>1, <2>2, <3>1, <3>3 DEF IsPending
      <4> QED BY <2>2, <3>3, <4>1 DEF ReservationMatchesBuyer
    <3> QED BY <3>2, <3>3
  <2> QED BY <2>3, <2>4 DEF ReservationMatchesBuyer
<1>2. CASE ~IsPending(p)
  BY <1>2 DEF MarkCompleted, ReservationMatchesBuyer, IsPending
<1> QED BY <1>1, <1>2

LEMMA ReleaseInv ==
    ASSUME CacheInv, NEW p \in Purchases, Release(p), UNCHANGED clockVars
    PROVE  CacheInv'
<1> USE DEF CacheInv, CacheTypeOK, SaleTypeOK, clockVars, cacheVars
<1>1. CASE p \in reservationKey /\ IsPending(p)
  <2>1. p.user \in Users /\ p.key \in Keys
    BY PurchaseByFields
  <2>2. /\ buyerKey' = [buyerKey EXCEPT ![p.user] = NoMarker]
        /\ reservationKey' = reservationKey \ {p}
        /\ stockKey' = Increment(stockKey)
        /\ UNCHANGED saleWindowKey
    BY <1>1 DEF Release
  <2>3. CacheTypeOK'
    BY <2>1, <2>2 DEF Increment
  <2>4. ASSUME NEW q \in Purchases
        PROVE  q \in reservationKey' <=> IsPending(q)'
    <3>1. q.user \in Users /\ q.key \in Keys
      BY PurchaseByFields
    <3>2. CASE q.user = p.user
      <4>1. ~IsPending(q)'
        BY <2>1, <2>2, <3>1, <3>2, PendingIsMarker DEF IsPending
      <4>2. q \in reservationKey => q = p
        BY <1>1, <2>1, <3>1, <3>2, PendingInjective, PurchaseByFields
           DEF ReservationMatchesBuyer, IsPending
      <4> QED BY <2>2, <4>1, <4>2
    <3>3. CASE q.user # p.user
      <4>1. IsPending(q)' <=> IsPending(q)
        BY <2>1, <2>2, <3>1, <3>3 DEF IsPending
      <4> QED BY <2>2, <3>3, <4>1 DEF ReservationMatchesBuyer
    <3> QED BY <3>2, <3>3
  <2> QED BY <2>3, <2>4 DEF ReservationMatchesBuyer
<1>2. CASE ~(p \in reservationKey /\ IsPending(p))
  BY <1>2 DEF Release, ReservationMatchesBuyer, IsPending
<1> QED BY <1>1, <1>2

\* The expiry of a completed marker touches no pending one.
LEMMA MarkerExpiresInv ==
    ASSUME CacheInv, NEW u \in Users, MarkerExpires(u)
    PROVE  CacheInv'
<1> USE DEF CacheInv, CacheTypeOK, SaleTypeOK, saleVars, clockVars
<1>1. CacheTypeOK'
  BY DEF MarkerExpires
<1>2. ASSUME NEW q \in Purchases
      PROVE  q \in reservationKey' <=> IsPending(q)'
  <2>1. q.user \in Users /\ q.key \in Keys
    BY PurchaseByFields
  <2>2. CASE q.user = u
    <3>1. ~IsPending(q)
      BY <2>2 DEF MarkerExpires, IsPending, Pending
    <3>2. ~IsPending(q)'
      BY <2>1, <2>2, PendingIsMarker DEF MarkerExpires, IsPending
    <3> QED BY <3>1, <3>2 DEF MarkerExpires, ReservationMatchesBuyer
  <2>3. CASE q.user # u
    BY <2>1, <2>3 DEF MarkerExpires, ReservationMatchesBuyer, IsPending
  <2> QED BY <2>2, <2>3
<1> QED BY <1>1, <1>2 DEF ReservationMatchesBuyer

LEMMA SetStockInv ==
    ASSUME CacheInv, NEW n \in Nat \cup {NoStock}, SetStock(n), UNCHANGED clockVars
    PROVE  CacheInv'
BY DEF CacheInv, CacheTypeOK, SaleTypeOK, clockVars, SetStock,
       ReservationMatchesBuyer, IsPending

LEMMA SetSaleWindowInv ==
    ASSUME CacheInv, NEW s \in Sales \cup {NoSale}, SetSaleWindow(s), UNCHANGED clockVars
    PROVE  CacheInv'
BY DEF CacheInv, CacheTypeOK, SaleTypeOK, clockVars, SetSaleWindow,
       ReservationMatchesBuyer, IsPending

LEMMA LoseKeysInv ==
    ASSUME CacheInv, LoseKeys, UNCHANGED clockVars
    PROVE  CacheInv'
<1>1. CacheTypeOK'
  BY DEF CacheInv, CacheTypeOK, SaleTypeOK, clockVars, LoseKeys
<1>2. ASSUME NEW q \in Purchases PROVE ~IsPending(q)'
  BY PurchaseByFields, PendingIsMarker DEF LoseKeys, IsPending
<1> QED BY <1>1, <1>2 DEF CacheInv, ReservationMatchesBuyer, LoseKeys

LEMMA ClockInv == CacheInv /\ Clock => CacheInv'
<1> SUFFICES ASSUME CacheInv, Clock PROVE CacheInv'
  OBVIOUS
<1>1. CASE SaleNext /\ UNCHANGED <<stockKey, buyerKey, reservationKey>>
  <2>1. SaleTypeOK'
    BY <1>1 DEF CacheInv, CacheTypeOK, SaleTypeOK, SaleNext, Turn, MissedSale,
                CacheSale, WindowExpires, clockVars
  <2> QED BY <1>1, <2>1
          DEF CacheInv, CacheTypeOK, ReservationMatchesBuyer, IsPending
<1>2. CASE \E u \in Users : MarkerExpires(u)
  BY <1>2, MarkerExpiresInv
<1> QED BY <1>1, <1>2 DEF Clock

LEMMA CacheStutterInv ==
    ASSUME CacheInv, UNCHANGED <<cacheVars, clockVars>>
    PROVE  CacheInv'
BY DEF CacheInv, CacheTypeOK, SaleTypeOK, cacheVars, clockVars,
       ReservationMatchesBuyer, IsPending
(***************************************************************************)
(* What a script does to the units under markers                           *)
(***************************************************************************)
LEMMA ReserveTakesUnit ==
    ASSUME CacheInv, IsFiniteSet(Holders), NEW p \in Purchases, Reserve(p),
           ReserveStatus(p) = "RESERVED"
    PROVE  /\ stockKey \in Nat /\ stockKey > 0 /\ stockKey' = stockKey - 1
           /\ IsFiniteSet(Holders')
           /\ Cardinality(Holders') = Cardinality(Holders) + 1
<1>1. stockKey \in Nat /\ stockKey > 0 /\ buyerKey[p.user] = NoMarker
  BY ReservedMeans DEF CacheInv
<1>2. p.user \in Users /\ Pending(p.key) \in Markers /\ Pending(p.key) # NoMarker
  BY PurchaseByFields, PendingIsMarker
<1>3. TakeReservation(p)
  BY DEF Reserve
<1>4. Holders' = Holders \cup {p.user}
  BY <1>2, <1>3, HoldersAfter DEF TakeReservation
<1>5. p.user \notin Holders
  BY <1>1 DEF Holders
<1>6. IsFiniteSet(Holders') /\ Cardinality(Holders') = Cardinality(Holders) + 1
  BY <1>4, <1>5, FS_AddElement
<1> QED BY <1>1, <1>3, <1>6 DEF TakeReservation

LEMMA MarkKeepsUnits ==
    ASSUME CacheInv, NEW p \in Purchases, MarkCompleted(p)
    PROVE  Holders' = Holders /\ stockKey' = stockKey
<1>1. CASE ~IsPending(p)
  BY <1>1 DEF MarkCompleted, cacheVars, Holders
<1>2. CASE IsPending(p)
  <2>1. /\ p.user \in Users /\ p.key \in Keys
        /\ saleWindowKey \in Sales \cup {NoSale}
    BY PurchaseByFields DEF CacheInv, CacheTypeOK, SaleTypeOK
  <2>2. Holders' = Holders \cup {p.user}
    BY <1>2, <2>1, HoldersAfter, CompletedIsMarker DEF MarkCompleted
  <2>3. p.user \in Holders
    BY <1>2, <2>1, PendingIsMarker DEF Holders, IsPending
  <2> QED BY <1>2, <2>2, <2>3 DEF MarkCompleted
<1> QED BY <1>1, <1>2

LEMMA ReleaseReturnsUnit ==
    ASSUME CacheInv, IsFiniteSet(Holders), NEW p \in Purchases, Release(p), IsPending(p)
    PROVE  /\ p.user \in Holders
           /\ stockKey' = Increment(stockKey)
           /\ IsFiniteSet(Holders')
           /\ Cardinality(Holders') = Cardinality(Holders) - 1
<1>1. p.user \in Users /\ p.key \in Keys
  BY PurchaseByFields
<1>2. p \in reservationKey
  BY DEF CacheInv, ReservationMatchesBuyer
<1>3. Holders' = Holders \ {p.user}
  BY <1>1, <1>2, HoldersAfter DEF Release
<1>4. p.user \in Holders
  BY <1>1, PendingIsMarker DEF Holders, IsPending
<1>5. IsFiniteSet(Holders') /\ Cardinality(Holders') = Cardinality(Holders) - 1
  BY <1>3, <1>4, FS_RemoveElement
<1> QED BY <1>2, <1>4, <1>5 DEF Release
=============================================================================
