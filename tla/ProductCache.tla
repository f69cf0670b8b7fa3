---------------------------- MODULE ProductCache ----------------------------
(***************************************************************************)
(* The Redis side of a purchase (product/cache.ts, flash-sale/cache.ts):   *)
(* the stock counter, the buyer markers, the reservation keys and the      *)
(* cached sale window of the only product.  Each Lua script is one action, *)
(* because Redis runs a script without interleaving.                       *)
(***************************************************************************)
EXTENDS Integers, FiniteSets, Purchase, SaleWindow

CONSTANTS
    NoStock,  \* the stock key does not exist
    NoMarker  \* the buyer key does not exist

ASSUME CacheAssumption ==
    /\ NoStock \notin Int
    /\ NoMarker \notin [state : {"pending", "completed"}, key : Keys,
                        until : Sales \cup {NoSale}]

VARIABLES
    stockKey,        \* product:{id}:stock
    buyerKey,        \* product:{id}:buyer:<user>, for every user
    reservationKey   \* the reservation keys that exist

cacheVars == <<stockKey, buyerKey, reservationKey, saleWindowKey>>

(***************************************************************************)
(* Types and null values                                                   *)
(***************************************************************************)
\* A buyer marker: 'pending:<key>' without expiry, or 'completed:<key>' kept
\* until a day after the sale whose window was cached when it was written.
Markers == [state : {"pending", "completed"}, key : Keys,
            until : Sales \cup {NoSale}]

Pending(k) == [state |-> "pending", key |-> k, until |-> NoSale]
Completed(k, s) == [state |-> "completed", key |-> k, until |-> s]

\* The purchase holds the user's pending marker.
IsPending(p) == buyerKey[p.user] = Pending(p.key)
PendingPurchases == {p \in Purchases : IsPending(p)}

\* The users who hold, or have bought, a unit.
Holders == {u \in Users : buyerKey[u] # NoMarker}

\* The keys hold what the scripts write; above all the counter is never below
\* zero, because the check and the DECR are one script.
CacheTypeOK ==
    /\ stockKey \in Nat \cup {NoStock}
    /\ buyerKey \in [Users -> Markers \cup {NoMarker}]
    /\ reservationKey \subseteq Purchases
    /\ SaleTypeOK

\* A reservation key exists exactly while its user's marker is pending for the
\* same idempotency key.  Release needs both (cache.ts:255-256), so a pending
\* marker without its reservation could never be given back.
ReservationMatchesBuyer ==
    \A p \in Purchases : p \in reservationKey <=> IsPending(p)

\* createProduct stores the stock after the insert; when that write fails the
\* product exists and the key does not.
CacheInit(stock) ==
    /\ stockKey \in {stock, NoStock}
    /\ buyerKey = [u \in Users |-> NoMarker]
    /\ reservationKey = {}
    /\ SaleInit

(***************************************************************************)
(* The reservation script: its checks in order, then its writes            *)
(***************************************************************************)
\* What a buyer who already has marker m is told.
BuyerStatus(m, k) ==
    CASE m.state = "completed" /\ m.key = k -> "IDEMPOTENT_SUCCESS"
      [] m.state = "pending"   /\ m.key = k -> "DUPLICATE_TRANSACTION"
      [] m.state = "pending"   /\ m.key # k -> "TRANSACTION_IN_PROGRESS"
      [] m.state = "completed" /\ m.key # k -> "ALREADY_PURCHASED"

\* Mutant of ReserveStatus: DECR without looking at the stock.
ReserveStatusAnyStock(p) ==
    IF stockKey = NoStock THEN "PRODUCT_CACHE_MISSING"
    ELSE IF saleWindowKey = NoSale THEN "FLASH_SALE_CACHE_MISSING"
    ELSE IF saleWindowKey # openSale THEN "SALE_INACTIVE"
    ELSE IF buyerKey[p.user] # NoMarker THEN BuyerStatus(buyerKey[p.user], p.key)
    ELSE "RESERVED"

ReserveStatus(p) ==
    IF stockKey = NoStock THEN "PRODUCT_CACHE_MISSING"
    ELSE IF saleWindowKey = NoSale THEN "FLASH_SALE_CACHE_MISSING"
    ELSE IF saleWindowKey # openSale THEN "SALE_INACTIVE"
    ELSE IF buyerKey[p.user] # NoMarker THEN BuyerStatus(buyerKey[p.user], p.key)
    ELSE IF stockKey <= 0 THEN "OUT_OF_STOCK"
    ELSE "RESERVED"

TakeReservation(p) ==
    /\ stockKey' = stockKey - 1
    /\ buyerKey' = [buyerKey EXCEPT ![p.user] = Pending(p.key)]
    /\ reservationKey' = reservationKey \cup {p}
    /\ UNCHANGED saleWindowKey

Reserve(p) ==
    IF ReserveStatus(p) = "RESERVED"
    THEN TakeReservation(p)
    ELSE UNCHANGED cacheVars

(***************************************************************************)
(* The other two scripts                                                   *)
(***************************************************************************)
\* Mutant of MarkCompleted: writes the marker whatever the buyer key holds.
MarkCompletedUnchecked(p) ==
    /\ buyerKey' = [buyerKey EXCEPT ![p.user] = Completed(p.key, saleWindowKey)]
    /\ reservationKey' = reservationKey \ {p}
    /\ UNCHANGED <<stockKey, saleWindowKey>>

\* Mutant of MarkCompleted: the reservation key is left behind.
MarkCompletedKeepsReservation(p) ==
    IF IsPending(p)
    THEN /\ buyerKey' = [buyerKey EXCEPT ![p.user] =
                                Completed(p.key, saleWindowKey)]
         /\ UNCHANGED <<stockKey, reservationKey, saleWindowKey>>
    ELSE UNCHANGED cacheVars

MarkCompleted(p) ==
    IF IsPending(p)
    THEN /\ buyerKey' = [buyerKey EXCEPT ![p.user] =
                                Completed(p.key, saleWindowKey)]
         /\ reservationKey' = reservationKey \ {p}
         /\ UNCHANGED <<stockKey, saleWindowKey>>
    ELSE UNCHANGED cacheVars

\* Redis INCR takes a missing key for zero.
Increment(n) == IF n = NoStock THEN 1 ELSE n + 1

\* Mutant of Release: the markers go, the unit does not come back.
ReleaseWithoutIncrement(p) ==
    IF p \in reservationKey /\ IsPending(p)
    THEN /\ reservationKey' = reservationKey \ {p}
         /\ buyerKey' = [buyerKey EXCEPT ![p.user] = NoMarker]
         /\ UNCHANGED <<stockKey, saleWindowKey>>
    ELSE UNCHANGED cacheVars

Release(p) ==
    IF p \in reservationKey /\ IsPending(p)
    THEN /\ stockKey' = Increment(stockKey)
         /\ reservationKey' = reservationKey \ {p}
         /\ buyerKey' = [buyerKey EXCEPT ![p.user] = NoMarker]
         /\ UNCHANGED saleWindowKey
    ELSE UNCHANGED cacheVars

(***************************************************************************)
(* Plain commands                                                          *)
(***************************************************************************)
\* Mutant of SetStock: SET without NX.
SetStockAlways(n) ==
    /\ stockKey' = n
    /\ UNCHANGED <<buyerKey, reservationKey, saleWindowKey>>

\* setProduct / setStockByProductId: SET NX, which only initialises.
SetStock(n) ==
    /\ stockKey' = IF stockKey = NoStock THEN n ELSE stockKey
    /\ UNCHANGED <<buyerKey, reservationKey, saleWindowKey>>

\* setActiveFlashSale overwrites the hash.
SetSaleWindow(s) ==
    /\ saleWindowKey' = s
    /\ UNCHANGED <<stockKey, buyerKey, reservationKey>>

\* Every key is gone: Redis restarted without its data or was flushed.
LoseKeys ==
    /\ stockKey' = NoStock
    /\ buyerKey' = [u \in Users |-> NoMarker]
    /\ reservationKey' = {}
    /\ saleWindowKey' = NoSale

(***************************************************************************)
(* Time                                                                    *)
(***************************************************************************)
\* The completed marker of a sale outlives it by a day.  One written while
\* no window was cached lives for a day from then on.
MarkerExpires(u) ==
    /\ buyerKey[u] # NoMarker
    /\ buyerKey[u].state = "completed"
    /\ buyerKey[u].until \in closedSales \cup {NoSale}
    /\ buyerKey' = [buyerKey EXCEPT ![u] = NoMarker]
    /\ UNCHANGED <<stockKey, reservationKey, saleVars>>

\* What happens without a purchase: sales start and end, are cached when an
\* admin creates a running one, and keys expire.
Clock ==
    \/ SaleNext /\ UNCHANGED <<stockKey, buyerKey, reservationKey>>
    \/ \E u \in Users : MarkerExpires(u)
=============================================================================
