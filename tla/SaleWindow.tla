----------------------------- MODULE SaleWindow -----------------------------
(***************************************************************************)
(* Flash sales as a purchase sees them: which sale runs now, which are     *)
(* over, and whose window Redis has cached.  The purchase flow is built on *)
(* this abstraction; FlashSale, which has the times, the rows and the two  *)
(* services that write the cache, implements it.                           *)
(***************************************************************************)
CONSTANTS
    Sales,  \* flash sales of the product
    NoSale  \* no sale is running, or no window is cached

ASSUME SaleAssumption == NoSale \notin Sales

VARIABLES
    openSale,      \* the sale whose [startTime, endTime) contains now
    closedSales,   \* the sales whose endTime has passed
    saleWindowKey  \* the sale whose window is cached under flash-sale:{id}

clockVars == <<openSale, closedSales>>
saleVars == <<clockVars, saleWindowKey>>

\* Types of the state.
SaleTypeOK ==
    /\ openSale \in Sales \cup {NoSale}
    /\ closedSales \subseteq Sales
    /\ saleWindowKey \in Sales \cup {NoSale}

SaleInit ==
    /\ openSale = NoSale
    /\ closedSales = {}
    /\ saleWindowKey = NoSale

\* Time passes: the running sale ends, the next one starts, or both at once.
Turn(s) ==
    /\ s # openSale
    /\ s \notin closedSales
    /\ openSale' = s
    /\ closedSales' = closedSales \cup ({openSale} \ {NoSale})
    /\ UNCHANGED saleWindowKey

\* A sale whose end passed between the check of the request and the insert.
MissedSale(s) ==
    /\ s # openSale
    /\ closedSales' = closedSales \cup {s}
    /\ UNCHANGED <<openSale, saleWindowKey>>

\* Only a sale that has started is cached; the write may come after its end.
CacheSale(s) ==
    /\ s \in {openSale} \cup closedSales
    /\ s # NoSale
    /\ saleWindowKey' = s
    /\ UNCHANGED clockVars

\* The window outlives a sale by a day.  A window written over another one
\* keeps that one's expiry until it gets its own.
WindowExpires ==
    /\ closedSales # {}
    /\ saleWindowKey' = NoSale
    /\ UNCHANGED clockVars

SaleNext ==
    \/ \E s \in Sales \cup {NoSale} : Turn(s)
    \/ \E s \in Sales : MissedSale(s) \/ CacheSale(s)
    \/ WindowExpires

SaleSpec == SaleInit /\ [][SaleNext]_saleVars
=============================================================================
