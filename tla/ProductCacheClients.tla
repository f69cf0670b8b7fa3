------------------------- MODULE ProductCacheClients -------------------------
(***************************************************************************)
(* The product cache on its own, with clients that call its scripts in any *)
(* order and for any purchase: what the scripts guarantee without relying  *)
(* on how PurchaseService uses them.                                       *)
(***************************************************************************)
EXTENDS ProductCache

CONSTANT Capacity  \* the largest stock anyone stores under the stock key

ASSUME CapacityAssumption == Capacity \in Nat

vars == <<cacheVars, clockVars>>

Init == CacheInit(Capacity)

Call(p) ==
    /\ \/ Reserve(p)
       \/ MarkCompleted(p)
       \/ Release(p)
    /\ UNCHANGED clockVars

Fill(n) == SetStock(n) /\ UNCHANGED clockVars

Next ==
    \/ \E p \in Purchases : Call(p)
    \/ \E n \in 0 .. Capacity : Fill(n)
    \/ Clock

Spec == Init /\ [][Next]_vars

-----------------------------------------------------------------------------
\* The keys stay well typed whoever calls the scripts: no call takes the
\* counter below zero (cache.ts:124-129).
TypeOK == CacheTypeOK

Held == Cardinality(Holders)

\* The expiry of a completed marker: nobody's reservation ends that way.
ExpiryOfCompleted ==
    \E u \in Users : /\ buyerKey[u] # NoMarker
                     /\ buyerKey[u].state = "completed"
                     /\ Holders' = Holders \ {u}

\* No sequence of script calls makes or loses a unit: what leaves the counter
\* is held under a buyer marker and comes back only when that marker goes.
\* Filling an existing counter changes nothing (SET NX, cache.ts:52-54).
UnitsConserved ==
    [][stockKey # NoStock =>
         \/ stockKey' + Held' = stockKey + Held
         \/ stockKey' = stockKey /\ ExpiryOfCompleted]_vars

\* A completed marker is never turned back into a pending one, for any key:
\* while it lives, its user cannot take a second unit.
CompletedOnlyExpires ==
    [][\A u \in Users :
         (buyerKey[u] # NoMarker /\ buyerKey[u].state = "completed")
            => buyerKey'[u] \in {buyerKey[u], NoMarker}]_vars
=============================================================================
