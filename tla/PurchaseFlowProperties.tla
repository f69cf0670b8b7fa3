----------------------- MODULE PurchaseFlowProperties -----------------------
(***************************************************************************)
(* What the purchase flow must and must not do.                            *)
(***************************************************************************)
EXTENDS PurchaseFlow

(***************************************************************************)
(* Postgres                                                                *)
(***************************************************************************)
Sold == {p \in Purchases : txn[p] = "COMPLETED"}

\* Duplicate deliveries, retries after an unknown commit and the reconciler
\* never decrement the stock twice for a purchase, nor lose a decrement: the
\* row lock of completePurchaseTransaction (service.ts:249-265).
StockConservation == dbStock + Cardinality(Sold) = InitialStock

\* The database transactions of the workers do not interfere: a row they hold
\* is pending and has one holder, and at most one of them is past the
\* decrement, with a unit to take.  Cancelling, by anyone, waits for them.
Holds(w) == wrk[w].pc \in {"decrement", "commit"}

LocksIsolate ==
    /\ \A w \in Workers : Holds(w) => txn[wrk[w].msg] = "PENDING"
    /\ \A v, w \in Workers :
         Holds(v) /\ Holds(w) /\ wrk[v].msg = wrk[w].msg => v = w
    /\ \A w \in Workers : Doing(w, "commit") => dbStock > 0
    /\ \A v, w \in Workers : Doing(v, "commit") /\ Doing(w, "commit") => v = w

\* A user never has two purchases that are pending or completed, whatever
\* mixture of keys, of the Redis path and of the fallback they come from.
OneActivePerUser ==
    \A p, q \in Purchases :
        /\ p.user = q.user
        /\ txn[p] \in Active
        /\ txn[q] \in Active
        => p = q

\* The database behaves like the ledger of what was promised.
Ledger == INSTANCE PurchaseLedger WITH
    remaining <- dbStock,
    open <- {p \in Purchases : txn[p] = "PENDING"},
    buyers <- {u \in Users : HasBought(u)}

ImplementsLedger == Ledger!Spec

(***************************************************************************)
(* Redis against Postgres                                                  *)
(***************************************************************************)
\* A request has reserved purchase p and not yet learnt whether it may insert.
Inserting(p) == \E r \in Requests : /\ req[r].pc \in {"insert", "release"}
                                    /\ req[r].in = p

\* Units that left the counter and may still come back or be sold.  The unit
\* of a completed purchase is sold, unless its marker expired and the same
\* key reserved once more: that unit comes back when the insert fails.
Reserved == {p \in PendingPurchases : txn[p] # "COMPLETED" \/ Inserting(p)}

\* While Redis answers, counter and reservations together are exactly the
\* stock in Postgres: no interleaving of reservations, releases, commits,
\* cancellations and cache fills makes Redis sell a unit twice or forget one,
\* so no accepted purchase finds the stock gone.  It holds for one sale with
\* every fault outside Redis, and for several sales without faults.  With
\* both, a unit is lost: an owner whose marker expired reserves again, and the
\* insert that would have refused them fails for another reason
\* (service.ts:77), which keeps a reservation no scan will find.
RedisAccountsForStock ==
    stockKey # NoStock => stockKey + Cardinality(Reserved) = dbStock

\* Whatever fails, a unit Redis does not offer is under the marker of a user,
\* one for each user at most, as long as no marker may expire.  No more is
\* true: after a loss of keys an owner may reserve the purchase they own once
\* more, and when its insert fails without a release, or the worker that
\* completed it writes its marker only now, that unit never comes back.
UnitsAreHeld ==
    (stockKey # NoStock /\ closedSales = {})
        => stockKey + Cardinality(Holders) >= dbStock

\* A completed marker belongs to a completed purchase: nobody is told that a
\* purchase succeeded, or blocked because of one, that was cancelled.
CompletedMarkerIsTrue ==
    \A u \in Users :
        (buyerKey[u] # NoMarker /\ buyerKey[u].state = "completed")
           => txn[[user |-> u, key |-> buyerKey[u].key]] = "COMPLETED"

(***************************************************************************)
(* Answers and dead letters                                                *)
(***************************************************************************)
\* An answer about the database is true, and stays true, whichever of the two
\* paths gave it.
AnswersAreTrue ==
    \A r \in Requests :
        LET p == req[r].in IN
        /\ req[r].resp = "ACCEPTED" => txn[p] # "NONE"
        /\ req[r].resp = "ALREADY_COMPLETED" => txn[p] = "COMPLETED"
        /\ req[r].resp = "ALREADY_PURCHASED" => HasBought(p.user)

\* While Postgres answers, a dead-lettered purchase is cancelled: nobody will
\* look at its message again, so it must not still hold the user's only active
\* row, nor be one that was completed (purchase-worker-handler.ts:36-39).
DeadLettersAreCancelled == \A p \in dlq : txn[p] = "CANCELLED"

\* Without any fault no request ends in a server error.
NoServerErrors == \A r \in Requests : req[r].resp # "ERROR"

\* Nobody is told that there is no active sale while one is running.
NoSaleMeansNoSale ==
    [][\A r \in Requests :
         (req[r].resp = "none" /\ req'[r].resp = "SALE_NOT_FOUND")
            => openSale = NoSale]_vars

(***************************************************************************)
(* Liveness                                                                *)
(***************************************************************************)
ScanIncluding(p) ==
    \E found \in SUBSET Purchases : p \in found /\ ScanStep(found)

\* A request that runs gets to its answer and a handler to its end; the
\* reconciler works through what it found.  A pending row ends up older than
\* the cutoff, and from then on every scan (one a minute) finds it.  Delivery
\* is not fair: nothing reconnects a consumer to the broker.
Fairness ==
    /\ \A r \in Requests : WF_vars(RequestStep(r))
    /\ \A w \in Workers : WF_vars(HandlerStep(w))
    /\ WF_vars(ReconcilerStep)
    /\ \A p \in Purchases : SF_vars(ScanIncluding(p))

LiveSpec == Spec /\ Fairness

\* Every accepted purchase is completed or cancelled, whatever fails, as long
\* as failures end.
ImplementsFairLedger == Ledger!FairSpec

=============================================================================
