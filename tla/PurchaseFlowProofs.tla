-------------------------- MODULE PurchaseFlowProofs --------------------------
(***************************************************************************)
(* The theorems about the purchase flow, for any users, keys, sales,       *)
(* requests, workers, stock, attempts and faults: it never sells a unit    *)
(* twice nor a user two, it implements the ledger, and what Redis, the     *)
(* answers and the dead letters say is true of the rows.  Each of the      *)
(* later parts strengthens FlowInv by an invariant of its own.             *)
(***************************************************************************)
EXTENDS PurchaseFlowLemmas

(***************************************************************************)
(* The theorems                                                            *)
(***************************************************************************)
\* Every state of the flow is well typed; above all the stock in Postgres and
\* the counter in Redis never go below zero.
THEOREM FlowIsTyped == Spec => []TypeOK
<1>1. FlowInv => TypeOK
  BY DEF FlowInv, FlowTypes, TypeOK, CacheInv, ReqTypeOK, WrkInv, WrkTypeOK
<1> QED BY <1>1, FlowInvariant, PTL

\* The transactions of completePurchaseTransaction are isolated by the row
\* lock they begin with and the row lock of the decrement.
THEOREM LocksAreIsolated == Spec => []LocksIsolate
<1>1. FlowInv => LocksIsolate
  BY DEF FlowInv
<1> QED BY <1>1, FlowInvariant, PTL

\* A unit is sold once: the stock in Postgres and the completed purchases add
\* up, whatever is delivered twice, retried, lost or cancelled.
THEOREM StockIsConserved == Spec => []StockConservation
<1>1. FlowInv => StockConservation
  BY DEF FlowInv
<1> QED BY <1>1, FlowInvariant, PTL

\* A user has one purchase pending or completed at most.
THEOREM UsersHaveOnePurchase == Spec => []OneActivePerUser
<1>1. FlowInv => OneActivePerUser
  BY DEF FlowInv
<1> QED BY <1>1, FlowInvariant, PTL

\* In the whole flow, as among the clients of the cache alone, a reservation
\* key exists exactly while its user's marker is pending for the same key.
THEOREM FlowReservationsMatchBuyers == Spec => []ReservationMatchesBuyer
<1>1. FlowInv => ReservationMatchesBuyer
  BY DEF FlowInv, FlowTypes, CacheInv
<1> QED BY <1>1, FlowInvariant, PTL

(***************************************************************************)
(* The flow implements the ledger                                          *)
(***************************************************************************)
OpenRows == {p \in Purchases : txn[p] = "PENDING"}
Owners == {u \in Users : HasBought(u)}

LEMMA OwnersByRow ==
    ASSUME DbTypeOK
    PROVE  /\ \A u \in Users : u \in Owners <=> \E p \in Sold : p.user = u
           /\ \A u \in Users : u \in Owners' <=> \E p \in Sold' : p.user = u
BY DEF Owners, HasBought, ActiveRows, Active, Sold

\* The insert of a pending row accepts its purchase.
LEMMA CreateAccepts ==
    ASSUME DbTypeOK, NEW p \in Purchases, CreatePendingTransaction(p)
    PROVE  Ledger!Accept(p)
<1>1. txn[p] = "NONE" /\ ActiveRows(p.user) = {}
  BY DEF CreatePendingTransaction, UniqueViolation, HasActive
<1>2. txn' = [txn EXCEPT ![p] = "PENDING"] /\ dbStock' = dbStock
  BY DEF CreatePendingTransaction
<1>3. Sold' = Sold
  BY <1>1, <1>2 DEF Sold, DbTypeOK
<1>4. Owners' = Owners
  BY <1>3, OwnersByRow DEF Owners
<1>5. OpenRows' = OpenRows \cup {p}
  BY <1>2 DEF OpenRows, DbTypeOK
<1>6. p.user \notin Owners
  BY <1>1 DEF Owners, HasBought
<1>7. \A q \in OpenRows : q.user # p.user
  BY <1>1 DEF OpenRows, ActiveRows, Active
<1> QED BY <1>2, <1>4, <1>5, <1>6, <1>7 DEF Ledger!Accept, OpenRows, Owners

\* The cancellation of a pending row voids its purchase; of any other row it
\* does nothing.
LEMMA CancelVoids ==
    ASSUME DbTypeOK, NEW p \in Purchases, CancelPendingTransaction(p)
    PROVE  Ledger!Void(p) \/ UNCHANGED Ledger!ledger
<1>1. /\ txn' = [txn EXCEPT ![p] = IF @ = "PENDING" THEN "CANCELLED" ELSE @]
      /\ dbStock' = dbStock
  BY DEF CancelPendingTransaction
<1>2. Sold' = Sold
  BY <1>1 DEF Sold, DbTypeOK
<1>3. Owners' = Owners
  BY <1>2, OwnersByRow DEF Owners
<1>4. OpenRows' = OpenRows \ {p}
  BY <1>1 DEF OpenRows, DbTypeOK
<1>5. CASE txn[p] = "PENDING"
  BY <1>1, <1>3, <1>4, <1>5 DEF Ledger!Void, OpenRows, Owners
<1>6. CASE txn[p] # "PENDING"
  BY <1>1, <1>3, <1>4, <1>6 DEF Ledger!ledger, OpenRows, Owners
<1> QED BY <1>5, <1>6

\* The commit of a pending row sells its purchase.
LEMMA CompleteSells ==
    ASSUME DbTypeOK, NEW p \in Purchases, CompleteTransaction(p),
           txn[p] = "PENDING", dbStock > 0
    PROVE  Ledger!Sell(p)
<1>1. txn' = [txn EXCEPT ![p] = "COMPLETED"] /\ dbStock' = dbStock - 1
  BY DEF CompleteTransaction
<1>2. Sold' = Sold \cup {p}
  BY <1>1 DEF Sold, DbTypeOK
<1>3. p.user \in Users
  BY PurchaseByFields
<1>4. Owners' = Owners \cup {p.user}
  BY <1>2, <1>3, OwnersByRow DEF Owners
<1>5. OpenRows' = OpenRows \ {p} /\ p \in OpenRows
  BY <1>1 DEF OpenRows, DbTypeOK
<1> QED BY <1>1, <1>4, <1>5 DEF Ledger!Sell, OpenRows, Owners

\* The database behaves like the ledger: what the flow accepts it sells once
\* or voids, and a user with a purchase open or owned gets no second one.
THEOREM FlowImplementsLedger == Spec => ImplementsLedger
<1>1. Init => Ledger!Init
  BY DEF Init, DbInit, Ledger!Init, HasBought, ActiveRows
<1>2. ASSUME DbTypeOK, DbStep
      PROVE  Ledger!Next \/ UNCHANGED Ledger!ledger
  <2>1. CASE UNCHANGED dbVars
    BY <2>1 DEF Ledger!ledger, dbVars, HasBought, ActiveRows
  <2>2. CASE \E p \in Purchases : CreatePendingTransaction(p)
    BY <1>2, <2>2, CreateAccepts DEF Ledger!Next, Ledger!Purchases, Purchases
  <2>3. CASE \E p \in Purchases : CancelPendingTransaction(p)
    BY <1>2, <2>3, CancelVoids
       DEF Ledger!Next, Ledger!Decide, Ledger!Purchases, Purchases
  <2>4. CASE \E p \in Purchases :
               CompleteTransaction(p) /\ txn[p] = "PENDING" /\ dbStock > 0
    BY <1>2, <2>4, CompleteSells
       DEF Ledger!Next, Ledger!Decide, Ledger!Purchases, Purchases
  <2> QED BY <1>2, <2>1, <2>2, <2>3, <2>4 DEF DbStep
<1>3. FlowInv /\ [Next]_vars => [Ledger!Next]_(Ledger!ledger)
  <2>1. CASE FlowInv /\ Next
    BY <1>2, <2>1, NextSplits DEF FlowInv, FlowTypes
  <2>2. CASE UNCHANGED vars
    BY <2>2 DEF vars, dbVars, Ledger!ledger, HasBought, ActiveRows
  <2> QED BY <2>1, <2>2
<1> QED BY <1>1, <1>3, FlowInvariant, PTL DEF Spec, ImplementsLedger, Ledger!Spec

(***************************************************************************)
(* What rows, stock and completed markers may become                       *)
(***************************************************************************)
\* A row never goes away, a completed or cancelled one never changes again, the
\* stock never grows and nothing is completed without it.
RowsStay ==
    /\ \A p \in Purchases : txn[p] # "NONE" => txn'[p] # "NONE"
    /\ \A p \in Purchases : txn[p] \in Final => txn'[p] = txn[p]
    /\ dbStock' <= dbStock
    /\ dbStock = 0 => \A p \in Purchases : txn[p] = "PENDING" => txn'[p] # "COMPLETED"

LEMMA DbStepKeepsRows ==
    ASSUME DbTypeOK, DbStep
    PROVE  RowsStay
<1> USE DEF RowsStay, Final, DbTypeOK
<1>1. CASE UNCHANGED dbVars
  BY <1>1 DEF dbVars
<1>2. ASSUME NEW p \in Purchases, CreatePendingTransaction(p)
      PROVE  RowsStay
  BY <1>2 DEF CreatePendingTransaction, UniqueViolation
<1>3. ASSUME NEW p \in Purchases, CancelPendingTransaction(p)
      PROVE  RowsStay
  BY <1>3 DEF CancelPendingTransaction
<1>4. ASSUME NEW p \in Purchases, CompleteTransaction(p), txn[p] = "PENDING", dbStock > 0
      PROVE  RowsStay
  BY <1>4 DEF CompleteTransaction
<1> QED BY <1>1, <1>2, <1>3, <1>4 DEF DbStep

LEMMA BoughtStays ==
    ASSUME DbTypeOK, RowsStay, NEW u, HasBought(u)
    PROVE  HasBought(u)'
BY DEF HasBought, ActiveRows, Active, RowsStay, Final

IsCompleted(u) == buyerKey[u] # NoMarker /\ buyerKey[u].state = "completed"

\* A completed marker is old, or written for a purchase a worker completed.
LEMMA CompletedMarkersAre ==
    ASSUME CacheInv, CacheStep, NEW u \in Users, IsCompleted(u)'
    PROVE  \/ IsCompleted(u) /\ buyerKey'[u] = buyerKey[u]
           \/ \E p \in Purchases :
                Marking(p) /\ p.user = u /\ p.key = buyerKey'[u].key
<1> DEFINE Goal == \/ IsCompleted(u) /\ buyerKey'[u] = buyerKey[u]
                   \/ \E p \in Purchases :
                        Marking(p) /\ p.user = u /\ p.key = buyerKey'[u].key
<1>0. buyerKey \in [Users -> Markers \cup {NoMarker}]
  BY DEF CacheInv, CacheTypeOK
<1>1. CASE buyerKey'[u] = buyerKey[u]
  BY <1>1 DEF IsCompleted
<1>2. CASE Clock
  BY <1>0, <1>1, <1>2 DEF Clock, MarkerExpires, IsCompleted
<1>3. CASE LoseKeys
  BY <1>3 DEF LoseKeys, IsCompleted
<1>4. ASSUME NEW p \in Purchases, Reserve(p)
      PROVE  Goal
  <2>1. p.user \in Users /\ p.key \in Keys /\ Pending(p.key).state = "pending"
    BY PurchaseByFields DEF Pending
  <2>2. CASE TakeReservation(p)
    BY <1>0, <1>1, <2>1, <2>2 DEF TakeReservation, IsCompleted
  <2>3. CASE UNCHANGED cacheVars
    BY <1>1, <2>3 DEF cacheVars
  <2> QED BY <1>4, <2>2, <2>3 DEF Reserve
<1>5. ASSUME NEW p \in Purchases, Release(p)
      PROVE  Goal
  <2>1. p.user \in Users
    BY PurchaseByFields
  <2>2. CASE UNCHANGED cacheVars
    BY <1>1, <2>2 DEF cacheVars
  <2>3. CASE buyerKey' = [buyerKey EXCEPT ![p.user] = NoMarker]
    BY <1>0, <1>1, <2>1, <2>3 DEF IsCompleted
  <2> QED BY <1>5, <2>2, <2>3 DEF Release
<1>6. ASSUME NEW p \in Purchases, Marking(p), MarkCompleted(p)
      PROVE  Goal
  <2>1. p.user \in Users
    BY PurchaseByFields
  <2>2. CASE UNCHANGED cacheVars
    BY <1>1, <2>2 DEF cacheVars
  <2>3. CASE buyerKey' = [buyerKey EXCEPT ![p.user] = Completed(p.key, saleWindowKey)]
    <3>1. Completed(p.key, saleWindowKey).key = p.key
      BY DEF Completed
    <3> QED BY <1>0, <1>1, <1>6, <2>1, <2>3, <3>1
  <2> QED BY <1>6, <2>2, <2>3 DEF MarkCompleted
<1>7. CASE \E r \in Requests : SetStock(req[r].seen)
  BY <1>1, <1>7 DEF SetStock
<1>8. CASE \E r \in Requests : SetSaleWindow(req[r].sale)
  BY <1>1, <1>8 DEF SetSaleWindow
<1>9. CASE UNCHANGED cacheVars
  BY <1>1, <1>9 DEF cacheVars
<1> QED BY <1>2, <1>3, <1>4, <1>5, <1>6, <1>7, <1>8, <1>9 DEF CacheStep

(***************************************************************************)
(* Markers                                                                 *)
(***************************************************************************)
\* A marker is written for a row that is completed, and such a row stays so.
MarkersInv ==
    /\ CompletedMarkerIsTrue
    /\ \A p \in Purchases : Marking(p) => txn[p] = "COMPLETED"

LEMMA WorkerMarking ==
    ASSUME WrkInv, DbTypeOK, NEW w \in Workers, WorkerStep(w) \/ WorkerFault(w),
           NEW v \in Workers, Doing(v, "mark")'
    PROVE  \/ Doing(v, "mark") /\ wrk'[v].msg = wrk[v].msg
           \/ txn'[wrk'[v].msg] = "COMPLETED"
<1> DEFINE Goal == \/ Doing(v, "mark") /\ wrk'[v].msg = wrk[v].msg
                   \/ txn'[wrk'[v].msg] = "COMPLETED"
<1> USE DEF Doing
<1>0. wrk \in [Workers -> WorkerStates]
  BY DEF WrkInv, WrkTypeOK
<1>1. CASE wrk'[v] = wrk[v]
  BY <1>1
<1>2. ASSUME NEW pc, Do(w, pc), pc # "mark"
      PROVE  Goal
  BY <1>0, <1>1, <1>2 DEF Do, WorkerStates
<1>3. CASE Finish(w)
  BY <1>0, <1>1, <1>3 DEF Finish, IdleWorker
<1>4. CASE RetryOrCancel(w)
  BY <1>0, <1>1, <1>2, <1>4 DEF RetryOrCancel, WorkerStates
<1>5. CASE LockRow(w)
  <2>1. CASE txn[wrk[w].msg] = "COMPLETED" /\ Do(w, "mark") /\ UNCHANGED dbVars
    BY <1>0, <1>1, <2>1 DEF Do, dbVars, WorkerStates
  <2> QED BY <1>2, <1>5, <2>1 DEF LockRow
<1>6. CASE Commit(w)
  <2>1. wrk[w].msg \in Purchases
    BY <1>6 DEF Commit, WrkInv, BusyHasMessage
  <2>2. txn'[wrk[w].msg] = "COMPLETED" /\ Do(w, "mark")
    BY <1>6, <2>1 DEF Commit, CompleteTransaction, DbTypeOK
  <2> QED BY <1>0, <1>1, <2>2 DEF Do, WorkerStates
<1>7. CASE HandlerStep(w)
  BY <1>2, <1>3, <1>5, <1>6, <1>7
     DEF HandlerStep, Decrement, ReleaseOutOfStock, MarkReservation, Ack,
         CancelFailed, ReturnStock, Nack
<1>8. CASE Deliver(w)
  BY <1>0, <1>1, <1>8 DEF Deliver, WorkerStates
<1>9. CASE ChannelLost(w)
  BY <1>0, <1>1, <1>9 DEF ChannelLost, WorkerStates
<1>10. CASE WorkerFault(w)
  BY <1>2, <1>3, <1>4, <1>9, <1>10
     DEF WorkerFault, TransactionFails, CancelFails, MarkerFails, WorkerCrash
<1> QED BY <1>7, <1>8, <1>10 DEF WorkerStep

\* A step of one worker, or of none.
LEMMA NextWorkers ==
    ASSUME Next
    PROVE  UNCHANGED wrk \/ \E w \in Workers : WorkerStep(w) \/ WorkerFault(w)
BY DEF Next, RequestStep, RequestFault, ScanStep, ReconcilerStep, ReconcilerFault,
       Environment, Others, Quiescent, vars

LEMMA MarkersStep ==
    ASSUME FlowInv, MarkersInv, Next
    PROVE  MarkersInv'
<1>1. /\ DbTypeOK /\ CacheInv /\ WrkInv /\ DbStep /\ CacheStep
  BY NextSplits DEF FlowInv, FlowTypes
<1>2. RowsStay
  BY <1>1, DbStepKeepsRows
<1>3. ASSUME NEW p \in Purchases, Marking(p)
      PROVE  txn'[p] = "COMPLETED"
  BY <1>2, <1>3 DEF MarkersInv, RowsStay, Final
<1>4. ASSUME NEW u \in Users, IsCompleted(u)'
      PROVE  txn'[[user |-> u, key |-> buyerKey'[u].key]] = "COMPLETED"
  <2>1. CASE IsCompleted(u) /\ buyerKey'[u] = buyerKey[u]
    <3>1. [user |-> u, key |-> buyerKey[u].key] \in Purchases
      BY <1>1, <2>1 DEF CacheInv, CacheTypeOK, IsCompleted, Markers, Purchases
    <3>2. txn[[user |-> u, key |-> buyerKey[u].key]] = "COMPLETED"
      BY <2>1 DEF MarkersInv, CompletedMarkerIsTrue, IsCompleted
    <3> QED BY <1>2, <2>1, <3>1, <3>2 DEF RowsStay, Final
  <2>2. ASSUME NEW p \in Purchases, Marking(p), p.user = u, p.key = buyerKey'[u].key
        PROVE  txn'[[user |-> u, key |-> buyerKey'[u].key]] = "COMPLETED"
    <3>1. p = [user |-> u, key |-> buyerKey'[u].key]
      BY <2>2 DEF Purchases
    <3> QED BY <1>3, <2>2, <3>1
  <2> QED BY <1>1, <1>4, <2>1, <2>2, CompletedMarkersAre
<1>5. ASSUME NEW p \in Purchases, NEW v \in Workers, Doing(v, "mark")', wrk'[v].msg = p
      PROVE  txn'[p] = "COMPLETED"
  <2>1. CASE UNCHANGED wrk
    BY <1>3, <1>5, <2>1 DEF Marking, Doing
  <2>2. CASE \E w \in Workers : WorkerStep(w) \/ WorkerFault(w)
    BY <1>1, <1>3, <1>5, <2>2, WorkerMarking DEF Marking
  <2> QED BY <2>1, <2>2, NextWorkers
<1> QED BY <1>4, <1>5 DEF MarkersInv, CompletedMarkerIsTrue, IsCompleted, Marking, Doing

LEMMA MarkersInvariant == Spec => []MarkersInv
<1>1. Init => MarkersInv
  BY DEF Init, CacheInit, MarkersInv, CompletedMarkerIsTrue, Marking, Doing, IdleWorker
<1>2. MarkersInv /\ UNCHANGED vars => MarkersInv'
  BY DEF vars, cacheVars, dbVars, MarkersInv, CompletedMarkerIsTrue, Marking, Doing
<1>3. FlowInv /\ MarkersInv /\ [Next]_vars => MarkersInv'
  BY <1>2, MarkersStep
<1> QED BY <1>1, <1>3, FlowInvariant, PTL DEF Spec

\* Whatever is delivered twice, retried, lost or expired: while a completed
\* marker exists its user has bought the product, so the marker never refuses
\* somebody whose purchase was cancelled (service.ts:329-350).
THEOREM CompletedMarkersAreTrue == Spec => []CompletedMarkerIsTrue
<1>1. MarkersInv => CompletedMarkerIsTrue
  BY DEF MarkersInv
<1> QED BY <1>1, MarkersInvariant, PTL

(***************************************************************************)
(* Answers                                                                 *)
(***************************************************************************)
\* Each answer had its reason in the database, or in a completed marker, when
\* it was given, and a request that publishes has its row.
AnswersInv ==
    /\ AnswersAreTrue
    /\ \A r \in Requests : At(r, "publish") => txn[req[r].in] # "NONE"

\* What a step may do to request r: it keeps its purchase, and a new answer
\* that speaks of the database has a reason.
Justified(r) ==
    LET p == req[r].in
        m == buyerKey[p.user]
        a == req'[r].resp
    IN
    /\ req'[r].in = p
    /\ req'[r].pc = "publish" => txn'[p] # "NONE"
    /\ \/ a = req[r].resp
       \/ a \notin {"ACCEPTED", "ALREADY_COMPLETED", "ALREADY_PURCHASED"}
       \/ a = "ACCEPTED" /\ At(r, "publish")
       \/ a = "ALREADY_COMPLETED" /\ txn[p] = "COMPLETED"
       \/ a = "ALREADY_COMPLETED" /\ IsCompleted(p.user) /\ m.key = p.key
       \/ a = "ALREADY_PURCHASED" /\ (HasBought(p.user) \/ IsCompleted(p.user))

LEMMA ReplyJustified ==
    ASSUME ReqTypeOK, NEW r \in Requests, NEW a, Reply(r, a)
    PROVE  req'[r].in = req[r].in /\ req'[r].pc = "done" /\ req'[r].resp = a
BY DEF ReqTypeOK, Reply, Answered, Arrived

LEMMA GotoJustified ==
    ASSUME ReqTypeOK, NEW r \in Requests, NEW pc, Goto(r, pc)
    PROVE  req'[r].in = req[r].in /\ req'[r].pc = pc /\ req'[r].resp = req[r].resp
BY DEF ReqTypeOK, RequestStates, Goto

LEMMA RetryJustified ==
    ASSUME ReqTypeOK, NEW r \in Requests, RetryOrFail(r)
    PROVE  Justified(r)
<1>1. CASE Reply(r, "ERROR")
  BY <1>1, ReplyJustified DEF Justified
<1>2. CASE req' = [req EXCEPT ![r] =
                     [Arrived(@.in) EXCEPT !.attempt = req[r].attempt + 1]]
  BY <1>2 DEF Arrived, ReqTypeOK, Justified
<1> QED BY <1>1, <1>2 DEF RetryOrFail

\* The script answers from the user's marker.
LEMMA ReserveJustified ==
    ASSUME ReqTypeOK, CacheTypeOK, NEW r \in Requests, ReserveStock(r)
    PROVE  Justified(r)
<1> DEFINE p == req[r].in
           status == ReserveStatus(p)
<1>1. p \in Purchases /\ p.user \in Users
  BY PurchaseByFields DEF ReqTypeOK, RequestStates
<1>2. status \in Statuses9
  BY <1>1, StatusType
<1>3. CASE Goto(r, "insert") \/ Goto(r, "loadStock") \/ Goto(r, "loadSale")
  BY <1>3, GotoJustified DEF Justified
<1>4. CASE Reply(r, AnswerTo(status)) /\ status # "RESERVED"
  <2>1. buyerKey[p.user] \in Markers \cup {NoMarker}
    BY <1>1 DEF CacheTypeOK
  <2>2. status = "IDEMPOTENT_SUCCESS"
          => IsCompleted(p.user) /\ buyerKey[p.user].key = p.key
    BY <2>1 DEF ReserveStatus, BuyerStatus, IsCompleted, Markers
  <2>3. status = "ALREADY_PURCHASED" => IsCompleted(p.user)
    BY <2>1 DEF ReserveStatus, BuyerStatus, IsCompleted, Markers
  <2>4. /\ req'[r].in = p /\ req'[r].pc = "done"
        /\ req'[r].resp = AnswerTo(status)
    BY <1>4, ReplyJustified
  <2>5. /\ AnswerTo(status) = "ALREADY_COMPLETED" => status = "IDEMPOTENT_SUCCESS"
        /\ AnswerTo(status) = "ALREADY_PURCHASED" => status = "ALREADY_PURCHASED"
        /\ AnswerTo(status) # "ACCEPTED"
    BY <1>2 DEF AnswerTo, Statuses9
  <2> QED BY <2>2, <2>3, <2>4, <2>5 DEF Justified
<1> QED BY <1>3, <1>4 DEF ReserveStock

LEMMA FallbackJustified ==
    ASSUME ReqTypeOK, NEW r \in Requests, FallbackRead(r)
    PROVE  Justified(r)
<1>1. CASE FallbackProduct(r)
  BY <1>1 DEF FallbackProduct, Justified, ReqTypeOK, RequestStates
<1>2. CASE FallbackSale(r)
  <2>1. CASE req' = [req EXCEPT ![r].pc = "fbKey", ![r].seen = NoStock]
    BY <2>1 DEF Justified, ReqTypeOK, RequestStates
  <2> QED BY <1>2, <2>1, ReplyJustified DEF FallbackSale, Justified
<1>3. ASSUME NEW here, NEW next, next # "publish", FallbackKey(r, here, next)
      PROVE  Justified(r)
  BY <1>3, ReplyJustified, GotoJustified DEF FallbackKey, Justified
<1>4. CASE FallbackUser(r, "fbUser", Goto(r, "fbInsert"))
  BY <1>4, ReplyJustified, GotoJustified DEF FallbackUser, Justified
<1>5. CASE FallbackUser(r, "fbResolveUser", Reply(r, "ERROR"))
  BY <1>5, ReplyJustified DEF FallbackUser, Justified
<1> QED BY <1>1, <1>2, <1>3, <1>4, <1>5 DEF FallbackRead

LEMMA RequestJustified ==
    ASSUME ReqTypeOK, CacheTypeOK, DbTypeOK, NEW r \in Requests,
           RequestStep(r) \/ RequestFault(r)
    PROVE  Justified(r)
<1>0. req[r].in \in Purchases
  BY DEF ReqTypeOK, RequestStates
<1>1. ASSUME NEW a, Reply(r, a),
             a \notin {"ACCEPTED", "ALREADY_COMPLETED", "ALREADY_PURCHASED"}
      PROVE  Justified(r)
  BY <1>1, ReplyJustified DEF Justified
<1>2. ASSUME NEW pc, Goto(r, pc), pc # "publish"
      PROVE  Justified(r)
  BY <1>2, GotoJustified DEF Justified
<1>3. CASE CreatePendingTransaction(req[r].in) /\ Goto(r, "publish")
  <2>1. txn'[req[r].in] = "PENDING"
    BY <1>0, <1>3 DEF CreatePendingTransaction, DbTypeOK
  <2> QED BY <1>3, <2>1, GotoJustified DEF Justified
<1>4. CASE SaleFound(r)
  BY <1>4 DEF SaleFound, Justified, ReqTypeOK, RequestStates
<1>5. CASE RequestStep(r)
  <2>1. CASE LoadStock(r) \/ FillStock(r)
    BY <2>1 DEF LoadStock, FillStock, StockFilled, Justified, ReqTypeOK, RequestStates
  <2>2. CASE LoadSale(r)
    <3>1. CASE req' = [req EXCEPT ![r].pc = "fillSale", ![r].sale = openSale]
      BY <3>1 DEF Justified, ReqTypeOK, RequestStates
    <3> QED BY <1>1, <1>4, <2>2, <3>1 DEF LoadSale
  <2>3. CASE InsertPending(r) \/ FallbackInsert(r)
    BY <1>2, <1>3, <2>3 DEF InsertPending, FallbackInsert
  <2>4. CASE Publish(r)
    BY <2>4, ReplyJustified DEF Publish, Justified
  <2> QED BY <1>1, <1>4, <1>5, <2>1, <2>2, <2>3, <2>4,
             ReserveJustified, FallbackJustified
          DEF RequestStep, FillSale, ReleaseRolledBack
<1>6. CASE RequestFault(r)
  <2>1. CASE ReserveFails(r)
    BY <2>1 DEF ReserveFails, Justified, ReqTypeOK, RequestStates
  <2>2. CASE PublishFails(r)
    BY <2>2, ReplyJustified DEF PublishFails, Justified
  <2> QED BY <1>1, <1>6, <2>1, <2>2, RetryJustified
          DEF RequestFault, FillFails, ReleaseFails, StatementFails, ApiCrash
<1> QED BY <1>5, <1>6

\* A step of one request, which leaves the others alone, or of none.
LEMMA NextRequests ==
    ASSUME Next
    PROVE  \/ UNCHANGED req
           \/ \E r \in Requests : RequestStep(r) \/ RequestFault(r)
BY DEF Next, WorkerStep, HandlerStep, WorkerFault, ScanStep, ReconcilerStep,
       ReconcilerFault, Environment, Others, Quiescent, vars

LEMMA RequestAlone ==
    ASSUME ReqTypeOK, NEW r \in Requests, RequestStep(r) \/ RequestFault(r)
    PROVE  \A q \in Requests \ {r} : req'[q] = req[q]
<1> USE DEF ReqTypeOK, Reply, Goto, RetryOrFail
<1>1. CASE RequestStep(r)
  BY <1>1 DEF RequestStep, ReserveStock, LoadStock, FillStock, StockFilled, LoadSale,
              FillSale, SaleFound, InsertPending, ReleaseRolledBack, Publish,
              FallbackRead, FallbackProduct, FallbackSale, FallbackKey, FallbackUser,
              FallbackInsert
<1>2. CASE RequestFault(r)
  BY <1>2 DEF RequestFault, ReserveFails, FillFails, ReleaseFails, StatementFails,
              PublishFails, ApiCrash
<1> QED BY <1>1, <1>2

LEMMA AnswersStep ==
    ASSUME FlowInv, MarkersInv, AnswersInv, Next
    PROVE  AnswersInv'
<1>1. /\ DbTypeOK /\ CacheTypeOK /\ ReqTypeOK /\ DbStep
  BY NextSplits DEF FlowInv, FlowTypes, CacheInv
<1>2. RowsStay
  BY <1>1, DbStepKeepsRows
\* What justifies an answer is in the rows, where it stays.
<1>3. ASSUME NEW r \in Requests, NEW p \in Purchases, req[r].in = p, Justified(r)
      PROVE  /\ req'[r].in = p
             /\ req'[r].pc = "publish" => txn'[p] # "NONE"
             /\ req'[r].resp = "ACCEPTED" => txn'[p] # "NONE"
             /\ req'[r].resp = "ALREADY_COMPLETED" => txn'[p] = "COMPLETED"
             /\ req'[r].resp = "ALREADY_PURCHASED" => HasBought(p.user)'
  <2>1. p.user \in Users /\ p = [user |-> p.user, key |-> p.key]
    BY DEF Purchases
  <2>2. IsCompleted(p.user) =>
          LET q == [user |-> p.user, key |-> buyerKey[p.user].key] IN
          q \in Purchases /\ txn[q] = "COMPLETED"
    BY <1>1, <2>1
       DEF MarkersInv, CompletedMarkerIsTrue, IsCompleted, CacheTypeOK, Markers, Purchases
  <2>3. IsCompleted(p.user) => HasBought(p.user)
    BY <2>2 DEF HasBought, ActiveRows, Active
  <2>4. req'[r].resp = "ACCEPTED" => txn[p] # "NONE"
    BY <1>3 DEF AnswersInv, AnswersAreTrue, Justified
  <2>5. req'[r].resp = "ALREADY_COMPLETED" => txn[p] = "COMPLETED"
    BY <1>3, <2>1, <2>2 DEF AnswersInv, AnswersAreTrue, Justified
  <2>6. req'[r].resp = "ALREADY_PURCHASED" => HasBought(p.user)
    BY <1>3, <2>3 DEF AnswersInv, AnswersAreTrue, Justified
  <2>7. HasBought(p.user) => HasBought(p.user)'
    BY <1>1, <1>2, BoughtStays
  <2> QED BY <1>2, <1>3, <2>4, <2>5, <2>6, <2>7 DEF RowsStay, Final, Justified
<1>4. ASSUME NEW r \in Requests, req'[r] = req[r]
      PROVE  Justified(r)
  <2>1. req[r].in \in Purchases
    BY <1>1 DEF ReqTypeOK, RequestStates
  <2> QED BY <1>2, <1>4, <2>1 DEF Justified, At, AnswersInv, RowsStay
<1>5. ASSUME NEW r \in Requests PROVE Justified(r)
  <2>1. CASE UNCHANGED req
    BY <1>4, <2>1
  <2>2. ASSUME NEW q \in Requests, RequestStep(q) \/ RequestFault(q)
        PROVE  Justified(r)
    <3>1. CASE r = q
      BY <1>1, <2>2, <3>1, RequestJustified
    <3>2. CASE r # q
      BY <1>1, <1>4, <2>2, <3>2, RequestAlone
    <3> QED BY <3>1, <3>2
  <2> QED BY <2>1, <2>2, NextRequests
<1>6. \A r \in Requests : req[r].in \in Purchases
  BY <1>1 DEF ReqTypeOK, RequestStates
<1> QED BY <1>3, <1>5, <1>6 DEF AnswersInv, AnswersAreTrue, At

LEMMA AnswersInvariant == Spec => []AnswersInv
<1>1. Init => AnswersInv
  BY DEF Init, AnswersInv, AnswersAreTrue, At, Arrived
<1>2. AnswersInv /\ UNCHANGED vars => AnswersInv'
  BY DEF vars, dbVars, AnswersInv, AnswersAreTrue, At, HasBought, ActiveRows
<1>3. FlowInv /\ MarkersInv /\ AnswersInv /\ [Next]_vars => AnswersInv'
  BY <1>2, AnswersStep
<1> QED BY <1>1, <1>3, FlowInvariant, MarkersInvariant, PTL DEF Spec

\* An answer about the database is true and stays true, whichever path gave
\* it and whatever failed on the way.
THEOREM AnswersAreAlwaysTrue == Spec => []AnswersAreTrue
<1>1. AnswersInv => AnswersAreTrue
  BY DEF AnswersInv
<1> QED BY <1>1, AnswersInvariant, PTL

(***************************************************************************)
(* Dead letters                                                            *)
(***************************************************************************)
\* Postgres answers.
DbAnswers == Faults \cap {"db", "dbReply"} = {}

\* A busy worker has a row, and one on its way to the dead letter queue a row
\* that is cancelled, or pending with no unit left for it.  One that lost its
\* channel goes that way too, after an ack that throws, but its nack reaches
\* nobody.
Fated(w) ==
    LET s == wrk[w]
        status == txn[wrk[w].msg]
    IN
    /\ s.pc # "idle" => status # "NONE"
    /\ (s.pc = "rolledBack" \/ (s.pc = "cancel" /\ s.live))
         => (status = "CANCELLED" \/ (status = "PENDING" /\ dbStock = 0))
    /\ (s.pc = "return" \/ (s.pc = "nack" /\ s.live)) => status = "CANCELLED"

DeadInv ==
    /\ DeadLettersAreCancelled
    /\ \A p \in queue : txn[p] # "NONE"
    /\ \A w \in Workers : Fated(w)

LEMMA OthersFated ==
    ASSUME WrkInv, DbTypeOK, DbTypeOK', RowsStay, NEW w \in Workers, Fated(w), wrk'[w] = wrk[w]
    PROVE  Fated(w)'
<1>1. CASE wrk[w].pc = "idle"
  BY <1>1 DEF Fated
<1>2. CASE wrk[w].pc # "idle"
  <2>1. wrk[w].msg \in Purchases
    BY <1>2 DEF WrkInv, BusyHasMessage, Doing
  <2>2. txn[wrk[w].msg] \in Statuses \cup {"NONE"} /\ txn'[wrk[w].msg] \in Statuses \cup {"NONE"}
    BY <2>1 DEF DbTypeOK
  <2>3. dbStock = 0 => dbStock' = 0
    BY DEF RowsStay, DbTypeOK
  <2> QED BY <1>2, <2>1, <2>2, <2>3 DEF Fated, RowsStay, Final, Statuses
<1> QED BY <1>1, <1>2

LEMMA WorkerFated ==
    ASSUME DbAnswers, WrkInv, DbTypeOK, LocksIsolate, DeadInv, NEW w \in Workers,
           queue \subseteq Purchases, WorkerStep(w) \/ WorkerFault(w)
    PROVE  Fated(w)'
<1> USE DEF Doing
<1>0. /\ wrk \in [Workers -> WorkerStates]
      /\ wrk[w].pc # "idle" => wrk[w].msg \in Purchases
      /\ txn \in [Purchases -> Statuses \cup {"NONE"}]
      /\ dbStock \in Nat
      /\ Fated(w)
  BY DEF WrkInv, WrkTypeOK, BusyHasMessage, DbTypeOK, DeadInv, Fated
<1>1. CASE LockRow(w)
  <2>1. txn[wrk[w].msg] \in Statuses /\ UNCHANGED <<txn, dbStock>>
    BY <1>0, <1>1 DEF LockRow, Fated, dbVars
  <2>2. CASE Do(w, "decrement") \/ Do(w, "mark")
    BY <1>0, <2>1, <2>2 DEF Do, Fated, WorkerStates, Statuses
  <2>3. CASE txn[wrk[w].msg] \notin {"PENDING", "COMPLETED"} /\ Do(w, "cancel")
    <3>1. txn[wrk[w].msg] = "CANCELLED"
      BY <2>1, <2>3 DEF Statuses
    <3>2. wrk'[w].pc = "cancel" /\ wrk'[w].msg = wrk[w].msg
      BY <1>0, <2>3 DEF Do, WorkerStates
    <3> QED BY <2>1, <3>1, <3>2 DEF Fated
  <2> QED BY <1>1, <2>2, <2>3 DEF LockRow
<1>2. CASE Decrement(w)
  BY <1>0, <1>2 DEF Decrement, Do, Fated, WorkerStates, dbVars, LocksIsolate, Holds
<1>3. CASE Commit(w)
  BY <1>0, <1>3 DEF Commit, Do, Fated, WorkerStates, CompleteTransaction
<1>4. CASE ReleaseOutOfStock(w) \/ MarkReservation(w) \/ ReturnStock(w)
  BY <1>0, <1>4 DEF ReleaseOutOfStock, MarkReservation, ReturnStock, Do, Fated,
                    WorkerStates, dbVars
<1>5. ASSUME Finish(w) PROVE Fated(w)'
  BY <1>0, <1>5 DEF Finish, Fated, IdleWorker
<1>6. CASE Ack(w)
  BY <1>0, <1>5, <1>6 DEF Ack, Do, Fated, WorkerStates, dbVars
<1>7. CASE CancelFailed(w)
  BY <1>0, <1>7 DEF CancelFailed, Do, Fated, WorkerStates, CancelPendingTransaction,
                    Statuses
<1>8. CASE Deliver(w)
  BY <1>0, <1>8 DEF Deliver, Fated, WorkerStates, dbVars, DeadInv
<1>9. CASE ChannelLost(w)
  BY <1>0, <1>9 DEF ChannelLost, Fated, WorkerStates, dbVars
<1>10. CASE CancelFails(w) \/ MarkerFails(w)
  BY <1>0, <1>10 DEF CancelFails, MarkerFails, Do, Fated, WorkerStates, dbVars,
                     DbAnswers, Fault
<1>11. ~TransactionFails(w)
  BY DEF TransactionFails, DbAnswers, Fault
<1> QED BY <1>1, <1>2, <1>3, <1>4, <1>5, <1>6, <1>7, <1>8, <1>9, <1>10, <1>11
        DEF WorkerStep, HandlerStep, Nack, WorkerFault, WorkerCrash

LEMMA WorkerAlone ==
    ASSUME WrkInv, NEW w \in Workers, WorkerStep(w) \/ WorkerFault(w)
    PROVE  \A v \in Workers \ {w} : wrk'[v] = wrk[v]
<1> USE DEF WrkInv, WrkTypeOK, Do, Finish, RetryOrCancel
<1>1. CASE WorkerStep(w)
  BY <1>1 DEF WorkerStep, HandlerStep, LockRow, Decrement, Commit, ReleaseOutOfStock,
              MarkReservation, Ack, CancelFailed, ReturnStock, Nack, Deliver
<1>2. CASE WorkerFault(w)
  BY <1>2 DEF WorkerFault, TransactionFails, CancelFails, MarkerFails, ChannelLost,
              WorkerCrash
<1> QED BY <1>1, <1>2

\* Messages come from requests with a row and from workers.
LEMMA NextMessages ==
    ASSUME FlowInv, AnswersInv, DeadInv, DbAnswers, Next
    PROVE  /\ \A p \in queue' : txn[p] # "NONE"
           /\ \A p \in dlq' : txn[p] = "CANCELLED"
<1> DEFINE Goal == /\ \A p \in queue' : txn[p] # "NONE"
                   /\ \A p \in dlq' : txn[p] = "CANCELLED"
<1>1. CASE UNCHANGED mqVars
  BY <1>1 DEF mqVars, DeadInv, DeadLettersAreCancelled
<1>2. ASSUME NEW r \in Requests, RequestStep(r)
      PROVE  Goal
  <2>1. CASE Publish(r)
    BY <2>1 DEF Publish, AnswersInv, DeadInv, DeadLettersAreCancelled
  <2> QED BY <1>1, <1>2, <2>1
          DEF RequestStep, ReserveStock, LoadStock, FillStock, LoadSale, FillSale,
              InsertPending, ReleaseRolledBack, FallbackRead, FallbackInsert
<1>3. ASSUME NEW w \in Workers, WorkerStep(w) \/ WorkerFault(w)
      PROVE  Goal
  <2> USE DEF DeadInv, DeadLettersAreCancelled, Fated, Doing
  <2>1. CASE Nack(w)
    BY <2>1 DEF Nack
  <2>2. CASE Deliver(w)
    BY <2>2 DEF Deliver
  <2>3. CASE ChannelLost(w) \/ WorkerCrash(w)
    BY <2>3 DEF ChannelLost, WorkerCrash
  <2> QED BY <1>1, <1>3, <2>1, <2>2, <2>3
          DEF WorkerStep, HandlerStep, LockRow, Decrement, Commit, ReleaseOutOfStock,
              MarkReservation, Ack, CancelFailed, ReturnStock, WorkerFault,
              TransactionFails, CancelFails, MarkerFails
<1> QED BY <1>1, <1>2, <1>3
        DEF Next, RequestFault, ScanStep, ReconcilerStep, ReconcilerFault,
            Environment, Others, Quiescent, vars

LEMMA DeadStep ==
    ASSUME FlowInv, AnswersInv, DeadInv, DbAnswers, Next
    PROVE  DeadInv'
<1>1. /\ DbTypeOK /\ WrkInv /\ LocksIsolate /\ DbStep
      /\ queue \subseteq Purchases
      /\ queue' \subseteq Purchases /\ dlq' \subseteq Purchases
  BY NextSplits DEF FlowInv, FlowTypes
<1>2. RowsStay /\ DbTypeOK'
  BY <1>1, DbStepKeepsRows, DbStepTyped
<1>3. \A p \in queue' : txn'[p] # "NONE"
  BY <1>1, <1>2, NextMessages DEF RowsStay
<1>4. \A p \in dlq' : txn'[p] = "CANCELLED"
  BY <1>1, <1>2, NextMessages DEF RowsStay, Final
<1>5. ASSUME NEW v \in Workers PROVE Fated(v)'
  <2>1. Fated(v)
    BY DEF DeadInv, Fated
  <2>2. CASE wrk'[v] = wrk[v]
    BY <1>1, <1>2, <2>1, <2>2, OthersFated
  <2>3. ASSUME NEW w \in Workers, WorkerStep(w) \/ WorkerFault(w)
        PROVE  Fated(v)'
    BY <1>1, <2>2, <2>3, WorkerFated, WorkerAlone
  <2> QED BY <2>2, <2>3, NextWorkers
<1> QED BY <1>3, <1>4, <1>5 DEF DeadInv, DeadLettersAreCancelled, Fated

\* While Postgres answers, whatever else fails, a dead-lettered purchase is
\* cancelled: no message in the dead letter queue stands for a row that still
\* holds its user, or for a purchase that was completed.
THEOREM DeadLettersStayCancelled == DbAnswers /\ Spec => []DeadLettersAreCancelled
<1> SUFFICES ASSUME DbAnswers PROVE Spec => []DeadLettersAreCancelled
  OBVIOUS
<1>1. Init => DeadInv
  BY DEF Init, DeadInv, DeadLettersAreCancelled, IdleWorker, Fated
<1>2. DeadInv /\ UNCHANGED vars => DeadInv'
  BY DEF vars, dbVars, mqVars, DeadInv, DeadLettersAreCancelled, Fated
<1>3. FlowInv /\ AnswersInv /\ DeadInv /\ [Next]_vars => DeadInv'
  BY <1>2, DeadStep
<1>4. DeadInv => DeadLettersAreCancelled
  BY DEF DeadInv
<1> QED BY <1>1, <1>3, <1>4, FlowInvariant, AnswersInvariant, PTL DEF Spec

(***************************************************************************)
(* Units                                                                   *)
(***************************************************************************)
\* A missing counter means that no marker survived either, so a fill never
\* forgets a unit; and while no sale has closed, markers are written under a
\* cached window, so none of them may expire.
HeldInv ==
    /\ UnitsAreHeld
    /\ IsFiniteSet(Holders)
    /\ stockKey = NoStock => Holders = {}
    /\ (closedSales = {} /\ saleWindowKey = NoSale) => Holders = {}
    /\ closedSales = {} =>
         \A u \in Users : IsCompleted(u) => buyerKey[u].until # NoSale
    /\ \A r \in Requests :
         /\ At(r, "fillStock") => req[r].seen \in Nat /\ req[r].seen >= dbStock
         /\ At(r, "fillSale") => req[r].sale # NoSale

\* What a request is about to write to the cache it has just read.
LEMMA RequestReads ==
    ASSUME ReqTypeOK, NEW r \in Requests, RequestStep(r) \/ RequestFault(r)
    PROVE  /\ req'[r].pc = "fillStock" => req'[r].seen = dbStock
           /\ req'[r].pc = "fillSale" => req'[r].sale # NoSale
<1> DEFINE Goal == /\ req'[r].pc = "fillStock" => req'[r].seen = dbStock
                   /\ req'[r].pc = "fillSale" => req'[r].sale # NoSale
<1> USE DEF At
<1>1. ASSUME NEW a, Reply(r, a)
      PROVE  Goal
  BY <1>1, ReplyJustified
<1>2. ASSUME NEW pc, Goto(r, pc), pc \notin {"fillStock", "fillSale"}
      PROVE  Goal
  BY <1>2, GotoJustified
<1>3. CASE RetryOrFail(r)
  BY <1>1, <1>3 DEF RetryOrFail, Arrived, ReqTypeOK
<1>4. CASE SaleFound(r)
  BY <1>4 DEF SaleFound, ReqTypeOK, RequestStates
<1>5. CASE RequestStep(r)
  <2>1. CASE LoadStock(r) \/ FillStock(r)
    BY <2>1 DEF LoadStock, FillStock, StockFilled, ReqTypeOK, RequestStates
  <2>2. CASE LoadSale(r)
    <3>1. CASE openSale # NoSale /\ req' = [req EXCEPT ![r].pc = "fillSale", ![r].sale = openSale]
      BY <3>1 DEF ReqTypeOK, RequestStates
    <3> QED BY <1>1, <1>4, <2>2, <3>1 DEF LoadSale
  <2>3. CASE FallbackProduct(r) \/ FallbackSale(r)
    <3>1. CASE \/ req' = [req EXCEPT ![r].pc = "fbSale", ![r].seen = dbStock]
               \/ req' = [req EXCEPT ![r].pc = "fbKey", ![r].seen = NoStock]
      BY <3>1 DEF ReqTypeOK, RequestStates
    <3> QED BY <1>1, <2>3, <3>1 DEF FallbackProduct, FallbackSale
  <2>4. CASE FallbackRead(r)
    BY <1>1, <1>2, <2>3, <2>4 DEF FallbackRead, FallbackKey, FallbackUser
  <2> QED BY <1>1, <1>2, <1>4, <1>5, <2>1, <2>2, <2>4
          DEF RequestStep, ReserveStock, FillSale, InsertPending, ReleaseRolledBack,
              Publish, FallbackInsert
<1>6. CASE RequestFault(r)
  <2>1. CASE ReserveFails(r)
    BY <2>1 DEF ReserveFails, ReqTypeOK, RequestStates
  <2> QED BY <1>1, <1>3, <1>6, <2>1
          DEF RequestFault, FillFails, ReleaseFails, StatementFails, PublishFails,
              ApiCrash
<1> QED BY <1>5, <1>6

LEMMA ReadsStay ==
    ASSUME FlowInv, HeldInv, Next, NEW r \in Requests
    PROVE  /\ req'[r].pc = "fillStock" => req'[r].seen \in Nat /\ req'[r].seen >= dbStock'
           /\ req'[r].pc = "fillSale" => req'[r].sale # NoSale
<1>1. ReqTypeOK /\ DbTypeOK /\ RowsStay /\ DbTypeOK'
  BY NextSplits, DbStepKeepsRows, DbStepTyped DEF FlowInv, FlowTypes
<1>2. CASE req'[r] = req[r]
  BY <1>1, <1>2 DEF HeldInv, At, RowsStay, DbTypeOK
<1>3. ASSUME NEW q \in Requests, RequestStep(q) \/ RequestFault(q)
      PROVE  /\ req'[r].pc = "fillStock" => req'[r].seen \in Nat /\ req'[r].seen >= dbStock'
             /\ req'[r].pc = "fillSale" => req'[r].sale # NoSale
  <2>1. CASE r = q
    BY <1>1, <1>3, <2>1, RequestReads DEF RowsStay, DbTypeOK
  <2>2. CASE r # q
    BY <1>1, <1>2, <1>3, <2>2, RequestAlone
  <2> QED BY <2>1, <2>2
<1> QED BY <1>2, <1>3, NextRequests

LEMMA HeldCacheStep ==
    ASSUME FlowInv, HeldInv, CacheStep, dbStock' \in Nat, dbStock' <= dbStock
    PROVE  /\ UnitsAreHeld'
           /\ IsFiniteSet(Holders')
           /\ stockKey' = NoStock => Holders' = {}
           /\ (closedSales' = {} /\ saleWindowKey' = NoSale) => Holders' = {}
           /\ closedSales' = {} =>
                \A u \in Users : IsCompleted(u)' => buyerKey'[u].until # NoSale
<1> DEFINE Sum == (stockKey' # NoStock /\ closedSales' = {})
                     => stockKey' + Cardinality(Holders') >= dbStock'
           Empty == /\ IsFiniteSet(Holders')
                    /\ stockKey' = NoStock => Holders' = {}
                    /\ (closedSales' = {} /\ saleWindowKey' = NoSale) => Holders' = {}
           Lasting == closedSales' = {} =>
                \A u \in Users : IsCompleted(u)' => buyerKey'[u].until # NoSale
           Goal == Sum /\ Empty /\ Lasting
<1> SUFFICES Goal
  BY DEF UnitsAreHeld
<1>0. /\ CacheInv /\ dbStock \in Nat
      /\ stockKey \in Nat \cup {NoStock} /\ NoStock \notin Int
      /\ buyerKey \in [Users -> Markers \cup {NoMarker}]
      /\ IsFiniteSet(Holders) /\ Cardinality(Holders) \in Nat
  BY CacheAssumption, FS_CardinalityType
     DEF FlowInv, FlowTypes, CacheInv, CacheTypeOK, HeldInv, DbTypeOK
<1>1. ASSUME UNCHANGED <<stockKey, buyerKey>>, closedSales \subseteq closedSales',
             saleWindowKey' # NoSale \/ saleWindowKey' = saleWindowKey \/ closedSales' # {}
      PROVE  Goal
  <2>1. Holders' = Holders
    BY <1>1 DEF Holders
  <2>2. Sum
    BY <1>0, <1>1, <2>1 DEF HeldInv, UnitsAreHeld
  <2>3. Empty /\ Lasting
    BY <1>0, <1>1, <2>1 DEF HeldInv, IsCompleted
  <2> QED BY <2>2, <2>3
<1>2. CASE LoseKeys
  <2>1. Holders' = {}
    BY <1>2 DEF LoseKeys, Holders
  <2> QED BY <1>2, <2>1, FS_EmptySet DEF LoseKeys, IsCompleted
<1>3. ASSUME NEW p \in Purchases, Reserve(p), UNCHANGED clockVars,
             ReserveStatus(p) = "RESERVED"
      PROVE  Goal
  <2>1. /\ stockKey \in Nat /\ stockKey > 0 /\ stockKey' = stockKey - 1
        /\ IsFiniteSet(Holders')
        /\ Cardinality(Holders') = Cardinality(Holders) + 1
    BY <1>0, <1>3, ReserveTakesUnit
  <2>2. saleWindowKey # NoSale /\ TakeReservation(p)
    BY <1>3 DEF ReserveStatus, Reserve
  <2>3. Sum
    BY <1>0, <1>3, <2>1 DEF HeldInv, UnitsAreHeld, clockVars
  <2>4. Empty
    BY <1>0, <2>1, <2>2 DEF TakeReservation
  <2>5. ASSUME NEW u \in Users, IsCompleted(u)'
        PROVE  IsCompleted(u) /\ buyerKey'[u] = buyerKey[u]
    <3>1. p.user \in Users /\ Pending(p.key).state = "pending"
      BY PurchaseByFields DEF Pending
    <3> QED BY <1>0, <2>2, <2>5, <3>1 DEF TakeReservation, IsCompleted
  <2> QED BY <1>3, <2>3, <2>4, <2>5 DEF HeldInv, clockVars
<1>4. ASSUME NEW p \in Purchases, MarkCompleted(p), IsPending(p), UNCHANGED clockVars
      PROVE  Goal
  <2>1. Holders' = Holders /\ stockKey' = stockKey /\ saleWindowKey' = saleWindowKey
    BY <1>0, <1>4, MarkKeepsUnits DEF MarkCompleted
  <2>2. p.user \in Users /\ p.user \in Holders
    BY <1>4, PurchaseByFields, PendingIsMarker DEF Holders, IsPending
  <2>3. closedSales = {} => saleWindowKey # NoSale
    BY <2>2 DEF HeldInv
  <2>4. Sum /\ Empty
    BY <1>0, <1>4, <2>1 DEF HeldInv, UnitsAreHeld, clockVars
  <2>5. Lasting
    <3>1. buyerKey' = [buyerKey EXCEPT ![p.user] = Completed(p.key, saleWindowKey)]
      BY <1>4 DEF MarkCompleted
    <3>2. Completed(p.key, saleWindowKey).until = saleWindowKey
      BY DEF Completed
    <3> QED BY <1>0, <1>4, <2>3, <3>1, <3>2 DEF HeldInv, IsCompleted, clockVars
  <2> QED BY <2>4, <2>5
<1>5. ASSUME NEW p \in Purchases, Release(p), IsPending(p), UNCHANGED clockVars
      PROVE  Goal
  <2>1. /\ p.user \in Holders /\ stockKey' = Increment(stockKey)
        /\ IsFiniteSet(Holders')
        /\ Cardinality(Holders') = Cardinality(Holders) - 1
    BY <1>0, <1>5, ReleaseReturnsUnit
  <2>2. stockKey # NoStock
    BY <2>1 DEF HeldInv
  <2>3. p \in reservationKey
    BY <1>0, <1>5 DEF CacheInv, ReservationMatchesBuyer
  <2>4. buyerKey' = [buyerKey EXCEPT ![p.user] = NoMarker] /\ UNCHANGED saleWindowKey
    BY <1>5, <2>3 DEF Release
  <2>5. Sum
    BY <1>0, <1>5, <2>1, <2>2 DEF HeldInv, UnitsAreHeld, clockVars, Increment
  <2>6. Empty
    <3>1. stockKey' # NoStock
      BY <1>0, <2>1, <2>2 DEF Increment
    <3> QED BY <1>5, <2>1, <2>4, <3>1 DEF HeldInv, clockVars
  <2>7. Lasting
    BY <1>0, <1>5, <2>4, PurchaseByFields DEF HeldInv, IsCompleted, clockVars
  <2> QED BY <2>5, <2>6, <2>7
<1>6. ASSUME NEW r \in Requests, At(r, "fillStock"), SetStock(req[r].seen), UNCHANGED clockVars
      PROVE  Goal
  <2>1. Holders' = Holders /\ UNCHANGED <<buyerKey, saleWindowKey>>
    BY <1>6 DEF SetStock, Holders
  <2>2. req[r].seen \in Nat /\ req[r].seen >= dbStock
    BY <1>6 DEF HeldInv
  <2>3. stockKey = NoStock => Cardinality(Holders) = 0
    BY FS_EmptySet DEF HeldInv
  <2>4. Sum
    BY <1>0, <1>6, <2>1, <2>2, <2>3 DEF SetStock, HeldInv, UnitsAreHeld, clockVars
  <2>5. Empty /\ Lasting
    BY <1>0, <1>6, <2>1, <2>2 DEF SetStock, HeldInv, IsCompleted, clockVars
  <2> QED BY <2>4, <2>5
<1>7. ASSUME NEW u \in Users, MarkerExpires(u)
      PROVE  Goal
  <2>1. /\ UNCHANGED <<stockKey, saleWindowKey, closedSales>>
        /\ IsCompleted(u) /\ buyerKey[u].until \in closedSales \cup {NoSale}
        /\ buyerKey' = [buyerKey EXCEPT ![u] = NoMarker]
    BY <1>7 DEF MarkerExpires, saleVars, clockVars, IsCompleted
  <2>2. closedSales' # {}
    BY <2>1 DEF HeldInv
  <2>3. Holders' = Holders \ {u}
    BY <1>0, <2>1, HoldersAfter
  <2>4. IsFiniteSet(Holders')
    BY <1>0, <2>3, FS_RemoveElement
  <2> QED BY <2>1, <2>2, <2>3, <2>4 DEF HeldInv
<1>8. CASE SaleNext /\ UNCHANGED <<stockKey, buyerKey, reservationKey>>
  BY <1>1, <1>8 DEF SaleNext, Turn, MissedSale, CacheSale, WindowExpires, clockVars
<1>9. CASE Clock
  BY <1>7, <1>8, <1>9 DEF Clock
<1>10. CASE UNCHANGED clockVars /\ UNCHANGED cacheVars
  BY <1>1, <1>10 DEF clockVars, cacheVars
<1>11. ASSUME NEW p \in Purchases, UNCHANGED clockVars,
              Reserve(p) \/ MarkCompleted(p) \/ Release(p)
       PROVE  Goal
  BY <1>3, <1>4, <1>5, <1>10, <1>11 DEF Reserve, MarkCompleted, Release
<1>12. ASSUME NEW r \in Requests, At(r, "fillSale"), SetSaleWindow(req[r].sale),
              UNCHANGED clockVars
       PROVE  Goal
  BY <1>1, <1>12 DEF SetSaleWindow, HeldInv, clockVars
<1> QED BY <1>2, <1>6, <1>9, <1>10, <1>11, <1>12 DEF CacheStep

LEMMA HeldStep ==
    ASSUME FlowInv, HeldInv, Next
    PROVE  HeldInv'
<1>1. DbTypeOK /\ CacheStep /\ RowsStay /\ DbTypeOK'
  BY NextSplits, DbStepKeepsRows, DbStepTyped DEF FlowInv, FlowTypes
<1>2. dbStock' \in Nat /\ dbStock' <= dbStock
  BY <1>1 DEF DbTypeOK, RowsStay
<1> QED BY <1>1, <1>2, HeldCacheStep, ReadsStay DEF HeldInv, At, IsCompleted, Holders

LEMMA HeldInvariant == Spec => []HeldInv
<1>1. Init => HeldInv
  <2> SUFFICES ASSUME Init PROVE HeldInv
    OBVIOUS
  <2>1. Holders = {} /\ Cardinality(Holders) = 0 /\ IsFiniteSet(Holders)
    BY FS_EmptySet DEF Init, CacheInit, Holders
  <2>2. stockKey \in {dbStock, NoStock} /\ dbStock \in Nat
    BY FlowAssumption DEF Init, CacheInit, DbInit
  <2>3. \A r \in Requests : At(r, "reserve")
    BY DEF Init, Arrived, At
  <2>4. \A u \in Users : ~IsCompleted(u)
    BY DEF Init, CacheInit, IsCompleted
  <2> QED BY <2>1, <2>2, <2>3, <2>4 DEF HeldInv, UnitsAreHeld, At
<1>2. HeldInv /\ UNCHANGED vars => HeldInv'
  BY DEF vars, cacheVars, clockVars, dbVars, HeldInv, UnitsAreHeld, Holders,
         IsCompleted, At
<1>3. FlowInv /\ HeldInv /\ [Next]_vars => HeldInv'
  BY <1>2, HeldStep
<1> QED BY <1>1, <1>3, FlowInvariant, PTL DEF Spec

\* Whatever fails, a unit Redis does not offer is under the marker of a user,
\* as long as no sale has closed: no interleaving of the scripts with a stale
\* fill, a lost reply or a loss of every key forgets one.
THEOREM UnitsStayHeld == Spec => []UnitsAreHeld
<1>1. HeldInv => UnitsAreHeld
  BY DEF HeldInv
<1> QED BY <1>1, HeldInvariant, PTL

(***************************************************************************)
(* Redis accounts for the stock                                            *)
(***************************************************************************)
\* Redis answers and keeps its keys, and the product has one sale.
RedisAnswers == Faults \cap {"redis", "redisReply", "redisLoss"} = {}
OneSale == \A s, t \in Sales : s = t

FallbackPcs == {"fbProduct", "fbSale", "fbKey", "fbUser", "fbInsert",
                "fbResolveKey", "fbResolveUser"}

\* Who has to insert the row of a reservation or give its unit back: a request
\* with a fresh reservation, and whoever cancelled a pending row.
Owing(r) == req[r].pc \in {"insert", "release"}
Debt(kind, x, p) == [kind |-> kind, of |-> x, for |-> p]

RequestDebts == {Debt("request", r, req[r].in) : r \in {q \in Requests : Owing(q)}}
WorkerDebts == {Debt("worker", w, wrk[w].msg) : w \in {v \in Workers : Doing(v, "return")}}
ReconcilerDebts == {Debt("reconciler", "reconciler", p) : p \in rec.owed}
Debts == RequestDebts \cup WorkerDebts \cup ReconcilerDebts

\* Reserved units that are not sold.
Unsold == {p \in reservationKey : txn[p] # "COMPLETED"}

\* The counter and the unsold reservations add up to the stock because every
\* pending row has its reservation, each debt is of a reservation without an
\* active row and no reservation is owed twice.
StockAdds ==
    /\ IsFiniteSet(Unsold)
    /\ stockKey # NoStock => stockKey + Cardinality(Unsold) = dbStock

RowsReserved ==
    /\ stockKey = NoStock => \A p \in Purchases : txn[p] = "NONE"
    /\ \A p \in Purchases : txn[p] = "PENDING" => p \in reservationKey
    /\ closedSales = {} =>
         \A p \in Purchases :
            txn[p] = "COMPLETED" => (p \in reservationKey \/ IsCompleted(p.user))

DebtsReserved ==
    /\ \A d \in Debts : d.for \in reservationKey /\ txn[d.for] \notin Active
    /\ \A d, e \in Debts : d.for = e.for => d = e

\* A closed sale does not open again; nobody is on the database fallback, no
\* transaction rolls back for want of stock and what fills a missing counter
\* is the stock.
FlowControl ==
    /\ openSale \notin closedSales
    /\ \A r \in Requests : req[r].pc \notin FallbackPcs
    /\ \A w \in Workers : ~Doing(w, "rolledBack")
    /\ \A r \in Requests :
         (At(r, "fillStock") /\ stockKey = NoStock) => req[r].seen = dbStock

AccountInv == StockAdds /\ RowsReserved /\ DebtsReserved /\ FlowControl

(***************************************************************************)
(* What a step does to reservations, rows and debts                        *)
(***************************************************************************)
MayOwe(p) == \E d : d.for = p /\ Debts' \subseteq Debts \cup {d}
Pays(p) == \E d \in Debts : d.for = p /\ Debts' \subseteq Debts \ {d}
OwesNoMore == Debts' \subseteq Debts

StockEffect ==
    \/ UNCHANGED <<stockKey, buyerKey, reservationKey, dbVars>> /\ OwesNoMore
    \/ \E p \in Purchases :
         \/ Reserve(p) /\ ReserveStatus(p) = "RESERVED" /\ UNCHANGED dbVars /\ MayOwe(p)
         \/ Release(p) /\ UNCHANGED dbVars /\ Pays(p)
         \/ MarkCompleted(p) /\ txn[p] = "COMPLETED" /\ UNCHANGED dbVars /\ OwesNoMore
         \/ CreatePendingTransaction(p) /\ UNCHANGED cacheVars /\ Pays(p)
         \/ CancelPendingTransaction(p) /\ txn[p] = "PENDING" /\ UNCHANGED cacheVars
              /\ MayOwe(p)
         \/ CompleteTransaction(p) /\ txn[p] = "PENDING" /\ UNCHANGED cacheVars
              /\ OwesNoMore
    \/ \E r \in Requests :
         At(r, "fillStock") /\ SetStock(req[r].seen) /\ UNCHANGED dbVars /\ OwesNoMore
    \/ \E u \in Users :
         MarkerExpires(u) /\ closedSales # {} /\ UNCHANGED dbVars /\ OwesNoMore

Counted == StockAdds /\ RowsReserved /\ DebtsReserved

LEMMA EffectKeepsCount ==
    ASSUME FlowInv, HeldInv, AccountInv, OneSale, StockEffect,
           closedSales \subseteq closedSales', CacheInv', DbTypeOK'
    PROVE  Counted'
<1>0. /\ CacheInv /\ DbTypeOK
      /\ reservationKey \subseteq Purchases /\ reservationKey' \subseteq Purchases
      /\ buyerKey \in [Users -> Markers \cup {NoMarker}]
      /\ txn \in [Purchases -> Statuses \cup {"NONE"}]
      /\ txn' \in [Purchases -> Statuses \cup {"NONE"}]
      /\ stockKey \in Nat \cup {NoStock} /\ NoStock \notin Int
      /\ dbStock \in Nat
      /\ IsFiniteSet(Unsold) /\ Cardinality(Unsold) \in Nat
      /\ \A p \in Purchases : p.user \in Users /\ (p \in reservationKey <=> IsPending(p))
  BY CacheAssumption, FS_CardinalityType, PurchaseByFields
     DEF FlowInv, FlowTypes, CacheInv, CacheTypeOK, DbTypeOK, AccountInv, StockAdds,
         ReservationMatchesBuyer
<1> USE DEF AccountInv, Counted
\* A missing counter means no reservation and no row.
<1>1. /\ stockKey = NoStock => reservationKey = {}
      /\ \A p \in Purchases : txn[p] = "COMPLETED" => stockKey # NoStock
  BY <1>0, PendingIsMarker, PurchaseByFields
     DEF HeldInv, Holders, IsPending, RowsReserved
<1>2. CASE UNCHANGED <<stockKey, buyerKey, reservationKey, dbVars>> /\ OwesNoMore
  <2>1. Unsold' = Unsold
    BY <1>2 DEF Unsold, dbVars
  <2>2. StockAdds' /\ DebtsReserved'
    BY <1>2, <2>1 DEF StockAdds, DebtsReserved, OwesNoMore, dbVars
  <2>3. RowsReserved'
    BY <1>2 DEF RowsReserved, dbVars, IsCompleted
  <2> QED BY <2>2, <2>3
<1>3. ASSUME NEW p \in Purchases, Reserve(p), ReserveStatus(p) = "RESERVED",
             UNCHANGED dbVars, MayOwe(p)
      PROVE  Counted'
  <2>1. /\ stockKey \in Nat /\ stockKey > 0 /\ buyerKey[p.user] = NoMarker
        /\ stockKey' = stockKey - 1 /\ reservationKey' = reservationKey \cup {p}
        /\ buyerKey' = [buyerKey EXCEPT ![p.user] = Pending(p.key)]
        /\ txn' = txn /\ dbStock' = dbStock
    BY <1>0, <1>3, ReservedMeans DEF CacheInv, Reserve, TakeReservation, dbVars
  <2>2. p \notin reservationKey
    BY <1>0, <2>1, PendingIsMarker, PurchaseByFields DEF IsPending
  <2>3. closedSales = {}
    BY <1>3, SaleAssumption
       DEF ReserveStatus, FlowControl, OneSale, FlowInv, FlowTypes, CacheInv,
           CacheTypeOK, SaleTypeOK
  <2>4. txn[p] \notin Active
    BY <2>1, <2>2, <2>3 DEF RowsReserved, Active, IsCompleted
  <2>5. StockAdds'
    <3>1. Unsold' = Unsold \cup {p} /\ p \notin Unsold
      BY <2>1, <2>2, <2>4 DEF Unsold, Active
    <3>2. IsFiniteSet(Unsold') /\ Cardinality(Unsold') = Cardinality(Unsold) + 1
      BY <1>0, <3>1, FS_AddElement
    <3> QED BY <1>0, <2>1, <3>2 DEF StockAdds
  <2>6. RowsReserved'
    <3>1. \A u \in Users : IsCompleted(u) => IsCompleted(u)'
      BY <1>0, <2>1 DEF IsCompleted
    <3> QED BY <1>0, <2>1, <2>3, <3>1 DEF RowsReserved
  <2>7. DebtsReserved'
    BY <1>3, <2>1, <2>2, <2>4 DEF DebtsReserved, MayOwe
  <2> QED BY <2>5, <2>6, <2>7
<1>4. ASSUME NEW p \in Purchases, Release(p), UNCHANGED dbVars, Pays(p)
      PROVE  Counted'
  <2>1. p \in reservationKey /\ txn[p] \notin Active
    BY <1>4 DEF Pays, DebtsReserved
  <2>2. /\ stockKey # NoStock /\ stockKey' = stockKey + 1
        /\ reservationKey' = reservationKey \ {p}
        /\ buyerKey' = [buyerKey EXCEPT ![p.user] = NoMarker]
        /\ txn' = txn /\ dbStock' = dbStock
    BY <1>0, <1>1, <1>4, <2>1 DEF Release, Increment, dbVars
  <2>3. StockAdds'
    <3>1. Unsold' = Unsold \ {p} /\ p \in Unsold
      BY <2>1, <2>2 DEF Unsold, Active
    <3>2. IsFiniteSet(Unsold') /\ Cardinality(Unsold') = Cardinality(Unsold) - 1
      BY <1>0, <3>1, FS_RemoveElement
    <3> QED BY <1>0, <2>2, <3>2 DEF StockAdds
  <2>4. RowsReserved'
    <3>1. ASSUME NEW u \in Users, IsCompleted(u) PROVE IsCompleted(u)'
      <4>1. buyerKey[p.user].state = "pending"
        <5>1. IsPending(p)
          BY <1>0, <2>1
        <5> QED BY <5>1 DEF IsPending, Pending
      <4>2. u # p.user
        BY <3>1, <4>1 DEF IsCompleted
      <4> QED BY <1>0, <2>2, <3>1, <4>2 DEF IsCompleted
    <3>2. stockKey' # NoStock
      BY <1>0, <2>2
    <3> QED BY <1>0, <2>1, <2>2, <3>1, <3>2 DEF RowsReserved, Active
  <2>5. DebtsReserved'
    BY <1>4, <2>2 DEF DebtsReserved, Pays
  <2> QED BY <2>3, <2>4, <2>5
<1>5. ASSUME NEW p \in Purchases, MarkCompleted(p), txn[p] = "COMPLETED",
             UNCHANGED dbVars, OwesNoMore
      PROVE  Counted'
  <2>1. CASE p \notin reservationKey
    BY <1>0, <1>2, <1>5, <2>1 DEF MarkCompleted, cacheVars
  <2>2. CASE p \in reservationKey
    <3>1. /\ stockKey' = stockKey /\ reservationKey' = reservationKey \ {p}
          /\ buyerKey' = [buyerKey EXCEPT ![p.user] = Completed(p.key, saleWindowKey)]
          /\ txn' = txn /\ dbStock' = dbStock
      BY <1>0, <1>5, <2>2 DEF MarkCompleted, dbVars
    <3>2. StockAdds'
      <4>1. Unsold' = Unsold
        BY <1>5, <3>1 DEF Unsold
      <4> QED BY <3>1, <4>1 DEF StockAdds
    <3>3. RowsReserved'
      <4>1. Completed(p.key, saleWindowKey).state = "completed" /\ Completed(p.key, saleWindowKey) # NoMarker
        BY CompletedIsMarker, PurchaseByFields
           DEF Completed, FlowInv, FlowTypes, CacheInv, CacheTypeOK, SaleTypeOK
      <4>2. IsCompleted(p.user)' /\ \A u \in Users : IsCompleted(u) => IsCompleted(u)'
        BY <1>0, <3>1, <4>1 DEF IsCompleted
      <4> QED BY <1>0, <1>5, <3>1, <4>2 DEF RowsReserved
    <3>4. DebtsReserved'
      BY <1>5, <3>1 DEF DebtsReserved, OwesNoMore, Active
    <3> QED BY <3>2, <3>3, <3>4
  <2> QED BY <2>1, <2>2
<1>6. ASSUME NEW p \in Purchases, CreatePendingTransaction(p), UNCHANGED cacheVars, Pays(p)
      PROVE  Counted'
  <2>1. /\ UNCHANGED <<stockKey, buyerKey, reservationKey>> /\ dbStock' = dbStock
        /\ txn' = [txn EXCEPT ![p] = "PENDING"] /\ txn[p] = "NONE"
        /\ p \in reservationKey
    BY <1>6 DEF cacheVars, CreatePendingTransaction, UniqueViolation, Pays, DebtsReserved
  <2>2. StockAdds'
    <3>1. Unsold' = Unsold
      BY <1>0, <2>1 DEF Unsold
    <3> QED BY <2>1, <3>1 DEF StockAdds
  <2>3. RowsReserved'
    BY <1>0, <1>1, <2>1 DEF RowsReserved, IsCompleted
  <2>4. DebtsReserved'
    BY <1>0, <1>6, <2>1 DEF DebtsReserved, Pays
  <2> QED BY <2>2, <2>3, <2>4
<1>7. ASSUME NEW p \in Purchases, CancelPendingTransaction(p), txn[p] = "PENDING",
             UNCHANGED cacheVars, MayOwe(p)
      PROVE  Counted'
  <2>1. /\ UNCHANGED <<stockKey, buyerKey, reservationKey>> /\ dbStock' = dbStock
        /\ txn' = [txn EXCEPT ![p] = "CANCELLED"]
        /\ p \in reservationKey
    BY <1>7 DEF cacheVars, CancelPendingTransaction, RowsReserved
  <2>2. StockAdds'
    <3>1. Unsold' = Unsold
      BY <1>0, <1>7, <2>1 DEF Unsold
    <3> QED BY <2>1, <3>1 DEF StockAdds
  <2>3. RowsReserved'
    BY <1>0, <1>1, <2>1 DEF RowsReserved, IsCompleted
  <2>4. DebtsReserved'
    <3>1. \A d \in Debts : d.for # p
      BY <1>7 DEF DebtsReserved, Active
    <3> QED BY <1>0, <1>7, <2>1, <3>1 DEF DebtsReserved, MayOwe, Active
  <2> QED BY <2>2, <2>3, <2>4
<1>8. ASSUME NEW p \in Purchases, CompleteTransaction(p), txn[p] = "PENDING",
             UNCHANGED cacheVars, OwesNoMore
      PROVE  Counted'
  <2>1. /\ UNCHANGED <<stockKey, buyerKey, reservationKey>> /\ dbStock' = dbStock - 1
        /\ txn' = [txn EXCEPT ![p] = "COMPLETED"]
        /\ p \in reservationKey
    BY <1>8 DEF cacheVars, CompleteTransaction, RowsReserved
  <2>2. StockAdds'
    <3>1. Unsold' = Unsold \ {p} /\ p \in Unsold
      BY <1>0, <1>8, <2>1 DEF Unsold
    <3>2. IsFiniteSet(Unsold') /\ Cardinality(Unsold') = Cardinality(Unsold) - 1
      BY <1>0, <3>1, FS_RemoveElement
    <3> QED BY <1>0, <1>1, <2>1, <3>2 DEF StockAdds
  <2>3. RowsReserved'
    BY <1>0, <1>1, <2>1 DEF RowsReserved, IsCompleted
  <2>4. DebtsReserved'
    BY <1>0, <1>8, <2>1 DEF DebtsReserved, OwesNoMore, Active
  <2> QED BY <2>2, <2>3, <2>4
<1>9. ASSUME NEW r \in Requests, At(r, "fillStock"), SetStock(req[r].seen),
             UNCHANGED dbVars, OwesNoMore
      PROVE  Counted'
  <2>1. /\ stockKey' = IF stockKey = NoStock THEN dbStock ELSE stockKey
        /\ UNCHANGED <<buyerKey, reservationKey, txn, dbStock>>
    BY <1>9 DEF SetStock, FlowControl, dbVars
  <2>2. Unsold' = Unsold /\ (stockKey = NoStock => Cardinality(Unsold) = 0)
    BY <1>1, <2>1, FS_EmptySet DEF Unsold
  <2> QED BY <1>0, <1>9, <2>1, <2>2
          DEF StockAdds, RowsReserved, DebtsReserved, OwesNoMore, IsCompleted
<1>10. ASSUME NEW u \in Users, MarkerExpires(u), closedSales # {}, UNCHANGED dbVars,
              OwesNoMore
       PROVE  Counted'
  <2>1. /\ UNCHANGED <<stockKey, reservationKey, txn, dbStock>> /\ closedSales' # {}
    BY <1>10 DEF MarkerExpires, dbVars
  <2>2. Unsold' = Unsold
    BY <2>1 DEF Unsold
  <2> QED BY <1>10, <2>1, <2>2 DEF StockAdds, RowsReserved, DebtsReserved, OwesNoMore
<1> QED BY <1>2, <1>3, <1>4, <1>5, <1>6, <1>7, <1>8, <1>9, <1>10 DEF StockEffect

(***************************************************************************)
(* The effect of every step                                                *)
(***************************************************************************)
\* A step of request r changes at most the debt of r.
LEMMA RequestDebtsAfter ==
    ASSUME ReqTypeOK, CacheTypeOK, DbTypeOK, NEW r \in Requests,
           RequestStep(r) \/ RequestFault(r)
    PROVE  LET d == Debt("request", r, req[r].in) IN
           /\ Owing(r) => d \in Debts
           /\ Debts' \subseteq Debts \cup {d}
           /\ ~Owing(r)' => Debts' \subseteq Debts \ {d}
<1> DEFINE d == Debt("request", r, req[r].in)
<1>1. req'[r].in = req[r].in
  BY RequestJustified DEF Justified
<1>2. \A q \in Requests \ {r} : req'[q] = req[q]
  BY RequestAlone
<1>3. UNCHANGED <<wrk, rec>>
  BY DEF RequestStep, RequestFault
<1>4. WorkerDebts' = WorkerDebts /\ ReconcilerDebts' = ReconcilerDebts
  BY <1>3 DEF WorkerDebts, ReconcilerDebts, Doing
<1>5. d \notin WorkerDebts /\ d \notin ReconcilerDebts
  BY DEF WorkerDebts, ReconcilerDebts, Debt
<1>6. \A q \in Requests \ {r} : Debt("request", q, req[q].in) # d
  BY DEF Debt
<1>7. Owing(r) => d \in RequestDebts
  BY DEF RequestDebts
<1>8. RequestDebts' \subseteq RequestDebts \cup {d}
  BY <1>1, <1>2 DEF RequestDebts, Owing
<1>9. ~Owing(r)' => RequestDebts' \subseteq RequestDebts \ {d}
  BY <1>1, <1>2, <1>6 DEF RequestDebts, Owing
<1> QED BY <1>4, <1>5, <1>7, <1>8, <1>9 DEF Debts

LEMMA RequestEffect ==
    ASSUME RedisAnswers, ReqTypeOK, CacheTypeOK, DbTypeOK, NEW r \in Requests,
           RequestStep(r) \/ RequestFault(r), req[r].pc \notin FallbackPcs
    PROVE  StockEffect /\ req'[r].pc \notin FallbackPcs
<1> DEFINE p == req[r].in
           d == Debt("request", r, p)
<1>0. p \in Purchases /\ d.for = p
  BY DEF ReqTypeOK, RequestStates, Debt
<1>1. /\ Owing(r) => d \in Debts
      /\ Debts' \subseteq Debts \cup {d}
      /\ ~Owing(r)' => Debts' \subseteq Debts \ {d}
  BY RequestDebtsAfter
<1>2. MayOwe(p) /\ (Owing(r) /\ ~Owing(r)' => Pays(p))
  BY <1>0, <1>1 DEF MayOwe, Pays
<1>3. ~Owing(r)' => OwesNoMore
  BY <1>1 DEF OwesNoMore
<1>4. ASSUME NEW a, Reply(r, a)
      PROVE  ~Owing(r)' /\ req'[r].pc \notin FallbackPcs
  BY <1>4, ReplyJustified DEF Owing, FallbackPcs
<1>5. ASSUME NEW pc, Goto(r, pc)
      PROVE  /\ pc \notin {"insert", "release"} => ~Owing(r)'
             /\ pc \notin FallbackPcs => req'[r].pc \notin FallbackPcs
  BY <1>5, GotoJustified DEF Owing
<1>6. ASSUME RetryOrFail(r)
      PROVE  ~Owing(r)' /\ req'[r].pc \notin FallbackPcs
  BY <1>4, <1>6 DEF RetryOrFail, Arrived, ReqTypeOK, Owing, FallbackPcs
<1>7. ASSUME SaleFound(r)
      PROVE  ~Owing(r)' /\ req'[r].pc \notin FallbackPcs
  BY <1>7 DEF SaleFound, ReqTypeOK, RequestStates, Owing, FallbackPcs
<1>8. ASSUME UNCHANGED <<stockKey, buyerKey, reservationKey, dbVars>>, ~Owing(r)',
             req'[r].pc \notin FallbackPcs
      PROVE  StockEffect /\ req'[r].pc \notin FallbackPcs
  BY <1>3, <1>8 DEF StockEffect
<1>9. CASE ReserveStock(r)
  <2>1. CASE ReserveStatus(p) = "RESERVED" /\ Goto(r, "insert")
    BY <1>0, <1>2, <1>5, <1>9, <2>1 DEF ReserveStock, StockEffect, FallbackPcs
  <2>2. CASE ReserveStatus(p) # "RESERVED"
    <3>1. UNCHANGED <<stockKey, buyerKey, reservationKey, dbVars>>
      BY <1>9, <2>2 DEF ReserveStock, Reserve, cacheVars
    <3>2. ~Owing(r)' /\ req'[r].pc \notin FallbackPcs
      BY <1>4, <1>5, <1>9, <2>2 DEF ReserveStock, FallbackPcs
    <3> QED BY <1>8, <3>1, <3>2
  <2> QED BY <1>9, <2>1, <2>2 DEF ReserveStock
<1>10. CASE LoadStock(r) \/ LoadSale(r)
  <2>1. ~Owing(r)' /\ req'[r].pc \notin FallbackPcs
    <3>1. CASE \/ req' = [req EXCEPT ![r].pc = "fillStock", ![r].seen = dbStock]
               \/ req' = [req EXCEPT ![r].pc = "fillSale", ![r].sale = openSale]
      BY <3>1 DEF ReqTypeOK, RequestStates, Owing, FallbackPcs
    <3> QED BY <1>4, <1>7, <1>10, <3>1 DEF LoadStock, LoadSale
  <2> QED BY <1>8, <1>10, <2>1 DEF LoadStock, LoadSale, cacheVars
<1>11. CASE FillStock(r)
  <2>1. ~Owing(r)' /\ req'[r].pc \notin FallbackPcs
    BY <1>11 DEF FillStock, StockFilled, ReqTypeOK, RequestStates, Owing, FallbackPcs
  <2> QED BY <1>3, <1>11, <2>1 DEF FillStock, StockEffect
<1>12. CASE FillSale(r)
  BY <1>7, <1>8, <1>12 DEF FillSale, SetSaleWindow
<1>13. ASSUME At(r, "insert"), CreatePendingTransaction(p), UNCHANGED cacheVars,
              ~Owing(r)', req'[r].pc \notin FallbackPcs
       PROVE  StockEffect /\ req'[r].pc \notin FallbackPcs
  BY <1>0, <1>2, <1>13 DEF StockEffect, Owing, At
<1>14. CASE InsertPending(r)
  <2>1. CASE UniqueViolation(p) /\ Goto(r, "release") /\ UNCHANGED dbVars
    <3>1. OwesNoMore /\ req'[r].pc \notin FallbackPcs
      BY <1>1, <1>5, <1>14, <2>1 DEF InsertPending, At, Owing, OwesNoMore, FallbackPcs
    <3> QED BY <1>14, <2>1, <3>1 DEF InsertPending, StockEffect, cacheVars
  <2>2. CASE CreatePendingTransaction(p) /\ Goto(r, "publish")
    BY <1>5, <1>13, <1>14, <2>2 DEF InsertPending, FallbackPcs
  <2> QED BY <1>14, <2>1, <2>2 DEF InsertPending
<1>15. CASE ReleaseRolledBack(r)
  BY <1>0, <1>2, <1>4, <1>15 DEF ReleaseRolledBack, At, Owing, StockEffect
<1>16. CASE Publish(r)
  BY <1>4, <1>8, <1>16 DEF Publish, cacheVars
<1>17. ~FallbackRead(r) /\ ~FallbackInsert(r)
  BY DEF FallbackRead, FallbackProduct, FallbackSale, FallbackKey, FallbackUser,
         FallbackInsert, At, FallbackPcs
<1>18. CASE RequestFault(r)
  <2>1. ~ReserveFails(r) /\ ~FillFails(r) /\ ~ReleaseFails(r)
    BY DEF ReserveFails, FillFails, ReleaseFails, RedisAnswers, Fault
  <2>2. CASE StatementFails(r)
    <3>1. CASE UNCHANGED dbVars
      BY <1>6, <1>8, <2>2, <3>1 DEF StatementFails, cacheVars
    <3>2. CASE At(r, "insert") /\ CreatePendingTransaction(p)
      BY <1>6, <1>13, <2>2, <3>2 DEF StatementFails
    <3> QED BY <2>2, <3>1, <3>2 DEF StatementFails, At, FallbackPcs
  <2>3. CASE PublishFails(r) \/ ApiCrash(r)
    BY <1>4, <1>8, <2>3 DEF PublishFails, ApiCrash, cacheVars
  <2> QED BY <1>18, <2>1, <2>2, <2>3 DEF RequestFault
<1> QED BY <1>9, <1>10, <1>11, <1>12, <1>14, <1>15, <1>16, <1>17, <1>18
        DEF RequestStep

\* A step of worker w changes at most its own debt.
LEMMA WorkerDebtsAfter ==
    ASSUME WrkInv, NEW w \in Workers, WorkerStep(w) \/ WorkerFault(w)
    PROVE  LET d == Debt("worker", w, wrk[w].msg) IN
           /\ Doing(w, "return") => d \in Debts
           /\ wrk'[w].pc # "return" => Debts' \subseteq Debts \ {d}
           /\ wrk'[w].msg = wrk[w].msg => Debts' \subseteq Debts \cup {d}
<1> DEFINE d == Debt("worker", w, wrk[w].msg)
<1>1. \A v \in Workers \ {w} : wrk'[v] = wrk[v]
  BY WorkerAlone
<1>2. UNCHANGED <<req, rec>>
  BY DEF WorkerStep, HandlerStep, WorkerFault
<1>3. RequestDebts' = RequestDebts /\ ReconcilerDebts' = ReconcilerDebts
  BY <1>2 DEF RequestDebts, ReconcilerDebts, Owing
<1>4. d \notin RequestDebts /\ d \notin ReconcilerDebts
  BY DEF RequestDebts, ReconcilerDebts, Debt
<1>5. \A v \in Workers \ {w} : Debt("worker", v, wrk[v].msg) # d
  BY DEF Debt
<1>6. Doing(w, "return") => d \in WorkerDebts
  BY DEF WorkerDebts
<1>7. wrk'[w].pc # "return" => WorkerDebts' \subseteq WorkerDebts \ {d}
  BY <1>1, <1>5 DEF WorkerDebts, Doing
<1>8. wrk'[w].msg = wrk[w].msg => WorkerDebts' \subseteq WorkerDebts \cup {d}
  BY <1>1 DEF WorkerDebts, Doing
<1> QED BY <1>3, <1>4, <1>6, <1>7, <1>8 DEF Debts

\* A worker in a transaction finds a unit: its row has a reservation.
LEMMA NothingRollsBack ==
    ASSUME FlowInv, AccountInv, NEW w \in Workers, Doing(w, "decrement")
    PROVE  dbStock > 0
<1> DEFINE p == wrk[w].msg
<1>1. p \in Purchases /\ txn[p] = "PENDING"
  BY DEF FlowInv, FlowTypes, WrkInv, BusyHasMessage, LocksIsolate, Holds, Doing
<1>2. p \in Unsold /\ stockKey # NoStock
  BY <1>1 DEF AccountInv, RowsReserved, Unsold
<1>3. Cardinality(Unsold) # 0 /\ Cardinality(Unsold) \in Nat
  BY <1>2, FS_CardinalityType, FS_EmptySet DEF AccountInv, StockAdds
<1> QED BY <1>2, <1>3 DEF AccountInv, StockAdds, FlowInv, FlowTypes, CacheInv, CacheTypeOK

LEMMA WorkerEffect ==
    ASSUME RedisAnswers, FlowInv, MarkersInv, AccountInv, NEW w \in Workers,
           WorkerStep(w) \/ WorkerFault(w)
    PROVE  StockEffect /\ wrk'[w].pc # "rolledBack"
<1> DEFINE p == wrk[w].msg
           d == Debt("worker", w, p)
<1> USE DEF Doing
<1>0. /\ wrk \in [Workers -> WorkerStates]
      /\ wrk[w].pc # "idle" => p \in Purchases
      /\ wrk[w].pc # "rolledBack"
      /\ d.for = p
  BY DEF FlowInv, FlowTypes, WrkInv, WrkTypeOK, BusyHasMessage, AccountInv, FlowControl, Debt
<1>1. /\ wrk[w].pc = "return" => d \in Debts
      /\ wrk'[w].pc # "return" => Debts' \subseteq Debts \ {d}
      /\ wrk'[w].msg = p => Debts' \subseteq Debts \cup {d}
  BY WorkerDebtsAfter DEF FlowInv, FlowTypes
<1>2. wrk'[w].pc # "return" => OwesNoMore
  BY <1>1 DEF OwesNoMore
<1>3. (wrk'[w].pc # "return" \/ wrk'[w].msg = p) => MayOwe(p)
  BY <1>0, <1>1 DEF MayOwe
<1>4. ASSUME NEW pc, Do(w, pc)
      PROVE  wrk'[w].pc = pc /\ wrk'[w].msg = p
  BY <1>0, <1>4 DEF Do, WorkerStates
<1>5. ASSUME Finish(w) PROVE wrk'[w].pc = "idle"
  BY <1>0, <1>5 DEF Finish, IdleWorker
<1>6. ASSUME RetryOrCancel(w) PROVE wrk'[w].pc \in {"lock", "cancel"}
  BY <1>0, <1>4, <1>6 DEF RetryOrCancel, WorkerStates
<1>7. ASSUME UNCHANGED <<stockKey, buyerKey, reservationKey, dbVars>>,
             wrk'[w].pc \notin {"return", "rolledBack"}
      PROVE  StockEffect /\ wrk'[w].pc # "rolledBack"
  BY <1>2, <1>7 DEF StockEffect
<1>8. ASSUME UNCHANGED cacheVars, CancelPendingTransaction(p), wrk[w].pc # "idle",
             NEW pc, Do(w, pc), pc # "rolledBack",
             txn[p] # "PENDING" => pc # "return"
      PROVE  StockEffect /\ wrk'[w].pc # "rolledBack"
  <2>1. CASE txn[p] = "PENDING"
    BY <1>0, <1>3, <1>4, <1>8, <2>1 DEF StockEffect
  <2>2. CASE txn[p] # "PENDING"
    <3>1. UNCHANGED dbVars
      BY <1>0, <1>8, <2>2
         DEF CancelPendingTransaction, dbVars, FlowInv, FlowTypes, DbTypeOK
    <3> QED BY <1>4, <1>7, <1>8, <2>2, <3>1 DEF cacheVars
  <2> QED BY <2>1, <2>2
<1>9. ASSUME UNCHANGED cacheVars, CompleteTransaction(p), wrk[w].pc = "commit",
             wrk'[w].pc \notin {"return", "rolledBack"}
      PROVE  StockEffect /\ wrk'[w].pc # "rolledBack"
  <2>1. txn[p] = "PENDING"
    BY <1>9 DEF FlowInv, LocksIsolate, Holds
  <2> QED BY <1>0, <1>2, <1>9, <2>1 DEF StockEffect
<1>10. CASE LockRow(w) \/ Ack(w) \/ Nack(w)
  BY <1>4, <1>5, <1>7, <1>10 DEF LockRow, Ack, Nack, cacheVars
<1>11. CASE Decrement(w)
  <2>1. dbStock > 0
    BY <1>11, NothingRollsBack DEF Decrement
  <2> QED BY <1>4, <1>7, <1>11, <2>1 DEF Decrement, cacheVars
<1>12. CASE Commit(w)
  BY <1>4, <1>9, <1>12 DEF Commit
<1>13. CASE MarkReservation(w)
  <2>1. txn[p] = "COMPLETED"
    BY <1>0, <1>13 DEF MarkReservation, MarkersInv, Marking
  <2> QED BY <1>0, <1>2, <1>4, <1>13, <2>1 DEF MarkReservation, StockEffect
<1>14. CASE CancelFailed(w)
  BY <1>8, <1>14 DEF CancelFailed
<1>15. CASE ReturnStock(w)
  <2>1. Pays(p)
    BY <1>0, <1>1, <1>4, <1>15 DEF ReturnStock, Pays
  <2> QED BY <1>0, <1>4, <1>15, <2>1 DEF ReturnStock, StockEffect
<1>16. CASE Deliver(w)
  <2>1. wrk'[w].pc = "lock"
    BY <1>0, <1>16 DEF Deliver, WorkerStates
  <2> QED BY <1>7, <1>16, <2>1 DEF Deliver, cacheVars
<1>17. CASE TransactionFails(w)
  BY <1>6, <1>7, <1>9, <1>17 DEF TransactionFails, cacheVars
<1>18. CASE CancelFails(w)
  BY <1>4, <1>7, <1>8, <1>18 DEF CancelFails, RedisAnswers, Fault, cacheVars
<1>19. ~MarkerFails(w)
  BY DEF MarkerFails, RedisAnswers, Fault
<1>20. CASE ChannelLost(w)
  <2>1. wrk'[w].pc = wrk[w].pc /\ wrk'[w].msg = p
    BY <1>0, <1>20 DEF ChannelLost, WorkerStates
  <2>2. OwesNoMore
    BY <1>1, <1>2, <2>1 DEF OwesNoMore
  <2> QED BY <1>0, <1>20, <2>1, <2>2 DEF ChannelLost, StockEffect, cacheVars
<1>21. CASE WorkerCrash(w)
  BY <1>5, <1>7, <1>21 DEF WorkerCrash, cacheVars
<1>22. ~ReleaseOutOfStock(w)
  BY <1>0 DEF ReleaseOutOfStock
<1> QED BY <1>10, <1>11, <1>12, <1>13, <1>14, <1>15, <1>16, <1>17, <1>18, <1>19,
           <1>20, <1>21, <1>22
        DEF WorkerStep, HandlerStep, WorkerFault

LEMMA ReconcilerEffect ==
    ASSUME RedisAnswers, FlowInv, ReconcilerStep \/ ReconcilerFault
    PROVE  StockEffect
<1> DEFINE d(p) == Debt("reconciler", "reconciler", p)
<1>0. rec \in ReconcilerStates /\ txn \in [Purchases -> Statuses \cup {"NONE"}]
  BY DEF FlowInv, FlowTypes, DbTypeOK
<1>1. UNCHANGED <<req, wrk>>
  BY DEF ReconcilerStep, ReconcilerFault
<1>2. RequestDebts' = RequestDebts /\ WorkerDebts' = WorkerDebts
  BY <1>1 DEF RequestDebts, WorkerDebts, Owing, Doing
<1>3. \A p : d(p) \notin RequestDebts /\ d(p) \notin WorkerDebts
  BY DEF RequestDebts, WorkerDebts, Debt
<1>4. \A p : d(p).for = p
  BY DEF Debt
<1>5. ASSUME rec'.owed \subseteq rec.owed PROVE OwesNoMore
  BY <1>2, <1>5 DEF OwesNoMore, Debts, ReconcilerDebts
<1>6. ASSUME NEW p, rec'.owed \subseteq rec.owed \cup {p} PROVE MayOwe(p)
  <2>1. Debts' \subseteq Debts \cup {d(p)}
    BY <1>2, <1>6 DEF Debts, ReconcilerDebts
  <2> QED BY <1>4, <2>1 DEF MayOwe
<1>7. ASSUME NEW p \in rec.owed, rec'.owed = rec.owed \ {p} PROVE Pays(p)
  <2>1. d(p) \in Debts
    BY DEF Debts, ReconcilerDebts
  <2>2. ReconcilerDebts' \subseteq ReconcilerDebts \ {d(p)}
    BY <1>4, <1>7 DEF ReconcilerDebts
  <2>3. Debts' \subseteq Debts \ {d(p)}
    BY <1>2, <1>3, <2>2 DEF Debts
  <2> QED BY <1>4, <2>1, <2>3 DEF Pays
<1>8. CASE ReconcilerStep /\ ReconcileCancel
  <2>1. PICK p \in rec.todo :
          /\ CancelPendingTransaction(p)
          /\ rec' = [todo |-> rec.todo \ {p},
                     owed |-> IF txn[p] = "PENDING" THEN {p} ELSE {}]
    BY <1>8 DEF ReconcileCancel
  <2>2. p \in Purchases /\ UNCHANGED cacheVars
    BY <1>0, <1>8 DEF ReconcilerStates, ReconcileCancel
  <2>3. CASE txn[p] = "PENDING"
    BY <1>6, <2>1, <2>2, <2>3 DEF StockEffect
  <2>4. CASE txn[p] # "PENDING"
    BY <1>0, <1>5, <2>1, <2>2, <2>4
       DEF StockEffect, CancelPendingTransaction, dbVars, cacheVars
  <2> QED BY <2>3, <2>4
<1>9. CASE ReconcilerStep /\ ReconcileRelease
  <2>1. PICK p \in rec.owed : Release(p) /\ rec' = [rec EXCEPT !.owed = @ \ {p}]
    BY <1>9 DEF ReconcileRelease
  <2>2. p \in Purchases /\ rec'.owed = rec.owed \ {p} /\ UNCHANGED dbVars
    BY <1>0, <1>9, <2>1 DEF ReconcilerStates, ReconcileRelease
  <2> QED BY <1>7, <2>1, <2>2 DEF StockEffect
<1>10. CASE ReconcilerFault
  <2>1. UNCHANGED cacheVars /\ rec'.owed \subseteq rec.owed
    BY <1>0, <1>10 DEF ReconcilerFault, ReconcilerStates, IdleReconciler
  <2>2. CASE UNCHANGED dbVars
    BY <1>5, <2>1, <2>2 DEF StockEffect, cacheVars
  <2>3. ASSUME NEW p \in Purchases, CancelPendingTransaction(p) PROVE StockEffect
    <3>1. CASE txn[p] = "PENDING"
      BY <1>6, <2>1, <2>3, <3>1 DEF StockEffect
    <3>2. CASE txn[p] # "PENDING"
      BY <1>0, <2>2, <2>3, <3>2 DEF CancelPendingTransaction, dbVars
    <3> QED BY <3>1, <3>2
  <2> QED BY <1>0, <1>10, <2>2, <2>3 DEF ReconcilerFault, ReconcilerStates
<1> QED BY <1>8, <1>9, <1>10 DEF ReconcilerStep

LEMMA NextEffect ==
    ASSUME RedisAnswers, FlowInv, MarkersInv, HeldInv, AccountInv, Next
    PROVE  StockEffect
<1>1. /\ ReqTypeOK /\ CacheTypeOK /\ DbTypeOK
      /\ \A r \in Requests : req[r].pc \notin FallbackPcs
  BY DEF FlowInv, FlowTypes, CacheInv, AccountInv, FlowControl
<1>2. ASSUME UNCHANGED <<req, wrk>>, rec'.owed = rec.owed
      PROVE  OwesNoMore
  BY <1>2 DEF OwesNoMore, Debts, RequestDebts, WorkerDebts, ReconcilerDebts, Owing, Doing
<1>3. ASSUME UNCHANGED <<cacheVars, dbVars, req, wrk>>, rec'.owed = rec.owed
      PROVE  StockEffect
  BY <1>2, <1>3 DEF StockEffect, cacheVars
<1>4. ASSUME NEW r \in Requests, RequestStep(r) \/ RequestFault(r)
      PROVE  StockEffect
  BY <1>1, <1>4, RequestEffect
<1>5. ASSUME NEW w \in Workers, WorkerStep(w) \/ WorkerFault(w)
      PROVE  StockEffect
  BY <1>5, WorkerEffect
<1>6. ASSUME NEW found \in SUBSET Purchases, ScanStep(found)
      PROVE  StockEffect
  BY <1>3, <1>6 DEF ScanStep, Scan, FlowInv, FlowTypes, ReconcilerStates
<1>7. CASE Environment
  <2>1. ~Fault("redisLoss")
    BY DEF RedisAnswers, Fault
  <2>2. Clock /\ UNCHANGED dbVars /\ OwesNoMore
    BY <1>2, <1>7, <2>1 DEF Environment, Others
  <2>3. CASE SaleNext /\ UNCHANGED <<stockKey, buyerKey, reservationKey>>
    BY <2>2, <2>3 DEF StockEffect
  <2>4. ASSUME NEW u \in Users, MarkerExpires(u)
        PROVE  StockEffect
    <3>1. closedSales # {}
      BY <2>4 DEF MarkerExpires, HeldInv, IsCompleted
    <3> QED BY <2>2, <2>4, <3>1 DEF StockEffect
  <2> QED BY <2>2, <2>3, <2>4 DEF Clock
<1>8. CASE Quiescent
  BY <1>3, <1>8 DEF Quiescent, vars
<1> QED BY <1>4, <1>5, <1>6, <1>7, <1>8, ReconcilerEffect DEF Next

\* The counter does not go missing, and while it is missing nothing is sold.
LEMMA EffectKeepsFill ==
    ASSUME FlowInv, AccountInv, StockEffect, stockKey' = NoStock
    PROVE  stockKey = NoStock /\ dbStock' = dbStock
<1>1. /\ CacheTypeOK /\ stockKey \in Nat \cup {NoStock} /\ NoStock \notin Int
      /\ dbStock \in Nat
      /\ stockKey = NoStock => \A p \in Purchases : txn[p] = "NONE"
  BY CacheAssumption
     DEF FlowInv, FlowTypes, CacheInv, CacheTypeOK, DbTypeOK, AccountInv, RowsReserved
<1>2. ASSUME NEW p \in Purchases, Reserve(p), ReserveStatus(p) = "RESERVED" PROVE FALSE
  BY <1>1, <1>2, ReservedMeans DEF Reserve, TakeReservation
<1>3. ASSUME NEW p \in Purchases, Release(p) PROVE stockKey = NoStock
  BY <1>1, <1>3 DEF Release, Increment, cacheVars
<1>4. ASSUME NEW p \in Purchases, MarkCompleted(p) PROVE stockKey = NoStock
  BY <1>4 DEF MarkCompleted, cacheVars
<1>5. ASSUME NEW r \in Requests, At(r, "fillStock"), SetStock(req[r].seen)
      PROVE  stockKey = NoStock
  BY <1>1, <1>5 DEF SetStock
<1> QED BY <1>1, <1>2, <1>3, <1>4, <1>5
        DEF StockEffect, dbVars, cacheVars, CreatePendingTransaction,
            CancelPendingTransaction, MarkerExpires

LEMMA ClosedSalesStay ==
    ASSUME CacheInv, CacheStep
    PROVE  /\ closedSales \subseteq closedSales'
           /\ openSale \notin closedSales => openSale' \notin closedSales'
<1>1. NoSale \notin closedSales
  BY SaleAssumption DEF CacheInv, CacheTypeOK, SaleTypeOK
<1>2. CASE SaleNext
  BY <1>1, <1>2 DEF SaleNext, Turn, MissedSale, CacheSale, WindowExpires, clockVars
<1>3. CASE UNCHANGED clockVars
  BY <1>3 DEF clockVars
<1> QED BY <1>2, <1>3 DEF CacheStep, Clock, MarkerExpires, saleVars

LEMMA ControlStep ==
    ASSUME RedisAnswers, FlowInv, MarkersInv, HeldInv, AccountInv, Next
    PROVE  FlowControl'
<1>1. /\ ReqTypeOK /\ CacheInv /\ CacheTypeOK /\ DbTypeOK /\ WrkInv
      /\ CacheStep /\ StockEffect
  BY NextSplits, NextEffect DEF FlowInv, FlowTypes, CacheInv
<1>2. openSale' \notin closedSales'
  BY <1>1, ClosedSalesStay DEF AccountInv, FlowControl
<1>3. ASSUME NEW r \in Requests
      PROVE  /\ req'[r].pc \notin FallbackPcs
             /\ (req'[r].pc = "fillStock" /\ stockKey' = NoStock) => req'[r].seen = dbStock'
  <2>1. CASE req'[r] = req[r]
    BY <1>1, <2>1, EffectKeepsFill DEF AccountInv, FlowControl, At
  <2>2. ASSUME NEW q \in Requests, RequestStep(q) \/ RequestFault(q)
        PROVE  /\ req'[r].pc \notin FallbackPcs
               /\ (req'[r].pc = "fillStock" /\ stockKey' = NoStock) => req'[r].seen = dbStock'
    <3>1. CASE r # q
      BY <1>1, <2>1, <2>2, <3>1, RequestAlone
    <3>2. CASE r = q
      <4>1. req'[r].pc \notin FallbackPcs
        BY <1>1, <2>2, <3>2, RequestEffect DEF AccountInv, FlowControl
      <4>2. dbStock' = dbStock
        BY <1>1, <2>2, RequestIsDbStep DEF dbVars, CreatePendingTransaction
      <4> QED BY <1>1, <2>2, <3>2, <4>1, <4>2, RequestReads
    <3> QED BY <3>1, <3>2
  <2> QED BY <2>1, <2>2, NextRequests
<1>4. ASSUME NEW w \in Workers PROVE wrk'[w].pc # "rolledBack"
  <2>1. CASE wrk'[w] = wrk[w]
    BY <2>1 DEF AccountInv, FlowControl, Doing
  <2>2. ASSUME NEW v \in Workers, WorkerStep(v) \/ WorkerFault(v)
        PROVE  wrk'[w].pc # "rolledBack"
    BY <1>1, <2>1, <2>2, WorkerAlone, WorkerEffect
  <2> QED BY <2>1, <2>2, NextWorkers
<1> QED BY <1>2, <1>3, <1>4 DEF FlowControl, At, Doing

LEMMA AccountStep ==
    ASSUME RedisAnswers, OneSale, FlowInv, MarkersInv, HeldInv, AccountInv, Next
    PROVE  AccountInv'
<1>1. StockEffect /\ FlowControl' /\ CacheStep /\ CacheInv /\ CacheInv' /\ DbTypeOK'
  BY NextEffect, ControlStep, NextSplits, StepInv DEF FlowInv, FlowTypes
<1>2. closedSales \subseteq closedSales'
  BY <1>1, ClosedSalesStay
<1>3. Counted'
  BY <1>1, <1>2, EffectKeepsCount
<1> QED BY <1>1, <1>3 DEF AccountInv, Counted

LEMMA AccountStutter ==
    ASSUME AccountInv, UNCHANGED vars
    PROVE  AccountInv'
<1> USE DEF vars, cacheVars, clockVars, dbVars
<1>1. Unsold' = Unsold
  BY DEF Unsold
<1>2. Debts' = Debts
  BY DEF Debts, RequestDebts, WorkerDebts, ReconcilerDebts, Owing, Doing
<1> QED BY <1>1, <1>2 DEF AccountInv, StockAdds, RowsReserved, DebtsReserved,
                          FlowControl, IsCompleted, At, Doing

\* While Redis answers, counter and reservations are exactly the stock in
\* Postgres during the sale of a product, whatever fails outside Redis and for
\* any number of users, keys, requests, workers, retries and faults.
THEOREM RedisAccounts == RedisAnswers /\ OneSale /\ Spec => []RedisAccountsForStock
<1> SUFFICES ASSUME RedisAnswers, OneSale PROVE Spec => []RedisAccountsForStock
  OBVIOUS
<1>1. Init => AccountInv
  <2> SUFFICES ASSUME Init PROVE AccountInv
    OBVIOUS
  <2>1. /\ stockKey \in {dbStock, NoStock} /\ dbStock \in Nat
        /\ reservationKey = {} /\ \A p \in Purchases : txn[p] = "NONE"
        /\ closedSales = {}
    BY FlowAssumption DEF Init, CacheInit, DbInit, SaleInit
  <2>2. /\ \A r \in Requests : req[r].pc = "reserve"
        /\ \A w \in Workers : wrk[w].pc = "idle"
        /\ rec.owed = {}
    BY DEF Init, Arrived, IdleWorker, IdleReconciler
  <2>3. Unsold = {} /\ IsFiniteSet(Unsold) /\ Cardinality(Unsold) = 0
    BY <2>1, FS_EmptySet DEF Unsold
  <2>4. Debts = {}
    BY <2>2 DEF Debts, RequestDebts, WorkerDebts, ReconcilerDebts, Owing, Doing
  <2> QED BY <2>1, <2>2, <2>3, <2>4
          DEF AccountInv, StockAdds, RowsReserved, DebtsReserved, FlowControl,
              FallbackPcs, At, Doing
<1>2. FlowInv /\ MarkersInv /\ HeldInv /\ AccountInv /\ [Next]_vars => AccountInv'
  BY AccountStep, AccountStutter
<1>3. FlowInv /\ AccountInv => RedisAccountsForStock
  <2> SUFFICES ASSUME FlowInv, AccountInv PROVE RedisAccountsForStock
    OBVIOUS
  <2>1. \A p \in Purchases : p \in reservationKey <=> IsPending(p)
    BY DEF FlowInv, FlowTypes, CacheInv, ReservationMatchesBuyer
  <2>2. reservationKey \subseteq Purchases
    BY DEF FlowInv, FlowTypes, CacheInv, CacheTypeOK
  <2>3. \A p \in Purchases : Inserting(p) => txn[p] # "COMPLETED"
    <3>1. ASSUME NEW r \in Requests, Owing(r) PROVE txn[req[r].in] # "COMPLETED"
      <4>1. Debt("request", r, req[r].in) \in Debts
        BY <3>1 DEF Debts, RequestDebts
      <4>2. Debt("request", r, req[r].in).for = req[r].in
        BY DEF Debt
      <4> QED BY <4>1, <4>2 DEF AccountInv, DebtsReserved, Active
    <3> QED BY <3>1 DEF Inserting, Owing
  <2>4. Reserved = Unsold
    BY <2>1, <2>2, <2>3 DEF Reserved, Unsold, PendingPurchases
  <2> QED BY <2>4 DEF AccountInv, StockAdds, RedisAccountsForStock
<1> QED BY <1>1, <1>2, <1>3, FlowInvariant, MarkersInvariant, HeldInvariant, PTL DEF Spec
=============================================================================
