---------------------------- MODULE PurchaseFlow ----------------------------
(***************************************************************************)
(* The purchase flow end to end: HTTP requests (purchase/controller.ts and *)
(* PurchaseService.purchaseProduct), the RabbitMQ queue, the purchase      *)
(* workers (jobs/purchase-worker-handler.ts, completePurchase,             *)
(* cancelPurchase) and the reconcile worker, over the Redis state of       *)
(* ProductCache and the Postgres state of Repositories.                    *)
(*                                                                         *)
(* A step runs from one await to the next: what another process does can   *)
(* fall between any two steps.  A failing call, a crash or a lost          *)
(* connection is an action of its own, drawn from Faults at most MaxFaults *)
(* times in a behaviour.                                                   *)
(***************************************************************************)
EXTENDS ProductCache, Repositories

CONSTANTS
    Requests,      \* HTTP requests; each is sent once
    Workers,       \* purchase worker processes, each with one message at most
    InitialStock,  \* products.stock when the sale begins
    MaxAttempts,   \* maxAttempts of withRetry
    Faults,        \* the kinds of fault that may happen
    MaxFaults,     \* bound: faults in one behaviour
    NoPurchase     \* a worker without a message

\* What may go wrong: a Redis command or its reply is lost, Redis loses its
\* keys, a Postgres statement or its reply is lost, a publish throws or its
\* message is dropped, a process dies, a consumer loses its channel.
FaultKinds == {"redis", "redisReply", "redisLoss", "db", "dbReply",
               "publish", "drop", "api", "worker", "reconciler", "channel"}

ASSUME FlowAssumption ==
    /\ InitialStock \in Nat
    /\ MaxAttempts \in Nat \ {0}
    /\ MaxFaults \in Nat
    /\ Faults \subseteq FaultKinds
    /\ NoPurchase \notin Purchases

VARIABLES
    queue,   \* purchases published and not delivered
    dlq,     \* purchases dead-lettered
    req,     \* the requests
    wrk,     \* the workers
    rec,     \* the reconciler
    faults   \* faults so far

mqVars == <<queue, dlq>>
vars == <<cacheVars, clockVars, dbVars, mqVars, req, wrk, rec, faults>>

Fault(kind) ==
    /\ kind \in Faults
    /\ faults < MaxFaults
    /\ faults' = faults + 1

(***************************************************************************)
(* Types                                                                   *)
(***************************************************************************)
RequestPcs == {"reserve", "loadStock", "fillStock", "loadSale", "fillSale",
               "insert", "release", "publish",
               "fbProduct", "fbSale", "fbKey", "fbUser", "fbInsert",
               "fbResolveKey", "fbResolveUser", "done"}

\* 202, 200, then the errors of purchase/service.ts; ERROR is a 500, and
\* NO_REPLY a request whose process died.
Answers == {"ACCEPTED", "ALREADY_COMPLETED",
            "DUPLICATE_TRANSACTION", "TRANSACTION_IN_PROGRESS",
            "ALREADY_PURCHASED", "OUT_OF_STOCK", "PRODUCT_NOT_FOUND",
            "SALE_NOT_FOUND", "ERROR", "NO_REPLY"}

\* attempt counts withRetry, reloaded which cache entries this call has
\* refilled, seen and sale what it read from Postgres.
RequestStates ==
    [pc : RequestPcs, in : Purchases, attempt : 1 .. MaxAttempts,
     reloaded : SUBSET {"stock", "sale"}, seen : Nat \cup {NoStock},
     sale : Sales \cup {NoSale}, resp : Answers \cup {"none"}]

Arrived(p) == [pc |-> "reserve", in |-> p, attempt |-> 1, reloaded |-> {},
               seen |-> NoStock, sale |-> NoSale, resp |-> "none"]
Answered(p, a) == [Arrived(p) EXCEPT !.pc = "done", !.resp = a]

WorkerPcs == {"idle", "lock", "decrement", "commit", "rolledBack", "mark",
              "ack", "cancel", "return", "nack"}

\* live: the channel that delivered msg is open.
WorkerStates == [pc : WorkerPcs, msg : Purchases \cup {NoPurchase},
                 attempt : 1 .. MaxAttempts, live : BOOLEAN]

IdleWorker == [pc |-> "idle", msg |-> NoPurchase, attempt |-> 1, live |-> TRUE]

\* todo: scanned rows still to cancel.  owed: cancelled, stock to return.
ReconcilerStates == [todo : SUBSET Purchases, owed : SUBSET Purchases]

IdleReconciler == [todo |-> {}, owed |-> {}]

\* Types of the state; neither stock goes below zero, whatever fails.
TypeOK ==
    /\ CacheTypeOK
    /\ DbTypeOK
    /\ queue \subseteq Purchases
    /\ dlq \subseteq Purchases
    /\ req \in [Requests -> RequestStates]
    /\ wrk \in [Workers -> WorkerStates]
    /\ rec \in ReconcilerStates
    /\ faults \in 0 .. MaxFaults

Init ==
    /\ CacheInit(InitialStock)
    /\ DbInit(InitialStock)
    /\ queue = {}
    /\ dlq = {}
    /\ \E in \in [Requests -> Purchases] : req = [r \in Requests |-> Arrived(in[r])]
    /\ wrk = [w \in Workers |-> IdleWorker]
    /\ rec = IdleReconciler
    /\ faults = 0

(***************************************************************************)
(* Requests: helpers                                                       *)
(***************************************************************************)
At(r, pc) == req[r].pc = pc
Goto(r, pc) == req' = [req EXCEPT ![r].pc = pc]
Reply(r, a) == req' = [req EXCEPT ![r] = Answered(@.in, a)]

\* withRetry around purchaseProduct: an error it calls transient starts the
\* whole purchase again, any other error or the last attempt is a 500.
RetryOrFail(r) ==
    \/ /\ req[r].attempt < MaxAttempts
       /\ req' = [req EXCEPT ![r] =
                    [Arrived(@.in) EXCEPT !.attempt = req[r].attempt + 1]]
    \/ Reply(r, "ERROR")

\* The switch of reserveStock over the statuses that stop the purchase.
AnswerTo(status) ==
    CASE status = "IDEMPOTENT_SUCCESS" -> "ALREADY_COMPLETED"
      [] status = "PRODUCT_CACHE_MISSING" -> "PRODUCT_NOT_FOUND"
      [] status \in {"FLASH_SALE_CACHE_MISSING", "SALE_INACTIVE"}
            -> "SALE_NOT_FOUND"
      [] OTHER -> status

(***************************************************************************)
(* Requests: reserving in Redis                                            *)
(***************************************************************************)
\* A missing stock key is refilled once per call of the product service, a
\* missing window once per purchase; then the script runs again.
ReserveStock(r) ==
    LET status == ReserveStatus(req[r].in) IN
    /\ At(r, "reserve")
    /\ Reserve(req[r].in)
    /\ \/ status = "RESERVED" /\ Goto(r, "insert")
       \/ /\ status = "PRODUCT_CACHE_MISSING" /\ "stock" \notin req[r].reloaded
          /\ Goto(r, "loadStock")
       \/ /\ status = "FLASH_SALE_CACHE_MISSING" /\ "sale" \notin req[r].reloaded
          /\ Goto(r, "loadSale")
       \/ /\ status # "RESERVED"
          /\ status = "PRODUCT_CACHE_MISSING" => "stock" \in req[r].reloaded
          /\ status = "FLASH_SALE_CACHE_MISSING" => "sale" \in req[r].reloaded
          /\ Reply(r, AnswerTo(status))
    /\ UNCHANGED <<dbVars, mqVars>>

LoadStock(r) ==
    /\ At(r, "loadStock")
    /\ req' = [req EXCEPT ![r].pc = "fillStock", ![r].seen = dbStock]
    /\ UNCHANGED <<cacheVars, dbVars, mqVars>>

StockFilled(r) ==
    req' = [req EXCEPT ![r].pc = "reserve", ![r].seen = NoStock,
                       ![r].reloaded = @ \cup {"stock"}]

FillStock(r) ==
    /\ At(r, "fillStock")
    /\ SetStock(req[r].seen)
    /\ StockFilled(r)
    /\ UNCHANGED <<dbVars, mqVars>>

\* The second call of the product service may refill the stock once more.
SaleFound(r) ==
    req' = [req EXCEPT ![r].pc = "reserve", ![r].sale = NoSale,
                       ![r].reloaded = {"sale"}]

LoadSale(r) ==
    /\ At(r, "loadSale")
    /\ \/ openSale = NoSale /\ Reply(r, "SALE_NOT_FOUND")
       \/ openSale # NoSale /\ saleWindowKey = openSale /\ SaleFound(r)
       \/ /\ openSale # NoSale /\ saleWindowKey # openSale
          /\ req' = [req EXCEPT ![r].pc = "fillSale", ![r].sale = openSale]
    /\ UNCHANGED <<cacheVars, dbVars, mqVars>>

FillSale(r) ==
    /\ At(r, "fillSale")
    /\ SetSaleWindow(req[r].sale)
    /\ SaleFound(r)
    /\ UNCHANGED <<dbVars, mqVars>>

(***************************************************************************)
(* Requests: the pending row and its message                               *)
(***************************************************************************)
\* Mutant of InsertPending: no error of the insert releases the reservation.
InsertKeepsReservation(r) ==
    /\ At(r, "insert")
    /\ \/ CreatePendingTransaction(req[r].in) /\ Goto(r, "publish")
       \/ UniqueViolation(req[r].in) /\ Reply(r, "ERROR") /\ UNCHANGED dbVars
    /\ UNCHANGED <<cacheVars, mqVars>>

\* A unique violation is a definitive rollback: the reservation is released
\* and the error, which is not retryable, becomes a 500.
InsertPending(r) ==
    /\ At(r, "insert")
    /\ \/ CreatePendingTransaction(req[r].in) /\ Goto(r, "publish")
       \/ UniqueViolation(req[r].in) /\ Goto(r, "release") /\ UNCHANGED dbVars
    /\ UNCHANGED <<cacheVars, mqVars>>

ReleaseRolledBack(r) ==
    /\ At(r, "release")
    /\ Release(req[r].in)
    /\ Reply(r, "ERROR")
    /\ UNCHANGED <<dbVars, mqVars>>

Publish(r) ==
    /\ At(r, "publish")
    /\ queue' = queue \cup {req[r].in}
    /\ Reply(r, "ACCEPTED")
    /\ UNCHANGED <<cacheVars, dbVars, dlq>>

(***************************************************************************)
(* Requests: the database fallback, one read per step                      *)
(***************************************************************************)
FallbackProduct(r) ==
    /\ At(r, "fbProduct")
    /\ req' = [req EXCEPT ![r].pc = "fbSale", ![r].seen = dbStock]

FallbackSale(r) ==
    /\ At(r, "fbSale")
    /\ \/ openSale = NoSale /\ Reply(r, "SALE_NOT_FOUND")
       \/ openSale # NoSale /\ req[r].seen <= 0 /\ Reply(r, "OUT_OF_STOCK")
       \/ /\ openSale # NoSale /\ req[r].seen > 0
          /\ req' = [req EXCEPT ![r].pc = "fbKey", ![r].seen = NoStock]

\* Mutant of FallbackKey: any row of the key counts as a completed purchase.
FallbackKeyAnyRow(r, here, next) ==
    /\ At(r, here)
    /\ \/ txn[req[r].in] # "NONE" /\ Reply(r, "ALREADY_COMPLETED")
       \/ txn[req[r].in] = "NONE" /\ Goto(r, next)

\* getTransactionByIdempotencyKeyAndUserId, before the insert and after its
\* conflict.
FallbackKey(r, here, next) ==
    LET status == txn[req[r].in] IN
    /\ At(r, here)
    /\ \/ status = "COMPLETED" /\ Reply(r, "ALREADY_COMPLETED")
       \/ status \in {"PENDING", "CANCELLED"} /\ Reply(r, "DUPLICATE_TRANSACTION")
       \/ status = "NONE" /\ Goto(r, next)

\* getActiveTransactionByUserIdAndProductId, likewise.
FallbackUser(r, here, otherwise) ==
    LET user == req[r].in.user IN
    /\ At(r, here)
    /\ \/ HasBought(user) /\ Reply(r, "ALREADY_PURCHASED")
       \/ HasActive(user) /\ ~HasBought(user) /\ Reply(r, "TRANSACTION_IN_PROGRESS")
       \/ ~HasActive(user) /\ otherwise

FallbackRead(r) ==
    /\ \/ FallbackProduct(r)
       \/ FallbackSale(r)
       \/ FallbackKey(r, "fbKey", "fbUser")
       \/ FallbackUser(r, "fbUser", Goto(r, "fbInsert"))
       \/ FallbackKey(r, "fbResolveKey", "fbResolveUser")
       \/ FallbackUser(r, "fbResolveUser", Reply(r, "ERROR"))
    /\ UNCHANGED <<cacheVars, dbVars, mqVars>>

FallbackInsert(r) ==
    /\ At(r, "fbInsert")
    /\ \/ CreatePendingTransaction(req[r].in) /\ Goto(r, "publish")
       \/ UniqueViolation(req[r].in) /\ Goto(r, "fbResolveKey") /\ UNCHANGED dbVars
    /\ UNCHANGED <<cacheVars, mqVars>>

RequestStep(r) ==
    /\ \/ ReserveStock(r) \/ LoadStock(r) \/ FillStock(r)
       \/ LoadSale(r) \/ FillSale(r)
       \/ InsertPending(r) \/ ReleaseRolledBack(r) \/ Publish(r)
       \/ FallbackRead(r) \/ FallbackInsert(r)
    /\ UNCHANGED <<clockVars, wrk, rec, faults>>

(***************************************************************************)
(* Requests: faults                                                        *)
(***************************************************************************)
\* An error of the script makes productService throw RedisUnavailableError:
\* the purchase goes on without Redis, whether or not the script ran.
ReserveFails(r) ==
    /\ At(r, "reserve")
    /\ \/ Fault("redis") /\ UNCHANGED cacheVars
       \/ Fault("redisReply") /\ Reserve(req[r].in)
    /\ req' = [req EXCEPT ![r].pc = "fbProduct", ![r].reloaded = {}]
    /\ UNCHANGED dbVars

\* Other Redis errors are thrown as they are.
FillFails(r) ==
    /\ \/ At(r, "fillStock") /\ Fault("redisReply") /\ SetStock(req[r].seen)
       \/ At(r, "fillSale") /\ Fault("redisReply") /\ SetSaleWindow(req[r].sale)
       \/ /\ req[r].pc \in {"fillStock", "loadSale", "fillSale"}
          /\ Fault("redis")
          /\ UNCHANGED cacheVars
    /\ RetryOrFail(r)
    /\ UNCHANGED dbVars

\* releaseRolledBackReservation swallows the error of the release.
ReleaseFails(r) ==
    /\ At(r, "release")
    /\ Fault("redis")
    /\ Reply(r, "ERROR")
    /\ UNCHANGED <<cacheVars, dbVars>>

\* Neither kind of failed insert is a definitive rollback: the reservation
\* stays.
StatementFails(r) ==
    /\ \/ /\ req[r].pc \in {"loadStock", "loadSale", "insert", "fbProduct",
                            "fbSale", "fbKey", "fbUser", "fbInsert",
                            "fbResolveKey", "fbResolveUser"}
          /\ Fault("db")
          /\ UNCHANGED dbVars
       \/ /\ req[r].pc \in {"insert", "fbInsert"}
          /\ Fault("dbReply")
          /\ CreatePendingTransaction(req[r].in)
    /\ RetryOrFail(r)
    /\ UNCHANGED cacheVars

\* Without publisher confirms sendToQueue either throws or says nothing.
PublishFails(r) ==
    /\ At(r, "publish")
    /\ \/ Fault("publish") /\ Reply(r, "ERROR")
       \/ Fault("drop") /\ Reply(r, "ACCEPTED")
    /\ UNCHANGED <<cacheVars, dbVars>>

ApiCrash(r) ==
    /\ ~At(r, "done")
    /\ Fault("api")
    /\ Reply(r, "NO_REPLY")
    /\ UNCHANGED <<cacheVars, dbVars>>

RequestFault(r) ==
    /\ \/ ReserveFails(r) \/ FillFails(r) \/ ReleaseFails(r)
       \/ StatementFails(r) \/ PublishFails(r) \/ ApiCrash(r)
    /\ UNCHANGED <<clockVars, mqVars, wrk, rec>>

(***************************************************************************)
(* Workers                                                                 *)
(***************************************************************************)
Doing(w, pc) == wrk[w].pc = pc
Do(w, pc) == wrk' = [wrk EXCEPT ![w].pc = pc]
Finish(w) == wrk' = [wrk EXCEPT ![w] = IdleWorker]

\* Mutant of RowLocked: SELECT without FOR UPDATE.
RowNeverLocked(p) == FALSE

\* A database transaction holds the row of its purchase from SELECT ... FOR
\* UPDATE to commit or rollback, and the product row from the decrement on.
RowLocked(p) == \E w \in Workers : /\ wrk[w].pc \in {"decrement", "commit"}
                                   /\ wrk[w].msg = p
StockLocked == \E w \in Workers : Doing(w, "commit")

Deliver(w) ==
    /\ Doing(w, "idle")
    /\ \E p \in queue :
         /\ queue' = queue \ {p}
         /\ wrk' = [wrk EXCEPT ![w].pc = "lock", ![w].msg = p]
    /\ UNCHANGED <<cacheVars, dbVars, dlq>>

\* withRetry around completePurchase.
RetryOrCancel(w) ==
    \/ /\ wrk[w].attempt < MaxAttempts
       /\ wrk' = [wrk EXCEPT ![w].pc = "lock", ![w].attempt = @ + 1]
    \/ Do(w, "cancel")

\* Mutant of LockRow: a completed row is rejected like a cancelled one.
LockRowRejectsCompleted(w) ==
    /\ Doing(w, "lock")
    /\ ~RowLocked(wrk[w].msg)
    /\ Do(w, IF txn[wrk[w].msg] = "PENDING" THEN "decrement" ELSE "cancel")
    /\ UNCHANGED <<cacheVars, dbVars, mqVars>>

\* Mutant of LockRow: a cancelled row counts as processed, like a completed one.
LockRowAcceptsCancelled(w) ==
    /\ Doing(w, "lock")
    /\ ~RowLocked(wrk[w].msg)
    /\ Do(w, IF txn[wrk[w].msg] = "PENDING" THEN "decrement" ELSE "mark")
    /\ UNCHANGED <<cacheVars, dbVars, mqVars>>

\* A completed row ends the transaction at once and goes on to the marker; a
\* cancelled one throws an error that is not retryable.
LockRow(w) ==
    LET status == txn[wrk[w].msg] IN
    /\ Doing(w, "lock")
    /\ ~RowLocked(wrk[w].msg)
    /\ \/ status = "PENDING" /\ Do(w, "decrement")
       \/ status = "COMPLETED" /\ Do(w, "mark")
       \/ status \notin {"PENDING", "COMPLETED"} /\ Do(w, "cancel")
    /\ UNCHANGED <<cacheVars, dbVars, mqVars>>

\* Mutant of Decrement: UPDATE without "stock > 0".
DecrementAnyStock(w) ==
    /\ Doing(w, "decrement")
    /\ ~StockLocked
    /\ Do(w, "commit")
    /\ UNCHANGED <<cacheVars, dbVars, mqVars>>

\* The decrement finds a unit, or its transaction rolls back.
Decrement(w) ==
    /\ Doing(w, "decrement")
    /\ ~StockLocked
    /\ \/ dbStock > 0 /\ Do(w, "commit")
       \/ dbStock = 0 /\ Do(w, "rolledBack")
    /\ UNCHANGED <<cacheVars, dbVars, mqVars>>

Commit(w) ==
    /\ Doing(w, "commit")
    /\ CompleteTransaction(wrk[w].msg)
    /\ Do(w, "mark")
    /\ UNCHANGED <<cacheVars, mqVars>>

\* OutOfStockError releases the reservation, and is not retryable.
ReleaseOutOfStock(w) ==
    /\ Doing(w, "rolledBack")
    /\ Release(wrk[w].msg)
    /\ Do(w, "cancel")
    /\ UNCHANGED <<dbVars, mqVars>>

MarkReservation(w) ==
    /\ Doing(w, "mark")
    /\ MarkCompleted(wrk[w].msg)
    /\ Do(w, "ack")
    /\ UNCHANGED <<dbVars, mqVars>>

\* On a channel that is gone, the broker has already taken the message back:
\* the ack is lost, or throws inside the try block.
Ack(w) ==
    /\ Doing(w, "ack")
    /\ \/ Finish(w)
       \/ ~wrk[w].live /\ Do(w, "cancel")
    /\ UNCHANGED <<cacheVars, dbVars, mqVars>>

CancelFailed(w) ==
    /\ Doing(w, "cancel")
    /\ ~RowLocked(wrk[w].msg)
    /\ CancelPendingTransaction(wrk[w].msg)
    /\ Do(w, IF txn[wrk[w].msg] = "PENDING" THEN "return" ELSE "nack")
    /\ UNCHANGED <<cacheVars, mqVars>>

ReturnStock(w) ==
    /\ Doing(w, "return")
    /\ Release(wrk[w].msg)
    /\ Do(w, "nack")
    /\ UNCHANGED <<dbVars, mqVars>>

Nack(w) ==
    /\ Doing(w, "nack")
    /\ dlq' = IF wrk[w].live THEN dlq \cup {wrk[w].msg} ELSE dlq
    /\ Finish(w)
    /\ UNCHANGED <<cacheVars, dbVars, queue>>

HandlerStep(w) ==
    /\ \/ LockRow(w) \/ Decrement(w) \/ Commit(w) \/ ReleaseOutOfStock(w)
       \/ MarkReservation(w) \/ Ack(w) \/ CancelFailed(w) \/ ReturnStock(w)
       \/ Nack(w)
    /\ UNCHANGED <<clockVars, req, rec, faults>>

WorkerStep(w) ==
    \/ HandlerStep(w)
    \/ Deliver(w) /\ UNCHANGED <<clockVars, req, rec, faults>>

(***************************************************************************)
(* Workers: faults                                                         *)
(***************************************************************************)
\* The transaction is rolled back, or committed without the worker knowing.
TransactionFails(w) ==
    /\ \/ /\ wrk[w].pc \in {"lock", "decrement", "commit"}
          /\ Fault("db")
          /\ UNCHANGED dbVars
       \/ /\ Doing(w, "commit")
          /\ Fault("dbReply")
          /\ CompleteTransaction(wrk[w].msg)
    /\ RetryOrCancel(w)
    /\ UNCHANGED <<cacheVars, mqVars>>

\* cancelFailedPurchase swallows every error of cancelPurchase, so a failed
\* UPDATE or a failed release goes straight to the nack.
CancelFails(w) ==
    /\ \/ Doing(w, "cancel") /\ Fault("db") /\ UNCHANGED dbVars
       \/ /\ Doing(w, "cancel") /\ ~RowLocked(wrk[w].msg)
          /\ Fault("dbReply")
          /\ CancelPendingTransaction(wrk[w].msg)
       \/ Doing(w, "return") /\ Fault("redis") /\ UNCHANGED dbVars
    /\ Do(w, "nack")
    /\ UNCHANGED <<cacheVars, mqVars>>

\* The errors of the marker and of the rolled back release are swallowed too.
MarkerFails(w) ==
    /\ Fault("redis")
    /\ \/ Doing(w, "mark") /\ Do(w, "ack")
       \/ Doing(w, "rolledBack") /\ Do(w, "cancel")
    /\ UNCHANGED <<cacheVars, dbVars, mqVars>>

\* The broker requeues what the channel had not acknowledged, while the
\* handler runs on.
ChannelLost(w) ==
    /\ ~Doing(w, "idle")
    /\ wrk[w].live
    /\ Fault("channel")
    /\ queue' = queue \cup {wrk[w].msg}
    /\ wrk' = [wrk EXCEPT ![w].live = FALSE]
    /\ UNCHANGED <<cacheVars, dbVars, dlq>>

WorkerCrash(w) ==
    /\ ~Doing(w, "idle")
    /\ Fault("worker")
    /\ queue' = IF wrk[w].live THEN queue \cup {wrk[w].msg} ELSE queue
    /\ Finish(w)
    /\ UNCHANGED <<cacheVars, dbVars, dlq>>

WorkerFault(w) ==
    /\ \/ TransactionFails(w) \/ CancelFails(w) \/ MarkerFails(w)
       \/ ChannelLost(w) \/ WorkerCrash(w)
    /\ UNCHANGED <<clockVars, req, rec>>

(***************************************************************************)
(* The reconciler                                                          *)
(***************************************************************************)
\* Mutant of Scan: only rows whose message was dead-lettered are looked at.
ScanDeadLetters(found) ==
    /\ rec = IdleReconciler
    /\ found # {}
    /\ \A p \in found : txn[p] = "PENDING" /\ p \in dlq
    /\ rec' = [rec EXCEPT !.todo = found]
    /\ UNCHANGED <<cacheVars, dbVars>>

\* Any set of pending rows may be older than the cutoff.  isReconciling lets
\* one scan run at a time.
Scan(found) ==
    /\ rec = IdleReconciler
    /\ found # {}
    /\ \A p \in found : txn[p] = "PENDING"
    /\ rec' = [rec EXCEPT !.todo = found]
    /\ UNCHANGED <<cacheVars, dbVars>>

\* Mutant of ReconcileCancel: the release does not wait for the outcome.
ReconcileCancelOwesAlways ==
    /\ rec.owed = {}
    /\ \E p \in rec.todo :
         /\ ~RowLocked(p)
         /\ CancelPendingTransaction(p)
         /\ rec' = [todo |-> rec.todo \ {p}, owed |-> {p}]
    /\ UNCHANGED cacheVars


\* cancelPurchase: the row, and only when this call cancelled it the stock.
ReconcileCancel ==
    /\ rec.owed = {}
    /\ \E p \in rec.todo :
         /\ ~RowLocked(p)
         /\ CancelPendingTransaction(p)
         /\ rec' = [todo |-> rec.todo \ {p},
                    owed |-> IF txn[p] = "PENDING" THEN {p} ELSE {}]
    /\ UNCHANGED cacheVars

ReconcileRelease ==
    /\ \E p \in rec.owed : Release(p) /\ rec' = [rec EXCEPT !.owed = @ \ {p}]
    /\ UNCHANGED dbVars

ReconcilerStep ==
    /\ ReconcileCancel \/ ReconcileRelease
    /\ UNCHANGED <<clockVars, mqVars, req, wrk, faults>>

\* Each row has its own try block: an error skips to the next row.
ReconcilerFault ==
    /\ \/ /\ rec.owed = {}
          /\ \E p \in rec.todo :
               /\ \/ Fault("db") /\ UNCHANGED dbVars
                  \/ /\ ~RowLocked(p)
                     /\ Fault("dbReply")
                     /\ CancelPendingTransaction(p)
               /\ rec' = [rec EXCEPT !.todo = @ \ {p}]
       \/ /\ rec.owed # {}
          /\ Fault("redis")
          /\ rec' = [rec EXCEPT !.owed = {}]
          /\ UNCHANGED dbVars
       \/ /\ rec # IdleReconciler
          /\ Fault("reconciler")
          /\ rec' = IdleReconciler
          /\ UNCHANGED dbVars
    /\ UNCHANGED <<cacheVars, clockVars, mqVars, req, wrk>>

(***************************************************************************)
(* The whole system                                                        *)
(***************************************************************************)
ScanStep(found) == Scan(found) /\ UNCHANGED <<clockVars, mqVars, req, wrk, faults>>

Others == UNCHANGED <<dbVars, mqVars, req, wrk, rec>>

Environment ==
    \/ Clock /\ UNCHANGED faults /\ Others
    \/ Fault("redisLoss") /\ LoseKeys /\ UNCHANGED clockVars /\ Others

\* Every request is answered and the broker, the workers and the reconciler
\* have nothing to do: the model stops here and the system waits.
Quiescent ==
    /\ \A r \in Requests : At(r, "done")
    /\ queue = {}
    /\ \A w \in Workers : Doing(w, "idle")
    /\ rec = IdleReconciler
    /\ \A p \in Purchases : txn[p] # "PENDING"
    /\ UNCHANGED vars

Next ==
    \/ \E r \in Requests : RequestStep(r) \/ RequestFault(r)
    \/ \E w \in Workers : WorkerStep(w) \/ WorkerFault(w)
    \/ \E found \in SUBSET Purchases : ScanStep(found)
    \/ ReconcilerStep
    \/ ReconcilerFault
    \/ Environment
    \/ Quiescent

Spec == Init /\ [][Next]_vars
=============================================================================
