-------------------------- MODULE PurchaseFlowLemmas --------------------------
(***************************************************************************)
(* The inductive invariant of the purchase flow, FlowInv, for any users,   *)
(* keys, sales, requests, workers, stock, attempts and faults: what its    *)
(* actions do to the types of its requests and workers and to the row      *)
(* locks of the workers' transactions, and that every step of the flow is  *)
(* a step of the database (DbStep) and a step of the cache (CacheStep), of *)
(* which the invariant is proved.                                          *)
(***************************************************************************)
EXTENDS PurchaseFlowProperties, ProductCacheLemmas

ReqTypeOK == req \in [Requests -> RequestStates]
WrkTypeOK == wrk \in [Workers -> WorkerStates]

\* A worker that is busy has a message.
BusyHasMessage == \A w \in Workers : ~Doing(w, "idle") => wrk[w].msg \in Purchases

(***************************************************************************)
(* Types of the request states                                             *)
(***************************************************************************)
LEMMA ArrivedType == \A p \in Purchases : Arrived(p) \in RequestStates
BY FlowAssumption DEF Arrived, RequestStates, RequestPcs, Answers

LEMMA AnsweredType == \A p \in Purchases, a \in Answers : Answered(p, a) \in RequestStates
<1> SUFFICES ASSUME NEW p \in Purchases, NEW a \in Answers
             PROVE  Answered(p, a) \in RequestStates
  OBVIOUS
<1>1. Answered(p, a) = [Arrived(p) EXCEPT !["pc"] = "done", !["resp"] = a]
  BY DEF Answered
<1>2. Arrived(p) \in RequestStates
  BY ArrivedType
<1> QED BY <1>1, <1>2 DEF RequestStates, RequestPcs

LEMMA ReplyType ==
    ASSUME ReqTypeOK, NEW r \in Requests, NEW a \in Answers, Reply(r, a)
    PROVE  ReqTypeOK'
<1>1. req[r].in \in Purchases
  BY DEF ReqTypeOK, RequestStates
<1> QED BY <1>1, AnsweredType DEF ReqTypeOK, Reply

LEMMA GotoType ==
    ASSUME ReqTypeOK, NEW r \in Requests, NEW pc \in RequestPcs, Goto(r, pc)
    PROVE  ReqTypeOK'
BY DEF ReqTypeOK, Goto, RequestStates

LEMMA RetryOrFailType ==
    ASSUME ReqTypeOK, NEW r \in Requests, RetryOrFail(r)
    PROVE  ReqTypeOK'
<1>1. CASE Reply(r, "ERROR")
  BY <1>1, ReplyType DEF Answers
<1>2. ASSUME req[r].attempt < MaxAttempts,
             req' = [req EXCEPT ![r] =
                       [Arrived(@.in) EXCEPT !.attempt = req[r].attempt + 1]]
      PROVE  ReqTypeOK'
  <2>1. req[r].in \in Purchases /\ req[r].attempt + 1 \in 1 .. MaxAttempts
    BY <1>2, FlowAssumption DEF ReqTypeOK, RequestStates
  <2>2. [Arrived(req[r].in) EXCEPT !.attempt = req[r].attempt + 1] \in RequestStates
    BY <2>1, FlowAssumption DEF Arrived, RequestStates, RequestPcs, Answers
  <2> QED BY <1>2, <2>2 DEF ReqTypeOK
<1> QED BY <1>1, <1>2 DEF RetryOrFail

Statuses9 == {"PRODUCT_CACHE_MISSING", "FLASH_SALE_CACHE_MISSING", "SALE_INACTIVE",
              "IDEMPOTENT_SUCCESS", "DUPLICATE_TRANSACTION",
              "TRANSACTION_IN_PROGRESS", "ALREADY_PURCHASED", "OUT_OF_STOCK",
              "RESERVED"}

LEMMA StatusType ==
    ASSUME CacheTypeOK, NEW p \in Purchases
    PROVE  ReserveStatus(p) \in Statuses9
<1>1. p.user \in Users /\ p.key \in Keys
  BY PurchaseByFields
<1>2. \A m \in Markers : BuyerStatus(m, p.key) \in Statuses9
  <2> SUFFICES ASSUME NEW m \in Markers PROVE BuyerStatus(m, p.key) \in Statuses9
    OBVIOUS
  <2>1. m.state \in {"pending", "completed"}
    BY DEF Markers
  <2>2. CASE m.state = "completed" /\ m.key = p.key
    BY <2>2 DEF BuyerStatus, Statuses9
  <2>3. CASE m.state = "completed" /\ m.key # p.key
    BY <2>3 DEF BuyerStatus, Statuses9
  <2>4. CASE m.state = "pending" /\ m.key = p.key
    BY <2>4 DEF BuyerStatus, Statuses9
  <2>5. CASE m.state = "pending" /\ m.key # p.key
    BY <2>5 DEF BuyerStatus, Statuses9
  <2> QED BY <2>1, <2>2, <2>3, <2>4, <2>5
<1>3. buyerKey[p.user] \in Markers \cup {NoMarker}
  BY <1>1 DEF CacheTypeOK
<1> QED BY <1>2, <1>3 DEF ReserveStatus, Statuses9

LEMMA AnswerType ==
    \A status \in Statuses9 \ {"RESERVED"} : AnswerTo(status) \in Answers
BY DEF Statuses9, AnswerTo, Answers

(***************************************************************************)
(* Requests keep the types                                                 *)
(***************************************************************************)
LEMMA RequestStepReqType ==
    ASSUME ReqTypeOK, DbTypeOK, CacheTypeOK, NEW r \in Requests, RequestStep(r)
    PROVE  ReqTypeOK'
<1> USE DEF RequestPcs
<1>0. req[r] \in RequestStates /\ req[r].in \in Purchases
  BY DEF ReqTypeOK, RequestStates
<1>1. CASE ReserveStock(r)
  <2>1. ReserveStatus(req[r].in) \in Statuses9
    BY <1>0, StatusType
  <2> QED BY <1>1, <2>1, GotoType, ReplyType, AnswerType DEF ReserveStock
<1>2. CASE LoadStock(r)
  BY <1>0, <1>2 DEF LoadStock, ReqTypeOK, RequestStates, DbTypeOK
<1>3. CASE FillStock(r)
  BY <1>0, <1>3 DEF FillStock, StockFilled, ReqTypeOK, RequestStates
<1>4. ASSUME SaleFound(r) PROVE ReqTypeOK'
  BY <1>0, <1>4 DEF SaleFound, ReqTypeOK, RequestStates
<1>5. CASE LoadSale(r)
  <2>1. CASE Reply(r, "SALE_NOT_FOUND")
    BY <2>1, ReplyType DEF Answers
  <2>2. CASE req' = [req EXCEPT ![r].pc = "fillSale", ![r].sale = openSale]
    BY <1>0, <2>2 DEF ReqTypeOK, RequestStates, CacheTypeOK, SaleTypeOK
  <2> QED BY <1>4, <1>5, <2>1, <2>2 DEF LoadSale
<1>6. CASE FillSale(r)
  BY <1>4, <1>6 DEF FillSale
<1>7. CASE InsertPending(r)
  BY <1>7, GotoType DEF InsertPending
<1>8. CASE ReleaseRolledBack(r)
  BY <1>8, ReplyType DEF ReleaseRolledBack, Answers
<1>9. CASE Publish(r)
  BY <1>9, ReplyType DEF Publish, Answers
<1>10. CASE FallbackRead(r)
  <2>1. CASE FallbackProduct(r)
    BY <1>0, <2>1 DEF FallbackProduct, ReqTypeOK, RequestStates, DbTypeOK
  <2>2. CASE FallbackSale(r)
    <3>1. CASE req' = [req EXCEPT ![r].pc = "fbKey", ![r].seen = NoStock]
      BY <1>0, <3>1 DEF ReqTypeOK, RequestStates
    <3> QED BY <2>2, <3>1, ReplyType DEF FallbackSale, Answers
  <2>3. CASE FallbackKey(r, "fbKey", "fbUser")
    BY <2>3, GotoType, ReplyType DEF FallbackKey, Answers
  <2>4. CASE FallbackUser(r, "fbUser", Goto(r, "fbInsert"))
    BY <2>4, GotoType, ReplyType DEF FallbackUser, Answers
  <2>5. CASE FallbackKey(r, "fbResolveKey", "fbResolveUser")
    BY <2>5, GotoType, ReplyType DEF FallbackKey, Answers
  <2>6. CASE FallbackUser(r, "fbResolveUser", Reply(r, "ERROR"))
    BY <2>6, GotoType, ReplyType DEF FallbackUser, Answers
  <2> QED BY <1>10, <2>1, <2>2, <2>3, <2>4, <2>5, <2>6 DEF FallbackRead
<1>11. CASE FallbackInsert(r)
  BY <1>11, GotoType DEF FallbackInsert
<1> QED BY <1>1, <1>2, <1>3, <1>5, <1>6, <1>7, <1>8, <1>9, <1>10, <1>11
        DEF RequestStep

LEMMA RequestFaultReqType ==
    ASSUME ReqTypeOK, NEW r \in Requests, RequestFault(r)
    PROVE  ReqTypeOK'
<1>1. CASE ReserveFails(r)
  <2>1. req' = [req EXCEPT ![r] = [req[r] EXCEPT !.pc = "fbProduct", !.reloaded = {}]]
    BY <1>1 DEF ReserveFails
  <2>2. [req[r] EXCEPT !.pc = "fbProduct", !.reloaded = {}] \in RequestStates
    <3>1. req[r] \in RequestStates /\ "fbProduct" \in RequestPcs
      BY DEF ReqTypeOK, RequestPcs
    <3> QED BY <3>1 DEF RequestStates
  <2> QED BY <2>1, <2>2 DEF ReqTypeOK
<1>2. CASE FillFails(r)
  BY <1>2, RetryOrFailType DEF FillFails
<1>3. CASE ReleaseFails(r)
  BY <1>3, ReplyType DEF ReleaseFails, Answers
<1>4. CASE StatementFails(r)
  BY <1>4, RetryOrFailType DEF StatementFails
<1>5. CASE PublishFails(r)
  BY <1>5, ReplyType DEF PublishFails, Answers
<1>6. CASE ApiCrash(r)
  BY <1>6, ReplyType DEF ApiCrash, Answers
<1> QED BY <1>1, <1>2, <1>3, <1>4, <1>5, <1>6 DEF RequestFault

(***************************************************************************)
(* Worker states                                                           *)
(***************************************************************************)
WrkInv == WrkTypeOK /\ BusyHasMessage

LEMMA IdleType == IdleWorker \in WorkerStates
BY FlowAssumption DEF IdleWorker, WorkerStates, WorkerPcs

LEMMA WrkUpdate ==
    ASSUME WrkInv, NEW w \in Workers, NEW s \in WorkerStates,
           s.pc # "idle" => s.msg \in Purchases,
           wrk' = [wrk EXCEPT ![w] = s]
    PROVE  WrkInv'
<1>1. WrkTypeOK'
  BY DEF WrkInv, WrkTypeOK
<1>2. ASSUME NEW v \in Workers, wrk'[v].pc # "idle"
      PROVE  wrk'[v].msg \in Purchases
  <2>1. CASE v = w
    BY <1>2, <2>1 DEF WrkInv, WrkTypeOK
  <2>2. CASE v # w
    BY <1>2, <2>2 DEF WrkInv, WrkTypeOK, BusyHasMessage, Doing
  <2> QED BY <2>1, <2>2
<1> QED BY <1>1, <1>2 DEF WrkInv, BusyHasMessage, Doing

\* A busy worker that goes on keeps its message; so does one that retries.
LEMMA DoUpdates ==
    ASSUME WrkInv, NEW w \in Workers, ~Doing(w, "idle"),
           NEW pc \in WorkerPcs, Do(w, pc)
    PROVE  \E s \in WorkerStates :
               /\ s.pc = pc /\ s.msg = wrk[w].msg /\ s.msg \in Purchases
               /\ wrk' = [wrk EXCEPT ![w] = s]
<1> DEFINE s == [wrk[w] EXCEPT !.pc = pc]
<1>1. wrk[w] \in WorkerStates /\ wrk[w].msg \in Purchases
  BY DEF WrkInv, WrkTypeOK, BusyHasMessage
<1>2. s \in WorkerStates /\ s.pc = pc /\ s.msg = wrk[w].msg
  BY <1>1 DEF WorkerStates
<1>3. wrk' = [wrk EXCEPT ![w] = s]
  BY DEF Do
<1> QED BY <1>1, <1>2, <1>3

LEMMA RetryOrCancelUpdates ==
    ASSUME WrkInv, NEW w \in Workers, ~Doing(w, "idle"), RetryOrCancel(w)
    PROVE  \E s \in WorkerStates :
               /\ s.pc \in {"lock", "cancel"} /\ s.msg \in Purchases
               /\ wrk' = [wrk EXCEPT ![w] = s]
<1>1. CASE Do(w, "cancel")
  <2>1. "cancel" \in WorkerPcs
    BY DEF WorkerPcs
  <2>2. PICK s \in WorkerStates : /\ s.pc = "cancel" /\ s.msg \in Purchases
                                 /\ wrk' = [wrk EXCEPT ![w] = s]
    BY <1>1, <2>1, DoUpdates
  <2> QED BY <2>2
<1>2. CASE /\ wrk[w].attempt < MaxAttempts
           /\ wrk' = [wrk EXCEPT ![w].pc = "lock", ![w].attempt = @ + 1]
  <2> DEFINE s == [wrk[w] EXCEPT !.pc = "lock", !.attempt = wrk[w].attempt + 1]
  <2>1. wrk[w] \in WorkerStates /\ wrk[w].msg \in Purchases
    BY DEF WrkInv, WrkTypeOK, BusyHasMessage
  <2>2. wrk[w].attempt + 1 \in 1 .. MaxAttempts
    BY <1>2, <2>1, FlowAssumption DEF WorkerStates
  <2>3. s \in WorkerStates /\ s.pc = "lock" /\ s.msg = wrk[w].msg
    BY <2>1, <2>2 DEF WorkerStates, WorkerPcs
  <2>4. wrk' = [wrk EXCEPT ![w] = s]
    BY <1>2
  <2> QED BY <2>1, <2>3, <2>4
<1> QED BY <1>1, <1>2 DEF RetryOrCancel

(***************************************************************************)
(* Locks                                                                   *)
(***************************************************************************)
\* One worker moves to state s; its row, if it now holds one, is pending and
\* nobody else's, and the rows of the others and their unit are untouched.
LEMMA LocksUpdate ==
    ASSUME WrkInv, LocksIsolate, NEW w \in Workers, NEW s \in WorkerStates,
           wrk' = [wrk EXCEPT ![w] = s],
           s.pc \in {"decrement", "commit"} =>
               /\ txn'[s.msg] = "PENDING"
               /\ \A v \in Workers \ {w} : Holds(v) => wrk[v].msg # s.msg,
           s.pc = "commit" =>
               dbStock' > 0 /\ \A v \in Workers \ {w} : ~Doing(v, "commit"),
           \A v \in Workers \ {w} : Holds(v) => txn'[wrk[v].msg] = "PENDING",
           \A v \in Workers \ {w} : Doing(v, "commit") => dbStock' > 0
    PROVE  LocksIsolate'
<1> USE DEF Holds, Doing
<1>1. wrk'[w] = s /\ \A v \in Workers \ {w} : wrk'[v] = wrk[v]
  BY DEF WrkInv, WrkTypeOK
<1>2. ASSUME NEW v \in Workers, Holds(v)'
      PROVE  txn'[wrk'[v].msg] = "PENDING"
  BY <1>1, <1>2
<1>3. ASSUME NEW u \in Workers, NEW v \in Workers,
             Holds(u)', Holds(v)', wrk'[u].msg = wrk'[v].msg
      PROVE  u = v
  <2>1. CASE u # w /\ v # w
    BY <1>1, <1>3, <2>1 DEF LocksIsolate
  <2>2. CASE u = w \/ v = w
    BY <1>1, <1>3, <2>2
  <2> QED BY <2>1, <2>2
<1>4. ASSUME NEW v \in Workers, Doing(v, "commit")'
      PROVE  dbStock' > 0
  BY <1>1, <1>4
<1>5. ASSUME NEW u \in Workers, NEW v \in Workers,
             Doing(u, "commit")', Doing(v, "commit")'
      PROVE  u = v
  <2>1. CASE u # w /\ v # w
    BY <1>1, <1>5, <2>1 DEF LocksIsolate
  <2>2. CASE u = w \/ v = w
    BY <1>1, <1>5, <2>2
  <2> QED BY <2>1, <2>2
<1> QED BY <1>2, <1>3, <1>4, <1>5 DEF LocksIsolate

\* A worker that ends without a row in its hands and leaves the database to
\* the others, or gives it back after a commit of its own.
LEMMA LocksRelease ==
    ASSUME WrkInv, LocksIsolate, NEW w \in Workers, NEW s \in WorkerStates,
           wrk' = [wrk EXCEPT ![w] = s],
           s.pc \notin {"decrement", "commit"},
           \A v \in Workers \ {w} : Holds(v) => txn'[wrk[v].msg] = txn[wrk[v].msg],
           dbStock' = dbStock \/ Doing(w, "commit")
    PROVE  LocksIsolate'
<1>1. \A v \in Workers \ {w} : Holds(v) => txn'[wrk[v].msg] = "PENDING"
  BY DEF LocksIsolate
<1>2. \A v \in Workers \ {w} : Doing(v, "commit") => dbStock' > 0
  BY DEF LocksIsolate
<1> QED BY <1>1, <1>2, LocksUpdate

\* Steps of everyone but the workers.
LEMMA LocksStutter ==
    ASSUME LocksIsolate, UNCHANGED wrk, dbStock' = dbStock,
           \A v \in Workers : Holds(v) => txn'[wrk[v].msg] = txn[wrk[v].msg]
    PROVE  LocksIsolate'
<1> USE DEF Holds, Doing
<1>1. \A v \in Workers : wrk'[v] = wrk[v]
  OBVIOUS
<1> QED BY <1>1 DEF LocksIsolate

\* The insert of a row touches no row that is there.
LEMMA CreateKeepsHeld ==
    ASSUME LocksIsolate, NEW p \in Purchases, CreatePendingTransaction(p), DbTypeOK, WrkInv
    PROVE  \A v \in Workers : Holds(v) => txn'[wrk[v].msg] = txn[wrk[v].msg]
<1> SUFFICES ASSUME NEW v \in Workers, Holds(v)
             PROVE  txn'[wrk[v].msg] = txn[wrk[v].msg]
  OBVIOUS
<1>1. wrk[v].msg \in Purchases /\ txn[wrk[v].msg] = "PENDING"
  BY DEF Holds, LocksIsolate, WrkInv, BusyHasMessage, Doing
<1>2. txn[p] = "NONE"
  BY DEF CreatePendingTransaction, UniqueViolation
<1> QED BY <1>1, <1>2 DEF CreatePendingTransaction, DbTypeOK

\* The UPDATE of a row waits for its lock.
LEMMA CancelKeepsHeld ==
    ASSUME NEW p \in Purchases, ~RowLocked(p), CancelPendingTransaction(p), DbTypeOK, WrkInv
    PROVE  \A v \in Workers : Holds(v) => txn'[wrk[v].msg] = txn[wrk[v].msg]
<1> SUFFICES ASSUME NEW v \in Workers, Holds(v)
             PROVE  txn'[wrk[v].msg] = txn[wrk[v].msg]
  OBVIOUS
<1>1. wrk[v].msg \in Purchases /\ wrk[v].msg # p
  BY DEF Holds, RowLocked, WrkInv, BusyHasMessage, Doing
<1> QED BY <1>1 DEF CancelPendingTransaction, DbTypeOK

(***************************************************************************)
(* The steps of a worker                                                   *)
(***************************************************************************)
\* A worker goes on to a step at which it holds no row.
LEMMA DoRelease ==
    ASSUME WrkInv, LocksIsolate, NEW w \in Workers, ~Doing(w, "idle"),
           NEW pc \in WorkerPcs \ {"decrement", "commit"}, Do(w, pc),
           \A v \in Workers \ {w} : Holds(v) => txn'[wrk[v].msg] = txn[wrk[v].msg],
           dbStock' = dbStock \/ Doing(w, "commit")
    PROVE  WrkInv' /\ LocksIsolate'
<1>1. PICK s \in WorkerStates : /\ s.pc = pc /\ s.msg \in Purchases
                               /\ wrk' = [wrk EXCEPT ![w] = s]
  BY DoUpdates
<1> QED BY <1>1, WrkUpdate, LocksRelease

LEMMA RetryRelease ==
    ASSUME WrkInv, LocksIsolate, NEW w \in Workers, ~Doing(w, "idle"), RetryOrCancel(w),
           \A v \in Workers \ {w} : Holds(v) => txn'[wrk[v].msg] = txn[wrk[v].msg],
           dbStock' = dbStock \/ Doing(w, "commit")
    PROVE  WrkInv' /\ LocksIsolate'
<1>1. PICK s \in WorkerStates : /\ s.pc \in {"lock", "cancel"} /\ s.msg \in Purchases
                               /\ wrk' = [wrk EXCEPT ![w] = s]
  BY RetryOrCancelUpdates
<1> QED BY <1>1, WrkUpdate, LocksRelease

LEMMA FinishRelease ==
    ASSUME WrkInv, LocksIsolate, NEW w \in Workers, Finish(w), UNCHANGED dbVars
    PROVE  WrkInv' /\ LocksIsolate'
<1>1. wrk' = [wrk EXCEPT ![w] = IdleWorker] /\ IdleWorker.pc = "idle"
  BY DEF Finish, IdleWorker
<1> QED BY <1>1, IdleType, WrkUpdate, LocksRelease DEF dbVars

\* The commit of the worker that is past the decrement touches its own row.
LEMMA CommitKeepsHeld ==
    ASSUME WrkInv, DbTypeOK, LocksIsolate, NEW w \in Workers, Doing(w, "commit"),
           CompleteTransaction(wrk[w].msg)
    PROVE  \A v \in Workers \ {w} : Holds(v) => txn'[wrk[v].msg] = txn[wrk[v].msg]
<1> SUFFICES ASSUME NEW v \in Workers \ {w}, Holds(v)
             PROVE  txn'[wrk[v].msg] = txn[wrk[v].msg]
  OBVIOUS
<1>1. wrk[v].msg # wrk[w].msg
  BY DEF LocksIsolate, Holds, Doing
<1>2. wrk[v].msg \in Purchases
  BY DEF Holds, WrkInv, BusyHasMessage, Doing
<1> QED BY <1>1, <1>2 DEF CompleteTransaction, DbTypeOK

LEMMA LockRowLocks ==
    ASSUME WrkInv, DbTypeOK, LocksIsolate, NEW w \in Workers, LockRow(w)
    PROVE  WrkInv' /\ LocksIsolate'
<1>1. ~Doing(w, "idle") /\ UNCHANGED <<txn, dbStock>>
  BY DEF LockRow, Doing, dbVars
<1>2. CASE Do(w, "mark") \/ Do(w, "cancel")
  BY <1>1, <1>2, DoRelease DEF WorkerPcs
<1>3. CASE txn[wrk[w].msg] = "PENDING" /\ Do(w, "decrement")
  <2>1. PICK s \in WorkerStates : /\ s.pc = "decrement" /\ s.msg = wrk[w].msg
                                 /\ s.msg \in Purchases
                                 /\ wrk' = [wrk EXCEPT ![w] = s]
    BY <1>1, <1>3, DoUpdates DEF WorkerPcs
  <2>2. \A v \in Workers \ {w} : Holds(v) => wrk[v].msg # s.msg
    BY <2>1 DEF LockRow, RowLocked, Holds
  <2>3. \A v \in Workers \ {w} : Holds(v) => txn'[wrk[v].msg] = "PENDING"
    BY <1>1 DEF LocksIsolate
  <2>4. \A v \in Workers \ {w} : Doing(v, "commit") => dbStock' > 0
    BY <1>1 DEF LocksIsolate
  <2>5. txn'[s.msg] = "PENDING"
    BY <1>1, <1>3, <2>1
  <2> QED BY <2>1, <2>2, <2>3, <2>4, <2>5, WrkUpdate, LocksUpdate
<1> QED BY <1>2, <1>3 DEF LockRow

LEMMA DecrementLocks ==
    ASSUME WrkInv, DbTypeOK, LocksIsolate, NEW w \in Workers, Decrement(w)
    PROVE  WrkInv' /\ LocksIsolate'
<1>1. ~Doing(w, "idle") /\ UNCHANGED <<txn, dbStock>>
  BY DEF Decrement, Doing, dbVars
<1>2. CASE Do(w, "rolledBack")
  BY <1>1, <1>2, DoRelease DEF WorkerPcs
<1>3. CASE dbStock > 0 /\ Do(w, "commit")
  <2>1. PICK s \in WorkerStates : /\ s.pc = "commit" /\ s.msg = wrk[w].msg
                                 /\ s.msg \in Purchases
                                 /\ wrk' = [wrk EXCEPT ![w] = s]
    BY <1>1, <1>3, DoUpdates DEF WorkerPcs
  <2>2. Holds(w)
    BY DEF Decrement, Doing, Holds
  <2>3. \A v \in Workers \ {w} : Holds(v) => wrk[v].msg # s.msg
    BY <2>1, <2>2 DEF LocksIsolate
  <2>4. \A v \in Workers \ {w} : Holds(v) => txn'[wrk[v].msg] = "PENDING"
    BY <1>1 DEF LocksIsolate
  <2>5. \A v \in Workers \ {w} : Doing(v, "commit") => dbStock' > 0
    BY <1>1, <1>3
  <2>6. txn'[s.msg] = "PENDING"
    BY <1>1, <2>1, <2>2 DEF LocksIsolate
  <2>7. dbStock' > 0 /\ \A v \in Workers \ {w} : ~Doing(v, "commit")
    BY <1>1, <1>3 DEF Decrement, StockLocked
  <2> QED BY <2>1, <2>3, <2>4, <2>5, <2>6, <2>7, WrkUpdate, LocksUpdate
<1> QED BY <1>2, <1>3 DEF Decrement

LEMMA HandlerLocks ==
    ASSUME WrkInv, DbTypeOK, LocksIsolate, NEW w \in Workers, HandlerStep(w)
    PROVE  WrkInv' /\ LocksIsolate'
<1> USE DEF Doing
<1>1. CASE LockRow(w)
  BY <1>1, LockRowLocks
<1>2. CASE Decrement(w)
  BY <1>2, DecrementLocks
<1>3. CASE Commit(w)
  BY <1>3, CommitKeepsHeld, DoRelease DEF Commit, WorkerPcs
<1>4. CASE ReleaseOutOfStock(w)
  BY <1>4, DoRelease DEF ReleaseOutOfStock, WorkerPcs, dbVars
<1>5. CASE MarkReservation(w)
  BY <1>5, DoRelease DEF MarkReservation, WorkerPcs, dbVars
<1>6. CASE Ack(w)
  BY <1>6, DoRelease, FinishRelease DEF Ack, WorkerPcs, dbVars
<1>7. CASE CancelFailed(w)
  <2>1. wrk[w].msg \in Purchases
    BY <1>7 DEF CancelFailed, WrkInv, BusyHasMessage
  <2>2. dbStock' = dbStock /\ ~Doing(w, "idle")
    BY <1>7 DEF CancelFailed, CancelPendingTransaction
  <2>3. \A v \in Workers : Holds(v) => txn'[wrk[v].msg] = txn[wrk[v].msg]
    BY <1>7, <2>1, CancelKeepsHeld DEF CancelFailed
  <2>4. CASE Do(w, "return")
    BY <2>2, <2>3, <2>4, DoRelease DEF WorkerPcs
  <2>5. CASE Do(w, "nack")
    BY <2>2, <2>3, <2>5, DoRelease DEF WorkerPcs
  <2> QED BY <1>7, <2>4, <2>5 DEF CancelFailed
<1>8. CASE ReturnStock(w)
  BY <1>8, DoRelease DEF ReturnStock, WorkerPcs, dbVars
<1>9. CASE Nack(w)
  BY <1>9, FinishRelease DEF Nack
<1> QED BY <1>1, <1>2, <1>3, <1>4, <1>5, <1>6, <1>7, <1>8, <1>9 DEF HandlerStep

LEMMA DeliverLocks ==
    ASSUME WrkInv, LocksIsolate, queue \subseteq Purchases,
           NEW w \in Workers, Deliver(w)
    PROVE  WrkInv' /\ LocksIsolate'
<1>1. PICK p \in queue : wrk' = [wrk EXCEPT ![w].pc = "lock", ![w].msg = p]
  BY DEF Deliver
<1> DEFINE s == [wrk[w] EXCEPT !.pc = "lock", !.msg = p]
<1>2. s \in WorkerStates /\ s.pc = "lock" /\ s.msg \in Purchases
  BY DEF WrkInv, WrkTypeOK, WorkerStates, WorkerPcs
<1>3. wrk' = [wrk EXCEPT ![w] = s]
  BY <1>1
<1>4. UNCHANGED <<txn, dbStock>>
  BY DEF Deliver, dbVars
<1> HIDE DEF s
<1> QED BY <1>2, <1>3, <1>4, WrkUpdate, LocksRelease

LEMMA WorkerFaultLocks ==
    ASSUME WrkInv, DbTypeOK, LocksIsolate, NEW w \in Workers, WorkerFault(w)
    PROVE  WrkInv' /\ LocksIsolate'
<1> USE DEF Doing
<1>1. CASE TransactionFails(w)
  <2>1. ~Doing(w, "idle") /\ RetryOrCancel(w)
    BY <1>1 DEF TransactionFails
  <2>2. CASE UNCHANGED dbVars
    BY <2>1, <2>2, RetryRelease DEF dbVars
  <2>3. CASE Doing(w, "commit") /\ CompleteTransaction(wrk[w].msg)
    BY <2>1, <2>3, CommitKeepsHeld, RetryRelease
  <2> QED BY <1>1, <2>2, <2>3 DEF TransactionFails
<1>2. CASE CancelFails(w)
  <2>1. ~Doing(w, "idle") /\ Do(w, "nack") /\ "nack" \in WorkerPcs
    BY <1>2 DEF CancelFails, WorkerPcs
  <2>2. CASE UNCHANGED dbVars
    BY <2>1, <2>2, DoRelease DEF dbVars
  <2>3. CASE ~RowLocked(wrk[w].msg) /\ CancelPendingTransaction(wrk[w].msg)
    <3>1. wrk[w].msg \in Purchases
      BY <2>1 DEF WrkInv, BusyHasMessage
    <3>2. dbStock' = dbStock
      BY <2>3 DEF CancelPendingTransaction
    <3>3. \A v \in Workers : Holds(v) => txn'[wrk[v].msg] = txn[wrk[v].msg]
      BY <2>3, <3>1, CancelKeepsHeld
    <3> QED BY <2>1, <3>2, <3>3, DoRelease
  <2> QED BY <1>2, <2>2, <2>3 DEF CancelFails
<1>3. CASE MarkerFails(w)
  BY <1>3, DoRelease DEF MarkerFails, WorkerPcs, dbVars
<1>4. CASE ChannelLost(w)
  <2> DEFINE s == [wrk[w] EXCEPT !.live = FALSE]
  <2>1. /\ s \in WorkerStates /\ s.pc = wrk[w].pc
        /\ s.msg = wrk[w].msg /\ s.msg \in Purchases
    BY <1>4 DEF ChannelLost, WrkInv, WrkTypeOK, BusyHasMessage, WorkerStates
  <2>2. wrk' = [wrk EXCEPT ![w] = s] /\ UNCHANGED <<txn, dbStock>>
    BY <1>4 DEF ChannelLost, dbVars
  <2> HIDE DEF s
  <2>3. s.pc \in {"decrement", "commit"} =>
            /\ txn'[s.msg] = "PENDING"
            /\ \A v \in Workers \ {w} : Holds(v) => wrk[v].msg # s.msg
    BY <2>1, <2>2 DEF LocksIsolate, Holds
  <2>4. s.pc = "commit" =>
            dbStock' > 0 /\ \A v \in Workers \ {w} : ~Doing(v, "commit")
    BY <2>1, <2>2 DEF LocksIsolate
  <2>5. /\ \A v \in Workers \ {w} : Holds(v) => txn'[wrk[v].msg] = "PENDING"
        /\ \A v \in Workers \ {w} : Doing(v, "commit") => dbStock' > 0
    BY <2>2 DEF LocksIsolate
  <2> QED BY <2>1, <2>2, <2>3, <2>4, <2>5, WrkUpdate, LocksUpdate
<1>5. CASE WorkerCrash(w)
  BY <1>5, FinishRelease DEF WorkerCrash
<1> QED BY <1>1, <1>2, <1>3, <1>4, <1>5 DEF WorkerFault

(***************************************************************************)
(* The invariant                                                           *)
(***************************************************************************)
FlowTypes ==
    /\ CacheInv
    /\ DbTypeOK
    /\ queue \subseteq Purchases
    /\ dlq \subseteq Purchases
    /\ ReqTypeOK
    /\ WrkInv
    /\ rec \in ReconcilerStates
    /\ faults \in 0 .. MaxFaults

\* The stock stays a natural number and adds up only because a worker that
\* commits still has its pending row and its unit: LocksIsolate.
FlowInv ==
    /\ FlowTypes
    /\ LocksIsolate
    /\ OneActivePerUser
    /\ IsFiniteSet(Sold)
    /\ StockConservation

(***************************************************************************)
(* Steps of the database                                                   *)
(***************************************************************************)
DbStep ==
    \/ UNCHANGED dbVars
    \/ \E p \in Purchases :
         \/ CreatePendingTransaction(p)
         \/ CancelPendingTransaction(p)
         \/ CompleteTransaction(p) /\ txn[p] = "PENDING" /\ dbStock > 0

LEMMA DbStepTyped ==
    ASSUME DbTypeOK, DbStep
    PROVE  DbTypeOK'
<1>1. CASE UNCHANGED dbVars
  BY <1>1 DEF DbTypeOK, dbVars
<1>2. ASSUME NEW p \in Purchases, CreatePendingTransaction(p)
      PROVE  DbTypeOK'
  BY <1>2 DEF CreatePendingTransaction, DbTypeOK, Statuses
<1>3. ASSUME NEW p \in Purchases, CancelPendingTransaction(p)
      PROVE  DbTypeOK'
  BY <1>3 DEF CancelPendingTransaction, DbTypeOK, Statuses
<1>4. ASSUME NEW p \in Purchases, CompleteTransaction(p), dbStock > 0
      PROVE  DbTypeOK'
  BY <1>4 DEF CompleteTransaction, DbTypeOK, Statuses
<1> QED BY <1>1, <1>2, <1>3, <1>4 DEF DbStep

LEMMA DbStepOneActive ==
    ASSUME DbTypeOK, OneActivePerUser, DbStep
    PROVE  OneActivePerUser'
<1> SUFFICES ASSUME NEW p \in Purchases, NEW q \in Purchases, p.user = q.user,
                    txn'[p] \in Active, txn'[q] \in Active
             PROVE  p = q
  BY DEF OneActivePerUser
<1>1. CASE \A o \in Purchases : txn'[o] \in Active => txn[o] \in Active
  BY <1>1 DEF OneActivePerUser
<1>2. CASE UNCHANGED dbVars
  BY <1>1, <1>2 DEF dbVars
<1>3. ASSUME NEW o \in Purchases, CreatePendingTransaction(o)
      PROVE  p = q
  <2>1. \A r \in Purchases : r # o => txn'[r] = txn[r]
    BY <1>3 DEF CreatePendingTransaction, DbTypeOK
  <2>2. \A r \in Purchases : r.user = o.user => txn[r] \notin Active
    BY <1>3 DEF CreatePendingTransaction, UniqueViolation, HasActive, ActiveRows
  <2>3. CASE p = o \/ q = o
    BY <2>1, <2>2, <2>3
  <2>4. CASE p # o /\ q # o
    BY <2>1, <2>4 DEF OneActivePerUser
  <2> QED BY <2>3, <2>4
<1>4. ASSUME NEW o \in Purchases, CancelPendingTransaction(o)
      PROVE  p = q
  <2>1. \A r \in Purchases : txn'[r] \in Active => txn[r] \in Active
    BY <1>4 DEF CancelPendingTransaction, DbTypeOK, Active
  <2> QED BY <1>1, <2>1
<1>5. ASSUME NEW o \in Purchases, CompleteTransaction(o), txn[o] = "PENDING"
      PROVE  p = q
  <2>1. \A r \in Purchases : txn'[r] \in Active => txn[r] \in Active
    BY <1>5 DEF CompleteTransaction, DbTypeOK, Active
  <2> QED BY <1>1, <2>1
<1> QED BY <1>2, <1>3, <1>4, <1>5 DEF DbStep

LEMMA DbStepConserves ==
    ASSUME DbTypeOK, IsFiniteSet(Sold), StockConservation, DbStep
    PROVE  IsFiniteSet(Sold)' /\ StockConservation'
<1> USE DEF StockConservation
<1>1. CASE dbStock' = dbStock /\ Sold' = Sold
  BY <1>1
<1>2. CASE UNCHANGED dbVars
  BY <1>1, <1>2 DEF dbVars, Sold
<1>3. ASSUME NEW p \in Purchases, CreatePendingTransaction(p)
      PROVE  IsFiniteSet(Sold)' /\ StockConservation'
  <2>1. dbStock' = dbStock /\ txn[p] = "NONE" /\ txn' = [txn EXCEPT ![p] = "PENDING"]
    BY <1>3 DEF CreatePendingTransaction, UniqueViolation
  <2>2. Sold' = Sold
    BY <2>1 DEF Sold, DbTypeOK
  <2> QED BY <1>1, <2>1, <2>2
<1>4. ASSUME NEW p \in Purchases, CancelPendingTransaction(p)
      PROVE  IsFiniteSet(Sold)' /\ StockConservation'
  <2>1. dbStock' = dbStock /\ Sold' = Sold
    BY <1>4 DEF CancelPendingTransaction, Sold, DbTypeOK
  <2> QED BY <1>1, <2>1
<1>5. ASSUME NEW p \in Purchases, CompleteTransaction(p), txn[p] = "PENDING"
      PROVE  IsFiniteSet(Sold)' /\ StockConservation'
  <2>1. Sold' = Sold \cup {p} /\ p \notin Sold /\ dbStock' = dbStock - 1
    BY <1>5 DEF CompleteTransaction, Sold, DbTypeOK
  <2>2. /\ IsFiniteSet(Sold \cup {p})
        /\ Cardinality(Sold \cup {p}) = Cardinality(Sold) + 1
    BY <2>1, FS_AddElement
  <2>3. Cardinality(Sold) \in Nat
    BY FS_CardinalityType
  <2> QED BY <2>1, <2>2, <2>3, FlowAssumption DEF DbTypeOK
<1> QED BY <1>2, <1>3, <1>4, <1>5 DEF DbStep

(***************************************************************************)
(* Steps of the cache                                                      *)
(***************************************************************************)
\* A worker is about to write the completed marker of purchase p.
Marking(p) == \E w \in Workers : Doing(w, "mark") /\ wrk[w].msg = p

CacheStep ==
    \/ Clock
    \/ /\ UNCHANGED clockVars
       /\ \/ UNCHANGED cacheVars
          \/ LoseKeys
          \/ \E p \in Purchases :
               \/ Reserve(p)
               \/ Marking(p) /\ MarkCompleted(p)
               \/ Release(p)
          \/ \E r \in Requests :
               \/ At(r, "fillStock") /\ SetStock(req[r].seen)
               \/ At(r, "fillSale") /\ SetSaleWindow(req[r].sale)

LEMMA CacheStepInv ==
    ASSUME CacheInv, ReqTypeOK, CacheStep
    PROVE  CacheInv'
<1>1. \A r \in Requests : /\ req[r].seen \in Nat \cup {NoStock}
                          /\ req[r].sale \in Sales \cup {NoSale}
  BY DEF ReqTypeOK, RequestStates
<1> QED BY <1>1, ClockInv, LoseKeysInv, ReserveInv, MarkCompletedInv, ReleaseInv, SetStockInv,
   SetSaleWindowInv, CacheStutterInv DEF CacheStep

(***************************************************************************)
(* The steps of a request                                                  *)
(***************************************************************************)
LEMMA RequestIsCacheStep ==
    ASSUME ReqTypeOK, NEW r \in Requests, RequestStep(r) \/ RequestFault(r)
    PROVE  CacheStep
<1>1. req[r].in \in Purchases
  BY DEF ReqTypeOK, RequestStates
<1>2. CASE RequestStep(r)
  BY <1>1, <1>2
     DEF RequestStep, ReserveStock, LoadStock, FillStock, LoadSale, FillSale,
         InsertPending, ReleaseRolledBack, Publish, FallbackRead, FallbackInsert,
         CacheStep
<1>3. CASE RequestFault(r)
  BY <1>1, <1>3
     DEF RequestFault, ReserveFails, FillFails, ReleaseFails, StatementFails,
         PublishFails, ApiCrash, CacheStep
<1> QED BY <1>2, <1>3

LEMMA RequestIsDbStep ==
    ASSUME ReqTypeOK, NEW r \in Requests, RequestStep(r) \/ RequestFault(r)
    PROVE  UNCHANGED dbVars \/ \E p \in Purchases : CreatePendingTransaction(p)
<1>1. req[r].in \in Purchases
  BY DEF ReqTypeOK, RequestStates
<1>2. CASE RequestStep(r)
  BY <1>1, <1>2
     DEF RequestStep, ReserveStock, LoadStock, FillStock, LoadSale, FillSale,
         InsertPending, ReleaseRolledBack, Publish, FallbackRead, FallbackInsert
<1>3. CASE RequestFault(r)
  BY <1>1, <1>3
     DEF RequestFault, ReserveFails, FillFails, ReleaseFails, StatementFails,
         PublishFails, ApiCrash
<1> QED BY <1>2, <1>3

LEMMA RequestKeepsTypes ==
    ASSUME FlowTypes, NEW r \in Requests, RequestStep(r) \/ RequestFault(r)
    PROVE  /\ queue' \subseteq Purchases /\ dlq' = dlq
           /\ ReqTypeOK'
           /\ UNCHANGED <<wrk, rec>>
           /\ faults' \in 0 .. MaxFaults
<1> USE DEF FlowTypes
<1>1. req[r].in \in Purchases
  BY DEF ReqTypeOK, RequestStates
<1>2. CASE RequestStep(r)
  <2>1. queue' \subseteq Purchases /\ dlq' = dlq
    BY <1>1, <1>2
       DEF RequestStep, ReserveStock, LoadStock, FillStock, LoadSale, FillSale,
           InsertPending, ReleaseRolledBack, Publish, FallbackRead,
           FallbackInsert, mqVars
  <2>2. ReqTypeOK'
    BY <1>2, RequestStepReqType DEF CacheInv
  <2> QED BY <1>2, <2>1, <2>2 DEF RequestStep
<1>3. CASE RequestFault(r)
  <2>1. ReqTypeOK'
    BY <1>3, RequestFaultReqType
  <2>2. \E kind \in FaultKinds : Fault(kind)
    BY <1>3 DEF RequestFault, ReserveFails, FillFails, ReleaseFails,
                StatementFails, PublishFails, ApiCrash, FaultKinds
  <2>3. faults' \in 0 .. MaxFaults
    BY <2>2, FlowAssumption DEF Fault
  <2> QED BY <1>3, <2>1, <2>3 DEF RequestFault, mqVars
<1> QED BY <1>2, <1>3

(***************************************************************************)
(* The steps of a worker                                                   *)
(***************************************************************************)
LEMMA WorkerIsCacheStep ==
    ASSUME WrkInv, NEW w \in Workers, WorkerStep(w) \/ WorkerFault(w)
    PROVE  CacheStep
<1> USE DEF CacheStep
<1>1. ~Doing(w, "idle") => wrk[w].msg \in Purchases
  BY DEF WrkInv, BusyHasMessage
<1>2. CASE HandlerStep(w)
  BY <1>1, <1>2
     DEF HandlerStep, LockRow, Decrement, Commit, ReleaseOutOfStock,
         MarkReservation, Ack, CancelFailed, ReturnStock, Nack, Doing, Marking
<1>3. CASE Deliver(w) /\ UNCHANGED <<clockVars, req, rec, faults>>
  BY <1>3 DEF Deliver
<1>4. CASE WorkerFault(w)
  BY <1>4 DEF WorkerFault, TransactionFails, CancelFails, MarkerFails, ChannelLost,
              WorkerCrash
<1> QED BY <1>2, <1>3, <1>4 DEF WorkerStep

LEMMA WorkerIsDbStep ==
    ASSUME WrkInv, LocksIsolate, NEW w \in Workers, WorkerStep(w) \/ WorkerFault(w)
    PROVE  DbStep
<1>1. ~Doing(w, "idle") => wrk[w].msg \in Purchases
  BY DEF WrkInv, BusyHasMessage
<1>2. Doing(w, "commit") => txn[wrk[w].msg] = "PENDING" /\ dbStock > 0
  BY DEF LocksIsolate, Holds, Doing
<1>3. CASE HandlerStep(w)
  BY <1>1, <1>2, <1>3
     DEF HandlerStep, LockRow, Decrement, Commit, ReleaseOutOfStock,
         MarkReservation, Ack, CancelFailed, ReturnStock, Nack, Doing, DbStep
<1>4. CASE Deliver(w) /\ UNCHANGED <<clockVars, req, rec, faults>>
  BY <1>4 DEF Deliver, DbStep
<1>5. CASE WorkerFault(w)
  BY <1>1, <1>2, <1>5
     DEF WorkerFault, TransactionFails, CancelFails, MarkerFails, ChannelLost,
         WorkerCrash, Doing, DbStep
<1> QED BY <1>3, <1>4, <1>5 DEF WorkerStep

LEMMA WorkerKeepsTypes ==
    ASSUME FlowTypes, LocksIsolate, NEW w \in Workers, WorkerStep(w) \/ WorkerFault(w)
    PROVE  /\ queue' \subseteq Purchases /\ dlq' \subseteq Purchases
           /\ UNCHANGED <<req, rec>>
           /\ WrkInv' /\ LocksIsolate'
           /\ faults' \in 0 .. MaxFaults
<1> USE DEF FlowTypes
<1>1. ~Doing(w, "idle") => wrk[w].msg \in Purchases
  BY DEF WrkInv, BusyHasMessage
<1>2. CASE HandlerStep(w)
  <2>1. queue' \subseteq Purchases /\ dlq' \subseteq Purchases
    BY <1>1, <1>2
       DEF HandlerStep, LockRow, Decrement, Commit, ReleaseOutOfStock,
           MarkReservation, Ack, CancelFailed, ReturnStock, Nack, Doing, mqVars
  <2>2. WrkInv' /\ LocksIsolate'
    BY <1>2, HandlerLocks
  <2> QED BY <1>2, <2>1, <2>2 DEF HandlerStep
<1>3. CASE Deliver(w) /\ UNCHANGED <<clockVars, req, rec, faults>>
  BY <1>3, DeliverLocks DEF Deliver
<1>4. CASE WorkerFault(w)
  <2>1. queue' \subseteq Purchases /\ dlq' \subseteq Purchases
    BY <1>1, <1>4
       DEF WorkerFault, TransactionFails, CancelFails, MarkerFails, ChannelLost,
           WorkerCrash, mqVars
  <2>2. \E kind \in FaultKinds : Fault(kind)
    BY <1>4 DEF WorkerFault, TransactionFails, CancelFails, MarkerFails,
                ChannelLost, WorkerCrash, FaultKinds
  <2>3. faults' \in 0 .. MaxFaults
    BY <2>2, FlowAssumption DEF Fault
  <2> QED BY <1>4, <2>1, <2>3, WorkerFaultLocks DEF WorkerFault
<1> QED BY <1>2, <1>3, <1>4 DEF WorkerStep

(***************************************************************************)
(* The steps of the reconciler                                             *)
(***************************************************************************)
LEMMA ReconcilerIsCacheStep ==
    ASSUME rec \in ReconcilerStates, ReconcilerStep \/ ReconcilerFault
    PROVE  CacheStep
BY DEF ReconcilerStates, ReconcilerStep, ReconcilerFault, ReconcileCancel,
       ReconcileRelease, CacheStep

\* The row it cancels is held by no worker.
LEMMA ReconcilerIsDbStep ==
    ASSUME rec \in ReconcilerStates, ReconcilerStep \/ ReconcilerFault
    PROVE  \/ UNCHANGED dbVars
           \/ \E p \in Purchases : ~RowLocked(p) /\ CancelPendingTransaction(p)
BY DEF ReconcilerStates, ReconcilerStep, ReconcilerFault, ReconcileCancel,
       ReconcileRelease

LEMMA ReconcilerKeepsTypes ==
    ASSUME FlowTypes, ReconcilerStep \/ ReconcilerFault
    PROVE  /\ UNCHANGED <<mqVars, req, wrk>>
           /\ rec' \in ReconcilerStates
           /\ faults' \in 0 .. MaxFaults
<1>1. rec \in ReconcilerStates /\ faults \in 0 .. MaxFaults
  BY DEF FlowTypes
<1>2. CASE ReconcilerStep
  <2>1. rec' \in ReconcilerStates
    BY <1>1, <1>2 DEF ReconcilerStep, ReconcileCancel, ReconcileRelease,
                      ReconcilerStates
  <2> QED BY <1>1, <1>2, <2>1 DEF ReconcilerStep
<1>3. CASE ReconcilerFault
  <2>1. rec' \in ReconcilerStates
    BY <1>1, <1>3 DEF ReconcilerFault, ReconcilerStates, IdleReconciler
  <2>2. \E kind \in FaultKinds : Fault(kind)
    BY <1>3 DEF ReconcilerFault, FaultKinds
  <2>3. faults' \in 0 .. MaxFaults
    BY <2>2, <1>1, FlowAssumption DEF Fault
  <2> QED BY <1>3, <2>1, <2>3 DEF ReconcilerFault
<1> QED BY <1>2, <1>3

(***************************************************************************)
(* The invariant holds                                                     *)
(***************************************************************************)
LEMMA InitInv == Init => FlowInv
<1> SUFFICES ASSUME Init PROVE FlowInv
  OBVIOUS
<1>1. CacheInv
  BY CacheInitInv, FlowAssumption DEF Init
<1>2. DbTypeOK /\ dbStock = InitialStock /\ \A p \in Purchases : txn[p] = "NONE"
  BY FlowAssumption DEF Init, DbInit, DbTypeOK
<1>3. ReqTypeOK
  BY ArrivedType DEF Init, ReqTypeOK
<1>4. WrkInv /\ LocksIsolate
  <2>1. \A w \in Workers : wrk[w] = IdleWorker /\ wrk[w].pc = "idle"
    BY DEF Init, IdleWorker
  <2>2. WrkInv
    BY <2>1, IdleType DEF Init, WrkInv, WrkTypeOK, BusyHasMessage, Doing
  <2> QED BY <2>1, <2>2 DEF LocksIsolate, Holds, Doing
<1>5. FlowTypes
  BY <1>1, <1>2, <1>3, <1>4, FlowAssumption
     DEF Init, FlowTypes, ReconcilerStates, IdleReconciler
<1>6. Sold = {}
  BY <1>2 DEF Sold
<1>7. IsFiniteSet(Sold) /\ StockConservation
  BY <1>2, <1>6, FS_EmptySet, FlowAssumption DEF StockConservation
<1>8. OneActivePerUser
  BY <1>2 DEF OneActivePerUser, Active
<1> QED BY <1>4, <1>5, <1>7, <1>8 DEF FlowInv

\* What a step does to the database and to the cache, and that it keeps the
\* rest of the types and the locks.
LEMMA NextSplits ==
    ASSUME FlowInv, Next
    PROVE  /\ DbStep
           /\ CacheStep
           /\ queue' \subseteq Purchases /\ dlq' \subseteq Purchases
           /\ ReqTypeOK' /\ WrkInv' /\ rec' \in ReconcilerStates
           /\ faults' \in 0 .. MaxFaults
           /\ LocksIsolate'
<1> DEFINE Goal == /\ DbStep
                   /\ CacheStep
                   /\ queue' \subseteq Purchases /\ dlq' \subseteq Purchases
                   /\ ReqTypeOK' /\ WrkInv' /\ rec' \in ReconcilerStates
                   /\ faults' \in 0 .. MaxFaults
                   /\ LocksIsolate'
<1>1. /\ FlowTypes /\ LocksIsolate
      /\ DbTypeOK /\ WrkInv /\ ReqTypeOK /\ rec \in ReconcilerStates
      /\ queue \subseteq Purchases /\ dlq \subseteq Purchases
      /\ faults \in 0 .. MaxFaults
  BY DEF FlowInv, FlowTypes
<1>2. ASSUME UNCHANGED wrk PROVE WrkInv'
  BY <1>1, <1>2 DEF WrkInv, WrkTypeOK, BusyHasMessage, Doing
<1>3. ASSUME UNCHANGED wrk, UNCHANGED dbVars PROVE LocksIsolate'
  BY <1>1, <1>3, LocksStutter DEF dbVars
<1>4. ASSUME UNCHANGED req PROVE ReqTypeOK'
  BY <1>1, <1>4 DEF ReqTypeOK
<1>5. ASSUME NEW r \in Requests, RequestStep(r) \/ RequestFault(r)
      PROVE  Goal
  <2>1. CacheStep
    BY <1>1, <1>5, RequestIsCacheStep
  <2>2. UNCHANGED dbVars \/ \E p \in Purchases : CreatePendingTransaction(p)
    BY <1>1, <1>5, RequestIsDbStep
  <2>3. /\ queue' \subseteq Purchases /\ dlq' = dlq
        /\ ReqTypeOK' /\ UNCHANGED <<wrk, rec>> /\ faults' \in 0 .. MaxFaults
    BY <1>1, <1>5, RequestKeepsTypes
  <2>4. LocksIsolate'
    <3>1. ASSUME NEW p \in Purchases, CreatePendingTransaction(p)
          PROVE  LocksIsolate'
      <4>1. dbStock' = dbStock
        BY <3>1 DEF CreatePendingTransaction
      <4>2. \A v \in Workers : Holds(v) => txn'[wrk[v].msg] = txn[wrk[v].msg]
        BY <1>1, <3>1, CreateKeepsHeld
      <4> QED BY <1>1, <2>3, <4>1, <4>2, LocksStutter
    <3> QED BY <1>3, <2>2, <2>3, <3>1
  <2> QED BY <1>1, <1>2, <2>1, <2>2, <2>3, <2>4 DEF DbStep
<1>6. ASSUME NEW w \in Workers, WorkerStep(w) \/ WorkerFault(w)
      PROVE  Goal
  BY <1>1, <1>4, <1>6, WorkerIsCacheStep, WorkerIsDbStep, WorkerKeepsTypes
<1>7. ASSUME ReconcilerStep \/ ReconcilerFault
      PROVE  Goal
  <2>1. CacheStep
    BY <1>1, <1>7, ReconcilerIsCacheStep
  <2>2. \/ UNCHANGED dbVars
        \/ \E p \in Purchases : ~RowLocked(p) /\ CancelPendingTransaction(p)
    BY <1>1, <1>7, ReconcilerIsDbStep
  <2>3. /\ UNCHANGED <<mqVars, req, wrk>>
        /\ rec' \in ReconcilerStates /\ faults' \in 0 .. MaxFaults
    BY <1>1, <1>7, ReconcilerKeepsTypes
  <2>4. LocksIsolate'
    <3>1. ASSUME NEW p \in Purchases, ~RowLocked(p), CancelPendingTransaction(p)
          PROVE  LocksIsolate'
      <4>1. dbStock' = dbStock
        BY <3>1 DEF CancelPendingTransaction
      <4>2. \A v \in Workers : Holds(v) => txn'[wrk[v].msg] = txn[wrk[v].msg]
        BY <1>1, <3>1, CancelKeepsHeld
      <4> QED BY <1>1, <2>3, <4>1, <4>2, LocksStutter
    <3> QED BY <1>3, <2>2, <2>3, <3>1
  <2> QED BY <1>1, <1>2, <1>4, <2>1, <2>2, <2>3, <2>4 DEF DbStep, mqVars
<1>8. ASSUME NEW found \in SUBSET Purchases, ScanStep(found)
      PROVE  Goal
  <2>1. rec' \in ReconcilerStates
    BY <1>1, <1>8 DEF ScanStep, Scan, ReconcilerStates
  <2>2. UNCHANGED <<cacheVars, clockVars, dbVars, mqVars, req, wrk, faults>>
    BY <1>8 DEF ScanStep, Scan
  <2> QED BY <1>1, <1>2, <1>3, <1>4, <2>1, <2>2 DEF DbStep, CacheStep, mqVars
<1>9. ASSUME Environment
      PROVE  Goal
  <2>1. CacheStep
    BY <1>9 DEF Environment, CacheStep
  <2>2. UNCHANGED <<dbVars, mqVars, req, wrk, rec>>
    BY <1>9 DEF Environment, Others
  <2>3. UNCHANGED faults \/ Fault("redisLoss")
    BY <1>9 DEF Environment
  <2>4. faults' \in 0 .. MaxFaults
    BY <1>1, <2>3, FlowAssumption DEF Fault
  <2> QED BY <1>1, <1>2, <1>3, <1>4, <2>1, <2>2, <2>4 DEF DbStep, mqVars
<1>10. ASSUME Quiescent
       PROVE  Goal
  <2>1. UNCHANGED <<cacheVars, clockVars, dbVars, mqVars, req, wrk, rec, faults>>
    BY <1>10 DEF Quiescent, vars
  <2> QED BY <1>1, <1>2, <1>3, <1>4, <2>1 DEF DbStep, CacheStep, mqVars
<1> QED BY <1>5, <1>6, <1>7, <1>8, <1>9, <1>10 DEF Next

LEMMA StepInv ==
    ASSUME FlowInv, Next
    PROVE  FlowInv'
<1>1. /\ DbStep /\ CacheStep
      /\ queue' \subseteq Purchases /\ dlq' \subseteq Purchases
      /\ ReqTypeOK' /\ WrkInv' /\ rec' \in ReconcilerStates
      /\ faults' \in 0 .. MaxFaults
      /\ LocksIsolate'
  BY NextSplits
<1>2. CacheInv' /\ DbTypeOK'
  BY <1>1, CacheStepInv, DbStepTyped DEF FlowInv, FlowTypes
<1>3. OneActivePerUser' /\ IsFiniteSet(Sold)' /\ StockConservation'
  BY <1>1, DbStepOneActive, DbStepConserves DEF FlowInv, FlowTypes
<1> QED BY <1>1, <1>2, <1>3 DEF FlowInv, FlowTypes

LEMMA StutterInv ==
    ASSUME FlowInv, UNCHANGED vars
    PROVE  FlowInv'
<1>1. UNCHANGED <<cacheVars, clockVars, txn, dbStock, queue, dlq, req, wrk, rec, faults>>
  BY DEF vars, dbVars, mqVars
<1>2. CacheInv'
  BY <1>1, CacheStutterInv DEF FlowInv, FlowTypes
<1>3. LocksIsolate'
  BY <1>1, LocksStutter DEF FlowInv
<1>4. WrkInv'
  BY <1>1 DEF FlowInv, FlowTypes, WrkInv, WrkTypeOK, BusyHasMessage, Doing
<1>5. Sold' = Sold
  BY <1>1 DEF Sold
<1>6. OneActivePerUser'
  BY <1>1 DEF FlowInv, OneActivePerUser
<1> QED BY <1>1, <1>2, <1>3, <1>4, <1>5, <1>6
        DEF FlowInv, FlowTypes, DbTypeOK, ReqTypeOK, StockConservation

LEMMA FlowInvariant == Spec => []FlowInv
<1>1. FlowInv /\ [Next]_vars => FlowInv'
  BY StepInv, StutterInv
<1> QED BY <1>1, InitInv, PTL DEF Spec
=============================================================================
