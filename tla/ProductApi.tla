----------------------------- MODULE ProductApi ------------------------------
(***************************************************************************)
(* POST and GET /products (product/controller.ts, service.ts,              *)
(* repository.ts) on top of the product cache: admins create the only      *)
(* product, clients read it, both behind the rate limiter, while others    *)
(* call the scripts of the cache.                                          *)
(*                                                                         *)
(* A creator's row is named after it; a product id is generated by the     *)
(* insert, so nobody asks for a product before its row is committed.       *)
(***************************************************************************)
EXTENDS ProductCacheClients, RateLimiter

CONSTANTS
    Creators,  \* POST /products requests
    Readers,   \* GET /products/:productId requests at the same time
    Nobody     \* no creator

ASSUME CreatorAssumption == Nobody \notin Creators

VARIABLES
    rows,         \* products: the creators whose row is committed
    tableLock,    \* who holds SHARE ROW EXCLUSIVE on products
    detailsKey,   \* does product:{id} exist?
    creator,      \* how far every POST is, or how it was answered
    reader        \* how far every GET is, and whether it saw the stock key

productVars == <<rows, tableLock>>
cacheAndClock == <<cacheVars, clockVars>>
apiVars == <<vars, limiterVars, productVars, detailsKey, creator, reader>>

\* Stages of a POST before it is answered, and its answers; 500 stands for
\* the dead process that never answers too.
InTransaction == {"check", "insert", "commit"}
CreatorStages == {"idle", "lock"} \cup InTransaction \cup {"details", "stock"}
CreatorAnswers == {"201", "409", "429", "500"}
ReaderStages == {"idle", "details", "stock", "fill", "fillStock", "setStock"}

IdleReader == [stage |-> "idle", details |-> FALSE, miss |-> FALSE]

\* Types of what this module adds to the cache, the lock's holder included.
ApiTypeOK ==
    /\ rows \subseteq Creators
    /\ tableLock \in {c \in Creators : creator[c] \in InTransaction} \cup {Nobody}
    /\ detailsKey \in BOOLEAN
    /\ creator \in [Creators -> CreatorStages \cup CreatorAnswers]
    /\ reader \in [Readers -> [stage : ReaderStages, details : BOOLEAN,
                               miss : BOOLEAN]]

ApiInit ==
    /\ Init
    /\ stockKey = NoStock
    /\ LimiterInit
    /\ rows = {}
    /\ tableLock = Nobody
    /\ detailsKey = FALSE
    /\ creator = [c \in Creators |-> "idle"]
    /\ reader = [r \in Readers |-> IdleReader]

(***************************************************************************)
(* POST /products                                                          *)
(***************************************************************************)
CreatorGoes(c, stage) == creator' = [creator EXCEPT ![c] = stage]

\* The middleware lets the request through or answers 429.
PostProduct(c) ==
    /\ creator[c] = "idle"
    /\ \/ Admit /\ CreatorGoes(c, "lock")
       \/ Refuse /\ CreatorGoes(c, "429")
    /\ UNCHANGED <<cacheAndClock, productVars, detailsKey>>

\* Mutant of LockTable: a lock that does not conflict with itself.
LockTableShared(c) ==
    /\ creator[c] = "lock"
    /\ tableLock' = c
    /\ CreatorGoes(c, "check")
    /\ UNCHANGED <<cacheAndClock, limiterVars, rows, detailsKey>>

\* LOCK TABLE waits for the transaction that holds it.
LockTable(c) ==
    /\ creator[c] = "lock"
    /\ tableLock = Nobody
    /\ tableLock' = c
    /\ CreatorGoes(c, "check")
    /\ UNCHANGED <<cacheAndClock, limiterVars, rows, detailsKey>>

\* The end of the transaction releases the lock.
Unlock(c) == tableLock' = IF tableLock = c THEN Nobody ELSE tableLock

\* The first row, if there is one, ends in ProductAlreadyExistsError.
CheckProduct(c) ==
    /\ creator[c] = "check"
    /\ IF rows = {}
       THEN CreatorGoes(c, "insert") /\ UNCHANGED tableLock
       ELSE CreatorGoes(c, "409") /\ Unlock(c)
    /\ UNCHANGED <<cacheAndClock, limiterVars, rows, detailsKey>>

InsertProduct(c) ==
    /\ creator[c] = "insert"
    /\ CreatorGoes(c, "commit")
    /\ UNCHANGED <<cacheAndClock, limiterVars, productVars, detailsKey>>

\* Mutant of CommitProduct: the commit is not awaited and may fail unseen.
CommitUnawaited(c) ==
    /\ creator[c] = "commit"
    /\ rows' \in {rows, rows \cup {c}}
    /\ Unlock(c)
    /\ CreatorGoes(c, "details")
    /\ UNCHANGED <<cacheAndClock, limiterVars, detailsKey>>

CommitProduct(c) ==
    /\ creator[c] = "commit"
    /\ rows' = rows \cup {c}
    /\ Unlock(c)
    /\ CreatorGoes(c, "details")
    /\ UNCHANGED <<cacheAndClock, limiterVars, detailsKey>>

\* setProduct: HSET and EXPIRE of the details ...
WriteDetails(c) ==
    /\ creator[c] = "details"
    /\ detailsKey' = TRUE
    /\ CreatorGoes(c, "stock")
    /\ UNCHANGED <<cacheAndClock, limiterVars, productVars>>

\* ... and SET NX of the stock, after which the product is returned.
WriteStock(c) ==
    /\ creator[c] = "stock"
    /\ SetStock(Capacity)
    /\ CreatorGoes(c, "201")
    /\ UNCHANGED <<clockVars, limiterVars, productVars, detailsKey>>

\* A statement fails and the transaction is rolled back; the commit may have
\* succeeded although its reply was lost.  Nothing is retried here.
TransactionFails(c) ==
    /\ creator[c] \in {"lock"} \cup InTransaction
    /\ \/ UNCHANGED rows
       \/ creator[c] = "commit" /\ rows' = rows \cup {c}
    /\ Unlock(c)
    /\ CreatorGoes(c, "500")
    /\ UNCHANGED <<cacheAndClock, limiterVars, detailsKey>>

\* Mutant of PrewarmFails: the error is logged and the product returned.
PrewarmFailsQuietly(c) ==
    /\ creator[c] \in {"details", "stock"}
    /\ detailsKey' \in {detailsKey, TRUE}
    /\ \/ UNCHANGED cacheVars
       \/ creator[c] = "stock" /\ SetStock(Capacity)
    /\ CreatorGoes(c, "201")
    /\ UNCHANGED <<clockVars, limiterVars, productVars>>

\* A command to Redis fails, executed or not: RedisUnavailableError, a 500.
PrewarmFails(c) ==
    /\ creator[c] \in {"details", "stock"}
    /\ detailsKey' \in {detailsKey, TRUE}
    /\ \/ UNCHANGED cacheVars
       \/ creator[c] = "stock" /\ SetStock(Capacity)
    /\ CreatorGoes(c, "500")
    /\ UNCHANGED <<clockVars, limiterVars, productVars>>

CreatorStep(c) ==
    /\ \/ PostProduct(c)
       \/ LockTable(c) \/ CheckProduct(c) \/ InsertProduct(c) \/ CommitProduct(c)
       \/ WriteDetails(c) \/ WriteStock(c)
       \/ TransactionFails(c) \/ PrewarmFails(c)
    /\ UNCHANGED reader

(***************************************************************************)
(* GET /products/:productId: getProductById, a cache-aside read            *)
(***************************************************************************)
ReaderGoes(r, stage) == reader' = [reader EXCEPT ![r].stage = stage]
ReaderEnds(r) == reader' = [reader EXCEPT ![r] = IdleReader]

\* A refused request changes nothing but the counter; it is left out here
\* and part of OtherRequest.
GetProduct(r) ==
    /\ reader[r].stage = "idle"
    /\ rows # {}
    /\ Admit
    /\ ReaderGoes(r, "details")
    /\ UNCHANGED <<cacheAndClock, detailsKey>>

ReadDetails(r) ==
    /\ reader[r].stage = "details"
    /\ reader' = [reader EXCEPT ![r].stage = "stock", ![r].details = detailsKey]
    /\ UNCHANGED <<cacheAndClock, limiterVars, detailsKey>>

\* Both found: the answer needs no database.
ReadStock(r) ==
    /\ reader[r].stage = "stock"
    /\ IF reader[r].details /\ stockKey # NoStock
       THEN ReaderEnds(r)
       ELSE reader' = [reader EXCEPT ![r].stage = "fill",
                                     ![r].miss = (stockKey = NoStock)]
    /\ UNCHANGED <<cacheAndClock, limiterVars, detailsKey>>

\* findById and the HSET of setProduct.
FillDetails(r) ==
    /\ reader[r].stage = "fill"
    /\ detailsKey' = TRUE
    /\ ReaderGoes(r, "fillStock")
    /\ UNCHANGED <<cacheAndClock, limiterVars>>

\* The SET NX of setProduct, with the stock of the row, whatever purchases
\* have made of it ...
FillStockKey(r) ==
    /\ reader[r].stage = "fillStock"
    /\ \E n \in 0 .. Capacity : SetStock(n)
    /\ IF reader[r].miss THEN ReaderGoes(r, "setStock") ELSE ReaderEnds(r)
    /\ UNCHANGED <<clockVars, limiterVars, detailsKey>>

\* ... and once more for the key the read had missed.
FillMissingStock(r) ==
    /\ reader[r].stage = "setStock"
    /\ \E n \in 0 .. Capacity : SetStock(n)
    /\ ReaderEnds(r)
    /\ UNCHANGED <<clockVars, limiterVars, detailsKey>>

ReaderFails(r) ==
    /\ reader[r].stage # "idle"
    /\ ReaderEnds(r)
    /\ UNCHANGED <<cacheAndClock, limiterVars, detailsKey>>

ReaderStep(r) ==
    /\ \/ GetProduct(r) \/ ReadDetails(r) \/ ReadStock(r)
       \/ FillDetails(r) \/ FillStockKey(r) \/ FillMissingStock(r)
       \/ ReaderFails(r)
    /\ UNCHANGED <<productVars, creator>>

(***************************************************************************)
(* The rest of the application                                             *)
(***************************************************************************)
\* A request to another route, or one for a product that is refused, counts too.
OtherRequest ==
    /\ Allow \/ Refuse
    /\ UNCHANGED <<cacheAndClock, productVars, detailsKey, creator, reader>>

\* Purchases, reads and time, as the cache sees them.
CacheClients ==
    /\ rows # {}
    /\ \/ \E p \in Purchases : Call(p)
       \/ \E n \in 0 .. Capacity : Fill(n)
    /\ UNCHANGED <<limiterVars, productVars, detailsKey, creator, reader>>

Time ==
    /\ \/ Clock /\ UNCHANGED <<limiterVars, detailsKey>>
       \/ LimiterTick /\ UNCHANGED <<cacheAndClock, detailsKey>>
       \/ detailsKey' = FALSE /\ UNCHANGED <<cacheAndClock, limiterVars>>
    /\ UNCHANGED <<productVars, creator, reader>>

ApiNext ==
    \/ \E c \in Creators : CreatorStep(c)
    \/ \E r \in Readers : ReaderStep(r)
    \/ OtherRequest
    \/ CacheClients
    \/ Time

ApiSpec == ApiInit /\ [][ApiNext]_apiVars

-----------------------------------------------------------------------------
\* However many requests create the product at the same time, on whatever
\* server, and however they fail, there is one row at most
\* (product/repository.ts:24-28).
AtMostOneProduct == Cardinality(rows) <= 1

\* 201 is the answer of the request whose row exists, 409 is given only when
\* another request's row does, and a refused request has left no row.  Nothing
\* is said of a 500: the row may or may not be there.
CreationAnswersAreTrue ==
    \A c \in Creators :
        /\ creator[c] = "201" => c \in rows
        /\ creator[c] = "409" => rows \ {c} # {}
        /\ creator[c] = "429" => c \notin rows

\* A product whose creation succeeded has its stock key from then on, whatever
\* reads and purchases did meanwhile: the prewarm is not optional
\* (product/service.ts:23-28).
CreatedIsOnSale ==
    \A c \in Creators : creator[c] = "201" => stockKey # NoStock
=============================================================================
