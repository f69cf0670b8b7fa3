----------------------------- MODULE FlashSale ------------------------------
(***************************************************************************)
(* Flash sales of the product with their times (flash-sale/service.ts,     *)
(* repository.ts, cache.ts, schema.ts): admins create sales, purchases     *)
(* look the running one up and cache its window, time passes.              *)
(*                                                                         *)
(* Creators are createFlashSale requests, finders calls of                 *)
(* findActiveFlashSaleByProductId; both end in setActiveFlashSale, whose   *)
(* HSET and EXPIREAT are two commands.  A creator's sale is named after it.*)
(***************************************************************************)
EXTENDS Integers, FiniteSets

CONSTANTS
    Creators,       \* createFlashSale requests
    Finders,        \* lookups of the running sale
    MaxTime,        \* bound: the last instant
    Retention,      \* how long a window is kept after its sale (a day)
    MaxConcurrent,  \* createFlashSale requests handled at the same time
    NoSale,         \* no sale, or no window under the key
    NoTtl           \* a key without expiry

Instants == 0 .. MaxTime

ASSUME TimeAssumption ==
    /\ MaxTime \in Nat \ {0}
    /\ Retention \in Nat
    /\ MaxConcurrent \in Nat \ {0}
    /\ NoSale \notin Creators \cup [start : Instants, end : Instants]
    /\ NoTtl \notin Int

VARIABLES
    now,      \* the current instant
    rows,     \* flash_sales: the window of every sale that was inserted
    cached,   \* the sale whose window the hash holds, or NoSale
    ttl,      \* when Redis removes the hash
    creator,  \* the createFlashSale requests
    finder    \* the lookups

keyVars == <<cached, ttl>>
vars == <<now, rows, keyVars, creator, finder>>

\* createFlashSaleSchema: the end lies after the start.
Windows == {w \in [start : Instants, end : Instants] : w.start < w.end}

CreatorPcs == {"idle", "check", "insert", "status", "hset", "expire", "done"}
FinderPcs == {"idle", "query", "hset", "expire", "done"}

\* Types of the state; a window is never kept longer than Retention after the
\* last instant at which a sale may end (cache.ts:30-32).
TypeOK ==
    /\ now \in Instants
    /\ rows \in [Creators -> Windows \cup {NoSale}]
    /\ cached \in Creators \cup {NoSale}
    /\ ttl \in 0 .. MaxTime + Retention \cup {NoTtl}
    /\ creator \in [Creators -> [pc : CreatorPcs, in : Windows \cup {NoSale}]]
    /\ finder \in [Finders -> [pc : FinderPcs, at : Instants,
                               found : Creators \cup {NoSale}]]

Init ==
    /\ now = 0
    /\ rows = [c \in Creators |-> NoSale]
    /\ cached = NoSale
    /\ ttl = NoTtl
    /\ creator = [c \in Creators |-> [pc |-> "idle", in |-> NoSale]]
    /\ finder = [f \in Finders |-> [pc |-> "idle", at |-> 0, found |-> NoSale]]

(***************************************************************************)
(* Windows                                                                 *)
(***************************************************************************)
Inserted == {s \in Creators : rows[s] # NoSale}

\* Mutant of RunsAt: the end belongs to the sale, as in Status.
RunsAtEndToo(w, t) == w.start <= t /\ t <= w.end

\* A purchase is admitted in [start, end): the reservation script, both
\* lookups of the running sale and the check of the cached window agree.
RunsAt(w, t) == w.start <= t /\ t < w.end

\* Mutant of Overlap: a sale inside another one is not found.
OverlapByStart(w, v) == w.start >= v.start /\ w.start < v.end

\* findOverlappingFlashSaleByProductId.
Overlap(w, v) == w.start < v.end /\ w.end > v.start

\* determineFlashSaleStatus, which still calls a sale ACTIVE at its end.
Status(w, t) ==
    IF w.start > t THEN "UPCOMING" ELSE IF w.end < t THEN "ENDED" ELSE "ACTIVE"

(***************************************************************************)
(* setActiveFlashSale                                                      *)
(***************************************************************************)
\* HSET keeps the expiry of a hash that exists.
HSet(s) ==
    /\ cached' = s
    /\ UNCHANGED ttl

\* Mutant of ExpireAt: the retention is counted twice.
ExpireAtTwice(s) ==
    IF cached = NoSale THEN UNCHANGED keyVars
    ELSE ttl' = rows[s].end + 2 * Retention /\ UNCHANGED cached

\* EXPIREAT on a missing key does nothing, and with a time that has passed it
\* removes the key.
ExpireAt(s) ==
    LET end == rows[s].end + Retention IN
    IF cached = NoSale THEN UNCHANGED keyVars
    ELSE IF end <= now THEN cached' = NoSale /\ ttl' = NoTtl
    ELSE ttl' = end /\ UNCHANGED cached

(***************************************************************************)
(* createFlashSale                                                         *)
(***************************************************************************)
InProgress == {c \in Creators : creator[c].pc \notin {"idle", "done"}}

CreatorGoto(c, pc) == creator' = [creator EXCEPT ![c].pc = pc]

\* The schema refuses a sale that is over already.
CreateRequest(c) ==
    /\ creator[c].pc = "idle"
    /\ Cardinality(InProgress) < MaxConcurrent
    /\ \E w \in Windows :
         /\ w.end > now
         /\ creator' = [creator EXCEPT ![c] = [pc |-> "check", in |-> w]]
    /\ UNCHANGED <<rows, keyVars>>

CheckOverlap(c) ==
    /\ creator[c].pc = "check"
    /\ CreatorGoto(c, IF \E s \in Inserted : Overlap(rows[s], creator[c].in)
                      THEN "done" ELSE "insert")
    /\ UNCHANGED <<rows, keyVars>>

InsertSale(c) ==
    /\ creator[c].pc = "insert"
    /\ rows' = [rows EXCEPT ![c] = creator[c].in]
    /\ CreatorGoto(c, "status")
    /\ UNCHANGED keyVars

\* Mutant of CacheIfActive: every new sale is cached.
CacheAlways(c) ==
    /\ creator[c].pc = "status"
    /\ CreatorGoto(c, "hset")
    /\ UNCHANGED <<rows, keyVars>>

CacheIfActive(c) ==
    /\ creator[c].pc = "status"
    /\ CreatorGoto(c, IF Status(rows[c], now) = "ACTIVE" THEN "hset" ELSE "done")
    /\ UNCHANGED <<rows, keyVars>>

CreatorCaches(c) ==
    /\ \/ creator[c].pc = "hset" /\ HSet(c) /\ CreatorGoto(c, "expire")
       \/ creator[c].pc = "expire" /\ ExpireAt(c) /\ CreatorGoto(c, "done")
    /\ UNCHANGED rows

\* An error or a crash at any await ends the request where it stands.
CreatorStops(c) ==
    /\ c \in InProgress
    /\ CreatorGoto(c, "done")
    /\ UNCHANGED <<rows, keyVars>>

(***************************************************************************)
(* findActiveFlashSaleByProductId                                          *)
(***************************************************************************)
FinderGoto(f, pc) == finder' = [finder EXCEPT ![f].pc = pc]

\* now is read once, before the cache; a cached window that runs ends the call.
FindCached(f) ==
    /\ finder[f].pc = "idle"
    /\ finder' = [finder EXCEPT ![f].at = now, ![f].pc =
           IF cached # NoSale /\ RunsAt(rows[cached], now) THEN "done" ELSE "query"]
    /\ UNCHANGED keyVars

\* first() returns any of the rows that match.
FindRow(f) ==
    LET running == {s \in Inserted : RunsAt(rows[s], finder[f].at)} IN
    /\ finder[f].pc = "query"
    /\ \/ running = {} /\ FinderGoto(f, "done")
       \/ \E s \in running :
            finder' = [finder EXCEPT ![f].pc = "hset", ![f].found = s]
    /\ UNCHANGED keyVars

FinderCaches(f) ==
    \/ /\ finder[f].pc = "hset"
       /\ HSet(finder[f].found)
       /\ FinderGoto(f, "expire")
    \/ /\ finder[f].pc = "expire"
       /\ ExpireAt(finder[f].found)
       /\ FinderGoto(f, "done")

FinderStops(f) ==
    /\ finder[f].pc \notin {"idle", "done"}
    /\ FinderGoto(f, "done")
    /\ UNCHANGED keyVars

(***************************************************************************)
(* Time and the specification                                              *)
(***************************************************************************)
Tick ==
    /\ now < MaxTime
    /\ now' = now + 1
    /\ UNCHANGED <<rows, keyVars, creator, finder>>

\* A key whose time has come is gone before any later command sees it.
Due == ttl # NoTtl /\ ttl <= now

KeyExpires ==
    /\ Due
    /\ cached' = NoSale
    /\ ttl' = NoTtl
    /\ UNCHANGED <<now, rows, creator, finder>>

CreatorStep(c) ==
    /\ \/ CreateRequest(c) \/ CheckOverlap(c) \/ InsertSale(c)
       \/ CacheIfActive(c) \/ CreatorCaches(c) \/ CreatorStops(c)
    /\ UNCHANGED <<now, finder>>

FinderStep(f) ==
    /\ FindCached(f) \/ FindRow(f) \/ FinderCaches(f) \/ FinderStops(f)
    /\ UNCHANGED <<now, rows, creator>>

Next ==
    \/ KeyExpires
    \/ /\ ~Due
       /\ \/ \E c \in Creators : CreatorStep(c)
          \/ \E f \in Finders : FinderStep(f)
          \/ Tick

Spec == Init /\ [][Next]_vars

-----------------------------------------------------------------------------
\* Two sales of the product never overlap: createFlashSale refuses the second
\* one (service.ts:110-115).
SalesDoNotOverlap ==
    \A s, t \in Inserted : s # t => ~Overlap(rows[s], rows[t])

\* An upcoming sale is never cached: it would replace the running sale's
\* window and refuse its buyers (service.ts:128-133).
CachedSaleHasStarted == cached # NoSale => rows[cached].start <= now

\* The purchase flow may rely on SaleWindow: a sale is cached only after it
\* started, time only moves from one sale to the next, and the cached window
\* is replaced or expires, but is never that of a sale nobody created.
Running == {s \in Inserted : RunsAt(rows[s], now)}

Window == INSTANCE SaleWindow WITH
    Sales <- Creators,
    openSale <- IF Running = {} THEN NoSale ELSE CHOOSE s \in Running : TRUE,
    closedSales <- {s \in Inserted : rows[s].end <= now},
    saleWindowKey <- cached

ImplementsSaleWindow == Window!SaleSpec
=============================================================================
