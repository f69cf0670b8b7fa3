--------------------------- MODULE FlashSaleProofs ---------------------------
(***************************************************************************)
(* The theorems about flash sales, for any requests, lookups, times and    *)
(* retention: the types, what may be cached, and, when sales are created   *)
(* one at a time, that they do not overlap and that the purchase flow may  *)
(* rely on SaleWindow.                                                     *)
(***************************************************************************)
EXTENDS FlashSale, FiniteSetTheorems, TLAPS

(***************************************************************************)
(* The invariant                                                           *)
(***************************************************************************)
Started(s) == s \in Inserted /\ rows[s].start <= now

\* A request has its row from the insert on, and what it or a lookup is about
\* to cache has started; a row never changes.
CreatorOK(c) ==
    LET pc == creator[c].pc IN
    /\ pc \in {"check", "insert", "status", "hset", "expire"} => creator[c].in \in Windows
    /\ pc \in {"idle", "check", "insert"} => rows[c] = NoSale
    /\ pc = "status" => c \in Inserted
    /\ pc \in {"hset", "expire"} => Started(c)

FinderOK(f) ==
    /\ finder[f].at <= now
    /\ finder[f].pc \in {"hset", "expire"} => Started(finder[f].found)

\* The expiry of the hash is that of a sale that was inserted.
SaleInv ==
    /\ TypeOK
    /\ \A c \in Creators : CreatorOK(c)
    /\ \A f \in Finders : FinderOK(f)
    /\ cached # NoSale => Started(cached)
    /\ ttl # NoTtl => \E s \in Inserted : ttl = rows[s].end + Retention

\* While one request at a time creates a sale, its check still holds when it
\* inserts.
CreationInv ==
    /\ IsFiniteSet(InProgress)
    /\ \A c, d \in InProgress : c = d
    /\ \A c \in Creators : creator[c].pc = "insert" =>
         \A s \in Inserted : ~Overlap(rows[s], creator[c].in)
    /\ SalesDoNotOverlap

LEMMA WindowType ==
    /\ Instants \subseteq Nat /\ 0 \in Instants /\ NoSale \notin Windows
    /\ \A w \in Windows : /\ w.start \in Instants /\ w.end \in Instants
                          /\ w.start < w.end
BY TimeAssumption DEF Instants, Windows

LEMMA InsertedWindow ==
    ASSUME TypeOK, NEW s \in Inserted
    PROVE  rows[s] \in Windows /\ s \in Creators
BY DEF TypeOK, Inserted

(***************************************************************************)
(* Steps keep the invariant                                                *)
(***************************************************************************)
LEMMA InitInv == Init => SaleInv
<1> SUFFICES ASSUME Init PROVE SaleInv
  OBVIOUS
<1>1. TypeOK
  BY WindowType, TimeAssumption DEF Init, TypeOK, CreatorPcs, FinderPcs
<1> QED BY <1>1 DEF Init, SaleInv, CreatorOK, FinderOK

\* The clock does not go back and no row goes away or changes.
RowsStay == now <= now' /\ \A s \in Inserted : rows'[s] = rows[s]

LEMMA StartedStays ==
    ASSUME TypeOK, now' \in Instants, RowsStay, NEW s \in Creators, Started(s)
    PROVE  Started(s)'
<1>1. rows[s] \in Windows /\ rows[s] # NoSale
  BY InsertedWindow DEF Started, Inserted
<1>2. rows[s].start \in Nat /\ now \in Nat /\ now' \in Nat
  BY <1>1, WindowType DEF TypeOK
<1> QED BY <1>1, <1>2 DEF Started, RowsStay, Inserted

\* A request that is not the actor, a lookup that is not the actor and the
\* hash stay right.
LEMMA OthersOK ==
    ASSUME SaleInv, now' \in Instants, RowsStay
    PROVE  /\ \A c \in Creators : creator'[c] = creator[c] /\ rows'[c] = rows[c]
                                    => CreatorOK(c)'
           /\ \A f \in Finders : finder'[f] = finder[f] => FinderOK(f)'
           /\ UNCHANGED cached => (cached' # NoSale => Started(cached)')
           /\ UNCHANGED ttl => (ttl' # NoTtl => \E s \in Inserted' : ttl' = rows'[s].end + Retention)
<1>1. TypeOK /\ \A s \in Creators : Started(s) => Started(s)'
  BY StartedStays DEF SaleInv
<1>2. ASSUME NEW c \in Creators, creator'[c] = creator[c], rows'[c] = rows[c]
      PROVE  CreatorOK(c)'
  BY <1>1, <1>2 DEF SaleInv, CreatorOK, Inserted
<1>3. ASSUME NEW f \in Finders, finder'[f] = finder[f]
      PROVE  FinderOK(f)'
  <2>1. finder[f].at <= now'
    <3>1. finder[f].at \in Nat /\ now \in Nat /\ now' \in Nat
      BY <1>1, WindowType DEF TypeOK
    <3> QED BY <3>1 DEF SaleInv, FinderOK, RowsStay
  <2>2. finder[f].pc \in {"hset", "expire"} => finder[f].found \in Creators
    BY <1>3 DEF SaleInv, FinderOK, Started, Inserted
  <2> QED BY <1>1, <1>3, <2>1, <2>2 DEF SaleInv, FinderOK
<1>4. UNCHANGED cached => (cached' # NoSale => Started(cached)')
  BY <1>1 DEF SaleInv, TypeOK
<1>5. UNCHANGED ttl => (ttl' # NoTtl => \E s \in Inserted' : ttl' = rows'[s].end + Retention)
  BY DEF SaleInv, RowsStay, Inserted
<1> QED BY <1>2, <1>3, <1>4, <1>5

LEMMA HSetInv ==
    ASSUME SaleInv, UNCHANGED <<now, rows>>, NEW s \in Creators, Started(s), HSet(s)
    PROVE  /\ cached' \in Creators \cup {NoSale} /\ ttl' \in 0 .. MaxTime + Retention \cup {NoTtl}
           /\ cached' # NoSale => Started(cached)'
           /\ ttl' # NoTtl => \E t \in Inserted' : ttl' = rows'[t].end + Retention
BY DEF HSet, SaleInv, TypeOK, Started, Inserted

LEMMA ExpireAtInv ==
    ASSUME SaleInv, UNCHANGED <<now, rows>>, NEW s \in Creators, Started(s), ExpireAt(s)
    PROVE  /\ cached' \in Creators \cup {NoSale} /\ ttl' \in 0 .. MaxTime + Retention \cup {NoTtl}
           /\ cached' # NoSale => Started(cached)'
           /\ ttl' # NoTtl => \E t \in Inserted' : ttl' = rows'[t].end + Retention
<1>1. s \in Inserted /\ rows[s].end \in 0 .. MaxTime /\ Retention \in Nat /\ MaxTime \in Nat
  BY InsertedWindow, WindowType, TimeAssumption DEF Started, SaleInv, Instants
<1>2. CASE UNCHANGED keyVars
  BY <1>2 DEF keyVars, SaleInv, TypeOK, Started, Inserted
<1>3. CASE cached' = NoSale /\ ttl' = NoTtl
  BY <1>3
<1>4. CASE ttl' = rows[s].end + Retention /\ UNCHANGED cached
  BY <1>1, <1>4 DEF SaleInv, TypeOK, Started, Inserted
<1> QED BY <1>2, <1>3, <1>4 DEF ExpireAt

\* Requests and lookups that go on without touching their data.
LEMMA CreatorGotoType ==
    ASSUME TypeOK, NEW c \in Creators, NEW pc \in CreatorPcs, CreatorGoto(c, pc)
    PROVE  /\ creator' \in [Creators -> [pc : CreatorPcs, in : Windows \cup {NoSale}]]
           /\ creator'[c] = [creator[c] EXCEPT !.pc = pc]
           /\ \A d \in Creators \ {c} : creator'[d] = creator[d]
BY DEF TypeOK, CreatorGoto

LEMMA FinderGotoType ==
    ASSUME TypeOK, NEW f \in Finders, NEW pc \in FinderPcs, FinderGoto(f, pc)
    PROVE  /\ finder' \in [Finders -> [pc : FinderPcs, at : Instants,
                                        found : Creators \cup {NoSale}]]
           /\ finder'[f] = [finder[f] EXCEPT !.pc = pc]
           /\ \A g \in Finders \ {f} : finder'[g] = finder[g]
BY DEF TypeOK, FinderGoto

LEMMA StatusStarted ==
    \A w \in Windows : Status(w, now) = "ACTIVE" => ~(w.start > now)
BY DEF Status

\* The insert is the only step of a request that touches the rows.
LEMMA CreatorRows ==
    ASSUME SaleInv, NEW c \in Creators, CreatorStep(c)
    PROVE  RowsStay /\ UNCHANGED <<now, finder>> /\ \A d \in Creators \ {c} : rows'[d] = rows[d]
<1>1. now \in Nat /\ UNCHANGED <<now, finder>>
  BY WindowType DEF SaleInv, TypeOK, CreatorStep
<1>2. CASE InsertSale(c)
  BY <1>1, <1>2 DEF InsertSale, SaleInv, TypeOK, CreatorOK, RowsStay, Inserted
<1>3. CASE UNCHANGED rows
  BY <1>1, <1>3 DEF RowsStay
<1> QED BY <1>1, <1>2, <1>3
        DEF CreatorStep, CreateRequest, CheckOverlap, CacheIfActive, CreatorCaches,
            CreatorStops

LEMMA CreatorStepOK ==
    ASSUME SaleInv, NEW c \in Creators, CreatorStep(c)
    PROVE  /\ creator' \in [Creators -> [pc : CreatorPcs, in : Windows \cup {NoSale}]]
           /\ rows' \in [Creators -> Windows \cup {NoSale}]
           /\ \A d \in Creators \ {c} : creator'[d] = creator[d]
           /\ CreatorOK(c)'
<1> DEFINE Typed == creator' \in [Creators -> [pc : CreatorPcs, in : Windows \cup {NoSale}]]
           Alone == \A d \in Creators \ {c} : creator'[d] = creator[d]
           Goal == Typed /\ rows' \in [Creators -> Windows \cup {NoSale}] /\ Alone /\ CreatorOK(c)'
<1>0. /\ TypeOK /\ CreatorOK(c) /\ UNCHANGED now
      /\ rows \in [Creators -> Windows \cup {NoSale}]
      /\ creator \in [Creators -> [pc : CreatorPcs, in : Windows \cup {NoSale}]]
  BY DEF SaleInv, TypeOK, CreatorStep
<1>1. CASE CreateRequest(c)
  BY <1>0, <1>1 DEF CreateRequest, CreatorOK, CreatorPcs
<1>2. CASE CheckOverlap(c)
  <2>1. PICK pc \in {"done", "insert"} : CreatorGoto(c, pc)
    BY <1>2 DEF CheckOverlap
  <2>2. /\ pc \in CreatorPcs /\ UNCHANGED rows
        /\ creator[c].in \in Windows /\ rows[c] = NoSale
    BY <1>0, <1>2, <2>1 DEF CheckOverlap, CreatorOK, CreatorPcs
  <2>3. Typed /\ Alone /\ creator'[c] = [creator[c] EXCEPT !.pc = pc]
    BY <1>0, <2>1, <2>2, CreatorGotoType
  <2>4. creator'[c].pc = pc /\ creator'[c].in = creator[c].in
    BY <1>0, <2>3
  <2> QED BY <1>0, <2>1, <2>2, <2>3, <2>4 DEF CreatorOK
<1>3. CASE InsertSale(c)
  <2>1. Typed /\ Alone /\ creator'[c] = [creator[c] EXCEPT !.pc = "status"]
    BY <1>0, <1>3, CreatorGotoType DEF InsertSale, CreatorPcs
  <2>2. creator[c].in \in Windows /\ creator'[c].pc = "status" /\ creator'[c].in = creator[c].in
    BY <1>0, <1>3, <2>1 DEF InsertSale, CreatorOK
  <2>3. c \in Inserted' /\ rows' \in [Creators -> Windows \cup {NoSale}]
    BY <1>0, <1>3, <2>2, WindowType DEF InsertSale, Inserted
  <2> QED BY <2>1, <2>2, <2>3 DEF CreatorOK
<1>4. CASE CacheIfActive(c)
  <2>1. PICK pc \in {"hset", "done"} :
          CreatorGoto(c, pc) /\ (pc = "hset" => Status(rows[c], now) = "ACTIVE")
    BY <1>4 DEF CacheIfActive
  <2>2. Typed /\ Alone /\ creator'[c] = [creator[c] EXCEPT !.pc = pc]
    BY <1>0, <2>1, CreatorGotoType DEF CreatorPcs
  <2>3. c \in Inserted /\ creator[c].in \in Windows /\ UNCHANGED rows
    BY <1>0, <1>4 DEF CacheIfActive, CreatorOK
  <2>4. pc = "hset" => Started(c)
    <3>1. rows[c] \in Windows /\ rows[c].start \in Nat /\ now \in Nat
      BY <1>0, <2>3, InsertedWindow, WindowType DEF TypeOK
    <3> QED BY <2>1, <2>3, <3>1, StatusStarted DEF Started
  <2>5. creator'[c].pc = pc /\ creator'[c].in = creator[c].in
    BY <1>0, <2>2
  <2> QED BY <1>0, <2>1, <2>2, <2>3, <2>4, <2>5 DEF CreatorOK, Started, Inserted
<1>5. CASE CreatorCaches(c)
  <2>1. PICK pc \in {"expire", "done"} : CreatorGoto(c, pc)
    BY <1>5 DEF CreatorCaches
  <2>2. Typed /\ Alone /\ creator'[c] = [creator[c] EXCEPT !.pc = pc]
    BY <1>0, <2>1, CreatorGotoType DEF CreatorPcs
  <2>3. Started(c) /\ creator[c].in \in Windows /\ UNCHANGED rows
    BY <1>0, <1>5 DEF CreatorCaches, CreatorOK
  <2>4. creator'[c].pc = pc /\ creator'[c].in = creator[c].in
    BY <1>0, <2>2
  <2> QED BY <1>0, <2>1, <2>2, <2>3, <2>4 DEF CreatorOK, Started, Inserted
<1>6. CASE CreatorStops(c)
  <2>1. Typed /\ Alone /\ creator'[c] = [creator[c] EXCEPT !.pc = "done"]
    BY <1>0, <1>6, CreatorGotoType DEF CreatorStops, CreatorPcs
  <2>2. creator'[c].pc = "done"
    BY <1>0, <2>1
  <2> QED BY <1>0, <1>6, <2>1, <2>2 DEF CreatorStops, CreatorOK
<1> QED BY <1>1, <1>2, <1>3, <1>4, <1>5, <1>6 DEF CreatorStep

\* What a step leaves of the hash is right again.
KeyOK ==
    /\ cached \in Creators \cup {NoSale}
    /\ ttl \in 0 .. MaxTime + Retention \cup {NoTtl}
    /\ cached # NoSale => Started(cached)
    /\ ttl # NoTtl => \E s \in Inserted : ttl = rows[s].end + Retention

LEMMA KeyStays ==
    ASSUME SaleInv, now' \in Instants, RowsStay, UNCHANGED keyVars
    PROVE  KeyOK'
<1>1. cached' = cached /\ ttl' = ttl
  BY DEF keyVars
<1>2. /\ cached' # NoSale => Started(cached)'
      /\ ttl' # NoTtl => \E s \in Inserted' : ttl' = rows'[s].end + Retention
  BY <1>1, OthersOK
<1> QED BY <1>1, <1>2 DEF KeyOK, SaleInv, TypeOK

LEMMA KeyWritten ==
    ASSUME SaleInv, UNCHANGED <<now, rows>>, NEW s \in Creators, Started(s),
           HSet(s) \/ ExpireAt(s)
    PROVE  KeyOK'
BY HSetInv, ExpireAtInv DEF KeyOK

LEMMA CreatorStepInv ==
    ASSUME SaleInv, NEW c \in Creators, CreatorStep(c)
    PROVE  SaleInv'
<1>1. /\ RowsStay /\ UNCHANGED <<now, finder>> /\ now' \in Instants
      /\ \A d \in Creators \ {c} : rows'[d] = rows[d]
  BY CreatorRows DEF SaleInv, TypeOK
<1>2. \A d \in Creators : CreatorOK(d)'
  BY <1>1, CreatorStepOK, OthersOK
<1>3. \A f \in Finders : FinderOK(f)'
  BY <1>1, OthersOK
<1>4. KeyOK'
  <2>1. CASE UNCHANGED keyVars
    BY <1>1, <2>1, KeyStays
  <2>2. CASE CreatorCaches(c)
    BY <1>1, <2>2, KeyWritten DEF CreatorCaches, SaleInv, CreatorOK
  <2> QED BY <2>1, <2>2
          DEF CreatorStep, CreateRequest, CheckOverlap, InsertSale, CacheIfActive,
              CreatorStops
<1>5. TypeOK'
  BY <1>1, <1>4, CreatorStepOK DEF SaleInv, TypeOK, KeyOK
<1> QED BY <1>2, <1>3, <1>4, <1>5 DEF SaleInv, KeyOK

\* A lookup caches only a sale that ran when the lookup began.
LEMMA FinderStepOK ==
    ASSUME SaleInv, NEW f \in Finders, FinderStep(f)
    PROVE  /\ finder' \in [Finders -> [pc : FinderPcs, at : Instants,
                                        found : Creators \cup {NoSale}]]
           /\ \A g \in Finders \ {f} : finder'[g] = finder[g]
           /\ FinderOK(f)'
<1> DEFINE Goal == /\ finder' \in [Finders -> [pc : FinderPcs, at : Instants,
                                                found : Creators \cup {NoSale}]]
                   /\ \A g \in Finders \ {f} : finder'[g] = finder[g]
                   /\ FinderOK(f)'
<1>0. /\ TypeOK /\ FinderOK(f) /\ UNCHANGED <<now, rows>>
      /\ now \in Nat /\ now \in Instants /\ finder[f].at \in Nat
      /\ finder \in [Finders -> [pc : FinderPcs, at : Instants,
                                 found : Creators \cup {NoSale}]]
  BY WindowType DEF SaleInv, TypeOK, FinderStep
<1>1. CASE FindCached(f)
  <2>1. finder'[f].at = now /\ finder'[f].pc \in {"done", "query"}
    BY <1>0, <1>1 DEF FindCached
  <2> QED BY <1>0, <1>1, <2>1 DEF FindCached, FinderOK, FinderPcs
<1>2. CASE FindRow(f)
  <2>1. CASE FinderGoto(f, "done")
    BY <1>0, <2>1, FinderGotoType DEF FinderOK, FinderPcs
  <2>2. ASSUME NEW s \in Inserted, RunsAt(rows[s], finder[f].at),
               finder' = [finder EXCEPT ![f].pc = "hset", ![f].found = s]
        PROVE  Goal
    <3>1. s \in Creators /\ rows[s].start \in Nat /\ Started(s)
      BY <1>0, <2>2, InsertedWindow, WindowType DEF RunsAt, Started, FinderOK
    <3>2. /\ finder'[f].at = finder[f].at /\ finder'[f].found = s
          /\ finder'[f].pc = "hset"
      BY <1>0, <2>2
    <3> QED BY <1>0, <2>2, <3>1, <3>2 DEF FinderOK, Started, Inserted, FinderPcs
  <2> QED BY <1>2, <2>1, <2>2 DEF FindRow
<1>3. CASE FinderCaches(f)
  <2>1. PICK pc \in {"expire", "done"} : FinderGoto(f, pc)
    BY <1>3 DEF FinderCaches
  <2>2. /\ finder'[f] = [finder[f] EXCEPT !.pc = pc]
        /\ finder' \in [Finders -> [pc : FinderPcs, at : Instants,
                                    found : Creators \cup {NoSale}]]
        /\ \A g \in Finders \ {f} : finder'[g] = finder[g]
    BY <1>0, <2>1, FinderGotoType DEF FinderPcs
  <2>3. /\ finder'[f].pc = pc /\ finder'[f].at = finder[f].at
        /\ finder'[f].found = finder[f].found
    BY <1>0, <2>2
  <2> QED BY <1>0, <1>3, <2>2, <2>3 DEF FinderCaches, FinderOK, Started, Inserted
<1>4. CASE FinderStops(f)
  <2>1. FinderGoto(f, "done")
    BY <1>4 DEF FinderStops
  <2>2. /\ finder'[f] = [finder[f] EXCEPT !.pc = "done"]
        /\ finder' \in [Finders -> [pc : FinderPcs, at : Instants,
                                    found : Creators \cup {NoSale}]]
        /\ \A g \in Finders \ {f} : finder'[g] = finder[g]
    BY <1>0, <2>1, FinderGotoType DEF FinderPcs
  <2> QED BY <1>0, <2>2 DEF FinderOK
<1> QED BY <1>1, <1>2, <1>3, <1>4 DEF FinderStep

LEMMA FinderStepInv ==
    ASSUME SaleInv, NEW f \in Finders, FinderStep(f)
    PROVE  SaleInv'
<1>1. UNCHANGED <<now, rows, creator>> /\ now' \in Instants /\ RowsStay
  BY WindowType DEF FinderStep, SaleInv, TypeOK, RowsStay
<1>2. \A c \in Creators : CreatorOK(c)'
  BY <1>1, OthersOK
<1>3. \A g \in Finders : FinderOK(g)'
  BY <1>1, FinderStepOK, OthersOK
<1>4. KeyOK'
  <2>1. CASE UNCHANGED keyVars
    BY <1>1, <2>1, KeyStays
  <2>2. CASE FinderCaches(f)
    <3>1. Started(finder[f].found) /\ finder[f].found \in Creators
      BY <2>2 DEF FinderCaches, SaleInv, FinderOK, Started, Inserted
    <3> QED BY <1>1, <2>2, <3>1, KeyWritten DEF FinderCaches
  <2> QED BY <2>1, <2>2 DEF FinderStep, FindCached, FindRow, FinderStops
<1>5. TypeOK'
  BY <1>1, <1>4, FinderStepOK DEF SaleInv, TypeOK, KeyOK
<1> QED BY <1>2, <1>3, <1>4, <1>5 DEF SaleInv, KeyOK

LEMMA ClockStepInv ==
    ASSUME SaleInv, Tick \/ KeyExpires
    PROVE  SaleInv'
<1>1. /\ UNCHANGED <<rows, creator, finder>> /\ now' \in Instants
      /\ now' \in Nat /\ now <= now'
  BY TimeAssumption, WindowType DEF Tick, KeyExpires, SaleInv, TypeOK, Instants
<1>2. RowsStay
  BY <1>1 DEF RowsStay
<1>3. /\ \A c \in Creators : CreatorOK(c)'
      /\ \A f \in Finders : FinderOK(f)'
  BY <1>1, <1>2, OthersOK
<1>4. KeyOK'
  <2>1. CASE UNCHANGED keyVars
    BY <1>1, <1>2, <2>1, KeyStays
  <2>2. CASE KeyExpires
    BY <2>2 DEF KeyExpires, KeyOK
  <2> QED BY <2>1, <2>2 DEF Tick
<1>5. TypeOK'
  BY <1>1, <1>4 DEF SaleInv, TypeOK, KeyOK
<1> QED BY <1>3, <1>4, <1>5 DEF SaleInv, KeyOK

LEMMA SaleInvariant == Spec => []SaleInv
<1>1. ASSUME SaleInv, [Next]_vars
      PROVE  SaleInv'
  <2>1. CASE Next
    BY <1>1, <2>1, CreatorStepInv, FinderStepInv, ClockStepInv DEF Next
  <2>2. CASE UNCHANGED vars
    BY <1>1, <2>2 DEF vars, keyVars, SaleInv, TypeOK, CreatorOK, FinderOK, Started, Inserted
  <2> QED BY <1>1, <2>1, <2>2
<1> QED BY <1>1, InitInv, PTL DEF Spec

\* The state keeps its types: in particular the expiry of the hash never lies
\* later than Retention after the last instant at which a sale may end
\* (cache.ts:30-32).
THEOREM TypesHold == Spec => []TypeOK
<1>1. SaleInv => TypeOK
  BY DEF SaleInv
<1> QED BY <1>1, SaleInvariant, PTL

\* Neither a new sale nor a lookup ever caches a sale that has not started,
\* however many requests and lookups write the hash at the same time and
\* whichever of them stop halfway (service.ts:128-133).
THEOREM CachedSaleStarted == Spec => []CachedSaleHasStarted
<1>1. SaleInv => CachedSaleHasStarted
  BY DEF SaleInv, CachedSaleHasStarted, Started
<1> QED BY <1>1, SaleInvariant, PTL

(***************************************************************************)
(* One createFlashSale request at a time                                   *)
(***************************************************************************)
LEMMA OverlapSymmetric ==
    \A w, v \in Windows : Overlap(w, v) <=> Overlap(v, w)
<1>1. \A w \in Windows : w.start \in Nat /\ w.end \in Nat
  BY WindowType
<1> QED BY <1>1 DEF Overlap

LEMMA CreationInit == Init => CreationInv
<1> SUFFICES ASSUME Init PROVE CreationInv
  OBVIOUS
<1>1. InProgress = {} /\ Inserted = {}
  BY DEF Init, InProgress, Inserted
<1> QED BY <1>1, FS_EmptySet DEF CreationInv, SalesDoNotOverlap, Init

\* Rows and requests as they are: nothing changes.
LEMMA CreationStays ==
    ASSUME CreationInv, UNCHANGED <<rows, creator>>
    PROVE  CreationInv'
BY DEF CreationInv, SalesDoNotOverlap, InProgress, Inserted

\* The rows do not change and request c alone goes on: it passed its check
\* when it is about to insert.
LEMMA CreationGoesOn ==
    ASSUME CreationInv, NEW c \in Creators, UNCHANGED rows,
           c \in InProgress \/ InProgress = {},
           \A d \in Creators \ {c} : creator'[d] = creator[d],
           creator'[c].pc = "insert" =>
             \A s \in Inserted : ~Overlap(rows[s], creator'[c].in)
    PROVE  CreationInv'
<1>1. InProgress' \subseteq InProgress \cup {c}
  BY DEF InProgress
<1>2. \A d \in InProgress : c = d
  BY DEF CreationInv
<1>3. IsFiniteSet(InProgress \cup {c})
  BY FS_AddElement DEF CreationInv
<1>4. IsFiniteSet(InProgress)' /\ \A d, e \in InProgress' : d = e
  BY <1>1, <1>2, <1>3, FS_Subset
<1>5. \A d \in Creators : creator'[d].pc = "insert" =>
        \A s \in Inserted' : ~Overlap(rows'[s], creator'[d].in)
  BY DEF CreationInv, Inserted
<1> QED BY <1>4, <1>5 DEF CreationInv, SalesDoNotOverlap, Inserted

\* The new row overlaps none: no other request inserted since its check.
LEMMA CreationInserts ==
    ASSUME SaleInv, CreationInv, NEW c \in Creators, InsertSale(c)
    PROVE  CreationInv'
<1>1. /\ c \in InProgress /\ creator[c].in \in Windows /\ rows'[c] = creator[c].in
      /\ c \notin Inserted /\ Inserted' = Inserted \cup {c}
      /\ \A s \in Inserted : rows'[s] = rows[s]
  BY WindowType DEF InsertSale, SaleInv, TypeOK, CreatorOK, InProgress, Inserted
<1>2. /\ creator'[c].pc = "status"
      /\ \A d \in Creators \ {c} : creator'[d] = creator[d]
  BY DEF InsertSale, CreatorGoto, SaleInv, TypeOK
<1>3. InProgress' \subseteq InProgress
  BY <1>1, <1>2 DEF InProgress
<1>4. IsFiniteSet(InProgress)' /\ \A d, e \in InProgress' : d = e
  BY <1>3, FS_Subset DEF CreationInv
<1>5. \A d \in Creators : creator'[d].pc # "insert"
  BY <1>1, <1>2 DEF CreationInv, InProgress
<1>6. SalesDoNotOverlap'
  <2>1. \A s \in Inserted : rows[s] \in Windows /\ ~Overlap(rows[s], creator[c].in)
    BY InsertedWindow DEF SaleInv, CreationInv, InsertSale
  <2>2. \A s \in Inserted : ~Overlap(rows'[s], rows'[c]) /\ ~Overlap(rows'[c], rows'[s])
    BY <1>1, <2>1, OverlapSymmetric
  <2> QED BY <1>1, <2>2 DEF CreationInv, SalesDoNotOverlap
<1> QED BY <1>4, <1>5, <1>6 DEF CreationInv

LEMMA CreationStep ==
    ASSUME MaxConcurrent = 1, SaleInv, CreationInv, NEW c \in Creators, CreatorStep(c)
    PROVE  CreationInv'
<1>0. \A d \in Creators \ {c} : creator'[d] = creator[d]
  BY CreatorStepOK
<1>1. CASE CreateRequest(c)
  <2>1. IsFiniteSet(InProgress) /\ Cardinality(InProgress) < 1
    BY <1>1 DEF CreateRequest, CreationInv
  <2>2. Cardinality(InProgress) = 0
    BY <2>1, FS_CardinalityType
  <2>3. InProgress = {} /\ creator'[c].pc = "check" /\ UNCHANGED rows
    BY <1>1, <2>1, <2>2, FS_EmptySet DEF CreateRequest, SaleInv, TypeOK
  <2> QED BY <1>0, <2>3, CreationGoesOn
<1>2. CASE CheckOverlap(c)
  <2>1. c \in InProgress /\ UNCHANGED rows
    BY <1>2 DEF CheckOverlap, InProgress
  <2>2. creator'[c].pc = "insert" =>
          \A s \in Inserted : ~Overlap(rows[s], creator'[c].in)
    BY <1>2 DEF CheckOverlap, CreatorGoto, SaleInv, TypeOK
  <2> QED BY <1>0, <2>1, <2>2, CreationGoesOn
<1>3. CASE InsertSale(c)
  BY <1>3, CreationInserts
<1>4. CASE CacheIfActive(c) \/ CreatorCaches(c) \/ CreatorStops(c)
  <2>1. c \in InProgress /\ UNCHANGED rows
    BY <1>4 DEF CacheIfActive, CreatorCaches, CreatorStops, InProgress
  <2>2. creator'[c].pc # "insert"
    BY <1>4 DEF CacheIfActive, CreatorCaches, CreatorStops, CreatorGoto, SaleInv, TypeOK
  <2> QED BY <1>0, <2>1, <2>2, CreationGoesOn
<1> QED BY <1>1, <1>2, <1>3, <1>4 DEF CreatorStep

LEMMA CreationInvariant ==
    ASSUME MaxConcurrent = 1
    PROVE  Spec => []CreationInv
<1>1. ASSUME SaleInv, CreationInv, [Next]_vars
      PROVE  CreationInv'
  <2>1. CASE UNCHANGED <<rows, creator>>
    BY <1>1, <2>1, CreationStays
  <2>2. ASSUME NEW c \in Creators, CreatorStep(c)
        PROVE  CreationInv'
    BY <1>1, <2>2, CreationStep
  <2> QED BY <1>1, <2>1, <2>2 DEF Next, FinderStep, Tick, KeyExpires, vars
<1> QED BY <1>1, CreationInit, SaleInvariant, PTL DEF Spec

\* While requests create sales one at a time, two sales of the product never
\* overlap: the check of service.ts:110-115 still holds when the row is
\* inserted, though it runs in no transaction with the insert.
THEOREM SalesNeverOverlap == MaxConcurrent = 1 /\ Spec => []SalesDoNotOverlap
<1> SUFFICES ASSUME MaxConcurrent = 1
             PROVE  Spec => []SalesDoNotOverlap
  OBVIOUS
<1>1. CreationInv => SalesDoNotOverlap
  BY DEF CreationInv
<1> QED BY <1>1, CreationInvariant, PTL

(***************************************************************************)
(* What the purchase flow relies on                                        *)
(***************************************************************************)
OpenSale == IF Running = {} THEN NoSale ELSE CHOOSE s \in Running : TRUE
ClosedSales == {s \in Inserted : rows[s].end <= now}

\* Two sales that run at the same instant overlap, so at most one runs.
LEMMA RunningOverlap ==
    \A w, v \in Windows, t \in Instants :
      RunsAt(w, t) /\ RunsAt(v, t) => Overlap(w, v)
<1>1. /\ \A w \in Windows : w.start \in Nat /\ w.end \in Nat
      /\ \A t \in Instants : t \in Nat
  BY WindowType
<1> QED BY <1>1 DEF RunsAt, Overlap

LEMMA OneOpen ==
    ASSUME NEW R, \A r, q \in R : r = q, NEW s \in R
    PROVE  (IF R = {} THEN NoSale ELSE CHOOSE r \in R : TRUE) = s
OBVIOUS

LEMMA OpenIsRunning ==
    ASSUME SaleInv, SalesDoNotOverlap
    PROVE  /\ \A s, t \in Running : s = t
           /\ \A s \in Running : OpenSale = s
           /\ Running = {} => OpenSale = NoSale
           /\ OpenSale \in Running \cup {NoSale}
           /\ Running \subseteq Inserted /\ ClosedSales \subseteq Inserted
           /\ Inserted \subseteq Creators /\ NoSale \notin Creators
           /\ Running \cap ClosedSales = {}
<1>1. ASSUME NEW s \in Running, NEW t \in Running
      PROVE  s = t
  <2>1. rows[s] \in Windows /\ rows[t] \in Windows /\ now \in Instants
    BY InsertedWindow DEF Running, SaleInv, TypeOK
  <2> QED BY <2>1, RunningOverlap DEF Running, SalesDoNotOverlap
<1>2. \A s \in Running : OpenSale = s
  BY <1>1, OneOpen DEF OpenSale
<1>3. Running = {} => OpenSale = NoSale
  BY DEF OpenSale
<1>4. OpenSale \in Running \cup {NoSale}
  BY <1>2, <1>3
<1>5. ASSUME NEW s \in Running
      PROVE  s \notin ClosedSales
  <2>1. rows[s].end \in Nat /\ now \in Nat
    BY InsertedWindow, WindowType DEF Running, SaleInv, TypeOK
  <2> QED BY <2>1 DEF Running, RunsAt, ClosedSales
<1> QED BY <1>1, <1>2, <1>3, <1>4, <1>5, TimeAssumption DEF Running, ClosedSales, Inserted

\* A sale that has started runs or is over.
LEMMA StartedRunsOrOver ==
    ASSUME SaleInv, NEW s \in Creators, Started(s)
    PROVE  s \in Running \cup ClosedSales
<1>1. rows[s].end \in Nat /\ now \in Nat /\ s \in Inserted
  BY InsertedWindow, WindowType DEF Started, SaleInv, TypeOK
<1> QED BY <1>1 DEF Started, Running, RunsAt, ClosedSales

\* An expiry that has passed is that of a sale that is over.
LEMMA ExpiredIsOver ==
    ASSUME SaleInv, NEW s \in Inserted, rows[s].end + Retention <= now
    PROVE  s \in ClosedSales
<1>1. rows[s].end \in Nat /\ now \in Nat /\ Retention \in Nat
  BY InsertedWindow, WindowType, TimeAssumption DEF SaleInv, TypeOK
<1> QED BY <1>1 DEF ClosedSales

LEMMA ClockStays ==
    ASSUME UNCHANGED <<now, rows>>
    PROVE  UNCHANGED <<OpenSale, ClosedSales>>
BY DEF OpenSale, ClosedSales, Running, Inserted

LEMMA SaleStutter ==
    ASSUME UNCHANGED <<now, rows, cached>>
    PROVE  UNCHANGED Window!saleVars
BY ClockStays DEF Window!saleVars, Window!clockVars, OpenSale, ClosedSales

\* What is written to the hash is a sale that runs or is over; what removes
\* the hash is the expiry of a sale that is over.
LEMMA SaleCached ==
    ASSUME SaleInv, SalesDoNotOverlap, UNCHANGED <<now, rows>>,
           NEW s \in Creators, Started(s), HSet(s)
    PROVE  Window!SaleNext
<1>1. s \in {OpenSale} \cup ClosedSales /\ s # NoSale
  BY StartedRunsOrOver, OpenIsRunning
<1>2. Window!CacheSale(s)
  BY <1>1, ClockStays DEF HSet, Window!CacheSale, Window!clockVars, OpenSale, ClosedSales
<1> QED BY <1>2 DEF Window!SaleNext

LEMMA SaleExpires ==
    ASSUME SaleInv, UNCHANGED <<now, rows>>, cached' = NoSale,
           NEW s \in Inserted, rows[s].end + Retention <= now
    PROVE  Window!SaleNext
<1>1. ClosedSales # {}
  BY ExpiredIsOver
<1>2. Window!WindowExpires
  BY <1>1, ClockStays DEF Window!WindowExpires, Window!clockVars, OpenSale, ClosedSales
<1> QED BY <1>2 DEF Window!SaleNext

LEMMA ExpiryRefines ==
    ASSUME SaleInv, UNCHANGED <<now, rows>>, NEW s \in Creators, Started(s), ExpireAt(s)
    PROVE  [Window!SaleNext]_(Window!saleVars)
<1>1. CASE UNCHANGED cached
  BY <1>1, SaleStutter
<1>2. CASE cached' = NoSale /\ rows[s].end + Retention <= now
  BY <1>2, SaleExpires DEF Started
<1> QED BY <1>1, <1>2 DEF ExpireAt, keyVars

LEMMA KeyExpiryRefines ==
    ASSUME SaleInv, KeyExpires
    PROVE  Window!SaleNext
<1>1. PICK s \in Inserted : ttl = rows[s].end + Retention
  BY DEF KeyExpires, Due, SaleInv
<1> QED BY <1>1, SaleExpires DEF KeyExpires, Due

\* A new row is the sale that runs from now on, one that was missed, or one
\* that is still to come.
LEMMA InsertRefines ==
    ASSUME SaleInv, SalesDoNotOverlap, SaleInv', SalesDoNotOverlap', UNCHANGED now,
           NEW c \in Creators, InsertSale(c)
    PROVE  [Window!SaleNext]_(Window!saleVars)
<1> DEFINE w == creator[c].in
<1>1. /\ w \in Windows /\ rows'[c] = w /\ c \notin Inserted
      /\ Inserted' = Inserted \cup {c} /\ \A s \in Inserted : rows'[s] = rows[s]
      /\ UNCHANGED <<now, cached>>
  BY WindowType DEF InsertSale, SaleInv, TypeOK, CreatorOK, Inserted, keyVars
<1>2. w.start \in Nat /\ w.end \in Nat /\ w.start < w.end /\ now \in Nat /\ now \in Instants
  BY <1>1, WindowType DEF SaleInv, TypeOK
<1>3. /\ Running' = Running \cup {x \in {c} : RunsAt(w, now)}
      /\ ClosedSales' = ClosedSales \cup {x \in {c} : w.end <= now}
  <2> HIDE DEF w
  <2> QED BY <1>1 DEF Running, ClosedSales
<1>4. c # OpenSale /\ c \notin ClosedSales /\ c # NoSale
  BY <1>1, OpenIsRunning
<1> HIDE DEF w
<1>5. CASE w.end <= now
  <2>1. Running' = Running /\ ClosedSales' = ClosedSales \cup {c}
    BY <1>2, <1>3, <1>5 DEF RunsAt
  <2>2. OpenSale' = OpenSale
    BY <2>1 DEF OpenSale
  <2>3. Window!MissedSale(c)
    BY <1>1, <1>4, <2>1, <2>2 DEF Window!MissedSale, OpenSale, ClosedSales
  <2> QED BY <2>3 DEF Window!SaleNext
<1>6. CASE w.start <= now /\ ~(w.end <= now)
  <2>1. RunsAt(w, now) /\ Running' = Running \cup {c} /\ ClosedSales' = ClosedSales
    BY <1>2, <1>3, <1>6 DEF RunsAt
  <2>2. Running = {}
    <3> SUFFICES ASSUME NEW s \in Running
                 PROVE  FALSE
      OBVIOUS
    <3>1. s \in Inserted /\ rows[s] \in Windows /\ RunsAt(rows[s], now)
      BY InsertedWindow DEF Running, SaleInv
    <3>2. Overlap(rows[s], w)
      BY <1>1, <1>2, <2>1, <3>1, RunningOverlap
    <3> QED BY <1>1, <3>1, <3>2 DEF SalesDoNotOverlap
  <2>3. OpenSale = NoSale /\ OpenSale' = c
    BY <2>1, <2>2, OneOpen DEF OpenSale
  <2>4. Window!Turn(c)
    BY <1>1, <1>4, <2>1, <2>3 DEF Window!Turn, OpenSale, ClosedSales
  <2> QED BY <2>4 DEF Window!SaleNext
<1>7. CASE w.start > now
  <2>1. Running' = Running /\ ClosedSales' = ClosedSales
    BY <1>2, <1>3, <1>7 DEF RunsAt
  <2>2. OpenSale' = OpenSale
    BY <2>1 DEF OpenSale
  <2> QED BY <1>1, <2>1, <2>2 DEF Window!saleVars, Window!clockVars, OpenSale, ClosedSales
<1> QED BY <1>2, <1>5, <1>6, <1>7

\* The clock moves by one instant: a sale that is over from now on ran until
\* now, since no sale is shorter than an instant.
LEMMA TickCloses ==
    ASSUME SaleInv, Tick
    PROVE  /\ \A s \in Running' : s \in Inserted /\ s \notin ClosedSales
           /\ ClosedSales' = ClosedSales \cup (Running \ Running')
<1>1. /\ now' = now + 1 /\ now \in Nat /\ Inserted' = Inserted /\ rows' = rows
      /\ \A s \in Inserted : /\ rows[s].start \in Nat /\ rows[s].end \in Nat
                             /\ rows[s].start < rows[s].end
  BY InsertedWindow, WindowType DEF Tick, SaleInv, TypeOK, Inserted
<1>2. ASSUME NEW s \in Inserted
      PROVE  /\ s \in Running' => s \notin ClosedSales
             /\ s \in ClosedSales' <=> s \in ClosedSales \cup (Running \ Running')
  BY <1>1 DEF Running, ClosedSales, RunsAt
<1>3. /\ ClosedSales' \subseteq Inserted /\ ClosedSales \subseteq Inserted
      /\ Running \subseteq Inserted /\ Running' \subseteq Inserted
  BY <1>1 DEF Running, ClosedSales
<1> QED BY <1>2, <1>3

LEMMA TickRefines ==
    ASSUME SaleInv, SalesDoNotOverlap, SaleInv', SalesDoNotOverlap', Tick
    PROVE  [Window!SaleNext]_(Window!saleVars)
<1>1. /\ UNCHANGED cached /\ rows' = rows /\ now' \in Instants
      /\ ClosedSales' = ClosedSales \cup (Running \ Running')
      /\ \A s \in Running' : s \in Inserted /\ s \notin ClosedSales
  BY TickCloses DEF Tick, keyVars, SaleInv, TypeOK
<1>2. \A s, t \in Running' : s = t
  <2> SUFFICES ASSUME NEW s \in Running', NEW t \in Running'
               PROVE  s = t
    OBVIOUS
  <2>1. /\ s \in Inserted /\ t \in Inserted /\ rows[s] \in Windows /\ rows[t] \in Windows
        /\ RunsAt(rows[s], now') /\ RunsAt(rows[t], now')
    BY <1>1, InsertedWindow DEF Running, SaleInv
  <2>2. Overlap(rows[s], rows[t])
    BY <1>1, <2>1, RunningOverlap
  <2> QED BY <2>1, <2>2 DEF SalesDoNotOverlap
<1>3. /\ \A s \in Running' : OpenSale' = s
      /\ Running' = {} => OpenSale' = NoSale
  BY <1>2, OneOpen DEF OpenSale
<1>4. CASE Running' = Running
  <2>1. OpenSale' = OpenSale /\ ClosedSales' = ClosedSales
    BY <1>1, <1>4 DEF OpenSale
  <2> QED BY <1>1, <2>1 DEF Window!saleVars, Window!clockVars, OpenSale, ClosedSales
<1>5. CASE Running' # Running
  <2>1. OpenSale' # OpenSale /\ OpenSale' \notin ClosedSales
        /\ OpenSale' \in Creators \cup {NoSale}
    BY <1>1, <1>2, <1>3, <1>5, OpenIsRunning
  <2>2. Running \cap Running' = {}
    BY <1>2, <1>5, OpenIsRunning
  <2>3. Running = {OpenSale} \ {NoSale}
    BY OpenIsRunning
  <2>4. ClosedSales' = ClosedSales \cup ({OpenSale} \ {NoSale})
    BY <1>1, <2>2, <2>3
  <2>5. PICK s \in Creators \cup {NoSale} : s = OpenSale'
    BY <2>1
  <2>6. Window!Turn(s)
    BY <1>1, <2>1, <2>4, <2>5 DEF Window!Turn, OpenSale, ClosedSales
  <2> QED BY <2>6 DEF Window!SaleNext
<1> QED BY <1>4, <1>5

LEMMA StepRefines ==
    ASSUME SaleInv, SalesDoNotOverlap, SaleInv', SalesDoNotOverlap', [Next]_vars
    PROVE  [Window!SaleNext]_(Window!saleVars)
<1>1. CASE UNCHANGED <<now, rows, cached>>
  BY <1>1, SaleStutter
<1>2. CASE KeyExpires
  BY <1>2, KeyExpiryRefines
<1>3. CASE Tick
  BY <1>3, TickRefines
<1>4. ASSUME NEW c \in Creators, CreatorStep(c)
      PROVE  [Window!SaleNext]_(Window!saleVars)
  <2>1. UNCHANGED now
    BY <1>4 DEF CreatorStep
  <2>2. CASE InsertSale(c)
    BY <2>1, <2>2, InsertRefines
  <2>3. CASE CreatorCaches(c)
    <3>1. Started(c) /\ UNCHANGED rows
      BY <2>3 DEF CreatorCaches, SaleInv, CreatorOK
    <3> QED BY <2>1, <2>3, <3>1, SaleCached, ExpiryRefines DEF CreatorCaches
  <2>4. CASE UNCHANGED <<rows, keyVars>>
    BY <1>1, <2>1, <2>4 DEF keyVars
  <2> QED BY <1>4, <2>2, <2>3, <2>4
          DEF CreatorStep, CreateRequest, CheckOverlap, CacheIfActive, CreatorStops
<1>5. ASSUME NEW f \in Finders, FinderStep(f)
      PROVE  [Window!SaleNext]_(Window!saleVars)
  <2>1. UNCHANGED <<now, rows>>
    BY <1>5 DEF FinderStep
  <2>2. CASE FinderCaches(f)
    <3>1. Started(finder[f].found) /\ finder[f].found \in Creators
      BY <2>2 DEF FinderCaches, SaleInv, FinderOK, Started, Inserted
    <3> QED BY <2>1, <2>2, <3>1, SaleCached, ExpiryRefines DEF FinderCaches
  <2>3. CASE UNCHANGED keyVars
    BY <1>1, <2>1, <2>3 DEF keyVars
  <2> QED BY <1>5, <2>2, <2>3 DEF FinderStep, FindCached, FindRow, FinderStops
<1> QED BY <1>1, <1>2, <1>3, <1>4, <1>5 DEF Next, vars, keyVars

\* What the purchase flow takes for granted is what the services do while
\* sales are created one at a time: the sale that runs now ends before another
\* one runs, an ended sale never runs again, only a sale that has started is
\* cached, and no window expires before a sale has ended (service.ts:105-165,
\* cache.ts:26-45).
THEOREM FlashSaleImplementsSaleWindow == MaxConcurrent = 1 /\ Spec => ImplementsSaleWindow
<1> SUFFICES ASSUME MaxConcurrent = 1
             PROVE  Spec => ImplementsSaleWindow
  OBVIOUS
<1>1. Init => Window!SaleInit
  <2> SUFFICES ASSUME Init PROVE Window!SaleInit
    OBVIOUS
  <2>1. Inserted = {} /\ Running = {} /\ cached = NoSale
    BY DEF Init, Inserted, Running
  <2> QED BY <2>1 DEF Window!SaleInit
<1>2. ASSUME SaleInv, SalesDoNotOverlap, SaleInv', SalesDoNotOverlap', [Next]_vars
      PROVE  [Window!SaleNext]_(Window!saleVars)
  BY <1>2, StepRefines
<1>3. Spec => []SalesDoNotOverlap
  BY SalesNeverOverlap
<1> QED BY <1>1, <1>2, <1>3, SaleInvariant, PTL
        DEF Spec, ImplementsSaleWindow, Window!SaleSpec
=============================================================================
