----------------------------- MODULE RateLimiter -----------------------------
(***************************************************************************)
(* The request counter in front of every route (middleware/rate-limiter.ts *)
(* and its use in app.ts), for one client address: addresses have keys of  *)
(* their own.  INCR and EXPIRE are one script, so one step.  Time passes   *)
(* in ticks; all that matters is how many of them a window lasts.          *)
(***************************************************************************)
EXTENDS Integers, FiniteSets

CONSTANTS
    MaxRequests,   \* requests let through per window
    WindowSeconds  \* length of a window

ASSUME LimiterAssumption ==
    /\ MaxRequests \in Nat \ {0}
    /\ WindowSeconds \in Nat \ {0}

VARIABLES
    hits,   \* rate-limit:{ip}, 0 while the key does not exist
    left,   \* its time to live, 0 while the key does not exist
    recent  \* history: requests let through less than a window ago

limiterVars == <<hits, left, recent>>

Span == 0 .. WindowSeconds - 1

\* A request that was let through ago ticks ago, as the count-th of its window.
\* No two are alike, as a window begins in a later tick than the one before.
Passed(ago, count) == [ago |-> ago, count |-> count]

LimiterInit ==
    /\ hits = 0
    /\ left = 0
    /\ recent = {}

\* INCR, and EXPIRE on the first hit only.  One count above the limit is like
\* any other, so the counter stops there.
\* Mutant of Increase: EXPIRE on every hit.
IncreaseRenews ==
    /\ hits' = IF hits > MaxRequests THEN hits ELSE hits + 1
    /\ left' = WindowSeconds

Increase ==
    /\ hits' = IF hits > MaxRequests THEN hits ELSE hits + 1
    /\ left' = IF hits = 0 THEN WindowSeconds ELSE left

\* Mutant of WithinLimit: the count before this request is compared.
WithinLimitBefore == hits <= MaxRequests

\* The count returned by the script does not exceed the limit.
WithinLimit == hits + 1 <= MaxRequests

Allow ==
    /\ WithinLimit
    /\ Increase
    /\ recent' = recent \cup {Passed(0, hits + 1)}

Refuse ==
    /\ ~WithinLimit
    /\ Increase
    /\ UNCHANGED recent

\* Redis is unavailable: the request is let through, whether or not the
\* script has run.  The history holds those whose count was within the limit.
FailOpen ==
    \/ Allow
    \/ Refuse
    \/ UNCHANGED limiterVars

\* The request goes on to its route.
Admit == Allow \/ FailOpen

\* The key disappears when its time to live is over.
LimiterTick ==
    /\ hits' = IF left <= 1 THEN 0 ELSE hits
    /\ left' = IF left <= 1 THEN 0 ELSE left - 1
    /\ recent' = {Passed(r.ago + 1, r.count) : r \in {q \in recent : q.ago + 1 \in Span}}

-----------------------------------------------------------------------------
\* A fixed window is not a sliding one, but nearly: no span as long as a
\* window lets through two full windows, because the first request of a
\* window lies before any span that reaches into the next
\* (rate-limiter.ts:11-22).
SlidingBound == Cardinality(recent) <= 2 * MaxRequests - 1

\* Whoever is refused was let in not longer than a window ago: requests that
\* are refused do not prolong the refusal (rate-limiter.ts:11-12: "set its TTL
\* only on the first hit in that window, so the count always expires").
RefusalsEndWithTheWindow == hits > MaxRequests => recent # {}
=============================================================================
