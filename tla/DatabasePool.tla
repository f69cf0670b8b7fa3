---------------------------- MODULE DatabasePool -----------------------------
(***************************************************************************)
(* One purchase worker and its pool of Postgres connections                *)
(* (jobs/purchase-worker.ts, database/index.ts): how many messages are     *)
(* handled at the same time, who waits for a connection, who for the row   *)
(* lock of the product, and what the pool's listeners record.  What the    *)
(* statements do to the rows is the subject of PurchaseFlow.               *)
(*                                                                         *)
(* The pool (tarn) serves its waiters in order.  The clock is left open:   *)
(* the first of them may time out at any moment.  What is counted is how   *)
(* many others were served while a handler waited, which is also the       *)
(* duration the sampler is given.                                          *)
(***************************************************************************)
EXTENDS Integers, FiniteSets, Sequences, SequencesExt, DurationSampler

CONSTANTS
    Messages,     \* purchases in the queue, numbered in its order
    Prefetch,     \* PURCHASE_WORKER_PREFETCH, 0 for no limit
    PoolMax,      \* DB_POOL_MAX
    MaxAttempts,  \* attempts of withRetry
    MaxFaults,    \* bound: failing transactions and connection attempts
    Nobody        \* no message

ASSUME PoolAssumption ==
    /\ Messages \subseteq Nat
    /\ Prefetch \in Nat
    /\ PoolMax \in Nat \ {0}
    /\ MaxAttempts \in Nat \ {0}
    /\ MaxFaults \in Nat
    /\ Nobody \notin Messages

VARIABLES
    stage,        \* where the handler of every message is
    attempt,      \* the attempt of withRetry it is at
    pending,      \* the handlers waiting for a connection, in order
    held,         \* the handlers that hold one
    waited,       \* connections handed out while a handler waits
    productLock,  \* who holds the row lock of the product
    startTimes,   \* acquireStartTimes: the acquires it has entries for
    sampler,      \* acquireDurationSampler
    waits,        \* history: the latest waits, the last one at the end
    faults        \* history: transactions and connections that failed

poolVars == <<pending, held, waited, startTimes, sampler, waits>>
vars == <<stage, attempt, poolVars, productLock, faults>>

InTransaction == {"row", "product", "commit"}
Acquiring == {"acquire", "acquireCancel"}
Settled == {"acked", "nacked"}
Stages == {"ready", "backoff", "mark", "cancel", "release"}
            \cup InTransaction \cup Acquiring \cup Settled

\* The acquire a handler waits for: the pool numbers them one by one.
Acquire(m) == <<m, attempt[m], stage[m]>>

TypeOK ==
    /\ stage \in [Messages -> Stages]
    /\ attempt \in [Messages -> 0 .. MaxAttempts]
    /\ ToSet(pending) = {m \in Messages : stage[m] \in Acquiring}
    /\ held = {m \in Messages : stage[m] \in InTransaction \cup {"cancel"}}
    /\ Cardinality(held) <= PoolMax
    /\ waited \in [Messages -> Nat]
    /\ productLock \in held \cup {Nobody}
    /\ faults \in 0 .. MaxFaults

Init ==
    /\ stage = [m \in Messages |-> "ready"]
    /\ attempt = [m \in Messages |-> 0]
    /\ pending = <<>>
    /\ held = {}
    /\ waited = [m \in Messages |-> 0]
    /\ productLock = Nobody
    /\ startTimes = {}
    /\ sampler = EmptySampler
    /\ waits = <<>>
    /\ faults = 0

(***************************************************************************)
(* The pool and its listeners                                              *)
(***************************************************************************)
\* Handler m, now at attempt n, joins the queue of the pool for its purchase
\* or for its cancellation; acquireRequest notes the time.
Request(m, n, purpose, queue, times) ==
    /\ stage' = [stage EXCEPT ![m] = purpose]
    /\ attempt' = [attempt EXCEPT ![m] = n]
    /\ pending' = Append(queue, m)
    /\ waited' = [waited EXCEPT ![m] = 0]
    /\ startTimes' = times \cup {<<m, n, purpose>>}

\* acquireSuccess: the first waiter gets a connection, its wait is recorded.
Grant ==
    LET m == Head(pending) IN
    /\ pending # <<>>
    /\ Cardinality(held) < PoolMax
    /\ pending' = Tail(pending)
    /\ held' = held \cup {m}
    /\ waited' = [w \in Messages |->
                    IF w \in ToSet(Tail(pending)) THEN waited[w] + 1 ELSE 0]
    /\ sampler' = Record(sampler, waited[m])
    /\ waits' = LET w == Append(waits, waited[m])
                IN IF Len(w) > SampleCapacity THEN Tail(w) ELSE w
    /\ startTimes' = startTimes \ {Acquire(m)}
    /\ stage' = [stage EXCEPT ![m] = IF @ = "acquire" THEN "row" ELSE "cancel"]
    /\ UNCHANGED <<attempt, productLock, faults>>

\* Mutant of Forget: acquireFail without its delete.
ForgetNothing(m) == startTimes

\* acquireFail deletes the entry.
Forget(m) == startTimes \ {Acquire(m)}

IsFirst(m) == pending # <<>> /\ m = Head(pending)

\* Handler m gets no connection and waits no longer.
Unserved(m, s, queue) ==
    /\ stage' = [stage EXCEPT ![m] = s]
    /\ pending' = queue
    /\ startTimes' = Forget(m)
    /\ waited' = [waited EXCEPT ![m] = 0]
    /\ UNCHANGED attempt

\* Without a connection the purchase is cancelled, which needs one as well;
\* when the cancellation gets none either, the message is nacked at once.
GiveUp(m, queue) ==
    IF stage[m] = "acquire"
    THEN Request(m, attempt[m], "acquireCancel", queue, Forget(m))
    ELSE Unserved(m, "nacked", queue)

\* An acquire waits too long: the first waiter's, since all have the same
\* timeout.  The error has no code, so it is not retried.
AcquireTimeout(m) ==
    /\ IsFirst(m)
    /\ GiveUp(m, Tail(pending))
    /\ UNCHANGED <<held, sampler, waits, productLock, faults>>

\* A connection for the first waiter cannot be opened: its acquire fails with
\* an error that the transaction retries if it is a transient one.
ConnectFails(m) ==
    /\ IsFirst(m)
    /\ Cardinality(held) < PoolMax
    /\ faults < MaxFaults
    /\ faults' = faults + 1
    /\ \/ /\ stage[m] = "acquire"
          /\ attempt[m] < MaxAttempts
          /\ Unserved(m, "backoff", Tail(pending))
       \/ GiveUp(m, Tail(pending))
    /\ UNCHANGED <<held, sampler, waits, productLock>>

Pool == Grant \/ \E m \in Messages : AcquireTimeout(m) \/ ConnectFails(m)

(***************************************************************************)
(* The handler of a message                                                *)
(***************************************************************************)
Goes(m, s) == stage' = [stage EXCEPT ![m] = s]

InFlight == {m \in Messages : stage[m] \notin Settled \cup {"ready"}}

\* The first message in the queue that has not been delivered.
NextMessage(m) ==
    /\ stage[m] = "ready"
    /\ \A w \in Messages : stage[w] = "ready" => m <= w

\* Mutant of Deliver: the prefetch is lost.
DeliverUnlimited(m) ==
    /\ NextMessage(m)
    /\ Request(m, 1, "acquire", pending, startTimes)
    /\ UNCHANGED <<held, sampler, waits, productLock, faults>>

\* RabbitMQ delivers while fewer than Prefetch messages are unacknowledged; the
\* handler starts its transaction, which needs a connection.
Deliver(m) ==
    /\ NextMessage(m)
    /\ Prefetch # 0 => Cardinality(InFlight) < Prefetch
    /\ Request(m, 1, "acquire", pending, startTimes)
    /\ UNCHANGED <<held, sampler, waits, productLock, faults>>

\* The row is pending, or completed by an earlier delivery.
LockRow(m) ==
    /\ stage[m] = "row"
    /\ \/ Goes(m, "product")
       \/ Goes(m, "commit")
    /\ UNCHANGED <<attempt, poolVars, productLock, faults>>

\* Mutant of Decrement: the update runs on the pool, not in the transaction.
DecrementOnPool(m) ==
    /\ stage[m] = "product"
    /\ Cardinality(held) < PoolMax
    /\ pending = <<>>
    /\ productLock = Nobody
    /\ productLock' = m
    /\ Goes(m, "commit")
    /\ UNCHANGED <<attempt, poolVars, faults>>

\* The UPDATE of the product waits, with its connection, for the row lock
\* that another transaction holds until it commits.
Decrement(m) ==
    /\ stage[m] = "product"
    /\ productLock = Nobody
    /\ productLock' = m
    /\ Goes(m, "commit")
    /\ UNCHANGED <<attempt, poolVars, faults>>

\* Mutant of EndTransaction: the connection is not given back.
EndTransactionLeaks(m) ==
    /\ productLock' = IF productLock = m THEN Nobody ELSE productLock
    /\ UNCHANGED <<held, sampler, waits>>

\* The transaction is over: its lock and its connection are given back.
EndTransaction(m) ==
    /\ held' = held \ {m}
    /\ productLock' = IF productLock = m THEN Nobody ELSE productLock
    /\ UNCHANGED <<sampler, waits>>

Commit(m) ==
    /\ stage[m] = "commit"
    /\ EndTransaction(m)
    /\ Goes(m, "mark")
    /\ UNCHANGED <<attempt, pending, waited, startTimes, faults>>

\* A transient error is retried after a pause without a connection; after the
\* last attempt, or for any other error, the purchase is cancelled.
TransactionFails(m) ==
    /\ stage[m] \in InTransaction
    /\ faults < MaxFaults
    /\ faults' = faults + 1
    /\ EndTransaction(m)
    /\ \/ /\ attempt[m] < MaxAttempts
          /\ Goes(m, "backoff")
          /\ UNCHANGED <<attempt, pending, waited, startTimes>>
       \/ Request(m, attempt[m], "acquireCancel", pending, startTimes)

Retry(m) ==
    /\ stage[m] = "backoff"
    /\ Request(m, attempt[m] + 1, "acquire", pending, startTimes)
    /\ UNCHANGED <<held, sampler, waits, productLock, faults>>

\* The completed marker, whose failure is only logged, and the ack.
MarkAndAck(m) ==
    /\ stage[m] = "mark"
    /\ Goes(m, "acked")
    /\ UNCHANGED <<attempt, poolVars, productLock, faults>>

\* The cancellation is one statement; the stock is released without a
\* connection, and the message nacked whether either fails or not.
CancelRow(m) ==
    /\ stage[m] = "cancel"
    /\ held' = held \ {m}
    /\ Goes(m, "release")
    /\ UNCHANGED <<attempt, pending, waited, startTimes, sampler, waits,
                   productLock, faults>>

ReleaseAndNack(m) ==
    /\ stage[m] = "release"
    /\ Goes(m, "nacked")
    /\ UNCHANGED <<attempt, poolVars, productLock, faults>>

Handler(m) ==
    \/ LockRow(m) \/ Decrement(m) \/ Commit(m)
    \/ Retry(m) \/ MarkAndAck(m)
    \/ CancelRow(m) \/ ReleaseAndNack(m)

Next ==
    \/ Pool
    \/ \E m \in Messages : Deliver(m) \/ Handler(m) \/ TransactionFails(m)

Spec == Init /\ [][Next]_vars

\* The broker delivers, the pool serves, Postgres answers and grants its row
\* lock to whoever waits for it.
Fairness ==
    /\ WF_vars(Grant)
    /\ \A m \in Messages : WF_vars(Deliver(m)) /\ SF_vars(Handler(m))

FairSpec == Spec /\ Fairness

-----------------------------------------------------------------------------
\* acquireStartTimes has an entry for every acquire that is waiting and for no
\* other, whether acquires succeed, fail or are asked for again: the map does
\* not grow with the age of the worker (database/index.ts:53-65).
StartTimesMatch == startTimes = {Acquire(m) : m \in ToSet(pending)}

\* The sampler holds the latest waits, as many as fit, each where stats() looks
\* for it, also after the buffer has wrapped (duration-sampler.ts:10-19).
SamplerHoldsLatest ==
    /\ sampler.count = Len(waits)
    /\ \A i \in Filled(sampler) :
         sampler.durations[SlotAgo(sampler, i)] = waits[Len(waits) - i]

\* A waiter sees fewer others served than messages may be in flight, with
\* retries and cancellations, timeouts and failed connections included: the
\* prefetch bounds what a handler waits for, as "the actual rate limiter into
\* Postgres" (purchase-worker.ts:16-18).
WaitIsBounded ==
    Prefetch # 0 => \A m \in ToSet(pending) : waited[m] < Prefetch

\* Every message is acked or nacked, although more handlers than connections
\* wait for each other: whoever holds the product row needs nothing that
\* another waiter has.
EveryMessageSettles == \A m \in Messages : <>(stage[m] \in Settled)
=============================================================================
