------------------------- MODULE DatabasePoolProofs --------------------------
(***************************************************************************)
(* The theorems about a purchase worker and its pool of connections, for   *)
(* any number of messages, connections, attempts and faults, any prefetch: *)
(* the types, the two maps the pool's listeners keep, and how many others  *)
(* are served while a handler waits.                                       *)
(***************************************************************************)
EXTENDS DatabasePool, FiniteSetTheorems, SequenceTheorems, TLAPS

(***************************************************************************)
(* Queues without a repetition                                             *)
(***************************************************************************)
Once(s) == \A i, j \in DOMAIN s : s[i] = s[j] => i = j

\* Without its element at i, a queue keeps the order of the others.
LEMMA RemoveAtKeeps ==
    ASSUME NEW S, NEW s \in Seq(S), NEW i \in DOMAIN s
    PROVE  /\ RemoveAt(s, i) \in Seq(S)
           /\ Len(RemoveAt(s, i)) = Len(s) - 1
           /\ \A k \in 1 .. Len(s) - 1 :
                RemoveAt(s, i)[k] = s[IF k < i THEN k ELSE k + 1]
<1> DEFINE a == SubSeq(s, 1, i - 1)
           b == SubSeq(s, i + 1, Len(s))
<1>1. Len(s) \in Nat /\ i \in 1 .. Len(s) /\ \A k \in 1 .. Len(s) : s[k] \in S
  BY LenProperties
<1>2. a \in Seq(S) /\ Len(a) = i - 1 /\ \A k \in 1 .. i - 1 : a[k] = s[k]
  <2>1. a \in Seq(S)
    BY <1>1
  <2>2. Len(a) = i - 1
    BY <1>1
  <2>3. \A k \in 1 .. i - 1 : a[k] = s[k]
    BY <1>1
  <2> QED BY <2>1, <2>2, <2>3
<1>3. b \in Seq(S) /\ Len(b) = Len(s) - i /\ \A k \in 1 .. Len(s) - i : b[k] = s[k + i]
  <2>1. b \in Seq(S)
    BY <1>1
  <2>2. Len(b) = Len(s) - i
    BY <1>1
  <2>3. \A k \in 1 .. Len(s) - i : b[k] = s[k + i]
    BY <1>1
  <2> QED BY <2>1, <2>2, <2>3
<1> HIDE DEF a, b
<1>4. a \o b \in Seq(S) /\ Len(a \o b) = Len(s) - 1
  BY <1>1, <1>2, <1>3
<1>5. ASSUME NEW k \in 1 .. Len(s) - 1
      PROVE  (a \o b)[k] = s[IF k < i THEN k ELSE k + 1]
  <2>1. CASE k < i
    <3>1. k \in 1 .. i - 1 /\ (a \o b)[k] = a[k]
      BY <1>1, <1>2, <1>3, <2>1
    <3> QED BY <1>2, <2>1, <3>1
  <2>2. CASE ~(k < i)
    <3>1. k - (i - 1) \in 1 .. Len(s) - i /\ k - (i - 1) + i = k + 1
      BY <1>1, <2>2
    <3>2. (a \o b)[k] = b[k - (i - 1)]
      <4>1. k \in Len(a) + 1 .. Len(a) + Len(b) /\ Len(a) = i - 1
        BY <1>1, <1>2, <1>3, <2>2
      <4>2. (a \o b)[k] = b[k - Len(a)]
        <5>1. ~(k <= Len(a)) /\ k \in 1 .. Len(a) + Len(b)
          BY <1>1, <1>2, <1>3, <4>1
        <5>2. (a \o b)[k] = IF k <= Len(a) THEN a[k] ELSE b[k - Len(a)]
          BY <1>2, <1>3, <5>1, ConcatProperties
        <5> QED BY <5>1, <5>2
      <4> QED BY <4>1, <4>2
    <3> QED BY <1>3, <2>2, <3>1, <3>2
  <2> QED BY <2>1, <2>2
<1>6. RemoveAt(s, i) = a \o b
  BY DEF RemoveAt, a, b
<1> QED BY <1>4, <1>5, <1>6

LEMMA RemoveAtSet ==
    ASSUME NEW S, NEW s \in Seq(S), Once(s), NEW i \in DOMAIN s
    PROVE  Once(RemoveAt(s, i)) /\ ToSet(RemoveAt(s, i)) = ToSet(s) \ {s[i]}
<1> DEFINE r == RemoveAt(s, i)
           at == [k \in 1 .. Len(s) - 1 |-> IF k < i THEN k ELSE k + 1]
<1>1. /\ Len(s) \in Nat /\ i \in 1 .. Len(s) /\ DOMAIN s = 1 .. Len(s)
      /\ DOMAIN r = 1 .. Len(s) - 1 /\ \A k \in 1 .. Len(s) - 1 : r[k] = s[at[k]]
  BY LenProperties, RemoveAtKeeps
<1> HIDE DEF r
<1>2. \A k, l \in 1 .. Len(s) - 1 : /\ at[k] \in 1 .. Len(s) /\ at[k] # i
                                    /\ at[k] = at[l] => k = l
  BY <1>1
<1>a. ASSUME NEW j \in 1 .. Len(s), j # i
      PROVE  \E n \in 1 .. Len(s) - 1 : at[n] = j
  <2>1. CASE j < i
    <3>1. j \in 1 .. Len(s) - 1 /\ at[j] = j
      BY <1>1, <2>1
    <3> QED BY <3>1
  <2>2. CASE j > i
    <3>1. j - 1 \in 1 .. Len(s) - 1 /\ at[j - 1] = j
      BY <1>1, <2>2
    <3> QED BY <3>1
  <2> QED BY <1>1, <1>a, <2>1, <2>2
<1> HIDE DEF at
<1>3. \A j, k \in 1 .. Len(s) : s[j] = s[k] => j = k
  BY <1>1 DEF Once
<1>4. Once(r)
  <2> SUFFICES ASSUME NEW k \in 1 .. Len(s) - 1, NEW l \in 1 .. Len(s) - 1, r[k] = r[l]
               PROVE  k = l
    BY <1>1 DEF Once
  <2>1. s[at[k]] = s[at[l]] /\ at[k] \in 1 .. Len(s) /\ at[l] \in 1 .. Len(s)
    BY <1>1, <1>2
  <2> QED BY <1>2, <1>3, <2>1
<1>5. ToSet(r) \subseteq ToSet(s) \ {s[i]}
  <2> SUFFICES ASSUME NEW k \in 1 .. Len(s) - 1
               PROVE  r[k] \in ToSet(s) \ {s[i]}
    BY <1>1 DEF ToSet
  <2>1. r[k] = s[at[k]] /\ at[k] \in 1 .. Len(s) /\ at[k] # i
    BY <1>1, <1>2
  <2> QED BY <1>1, <1>3, <2>1 DEF ToSet
<1>6. ToSet(s) \ {s[i]} \subseteq ToSet(r)
  <2> SUFFICES ASSUME NEW j \in 1 .. Len(s), j # i
               PROVE  s[j] \in ToSet(r)
    BY <1>1 DEF ToSet
  <2>1. PICK n \in 1 .. Len(s) - 1 : at[n] = j
    BY <1>a
  <2> QED BY <1>1, <2>1 DEF ToSet
<1> QED BY <1>4, <1>5, <1>6 DEF r

LEMMA TailIsRemoveAt ==
    ASSUME NEW S, NEW s \in Seq(S), s # <<>>
    PROVE  1 \in DOMAIN s /\ Head(s) = s[1] /\ Tail(s) = RemoveAt(s, 1)
<1>1. Len(s) \in Nat \ {0} /\ DOMAIN s = 1 .. Len(s) /\ Head(s) = s[1]
  BY EmptySeq, LenProperties
<1>2. /\ Tail(s) \in Seq(S) /\ Len(Tail(s)) = Len(s) - 1
      /\ \A i \in 1 .. Len(s) - 1 : Tail(s)[i] = s[i + 1]
  BY HeadTailProperties
<1>3. /\ RemoveAt(s, 1) \in Seq(S) /\ Len(RemoveAt(s, 1)) = Len(s) - 1
      /\ \A i \in 1 .. Len(s) - 1 : RemoveAt(s, 1)[i] = s[i + 1]
  <2>1. /\ 1 \in DOMAIN s /\ \A i \in 1 .. Len(s) - 1 : ~(i < 1)
    BY <1>1
  <2>2. \A i \in 1 .. Len(s) - 1 : RemoveAt(s, 1)[i] = s[IF i < 1 THEN i ELSE i + 1]
    BY <2>1, RemoveAtKeeps
  <2> QED BY <2>1, <2>2, RemoveAtKeeps
<1>4. Tail(s) = RemoveAt(s, 1)
  BY <1>2, <1>3, SeqEqual
<1> QED BY <1>1, <1>4

LEMMA AppendSet ==
    ASSUME NEW S, NEW s \in Seq(S), Once(s), NEW e \in S, e \notin ToSet(s)
    PROVE  /\ Append(s, e) \in Seq(S) /\ Once(Append(s, e))
           /\ ToSet(Append(s, e)) = ToSet(s) \cup {e}
<1>1. Len(s) \in Nat /\ DOMAIN s = 1 .. Len(s)
  BY LenProperties
<1>2. Append(s, e) \in Seq(S) /\ DOMAIN Append(s, e) = 1 .. Len(s) + 1
  BY <1>1
<1>3. ASSUME NEW i \in 1 .. Len(s) + 1
      PROVE  Append(s, e)[i] = IF i = Len(s) + 1 THEN e ELSE s[i]
  BY <1>1
<1>4. \A i \in 1 .. Len(s) + 1 : i # Len(s) + 1 <=> i \in 1 .. Len(s)
  BY <1>1
<1>5. \A i \in 1 .. Len(s) : s[i] # e /\ i \in 1 .. Len(s) + 1
  BY <1>1 DEF ToSet
<1>6. Len(s) + 1 \in 1 .. Len(s) + 1
  BY <1>1
<1>7. Once(Append(s, e))
  BY <1>1, <1>2, <1>3, <1>4, <1>5 DEF Once
<1>8. ToSet(Append(s, e)) = ToSet(s) \cup {e}
  BY <1>1, <1>2, <1>3, <1>4, <1>5, <1>6 DEF ToSet
<1> QED BY <1>2, <1>7, <1>8

\* A queue is no longer than the set its members come from.
LEMMA OnceLength ==
    ASSUME NEW S, NEW s \in Seq(S), Once(s), NEW F, IsFiniteSet(F), ToSet(s) \subseteq F
    PROVE  Len(s) <= Cardinality(F)
<1>1. /\ Len(s) \in Nat /\ DOMAIN s = 1 .. Len(s) /\ s \in [1 .. Len(s) -> F]
      /\ Cardinality(F) \in Nat
  BY LenProperties, FS_CardinalityType DEF ToSet
<1>2. IsFiniteSet(1 .. Len(s)) /\ Cardinality(1 .. Len(s)) = Len(s)
  <2> DEFINE n == Len(s)
  <2>1. n \in Nat
    BY <1>1
  <2> HIDE DEF n
  <2>2. IsFiniteSet(1 .. n) /\ Cardinality(1 .. n) = IF 1 > n THEN 0 ELSE n - 1 + 1
    BY <2>1, FS_Interval
  <2>3. IsFiniteSet(1 .. n) /\ Cardinality(1 .. n) = n
    BY <2>1, <2>2
  <2> QED BY <2>3 DEF n
<1>3. CASE Cardinality(F) < Len(s)
  <2>1. \E i, j \in 1 .. Len(s) : i # j /\ s[i] = s[j]
    BY <1>1, <1>2, <1>3, FS_PigeonHole
  <2> QED BY <1>1, <2>1 DEF Once
<1> QED BY <1>1, <1>3

(***************************************************************************)
(* The invariant                                                           *)
(***************************************************************************)
Waiting == ToSet(pending)

\* A handler waits at most once, and the listeners know what for.
QueueInv ==
    /\ stage \in [Messages -> Stages]
    /\ attempt \in [Messages -> 0 .. MaxAttempts]
    /\ pending \in Seq(Messages) /\ Once(pending)
    /\ Waiting = {m \in Messages : stage[m] \in Acquiring}
    /\ StartTimesMatch

\* The broker keeps to the prefetch.
FlightInv ==
    /\ IsFiniteSet(InFlight)
    /\ Prefetch # 0 => Cardinality(InFlight) <= Prefetch

\* The connections are held by transactions and cancellations, the row lock by
\* a transaction that is about to commit.
HeldInv ==
    /\ held = {m \in Messages : stage[m] \in InTransaction \cup {"cancel"}}
    /\ IsFiniteSet(held) /\ Cardinality(held) <= PoolMax
    /\ productLock # Nobody => productLock \in held /\ stage[productLock] = "commit"

\* A waiter's turn comes after those ahead of it: the others it has seen
\* served and its place in the queue never exceed the prefetch together.
PlaceInv ==
    /\ waited \in [Messages -> Nat]
    /\ Prefetch # 0 => \A i \in DOMAIN pending : waited[pending[i]] + i <= Prefetch

PoolInv ==
    /\ QueueInv
    /\ FlightInv
    /\ HeldInv
    /\ faults \in 0 .. MaxFaults
    /\ \A m \in Messages : stage[m] = "backoff" => attempt[m] < MaxAttempts

(***************************************************************************)
(* Who waits                                                               *)
(***************************************************************************)
Entries(S) == {Acquire(m) : m \in S}

RestOf(m, rest) ==
    rest \in Seq(Messages) /\ Once(rest) /\ ToSet(rest) = Waiting \ {m}

LEMMA WaitingType ==
    ASSUME QueueInv
    PROVE  /\ \A i \in DOMAIN pending : pending[i] \in Waiting
           /\ \A m \in Waiting : m \in Messages /\ stage[m] \in Acquiring
           /\ Len(pending) \in Nat /\ DOMAIN pending = 1 .. Len(pending)
BY LenProperties DEF QueueInv, Waiting, ToSet

LEMMA Without ==
    ASSUME QueueInv, NEW m \in Messages
    PROVE  /\ m \notin Waiting => RestOf(m, pending) /\ startTimes = Entries(Waiting \ {m})
           /\ startTimes \ {Acquire(m)} = Entries(Waiting \ {m})
           /\ \A i \in DOMAIN pending : pending[i] = m => RestOf(m, RemoveAt(pending, i))
<1>1. startTimes = Entries(Waiting)
  BY DEF QueueInv, StartTimesMatch, Entries, Waiting
<1>2. \A w \in Waiting : Acquire(w) = Acquire(m) => w = m
  BY DEF Acquire
<1>3. startTimes \ {Acquire(m)} = Entries(Waiting \ {m})
  BY <1>1, <1>2 DEF Entries
<1>4. m \notin Waiting => RestOf(m, pending) /\ startTimes = Entries(Waiting \ {m})
  BY <1>1 DEF QueueInv, RestOf, Waiting
<1>5. ASSUME NEW i \in DOMAIN pending, pending[i] = m
      PROVE  RestOf(m, RemoveAt(pending, i))
  BY <1>5, RemoveAtKeeps, RemoveAtSet DEF QueueInv, RestOf, Waiting
<1> QED BY <1>3, <1>4, <1>5

\* A handler asks for a connection.
LEMMA Joins ==
    ASSUME QueueInv, NEW m \in Messages, NEW n \in 0 .. MaxAttempts,
           NEW purpose \in Acquiring, NEW rest, RestOf(m, rest),
           Request(m, n, purpose, rest, Entries(Waiting \ {m}))
    PROVE  QueueInv'
<1>1. /\ stage' \in [Messages -> Stages] /\ attempt' \in [Messages -> 0 .. MaxAttempts]
      /\ stage'[m] = purpose /\ attempt'[m] = n
      /\ \A w \in Messages \ {m} : stage'[w] = stage[w] /\ attempt'[w] = attempt[w]
  BY DEF QueueInv, Request, Stages
<1>2. pending' \in Seq(Messages) /\ Once(pending') /\ Waiting' = (Waiting \ {m}) \cup {m}
  BY AppendSet DEF Request, RestOf, Waiting
<1>3. Waiting' = {w \in Messages : stage'[w] \in Acquiring}
  BY <1>1, <1>2 DEF QueueInv
<1>4. \A w \in Waiting \ {m} : Acquire(w)' = Acquire(w)
  BY <1>1, WaitingType DEF Acquire
<1>5. Acquire(m)' = <<m, n, purpose>>
  BY <1>1 DEF Acquire
<1>6. startTimes' = Entries(Waiting \ {m}) \cup {<<m, n, purpose>>}
  BY DEF Request
<1>7. startTimes' = {Acquire(w)' : w \in Waiting'}
  BY <1>2, <1>4, <1>5, <1>6 DEF Entries
<1> QED BY <1>1, <1>2, <1>3, <1>7 DEF QueueInv, StartTimesMatch, Waiting

\* A handler waits no longer, or did not wait.
LEMMA Leaves ==
    ASSUME QueueInv, NEW m \in Messages, NEW s \in Stages \ Acquiring, Goes(m, s),
           RestOf(m, pending'), startTimes' = Entries(Waiting \ {m}), UNCHANGED attempt
    PROVE  QueueInv'
<1>1. /\ stage' \in [Messages -> Stages] /\ attempt' \in [Messages -> 0 .. MaxAttempts]
      /\ stage'[m] = s /\ \A w \in Messages \ {m} : stage'[w] = stage[w]
  BY DEF QueueInv, Goes
<1>2. pending' \in Seq(Messages) /\ Once(pending') /\ Waiting' = Waiting \ {m}
  BY DEF RestOf, Waiting
<1>3. Waiting' = {w \in Messages : stage'[w] \in Acquiring}
  BY <1>1, <1>2 DEF QueueInv
<1>4. \A w \in Waiting \ {m} : Acquire(w)' = Acquire(w)
  BY <1>1, WaitingType DEF Acquire
<1>5. startTimes' = {Acquire(w)' : w \in Waiting'}
  BY <1>2, <1>4 DEF Entries
<1> QED BY <1>1, <1>2, <1>3, <1>5 DEF QueueInv, StartTimesMatch, Waiting

(***************************************************************************)
(* The steps as the queue sees them                                        *)
(***************************************************************************)
Moves(m) ==
    /\ stage[m] \notin Acquiring
    /\ \E s \in Stages \ Acquiring : Goes(m, s)
    /\ UNCHANGED <<attempt, pending, waited, startTimes>>

Asks(m) ==
    /\ stage[m] \notin Acquiring
    /\ \E n \in 0 .. MaxAttempts, purpose \in Acquiring :
         Request(m, n, purpose, pending, startTimes)

\* The acquire of m fails, whatever the reason: m asks for a connection to
\* cancel with, pauses before the next attempt, or ends.
Refused(m) ==
    /\ 1 \in DOMAIN pending /\ pending[1] = m
    /\ \/ Request(m, attempt[m], "acquireCancel", RemoveAt(pending, 1), Forget(m))
       \/ \E s \in {"backoff", "nacked"} : Unserved(m, s, RemoveAt(pending, 1))
    /\ UNCHANGED <<held, productLock>>

LEMMA FailedAcquire ==
    ASSUME QueueInv, NEW m \in Messages, AcquireTimeout(m) \/ ConnectFails(m)
    PROVE  Refused(m)
<1>1. 1 \in DOMAIN pending /\ pending[1] = m /\ Tail(pending) = RemoveAt(pending, 1)
  BY TailIsRemoveAt DEF AcquireTimeout, ConnectFails, IsFirst, QueueInv
<1>2. \/ Unserved(m, "backoff", RemoveAt(pending, 1))
      \/ GiveUp(m, RemoveAt(pending, 1))
  BY <1>1 DEF AcquireTimeout, ConnectFails
<1>3. UNCHANGED <<held, productLock>>
  BY DEF AcquireTimeout, ConnectFails
<1> QED BY <1>1, <1>2, <1>3 DEF GiveUp, Refused

LEMMA StepKinds ==
    ASSUME PoolInv, Next
    PROVE  \/ Grant
           \/ \E m \in Messages : Refused(m) \/ Moves(m) \/ Asks(m)
<1>1. ASSUME NEW m \in Messages, Deliver(m)
      PROVE  Asks(m)
  <2>1. 1 \in 0 .. MaxAttempts
    BY PoolAssumption
  <2> QED BY <1>1, <2>1 DEF Deliver, NextMessage, Asks, Acquiring
<1>2. ASSUME NEW m \in Messages, Retry(m)
      PROVE  Asks(m)
  <2>1. attempt[m] + 1 \in 0 .. MaxAttempts
    BY <1>2, PoolAssumption DEF Retry, PoolInv, QueueInv
  <2> QED BY <1>2, <2>1 DEF Retry, Asks, Acquiring
<1>3. ASSUME NEW m \in Messages, TransactionFails(m)
      PROVE  Asks(m) \/ Moves(m)
  <2>1. attempt[m] \in 0 .. MaxAttempts /\ stage[m] \notin Acquiring
    BY <1>3 DEF TransactionFails, PoolInv, QueueInv, InTransaction, Acquiring
  <2> QED BY <1>3, <2>1
          DEF TransactionFails, Asks, Moves, Acquiring, Stages, EndTransaction
<1>4. ASSUME NEW m \in Messages, Handler(m), ~Retry(m)
      PROVE  Moves(m)
  BY <1>4 DEF Handler, LockRow, Decrement, Commit, MarkAndAck, CancelRow,
              ReleaseAndNack, Moves, Stages, Acquiring, InTransaction, Settled, poolVars
<1>5. ASSUME NEW m \in Messages, AcquireTimeout(m) \/ ConnectFails(m)
      PROVE  Refused(m)
  BY <1>5, FailedAcquire DEF PoolInv
<1> QED BY <1>1, <1>2, <1>3, <1>4, <1>5 DEF Next, Pool

\* The handler whose acquire is answered is the one that waits longest.
LEMMA GrantHead ==
    ASSUME QueueInv, Grant
    PROVE  /\ 1 \in DOMAIN pending /\ Head(pending) = pending[1]
           /\ pending[1] \in Waiting /\ pending[1] \in Messages
           /\ stage[pending[1]] \in Acquiring
           /\ pending' = RemoveAt(pending, 1)
           /\ ToSet(pending') = Waiting \ {pending[1]}
<1>1. 1 \in DOMAIN pending /\ Head(pending) = pending[1] /\ Tail(pending) = RemoveAt(pending, 1)
  BY TailIsRemoveAt DEF Grant, QueueInv
<1>2. pending[1] \in Waiting /\ pending[1] \in Messages /\ stage[pending[1]] \in Acquiring
  BY <1>1, WaitingType
<1>3. RestOf(pending[1], RemoveAt(pending, 1))
  BY <1>1, <1>2, Without
<1> QED BY <1>1, <1>2, <1>3 DEF Grant, RestOf

LEMMA QueueStep ==
    ASSUME PoolInv, Next
    PROVE  QueueInv'
<1>0. QueueInv
  BY DEF PoolInv
<1>1. CASE Grant
  <2> DEFINE m == pending[1]
  <2>1. /\ m \in Messages /\ 1 \in DOMAIN pending /\ m = Head(pending)
        /\ pending' = RemoveAt(pending, 1)
    BY <1>0, <1>1, GrantHead
  <2>2. PICK s \in {"row", "cancel"} : Goes(m, s)
    BY <1>1, <2>1 DEF Grant, Goes
  <2>3. s \in Stages \ Acquiring
    BY DEF Stages, Acquiring, InTransaction, Settled
  <2>4. RestOf(m, pending') /\ startTimes' = Entries(Waiting \ {m})
    BY <1>0, <1>1, <2>1, Without DEF Grant
  <2> HIDE DEF m
  <2> QED BY <1>0, <1>1, <2>1, <2>2, <2>3, <2>4, Leaves DEF Grant
<1>2. ASSUME NEW m \in Messages, Refused(m)
      PROVE  QueueInv'
  <2>1. /\ 1 \in DOMAIN pending /\ pending[1] = m
        /\ \/ Request(m, attempt[m], "acquireCancel", RemoveAt(pending, 1), Forget(m))
           \/ \E s \in {"backoff", "nacked"} : Unserved(m, s, RemoveAt(pending, 1))
    BY <1>2 DEF Refused
  <2>2. /\ RestOf(m, RemoveAt(pending, 1)) /\ Forget(m) = Entries(Waiting \ {m})
        /\ attempt[m] \in 0 .. MaxAttempts /\ "acquireCancel" \in Acquiring
        /\ {"backoff", "nacked"} \subseteq Stages \ Acquiring
    BY <1>0, <2>1, Without DEF Forget, QueueInv, Acquiring, Stages, Settled, InTransaction
  <2>3. CASE Request(m, attempt[m], "acquireCancel", RemoveAt(pending, 1), Forget(m))
    BY <1>0, <2>2, <2>3, Joins
  <2>4. ASSUME NEW s \in {"backoff", "nacked"}, Unserved(m, s, RemoveAt(pending, 1))
        PROVE  QueueInv'
    <3>1. /\ Goes(m, s) /\ pending' = RemoveAt(pending, 1)
          /\ startTimes' = Forget(m) /\ UNCHANGED attempt
      BY <2>4 DEF Unserved, Goes
    <3> QED BY <1>0, <2>2, <3>1, Leaves
  <2> QED BY <2>1, <2>3, <2>4
<1>3. ASSUME NEW m \in Messages, Moves(m) \/ Asks(m)
      PROVE  QueueInv'
  <2>1. RestOf(m, pending) /\ startTimes = Entries(Waiting \ {m})
    BY <1>0, <1>3, Without, WaitingType DEF Moves, Asks
  <2>2. CASE Moves(m)
    BY <1>0, <2>1, <2>2, Leaves DEF Moves
  <2>3. CASE Asks(m)
    BY <1>0, <2>1, <2>3, Joins DEF Asks
  <2> QED BY <1>3, <2>2, <2>3
<1> QED BY <1>1, <1>2, <1>3, StepKinds

(***************************************************************************)
(* Who is in flight and who holds what                                     *)
(***************************************************************************)
LEMMA FlightStays ==
    ASSUME FlightInv, InFlight' \subseteq InFlight
    PROVE  FlightInv'
<1>1. IsFiniteSet(InFlight') /\ Cardinality(InFlight') <= Cardinality(InFlight)
  BY FS_Subset DEF FlightInv
<1>2. Cardinality(InFlight') \in Nat /\ Cardinality(InFlight) \in Nat /\ Prefetch \in Nat
  BY <1>1, FS_CardinalityType, PoolAssumption DEF FlightInv
<1> QED BY <1>1, <1>2 DEF FlightInv

LEMMA FlightStep ==
    ASSUME PoolInv, Next
    PROVE  FlightInv'
<1>0. QueueInv /\ FlightInv /\ stage \in [Messages -> Stages]
  BY DEF PoolInv, QueueInv
<1>1. CASE Grant
  <2>1. /\ stage[Head(pending)] \in Acquiring
        /\ \A w \in Messages : stage'[w] = stage[w] \/ w = Head(pending)
    BY <1>0, <1>1, GrantHead DEF Grant
  <2> QED BY <2>1, <1>0, FlightStays DEF InFlight, Acquiring, Settled
<1>2. ASSUME NEW m \in Messages, AcquireTimeout(m) \/ ConnectFails(m)
      PROVE  FlightInv'
  <2>1. /\ stage[m] \in Acquiring
        /\ \A w \in Messages : stage'[w] = stage[w] \/ w = m
    BY <1>0, <1>2, FailedAcquire, WaitingType DEF Refused, Request, Unserved
  <2> QED BY <2>1, <1>0, FlightStays DEF InFlight, Acquiring, Settled
<1>3. ASSUME NEW m \in Messages, Handler(m) \/ TransactionFails(m)
      PROVE  FlightInv'
  <2>1. /\ stage[m] \notin Settled \cup {"ready"}
        /\ \A w \in Messages : stage'[w] = stage[w] \/ w = m
    BY <1>0, <1>3
    DEF Handler, LockRow, Decrement, Commit, Retry, MarkAndAck, CancelRow,
        ReleaseAndNack, TransactionFails, Request, Goes, InTransaction, Settled
  <2> QED BY <2>1, <1>0, FlightStays DEF InFlight
<1>4. ASSUME NEW m \in Messages, Deliver(m)
      PROVE  FlightInv'
  <2>1. /\ m \notin InFlight
        /\ Prefetch # 0 => Cardinality(InFlight) < Prefetch
        /\ InFlight' = InFlight \cup {m}
    BY <1>0, <1>4 DEF Deliver, NextMessage, Request, InFlight, Settled
  <2>2. /\ IsFiniteSet(InFlight \cup {m}) /\ Cardinality(InFlight) \in Nat
        /\ Cardinality(InFlight \cup {m}) = Cardinality(InFlight) + 1
    BY <1>0, <2>1, FS_AddElement, FS_CardinalityType DEF FlightInv
  <2> QED BY <2>1, <2>2, PoolAssumption DEF FlightInv
<1> QED BY <1>1, <1>2, <1>3, <1>4 DEF Next, Pool

LEMMA HeldShrinks ==
    ASSUME HeldInv, held' \subseteq held
    PROVE  IsFiniteSet(held') /\ Cardinality(held') <= PoolMax
<1>1. IsFiniteSet(held') /\ Cardinality(held') <= Cardinality(held)
  BY FS_Subset DEF HeldInv
<1>2. Cardinality(held') \in Nat /\ Cardinality(held) \in Nat /\ PoolMax \in Nat
  BY <1>1, FS_CardinalityType, PoolAssumption DEF HeldInv
<1> QED BY <1>1, <1>2 DEF HeldInv

\* A step of handler m that neither takes nor gives back a connection.
LEMMA HeldStays ==
    ASSUME QueueInv, HeldInv, NEW m \in Messages,
           \A w \in Messages \ {m} : stage'[w] = stage[w],
           stage[m] \in InTransaction \cup {"cancel"}
             <=> stage'[m] \in InTransaction \cup {"cancel"},
           UNCHANGED <<held, productLock>>, productLock # m
    PROVE  HeldInv'
BY DEF HeldInv

\* A step of handler m that gives its connection back, with its lock.
LEMMA HeldEnds ==
    ASSUME QueueInv, HeldInv, NEW m \in Messages,
           \A w \in Messages \ {m} : stage'[w] = stage[w],
           stage'[m] \notin InTransaction \cup {"cancel"},
           held' = held \ {m},
           productLock' = IF productLock = m THEN Nobody ELSE productLock
    PROVE  HeldInv'
<1>1. IsFiniteSet(held') /\ Cardinality(held') <= PoolMax
  BY HeldShrinks
<1> QED BY <1>1 DEF HeldInv

LEMMA HeldStep ==
    ASSUME PoolInv, Next
    PROVE  HeldInv'
<1>0. /\ QueueInv /\ HeldInv /\ stage \in [Messages -> Stages]
      /\ \A m \in Messages : productLock = m => m # Nobody /\ stage[m] = "commit"
  BY PoolAssumption DEF PoolInv, QueueInv, HeldInv
<1>1. CASE Grant
  <2> DEFINE m == pending[1]
  <2>1. m \in Messages /\ m = Head(pending) /\ stage[m] \in Acquiring
    BY <1>0, <1>1, GrantHead
  <2> HIDE DEF m
  <2>2. /\ stage'[m] \in {"row", "cancel"}
        /\ \A w \in Messages \ {m} : stage'[w] = stage[w]
        /\ held' = held \cup {m} /\ UNCHANGED productLock
        /\ Cardinality(held) < PoolMax
    BY <1>0, <1>1, <2>1 DEF Grant
  <2>3. m \notin held /\ held' = {w \in Messages : stage'[w] \in InTransaction \cup {"cancel"}}
    BY <1>0, <2>1, <2>2 DEF HeldInv, Acquiring, InTransaction
  <2>4. IsFiniteSet(held') /\ Cardinality(held') = Cardinality(held) + 1
    BY <1>0, <2>2, <2>3, FS_AddElement DEF HeldInv
  <2>5. Cardinality(held) \in Nat /\ PoolMax \in Nat
    BY <1>0, FS_CardinalityType, PoolAssumption DEF HeldInv
  <2>6. productLock' # Nobody => productLock' \in held' /\ stage'[productLock'] = "commit"
    BY <1>0, <2>1, <2>2 DEF HeldInv, Acquiring
  <2> QED BY <2>2, <2>3, <2>4, <2>5, <2>6 DEF HeldInv
<1>2. ASSUME NEW m \in Messages, AcquireTimeout(m) \/ ConnectFails(m)
      PROVE  HeldInv'
  <2>1. stage[m] \in Acquiring
    BY <1>0, <1>2, FailedAcquire, WaitingType DEF Refused
  <2>2. /\ stage'[m] \in {"acquireCancel", "backoff", "nacked"}
        /\ \A w \in Messages \ {m} : stage'[w] = stage[w]
        /\ UNCHANGED <<held, productLock>>
    BY <1>0, <1>2, FailedAcquire DEF Refused, Request, Unserved
  <2> QED BY <1>0, <2>1, <2>2, HeldStays DEF Acquiring, InTransaction
<1>3. ASSUME NEW m \in Messages,
             Deliver(m) \/ Retry(m) \/ MarkAndAck(m) \/ ReleaseAndNack(m)
      PROVE  HeldInv'
  <2>1. /\ stage[m] \in {"ready", "backoff", "mark", "release"}
        /\ stage'[m] \in {"acquire", "acked", "nacked"}
        /\ \A w \in Messages \ {m} : stage'[w] = stage[w]
        /\ UNCHANGED <<held, productLock>>
    BY <1>0, <1>3 DEF Deliver, NextMessage, Retry, MarkAndAck, ReleaseAndNack, Request, Goes, poolVars
  <2> QED BY <1>0, <2>1, HeldStays DEF InTransaction
<1>4. ASSUME NEW m \in Messages, LockRow(m)
      PROVE  HeldInv'
  <2>1. /\ stage[m] = "row" /\ stage'[m] \in {"product", "commit"}
        /\ \A w \in Messages \ {m} : stage'[w] = stage[w]
        /\ UNCHANGED <<held, productLock>>
    BY <1>0, <1>4 DEF LockRow, Goes, poolVars
  <2> QED BY <1>0, <2>1, HeldStays DEF InTransaction
<1>5. ASSUME NEW m \in Messages, Decrement(m)
      PROVE  HeldInv'
  <2>1. /\ stage[m] = "product" /\ stage'[m] = "commit" /\ productLock' = m
        /\ \A w \in Messages \ {m} : stage'[w] = stage[w]
        /\ UNCHANGED held
    BY <1>0, <1>5 DEF Decrement, Goes, poolVars
  <2> QED BY <1>0, <2>1 DEF HeldInv, InTransaction
<1>6. ASSUME NEW m \in Messages, Commit(m) \/ TransactionFails(m)
      PROVE  HeldInv'
  <2>1. /\ stage'[m] \in {"mark", "backoff", "acquireCancel"}
        /\ \A w \in Messages \ {m} : stage'[w] = stage[w]
        /\ EndTransaction(m)
    BY <1>0, <1>6 DEF Commit, TransactionFails, Request, Goes
  <2> QED BY <1>0, <2>1, HeldEnds DEF EndTransaction, InTransaction
<1>7. ASSUME NEW m \in Messages, CancelRow(m)
      PROVE  HeldInv'
  <2>1. /\ stage[m] = "cancel" /\ stage'[m] = "release" /\ held' = held \ {m}
        /\ \A w \in Messages \ {m} : stage'[w] = stage[w]
        /\ UNCHANGED productLock
    BY <1>0, <1>7 DEF CancelRow, Goes
  <2> QED BY <1>0, <2>1, HeldEnds DEF InTransaction
<1> QED BY <1>1, <1>2, <1>3, <1>4, <1>5, <1>6, <1>7 DEF Next, Pool, Handler

LEMMA PoolStep ==
    ASSUME PoolInv, Next
    PROVE  PoolInv'
<1>0. /\ attempt \in [Messages -> 0 .. MaxAttempts] /\ stage \in [Messages -> Stages]
      /\ faults \in 0 .. MaxFaults /\ MaxFaults \in Nat
  BY PoolAssumption DEF PoolInv, QueueInv
<1>1. faults' \in 0 .. MaxFaults
  <2>1. UNCHANGED faults \/ (faults < MaxFaults /\ faults' = faults + 1)
    BY DEF Next, Pool, Grant, AcquireTimeout, ConnectFails, Deliver, Handler, LockRow,
           Decrement, Commit, Retry, MarkAndAck, CancelRow, ReleaseAndNack, TransactionFails
  <2> QED BY <1>0, <2>1
<1>2. ASSUME NEW w \in Messages, stage'[w] = "backoff"
      PROVE  attempt'[w] < MaxAttempts
  <2>1. CASE stage[w] = "backoff" /\ attempt'[w] = attempt[w]
    BY <2>1 DEF PoolInv
  <2>2. CASE TransactionFails(w) \/ ConnectFails(w)
    BY <1>0, <1>2, <2>2
    DEF TransactionFails, ConnectFails, GiveUp, Unserved, Request, Goes
  <2>3. CASE stage[w] = "backoff" /\ Retry(w)
    BY <1>0, <1>2, <2>3 DEF Retry, Request
  <2>4. CASE stage'[w] = stage[w] /\ ~(attempt'[w] = attempt[w])
    BY <1>0, <1>2, <2>3, <2>4
    DEF Next, Pool, Grant, AcquireTimeout, ConnectFails, GiveUp, Unserved, Deliver,
        Handler, LockRow, Decrement, Commit, Retry, MarkAndAck, CancelRow, ReleaseAndNack,
        TransactionFails, Request, Goes
  <2>5. CASE ~(stage'[w] = stage[w]) /\ ~TransactionFails(w) /\ ~ConnectFails(w)
    BY <1>0, <1>2, <2>5
    DEF Next, Pool, Grant, AcquireTimeout, ConnectFails, GiveUp, Unserved, Deliver,
        Handler, LockRow, Decrement, Commit, Retry, MarkAndAck, CancelRow, ReleaseAndNack,
        TransactionFails, Request, Goes
  <2> QED BY <1>2, <2>1, <2>2, <2>4, <2>5
<1> QED BY <1>1, <1>2, QueueStep, FlightStep, HeldStep DEF PoolInv

(***************************************************************************)
(* How long a handler waits                                                *)
(***************************************************************************)
\* The places of those that stay in the queue when m leaves it for another
\* stage or goes to its end.
Placed(rest) == \A j \in DOMAIN rest : waited'[rest[j]] + j <= Prefetch

\* Without the waiter at i the others keep their places or move up by one.
LEMMA MovedUp ==
    ASSUME QueueInv, NEW i \in DOMAIN pending, NEW j \in DOMAIN RemoveAt(pending, i)
    PROVE  /\ j \in Nat \ {0} /\ j \in DOMAIN pending /\ j + 1 \in DOMAIN pending
           /\ \/ RemoveAt(pending, i)[j] = pending[j] /\ j # i /\ j < i
              \/ RemoveAt(pending, i)[j] = pending[j + 1] /\ j + 1 # i /\ i < j + 1
<1>0. pending \in Seq(Messages)
  BY DEF QueueInv
<1>1. /\ Len(pending) \in Nat /\ DOMAIN pending = 1 .. Len(pending) /\ i \in 1 .. Len(pending)
      /\ DOMAIN RemoveAt(pending, i) = 1 .. Len(pending) - 1
  <2>1. RemoveAt(pending, i) \in Seq(Messages) /\ Len(RemoveAt(pending, i)) = Len(pending) - 1
    BY <1>0, RemoveAtKeeps
  <2>2. Len(pending) \in Nat /\ DOMAIN pending = 1 .. Len(pending)
    BY <1>0, LenProperties
  <2>3. DOMAIN RemoveAt(pending, i) = 1 .. Len(RemoveAt(pending, i))
    BY <2>1, LenProperties
  <2> QED BY <2>1, <2>2, <2>3
<1>2. /\ j \in 1 .. Len(pending) - 1
      /\ RemoveAt(pending, i)[j] = pending[IF j < i THEN j ELSE j + 1]
  BY <1>0, <1>1, RemoveAtKeeps
<1>3. j \in Nat \ {0} /\ j \in 1 .. Len(pending) /\ j + 1 \in 1 .. Len(pending)
  BY <1>1, <1>2
<1>4. CASE j < i
  BY <1>1, <1>2, <1>3, <1>4
<1>5. CASE ~(j < i)
  BY <1>1, <1>2, <1>3, <1>5
<1> QED BY <1>4, <1>5

\* The others keep what they have seen when one of them gives up.
LEMMA PlacedWithout ==
    ASSUME QueueInv, PlaceInv, Prefetch # 0, NEW i \in DOMAIN pending,
           waited' = [waited EXCEPT ![pending[i]] = 0]
    PROVE  Placed(RemoveAt(pending, i))
<1> SUFFICES ASSUME NEW j \in DOMAIN RemoveAt(pending, i)
             PROVE  waited'[RemoveAt(pending, i)[j]] + j <= Prefetch
  BY DEF Placed
<1>1. PICK k \in DOMAIN pending :
        RemoveAt(pending, i)[j] = pending[k] /\ k # i /\ (k = j \/ k = j + 1) /\ j \in Nat
  BY MovedUp
<1>2. pending[k] # pending[i] /\ pending[k] \in Messages
  BY <1>1, WaitingType DEF QueueInv, Once
<1>3. waited'[pending[k]] = waited[pending[k]] /\ waited[pending[k]] \in Nat
  BY <1>2 DEF PlaceInv
<1>4. waited[pending[k]] + k <= Prefetch /\ Prefetch \in Nat
  BY <1>1, PoolAssumption DEF PlaceInv
<1> QED BY <1>1, <1>3, <1>4

\* Everyone else sees one more served when the first one is, and moves up.
LEMMA PlacedGrant ==
    ASSUME QueueInv, PlaceInv, Prefetch # 0, Grant
    PROVE  Placed(pending')
<1>0. 1 \in DOMAIN pending /\ pending' = RemoveAt(pending, 1)
  BY GrantHead
<1> SUFFICES ASSUME NEW j \in DOMAIN pending'
             PROVE  waited'[pending'[j]] + j <= Prefetch
  BY DEF Placed
<1>1. j \in Nat /\ j + 1 \in DOMAIN pending /\ pending'[j] = pending[j + 1]
  BY <1>0, MovedUp
<1>2. pending[j + 1] \in Messages /\ waited[pending[j + 1]] \in Nat
  BY <1>1, WaitingType DEF PlaceInv
<1>3. pending'[j] \in ToSet(Tail(pending))
  BY DEF Grant, ToSet
<1>4. waited'[pending[j + 1]] = waited[pending[j + 1]] + 1
  BY <1>1, <1>2, <1>3 DEF Grant
<1>5. waited[pending[j + 1]] + (j + 1) <= Prefetch /\ Prefetch \in Nat
  BY <1>1, PoolAssumption DEF PlaceInv
<1> QED BY <1>1, <1>2, <1>4, <1>5

\* At the end of the queue there is a place: whoever waits is in flight.
LEMMA PlacedLast ==
    ASSUME QueueInv', FlightInv', Prefetch # 0,
           NEW m \in Messages, NEW rest \in Seq(Messages), Placed(rest),
           pending' = Append(rest, m), waited'[m] = 0
    PROVE  Placed(pending')
<1>1. Len(rest) \in Nat /\ DOMAIN rest = 1 .. Len(rest)
  BY LenProperties
<1>2. Len(pending') = Len(rest) + 1 /\ DOMAIN pending' = 1 .. Len(rest) + 1
  BY <1>1
<1>3. ToSet(pending') \subseteq InFlight'
  BY DEF QueueInv, Waiting, InFlight, Acquiring, Settled
<1>4. pending' \in Seq(Messages) /\ Once(pending') /\ IsFiniteSet(InFlight')
  BY DEF QueueInv, FlightInv
<1>5. Len(pending') <= Cardinality(InFlight')
  BY <1>3, <1>4, OnceLength
<1>6. Cardinality(InFlight') \in Nat /\ Cardinality(InFlight') <= Prefetch /\ Prefetch \in Nat
  BY <1>4, FS_CardinalityType, PoolAssumption DEF FlightInv
<1>7. Len(rest) + 1 <= Prefetch
  BY <1>1, <1>2, <1>5, <1>6
<1> SUFFICES ASSUME NEW j \in 1 .. Len(rest) + 1
             PROVE  waited'[pending'[j]] + j <= Prefetch
  BY <1>2 DEF Placed
<1>8. CASE j = Len(rest) + 1
  <2>1. pending'[j] = m
    BY <1>1, <1>8
  <2> QED BY <1>1, <1>7, <1>8, <2>1
<1>9. CASE j \in 1 .. Len(rest)
  <2>1. pending'[j] = rest[j]
    BY <1>1, <1>9
  <2> QED BY <1>1, <1>9, <2>1 DEF Placed
<1> QED BY <1>1, <1>8, <1>9

LEMMA PlaceStep ==
    ASSUME PoolInv, PlaceInv, Next, PoolInv'
    PROVE  PlaceInv'
<1>0. QueueInv /\ QueueInv' /\ FlightInv' /\ waited \in [Messages -> Nat]
  BY DEF PoolInv, PlaceInv
<1> SUFFICES waited' \in [Messages -> Nat] /\ (Prefetch # 0 => Placed(pending'))
  BY DEF PlaceInv, Placed
<1>1. CASE Grant
  BY <1>0, <1>1, PlacedGrant DEF Grant
<1>2. ASSUME NEW m \in Messages, Refused(m)
      PROVE  waited' \in [Messages -> Nat] /\ (Prefetch # 0 => Placed(pending'))
  <2>1. /\ 1 \in DOMAIN pending /\ pending[1] = m
        /\ pending' \in {RemoveAt(pending, 1), Append(RemoveAt(pending, 1), m)}
        /\ waited' = [waited EXCEPT ![m] = 0]
    BY <1>2 DEF Refused, Request, Unserved
  <2>2. waited' \in [Messages -> Nat] /\ waited'[m] = 0 /\ RemoveAt(pending, 1) \in Seq(Messages)
    BY <1>0, <2>1, RemoveAtKeeps DEF QueueInv
  <2>3. Prefetch # 0 => Placed(RemoveAt(pending, 1))
    BY <1>0, <2>1, PlacedWithout
  <2> QED BY <1>0, <2>1, <2>2, <2>3, PlacedLast
<1>3. ASSUME NEW m \in Messages, Moves(m)
      PROVE  waited' \in [Messages -> Nat] /\ (Prefetch # 0 => Placed(pending'))
  BY <1>0, <1>3 DEF Moves, PlaceInv, Placed
<1>4. ASSUME NEW m \in Messages, Asks(m)
      PROVE  waited' \in [Messages -> Nat] /\ (Prefetch # 0 => Placed(pending'))
  <2>1. /\ pending' = Append(pending, m) /\ waited' = [waited EXCEPT ![m] = 0]
        /\ m \notin Waiting /\ pending \in Seq(Messages)
    BY <1>0, <1>4, WaitingType DEF Asks, Request, QueueInv
  <2>2. waited' \in [Messages -> Nat] /\ waited'[m] = 0
    BY <1>0, <2>1
  <2>3. \A j \in DOMAIN pending : waited'[pending[j]] = waited[pending[j]]
    BY <1>0, <2>1, WaitingType
  <2>4. Prefetch # 0 => Placed(pending)
    BY <2>3 DEF PlaceInv, Placed
  <2> QED BY <1>0, <2>1, <2>2, <2>4, PlacedLast
<1> QED BY <1>1, <1>2, <1>3, <1>4, StepKinds

(***************************************************************************)
(* What the sampler holds                                                  *)
(***************************************************************************)
Samplers == [durations : [Slots -> Nat], index : Slots, count : 0 .. SampleCapacity]

Latest(s, w) ==
    /\ s.count = Len(w)
    /\ \A i \in Filled(s) : s.durations[SlotAgo(s, i)] = w[Len(w) - i]

SamplerInv == sampler \in Samplers /\ waits \in Seq(Nat) /\ Latest(sampler, waits)

LEMMA RingModulo ==
    \A C \in Nat \ {0} : /\ \A x \in 0 .. C - 1 : x % C = x
                         /\ \A x \in -C .. -1 : x % C = x + C
                         /\ C % C = 0
<1>1. \A C \in Nat \ {0} : \A x \in 0 .. C - 1 : x % C = x
  OBVIOUS
<1>2. \A C \in Nat \ {0} : \A x \in -C .. -1 : x % C = x + C
  OBVIOUS
<1>3. \A C \in Nat \ {0} : C % C = 0
  OBVIOUS
<1> QED BY <1>1, <1>2, <1>3

\* After a record the newest sample is in the slot that was written, and the
\* i-th latest one in the slot that was the (i-1)-th latest one's, which is
\* another slot as long as it is filled.
LEMMA SlotsMove ==
    ASSUME NEW s \in Samplers, NEW d \in Nat, NEW i \in 0 .. SampleCapacity - 1
    PROVE  /\ i = 0 => SlotAgo(Record(s, d), i) = s.index
           /\ i > 0 => /\ SlotAgo(Record(s, d), i) = SlotAgo(s, i - 1)
                       /\ SlotAgo(s, i - 1) \in Slots \ {s.index}
<1> DEFINE C == SampleCapacity
           x == s.index
           y == (x + 1) % C
<1>1. C \in Nat \ {0} /\ x \in 0 .. C - 1 /\ i \in 0 .. C - 1
  BY SampleAssumption DEF Samplers, Slots
<1> HIDE DEF C, x
<1>2. y = IF x = C - 1 THEN 0 ELSE x + 1
  <2>1. CASE x = C - 1
    <3>1. x + 1 = C
      BY <1>1, <2>1
    <3> QED BY <1>1, <2>1, <3>1, RingModulo
  <2>2. CASE x # C - 1
    <3>1. x + 1 \in 0 .. C - 1
      BY <1>1, <2>2
    <3> QED BY <1>1, <2>2, <3>1, RingModulo
  <2> QED BY <2>1, <2>2
<1> HIDE DEF y
<1>3. (y - 1 - i) % C = IF x - i >= 0 THEN x - i ELSE x - i + C
  <2>1. CASE x - i >= 0 /\ x # C - 1
    <3>1. y - 1 - i = x - i /\ x - i \in 0 .. C - 1
      BY <1>1, <1>2, <2>1
    <3> QED BY <1>1, <2>1, <3>1, RingModulo
  <2>2. CASE x = C - 1
    <3>1. y - 1 - i = -1 - i /\ -1 - i \in -C .. -1 /\ -1 - i + C = x - i /\ x - i >= 0
      BY <1>1, <1>2, <2>2
    <3> QED BY <1>1, <3>1, RingModulo
  <2>3. CASE ~(x - i >= 0) /\ x # C - 1
    <3>1. y - 1 - i = x - i /\ x - i \in -C .. -1
      BY <1>1, <1>2, <2>3
    <3> QED BY <1>1, <2>3, <3>1, RingModulo
  <2> QED BY <2>1, <2>2, <2>3
<1>4. ASSUME i > 0
      PROVE  (x - 1 - (i - 1)) % C = IF x - i >= 0 THEN x - i ELSE x - i + C
  <2>1. x - 1 - (i - 1) = x - i
    BY <1>1
  <2>2. CASE x - i >= 0
    <3>1. x - i \in 0 .. C - 1
      BY <1>1, <2>2
    <3> QED BY <1>1, <2>1, <2>2, <3>1, RingModulo
  <2>3. CASE ~(x - i >= 0)
    <3>1. x - i \in -C .. -1
      BY <1>1, <2>3
    <3> QED BY <1>1, <2>1, <2>3, <3>1, RingModulo
  <2> QED BY <2>2, <2>3
<1>5. Record(s, d).index = y
  BY DEF Record, y, x, C
<1>6. i = 0 => (y - 1 - i) % C = x
  BY <1>1, <1>3
<1>7. ASSUME i > 0
      PROVE  /\ (y - 1 - i) % C = (x - 1 - (i - 1)) % C
             /\ (x - 1 - (i - 1)) % C \in 0 .. C - 1
             /\ (x - 1 - (i - 1)) % C # x
  <2> DEFINE z == IF x - i >= 0 THEN x - i ELSE x - i + C
  <2>1. z \in 0 .. C - 1 /\ z # x
    BY <1>1, <1>7
  <2> QED BY <1>3, <1>4, <1>7, <2>1
<1> QED BY <1>5, <1>6, <1>7 DEF SlotAgo, Slots, x, C

\* The latest samples, with one more: at most SampleCapacity of them.
Extended(w, d) ==
    LET v == Append(w, d) IN IF Len(v) > SampleCapacity THEN Tail(v) ELSE v

LEMMA ExtendedLatest ==
    ASSUME NEW w \in Seq(Nat), Len(w) <= SampleCapacity, NEW d \in Nat
    PROVE  LET v == Extended(w, d) IN
           /\ v \in Seq(Nat)
           /\ Len(v) = IF Len(w) < SampleCapacity THEN Len(w) + 1 ELSE Len(w)
           /\ v[Len(v)] = d
           /\ \A i \in 1 .. Len(v) - 1 : v[Len(v) - i] = w[Len(w) - (i - 1)]
<1> DEFINE u == Append(w, d)
<1>1. /\ Len(w) \in Nat /\ SampleCapacity \in Nat \ {0}
      /\ u \in Seq(Nat) /\ u # <<>> /\ Len(u) = Len(w) + 1
  BY SampleAssumption
<1>2. u[Len(w) + 1] = d /\ \A k \in 1 .. Len(w) : u[k] = w[k]
  BY <1>1
<1> HIDE DEF u
<1>3. CASE Len(w) < SampleCapacity
  <2>1. Extended(w, d) = u
    BY <1>1, <1>3 DEF Extended, u
  <2>2. ASSUME NEW i \in 1 .. Len(u) - 1
        PROVE  u[Len(u) - i] = w[Len(w) - (i - 1)]
    <3>1. Len(u) - i \in 1 .. Len(w) /\ Len(u) - i = Len(w) - (i - 1)
      BY <1>1
    <3> QED BY <1>2, <3>1
  <2> QED BY <1>1, <1>2, <1>3, <2>1, <2>2
<1>4. CASE ~(Len(w) < SampleCapacity)
  <2> DEFINE v == Tail(u)
  <2>1. Extended(w, d) = v
    BY <1>1, <1>4 DEF Extended, u
  <2>2. /\ v \in Seq(Nat) /\ Len(v) = Len(w)
        /\ \A k \in 1 .. Len(v) : v[k] = u[k + 1]
    BY <1>1, HeadTailProperties
  <2> HIDE DEF v
  <2>3. Len(w) \in 1 .. Len(w) /\ v[Len(v)] = d
    BY <1>1, <1>2, <1>4, <2>2
  <2>4. ASSUME NEW i \in 1 .. Len(v) - 1
        PROVE  v[Len(v) - i] = w[Len(w) - (i - 1)]
    <3>1. /\ Len(v) - i \in 1 .. Len(v) /\ Len(v) - i + 1 \in 1 .. Len(w)
          /\ Len(v) - i + 1 = Len(w) - (i - 1)
      <4>1. \A n \in Nat : \A k \in 1 .. n - 1 :
              n - k \in 1 .. n /\ n - k + 1 \in 1 .. n /\ n - k + 1 = n - (k - 1)
        OBVIOUS
      <4>2. Len(v) = Len(w) /\ Len(w) \in Nat
        BY <1>1, <2>2
      <4> QED BY <4>1, <4>2
    <3>2. v[Len(v) - i] = u[Len(v) - i + 1]
      BY <2>2, <3>1
    <3> QED BY <1>2, <3>1, <3>2
  <2> QED BY <1>1, <1>4, <2>1, <2>2, <2>3, <2>4
<1> QED BY <1>3, <1>4

LEMMA RecordKeepsLatest ==
    ASSUME NEW s \in Samplers, NEW w \in Seq(Nat), Latest(s, w), NEW d \in Nat
    PROVE  /\ Record(s, d) \in Samplers /\ Extended(w, d) \in Seq(Nat)
           /\ Latest(Record(s, d), Extended(w, d))
<1> DEFINE r == Record(s, d)
           v == Extended(w, d)
<1>1. /\ SampleCapacity \in Nat \ {0} /\ s.index \in Slots /\ s.durations \in [Slots -> Nat]
      /\ s.count \in 0 .. SampleCapacity /\ s.count = Len(w)
  BY SampleAssumption DEF Samplers, Latest
<1>2. /\ r.durations = [s.durations EXCEPT ![s.index] = d]
      /\ r.index = (s.index + 1) % SampleCapacity
      /\ r.count = IF Len(w) < SampleCapacity THEN Len(w) + 1 ELSE Len(w)
  BY <1>1 DEF Record
<1>3. r.index \in Slots
  <2>1. CASE s.index = SampleCapacity - 1
    <3>1. s.index + 1 = SampleCapacity /\ 0 \in Slots
      BY <1>1, <2>1 DEF Slots
    <3>2. SampleCapacity % SampleCapacity = 0
      BY <1>1, RingModulo
    <3> QED BY <1>2, <3>1, <3>2
  <2>2. CASE s.index # SampleCapacity - 1
    <3>1. s.index + 1 \in 0 .. SampleCapacity - 1
      BY <1>1, <2>2 DEF Slots
    <3>2. (s.index + 1) % SampleCapacity = s.index + 1
      BY <1>1, <3>1, RingModulo
    <3> QED BY <1>2, <3>1, <3>2 DEF Slots
  <2> QED BY <2>1, <2>2
<1>4. r \in Samplers
  <2>1. r.durations \in [Slots -> Nat]
    BY <1>1, <1>2
  <2>2. r.count \in 0 .. SampleCapacity
    BY <1>1, <1>2
  <2>3. r = [durations |-> r.durations, index |-> r.index, count |-> r.count]
    BY DEF Record
  <2> HIDE DEF r
  <2> QED BY <1>3, <2>1, <2>2, <2>3 DEF Samplers
<1>5. /\ v \in Seq(Nat) /\ r.count = Len(v) /\ v[Len(v)] = d
      /\ \A i \in 1 .. Len(v) - 1 : v[Len(v) - i] = w[Len(w) - (i - 1)]
  BY <1>1, <1>2, ExtendedLatest
<1>6. ASSUME NEW i \in Filled(r)
      PROVE  r.durations[SlotAgo(r, i)] = v[Len(v) - i]
  <2>1. /\ i \in 0 .. Len(v) - 1 /\ Len(v) \in Nat /\ i \in 0 .. SampleCapacity - 1
        /\ Len(v) - 1 <= Len(w) /\ Len(w) \in Nat
    BY <1>1, <1>2, <1>5 DEF Filled
  <2>2. CASE i = 0
    <3>1. SlotAgo(r, i) = s.index /\ Len(v) - i = Len(v)
      BY <2>1, <2>2, SlotsMove
    <3> QED BY <1>1, <1>2, <1>5, <3>1
  <2>3. CASE i > 0
    <3>1. SlotAgo(r, i) = SlotAgo(s, i - 1) /\ SlotAgo(s, i - 1) \in Slots \ {s.index}
      BY <2>1, <2>3, SlotsMove
    <3>2. r.durations[SlotAgo(r, i)] = s.durations[SlotAgo(s, i - 1)]
      BY <1>1, <1>2, <3>1
    <3>3. i - 1 \in Filled(s) /\ i \in 1 .. Len(v) - 1
      BY <1>1, <2>1, <2>3 DEF Filled
    <3>4. s.durations[SlotAgo(s, i - 1)] = w[Len(w) - (i - 1)]
      BY <3>3 DEF Latest
    <3> QED BY <1>5, <3>2, <3>3, <3>4
  <2> QED BY <2>1, <2>2, <2>3
<1> HIDE DEF r, v
<1>7. r \in Samplers /\ v \in Seq(Nat) /\ Latest(r, v)
  BY <1>4, <1>5, <1>6 DEF Latest
<1> QED BY <1>7 DEF r, v

\* Only an acquire that succeeds is recorded.
LEMMA SamplerStep ==
    ASSUME PoolInv, PlaceInv, SamplerInv, [Next]_vars
    PROVE  SamplerInv'
<1>1. CASE UNCHANGED <<sampler, waits>>
  BY <1>1 DEF SamplerInv, Latest
<1>2. CASE Grant
  <2>1. waited[Head(pending)] \in Nat
    BY <1>2, GrantHead DEF PoolInv, PlaceInv
  <2>2. /\ sampler' = Record(sampler, waited[Head(pending)])
        /\ waits' = Extended(waits, waited[Head(pending)])
    BY <1>2 DEF Grant, Extended
  <2> QED BY <2>1, <2>2, RecordKeepsLatest DEF SamplerInv
<1> QED BY <1>1, <1>2
        DEF Next, vars, poolVars, Pool, AcquireTimeout, ConnectFails, Deliver, Handler,
            LockRow, Decrement, Commit, EndTransaction, Retry, MarkAndAck, CancelRow, ReleaseAndNack,
            TransactionFails

(***************************************************************************)
(* The theorems                                                            *)
(***************************************************************************)
LEMMA PoolInitInv == Init => PoolInv /\ PlaceInv /\ SamplerInv
<1> SUFFICES ASSUME Init
             PROVE  PoolInv /\ PlaceInv /\ SamplerInv
  OBVIOUS
<1>1. /\ InFlight = {} /\ held = {} /\ pending = <<>> /\ Waiting = {}
      /\ pending \in Seq(Messages) /\ Len(pending) = 0 /\ DOMAIN pending = {}
  BY DEF Init, InFlight, Settled, Waiting, ToSet
<1>2. IsFiniteSet({}) /\ Cardinality({}) = 0
  BY FS_EmptySet
<1>3. QueueInv
  BY <1>1, PoolAssumption
  DEF Init, QueueInv, Once, Stages, Acquiring, Settled, InTransaction, StartTimesMatch, Waiting
<1>4. FlightInv /\ HeldInv
  BY <1>1, <1>2, PoolAssumption DEF Init, FlightInv, HeldInv, InTransaction
<1>5. PoolInv
  BY <1>3, <1>4, PoolAssumption DEF Init, PoolInv
<1>6. PlaceInv
  BY <1>1 DEF Init, PlaceInv
<1>7. SamplerInv
  <2>1. 0 \in Slots /\ SampleCapacity \in Nat
    BY SampleAssumption DEF Slots
  <2>2. sampler \in Samplers /\ waits \in Seq(Nat) /\ Len(waits) = 0 /\ sampler.count = 0
    BY <2>1 DEF Init, EmptySampler, Samplers
  <2>3. Filled(sampler) = {}
    BY <2>2 DEF Filled
  <2> QED BY <2>2, <2>3 DEF SamplerInv, Latest
<1> QED BY <1>5, <1>6, <1>7

LEMMA PoolStutter ==
    ASSUME PoolInv, PlaceInv, UNCHANGED vars
    PROVE  PoolInv' /\ PlaceInv'
BY DEF PoolInv, PlaceInv, QueueInv, FlightInv, HeldInv, InFlight, StartTimesMatch, Acquire,
       Waiting, vars, poolVars

LEMMA PoolInvariant == Spec => [](PoolInv /\ PlaceInv /\ SamplerInv)
<1>1. PoolInv /\ PlaceInv /\ SamplerInv /\ [Next]_vars
        => (PoolInv /\ PlaceInv /\ SamplerInv)'
  BY PoolStep, PlaceStep, PoolStutter, SamplerStep
<1> QED BY <1>1, PoolInitInv, PTL DEF Spec

\* The state keeps its types: never more connections are held than the pool
\* has, by those handlers that are in a transaction or a cancellation, and
\* the row lock by one of them (database/index.ts:22-33).
THEOREM PoolTypes == Spec => []TypeOK
<1>1. PoolInv /\ PlaceInv => TypeOK
  BY DEF PoolInv, PlaceInv, QueueInv, HeldInv, Waiting, TypeOK
<1> QED BY <1>1, PoolInvariant, PTL

\* The listeners of the pool keep an entry for every acquire that waits and
\* for no other, whether acquires succeed, time out, find no
\* connection or are asked for again (database/index.ts:53-65).
THEOREM StartTimesKeepMatching == Spec => []StartTimesMatch
<1>1. PoolInv => StartTimesMatch
  BY DEF PoolInv, QueueInv
<1> QED BY <1>1, PoolInvariant, PTL

\* The ring buffer holds the latest waits, whatever its capacity and however
\* often it has wrapped (duration-sampler.ts:10-19).
THEOREM SamplerKeepsLatest == Spec => []SamplerHoldsLatest
<1>1. SamplerInv => SamplerHoldsLatest
  BY DEF SamplerInv, Latest, SamplerHoldsLatest
<1> QED BY <1>1, PoolInvariant, PTL

\* No handler sees as many others served while it waits as messages may be in
\* flight (purchase-worker.ts:16-18).
THEOREM WaitStaysBounded == Spec => []WaitIsBounded
<1>1. ASSUME PoolInv, PlaceInv
      PROVE  WaitIsBounded
  <2> SUFFICES ASSUME Prefetch # 0, NEW i \in DOMAIN pending
               PROVE  waited[pending[i]] < Prefetch
    BY DEF WaitIsBounded, ToSet
  <2>1. pending[i] \in Messages /\ i \in Nat \ {0}
    BY <1>1, WaitingType DEF PoolInv
  <2>2. waited[pending[i]] \in Nat /\ waited[pending[i]] + i <= Prefetch /\ Prefetch \in Nat
    BY <1>1, <2>1, PoolAssumption DEF PlaceInv
  <2> QED BY <2>1, <2>2
<1> QED BY <1>1, PoolInvariant, PTL
=============================================================================
