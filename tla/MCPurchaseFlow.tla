--------------------------- MODULE MCPurchaseFlow ---------------------------
(***************************************************************************)
(* Instances of the purchase flow.  Symmetric runs use Symmetry; runs with *)
(* a liveness property use none.                                           *)
(***************************************************************************)
EXTENDS PurchaseFlowProperties, TLC

CONSTANTS u1, u2, k1, k2, s1, s2, r1, r2, w1, w2

OneUser == {u1}
TwoUsers == {u1, u2}
OneKey == {k1}
TwoKeys == {k1, k2}
OneSale == {s1}
TwoSales == {s1, s2}
TwoRequests == {r1, r2}
OneWorker == {w1}
TwoWorkers == {w1, w2}

Symmetry ==
    Permutations(Users) \cup Permutations(Keys) \cup Permutations(Sales)
        \cup Permutations(Requests) \cup Permutations(Workers)

NoFaults == {}

\* Everything that is not Redis.
RedisUp == FaultKinds \ {"redis", "redisReply", "redisLoss"}

\* What RabbitMQ may do to a purchase.
BrokerFaults == {"publish", "drop", "channel"}
=============================================================================
