--------------------------- MODULE PurchaseLedger ---------------------------
(***************************************************************************)
(* What the flash sale promises, without queues, caches and workers: a     *)
(* purchase is accepted, and later either sells its user one unit or is    *)
(* void.  PurchaseFlow implements it.                                      *)
(***************************************************************************)
EXTENDS Integers, FiniteSets, Purchase

CONSTANT InitialStock  \* units on sale

VARIABLES
    remaining,  \* units not sold
    open,       \* accepted purchases that are not decided
    buyers      \* users who own a unit

ledger == <<remaining, open, buyers>>

Init ==
    /\ remaining = InitialStock
    /\ open = {}
    /\ buyers = {}

\* A user has one purchase open at a time, and none once they own a unit.
Accept(p) ==
    /\ p.user \notin buyers
    /\ \A q \in open : q.user # p.user
    /\ open' = open \cup {p}
    /\ UNCHANGED <<remaining, buyers>>

Sell(p) ==
    /\ p \in open
    /\ remaining > 0
    /\ remaining' = remaining - 1
    /\ open' = open \ {p}
    /\ buyers' = buyers \cup {p.user}

Void(p) ==
    /\ p \in open
    /\ open' = open \ {p}
    /\ UNCHANGED <<remaining, buyers>>

Decide(p) == Sell(p) \/ Void(p)

Next == \E p \in Purchases : Accept(p) \/ Decide(p)

Spec == Init /\ [][Next]_ledger

\* Every accepted purchase is decided.
FairSpec == Spec /\ \A p \in Purchases : WF_ledger(Decide(p))
=============================================================================
