---------------------------- MODULE Repositories ----------------------------
(***************************************************************************)
(* The Postgres side of a purchase: the product's stock column and the     *)
(* transactions table (product/repository.ts, transactions/repository.ts,  *)
(* migrations 002, 004 and 005).  unique(user_id, idempotency_key) admits  *)
(* one row per purchase for ever, so the purchase itself names the row.    *)
(* Every statement of the repositories is one operator; who waits for      *)
(* whose row lock is said where the statements are used.                   *)
(***************************************************************************)
EXTENDS Integers, Purchase

VARIABLES
    txn,     \* the status of every purchase's row, "NONE" without one
    dbStock  \* products.stock

dbVars == <<txn, dbStock>>

Statuses == {"PENDING", "COMPLETED", "CANCELLED"}
Active == {"PENDING", "COMPLETED"}
Final == {"COMPLETED", "CANCELLED"}

\* The check constraints of migrations 002 and 004.
DbTypeOK ==
    /\ txn \in [Purchases -> Statuses \cup {"NONE"}]
    /\ dbStock \in Nat

DbInit(stock) ==
    /\ txn = [p \in Purchases |-> "NONE"]
    /\ dbStock = stock

(***************************************************************************)
(* Reads                                                                   *)
(***************************************************************************)
\* The user's rows that block another purchase; the partial unique index of
\* migration 005 keeps this set at one row at most.
ActiveRows(u) == {q \in Purchases : q.user = u /\ txn[q] \in Active}

HasActive(u) == ActiveRows(u) # {}
HasBought(u) == \E q \in ActiveRows(u) : txn[q] = "COMPLETED"

\* Mutant of UniqueViolation: migration 004 without migration 005.
UniqueViolationOnKeyOnly(p) == txn[p] # "NONE"

\* The insert of purchase p violates one of the two unique indexes.
UniqueViolation(p) == txn[p] # "NONE" \/ HasActive(p.user)

(***************************************************************************)
(* Writes                                                                  *)
(***************************************************************************)
CreatePendingTransaction(p) ==
    /\ ~UniqueViolation(p)
    /\ txn' = [txn EXCEPT ![p] = "PENDING"]
    /\ UNCHANGED dbStock

\* Mutant of CancelPendingTransaction: the UPDATE without its status condition.
CancelTransactionAlways(p) ==
    /\ txn' = [txn EXCEPT ![p] = "CANCELLED"]
    /\ UNCHANGED dbStock

\* UPDATE ... WHERE id AND status = 'PENDING'.
CancelPendingTransaction(p) ==
    /\ txn' = [txn EXCEPT ![p] = IF @ = "PENDING" THEN "CANCELLED" ELSE @]
    /\ UNCHANGED dbStock

\* The commit of decrementStockByProductId and updateTransactionStatusById:
\* both become visible together.
CompleteTransaction(p) ==
    /\ dbStock' = dbStock - 1
    /\ txn' = [txn EXCEPT ![p] = "COMPLETED"]
=============================================================================
