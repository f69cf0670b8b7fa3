------------------------- MODULE PurchaseLedgerProofs -------------------------
(***************************************************************************)
(* The ledger's promises, for any users, keys and stock.                   *)
(***************************************************************************)
EXTENDS PurchaseLedger, FiniteSetTheorems, TLAPS

\* Types of the state; a sale needs a unit.
TypeOK ==
    /\ remaining \in Nat
    /\ open \subseteq Purchases
    /\ buyers \subseteq Users

\* Every unit is on the shelf or with exactly one buyer.
UnitsAddUp == remaining + Cardinality(buyers) = InitialStock

\* A user who owns a unit has nothing open.
OpenUsersOwnNothing ==
    \A p \in open : /\ p.user \notin buyers
                    /\ \A q \in open : q.user = p.user => q = p

\* UnitsAddUp needs that a sale adds a buyer who was not one, which is what
\* OpenUsersOwnNothing says of every purchase that can still be sold.
LedgerInv ==
    /\ TypeOK
    /\ IsFiniteSet(buyers)
    /\ UnitsAddUp
    /\ OpenUsersOwnNothing

LEMMA LedgerInit ==
    ASSUME InitialStock \in Nat, Init
    PROVE  LedgerInv
<1>1. IsFiniteSet(buyers) /\ Cardinality(buyers) = 0
  BY FS_EmptySet DEF Init
<1> QED BY <1>1
        DEF Init, LedgerInv, TypeOK, UnitsAddUp, OpenUsersOwnNothing

LEMMA LedgerAccept ==
    ASSUME LedgerInv, NEW p \in Purchases, Accept(p)
    PROVE  LedgerInv'
BY DEF LedgerInv, TypeOK, UnitsAddUp, OpenUsersOwnNothing, Accept

LEMMA LedgerSell ==
    ASSUME InitialStock \in Nat, LedgerInv, NEW p \in Purchases, Sell(p)
    PROVE  LedgerInv'
<1> USE DEF LedgerInv, Sell
<1>1. p.user \in Users /\ p.user \notin buyers
  BY DEF Purchases, OpenUsersOwnNothing
<1>2. TypeOK'
  BY <1>1 DEF TypeOK
<1>3. /\ IsFiniteSet(buyers')
      /\ Cardinality(buyers') = Cardinality(buyers) + 1
  BY <1>1, FS_AddElement
<1>4. Cardinality(buyers) \in Nat
  BY FS_CardinalityType
<1>5. UnitsAddUp'
  BY <1>3, <1>4 DEF UnitsAddUp, TypeOK
<1>6. OpenUsersOwnNothing'
  BY DEF OpenUsersOwnNothing
<1> QED BY <1>2, <1>3, <1>5, <1>6

LEMMA LedgerVoid ==
    ASSUME LedgerInv, NEW p \in Purchases, Void(p)
    PROVE  LedgerInv'
BY DEF LedgerInv, TypeOK, UnitsAddUp, OpenUsersOwnNothing, Void

LEMMA LedgerStep ==
    ASSUME InitialStock \in Nat, LedgerInv, [Next]_ledger
    PROVE  LedgerInv'
<1>1. CASE Next
  BY <1>1, LedgerAccept, LedgerSell, LedgerVoid DEF Next, Decide
<1>2. CASE UNCHANGED ledger
  BY <1>2 DEF LedgerInv, TypeOK, UnitsAddUp, OpenUsersOwnNothing, ledger
<1> QED BY <1>1, <1>2

\* Units left and units owned always add up to the initial stock.
THEOREM LedgerAddsUp ==
    ASSUME InitialStock \in Nat
    PROVE  Spec => []UnitsAddUp
<1>1. Init => LedgerInv
  BY LedgerInit
<1>2. LedgerInv /\ [Next]_ledger => LedgerInv'
  BY LedgerStep
<1>3. LedgerInv => UnitsAddUp
  BY DEF LedgerInv
<1> QED BY <1>1, <1>2, <1>3, PTL DEF Spec

\* A user with an open purchase owns nothing and has no other one open.
THEOREM LedgerOnePerUser ==
    ASSUME InitialStock \in Nat
    PROVE  Spec => []OpenUsersOwnNothing
<1>1. Init => LedgerInv
  BY LedgerInit
<1>2. LedgerInv /\ [Next]_ledger => LedgerInv'
  BY LedgerStep
<1>3. LedgerInv => OpenUsersOwnNothing
  BY DEF LedgerInv
<1> QED BY <1>1, <1>2, <1>3, PTL DEF Spec
=============================================================================
