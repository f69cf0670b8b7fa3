------------------------------ MODULE Purchase ------------------------------
(***************************************************************************)
(* What a client asks for: one unit of the only product, for a user, under *)
(* an idempotency key (purchase/dto/purchase-product.ts).                  *)
(***************************************************************************)
CONSTANTS
    Users,  \* buyers
    Keys    \* idempotency keys a client may send

Purchases == [user : Users, key : Keys]
=============================================================================
