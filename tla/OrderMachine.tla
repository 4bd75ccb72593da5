---------------------------- MODULE OrderMachine ----------------------------
(***************************************************************************)
(* The state machine of an order: OrderStatus of the Prisma schema and     *)
(* ORDER_TRANSITIONS of packages/shared/src/constants.                     *)
(***************************************************************************)
Statuses == {"PENDING_PAYMENT", "PAID", "PROCESSING", "SHIPPED", "DELIVERED",
             "CANCELLED", "REFUNDED"}

ORDER_TRANSITIONS ==
  [PENDING_PAYMENT |-> {"PAID", "CANCELLED"},
   PAID            |-> {"PROCESSING", "REFUNDED"},
   PROCESSING      |-> {"SHIPPED", "REFUNDED"},
   SHIPPED         |-> {"DELIVERED"},
   DELIVERED       |-> {},
   CANCELLED       |-> {},
   REFUNDED        |-> {}]

\* Where any number of legal moves may lead.
Reachable ==
  [PENDING_PAYMENT |-> Statuses \ {"PENDING_PAYMENT"},
   PAID            |-> {"PROCESSING", "SHIPPED", "DELIVERED", "REFUNDED"},
   PROCESSING      |-> {"SHIPPED", "DELIVERED", "REFUNDED"},
   SHIPPED         |-> {"DELIVERED"},
   DELIVERED       |-> {},
   CANCELLED       |-> {},
   REFUNDED        |-> {}]
=============================================================================
