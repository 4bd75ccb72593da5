------------------------------- MODULE Orders -------------------------------
(***************************************************************************)
(* The order desk of apps/backend: checkout with its stock guard, the      *)
(* status endpoint, cancel-and-restock, and the cancellations              *)
(* sub-resource (services/orders.service.ts and                            *)
(* modules/orders/services/cancellations.service.ts).                      *)
(*                                                                         *)
(* The state is the committed rows of PostgreSQL, READ COMMITTED, plus the *)
(* frame of every HTTP call that is between two statements.  One action is *)
(* one atomic section: the reads a handler decides on, or the statements   *)
(* one database transaction commits.  Checkout is a single action because  *)
(* its conditional decrements hold the product rows until the commit.      *)
(***************************************************************************)
EXTENDS Naturals, FiniteSets, Functions, OrderMachine

CONSTANTS
  Products,    \* products with trackStock
  OrderIds,    \* orders a behaviour may create
  Calls,       \* slots for calls in flight at the same time
  Supply,      \* initial product.stockQuantity
  Carts,       \* quantities a buyer may ask for, per product
  MaxReturns   \* bound: stock returns begun per order

Cart == [Products -> Nat]
Nothing == [p \in Products |-> 0]

ASSUME SupplyAssumption == Supply \in Cart
ASSUME CartsAssumption  == Carts \subseteq Cart
ASSUME BoundAssumption  == MaxReturns \in Nat
ASSUME FiniteAssumption == IsFiniteSet(OrderIds) /\ IsFiniteSet(Calls)

VARIABLES
  stock,         \* product.stockQuantity
  listing,       \* product.status
  status,        \* order.status
  lines,         \* order_items: units per product
  history,       \* order_status_history rows, as <<from, to>>
  announced,     \* statuses the outbox holds an order.<status> event for
  cancellation,  \* order_cancellations row: absent, open, restocked, removed
  payment,       \* payments row of the order: its status, "none" if absent
  returned,      \* history variable: units cancel() put back on the shelf
  shelved,       \* history variable: units process() put back on the shelf
  returns,       \* history variable: stock returns begun
  call           \* frames of the calls in flight

vars == <<stock, listing, status, lines, history, announced, cancellation,
          payment, returned, shelved, returns, call>>

PaymentStatuses == {"INITIALIZED", "PENDING", "SUCCEEDED", "FAILED", "REFUNDED"}

\* Targets POST /:id/status accepts, CANCELLED apart: that one goes to cancel().
transitionStatuses == {"PAID", "PROCESSING", "SHIPPED", "DELIVERED"}

Exists(o) == status[o] \in Statuses
HasRow(o) == cancellation[o] \in {"open", "restocked"}

Idle == [op |-> "idle"]
Frame ==
       [op : {"commit"}, order : OrderIds, seen : Statuses, to : Statuses]
  \cup [op : {"restock"}, order : OrderIds]
  \cup [op : {"file", "mark", "log"}, order : OrderIds, seen : Statuses]
  \cup [op : {"shelve"}, order : OrderIds, todo : SUBSET Products, row : BOOLEAN]

Free(c) == call[c] = Idle
Goto(c, frame) == call' = [call EXCEPT ![c] = frame]
Return(c) == Goto(c, Idle)

Init ==
  /\ stock = Supply
  /\ listing = [p \in Products |-> IF Supply[p] = 0 THEN "OUT_OF_STOCK" ELSE "ACTIVE"]
  /\ status = [o \in OrderIds |-> "none"]
  /\ lines = [o \in OrderIds |-> Nothing]
  /\ history = [o \in OrderIds |-> {}]
  /\ announced = [o \in OrderIds |-> {}]
  /\ cancellation = [o \in OrderIds |-> "none"]
  /\ payment = [o \in OrderIds |-> "none"]
  /\ returned = [o \in OrderIds |-> Nothing]
  /\ shelved = [o \in OrderIds |-> Nothing]
  /\ returns = [o \in OrderIds |-> 0]
  /\ call = [c \in Calls |-> Idle]

-----------------------------------------------------------------------------
(* Checkout: every line's conditional decrement succeeds or nothing is     *)
(* written.  An order that empties a product takes it off the shelf.       *)

NoStockCheck(cart) == TRUE                                    \* mutant
InStock(cart) == \A p \in Products : stock[p] >= cart[p]

OneUnitPerLine(cart) ==                                        \* mutant
  [p \in Products |-> IF cart[p] > 0 THEN stock[p] - 1 ELSE stock[p]]
decrementStock(cart) == [p \in Products |-> stock[p] - cart[p]]

Create(o, cart) ==
  /\ status[o] = "none"
  /\ InStock(cart)
  /\ stock' = decrementStock(cart)
  /\ listing' = [p \in Products |->
                  IF cart[p] > 0 /\ stock[p] = cart[p] THEN "OUT_OF_STOCK" ELSE listing[p]]
  /\ status' = [status EXCEPT ![o] = "PENDING_PAYMENT"]
  /\ lines' = [lines EXCEPT ![o] = cart]
  /\ announced' = [announced EXCEPT ![o] = {"PENDING_PAYMENT"}]
  /\ UNCHANGED <<history, cancellation, payment, returned, shelved, returns, call>>

(* transition(): a transaction that reads the order and its payment and    *)
(* then updates the order by id alone, so another commit may come between. *)

assertPaidAllowed(o) == payment[o] # "FAILED"

BeginTransition(c, o, to) ==
  /\ Free(c)
  /\ Exists(o)
  /\ to \in ORDER_TRANSITIONS[status[o]]
  /\ to = "PAID" => assertPaidAllowed(o)
  /\ Goto(c, [op |-> "commit", order |-> o, seen |-> status[o], to |-> to])
  /\ UNCHANGED <<stock, listing, status, lines, history, announced, cancellation,
                 payment, returned, shelved, returns>>

AlreadyCancelled(o) == status[o] = "CANCELLED"

\* cancel() on an order that is already CANCELLED skips the transition, not the restock.
BeginCancel(c, o) ==
  /\ Free(c)
  /\ Exists(o)
  /\ returns[o] < MaxReturns
  /\ returns' = [returns EXCEPT ![o] = @ + 1]
  /\ \/ /\ AlreadyCancelled(o)
        /\ Goto(c, [op |-> "restock", order |-> o])
     \/ /\ "CANCELLED" \in ORDER_TRANSITIONS[status[o]]
        /\ Goto(c, [op |-> "commit", order |-> o, seen |-> status[o], to |-> "CANCELLED"])
  /\ UNCHANGED <<stock, listing, status, lines, history, announced, cancellation,
                 payment, returned, shelved>>

RestockAnyMove(o, to) == [op |-> "restock", order |-> o]       \* mutant
AfterCommit(o, to) == IF to = "CANCELLED" THEN [op |-> "restock", order |-> o] ELSE Idle

CommitTransition(c) ==
  /\ call[c].op = "commit"
  /\ LET o  == call[c].order
         to == call[c].to
     IN /\ status' = [status EXCEPT ![o] = to]
        /\ history' = [history EXCEPT ![o] = @ \cup {<<call[c].seen, to>>}]
        /\ announced' = [announced EXCEPT ![o] = @ \cup {to}]
        /\ Goto(c, AfterCommit(o, to))
  /\ UNCHANGED <<stock, listing, lines, cancellation, payment, returned, shelved, returns>>

\* The units of order o's lines on products ps.
Units(o, ps) == [p \in Products |-> IF p \in ps THEN lines[o][p] ELSE 0]
Plus(cart1, cart2) == [p \in Products |-> cart1[p] + cart2[p]]

NotRelisted(units) == listing                                  \* mutant
Relisted(units) == [p \in Products |-> IF units[p] > 0 THEN "ACTIVE" ELSE listing[p]]

\* They go back on the shelf, which relists their product.
PutBack(o, ps) ==
  /\ stock' = Plus(stock, Units(o, ps))
  /\ listing' = Relisted(Units(o, ps))

restoreStock(c) ==
  /\ call[c].op = "restock"
  /\ LET o == call[c].order
     IN /\ PutBack(o, Products)
        /\ returned' = [returned EXCEPT ![o] = Plus(@, Units(o, Products))]
  /\ Return(c)
  /\ UNCHANGED <<status, lines, history, announced, cancellation, payment, shelved,
                 returns>>

-----------------------------------------------------------------------------
(* The cancellations sub-resource: no transaction around its statements.   *)

DeliveredToo(o) == status[o] \notin {"CANCELLED", "REFUNDED"}   \* mutant
Cancellable(o) == status[o] \notin {"DELIVERED", "CANCELLED", "REFUNDED"}

BeginCancellation(c, o) ==
  /\ Free(c)
  /\ Exists(o)
  /\ ~HasRow(o)
  /\ Cancellable(o)
  /\ Goto(c, [op |-> "file", order |-> o, seen |-> status[o]])
  /\ UNCHANGED <<stock, listing, status, lines, history, announced, cancellation,
                 payment, returned, shelved, returns>>

\* order_cancellations.orderId is unique: a second insert throws.
FileCancellation(c) ==
  /\ call[c].op = "file"
  /\ LET o == call[c].order
     IN \/ /\ ~HasRow(o)
           /\ cancellation' = [cancellation EXCEPT ![o] = "open"]
           /\ Goto(c, [op |-> "mark", order |-> o, seen |-> call[c].seen])
        \/ /\ HasRow(o)
           /\ Return(c)
           /\ UNCHANGED cancellation
  /\ UNCHANGED <<stock, listing, status, lines, history, announced, payment,
                 returned, shelved, returns>>

MarkCancelled(c) ==
  /\ call[c].op = "mark"
  /\ status' = [status EXCEPT ![call[c].order] = "CANCELLED"]
  /\ Goto(c, [op |-> "log", order |-> call[c].order, seen |-> call[c].seen])
  /\ UNCHANGED <<stock, listing, lines, history, announced, cancellation, payment,
                 returned, shelved, returns>>

LogCancelled(c) ==
  /\ call[c].op = "log"
  /\ history' = [history EXCEPT ![call[c].order] = @ \cup {<<call[c].seen, "CANCELLED">>}]
  /\ Return(c)
  /\ UNCHANGED <<stock, listing, status, lines, announced, cancellation, payment,
                 returned, shelved, returns>>

\* A process() call that holds the id of the removed row can no longer update it.
RemoveCancellation(o) ==
  /\ HasRow(o)
  /\ cancellation' = [cancellation EXCEPT ![o] = "removed"]
  /\ call' = [c \in Calls |->
               IF call[c].op = "shelve" /\ call[c].order = o
                 THEN [op |-> "shelve", order |-> o, todo |-> call[c].todo, row |-> FALSE]
                 ELSE call[c]]
  /\ UNCHANGED <<stock, listing, status, lines, history, announced, payment,
                 returned, shelved, returns>>

BeginProcess(c, o) ==
  /\ Free(c)
  /\ cancellation[o] = "open"
  /\ returns[o] < MaxReturns
  /\ returns' = [returns EXCEPT ![o] = @ + 1]
  /\ Goto(c, [op |-> "shelve", order |-> o, row |-> TRUE,
              todo |-> {p \in Products : lines[o][p] > 0}])
  /\ UNCHANGED <<stock, listing, status, lines, history, announced, cancellation,
                 payment, returned, shelved>>

\* One autocommitted update per line.
ForgetsLine(c, p) ==                                           \* mutant
  /\ call[c].op = "shelve"
  /\ p \in call[c].todo
  /\ LET o == call[c].order
     IN /\ PutBack(o, {p})
        /\ shelved' = [shelved EXCEPT ![o] = Plus(@, Units(o, {p}))]
  /\ UNCHANGED <<status, lines, history, announced, cancellation, payment, returned,
                 returns, call>>
ShelveLine(c, p) ==
  /\ call[c].op = "shelve"
  /\ p \in call[c].todo
  /\ LET o == call[c].order
     IN /\ PutBack(o, {p})
        /\ shelved' = [shelved EXCEPT ![o] = Plus(@, Units(o, {p}))]
        /\ Goto(c, [op |-> "shelve", order |-> o, row |-> call[c].row,
                    todo |-> call[c].todo \ {p}])
  /\ UNCHANGED <<status, lines, history, announced, cancellation, payment, returned,
                 returns>>

FlagRestocked(c) ==
  /\ call[c].op = "shelve"
  /\ call[c].todo = {}
  /\ cancellation' = [cancellation EXCEPT
                        ![call[c].order] = IF call[c].row THEN "restocked" ELSE @]
  /\ Return(c)
  /\ UNCHANGED <<stock, listing, status, lines, history, announced, payment,
                 returned, shelved, returns>>

-----------------------------------------------------------------------------
\* The process dies or the database refuses the next statement: the open
\* transaction rolls back, statements already committed stay.
CrashCall(c) ==
  /\ ~Free(c)
  /\ Return(c)
  /\ UNCHANGED <<stock, listing, status, lines, history, announced, cancellation,
                 payment, returned, shelved, returns>>

CallStep(c) ==
  \/ \E o \in OrderIds, to \in transitionStatuses : BeginTransition(c, o, to)
  \/ \E o \in OrderIds :
       BeginCancel(c, o) \/ BeginCancellation(c, o) \/ BeginProcess(c, o)
  \/ CommitTransition(c)
  \/ restoreStock(c)
  \/ FileCancellation(c)
  \/ MarkCancelled(c)
  \/ LogCancelled(c)
  \/ \E p \in Products : ShelveLine(c, p)
  \/ FlagRestocked(c)
  \/ CrashCall(c)

Next ==
  \/ \E o \in OrderIds, cart \in Carts : Create(o, cart)
  \/ \E o \in OrderIds : RemoveCancellation(o)
  \/ \E c \in Calls : CallStep(c)

Spec == Init /\ [][Next]_vars
-----------------------------------------------------------------------------
(* Properties.                                                             *)

\* Rows and frames have the types the handlers write; stock is never negative,
\* which is what the conditional decrement of decrementStock() is for.
TypeOK ==
  /\ stock \in [Products -> Nat]
  /\ listing \in [Products -> {"ACTIVE", "OUT_OF_STOCK"}]
  /\ status \in [OrderIds -> Statuses \cup {"none"}]
  /\ lines \in [OrderIds -> Cart]
  /\ history \in [OrderIds -> SUBSET (Statuses \X Statuses)]
  /\ announced \in [OrderIds -> SUBSET Statuses]
  /\ cancellation \in [OrderIds -> {"none", "open", "restocked", "removed"}]
  /\ payment \in [OrderIds -> PaymentStatuses \cup {"none"}]
  /\ returned \in [OrderIds -> Cart]
  /\ shelved \in [OrderIds -> Cart]
  /\ returns \in [OrderIds -> Nat]
  /\ call \in [Calls -> Frame \cup {Idle}]

\* The storefront shows a product as out of stock exactly when no unit is left,
\* whatever checkouts, cancellations and restocks overlap (decrementStock, both
\* restoreStock functions).
ListingMatchesStock ==
  \A p \in Products : listing[p] = "OUT_OF_STOCK" <=> stock[p] = 0

\* No unit appears or vanishes: what is on the shelf is the supply, less what the
\* orders took, plus what was put back, even when a restock stops half way.
StockAccounted ==
  \A p \in Products :
    stock[p] + SumFunction([o \in OrderIds |-> lines[o][p]])
      = Supply[p] + SumFunction([o \in OrderIds |-> returned[o][p] + shelved[o][p]])

\* However calls overlap and crash, a return of stock that was begun puts a line back at
\* most once: no line comes back more often than cancel() or process() was asked to
\* (both restoreStock functions).
RestockPerAttempt ==
  \A o \in OrderIds, p \in Products :
    returned[o][p] + shelved[o][p] <= returns[o] * lines[o][p]

WasCancelled(o) == \E from \in Statuses : <<from, "CANCELLED">> \in history[o]

\* Units go back on the shelf only for an order somebody cancelled: cancel() after the
\* order was CANCELLED with an audit row or through a record, process() after a record.
RestockNeedsCancellation ==
  \A o \in OrderIds :
    /\ returned[o] # Nothing => WasCancelled(o) \/ cancellation[o] # "none"
    /\ shelved[o] # Nothing => cancellation[o] # "none"

\* The moves of ORDER_TRANSITIONS, and the one outside it: a cancellation record's, which
\* may cancel a paid order.
LegalMove(o) ==
  \/ status[o] = "none" /\ status'[o] = "PENDING_PAYMENT"
  \/ Exists(o) /\ status'[o] \in ORDER_TRANSITIONS[status[o]]
  \/ /\ status[o] \in {"PAID", "PROCESSING", "SHIPPED"}
     /\ status'[o] = "CANCELLED"
     /\ cancellation[o] # "none"
\* The call that now writes the status read another one before.
Overtaken(c, o) ==
  /\ call[c].op \in {"commit", "mark"} /\ call[c].order = o
  /\ call[c].seen # status[o]
  /\ call'[c] # call[c]

\* ORDER_TRANSITIONS is the single source of truth for status moves: the only move off it is
\* that of a call whose order another call has moved since it was read (transition() and the
\* cancellation record's create() update by id alone).
MovesFollowTheMachine ==
  [][\A o \in OrderIds : status'[o] # status[o] =>
       LegalMove(o) \/ \E c \in Calls : Overtaken(c, o)]_vars

\* "tolerates idempotent repeats": repeating the cancel endpoint returns an order's
\* units once.
CancelIsIdempotent ==
  \A o \in OrderIds, p \in Products : returned[o][p] <= lines[o][p]
=============================================================================
