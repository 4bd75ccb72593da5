---------------------------- MODULE OrdersProofs ----------------------------
(* Proofs about the order desk, for every shop, call count and bound. *)
EXTENDS Orders, SumFacts

\* A frame in flight names an order; the shapes tell its other fields.
LEMMA FrameShape ==
  ASSUME TypeOK, NEW c \in Calls, call[c] # Idle
  PROVE  /\ call[c] \in Frame
         /\ call[c].order \in OrderIds
         /\ call[c].op \in {"commit", "restock", "file", "mark", "log", "shelve"}
         /\ call[c].op \in {"commit", "file", "mark", "log"} => call[c].seen \in Statuses
         /\ call[c].op = "commit" => call[c].to \in Statuses
         /\ call[c].op = "shelve" => call[c].todo \in SUBSET Products /\ call[c].row \in BOOLEAN
  BY DEF TypeOK, Frame, Idle

LEMMA BusyIsNotIdle ==
  ASSUME NEW c \in Calls,
         call[c].op \in {"commit", "restock", "file", "mark", "log", "shelve"}
  PROVE  call[c] # Idle
  BY DEF Idle

LEMMA PlusType ==
  ASSUME NEW cart1 \in Cart, NEW cart2 \in Cart
  PROVE  Plus(cart1, cart2) \in Cart
  BY DEF Plus, Cart

\* Putting back units keeps stock and listings typed.
LEMMA PutBackType ==
  ASSUME TypeOK, NEW o \in OrderIds, NEW ps \in SUBSET Products, PutBack(o, ps)
  PROVE  /\ stock' \in [Products -> Nat]
         /\ listing' \in [Products -> {"ACTIVE", "OUT_OF_STOCK"}]
         /\ Units(o, ps) \in Cart
  BY DEF TypeOK, PutBack, Units, Plus, Relisted, Cart

\* A full shelf, no order and no call in flight: the types hold when the desk opens.
THEOREM InitType == Init => TypeOK
  BY SupplyAssumption DEF Init, TypeOK, Cart, Nothing, Statuses, PaymentStatuses

LEMMA MachineTargets ==
  ASSUME NEW s \in Statuses
  PROVE  ORDER_TRANSITIONS[s] \subseteq Statuses
  BY DEF Statuses, ORDER_TRANSITIONS

\* Every step keeps the rows and the frames typed.
LEMMA TypeStep == TypeOK /\ [Next]_vars => TypeOK'
<1> SUFFICES ASSUME TypeOK, [Next]_vars
             PROVE  TypeOK'
  OBVIOUS
<1>1. ASSUME NEW o \in OrderIds, NEW cart \in Carts, Create(o, cart)
      PROVE  TypeOK'
  <2>1. cart \in [Products -> Nat]
    BY CartsAssumption DEF Cart
  <2>2. stock' \in [Products -> Nat]
    BY <1>1, <2>1 DEF Create, InStock, decrementStock, TypeOK
  <2>3. listing' \in [Products -> {"ACTIVE", "OUT_OF_STOCK"}]
    BY <1>1 DEF Create, TypeOK
  <2>4. QED
    BY <1>1, <2>1, <2>2, <2>3 DEF Create, TypeOK, Cart, Statuses
<1>2. ASSUME NEW o \in OrderIds, RemoveCancellation(o)
      PROVE  TypeOK'
  <2>1. ASSUME NEW c \in Calls, call[c].op = "shelve", call[c].order = o
        PROVE  [op |-> "shelve", order |-> o, todo |-> call[c].todo, row |-> FALSE] \in Frame
    <3>1. call[c].todo \in SUBSET Products
      BY <2>1, FrameShape, BusyIsNotIdle
    <3>2. QED
      BY <3>1 DEF Frame
  <2>2. call' \in [Calls -> Frame \cup {Idle}]
    BY <1>2, <2>1 DEF RemoveCancellation, TypeOK
  <2>3. QED
    BY <1>2, <2>2 DEF RemoveCancellation, TypeOK
<1>3. ASSUME NEW c \in Calls, CallStep(c)
      PROVE  TypeOK'
  <2>1. ASSUME NEW o \in OrderIds, NEW to \in transitionStatuses, BeginTransition(c, o, to)
        PROVE  TypeOK'
    <3>1. status[o] \in Statuses /\ to \in Statuses
      BY <2>1, MachineTargets DEF BeginTransition, Exists
    <3>2. QED
      <4>1. [op |-> "commit", order |-> o, seen |-> status[o], to |-> to] \in Frame
        BY <3>1 DEF Frame
      <4>2. QED
        BY <2>1, <4>1 DEF BeginTransition, Goto, TypeOK
  <2>2. ASSUME NEW o \in OrderIds, BeginCancel(c, o)
        PROVE  TypeOK'
    <3>1. status[o] \in Statuses /\ "CANCELLED" \in Statuses
      BY <2>2 DEF BeginCancel, Exists, Statuses
    <3>2. returns' \in [OrderIds -> Nat]
      BY <2>2 DEF BeginCancel, TypeOK
    <3>3. call' \in [Calls -> Frame \cup {Idle}]
      <4>1. /\ [op |-> "restock", order |-> o] \in Frame
            /\ [op |-> "commit", order |-> o, seen |-> status[o], to |-> "CANCELLED"] \in Frame
        BY <3>1 DEF Frame
      <4>2. QED
        BY <2>2, <4>1 DEF BeginCancel, Goto, TypeOK
    <3>4. QED
      BY <2>2, <3>2, <3>3 DEF BeginCancel, TypeOK
  <2>3. ASSUME NEW o \in OrderIds, BeginCancellation(c, o)
        PROVE  TypeOK'
    <3>1. [op |-> "file", order |-> o, seen |-> status[o]] \in Frame
      BY <2>3 DEF BeginCancellation, Exists, Frame
    <3>2. QED
      BY <2>3, <3>1 DEF BeginCancellation, Goto, TypeOK
  <2>4. ASSUME NEW o \in OrderIds, BeginProcess(c, o)
        PROVE  TypeOK'
    <3>1. returns' \in [OrderIds -> Nat]
      BY <2>4 DEF BeginProcess, TypeOK
    <3>2. {p \in Products : lines[o][p] > 0} \in SUBSET Products
      OBVIOUS
    <3>3. call' \in [Calls -> Frame \cup {Idle}]
      BY <2>4, <3>2 DEF BeginProcess, Goto, TypeOK, Frame
    <3>4. QED
      BY <2>4, <3>1, <3>3 DEF BeginProcess, TypeOK
  <2>5. CASE CommitTransition(c)
    <3>1. /\ call[c].order \in OrderIds
          /\ call[c].seen \in Statuses
          /\ call[c].to \in Statuses
      BY <2>5, FrameShape, BusyIsNotIdle DEF CommitTransition
    <3>2. AfterCommit(call[c].order, call[c].to) \in Frame \cup {Idle}
      BY <3>1 DEF AfterCommit, Frame
    <3>3. QED
      BY <2>5, <3>1, <3>2 DEF CommitTransition, Goto, TypeOK
  <2>6. CASE restoreStock(c)
    <3>1. call[c].order \in OrderIds
      BY <2>6, FrameShape, BusyIsNotIdle DEF restoreStock
    <3>2. /\ stock' \in [Products -> Nat]
          /\ listing' \in [Products -> {"ACTIVE", "OUT_OF_STOCK"}]
          /\ Units(call[c].order, Products) \in Cart
      BY <2>6, <3>1, PutBackType DEF restoreStock
    <3>3. returned' \in [OrderIds -> Cart]
      BY <2>6, <3>1, <3>2, PlusType DEF restoreStock, TypeOK
    <3>4. QED
      BY <2>6, <3>2, <3>3 DEF restoreStock, Return, Goto, TypeOK
  <2>7. CASE FileCancellation(c)
    <3>1. call[c].order \in OrderIds /\ call[c].seen \in Statuses
      BY <2>7, FrameShape, BusyIsNotIdle DEF FileCancellation
    <3>2. [op |-> "mark", order |-> call[c].order, seen |-> call[c].seen] \in Frame
      BY <3>1 DEF Frame
    <3>3. call' \in [Calls -> Frame \cup {Idle}]
      BY <2>7, <3>1, <3>2 DEF FileCancellation, Return, Goto, TypeOK
    <3>4. cancellation' \in [OrderIds -> {"none", "open", "restocked", "removed"}]
      BY <2>7, <3>1 DEF FileCancellation, TypeOK
    <3>5. QED
      BY <2>7, <3>3, <3>4 DEF FileCancellation, TypeOK
  <2>8. CASE MarkCancelled(c)
    <3>1. call[c].order \in OrderIds /\ call[c].seen \in Statuses
      BY <2>8, FrameShape, BusyIsNotIdle DEF MarkCancelled
    <3>2. [op |-> "log", order |-> call[c].order, seen |-> call[c].seen] \in Frame
      BY <3>1 DEF Frame
    <3>3. QED
      BY <2>8, <3>1, <3>2 DEF MarkCancelled, Goto, TypeOK, Statuses
  <2>9. CASE LogCancelled(c)
    <3>1. call[c].order \in OrderIds /\ call[c].seen \in Statuses
      BY <2>9, FrameShape, BusyIsNotIdle DEF LogCancelled
    <3>2. QED
      BY <2>9, <3>1 DEF LogCancelled, Return, Goto, TypeOK, Statuses
  <2>10. ASSUME NEW p \in Products, ShelveLine(c, p)
         PROVE  TypeOK'
    <3>1. /\ call[c].order \in OrderIds
          /\ call[c].todo \in SUBSET Products
          /\ call[c].row \in BOOLEAN
      BY <2>10, FrameShape, BusyIsNotIdle DEF ShelveLine
    <3>2. /\ stock' \in [Products -> Nat]
          /\ listing' \in [Products -> {"ACTIVE", "OUT_OF_STOCK"}]
          /\ Units(call[c].order, {p}) \in Cart
      BY <2>10, <3>1, PutBackType DEF ShelveLine
    <3>3. shelved' \in [OrderIds -> Cart]
      BY <2>10, <3>1, <3>2, PlusType DEF ShelveLine, TypeOK
    <3>4. call' \in [Calls -> Frame \cup {Idle}]
      <4>1. [op |-> "shelve", order |-> call[c].order, row |-> call[c].row,
             todo |-> call[c].todo \ {p}] \in Frame
        BY <3>1 DEF Frame
      <4>2. QED
        BY <2>10, <4>1 DEF ShelveLine, Goto, TypeOK
    <3>5. QED
      BY <2>10, <3>2, <3>3, <3>4 DEF ShelveLine, TypeOK
  <2>11. CASE FlagRestocked(c)
    <3>1. call[c].order \in OrderIds
      BY <2>11, FrameShape, BusyIsNotIdle DEF FlagRestocked
    <3>2. QED
      BY <2>11, <3>1 DEF FlagRestocked, Return, Goto, TypeOK
  <2>12. CASE CrashCall(c)
    BY <2>12 DEF CrashCall, Return, Goto, TypeOK
  <2>13. QED
    BY <1>3, <2>1, <2>2, <2>3, <2>4, <2>5, <2>6, <2>7, <2>8, <2>9, <2>10, <2>11, <2>12
       DEF CallStep
<1>4. CASE UNCHANGED vars
  BY <1>4 DEF vars, TypeOK
<1>5. QED
  BY <1>1, <1>2, <1>3, <1>4 DEF Next

\* The rows and the frames stay typed, so stock never goes below zero: the conditional
\* decrement of decrementStock() holds for every shop and every number of calls.
THEOREM TypeCorrect == Spec => []TypeOK
<1>1. Init => TypeOK
  BY InitType
<1>2. TypeOK /\ [Next]_vars => TypeOK'
  BY TypeStep
<1>3. QED
  BY <1>1, <1>2, PTL DEF Spec

-----------------------------------------------------------------------------
(* The storefront's view of the shelf.                                     *)

LEMMA PutBackListing ==
  ASSUME TypeOK, ListingMatchesStock, NEW o \in OrderIds, NEW ps \in SUBSET Products,
         PutBack(o, ps)
  PROVE  ListingMatchesStock'
<1>1. Units(o, ps) \in [Products -> Nat]
  BY PutBackType DEF Cart
<1>2. ASSUME NEW p \in Products
      PROVE  listing'[p] = "OUT_OF_STOCK" <=> stock'[p] = 0
  <2>1. /\ stock[p] \in Nat
        /\ stock'[p] = stock[p] + Units(o, ps)[p]
        /\ listing'[p] = IF Units(o, ps)[p] > 0 THEN "ACTIVE" ELSE listing[p]
    BY <1>1 DEF PutBack, Plus, Relisted, TypeOK
  <2>2. QED
    BY <1>1, <2>1 DEF ListingMatchesStock
<1>3. QED
  BY <1>2 DEF ListingMatchesStock

LEMMA ListingInit == Init => ListingMatchesStock
  BY SupplyAssumption DEF Init, ListingMatchesStock, Cart

LEMMA ListingStep == TypeOK /\ ListingMatchesStock /\ [Next]_vars => ListingMatchesStock'
<1> SUFFICES ASSUME TypeOK, ListingMatchesStock, [Next]_vars
             PROVE  ListingMatchesStock'
  OBVIOUS
<1>1. ASSUME UNCHANGED <<stock, listing>>
      PROVE  ListingMatchesStock'
  BY <1>1 DEF ListingMatchesStock
<1>2. ASSUME NEW o \in OrderIds, NEW cart \in Carts, Create(o, cart)
      PROVE  ListingMatchesStock'
  <2>1. cart \in [Products -> Nat]
    BY CartsAssumption DEF Cart
  <2>2. ASSUME NEW p \in Products
        PROVE  listing'[p] = "OUT_OF_STOCK" <=> stock'[p] = 0
    <3>1. /\ stock[p] \in Nat
          /\ cart[p] \in Nat
          /\ cart[p] <= stock[p]
          /\ stock'[p] = stock[p] - cart[p]
          /\ listing'[p] = IF cart[p] > 0 /\ stock[p] = cart[p] THEN "OUT_OF_STOCK"
                                                                ELSE listing[p]
      BY <1>2, <2>1 DEF Create, InStock, decrementStock, TypeOK
    <3>2. QED
      BY <3>1 DEF ListingMatchesStock
  <2>3. QED
    BY <2>2 DEF ListingMatchesStock
<1>3. ASSUME NEW c \in Calls, CallStep(c)
      PROVE  ListingMatchesStock'
  <2>1. CASE restoreStock(c)
    <3>1. call[c].order \in OrderIds
      BY <2>1, FrameShape, BusyIsNotIdle DEF restoreStock
    <3>2. QED
      BY <2>1, <3>1, PutBackListing DEF restoreStock
  <2>2. ASSUME NEW p \in Products, ShelveLine(c, p)
        PROVE  ListingMatchesStock'
    <3>1. call[c].order \in OrderIds
      BY <2>2, FrameShape, BusyIsNotIdle DEF ShelveLine
    <3>2. QED
      BY <2>2, <3>1, PutBackListing DEF ShelveLine
  <2>3. QED
    BY <1>1, <1>3, <2>1, <2>2
       DEF CallStep, BeginTransition, BeginCancel, BeginCancellation, BeginProcess,
           CommitTransition, FileCancellation, MarkCancelled, LogCancelled,
           FlagRestocked, CrashCall
<1>4. QED
  BY <1>1, <1>2, <1>3 DEF Next, RemoveCancellation, vars

\* A product is listed as out of stock exactly when its last unit is gone, however many
\* checkouts, cancellations and restocks overlap.
THEOREM ListingCorrect == Spec => []ListingMatchesStock
<1>1. TypeOK /\ ListingMatchesStock /\ [Next]_vars => TypeOK' /\ ListingMatchesStock'
  BY TypeStep, ListingStep
<1>2. QED
  BY <1>1, InitType, ListingInit, PTL DEF Spec

-----------------------------------------------------------------------------
(* Units return to the shelf only after a cancellation.                    *)

Recorded(o) == cancellation[o] # "none"
Cancelled(o) == WasCancelled(o) \/ Recorded(o)

\* A call that is about to put units back, or to finish a cancellation, was let through
\* by a cancellation that is still visible.
RestockInv ==
  /\ \A o \in OrderIds : status[o] = "CANCELLED" => Cancelled(o)
  /\ \A c \in Calls, o \in OrderIds : call[c].op # "idle" /\ call[c].order = o =>
       /\ call[c].op = "restock" => Cancelled(o)
       /\ call[c].op \in {"mark", "log", "shelve"} => Recorded(o)
  /\ RestockNeedsCancellation

\* No step erases the trace of a cancellation: deleting a record leaves it removed, and
\* audit rows are only added.
LEMMA CancelledForGood ==
  ASSUME TypeOK, [Next]_vars, NEW o \in OrderIds
  PROVE  /\ Recorded(o) => Recorded(o)'
         /\ Cancelled(o) => Cancelled(o)'
<1>1. Recorded(o) => Recorded(o)'
  <2>1. ASSUME NEW c \in Calls, CallStep(c), Recorded(o)
        PROVE  Recorded(o)'
    <3>1. CASE FileCancellation(c)
      <4>1. call[c].order \in OrderIds
        BY <3>1, FrameShape, BusyIsNotIdle DEF FileCancellation
      <4>2. QED
        BY <2>1, <3>1, <4>1 DEF FileCancellation, Recorded, TypeOK
    <3>2. CASE FlagRestocked(c)
      <4>1. call[c].order \in OrderIds
        BY <3>2, FrameShape, BusyIsNotIdle DEF FlagRestocked
      <4>2. QED
        BY <2>1, <3>2, <4>1 DEF FlagRestocked, Recorded, TypeOK
    <3>3. QED
      BY <2>1, <3>1, <3>2
         DEF CallStep, BeginTransition, BeginCancel, BeginCancellation, BeginProcess,
             CommitTransition, restoreStock, MarkCancelled, LogCancelled, ShelveLine,
             CrashCall, Recorded
  <2>2. ASSUME NEW o2 \in OrderIds, RemoveCancellation(o2), Recorded(o)
        PROVE  Recorded(o)'
    BY <2>2 DEF RemoveCancellation, Recorded, TypeOK
  <2>3. QED
    BY <2>1, <2>2 DEF Next, Create, Recorded, vars
<1>2. history[o] \subseteq history'[o]
  <2>1. ASSUME NEW c \in Calls, CallStep(c)
        PROVE  history[o] \subseteq history'[o]
    <3>1. CASE CommitTransition(c)
      BY <3>1 DEF CommitTransition, TypeOK
    <3>2. CASE LogCancelled(c)
      BY <3>2 DEF LogCancelled, TypeOK
    <3>3. QED
      BY <2>1, <3>1, <3>2
         DEF CallStep, BeginTransition, BeginCancel, BeginCancellation, BeginProcess,
             FileCancellation, restoreStock, MarkCancelled, ShelveLine, FlagRestocked,
             CrashCall
  <2>2. QED
    BY <2>1 DEF Next, Create, RemoveCancellation, vars
<1>3. QED
  BY <1>1, <1>2 DEF Cancelled, WasCancelled

\* A call that moves on keeps the invariant when its new frame is let through too, and
\* the step cancels and shelves nothing that was not.
LEMMA MoveOn ==
  ASSUME TypeOK, RestockInv, [Next]_vars, NEW c \in Calls,
         \A d \in Calls : d # c => call'[d] = call[d],
         \A o \in OrderIds : call'[c].op # "idle" /\ call'[c].order = o =>
           /\ call'[c].op = "restock" => Cancelled(o)'
           /\ call'[c].op \in {"mark", "log", "shelve"} => Recorded(o)',
         \A o \in OrderIds :
           /\ status'[o] = status[o] \/ status'[o] # "CANCELLED" \/ Cancelled(o)'
           /\ returned'[o] = returned[o] \/ Cancelled(o)
           /\ shelved'[o] = shelved[o] \/ Recorded(o)
  PROVE  RestockInv'
<1>1. ASSUME NEW o \in OrderIds
      PROVE  (status[o] = "CANCELLED" => Cancelled(o))'
  BY CancelledForGood DEF RestockInv
<1>2. ASSUME NEW d \in Calls, NEW o \in OrderIds, call'[d].op # "idle", call'[d].order = o
      PROVE  /\ call'[d].op = "restock" => Cancelled(o)'
             /\ call'[d].op \in {"mark", "log", "shelve"} => Recorded(o)'
  <2>1. CASE d = c
    BY <1>2, <2>1
  <2>2. CASE d # c
    BY <1>2, <2>2, CancelledForGood DEF RestockInv
  <2>3. QED
    BY <2>1, <2>2
<1>3. RestockNeedsCancellation'
  BY CancelledForGood
     DEF RestockInv, RestockNeedsCancellation, Cancelled, Recorded
<1>4. QED
  BY <1>1, <1>2, <1>3 DEF RestockInv

LEMMA RestockInit == Init => RestockInv
  BY DEF Init, RestockInv, RestockNeedsCancellation, Idle

LEMMA RestockStep == TypeOK /\ RestockInv /\ [Next]_vars => RestockInv'
<1> SUFFICES ASSUME TypeOK, RestockInv, [Next]_vars
             PROVE  RestockInv'
  OBVIOUS
<1>1. ASSUME NEW o \in OrderIds, NEW cart \in Carts, Create(o, cart)
      PROVE  RestockInv'
  BY <1>1, CancelledForGood
     DEF Create, RestockInv, RestockNeedsCancellation, Cancelled, Recorded, WasCancelled,
         TypeOK
<1>2. ASSUME NEW o \in OrderIds, RemoveCancellation(o)
      PROVE  RestockInv'
  <2>1. \A c \in Calls : call'[c].op = call[c].op /\ (call[c].op # "idle" => call'[c].order = call[c].order)
    BY <1>2 DEF RemoveCancellation
  <2>2. QED
    BY <1>2, <2>1, CancelledForGood
       DEF RemoveCancellation, RestockInv, RestockNeedsCancellation, Cancelled, Recorded
<1>3. ASSUME NEW c \in Calls, CallStep(c)
      PROVE  RestockInv'
  <2> DEFINE Same == UNCHANGED <<status, returned, shelved>>
  <2>0. call \in [Calls -> Frame \cup {Idle}]
    BY DEF TypeOK
  <2>1. ASSUME NEW o \in OrderIds, NEW to \in transitionStatuses, BeginTransition(c, o, to)
        PROVE  RestockInv'
    <3>1. Same /\ call' = [call EXCEPT ![c] = [op |-> "commit", order |-> o,
                                                seen |-> status[o], to |-> to]]
      BY <2>1 DEF BeginTransition, Goto
    <3>2. QED
      BY <2>0, <3>1, MoveOn
  <2>2. ASSUME NEW o \in OrderIds, BeginCancel(c, o)
        PROVE  RestockInv'
    <3>1. CASE /\ AlreadyCancelled(o)
               /\ Same /\ call' = [call EXCEPT ![c] = [op |-> "restock", order |-> o]]
      <4>1. Cancelled(o)'
        BY <3>1, CancelledForGood DEF AlreadyCancelled, RestockInv
      <4>2. QED
        BY <2>0, <3>1, <4>1, MoveOn
    <3>2. CASE Same /\ call' = [call EXCEPT ![c] = [op |-> "commit", order |-> o,
                                                     seen |-> status[o], to |-> "CANCELLED"]]
      BY <2>0, <3>2, MoveOn
    <3>3. QED
      BY <2>2, <3>1, <3>2 DEF BeginCancel, Goto
  <2>3. ASSUME NEW o \in OrderIds, BeginCancellation(c, o)
        PROVE  RestockInv'
    <3>1. Same /\ call' = [call EXCEPT ![c] = [op |-> "file", order |-> o,
                                                seen |-> status[o]]]
      BY <2>3 DEF BeginCancellation, Goto
    <3>2. QED
      BY <2>0, <3>1, MoveOn
  <2>4. ASSUME NEW o \in OrderIds, BeginProcess(c, o)
        PROVE  RestockInv'
    <3>1. Same /\ call' = [call EXCEPT ![c] =
                             [op |-> "shelve", order |-> o, row |-> TRUE,
                              todo |-> {p \in Products : lines[o][p] > 0}]]
      BY <2>4 DEF BeginProcess, Goto
    <3>2. Recorded(o)'
      BY <2>4 DEF BeginProcess, Recorded
    <3>3. QED
      BY <2>0, <3>1, <3>2, MoveOn
  <2>5. CASE CommitTransition(c)
    <3> DEFINE o == call[c].order
    <3>1. /\ o \in OrderIds
          /\ call[c].seen \in Statuses
          /\ call' = [call EXCEPT ![c] = AfterCommit(o, call[c].to)]
          /\ status' = [status EXCEPT ![o] = call[c].to]
          /\ history' = [history EXCEPT ![o] = @ \cup {<<call[c].seen, call[c].to>>}]
          /\ UNCHANGED <<returned, shelved>>
      BY <2>5, FrameShape, BusyIsNotIdle DEF CommitTransition, Goto
    <3>2. call[c].to = "CANCELLED" => \E from \in Statuses : <<from, "CANCELLED">> \in history'[o]
      BY <3>1 DEF TypeOK
    <3>3. call[c].to = "CANCELLED" => \A x \in OrderIds : x = o => Cancelled(x)'
      BY <3>2 DEF Cancelled, WasCancelled
    <3>4. \A x \in OrderIds : status'[x] = status[x] \/ status'[x] # "CANCELLED" \/ Cancelled(x)'
      BY <3>1, <3>3 DEF TypeOK
    <3>5. \A x \in OrderIds : call'[c].op # "idle" /\ call'[c].order = x =>
            /\ call'[c].op = "restock" => Cancelled(x)'
            /\ call'[c].op \in {"mark", "log", "shelve"} => Recorded(x)'
      BY <2>0, <3>1, <3>3 DEF AfterCommit, Idle
    <3>6. QED
      BY <2>0, <3>1, <3>4, <3>5, MoveOn
  <2>6. CASE restoreStock(c)
    <3>1. /\ call' = [call EXCEPT ![c] = Idle]
          /\ returned' = [returned EXCEPT ![call[c].order] =
                            Plus(@, Units(call[c].order, Products))]
          /\ UNCHANGED <<status, shelved>>
      BY <2>6 DEF restoreStock, Return, Goto
    <3>2. \A o \in OrderIds : returned'[o] = returned[o] \/ Cancelled(o)
      BY <2>6, <3>1 DEF restoreStock, RestockInv, TypeOK
    <3>3. QED
      BY <2>0, <3>1, <3>2, MoveOn DEF Idle
  <2>7. CASE FileCancellation(c)
    <3> DEFINE o == call[c].order
    <3>1. o \in OrderIds
      BY <2>7, FrameShape, BusyIsNotIdle DEF FileCancellation
    <3>2. CASE /\ cancellation' = [cancellation EXCEPT ![o] = "open"]
               /\ call' = [call EXCEPT ![c] = [op |-> "mark", order |-> o, seen |-> call[c].seen]]
               /\ Same
      <4>1. \A x \in OrderIds : x = o => Recorded(x)'
        BY <3>1, <3>2 DEF Recorded, TypeOK
      <4>2. QED
        BY <2>0, <3>2, <4>1, MoveOn
    <3>3. CASE Same /\ call' = [call EXCEPT ![c] = Idle]
      BY <2>0, <3>3, MoveOn DEF Idle
    <3>4. QED
      BY <2>7, <3>2, <3>3 DEF FileCancellation, Return, Goto
  <2>8. CASE MarkCancelled(c)
    <3> DEFINE o == call[c].order
    <3>1. /\ status' = [status EXCEPT ![o] = "CANCELLED"]
          /\ call' = [call EXCEPT ![c] = [op |-> "log", order |-> o, seen |-> call[c].seen]]
          /\ UNCHANGED <<returned, shelved>>
      BY <2>8 DEF MarkCancelled, Goto
    <3>2. \A x \in OrderIds : x = o => Recorded(x)' /\ Cancelled(x)'
      BY <2>8, CancelledForGood DEF MarkCancelled, RestockInv, Cancelled
    <3>3. \A x \in OrderIds : status'[x] = status[x] \/ Cancelled(x)'
      BY <3>1, <3>2 DEF TypeOK
    <3>4. QED
      BY <2>0, <3>1, <3>2, <3>3, MoveOn
  <2>9. CASE LogCancelled(c) \/ FlagRestocked(c) \/ CrashCall(c)
    <3>1. Same /\ call' = [call EXCEPT ![c] = Idle]
      BY <2>9 DEF LogCancelled, FlagRestocked, CrashCall, Return, Goto
    <3>2. QED
      BY <2>0, <3>1, MoveOn DEF Idle
  <2>10. ASSUME NEW p \in Products, ShelveLine(c, p)
         PROVE  RestockInv'
    <3> DEFINE o == call[c].order
    <3>1. /\ call' = [call EXCEPT ![c] = [op |-> "shelve", order |-> o, row |-> call[c].row,
                                          todo |-> call[c].todo \ {p}]]
          /\ shelved' = [shelved EXCEPT ![o] = Plus(@, Units(o, {p}))]
          /\ UNCHANGED <<status, returned>>
      BY <2>10 DEF ShelveLine, Goto
    <3>2. \A x \in OrderIds : x = o => Recorded(x) /\ Recorded(x)'
      BY <2>10, CancelledForGood DEF ShelveLine, RestockInv
    <3>3. \A x \in OrderIds : shelved'[x] = shelved[x] \/ Recorded(x)
      BY <3>1, <3>2 DEF TypeOK
    <3>4. QED
      BY <2>0, <3>1, <3>2, <3>3, MoveOn
  <2>11. QED
    BY <1>3, <2>1, <2>2, <2>3, <2>4, <2>5, <2>6, <2>7, <2>8, <2>9, <2>10 DEF CallStep
<1>4. CASE UNCHANGED vars
  BY <1>4 DEF vars, RestockInv, RestockNeedsCancellation, Cancelled, Recorded, WasCancelled
<1>5. QED
  BY <1>1, <1>2, <1>3, <1>4 DEF Next

\* Units go back on the shelf only for an order somebody cancelled, however calls
\* overlap, crash and repeat.
THEOREM RestockCorrect == Spec => []RestockNeedsCancellation
<1>1. TypeOK /\ RestockInv /\ [Next]_vars => TypeOK' /\ RestockInv'
  BY TypeStep, RestockStep
<1>2. RestockInv => RestockNeedsCancellation
  BY DEF RestockInv
<1>3. QED
  BY <1>1, <1>2, InitType, RestockInit, PTL DEF Spec

-----------------------------------------------------------------------------
(* Moves off the state machine are those of a call that was overtaken.     *)

\* A commit in flight is a move its transaction read as legal, and a cancellation that is
\* about to update its order read it as one to cancel and has its record.
ReadAsLegal ==
  \A c \in Calls :
    /\ call[c].op = "commit" => /\ call[c].seen \in Statuses
                                /\ call[c].to \in ORDER_TRANSITIONS[call[c].seen]
    /\ call[c].op \in {"file", "mark"} =>
         call[c].seen \in {"PENDING_PAYMENT", "PAID", "PROCESSING", "SHIPPED"}
    /\ call[c].op = "mark" => Recorded(call[c].order)

LEMMA CancelledIsFinal ==
  /\ ORDER_TRANSITIONS["CANCELLED"] = {}
  /\ \A s \in Statuses : "CANCELLED" \in ORDER_TRANSITIONS[s] <=> s = "PENDING_PAYMENT"
  BY DEF ORDER_TRANSITIONS, Statuses

LEMMA ReadAsLegalInit == Init => ReadAsLegal
  BY DEF Init, Idle, ReadAsLegal

LEMMA ReadAsLegalStep == TypeOK /\ ReadAsLegal /\ [Next]_vars => ReadAsLegal'
<1> SUFFICES ASSUME TypeOK, ReadAsLegal, [Next]_vars
             PROVE  ReadAsLegal'
  OBVIOUS
<1>0. /\ call \in [Calls -> Frame \cup {Idle}]
      /\ cancellation \in [OrderIds -> {"none", "open", "restocked", "removed"}]
  BY DEF TypeOK
<1> DEFINE Open == {"PENDING_PAYMENT", "PAID", "PROCESSING", "SHIPPED"}
<1>1. ASSUME NEW d \in Calls, call'[d] = call[d]
      PROVE  /\ call'[d].op = "commit" => /\ call'[d].seen \in Statuses
                                          /\ call'[d].to \in ORDER_TRANSITIONS[call'[d].seen]
             /\ call'[d].op \in {"file", "mark"} => call'[d].seen \in Open
             /\ call'[d].op = "mark" => cancellation'[call'[d].order] # "none"
  <2>1. call[d].op = "mark" => call[d].order \in OrderIds
    BY <1>0, FrameShape, BusyIsNotIdle
  <2>2. ASSUME NEW o \in OrderIds, call[d].op = "mark", call[d].order = o
        PROVE  cancellation'[o] # "none"
    <3>1. Recorded(o) => Recorded(o)'
      BY CancelledForGood
    <3>2. QED
      BY <2>2, <3>1 DEF ReadAsLegal, Recorded
  <2>3. call[d].op = "mark" => cancellation'[call[d].order] # "none"
    BY <2>1, <2>2
  <2>4. QED
    BY <1>1, <2>3 DEF ReadAsLegal
<1>2. ASSUME NEW c \in Calls, NEW f, call' = [call EXCEPT ![c] = f],
             /\ f.op = "commit" => f.seen \in Statuses /\ f.to \in ORDER_TRANSITIONS[f.seen]
             /\ f.op \in {"file", "mark"} => f.seen \in Open
             /\ f.op = "mark" => cancellation'[f.order] # "none"
      PROVE  ReadAsLegal'
  <2>1. call'[c] = f /\ \A d \in Calls : d # c => call'[d] = call[d]
    BY <1>0, <1>2
  <2>2. QED
    BY <1>1, <1>2, <2>1 DEF ReadAsLegal, Recorded
<1>3. CASE UNCHANGED call
  BY <1>1, <1>3 DEF ReadAsLegal, Recorded
<1>4. ASSUME NEW o \in OrderIds, RemoveCancellation(o)
      PROVE  ReadAsLegal'
  <2>1. \A d \in Calls : call'[d] = call[d] \/ call'[d].op = "shelve"
    BY <1>4 DEF RemoveCancellation
  <2>2. QED
    BY <1>1, <2>1 DEF ReadAsLegal, Recorded
<1>5. ASSUME NEW c \in Calls, NEW o \in OrderIds, NEW to, BeginTransition(c, o, to)
      PROVE  ReadAsLegal'
  BY <1>2, <1>5 DEF BeginTransition, Exists, Goto
<1>6. ASSUME NEW c \in Calls, NEW o \in OrderIds, BeginCancel(c, o)
      PROVE  ReadAsLegal'
  <2>1. CASE call' = [call EXCEPT ![c] = [op |-> "restock", order |-> o]]
    BY <1>2, <2>1
  <2>2. CASE /\ "CANCELLED" \in ORDER_TRANSITIONS[status[o]]
             /\ call' = [call EXCEPT ![c] = [op |-> "commit", order |-> o,
                                             seen |-> status[o], to |-> "CANCELLED"]]
    BY <1>2, <1>6, <2>2 DEF BeginCancel, Exists
  <2>3. QED
    BY <1>6, <2>1, <2>2 DEF BeginCancel, Goto
<1>7. ASSUME NEW c \in Calls, CommitTransition(c)
      PROVE  ReadAsLegal'
  <2>1. CASE call' = [call EXCEPT ![c] = [op |-> "restock", order |-> call[c].order]]
    BY <1>2, <2>1
  <2>2. CASE call' = [call EXCEPT ![c] = Idle]
    BY <1>2, <2>2 DEF Idle
  <2>3. QED
    BY <1>7, <2>1, <2>2 DEF CommitTransition, AfterCommit, Goto
<1>8. ASSUME NEW c \in Calls, FileCancellation(c)
      PROVE  ReadAsLegal'
  <2>1. call[c].order \in OrderIds
    BY <1>0, <1>8, FrameShape, BusyIsNotIdle DEF FileCancellation
  <2>2. CASE /\ cancellation' = [cancellation EXCEPT ![call[c].order] = "open"]
             /\ call' = [call EXCEPT ![c] = [op |-> "mark", order |-> call[c].order,
                                             seen |-> call[c].seen]]
    <3>1. cancellation'[call[c].order] = "open" /\ call[c].seen \in Open
      BY <1>0, <1>8, <2>1, <2>2 DEF FileCancellation, ReadAsLegal
    <3>2. QED
      BY <1>2, <2>2, <3>1
  <2>3. CASE call' = [call EXCEPT ![c] = Idle]
    BY <1>2, <2>3 DEF Idle
  <2>4. QED
    BY <1>8, <2>2, <2>3 DEF FileCancellation, Return, Goto
<1>9. ASSUME NEW c \in Calls,
             \/ MarkCancelled(c) \/ restoreStock(c) \/ LogCancelled(c) \/ FlagRestocked(c)
             \/ CrashCall(c)
      PROVE  ReadAsLegal'
  BY <1>2, <1>9
     DEF MarkCancelled, restoreStock, LogCancelled, FlagRestocked, CrashCall, Return, Goto, Idle
<1>10. ASSUME NEW c \in Calls, NEW o \in OrderIds, BeginCancellation(c, o)
       PROVE  ReadAsLegal'
  <2>1. /\ status[o] \in Open
        /\ call' = [call EXCEPT ![c] = [op |-> "file", order |-> o, seen |-> status[o]]]
    BY <1>10 DEF BeginCancellation, Cancellable, Exists, Statuses, Goto
  <2>2. QED
    BY <1>2, <2>1
<1>11. ASSUME NEW c \in Calls, NEW o \in OrderIds, BeginProcess(c, o)
       PROVE  ReadAsLegal'
  BY <1>2, <1>11 DEF BeginProcess, Goto
<1>12. ASSUME NEW c \in Calls, NEW p \in Products, ShelveLine(c, p)
       PROVE  ReadAsLegal'
  BY <1>2, <1>12 DEF ShelveLine, Goto
<1>13. QED
  BY <1>3, <1>4, <1>5, <1>6, <1>7, <1>8, <1>9, <1>10, <1>11, <1>12
     DEF Next, CallStep, Create, vars

\* What a step does to the status of an order.
LEMMA StatusWriters ==
  ASSUME [Next]_vars, NEW o \in OrderIds, status'[o] # status[o]
  PROVE  \/ \E cart \in Carts, x \in OrderIds : Create(x, cart)
         \/ \E c \in Calls : CommitTransition(c) \/ MarkCancelled(c)
BY DEF Next, CallStep, RemoveCancellation, BeginTransition, BeginCancel, BeginCancellation,
       BeginProcess, restoreStock, FileCancellation, LogCancelled, ShelveLine, FlagRestocked,
       CrashCall, vars

LEMMA LegalOrOvertaken ==
  ASSUME TypeOK, ReadAsLegal, [Next]_vars, NEW o \in OrderIds, status'[o] # status[o]
  PROVE  LegalMove(o) \/ \E c \in Calls : Overtaken(c, o)
<1>0. /\ status \in [OrderIds -> Statuses \cup {"none"}]
      /\ call \in [Calls -> Frame \cup {Idle}]
  BY DEF TypeOK
<1>1. ASSUME NEW x \in OrderIds, NEW cart \in Carts, Create(x, cart)
      PROVE  LegalMove(o)
  BY <1>0, <1>1 DEF Create, LegalMove
<1>2. ASSUME NEW c \in Calls, CommitTransition(c)
      PROVE  LegalMove(o) \/ Overtaken(c, o)
  <2>1. /\ call[c].op = "commit"
        /\ status' = [status EXCEPT ![call[c].order] = call[c].to]
        /\ call' = [call EXCEPT ![c] = AfterCommit(call[c].order, call[c].to)]
    BY <1>2 DEF CommitTransition, Goto
  <2>2. call[c].order = o /\ status'[o] = call[c].to
    BY <1>0, <2>1
  <2>3. call'[c] # call[c]
    BY <1>0, <2>1 DEF AfterCommit, Idle
  <2>4. CASE call[c].seen = status[o]
    BY <2>1, <2>2, <2>4 DEF ReadAsLegal, LegalMove, Exists
  <2>5. CASE call[c].seen # status[o]
    BY <2>1, <2>2, <2>3, <2>5 DEF Overtaken
  <2>6. QED
    BY <2>4, <2>5
<1>3. ASSUME NEW c \in Calls, MarkCancelled(c)
      PROVE  LegalMove(o) \/ Overtaken(c, o)
  <2>1. /\ call[c].op = "mark"
        /\ status' = [status EXCEPT ![call[c].order] = "CANCELLED"]
        /\ call'[c].op = "log"
    BY <1>0, <1>3 DEF MarkCancelled, Goto
  <2>2. call[c].order = o /\ status'[o] = "CANCELLED"
    BY <1>0, <2>1
  <2>3. call'[c] # call[c]
    BY <2>1
  <2>4. CASE call[c].seen = status[o]
    <3>1. /\ status[o] \in {"PENDING_PAYMENT", "PAID", "PROCESSING", "SHIPPED"}
          /\ cancellation[o] # "none"
      BY <2>1, <2>2, <2>4 DEF ReadAsLegal, Recorded
    <3>2. CASE status[o] = "PENDING_PAYMENT"
      BY <2>2, <3>2, CancelledIsFinal DEF LegalMove, Exists, Statuses
    <3>3. CASE status[o] \in {"PAID", "PROCESSING", "SHIPPED"}
      BY <2>2, <3>1, <3>3 DEF LegalMove
    <3>4. QED
      BY <3>1, <3>2, <3>3
  <2>5. CASE call[c].seen # status[o]
    BY <2>1, <2>2, <2>3, <2>5 DEF Overtaken
  <2>6. QED
    BY <2>4, <2>5
<1>4. QED
  BY <1>1, <1>2, <1>3, StatusWriters

\* However many calls overlap, a status move off ORDER_TRANSITIONS is the write of a call that
\* read the order in another status: what transition() and create() check is enough but for the
\* update by id alone.
THEOREM MovesLegal == Spec => MovesFollowTheMachine
<1> DEFINE Moves == \A o \in OrderIds : status'[o] # status[o] =>
                      LegalMove(o) \/ \E c \in Calls : Overtaken(c, o)
<1>1. TypeOK /\ ReadAsLegal /\ [Next]_vars => [Moves]_vars
  BY LegalOrOvertaken
<1>2. QED
  BY <1>1, InitType, TypeStep, ReadAsLegalInit, ReadAsLegalStep, PTL
     DEF Spec, MovesFollowTheMachine

-----------------------------------------------------------------------------
(* Units are neither made nor lost, and no return of stock runs twice.     *)

\* An order not created yet has no lines, no returns, no record and no call.
Pristine(o) ==
  /\ lines[o] = Nothing /\ returned[o] = Nothing /\ shelved[o] = Nothing
  /\ returns[o] = 0 /\ cancellation[o] = "none"
  /\ \A c \in Calls : call[c] # Idle => call[c].order # o
FreshInv == \A o \in OrderIds : status[o] = "none" => Pristine(o)

\* A call works on an order that exists.
LEMMA BusyExists ==
  ASSUME TypeOK, FreshInv, NEW c \in Calls, call[c] # Idle
  PROVE  call[c].order \in OrderIds /\ status[call[c].order] # "none"
  BY FrameShape DEF FreshInv, Pristine

\* No step but a checkout touches such an order.
LEMMA FreshStep == TypeOK /\ FreshInv /\ [Next]_vars => FreshInv'
<1> SUFFICES ASSUME TypeOK, FreshInv, [Next]_vars, NEW o \in OrderIds, status'[o] = "none"
             PROVE  Pristine(o)'
  BY DEF FreshInv
<1>0. "none" \notin Statuses
  BY DEF Statuses
<1>1. ASSUME NEW o2 \in OrderIds, NEW cart \in Carts, Create(o2, cart)
      PROVE  Pristine(o)'
  <2>1. o # o2 /\ status[o] = "none"
    BY <1>1 DEF Create, TypeOK
  <2>2. lines'[o] = lines[o]
    BY <1>1, <2>1 DEF Create, TypeOK
  <2>3. QED
    BY <1>1, <2>1, <2>2 DEF Create, FreshInv, Pristine
<1>2. ASSUME NEW o2 \in OrderIds, RemoveCancellation(o2)
      PROVE  Pristine(o)'
  <2>1. status[o] = "none" /\ Pristine(o)
    BY <1>2 DEF RemoveCancellation, FreshInv
  <2>2. o # o2
    BY <1>2, <2>1 DEF RemoveCancellation, HasRow, Pristine
  <2>3. cancellation'[o] = cancellation[o]
    BY <1>2, <2>2 DEF RemoveCancellation, TypeOK
  <2>4. \A c \in Calls : call'[c] # Idle => call'[c].order # o
    BY <1>2, <2>1, <2>2 DEF RemoveCancellation, Pristine
  <2>5. QED
    BY <1>2, <2>1, <2>3, <2>4 DEF RemoveCancellation, Pristine
<1>3. ASSUME NEW c \in Calls, CallStep(c)
      PROVE  Pristine(o)'
  <2>0. ASSUME status[o] = "none",
               /\ lines'[o] = lines[o] /\ returned'[o] = returned[o]
               /\ shelved'[o] = shelved[o] /\ returns'[o] = returns[o]
               /\ cancellation'[o] = cancellation[o],
               call'[c] # Idle => call'[c].order # o,
               \A d \in Calls : d # c => call'[d] = call[d]
        PROVE  Pristine(o)'
    BY <2>0 DEF FreshInv, Pristine
  <2>1. ASSUME NEW o2 \in OrderIds, NEW to \in transitionStatuses, BeginTransition(c, o2, to)
        PROVE  Pristine(o)'
    BY <1>0, <2>0, <2>1 DEF BeginTransition, Exists, Goto, TypeOK
  <2>2. ASSUME NEW o2 \in OrderIds, BeginCancel(c, o2)
        PROVE  Pristine(o)'
    <3>1. status[o] = "none" /\ o # o2
      BY <1>0, <2>2 DEF BeginCancel, Exists
    <3>2. returns'[o] = returns[o]
      BY <2>2, <3>1 DEF BeginCancel, TypeOK
    <3>3. call'[c].order = o2 /\ \A d \in Calls : d # c => call'[d] = call[d]
      BY <2>2 DEF BeginCancel, Goto, TypeOK
    <3>4. QED
      BY <2>0, <2>2, <3>1, <3>2, <3>3 DEF BeginCancel
  <2>3. ASSUME NEW o2 \in OrderIds, BeginCancellation(c, o2)
        PROVE  Pristine(o)'
    BY <1>0, <2>0, <2>3 DEF BeginCancellation, Exists, Goto, TypeOK
  <2>4. ASSUME NEW o2 \in OrderIds, BeginProcess(c, o2)
        PROVE  Pristine(o)'
    <3>1. status[o] = "none" /\ o # o2
      BY <2>4 DEF BeginProcess, FreshInv, Pristine
    <3>2. returns'[o] = returns[o]
      BY <2>4, <3>1 DEF BeginProcess, TypeOK
    <3>3. call'[c].order = o2 /\ \A d \in Calls : d # c => call'[d] = call[d]
      BY <2>4 DEF BeginProcess, Goto, TypeOK
    <3>4. QED
      BY <2>0, <2>4, <3>1, <3>2, <3>3 DEF BeginProcess
  <2>5. ASSUME call[c] # Idle,
               \A x \in OrderIds : x # call[c].order =>
                 /\ status'[x] = status[x]
                 /\ lines'[x] = lines[x] /\ returned'[x] = returned[x]
                 /\ shelved'[x] = shelved[x] /\ returns'[x] = returns[x]
                 /\ cancellation'[x] = cancellation[x],
               status'[call[c].order] # "none",
               call'[c] # Idle => call'[c].order = call[c].order,
               \A d \in Calls : d # c => call'[d] = call[d]
        PROVE  Pristine(o)'
    <3>1. o # call[c].order
      BY <2>5
    <3>2. QED
      BY <2>0, <2>5, <3>1
  <2>6. CASE CommitTransition(c)
    <3>1. call[c] # Idle /\ call[c].order \in OrderIds /\ call[c].to \in Statuses
      BY <2>6, FrameShape, BusyIsNotIdle DEF CommitTransition
    <3>2. call'[c] # Idle => call'[c].order = call[c].order
      BY <2>6 DEF CommitTransition, Goto, AfterCommit, TypeOK
    <3>3. QED
      BY <1>0, <2>5, <2>6, <3>1, <3>2 DEF CommitTransition, Goto, TypeOK
  <2>7. CASE restoreStock(c)
    <3>1. call[c] # Idle /\ call[c].order \in OrderIds /\ status[call[c].order] # "none"
      BY <2>7, BusyExists, BusyIsNotIdle DEF restoreStock
    <3>2. QED
      BY <2>5, <2>7, <3>1 DEF restoreStock, Return, Goto, TypeOK
  <2>8. CASE FileCancellation(c)
    <3>1. call[c] # Idle /\ call[c].order \in OrderIds /\ status[call[c].order] # "none"
      BY <2>8, BusyExists, BusyIsNotIdle DEF FileCancellation
    <3>2. call'[c] # Idle => call'[c].order = call[c].order
      BY <2>8 DEF FileCancellation, Return, Goto, TypeOK
    <3>3. QED
      BY <2>5, <2>8, <3>1, <3>2 DEF FileCancellation, Return, Goto, TypeOK
  <2>9. CASE MarkCancelled(c)
    <3>1. call[c] # Idle /\ call[c].order \in OrderIds
      BY <2>9, FrameShape, BusyIsNotIdle DEF MarkCancelled
    <3>2. QED
      BY <2>5, <2>9, <3>1 DEF MarkCancelled, Goto, TypeOK
  <2>10. CASE LogCancelled(c)
    <3>1. call[c] # Idle /\ call[c].order \in OrderIds /\ status[call[c].order] # "none"
      BY <2>10, BusyExists, BusyIsNotIdle DEF LogCancelled
    <3>2. QED
      BY <2>5, <2>10, <3>1 DEF LogCancelled, Return, Goto, TypeOK
  <2>11. ASSUME NEW p \in Products, ShelveLine(c, p)
         PROVE  Pristine(o)'
    <3>1. call[c] # Idle /\ call[c].order \in OrderIds /\ status[call[c].order] # "none"
      BY <2>11, BusyExists, BusyIsNotIdle DEF ShelveLine
    <3>2. QED
      BY <2>5, <2>11, <3>1 DEF ShelveLine, Goto, TypeOK
  <2>12. CASE FlagRestocked(c)
    <3>1. call[c] # Idle /\ call[c].order \in OrderIds /\ status[call[c].order] # "none"
      BY <2>12, BusyExists, BusyIsNotIdle DEF FlagRestocked
    <3>2. QED
      BY <2>5, <2>12, <3>1 DEF FlagRestocked, Return, Goto, TypeOK
  <2>13. CASE CrashCall(c)
    BY <2>0, <2>13 DEF CrashCall, Return, Goto, TypeOK
  <2>14. QED
    BY <1>3, <2>1, <2>2, <2>3, <2>4, <2>6, <2>7, <2>8, <2>9, <2>10, <2>11, <2>12, <2>13
       DEF CallStep
<1>4. CASE UNCHANGED vars
  BY <1>4 DEF vars, FreshInv, Pristine
<1>5. QED
  BY <1>1, <1>2, <1>3, <1>4 DEF Next

AccountedFor(p) ==
  stock[p] + SumFunction([o \in OrderIds |-> lines[o][p]])
    = Supply[p] + SumFunction([o \in OrderIds |-> returned[o][p] + shelved[o][p]])

\* What leaves the shelf for one order, or comes back from it, is on both sides.
LEMMA UnitsMove ==
  ASSUME TypeOK, TypeOK', NEW p \in Products, AccountedFor(p), NEW o \in OrderIds,
         \A x \in OrderIds : x # o =>
           lines'[x] = lines[x] /\ returned'[x] = returned[x] /\ shelved'[x] = shelved[x],
         stock'[p] + lines'[o][p] + returned[o][p] + shelved[o][p]
           = stock[p] + lines[o][p] + returned'[o][p] + shelved'[o][p]
  PROVE  AccountedFor(p)'
<1> DEFINE L1 == [x \in OrderIds |-> lines[x][p]]
           L2 == [x \in OrderIds |-> lines'[x][p]]
           R1 == [x \in OrderIds |-> returned[x][p] + shelved[x][p]]
           R2 == [x \in OrderIds |-> returned'[x][p] + shelved'[x][p]]
<1>1. \A x \in OrderIds : /\ lines[x][p] \in Nat /\ lines'[x][p] \in Nat
                          /\ returned[x][p] \in Nat /\ returned'[x][p] \in Nat
                          /\ shelved[x][p] \in Nat /\ shelved'[x][p] \in Nat
  BY DEF TypeOK, Cart
<1>2. IntOn(L1, OrderIds) /\ IntOn(L2, OrderIds) /\ IntOn(R1, OrderIds) /\ IntOn(R2, OrderIds)
  BY <1>1 DEF IntOn
<1>3. \A x \in OrderIds : x # o => L2[x] = L1[x] /\ R2[x] = R1[x]
  OBVIOUS
<1>4. /\ L1[o] = lines[o][p] /\ L2[o] = lines'[o][p]
      /\ R1[o] = returned[o][p] + shelved[o][p] /\ R2[o] = returned'[o][p] + shelved'[o][p]
  OBVIOUS
<1>5. AccountedFor(p) <=> stock[p] + SumFunctionOnSet(L1, OrderIds)
                            = Supply[p] + SumFunctionOnSet(R1, OrderIds)
  BY DEF AccountedFor, SumFunction
<1>6. AccountedFor(p)' <=> stock'[p] + SumFunctionOnSet(L2, OrderIds)
                            = Supply[p] + SumFunctionOnSet(R2, OrderIds)
  BY DEF AccountedFor, SumFunction
<1>7. stock[p] \in Nat /\ stock'[p] \in Nat /\ Supply[p] \in Nat
  BY SupplyAssumption DEF TypeOK, Cart
<1> HIDE DEF L1, L2, R1, R2
<1>8. /\ SumFunctionOnSet(L2, OrderIds) = SumFunctionOnSet(L1, OrderIds) + (L2[o] - L1[o])
      /\ SumFunctionOnSet(R2, OrderIds) = SumFunctionOnSet(R1, OrderIds) + (R2[o] - R1[o])
  BY <1>2, <1>3, SumMoves, FiniteAssumption
<1>9. SumFunctionOnSet(L1, OrderIds) \in Int /\ SumFunctionOnSet(R1, OrderIds) \in Int
  BY <1>2, SumIsInt, FiniteAssumption
<1>10. QED
  BY <1>1, <1>4, <1>5, <1>6, <1>7, <1>8, <1>9

LEMMA StockStep == TypeOK /\ FreshInv /\ StockAccounted /\ [Next]_vars => StockAccounted'
<1> SUFFICES ASSUME TypeOK, FreshInv, StockAccounted, [Next]_vars, NEW p \in Products
             PROVE  AccountedFor(p)'
  BY DEF StockAccounted, AccountedFor
<1>0. AccountedFor(p) /\ TypeOK'
  BY TypeStep DEF StockAccounted, AccountedFor
<1>1. ASSUME NEW o \in OrderIds, NEW cart \in Carts, Create(o, cart)
      PROVE  AccountedFor(p)'
  <2>1. cart[p] \in Nat /\ stock[p] \in Nat /\ stock'[p] = stock[p] - cart[p]
    BY <1>1, CartsAssumption DEF Create, decrementStock, Cart, TypeOK
  <2>2. /\ lines[o][p] = 0 /\ lines'[o][p] = cart[p]
        /\ \A x \in OrderIds : x # o => lines'[x] = lines[x]
    BY <1>1 DEF Create, FreshInv, Pristine, Nothing, TypeOK
  <2>3. returned[o][p] \in Nat /\ shelved[o][p] \in Nat
    BY DEF TypeOK, Cart
  <2>4. returned' = returned /\ shelved' = shelved
    BY <1>1 DEF Create
  <2>5. QED
    BY <1>0, <2>1, <2>2, <2>3, <2>4, UnitsMove
<1>2. ASSUME UNCHANGED <<stock, lines, returned, shelved>>
      PROVE  AccountedFor(p)'
  BY <1>0, <1>2 DEF AccountedFor
<1>3. ASSUME NEW c \in Calls, restoreStock(c)
      PROVE  AccountedFor(p)'
  <2>1. call[c].order \in OrderIds
    BY <1>3, FrameShape, BusyIsNotIdle DEF restoreStock
  <2> DEFINE o == call[c].order
  <2>2. /\ stock'[p] = stock[p] + lines[o][p]
        /\ returned'[o][p] = returned[o][p] + lines[o][p]
        /\ \A x \in OrderIds : x # o => returned'[x] = returned[x]
        /\ UNCHANGED <<lines, shelved>>
    BY <1>3, <2>1 DEF restoreStock, PutBack, Plus, Units, TypeOK
  <2>3. returned[o][p] \in Nat /\ shelved[o][p] \in Nat /\ lines[o][p] \in Nat /\ stock[p] \in Nat
    BY <2>1 DEF TypeOK, Cart
  <2> HIDE DEF o
  <2>4. QED
    BY <1>0, <2>1, <2>2, <2>3, UnitsMove DEF o
<1>4. ASSUME NEW c \in Calls, NEW q \in Products, ShelveLine(c, q)
      PROVE  AccountedFor(p)'
  <2>1. call[c].order \in OrderIds
    BY <1>4, FrameShape, BusyIsNotIdle DEF ShelveLine
  <2> DEFINE o == call[c].order
             put == IF p = q THEN lines[o][p] ELSE 0
  <2>2. /\ stock'[p] = stock[p] + put
        /\ shelved'[o][p] = shelved[o][p] + put
        /\ \A x \in OrderIds : x # o => shelved'[x] = shelved[x]
        /\ UNCHANGED <<lines, returned>>
    BY <1>4, <2>1 DEF ShelveLine, PutBack, Plus, Units, TypeOK
  <2>3. /\ returned[o][p] \in Nat /\ shelved[o][p] \in Nat /\ lines[o][p] \in Nat
        /\ stock[p] \in Nat /\ put \in Nat
    BY <2>1 DEF TypeOK, Cart
  <2> HIDE DEF o, put
  <2>4. QED
    BY <1>0, <2>1, <2>2, <2>3, UnitsMove DEF o
<1>5. QED
  BY <1>1, <1>2, <1>3, <1>4
     DEF Next, CallStep, BeginTransition, BeginCancel, BeginCancellation, BeginProcess,
         CommitTransition, FileCancellation, MarkCancelled, LogCancelled,
         RemoveCancellation, FlagRestocked, CrashCall, vars

LEMMA FreshInit == Init => FreshInv
  BY DEF Init, FreshInv, Pristine

LEMMA StockInit == Init => StockAccounted
<1>1. SUFFICES ASSUME Init, NEW p \in Products PROVE AccountedFor(p)
  BY DEF StockAccounted, AccountedFor
<1> DEFINE L == [o \in OrderIds |-> lines[o][p]]
           R == [o \in OrderIds |-> returned[o][p] + shelved[o][p]]
<1>2. \A o \in OrderIds : L[o] = 0 /\ R[o] = 0
  BY <1>1 DEF Init, Nothing
<1>3. IntOn(L, OrderIds)
  BY <1>2 DEF IntOn
<1>4. /\ stock[p] = Supply[p]
      /\ AccountedFor(p) <=> stock[p] + SumFunctionOnSet(L, OrderIds)
                              = Supply[p] + SumFunctionOnSet(R, OrderIds)
  BY <1>1 DEF Init, AccountedFor, SumFunction
<1> HIDE DEF L, R
<1>5. SumFunctionOnSet(R, OrderIds) = SumFunctionOnSet(L, OrderIds)
  BY <1>2, <1>3, SumAgrees, FiniteAssumption
<1>6. QED
  BY <1>4, <1>5

\* Whatever the supply, the carts and the calls that overlap or crash, every unit an order
\* took or gave back is accounted for on the shelf.
THEOREM StockCorrect == Spec => []StockAccounted
<1>1. TypeOK /\ FreshInv /\ StockAccounted /\ [Next]_vars
        => TypeOK' /\ FreshInv' /\ StockAccounted'
  BY TypeStep, FreshStep, StockStep
<1>2. QED
  BY <1>1, InitType, FreshInit, StockInit, PTL DEF Spec

-----------------------------------------------------------------------------
(* A return of stock that was begun puts a line back at most once.         *)

\* The calls that may still put units of order o on product p back.
Owes(f, o, p) ==
  /\ f # Idle /\ f.order = o
  /\ \/ f.op = "restock"
     \/ f.op = "commit" /\ f.to = "CANCELLED"
     \/ f.op = "shelve" /\ p \in f.todo
Owing(o, p) == {c \in Calls : Owes(call[c], o, p)}

AttemptInv ==
  \A o \in OrderIds, p \in Products :
    returned[o][p] + shelved[o][p] + lines[o][p] * Cardinality(Owing(o, p))
      <= returns[o] * lines[o][p]

LEMMA OwingIsFinite ==
  ASSUME NEW o, NEW p
  PROVE  /\ IsFiniteSet(Owing(o, p)) /\ Cardinality(Owing(o, p)) \in Nat
         /\ IsFiniteSet(Owing(o, p)') /\ Cardinality(Owing(o, p)') \in Nat
<1>1. Owing(o, p) \subseteq Calls /\ Owing(o, p)' \subseteq Calls
  BY DEF Owing
<1>2. QED
  BY <1>1, FiniteAssumption, FS_Subset, FS_CardinalityType

\* One call's frame changes: it alone may join, stay or leave.
LEMMA OwingMoves ==
  ASSUME NEW c \in Calls, \A d \in Calls : d # c => call'[d] = call[d], NEW o, NEW p
  PROVE  /\ ~Owes(call'[c], o, p) \/ Owes(call[c], o, p)
              => Cardinality(Owing(o, p)') <= Cardinality(Owing(o, p))
         /\ Cardinality(Owing(o, p)') <= Cardinality(Owing(o, p)) + 1
         /\ ~Owes(call'[c], o, p) /\ Owes(call[c], o, p)
              => Cardinality(Owing(o, p)') + 1 <= Cardinality(Owing(o, p))
<1> DEFINE A == Owing(o, p)
           B == Owing(o, p)'
<1>1. /\ B \subseteq A \cup {c}
      /\ ~Owes(call'[c], o, p) \/ Owes(call[c], o, p) => B \subseteq A
      /\ ~Owes(call'[c], o, p) /\ Owes(call[c], o, p) => B \subseteq A \ {c} /\ c \in A
  BY DEF Owing, Owes
<1>2. IsFiniteSet(A) /\ Cardinality(A) \in Nat /\ IsFiniteSet(B) /\ Cardinality(B) \in Nat
  BY OwingIsFinite
<1> HIDE DEF A, B
<1>3. QED
  BY <1>1, <1>2, CountMoves DEF A, B

\* The arithmetic of an attempt that is begun, or that puts its line back.
LEMMA AttemptArithmetic ==
  ASSUME NEW line \in Nat, NEW back \in Nat, NEW owing \in Nat, NEW begun \in Nat,
         NEW owing2 \in Nat, back + line * owing <= begun * line
  PROVE  /\ owing2 <= owing => back + line * owing2 <= begun * line
         /\ owing2 <= owing + 1 => back + line * owing2 <= (begun + 1) * line
         /\ owing2 + 1 <= owing => back + line + line * owing2 <= begun * line
<1>1. /\ line * owing \in Nat /\ line * owing2 \in Nat /\ begun * line \in Nat
  OBVIOUS
<1>2. (begun + 1) * line = begun * line + line
  OBVIOUS
<1>3. owing2 <= owing => line * owing2 <= line * owing
  OBVIOUS
<1>4. owing2 <= owing + 1 => line * owing2 <= line * owing + line
  <2>1. line * (owing + 1) = line * owing + line
    OBVIOUS
  <2>2. owing2 <= owing + 1 => line * owing2 <= line * (owing + 1)
    OBVIOUS
  <2>3. QED
    BY <2>1, <2>2
<1>5. owing2 + 1 <= owing => line * owing2 + line <= line * owing
  <2>1. line * (owing2 + 1) = line * owing2 + line
    OBVIOUS
  <2>2. owing2 + 1 <= owing => line * (owing2 + 1) <= line * owing
    OBVIOUS
  <2>3. QED
    BY <2>1, <2>2
<1>6. QED
  BY <1>1, <1>2, <1>3, <1>4, <1>5

AttemptOf(o, p) ==
  returned[o][p] + shelved[o][p] + lines[o][p] * Cardinality(Owing(o, p))
    <= returns[o] * lines[o][p]

\* The ways a call moves on without breaking the bound of order o and product p: nothing
\* is put back and no call begins to owe; a return begins; the line is put back.
LEMMA AttemptMoves ==
  ASSUME TypeOK, TypeOK', NEW o \in OrderIds, NEW p \in Products, AttemptOf(o, p),
         lines'[o][p] = lines[o][p],
         NEW c \in Calls, \A d \in Calls : d # c => call'[d] = call[d],
         \/ /\ returns'[o] = returns[o]
            /\ returned'[o][p] + shelved'[o][p] = returned[o][p] + shelved[o][p]
            /\ ~Owes(call'[c], o, p) \/ Owes(call[c], o, p)
         \/ /\ returns'[o] = returns[o] + 1
            /\ returned'[o][p] + shelved'[o][p] = returned[o][p] + shelved[o][p]
         \/ /\ returns'[o] = returns[o]
            /\ returned'[o][p] + shelved'[o][p] = returned[o][p] + shelved[o][p] + lines[o][p]
            /\ ~Owes(call'[c], o, p) /\ Owes(call[c], o, p)
  PROVE  AttemptOf(o, p)'
<1> DEFINE k == Cardinality(Owing(o, p))
           k2 == Cardinality(Owing(o, p)')
           back == returned[o][p] + shelved[o][p]
           line == lines[o][p]
<1>1. /\ line \in Nat /\ back \in Nat /\ k \in Nat /\ k2 \in Nat /\ returns[o] \in Nat
      /\ returned'[o][p] + shelved'[o][p] \in Nat
  BY OwingIsFinite DEF TypeOK, Cart
<1>2. back + line * k <= returns[o] * line
  BY DEF AttemptOf
<1>3. AttemptOf(o, p)' <=> returned'[o][p] + shelved'[o][p] + line * k2 <= returns'[o] * line
  BY DEF AttemptOf
<1>4. /\ ~Owes(call'[c], o, p) \/ Owes(call[c], o, p) => k2 <= k
      /\ k2 <= k + 1
      /\ ~Owes(call'[c], o, p) /\ Owes(call[c], o, p) => k2 + 1 <= k
  BY OwingMoves
<1>5. /\ k2 <= k => back + line * k2 <= returns[o] * line
      /\ k2 <= k + 1 => back + line * k2 <= (returns[o] + 1) * line
      /\ k2 + 1 <= k => back + line + line * k2 <= returns[o] * line
  <2> HIDE DEF k, k2, back, line
  <2>1. QED
    BY <1>1, <1>2, AttemptArithmetic
<1> HIDE DEF k, k2
<1>6. QED
  BY <1>3, <1>4, <1>5

LEMMA AttemptStep ==
  TypeOK /\ FreshInv /\ AttemptInv /\ [Next]_vars => AttemptInv'
<1> SUFFICES ASSUME TypeOK, FreshInv, AttemptInv, [Next]_vars,
                    NEW o \in OrderIds, NEW p \in Products
             PROVE  AttemptOf(o, p)'
  BY DEF AttemptInv, AttemptOf
<1>0. AttemptOf(o, p) /\ TypeOK'
  BY TypeStep DEF AttemptInv, AttemptOf
<1>1. ASSUME NEW o2 \in OrderIds, NEW cart \in Carts, Create(o2, cart)
      PROVE  AttemptOf(o, p)'
  <2>1. call' = call /\ returned' = returned /\ shelved' = shelved /\ returns' = returns
    BY <1>1 DEF Create
  <2>2. Owing(o, p)' = Owing(o, p)
    BY <2>1 DEF Owing, Owes
  <2>3. CASE o = o2
    <3>1. /\ returned'[o][p] = 0 /\ shelved'[o][p] = 0
          /\ \A c \in Calls : call[c] # Idle => call[c].order # o
      BY <1>1, <2>1, <2>3 DEF Create, FreshInv, Pristine, Nothing
    <3>2. Owing(o, p) = {}
      BY <3>1 DEF Owing, Owes
    <3>3. Cardinality(Owing(o, p)') = 0
      BY <2>2, <3>2, FS_EmptySet
    <3>4. lines'[o][p] \in Nat /\ returns'[o] \in Nat
      BY <1>0 DEF TypeOK, Cart
    <3>5. /\ returns'[o] * lines'[o][p] \in Nat /\ lines'[o][p] * 0 = 0
      BY <3>4
    <3>6. QED
      BY <3>1, <3>3, <3>5 DEF AttemptOf
  <2>4. CASE o # o2
    <3>1. lines'[o] = lines[o]
      BY <1>1, <2>4 DEF Create, TypeOK
    <3>2. QED
      BY <1>0, <2>1, <2>2, <3>1 DEF AttemptOf
  <2>5. QED
    BY <2>3, <2>4
<1>2. ASSUME NEW o2 \in OrderIds, RemoveCancellation(o2)
      PROVE  AttemptOf(o, p)'
  <2>1. UNCHANGED <<lines, returned, shelved, returns>>
    BY <1>2 DEF RemoveCancellation
  <2>2. \A c \in Calls : Owes(call'[c], o, p) <=> Owes(call[c], o, p)
    BY <1>2 DEF RemoveCancellation, Owes, Idle
  <2>3. Owing(o, p)' = Owing(o, p)
    BY <2>2 DEF Owing
  <2>4. QED
    BY <1>0, <2>1, <2>3 DEF AttemptOf
<1>3. ASSUME NEW c \in Calls, CallStep(c)
      PROVE  AttemptOf(o, p)'
  <2>0. lines' = lines /\ \A d \in Calls : d # c => call'[d] = call[d]
    <3>1. lines' = lines
      BY <1>3 DEF CallStep, BeginTransition, BeginCancel, BeginCancellation, BeginProcess,
           CommitTransition, restoreStock, FileCancellation, MarkCancelled, LogCancelled,
           ShelveLine, FlagRestocked, CrashCall
    <3>2. \E f : Goto(c, f)
      BY <1>3 DEF CallStep, BeginTransition, BeginCancel, BeginCancellation, BeginProcess,
           CommitTransition, restoreStock, FileCancellation, MarkCancelled, LogCancelled,
           ShelveLine, FlagRestocked, CrashCall, Return
    <3>3. QED
      BY <3>1, <3>2 DEF Goto, TypeOK
  <2>1. ASSUME UNCHANGED <<returned, shelved, returns>>,
               ~Owes(call'[c], o, p) \/ Owes(call[c], o, p)
        PROVE  AttemptOf(o, p)'
    BY <1>0, <2>0, <2>1, AttemptMoves
  <2>2. ASSUME NEW o2 \in OrderIds, returns' = [returns EXCEPT ![o2] = @ + 1],
               UNCHANGED <<returned, shelved>>,
               call'[c] # Idle => call'[c].order = o2
        PROVE  AttemptOf(o, p)'
    <3>1. CASE o = o2
      <4>1. returns'[o] = returns[o] + 1
        BY <2>2, <3>1 DEF TypeOK
      <4>2. QED
        BY <1>0, <2>0, <2>2, <4>1, AttemptMoves
    <3>2. CASE o # o2
      <4>1. returns'[o] = returns[o] /\ ~Owes(call'[c], o, p)
        BY <2>2, <3>2 DEF TypeOK, Owes
      <4>2. QED
        BY <1>0, <2>0, <2>2, <4>1, AttemptMoves
    <3>3. QED
      BY <3>1, <3>2
  <2>3. ASSUME NEW o2 \in OrderIds, NEW to \in transitionStatuses, BeginTransition(c, o2, to)
        PROVE  AttemptOf(o, p)'
    <3>1. ~Owes(call'[c], o, p)
      BY <2>3 DEF BeginTransition, Goto, Owes, TypeOK, transitionStatuses
    <3>2. QED
      BY <2>1, <2>3, <3>1 DEF BeginTransition
  <2>4. ASSUME NEW o2 \in OrderIds, BeginCancel(c, o2)
        PROVE  AttemptOf(o, p)'
    <3>1. call'[c].order = o2
      BY <2>4 DEF BeginCancel, Goto, TypeOK
    <3>2. QED
      BY <2>2, <2>4, <3>1 DEF BeginCancel
  <2>5. ASSUME NEW o2 \in OrderIds, BeginCancellation(c, o2)
        PROVE  AttemptOf(o, p)'
    <3>1. ~Owes(call'[c], o, p)
      BY <2>5 DEF BeginCancellation, Goto, Owes, TypeOK
    <3>2. QED
      BY <2>1, <2>5, <3>1 DEF BeginCancellation
  <2>6. ASSUME NEW o2 \in OrderIds, BeginProcess(c, o2)
        PROVE  AttemptOf(o, p)'
    <3>1. call'[c].order = o2
      BY <2>6 DEF BeginProcess, Goto, TypeOK
    <3>2. QED
      BY <2>2, <2>6, <3>1 DEF BeginProcess
  <2>7. CASE CommitTransition(c)
    <3>1. ~Owes(call'[c], o, p) \/ Owes(call[c], o, p)
      <4>1. call'[c] = AfterCommit(call[c].order, call[c].to)
        BY <2>7 DEF CommitTransition, Goto, TypeOK
      <4>2. QED
        BY <2>7, <4>1 DEF CommitTransition, AfterCommit, Owes, Idle
    <3>2. QED
      BY <2>1, <2>7, <3>1 DEF CommitTransition
  <2>8. CASE restoreStock(c)
    <3>1. call[c].order \in OrderIds /\ call[c] # Idle /\ call[c].op = "restock"
      BY <2>8, FrameShape, BusyIsNotIdle DEF restoreStock
    <3>2. call'[c] = Idle
      BY <2>8 DEF restoreStock, Return, Goto, TypeOK
    <3>3. returns' = returns /\ shelved' = shelved
      BY <2>8 DEF restoreStock
    <3>4. /\ returned[o][p] \in Nat /\ shelved[o][p] \in Nat /\ lines[o][p] \in Nat
      BY DEF TypeOK, Cart
    <3>5. CASE call[c].order = o
      <4>1. returned'[o][p] = returned[o][p] + lines[o][p]
        BY <2>8, <3>5 DEF restoreStock, Plus, Units, TypeOK
      <4>2. Owes(call[c], o, p) /\ ~Owes(call'[c], o, p)
        BY <3>1, <3>2, <3>5 DEF Owes
      <4>3. returned'[o][p] + shelved'[o][p] = returned[o][p] + shelved[o][p] + lines[o][p]
        BY <3>3, <3>4, <4>1
      <4>4. QED
        BY <1>0, <2>0, <3>3, <4>2, <4>3, AttemptMoves
    <3>6. CASE call[c].order # o
      <4>1. returned'[o] = returned[o]
        BY <2>8, <3>1, <3>6 DEF restoreStock, TypeOK
      <4>2. ~Owes(call'[c], o, p)
        BY <3>2 DEF Owes
      <4>3. QED
        BY <1>0, <2>0, <3>3, <4>1, <4>2, AttemptMoves
    <3>7. QED
      BY <3>5, <3>6
  <2>9. CASE FileCancellation(c)
    <3>1. ~Owes(call'[c], o, p)
      BY <2>9 DEF FileCancellation, Goto, Return, Owes, TypeOK
    <3>2. QED
      BY <2>1, <2>9, <3>1 DEF FileCancellation
  <2>10. CASE MarkCancelled(c)
    <3>1. ~Owes(call'[c], o, p)
      BY <2>10 DEF MarkCancelled, Goto, Owes, TypeOK
    <3>2. QED
      BY <2>1, <2>10, <3>1 DEF MarkCancelled
  <2>11. CASE LogCancelled(c)
    <3>1. ~Owes(call'[c], o, p)
      BY <2>11 DEF LogCancelled, Goto, Return, Owes, TypeOK
    <3>2. QED
      BY <2>1, <2>11, <3>1 DEF LogCancelled
  <2>12. ASSUME NEW q \in Products, ShelveLine(c, q)
         PROVE  AttemptOf(o, p)'
    <3>1. /\ call[c].order \in OrderIds /\ call[c] # Idle
          /\ call[c].op = "shelve" /\ q \in call[c].todo
      BY <2>12, FrameShape, BusyIsNotIdle DEF ShelveLine
    <3>2. call'[c] = [op |-> "shelve", order |-> call[c].order, row |-> call[c].row,
                      todo |-> call[c].todo \ {q}]
      BY <2>12 DEF ShelveLine, Goto, TypeOK
    <3>3. returns' = returns /\ returned' = returned
      BY <2>12 DEF ShelveLine
    <3>4. /\ returned[o][p] \in Nat /\ shelved[o][p] \in Nat /\ lines[o][p] \in Nat
      BY DEF TypeOK, Cart
    <3>5. CASE call[c].order = o /\ p = q
      <4>1. shelved'[o][p] = shelved[o][p] + lines[o][p]
        BY <2>12, <3>5 DEF ShelveLine, Plus, Units, TypeOK
      <4>2. Owes(call[c], o, p) /\ ~Owes(call'[c], o, p)
        BY <3>1, <3>2, <3>5 DEF Owes
      <4>3. returned'[o][p] + shelved'[o][p] = returned[o][p] + shelved[o][p] + lines[o][p]
        BY <3>3, <3>4, <4>1
      <4>4. QED
        BY <1>0, <2>0, <3>3, <4>2, <4>3, AttemptMoves
    <3>6. CASE ~(call[c].order = o /\ p = q)
      <4>1. shelved'[o][p] = shelved[o][p]
        BY <2>12, <3>1, <3>4, <3>6 DEF ShelveLine, Plus, Units, TypeOK
      <4>2. ~Owes(call'[c], o, p) \/ Owes(call[c], o, p)
        BY <3>1, <3>2 DEF Owes
      <4>3. QED
        BY <1>0, <2>0, <3>3, <4>1, <4>2, AttemptMoves
    <3>7. QED
      BY <3>5, <3>6
  <2>13. CASE FlagRestocked(c)
    <3>1. ~Owes(call'[c], o, p)
      BY <2>13 DEF FlagRestocked, Return, Goto, Owes, TypeOK
    <3>2. QED
      BY <2>1, <2>13, <3>1 DEF FlagRestocked
  <2>14. CASE CrashCall(c)
    <3>1. ~Owes(call'[c], o, p)
      BY <2>14 DEF CrashCall, Return, Goto, Owes, TypeOK
    <3>2. QED
      BY <2>1, <2>14, <3>1 DEF CrashCall
  <2>15. QED
    BY <1>3, <2>3, <2>4, <2>5, <2>6, <2>7, <2>8, <2>9, <2>10, <2>11, <2>12, <2>13, <2>14
       DEF CallStep
<1>4. CASE UNCHANGED vars
  <2>1. Owing(o, p)' = Owing(o, p)
    BY <1>4 DEF vars, Owing, Owes
  <2>2. QED
    BY <1>0, <1>4, <2>1 DEF vars, AttemptOf
<1>5. QED
  BY <1>1, <1>2, <1>3, <1>4 DEF Next

LEMMA AttemptInit == Init => AttemptInv
<1>1. SUFFICES ASSUME Init, NEW o \in OrderIds, NEW p \in Products
               PROVE  AttemptOf(o, p)
  BY DEF AttemptInv, AttemptOf
<1>2. Owing(o, p) = {}
  BY <1>1 DEF Init, Owing, Owes
<1>3. Cardinality(Owing(o, p)) = 0
  BY <1>2, FS_EmptySet
<1>4. QED
  BY <1>1, <1>3 DEF Init, AttemptOf, Nothing

LEMMA AttemptBounds == TypeOK /\ AttemptInv => RestockPerAttempt
<1>1. SUFFICES ASSUME TypeOK, AttemptInv, NEW o \in OrderIds, NEW p \in Products
               PROVE  returned[o][p] + shelved[o][p] <= returns[o] * lines[o][p]
  BY DEF RestockPerAttempt
<1>2. /\ returned[o][p] \in Nat /\ shelved[o][p] \in Nat /\ lines[o][p] \in Nat
      /\ returns[o] \in Nat /\ Cardinality(Owing(o, p)) \in Nat
  BY <1>1, OwingIsFinite DEF TypeOK, Cart
<1>3. lines[o][p] * Cardinality(Owing(o, p)) \in Nat /\ returns[o] * lines[o][p] \in Nat
  BY <1>2
<1>4. QED
  BY <1>1, <1>2, <1>3 DEF AttemptInv

\* However many calls overlap and crash, an order's line comes back at most once per return
\* of stock that was begun: a call that still owes a line has not put it back.
THEOREM AttemptCorrect == Spec => []RestockPerAttempt
<1>1. TypeOK /\ FreshInv /\ AttemptInv /\ [Next]_vars => TypeOK' /\ FreshInv' /\ AttemptInv'
  BY TypeStep, FreshStep, AttemptStep
<1>2. QED
  BY <1>1, AttemptBounds, InitType, FreshInit, AttemptInit, PTL DEF Spec
=============================================================================
