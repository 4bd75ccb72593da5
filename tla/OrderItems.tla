----------------------------- MODULE OrderItems -----------------------------
(***************************************************************************)
(* Line items of a placed order and the stock they hold:                   *)
(* modules/orders/services/items.service.ts and adjust() of                *)
(* modules/products/services/inventory.service.ts.                         *)
(*                                                                         *)
(* A change of a line moves the difference between the quantity it read    *)
(* and the new one from or to the shelf, writes or deletes the line, sums  *)
(* the lines and writes the order's total, each in a statement of its own. *)
(* Nothing looks at the order's status.  Meanwhile other orders take from  *)
(* the same product and give back, and stock is adjusted by a read and an  *)
(* absolute write.  One tracked product, every line of unit price one, no  *)
(* discount and no fee.                                                    *)
(***************************************************************************)
EXTENDS Integers, FiniteSets, Functions

CONSTANTS
  Lines,         \* items of the order, one unit each at first
  ItemCalls,     \* calls in flight
  NoLine,        \* the line of a call without one
  MaxQuantity,   \* bound: units of a line
  MaxShelf,      \* bound: units on the shelf, all there at first
  MaxItemCrashes \* bound: calls cut short

ASSUME ItemAssumption ==
  /\ IsFiniteSet(Lines) /\ NoLine \notin Lines
  /\ MaxQuantity \in Nat \ {0} /\ MaxShelf \in Nat /\ MaxItemCrashes \in Nat

VARIABLES
  shelf,     \* stockQuantity of the product
  quantity,  \* each line's quantity, 0 once it is deleted
  total,     \* the order's total
  fate,      \* the order is "live", "cancelled" or also "restocked"
  call,      \* each call: its step, line, the number it read and the one it will write
  elsewhere, \* history: units other orders took, less those adjustments put in
  entangled, \* history: a change met another on this order or of the stock it adjusts, or
             \* a cancelled order, or was cut short; nothing is counted from then on
  itemCrashes

itemVars == <<shelf, quantity, total, fate, call, elsewhere, entangled, itemCrashes>>

ItemFrame(step, line, was, to) == [step |-> step, line |-> line, was |-> was, to |-> to]
NoItemCall == ItemFrame("idle", NoLine, 0, 0)

SumOf(qty) == SumFunctionOnSet(qty, Lines)
LinesLeft == {l \in Lines : quantity[l] > 0}
Busy == \E c \in ItemCalls : call[c].step \notin {"idle", "adjust"}
CallStep(c, step) == call[c].step = step
Proceed(c, frame) == call' = [call EXCEPT ![c] = frame]
NextStep(c, step) == Proceed(c, [call[c] EXCEPT !.step = step])
Stocked(units) == units \in 0 .. MaxShelf
\* What the next step leaves of the count.
Count(units, tangles) ==
  /\ entangled' = (entangled \/ tangles)
  /\ elsewhere' = IF entangled' THEN 0 ELSE elsewhere + units

ItemInit ==
  /\ shelf = MaxShelf
  /\ quantity = [l \in Lines |-> 1]
  /\ total = SumOf(quantity)
  /\ fate = "live"
  /\ call = [c \in ItemCalls |-> NoItemCall]
  /\ elsewhere = 0
  /\ entangled = FALSE
  /\ itemCrashes = 0

-----------------------------------------------------------------------------
(* update() and remove().                                                  *)

BeginItem(c, l, to) ==
  /\ call[c] = NoItemCall
  /\ l \in LinesLeft
  /\ Proceed(c, ItemFrame(IF to = quantity[l] THEN "write" ELSE "balance", l, quantity[l], to))
  /\ Count(0, Busy \/ fate # "live")
  /\ UNCHANGED <<shelf, quantity, total, fate, itemCrashes>>

updateItem(c, l, to) == to > 0 /\ BeginItem(c, l, to)
removeItem(c, l) == Cardinality(LinesLeft) # 1 /\ BeginItem(c, l, 0)

FreshDelta(c) ==                                               \* mutant
  /\ CallStep(c, "balance")
  /\ Stocked(shelf - call[c].to)
  /\ shelf' = shelf - call[c].to
  /\ NextStep(c, "write")
  /\ UNCHANGED <<quantity, total, fate, elsewhere, entangled, itemCrashes>>
Oversells(c) ==                                                \* mutant
  /\ CallStep(c, "balance")
  /\ shelf' = shelf - (call[c].to - call[c].was)
  /\ NextStep(c, "write")
  /\ UNCHANGED <<quantity, total, fate, elsewhere, entangled, itemCrashes>>
\* More units must be on the shelf; fewer go back whatever has happened to the line.
rebalanceStock(c) ==
  /\ CallStep(c, "balance")
  /\ Stocked(shelf - (call[c].to - call[c].was))
  /\ shelf' = shelf - (call[c].to - call[c].was)
  /\ NextStep(c, "write")
  /\ UNCHANGED <<quantity, total, fate, elsewhere, entangled, itemCrashes>>

InsufficientStock(c) ==
  /\ CallStep(c, "balance")
  /\ shelf < call[c].to - call[c].was
  /\ Proceed(c, NoItemCall)
  /\ UNCHANGED <<shelf, quantity, total, fate, elsewhere, entangled, itemCrashes>>

\* On a line another call deleted the write throws.
WriteLine(c) ==
  /\ CallStep(c, "write")
  /\ IF quantity[call[c].line] > 0
     THEN /\ quantity' = [quantity EXCEPT ![call[c].line] = call[c].to]
          /\ NextStep(c, "sum")
     ELSE Proceed(c, NoItemCall) /\ UNCHANGED quantity
  /\ UNCHANGED <<shelf, total, fate, elsewhere, entangled, itemCrashes>>

ReadLines(c) ==
  /\ CallStep(c, "sum")
  /\ Proceed(c, ItemFrame("total", NoLine, 0, SumOf(quantity)))
  /\ UNCHANGED <<shelf, quantity, total, fate, elsewhere, entangled, itemCrashes>>

recalcTotals(c) ==
  /\ CallStep(c, "total")
  /\ total' = call[c].to
  /\ Proceed(c, NoItemCall)
  /\ UNCHANGED <<shelf, quantity, fate, elsewhere, entangled, itemCrashes>>

ItemCrash(c) ==
  /\ call[c] # NoItemCall
  /\ itemCrashes < MaxItemCrashes
  /\ itemCrashes' = itemCrashes + 1
  /\ Count(0, TRUE)
  /\ Proceed(c, NoItemCall)
  /\ UNCHANGED <<shelf, quantity, total, fate>>

-----------------------------------------------------------------------------
(* cancel() of the order, checkouts and cancels of others, and adjust().   *)

CancelOrder ==
  /\ fate = "live"
  /\ fate' = "cancelled"
  /\ Count(0, Busy)
  /\ UNCHANGED <<shelf, quantity, total, call, itemCrashes>>

restoreStock ==
  /\ fate = "cancelled"
  /\ Stocked(shelf + SumOf(quantity))
  /\ shelf' = shelf + SumOf(quantity)
  /\ fate' = "restocked"
  /\ UNCHANGED <<quantity, total, call, elsewhere, entangled, itemCrashes>>

\* A conditional decrement, or an increment, of one statement.
OtherOrder(units) ==
  /\ Stocked(shelf - units)
  /\ shelf' = shelf - units
  /\ Count(units, FALSE)
  /\ UNCHANGED <<quantity, total, fate, call, itemCrashes>>

adjust(c, target) ==
  /\ call[c] = NoItemCall
  /\ Proceed(c, ItemFrame("adjust", NoLine, shelf, target))
  /\ UNCHANGED <<shelf, quantity, total, fate, elsewhere, entangled, itemCrashes>>

WriteTarget(c) ==
  /\ CallStep(c, "adjust")
  /\ shelf' = call[c].to
  /\ Count(call[c].was - call[c].to, shelf # call[c].was)
  /\ Proceed(c, NoItemCall)
  /\ UNCHANGED <<quantity, total, fate, itemCrashes>>

-----------------------------------------------------------------------------
ItemStep(c) ==
  \/ \E l \in Lines : removeItem(c, l) \/ \E n \in 1 .. MaxQuantity : updateItem(c, l, n)
  \/ \E n \in 0 .. MaxShelf : adjust(c, n)
  \/ rebalanceStock(c) \/ InsufficientStock(c) \/ WriteLine(c) \/ ReadLines(c)
  \/ recalcTotals(c) \/ WriteTarget(c) \/ ItemCrash(c)

ItemNext ==
  \/ CancelOrder \/ restoreStock \/ OtherOrder(1) \/ OtherOrder(-1)
  \/ \E c \in ItemCalls : ItemStep(c)

ItemSpec == ItemInit /\ [][ItemNext]_itemVars

-----------------------------------------------------------------------------
(* Properties.                                                             *)

\* Stock is never negative and the frames have the shapes the handlers give them.
ItemTypeOK ==
  /\ shelf \in 0 .. MaxShelf
  /\ quantity \in [Lines -> 0 .. MaxQuantity]
  /\ total \in Nat
  /\ fate \in {"live", "cancelled", "restocked"}
  /\ call \in [ItemCalls ->
       [step : {"idle", "balance", "write", "sum", "total", "adjust"},
        line : Lines \cup {NoLine}, was : Nat, to : Nat]]
  /\ elsewhere \in Int
  /\ entangled \in BOOLEAN
  /\ itemCrashes \in 0 .. MaxItemCrashes

\* No unit is lost or made, and the total follows the lines: once no change is under way the
\* total is the sum of the lines, and shelf, lines and other orders account for every unit.
\* Checkouts of others may come between any two statements; two changes of one order, a stale
\* adjustment, a cancelled order and a crash may not.
ItemsBalance ==
  ~Busy /\ ~entangled =>
    /\ total = SumOf(quantity)
    /\ shelf + elsewhere + (IF fate = "restocked" THEN 0 ELSE SumOf(quantity))
         = MaxShelf + Cardinality(Lines)

\* "Quantity updates and deletes re-run the same math as checkout inside one transaction:
\* totals resync": once no change is under way, the total is that of the lines.
TotalsResync == ~Busy => total = SumOf(quantity)
=============================================================================
