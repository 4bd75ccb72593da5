\* Two overlapping payment handlers.
SPECIFICATION MoneySpec
CONSTANTS
  shirt = shirt
  Products = {shirt}
  OrderIds = {o1}
  Calls = {c1}
  Jobs = {j1, j2}
  Supply <- OneShirt
  Carts <- OneCart
  MaxReturns = 0
  MaxCheckouts = 1
  MaxRefunds = 1
SYMMETRY JobSymmetry
INVARIANTS RecordedMoneyReleasesOrder BooksFollowProvider RefundRowsAccepted
CHECK_DEADLOCK FALSE
