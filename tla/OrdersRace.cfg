\* Two overlapping calls on one order of two lines.
SPECIFICATION Spec
CONSTANTS
  shirt = shirt
  cap = cap
  Products = {shirt, cap}
  OrderIds = {o1}
  Calls = {c1, c2}
  Supply <- TwoProductSupply
  Carts <- TwoProductCarts
  MaxReturns = 2
SYMMETRY CallSymmetry
INVARIANTS TypeOK ListingMatchesStock StockAccounted RestockPerAttempt RestockNeedsCancellation
PROPERTY MovesFollowTheMachine
CHECK_DEADLOCK FALSE
