\* One call at a time: the cancel endpoint is called twice.
SPECIFICATION Spec
CONSTANTS
  shirt = shirt
  cap = cap
  Products = {shirt}
  OrderIds = {o1}
  Calls = {c1}
  Supply <- OneProductSupply
  Carts <- OneProductCarts
  MaxReturns = 2
INVARIANT CancelIsIdempotent
CHECK_DEADLOCK FALSE
