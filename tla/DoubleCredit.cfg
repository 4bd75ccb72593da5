\* Two webhooks of one charge overlap.
SPECIFICATION MoneySpec
CONSTANTS
  shirt = shirt
  Products = {shirt}
  OrderIds = {o1}
  Calls = {}
  Jobs = {j1, j2}
  Supply <- OneShirt
  Carts <- OneCart
  MaxReturns = 1
  MaxCheckouts = 1
  MaxRefunds = 1
INVARIANT CreditedOnce
CHECK_DEADLOCK FALSE
