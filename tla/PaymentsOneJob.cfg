\* One payment handler at a time, one order call overlapping it.
SPECIFICATION MoneySpec
CONSTANTS
  shirt = shirt
  Products = {shirt}
  OrderIds = {o1}
  Calls = {c1}
  Jobs = {j1}
  Supply <- OneShirt
  Carts <- OneCart
  MaxReturns = 1
  MaxCheckouts = 2
  MaxRefunds = 1
INVARIANTS MoneyTypeOK CreditedOnce
CHECK_DEADLOCK FALSE
