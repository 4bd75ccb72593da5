\* The webhook of a charge overlaps the cancel endpoint.
SPECIFICATION MoneySpec
CONSTANTS
  shirt = shirt
  Products = {shirt}
  OrderIds = {o1}
  Calls = {c1}
  Jobs = {j1}
  Supply <- OneShirt
  Carts <- OneCart
  MaxReturns = 1
  MaxCheckouts = 1
  MaxRefunds = 1
PROPERTY PaidLeavesByCancellationOnly
CHECK_DEADLOCK FALSE
