\* One change of a line is cut between its statements.
SPECIFICATION ItemSpec
CONSTANTS
  Lines = {r1, r2}
  ItemCalls = {c1}
  NoLine = none
  MaxQuantity = 2
  MaxShelf = 2
  MaxItemCrashes = 1
INVARIANT TotalsResync
CHECK_DEADLOCK FALSE
