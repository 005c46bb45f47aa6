SPECIFICATION MCSpec
CONSTANTS
  Orders = {o1, o2}
  GOrders = {g1, g2}
  Requests = {r1, r2}
  Total = 2
  Amounts = {0, 1, 2}
  MaxCash = 2
  None = None
INVARIANTS TypeOK GenuinePaidWasPaid ExactNothingInvented
PROPERTIES AlonePaidUntilFailed OverlapCapturedIsSeen
