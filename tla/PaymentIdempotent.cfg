SPECIFICATION MCSpec
CONSTANTS
  Orders = {o1}
  GOrders = {g1, g2}
  Requests = {r1}
  Total = 2
  Amounts = {0, 1, 2}
  MaxCash = 2
  None = None
PROPERTIES DuplicatesSafe
