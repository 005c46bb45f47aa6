SPECIFICATION MCSpec
CONSTANTS
  Requests = {r1, r2}
  Limit = 2
  Amounts = {1, 2}
  MaxOrders = 3
  MaxDays = 2
  MaxMoney = 2
SYMMETRY Symmetry
INVARIANTS TypeOK UsedWithinLimit OfficeOrdersCounted SerialNeverOvercharged CarefulWithinLimit
