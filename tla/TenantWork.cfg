SPECIFICATION MCSpec
CONSTANTS
  Requests = {r1, r2}
  Jobs = {j1, j2}
  Tenants = {t1, t2}
  PoolLimit = 3
  MaxConcurrent = 1
INVARIANTS TypeOK RequestsAtomic JobShare SummaryAddsUp
PROPERTIES EverybodyEnds
