SPECIFICATION Spec
CONSTANTS
  Requests = {}
  Jobs = {j1}
  Tenants = {t1, t2}
  PoolLimit = 2
  MaxConcurrent = 1
INVARIANTS JobsPersist
