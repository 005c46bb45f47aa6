SPECIFICATION ModesSpec
CONSTANTS
  Requests = {r1, r2, r3}
  Modules = {admin, wms}
  SystemAdmin = admin
  BaseModules = {admin}
  TTL = 2
  MaxLatency = 1
  MaxInFlight = 2
  UniqueRows = TRUE
  Onboarding = Onboarding
  NoEntry = NoEntry
INVARIANTS ChangesImmediate
