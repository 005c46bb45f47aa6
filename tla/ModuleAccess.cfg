SPECIFICATION ModesSpec
CONSTANTS
  Requests = {r1, r2, r3}
  Modules = {admin, wms}
  SystemAdmin = admin
  BaseModules = {admin}
  TTL = 2
  MaxLatency = 1
  MaxInFlight = 3
  UniqueRows = FALSE
  Onboarding = Onboarding
  NoEntry = NoEntry
SYMMETRY Symmetry
INVARIANTS TypeOK SerialOneActiveRow SerialChangesImmediate
PROPERTIES BoundedStaleness
