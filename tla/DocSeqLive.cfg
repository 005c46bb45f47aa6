SPECIFICATION FairSpec
CONSTANTS
  PO = PO
  GRN = GRN
  Nobody = Nobody
  NoRow = NoRow
  Requests = {r1, r2}
  Keys = {PO, GRN}
  VerifyOrder <- MCVerifyOrder
  InitialCounters = {1}
  LegacyNumbers = {2}
  RepairNumbers <- MCRepairNumbers
PROPERTIES RequestsEnd
