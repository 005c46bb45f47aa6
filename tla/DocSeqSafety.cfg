SPECIFICATION Spec
CONSTANTS
  PO = PO
  GRN = GRN
  Nobody = Nobody
  NoRow = NoRow
  Requests = {r1, r2, r3}
  Keys = {PO, GRN}
  VerifyOrder <- MCVerifyOrder
  InitialCounters = {1}
  LegacyNumbers = {2}
  RepairNumbers <- MCRepairNumbers
SYMMETRY Symmetry
INVARIANTS TypeOK LockDiscipline AuditPartition AuditExplainsCounter CollisionOnlyOutOfSync
PROPERTIES CounterMonotone InSyncStable VerifyLeavesSync RegisterSpec
