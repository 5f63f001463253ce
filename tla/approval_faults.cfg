SPECIFICATION FairSpec
CONSTANTS
  None = None
  Actions = {a1}
  t1 = t1
  t2 = t2
  c1 = c1
  c2 = c2
  refund = refund
  batch = batch
  execute = execute
  Tasks = {t1, t2}
  Clis = {c1}
  HighRisk <- MCTools
  Reporting <- MCReporting
  ExecuteTool = execute
  Configs <- MCConfigs
  TTL = 1
  MaxTime = 2
  Faults <- MCAllFaults
INVARIANTS
  TypeOK
  AtMostOnce
  OnlyApprovedRuns
  ExecutedIsTrue
  WithdrawnIsSpent
  OnlyEnabledRuns
  AuditTrail
  NoSilentChange
  NoOrphan
  IInv
PROPERTY ClaimedIsFinished
CHECK_DEADLOCK FALSE
