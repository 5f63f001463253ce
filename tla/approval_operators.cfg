SPECIFICATION Spec
CONSTANTS
  None = None
  Actions = {a1}
  t1 = t1
  t2 = t2
  c1 = c1
  c2 = c2
  refund = refund
  batch = batch
  execute = execute
  Tasks = {t1}
  Clis = {c1, c2}
  HighRisk <- MCRefund
  Reporting = {}
  ExecuteTool = execute
  Configs <- MCRefundConfigs
  TTL = 1
  MaxTime = 2
  Faults <- MCProcessFaults
SYMMETRY CliSymmetry
PROPERTIES
  DecidedOnce
  RefinesCeremony
CHECK_DEADLOCK FALSE
