SPECIFICATION Spec
CONSTANTS
  None = None
  Actions = {a1}
  t1 = t1
  t2 = t2
  c1 = c1
  c2 = c2
  refund = refund
  batch = batch
  execute = execute
  Tasks = {t1}
  Clis = {c1, c2}
  HighRisk <- MCTools
  Reporting <- MCReporting
  ExecuteTool = execute
  Configs <- MCConfigs
  TTL = 1
  MaxTime = 2
  Faults <- MCCancellation
INVARIANT EveryChangeAudited
CHECK_DEADLOCK FALSE
