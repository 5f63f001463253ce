SPECIFICATION Spec
CONSTANTS
  None = None
  e1 = e1
  t1 = t1
  t2 = t2
  Events = {e1}
  Handles = {h1}
  Tasks = {t1, t2}
  Confs <- MCConfs
SYMMETRY MCTaskSymmetry
INVARIANTS
  TypeOK
  BoundaryNeedsConsent
  OnSaleNeedsConsent
PROPERTIES
  QueueKeepsCeremony
  ReadOnlySendsNothing
