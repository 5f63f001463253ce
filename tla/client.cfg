SPECIFICATION FairSpec
CONSTANTS
  r1 = r1
  r2 = r2
  NoNumber = NoNumber
  Requests = {r1, r2}
  MAX_ATTEMPTS = 3
  MAX_RETRY_WAIT = 2
  DEFAULT_WAIT = 1
  Headers <- MCHeaders
  Window = 4
  Budget = 2
INVARIANTS
  TypeOK
  BurstCovered
PROPERTIES
  RefinesAtMostOnce
  EveryCallEnds
