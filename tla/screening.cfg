SPECIFICATION ServerSpec
CONSTANTS
  None = None
  e1 = e1
  e2 = e2
  Events = {e1, e2}
  Confs <- MCConfs
  Settings <- MCSettings
  Payloads <- MCPayloads
  Arguments <- MCArguments
INVARIANTS
  ServerTypeOK
  OnlyScreenedIsSent
  AmountsRefusedBeforeQueue
  AllowlistHolds
  AnswerIsMasked
  LogIsMasked
  DefaultsClosed
  EnvironmentWins
