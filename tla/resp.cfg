SPECIFICATION FairSpec
CONSTANTS
  Digits <- MCDigits
  Scripts <- MCAll
  CheckSize = 3
  BufSize = 4
  Pipelined = FALSE
  FaultSets = {{}, {"errno", "timeout", "reset", "fin"}}
INVARIANTS
  TypeOK
  Intact
  FramingSync
  AllDelivered
PROPERTIES
  Delivered
  Returns
CHECK_DEADLOCK FALSE
