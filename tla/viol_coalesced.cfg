SPECIFICATION Spec
CONSTANTS
  Digits <- MCDigits
  Scripts <- MCTwoPages
  CheckSize = 3
  BufSize = 8
  Pipelined = TRUE
  FaultSets = {{}}
INVARIANTS
  Intact
CHECK_DEADLOCK FALSE
