SPECIFICATION Spec
CONSTANTS
  n1 = n1  n2 = n2  walk = walk
  Agent = {n1, n2}
  Action = {walk}
  Party <- Alone
  Registries = {TRUE, FALSE}
  Reports = {"movement_arrived", "movement_failed", "movement_cancelled"}
  Controls <- Pausing
  Timeouts = TRUE
  MaxConn = 2
  MaxTick = 1
  MaxWire = 1
  MaxCuts = 1
  MaxFailures = 1
  MaxRestarts = 1
  MaxRepeats = 1
INVARIANTS
  TypeOK
  GateAgrees
  InOrder
  NobodyForgotten
PROPERTIES
  HandsOver
  AppliedOnce
CHECK_DEADLOCK FALSE
