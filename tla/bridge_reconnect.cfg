SPECIFICATION FairSpec
CONSTANTS
  n1 = n1  n2 = n2  walk = walk
  Agent = {n1, n2}
  Action = {walk}
  Party <- Alone
  Registries = {TRUE}
  Reports = {"movement_arrived"}
  Controls = {}
  Timeouts = FALSE
  MaxConn = 4
  MaxTick = 2
  MaxWire = 2
  MaxCuts = 1
  MaxFailures = 1
  MaxRestarts = 0
  MaxRepeats = 0
PROPERTIES
  EventuallyReady
  TripsEnd
CHECK_DEADLOCK FALSE
