SPECIFICATION Spec
CONSTANTS
  Agent = {1, 2}
  Plots <- MCPlots
  Interval = 2
  EndMinute = 4
  Chunks = {1, 3}
  MaxRuns = 2
INVARIANTS
  DirectoriesWhole
  ReplaysAgree
  HistoriesAgree
PROPERTIES
  CheckpointsStable
CHECK_DEADLOCK FALSE
