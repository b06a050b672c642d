SPECIFICATION Spec
CONSTANTS
  Agent = {1, 2}
  Plots <- MCPlots
  Interval = 2
  EndMinute = 4
  Chunks = {1, 3}
  MaxRuns = 1
CHECK_DEADLOCK FALSE
INVARIANT ResumesOrReplays
