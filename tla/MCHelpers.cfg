\* Two explorers over one frontier, the governor, and two jobs of one workflow.
SPECIFICATION HelpersSpec
CONSTANTS
  Supervisors = {s1, s2}
  Shapes = {c1, c2}
  Total = 1
  MaxFaults = 1
  MaxSlow = 1
  GONE = GONE
  NULL = NULL
  HighLimit = 2
  ClearLimit = 3
  MaxSamples = 6
  Jobs = {j1, j2}
  Slack = 1
  MaxClock = 3
  MaxRuns = 3
INVARIANTS HolderCurrent HelpersHold
PROPERTIES CursorForward OrphansEnd ShapesComplete
CHECK_DEADLOCK FALSE
