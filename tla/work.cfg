SPECIFICATION MCSpec
CONSTANTS
  x = x
  y = y
  Briefs = {x, y}
  Parallel = FALSE
  Retries = 1
  MaxUsage = 2
  MaxCancels = 2
  Names = {x, y}
  Callers = {"p", "q"}
  MaxBriefs = 2
  MaxStops = 2
  Metrics = {x, y}
  Limits <- MCLimits
  MaxValue = 2
  MaxReads = 4
  Pods = {x, y}
  MaxReadings = 3
  MaxLate = 1
  MaxTrim = 3
  KeepRecent = 2
  TokenLimit = 5
  MaxItems = 8
  MaxChanges = 1
INVARIANTS
  TurnsAreAccountedFor BriefsAreAccountedFor LastKnownIsKept FoundPodsAreCounted
PROPERTIES
  CancelledBriefsEnd NothingIsForgotten
CHECK_DEADLOCK FALSE
