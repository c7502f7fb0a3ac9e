SPECIFICATION MCSpec
CONSTANTS
  m = m
  s = s
  g = g
  o = o
  Files <- MCFiles
  Parent <- MCParent
  Scripts <- MCScripts
  Service = service
  Finalizer = finalizer
  Batch = 2
  MaxStops = 1
  MaxFaults = 1
  Rollouts <- MCRollouts
  Operated <- MCOperated
  MaxTurns <- MCMaxTurns
  MaxLines = 2
  MaxFailures = 1
  Rows <- MCRows
  MaxHookFaults = 1
INVARIANTS
  TracesAreTrue
  FlushIsSafe TurnsAreEmitted
PROPERTY EverythingArrives
CHECK_DEADLOCK FALSE
