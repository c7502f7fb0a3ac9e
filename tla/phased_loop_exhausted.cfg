\* A run whose iterations were exhausted is started again with its state directory.
SPECIFICATION Spec
CONSTANTS
  Phases = 2
  MaxIterations <- MCMaxIterations
  Gated = {1}
  Paused = {1}
  Unreadable = {}
  MaxLaunches = 2
  MaxRecords = 8
INVARIANT
  FailureIsPrompted
CHECK_DEADLOCK FALSE
