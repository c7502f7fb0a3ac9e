SPECIFICATION ControlSpec
CONSTANTS
  MaxBoxes = 1
  MaxCuts = 1
  MaxStops = 0
  MaxPuts = 1
INVARIANT Idempotent
CHECK_DEADLOCK FALSE
