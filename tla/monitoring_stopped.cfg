\* An instance stops after its collection was interrupted.
SPECIFICATION Spec
CONSTANTS
  Targets = {i1}
  MaxWindows = 2
  Horizon = 2
  Unreliable = {}
  MaxFaults = 1
  MaxChanges = 1
PROPERTY
  StoppedNotCollected
