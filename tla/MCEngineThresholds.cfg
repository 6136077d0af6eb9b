CONSTANTS
  d1 = d1
  d2 = d2
  Device = {d1}
  NoDevice = none
  Settings <- MCSettings
  NoSettings <- MCNoSettings
  MaxCommands = 3
  MaxQueue = 1
SPECIFICATION Spec
CHECK_DEADLOCK FALSE
INVARIANTS
  StartThresholds
