CONSTANTS
  d1 = d1
  d2 = d2
  Device = {d1, d2}
  NoDevice = none
  Settings <- MCSettings
  NoSettings <- MCNoSettings
  MaxCommands = 3
  MaxQueue = 1
SPECIFICATION FairSpec
CHECK_DEADLOCK FALSE
INVARIANTS OneSession RightModel FailuresReported
PROPERTIES CommandsHandled
