CONSTANTS
  ValidChunkMs = {80, 560}
  FullScale = 2
  LeastCeiling = 6
  MostCeiling = 12
  MaxTime = 6
  Default <- MCDefault
  Unity = 6
  MinGain = 2
  Snap = 2
  Builds <- MCBuilds
  Edits <- MCEdits
  Objects <- MCObjects
  Environment <- MCEnvironment
  Levels = {0, 5, 99}
  Top = 13
  MaxLaunches = 2
  MaxSaves = 2
  MaxUpdates = 1
SPECIFICATION FairSpec
CHECK_DEADLOCK FALSE
INVARIANTS SettingsUsable
PROPERTIES GainGlides GainSettles
