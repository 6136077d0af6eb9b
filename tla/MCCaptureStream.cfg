CONSTANTS
  Platforms <- MCPlatforms
  MaxStreams = 3
  MaxBatches = 2
  MaxCommands = 3
SPECIFICATION FairSpec
CHECK_DEADLOCK FALSE
INVARIANTS StreamsAccounted
PROPERTIES OnlyHeldStreamFills WindsDown
