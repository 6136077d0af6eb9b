CONSTANTS
  a1 = a1
  m1 = m1
  m2 = m2
  Node <- MCNode
  Type <- MCType
  NoNode = NoNode
  MaxQueue = 2
  MaxCommands = 2
SPECIFICATION FairSpec
INVARIANTS StoppedStaysStopped MapTracksGraph
PROPERTIES LossHandled
CHECK_DEADLOCK FALSE
