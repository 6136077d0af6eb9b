CONSTANTS
  a1 = a1
  m1 = m1
  m2 = m2
  Node <- MCNode
  Type <- MCType
  NoNode = NoNode
  MaxQueue = 2
  MaxCommands = 2
SPECIFICATION Spec
PROPERTIES FallsBackToDefault
CHECK_DEADLOCK FALSE
