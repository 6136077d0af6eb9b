CONSTANTS
  MaxPieces = 3
  MaxOutages = 2
SPECIFICATION FairSpec
INVARIANTS TextAccounted StopKeepsAll ReasonAndTextKept
PROPERTIES StatusReported
