CONSTANTS
  MaxQueued = 3
  MaxAttempts = 1
  MaxFrames = 3
  MaxResponses = 2
  Samples <- MCSamples
SPECIFICATION FairSpec
INVARIANTS TypeOK Backlog CaptureOrder NoHole TailBeforeEos
PROPERTIES NothingAfterEos KeepsClientContract JoinReturns AudioMoves
