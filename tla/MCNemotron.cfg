CONSTANTS
  FrameSize = 2
  ChunkSize = 3
  PreSpeech = {0, 3}
  Thresholds = {0, 1, 2}
  MaxFrames = 5
  MaxUpdates = 1
  MaxSessions = 2
SPECIFICATION Spec
INVARIANTS OneSegmentInContext SpeechOnce
PROPERTIES UtteranceFinished
CHECK_DEADLOCK FALSE
