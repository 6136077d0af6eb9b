CONSTANTS
  FrameSize = 2
  RingCapacity = 3
  MinSpeech = 2
  MinSilence = 1
  Level = {0, 1}
  Thresholds <- MCThresholds
  CaptureCapacity = 5
  MaxYield = 2
  Block = 2
  Batch = {3, 4}
  MaxSamples = 14
  MaxSessions = 2
SPECIFICATION PipeSpec
INVARIANTS PushedOnceInOrder GatingKeepsSpeech StagesExact
CHECK_DEADLOCK FALSE
