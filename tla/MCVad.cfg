CONSTANTS
  FrameSize = 2
  RingCapacity = 5
  MinSpeech = 3
  MinSilence = 2
  Level = {0, 1, 2}
  Thresholds <- MCThresholds
  MaxFrames = 9
SPECIFICATION StreamSpec
INVARIANTS RingHoldsLatest LeakyCount
PROPERTIES EndsAfterSilence
CHECK_DEADLOCK FALSE
