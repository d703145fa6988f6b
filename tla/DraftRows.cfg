SPECIFICATION Spec
CONSTANTS
  one = one
  two = two
  Tracks <- MCTracks
  Loudness <- MCLoudness
  FrameSamples = 2
  FrameCount = 13
  Bridge = 1
  Minimum = 2
  Silence = 2
  Padding = 3
  Speech <- MCSpeech
  MaxWords = 2
  Preserved <- MCPreserved
CHECK_DEADLOCK FALSE
INVARIANTS
  NothingLost
