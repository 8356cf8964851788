CONSTANTS
  Nominal = 8
  AudioDur = 3
  AudioFrame = 2
  Fragments = {3}
  FrameSizes = {1, 2}
  BufferSize = 3
  MaxTime = 3
  MaxFrames = 2
  MaxSound = 3
  Offers <- MCOffers
SPECIFICATION RawSpec
INVARIANTS
  
  
  FramesAreFresh
PROPERTIES
  CastEnds
CHECK_DEADLOCK FALSE
