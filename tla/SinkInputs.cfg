CONSTANTS
  i1 = i1
  i2 = i2
  None = None
  Inputs <- TwoInputs
  MuteSource = TRUE
  MaxChanges = 1
SPECIFICATION Spec
INVARIANTS
  CapturedIsSound
  UnmutedIsHeard
PROPERTIES
  PlayingIsCaptured
CHECK_DEADLOCK FALSE
