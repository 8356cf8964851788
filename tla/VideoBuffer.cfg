CONSTANTS
  Capacity = 3
  Sizes <- SmallAndLarge
  MaxChunks = 3
  MaxResumes = 1
SPECIFICATION Spec
INVARIANTS
  ChunksInOrder
  NoLostHandoff
  StopIsHeard
  WaitHolds
PROPERTIES
  SourceIsLetGo
  EndCompletes
CHECK_DEADLOCK FALSE
