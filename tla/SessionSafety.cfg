CONSTANTS
  c1 = c1
  c2 = c2
  NoConn = NoConn
  Conns <- TwoConns
  MaxCancels = 1
  MaxSignals = 0
  Workers <- AllWorkers
SPECIFICATION SafeSpec
SYMMETRY ConnSymmetry
INVARIANTS
  OwnerIsRecorded
  NoSurvivingThread
  
  NoOrphanClient
  GuiSettles
CHECK_DEADLOCK FALSE
