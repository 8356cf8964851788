CONSTANTS
  c1 = c1
  c2 = c2
  NoConn = NoConn
  Conns <- TwoConns
  Workers <- MuxerOnly
  MaxCancels = 0
  MaxSignals = 1
SPECIFICATION Spec
PROPERTIES
  FailedCasterEnds
  RequestIsServed
  TeardownCompletes
CHECK_DEADLOCK FALSE
