SPECIFICATION Spec
CONSTANTS
  c1 = c1
  c2 = c2
  Nobody = Nobody
  Conns <- TwoConns
  Expiring <- OneConn
  BufLimit = 1
INVARIANTS
  NoForgottenSuspension
PROPERTIES
  PushedIsSent
  DestructorEnds
  
  GoneClientIsClosed
CHECK_DEADLOCK FALSE
