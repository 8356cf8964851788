CONSTANTS
  http = http
  worker = worker
  loop = loop
  none = none
  Producers <- MCProducers
  LoopThread = loop
  Stoppers <- MCStoppers
  None = none
  MaxCalls = 2
SPECIFICATION Spec
INVARIANTS
  NoLostEventWakeup
PROPERTIES
  AcceptedIsHandled
  ShutdownEndsLoop
  ImplementsChannel
CHECK_DEADLOCK FALSE
