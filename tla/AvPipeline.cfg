SPECIFICATION Spec
INVARIANTS
  NothingMissing
  EverythingIsFreed
CHECK_DEADLOCK FALSE
