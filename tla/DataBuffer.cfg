SPECIFICATION Spec
CONSTANTS
  b0 = b0
  b1 = b1
  Bytes <- SomeBytes
  Null = b0
  InitialSize = 2
  MaxSize = 5
  MaxChunk = 3
PROPERTIES
  ImplementsQueue
