CONSTANTS
  NotANumber <- MCNotANumber
  Padded <- MCPadded
  Slashed <- MCSlashed
  WritableLogs <- MCLogs
  CommandLines <- MCCommandLines
  UserFiles <- MCUserFiles
  Queries <- MCQueries
  GuiValues <- MCGuiValues
  RandomPaths = {"r1", "r2"}
  Devices <- MCDevices
  DefaultPath = "default"
  NamedPath = "named"
  NoFile = NoFile
  Nothing = Nothing
  MaxStarts = 2
  MaxChanges = 2
  MaxEdits = 1
  MaxRequests = 1
SPECIFICATION Spec
INVARIANTS
  FileIsServed
  InvalidIsNeverSaved
  CastIsAsAsked
PROPERTIES
  StartingEnds
CHECK_DEADLOCK FALSE
