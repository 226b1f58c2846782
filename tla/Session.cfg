SPECIFICATION SessionSpec
CONSTANTS
  MaxConfigs = 5
  MaxOptions = 2
  FdLimit = 2
INVARIANTS
  OnlySocketsLeak
  BufferUsable
  AllTried
PROPERTY Ends
