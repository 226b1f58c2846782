SPECIFICATION Spec
CONSTANTS
  Required <- HostAndUser
  Plain <- Port
  Files <- SomeFiles
INVARIANTS
  LostOnlyIfRepeated
  OwnedOnce
  
