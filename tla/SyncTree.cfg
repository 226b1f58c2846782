SPECIFICATION Spec
CONSTANTS
  N = 2
  Parent <- TreeParent
  Above <- TreeAbove
  Kinds <- TreeKinds
  IgnoreLists <- AnyOneName
  Directions <- UpAndDown
  Skew = 1
  TimeWrap = 64
  FirstTime = 1
  StartTime = 2
  MaxTime = 2
  MaxRuns = 1
  MaxEdits = 2
INVARIANTS
  DirectoryBeforeContents
  CleanRunConverges
PROPERTIES
  
  RunEnds
