SPECIFICATION Spec
CONSTANTS
  N = 1
  Parent <- FileParent
  Above <- FileAbove
  Kinds <- FileKinds
  IgnoreLists <- NoNames
  Directions <- UpAndDown
  Skew = 0
  TimeWrap = 64
  FirstTime <- Before1970
  StartTime = 2
  MaxTime = 4
  MaxRuns = 3
  MaxEdits = 2
INVARIANTS
  SecondRunIdle
  StuckOnlyWithCause
PROPERTIES
  NewerKept
