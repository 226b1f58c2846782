SPECIFICATION Spec
CONSTANTS
  Char = {a, b}
  Texts <- UpToTwo
  Capacities <- Small
  MaxSize = 7
  Nul = Nul
  Junk = Junk
INVARIANT IsCString
PROPERTY Implements
