SPECIFICATION Spec
CONSTANTS
  Byte <- MCByte
  BufSize = 2
  StdioBuf = 2
  MaxLen = 2
  MaxChanges = 0
INVARIANT ZeroMeansEof
