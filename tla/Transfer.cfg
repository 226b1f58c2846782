SPECIFICATION Spec
CONSTANTS
  Byte <- MCByte
  BufSize = 2
  StdioBuf = 2
  MaxLen = 3
  MaxChanges = 2
INVARIANTS
  NothingLostInTheBuffer
  SuccessMeansCopied
  HandlesReleased
  KilledOnlyIfSourceGrew
 
