SPECIFICATION Spec
CONSTANTS
  Languages <- SomeLanguages
  IntMax = 10
INVARIANTS
  InBounds
  
  FreedOnce
  CrashOnlyIfRootRefused
PROPERTY Ends
