SPECIFICATION Spec
CONSTANTS
  PatChar <- AllChars
  StrChar <- Subject
  Inputs <- Arguments
INVARIANTS
  
  ReadsInBounds
  QuadraticWithoutClasses
PROPERTY Returns
