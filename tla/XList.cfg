SPECIFICATION Spec
CONSTANTS
  Inputs <- SomeLists
  Addr = {1, 2, 3}
  Keys = {1, 2}
INVARIANTS
  RunsAreDigits
  
  Linked
PROPERTIES
  Implements
  AtIterator
  Returns
