SPECIFICATION Spec
CONSTANTS
  PatChar <- InvertedChars
  StrChar <- Letters
  Inputs <- Inverted
INVARIANTS
  LikeFnmatch
