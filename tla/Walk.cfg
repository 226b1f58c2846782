SPECIFICATION WalkSpec
CONSTANTS
  Char = {"a", "b", ".", "/"}
  Texts <- Letters
  Capacities <- Small
  MaxSize = 20
  Nul = "nul"
  Junk = "junk"
  Trees <- SomeTrees
  BasePaths <- SomeBases
  Dest <- OtherBase
  IgnoreLists <- SomeIgnored
  Code <- Codes
  MaxLinks = 2
  PathMax = 11
  MaxFailures = 1
INVARIANTS
  PathIsDirectoryRead
  ListsReachable
  AskedByName
PROPERTY Ends
