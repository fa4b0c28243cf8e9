SPECIFICATION SearchSpec
CONSTANTS
  Characters <- SomeCharacters
  Lower <- SomeLower
  Patterns <- SomePatterns
  FileNames <- SomeNames
  Directories <- SomeDirectories
  Arguments <- SomeArguments
  target_ftype = "f"
  MaxDepth = 2
  Chunk = 1
INVARIANTS MatchIsRight FoundExactly
PROPERTIES BlocksSound SearchEnds
CHECK_DEADLOCK FALSE
