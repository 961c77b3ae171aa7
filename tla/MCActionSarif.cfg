CONSTANTS
  p1 = p1
  p2 = p2
  NoPath = NoPath
  Paths <- MCPaths
  Commands <- MCCommands
  Jobs <- NoSarifDirectory
  Contents <- MCContents
  MaxChanges = 0

SPECIFICATION Spec

INVARIANT
  SarifWhenPassing
