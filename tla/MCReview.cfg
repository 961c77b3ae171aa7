CONSTANTS
  p1 = p1
  p2 = p2
  NoPath = NoPath
  Paths <- MCPaths
  Commands <- MCCommands

SPECIFICATION Spec

INVARIANTS
  TypeOK
  StrictestWins
  AllOrNothing
  FindingsPointBack
  SummaryAgrees
  LoopInvariants
  SarifAgrees

PROPERTIES
  Terminates
  ImplementsGate
