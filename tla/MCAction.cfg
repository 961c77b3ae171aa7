CONSTANTS
  p1 = p1
  p2 = p2
  NoPath = NoPath
  Paths <- MCPaths
  Commands <- MCCommands
  Jobs <- MCJobs
  Contents <- MCContents
  MaxChanges = 1

SPECIFICATION Spec

INVARIANTS
  TypeOK
  OutcomeWasTrue
  OutputsAgree
  SarifBacksTheOutcome

PROPERTY
  JobEnds
