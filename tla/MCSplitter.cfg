SPECIFICATION Spec
CONSTANTS
  MaxTokens = 4
  MaxCharacters = 5
  Scripts <- MCScripts
INVARIANTS
  TypeOK
  InStep
  SegmentLineExact
  SplitsIntoStatements
  ReadersAgree
  TokensAreContents
