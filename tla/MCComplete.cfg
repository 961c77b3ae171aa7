SPECIFICATION MCSpec
CONSTANTS
  Identifiers <- MCNames
  Exprs <- MCExprs
  Nesting <- MCNesting
  Floats <- MCFloats
  Million <- MCMillion
  lower <- MCLower
  Files <- MCFiles
  Rows <- MCRows
INVARIANTS
  CompleteMeansAll
