SPECIFICATION AnalysisSpec
CONSTANTS
  Identifiers <- MCNames
  Exprs <- MCExprs
  Nesting <- MCNesting
  Floats <- MCFloats
  Million <- MCMillion
  lower <- MCLower
  Reasons <- MCReasons
  Trees <- MCTrees
  Policies <- MCPolicies
  Nodes <- MCNodes
  Styles <- Terse
INVARIANTS
  ParityOfFindings
