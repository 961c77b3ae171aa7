SPECIFICATION Spec
CONSTANTS
  Identifiers <- MCIdentifiers
  lower <- MCLower
  Reasons <- MCReasons
  Trees <- MCTrees
  Policies <- MCPolicies
INVARIANTS
  StrictestOfStatement
