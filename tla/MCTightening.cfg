SPECIFICATION BothSpec
CONSTANTS
  Identifiers <- MCIdentifiers
  lower <- MCLower
  Reasons <- MCReasons
  Trees <- MCTrees
  Policies <- MCPairs
INVARIANTS
  TypeOK
  OnePass
  NothingLost
  CheckInvariant
  PolicyDecides
  StrictestOtherwise
  TighterNeverRelaxes
