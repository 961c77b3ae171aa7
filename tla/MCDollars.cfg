SPECIFICATION Spec
CONSTANTS
  MaxTokens = 4
  MaxCharacters = 7
  Scripts <- DollarScripts
INVARIANT SingleStatementSegments
