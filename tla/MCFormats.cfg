SPECIFICATION FormatsSpec
CONSTANTS
  Names <- MCNames
  Rank <- MCRank
  Forbidden <- MCForbidden
  Payloads <- MCPayloads
  NotText = NotText
  MaxDepth = 2
  MaxTokens = 40
  HashLen = 8
CHECK_DEADLOCK FALSE
INVARIANTS OpenSorted AcceptedIsArchive RefusedIsNoArchive
INVARIANTS EncodedIsTheBits DecodedIsTheBits BasenamePrintsBack GlobIsItsLanguage
INVARIANTS ValidatorsKeepTheirGrammar FirstSuccessDecides NarInfoIsItsLines ConfigAllOrNothing
