CONSTANTS
  Sites <- MCSites
  Requests <- MCRequests
  Answers <- MCAnswers
  ParseTTL <- MCParseTTL
  MaxEntries = 1
SPECIFICATION ReadingSpec
INVARIANT RootConditionsKept
CHECK_DEADLOCK FALSE
