CONSTANTS
  Sites <- MCSites
  Requests <- MCRequests
  Answers <- MCAnswers
  ParseTTL <- MCParseTTL
  MaxEntries = 1
SPECIFICATION DecisionSpec
INVARIANT RefreshSameIdentity
CHECK_DEADLOCK FALSE
