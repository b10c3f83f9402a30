CONSTANTS
  Sites <- MCSites
  Requests <- MCRequests
  Answers <- MCAnswers
  ParseTTL <- MCParseTTL
  MaxEntries = 1
SPECIFICATION ReadingSpec
INVARIANTS
  CacheKeepsApart
  ConfigurationRead
  RequestRead
  KubernetesRouted
  RepliesHonest
CHECK_DEADLOCK FALSE
