SPECIFICATION FairSpec
CONSTANTS
  c1 = c1
  c2 = c2
  c3 = c3
  v1 = v1
  NoCaller = NoCaller
  NoPolicy = NoPolicy
  Callers <- TwoCallers
  Policies <- MCPolicies
  Requests <- TokenRequests
  StaleAfter = 1
  WaitTimeout = 2
  CacheDuration = 1
  TokenLifetimes = {1, 5}
  HoldersArePrompt = FALSE
  MaxFaults = 1
  MaxTokens = 3
  LastStart = 0
  MaxTime = 2
INVARIANTS
  RefreshReplaces
  AnswerWasValidated
  NoOrphanLock
PROPERTIES
  EveryCallEnds
CHECK_DEADLOCK FALSE
