SPECIFICATION Spec
CONSTANTS
  c1 = c1
  c2 = c2
  c3 = c3
  v1 = v1
  NoCaller = NoCaller
  NoPolicy = NoPolicy
  Callers <- ThreeCallers
  Policies <- MCPolicies
  Requests <- MixedRequests
  StaleAfter = 2
  WaitTimeout = 2
  CacheDuration = 2
  TokenLifetimes = {1, 5}
  HoldersArePrompt = TRUE
  MaxFaults = 1
  MaxTokens = 3
  LastStart = 1
  MaxTime = 3
SYMMETRY CallerSymmetry
INVARIANT NoDuplicateMint
CHECK_DEADLOCK FALSE
