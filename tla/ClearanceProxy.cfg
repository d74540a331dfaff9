SPECIFICATION FairSpec
CONSTANTS
  c1 = c1
  c2 = c2
  Conns = {c1, c2}
  NoTarget = NoTarget
  NoAddress = NoAddress
  Environments <- MCEnvironments
  Requests <- MCRequests
  Answers <- MCAnswers
  Addresses <- MCAddresses
  PrivateIps <- MCPrivateIps
  MaxTime = 2
INVARIANTS
  TargetsArePermitted
  FreshAddresses
  OneAnswer
PROPERTIES
  TunnelsEnd
CHECK_DEADLOCK FALSE
