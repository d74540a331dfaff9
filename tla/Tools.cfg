SPECIFICATION MCSpec
CONSTANTS
  u1 = "u1"
  u2 = "u2"
  b1 = "b1"
  b2 = "b2"
  t1 = "t1"
  t2 = "t2"
  Shapes <- MCShapes
  Contexts <- MCContexts
  Offered <- MCOffered
  Bodies <- MCBodies
  NoBody = "none"
  Offsets <- MCOffsets
  NoOffset = 9
  Urls <- MCUrls
  NoUrl = "none"
  GroupsCap = 2
  InstancesCap = 3
  BodiesCap = 1
  Threshold = 1
  Stride = 2
  MaxObserved = 5
  NoObservation = NoObservation
  CapOf <- MCCapOf
  TraceparentOf <- MCTraceparentOf
  NumberOf <- MCNumberOf
  MaxIdentifier = 4
  OfferedAttachments <- MCAttachments
  KeyOf <- MCKeyOf
  PathOf <- MCPathOf
  NoKey = "none"
  Malformed <- MCMalformed
  MaximumRecords = 2
  MaximumBytes = 10
  EmptyBytes = 5
  MaxJoined = 2
  OfferedTraces <- MCTraces
  Steps <- MCSteps
  NoAnchor = 7
  ConsoleCap = 2
  LogCap = 3
  LogHead = 1
  MaxTraces = 2
  Tests <- MCTests
  ExpectedToFail <- MCExpectedToFail
  MaxAttempts = 2
  MaxErrors = 1
  MaxRuns = 2
  Files <- MCFiles
  Layouts <- MCLayouts
  IsMarkdown <- MCIsMarkdown
  MaxVersion = 1
INVARIANTS
  NetworkReportIsConsistent
  LifecyclesAreTrue
  SignalSurvives
  ReportIsTrue
  SuccessMeansInSync
PROPERTIES
  KeepsTheWorst
\* A tool that is done stops.
CHECK_DEADLOCK FALSE
