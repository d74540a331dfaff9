SPECIFICATION FairSpec
CONSTANTS
  MaxRecipients = 5
  ChunkSize = 2
  ExpiryTimes <- MCExpiryTimes
  NotATime = NotATime
  MaxAttempts = 3
  MaxRetries = 1
  MaxDeaths = 1
  RememberFor = 5
  RunTime = 2
  FlightTime = 1
  MaxTime = 6
INVARIANTS
  NotifiedOnce
  KeysNeverConflict
  LatenessIsBounded
PROPERTIES
  KeepsPromise
  JobSettles
CHECK_DEADLOCK FALSE
