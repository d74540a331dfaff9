SPECIFICATION MCSpec
CONSTANTS
  Apps = {a1, a2}
  Workers = {w1, w2}
  Operations <- MCOperations
  TokenOf <- MCTokenOf
  OldTokens = {t0}
  Events = {e1, e2, e3}
  Lists <- MCLists
  Workplace <- MCWorkplace
  Variables = {v1, v2}
  MaxRecipientsCount = 2
  MaxRetries = 1
  MaxLists = 2
  MaxFlying = 1
  HasSigningKey = FALSE
  NoJob = NoJob
  a1 = a1
  a2 = a2
  e1 = e1
  e2 = e2
  e3 = e3
  r1 = r1
  r2 = r2
  t0 = t0
  t1 = t1
  t2 = t2
  Projects = {p1, p2}
  ReleaseRuns = {run1, run2}
  MaxRetryCount = 2
  MaxCommits = 2
  p1 = p1
  p2 = p2
  run1 = run1
  run2 = run2
INVARIANTS
  TokensSurvive
  ReenqueuedNotifiedOnce
  NobodyMissed
  ReleasesAreTrue
\* A release run ends.
CHECK_DEADLOCK FALSE
SYMMETRY MCSymmetry
