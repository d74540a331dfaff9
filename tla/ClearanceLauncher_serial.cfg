SPECIFICATION LauncherSpec
CONSTANTS
  c1 = c1
  c2 = c2
  c3 = c3
  Commands <- ThreeCommands
  MaxPids = 3
  MaxEdits = 2
  MaxCrashes = 2
  MaxKills = 0
  MaxByHand = 0
  Serial = TRUE
  Prompt = TRUE
SYMMETRY AnyOrder
INVARIANTS
  PidfileNamesTheDaemon
  RestartPicksUpEdits
PROPERTIES
  AnswersAreTrue
CHECK_DEADLOCK FALSE
