SPECIFICATION LauncherSpec
CONSTANTS
  c1 = c1
  c2 = c2
  c3 = c3
  Commands <- ThreeCommands
  MaxPids = 3
  MaxEdits = 1
  MaxCrashes = 0
  MaxKills = 0
  MaxByHand = 0
  Serial = FALSE
  Prompt = TRUE
SYMMETRY AnyOrder
INVARIANT RestartPicksUpEdits
CHECK_DEADLOCK FALSE
