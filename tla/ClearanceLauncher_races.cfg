SPECIFICATION FairLauncherSpec
CONSTANTS
  c1 = c1
  c2 = c2
  c3 = c3
  Commands <- TwoCommands
  MaxPids = 3
  MaxEdits = 0
  MaxCrashes = 1
  MaxKills = 1
  MaxByHand = 1
  Serial = FALSE
  Prompt = FALSE
PROPERTIES
  OneDaemonRemains
  CommandsEnd
CHECK_DEADLOCK FALSE
