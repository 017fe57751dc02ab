SPECIFICATION Spec
CONSTANTS
  Chassis = {1, 2}
  LRP = {l1}
  Tracked = {l1}
  DrainOnShutdown = {1, 2}
  InitPriorities = {1, 2}
  MaxPriority = 4
  TieFlaps = TRUE
  ReleaseFirst = TRUE
  PromptElections = FALSE
  Droppable = {}
  Faults = {}
  MaxFaults = 0
  MaxExits = 1
PROPERTIES RestoreBelowActive
