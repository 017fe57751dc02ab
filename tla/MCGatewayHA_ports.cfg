SPECIFICATION Spec
CONSTANTS
  Chassis = {1, 2}
  LRP = {l1, l2}
  Tracked = {l1, l2}
  DrainOnShutdown = {1}
  InitPriorities = {1}
  MaxPriority = 3
  TieFlaps = TRUE
  ReleaseFirst = FALSE
  PromptElections = FALSE
  Droppable <- RowsOfOne
  Faults = {}
  MaxFaults = 0
  MaxExits = 1
PROPERTIES DrainedStaysAway
SYMMETRY Ports
