SPECIFICATION Spec
CONSTANTS
  Chassis = {1, 2}
  LRP = {l1}
  Tracked = {l1}
  DrainOnShutdown = {1, 2}
  InitPriorities = {0, 1, 2}
  MaxPriority = 4
  TieFlaps = TRUE
  ReleaseFirst = TRUE
  PromptElections = FALSE
  Droppable <- AllRows
  Faults = {"txn", "nbread", "refresh"}
  MaxFaults = 1
  MaxExits = 2
INVARIANTS TypeOK BoostRaises
PROPERTIES NoReverseFailover DrainedStaysAway DrainNotSkipped
