SPECIFICATION FairSpec
CONSTANTS
  Chassis = {1, 2}
  LRP = {l1}
  Tracked = {l1}
  DrainOnShutdown = {1, 2}
  InitPriorities = {1, 2}
  MaxPriority = 9
  TieFlaps = FALSE
  ReleaseFirst = FALSE
  PromptElections = TRUE
  Droppable = {}
  Faults = {"txn", "lost", "nbread", "sbread", "refresh"}
  MaxFaults = 1
  MaxExits = 2
INVARIANTS PriorityGrowth
PROPERTIES LeadEstablished ShutdownEnds
