SPECIFICATION FromFirst
CONSTANTS
  r1 = r1
  Chassis = {1, 2}
  Router <- OneRouter
  Hosts <- AllHosts
  RealGateway = {}
  OtherBindings <- NoOthers
  DrainOnShutdown = TRUE
  CleanupOnShutdown = TRUE
  Faults = {"txn", "drain", "refresh"}
  MaxFaults = 1
  MaxMoves = 1
  MaxExits = 1
INVARIANTS TypeOK DrainedRemovesNothing
PROPERTIES EntriesConverge StaleRoutesGone
