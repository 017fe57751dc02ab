SPECIFICATION FromFirst
CONSTANTS
  r1 = r1
  Chassis = {1, 2, 3}
  Router <- OneRouter
  Hosts <- TwoHosts
  RealGateway = {}
  OtherBindings <- OneOther
  DrainOnShutdown = FALSE
  CleanupOnShutdown = FALSE
  Faults = {"txn", "list", "select", "bridge", "monitor"}
  MaxFaults = 1
  MaxMoves = 0
  MaxExits = 2
PROPERTIES EntriesConverge StaleRoutesGone
