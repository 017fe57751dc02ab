SPECIFICATION FairSpec
CONSTANTS
  rA = rA
  rB = rB
  a = a
  b = b
  v = v
  n1 = n1
  n2 = n2
  Router <- Routers
  IP <- Addresses
  Net = {n1, n2}
  NetOf <- OneNet
  NatIPs <- MCNatIPs
  GatewayIPs <- MCGatewayIPs
  Nets <- OneNetEach
  VIP = {v}
  NetworkFilters = {}
  PortForwardOnly = FALSE
  CleanupOnShutdown = TRUE
  RouteTable = TRUE
  Faults = {"list", "netlink", "rule", "vtysh"}
  MaxFaults = 2
  MaxMoves = 2
  MaxDrifts = 1
  MaxExits = 1
INVARIANTS TypeOK NoBlackHole SmoothCycleExact
PROPERTIES Converges
