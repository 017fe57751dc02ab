SPECIFICATION FairSpec
CONSTANTS
  rA = rA
  rB = rB
  a = a
  b = b
  v = v
  n1 = n1
  n2 = n2
  Router <- Routers
  IP <- Addresses
  Net = {n1, n2}
  NetOf <- TwoNets
  NatIPs <- MCNatIPs
  GatewayIPs <- MCGatewayIPs
  Nets <- TwoNetsApart
  VIP = {}
  NetworkFilters = {}
  PortForwardOnly = FALSE
  CleanupOnShutdown = FALSE
  RouteTable = FALSE
  Faults = {}
  MaxFaults = 0
  MaxMoves = 1
  MaxDrifts = 0
  MaxExits = 0
PROPERTIES FailoverWithdraws
