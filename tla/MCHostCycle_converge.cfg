SPECIFICATION FairSpec
CONSTANTS
  rA = rA
  rB = rB
  a = a
  b = b
  n1 = n1
  n2 = n2
  None = None
  NoTable = NoTable
  PatchPort <- Ports
  MAC = {"m1", "m2"}
  FirstPatch <- Port1
  FirstMAC = "m1"
  VIP = {"vip"}
  Router <- Routers
  IP <- Addresses
  Net = {n1, n2}
  OwnerOf <- MCOwnerOf
  NetOf <- MCNetOf
  NatIP <- Addresses
  SNAT = {a}
  GatewayIP <- Addresses
  Config <- Configs
  Faults = {"bridge", "ovs", "veth", "vtysh", "forward"}
  MaxMoves = 1
  MaxTrouble = 1
  MaxExits = 2
INVARIANTS TypeOK CycleExact NumbersDistinct ForwardingNeedsVeth
PROPERTIES CleanShutdown MakeBeforeBreak Converges
