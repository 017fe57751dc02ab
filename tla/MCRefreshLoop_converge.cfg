SPECIFICATION FairSpec
CONSTANTS
  Chassisredirect = Chassisredirect
  NAT = NAT
  Gateway_Chassis = Gateway_Chassis
  ReadOrder <- MCReadOrder
  Urgent <- MCUrgent
  Direct <- MCDirect
  ChangePhases <- AfterStart
  MaxChanges = 1
  DrainOnShutdown = TRUE
  CleanupOnShutdown = TRUE
  Faults = {"miss"}
  MaxFaults = 1
  MaxStops = 1
PROPERTIES RefreshHeals Converges FollowsServer
