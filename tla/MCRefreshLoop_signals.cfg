SPECIFICATION Spec
CONSTANTS
  Chassisredirect = Chassisredirect
  NAT = NAT
  Gateway_Chassis = Gateway_Chassis
  ReadOrder <- MCReadOrder
  Urgent <- MCUrgent
  Direct <- MCDirect
  ChangePhases <- MainPhase
  MaxChanges = 1
  DrainOnShutdown = TRUE
  CleanupOnShutdown = TRUE
  Faults = {}
  MaxFaults = 0
  MaxStops = 0
PROPERTIES DrainedSignalsRedundant
