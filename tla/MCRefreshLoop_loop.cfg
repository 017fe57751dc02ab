SPECIFICATION Spec
CONSTANTS
  Chassisredirect = Chassisredirect
  NAT = NAT
  Gateway_Chassis = Gateway_Chassis
  ReadOrder <- MCReadOrder
  Urgent <- MCUrgent
  Direct <- MCDirect
  ChangePhases <- InMainLoop
  MaxChanges = 2
  DrainOnShutdown = TRUE
  CleanupOnShutdown = TRUE
  Faults = {"connect", "select"}
  MaxFaults = 1
  MaxStops = 0
INVARIANTS TypeOK ChangeCovered WakeupPending QuietIsCurrent
