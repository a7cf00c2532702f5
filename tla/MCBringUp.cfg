SPECIFICATION BringUpFairSpec
CONSTANTS
  BusCount = 2
  DeviceCount = 2
  FuncCount = 3
  MAX_REG_DRIVERS = 2
  Calls <- Order
  Matches <- DriverMatches
  Masters <- UhciDriver
  Machines <- SomeMachines
  PortCount = 2
  ResetWaits = 2
  EnableWaits = 2
  Results <- AnyResult
  MaxPlugs = 2
CHECK_DEADLOCK FALSE
INVARIANTS
  TypesOK
  OffersMatch
  MemoryHeld
  AddressesDiffer
PROPERTIES
  ChangeKeptUntilUp
  BringUpEnds
