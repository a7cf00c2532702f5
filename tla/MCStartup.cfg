SPECIFICATION StartupFairSpec
CONSTANTS
  COMTEST_TRIES = 3
  Sizes <- EdgeSizes
  Built = 8705
  Lines <- SomeLines
  Exceptions <- SomeExceptions
  Claimed <- Devices
  MaxRaises = 2
  MaxFaults = 2
CHECK_DEADLOCK FALSE
INVARIANTS
  TypesOK
  HandlersRestore
  IrqsDoNotNest
PROPERTIES
  ImplementsLoadSpec
  LinesServed
