SPECIFICATION Spec
CONSTANTS
  Image <- Program
  Main <- LoopAddresses
  Isr = 2
  Writable <- LoopAndData
  MaxLength = 2
INVARIANTS
  TypeOK
  FaultsReported
  StepIsOne
PROPERTY
  RegistersKept
