SPECIFICATION Spec
CONSTANTS
  VGA_WIDTH = 3
  VGA_HEIGHT = 3
  Byte = 4
  MainStrings <- Texts
  IsrStrings <- Message
CONSTRAINT Whole
INVARIANTS
  TypeOK
  ScreenShowsText
  HardwareCursor
