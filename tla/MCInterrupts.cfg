SPECIFICATION InterruptsFairSpec
CONSTANTS
  pit = pit
  uhci1 = uhci1
  uhci2 = uhci2
  stray = stray
  far = far
  NULL = NULL
  Devices <- MCDevices
  Timers <- MCTimers
  Line <- MCLine
  MAX_ISR_CNT = 48
  MaxRaises = 1
  Word = 4
  Delays <- MCDelays
INVARIANTS
  TypesOK
  OneNapTooMany
  ListsInOrder
PROPERTIES
  NeverEarly
  NoFalseAlarm
  SleepEnds
  DeviceServed
