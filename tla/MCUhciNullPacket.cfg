SPECIFICATION Spec
CONSTANTS
  Lengths <- MCLengths
  PacketSizes <- MCPacketSizes
INVARIANTS
  StatusIsNull
