SPECIFICATION Spec
CONSTANTS
  Lengths <- MCLengths
  PacketSizes <- MCPacketSizes
INVARIANTS
  TypeOK
  PacketsAgreed
  BufferFilled
