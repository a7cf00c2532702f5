--------------------------- MODULE MCUhciControl ---------------------------
(* A device descriptor (18 bytes), string descriptors from the length byte   *)
(* alone to the longest one, and lengths on both sides of a packet boundary. *)
EXTENDS UhciControl

MCLengths == {1, 2, 8, 9, 18, 63, 64, 65, 255}
MCPacketSizes == {8, 16, 32, 64}
=============================================================================
