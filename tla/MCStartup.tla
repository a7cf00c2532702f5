----------------------------- MODULE MCStartup -----------------------------
(* Stage 2 with sizes on either side of a sector, of a track, of a cylinder, *)
(* of the 64 KiB offset, and the largest that fits. In stage 2 the timer and *)
(* a line of the slave, and their spurious vectors; a fault with an error    *)
(* code, one without an entry in the map, and the NMI.                       *)
EXTENDS Startup

EdgeSizes == {1, 512, 513, 17 * 512, 17 * 512 + 1, 35 * 512, 35 * 512 + 1,
              64 * 512, 64 * 512 + 1, 65023, 65024}
SomeLines == {0, 11}
SomeExceptions == {2, 15, 21}
Devices == {43}
=============================================================================
