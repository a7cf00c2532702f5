--------------------------- MODULE MCUhciTransfer ---------------------------
(* Transfers of two to four descriptors in a heap of seven cells, so that   *)
(* the next chain reuses cells of the last one.                             *)
EXTENDS UhciTransfer

MCLengths == 2 .. 4
EarlyFails == {"early"}
LastFails == {"last"}
=============================================================================
