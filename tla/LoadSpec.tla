------------------------------ MODULE LoadSpec ------------------------------
(***************************************************************************)
(* What the first stage promises the second: stage 2 is entered only when  *)
(* all of it lies in memory, sector by sector in the order of the disk and *)
(* nothing else has been written; if that cannot be had, nothing is run.   *)
(***************************************************************************)
EXTENDS Naturals

CONSTANTS stage2_start, Sizes

VARIABLES size, memory, status

vars == <<size, memory, status>>

Sectors == (size + 511) \div 512

\* The first k sectors behind the boot sector in their places: pairs of an
\* address and the number of the sector that lies there.
Image(k) == {<<stage2_start + 512 * j, j + 1>> : j \in 0 .. k - 1}

Init == size \in Sizes /\ memory = {} /\ status = "loading"

LoadNext ==
  /\ status = "loading"
  /\ \E k \in 0 .. Sectors - 1 : memory = Image(k) /\ memory' = Image(k + 1)
  /\ UNCHANGED <<size, status>>

Run ==
  /\ status = "loading" /\ memory = Image(Sectors)
  /\ status' = "running"
  /\ UNCHANGED <<size, memory>>

Stop ==
  /\ status = "loading" /\ status' = "stopped"
  /\ UNCHANGED <<size, memory>>

Next == LoadNext \/ Run \/ Stop

Spec == Init /\ [][Next]_vars
=============================================================================
