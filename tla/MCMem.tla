------------------------------- MODULE MCMem -------------------------------
(* A small heap for Mem: alignments and sizes that split a block at its end, *)
(* at its front, at both, and that leave a rest too short for a free block.  *)
EXTENDS Mem

\* 0 and an alignment of half the address space are the boundary requests.
MCSizes == {0, 1, 8, 20}
MCAligns == {0, 1, 32, 64}
=============================================================================
