------------------------------- MODULE Stage1 -------------------------------
(***************************************************************************)
(* boot/stage1.asm: the boot sector tests COM1, resets the disk and reads  *)
(* stage 2 one sector at a time, rolling sector, head, cylinder and offset *)
(* over in 8 and 16 bit registers. The BIOS reads what the registers name, *)
(* or fails. LoadSpec is what stage 2 may rely on.                         *)
(***************************************************************************)
EXTENDS Naturals

CONSTANTS
  COMTEST_TRIES,   \* 10000 in stage1.asm
  Sizes            \* sizes stage 2 may be linked to

\* Registers have 16 bits, and "mov ax, stage2_size" links with no more; an
\* empty stage 2 cannot be linked.
Word == 65536
ASSUME SizeAssumption == \A s \in Sizes : s \in Nat /\ 1 <= s /\ s < Word
ASSUME TriesAssumption == COMTEST_TRIES \in Nat /\ 1 <= COMTEST_TRIES

\* linker.ld; the geometry of a 1.44 MB floppy.
stage2_start == 32768
SectorsPerTrack == 18
Heads == 2
Cylinders == 80

VARIABLES
  pc, cx,               \* the point of the program, and the tries left; cx
                        \* is made of ch and cl, and 0 once they are used
  size,                 \* stage2_size, fixed when stage 2 is linked
  remaining,            \* sectors to read, on the stack
  cl, dh, ch, bx, es,   \* sector, head, cylinder; where it goes
  memory                \* the sectors in memory, as pairs <<address, sector>>

regs == <<cl, dh, ch, bx, es>>
vars == <<pc, cx, size, remaining, regs, memory>>

Init ==
  /\ pc = "comtest" /\ cx = COMTEST_TRIES /\ size \in Sizes
  /\ remaining = 0 /\ cl = 0 /\ dh = 0 /\ ch = 0 /\ bx = 0 /\ es = 0
  /\ memory = {}

\* The test byte comes back, or not yet, or never.
ComtestOk ==
  /\ pc = "comtest" /\ pc' = "reset"
  /\ UNCHANGED <<cx, size, remaining, regs, memory>>

ComtestAgain ==
  /\ pc = "comtest" /\ cx > 1
  /\ cx' = cx - 1
  /\ UNCHANGED <<pc, size, remaining, regs, memory>>

ComtestFails ==
  /\ pc = "comtest" /\ cx = 1
  /\ cx' = 0 /\ pc' = "hang"
  /\ UNCHANGED <<size, remaining, regs, memory>>

\* some_err: no call of the BIOS is tried twice.
DiskFails ==
  /\ pc \in {"reset", "read"} /\ pc' = "hang"
  /\ UNCHANGED <<cx, size, remaining, regs, memory>>

SectorCount(s) == ((s + 511) % Word) \div 512

ResetDisk ==
  /\ pc = "reset" /\ pc' = "read"
  /\ remaining' = SectorCount(size)
  /\ cx' = 0 /\ cl' = 2 /\ dh' = 0 /\ ch' = 0
  /\ bx' = stage2_start /\ es' = 0
  /\ UNCHANGED <<size, memory>>

\* The sector the BIOS finds at a head, cylinder and sector number.
Lba == (ch * Heads + dh) * SectorsPerTrack + cl - 1

\* int 0x13
ReadSector ==
  /\ pc = "read" /\ pc' = "advance"
  /\ cl \in 1 .. SectorsPerTrack /\ dh < Heads /\ ch < Cylinders
  /\ LET a == es * 16 + bx
     IN  memory' = {m \in memory : m[1] # a} \cup {<<a, Lba>>}
  /\ UNCHANGED <<cx, size, remaining, regs>>

\* A slip: the carry of the offset is dropped.
AdvanceOffset_wraps == bx' = (bx + 512) % Word /\ UNCHANGED es

\* .offset_check, .offset_roll
AdvanceOffset ==
  IF bx + 512 < Word THEN bx' = bx + 512 /\ UNCHANGED es
                     ELSE bx' = 0 /\ es' = (es + 4096) % Word

\* .sector_check to .cylinder_roll
AdvanceSector ==
  LET h == IF cl = SectorsPerTrack THEN dh + 1 ELSE dh
      c == IF h >= Heads THEN ch + 1 ELSE ch
  IN  /\ cl' = IF cl = SectorsPerTrack THEN 1 ELSE cl + 1
      /\ dh' = IF h >= Heads THEN 0 ELSE h
      /\ ch' = IF c >= Cylinders THEN 0 ELSE c

\* The roll-overs and .cont_read.
Advance ==
  /\ pc = "advance" /\ AdvanceOffset /\ AdvanceSector
  /\ remaining' = (remaining + Word - 1) % Word
  /\ pc' = IF remaining' = 0 THEN "jump" ELSE "read"
  /\ UNCHANGED <<cx, size, memory>>

JumpStage2 ==
  /\ pc = "jump" /\ pc' = "stage2"
  /\ UNCHANGED <<cx, size, remaining, regs, memory>>

Next ==
  \/ ComtestOk \/ ComtestAgain \/ ComtestFails
  \/ DiskFails \/ ResetDisk \/ ReadSector \/ Advance \/ JumpStage2

Spec == Init /\ [][Next]_vars

\* Beyond 127 sectors ax overflows when SectorCount rounds up: the count is 0
\* and the loop reads on, past stage 2 and over whatever memory comes next.
SizeFits == size <= 127 * 512

-----------------------------------------------------------------------------
\* Registers keep their widths and stay in the geometry.
TypeOK ==
  /\ pc \in {"comtest", "reset", "read", "advance", "jump", "stage2", "hang"}
  /\ cx \in 0 .. COMTEST_TRIES /\ size \in Sizes /\ remaining \in 0 .. Word - 1
  /\ cl \in 0 .. SectorsPerTrack /\ dh \in 0 .. Heads - 1 /\ ch \in 0 .. Cylinders - 1
  /\ bx \in 0 .. Word - 1 /\ es \in 0 .. Word - 1

Status ==
  CASE pc = "stage2" -> "running" [] pc = "hang" -> "stopped" [] OTHER -> "loading"

Promise == INSTANCE LoadSpec WITH status <- Status

\* read_loop keeps the promise of LoadSpec: every sector of stage 2, and no
\* other, goes to its place, and "JMP stage2" follows the last one. For a
\* stage 2 that fits; a larger one is not loaded.
ImplementsLoadSpec == Promise!Spec
=============================================================================
