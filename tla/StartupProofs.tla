--------------------------- MODULE StartupProofs ---------------------------
(***************************************************************************)
(* Theorems about Startup: the boot sector's promise holds with stage 2    *)
(* and its interrupts behind it, and stage 2's interrupts nest as they      *)
(* should.                                                                 *)
(***************************************************************************)
EXTENDS Startup, TLAPS, SequenceTheorems, FiniteSetTheorems,
        WellFoundedInduction

-----------------------------------------------------------------------------
(* The boot sector: for every size that fits the registers name sector     *)
(* k + 1 and its place after k sectors, so the loop implements LoadSpec.   *)
(* For larger sizes the count of sectors starts at 0.                      *)


N == Promise!Sectors

\* The registers name sector k + 1 of stage 2 and the place it belongs to.
\* With at most 127 sectors the offset rolls over once, at sector 64.
InRange ==
  /\ cl \in Nat /\ 1 <= cl /\ cl <= 18
  /\ dh \in Nat /\ dh <= 1
  /\ ch \in Nat /\ ch <= 3
NamesSector(k) == 36 * ch + 18 * dh + cl = k + 2
NamesPlace(k) ==
  /\ es = (IF k < 64 THEN 0 ELSE 4096)
  /\ bx = (IF k < 64 THEN 32768 + 512 * k ELSE 512 * (k - 64))
RegsAt(k) == InRange /\ NamesSector(k) /\ NamesPlace(k)

\* k of the N sectors are read and counted.
Read(k) == k \in Nat /\ k < N /\ RegsAt(k) /\ remaining = N - k

\* Between the read and the roll-overs one more sector is in place than is
\* counted.
ReadInv ==
  /\ pc = "read" => \E k \in Nat : Read(k) /\ memory = Promise!Image(k)
  /\ pc = "advance" => \E k \in Nat : Read(k) /\ memory = Promise!Image(k + 1)
  /\ pc \in {"jump", "stage2"} => memory = Promise!Image(N)
  /\ pc \in {"comtest", "reset"} => memory = {}

IInv == TypeOK /\ SizeFits /\ ReadInv

\* The numbers of stage1.asm. The ranges they bound stay unexpanded below.
LEMMA Geometry ==
  /\ Word = 65536 /\ stage2_start = 32768
  /\ SectorsPerTrack = 18 /\ Heads = 2 /\ Cylinders = 80
BY DEF Word, stage2_start, SectorsPerTrack, Heads, Cylinders

\* What the ranges of the 16 bit registers need.
LEMMA WordSize == Word - 1 \in Nat /\ 65535 <= Word - 1
BY Geometry

\* An image grows by the next sector at the next address.
LEMMA ImageGrows ==
  ASSUME NEW k \in Nat
  PROVE  Promise!Image(k + 1) = Promise!Image(k) \cup {<<stage2_start + 512 * k, k + 1>>}
<1>1. 0 .. (k + 1) - 1 = (0 .. k - 1) \cup {k}
  OBVIOUS
<1> QED BY <1>1 DEF Promise!Image

\* No sector of an image lies behind the image.
LEMMA ImageBelow ==
  ASSUME NEW k \in Nat, NEW m \in Promise!Image(k)
  PROVE  m[1] # stage2_start + 512 * k
<1>1. PICK j \in 0 .. k - 1 : m = <<stage2_start + 512 * j, j + 1>>
  BY DEF Promise!Image
<1>2. m[1] = stage2_start + 512 * j
  BY <1>1
<1> QED BY <1>1, <1>2, Geometry

\* At least one sector is read and at most 127, and the count does not overflow.
LEMMA SectorBound ==
  ASSUME size \in Sizes, SizeFits
  PROVE  N \in Nat /\ 1 <= N /\ N <= 127 /\ SectorCount(size) = N
<1>1. size \in Nat /\ 1 <= size /\ size <= 65024
  BY SizeAssumption, Geometry DEF SizeFits
<1>2. (size + 511) % Word = size + 511
  BY <1>1, Geometry
<1> QED BY <1>1, <1>2 DEF N, Promise!Sectors, SectorCount

\* The first 128 sectors lie on the first four cylinders.
LEMMA HeadBound ==
  \A c, d, s, k \in Nat :
    k < 127 /\ 36 * c + 18 * d + s = k + 1 + 2 => c <= 3
OBVIOUS

\* Registers that name a sector and a place keep their types.
LEMMA RegsTyped ==
  ASSUME NEW k \in Nat, k <= 127, RegsAt(k)'
  PROVE  /\ cl' \in 1 .. SectorsPerTrack /\ dh' \in 0 .. Heads - 1
         /\ ch' \in 0 .. Cylinders - 1
         /\ bx' \in 0 .. Word - 1 /\ es' \in 0 .. Word - 1
<1>1. cl' \in 1 .. SectorsPerTrack /\ dh' \in 0 .. Heads - 1 /\ ch' \in 0 .. Cylinders - 1
  BY Geometry DEF RegsAt, InRange
<1>2. es' \in Nat /\ es' <= 4096
  BY DEF RegsAt, NamesPlace
<1>3. bx' \in Nat /\ bx' <= 65024
  BY DEF RegsAt, NamesPlace
<1> QED BY <1>1, <1>2, <1>3, WordSize

\* The roll-overs move on by one sector and one place of 512 bytes.
LEMMA AdvanceRegs ==
  ASSUME NEW k \in Nat, k < 127, RegsAt(k), AdvanceOffset, AdvanceSector
  PROVE  RegsAt(k + 1)'
<1>1. NamesPlace(k + 1)'
  BY Geometry DEF RegsAt, NamesPlace, AdvanceOffset
<1>2. cl' \in Nat /\ 1 <= cl' /\ cl' <= 18 /\ dh' \in Nat /\ dh' <= 1 /\ ch' \in Nat
  BY Geometry DEF RegsAt, InRange, AdvanceSector
<1>3. 36 * ch' + 18 * dh' + cl' = k + 1 + 2
  BY Geometry DEF RegsAt, InRange, NamesSector, AdvanceSector
<1>4. NamesSector(k + 1)'
  BY <1>3 DEF NamesSector
<1>5. ch' <= 3
  BY <1>2, <1>3, HeadBound
<1>6. InRange'
  BY <1>2, <1>5 DEF InRange
<1> QED BY <1>1, <1>4, <1>6 DEF RegsAt

\* Before the first read nothing is in memory.
LEMMA InitTypes == Init => TypeOK
BY TriesAssumption, Geometry DEF Init, TypeOK

LEMMA InitIInv == Init /\ SizeFits => IInv
BY InitTypes DEF Init, IInv, ReadInv

\* A sector goes where no sector lies yet.
LEMMA ReadGrows ==
  ASSUME size \in Sizes, SizeFits, ReadSector,
         NEW k \in Nat, Read(k), memory = Promise!Image(k)
  PROVE  memory' = Promise!Image(k + 1)
<1>1. N \in Nat /\ N <= 127
  BY SectorBound
<1>2. es * 16 + bx = stage2_start + 512 * k
  BY <1>1, Geometry DEF Read, RegsAt, NamesPlace
<1>3. Lba = k + 1
  BY Geometry DEF Read, RegsAt, InRange, NamesSector, Lba
<1>4. memory' = {m \in memory : m[1] # stage2_start + 512 * k}
                  \cup {<<stage2_start + 512 * k, k + 1>>}
  BY <1>2, <1>3 DEF ReadSector
<1>5. {m \in memory : m[1] # stage2_start + 512 * k} = memory
  BY ImageBelow
<1> QED BY <1>4, <1>5, ImageGrows

\* The registers stay while a sector is read.
LEMMA ReadKeeps == ASSUME IInv, ReadSector PROVE IInv'
<1>1. PICK k \in Nat : Read(k) /\ memory = Promise!Image(k)
  BY DEF IInv, ReadInv, ReadSector
<1>2. pc' = "advance" /\ UNCHANGED <<cx, size, remaining, regs>>
  BY DEF ReadSector
<1>3. N' = N
  BY <1>2 DEF N, Promise!Sectors
<1>4. memory' = Promise!Image(k + 1)
  BY <1>1, ReadGrows DEF IInv, TypeOK
<1>5. Read(k)'
  BY <1>1, <1>2, <1>3 DEF Read, RegsAt, InRange, NamesSector, NamesPlace, regs
<1>6. TypeOK'
  BY <1>2 DEF IInv, TypeOK, regs
<1>7. ReadInv'
  BY <1>2, <1>4, <1>5 DEF ReadInv, Promise!Image
<1> QED BY <1>2, <1>6, <1>7 DEF IInv, SizeFits

\* The roll-overs bring the registers to the next sector, or end the loop.
LEMMA AdvanceKeeps == ASSUME IInv, Advance PROVE IInv'
<1>1. PICK k \in Nat : Read(k) /\ memory = Promise!Image(k + 1)
  BY DEF IInv, ReadInv, Advance
<1>2. UNCHANGED <<cx, size, memory>>
  BY DEF Advance
<1>3. N' = N
  BY <1>2 DEF N, Promise!Sectors
<1>4. N \in Nat /\ N <= 127
  BY SectorBound DEF IInv, TypeOK
<1>5. k + 1 \in Nat /\ k < 127 /\ k + 1 <= 127 /\ RegsAt(k)
  BY <1>1, <1>4 DEF Read
<1>6. RegsAt(k + 1)'
  BY <1>5, AdvanceRegs DEF Advance
<1>7. remaining' = N - (k + 1) /\ remaining' \in Nat /\ remaining' <= 127
  <2>1. remaining \in Nat /\ 1 <= remaining /\ remaining <= 127 /\ remaining = N - k
    BY <1>1, <1>4 DEF Read
  <2>2. (remaining + Word - 1) % Word = remaining - 1
    BY <2>1, Geometry
  <2> QED BY <2>1, <2>2, <1>1, <1>4 DEF Advance, Read
<1>8. TypeOK'
  <2>1. /\ cl' \in 1 .. SectorsPerTrack /\ dh' \in 0 .. Heads - 1
        /\ ch' \in 0 .. Cylinders - 1
        /\ bx' \in 0 .. Word - 1 /\ es' \in 0 .. Word - 1
    BY <1>5, <1>6, RegsTyped
  <2>2. remaining' \in 0 .. Word - 1
    BY <1>7, WordSize
  <2>3. cl' \in 0 .. SectorsPerTrack
    BY <2>1 DEF SectorsPerTrack
  <2>4. pc' \in {"read", "jump"}
    BY DEF Advance
  <2> QED BY <2>1, <2>2, <2>3, <2>4, <1>2 DEF IInv, TypeOK
<1>9. CASE remaining' = 0
  <2>1. pc' = "jump" /\ N = k + 1
    BY <1>1, <1>4, <1>7, <1>9 DEF Advance, Read
  <2>2. memory' = Promise!Image(N)'
    BY <2>1, <1>1, <1>2, <1>3 DEF Promise!Image
  <2> QED BY <2>1, <2>2, <1>2, <1>8 DEF IInv, ReadInv, SizeFits
<1>10. CASE remaining' # 0
  <2>1. pc' = "read"
    BY <1>10 DEF Advance
  <2>2. Read(k + 1)'
    BY <1>1, <1>3, <1>4, <1>5, <1>6, <1>7, <1>10 DEF Read
  <2>3. memory' = Promise!Image(k + 1)'
    BY <1>1, <1>2 DEF Promise!Image
  <2> QED BY <2>1, <2>2, <2>3, <1>2, <1>5, <1>8 DEF IInv, ReadInv, SizeFits
<1> QED BY <1>9, <1>10

\* The steps that neither read nor roll over.
LEMMA OthersKeep ==
  ASSUME IInv,
         \/ ComtestOk \/ ComtestAgain \/ ComtestFails \/ DiskFails
         \/ ResetDisk \/ JumpStage2
  PROVE  IInv'
<1> USE TriesAssumption DEF IInv, SizeFits
<1>1. CASE ComtestOk
  BY <1>1 DEF ComtestOk, TypeOK, ReadInv, regs
<1>2. CASE ComtestAgain
  BY <1>2 DEF ComtestAgain, TypeOK, ReadInv, regs
<1>3. CASE ComtestFails
  BY <1>3 DEF ComtestFails, TypeOK, ReadInv, regs
<1>4. CASE DiskFails
  BY <1>4 DEF DiskFails, TypeOK, ReadInv, regs
<1>5. CASE ResetDisk
  <2>1. N' = N /\ N \in Nat /\ 1 <= N /\ N <= 127 /\ remaining' = N
    <3>1. size \in Sizes /\ SizeFits
      BY DEF TypeOK
    <3> QED BY <1>5, <3>1, SectorBound DEF ResetDisk, N, Promise!Sectors
  <2>2. RegsAt(0)'
    BY <1>5, Geometry DEF ResetDisk, RegsAt, InRange, NamesSector, NamesPlace
  <2>3. Read(0)'
    BY <2>1, <2>2 DEF Read
  <2>4. memory' = Promise!Image(0)'
    BY <1>5 DEF ResetDisk, ReadInv, Promise!Image
  <2>5. TypeOK'
    <3>1. remaining' \in 0 .. Word - 1
      BY <2>1, WordSize
    <3>2. /\ cl' \in 1 .. SectorsPerTrack /\ dh' \in 0 .. Heads - 1
          /\ ch' \in 0 .. Cylinders - 1
          /\ bx' \in 0 .. Word - 1 /\ es' \in 0 .. Word - 1
      BY <2>2, RegsTyped
    <3>3. cl' \in 0 .. SectorsPerTrack
      BY <3>2 DEF SectorsPerTrack
    <3> QED BY <1>5, <3>1, <3>2, <3>3 DEF ResetDisk, TypeOK
  <2>6. pc' = "read"
    BY <1>5 DEF ResetDisk
  <2> QED BY <1>5, <2>3, <2>4, <2>5, <2>6 DEF ResetDisk, ReadInv
<1>6. CASE JumpStage2
  <2>1. N' = N /\ Promise!Image(N)' = Promise!Image(N)
    BY <1>6 DEF JumpStage2, N, Promise!Sectors, Promise!Image
  <2> QED BY <1>6, <2>1 DEF JumpStage2, TypeOK, ReadInv, regs
<1> QED BY <1>1, <1>2, <1>3, <1>4, <1>5, <1>6

\* The inductive invariant of the read loop.
THEOREM Invariance == Spec /\ SizeFits => []IInv
<1>1. IInv /\ [Next]_vars => IInv'
  <2> SUFFICES ASSUME IInv, [Next]_vars PROVE IInv'
    OBVIOUS
  <2>1. CASE ReadSector
    BY <2>1, ReadKeeps
  <2>2. CASE Advance
    BY <2>2, AdvanceKeeps
  <2>3. CASE UNCHANGED vars
    <3>1. N' = N /\ \A k \in Nat : Read(k)' <=> Read(k)
      BY <2>3 DEF vars, regs, N, Promise!Sectors, Read, RegsAt, InRange,
         NamesSector, NamesPlace
    <3>2. \A k : Promise!Image(k)' = Promise!Image(k)
      BY DEF Promise!Image
    <3>3. TypeOK'
      BY <2>3 DEF vars, regs, IInv, TypeOK
    <3>4. ReadInv'
      BY <2>3, <3>1, <3>2 DEF vars, regs, IInv, ReadInv
    <3> QED BY <2>3, <3>3, <3>4 DEF IInv, SizeFits, vars
  <2> QED BY <2>1, <2>2, <2>3, OthersKeep DEF Next
<1> QED BY <1>1, InitIInv, PTL DEF Spec

\* The ranges of the registers, in numbers.
InRanges ==
  /\ cl \in Nat /\ cl <= 18 /\ dh \in Nat /\ dh < 2 /\ ch \in Nat /\ ch < 80
  /\ bx \in Nat /\ bx < Word /\ es \in Nat /\ es < Word
  /\ remaining \in Nat /\ remaining < Word

\* The other conjuncts of TypeOK.
OtherTypes ==
  /\ pc \in {"comtest", "reset", "read", "advance", "jump", "stage2", "hang"}
  /\ cx \in 0 .. COMTEST_TRIES /\ size \in Sizes

LEMMA RangeOf == ASSUME NEW n \in Nat PROVE \A x : x \in 0 .. n - 1 <=> x \in Nat /\ x < n
OBVIOUS

LEMMA TypesInNumbers == TypeOK <=> InRanges /\ OtherTypes
<1>1. Word \in Nat
  BY Geometry
<1>2. \A x : x \in 0 .. Word - 1 <=> x \in Nat /\ x < Word
  BY <1>1, RangeOf
<1>3. cl \in 0 .. SectorsPerTrack <=> cl \in Nat /\ cl <= 18
  BY DEF SectorsPerTrack
<1>4. dh \in 0 .. Heads - 1 <=> dh \in Nat /\ dh < 2
  BY DEF Heads
<1>5. ch \in 0 .. Cylinders - 1 <=> ch \in Nat /\ ch < 80
  BY DEF Cylinders
<1> QED BY <1>2, <1>3, <1>4, <1>5, Zenon DEF TypeOK, InRanges, OtherTypes

\* A step keeps the registers' types whatever they name.
LEMMA TypesKept == ASSUME TypeOK, [Next]_vars PROVE TypeOK'
<1> USE TypesInNumbers
<1> SUFFICES InRanges' /\ OtherTypes'
  BY PTL
<1>1. CASE ReadSector
  BY <1>1 DEF ReadSector, InRanges, OtherTypes, regs
<1>2. CASE Advance
  <2>1. cl' \in Nat /\ cl' <= 18 /\ dh' \in Nat /\ dh' < 2 /\ ch' \in Nat /\ ch' < 80
    BY <1>2, Geometry DEF Advance, AdvanceSector, InRanges
  <2>2. bx' \in Nat /\ bx' < Word /\ es' \in Nat /\ es' < Word
    BY <1>2, Geometry DEF Advance, AdvanceOffset, InRanges
  <2>3. remaining' \in Nat /\ remaining' < Word
    BY <1>2, Geometry DEF Advance, InRanges
  <2>4. OtherTypes'
    BY <1>2 DEF Advance, OtherTypes
  <2> QED BY <2>1, <2>2, <2>3, <2>4 DEF InRanges
<1>3. CASE ResetDisk
  <2>1. SectorCount(size) \in Nat /\ SectorCount(size) < Word
    <3>1. size \in Nat
      BY SizeAssumption DEF OtherTypes
    <3> QED BY <3>1, Geometry DEF SectorCount
  <2> QED BY <1>3, <2>1, TriesAssumption, Geometry DEF ResetDisk, InRanges, OtherTypes
<1>4. CASE ComtestOk \/ ComtestAgain \/ ComtestFails \/ DiskFails \/ JumpStage2
  BY <1>4, TriesAssumption DEF ComtestOk, ComtestAgain, ComtestFails, DiskFails, JumpStage2,
     InRanges, OtherTypes, regs
<1>5. CASE UNCHANGED vars
  BY <1>5 DEF vars, regs, InRanges, OtherTypes
<1> QED BY <1>1, <1>2, <1>3, <1>4, <1>5 DEF Next

\* No register leaves its width or the geometry of the floppy, for any size.
THEOREM TypeCorrect == Spec => []TypeOK
<1>1. TypeOK /\ [Next]_vars => TypeOK'
  BY TypesKept
<1> QED BY <1>1, InitTypes, PTL DEF Spec

\* Every step of the loader is a step of LoadSpec or changes nothing there.
LEMMA StepSimulates ==
  ASSUME IInv, [Next]_vars PROVE [Promise!Next]_(Promise!vars)
<1> USE DEF Promise!vars, Promise!Next
<1>1. CASE ReadSector
  <2>1. PICK k \in Nat : Read(k) /\ memory = Promise!Image(k)
    BY <1>1 DEF IInv, ReadInv, ReadSector
  <2>2. Read(k) /\ pc' = "advance" /\ UNCHANGED <<size, remaining, regs>>
    BY <1>1, <2>1 DEF ReadSector
  <2>3. memory' = Promise!Image(k + 1)
    BY <1>1, <2>1, ReadGrows DEF IInv, TypeOK
  <2>4. k \in 0 .. Promise!Sectors - 1
    BY <2>1, SectorBound DEF Read, N, IInv, TypeOK
  <2>5. Status = "loading" /\ Status' = "loading"
    BY <1>1 DEF ReadSector, Status
  <2> QED BY <2>1, <2>2, <2>3, <2>4, <2>5 DEF Promise!LoadNext
<1>2. CASE Advance
  BY <1>2 DEF Advance, Status
<1>3. CASE JumpStage2
  <2>1. memory = Promise!Image(Promise!Sectors)
    BY <1>3 DEF JumpStage2, IInv, ReadInv, N
  <2> QED BY <1>3, <2>1 DEF JumpStage2, Status, Promise!Run
<1>4. CASE ComtestFails \/ DiskFails
  BY <1>4 DEF ComtestFails, DiskFails, Status, Promise!Stop
<1>5. CASE ComtestOk \/ ComtestAgain \/ ResetDisk \/ UNCHANGED vars
  BY <1>5 DEF ComtestOk, ComtestAgain, ResetDisk, vars, regs, Status
<1> QED BY <1>1, <1>2, <1>3, <1>4, <1>5 DEF Next

\* The boot sector implements LoadSpec: a stage 2 of at most 127 sectors is
\* entered only when all of it is in its place.
THEOREM Implementation == Spec /\ SizeFits => ImplementsLoadSpec
<1>1. Init => Promise!Init
  BY DEF Init, Promise!Init, Status
<1>2. IInv /\ [Next]_vars => [Promise!Next]_(Promise!vars)
  BY StepSimulates
<1> QED BY <1>1, <1>2, Invariance, PTL DEF Spec, ImplementsLoadSpec, Promise!Spec

\* The loop starts with a count of 0, from which "dec" leads to 65535.
StartsAtZero ==
  /\ pc = "read" /\ memory = {} => remaining = 0
  /\ pc = "advance" => memory # {}

\* "add ax, 512 - 1" overflows for every stage 2 of more than 127 sectors, up to
\* the largest that links: the loop has nothing to read when it begins and
\* does not notice, as it counts before it looks.
THEOREM LargerWraps == Spec /\ ~SizeFits => [](pc = "read" /\ memory = {} => remaining = 0)
<1> DEFINE Inv == TypeOK /\ ~SizeFits /\ StartsAtZero
<1>1. Init /\ ~SizeFits => Inv
  BY InitTypes DEF Init, StartsAtZero
<1>2. Inv /\ [Next]_vars => Inv'
  <2> SUFFICES ASSUME Inv, [Next]_vars PROVE Inv'
    OBVIOUS
  <2>1. TypeOK' /\ ~SizeFits'
    <3>1. size' = size
      BY DEF Next, ComtestOk, ComtestAgain, ComtestFails, DiskFails,
         ResetDisk, ReadSector, Advance, JumpStage2, vars
    <3> QED BY <3>1, TypesKept DEF SizeFits
  <2>2. CASE ResetDisk
    <3>1. size \in Nat /\ 65025 <= size /\ size <= 65535
      <4>1. size \in Nat /\ size < Word
        BY SizeAssumption DEF TypeOK
      <4> QED BY <4>1, Geometry DEF SizeFits
    <3>2. SectorCount(size) = 0
      BY <3>1, Geometry DEF SectorCount
    <3> QED BY <2>1, <2>2, <3>2 DEF ResetDisk, StartsAtZero
  <2>3. CASE ReadSector
    <3>1. memory' # {}
      BY <2>3 DEF ReadSector
    <3> QED BY <2>1, <2>3, <3>1 DEF ReadSector, StartsAtZero
  <2>4. CASE Advance
    BY <2>1, <2>4 DEF Advance, StartsAtZero
  <2>5. CASE \/ ComtestOk \/ ComtestAgain \/ ComtestFails \/ DiskFails
             \/ JumpStage2 \/ UNCHANGED vars
    BY <2>1, <2>5 DEF ComtestOk, ComtestAgain, ComtestFails, DiskFails, JumpStage2,
       vars, StartsAtZero
  <2> QED BY <2>2, <2>3, <2>4, <2>5 DEF Next
<1>3. Inv => (pc = "read" /\ memory = {} => remaining = 0)
  BY DEF StartsAtZero
<1> QED BY <1>1, <1>2, <1>3, PTL DEF Spec

-----------------------------------------------------------------------------
(* Stage 2 behind it                                                       *)

\* Up to the jump and through it the loader's variables move as Stage1 says,
\* and stage 2 leaves them alone.
LEMMA LoaderKept == StartupSpec => Spec
<1>1. StartupInit => Init
  BY DEF StartupInit
<1>2. [StartupNext]_allVars => [Next]_vars
  <2> SUFFICES ASSUME [StartupNext]_allVars PROVE [Next]_vars
    OBVIOUS
  <2>1. CASE Loads
    BY <2>1 DEF Loads
  <2>2. CASE Enters
    BY <2>2 DEF Enters, Next
  <2>3. CASE Goes \/ Handles \/ Happens
    BY <2>3 DEF Goes, Handles, Happens
  <2>4. CASE UNCHANGED allVars
    BY <2>4 DEF allVars
  <2> QED BY <2>1, <2>2, <2>3, <2>4 DEF StartupNext
<1> QED BY <1>1, <1>2, PTL DEF StartupSpec, Spec

\* Stage 2, with whatever interrupts it takes, is entered only when all of its
\* sectors are in their places, for every size of at most 127 sectors.
THEOREM LoadedBeforeStage2 == StartupSpec /\ SizeFits => ImplementsLoadSpec
BY LoaderKept, Implementation, PTL

-----------------------------------------------------------------------------
(***************************************************************************)
(* The interrupts of stage 2, for every set of lines and of exceptions and *)
(* any number of them: what lies on the stack is what the handlers under   *)
(* way still take off, and the lines in service are those that the one PIC *)
(* interrupt under way still acknowledges.                                 *)
(***************************************************************************)
\* The instance's Cardinality is the library's.
LEMMA SameCardinality == \A S : B!Cardinality(S) = Cardinality(S)
BY DEF B!Cardinality, Cardinality

Instructions == {"pusha", "common", "popa", "pop", "eoi_slave", "eoi_master", "iret"}
Items == {"frame_on", "frame_off", "ec", "regs"}

\* What is left of a handler, from its first instruction to its iret: with
\* nothing to acknowledge, with an error code to take off as well, with both
\* PICs to acknowledge, and with the master.
Plain == {<<"iret">>, <<"popa", "iret">>, <<"common", "popa", "iret">>,
          <<"pusha", "common", "popa", "iret">>}
TakesCode == {<<"pop", "iret">>, <<"popa", "pop", "iret">>,
              <<"common", "popa", "pop", "iret">>,
              <<"pusha", "common", "popa", "pop", "iret">>}
OwesMaster == {<<"eoi_master", "popa", "iret">>, <<"common", "eoi_master", "popa", "iret">>,
               <<"pusha", "eoi_master", "popa", "iret">>,
               <<"pusha", "common", "eoi_master", "popa", "iret">>}
OwesBoth == {<<"eoi_slave", "eoi_master", "popa", "iret">>,
             <<"common", "eoi_slave", "eoi_master", "popa", "iret">>,
             <<"pusha", "eoi_slave", "eoi_master", "popa", "iret">>,
             <<"pusha", "common", "eoi_slave", "eoi_master", "popa", "iret">>}
Codes == Plain \cup TakesCode \cup OwesMaster \cup OwesBoth

\* What the handler has above its frame: the error code and its registers.
Held(c) == (IF c \in TakesCode THEN 1 ELSE 0)
           + (IF c[1] \in {"common", "popa", "eoi_slave", "eoi_master"} THEN 1 ELSE 0)

Handlers == [vec : 0 .. 47, code : Codes]

-----------------------------------------------------------------------------
(* The handlers' instructions                                              *)

\* No handler is in two of the sets.
LEMMA CodesApart ==
  /\ \A c \in Plain : c \notin TakesCode /\ c \notin OwesMaster /\ c \notin OwesBoth
  /\ \A c \in TakesCode : c \notin OwesMaster /\ c \notin OwesBoth
  /\ \A c \in OwesMaster : c \notin TakesCode /\ c \notin OwesBoth
  /\ \A c \in OwesBoth : c \notin TakesCode
BY DEF Plain, TakesCode, OwesMaster, OwesBoth

\* One instruction of each kind of handler.
LEMMA PlainStep ==
  ASSUME NEW c \in Plain
  PROVE  /\ Head(c) = c[1] /\ c[1] \in {"pusha", "common", "popa", "iret"}
         /\ c[1] # "iret" => Tail(c) \in Plain
         /\ c[1] = "pusha" => Tail(c)[1] = "common"
         /\ c[1] = "common" => Tail(c)[1] = "popa"
         /\ c[1] = "popa" => Tail(c)[1] = "iret"
<1>1. CASE c = <<"iret">>
  BY <1>1
<1>2. CASE c = <<"popa", "iret">>
  <2>1. Tail(c) = <<"iret">>
    BY <1>2
  <2> QED BY <1>2, <2>1 DEF Plain
<1>3. CASE c = <<"common", "popa", "iret">>
  <2>1. Tail(c) = <<"popa", "iret">>
    BY <1>3
  <2> QED BY <1>3, <2>1 DEF Plain
<1>4. CASE c = <<"pusha", "common", "popa", "iret">>
  <2>1. Tail(c) = <<"common", "popa", "iret">>
    BY <1>4
  <2> QED BY <1>4, <2>1 DEF Plain
<1> QED BY <1>1, <1>2, <1>3, <1>4 DEF Plain

LEMMA TakesCodeStep ==
  ASSUME NEW c \in TakesCode
  PROVE  /\ Head(c) = c[1] /\ c[1] \in {"pusha", "common", "popa", "pop"}
         /\ c[1] # "pop" => Tail(c) \in TakesCode
         /\ c[1] = "pop" => Tail(c) \in Plain /\ Tail(c)[1] = "iret"
         /\ c[1] = "pusha" => Tail(c)[1] = "common"
         /\ c[1] = "common" => Tail(c)[1] = "popa"
         /\ c[1] = "popa" => Tail(c)[1] = "pop"
<1>1. CASE c = <<"pop", "iret">>
  <2>1. Tail(c) = <<"iret">>
    BY <1>1
  <2> QED BY <1>1, <2>1 DEF Plain
<1>2. CASE c = <<"popa", "pop", "iret">>
  <2>1. Tail(c) = <<"pop", "iret">>
    BY <1>2
  <2> QED BY <1>2, <2>1 DEF TakesCode
<1>3. CASE c = <<"common", "popa", "pop", "iret">>
  <2>1. Tail(c) = <<"popa", "pop", "iret">>
    BY <1>3
  <2> QED BY <1>3, <2>1 DEF TakesCode
<1>4. CASE c = <<"pusha", "common", "popa", "pop", "iret">>
  <2>1. Tail(c) = <<"common", "popa", "pop", "iret">>
    BY <1>4
  <2> QED BY <1>4, <2>1 DEF TakesCode
<1> QED BY <1>1, <1>2, <1>3, <1>4 DEF TakesCode

LEMMA OwesMasterStep ==
  ASSUME NEW c \in OwesMaster
  PROVE  /\ Head(c) = c[1] /\ c[1] \in {"pusha", "common", "eoi_master"}
         /\ c[1] # "eoi_master" => Tail(c) \in OwesMaster
         /\ c[1] = "eoi_master" => Tail(c) \in Plain /\ Tail(c)[1] = "popa"
         /\ c[1] = "pusha" => Tail(c)[1] \in {"common", "eoi_master"}
         /\ c[1] = "common" => Tail(c)[1] = "eoi_master"
<1>1. CASE c = <<"eoi_master", "popa", "iret">>
  <2>1. Tail(c) = <<"popa", "iret">>
    BY <1>1
  <2> QED BY <1>1, <2>1 DEF Plain
<1>2. CASE c = <<"common", "eoi_master", "popa", "iret">>
  <2>1. Tail(c) = <<"eoi_master", "popa", "iret">>
    BY <1>2
  <2> QED BY <1>2, <2>1 DEF OwesMaster
<1>3. CASE c = <<"pusha", "eoi_master", "popa", "iret">>
  <2>1. Tail(c) = <<"eoi_master", "popa", "iret">>
    BY <1>3
  <2> QED BY <1>3, <2>1 DEF OwesMaster
<1>4. CASE c = <<"pusha", "common", "eoi_master", "popa", "iret">>
  <2>1. Tail(c) = <<"common", "eoi_master", "popa", "iret">>
    BY <1>4
  <2> QED BY <1>4, <2>1 DEF OwesMaster
<1> QED BY <1>1, <1>2, <1>3, <1>4 DEF OwesMaster

LEMMA OwesBothStep ==
  ASSUME NEW c \in OwesBoth
  PROVE  /\ Head(c) = c[1] /\ c[1] \in {"pusha", "common", "eoi_slave"}
         /\ c[1] # "eoi_slave" => Tail(c) \in OwesBoth
         /\ c[1] = "eoi_slave" => Tail(c) \in OwesMaster /\ Tail(c)[1] = "eoi_master"
         /\ c[1] = "pusha" => Tail(c)[1] \in {"common", "eoi_slave"}
         /\ c[1] = "common" => Tail(c)[1] = "eoi_slave"
<1>1. CASE c = <<"eoi_slave", "eoi_master", "popa", "iret">>
  <2>1. Tail(c) = <<"eoi_master", "popa", "iret">>
    BY <1>1
  <2> QED BY <1>1, <2>1 DEF OwesMaster
<1>2. CASE c = <<"common", "eoi_slave", "eoi_master", "popa", "iret">>
  <2>1. Tail(c) = <<"eoi_slave", "eoi_master", "popa", "iret">>
    BY <1>2
  <2> QED BY <1>2, <2>1 DEF OwesBoth
<1>3. CASE c = <<"pusha", "eoi_slave", "eoi_master", "popa", "iret">>
  <2>1. Tail(c) = <<"eoi_slave", "eoi_master", "popa", "iret">>
    BY <1>3
  <2> QED BY <1>3, <2>1 DEF OwesBoth
<1>4. CASE c = <<"pusha", "common", "eoi_slave", "eoi_master", "popa", "iret">>
  <2>1. Tail(c) = <<"common", "eoi_slave", "eoi_master", "popa", "iret">>
    BY <1>4
  <2> QED BY <1>4, <2>1 DEF OwesBoth
<1> QED BY <1>1, <1>2, <1>3, <1>4 DEF OwesBoth

\* What an instruction does to the handler's hold on the stack and to its kind.
LEMMA CodeStep ==
  ASSUME NEW c \in Codes
  PROVE  /\ Head(c) = c[1] /\ Held(c) \in 0 .. 2
         /\ c[1] = "pusha" => Held(Tail(c)) = Held(c) + 1
         /\ c[1] \in {"common", "eoi_slave", "eoi_master"} => Held(Tail(c)) = Held(c)
         /\ c[1] \in {"popa", "pop"} => Held(Tail(c)) = Held(c) - 1
         /\ c[1] = "iret" => Held(c) = 0 /\ c \in Plain
         /\ c[1] # "iret" => Tail(c) \in Codes
         /\ c \in OwesBoth => Tail(c) \in OwesBoth \/ (c[1] = "eoi_slave" /\ Tail(c) \in OwesMaster)
         /\ c \in OwesMaster => Tail(c) \in OwesMaster \/ (c[1] = "eoi_master" /\ Tail(c) \in Plain)
         /\ c \in Plain \cup TakesCode /\ c[1] # "iret" => Tail(c) \in Plain \cup TakesCode
         /\ c[1] = "eoi_slave" => c \in OwesBoth
         /\ c[1] = "eoi_master" => c \in OwesMaster
<1> DEFINE t == Tail(c)
<1>1. CASE c \in Plain
  <2>1. /\ Head(c) = c[1] /\ c[1] \in {"pusha", "common", "popa", "iret"}
        /\ c[1] # "iret" => t \in Plain
        /\ c[1] = "pusha" => t[1] = "common"
        /\ c[1] = "common" => t[1] = "popa"
        /\ c[1] = "popa" => t[1] = "iret"
    BY <1>1, PlainStep
  <2> HIDE DEF t
  <2>2. c \notin TakesCode /\ c \notin OwesMaster /\ c \notin OwesBoth
    BY <1>1, CodesApart
  <2>3. t \in Plain => t \notin TakesCode
    BY CodesApart
  <2>4. Held(c) = IF c[1] \in {"common", "popa"} THEN 1 ELSE 0
    BY <2>1, <2>2 DEF Held
  <2>5. c[1] # "iret" => Held(t) = IF t[1] \in {"common", "popa", "eoi_slave", "eoi_master"} THEN 1 ELSE 0
    BY <2>1, <2>3 DEF Held
  <2>6. /\ Held(c) \in 0 .. 2
        /\ c[1] = "pusha" => Held(t) = Held(c) + 1
        /\ c[1] = "common" => Held(t) = Held(c)
        /\ c[1] \in {"popa", "pop"} => Held(t) = Held(c) - 1
        /\ c[1] = "iret" => Held(c) = 0
    BY <2>1, <2>4, <2>5
  <2>7. c[1] # "iret" => t \in Plain \cup TakesCode
    BY <2>1
  <2> QED BY <1>1, <2>1, <2>2, <2>6, <2>7 DEF t, Codes
<1>2. CASE c \in TakesCode
  <2>1. /\ Head(c) = c[1] /\ c[1] \in {"pusha", "common", "popa", "pop"}
        /\ c[1] # "pop" => t \in TakesCode
        /\ c[1] = "pop" => t \in Plain /\ t[1] = "iret"
        /\ c[1] = "pusha" => t[1] = "common"
        /\ c[1] = "common" => t[1] = "popa"
        /\ c[1] = "popa" => t[1] = "pop"
    BY <1>2, TakesCodeStep
  <2> HIDE DEF t
  <2>2. c \notin OwesMaster /\ c \notin OwesBoth
    BY <1>2, CodesApart
  <2>3. t \in Plain => t \notin TakesCode
    BY CodesApart
  <2>4. Held(c) = IF c[1] \in {"common", "popa"} THEN 2 ELSE 1
    BY <1>2, <2>1 DEF Held
  <2>5. Held(t) = IF t \in TakesCode
                  THEN IF t[1] \in {"common", "popa", "eoi_slave", "eoi_master"} THEN 2 ELSE 1
                  ELSE IF t[1] \in {"common", "popa", "eoi_slave", "eoi_master"} THEN 1 ELSE 0
    BY DEF Held
  <2>6. /\ Held(c) \in 0 .. 2
        /\ c[1] = "pusha" => Held(t) = Held(c) + 1
        /\ c[1] = "common" => Held(t) = Held(c)
        /\ c[1] \in {"popa", "pop"} => Held(t) = Held(c) - 1
        /\ c[1] = "iret" => Held(c) = 0
    BY <2>1, <2>3, <2>4, <2>5
  <2>7. c[1] # "iret" => t \in Plain \cup TakesCode
    BY <2>1
  <2> QED BY <1>2, <2>1, <2>2, <2>6, <2>7 DEF t, Codes
<1>3. CASE c \in OwesMaster
  <2>1. /\ Head(c) = c[1] /\ c[1] \in {"pusha", "common", "eoi_master"}
        /\ c[1] # "eoi_master" => t \in OwesMaster
        /\ c[1] = "eoi_master" => t \in Plain /\ t[1] = "popa"
        /\ c[1] = "pusha" => t[1] \in {"common", "eoi_master"}
        /\ c[1] = "common" => t[1] = "eoi_master"
    BY <1>3, OwesMasterStep
  <2> HIDE DEF t
  <2>2. c \notin Plain /\ c \notin TakesCode /\ c \notin OwesBoth
    BY <1>3, CodesApart
  <2>3. t \notin TakesCode
    BY <2>1, CodesApart
  <2>4. Held(c) = IF c[1] = "pusha" THEN 0 ELSE 1
    BY <2>1, <2>2 DEF Held
  <2>5. Held(t) = 1
    BY <2>1, <2>3 DEF Held
  <2> QED BY <1>3, <2>1, <2>2, <2>4, <2>5 DEF t, Codes
<1>4. CASE c \in OwesBoth
  <2>1. /\ Head(c) = c[1] /\ c[1] \in {"pusha", "common", "eoi_slave"}
        /\ c[1] # "eoi_slave" => t \in OwesBoth
        /\ c[1] = "eoi_slave" => t \in OwesMaster /\ t[1] = "eoi_master"
        /\ c[1] = "pusha" => t[1] \in {"common", "eoi_slave"}
        /\ c[1] = "common" => t[1] = "eoi_slave"
    BY <1>4, OwesBothStep
  <2> HIDE DEF t
  <2>2. c \notin Plain /\ c \notin TakesCode /\ c \notin OwesMaster
    BY <1>4, CodesApart
  <2>3. t \notin TakesCode
    BY <2>1, CodesApart
  <2>4. Held(c) = IF c[1] = "pusha" THEN 0 ELSE 1
    BY <2>1, <2>2 DEF Held
  <2>5. Held(t) = 1
    BY <2>1, <2>3 DEF Held
  <2> QED BY <1>4, <2>1, <2>2, <2>4, <2>5 DEF t, Codes
<1> QED BY <1>1, <1>2, <1>3, <1>4 DEF Codes

-----------------------------------------------------------------------------
(* The handlers as the macros put them together                            *)

LEMMA ExceptionWithCode ==
  (<<"pusha", "common", "popa">> \o <<"pop">>) \o <<"iret">>
  = <<"pusha", "common", "popa", "pop", "iret">>
<1> DEFINE t == (<<"pusha", "common", "popa">> \o <<"pop">>) \o <<"iret">>
<1>1. t \in Seq(Instructions) /\ Len(t) = 5
  BY DEF Instructions
<1>2. t[1] = "pusha" /\ t[2] = "common" /\ t[3] = "popa" /\ t[4] = "pop" /\ t[5] = "iret"
  OBVIOUS
<1>3. <<"pusha", "common", "popa", "pop", "iret">> \in Seq(Instructions)
  BY DEF Instructions
<1> HIDE DEF t
<1>4. t = <<"pusha", "common", "popa", "pop", "iret">>
  BY <1>1, <1>2, <1>3
<1> QED BY <1>4 DEF t

LEMMA ExceptionWithout ==
  (<<"pusha", "common", "popa">> \o <<>>) \o <<"iret">>
  = <<"pusha", "common", "popa", "iret">>
<1> DEFINE t == (<<"pusha", "common", "popa">> \o <<>>) \o <<"iret">>
<1>1. t \in Seq(Instructions) /\ Len(t) = 4
  BY DEF Instructions
<1>2. t[1] = "pusha" /\ t[2] = "common" /\ t[3] = "popa" /\ t[4] = "iret"
  OBVIOUS
<1>3. <<"pusha", "common", "popa", "iret">> \in Seq(Instructions)
  BY DEF Instructions
<1> HIDE DEF t
<1>4. t = <<"pusha", "common", "popa", "iret">>
  BY <1>1, <1>2, <1>3
<1> QED BY <1>4 DEF t

LEMMA Nmi ==
  ((<<"pusha", "common">> \o <<>>) \o <<"popa">>) \o <<"iret">>
  = <<"pusha", "common", "popa", "iret">>
<1> DEFINE t == ((<<"pusha", "common">> \o <<>>) \o <<"popa">>) \o <<"iret">>
<1>1. t \in Seq(Instructions) /\ Len(t) = 4
  BY DEF Instructions
<1>2. t[1] = "pusha" /\ t[2] = "common" /\ t[3] = "popa" /\ t[4] = "iret"
  OBVIOUS
<1>3. <<"pusha", "common", "popa", "iret">> \in Seq(Instructions)
  BY DEF Instructions
<1> HIDE DEF t
<1>4. t = <<"pusha", "common", "popa", "iret">>
  BY <1>1, <1>2, <1>3
<1> QED BY <1>4 DEF t

LEMMA Slave ==
  ((<<"pusha", "common">> \o <<"eoi_slave", "eoi_master">>) \o <<"popa">>) \o <<"iret">>
  = <<"pusha", "common", "eoi_slave", "eoi_master", "popa", "iret">>
<1> DEFINE t == ((<<"pusha", "common">> \o <<"eoi_slave", "eoi_master">>) \o <<"popa">>) \o <<"iret">>
<1>1. t \in Seq(Instructions) /\ Len(t) = 6
  BY DEF Instructions
<1>2. t[1] = "pusha" /\ t[2] = "common" /\ t[3] = "eoi_slave" /\ t[4] = "eoi_master" /\ t[5] = "popa" /\ t[6] = "iret"
  OBVIOUS
<1>3. <<"pusha", "common", "eoi_slave", "eoi_master", "popa", "iret">> \in Seq(Instructions)
  BY DEF Instructions
<1> HIDE DEF t
<1>4. t = <<"pusha", "common", "eoi_slave", "eoi_master", "popa", "iret">>
  BY <1>1, <1>2, <1>3
<1> QED BY <1>4 DEF t

LEMMA Master ==
  ((<<"pusha", "common">> \o <<"eoi_master">>) \o <<"popa">>) \o <<"iret">>
  = <<"pusha", "common", "eoi_master", "popa", "iret">>
<1> DEFINE t == ((<<"pusha", "common">> \o <<"eoi_master">>) \o <<"popa">>) \o <<"iret">>
<1>1. t \in Seq(Instructions) /\ Len(t) = 5
  BY DEF Instructions
<1>2. t[1] = "pusha" /\ t[2] = "common" /\ t[3] = "eoi_master" /\ t[4] = "popa" /\ t[5] = "iret"
  OBVIOUS
<1>3. <<"pusha", "common", "eoi_master", "popa", "iret">> \in Seq(Instructions)
  BY DEF Instructions
<1> HIDE DEF t
<1>4. t = <<"pusha", "common", "eoi_master", "popa", "iret">>
  BY <1>1, <1>2, <1>3
<1> QED BY <1>4 DEF t

LEMMA Dummy ==
  <<>> \o <<"iret">>
  = <<"iret">>
<1> DEFINE t == <<>> \o <<"iret">>
<1>1. t \in Seq(Instructions) /\ Len(t) = 1
  BY DEF Instructions
<1>2. t[1] = "iret"
  OBVIOUS
<1>3. <<"iret">> \in Seq(Instructions)
  BY DEF Instructions
<1> HIDE DEF t
<1>4. t = <<"iret">>
  BY <1>1, <1>2, <1>3
<1> QED BY <1>4 DEF t

LEMMA DummyWithCode ==
  <<"pop">> \o <<"iret">>
  = <<"pop", "iret">>
<1> DEFINE t == <<"pop">> \o <<"iret">>
<1>1. t \in Seq(Instructions) /\ Len(t) = 2
  BY DEF Instructions
<1>2. t[1] = "pop" /\ t[2] = "iret"
  OBVIOUS
<1>3. <<"pop", "iret">> \in Seq(Instructions)
  BY DEF Instructions
<1> HIDE DEF t
<1>4. t = <<"pop", "iret">>
  BY <1>1, <1>2, <1>3
<1> QED BY <1>4 DEF t

LEMMA DummySlave ==
  ((<<"pusha">> \o <<"eoi_slave", "eoi_master">>) \o <<"popa">>) \o <<"iret">>
  = <<"pusha", "eoi_slave", "eoi_master", "popa", "iret">>
<1> DEFINE t == ((<<"pusha">> \o <<"eoi_slave", "eoi_master">>) \o <<"popa">>) \o <<"iret">>
<1>1. t \in Seq(Instructions) /\ Len(t) = 5
  BY DEF Instructions
<1>2. t[1] = "pusha" /\ t[2] = "eoi_slave" /\ t[3] = "eoi_master" /\ t[4] = "popa" /\ t[5] = "iret"
  OBVIOUS
<1>3. <<"pusha", "eoi_slave", "eoi_master", "popa", "iret">> \in Seq(Instructions)
  BY DEF Instructions
<1> HIDE DEF t
<1>4. t = <<"pusha", "eoi_slave", "eoi_master", "popa", "iret">>
  BY <1>1, <1>2, <1>3
<1> QED BY <1>4 DEF t

LEMMA DummyMaster ==
  ((<<"pusha">> \o <<"eoi_master">>) \o <<"popa">>) \o <<"iret">>
  = <<"pusha", "eoi_master", "popa", "iret">>
<1> DEFINE t == ((<<"pusha">> \o <<"eoi_master">>) \o <<"popa">>) \o <<"iret">>
<1>1. t \in Seq(Instructions) /\ Len(t) = 4
  BY DEF Instructions
<1>2. t[1] = "pusha" /\ t[2] = "eoi_master" /\ t[3] = "popa" /\ t[4] = "iret"
  OBVIOUS
<1>3. <<"pusha", "eoi_master", "popa", "iret">> \in Seq(Instructions)
  BY DEF Instructions
<1> HIDE DEF t
<1>4. t = <<"pusha", "eoi_master", "popa", "iret">>
  BY <1>1, <1>2, <1>3
<1> QED BY <1>4 DEF t

\* A handler of an exception takes off the error code the CPU has pushed,
\* whether it is one of the map or a dummy.
LEMMA ExceptionCode ==
  ASSUME NEW v \in 0 .. 31, NEW g, g = B!UseDummy(v) \/ (g = B!MapGate(v) /\ v <= 21)
  PROVE  LET c == B!Code(g.handler, v)
         IN  IF v \in B!WithCode THEN c \in TakesCode /\ c[1] \in {"pusha", "pop"}
                               ELSE c \in Plain /\ c[1] \in {"pusha", "iret"}
<1> DEFINE c == B!Code(g.handler, v)
<1> SUFFICES IF v \in B!WithCode THEN c \in TakesCode /\ c[1] \in {"pusha", "pop"}
                               ELSE c \in Plain /\ c[1] \in {"pusha", "iret"}
  OBVIOUS
<1>1. CASE g = B!UseDummy(v)
  <2>1. CASE v \in B!WithCode
    <3>1. g.handler = "dummy_ec"
      BY <1>1, <2>1 DEF B!UseDummy, B!Gate, B!WithCode
    <3>2. c = <<"pop", "iret">>
      BY <3>1, DummyWithCode DEF B!Code
    <3> QED BY <2>1, <3>2 DEF TakesCode
  <2>2. CASE v \notin B!WithCode
    <3>1. g.handler = "dummy"
      BY <1>1, <2>2 DEF B!UseDummy, B!Gate, B!WithCode
    <3>2. c = <<"iret">>
      BY <3>1, Dummy DEF B!Code
    <3> QED BY <2>2, <3>2 DEF Plain
  <2> QED BY <2>1, <2>2
<1>2. CASE g = B!MapGate(v) /\ v <= 21
  <2>1. g.handler = "isr"
    BY <1>2 DEF B!MapGate, B!Gate
  <2>2. CASE v = 2
    <3>1. c = <<"pusha", "common", "popa", "iret">>
      BY <2>1, <2>2, Nmi DEF B!Code, B!Fault, B!isr_int
    <3> QED BY <2>2, <3>1 DEF Plain, B!WithCode
  <2>3. CASE v # 2
    <3>1. B!Fault(v) /\ (B!HasErrorCode(v) <=> v \in B!WithCode)
      BY <1>2, <2>3 DEF B!Fault, B!HasErrorCode, B!WithCode
    <3>2. CASE v \in B!WithCode
      <4>1. c = <<"pusha", "common", "popa", "pop", "iret">>
        BY <2>1, <3>1, <3>2, ExceptionWithCode DEF B!Code, B!isr_exception
      <4> QED BY <3>2, <4>1 DEF TakesCode
    <3>3. CASE v \notin B!WithCode
      <4>1. c = <<"pusha", "common", "popa", "iret">>
        BY <2>1, <3>1, <3>3, ExceptionWithout DEF B!Code, B!isr_exception
      <4> QED BY <3>3, <4>1 DEF Plain
    <3> QED BY <3>2, <3>3
  <2> QED BY <2>2, <2>3
<1> QED BY <1>1, <1>2

\* A handler of a PIC's line keeps interrupts off and acknowledges the line.
LEMMA LineCode ==
  ASSUME NEW v \in 32 .. 47, NEW g, g = B!UseDummy(v) \/ g = B!MapGate(v)
  PROVE  /\ g.trap = FALSE /\ B!Code(g.handler, v)[1] = "pusha"
         /\ v >= 40 => B!Code(g.handler, v) \in OwesBoth
         /\ v < 40 => B!Code(g.handler, v) \in OwesMaster
<1> DEFINE c == B!Code(g.handler, v)
<1>1. (v >= 40 \/ v < 40) /\ v # 2 /\ ~(v <= 21)
  OBVIOUS
<1>2. CASE g = B!UseDummy(v)
  <2>1. CASE v >= 40
    <3>1. g.handler = "dummy_pic_slave" /\ g.trap = FALSE
      BY <1>2, <2>1 DEF B!UseDummy, B!Gate
    <3>2. B!pic_send_eoi(8) = <<"eoi_slave", "eoi_master">>
      BY DEF B!pic_send_eoi
    <3>3. c = <<"pusha", "eoi_slave", "eoi_master", "popa", "iret">>
      BY <3>1, <3>2, DummySlave DEF B!Code
    <3> QED BY <2>1, <3>1, <3>3 DEF OwesBoth
  <2>2. CASE v < 40
    <3>1. g.handler = "dummy_pic_master" /\ g.trap = FALSE
      BY <1>2, <2>2 DEF B!UseDummy, B!Gate
    <3>2. B!pic_send_eoi(0) = <<"eoi_master">>
      BY DEF B!pic_send_eoi
    <3>3. c = <<"pusha", "eoi_master", "popa", "iret">>
      BY <3>1, <3>2, DummyMaster DEF B!Code
    <3> QED BY <2>2, <3>1, <3>3 DEF OwesMaster
  <2> QED BY <1>1, <2>1, <2>2
<1>3. CASE g = B!MapGate(v)
  <2>1. B!Fault(v) = FALSE
    BY <1>1, Zenon DEF B!Fault
  <2>2. g.handler = "isr" /\ g.trap = FALSE
    BY <1>3, <2>1 DEF B!MapGate, B!Gate
  <2>3. c = B!isr_int(v) \o <<"iret">>
    BY <2>2, <2>1 DEF B!Code
  <2>4. CASE v >= 40
    <3>1. B!pic_send_eoi(v - 32) = <<"eoi_slave", "eoi_master">>
      BY <2>4 DEF B!pic_send_eoi
    <3>2. c = <<"pusha", "common", "eoi_slave", "eoi_master", "popa", "iret">>
      BY <1>1, <2>3, <3>1, Slave DEF B!isr_int
    <3> QED BY <2>2, <2>4, <3>2 DEF OwesBoth
  <2>5. CASE v < 40
    <3>1. B!pic_send_eoi(v - 32) = <<"eoi_master">>
      BY <2>5 DEF B!pic_send_eoi
    <3>2. c = <<"pusha", "common", "eoi_master", "popa", "iret">>
      BY <1>1, <2>3, <3>1, Master DEF B!isr_int
    <3> QED BY <2>2, <2>5, <3>2 DEF OwesMaster
  <2> QED BY <1>1, <2>4, <2>5
<1> QED BY <1>2, <1>3

-----------------------------------------------------------------------------
(* The invariant                                                           *)

Early == {"remap", "idt_loop", "lidt"}

\* Interrupts are on in the program from sti on.
On == b_pc \notin Early \cup {"sti"}

\* The gates so far are the map's or the dummies of their vectors.
Table ==
  /\ di \in 0 .. 256 /\ esi \in 1 .. 38 /\ (di = 0 => esi = 1)
  /\ Len(idt) = di
  /\ idt \in Seq([trap : BOOLEAN, handler : {"isr", "dummy", "dummy_ec", "dummy_pic_slave",
                                             "dummy_pic_master"}])
  /\ b_pc = "remap" => di = 0
  /\ b_pc = "idt_loop" => di < 256
  /\ b_pc \notin {"remap", "idt_loop"} => di = 256
  /\ \A v \in 0 .. di - 1 :
       \/ idt[v + 1] = B!UseDummy(v)
       \/ idt[v + 1] = B!MapGate(v) /\ v \in (0 .. 21) \cup (32 .. 47)

Typed ==
  /\ iflag \in BOOLEAN /\ bss \in {"garbage", "zero"}
  /\ registered \subseteq 0 .. 47 /\ irr \subseteq Lines /\ inservice \subseteq 0 .. 15
  /\ stack \in Seq(Items) /\ active \in Seq(Handlers)
  /\ b_pc # "remap" => base = <<32, 40>>

\* The handlers a under way, the innermost first, own the stack s up to h[1],
\* from there to h[2] and so on: what each still takes off, and then its frame.
Extents(h, s, a) ==
  /\ h \in [0 .. Len(a) -> Nat] /\ h[0] = 0 /\ h[Len(a)] = Len(s)
  /\ \A k \in 1 .. Len(a) : h[k] = h[k - 1] + Held(a[k].code) + 1
  /\ \A j, k \in 0 .. Len(a) : j < k => h[j] < h[k]

\* There are no other frames.
FramesAt(h, s, a) ==
  /\ \A k \in 1 .. Len(a) : B!IsFrame(s[h[k]])
  /\ \A i \in 1 .. Len(s) : B!IsFrame(s[i]) => \E k \in 1 .. Len(a) : h[k] = i

\* Interrupts are off while a PIC's interrupt is handled, and in the handlers of
\* exceptions on top of it.
IrqOff(h, s, a, f) ==
  \A k \in 1 .. Len(a) : B!Irq(a[k]) =>
    ~f /\ \A j \in 1 .. k - 1 : s[h[j]] = "frame_off"

Frames(h, s, a, f) == Extents(h, s, a) /\ FramesAt(h, s, a) /\ IrqOff(h, s, a, f)
Framed == \E h : Frames(h, stack, active, iflag)

\* The outermost handler returns to the program.
Bottom ==
  IF active = <<>> THEN iflag <=> On
  ELSE b_pc \notin Early /\ stack[Len(stack)] = (IF On THEN "frame_on" ELSE "frame_off")

\* At most one handler is a PIC's, and only it has lines to acknowledge.
OneIrq ==
  \A j, k \in 1 .. Len(active) : B!Irq(active[j]) /\ B!Irq(active[k]) => j = k
Owed ==
  /\ \A k \in 1 .. Len(active) : ~B!Irq(active[k]) => active[k].code \in Plain \cup TakesCode
  /\ \A k \in 1 .. Len(active) : active[k].code \in OwesMaster =>
       \E l \in 0 .. 7 : inservice \subseteq {l}
  /\ \A k \in 1 .. Len(active) : active[k].code \in OwesBoth =>
       \E l \in 8 .. 15 : inservice \subseteq {l, 2}
  /\ (\A k \in 1 .. Len(active) : active[k].code \notin OwesMaster \cup OwesBoth)
       => inservice = {}

Stage2IInv ==
  /\ Table /\ Typed /\ Bottom /\ OneIrq /\ Owed
  /\ Framed

\* Stage 2's steps, and its entry, with what the BIOS has left pending.
Entry ==
  /\ irr' \in SUBSET Lines
  /\ UNCHANGED <<B!program, B!cpu, B!data, base, inservice, B!counters>>
BootNext == B!Program \/ B!Handler \/ B!Hardware \/ Entry

LEMMA Empty ==
  ASSUME NEW s, NEW a, NEW f, Len(s) = 0, Len(a) = 0
  PROVE  \E h : Frames(h, s, a, f)
<1> DEFINE h == [k \in 0 .. 0 |-> 0]
<1>1. h \in [0 .. 0 -> Nat] /\ h[0] = 0
  OBVIOUS
<1> HIDE DEF h
<1>2. Frames(h, s, a, f)
  BY <1>1 DEF Frames, Extents, FramesAt, IrqOff
<1> QED BY <1>2

LEMMA Stage2InitIInv == B!Init => Stage2IInv
<1> SUFFICES ASSUME B!Init PROVE Stage2IInv
  OBVIOUS
<1>1. /\ b_pc = "remap" /\ di = 0 /\ esi = 1 /\ idt = <<>> /\ iflag = FALSE
      /\ stack = <<>> /\ active = <<>> /\ bss = "garbage" /\ registered = {}
      /\ irr = {} /\ inservice = {} /\ Len(active) = 0 /\ Len(stack) = 0 /\ Len(idt) = 0
  BY DEF B!Init
<1>2. Table
  BY <1>1 DEF Table
<1>3. Typed
  <2>1. stack \in Seq(Items) /\ active \in Seq(Handlers)
    BY <1>1, EmptySeq
  <2>2. registered \subseteq 0 .. 47 /\ irr \subseteq Lines /\ inservice \subseteq 0 .. 15
    BY <1>1
  <2> QED BY <1>1, <2>1, <2>2 DEF Typed
<1>4. Bottom /\ OneIrq /\ Owed
  <2>1. ~On
    BY <1>1 DEF On, Early
  <2>2. Bottom
    BY <1>1, <2>1 DEF Bottom
  <2> QED BY <1>1, <2>2 DEF OneIrq, Owed
<1>5. Framed
  BY <1>1, Empty DEF Framed
<1> QED BY <1>2, <1>3, <1>4, <1>5 DEF Stage2IInv

-----------------------------------------------------------------------------
(* The program                                                             *)

\* While no handler is under way the stack is empty and no line is in service.
LEMMA Quiet ==
  ASSUME Stage2IInv, active = <<>>
  PROVE  stack = <<>> /\ inservice = {} /\ (iflag <=> On)
<1>1. Len(active) = 0 /\ stack \in Seq(Items)
  BY DEF Stage2IInv, Typed
<1>2. Len(stack) = 0
  BY <1>1 DEF Stage2IInv, Framed, Frames, Extents
<1> QED BY <1>1, <1>2, EmptySeq DEF Stage2IInv, Owed, Bottom

\* What the program does between the handlers leaves them alone.
LEMMA ProgramKeeps ==
  ASSUME Stage2IInv, active = <<>>, UNCHANGED <<stack, active>>, inservice' = {}
  PROVE  /\ OneIrq' /\ Owed' /\ Framed'
         /\ ((iflag' <=> On') => Bottom')
<1>1. Len(active) = 0 /\ Len(active') = 0 /\ Len(stack') = 0 /\ active' = <<>>
  BY Quiet DEF Stage2IInv
<1>2. Framed'
  BY <1>1, Empty DEF Framed
<1> QED BY <1>1, <1>2 DEF OneIrq, Owed, Bottom

LEMMA MapVectors ==
  \A k \in 1 .. 38 : /\ B!MapEntry(k) \in (0 .. 21) \cup (32 .. 47)
                     /\ k = 38 => B!MapEntry(k) = 0
BY DEF B!MapEntry, B!Generated

Gates == [trap : BOOLEAN, handler : {"isr", "dummy", "dummy_ec", "dummy_pic_slave",
                                     "dummy_pic_master"}]

LEMMA GateTypes == \A v \in 0 .. 255 : B!UseDummy(v) \in Gates /\ B!MapGate(v) \in Gates
<1> SUFFICES ASSUME NEW v \in 0 .. 255 PROVE B!UseDummy(v) \in Gates /\ B!MapGate(v) \in Gates
  OBVIOUS
<1>1. B!UseDummy(v) \in Gates
  BY DEF B!UseDummy, B!Gate, Gates
<1>2. B!Fault(v) \in BOOLEAN
  BY DEF B!Fault
<1>3. B!MapGate(v) \in Gates
  BY <1>2 DEF B!MapGate, B!Gate, Gates
<1> QED BY <1>1, <1>3

\* A turn of idt_loop adds the gate of the next vector.
LEMMA TableKept == ASSUME Stage2IInv, B!SetIdtEntry PROVE Table'
<1>1. /\ di \in 0 .. 255 /\ esi \in 1 .. 38 /\ (di = 0 => esi = 1)
      /\ Len(idt) = di /\ idt \in Seq(Gates)
      /\ b_pc' = (IF di = 255 THEN "lidt" ELSE "idt_loop") /\ di' = di + 1
  BY DEF B!SetIdtEntry, B!Runs, Stage2IInv, Table, Gates
<1> DEFINE maps == B!MapEntry(esi) = di
           g == IF maps THEN B!MapGate(di) ELSE B!UseDummy(di)
<1>2. idt' = Append(idt, g) /\ esi' = IF maps THEN esi + 1 ELSE esi
  BY DEF B!SetIdtEntry
<1>3. g \in Gates
  BY <1>1, GateTypes
<1>4. g = B!UseDummy(di) \/ (g = B!MapGate(di) /\ di \in (0 .. 21) \cup (32 .. 47))
  <2>1. maps => B!MapEntry(esi) \in (0 .. 21) \cup (32 .. 47)
    BY <1>1, MapVectors
  <2> QED BY <2>1
<1>5. esi' \in 1 .. 38
  BY <1>1, <1>2, MapVectors
<1> HIDE DEF g
<1>6. /\ idt' \in Seq(Gates) /\ Len(idt') = di + 1 /\ idt'[di + 1] = g
      /\ \A i \in 1 .. di : idt'[i] = idt[i]
  BY <1>1, <1>2, <1>3
<1>7. \A v \in 0 .. di' - 1 :
        \/ idt'[v + 1] = B!UseDummy(v)
        \/ idt'[v + 1] = B!MapGate(v) /\ v \in (0 .. 21) \cup (32 .. 47)
  <2> SUFFICES ASSUME NEW v \in 0 .. di
               PROVE  \/ idt'[v + 1] = B!UseDummy(v)
                      \/ idt'[v + 1] = B!MapGate(v) /\ v \in (0 .. 21) \cup (32 .. 47)
    BY <1>1
  <2>1. CASE v = di
    BY <1>4, <1>6, <2>1
  <2>2. CASE v # di
    <3>1. v \in 0 .. di - 1 /\ v + 1 \in 1 .. di
      BY <1>1, <2>2
    <3> QED BY <1>6, <3>1 DEF Stage2IInv, Table
  <2> QED BY <2>1, <2>2
<1> QED BY <1>1, <1>5, <1>6, <1>7 DEF Table, Gates

LEMMA ProgramStep == B!BootAssumption /\ Stage2IInv /\ B!Program => Stage2IInv'
<1> SUFFICES ASSUME B!BootAssumption, Stage2IInv, B!Program PROVE Stage2IInv'
  OBVIOUS
<1>1. /\ active = <<>> /\ UNCHANGED <<stack, active>> /\ inservice' = {}
      /\ iflag' \in BOOLEAN /\ (iflag' <=> On')
  <2>1. ASSUME active = <<>> PROVE inservice = {} /\ (iflag <=> On) /\ iflag \in BOOLEAN
    BY <2>1, Quiet DEF Stage2IInv, Typed
  <2>2. CASE B!PicRemap
    BY <2>1, <2>2 DEF B!PicRemap, B!Runs, On, Early, B!cpu
  <2>3. CASE B!SetIdtEntry
    BY <2>1, <2>3 DEF B!SetIdtEntry, B!Runs, On, Early, B!cpu, B!pic
  <2>4. CASE B!Lidt
    BY <2>1, <2>4 DEF B!Lidt, B!Runs, On, Early, B!cpu, B!pic
  <2>5. CASE B!Sti
    BY <2>1, <2>5 DEF B!Sti, B!Runs, On, Early, B!pic
  <2>6. CASE B!ClearBss
    BY <2>1, <2>6 DEF B!ClearBss, B!Runs, On, Early, B!cpu, B!pic
  <2>7. ASSUME NEW k \in 1 .. Len(B!Calls) - 1, B!Call(k)
        PROVE  /\ active = <<>> /\ UNCHANGED <<stack, active>> /\ inservice' = {}
               /\ iflag' \in BOOLEAN /\ (iflag' <=> On')
    <3>1. /\ active = <<>> /\ b_pc = B!Calls[k] /\ b_pc' = B!Calls[k + 1]
          /\ UNCHANGED <<stack, active, iflag, inservice>>
      BY <2>7 DEF B!Call, B!Runs, B!cpu, B!pic
    <3>2. k \in 1 .. 6
      BY DEF B!Calls
    <3>3. On /\ On'
      BY <3>1, <3>2 DEF On, Early, B!Calls
    <3> QED BY <2>1, <3>1, <3>3
  <2> QED BY <2>2, <2>3, <2>4, <2>5, <2>6, <2>7 DEF B!Program
<1>2. OneIrq' /\ Owed' /\ Framed' /\ Bottom'
  BY <1>1, ProgramKeeps
<1>3. Table'
  <2>1. CASE B!SetIdtEntry
    BY <2>1, TableKept
  <2>2. CASE B!PicRemap
    BY <2>2 DEF B!PicRemap, B!Runs, Stage2IInv, Table
  <2>3. CASE B!Lidt \/ B!Sti \/ B!ClearBss
    <3>1. /\ b_pc \notin {"remap", "idt_loop"} /\ b_pc' \notin {"remap", "idt_loop"}
          /\ UNCHANGED <<di, esi, idt>>
      BY <2>3 DEF B!Lidt, B!Sti, B!ClearBss, B!Runs
    <3> QED BY <3>1 DEF Stage2IInv, Table
  <2>4. ASSUME NEW k \in 1 .. Len(B!Calls) - 1, B!Call(k) PROVE Table'
    <3>1. k \in 1 .. 6
      BY DEF B!Calls
    <3>2. b_pc \notin {"remap", "idt_loop"} /\ b_pc' \notin {"remap", "idt_loop"}
      BY <2>4, <3>1 DEF B!Call, B!Runs, B!Calls
    <3> QED BY <2>4, <3>2 DEF B!Call, Stage2IInv, Table
  <2> QED BY <2>1, <2>2, <2>3, <2>4 DEF B!Program
<1>4. Typed'
  <2>1. base' = base \/ base' = <<32, 40>>
    BY DEF B!Program, B!PicRemap, B!SetIdtEntry, B!Lidt, B!Sti, B!ClearBss, B!Call, B!pic
  <2>2. b_pc = "remap" => base' = <<32, 40>>
    BY DEF B!Program, B!PicRemap, B!SetIdtEntry, B!Lidt, B!Sti, B!ClearBss, B!Call,
           B!Runs, B!Calls
  <2>3. bss' \in {"garbage", "zero"} /\ irr' \subseteq Lines
    BY DEF B!Program, B!PicRemap, B!SetIdtEntry, B!Lidt, B!Sti, B!ClearBss, B!Call,
           B!data, B!pic, Stage2IInv, Typed
  <2>4. registered' \subseteq 0 .. 47
    <3>1. registered' = registered \/ registered' = registered \cup {32}
          \/ registered' = registered \cup Claimed \/ registered' = registered \cup {}
      BY DEF B!Program, B!PicRemap, B!SetIdtEntry, B!Lidt, B!Sti, B!ClearBss,
             B!Call, B!data
    <3>2. registered \subseteq 0 .. 47 /\ Claimed \subseteq 0 .. 47
      BY DEF Stage2IInv, Typed, B!BootAssumption
    <3>3. {32} \subseteq 0 .. 47
      OBVIOUS
    <3> DEFINE S == 0 .. 47
    <3>4. registered \subseteq S /\ Claimed \subseteq S /\ {32} \subseteq S
      BY <3>2, <3>3
    <3> HIDE DEF S
    <3>5. registered' \subseteq S
      BY <3>1, <3>4
    <3> QED BY <3>5 DEF S
  <2> QED BY <1>1, <2>1, <2>2, <2>3, <2>4 DEF Stage2IInv, Typed
<1> QED BY <1>1, <1>2, <1>3, <1>4 DEF Stage2IInv

-----------------------------------------------------------------------------
(* An interrupt or exception comes                                         *)

LEMMA HeldNat ==
  ASSUME NEW a \in Seq(Handlers), NEW k \in 1 .. Len(a)
  PROVE  a[k] \in Handlers /\ a[k].code \in Codes /\ Held(a[k].code) \in 0 .. 2
<1>1. a[k] \in Handlers
  BY ElementOfSeq
<1>2. a[k].code \in Codes
  BY <1>1 DEF Handlers
<1> QED BY <1>1, <1>2, CodeStep

LEMMA FrameRange ==
  ASSUME NEW h, NEW s, NEW a, Extents(h, s, a), NEW n \in Nat, n = Len(a)
  PROVE  Len(s) \in Nat /\ \A k \in 1 .. n : h[k] \in 1 .. Len(s)
<1>1. /\ h \in [0 .. n -> Nat] /\ h[0] = 0 /\ h[n] = Len(s)
      /\ \A j, k \in 0 .. n : j < k => h[j] < h[k]
  BY DEF Extents
<1>2. Len(s) \in Nat
  BY <1>1
<1> SUFFICES ASSUME NEW k \in 1 .. n PROVE h[k] \in 1 .. Len(s)
  BY <1>2
<1>3. h[k] \in Nat /\ h[0] < h[k]
  BY <1>1
<1>4. k = n \/ h[k] < h[n]
  BY <1>1
<1> QED BY <1>1, <1>2, <1>3, <1>4

\* Something pushed below a sequence's top d elements.
Above(t, s, d) ==
  /\ Len(t) = Len(s) + d
  /\ \A i \in 1 .. Len(s) : t[i + d] = s[i]

\* The extents h of n handlers below a new one that holds d - 1 items.
ShiftedBy(g, h, n, d) ==
  /\ g \in [0 .. n + 1 -> Nat] /\ g[0] = 0 /\ g[1] = d /\ g[n + 1] = h[n] + d
  /\ \A k \in 2 .. n + 1 : g[k] = h[k - 1] + d
  /\ \A j, k \in 0 .. n + 1 : j < k => g[j] < g[k]

LEMMA Shifted ==
  ASSUME NEW n \in Nat, NEW d \in 1 .. 2, NEW h \in [0 .. n -> Nat],
         h[0] = 0, \A j, k \in 0 .. n : j < k => h[j] < h[k]
  PROVE  \E g : ShiftedBy(g, h, n, d)
<1> DEFINE g == [k \in 0 .. n + 1 |-> IF k = 0 THEN 0 ELSE h[k - 1] + d]
<1>1. \A k \in 1 .. n + 1 : k - 1 \in 0 .. n /\ h[k - 1] \in Nat
  OBVIOUS
<1>2. g \in [0 .. n + 1 -> Nat] /\ g[0] = 0 /\ \A k \in 1 .. n + 1 : g[k] = h[k - 1] + d
  BY <1>1
<1> HIDE DEF g
<1>3. g[1] = d /\ g[n + 1] = h[n] + d
  BY <1>2
<1>4. \A j, k \in 0 .. n + 1 : j < k => g[j] < g[k]
  <2> SUFFICES ASSUME NEW j \in 0 .. n + 1, NEW k \in 0 .. n + 1, j < k PROVE g[j] < g[k]
    OBVIOUS
  <2>1. k \in 1 .. n + 1 /\ h[k - 1] \in Nat /\ g[k] = h[k - 1] + d
    BY <1>1, <1>2
  <2>2. CASE j = 0
    BY <1>2, <2>1, <2>2
  <2>3. CASE j # 0
    <3>1. j - 1 \in 0 .. n /\ k - 1 \in 0 .. n /\ j - 1 < k - 1 /\ h[j - 1] \in Nat
      BY <2>1, <2>3
    <3>2. h[j - 1] < h[k - 1]
      BY <3>1
    <3>3. g[j] = h[j - 1] + d
      BY <1>2, <2>3
    <3> QED BY <2>1, <3>1, <3>2, <3>3
  <2> QED BY <2>2, <2>3
<1>5. \A k \in 2 .. n + 1 : g[k] = h[k - 1] + d
  BY <1>2
<1> QED BY <1>2, <1>3, <1>4, <1>5 DEF ShiftedBy

\* The CPU's frame, above it an error code if there is one, and above the rest
\* of the handlers the new one, which takes off what is above its frame.
LEMMA EnterFrames ==
  ASSUME NEW s, NEW a \in Seq(Handlers), NEW f \in BOOLEAN, NEW h, Frames(h, s, a, f),
         NEW t, NEW b, NEW f2, NEW d \in 1 .. 2, Above(t, s, d), Above(b, a, 1),
         Held(b[1].code) = d - 1, t[d] = (IF f THEN "frame_on" ELSE "frame_off"),
         d = 2 => ~B!IsFrame(t[1]), f2 => f, B!Irq(b[1]) => ~f2
  PROVE  \E g : Frames(g, t, b, f2)
<1> DEFINE n == Len(a)
           l == Len(s)
<1>1. n \in Nat /\ l \in Nat /\ \A k \in 1 .. n : h[k] \in 1 .. l
  BY FrameRange DEF Frames
<1>2. /\ h \in [0 .. n -> Nat] /\ h[0] = 0 /\ h[n] = l
      /\ \A k \in 1 .. n : h[k] = h[k - 1] + Held(a[k].code) + 1
      /\ \A j, k \in 0 .. n : j < k => h[j] < h[k]
  BY DEF Frames, Extents
<1>3. /\ Len(t) = l + d /\ \A i \in 1 .. l : t[i + d] = s[i]
      /\ Len(b) = n + 1 /\ \A k \in 1 .. n : b[k + 1] = a[k]
  BY DEF Above
<1> HIDE DEF n, l
<1> PICK g : ShiftedBy(g, h, n, d)
  BY <1>1, <1>2, Shifted
<1>4. /\ g \in [0 .. n + 1 -> Nat] /\ g[0] = 0 /\ g[1] = d /\ g[n + 1] = l + d
      /\ \A k \in 2 .. n + 1 : g[k] = h[k - 1] + d
      /\ \A j, k \in 0 .. n + 1 : j < k => g[j] < g[k]
  BY <1>2 DEF ShiftedBy
<1>5. \A k \in 2 .. n + 1 : /\ k - 1 \in 1 .. n /\ b[k] = a[k - 1]
                            /\ t[g[k]] = s[h[k - 1]]
  <2> SUFFICES ASSUME NEW k \in 2 .. n + 1
               PROVE  k - 1 \in 1 .. n /\ b[k] = a[k - 1] /\ t[g[k]] = s[h[k - 1]]
    OBVIOUS
  <2>1. k - 1 \in 1 .. n /\ (k - 1) + 1 = k
    BY <1>1
  <2>2. b[k] = a[k - 1]
    BY <1>3, <2>1
  <2>3. g[k] = h[k - 1] + d /\ h[k - 1] \in 1 .. l
    BY <1>1, <1>4, <2>1
  <2>4. t[h[k - 1] + d] = s[h[k - 1]]
    BY <1>3, <2>3
  <2> QED BY <2>1, <2>2, <2>3, <2>4
<1>6. Extents(g, t, b)
  <2>1. ASSUME NEW k \in 1 .. n + 1 PROVE g[k] = g[k - 1] + Held(b[k].code) + 1
    <3>1. CASE k = 1
      BY <1>4, <3>1
    <3>2. CASE k # 1
      <4>1. k \in 2 .. n + 1 /\ k - 1 \in 1 .. n
        BY <1>1, <3>2
      <4>2. g[k] = h[k - 1] + d /\ b[k] = a[k - 1]
        BY <1>4, <1>5, <4>1
      <4>3. h[k - 1] = h[(k - 1) - 1] + Held(a[k - 1].code) + 1
        BY <1>2, <4>1
      <4>4. Held(a[k - 1].code) \in 0 .. 2 /\ h[(k - 1) - 1] \in Nat
        BY SMTT(60), <1>1, <1>2, <4>1, HeldNat DEF n
      <4>5. g[k - 1] = h[(k - 1) - 1] + d
        <5>1. CASE k = 2
          BY <1>2, <1>4, <5>1
        <5>2. CASE k # 2
          <6>1. k - 1 \in 2 .. n + 1
            BY <1>1, <4>1, <5>2
          <6>2. \A i \in 2 .. n + 1 : g[i] = h[i - 1] + d
            BY <1>4
          <6> QED BY <6>1, <6>2
        <5> QED BY <5>1, <5>2
      <4> QED BY <4>2, <4>3, <4>4, <4>5
    <3> QED BY <3>1, <3>2
  <2> QED BY <1>3, <1>4, <2>1 DEF Extents
<1>7. FramesAt(g, t, b)
  <2>1. ASSUME NEW k \in 1 .. n + 1 PROVE B!IsFrame(t[g[k]])
    <3>1. CASE k = 1
      BY <1>4, <3>1 DEF B!IsFrame
    <3>2. CASE k # 1
      <4>1. k \in 2 .. n + 1
        BY <1>1, <3>2
      <4>2. t[g[k]] = s[h[k - 1]] /\ k - 1 \in 1 .. n
        BY <1>5, <4>1
      <4> QED BY <4>2 DEF Frames, FramesAt, n
    <3> QED BY <3>1, <3>2
  <2>2. ASSUME NEW i \in 1 .. l + d, B!IsFrame(t[i]) PROVE \E k \in 1 .. n + 1 : g[k] = i
    <3>1. CASE i < d
      <4>1. i = 1 /\ d = 2
        BY <1>1, <3>1
      <4> QED BY <2>2, <4>1
    <3>2. CASE i = d
      BY <1>1, <1>4, <3>2
    <3>3. CASE i > d
      <4>1. i - d \in 1 .. l /\ (i - d) + d = i
        BY <1>1, <3>3
      <4>2. B!IsFrame(s[i - d])
        BY <1>3, <2>2, <4>1
      <4>3. PICK k \in 1 .. n : h[k] = i - d
        BY <4>1, <4>2 DEF Frames, FramesAt, n, l
      <4>4. k + 1 \in 2 .. n + 1 /\ (k + 1) - 1 = k
        BY <1>1
      <4>5. g[k + 1] = i
        BY <1>4, <4>1, <4>3, <4>4
      <4> QED BY <1>1, <4>4, <4>5
    <3> QED BY <1>1, <3>1, <3>2, <3>3
  <2> QED BY <1>3, <2>1, <2>2 DEF FramesAt
<1>8. IrqOff(g, t, b, f2)
  <2> SUFFICES ASSUME NEW k \in 1 .. n + 1, B!Irq(b[k])
               PROVE  ~f2 /\ \A j \in 1 .. k - 1 : t[g[j]] = "frame_off"
    BY <1>3 DEF IrqOff
  <2>1. CASE k = 1
    BY <2>1
  <2>2. CASE k # 1
    <3>1. k \in 2 .. n + 1
      BY <1>1, <2>2
    <3>2. b[k] = a[k - 1] /\ k - 1 \in 1 .. n
      BY <1>5, <3>1
    <3>3. ~f /\ \A j \in 1 .. (k - 1) - 1 : s[h[j]] = "frame_off"
      BY <3>2 DEF Frames, IrqOff, n
    <3>4. ASSUME NEW j \in 1 .. k - 1 PROVE t[g[j]] = "frame_off"
      <4>1. CASE j = 1
        BY <1>4, <3>3, <4>1
      <4>2. CASE j # 1
        <5>1. j \in 2 .. n + 1 /\ j - 1 \in 1 .. (k - 1) - 1
          BY <1>1, <3>1, <4>2
        <5> QED BY <1>5, <3>3, <5>1
      <4> QED BY <4>1, <4>2
    <3> QED BY <3>3, <3>4
  <2> QED BY <2>1, <2>2
<1> QED BY <1>6, <1>7, <1>8 DEF Frames

\* What the innermost handler takes off changes from e to e2 items.
Regrown(t, s, e, e2) ==
  /\ Len(t) = Len(s) - e + e2
  /\ \A i \in e + 1 .. Len(s) : t[i - e + e2] = s[i]
  /\ \A i \in 1 .. e2 : ~B!IsFrame(t[i])

\* The rest of the handlers stays.
Recoded(b, a) ==
  /\ Len(b) = Len(a) /\ b[1].vec = a[1].vec
  /\ \A k \in 2 .. Len(a) : b[k] = a[k]

MovedBy(g, h, n, e, e2) ==
  /\ g \in [0 .. n -> Nat] /\ g[0] = 0
  /\ \A k \in 1 .. n : h[k] >= e + 1 /\ g[k] = h[k] - e + e2
  /\ \A j, k \in 0 .. n : j < k => g[j] < g[k]

LEMMA Moved ==
  ASSUME NEW n \in Nat, n > 0, NEW e \in 0 .. 2, NEW e2 \in 0 .. 2, NEW h \in [0 .. n -> Nat],
         h[0] = 0, h[1] = e + 1, \A j, k \in 0 .. n : j < k => h[j] < h[k]
  PROVE  \E g : MovedBy(g, h, n, e, e2)
<1> DEFINE g == [k \in 0 .. n |-> IF k = 0 THEN 0 ELSE h[k] - e + e2]
<1>1. \A k \in 1 .. n : h[k] \in Nat /\ h[k] >= e + 1
  <2> SUFFICES ASSUME NEW k \in 1 .. n PROVE h[k] \in Nat /\ h[k] >= e + 1
    OBVIOUS
  <2>1. CASE k = 1
    BY <2>1
  <2>2. CASE k # 1
    <3>1. h[1] < h[k]
      BY <2>2
    <3> QED BY <3>1
  <2> QED BY <2>1, <2>2
<1>2. g \in [0 .. n -> Nat] /\ g[0] = 0 /\ \A k \in 1 .. n : g[k] = h[k] - e + e2
  BY <1>1
<1> HIDE DEF g
<1>3. \A j, k \in 0 .. n : j < k => g[j] < g[k]
  <2> SUFFICES ASSUME NEW j \in 0 .. n, NEW k \in 0 .. n, j < k PROVE g[j] < g[k]
    OBVIOUS
  <2>1. k \in 1 .. n
    OBVIOUS
  <2>2. h[j] < h[k] /\ h[k] \in Nat /\ h[k] >= e + 1 /\ g[k] = h[k] - e + e2
    BY <1>1, <1>2, <2>1
  <2>3. CASE j = 0
    BY SMTT(30), <1>2, <2>2, <2>3
  <2>4. CASE j # 0
    <3>1. h[j] \in Nat /\ g[j] = h[j] - e + e2
      BY <1>2, <2>4
    <3> QED BY <2>2, <3>1
  <2> QED BY <2>3, <2>4
<1> QED BY <1>1, <1>2, <1>3 DEF MovedBy

\* An instruction of the innermost handler other than its iret.
LEMMA StepFrames ==
  ASSUME NEW s, NEW a \in Seq(Handlers), a # <<>>, NEW f, NEW h, Frames(h, s, a, f),
         NEW t, NEW b, NEW e2 \in 0 .. 2, e2 = Held(b[1].code),
         Regrown(t, s, Held(a[1].code), e2), Recoded(b, a)
  PROVE  \E g : Frames(g, t, b, f)
<1> DEFINE n == Len(a)
           l == Len(s)
           e == Held(a[1].code)
<1>1. n \in Nat /\ n > 0 /\ l \in Nat /\ \A k \in 1 .. n : h[k] \in 1 .. l
  <2>1. n > 0
    OBVIOUS
  <2> QED BY <2>1, FrameRange DEF Frames
<1>2. /\ h \in [0 .. n -> Nat] /\ h[0] = 0 /\ h[n] = l
      /\ \A k \in 1 .. n : h[k] = h[k - 1] + Held(a[k].code) + 1
      /\ \A j, k \in 0 .. n : j < k => h[j] < h[k]
  BY DEF Frames, Extents
<1>3. e \in 0 .. 2
  BY <1>1, HeldNat
<1>4. h[1] = e + 1
  <2>1. h[1] = h[1 - 1] + Held(a[1].code) + 1
    BY <1>1, <1>2
  <2> QED BY <1>2, <1>3, <2>1
<1>5. /\ Len(t) = l - e + e2
      /\ \A i \in e + 1 .. l : t[i - e + e2] = s[i]
      /\ \A i \in 1 .. e2 : ~B!IsFrame(t[i])
      /\ Len(b) = n /\ b[1].vec = a[1].vec
      /\ \A k \in 2 .. n : b[k] = a[k]
  BY DEF Regrown, Recoded
<1>6. \A k \in 1 .. n : B!Irq(b[k]) <=> B!Irq(a[k])
  <2> SUFFICES ASSUME NEW k \in 1 .. n PROVE B!Irq(b[k]) <=> B!Irq(a[k])
    OBVIOUS
  <2>1. k = 1 \/ k \in 2 .. n
    OBVIOUS
  <2>2. b[k].vec = a[k].vec
    BY <1>5, <2>1
  <2> QED BY <2>2 DEF B!Irq
<1> HIDE DEF n, l, e
<1> PICK g : MovedBy(g, h, n, e, e2)
  BY <1>1, <1>2, <1>3, <1>4, Moved
<1>7. /\ g \in [0 .. n -> Nat] /\ g[0] = 0
      /\ \A k \in 1 .. n : h[k] >= e + 1 /\ g[k] = h[k] - e + e2
      /\ \A j, k \in 0 .. n : j < k => g[j] < g[k]
  BY DEF MovedBy
<1>8. \A k \in 1 .. n : t[g[k]] = s[h[k]]
  <2> SUFFICES ASSUME NEW k \in 1 .. n PROVE t[g[k]] = s[h[k]]
    OBVIOUS
  <2>1. h[k] \in e + 1 .. l /\ g[k] = h[k] - e + e2
    BY <1>1, <1>3, <1>7
  <2>2. t[h[k] - e + e2] = s[h[k]]
    BY <1>5, <2>1
  <2> QED BY <2>1, <2>2
<1>9. Extents(g, t, b)
  <2>1. g[n] = Len(t)
    <3>1. n \in 1 .. n /\ h[n] = l /\ Len(t) = l - e + e2
      BY <1>1, <1>2, <1>5
    <3>2. g[n] = h[n] - e + e2
      BY <1>7, <3>1
    <3> QED BY <3>1, <3>2
  <2>2. ASSUME NEW k \in 1 .. n PROVE g[k] = g[k - 1] + Held(b[k].code) + 1
    <3>1. CASE k = 1
      <4>1. g[1] = e2 + 1 /\ g[0] = 0 /\ k - 1 = 0
        BY <1>1, <1>3, <1>4, <1>7, <3>1
      <4> QED BY <3>1, <4>1
    <3>2. CASE k # 1
      <4>1. k \in 2 .. n /\ k - 1 \in 1 .. n
        BY <1>1, <3>2
      <4>2. b[k] = a[k] /\ g[k] = h[k] - e + e2 /\ g[k - 1] = h[k - 1] - e + e2
        BY <1>5, <1>7, <4>1
      <4>3. h[k] = h[k - 1] + Held(a[k].code) + 1 /\ h[k - 1] \in Nat
        BY <1>1, <1>2, <4>1
      <4>4. Held(a[k].code) \in 0 .. 2
        BY HeldNat DEF n
      <4> QED BY SMTT(30), <1>3, <4>2, <4>3, <4>4
    <3> QED BY <3>1, <3>2
  <2> QED BY <1>5, <1>7, <2>1, <2>2 DEF Extents
<1>10. FramesAt(g, t, b)
  <2>1. \A k \in 1 .. n : B!IsFrame(t[g[k]])
    <3>1. \A k \in 1 .. n : B!IsFrame(s[h[k]])
      BY DEF Frames, FramesAt, n
    <3> QED BY <1>8, <3>1
  <2>2. ASSUME NEW i \in 1 .. Len(t), B!IsFrame(t[i]) PROVE \E k \in 1 .. n : g[k] = i
    <3>1. i > e2
      BY <1>5, <2>2
    <3>2. i - e2 + e \in e + 1 .. l /\ (i - e2 + e) - e + e2 = i
      BY <1>1, <1>3, <1>5, <3>1
    <3>3. B!IsFrame(s[i - e2 + e])
      <4>1. t[(i - e2 + e) - e + e2] = s[i - e2 + e]
        BY <1>5, <3>2
      <4> QED BY <2>2, <3>2, <4>1
    <3>6. i - e2 + e \in 1 .. l
      BY SMTT(30), <1>1, <1>3, <3>2
    <3>4. PICK k \in 1 .. n : h[k] = i - e2 + e
      BY <3>3, <3>6 DEF Frames, FramesAt, n, l
    <3>5. g[k] = i
      BY <1>7, <3>2, <3>4
    <3> QED BY <3>5
  <2> QED BY <1>5, <2>1, <2>2 DEF FramesAt
<1>11. IrqOff(g, t, b, f)
  <2> SUFFICES ASSUME NEW k \in 1 .. n, B!Irq(b[k])
               PROVE  ~f /\ \A j \in 1 .. k - 1 : t[g[j]] = "frame_off"
    BY <1>5 DEF IrqOff
  <2>1. ~f /\ \A j \in 1 .. k - 1 : s[h[j]] = "frame_off"
    BY <1>6 DEF Frames, IrqOff, n
  <2>2. ASSUME NEW j \in 1 .. k - 1 PROVE t[g[j]] = "frame_off"
    <3>1. j \in 1 .. n
      BY <1>1
    <3> QED BY <1>8, <2>1, <3>1
  <2> QED BY <2>1, <2>2
<1> QED BY <1>9, <1>10, <1>11 DEF Frames

LEMMA OneLess ==
  ASSUME NEW x \in Nat, NEW l \in Nat, 1 < x, x <= l + 1
  PROVE  x - 1 \in 1 .. l /\ (x - 1) + 1 = x
OBVIOUS

\* The innermost handler's iret takes its frame off, and the interrupt flag
\* from it.
LEMMA IretFrames ==
  ASSUME NEW s, NEW a \in Seq(Handlers), NEW f, NEW h, Frames(h, s, a, f),
         Held(a[1].code) = 0, NEW t \in Seq(Items), NEW b \in Seq(Handlers),
         Above(s, t, 1), Above(a, b, 1)
  PROVE  /\ B!IsFrame(s[1]) /\ \E g : Frames(g, t, b, s[1] = "frame_on")
         /\ Len(b) = 0 => Len(s) = 1
<1> DEFINE n == Len(b)
           l == Len(t)
<1>1. n \in Nat /\ l \in Nat /\ n + 1 = Len(a) /\ l + 1 = Len(s)
  BY DEF Above
<1>2. \A k \in 1 .. n + 1 : h[k] \in 1 .. l + 1
  BY <1>1, FrameRange DEF Frames
<1>3. /\ h \in [0 .. n + 1 -> Nat] /\ h[0] = 0 /\ h[n + 1] = l + 1
      /\ \A k \in 1 .. n + 1 : h[k] = h[k - 1] + Held(a[k].code) + 1
      /\ \A j, k \in 0 .. n + 1 : j < k => h[j] < h[k]
  BY <1>1 DEF Frames, Extents
<1>4. /\ \A i \in 1 .. l : s[i + 1] = t[i]
      /\ \A k \in 1 .. n : a[k + 1] = b[k]
  BY DEF Above
<1> HIDE DEF n, l
<1>5. h[1] = 1
  <2>1. h[1] = h[1 - 1] + Held(a[1].code) + 1
    BY <1>1, <1>3
  <2> QED BY <1>3, <2>1
<1>6. B!IsFrame(s[1])
  <2>1. 1 \in 1 .. Len(a)
    BY <1>1
  <2>2. B!IsFrame(s[h[1]])
    BY <2>1 DEF Frames, FramesAt
  <2> QED BY <1>5, <2>2
<1> DEFINE g == [k \in 0 .. n |-> h[k + 1] - 1]
<1>7. \A k \in 0 .. n : k + 1 \in 1 .. n + 1 /\ h[k + 1] \in Nat /\ h[k + 1] >= 1
  BY <1>1, <1>2
<1>8. /\ g \in [0 .. n -> Nat] /\ g[0] = 0
      /\ \A k \in 0 .. n : g[k] = h[k + 1] - 1
  BY <1>1, <1>5, <1>7
<1> HIDE DEF g
<1>9. \A k \in 1 .. n : t[g[k]] = s[h[k + 1]]
  <2> SUFFICES ASSUME NEW k \in 1 .. n PROVE t[g[k]] = s[h[k + 1]]
    OBVIOUS
  <2>1. 1 \in 0 .. n + 1 /\ k + 1 \in 0 .. n + 1 /\ k + 1 \in 1 .. n + 1 /\ 1 < k + 1
        /\ k \in 0 .. n
    BY <1>1
  <2>3. h[1] < h[k + 1]
    BY <1>3, <2>1
  <2>4. h[k + 1] \in 1 .. l + 1 /\ g[k] = h[k + 1] - 1
    BY <1>2, <1>8, <2>1
  <2>2. g[k] \in 1 .. l /\ g[k] + 1 = h[k + 1]
    <3>1. h[k + 1] \in Nat /\ 1 < h[k + 1] /\ h[k + 1] <= l + 1
      BY <1>1, <1>5, <2>3, <2>4
    <3>2. h[k + 1] - 1 \in 1 .. l /\ (h[k + 1] - 1) + 1 = h[k + 1]
      BY <1>1, <3>1, OneLess
    <3> QED BY <2>4, <3>2
  <2> QED BY <1>4, <2>2
<1>10. Extents(g, t, b)
  <2>1. g[n] = l
    BY <1>1, <1>3, <1>8
  <2>2. ASSUME NEW k \in 1 .. n PROVE g[k] = g[k - 1] + Held(b[k].code) + 1
    <3>1. k + 1 \in 1 .. n + 1 /\ (k + 1) - 1 = k /\ k \in 0 .. n /\ k - 1 \in 0 .. n
          /\ (k - 1) + 1 = k
      BY <1>1
    <3>2. h[k + 1] = h[k] + Held(a[k + 1].code) + 1 /\ a[k + 1] = b[k]
      BY <1>3, <1>4, <3>1
    <3>3. Held(a[k + 1].code) \in 0 .. 2
      <4>1. k + 1 \in 1 .. Len(a)
        BY <1>1, <3>1
      <4> QED BY <4>1, HeldNat
    <3>5. h[k] \in Nat /\ h[k + 1] \in Nat
      <4>1. k \in 0 .. n + 1 /\ k + 1 \in 0 .. n + 1
        BY <1>1
      <4> QED BY <1>3, <4>1
    <3>4. g[k] = h[k + 1] - 1 /\ g[k - 1] = h[k] - 1
      BY <1>8, <3>1
    <3>6. Held(b[k].code) = Held(a[k + 1].code)
      BY <3>2
    <3>7. h[k + 1] - 1 = h[k] - 1 + Held(a[k + 1].code) + 1
      BY SMTT(30), <3>2, <3>3, <3>5
    <3> QED BY <3>4, <3>6, <3>7
  <2>3. ASSUME NEW j \in 0 .. n, NEW k \in 0 .. n, j < k PROVE g[j] < g[k]
    <3>1. h[j + 1] < h[k + 1]
      BY <1>1, <1>3, <2>3
    <3> QED BY <1>7, <1>8, <3>1
  <2> QED BY <1>8, <2>1, <2>2, <2>3 DEF Extents, n, l
<1>11. FramesAt(g, t, b)
  <2>1. ASSUME NEW k \in 1 .. n PROVE B!IsFrame(t[g[k]])
    <3>1. k + 1 \in 1 .. Len(a)
      BY <1>1
    <3>2. B!IsFrame(s[h[k + 1]])
      BY <3>1 DEF Frames, FramesAt
    <3> QED BY <1>9, <3>2
  <2>2. ASSUME NEW i \in 1 .. l, B!IsFrame(t[i]) PROVE \E k \in 1 .. n : g[k] = i
    <3>1. B!IsFrame(s[i + 1]) /\ i + 1 \in 1 .. Len(s)
      BY <1>1, <1>4, <2>2
    <3>2. PICK k \in 1 .. n + 1 : h[k] = i + 1
      BY <1>1, <3>1 DEF Frames, FramesAt
    <3>3. k # 1
      BY <1>1, <1>5, <3>2
    <3>4. k - 1 \in 1 .. n /\ (k - 1) + 1 = k
      BY <1>1, <3>3
    <3>5. g[k - 1] = i
      BY SMTT(30), <1>1, <1>8, <3>2, <3>4
    <3> QED BY <3>4, <3>5
  <2> QED BY <2>1, <2>2 DEF FramesAt, n, l
<1>12. IrqOff(g, t, b, s[1] = "frame_on")
  <2> SUFFICES ASSUME NEW k \in 1 .. n, B!Irq(b[k])
               PROVE  s[1] # "frame_on" /\ \A j \in 1 .. k - 1 : t[g[j]] = "frame_off"
    BY DEF IrqOff, n
  <2>1. B!Irq(a[k + 1]) /\ k + 1 \in 1 .. Len(a) /\ (k + 1) - 1 = k
    BY <1>1, <1>4
  <2>2. \A j \in 1 .. k : s[h[j]] = "frame_off"
    BY <2>1 DEF Frames, IrqOff
  <2>3. s[1] = "frame_off"
    <3>1. 1 \in 1 .. k
      BY <1>1
    <3> QED BY <1>5, <2>2, <3>1
  <2>4. ASSUME NEW j \in 1 .. k - 1 PROVE t[g[j]] = "frame_off"
    <3>1. j \in 1 .. n /\ j + 1 \in 1 .. k
      BY <1>1
    <3> QED BY <1>9, <2>2, <3>1
  <2> QED BY <2>3, <2>4
<1>13. n = 0 => Len(s) = 1
  <2> SUFFICES ASSUME n = 0 PROVE Len(s) = 1
    OBVIOUS
  <2>1. n + 1 = 1 /\ h[n + 1] = Len(s)
    BY <1>1, <1>3
  <2> QED BY <1>5, <2>1
<1> QED BY <1>6, <1>10, <1>11, <1>12, <1>13 DEF Frames, n

\* One element more.
OnTop(x, s) == <<x>> \o s

LEMMA OnTopSeq ==
  ASSUME NEW S, NEW s \in Seq(S), NEW x \in S
  PROVE  OnTop(x, s) \in Seq(S) /\ OnTop(x, s)[1] = x /\ Above(OnTop(x, s), s, 1)
<1> DEFINE t == <<x>> \o s
<1>1. t \in Seq(S) /\ Len(t) = Len(s) + 1 /\ t[1] = x
  OBVIOUS
<1>2. \A i \in 1 .. Len(s) : t[i + 1] = s[i]
  OBVIOUS
<1> QED BY <1>1, <1>2 DEF Above, OnTop

\* What the CPU pushes.
ErrorCode(d) == IF d = 2 THEN <<"ec">> ELSE <<>>
Flag(f) == IF f THEN "frame_on" ELSE "frame_off"
Pushed(d, f, s) == ErrorCode(d) \o <<Flag(f)>> \o s

LEMMA PushedFrame ==
  ASSUME NEW s \in Seq(Items), NEW f \in BOOLEAN, NEW d \in 1 .. 2
  PROVE  /\ Pushed(d, f, s) \in Seq(Items) /\ Above(Pushed(d, f, s), s, d)
         /\ Pushed(d, f, s)[d] = Flag(f) /\ (d = 2 => ~B!IsFrame(Pushed(d, f, s)[1]))
<1>1. Flag(f) \in Items
  BY DEF Items, Flag
<1>2. CASE d = 1
  <2>1. <<>> \o <<Flag(f)>> = <<Flag(f)>>
    BY <1>1, EmptySeq
  <2>2. Pushed(d, f, s) = OnTop(Flag(f), s)
    BY <1>2, <2>1 DEF ErrorCode, Pushed, OnTop
  <2> QED BY <1>1, <1>2, <2>2, OnTopSeq
<1>3. CASE d = 2
  <2> DEFINE t == (<<"ec">> \o <<Flag(f)>>) \o s
  <2>1. t = Pushed(d, f, s)
    BY <1>3 DEF Pushed, ErrorCode
  <2>2. "ec" \in Items
    BY DEF Items
  <2>3. /\ t \in Seq(Items) /\ Len(t) = Len(s) + 2 /\ t[1] = "ec" /\ t[2] = Flag(f)
        /\ \A i \in 1 .. Len(s) : t[i + 2] = s[i]
    BY <1>1, <2>2
  <2> HIDE DEF t
  <2>4. ~B!IsFrame(t[1])
    BY <2>3 DEF B!IsFrame
  <2>5. Above(t, s, 2)
    BY <2>3 DEF Above
  <2> QED BY <1>3, <2>1, <2>3, <2>4, <2>5
<1> QED BY <1>2, <1>3

\* The gate of v fits: its handler holds the error code that is pushed.
Fits(v, d) ==
  /\ b_pc \notin Early /\ v \in 0 .. 47 /\ d \in 1 .. 2 /\ idt[v + 1].trap \in BOOLEAN
  /\ B!Code(idt[v + 1].handler, v) \in Codes /\ Held(B!Code(idt[v + 1].handler, v)) = d - 1
  /\ v >= 32 => ~idt[v + 1].trap

\* Going through it.
LEMMA Entering ==
  ASSUME Stage2IInv, NEW v, NEW d, Fits(v, d), B!Enter(v, ErrorCode(d)), UNCHANGED B!program
  PROVE  /\ Framed' /\ Bottom' /\ Table'
         /\ iflag' \in BOOLEAN /\ stack' \in Seq(Items) /\ active' \in Seq(Handlers)
         /\ active'[1].vec = v /\ active'[1].code = B!Code(idt[v + 1].handler, v)
         /\ Above(active', active, 1)
<1> DEFINE x == [vec |-> v, code |-> B!Code(idt[v + 1].handler, v)]
<1>1. /\ iflag \in BOOLEAN /\ stack \in Seq(Items) /\ active \in Seq(Handlers)
      /\ Bottom /\ Table
  BY DEF Stage2IInv, Typed
<1>2. PICK h : Frames(h, stack, active, iflag)
  BY DEF Stage2IInv, Framed
<1>3. /\ stack' = Pushed(d, iflag, stack)
      /\ active' = OnTop(x, active) /\ iflag' = (iflag /\ idt[v + 1].trap)
  BY DEF B!Enter, Pushed, OnTop, Flag
<1>12. d \in 1 .. 2 /\ v \in 0 .. 47
  BY DEF Fits
<1>4. /\ stack' \in Seq(Items) /\ Above(stack', stack, d)
      /\ stack'[d] = Flag(iflag)
      /\ d = 2 => ~B!IsFrame(stack'[1])
  BY <1>1, <1>3, <1>12, PushedFrame
<1>5. x \in Handlers
  BY DEF Handlers, Fits
<1>6. x.vec = v /\ x.code = B!Code(idt[v + 1].handler, v)
  OBVIOUS
<1> HIDE DEF x
<1>7. active' \in Seq(Handlers) /\ active'[1] = x /\ Above(active', active, 1)
  BY <1>1, <1>3, <1>5, OnTopSeq
<1>8. iflag' \in BOOLEAN /\ (iflag' => iflag) /\ (B!Irq(x) => ~iflag')
  <2>1. iflag' = (iflag /\ idt[v + 1].trap)
    BY <1>3
  <2>2. B!Irq(x) => v >= 32
    BY <1>6 DEF B!Irq
  <2> QED BY <1>1, <2>1, <2>2 DEF Fits
<1>9. Framed'
  <2>1. Held(active'[1].code) = d - 1
    BY <1>6, <1>7 DEF Fits
  <2>2. \E g : Frames(g, stack', active', iflag')
    BY ZenonT(60), <1>1, <1>12, <1>2, <1>4, <1>7, <1>8, <2>1, EnterFrames DEF Flag
  <2> QED BY <2>2 DEF Framed
<1>10. Bottom'
  <2>4. d \in Nat /\ b_pc \notin Early
    BY <1>12 DEF Fits
  <2>1. Len(active') = Len(active) + 1 /\ Len(stack') = Len(stack) + d /\ Len(active) \in Nat
    BY <1>1, <1>4, <1>7 DEF Above
  <2>2. active' # <<>> /\ (On' <=> On) /\ b_pc' = b_pc
    BY <1>3, <2>1 DEF On, B!program
  <2>3. stack'[Len(stack')] = (IF On THEN "frame_on" ELSE "frame_off")
    <3>1. CASE active = <<>>
      <4>1. Len(stack) = 0 /\ (iflag <=> On)
        BY <3>1, Quiet, EmptySeq
      <4>2. Len(stack') = d
        BY <2>1, <2>4, <4>1
      <4> QED BY <1>4, <4>1, <4>2 DEF Flag
    <3>2. CASE active # <<>>
      <4>1. stack[Len(stack)] = (IF On THEN "frame_on" ELSE "frame_off")
        BY <1>1, <3>2 DEF Bottom
      <4>2. Len(stack) \in 1 .. Len(stack)
        <5>1. Len(active) \in 1 .. Len(active)
          BY <1>1, <3>2
        <5>2. h[Len(active)] \in 1 .. Len(stack) /\ h[Len(active)] = Len(stack)
          BY <1>1, <1>2, <5>1, FrameRange DEF Frames, Extents
        <5> QED BY <5>2
      <4>3. stack'[Len(stack) + d] = stack[Len(stack)]
        BY <1>4, <4>2 DEF Above
      <4> QED BY <2>1, <4>1, <4>3
    <3> QED BY <3>1, <3>2
  <2> QED BY <2>2, <2>3, <2>4 DEF Bottom
<1>11. Table'
  BY <1>1 DEF Table, B!program
<1> QED BY <1>4, <1>6, <1>7, <1>8, <1>9, <1>10, <1>11

\* While interrupts are on no line is in service and no PIC's handler runs.
LEMMA Open1 ==
  ASSUME Stage2IInv, iflag
  PROVE  /\ b_pc \notin Early \cup {"remap"} /\ inservice = {}
         /\ \A k \in 1 .. Len(active) : ~B!Irq(active[k]) /\ active[k].code \in Plain \cup TakesCode
<1>1. b_pc \notin Early
  BY DEF Stage2IInv, Bottom, On
<1>2. \A k \in 1 .. Len(active) : ~B!Irq(active[k])
  BY DEF Stage2IInv, Framed, Frames, IrqOff
<1>3. \A k \in 1 .. Len(active) : active[k].code \in Plain \cup TakesCode
  BY <1>2 DEF Stage2IInv, Owed
<1>4. \A k \in 1 .. Len(active) : active[k].code \notin OwesMaster \cup OwesBoth
  BY <1>3, CodesApart
<1>5. inservice = {}
  BY <1>4 DEF Stage2IInv, Owed
<1> QED BY <1>1, <1>2, <1>3, <1>5 DEF Early

\* A PIC's interrupt: what its handler still acknowledges is all there is.
LEMMA LineEnters ==
  ASSUME B!BootAssumption, Stage2IInv, iflag, NEW v \in 32 .. 47, B!Enter(v, <<>>),
         UNCHANGED <<B!program, B!data, base>>, irr' \subseteq Lines,
         v >= 40 => \E l \in 8 .. 15 : inservice' \subseteq {l, 2},
         v < 40 => \E l \in 0 .. 7 : inservice' \subseteq {l}
  PROVE  Stage2IInv'
<1> DEFINE g == idt[v + 1]
           c == B!Code(g.handler, v)
<1>1. /\ b_pc \notin Early /\ inservice = {}
      /\ \A k \in 1 .. Len(active) : ~B!Irq(active[k]) /\ active[k].code \in Plain \cup TakesCode
  BY Open1
<1>2. g = B!UseDummy(v) \/ g = B!MapGate(v)
  <2>1. di = 256 /\ v \in 0 .. di - 1
    BY <1>1 DEF Stage2IInv, Table, Early
  <2> QED BY <2>1 DEF Stage2IInv, Table
<1>3. /\ g.trap = FALSE /\ c[1] = "pusha"
      /\ v >= 40 => c \in OwesBoth
      /\ v < 40 => c \in OwesMaster
  BY <1>2, LineCode
<1>4. v \in 0 .. 47 /\ v >= 32 /\ (v >= 40 \/ v < 40)
  OBVIOUS
<1> HIDE DEF g, c
<1>5. c \in Codes /\ c \notin TakesCode /\ (c \in OwesBoth => c \notin OwesMaster)
      /\ (v < 40 => c \notin OwesBoth) /\ (v >= 40 => c \notin OwesMaster)
  BY <1>3, <1>4, CodesApart DEF Codes
<1>6. Held(c) = 0
  BY <1>3, <1>5 DEF Held
<1>7. /\ Framed' /\ Bottom' /\ Table'
      /\ iflag' \in BOOLEAN /\ stack' \in Seq(Items) /\ active' \in Seq(Handlers)
      /\ active'[1].vec = v /\ active'[1].code = c
      /\ Above(active', active, 1)
  <2>1. B!Enter(v, ErrorCode(1))
    BY DEF ErrorCode
  <2>2. Fits(v, 1) /\ UNCHANGED B!program
    <3>1. g.trap \in BOOLEAN /\ ~g.trap
      BY <1>3
    <3> QED BY <1>1, <1>4, <1>5, <1>6, <3>1 DEF Fits, g, c, Early
  <2> QED BY <2>1, <2>2, Entering DEF g, c
<1>8. /\ Len(active') = Len(active) + 1 /\ Len(active) \in Nat
      /\ \A k \in 2 .. Len(active') : ~B!Irq(active'[k]) /\ active'[k].code \in Plain \cup TakesCode
  <2>1. Len(active') = Len(active) + 1 /\ Len(active) \in Nat
    BY <1>7 DEF Above, Stage2IInv, Typed
  <2> SUFFICES ASSUME NEW k \in 2 .. Len(active')
               PROVE  ~B!Irq(active'[k]) /\ active'[k].code \in Plain \cup TakesCode
    BY <2>1
  <2>2. k - 1 \in 1 .. Len(active) /\ (k - 1) + 1 = k
    BY <2>1
  <2>3. active'[k] = active[k - 1]
    BY <1>7, <2>2 DEF Above
  <2> QED BY <1>1, <2>2, <2>3
<1>9. B!Irq(active'[1])
  BY <1>7 DEF B!Irq
<1>10. \A k \in 1 .. Len(active') : k = 1 \/ k \in 2 .. Len(active')
  BY <1>8
<1>11. OneIrq'
  BY <1>8, <1>10 DEF OneIrq
<1>12. Owed'
  <2>1. \A k \in 1 .. Len(active') : ~B!Irq(active'[k]) => active'[k].code \in Plain \cup TakesCode
    BY <1>8, <1>9, <1>10
  <2>2. \A k \in 1 .. Len(active') : active'[k].code \in OwesMaster \cup OwesBoth => k = 1
    BY <1>8, <1>10, CodesApart
  <2>3. 1 \in 1 .. Len(active') /\ c \in OwesMaster \cup OwesBoth
    BY <1>3, <1>4, <1>8
  <2>4. \A k \in 1 .. Len(active') : active'[k].code \in OwesMaster =>
          \E l \in 0 .. 7 : inservice' \subseteq {l}
    BY <1>4, <1>5, <1>7, <2>2
  <2>5. \A k \in 1 .. Len(active') : active'[k].code \in OwesBoth =>
          \E l \in 8 .. 15 : inservice' \subseteq {l, 2}
    BY <1>4, <1>5, <1>7, <2>2
  <2> QED BY <1>7, <2>1, <2>3, <2>4, <2>5 DEF Owed
<1>13. inservice' \subseteq 0 .. 15
  BY <1>4
<1>14. Typed'
  BY <1>7, <1>13 DEF Stage2IInv, Typed, B!program, B!data
<1> QED BY <1>7, <1>11, <1>12, <1>14 DEF Stage2IInv

\* A handler of an exception has nothing to acknowledge.
LEMMA EnteredPlain ==
  ASSUME Stage2IInv, Above(active', active, 1), inservice' = inservice, ~B!Irq(active'[1]),
         active'[1].code \in Plain \cup TakesCode
  PROVE  OneIrq' /\ Owed'
<1> DEFINE n == Len(active)
<1>1. n \in Nat /\ Len(active') = n + 1 /\ \A k \in 1 .. n : active'[k + 1] = active[k]
  BY DEF Stage2IInv, Typed, Above
<1>2. active'[1].code \notin OwesMaster \cup OwesBoth
  BY CodesApart
<1> HIDE DEF n
<1>3. \A k \in 1 .. n + 1 : k = 1 \/ (k - 1 \in 1 .. n /\ active'[k] = active[k - 1])
  <2> SUFFICES ASSUME NEW k \in 1 .. n + 1, k # 1
               PROVE  k - 1 \in 1 .. n /\ active'[k] = active[k - 1]
    OBVIOUS
  <2>1. k - 1 \in 1 .. n /\ (k - 1) + 1 = k
    BY <1>1
  <2> QED BY <1>1, <2>1
<1>4. OneIrq'
  <2> SUFFICES ASSUME NEW j \in 1 .. n + 1, NEW k \in 1 .. n + 1,
                      B!Irq(active'[j]), B!Irq(active'[k])
               PROVE  j = k
    BY <1>1 DEF OneIrq
  <2>1. j # 1 /\ k # 1
    OBVIOUS
  <2>2. j - 1 \in 1 .. n /\ B!Irq(active[j - 1]) /\ k - 1 \in 1 .. n /\ B!Irq(active[k - 1])
    BY <1>3, <2>1
  <2>3. j - 1 = k - 1
    BY <2>2 DEF Stage2IInv, OneIrq, n
  <2> QED BY <2>3
<1>5. Owed'
  <2>1. /\ \A k \in 1 .. n : ~B!Irq(active[k]) => active[k].code \in Plain \cup TakesCode
        /\ \A k \in 1 .. n : active[k].code \in OwesMaster =>
             \E l \in 0 .. 7 : inservice \subseteq {l}
        /\ \A k \in 1 .. n : active[k].code \in OwesBoth =>
             \E l \in 8 .. 15 : inservice \subseteq {l, 2}
        /\ (\A k \in 1 .. n : active[k].code \notin OwesMaster \cup OwesBoth)
             => inservice = {}
    BY DEF Stage2IInv, Owed, n
  <2>2. \A k \in 1 .. n + 1 : ~B!Irq(active'[k]) => active'[k].code \in Plain \cup TakesCode
    BY <1>3, <2>1
  <2>3. \A k \in 1 .. n + 1 : active'[k].code \in OwesMaster =>
          \E l \in 0 .. 7 : inservice' \subseteq {l}
    BY <1>2, <1>3, <2>1
  <2>4. \A k \in 1 .. n + 1 : active'[k].code \in OwesBoth =>
          \E l \in 8 .. 15 : inservice' \subseteq {l, 2}
    BY <1>2, <1>3, <2>1
  <2>5. ASSUME \A k \in 1 .. n + 1 : active'[k].code \notin OwesMaster \cup OwesBoth
        PROVE  inservice' = {}
    <3>1. ASSUME NEW k \in 1 .. n PROVE active[k].code \notin OwesMaster \cup OwesBoth
      <4>1. k + 1 \in 1 .. n + 1 /\ active'[k + 1] = active[k]
        BY <1>1
      <4> QED BY <2>5, <4>1
    <3> QED BY <2>1, <3>1
  <2> QED BY <1>1, <2>2, <2>3, <2>4, <2>5 DEF Owed
<1> QED BY <1>4, <1>5

\* A line that is raised changes the requests alone.
LEMMA RequestsAlone ==
  ASSUME Stage2IInv, UNCHANGED <<B!program, B!cpu, B!data, base, inservice>>, irr' \subseteq Lines
  PROVE  Stage2IInv'
<1>1. /\ UNCHANGED <<b_pc, di, esi, idt, iflag, stack, active, bss, registered, base, inservice>>
  BY DEF B!program, B!cpu, B!data
<1>2. Table' /\ Typed'
  BY <1>1 DEF Stage2IInv, Table, Typed
<1>3. Bottom' /\ OneIrq' /\ Owed' /\ Framed'
  BY <1>1 DEF Stage2IInv, Bottom, On, OneIrq, Owed, Framed
<1> QED BY <1>2, <1>3 DEF Stage2IInv

LEMMA DeliverKeeps ==
  ASSUME B!BootAssumption, Stage2IInv, NEW l \in Lines, B!Deliver(l) \/ B!Spurious(l)
  PROVE  Stage2IInv'
<1>1. /\ iflag /\ UNCHANGED <<B!program, B!data, base>> /\ irr' \subseteq Lines
  BY DEF B!Deliver, B!Spurious, Stage2IInv, Typed
<1>2. l \in 0 .. 15 /\ l # 2
  BY DEF B!BootAssumption
<1>3. base[1] = 32 /\ base[2] = 40 /\ inservice = {}
  BY <1>1, Open1 DEF Stage2IInv, Typed
<1>4. CASE B!Deliver(l)
  <2>1. CASE l < 8
    <3>1. B!Vector(l) = 32 + l /\ B!MasterLine(l) = l
      BY <1>2, <1>3, <2>1 DEF B!Vector, B!MasterLine
    <3>2. B!Enter(32 + l, <<>>) /\ inservice' = {l}
      BY <1>3, <1>4, <3>1 DEF B!Deliver
    <3>3. 32 + l \in 32 .. 47 /\ ~(32 + l >= 40) /\ l \in 0 .. 7
      BY <1>2, <2>1
    <3> QED BY <1>1, <3>2, <3>3, LineEnters
  <2>2. CASE l >= 8
    <3>1. B!Vector(l) = 32 + l /\ B!MasterLine(l) = 2
      BY <1>2, <1>3, <2>2 DEF B!Vector, B!MasterLine
    <3>2. B!Enter(32 + l, <<>>) /\ inservice' = {l, 2}
      BY <1>3, <1>4, <3>1 DEF B!Deliver
    <3>3. 32 + l \in 32 .. 47 /\ ~(32 + l < 40) /\ l \in 8 .. 15
      BY <1>2, <2>2
    <3> QED BY <1>1, <3>2, <3>3, LineEnters
  <2> QED BY <1>2, <2>1, <2>2
<1>5. CASE B!Spurious(l)
  <2>1. CASE l < 8
    <3>1. B!Enter(39, <<>>) /\ inservice' = {}
      BY <1>2, <1>3, <1>5, <2>1 DEF B!Spurious
    <3>2. 39 \in 32 .. 47 /\ ~(39 >= 40) /\ 0 \in 0 .. 7 /\ inservice' \subseteq {0}
      BY <3>1
    <3> QED BY <1>1, <3>1, <3>2, LineEnters
  <2>2. CASE l >= 8
    <3>1. B!Enter(47, <<>>) /\ inservice' = {2}
      BY <1>2, <1>3, <1>5, <2>2 DEF B!Spurious
    <3>2. 47 \in 32 .. 47 /\ ~(47 < 40) /\ 8 \in 8 .. 15 /\ inservice' \subseteq {8, 2}
      BY <3>1
    <3> QED BY <1>1, <3>1, <3>2, LineEnters
  <2> QED BY <1>2, <2>1, <2>2
<1> QED BY <1>4, <1>5

\* An exception, or an NMI.
LEMMA ExceptionKeeps ==
  ASSUME B!BootAssumption, Stage2IInv, NEW v \in Exceptions, B!Exception(v)
  PROVE  Stage2IInv'
<1> DEFINE g == idt[v + 1]
           c == B!Code(g.handler, v)
           d == IF v \in B!WithCode THEN 2 ELSE 1
<1>1. /\ UNCHANGED <<B!program, B!data, B!pic>> /\ b_pc \notin Early /\ B!Enter(v, ErrorCode(d))
  BY DEF B!Exception, Early, ErrorCode
<1>2. v \in 0 .. 31 /\ v \in 0 .. 47 /\ v \in 0 .. 255 /\ ~(v >= 32)
  BY DEF B!BootAssumption
<1>3. g = B!UseDummy(v) \/ (g = B!MapGate(v) /\ v <= 21)
  <2>1. di = 256 /\ v \in 0 .. di - 1
    BY <1>1, <1>2 DEF Stage2IInv, Table, Early
  <2>2. \/ idt[v + 1] = B!UseDummy(v)
        \/ idt[v + 1] = B!MapGate(v) /\ v \in (0 .. 21) \cup (32 .. 47)
    BY ZenonT(60), <2>1 DEF Stage2IInv, Table
  <2> QED BY <1>2, <2>2
<1>4. IF v \in B!WithCode THEN c \in TakesCode /\ c[1] \in {"pusha", "pop"}
                        ELSE c \in Plain /\ c[1] \in {"pusha", "iret"}
  BY <1>2, <1>3, ExceptionCode
<1>5. g.trap \in BOOLEAN
  BY <1>2, <1>3, GateTypes DEF Gates
<1>6. c \in Plain \cup TakesCode /\ c \in Codes /\ Held(c) = d - 1 /\ d \in 1 .. 2
  <2>1. v \notin B!WithCode => c \notin TakesCode
    BY <1>4, CodesApart
  <2> QED BY <1>4, <2>1 DEF Held, Codes
<1>7. Fits(v, d)
  BY <1>1, <1>2, <1>5, <1>6 DEF Fits, Early
<1> HIDE DEF g, c, d
<1>8. /\ Framed' /\ Bottom' /\ Table'
      /\ iflag' \in BOOLEAN /\ stack' \in Seq(Items) /\ active' \in Seq(Handlers)
      /\ active'[1].vec = v /\ active'[1].code = c
      /\ Above(active', active, 1)
  BY <1>1, <1>7, Entering DEF g, c
<1>9. Typed'
  BY <1>1, <1>8 DEF Stage2IInv, Typed, B!program, B!data, B!pic
<1>10. ~B!Irq(active'[1])
  BY <1>2, <1>8 DEF B!Irq
<1>11. OneIrq' /\ Owed'
  BY <1>1, <1>6, <1>8, <1>10, EnteredPlain DEF B!pic
<1> QED BY <1>8, <1>9, <1>11 DEF Stage2IInv

LEMMA HardwareStep == B!BootAssumption /\ Stage2IInv /\ B!Hardware => Stage2IInv'
<1> SUFFICES ASSUME B!BootAssumption, Stage2IInv, B!Hardware PROVE Stage2IInv'
  OBVIOUS
<1>1. ASSUME NEW l \in Lines, B!Raise(l) PROVE Stage2IInv'
  <2>1. UNCHANGED <<B!program, B!cpu, B!data, base, inservice>> /\ irr' \subseteq Lines
    BY <1>1 DEF B!Raise, Stage2IInv, Typed
  <2> QED BY <2>1, RequestsAlone
<1>2. ASSUME NEW l \in Lines, B!Deliver(l) \/ B!Spurious(l) PROVE Stage2IInv'
  BY <1>2, DeliverKeeps
<1>3. ASSUME NEW v \in Exceptions, B!Exception(v) PROVE Stage2IInv'
  BY <1>3, ExceptionKeeps
<1> QED BY <1>1, <1>2, <1>3 DEF B!Hardware

\* The boot sector hands over whatever the BIOS has left pending.
LEMMA EntryStep == Stage2IInv /\ Entry => Stage2IInv'
<1> SUFFICES ASSUME Stage2IInv, Entry PROVE Stage2IInv'
  OBVIOUS
<1>1. UNCHANGED <<B!program, B!cpu, B!data, base, inservice>> /\ irr' \subseteq Lines
  BY DEF Entry
<1> QED BY <1>1, RequestsAlone

-----------------------------------------------------------------------------
(* The instructions of the innermost handler                               *)

\* Above its frame there is what the innermost handler takes off.
LEMMA Inside ==
  ASSUME NEW s, NEW a \in Seq(Handlers), a # <<>>, NEW f, NEW h, Frames(h, s, a, f)
  PROVE  /\ Held(a[1].code) \in 0 .. 2 /\ Len(s) \in Nat /\ Held(a[1].code) + 1 <= Len(s)
         /\ \A i \in 1 .. Held(a[1].code) : ~B!IsFrame(s[i])
<1> DEFINE n == Len(a)
           e == Held(a[1].code)
<1>1. n \in Nat /\ n > 0
  <2>1. Len(a) > 0
    OBVIOUS
  <2> QED BY <2>1
<1>2. Len(s) \in Nat /\ \A k \in 1 .. n : h[k] \in 1 .. Len(s)
  BY FrameRange DEF Frames
<1>3. /\ h \in [0 .. n -> Nat] /\ h[0] = 0
      /\ \A k \in 1 .. n : h[k] = h[k - 1] + Held(a[k].code) + 1
      /\ \A j, k \in 0 .. n : j < k => h[j] < h[k]
  BY DEF Frames, Extents
<1>4. e \in 0 .. 2
  BY <1>1, HeldNat
<1>5. h[1] = e + 1
  <2>1. h[1] = h[1 - 1] + Held(a[1].code) + 1
    BY <1>1, <1>3
  <2> QED BY <1>3, <1>4, <2>1
<1> HIDE DEF n, e
<1>6. ASSUME NEW i \in 1 .. e, B!IsFrame(s[i]) PROVE FALSE
  <2>1. e + 1 <= Len(s) /\ i \in 1 .. Len(s)
    BY <1>1, <1>2, <1>4, <1>5
  <2>2. PICK k \in 1 .. n : h[k] = i
    BY <1>6, <2>1 DEF Frames, FramesAt, n
  <2>3. h[1] <= h[k]
    BY <1>1, <1>3, <1>5, <1>4
  <2> QED BY <1>4, <1>5, <2>2, <2>3
<1>7. 1 \in 1 .. n
  BY <1>1
<1> QED BY <1>2, <1>4, <1>5, <1>6, <1>7 DEF e

\* The handler has one instruction less; the others are left alone.
LEMMA Stepped ==
  ASSUME Stage2IInv, NEW instr, B!Next1(instr), instr # "iret"
  PROVE  LET c == active[1].code
         IN  /\ active \in Seq(Handlers) /\ active # <<>> /\ 1 \in 1 .. Len(active)
             /\ c \in Codes /\ c[1] = instr
             /\ active' \in Seq(Handlers) /\ active' # <<>> /\ Recoded(active', active)
             /\ active'[1].code = Tail(c) /\ Tail(c) \in Codes
<1> DEFINE c == active[1].code
           x == [active[1] EXCEPT !.code = Tail(@)]
<1>1. /\ active # <<>> /\ Head(c) = instr /\ active \in Seq(Handlers)
      /\ active' = [active EXCEPT ![1] = x]
  BY DEF B!Next1, Stage2IInv, Typed
<1>2. 1 \in 1 .. Len(active) /\ Len(active) \in Nat
  BY <1>1
<1>3. active[1] \in Handlers /\ c \in Codes
  BY <1>1, <1>2, HeldNat
<1>4. c[1] = instr /\ Tail(c) \in Codes
  BY <1>1, <1>3, CodeStep
<1>5. x \in Handlers /\ x.code = Tail(c) /\ x.vec = active[1].vec
  <2>1. active[1] \in [vec : 0 .. 47, code : Codes]
    BY <1>3 DEF Handlers
  <2> QED BY <1>4, <2>1 DEF Handlers
<1> HIDE DEF c, x
<1>6. /\ active' \in Seq(Handlers) /\ Len(active') = Len(active) /\ active'[1] = x
      /\ \A k \in 2 .. Len(active) : active'[k] = active[k]
  BY <1>1, <1>2, <1>5
<1>7. active' # <<>>
  BY <1>2, <1>6
<1> QED BY <1>1, <1>2, <1>3, <1>4, <1>5, <1>6, <1>7 DEF Recoded, c

\* The frames stay, and with them the program's at the bottom.
LEMMA SteppedKeeps ==
  ASSUME Stage2IInv, active # <<>>, active' \in Seq(Handlers), active' # <<>>,
         Recoded(active', active), UNCHANGED <<B!program, iflag, B!data, base, irr>>,
         stack' \in Seq(Items), inservice' \subseteq 0 .. 15,
         Held(active'[1].code) \in 0 .. 2,
         Regrown(stack', stack, Held(active[1].code), Held(active'[1].code))
  PROVE  Table' /\ Typed' /\ Bottom' /\ OneIrq' /\ Framed'
<1>1. active \in Seq(Handlers) /\ stack \in Seq(Items) /\ Bottom
  BY DEF Stage2IInv, Typed
<1>2. PICK h : Frames(h, stack, active, iflag)
  BY DEF Stage2IInv, Framed
<1>3. Framed'
  <2>1. \E g : Frames(g, stack', active', iflag)
    BY <1>1, <1>2, StepFrames
  <2>2. iflag' = iflag
    OBVIOUS
  <2> QED BY <2>1, <2>2 DEF Framed
<1>4. Bottom'
  <2> DEFINE e == Held(active[1].code)
             e2 == Held(active'[1].code)
             l == Len(stack)
  <2>1. e \in 0 .. 2 /\ e2 \in 0 .. 2 /\ l \in Nat /\ e + 1 <= l
    BY <1>1, <1>2, Inside
  <2> HIDE DEF e, e2, l
  <2>2. l \in e + 1 .. l /\ Len(stack') = l - e + e2
    BY <2>1 DEF Regrown, e, e2, l
  <2>3. stack'[Len(stack')] = stack[Len(stack)]
    BY <2>2 DEF Regrown, e, e2, l
  <2>4. (On' <=> On) /\ b_pc' = b_pc
    BY DEF On, B!program
  <2> QED BY <1>1, <2>3, <2>4 DEF Bottom
<1>5. Table' /\ Typed'
  BY DEF Stage2IInv, Table, Typed, B!program, B!data
<1>6. OneIrq'
  <2>1. \A k \in 1 .. Len(active) : k = 1 \/ k \in 2 .. Len(active)
    OBVIOUS
  <2>2. \A k \in 1 .. Len(active) : B!Irq(active'[k]) <=> B!Irq(active[k])
    BY <2>1 DEF Recoded, B!Irq
  <2> QED BY <2>2 DEF Stage2IInv, OneIrq, Recoded
<1> QED BY <1>3, <1>4, <1>5, <1>6

\* What is owed stays owed while nothing is acknowledged.
LEMMA OwedStays ==
  ASSUME Stage2IInv, Recoded(active', active), UNCHANGED inservice, 1 \in 1 .. Len(active),
         active[1].code \in Codes, active[1].code[1] \in {"pusha", "common", "popa", "pop"},
         active'[1].code = Tail(active[1].code)
  PROVE  Owed'
<1> DEFINE n == Len(active)
           c == active[1].code
           c2 == active'[1].code
<1>1. /\ c \in OwesBoth => c2 \in OwesBoth
      /\ c \in OwesMaster => c2 \in OwesMaster
      /\ c \in Plain \cup TakesCode => c2 \in Plain \cup TakesCode
      /\ c \in Plain \cup TakesCode \/ c \in OwesMaster \/ c \in OwesBoth
  BY CodeStep DEF Codes
<1>2. /\ c2 \in OwesMaster => c \in OwesMaster
      /\ c2 \in OwesBoth => c \in OwesBoth
  BY <1>1, CodesApart
<1>3. /\ \A k \in 1 .. n : ~B!Irq(active[k]) => active[k].code \in Plain \cup TakesCode
      /\ \A k \in 1 .. n : active[k].code \in OwesMaster =>
           \E l \in 0 .. 7 : inservice \subseteq {l}
      /\ \A k \in 1 .. n : active[k].code \in OwesBoth =>
           \E l \in 8 .. 15 : inservice \subseteq {l, 2}
      /\ (\A k \in 1 .. n : active[k].code \notin OwesMaster \cup OwesBoth)
           => inservice = {}
  BY DEF Stage2IInv, Owed
<1>4. \A k \in 1 .. n : \/ k = 1 /\ (B!Irq(active'[k]) <=> B!Irq(active[k]))
                        \/ k \in 2 .. n /\ active'[k] = active[k]
  <2>1. \A k \in 1 .. n : k = 1 \/ k \in 2 .. n
    OBVIOUS
  <2> QED BY <2>1 DEF Recoded, B!Irq
<1>5. 1 \in 1 .. n /\ Len(active') = n
  BY DEF Recoded
<1> HIDE DEF n, c, c2
<1>6. \A k \in 1 .. n : ~B!Irq(active'[k]) => active'[k].code \in Plain \cup TakesCode
  BY <1>1, <1>3, <1>4 DEF c, c2
<1>7. \A k \in 1 .. n : active'[k].code \in OwesMaster =>
        \E l \in 0 .. 7 : inservice' \subseteq {l}
  BY <1>2, <1>3, <1>4, <1>5 DEF c, c2
<1>8. \A k \in 1 .. n : active'[k].code \in OwesBoth =>
        \E l \in 8 .. 15 : inservice' \subseteq {l, 2}
  BY <1>2, <1>3, <1>4, <1>5 DEF c, c2
<1>9. (\A k \in 1 .. n : active'[k].code \notin OwesMaster \cup OwesBoth) => inservice' = {}
  BY <1>1, <1>3, <1>4, <1>5 DEF c, c2
<1> QED BY <1>5, <1>6, <1>7, <1>8, <1>9 DEF Owed

LEMMA PushaKeeps == Stage2IInv /\ B!Pusha => Stage2IInv'
<1> SUFFICES ASSUME Stage2IInv, B!Pusha PROVE Stage2IInv'
  OBVIOUS
<1> DEFINE c == active[1].code
<1>1. /\ B!Next1("pusha") /\ stack' = OnTop("regs", stack)
      /\ UNCHANGED <<B!program, iflag, B!data, base, irr, inservice>>
  BY DEF B!Pusha, B!pic, OnTop
<1>2. /\ active \in Seq(Handlers) /\ active # <<>> /\ 1 \in 1 .. Len(active)
      /\ c \in Codes /\ c[1] = "pusha"
      /\ active' \in Seq(Handlers) /\ active' # <<>> /\ Recoded(active', active)
      /\ active'[1].code = Tail(c) /\ Tail(c) \in Codes
  BY <1>1, Stepped
<1>3. Held(Tail(c)) = Held(c) + 1 /\ Held(Tail(c)) \in 0 .. 2 /\ Held(c) \in 0 .. 2
  BY <1>2, CodeStep
<1>4. PICK h : Frames(h, stack, active, iflag)
  BY DEF Stage2IInv, Framed
<1>5. /\ Len(stack) \in Nat /\ \A i \in 1 .. Held(c) : ~B!IsFrame(stack[i])
  BY <1>2, <1>4, Inside
<1>6. /\ stack' \in Seq(Items) /\ stack'[1] = "regs" /\ Len(stack') = Len(stack) + 1
      /\ \A i \in 1 .. Len(stack) : stack'[i + 1] = stack[i]
  <2>1. "regs" \in Items /\ stack \in Seq(Items)
    BY DEF Items, Stage2IInv, Typed
  <2> QED BY ZenonT(60), <1>1, <2>1, OnTopSeq DEF Above
<1> HIDE DEF c
<1>7. Regrown(stack', stack, Held(c), Held(Tail(c)))
  <2> DEFINE e == Held(c)
  <2>1. e \in Nat /\ Held(Tail(c)) = e + 1
    BY <1>3
  <2> HIDE DEF e
  <2>2. Len(stack') = Len(stack) - e + (e + 1)
    BY <1>5, <1>6, <2>1
  <2>3. ASSUME NEW i \in e + 1 .. Len(stack) PROVE stack'[i - e + (e + 1)] = stack[i]
    <3>1. i \in 1 .. Len(stack) /\ i - e + (e + 1) = i + 1
      BY <1>5, <2>1
    <3> QED BY <1>6, <3>1
  <2>4. ASSUME NEW i \in 1 .. e + 1 PROVE ~B!IsFrame(stack'[i])
    <3>1. CASE i = 1
      BY <1>6, <3>1 DEF B!IsFrame
    <3>2. CASE i # 1
      <4>1. i - 1 \in 1 .. e /\ i - 1 \in 1 .. Len(stack) /\ (i - 1) + 1 = i
        <5>1. e + 1 <= Len(stack)
          BY <1>2, <1>4, Inside DEF e, c
        <5> QED BY <1>5, <2>1, <3>2, <5>1
      <4>2. stack'[i] = stack[i - 1]
        BY <1>6, <4>1
      <4> QED BY <1>5, <4>1, <4>2 DEF e
    <3> QED BY <3>1, <3>2
  <2> QED BY <2>1, <2>2, <2>3, <2>4 DEF Regrown, e
<1>8. inservice' \subseteq 0 .. 15
  BY <1>1 DEF Stage2IInv, Typed
<1>9. Table' /\ Typed' /\ Bottom' /\ OneIrq' /\ Framed'
  BY <1>1, <1>2, <1>3, <1>6, <1>7, <1>8, SteppedKeeps DEF c
<1>10. Owed'
  BY <1>1, <1>2, OwedStays DEF c
<1> QED BY <1>9, <1>10 DEF Stage2IInv

LEMMA PopKeeps == Stage2IInv /\ B!Pop => Stage2IInv'
<1> SUFFICES ASSUME Stage2IInv, B!Pop PROVE Stage2IInv'
  OBVIOUS
<1> DEFINE c == active[1].code
<1>1. /\ stack' = Tail(stack) /\ UNCHANGED <<B!program, iflag, B!data, base, irr, inservice>>
      /\ \E instr \in {"popa", "pop"} : B!Next1(instr)
  BY DEF B!Pop, B!pic
<1>2. /\ active \in Seq(Handlers) /\ active # <<>> /\ 1 \in 1 .. Len(active)
      /\ c \in Codes /\ c[1] \in {"popa", "pop"}
      /\ active' \in Seq(Handlers) /\ active' # <<>> /\ Recoded(active', active)
      /\ active'[1].code = Tail(c) /\ Tail(c) \in Codes
  <2> PICK instr \in {"popa", "pop"} : B!Next1(instr)
    BY <1>1
  <2>1. instr # "iret"
    OBVIOUS
  <2> QED BY <2>1, Stepped
<1>3. Held(Tail(c)) = Held(c) - 1 /\ Held(Tail(c)) \in 0 .. 2 /\ Held(c) \in 0 .. 2
  BY <1>2, CodeStep
<1>4. PICK h : Frames(h, stack, active, iflag)
  BY DEF Stage2IInv, Framed
<1>5. /\ Len(stack) \in Nat /\ \A i \in 1 .. Held(c) : ~B!IsFrame(stack[i])
      /\ Held(c) + 1 <= Len(stack)
  BY <1>2, <1>4, Inside
<1>6. /\ stack' \in Seq(Items) /\ Len(stack') = Len(stack) - 1
      /\ \A i \in 2 .. Len(stack) : stack'[i - 1] = stack[i]
  <2>1. stack \in Seq(Items) /\ Len(stack) > 0
    BY <1>3, <1>5 DEF Stage2IInv, Typed
  <2> QED BY <1>1, <2>1
<1> HIDE DEF c
<1>7. Regrown(stack', stack, Held(c), Held(Tail(c)))
  <2> DEFINE e == Held(c)
  <2>1. e \in 0 .. 2 /\ e > 0 /\ Held(Tail(c)) = e - 1
    BY <1>3
  <2> HIDE DEF e
  <2>2. Len(stack') = Len(stack) - e + (e - 1)
    BY <1>5, <1>6, <2>1
  <2>3. ASSUME NEW i \in e + 1 .. Len(stack) PROVE stack'[i - e + (e - 1)] = stack[i]
    <3>1. i \in 2 .. Len(stack) /\ i - e + (e - 1) = i - 1
      BY <1>5, <2>1
    <3> QED BY <1>6, <3>1
  <2>4. ASSUME NEW i \in 1 .. e - 1 PROVE ~B!IsFrame(stack'[i])
    <3>1. i + 1 \in 1 .. e /\ i + 1 \in 2 .. Len(stack) /\ (i + 1) - 1 = i
      BY <1>5, <2>1 DEF e
    <3>2. stack'[i] = stack[i + 1]
      BY <1>6, <3>1
    <3> QED BY <1>5, <3>1, <3>2 DEF e
  <2> QED BY <2>1, <2>2, <2>3, <2>4 DEF Regrown, e
<1>8. inservice' \subseteq 0 .. 15
  BY <1>1 DEF Stage2IInv, Typed
<1>9. Table' /\ Typed' /\ Bottom' /\ OneIrq' /\ Framed'
  BY <1>1, <1>2, <1>3, <1>6, <1>7, <1>8, SteppedKeeps DEF c
<1>10. Owed'
  BY <1>1, <1>2, OwedStays DEF c
<1> QED BY <1>9, <1>10 DEF Stage2IInv

\* An instruction that leaves the stack alone.
LEMMA StackAlone ==
  ASSUME Stage2IInv, NEW instr \in {"common", "eoi_slave", "eoi_master"}, B!Next1(instr),
         UNCHANGED <<B!program, iflag, stack, B!data, base, irr>>, inservice' \subseteq 0 .. 15
  PROVE  Table' /\ Typed' /\ Bottom' /\ OneIrq' /\ Framed'
<1> DEFINE c == active[1].code
<1>1. /\ active \in Seq(Handlers) /\ active # <<>> /\ 1 \in 1 .. Len(active)
      /\ c \in Codes /\ c[1] = instr
      /\ active' \in Seq(Handlers) /\ active' # <<>> /\ Recoded(active', active)
      /\ active'[1].code = Tail(c) /\ Tail(c) \in Codes
  <2>1. instr # "iret"
    OBVIOUS
  <2> QED BY <2>1, Stepped
<1>2. Held(Tail(c)) = Held(c) /\ Held(c) \in 0 .. 2
  BY <1>1, CodeStep
<1>3. stack' \in Seq(Items) /\ stack' = stack
  BY DEF Stage2IInv, Typed
<1>4. PICK h : Frames(h, stack, active, iflag)
  BY DEF Stage2IInv, Framed
<1>5. Len(stack) \in Nat /\ \A i \in 1 .. Held(c) : ~B!IsFrame(stack[i])
  BY <1>1, <1>4, Inside
<1> HIDE DEF c
<1>6. Regrown(stack', stack, Held(c), Held(Tail(c)))
  <2> DEFINE e == Held(c)
  <2>1. e \in 0 .. 2 /\ Held(Tail(c)) = e
    BY <1>2
  <2> HIDE DEF e
  <2>2. Len(stack) = Len(stack) - e + e
    BY <1>5, <2>1
  <2>3. \A i \in e + 1 .. Len(stack) : i - e + e = i
    BY <1>5, <2>1
  <2> QED BY <1>3, <1>5, <2>1, <2>2, <2>3 DEF Regrown, e
<1> QED BY <1>1, <1>2, <1>3, <1>6, SteppedKeeps DEF c

LEMMA CommonIsrKeeps == Stage2IInv /\ B!CommonIsr => Stage2IInv'
<1> SUFFICES ASSUME Stage2IInv, B!CommonIsr PROVE Stage2IInv'
  OBVIOUS
<1>1. /\ B!Next1("common") /\ UNCHANGED <<B!program, iflag, stack, B!data, base, irr, inservice>>
  BY DEF B!CommonIsr, B!pic
<1>2. inservice' \subseteq 0 .. 15
  BY <1>1 DEF Stage2IInv, Typed
<1>3. Table' /\ Typed' /\ Bottom' /\ OneIrq' /\ Framed'
  BY <1>1, <1>2, StackAlone
<1>4. Owed'
  <2>1. LET c == active[1].code
        IN  /\ 1 \in 1 .. Len(active) /\ c \in Codes /\ c[1] = "common"
            /\ Recoded(active', active) /\ active'[1].code = Tail(c)
    BY <1>1, Stepped
  <2> QED BY <1>1, <2>1, OwedStays
<1> QED BY <1>3, <1>4 DEF Stage2IInv

\* A handler that owes an end of interrupt is a PIC's.
LEMMA Owing ==
  ASSUME Stage2IInv, NEW k \in 1 .. Len(active), active[k].code \in OwesMaster \cup OwesBoth
  PROVE  B!Irq(active[k])
BY CodesApart DEF Stage2IInv, Owed

\* The master's end of interrupt is the handler's last.
LEMMA EoiMasterKeeps == Stage2IInv /\ B!Eoi("eoi_master", 0 .. 7) => Stage2IInv'
<1> SUFFICES ASSUME Stage2IInv, B!Eoi("eoi_master", 0 .. 7) PROVE Stage2IInv'
  OBVIOUS
<1> DEFINE c == active[1].code
<1>1. /\ B!Next1("eoi_master") /\ UNCHANGED <<B!program, iflag, stack, B!data, base, irr>>
      /\ inservice' = inservice \ B!Highest(inservice \cap 0 .. 7)
  BY DEF B!Eoi
<1>2. inservice' \subseteq 0 .. 15
  BY <1>1 DEF Stage2IInv, Typed
<1>3. Table' /\ Typed' /\ Bottom' /\ OneIrq' /\ Framed'
  BY <1>1, <1>2, StackAlone
<1>4. /\ 1 \in 1 .. Len(active) /\ c \in Codes /\ c[1] = "eoi_master"
      /\ Recoded(active', active) /\ active'[1].code = Tail(c)
  BY <1>1, Stepped
<1>5. c \in OwesMaster /\ Tail(c) \in Plain
  <2>1. c \in OwesMaster
    BY <1>4, CodeStep
  <2> QED BY <1>4, <2>1, OwesMasterStep
<1> HIDE DEF c
<1>6. inservice' = {}
  <2> PICK l \in 0 .. 7 : inservice \subseteq {l}
    BY <1>4, <1>5 DEF Stage2IInv, Owed, c
  <2>1. inservice = {} \/ inservice = {l}
    OBVIOUS
  <2>2. inservice \cap 0 .. 7 = inservice
    BY <2>1
  <2>3. B!Highest(inservice) = inservice
    BY <2>1 DEF B!Highest
  <2> QED BY <1>1, <2>2, <2>3
<1>7. \A k \in 1 .. Len(active') : ~B!Irq(active'[k]) => active'[k].code \in Plain \cup TakesCode
  <2> SUFFICES ASSUME NEW k \in 1 .. Len(active'), ~B!Irq(active'[k])
               PROVE  active'[k].code \in Plain \cup TakesCode
    OBVIOUS
  <2>1. CASE k = 1
    BY <1>4, <1>5, <2>1
  <2>2. CASE k # 1
    <3>1. k \in 1 .. Len(active) /\ active'[k] = active[k]
      BY <1>4, <2>2 DEF Recoded
    <3> QED BY <3>1 DEF Stage2IInv, Owed
  <2> QED BY <2>1, <2>2
<1>8. Owed'
  <2>1. 0 \in 0 .. 7 /\ 8 \in 8 .. 15 /\ inservice' \subseteq {0} /\ inservice' \subseteq {8, 2}
    BY <1>6
  <2> QED BY <1>6, <1>7, <2>1 DEF Owed
<1> QED BY <1>3, <1>8 DEF Stage2IInv

\* After the slave's the master's is owed.
LEMMA EoiSlaveKeeps == Stage2IInv /\ B!Eoi("eoi_slave", 8 .. 15) => Stage2IInv'
<1> SUFFICES ASSUME Stage2IInv, B!Eoi("eoi_slave", 8 .. 15) PROVE Stage2IInv'
  OBVIOUS
<1> DEFINE c == active[1].code
<1>1. /\ B!Next1("eoi_slave") /\ UNCHANGED <<B!program, iflag, stack, B!data, base, irr>>
      /\ inservice' = inservice \ B!Highest(inservice \cap 8 .. 15)
  BY DEF B!Eoi
<1>2. inservice' \subseteq 0 .. 15
  BY <1>1 DEF Stage2IInv, Typed
<1>3. Table' /\ Typed' /\ Bottom' /\ OneIrq' /\ Framed'
  BY <1>1, <1>2, StackAlone
<1>4. /\ 1 \in 1 .. Len(active) /\ c \in Codes /\ c[1] = "eoi_slave"
      /\ Recoded(active', active) /\ active'[1].code = Tail(c)
  BY <1>1, Stepped
<1>5. c \in OwesBoth /\ Tail(c) \in OwesMaster
  <2>1. c \in OwesBoth
    BY <1>4, CodeStep
  <2> QED BY <1>4, <2>1, OwesBothStep
<1> HIDE DEF c
<1>6. inservice' \subseteq {2}
  <2> PICK l \in 8 .. 15 : inservice \subseteq {l, 2}
    BY <1>4, <1>5 DEF Stage2IInv, Owed, c
  <2>1. \/ inservice \cap (8 .. 15) = {} /\ l \notin inservice
        \/ inservice \cap (8 .. 15) = {l}
    OBVIOUS
  <2>2. B!Highest({l}) = {l}
    BY DEF B!Highest
  <2> QED BY <1>1, <2>1, <2>2
<1>7. B!Irq(active'[1])
  <2>1. B!Irq(active[1])
    BY <1>4, <1>5, Owing DEF c
  <2> QED BY <1>4, <2>1 DEF Recoded, B!Irq
<1>8. \A k \in 1 .. Len(active') : ~B!Irq(active'[k]) => active'[k].code \in Plain \cup TakesCode
  <2> SUFFICES ASSUME NEW k \in 1 .. Len(active'), ~B!Irq(active'[k])
               PROVE  active'[k].code \in Plain \cup TakesCode
    OBVIOUS
  <2>1. k # 1
    BY <1>7
  <2>2. k \in 1 .. Len(active) /\ active'[k] = active[k]
    BY <1>4, <2>1 DEF Recoded
  <2> QED BY <2>2 DEF Stage2IInv, Owed
<1>9. Owed'
  <2>1. /\ 2 \in 0 .. 7 /\ 8 \in 8 .. 15 /\ inservice' \subseteq {2} /\ inservice' \subseteq {8, 2}
        /\ 1 \in 1 .. Len(active') /\ active'[1].code \in OwesMaster
    BY <1>4, <1>5, <1>6 DEF Recoded
  <2> QED BY <1>8, <2>1 DEF Owed
<1> QED BY <1>3, <1>9 DEF Stage2IInv

LEMMA IretKeeps == Stage2IInv /\ B!Iret => Stage2IInv'
<1> SUFFICES ASSUME Stage2IInv, B!Iret PROVE Stage2IInv'
  OBVIOUS
<1> DEFINE c == active[1].code
<1>1. /\ active # <<>> /\ Head(c) = "iret" /\ active' = Tail(active) /\ stack' = Tail(stack)
      /\ iflag' = (Head(stack) = "frame_on") /\ UNCHANGED <<B!program, B!data, base, irr, inservice>>
  BY DEF B!Iret, B!pic
<1>2. active \in Seq(Handlers) /\ stack \in Seq(Items) /\ Bottom
  BY DEF Stage2IInv, Typed
<1>3. 1 \in 1 .. Len(active) /\ Len(active) \in Nat
  BY <1>1, <1>2
<1>4. c \in Codes
  BY <1>2, <1>3, HeldNat
<1>5. Held(c) = 0 /\ c \in Plain
  BY <1>1, <1>4, CodeStep
<1>6. PICK h : Frames(h, stack, active, iflag)
  BY DEF Stage2IInv, Framed
<1>7. Len(stack) \in Nat /\ 1 <= Len(stack)
  BY <1>1, <1>2, <1>5, <1>6, Inside
<1>8. /\ stack' \in Seq(Items) /\ Above(stack, stack', 1) /\ Head(stack) = stack[1]
      /\ active' \in Seq(Handlers) /\ Above(active, active', 1)
  <2>1. /\ stack' \in Seq(Items) /\ Len(stack) = Len(stack') + 1
        /\ \A i \in 1 .. Len(stack') : stack[i + 1] = stack'[i]
    BY <1>1, <1>2, <1>7
  <2>2. /\ active' \in Seq(Handlers) /\ Len(active) = Len(active') + 1
        /\ \A i \in 1 .. Len(active') : active[i + 1] = active'[i]
    BY <1>1, <1>2, <1>3
  <2>3. Head(stack) = stack[1]
    BY <1>2, <1>7
  <2> QED BY <2>1, <2>2, <2>3 DEF Above
<1> HIDE DEF c
<1>9. /\ B!IsFrame(stack[1]) /\ \E g : Frames(g, stack', active', stack[1] = "frame_on")
      /\ Len(active') = 0 => Len(stack) = 1
  BY <1>2, <1>5, <1>6, <1>8, IretFrames DEF c
<1>10. iflag' = (stack[1] = "frame_on")
  BY <1>1, <1>8
<1>11. Framed'
  BY <1>9, <1>10 DEF Framed
<1>12. Bottom'
  <2>1. b_pc \notin Early /\ stack[Len(stack)] = (IF On THEN "frame_on" ELSE "frame_off")
    BY <1>1, <1>2 DEF Bottom
  <2>2. (On' <=> On) /\ b_pc' = b_pc
    BY <1>1 DEF On, B!program
  <2>3. CASE active' = <<>>
    <3>1. Len(stack) = 1
      BY <1>9, <2>3, EmptySeq
    <3>2. iflag' <=> On
      BY <1>10, <2>1, <3>1
    <3> QED BY <2>2, <2>3, <3>2 DEF Bottom
  <2>4. CASE active' # <<>>
    <3>1. Len(stack) = Len(stack') + 1 /\ Len(stack') \in Nat
      BY <1>8 DEF Above
    <3>2. stack[Len(stack)] = stack'[Len(stack')]
      <4>1. Len(stack') > 0
        <5>1. Len(active') > 0
          BY <1>8, <2>4
        <5>2. PICK g : Frames(g, stack', active', stack[1] = "frame_on")
          BY <1>9
        <5>3. 1 \in 1 .. Len(active') /\ Len(active') \in Nat
          BY <1>8, <5>1
        <5>4. g[1] \in 1 .. Len(stack')
          BY <5>2, <5>3, FrameRange DEF Frames
        <5> QED BY <3>1, <5>4
      <4> QED BY <1>8, <3>1, <4>1 DEF Above
    <3> QED BY <2>1, <2>2, <2>4, <3>2 DEF Bottom
  <2> QED BY <2>3, <2>4
<1>13. Table' /\ Typed'
  <2>1. iflag' \in BOOLEAN
    BY <1>10
  <2> QED BY <1>1, <1>8, <2>1 DEF Stage2IInv, Table, Typed, B!program, B!data
<1>14. /\ Len(active') \in Nat /\ Len(active) = Len(active') + 1
       /\ \A k \in 1 .. Len(active') : k + 1 \in 1 .. Len(active) /\ active'[k] = active[k + 1]
  BY <1>8 DEF Above
<1>15. OneIrq'
  <2> SUFFICES ASSUME NEW j \in 1 .. Len(active'), NEW k \in 1 .. Len(active'),
                      B!Irq(active'[j]), B!Irq(active'[k])
               PROVE  j = k
    BY DEF OneIrq
  <2>1. j + 1 = k + 1
    BY <1>14 DEF Stage2IInv, OneIrq
  <2> QED BY <2>1
<1>16. Owed'
  <2>1. /\ \A k \in 1 .. Len(active) : ~B!Irq(active[k]) => active[k].code \in Plain \cup TakesCode
        /\ \A k \in 1 .. Len(active) : active[k].code \in OwesMaster =>
             \E l \in 0 .. 7 : inservice \subseteq {l}
        /\ \A k \in 1 .. Len(active) : active[k].code \in OwesBoth =>
             \E l \in 8 .. 15 : inservice \subseteq {l, 2}
        /\ (\A k \in 1 .. Len(active) : active[k].code \notin OwesMaster \cup OwesBoth)
             => inservice = {}
    BY DEF Stage2IInv, Owed
  <2>2. inservice' = inservice
    BY <1>1
  <2>3. ASSUME \A k \in 1 .. Len(active') : active'[k].code \notin OwesMaster \cup OwesBoth
        PROVE  inservice' = {}
    <3>1. ASSUME NEW k \in 1 .. Len(active) PROVE active[k].code \notin OwesMaster \cup OwesBoth
      <4>1. CASE k = 1
        BY <1>5, <4>1, CodesApart DEF c
      <4>2. CASE k # 1
        <5>1. k - 1 \in 1 .. Len(active') /\ (k - 1) + 1 = k
          BY <1>14, <4>2
        <5> QED BY <1>14, <2>3, <5>1
      <4> QED BY <4>1, <4>2
    <3> QED BY <2>1, <2>2, <3>1
  <2> QED BY <1>14, <2>1, <2>2, <2>3 DEF Owed
<1> QED BY <1>11, <1>12, <1>13, <1>15, <1>16 DEF Stage2IInv

LEMMA Stage2Step == B!BootAssumption /\ Stage2IInv /\ [BootNext]_(B!vars) => Stage2IInv'
<1> SUFFICES ASSUME B!BootAssumption, Stage2IInv, [BootNext]_(B!vars) PROVE Stage2IInv'
  OBVIOUS
<1>2. ASSUME UNCHANGED B!vars PROVE Stage2IInv'
  <2>1. UNCHANGED <<B!program, B!cpu, B!data, base, inservice>> /\ irr' \subseteq Lines
    BY <1>2 DEF B!vars, B!pic, Stage2IInv, Typed
  <2> QED BY <2>1, RequestsAlone
<1>1. B!Handler => Stage2IInv'
  BY PushaKeeps, PopKeeps, CommonIsrKeeps, EoiMasterKeeps, EoiSlaveKeeps,
                    IretKeeps DEF B!Handler
<1> QED BY <1>1, <1>2, ProgramStep, HardwareStep, EntryStep DEF BootNext

-----------------------------------------------------------------------------
(* What follows from the invariant                                         *)

LEMMA Stage2Types == Stage2IInv => B!TypeOK
<1> SUFFICES ASSUME Stage2IInv PROVE B!TypeOK
  OBVIOUS
<1>1. \A k \in 1 .. Len(stack) : B!IsFrame(stack[k]) \/ stack[k] \in {"ec", "regs"}
  <2> SUFFICES ASSUME NEW k \in 1 .. Len(stack)
               PROVE  B!IsFrame(stack[k]) \/ stack[k] \in {"ec", "regs"}
    OBVIOUS
  <2>1. stack[k] \in Items
    BY ElementOfSeq DEF Stage2IInv, Typed
  <2> QED BY <2>1 DEF Items, B!IsFrame
<1>2. Len(B!Generated) = 37
  BY DEF B!Generated
<1>3. /\ di \in 0 .. 256 /\ esi \in 1 .. Len(B!Generated) + 1 /\ Len(idt) = di
  BY <1>2 DEF Stage2IInv, Table
<1> QED BY <1>1, <1>3 DEF Stage2IInv, Typed, B!TypeOK

\* There are as many frames on the stack as handlers.
LEMMA CountFrames ==
  ASSUME NEW s, NEW a \in Seq(Handlers), NEW f, NEW h, Frames(h, s, a, f)
  PROVE  Cardinality({i \in 1 .. Len(s) : B!IsFrame(s[i])}) = Len(a)
<1> DEFINE n == Len(a)
           S == {i \in 1 .. Len(s) : B!IsFrame(s[i])}
<1>1. n \in Nat /\ \A k \in 1 .. n : h[k] \in 1 .. Len(s) /\ B!IsFrame(s[h[k]])
  BY FrameRange DEF Frames, FramesAt
<1>2. \A i \in S : \E k \in 1 .. n : h[k] = i
  BY DEF Frames, FramesAt
<1>3. \A j, k \in 1 .. n : j < k => h[j] < h[k]
  BY <1>1 DEF Frames, Extents
<1> DEFINE b == [k \in 1 .. n |-> h[k]]
<1>4. b \in [1 .. n -> S]
  BY <1>1
<1> HIDE DEF n
<1>5. b \in Injection(1 .. n, S)
  <2> SUFFICES ASSUME NEW j \in 1 .. n, NEW k \in 1 .. n, b[j] = b[k] PROVE j = k
    BY <1>4 DEF Injection, IsInjective
  <2>1. h[j] = h[k] /\ h[j] \in Nat
    BY <1>1
  <2>2. ~(j < k) /\ ~(k < j)
    BY <1>3, <2>1
  <2> QED BY <1>1, <2>2
<1>6. b \in Surjection(1 .. n, S)
  <2> SUFFICES ASSUME NEW i \in S PROVE \E k \in 1 .. n : b[k] = i
    BY <1>4 DEF Surjection
  <2> QED BY <1>2
<1>7. ExistsBijection(1 .. n, S)
  BY <1>5, <1>6 DEF ExistsBijection, Bijection
<1>8. IsFiniteSet(1 .. n) /\ Cardinality(1 .. n) = n
  BY <1>1, FS_Interval
<1> HIDE DEF S, b
<1>9. Cardinality(S) = n
  BY <1>7, <1>8, FS_Bijection
<1> QED BY <1>9 DEF S, n

LEMMA Stage2Balanced == Stage2IInv => B!StackBalanced
<1> SUFFICES ASSUME Stage2IInv PROVE B!StackBalanced
  OBVIOUS
<1>1. active \in Seq(Handlers)
  BY DEF Stage2IInv, Typed
<1>2. PICK h : Frames(h, stack, active, iflag)
  BY DEF Stage2IInv, Framed
<1>3. Cardinality({k \in 1 .. Len(stack) : B!IsFrame(stack[k])}) = Len(active)
  BY <1>1, <1>2, CountFrames
<1>4. ASSUME active # <<>>, Head(active[1].code) = "iret" PROVE B!IsFrame(stack[1])
  <2>1. 1 \in 1 .. Len(active)
    BY <1>1, <1>4
  <2>2. active[1].code \in Codes
    BY <1>1, <2>1, HeldNat
  <2>3. Held(active[1].code) = 0
    BY <1>4, <2>2, CodeStep
  <2>4. h[1] = 1
    <3>1. h[1] = h[1 - 1] + Held(active[1].code) + 1 /\ h[0] = 0
      BY <1>2, <2>1 DEF Frames, Extents
    <3> QED BY <2>3, <3>1
  <2> QED BY <1>2, <2>1, <2>4 DEF Frames, FramesAt
<1>5. active = <<>> => stack = <<>>
  BY Quiet
<1> QED BY <1>3, <1>4, <1>5, SameCardinality DEF B!StackBalanced

LEMMA Acknowledged == Stage2IInv => B!AcknowledgedOnReturn
BY Quiet DEF B!AcknowledgedOnReturn, On, Early

LEMMA OneAtATime == Stage2IInv => B!IrqsDoNotNest
<1> SUFFICES ASSUME Stage2IInv PROVE B!IrqsDoNotNest
  OBVIOUS
<1> DEFINE S == {k \in 1 .. Len(active) : B!Irq(active[k])}
<1>1. \A j, k \in S : j = k
  BY DEF Stage2IInv, OneIrq
<1> HIDE DEF S
<1>2. ASSUME S = {} PROVE Cardinality(S) <= 1
  BY <1>2, FS_EmptySet
<1>3. ASSUME S # {} PROVE Cardinality(S) <= 1
  <2>1. PICK k : S = {k}
    BY <1>1, <1>3
  <2> QED BY <2>1, FS_Singleton
<1>4. Cardinality(S) <= 1
  BY <1>2, <1>3
<1> QED BY <1>4, SameCardinality DEF B!IrqsDoNotNest, S

-----------------------------------------------------------------------------
(* Stage 2 behind the loader                                               *)

\* A step of the whole system is one of stage 2, the jump, which finds what
\* requests the BIOS has left, or none for stage 2.
LEMMA Stage2Steps == [StartupNext]_allVars => [BootNext]_(B!vars)
<1> SUFFICES ASSUME [StartupNext]_allVars PROVE [BootNext]_(B!vars)
  OBVIOUS
<1>1. ASSUME UNCHANGED stage2 PROVE UNCHANGED B!vars
  BY <1>1 DEF stage2, B!vars, B!program, B!cpu, B!data, B!pic, B!counters
<1>2. CASE Loads
  BY <1>1, <1>2 DEF Loads
<1>3. CASE Enters
  <2>1. Entry
    BY <1>3 DEF Enters, Entry, B!program, B!cpu, B!data, B!counters
  <2> QED BY <2>1 DEF BootNext
<1>4. CASE Goes \/ Handles \/ Happens
  BY <1>4 DEF Goes, Handles, Happens, BootNext
<1>5. CASE UNCHANGED allVars
  BY <1>1, <1>5 DEF allVars
<1> QED BY <1>2, <1>3, <1>4, <1>5 DEF StartupNext

LEMMA Stage2Invariance == StartupSpec => []Stage2IInv
<1>1. StartupInit => Stage2IInv
  BY Stage2InitIInv DEF StartupInit
<1>2. B!BootAssumption
  BY StartupAssumption
<1>3. Stage2IInv /\ [StartupNext]_allVars => Stage2IInv'
  BY <1>2, Stage2Steps, Stage2Step
<1> QED BY <1>1, <1>3, PTL DEF StartupSpec

\* Whatever interrupts, exceptions and NMIs nest in each other, and however
\* many, every handler's iret finds the frame of its own interrupt, the
\* program gets its stack back, and no line waits for an end of interrupt.
THEOREM HandlersBalanced == StartupSpec => []HandlersRestore
<1>1. Stage2IInv => HandlersRestore
  BY Stage2Balanced, Acknowledged DEF HandlersRestore
<1> QED BY <1>1, Stage2Invariance, PTL

\* Of the handlers under way at most one serves an interrupt of the PICs, for
\* every set of lines, of registered handlers and of exceptions.
THEOREM OneIrqAtATime == StartupSpec => []IrqsDoNotNest
<1>1. Stage2IInv => IrqsDoNotNest
  BY OneAtATime DEF IrqsDoNotNest
<1> QED BY <1>1, Stage2Invariance, PTL

\* Before the jump, and when the loader hangs, stage 2 has not moved.
Untouched == ~Entered => b_pc = "remap" /\ stack = <<>> /\ idt = <<>>

LEMMA UntouchedBefore == StartupSpec => []Untouched
<1>1. StartupInit => Untouched
  BY DEF StartupInit, B!Init, Untouched
<1>2. Untouched /\ [StartupNext]_allVars => Untouched'
  <2> SUFFICES ASSUME Untouched, [StartupNext]_allVars PROVE Untouched'
    OBVIOUS
  <2>1. CASE Loads
    <3>1. pc # "stage2" /\ UNCHANGED <<b_pc, stack, idt>>
      BY <2>1 DEF Loads, stage2, Next, ComtestOk, ComtestAgain, ComtestFails, DiskFails,
                  ResetDisk, ReadSector, Advance, JumpStage2
    <3> QED BY <3>1 DEF Untouched, Entered
  <2>2. CASE Enters
    BY <2>2 DEF Enters, JumpStage2, Untouched, Entered
  <2>3. CASE Goes \/ Handles \/ Happens
    BY <2>3 DEF Goes, Handles, Happens, vars, Untouched, Entered
  <2>4. CASE UNCHANGED allVars
    BY <2>4 DEF allVars, vars, stage2, Untouched, Entered
  <2> QED BY <2>1, <2>2, <2>3, <2>4 DEF StartupNext
<1> QED BY <1>1, <1>2, PTL DEF StartupSpec

\* Both stages keep their types, and the second is untouched before the jump.
THEOREM StartupTypes == StartupSpec => []TypesOK
<1>1. Stage2IInv => B!TypeOK
  BY Stage2Types
<1>2. TypeOK /\ B!TypeOK /\ Untouched => TypesOK
  BY DEF TypesOK, Untouched
<1> QED BY <1>1, <1>2, LoaderKept, TypeCorrect, Stage2Invariance, UntouchedBefore, PTL

-----------------------------------------------------------------------------
(***************************************************************************)
(* Nobody stays where he is: the loader, the program and every handler     *)
(* take a bounded number of steps. With the fairness of StartupFairSpec,    *)
(* which stays outside of the proofs, this is why handlers return and the  *)
(* lines behind them are served.                                           *)
(***************************************************************************)

\* The most steps the boot sector still takes.
Ahead ==
  CASE pc = "comtest" -> cx + 257
    [] pc = "reset"   -> 256
    [] pc = "read"    -> 2 * remaining + 1
    [] pc = "advance" -> 2 * remaining
    [] pc = "jump"    -> 1
    [] OTHER          -> 0
Nearer == Ahead \in Nat /\ Ahead' \in Nat /\ Ahead' < Ahead

LEMMA NearerStep == ASSUME IInv, Next PROVE Nearer
<1>1. cx \in Nat /\ size \in Sizes /\ SizeFits
  BY TriesAssumption DEF IInv, TypeOK
<1>2. CASE ComtestOk
  BY <1>1, <1>2 DEF ComtestOk, Nearer, Ahead
<1>3. CASE ComtestAgain
  BY <1>1, <1>3 DEF ComtestAgain, Nearer, Ahead
<1>4. CASE ComtestFails
  BY <1>1, <1>4 DEF ComtestFails, Nearer, Ahead
<1>5. CASE ReadSector
  <2>1. PICK k \in Nat : Read(k)
    BY <1>5 DEF IInv, ReadInv, ReadSector
  <2>2. remaining \in Nat
    BY <1>1, <2>1, SectorBound DEF Read
  <2> QED BY <1>5, <2>2 DEF ReadSector, Nearer, Ahead
<1>6. CASE DiskFails
  <2>1. CASE pc = "read"
    <3>1. PICK k \in Nat : Read(k)
      BY <2>1 DEF IInv, ReadInv
    <3>2. remaining \in Nat
      BY <1>1, <3>1, SectorBound DEF Read
    <3> QED BY <1>6, <2>1, <3>2 DEF DiskFails, Nearer, Ahead
  <2>2. CASE pc = "reset"
    BY <1>6, <2>2 DEF DiskFails, Nearer, Ahead
  <2> QED BY <1>6, <2>1, <2>2 DEF DiskFails
<1>7. CASE ResetDisk
  <2>1. remaining' \in Nat /\ remaining' <= 127
    BY <1>1, <1>7, SectorBound DEF ResetDisk
  <2> QED BY <1>7, <2>1 DEF ResetDisk, Nearer, Ahead
<1>8. CASE Advance
  <2>1. PICK k \in Nat : Read(k)
    BY <1>8 DEF IInv, ReadInv, Advance
  <2>2. remaining \in Nat /\ 1 <= remaining /\ remaining <= 127
    BY <1>1, <2>1, SectorBound DEF Read
  <2>3. remaining' = remaining - 1
    BY <1>8, <2>2, Geometry DEF Advance
  <2> QED BY <1>8, <2>2, <2>3 DEF Advance, Nearer, Ahead
<1>9. CASE JumpStage2
  BY <1>9 DEF JumpStage2, Nearer, Ahead
<1> QED BY <1>2, <1>3, <1>4, <1>5, <1>6, <1>7, <1>8, <1>9 DEF Next

\* The boot sector jumps or hangs after at most COMTEST_TRIES + 257 steps,
\* whatever the BIOS answers, for every size of stage 2 of at most 127 sectors:
\* the test of COM1 counts its tries, and no sector is read twice.
THEOREM LoaderEnds == StartupSpec /\ SizeFits => [][Loads \/ Enters => Nearer]_allVars
<1>1. IInv /\ [StartupNext]_allVars => [Loads \/ Enters => Nearer]_allVars
  BY NearerStep DEF Loads, Enters, Next
<1> QED BY <1>1, LoaderKept, Invariance, PTL DEF StartupSpec

\* How far stage 2's program is: the PICs, 256 gates, and the calls of
\* stage2_main.
Position ==
  CASE b_pc = "remap"            -> 0
    [] b_pc = "idt_loop"         -> 1 + di
    [] b_pc = "lidt"             -> 257
    [] b_pc = "sti"              -> 258
    [] b_pc = "bss"              -> 259
    [] b_pc = "init_output"      -> 260
    [] b_pc = "pit_init"         -> 261
    [] b_pc = "serial_init_port" -> 262
    [] b_pc = "init_memory"      -> 263
    [] b_pc = "uhci_init"        -> 264
    [] b_pc = "pci_init"         -> 265
    [] OTHER                     -> 266

LEMMA ProgramGoesOn ==
  ASSUME Stage2IInv, B!Program PROVE Position' = Position + 1
<1>1. CASE B!PicRemap
  BY <1>1 DEF B!PicRemap, B!Runs, Stage2IInv, Table, Position
<1>2. CASE B!SetIdtEntry
  BY <1>2 DEF B!SetIdtEntry, B!Runs, Stage2IInv, Table, Position
<1>3. CASE B!Lidt \/ B!Sti \/ B!ClearBss
  BY <1>3 DEF B!Lidt, B!Sti, B!ClearBss, B!Runs, Position
<1>4. ASSUME NEW k \in 1 .. Len(B!Calls) - 1, B!Call(k) PROVE Position' = Position + 1
  <2>1. k \in 1 .. 6 /\ b_pc = B!Calls[k] /\ b_pc' = B!Calls[k + 1]
    BY <1>4 DEF B!Call, B!Runs, B!Calls
  <2>2. \/ k = 1 /\ b_pc = "init_output" /\ b_pc' = "pit_init"
        \/ k = 2 /\ b_pc = "pit_init" /\ b_pc' = "serial_init_port"
        \/ k = 3 /\ b_pc = "serial_init_port" /\ b_pc' = "init_memory"
        \/ k = 4 /\ b_pc = "init_memory" /\ b_pc' = "uhci_init"
        \/ k = 5 /\ b_pc = "uhci_init" /\ b_pc' = "pci_init"
        \/ k = 6 /\ b_pc = "pci_init" /\ b_pc' = "loop"
    BY <2>1 DEF B!Calls
  <2> QED BY <2>2 DEF Position
<1> QED BY <1>1, <1>2, <1>3, <1>4 DEF B!Program

\* Interrupts and their handlers leave the program where it is.
LEMMA ProgramWaits ==
  ASSUME B!Handler \/ B!Hardware PROVE UNCHANGED B!program
<1>1. B!Handler => UNCHANGED B!program
  BY DEF B!Handler, B!Pusha, B!Pop, B!CommonIsr, B!Eoi, B!Iret
<1>2. B!Hardware => UNCHANGED B!program
  BY DEF B!Hardware, B!Raise, B!Deliver, B!Spurious, B!Exception
<1> QED BY <1>1, <1>2

\* Every step of the program is one towards its loop, which it reaches after
\* 266 of its own, and nothing else moves it: idt_loop makes its 256 gates and
\* no call of stage2_main is made twice or left out, whatever interrupts it.
ProgramGoes ==
  /\ Goes => Position' = Position + 1
  /\ Handles \/ Happens => Position' = Position

THEOREM ProgramMovesOn == StartupSpec => [][ProgramGoes]_allVars
<1>1. Stage2IInv /\ [StartupNext]_allVars => [ProgramGoes]_allVars
  <2> SUFFICES ASSUME Stage2IInv PROVE ProgramGoes
    OBVIOUS
  <2>1. Goes => Position' = Position + 1
    BY ProgramGoesOn DEF Goes
  <2>2. Handles \/ Happens => Position' = Position
    BY ProgramWaits DEF Handles, Happens, B!program, Position
  <2> QED BY <2>1, <2>2 DEF ProgramGoes
<1> QED BY <1>1, Stage2Invariance, PTL DEF StartupSpec

\* What is left of a handler has an end, and its instructions are the CPU's.
LEMMA CodeLength ==
  ASSUME NEW c \in Codes
  PROVE  /\ Len(c) \in 1 .. 6 /\ c[1] \in Instructions /\ c[Len(c)] = "iret"
         /\ Len(Tail(c)) = Len(c) - 1
<1>1. CASE c \in Plain
  <2>1. CASE c = <<"iret">>
    BY <2>1 DEF Instructions
  <2>2. CASE c = <<"popa", "iret">>
    BY <2>2 DEF Instructions
  <2>3. CASE c = <<"common", "popa", "iret">>
    BY <2>3 DEF Instructions
  <2>4. CASE c = <<"pusha", "common", "popa", "iret">>
    BY <2>4 DEF Instructions
  <2> QED BY <1>1, <2>1, <2>2, <2>3, <2>4 DEF Plain
<1>2. CASE c \in TakesCode
  <2>1. CASE c = <<"pop", "iret">>
    BY <2>1 DEF Instructions
  <2>2. CASE c = <<"popa", "pop", "iret">>
    BY <2>2 DEF Instructions
  <2>3. CASE c = <<"common", "popa", "pop", "iret">>
    BY <2>3 DEF Instructions
  <2>4. CASE c = <<"pusha", "common", "popa", "pop", "iret">>
    BY <2>4 DEF Instructions
  <2> QED BY <1>2, <2>1, <2>2, <2>3, <2>4 DEF TakesCode
<1>3. CASE c \in OwesMaster
  <2>1. CASE c = <<"eoi_master", "popa", "iret">>
    BY <2>1 DEF Instructions
  <2>2. CASE c = <<"common", "eoi_master", "popa", "iret">>
    BY <2>2 DEF Instructions
  <2>3. CASE c = <<"pusha", "eoi_master", "popa", "iret">>
    BY <2>3 DEF Instructions
  <2>4. CASE c = <<"pusha", "common", "eoi_master", "popa", "iret">>
    BY <2>4 DEF Instructions
  <2> QED BY <1>3, <2>1, <2>2, <2>3, <2>4 DEF OwesMaster
<1>4. CASE c \in OwesBoth
  <2>1. CASE c = <<"eoi_slave", "eoi_master", "popa", "iret">>
    BY <2>1 DEF Instructions
  <2>2. CASE c = <<"common", "eoi_slave", "eoi_master", "popa", "iret">>
    BY <2>2 DEF Instructions
  <2>3. CASE c = <<"pusha", "eoi_slave", "eoi_master", "popa", "iret">>
    BY <2>3 DEF Instructions
  <2>4. CASE c = <<"pusha", "common", "eoi_slave", "eoi_master", "popa", "iret">>
    BY <2>4 DEF Instructions
  <2> QED BY <1>4, <2>1, <2>2, <2>3, <2>4 DEF OwesBoth
<1> QED BY <1>1, <1>2, <1>3, <1>4 DEF Codes

\* The innermost handler returns to the one it interrupted, or has one of at
\* most six instructions less; nothing of an outer handler changes.
Returned ==
  /\ Len(active') = Len(active) - 1
  /\ \A k \in 1 .. Len(active') : active'[k] = active[k + 1]
Executed ==
  /\ Recoded(active', active)
  /\ Len(active[1].code) \in 2 .. 6
  /\ Len(active'[1].code) = Len(active[1].code) - 1

LEMMA HandlerGoesOn ==
  ASSUME Stage2IInv, B!Handler PROVE Returned \/ Executed
<1>1. CASE B!Iret
  <2>1. active # <<>> /\ active \in Seq(Handlers) /\ active' = Tail(active)
    BY <1>1 DEF B!Iret, Stage2IInv, Typed
  <2>2. Len(active) \in Nat /\ Len(active) > 0
    BY <2>1
  <2>3. Len(active') = Len(active) - 1
    BY <2>1, <2>2
  <2>4. \A k \in 1 .. Len(active') : active'[k] = active[k + 1]
    BY <2>1, <2>2, <2>3
  <2> QED BY <2>3, <2>4 DEF Returned
<1>2. ASSUME NEW instr, instr # "iret", B!Next1(instr) PROVE Executed
  <2> DEFINE c == active[1].code
  <2>1. /\ c \in Codes /\ Recoded(active', active)
        /\ active'[1].code = Tail(c) /\ Tail(c) \in Codes
    BY <1>2, Stepped
  <2> HIDE DEF c
  <2>2. Len(c) \in 1 .. 6 /\ Len(Tail(c)) = Len(c) - 1 /\ Len(Tail(c)) \in 1 .. 6
    BY <2>1, CodeLength
  <2>3. Len(c) \in 2 .. 6
    BY <2>2
  <2>4. Len(active'[1].code) = Len(c) - 1
    BY <2>1, <2>2, Zenon
  <2>5. Recoded(active', active)
    BY <2>1
  <2> QED BY <2>3, <2>4, <2>5, Zenon DEF Executed, c
<1>3. B!Pusha \/ B!CommonIsr => Executed
  BY <1>2 DEF B!Pusha, B!CommonIsr
<1>4. B!Pop => Executed
  BY <1>2 DEF B!Pop
<1>5. B!Eoi("eoi_master", 0 .. 7) \/ B!Eoi("eoi_slave", 8 .. 15) => Executed
  BY <1>2 DEF B!Eoi
<1> QED BY <1>1, <1>3, <1>4, <1>5 DEF B!Handler

\* Every step of a handler brings it nearer to its return, in every nesting of
\* interrupts, exceptions and NMIs and for every set of lines and exceptions:
\* a handler that nothing interrupts returns after at most six steps.
THEOREM HandlersWindDown == StartupSpec => [][Handles => Returned \/ Executed]_allVars
<1>1. Stage2IInv /\ [StartupNext]_allVars => [Handles => Returned \/ Executed]_allVars
  BY HandlerGoesOn DEF Handles
<1> QED BY <1>1, Stage2Invariance, PTL DEF StartupSpec

\* No handler runs out of instructions: whichever is under way has one to
\* execute next, and its last is the iret.
HandlersComplete ==
  \A k \in 1 .. Len(active) :
    /\ Len(active[k].code) \in 1 .. 6 /\ active[k].code[1] \in Instructions
    /\ active[k].code[Len(active[k].code)] = "iret"

THEOREM HandlersEndInIret == StartupSpec => []HandlersComplete
<1>1. Stage2IInv => HandlersComplete
  <2> SUFFICES ASSUME Stage2IInv, NEW k \in 1 .. Len(active)
               PROVE  /\ Len(active[k].code) \in 1 .. 6 /\ active[k].code[1] \in Instructions
                      /\ active[k].code[Len(active[k].code)] = "iret"
    BY DEF HandlersComplete
  <2>1. active[k].code \in Codes
    BY HeldNat DEF Stage2IInv, Typed
  <2> QED BY <2>1, CodeLength
<1> QED BY <1>1, Stage2Invariance, PTL

\* A set of numbers has a least one.
LEMMA LeastOf ==
  ASSUME NEW T \in SUBSET Nat, T # {}
  PROVE  \E m \in T : \A k \in T : m <= k
<1>1. PICK m \in T : \A k \in T : <<k, m>> \notin OpToRel(<, Nat)
  BY NatLessThanWellFounded, WFMin, Zenon
<1>2. \A k \in T : ~(k < m)
  BY <1>1 DEF OpToRel
<1> QED BY <1>2

\* The order in which the PICs serve their lines, the slave's as their line 2.
Rank(l) == 16 * B!MasterLine(l) + l

\* While no handler is under way nothing keeps a requested line waiting.
LineWaits == Entered /\ active = <<>> /\ On /\ irr # {}
Taken(l) ==
  /\ iflag /\ l \in irr /\ B!Open(l)
  /\ \A k \in irr : B!Open(k) => ~B!Before(k, l)

LEMMA FirstLine == ASSUME Stage2IInv, LineWaits PROVE \E l \in irr : Taken(l)
<1>1. iflag /\ inservice = {}
  BY Quiet DEF LineWaits
<1>2. \A l \in irr : B!Open(l) /\ l \in 0 .. 15
  BY <1>1, StartupAssumption DEF B!Open, B!BootAssumption, Stage2IInv, Typed
<1>3. \A l \in 0 .. 15 : Rank(l) \in Nat
  BY DEF Rank, B!MasterLine
<1>4. PICK m \in {Rank(l) : l \in irr} : \A k \in {Rank(l) : l \in irr} : m <= k
  <2>1. {Rank(l) : l \in irr} \in SUBSET Nat /\ {Rank(l) : l \in irr} # {}
    BY <1>2, <1>3 DEF LineWaits
  <2> QED BY <2>1, LeastOf
<1>5. PICK l \in irr : m = Rank(l)
  BY <1>4
<1>6. ASSUME NEW k \in irr, B!Before(k, l) PROVE FALSE
  <2>1. Rank(l) <= Rank(k)
    BY <1>4, <1>5
  <2>2. k \in 0 .. 15 /\ l \in 0 .. 15
    BY <1>2
  <2> QED BY <1>6, <2>1, <2>2 DEF Rank, B!Before, B!MasterLine
<1> QED BY <1>1, <1>2, <1>5, <1>6 DEF Taken

\* Once interrupts are on, a line that is requested while no handler runs can
\* be delivered at once: no handler left it waiting behind a line that was not
\* acknowledged, or left interrupts off.
THEOREM NextLineServed == StartupSpec => [](LineWaits => \E l \in irr : Taken(l))
<1>1. Stage2IInv => (LineWaits => \E l \in irr : Taken(l))
  BY FirstLine
<1> QED BY <1>1, Stage2Invariance, PTL
=============================================================================
