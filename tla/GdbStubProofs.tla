---------------------------- MODULE GdbStubProofs ----------------------------
(***************************************************************************)
(* Theorems about GdbStub, for every program, every length of the accesses *)
(* and every sequence of commands, as long as the timer's handler itself   *)
(* is not debugged. The invariant says where the CPU can be, what is known *)
(* of a memory access under way, and what the trace flag stands for.       *)
(***************************************************************************)
EXTENDS GdbStub, TLAPS

\* The timer's handler has no breakpoint, and the debugger does not write it.
\* (The stub lets the timer in, and an exception in its handler would take the
\* stub's stack.)
HandlerAssumption == Isr \notin Writable /\ Image[Isr + 1] = "nop"

\* The timer's handler interrupts the program or the stub, and nothing else
\* ever does.
CpuInv ==
  /\ where \in {"prog", "isr", "stub"}
  /\ where = "isr" => /\ frame \in [from : {"prog", "stub"}, regs : Registers]
                      /\ cpu.pc = Isr
  /\ where # "isr" => frame = NoFrame
  /\ mem[Isr] = "nop"

\* What has been read is what memory holds, what has been written is there, and
\* an error means that the next byte cannot be accessed.
Underway ==
  /\ access \in [op : {"m", "M"}, addr : Nat, length : Nat, data : Instructions,
                 done : Seq(Instructions)]
  /\ Len(access.done) <= access.length
  /\ access.op = "M" => Isr \notin access.addr .. access.addr + access.length - 1
  /\ \A k \in 1 .. Len(access.done) :
       /\ access.addr + k - 1 \in Address
       /\ access.done[k] = mem[access.addr + k - 1]
       /\ access.op = "M" => access.done[k] = access.data
  /\ mem_err => Len(access.done) < access.length /\ Faulty(Cursor)

\* The routine is set during an access, until it has been used.
StubInv ==
  /\ ~Stopped => spc = "prompt"
  /\ spc \in {"prompt", "report"} => access = NoAccess
  /\ spc = "access" => Underway
  /\ mem_fault_routine <=> spc = "access" /\ ~mem_err
  /\ AnswersTrue

\* The registers of the program while it runs, also below the timer's handler.
ProgramRegs == IF where = "isr" THEN frame.regs ELSE cpu

StepInv ==
  /\ ~Stopped => /\ ProgramRegs.tf <=> resumed = "s"
                 /\ resumed = "s" => since = 0
  /\ Stopped /\ vector = 1 => resumed = "s" /\ since = 1

IInv == TypeOK /\ CpuInv /\ StubInv /\ StepInv

-----------------------------------------------------------------------------
(* The image                                                               *)

\* The place of an address within a range.
LEMMA Offset ==
  \A x, n \in Nat : \A a \in x .. x + n - 1 : a - x + 1 \in 1 .. n /\ x + (a - x + 1) - 1 = a
OBVIOUS

LEMMA Addresses ==
  /\ Address \subseteq Nat /\ Isr \in Address /\ Isr \in Nat /\ 0 \in Address
  /\ Main \subseteq Address /\ Isr \notin Main
  /\ Len(Image) \in Nat /\ Address \subseteq 0 .. Len(Image)
<1>1. Len(Image) \in Nat /\ Len(Image) > 0
  BY StubAssumption
<1> QED BY <1>1, StubAssumption DEF Address

LEMMA ImageTyped == [a \in Address |-> Image[a + 1]] \in [Address -> Instructions]
<1>1. Image \in Seq(Instructions) /\ Len(Image) \in Nat
  BY StubAssumption
<1> SUFFICES ASSUME NEW a \in Address PROVE Image[a + 1] \in Instructions
  OBVIOUS
<1>2. a + 1 \in 1 .. Len(Image)
  BY <1>1 DEF Address
<1> QED BY <1>1, <1>2

LEMMA InitIInv == HandlerAssumption /\ Init => IInv
<1> SUFFICES ASSUME HandlerAssumption, Init PROVE IInv
  OBVIOUS
<1>1. cpu \in Registers /\ registers \in Registers
  BY Addresses DEF Init, Registers
<1>2. mem \in [Address -> Instructions] /\ mem[Isr] = "nop"
  BY Addresses, ImageTyped DEF Init, HandlerAssumption
<1>3. access.op = "none" /\ Len(access.done) <= access.length
  BY DEF Init, NoAccess
<1>4. TypeOK
  <2>1. /\ where = "prog" /\ iflag = TRUE /\ frame = NoFrame /\ spc = "prompt"
        /\ vector = 0 /\ mem_fault_routine = FALSE /\ mem_err = FALSE
        /\ resumed = "none" /\ since = 0
    BY DEF Init
  <2>2. where \in {"prog", "isr", "stub", "lost"} /\ iflag \in BOOLEAN
    BY <2>1
  <2>3. frame = NoFrame \/ frame \in [from : {"prog", "stub"}, regs : Registers]
    BY <2>1
  <2>4. spc \in {"prompt", "report", "access", "reply"} /\ vector \in {0, 1, 3, 13}
    BY <2>1
  <2>5. mem_fault_routine \in BOOLEAN /\ mem_err \in BOOLEAN
    BY <2>1
  <2>6. resumed \in {"none", "s", "c"} /\ since \in 0 .. 2
    BY <2>1
  <2> QED BY <1>1, <1>2, <1>3, <2>2, <2>3, <2>4, <2>5, <2>6 DEF TypeOK
<1>5. CpuInv
  BY <1>2 DEF Init, CpuInv
<1>6. StubInv
  BY DEF Init, StubInv, Stopped, NoFrame, AnswersTrue
<1>7. StepInv
  BY DEF Init, StepInv, Stopped, NoFrame, ProgramRegs
<1> QED BY <1>4, <1>5, <1>6, <1>7 DEF IInv

-----------------------------------------------------------------------------
(* The program and the timer                                               *)

\* While the program runs there is no access, and the routine is not set.
LEMMA ProgramAlone ==
  ASSUME IInv, where = "prog"
  PROVE  /\ frame = NoFrame /\ ~Stopped /\ spc = "prompt" /\ access = NoAccess
         /\ mem_fault_routine = FALSE /\ ProgramRegs = cpu
<1>1. frame = NoFrame /\ ~Stopped
  BY DEF IInv, CpuInv, Stopped, NoFrame
<1>2. spc = "prompt" /\ access = NoAccess
  BY <1>1 DEF IInv, StubInv
<1>3. mem_fault_routine = FALSE
  BY <1>2 DEF IInv, StubInv, TypeOK
<1> QED BY <1>1, <1>2, <1>3 DEF ProgramRegs

\* An exception of the program stops it.
LEMMA CatchStops ==
  ASSUME IInv, where = "prog", NEW v \in {1, 3, 13}, NEW regs \in Registers,
         Catch(v, regs), resumed' = resumed, since' \in 0 .. 2,
         v = 1 => resumed = "s" /\ since' = 1
  PROVE  IInv'
<1>1. /\ frame = NoFrame /\ spc = "prompt" /\ access = NoAccess
      /\ mem_fault_routine = FALSE
  BY ProgramAlone
<1>2. /\ where' = "stub" /\ iflag' = (iflag /\ ~GateMasks(v))
      /\ spc' = "report" /\ registers' = regs /\ vector' = v
      /\ UNCHANGED <<cpu, frame, mem, mem_fault_routine, mem_err, access, answer>>
  BY <1>1 DEF Catch, NoFrame, fault
<1>3. iflag' \in BOOLEAN
  BY <1>2 DEF IInv, TypeOK
<1>4. TypeOK'
  BY <1>2, <1>3 DEF IInv, TypeOK
<1>5. CpuInv'
  BY <1>1, <1>2 DEF IInv, CpuInv
<1>6. StubInv'
  BY <1>1, <1>2 DEF StubInv, Stopped, AnswersTrue
<1>7. StepInv'
  BY <1>2 DEF StepInv, Stopped
<1> QED BY <1>4, <1>5, <1>6, <1>7 DEF IInv

LEMMA AfterTyped ==
  ASSUME IInv
  PROVE  [cpu EXCEPT !.pc = NextPc, !.eax = 1 - @] \in Registers
<1>1. NextPc \in 0 .. Len(Image)
  BY Addresses DEF NextPc
<1>2. cpu \in Registers
  BY DEF IInv, TypeOK
<1>3. 1 - cpu.eax \in {0, 1}
  BY <1>2 DEF Registers
<1> QED BY <1>1, <1>2, <1>3 DEF Registers

\* With the trace flag an instruction is followed by the stop of a step.
LEMMA ExecuteKeeps == IInv /\ Execute => IInv'
<1> SUFFICES ASSUME IInv, Execute PROVE IInv'
  OBVIOUS
<1> DEFINE after == [cpu EXCEPT !.pc = NextPc, !.eax = 1 - @]
<1>1. /\ where = "prog" /\ Count /\ resumed' = resumed
      /\ IF cpu.tf THEN CheckFault(1, after)
         ELSE cpu' = after /\ UNCHANGED <<where, iflag, frame, mem, spc, registers,
                                          vector, fault, access, answer>>
  BY DEF Execute
<1>2. /\ frame = NoFrame /\ ~Stopped /\ spc = "prompt" /\ access = NoAccess
      /\ mem_fault_routine = FALSE /\ ProgramRegs = cpu
  BY <1>1, ProgramAlone
<1>3. after \in Registers
  BY AfterTyped
<1>4. after.tf = cpu.tf
  BY DEF IInv, TypeOK, Registers
<1>5. since' \in 0 .. 2 /\ (since = 0 => since' = 1)
  BY <1>1 DEF Count, IInv, TypeOK
<1> HIDE DEF after
<1>6. CASE cpu.tf
  <2>1. resumed = "s" /\ since = 0
    BY <1>2, <1>6 DEF IInv, StepInv
  <2>2. Catch(1, after)
    BY <1>1, <1>6 DEF CheckFault
  <2> QED BY <1>1, <1>3, <1>5, <2>1, <2>2, CatchStops
<1>7. CASE ~cpu.tf
  <2>1. /\ cpu' = after
        /\ UNCHANGED <<where, iflag, frame, mem, spc, registers, vector,
                       mem_fault_routine, mem_err, access, answer>>
    BY <1>1, <1>7 DEF fault
  <2>2. resumed # "s"
    BY <1>2, <1>7 DEF IInv, StepInv
  <2>3. TypeOK'
    BY <1>1, <1>3, <1>5, <2>1 DEF IInv, TypeOK
  <2>4. CpuInv'
    BY <1>1, <2>1 DEF IInv, CpuInv
  <2>5. StubInv'
    BY <1>2, <2>1 DEF IInv, StubInv, Stopped, AnswersTrue
  <2>6. StepInv'
    BY <1>1, <1>2, <1>4, <1>7, <2>1, <2>2 DEF StepInv, Stopped, ProgramRegs
  <2> QED BY <2>3, <2>4, <2>5, <2>6 DEF IInv
<1> QED BY <1>6, <1>7

\* The handler of the timer has none.
LEMMA BreakpointKeeps == IInv /\ Breakpoint => IInv'
<1> SUFFICES ASSUME IInv, Breakpoint PROVE IInv'
  OBVIOUS
<1>1. where = "prog"
  <2>1. where = "isr" => Fetched = "nop"
    BY Addresses DEF IInv, CpuInv, Fetched, Faulty
  <2> QED BY <2>1 DEF Breakpoint
<1>2. cpu.pc \in Address /\ cpu \in Registers
  BY DEF Breakpoint, Fetched, Faulty, IInv, TypeOK
<1>3. cpu.pc + 1 \in 0 .. Len(Image)
  BY <1>2, Addresses DEF Address
<1>4. [cpu EXCEPT !.pc = @ + 1] \in Registers
  BY <1>2, <1>3 DEF Registers
<1>5. Catch(3, [cpu EXCEPT !.pc = @ + 1])
  BY DEF Breakpoint, CheckFault
<1>6. resumed' = resumed /\ since' \in 0 .. 2
  BY DEF Breakpoint, history, IInv, TypeOK
<1> QED BY <1>1, <1>4, <1>5, <1>6, CatchStops

\* The program's faults are not taken for the stub's.
LEMMA ProgramFaultKeeps == IInv /\ ProgramFault => IInv'
<1> SUFFICES ASSUME IInv, ProgramFault PROVE IInv'
  OBVIOUS
<1>1. where = "prog" /\ CheckFault(13, cpu) /\ resumed' = resumed /\ since' = since
  BY DEF ProgramFault, history
<1>2. Catch(13, cpu)
  BY <1>1, ProgramAlone DEF CheckFault
<1>3. cpu \in Registers /\ since' \in 0 .. 2
  BY <1>1 DEF IInv, TypeOK
<1> QED BY <1>1, <1>2, <1>3, CatchStops

\* The timer may interrupt the program and the stub.
LEMMA TimerInterruptKeeps == IInv /\ TimerInterrupt => IInv'
<1> SUFFICES ASSUME IInv, TimerInterrupt PROVE IInv'
  OBVIOUS
<1>1. /\ where \in {"prog", "stub"} /\ where' = "isr" /\ iflag' = FALSE
      /\ frame' = [from |-> where, regs |-> cpu]
      /\ cpu' = [cpu EXCEPT !.pc = Isr, !.tf = FALSE, !.iflag = FALSE]
      /\ UNCHANGED <<mem, spc, registers, vector, mem_fault_routine, mem_err,
                     access, answer, resumed, since>>
  BY DEF TimerInterrupt, fault, history
<1>2. cpu \in Registers /\ frame = NoFrame
  BY <1>1 DEF IInv, TypeOK, CpuInv
<1>3. cpu' \in Registers /\ cpu'.pc = Isr
  BY <1>1, <1>2, Addresses DEF Registers
<1>4. frame' \in [from : {"prog", "stub"}, regs : Registers]
      /\ frame'.from = where /\ frame'.regs = cpu
  BY <1>1, <1>2
<1>5. Stopped' <=> Stopped
  BY <1>1, <1>2, <1>4 DEF Stopped, NoFrame
<1>6. TypeOK'
  BY <1>1, <1>3, <1>4 DEF IInv, TypeOK
<1>7. CpuInv'
  BY <1>1, <1>3, <1>4 DEF IInv, CpuInv
<1>8. StubInv'
  BY <1>1, <1>5 DEF IInv, StubInv, Underway, Cursor, AnswersTrue
<1>9. StepInv'
  BY <1>1, <1>4, <1>5 DEF IInv, StepInv, ProgramRegs
<1> QED BY <1>6, <1>7, <1>8, <1>9 DEF IInv

LEMMA TimerReturnKeeps == IInv /\ TimerReturn => IInv'
<1> SUFFICES ASSUME IInv, TimerReturn PROVE IInv'
  OBVIOUS
<1>1. /\ where = "isr" /\ where' = frame.from /\ cpu' = frame.regs /\ iflag' = TRUE
      /\ frame' = NoFrame
      /\ UNCHANGED <<mem, spc, registers, vector, mem_fault_routine, mem_err,
                     access, answer, resumed, since>>
  BY DEF TimerReturn, fault, history
<1>2. frame \in [from : {"prog", "stub"}, regs : Registers]
  BY <1>1 DEF IInv, CpuInv
<1>3. where' \in {"prog", "stub"} /\ cpu' \in Registers
  BY <1>1, <1>2
<1>4. Stopped' <=> Stopped
  BY <1>1, <1>3 DEF Stopped, NoFrame
<1>5. TypeOK'
  BY <1>1, <1>3 DEF IInv, TypeOK
<1>6. CpuInv'
  BY <1>1, <1>3 DEF IInv, CpuInv
<1>7. StubInv'
  BY <1>1, <1>4 DEF IInv, StubInv, Underway, Cursor, AnswersTrue
<1>8. StepInv'
  BY <1>1, <1>3, <1>4 DEF IInv, StepInv, ProgramRegs
<1> QED BY <1>5, <1>6, <1>7, <1>8 DEF IInv

-----------------------------------------------------------------------------
(* handle_exception                                                        *)

\* What the steps of the stub have in common: the CPU stays in the stub.
LEMMA InStub ==
  ASSUME IInv, where = "stub", UNCHANGED <<where, cpu, iflag, frame>>, mem'[Isr] = mem[Isr]
  PROVE  /\ CpuInv' /\ Stopped' /\ frame = NoFrame
         /\ (UNCHANGED <<vector, resumed, since>> => StepInv')
<1>1. CpuInv'
  BY DEF IInv, CpuInv
<1>2. Stopped' /\ Stopped
  BY DEF Stopped
<1>3. UNCHANGED <<vector, resumed, since>> => StepInv'
  BY <1>2 DEF IInv, StepInv
<1>4. frame = NoFrame
  BY DEF IInv, CpuInv
<1> QED BY <1>1, <1>2, <1>3, <1>4

\* No access was under way, and none is begun.
LEMMA ReportKeeps == IInv /\ Report => IInv'
<1> SUFFICES ASSUME IInv, Report PROVE IInv'
  OBVIOUS
<1>1. /\ where = "stub" /\ spc = "report" /\ spc' = "prompt"
      /\ UNCHANGED <<where, cpu, iflag, frame, mem, registers, vector,
                     mem_fault_routine, mem_err, access, resumed, since>>
  BY DEF Report, At, machine, fault, history
<1>2. CpuInv' /\ Stopped' /\ StepInv'
  BY <1>1, InStub
<1>3. StubInv'
  BY <1>1, <1>2 DEF IInv, StubInv, AnswersTrue
<1>4. TypeOK'
  BY <1>1 DEF IInv, TypeOK
<1> QED BY <1>2, <1>3, <1>4 DEF IInv

LEMMA NextCommandKeeps == IInv /\ NextCommand => IInv'
<1> SUFFICES ASSUME IInv, NextCommand PROVE IInv'
  OBVIOUS
<1>1. /\ where = "stub" /\ spc = "reply" /\ spc' = "prompt" /\ access' = NoAccess
      /\ UNCHANGED <<where, cpu, iflag, frame, mem, registers, vector,
                     mem_fault_routine, mem_err, resumed, since>>
  BY DEF NextCommand, At, machine, fault, history
<1>2. CpuInv' /\ Stopped' /\ StepInv'
  BY <1>1, InStub
<1>3. StubInv'
  BY <1>1, <1>2 DEF IInv, StubInv, AnswersTrue
<1>4. access'.op = "none" /\ Len(access'.done) <= access'.length
  BY <1>1 DEF NoAccess
<1>5. TypeOK'
  BY <1>1, <1>4 DEF IInv, TypeOK
<1> QED BY <1>2, <1>3, <1>5 DEF IInv

\* Commands that do not look at memory.
LEMMA AskKeeps ==
  ASSUME IInv, At("prompt"), spc' = "reply", registers' \in Registers,
         UNCHANGED <<machine, mem, vector, fault, access, history>>
  PROVE  IInv'
<1>1. /\ where = "stub" /\ spc = "prompt"
      /\ UNCHANGED <<where, cpu, iflag, frame, mem, vector,
                     mem_fault_routine, mem_err, access, resumed, since>>
  BY DEF At, machine, fault, history
<1>2. CpuInv' /\ Stopped' /\ StepInv'
  BY <1>1, InStub
<1>3. access' = NoAccess
  BY <1>1 DEF IInv, StubInv
<1>4. StubInv'
  BY <1>1, <1>2, <1>3 DEF IInv, StubInv, AnswersTrue, NoAccess
<1>5. TypeOK'
  BY <1>1 DEF IInv, TypeOK
<1> QED BY <1>2, <1>4, <1>5 DEF IInv

LEMMA QueriesKeep == IInv /\ (Ask \/ WriteRegisters) => IInv'
<1> SUFFICES ASSUME IInv, Ask \/ WriteRegisters PROVE IInv'
  OBVIOUS
<1>1. At("prompt") /\ UNCHANGED <<machine, mem, vector, fault, access, history>>
  BY DEF Ask, WriteRegisters
<1>2. spc' = "reply"
  BY DEF Ask, WriteRegisters, Reply
<1>3. registers' \in Registers
  <2>1. registers \in Registers
    BY DEF IInv, TypeOK
  <2>2. CASE Ask
    BY <2>1, <2>2 DEF Ask
  <2>3. CASE \E b, c \in BOOLEAN, a \in Main :
               registers' = [pc |-> a, eax |-> 0, tf |-> b, iflag |-> c]
    BY <2>3, Addresses DEF Registers
  <2>4. CASE \E v \in {0, 1} : registers' = [registers EXCEPT !.eax = v]
    BY <2>1, <2>4 DEF Registers
  <2>5. CASE UNCHANGED registers
    BY <2>1, <2>5
  <2> QED BY <2>2, <2>3, <2>4, <2>5 DEF WriteRegisters
<1> QED BY <1>1, <1>2, <1>3, AskKeeps

\* The debugger asks for an access that leaves the timer's handler alone.
LEMMA MemCommandKeeps ==
  ASSUME IInv, NEW op \in {"m", "M"}, NEW a \in Nat, NEW n \in Nat,
         NEW d \in Instructions, op = "M" => Isr \notin a .. a + n - 1,
         MemCommand(op, a, n, d)
  PROVE  IInv'
<1>1. /\ where = "stub" /\ spc = "prompt" /\ spc' = "access"
      /\ access' = [op |-> op, addr |-> a, length |-> n, data |-> d, done |-> <<>>]
      /\ mem_err' = FALSE /\ mem_fault_routine' = TRUE
      /\ UNCHANGED <<where, cpu, iflag, frame, mem, registers, vector, resumed, since>>
  BY DEF MemCommand, At, machine, history
<1>2. CpuInv' /\ Stopped' /\ StepInv'
  BY <1>1, InStub
<1>3. /\ access' \in [op : {"m", "M"}, addr : Nat, length : Nat, data : Instructions,
                      done : Seq(Instructions)]
      /\ access'.done = <<>> /\ access'.length = n /\ access'.op = op /\ access'.addr = a
  BY <1>1
<1>4. Len(access'.done) = 0
  BY <1>3
<1>5. Underway'
  BY <1>1, <1>3, <1>4 DEF Underway
<1>6. StubInv'
  BY <1>1, <1>2, <1>5 DEF StubInv, AnswersTrue
<1>7. TypeOK'
  <2>1. access'.op \in {"none", "m", "M"} /\ Len(access'.done) <= access'.length
    BY <1>3, <1>4
  <2>2. mem_err' \in BOOLEAN /\ mem_fault_routine' \in BOOLEAN
    BY <1>1
  <2> QED BY <1>1, <2>1, <2>2 DEF IInv, TypeOK
<1> QED BY <1>2, <1>6, <1>7 DEF IInv

\* What an access under way leaves alone.
LEMMA AccessSteps ==
  ASSUME IInv, At("access")
  PROVE  /\ where = "stub" /\ spc = "access" /\ Underway
         /\ (mem_fault_routine <=> ~mem_err) /\ Len(access.done) \in Nat
         /\ Cursor \in Nat /\ frame = NoFrame
<1>1. where = "stub" /\ spc = "access"
  BY DEF At
<1>2. Underway /\ (mem_fault_routine <=> ~mem_err)
  BY <1>1 DEF IInv, StubInv
<1>3. access.done \in Seq(Instructions) /\ access.addr \in Nat
  BY <1>2 DEF Underway
<1>4. Len(access.done) \in Nat
  BY <1>3
<1> QED BY <1>1, <1>2, <1>3, <1>4 DEF Cursor, IInv, CpuInv

LEMMA AccessByteKeeps == IInv /\ AccessByte => IInv'
<1> SUFFICES ASSUME IInv, AccessByte PROVE IInv'
  OBVIOUS
<1>1. /\ where = "stub" /\ spc = "access" /\ Underway /\ ~mem_err
      /\ Len(access.done) < access.length /\ Cursor \in Address
      /\ mem' = IF access.op = "M" THEN [mem EXCEPT ![Cursor] = access.data] ELSE mem
      /\ access' = [access EXCEPT !.done = Append(@, mem'[Cursor])]
      /\ UNCHANGED <<where, cpu, iflag, frame, spc, registers, vector,
                     mem_fault_routine, mem_err, answer, resumed, since>>
  BY AccessSteps DEF AccessByte, More, Faulty, machine, fault, history
<1>2. /\ access \in [op : {"m", "M"}, addr : Nat, length : Nat, data : Instructions,
                     done : Seq(Instructions)]
      /\ access.op = "M" => Isr \notin access.addr .. access.addr + access.length - 1
      /\ Len(access.done) \in Nat /\ Cursor = access.addr + Len(access.done)
  BY <1>1 DEF Underway, Cursor
<1>3. mem \in [Address -> Instructions]
  BY DEF IInv, TypeOK
<1>4. /\ mem' \in [Address -> Instructions]
      /\ \A a \in Address : a # Cursor => mem'[a] = mem[a]
      /\ access.op = "M" => mem'[Cursor] = access.data
      /\ access.op # "M" => mem' = mem
  BY <1>1, <1>2, <1>3
<1>5. mem'[Isr] = mem[Isr]
  BY <1>1, <1>2, <1>4, Addresses
<1>6. CpuInv' /\ Stopped' /\ StepInv'
  BY <1>1, <1>5, InStub
<1>7. mem'[Cursor] \in Instructions
  BY <1>1, <1>4
<1>8. /\ access' \in [op : {"m", "M"}, addr : Nat, length : Nat, data : Instructions,
                      done : Seq(Instructions)]
      /\ access'.op = access.op /\ access'.addr = access.addr
      /\ access'.length = access.length /\ access'.data = access.data
      /\ access'.done = Append(access.done, mem'[Cursor])
  <2>1. Append(access.done, mem'[Cursor]) \in Seq(Instructions)
    BY <1>2, <1>7
  <2> QED BY <1>1, <1>2, <2>1
<1>9. /\ Len(access'.done) = Len(access.done) + 1
      /\ \A k \in 1 .. Len(access.done) : access'.done[k] = access.done[k]
      /\ access'.done[Len(access.done) + 1] = mem'[Cursor]
  BY <1>2, <1>7, <1>8
<1>10. \A k \in 1 .. Len(access'.done) :
         /\ access'.addr + k - 1 \in Address
         /\ access'.done[k] = mem'[access'.addr + k - 1]
         /\ access'.op = "M" => access'.done[k] = access'.data
  <2> SUFFICES ASSUME NEW k \in 1 .. Len(access.done) + 1
               PROVE  /\ access.addr + k - 1 \in Address
                      /\ access'.done[k] = mem'[access.addr + k - 1]
                      /\ access.op = "M" => access'.done[k] = access.data
    BY <1>8, <1>9
  <2>1. CASE k = Len(access.done) + 1
    <3>1. access.addr + k - 1 = Cursor
      BY <1>2, <2>1
    <3> QED BY <1>1, <1>4, <1>9, <2>1, <3>1
  <2>2. CASE k # Len(access.done) + 1
    <3>1. k \in 1 .. Len(access.done) /\ access.addr + k - 1 # Cursor
      BY <1>2, <2>2
    <3>2. /\ access.addr + k - 1 \in Address /\ access.done[k] = mem[access.addr + k - 1]
          /\ access.op = "M" => access.done[k] = access.data
      BY <1>1, <3>1 DEF Underway
    <3> QED BY <1>4, <1>9, <3>1, <3>2
  <2> QED BY <2>1, <2>2
<1>11. Len(access'.done) <= access'.length
  BY <1>1, <1>2, <1>8, <1>9
<1>12. Underway'
  BY <1>1, <1>2, <1>8, <1>10, <1>11 DEF Underway
<1>13. StubInv'
  BY <1>1, <1>6, <1>12 DEF IInv, StubInv, AnswersTrue
<1>14. TypeOK'
  BY <1>1, <1>4, <1>8, <1>11 DEF IInv, TypeOK
<1> QED BY <1>6, <1>13, <1>14 DEF IInv

\* The fault of the stub's own access comes back as an error.
LEMMA AccessFaultKeeps == IInv /\ AccessFault => IInv'
<1> SUFFICES ASSUME IInv, AccessFault PROVE IInv'
  OBVIOUS
<1>1. /\ where = "stub" /\ spc = "access" /\ Underway /\ ~mem_err /\ mem_fault_routine
      /\ Len(access.done) < access.length /\ Faulty(Cursor)
  BY AccessSteps DEF AccessFault, More
<1>2. MemFault /\ UNCHANGED history
  BY <1>1 DEF AccessFault, CheckFault
<1>3. /\ mem_fault_routine' = FALSE /\ mem_err' = TRUE
      /\ UNCHANGED <<where, cpu, iflag, frame, mem, spc, registers, vector,
                     access, answer, resumed, since>>
  BY <1>2 DEF MemFault, machine, history
<1>4. CpuInv' /\ Stopped' /\ StepInv'
  BY <1>1, <1>3, InStub
<1>5. Underway'
  BY <1>1, <1>3 DEF Underway, Cursor
<1>6. StubInv'
  BY <1>1, <1>3, <1>4, <1>5 DEF StubInv, AnswersTrue
<1>7. TypeOK'
  <2>1. mem_err' \in BOOLEAN /\ mem_fault_routine' \in BOOLEAN
    BY <1>3
  <2> QED BY <1>3, <2>1 DEF IInv, TypeOK
<1> QED BY <1>4, <1>6, <1>7 DEF IInv

\* E03 stands for a byte of the range that cannot be accessed.
LEMMA AccessFailedKeeps == IInv /\ AccessFailed => IInv'
<1> SUFFICES ASSUME IInv, AccessFailed PROVE IInv'
  OBVIOUS
<1>1. /\ where = "stub" /\ spc = "access" /\ Underway /\ mem_err /\ ~mem_fault_routine
      /\ spc' = "reply" /\ answer' = <<"E03">>
      /\ UNCHANGED <<where, cpu, iflag, frame, mem, registers, vector,
                     mem_fault_routine, mem_err, access, resumed, since>>
  BY AccessSteps DEF AccessFailed, Reply, machine, fault, history
<1>2. CpuInv' /\ Stopped' /\ StepInv'
  BY <1>1, InStub
<1>3. \E a \in access.addr .. access.addr + access.length - 1 : Faulty(a)
  <2>1. /\ access.addr \in Nat /\ access.length \in Nat /\ Len(access.done) \in Nat
        /\ Len(access.done) < access.length /\ Faulty(access.addr + Len(access.done))
    BY <1>1 DEF Underway, Cursor
  <2>2. access.addr + Len(access.done) \in access.addr .. access.addr + access.length - 1
    BY <2>1
  <2> QED BY <2>1, <2>2
<1>4. AnswersTrue'
  BY <1>1, <1>3 DEF AnswersTrue, Faulty, Address
<1>5. StubInv'
  BY <1>1, <1>2, <1>4 DEF StubInv
<1>6. TypeOK'
  BY <1>1 DEF IInv, TypeOK
<1> QED BY <1>2, <1>5, <1>6 DEF IInv

\* Any other answer says what memory holds.
LEMMA AccessDoneKeeps == IInv /\ AccessDone => IInv'
<1> SUFFICES ASSUME IInv, AccessDone PROVE IInv'
  OBVIOUS
<1>1. /\ where = "stub" /\ spc = "access" /\ Underway /\ ~mem_err
      /\ Len(access.done) = access.length /\ mem_fault_routine' = FALSE
      /\ spc' = "reply"
      /\ answer' = IF access.op = "M" THEN <<"OK">> ELSE <<"hex", access.done>>
      /\ UNCHANGED <<where, cpu, iflag, frame, mem, registers, vector,
                     mem_err, access, resumed, since>>
  BY AccessSteps DEF AccessDone, Reply, machine, history
<1>2. CpuInv' /\ Stopped' /\ StepInv'
  BY <1>1, InStub
<1>3. /\ access.op \in {"m", "M"} /\ access.addr \in Nat /\ access.length \in Nat
      /\ access.done \in Seq(Instructions)
  BY <1>1 DEF Underway
<1>4. \A a \in access.addr .. access.addr + access.length - 1 :
        /\ a \in Address
        /\ access.done[a - access.addr + 1] = mem[a]
        /\ access.op = "M" => mem[a] = access.data
  <2> SUFFICES ASSUME NEW a \in access.addr .. access.addr + access.length - 1
               PROVE  /\ a \in Address
                      /\ access.done[a - access.addr + 1] = mem[a]
                      /\ access.op = "M" => mem[a] = access.data
    OBVIOUS
  <2> DEFINE k == a - access.addr + 1
  <2>1. k \in 1 .. Len(access.done) /\ access.addr + k - 1 = a
    <3>1. access.addr \in Nat /\ access.length \in Nat /\ Len(access.done) = access.length
      BY <1>1, <1>3
    <3> QED BY <3>1, Offset
  <2>2. /\ access.addr + k - 1 \in Address
        /\ access.done[k] = mem[access.addr + k - 1]
        /\ access.op = "M" => access.done[k] = access.data
    BY <1>1, <2>1 DEF Underway
  <2> QED BY <2>1, <2>2
<1>5. access.done = [k \in 1 .. access.length |-> mem[access.addr + k - 1]]
  <2>1. access.done \in [1 .. access.length -> Instructions]
    BY <1>1, <1>3
  <2>2. \A k \in 1 .. access.length : access.done[k] = mem[access.addr + k - 1]
    BY <1>1 DEF Underway
  <2> QED BY <2>1, <2>2
<1>6. answer' # <<"E03">> /\ (answer' = <<"OK">> => access.op = "M")
  BY <1>1, <1>3
<1>7. AnswersTrue'
  BY <1>1, <1>3, <1>4, <1>5, <1>6 DEF AnswersTrue, Faulty, Address
<1>8. StubInv'
  BY <1>1, <1>2, <1>7 DEF StubInv
<1>9. TypeOK'
  BY <1>1 DEF IInv, TypeOK
<1> QED BY <1>2, <1>8, <1>9 DEF IInv

\* The trace flag is set for a step and cleared for everything else.
LEMMA ResumeKeeps ==
  ASSUME IInv, NEW command \in {"s", "c"},
         Resume(command, {registers.pc} \cup Main)
  PROVE  IInv'
<1>1. PICK a \in {registers.pc} \cup Main :
        registers' = [registers EXCEPT !.pc = a, !.tf = Trace(command)]
  BY DEF Resume
<1>2. /\ where = "stub" /\ spc = "prompt" /\ cpu' = registers' /\ iflag' = registers'.iflag
      /\ resumed' = command /\ since' = 0
      /\ where' = IF frame = NoFrame THEN "prog" ELSE "isr"
      /\ UNCHANGED <<frame, mem, spc, vector, mem_fault_routine, mem_err, access>>
  BY DEF Resume, At, fault
<1>3. frame = NoFrame /\ where' = "prog"
  BY <1>2 DEF IInv, CpuInv
<1>4. registers \in Registers
  BY DEF IInv, TypeOK
<1>5. a \in 0 .. Len(Image) /\ Trace(command) \in BOOLEAN
  BY <1>4, Addresses DEF Registers, Trace
<1>6. registers' \in Registers /\ (registers'.tf <=> command = "s")
  BY <1>1, <1>4, <1>5 DEF Registers, Trace
<1>7. iflag' \in BOOLEAN
  BY <1>2, <1>6 DEF Registers
<1>8. TypeOK'
  BY <1>2, <1>3, <1>6, <1>7 DEF IInv, TypeOK
<1>9. CpuInv'
  BY <1>2, <1>3 DEF IInv, CpuInv
<1>10. StubInv'
  BY <1>2 DEF IInv, StubInv, AnswersTrue
<1>11. StepInv'
  BY <1>2, <1>3, <1>6 DEF StepInv, Stopped, NoFrame, ProgramRegs
<1> QED BY <1>8, <1>9, <1>10, <1>11 DEF IInv

-----------------------------------------------------------------------------
(* The invariant and what follows from it                                  *)

LEMMA HandlerKeeps == HandlerAssumption /\ IInv /\ Handler => IInv'
<1> SUFFICES ASSUME HandlerAssumption, IInv, Handler PROVE IInv'
  OBVIOUS
<1>1. CASE Report \/ NextCommand \/ Ask \/ WriteRegisters
  BY <1>1, ReportKeeps, NextCommandKeeps, QueriesKeep
<1>2. ASSUME NEW a \in 0 .. Len(Image), NEW n \in 0 .. MaxLength,
             MemCommand("m", a, n, "nop")
      PROVE  IInv'
  <2>1. a \in Nat /\ n \in Nat /\ "nop" \in Instructions
    BY Addresses, StubAssumption DEF Instructions
  <2> QED BY <1>2, <2>1, MemCommandKeeps
<1>3. ASSUME NEW a \in Writable, NEW n \in 1 .. MaxLength, NEW d \in {"nop", "int3"},
             (a .. a + n - 1) \cap Address \subseteq Writable, MemCommand("M", a, n, d)
      PROVE  IInv'
  <2>1. a \in Nat /\ n \in Nat /\ d \in Instructions
    BY StubAssumption DEF Instructions
  <2>2. Isr \notin a .. a + n - 1
    BY <1>3, Addresses DEF HandlerAssumption
  <2> QED BY <1>3, <2>1, <2>2, MemCommandKeeps
<1>4. CASE AccessByte \/ AccessFault \/ AccessFailed \/ AccessDone
  BY <1>4, AccessByteKeeps, AccessFaultKeeps, AccessFailedKeeps, AccessDoneKeeps
<1>5. ASSUME NEW command \in {"s", "c"}, Resume(command, {registers.pc} \cup Main)
      PROVE  IInv'
  BY <1>5, ResumeKeeps
<1> QED BY <1>1, <1>2, <1>3, <1>4, <1>5 DEF Handler

LEMMA NextKeeps == HandlerAssumption /\ IInv /\ [Next]_vars => IInv'
<1> SUFFICES ASSUME HandlerAssumption, IInv, [Next]_vars PROVE IInv'
  OBVIOUS
<1>1. CASE Execute \/ Breakpoint \/ ProgramFault \/ TimerInterrupt \/ TimerReturn
  BY <1>1, ExecuteKeeps, BreakpointKeeps, ProgramFaultKeeps, TimerInterruptKeeps,
     TimerReturnKeeps
<1>2. CASE Handler
  BY <1>2, HandlerKeeps
<1>3. CASE UNCHANGED vars
  <2>1. TypeOK' /\ CpuInv' /\ StepInv'
    BY <1>3 DEF vars, machine, fault, history, IInv, TypeOK, CpuInv, StepInv, Stopped,
                ProgramRegs
  <2>2. StubInv'
    BY <1>3 DEF vars, machine, fault, IInv, StubInv, Stopped, Underway, Cursor, AnswersTrue
  <2> QED BY <2>1, <2>2 DEF IInv
<1> QED BY <1>1, <1>2, <1>3 DEF Next

LEMMA IInvHolds == HandlerAssumption /\ Spec => []IInv
<1> SUFFICES ASSUME HandlerAssumption PROVE Spec => []IInv
  OBVIOUS
<1>1. Init => IInv
  BY InitIInv
<1>2. IInv /\ [Next]_vars => IInv'
  BY NextKeeps
<1> QED BY <1>1, <1>2, PTL DEF Spec

\* Registers and memory keep their types, and an access stays in its range.
THEOREM TypesHold == HandlerAssumption /\ Spec => []TypeOK
<1>1. IInv => TypeOK
  BY DEF IInv
<1> QED BY IInvHolds, <1>1, PTL

\* The program's faults are stops, those of the stub's accesses are E03, and
\* every other answer says what memory holds.
THEOREM FaultsAreReported == HandlerAssumption /\ Spec => []FaultsReported
<1>1. IInv => FaultsReported
  BY DEF IInv, StubInv, FaultsReported, FaultsToldApart
<1> QED BY IInvHolds, <1>1, PTL

\* After s one instruction, after c no stop by the trace flag.
THEOREM OneStep == HandlerAssumption /\ Spec => []StepIsOne
<1>1. IInv => StepIsOne
  <2> SUFFICES ASSUME IInv PROVE StepIsOne
    OBVIOUS
  <2>1. where = "prog" => ~Stopped
    BY ProgramAlone
  <2> QED BY <2>1 DEF IInv, StepInv, StepIsOne
<1> QED BY IInvHolds, <1>1, PTL

\* What was saved of the program changes by the debugger's commands alone.
THEOREM KeptRegisters == HandlerAssumption /\ Spec => RegistersKept
<1> SUFFICES ASSUME HandlerAssumption PROVE Spec => RegistersKept
  OBVIOUS
<1>1. IInv /\ [Next]_vars =>
        [Stopped /\ registers' # registers => spc = "prompt" /\ where = "stub"]_vars
  <2> SUFFICES ASSUME IInv, Next, Stopped, registers' # registers
               PROVE  spc = "prompt" /\ where = "stub"
    OBVIOUS
  <2>1. where # "prog"
    BY ProgramAlone
  <2>2. ~Execute /\ ~ProgramFault
    BY <2>1 DEF Execute, ProgramFault
  <2>3. ~Breakpoint
    <3>1. where = "isr" => Fetched = "nop"
      BY Addresses DEF IInv, CpuInv, Fetched, Faulty
    <3> QED BY <2>1, <3>1 DEF Breakpoint
  <2>4. ~AccessFault
    <3> SUFFICES ASSUME AccessFault PROVE FALSE
      OBVIOUS
    <3>1. mem_fault_routine
      BY AccessSteps DEF AccessFault, More
    <3> QED BY <3>1 DEF AccessFault, CheckFault, MemFault
  <2> QED BY <2>2, <2>3, <2>4 DEF Next, TimerInterrupt, TimerReturn, Handler, Report,
       NextCommand, Ask, WriteRegisters, MemCommand, AccessByte, AccessFailed, AccessDone,
       Resume, At
<1> QED BY IInvHolds, <1>1, PTL DEF Spec, RegistersKept
=============================================================================
