------------------------------- MODULE GdbStub -------------------------------
(***************************************************************************)
(* utils/i386-stub.c and utils/gdbstub.c: a program under the debugger. An *)
(* exception stops it, catchException saves its registers, handle_exception *)
(* carries out what the debugger asks for, and return_to_prog lets it go   *)
(* on. The timer interrupts the program, and the stub as well: its gates   *)
(* leave interrupts on. The program is a few one byte instructions in a    *)
(* small memory, part of which cannot be accessed. The packets of the       *)
(* serial line are left out: a command and its answer are whole here.      *)
(***************************************************************************)
EXTENDS Naturals, Sequences

CONSTANTS
  Image,      \* the memory at first, from address 0; past it accesses fault
  Main,       \* the addresses the program's loop runs through
  Isr,        \* the address of the timer's handler, one instruction
  Writable,   \* where the debugger writes
  MaxLength   \* the longest access it asks for

\* nop changes EAX, int3 is the breakpoint, load faults.
Instructions == {"nop", "int3", "load"}
Address == 0 .. Len(Image) - 1
Faulty(a) == a \notin Address

ASSUME StubAssumption ==
  /\ Image \in Seq(Instructions) /\ Len(Image) > 0
  /\ Main \subseteq Address /\ 0 \in Main /\ Isr \in Address \ Main
  /\ Writable \subseteq Nat /\ MaxLength \in Nat

VARIABLES
  where,             \* what the CPU runs: "prog", "isr" or "stub"; "lost" when
                     \* the stub's stack has been taken by a second exception
  cpu,               \* PC, EAX, trace and interrupt flag of the program
  iflag,             \* the CPU's interrupt flag
  frame,             \* what the timer's handler returns to
  mem,
  spc,               \* the stub's point
  registers, vector, \* what was saved, and why
  mem_fault_routine, mem_err,
  access, answer,    \* the memory access under way, and the answer
  resumed, since     \* history: the last command that resumed the program,
                     \* and the instructions it has done since, up to 2

machine == <<where, cpu, iflag, frame>>
fault == <<mem_fault_routine, mem_err>>
history == <<resumed, since>>
vars == <<machine, mem, spc, registers, vector, fault, access, answer, history>>

Registers == [pc : 0 .. Len(Image), eax : {0, 1}, tf : BOOLEAN, iflag : BOOLEAN]
NoFrame == [from |-> "none"]
NoAccess == [op |-> "none", addr |-> 0, length |-> 0, data |-> "nop", done |-> <<>>]

\* set_debug_traps is done, and the program is about to run.
Init ==
  /\ where = "prog" /\ iflag = TRUE /\ frame = NoFrame
  /\ cpu = [pc |-> 0, eax |-> 0, tf |-> FALSE, iflag |-> TRUE]
  /\ mem = [a \in Address |-> Image[a + 1]]
  /\ spc = "prompt" /\ registers = cpu /\ vector = 0
  /\ mem_fault_routine = FALSE /\ mem_err = FALSE
  /\ access = NoAccess /\ answer = <<>>
  /\ resumed = "none" /\ since = 0

-----------------------------------------------------------------------------
(* Exceptions                                                              *)

\* exceptionHandler: an interrupt gate for the NMI and the PICs' vectors, a
\* trap gate, which leaves the interrupt flag alone, for the others.
GateMasks(v) == v = 2 \/ v >= 32

\* SAVE_REGISTERS1, SAVE_ERRCODE and SAVE_REGISTERS2; remcomHandler starts on a
\* fresh stack, whatever is on it.
Catch(v, regs) ==
  /\ where' = IF where = "stub" \/ frame.from = "stub" THEN "lost" ELSE "stub"
  /\ iflag' = (iflag /\ ~GateMasks(v))
  /\ spc' = "report" /\ registers' = regs /\ vector' = v
  /\ UNCHANGED <<cpu, frame, mem, fault, access, answer>>

\* mem_fault: returns through set_mem_err to the caller of the access.
MemFault ==
  /\ mem_fault_routine' = FALSE /\ mem_err' = TRUE
  /\ UNCHANGED <<machine, mem, spc, registers, vector, access, answer>>

\* A slip: the routine stays set after it has been used.
CheckFault_kept(v, regs) ==
  IF v \in {11, 13, 14} /\ mem_fault_routine
  THEN mem_err' = TRUE /\ UNCHANGED <<machine, mem, spc, registers, vector,
                                      mem_fault_routine, access, answer>>
  ELSE Catch(v, regs)

\* A slip: one of the handlers that test mem_fault_routine is missing.
CheckFault_page(v, regs) ==
  IF v \in {11, 14} /\ mem_fault_routine THEN MemFault ELSE Catch(v, regs)

\* catchException11, 13 and 14 look at mem_fault_routine first.
CheckFault(v, regs) ==
  IF v \in {11, 13, 14} /\ mem_fault_routine THEN MemFault ELSE Catch(v, regs)

-----------------------------------------------------------------------------
(* The program and the timer                                               *)

\* The instruction at the program counter; past the end of memory the fetch
\* faults.
Fetched == IF Faulty(cpu.pc) THEN "load" ELSE mem[cpu.pc]

NextPc == IF cpu.pc + 1 \in Main THEN cpu.pc + 1 ELSE 0
Count == since' = IF since < 2 THEN since + 1 ELSE since

\* An instruction of the program; the trace flag stops it after it.
Execute ==
  /\ where = "prog" /\ Fetched = "nop"
  /\ LET after == [cpu EXCEPT !.pc = NextPc, !.eax = 1 - @]
     IN  IF cpu.tf THEN CheckFault(1, after)
         ELSE cpu' = after /\ UNCHANGED <<where, iflag, frame, mem, spc, registers,
                                          vector, fault, access, answer>>
  /\ Count /\ UNCHANGED resumed

\* The exceptions an instruction causes, in the program or in the handler.
Breakpoint ==
  /\ where \in {"prog", "isr"} /\ Fetched = "int3"
  /\ CheckFault(3, [cpu EXCEPT !.pc = @ + 1])
  /\ UNCHANGED history

ProgramFault ==
  /\ where = "prog" /\ Fetched = "load"
  /\ CheckFault(13, cpu)
  /\ UNCHANGED history

\* The timer's gate is an interrupt gate; the trace flag is cleared as well.
TimerInterrupt ==
  /\ where \in {"prog", "stub"} /\ iflag
  /\ where' = "isr" /\ iflag' = FALSE
  /\ frame' = [from |-> where, regs |-> cpu]
  /\ cpu' = [cpu EXCEPT !.pc = Isr, !.tf = FALSE, !.iflag = FALSE]
  /\ UNCHANGED <<mem, spc, registers, vector, fault, access, answer, history>>

\* The handler saves and restores what it changes.
TimerReturn ==
  /\ where = "isr" /\ mem[Isr] = "nop"
  /\ where' = frame.from /\ cpu' = frame.regs /\ iflag' = TRUE
  /\ frame' = NoFrame
  /\ UNCHANGED <<mem, spc, registers, vector, fault, access, answer, history>>

-----------------------------------------------------------------------------
(* handle_exception                                                        *)

At(point) == where = "stub" /\ spc = point

computeSignal(v) ==
  CASE v \in {1, 3}   -> 5
    [] v \in {0, 7}   -> 8
    [] v \in {4, 5}   -> 16
    [] v = 6          -> 4
    [] v \in 9 .. 14  -> 11
    [] OTHER          -> 7

\* "reply to host that an exception has occurred"
Report ==
  /\ At("report") /\ spc' = "prompt"
  /\ answer' = <<"T", computeSignal(vector), registers.pc>>
  /\ UNCHANGED <<machine, mem, registers, vector, fault, access, history>>

Reply(a) == spc' = "reply" /\ answer' = a

\* putpacket, and the loop's next getpacket.
NextCommand ==
  /\ At("reply") /\ spc' = "prompt" /\ answer' = <<>> /\ access' = NoAccess
  /\ UNCHANGED <<machine, mem, registers, vector, fault, history>>

\* ?, g, d and k, and a command that cannot be parsed. d only decides on what
\* is printed, k does nothing.
Ask ==
  /\ At("prompt")
  /\ \/ Reply(<<"S", computeSignal(vector)>>)
     \/ Reply(<<"regs", registers>>)
     \/ Reply(<<>>)
     \/ \E e \in {"E01", "E02"} : Reply(<<e>>)
  /\ UNCHANGED <<machine, mem, registers, vector, fault, access, history>>

\* G, and P for one register. P for a register the stub does not know is
\* answered with OK too.
WriteRegisters ==
  /\ At("prompt") /\ Reply(<<"OK">>)
  /\ \/ \E b, c \in BOOLEAN, a \in Main :
          registers' = [pc |-> a, eax |-> 0, tf |-> b, iflag |-> c]
     \/ \E v \in {0, 1} : registers' = [registers EXCEPT !.eax = v]
     \/ UNCHANGED registers
  /\ UNCHANGED <<machine, mem, vector, fault, access, history>>

\* m and M: mem_err is cleared, mem2hex or hex2mem sets the routine.
MemCommand(op, a, n, d) ==
  /\ At("prompt") /\ spc' = "access"
  /\ access' = [op |-> op, addr |-> a, length |-> n, data |-> d, done |-> <<>>]
  /\ mem_err' = FALSE /\ mem_fault_routine' = TRUE
  /\ UNCHANGED <<machine, mem, registers, vector, answer, history>>

Cursor == access.addr + Len(access.done)
\* A slip: one byte more than was asked for.
More_late == At("access") /\ ~mem_err /\ Len(access.done) <= access.length

More == At("access") /\ ~mem_err /\ Len(access.done) < access.length

\* get_char and set_char
AccessByte ==
  /\ More /\ ~Faulty(Cursor)
  /\ mem' = IF access.op = "M" THEN [mem EXCEPT ![Cursor] = access.data] ELSE mem
  /\ access' = [access EXCEPT !.done = Append(@, mem'[Cursor])]
  /\ UNCHANGED <<machine, spc, registers, vector, fault, answer, history>>

AccessFault ==
  /\ More /\ Faulty(Cursor)
  /\ CheckFault(13, [cpu EXCEPT !.pc = 0])
  /\ UNCHANGED history

\* "may_fault && mem_err": back to the command before the routine is reset.
AccessFailed ==
  /\ At("access") /\ mem_err
  /\ Reply(<<"E03">>)
  /\ UNCHANGED <<machine, mem, registers, vector, fault, access, history>>

AccessDone ==
  /\ At("access") /\ ~mem_err /\ Len(access.done) = access.length
  /\ mem_fault_routine' = FALSE
  /\ Reply(IF access.op = "M" THEN <<"OK">> ELSE <<"hex", access.done>>)
  /\ UNCHANGED <<machine, mem, registers, vector, mem_err, access, history>>

\* A slip: the trace bit is set for s, and never cleared.
Trace_kept(command) == registers.tf \/ command = "s"

\* "clear the trace bit", "set the trace bit if we're stepping"
Trace(command) == command = "s"

\* s and c, with an address or without, and return_to_prog.
Resume(command, pcs) ==
  /\ At("prompt")
  /\ \E a \in pcs : registers' = [registers EXCEPT !.pc = a, !.tf = Trace(command)]
  /\ cpu' = registers' /\ iflag' = registers'.iflag
  /\ where' = IF frame = NoFrame THEN "prog" ELSE "isr"
  /\ resumed' = command /\ since' = 0 /\ answer' = <<>>
  /\ UNCHANGED <<frame, mem, spc, vector, fault, access>>

Handler ==
  \/ Report \/ NextCommand \/ Ask \/ WriteRegisters
  \/ \E a \in 0 .. Len(Image), n \in 0 .. MaxLength : MemCommand("m", a, n, "nop")
  \/ \E a \in Writable, n \in 1 .. MaxLength, d \in {"nop", "int3"} :
       (a .. a + n - 1) \cap Address \subseteq Writable /\ MemCommand("M", a, n, d)
  \/ AccessByte \/ AccessFault \/ AccessFailed \/ AccessDone
  \/ \E command \in {"s", "c"} : Resume(command, {registers.pc} \cup Main)

Next ==
  \/ Execute \/ Breakpoint \/ ProgramFault
  \/ TimerInterrupt \/ TimerReturn
  \/ Handler

Spec == Init /\ [][Next]_vars

-----------------------------------------------------------------------------
\* Registers and memory hold what they can, an access stays in its range.
TypeOK ==
  /\ where \in {"prog", "isr", "stub", "lost"} /\ iflag \in BOOLEAN
  /\ cpu \in Registers /\ registers \in Registers
  /\ frame = NoFrame \/ frame \in [from : {"prog", "stub"}, regs : Registers]
  /\ mem \in [Address -> Instructions]
  /\ spc \in {"prompt", "report", "access", "reply"} /\ vector \in {0, 1, 3, 13}
  /\ mem_fault_routine \in BOOLEAN /\ mem_err \in BOOLEAN
  /\ access.op \in {"none", "m", "M"} /\ Len(access.done) <= access.length
  /\ resumed \in {"none", "s", "c"} /\ since \in 0 .. 2

Stopped == where = "stub" \/ frame.from = "stub"

\* While the program is stopped, what was saved of it changes by the debugger's
\* G, P, s and c and by nothing else: not by a fault of the stub's own accesses
\* and not by an interrupt the stub lets in.
RegistersKept ==
  [][Stopped /\ registers' # registers => spc = "prompt" /\ where = "stub"]_vars

\* A fault is taken for one of the stub's accesses only while there is one: a
\* program that faults is always stopped, also after an access has failed.
FaultsToldApart == mem_fault_routine => Stopped /\ spc = "access"

\* What an answer says of memory is so: E03 if and only if a byte of the range
\* cannot be accessed, OK when every byte has been written, and bytes that are
\* those of the program the debugger looks at.
AnswersTrue ==
  spc = "reply" /\ access.op # "none" =>
    LET range == access.addr .. access.addr + access.length - 1
    IN  /\ answer = <<"E03">> <=> \E a \in range : Faulty(a)
        /\ answer = <<"OK">> => \A a \in range : mem[a] = access.data
        /\ access.op = "m" /\ answer # <<"E03">> =>
             answer = <<"hex", [k \in 1 .. access.length |-> mem[access.addr + k - 1]]>>

\* A fault is never hidden and never invented: the program's are reported as
\* stops, those of the stub's accesses as E03, and the other answers are true.
FaultsReported == FaultsToldApart /\ AnswersTrue

\* "Step one instruction": after s the program does one instruction, however
\* often the timer interrupts it, and is stopped; after c the trace flag never
\* stops it, also if the command before was s or the debugger wrote the flags.
StepIsOne ==
  /\ where = "prog" /\ resumed = "s" => since = 0
  /\ Stopped /\ vector = 1 => resumed = "s" /\ since = 1
=============================================================================
