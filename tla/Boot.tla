-------------------------------- MODULE Boot --------------------------------
(***************************************************************************)
(* boot/stage2_entry.asm and boot/stage2.c: the PICs are remapped, the     *)
(* interrupt descriptor table is filled, interrupts are allowed, .bss is   *)
(* cleared and the main program brings up one part after the other, while  *)
(* the PICs, the CPU and an NMI interrupt it wherever they may. The CPU    *)
(* and the PICs are modelled from the registers this code programs. Idt    *)
(* has the inside of idt_common_isr, which is one step here; Startup has   *)
(* the next-state relation, with the boot sector in front.                 *)
(***************************************************************************)
EXTENDS Naturals, Sequences, FiniteSets

CONSTANTS
  Lines,        \* the interrupt lines that are used
  Exceptions,   \* the vectors the CPU raises by itself, 2 (NMI) among them
  Claimed,      \* the vectors of the devices pci_init registers handlers for
  MaxRaises,    \* bound: how often a line is raised
  MaxFaults     \* bound: how many exceptions there are

BootAssumption ==
  /\ Lines \subseteq (0 .. 15) \ {2} /\ Exceptions \subseteq 0 .. 31
  /\ Claimed \subseteq 33 .. 47 /\ MaxRaises \in Nat /\ MaxFaults \in Nat

VARIABLES
  pc, di, esi,      \* the program's point, and the registers of idt_loop
  idt,              \* the gates: [trap, handler]
  iflag,            \* the CPU's interrupt flag
  stack,            \* what the CPU and the handlers have pushed, the top first
  active,           \* the handlers under way, the innermost first: [vec, code]
  bss,              \* "garbage" or "zero"
  registered,       \* vectors with a handler in int_handlers
  base,             \* first vector of the master and of the slave PIC
  irr, inservice,   \* of both PICs: lines requested, and not yet acknowledged
  raises, faults    \* counters for the bounds

program == <<pc, di, esi, idt>>
cpu == <<iflag, stack, active>>
data == <<bss, registered>>
pic == <<base, irr, inservice>>
counters == <<raises, faults>>
vars == <<program, cpu, data, pic, counters>>

Init ==
  /\ pc = "remap" /\ di = 0 /\ esi = 1 /\ idt = <<>>
  /\ iflag = FALSE /\ stack = <<>> /\ active = <<>>
  /\ bss = "garbage" /\ registered = {}
  /\ base = <<8, 112>> /\ irr = {} /\ inservice = {}
  /\ raises = 0 /\ faults = 0

-----------------------------------------------------------------------------
(* The handlers, as the macros make them                                   *)

\* A slip: the table of error codes ends with the page fault.
HasErrorCode_old(v) == v = 8 \/ v \in 10 .. 14

\* int_gen_loop
HasErrorCode(v) == v = 8 \/ v \in 10 .. 14 \/ v = 17 \/ v = 21
Fault(v) == v <= 21 /\ v # 2

\* The vectors of the map, ascending: 0 to 47 without 15 and 22 to 31.
Generated == [k \in 1 .. 37 |-> CASE k <= 15 -> k - 1
                                  [] k \in 16 .. 21 -> k
                                  [] k > 21 -> k + 10]

\* A slip: only the slave is told of its lines.
pic_send_eoi_one(n) == IF n >= 8 THEN <<"eoi_slave">> ELSE <<"eoi_master">>

pic_send_eoi(n) == IF n >= 8 THEN <<"eoi_slave", "eoi_master">> ELSE <<"eoi_master">>

isr_exception(v) ==
  <<"pusha", "common", "popa">> \o (IF HasErrorCode(v) THEN <<"pop">> ELSE <<>>)

isr_int(v) ==
  <<"pusha", "common">> \o (IF v = 2 THEN <<>> ELSE pic_send_eoi(v - 32)) \o <<"popa">>

Code(handler, v) ==
  (CASE handler = "isr" -> IF Fault(v) THEN isr_exception(v) ELSE isr_int(v)
     [] handler = "dummy" -> <<>>
     [] handler = "dummy_ec" -> <<"pop">>
     [] handler = "dummy_pic_slave" -> <<"pusha">> \o pic_send_eoi(8) \o <<"popa">>
     [] handler = "dummy_pic_master" -> <<"pusha">> \o pic_send_eoi(0) \o <<"popa">>)
  \o <<"iret">>

Gate(trap, handler) == [trap |-> trap, handler |-> handler]

\* .use_dummy: the first comparison that fits decides.
UseDummy(v) ==
  CASE v \in {8, 17, 21}  -> Gate(TRUE, "dummy_ec")
    [] v \in 40 .. 47     -> Gate(FALSE, "dummy_pic_slave")
    [] v \in 32 .. 39     -> Gate(FALSE, "dummy_pic_master")
    [] v \in 10 .. 14     -> Gate(TRUE, "dummy_ec")
    [] v = 2              -> Gate(FALSE, "dummy")
    [] OTHER              -> Gate(TRUE, "dummy")

\* interrupt_map ends with an entry for vector 0.
MapEntry(k) == IF k <= Len(Generated) THEN Generated[k] ELSE 0

-----------------------------------------------------------------------------
(* The program: it runs while no handler does                              *)

Runs(point, next) == active = <<>> /\ pc = point /\ pc' = next

\* ICW1 to ICW4 and the masks; a PIC that is initialised forgets its requests.
PicRemap ==
  /\ Runs("remap", "idt_loop")
  /\ base' = <<32, 40>> /\ irr' = {} /\ inservice' = {}
  /\ UNCHANGED <<di, esi, idt, cpu, data, counters>>

\* A slip: every gate leaves interrupts on.
MapGate_trap(v) == Gate(TRUE, "isr")

MapGate(v) == Gate(Fault(v), "isr")

\* A slip: the end of the table is looked for too late.
SetIdtEntry_late ==
  /\ Runs("idt_loop", IF di = 256 THEN "lidt" ELSE "idt_loop")
  /\ idt' = Append(idt, UseDummy(di)) /\ di' = di + 1
  /\ UNCHANGED <<esi, cpu, data, pic, counters>>

\* One turn of idt_loop.
SetIdtEntry ==
  /\ Runs("idt_loop", IF di = 255 THEN "lidt" ELSE "idt_loop")
  /\ IF MapEntry(esi) = di
     THEN idt' = Append(idt, MapGate(di)) /\ esi' = esi + 1
     ELSE idt' = Append(idt, UseDummy(di)) /\ UNCHANGED esi
  /\ di' = di + 1
  /\ UNCHANGED <<cpu, data, pic, counters>>

Lidt ==
  /\ Runs("lidt", "sti")
  /\ UNCHANGED <<di, esi, idt, cpu, data, pic, counters>>

Sti ==
  /\ Runs("sti", "bss")
  /\ iflag' = TRUE
  /\ UNCHANGED <<di, esi, idt, stack, active, data, pic, counters>>

\* "zero init BSS for stage2"
ClearBss ==
  /\ Runs("bss", "init_output")
  /\ bss' = "zero"
  /\ UNCHANGED <<di, esi, idt, cpu, registered, pic, counters>>

\* stage2_main, call by call. pit_init registers the timer's handler, pci_init
\* those of the controllers; sleep needs ticks, which Pit is about.
Calls == <<"init_output", "pit_init", "serial_init_port", "init_memory",
           "uhci_init", "pci_init", "loop">>

Call(k) ==
  /\ Runs(Calls[k], Calls[k + 1])
  /\ registered' = registered \cup
       (CASE Calls[k] = "pit_init" -> {32} [] Calls[k] = "pci_init" -> Claimed [] OTHER -> {})
  /\ UNCHANGED <<di, esi, idt, cpu, bss, pic, counters>>

Program ==
  \/ PicRemap \/ SetIdtEntry \/ Lidt \/ Sti \/ ClearBss
  \/ \E k \in 1 .. Len(Calls) - 1 : Call(k)

-----------------------------------------------------------------------------
(* The PICs and the CPU                                                    *)

Raise(l) ==
  /\ l \notin irr /\ raises < MaxRaises
  /\ irr' = irr \cup {l} /\ raises' = raises + 1
  /\ UNCHANGED <<program, cpu, data, base, inservice, faults>>

MasterLine(l) == IF l >= 8 THEN 2 ELSE l
Vector(l) == IF l >= 8 THEN base[2] + l - 8 ELSE base[1] + l

\* No line of the same or a higher priority waits for its EOI.
Open(l) ==
  /\ \A k \in inservice : k < 8 => MasterLine(l) < k
  /\ l >= 8 => \A k \in inservice : k >= 8 => l < k

Before(k, l) == MasterLine(k) < MasterLine(l) \/ (MasterLine(k) = MasterLine(l) /\ k < l)

\* The CPU pushes flags and return address, and goes through the gate.
Enter(v, code) ==
  LET gate == idt[v + 1]
  IN  /\ stack' = code \o <<IF iflag THEN "frame_on" ELSE "frame_off">> \o stack
      /\ active' = <<[vec |-> v, code |-> Code(gate.handler, v)]>> \o active
      /\ iflag' = (iflag /\ gate.trap)

Deliver(l) ==
  /\ iflag /\ l \in irr /\ Open(l)
  /\ \A k \in irr : Open(k) => ~Before(k, l)
  /\ Enter(Vector(l), <<>>)
  /\ irr' = irr \ {l} /\ inservice' = inservice \cup {l, MasterLine(l)}
  /\ UNCHANGED <<program, data, base, counters>>

\* A line that is dropped before it is delivered shows up as the PIC's last
\* line, which is not in service; the slave's request is, on the master.
Spurious(l) ==
  /\ iflag /\ l \in irr /\ Open(l)
  /\ Enter(IF l >= 8 THEN base[2] + 7 ELSE base[1] + 7, <<>>)
  /\ irr' = irr \ {l}
  /\ inservice' = IF l >= 8 THEN inservice \cup {2} ELSE inservice
  /\ UNCHANGED <<program, data, base, counters>>

\* The vectors that come with an error code.
WithCode == {8, 10, 11, 12, 13, 14, 17, 21}

\* An instruction faults, or an NMI arrives, which no other NMI interrupts.
Exception(v) ==
  /\ faults < MaxFaults /\ pc \notin {"remap", "idt_loop", "lidt"}
  /\ v = 2 => \A k \in 1 .. Len(active) : active[k].vec # 2
  /\ Enter(v, IF v \in WithCode THEN <<"ec">> ELSE <<>>)
  /\ faults' = faults + 1
  /\ UNCHANGED <<program, data, pic, raises>>

-----------------------------------------------------------------------------
(* The instructions of the innermost handler                               *)

Next1(instr) ==
  /\ active # <<>> /\ Head(active[1].code) = instr
  /\ active' = [active EXCEPT ![1].code = Tail(@)]

Pusha ==
  /\ Next1("pusha") /\ stack' = <<"regs">> \o stack
  /\ UNCHANGED <<program, iflag, data, pic, counters>>

\* popa and add esp, 4
Pop ==
  /\ Next1("popa") \/ Next1("pop")
  /\ stack' = Tail(stack)
  /\ UNCHANGED <<program, iflag, data, pic, counters>>

\* idt_common_isr looks the vector up in int_handlers and prints "No handler
\* for INT" if it has none; with .bss not cleared the table holds anything.
CommonIsr ==
  /\ Next1("common")
  /\ UNCHANGED <<program, iflag, stack, data, pic, counters>>

\* The highest line in service is done.
Highest(lines) == {l \in lines : \A k \in lines : l <= k}
Eoi(instr, lines) ==
  /\ Next1(instr)
  /\ inservice' = inservice \ Highest(inservice \cap lines)
  /\ UNCHANGED <<program, iflag, stack, data, base, irr, counters>>

Iret ==
  /\ active # <<>> /\ Head(active[1].code) = "iret"
  /\ active' = Tail(active) /\ stack' = Tail(stack)
  /\ iflag' = (Head(stack) = "frame_on")
  /\ UNCHANGED <<program, data, pic, counters>>

Handler ==
  \/ Pusha \/ Pop \/ CommonIsr
  \/ Eoi("eoi_master", 0 .. 7) \/ Eoi("eoi_slave", 8 .. 15)
  \/ Iret

Hardware ==
  \/ \E l \in Lines : Raise(l) \/ Deliver(l) \/ Spurious(l)
  \/ \E v \in Exceptions : Exception(v)

-----------------------------------------------------------------------------
IsFrame(item) == item \in {"frame_on", "frame_off"}
Irq(h) == h.vec \in 32 .. 47

\* The table has 256 gates, registers keep their widths.
TypeOK ==
  /\ di \in 0 .. 256 /\ esi \in 1 .. Len(Generated) + 1 /\ Len(idt) = di
  /\ iflag \in BOOLEAN /\ bss \in {"garbage", "zero"}
  /\ \A k \in 1 .. Len(stack) : IsFrame(stack[k]) \/ stack[k] \in {"ec", "regs"}
  /\ registered \subseteq 0 .. 47 /\ irr \subseteq Lines /\ inservice \subseteq 0 .. 15

\* Every handler, dummy or not, takes off the stack exactly what the CPU and
\* itself have put there: its iret finds the frame of its own interrupt, also
\* when handlers interrupt each other, and the program gets its stack back.
StackBalanced ==
  /\ active # <<>> /\ Head(active[1].code) = "iret" =>
       /\ IsFrame(stack[1])
       /\ Cardinality({k \in 1 .. Len(stack) : IsFrame(stack[k])}) = Len(active)
  /\ active = <<>> => stack = <<>>

\* When the last handler has returned, no line waits for its end of interrupt
\* on either PIC, and interrupts are on again: the next one can come.
AcknowledgedOnReturn ==
  active = <<>> => inservice = {} /\ (iflag <=> pc \notin {"remap", "idt_loop", "lidt", "sti"})

\* Handlers of the PICs' interrupts never interrupt each other: idt_common_isr,
\* the drivers' handlers and print_string are not entered twice by them, also
\* when the outer one was interrupted by an exception whose gate is a trap.
IrqsDoNotNest ==
  Cardinality({k \in 1 .. Len(active) : Irq(active[k])}) <= 1
=============================================================================
