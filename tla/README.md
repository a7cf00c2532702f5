# Verification of USBLoader

TLA+ models of USBLoader, an experimental bootloader that starts from a floppy,
enters 32 bit protected mode, finds UHCI controllers on the PCI bus and prints
what the USB devices say of themselves. The program is single threaded with
interrupts; its hard parts are the heap, the interrupts that fall between any
two instructions, and the USB controller that reads and writes memory by DMA
while the driver runs.

## Inventory

| Component | State | Operations | Hard parts |
|---|---|---|---|
| Heap (`mem/mem.c`) | free list inside the heap, a header below each object | `init_memory`, `memalloc`, `memalloc_aligned`, `memfree` | splits at both ends of a block, padding kept with objects, merges, unsigned arithmetic |
| Byte helpers (`mem/mem.c`) | none | `memcopy`, `memfill`, `scopy` | none |
| Timer (`arch/pit.c`) | `timer_ms_left` | `pit_init`, `sleep`, `pit_timer_isr` | test and `hlt` are two steps |
| Interrupt lists (`arch/idt.c`) | `int_handlers[48]`, lists of handlers | `idt_reg_handler`, `idt_common_isr` | registration is interrupted by dispatch; shared lines |
| UHCI transfers (`drivers/usb/uhci.c`) | `pending_queue`, queue head, descriptors, `done` | schedule, interrupt handler, wait, delete | driver, handler and controller share memory without locks |
| UHCI control requests (`uhci.c`) | a chain of descriptors | `uhci_create_td_control` | packet counts, toggles, buffer offsets, bit fields |
| UHCI bring-up (`uhci.c`) | controller and port registers, heap objects of a device | `uhci_reset`, `uhci_init_frame_list`, `uhci_enable_device_on_port`, `pci_dev_init_cb` | polling with timeouts, error paths, devices at address 0 |
| PCI (`drivers/pci/pci21.c`) | `drivers[3]`, a `struct pci_dev` per function | register, enumerate, destroy | who owns a `pci_dev`; function numbers that alias |
| First stage (`boot/stage1.asm`) | registers | floppy read loop | roll-overs of offset, segment, sector, head and cylinder |
| Second stage entry (`boot/stage2_entry.asm`) | IDT, PICs, `.bss` | IDT fill, remap, handlers, `sti` | four sets of vectors that must agree; nesting |
| Main program (`boot/stage2.c`) | none | calls the above in order | interrupts between any two calls |
| Text output (`drivers/display/print.c`) | cursor, screen, static number buffer | `print_string` | called from interrupts too |
| GDB stub (`utils/i386-stub.c`) | saved registers, fault routine, packet buffers | exception entry, commands, resume | faults of its own accesses; stepping through interrupts |
| Serial port, port I/O, tests | registers | see sources | the serial port is used by the GDB stub alone, whose calls are commented out in `stage2.c` |

How they interact. The boot sector loads stage 2 and jumps to it. Stage 2 remaps
the PICs, fills the IDT and allows interrupts; `stage2_main` then sets up text
output, the timer, the heap, registers the UHCI driver and enumerates PCI. For
every UHCI controller the enumeration calls `pci_dev_init_cb`, which resets the
controller, hands it a frame list whose 1024 entries point to one queue head,
registers `uhci_isr`, and for each port with a device runs a handful of control
transfers one after the other. A transfer is a chain of descriptors from the
heap; the driver hangs it on the queue head, adds an entry to `pending_queue` and
halts until the interrupt handler has set the entry's flag. The timer's interrupt,
every millisecond, ends each halt. Interrupt handlers never allocate.

What makes each part correct, and what could go wrong where no test looks, is in
`PROJECT.json` under `hazards`, each at its line with the properties that cover
it.

## Modules

| Module | Models | How |
|---|---|---|
| `MemSpec` | what `mem.h` promises | objects with extents; no list, no headers |
| `Mem` | `mem.c` | the list as structs at addresses; each turn of a list walk is a step, the straight-line rest of a function is one step |
| `Pit` | `sleep`, `pit_timer_isr` | test, `hlt` and halt are steps; a tick or another interrupt may come at each |
| `Idt` | `idt_reg_handler`, `idt_common_isr` | both step by step through the list; devices keep a line asserted until served |
| `Interrupts` | `Pit` and `Idt` composed | `pit_timer_isr` is called through the list of vector 32; every interrupt ends the main program's halt |
| `UhciTransfer` | schedule, `uhci_isr`, wait, delete; the controller | each access of the driver to shared state is a step, and so is each entry `uhci_isr` looks at; the controller moves between any two |
| `UhciControl` | `uhci_create_td_control` and what bus and device make of it | the chain as a sequence of records; one step per stage or packet |
| `UhciInit` | `pci_dev_init_cb`, `uhci_reset`, `uhci_enable_device_on_port` | a step per register access or poll; ports and plugs move by themselves; every allocated object by name; a control transfer is one step |
| `Pci` | `pci21.c` | a step per slot, function and driver |
| `BringUp` | `Pci` and `UhciInit` composed | the offer to the UHCI driver is the call of `pci_dev_init_cb`, and what it returns decides who owns the `pci_dev` |
| `LoadSpec` | what the boot sector owes stage 2 | sectors to places, then a jump |
| `Stage1` | `stage1.asm` | the registers of the read loop; the BIOS reads or fails |
| `Boot` | `stage2_entry.asm`, `stage2.c` | the handlers the macros generate, instruction by instruction; PICs and CPU raise what they may |
| `Startup` | `Stage1` and `Boot` composed | the jump hands over a machine with whatever requests the BIOS left |
| `TextOutput` | `print_string` of `print.c` | each access to cursor, screen and VGA port is a step, for the main program and for a handler inside it |
| `GdbStub` | `i386-stub.c`, `gdbstub.c` | exception entries, commands, the byte-wise accesses that may fault, resume; a debugged program of a few instructions and the timer |
| `MemProofs` | | theorems about `Mem`, and that it implements `MemSpec` |
| `InterruptsProofs` | | theorems about `Pit`, carried into `Interrupts`, and about the lists |
| `UhciTransferProofs`, `UhciControlProofs` | | theorems about `UhciTransfer` and `UhciControl` |
| `StartupProofs` | | theorems about `Stage1`, that it implements `LoadSpec`, about `Boot`'s handlers, PICs and stack, and about `Startup` |
| `GdbStubProofs` | | theorems about `GdbStub` |
| `BringUpProofs` | | the invariants of `UhciInit` and of `Pci`, and theorems about `BringUp` |
| `TextOutputProofs` | | theorems about `TextOutput` |
| `MC...` | | instances for TLC |

Names follow the source. The operators commented as slips (`can_merge`'s
neighbour `coalesce_backwards`, `DecrementLate`, ...) are what a plausible mistake
would turn a definition into; they take no part in the models and are there to
show that each property notices.

### Mem

`fb[a]` is the `struct free_block` at address `a`, `hd[a]` the header at `a`,
`live[p]` the object a caller holds. Addresses and sizes are bytes, and pointer
arithmetic that may wrap does so at `Word`. `memalloc_aligned` writes several
structs; no interrupt handler calls the allocator, so `MemallocTake` is one step.
`coalesce_front` models the odd call `coalesce_blocks(&prev, &curr, &curr->next)`,
whose third argument aliases a field of the second: the theorem `SplitAlone` shows
that the merge which would cut the list does not happen. Callers free only what
they hold (`mem.h` demands it) or NULL.

### Pit, Idt and Interrupts

The counter is a `uint32_t`; `asked` and `ticks` are history variables, the latter
stopped at `asked + 1`, beyond which nothing depends on it. `order` records the
finished registrations of a vector; `ListIsOrder` ties the linked list to it in
every state, also between the two stores of a registration. `next` starts as
anything for handlers that come from `memalloc`. Lines are PCI interrupt lines: 255
wraps to vector 31, where nothing arrives; a vector beyond 47 is ignored. `due` is
what `NoFalseAlarm` is about: the registered devices that asserted the line when
the interrupt came.

In `Interrupts` the main program is one thread that sleeps or registers. Its steps
wait while a handler runs (interrupt gates); a handler's step that concerns the
timer is `pit_timer_isr`, and every entry of an interrupt ends a halt.

### UhciTransfer

`td` and `te` hold the descriptors and entries that are allocated; freeing removes
them from the domain, so a pointer outside it dangles. The list behind
`pending_queue` is a sequence, with the code's way of unlinking: the first entry
takes the rest of the list with it. Callers run one transfer at a time, so the
list never has a second entry; the branches for that case are modelled all the
same, and `NothingDropped` and `EndptrFresh` are what they need. The controller
marks a descriptor inactive, then moves the queue head, and raises its status at
the end of the frame; a failed descriptor stays at the queue head. These are the
rules of the UHCI design guide the driver relies on. An interrupt of another
device on the line while USBSTS is 0 makes `uhci_isr` return false, which is
`OtherInterrupt`, like the timer's.

### UhciControl

`Submit` builds the chain for the requests the driver makes: 8 bytes with an
unknown packet size, SET_ADDRESS without data, descriptors of known length. The
device answers with packets of its own size until the length is reached and
accepts any packet as the status stage, as emulators do. Every data descriptor allows a
whole packet, also where less is left of the buffer (a string's first byte,
`uhci.c:785`); the device of the model sends no more than it was asked for, so
`BufferFilled` is about where the bytes land and not about room behind the buffer.

### UhciInit, Pci and BringUp

`heap` holds the allocated objects by name. `uhci_init_frame_list` stores through
`dev->frame_list_base`, which nothing sets (`uhci.c:477`): in the model the store either
hits nothing in use, or the run goes to `astray`, where the CPU does nothing any more and
`MemoryHeld` and `BringUpEnds` claim nothing. A status register that is read and written
back takes two steps (`ReadStatus` and `PortReset`, `ReadChange` and `ClearChange`), and a
plug may come between them. `addr` is the address each port's device
answers: `SILENT` before its reset, 0 after it, then what SET_ADDRESS gave it. `stray`
records that the driver gave up a device which stays enabled at address 0: a port
that came up after its poll had timed out (`uhci.c:505`), or one whose first requests
failed. `AddressesDiffer` excepts those; it does not hold for them.

`Pci` models a machine as the set of functions that exist and the devices that
decode the function number; a device that does not answers for function 0 under
every number. A function of kind `Reserved` exists but has class code 0xff: it is filtered
like an absent one, and its struct stays allocated without an owner (`Leaked`). `claimed`
are the `pci_dev` structs a driver accepted, `heap` those allocated; `StructsOwned` says
exactly which they are. The composition adds what neither half can say: the struct that a running
controller's handler points to is never the one `pci_read_device` frees.

### Stage1, Boot and Startup

`Stage1` has the four registers that name a sector and the two that name a place;
`memory` is what the BIOS has written where. `LoadSpec` says which sector belongs
where; `ImplementsLoadSpec` is the refinement. It holds for sizes of at most 127 sectors
(`SizeFits`). The linker accepts up to 65535 bytes; from 65025 on the rounding up overflows
(`stage1.asm:98`), the loop starts with a count of 0 and reads on past stage 2
(theorem `LargerWraps`).

In `Boot`, `stack` holds what CPU and handlers push, the frame of an interrupt as one
item, `active` the instructions each handler under way has left. `HandlersRestore`
is about the four sets of vectors in `stage2_entry.asm` (with a handler, with an
error code, with an EOI, with a trap gate), which are four separate lists in the
source. Both PICs are modelled with priorities, in-service bits, the cascade and
spurious interrupts. `bss` and `registered` record what the main program has done
to the table of handlers, so that the window in which interrupts are on and `.bss` is not
cleared is visible; no step reads them and no property but `TypesOK` names them.

### TextOutput

A reference text, extended by each character the program prints, against which the
screen is compared; scrolling is the code's own copy loop over twice the height of the
screen, of which the lower half stays blank. The hardware cursor is the 16 bit position, written one
byte after the other through the index register. A handler may print at any step. If it
cuts into a character, the text itself is torn (`torn`) and nothing is claimed
(constraint `Whole`). If it cuts into the main program's `move_vga_cursor` (`Moving`), the
text stays right and `overtaken` records the overlap: the main program goes on to write
the halves of a place that is no longer the last, or a half to the register the handler
left selected. `HardwareCursor` says what can come of it: the main program's place, or its
high half with the low half of the true one, until the next print puts it right.

### GdbStub

The program under the debugger is a few one byte instructions: `nop` changes EAX,
`int3` is the breakpoint, `load` faults. `where` is what the CPU runs, `frame` what an
interrupt returns to, `registers` what `catchException` saved. A fault of the stub's
own access goes through `mem_fault` to `set_mem_err`. Interrupts stay on in the stub
(the trap gates of `gdbstub.c`; the comment at `i386-stub.c:43` asks for interrupt
gates), so the timer may interrupt it; `lost` would be a second exception that takes
the stub's one stack. The debugger sends any command at any prompt, within what a
debugger may ask: `M` writes program text or data, not the handler. A program counter
past the end of memory faults when the instruction is fetched (`Fetched`).

## Runs

| Run | Distinct states | What it shows |
|---|---|---|
| `mem` | 266620 | all properties of `Mem`, the refinement of `MemSpec`, termination of every call |
| `interrupts` | 79944 | `sleep` through the lists is never early, misses at most one wake-up, returns; list and dispatch order; no device starved on a shared line |
| `uhci_transfer` | 2875 | memory ownership, completion and order, with devices that answer or stall; answered transfers end |
| `uhci_control` | 269 | chains fit what devices send; the buffer is filled in order |
| `bring_up` | 131598 | ownership on every path of scan and bring-up that the store at `uhci.c:477` has not led astray, one address per device, changes kept, the scan ends |
| `startup` | 162768 | the load is complete before the jump; handlers restore everything; no line is left waiting |
| `text_output` | 2378082 | the screen shows what was printed; the hardware cursor is where the text ends, or at one of the places an interrupted `move_vga_cursor` leaves |
| `gdb_stub` | 1044210 | faults are told apart and reported, a step is one instruction, saved registers are safe |
| `uhci_stall_ends` | | a stalled transfer never ends (finding) |
| `uhci_status_fails` | | a failed status stage is a success (finding) |
| `uhci_status_qelp` | | after it the queue head points to freed memory (finding) |
| `uhci_null_packet` | | the null packet's length is cut to 64 bytes (finding) |

Bounds, and why they are enough:

- `mem`: 56 bytes of heap hold up to three objects with their headers, which is
  what a three way merge needs. Sizes 0, 1, 8, 20 and alignments 0, 1, 32, 64 give
  splits at the end, at the front, at both, rests of every length below 8, and the
  malformed requests. `Word` = 128 puts an alignment at half the address space.
  The theorems lift all of this to every heap.
- `interrupts`: delays 0 to 3: the loop has three points, so an interrupt falls at
  each of them with the counter at 0, 1 and more; `Word` = 4 makes a wrap visible.
  Two controllers on one line, the timer, one unconnected and one out-of-range
  line. `MaxRaises` = 1: a device raises its line once; losing an interrupt
  needs no more, but a neighbour that raises its line again and again is not covered.
- `uhci_transfer` and its findings: chains of two to four descriptors in seven cells
  and three entries, so that a chain reuses cells of the one before. The number of
  transfers is not bounded.
- `uhci_control`: lengths on both sides of each packet boundary up to the longest
  string descriptor, all packet sizes of USB 1.0.
- `bring_up`: two buses of two devices with three functions, every machine of up to
  three functions without a controller and four with one or two or with a reserved class; two ports; polls
  of two turns (`ResetWaits`, `EnableWaits`), enough for an answer before, at and
  after the last; `MaxPlugs` = 2, a device that goes and one that comes.
- `startup`: sizes of stage 2 on either side of a sector, a track, a cylinder, the
  64 KiB offset, and the largest that fits; lines 0 and 11 (one of each PIC) and their
  spurious vectors; an exception with an error code, one without an entry and the
  NMI; `MaxRaises` = `MaxFaults` = 2, which nest in every order. A line that is never
  quiet, and could keep lower ones from being served, is not covered.
- `text_output`: three lines of three columns, and bytes of four values, so that the
  cursor takes up both halves: a text of a character, of a line, of
  more than a line, and a handler's message with and without a newline.
- `gdb_stub`: an image with a loop of two instructions, one of which faults, the
  handler and a byte of data; accesses of up to two bytes, also across the end of
  memory. `since` stops at 2.

Deadlock is not checked where the system may stop: the loader hangs by design after
an error, and a machine whose bounded events are used up has nothing left to do.

Fairness. `mem`: a call runs on. `interrupts`: handlers return; the main program gets
to run between interrupts again and again, and a line that stays asserted is taken
in the end although others are served in between (strong fairness, since an
interrupt in progress disables both); ticks keep coming, as the PIT is a free
running rate generator. `uhci_transfer`: the CPU, the controller and the timer go on,
and a device answers or fails each descriptor in the end; nothing is assumed about
a wake-up arriving in time. `bring_up`: the CPU runs and a request returns (what
`interrupts` and `uhci_transfer` show); nothing of controllers and ports. `startup`:
the CPU runs, the BIOS returns, and an interrupt that may be taken is.

## Findings

Four places where the code does not do what its comments or messages say, each
with a run that shows it; see `findings` in `PROJECT.json`. In short: a stalled
setup or data stage makes `uhci_wait_entry_complete` wait for ever, so no
"Failed to ..." message can appear; a failed status stage counts as success, and
leaves the queue head on freed memory; `UHCI_TD_MAX_LEN` cuts the null packet's
0x7ff to 0x3f.

Other observations, which no run states:

- `uhci_reset` decides by its counter alone, so a controller that leaves its reset
  during the last wait is reported as timed out (`uhci.c:448`, message at 866).
- The heap of 16 KiB has room for three frame lists of 4 KiB; on a chipset with four
  UHCI functions the fourth `memalloc_aligned` at `uhci.c:463` returns NULL, which
  nobody looks at.
- `sti` comes before `.bss` is cleared (`stage2_entry.asm:185`, `idt.c:8`): an
  interrupt in between reads a table of handlers that is not initialised.
- A timer interrupt before `pit_init` prints "No handler for INT 32" (`idt.c:29`),
  against "Do not warn for the timer INT" (`idt.c:46`).
- `i386-stub.c:43` asks for interrupt gates, `gdbstub.c:17` makes trap gates.
- A port that comes up late, or a device whose first requests fail, stays enabled at
  address 0 next to the one brought up after it (`uhci.c:505`, `uhci.c:927`).
- The `usb_dev` of a device whose second port reset fails is neither freed nor kept
  (`uhci.c:934`).
- `dev->frame_list_base` is not initialised when `uhci_init_frame_list` stores through it
  (`uhci.c:477`); where the store goes depends on what lay in the heap.
- The `struct pci_dev` of a function with class code 0xff is never freed
  (`pci21.c:97`).
- A port whose plug is pulled or put in between the read at `uhci.c:514` and the write back
  loses that change.
- A stage 2 of more than 127 sectors links but is not loaded (`stage1.asm:98`).
- Data descriptors allow a whole packet behind a buffer of one byte (`uhci.c:785`); a device
  that sends more than it was asked for would write past it.

## Proofs

`tlapm` proves the theorems listed in `PROJECT.json`, for all values of the
constants that satisfy the modules' assumptions: the heap is an interval above
address 0 that holds at least one free block and ends below `Word`; alignments are
powers of two up to half of `Word` and divide it; delays fit in the counter; lines
are bytes; stage 2 links (1 to 65535 bytes); no driver is registered
twice, and no other driver is for the kinds of one that enables bus mastering
(`DriverAssumption`; `uhci_init` registers the only driver there is); the columns and the
rows of the screen each fit in a byte (`ScreenAssumption`).

Mem. The properties are not inductive by themselves, so `IInv` joins: `TypeOK`;
that every block is at least 8 bytes, the size of the struct it starts with
(`BlocksHoldStruct`, without which splitting could underflow); the parts of
`HeapPartition` and `FreeListSound`; and that the cursors of a call in progress are
neighbours in the list with everything before them too low or too short
(`CursorsInList`, which says that the walk has stopped at the right place).
`FreeListSorted` avoids reachability: it says that each link names the next higher
free block, which makes every step a matter of intervals. The steps that matter are
`MemallocTake`, by cases on the two splits, and `MemfreeInsert`, by cases on the two
merges. `Implementation` maps objects and calls by the identity; its one hard step is
that a refusal means no roomy gap, for which a gap of `MemSpec` is shown to lie in a
free block that the walk would have taken.

Pit. `CountsDown` with types is inductive. `OneNapTooMany` needs that once an extra
halt was taken the counter is 0 and stays 0, so the loop cannot reach the `hlt`
again (`NapInv`).

Interrupts. `InterruptsSpec => Spec` of `Pit`, step by step, carries Pit's theorems
into the composition. For the lists, `ListIInv` joins `ListIsOrder` with: a handler is
in the list of its own vector only (`OwnVector`, so that a store to one list leaves the
others alone); the handler being registered is in no list, has no successor, and the
walk's cursor is in its list (`Registering`); the handlers called so far are a
beginning of the list and none of them was due (`Calling`). `Extended` is the one hard
step, the append to a list, shared by both places that link. `NoFalseAlarm` follows
because a due device keeps its line asserted until its own handler is called.

UhciTransfer, for any number of cells and entries and any chain lengths, under
`EarlyAssumption`: no status stage fails (one that does is the finding on
`QelpIsElement`). The
invariant says in which phase a scheduled transfer is: `Running`, with the descriptors
before the queue head served; `Moving`, between the controller's two writes; `Finished`,
with its completion in the frame, in the status register, or taken; or `Stuck`. It joins
what memory holds (`Descriptors`, `Entry`) and what `uhci_isr` has ahead of it
(`Handler`). Each step keeps the phase or moves it to the next, and the queue is empty
outside of them, which is why the driver's reading of `qelp` and the emptied
`pending_queue` do no harm.

UhciControl, for every length a request can have and every packet size. `IInv` says that
the chain is the one built for this request (`Built`) and relates the descriptor the
controller has reached to what the device has sent: before data packet `k` exactly
`k` full packets, with the toggle of `k`'s parity, and the bytes so far at their places
in the buffer (`Progress`). The one fact of arithmetic it rests on is that the rounded up
quotient is the number of packets a device needs (`Ceiling`). No two packets overlap
and the last one ends where the request ends, with a device that sends no more, so `BufferFilled` is `Progress` past the
status stage.

GdbStub, for every image, program, debugger and access length, under
`HandlerAssumption`: the code of the timer's handler is the instruction it is in the
image, and no `M` writes it. `IInv` joins: the timer's handler is entered from the
program or from the stub and never faults (`CpuInv`), so that the stub is not entered a
second time; while an access is under way, what was read is what memory holds, what
was written is there, and `mem_err` means that the next byte cannot be accessed
(`Underway`); `mem_fault_routine` is set exactly then (`StubInv`), which is what tells
the stub's fault from the program's; and the trace flag of the program, wherever its
registers are at the moment, is set exactly after `s`, with no instruction run since
(`StepInv`). The saved flags are the point of `ProgramRegs`: a timer interrupt clears the
trace flag of the CPU, not that of the program.

Stage1. After `k` sectors the registers are those a closed form computes from `k`
(`RegsAt`), and memory is the image of the first `k` sectors; that no sector overwrites
another is that places of different sectors differ. `Implementation` follows for a stage 2
of at most 127 sectors; for larger ones `TypeCorrect` still holds and `LargerWraps` says
that the count of sectors is 0 when the loop begins. Then
`LoadedBeforeStage2` carries it into `Startup` by `StartupSpec => Spec`.

Boot, for every set of lines, exceptions and registered handlers, and without a limit
on the depth of nesting. What `HandlersRestore` and `IrqsDoNotNest` say of the moment of
an `iret` depends on everything below it on the stack, so `Stage2IInv` describes the whole
stack: `Framed` cuts it into the parts that the handlers under way own, innermost first,
each as long as what the rest of its instructions takes off (`Held`) and ended by its
frame, with no frame elsewhere. The rest of a handler is one of sixteen sequences
(`Codes`), and an instruction takes one to the next (`CodeStep`). `IrqOff` says that
from a PIC's handler inwards every frame was pushed with interrupts off, so no `iret` of
an exception turns them on: this is why a trap gate on top of an interrupt gate does no
harm. `OneIrq` follows from it, and `Owed` ties the lines in service to the end of
interrupt instructions the one handler still has: at most the slave's line and 2 before
the slave's, at most one of the master's before the master's. A step changes only the top
of the stack, but moves every part's place: `EnterFrames` (a handler comes on top),
`Regrown` (the innermost grows or shrinks) and the return of `Iret` are the hard steps.
`Stage2Steps` shows that each step of the composition is one of `Boot` or changes only
what the BIOS left pending.

BringUp, for every bus, set of machines, list of drivers, number of ports and of polls.
The invariant has a half for each file. `UInv` is about the call in progress: the
driver's point fixes which port it is at and what runs (`Where`, `Runs`), which objects
exist (`Allocated`: the controller's from `start` on, the handler's from its
registration on, text buffers only while a string is shown, and structures of devices up to the
port it is at), that a port is enabled only after its reset (`Bus`), and that only the
driver's own port, and only before SET_ADDRESS, has an enabled device at address 0
(`Addressed`, which makes `AddressesDiffer` inductive). The four register writes share one
lemma each way, `WriteEffect` and `WriteSteps`. `PciInv` is about the scan: where it is
(`Scanning`), that the table is a beginning of the calls (`Table`), and that the functions
which the loops have passed have had all their offers, the one looked at those before driver
`i`, and no other any (`Offered`). `Passed` is the order of the scan, and that a step passes
exactly the function it is done with is the lemma `Passes`; it needs that a function number
below `max_funcs` selects its own function (`DevItself`), which rests on the bit fields of
an address coming back out (`Selection`). The structs that are allocated are those claimed,
the one under offer and those lost with a filtered function (`Claims`). Between two calls the controller's
variables rest; during one the scan waits (`Calling`); and the controllers left alive are
the claimed functions of their kind (`Living`, where `DriverAssumption` is used).

TextOutput, for every size of the screen and all strings. The properties claim something
only while no handler has cut into a character, so `IInv` says that until then a handler
runs only while the main program is between two characters or in `move_vga_cursor`
(`CutIn`), and for each point of the thread whose turn it is what it still owes (`At`): the
text has gone on and the cursor has not, the text has a new line and the screen is one
behind, the index register is the thread's and one half is written (`HalvesMake`: the halves make the
position again, because a place on the screen fits in 16 bits). A main program that was
overtaken owes less: of the low half either value, of the high half that of its own place
(`LowWritten`, `Left`). Being one behind
(`OneBehind`) has two forms, a cursor one line above the end of the text and, on a full
screen, a line too many at the top; `TestRow` tells them apart, and `LineAdded`, `CharPut`
and `Scrolled` are what the three changes of the screen do to it. They rest on the
cells of different places being different (`CellOne`). `CursorOnScreen` is `TypeOK` under
`~torn`: after a handler has cut in, the cursor may leave the line, and nothing is claimed.

The measures behind the liveness properties. That something happens in the end needs
fairness, which is out of the prover's reach; that every step there is goes forward, and
that somebody always has a next one, is safety, and is proved for all constants.

- `CallsWindDown` (behind `CallsReturn`): a turn of `memalloc`'s or `memfree`'s loop passes
  at least `FreeSize` bytes of the heap, because the blocks of the list are disjoint and
  none is smaller.
- `DispatchEnds` and `SleepWindsDown` (behind `SleepEnds` and `DeviceServed`): an interrupt
  has as many calls ahead as its list has handlers not yet called, and no step of anybody
  adds one; the counter of `sleep` only falls, at every call of the timer's handler, and
  once it is 0 the loop moves only towards its end, from whichever of its points
  the last tick found it at.
- `SomebodyMoves` and `TransferMovesOn` (behind `AnsweredTransferEnds`), under
  `EarlyAssumption`: while a driver waits and no descriptor has failed, a descriptor, a
  link, the end of the frame, the status register or `uhci_isr` comes next, and each such
  step takes the transfer from one phase of `IInv` to the next or further inside it.
  A device that never answers and a failed descriptor are what is left to wait for.
- `BringUpMovesOn` and `DeviceListens` (behind `BringUpEnds`): `Place` orders the scan by
  bus, device, function and driver, and inside a call the bring-up by port, point and turn
  of a poll; every step of the CPU takes it further and no event of a controller or
  device takes it back. `astray` is an end of the order like the others. While no plug is
  pulled, a device answers each request that is about to be waited for (`Listening` says at
  which address it is at each point), so the wait without end in
  `uhci_wait_entry_complete` is not entered in vain.
- `LoaderEnds`, `ProgramMovesOn`, `HandlersWindDown`, `HandlersEndInIret` and
  `NextLineServed` (behind `LinesServed`): the boot sector has at most
  `COMTEST_TRIES` + 257 steps, for a stage 2 that fits; stage 2 has 266 and nothing but them moves it; a handler's
  step returns or leaves one of at most six instructions less; its last instruction is
  the `iret`; and when no handler runs, the first requested line in the PICs' order can be
  delivered at once, because nothing is left to acknowledge and interrupts are on.

No invariant and no action property is only model-checked. Out of the prover's reach, and
left to TLC: the liveness properties themselves (`CallsReturn`, `SleepEnds`,
`DeviceServed`, `AnsweredTransferEnds`, `BringUpEnds`, `LinesServed`), because fairness is
about `ENABLED`, and what recursive definitions compute (`ChainEnd`).

## Not modelled

- The serial port and the packet framing of the GDB stub (`getpacket`, `putpacket`):
  the main program has the calls that start the stub commented out, and nothing else
  uses the port.
- The byte helpers, port I/O (an instruction each), number formatting (`itoa`,
  `wstr_to_str`, `print_pci_dev`), the GDT and the A20 gate, which are set once before
  anything can interrupt.
- The BIOS, the PICs, the PIT, the UHCI controller and USB devices, except as the code
  in `src/` relies on them (marked external in `PROJECT.json`).
- What happens at address 0 when `memalloc` returns NULL: the driver never looks, and
  the models assume room.
- Compiler effects: the flag `done` is not volatile, and an optimising build may keep
  the wait from seeing it; the Makefile asks for no optimisation.
- Test code.

## Plan

Every module listed above is done, with proofs of every invariant that the runs check,
of every action property, and of the progress that each liveness property rests on.
Still open is a wider model of the serial port, should the main program start to use the
GDB stub.
