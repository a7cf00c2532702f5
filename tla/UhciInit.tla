------------------------------ MODULE UhciInit ------------------------------
(***************************************************************************)
(* pci_dev_init_cb of drivers/usb/uhci.c: one UHCI controller is reset,    *)
(* given its frame list and started, and the device on each of its root    *)
(* ports is reset, enabled, given an address and asked what it is. The     *)
(* hardware moves at any time: the controller leaves its reset, ports      *)
(* become enabled, devices are plugged and unplugged. It is modelled from  *)
(* the register layout in uhci.c and the way the driver uses it. A control *)
(* transfer is one step here; UhciTransfer has its inside. What the driver *)
(* allocates is followed object by object. One store of the driver goes to *)
(* an address nobody has set; what the program does after it has hit memory *)
(* in use is not modelled.                                                 *)
(***************************************************************************)
EXTENDS Naturals

CONSTANTS
  PortCount,     \* ports of the controller; 2 on the hardware
  ResetWaits,    \* 100 in uhci_reset
  EnableWaits,   \* 10 in uhci_enable_device_on_port
  Results,       \* what uhci_wait_entry_complete may return
  MaxPlugs       \* bound: how often somebody plugs or unplugs a device

Ports == 1 .. PortCount
uint16_t == 0 .. 65535

InitAssumption ==
  /\ PortCount \in 1 .. 127 /\ MaxPlugs \in Nat
  /\ ResetWaits \in 1 .. 255 /\ EnableWaits \in uint16_t \ {0}
  /\ Results \subseteq BOOLEAN

VARIABLES
  pc, i, timeout, regval, second,  \* the driver: its point, its port, its
                                   \* poll counter, what it read of the port,
                                   \* whether this is the second port reset
  heap,                            \* the objects that are allocated
  hcreset, running, registered,    \* HC_RESET, RUN, and the handler's place
  port,                            \* the port registers
  addr,                            \* the address each port's device answers
  seen_up, stray, plugs             \* history: the port was enabled since its
                                   \* last reset; a device was left at
                                   \* address 0; plug events so far

driver == <<pc, i, timeout, regval, second>>
hc == <<hcreset, running, registered>>
bus == <<port, addr, seen_up, stray, plugs>>
vars == <<driver, heap, hc, bus>>

\* Objects of the controller, and the structure of a port's device.
Object(names) == {<<name, 0>> : name \in names}
UsbDev(p) == <<"usb_dev", p>>

SILENT == PortCount + 1   \* the address of a device that was not reset yet

\* conn CONNECT_STATUS, csc CONNECT_STATUS_CHG, pe PORT_ENABLE, rst RESET;
\* ask: PORT_ENABLE was written and the port is about to follow.
PortRegs == [conn : BOOLEAN, csc : BOOLEAN, pe : BOOLEAN, rst : BOOLEAN, ask : BOOLEAN]
Read(p) == [csc |-> port[p].csc, pe |-> port[p].pe]

\* A controller nobody has touched, and what may be plugged into it.
PowerOn == [Ports -> {[conn |-> c, csc |-> c, pe |-> FALSE, rst |-> FALSE,
                       ask |-> FALSE] : c \in BOOLEAN}]

Init ==
  /\ pc = "probe" /\ i = 0 /\ timeout = 0 /\ second = FALSE
  /\ regval = [csc |-> FALSE, pe |-> FALSE]
  /\ heap = {} /\ hcreset = FALSE /\ running = FALSE /\ registered = FALSE
  /\ port \in PowerOn
  /\ addr = [p \in Ports |-> SILENT]
  /\ seen_up = [p \in Ports |-> FALSE] /\ stray = FALSE /\ plugs = 0

-----------------------------------------------------------------------------
(* The controller                                                          *)

At(p) == pc = p
Goto(p) == pc' = p /\ UNCHANGED <<i, timeout, regval, second>>

\* The device structure, then uhci_reset: the global reset. Devices that are
\* connected report a change afterwards.
Probe ==
  /\ At("probe") /\ Goto("global")
  /\ heap' = heap \cup Object({"uhci_dev"})
  /\ port' = [p \in Ports |-> [port[p] EXCEPT !.csc = @ \/ port[p].conn]]
  /\ UNCHANGED <<hc, addr, seen_up, stray, plugs>>

HcReset ==
  /\ At("global") /\ pc' = "poll"
  /\ hcreset' = TRUE /\ timeout' = ResetWaits
  /\ UNCHANGED <<i, regval, second, heap, running, registered, bus>>

\* The bit is still set: another 10 ms.
PollReset ==
  /\ At("poll") /\ timeout > 0 /\ hcreset
  /\ timeout' = timeout - 1
  /\ UNCHANGED <<pc, i, regval, second, heap, hc, bus>>

\* "UHCI reset timed out"; label fail.
ResetFailed ==
  /\ At("poll") /\ timeout = 0 /\ Goto("failed")
  /\ heap' = heap \ Object({"uhci_dev"})
  /\ UNCHANGED <<hc, bus>>

\* uhci_init_frame_list. It also stores through dev->frame_list_base, which is
\* what memalloc found in the new structure: nobody has set it. The store meets
\* memory that nobody uses, or memory that somebody does; after that anything may
\* happen, and "astray" is where the model ends.
InitFrameList ==
  /\ At("poll") /\ timeout > 0 /\ ~hcreset
  /\ Goto("start") \/ Goto("astray")
  /\ heap' = heap \cup Object({"flist", "qh1ms"})
  /\ UNCHANGED <<hc, bus>>

StartController ==
  /\ At("start") /\ Goto("register")
  /\ running' = TRUE
  /\ UNCHANGED <<heap, hcreset, registered, bus>>

Register ==
  /\ At("register") /\ pc' = "port" /\ i' = 1
  /\ heap' = heap \cup Object({"handler"}) /\ registered' = TRUE
  /\ UNCHANGED <<timeout, regval, second, hcreset, running, bus>>

-----------------------------------------------------------------------------
(* The ports: uhci_enable_device_on_port                                   *)

NextPort == pc' = "port" /\ i' = i + 1 /\ UNCHANGED <<timeout, regval, second>>

\* "Inactive port"
SkipPort ==
  /\ At("port") /\ i <= PortCount /\ ~port[i].csc
  /\ NextPort
  /\ UNCHANGED <<heap, hc, bus>>

Connected ==
  /\ At("port") /\ i <= PortCount /\ port[i].csc
  /\ pc' = "enable" /\ second' = FALSE
  /\ UNCHANGED <<i, timeout, regval, heap, hc, bus>>

PortsDone ==
  /\ At("port") /\ i > PortCount /\ Goto("done")
  /\ UNCHANGED <<heap, hc, bus>>

\* A write to the port register: RESET disables the port and puts its device
\* at address 0; 1 clears the change bit; PORT_ENABLE asks for the port.
Write(r, reset) ==
  /\ port' = [port EXCEPT ![i].csc = @ /\ ~r.csc, ![i].rst = reset,
                          ![i].pe = @ /\ r.pe /\ ~reset,
                          ![i].ask = r.pe /\ ~reset]
  /\ addr' = IF reset /\ port[i].conn THEN [addr EXCEPT ![i] = 0] ELSE addr
  /\ seen_up' = IF reset THEN [seen_up EXCEPT ![i] = FALSE] ELSE seen_up
  /\ UNCHANGED <<stray, plugs>>

\* A slip: the change bit is written back as it was read.
KeepChange_unmasked(r) == r

\* "do not clear the Status Change bit yet"
KeepChange(r) == [r EXCEPT !.csc = FALSE]

\* The port may change between the driver's reads and the writes of what it read.
ReadStatus ==
  /\ At("enable") /\ pc' = "assert"
  /\ regval' = KeepChange(Read(i))
  /\ UNCHANGED <<i, timeout, second, heap, hc, bus>>

PortReset ==
  /\ At("assert") /\ Goto("reset")
  /\ Write(regval, TRUE)
  /\ UNCHANGED <<heap, hc>>

PortRelease ==
  /\ At("reset") /\ Goto("settle")
  /\ Write(regval, FALSE)
  /\ UNCHANGED <<heap, hc>>

PortEnable ==
  /\ At("settle") /\ pc' = "await"
  /\ timeout' = EnableWaits
  /\ Write([regval EXCEPT !.pe = TRUE], FALSE)
  /\ UNCHANGED <<i, regval, second, heap, hc>>

\* A slip: the waits are not counted.
AwaitEnable_uncounted ==
  /\ At("await") /\ timeout > 0 /\ ~port[i].pe
  /\ UNCHANGED vars

AwaitEnable ==
  /\ At("await") /\ timeout > 0 /\ ~port[i].pe
  /\ timeout' = timeout - 1
  /\ UNCHANGED <<pc, i, regval, second, heap, hc, bus>>

\* "Device enablement failed", and "Device enablement failed 2", which keeps
\* the device's structure.
EnableFailed ==
  /\ At("await") /\ timeout = 0
  /\ NextPort
  /\ UNCHANGED <<heap, hc, bus>>

Enabled ==
  /\ At("await") /\ timeout > 0 /\ port[i].pe /\ Goto("clear")
  /\ UNCHANGED <<heap, hc, bus>>

\* "clear Status Change bit"; after the first reset the device's structure.
ReadChange ==
  /\ At("clear") /\ pc' = "ack"
  /\ regval' = Read(i)
  /\ UNCHANGED <<i, timeout, second, heap, hc, bus>>

ClearChange ==
  /\ At("ack")
  /\ Write(regval, FALSE)
  /\ pc' = IF second THEN "address" ELSE "maxpkg"
  /\ heap' = IF second THEN heap ELSE heap \cup {UsbDev(i)}
  /\ UNCHANGED <<i, timeout, regval, second, hc>>

-----------------------------------------------------------------------------
(* The requests to the device                                              *)

\* Some device answers at address a. (If none does, the driver waits.)
Answers(a) == \E p \in Ports : port[p].pe /\ addr[p] = a

\* A request that fails as far as its caller can tell: usb_dev is freed.
RequestFailed ==
  /\ FALSE \in Results
  /\ pc \in {"maxpkg", "address", "desc"}
  /\ NextPort
  /\ heap' = heap \ {UsbDev(i)}
  /\ stray' = (stray \/ pc # "desc")
  /\ UNCHANGED <<hc, port, addr, seen_up, plugs>>

\* uhci_read_dev_desc_maxpkg, and on to the second port reset.
ReadMaxPacket ==
  /\ At("maxpkg") /\ TRUE \in Results /\ Answers(0)
  /\ pc' = "enable" /\ second' = TRUE
  /\ UNCHANGED <<i, timeout, regval, heap, hc, bus>>

\* A slip: every device gets the same address.
new_address_one(p) == 1

new_address(p) == p

\* uhci_set_device_address: whoever answers at 0 takes the address.
SetAddress ==
  /\ At("address") /\ TRUE \in Results /\ Answers(0) /\ Goto("desc")
  /\ addr' = [p \in Ports |-> IF port[p].pe /\ addr[p] = 0
                              THEN new_address(i) ELSE addr[p]]
  /\ UNCHANGED <<heap, hc, port, seen_up, stray, plugs>>

ReadDesc ==
  /\ At("desc") /\ TRUE \in Results /\ Answers(new_address(i)) /\ Goto("mfg")
  /\ UNCHANGED <<heap, hc, bus>>

\* uhci_read_string_desc leaves sdesc allocated if it succeeds, and nothing if
\* it fails. The text is copied to buf and printed in either case.
ReadString(from, to) ==
  /\ At(from) /\ TRUE \in Results /\ Answers(new_address(i)) /\ Goto(to)
  /\ heap' = heap \cup Object({"sdesc", "buf"})
  /\ UNCHANGED <<hc, bus>>
StringFailed(from, to) ==
  /\ At(from) /\ FALSE \in Results /\ Goto(to)
  /\ heap' = heap \cup Object({"buf"})
  /\ UNCHANGED <<hc, bus>>

Strings == Object({"buf", "sdesc"})

ShowMfg ==
  /\ At("show_mfg") /\ Goto("prod")
  /\ heap' = heap \ Strings
  /\ UNCHANGED <<hc, bus>>

ShowProd ==
  /\ At("show_prod") /\ NextPort
  /\ heap' = heap \ Strings
  /\ UNCHANGED <<hc, bus>>

Driver ==
  \/ Probe \/ HcReset \/ PollReset \/ ResetFailed \/ InitFrameList
  \/ StartController \/ Register
  \/ SkipPort \/ Connected \/ PortsDone
  \/ ReadStatus \/ PortReset \/ PortRelease \/ PortEnable
  \/ AwaitEnable \/ EnableFailed \/ Enabled \/ ReadChange \/ ClearChange
  \/ ReadMaxPacket \/ SetAddress \/ ReadDesc
  \/ ReadString("mfg", "show_mfg") \/ ShowMfg
  \/ ReadString("prod", "show_prod") \/ ShowProd

-----------------------------------------------------------------------------
(* The hardware, and people                                                *)

LeaveReset ==
  /\ hcreset /\ hcreset' = FALSE
  /\ UNCHANGED <<driver, heap, running, registered, bus>>

\* A port follows its PORT_ENABLE bit, perhaps after the last look at it.
ComeUp(p) ==
  /\ port[p].ask /\ port[p].conn /\ ~port[p].pe
  /\ port' = [port EXCEPT ![p].pe = TRUE]
  /\ seen_up' = [seen_up EXCEPT ![p] = TRUE]
  /\ stray' = (stray \/ p # i \/ (pc # "settle" /\ (pc # "await" \/ timeout = 0)))
  /\ UNCHANGED <<driver, heap, hc, addr, plugs>>

\* A device comes or goes: the port is disabled, the change is reported.
PlugEvent(p) ==
  /\ plugs < MaxPlugs /\ plugs' = plugs + 1
  /\ port' = [port EXCEPT ![p].conn = ~@, ![p].csc = TRUE,
                          ![p].pe = FALSE, ![p].ask = FALSE]
  /\ addr' = [addr EXCEPT ![p] = SILENT]
  /\ UNCHANGED <<driver, heap, hc, seen_up, stray>>

Failed ==
  \/ RequestFailed
  \/ StringFailed("mfg", "show_mfg") \/ StringFailed("prod", "show_prod")

Hardware == LeaveReset \/ \E p \in Ports : ComeUp(p) \/ PlugEvent(p)

-----------------------------------------------------------------------------
Objects == Object({"uhci_dev", "flist", "qh1ms", "handler", "sdesc", "buf"})
             \cup {UsbDev(p) : p \in Ports}

\* Registers and variables keep their widths, objects are the driver's.
TypeOK ==
  /\ pc \in {"probe", "global", "poll", "failed", "start", "astray", "register",
             "port", "done", "enable", "assert", "reset", "settle", "await", "clear",
             "ack", "maxpkg", "address", "desc", "mfg", "show_mfg", "prod", "show_prod"}
  /\ i \in 0 .. (PortCount + 1) /\ timeout \in uint16_t
  /\ regval \in [csc : BOOLEAN, pe : BOOLEAN] /\ second \in BOOLEAN
  /\ heap \subseteq Objects
  /\ hcreset \in BOOLEAN /\ running \in BOOLEAN /\ registered \in BOOLEAN
  /\ port \in [Ports -> PortRegs]
  /\ addr \in [Ports -> 0 .. SILENT]
  /\ seen_up \in [Ports -> BOOLEAN] /\ stray \in BOOLEAN /\ plugs \in 0 .. MaxPlugs

\* Whatever a controller that runs or an interrupt handler that is registered
\* may touch is allocated, on every path, and a probe that returns false leaves
\* nothing behind: its caller frees the struct pci_dev it points to.
HardwareMemoryHeld ==
  /\ running => Object({"uhci_dev", "flist", "qh1ms"}) \subseteq heap /\ ~hcreset
  /\ registered => Object({"handler", "uhci_dev"}) \subseteq heap
  /\ pc = "failed" => heap = {} /\ ~running /\ ~registered

\* No path through the requests keeps a descriptor or a text buffer: none is
\* left when the next string or the next port begins, and between two ports
\* only what belongs to an earlier port's device is allocated.
RequestsCleanUp ==
  /\ pc \in {"port", "done", "mfg", "prod"} => heap \cap Object({"sdesc", "buf"}) = {}
  /\ pc \in {"port", "done"} => \A p \in Ports : UsbDev(p) \in heap => p < i

\* No two devices on enabled ports answer at the same address: each is moved
\* from address 0 before the next port is enabled, also across the second
\* reset and when devices come and go. The exceptions are a port that comes
\* up after the driver has given up waiting for it, and a device whose first
\* requests failed: both stay enabled at address 0.
AddressesDiffer ==
  stray \/ \A p, q \in Ports :
    p # q /\ port[p].pe /\ port[q].pe /\ addr[p] = addr[q] => addr[p] = SILENT
=============================================================================
