-------------------------------- MODULE Pci --------------------------------
(***************************************************************************)
(* drivers/pci/pci21.c: the scan of the PCI bus that offers every function *)
(* it finds to the registered drivers, and the struct pci_dev each offer   *)
(* passes. The host bridge and the devices are modelled from the address   *)
(* format in get_pci_dev_addr. A driver's init is one step here; BringUp    *)
(* puts pci_dev_init_cb of uhci.c in its place.                            *)
(***************************************************************************)
EXTENDS Naturals, Sequences

CONSTANTS
  BusCount, DeviceCount, FuncCount,  \* 256, 32, 8 in pci21.c
  MAX_REG_DRIVERS,                   \* 3
  Calls,                             \* the drivers registered, in order
  Matches,                           \* Matches[d]: the kinds driver d is for
  Masters,                           \* the drivers that enable bus mastering
  Machines                           \* the machines looked at

Addresses == (0 .. BusCount - 1) \X (0 .. DeviceCount - 1) \X (0 .. FuncCount - 1)

\* kind: of each function that exists; multi: the devices whose header says
\* that they have more functions than one. Function 0 always exists.
MachineAssumption ==
  /\ BusCount \in 1 .. 256 /\ DeviceCount \in 1 .. 32 /\ FuncCount \in 1 .. 8
  /\ MAX_REG_DRIVERS \in Nat
  /\ \A m \in Machines : \A a \in DOMAIN m.kind :
       /\ a \in Addresses /\ <<a[1], a[2], 0>> \in DOMAIN m.kind
       /\ a[3] # 0 => <<a[1], a[2]>> \in m.multi

\* Nobody registers a driver twice, and no other driver is for what a driver that
\* enables bus mastering is for; uhci_init is the only one that registers any.
DriverAssumption ==
  /\ Calls \in Seq(DOMAIN Matches)
  /\ \A j, k \in 1 .. Len(Calls) : Calls[j] = Calls[k] => j = k
  /\ \A j, k \in 1 .. Len(Calls) :
       /\ j <= MAX_REG_DRIVERS /\ Calls[j] \in Masters
       /\ k <= MAX_REG_DRIVERS /\ Calls[k] \notin Masters
       => Matches[Calls[j]] \cap Matches[Calls[k]] = {}

VARIABLES
  pc, bus, device, func, max_funcs, i,  \* of pci_read_device and its caller
  drivers,                              \* the registered drivers
  heap,                                 \* the structs pci_dev, by what they say
  machine, master,                      \* and who may access memory by itself
  offers, claimed                       \* history: who was offered what, and
                                        \* the structs a driver accepted

scan == <<bus, device, func, max_funcs, i>>
vars == <<pc, scan, drivers, heap, machine, master, offers, claimed>>

-----------------------------------------------------------------------------
(* Configuration space                                                     *)

\* Bit 31, which enables the access, is always set and left out.
get_pci_dev_addr(dev, reg) ==
  dev[1] * 2^16 + (dev[2] % 32) * 2^11 + (dev[3] % 8) * 2^8 + (reg - (reg % 4))

\* The function that answers an access, if any: a device with one function
\* need not look at the function number.
Selected(addr) ==
  LET slot == <<(addr \div 2^16) % 256, (addr \div 2^11) % 32>>
  IN  <<slot[1], slot[2], IF slot \in machine.multi THEN (addr \div 2^8) % 8 ELSE 0>>

Function(dev) == Selected(get_pci_dev_addr(dev, 0))

\* Reads of a function that does not exist return ones.
Exists(dev) == Function(dev) \in DOMAIN machine.kind

\* "filter non-existing functions": those whose header type or class code reads
\* as ones, a function that exists and has a reserved code among them.
Reserved == "reserved"
Filtered(dev) == ~Exists(dev) \/ machine.kind[Function(dev)] = Reserved

-----------------------------------------------------------------------------
Init ==
  /\ pc = "register" /\ bus = 0 /\ device = 0 /\ func = 0 /\ max_funcs = 0
  /\ i = 1 /\ drivers = <<>> /\ heap = {} /\ machine \in Machines
  /\ master = {} /\ offers = <<>> /\ claimed = {}

\* A slip: the table takes whatever comes.
pci_register_driver_unchecked ==
  /\ pc = "register" /\ i <= Len(Calls)
  /\ i' = i + 1 /\ drivers' = Append(drivers, Calls[i])
  /\ UNCHANGED <<pc, bus, device, func, max_funcs, heap, machine, master, offers, claimed>>

pci_register_driver ==
  /\ pc = "register" /\ i <= Len(Calls)
  /\ i' = i + 1
  /\ drivers' = IF Len(drivers) >= MAX_REG_DRIVERS THEN drivers
                ELSE Append(drivers, Calls[i])
  /\ UNCHANGED <<pc, bus, device, func, max_funcs, heap, machine, master, offers, claimed>>

pci_init ==
  /\ pc = "register" /\ i > Len(Calls)
  /\ pc' = "device"
  /\ UNCHANGED <<scan, drivers, heap, machine, master, offers, claimed>>

\* The loops of pci_enumerate_devices.
NextDevice ==
  /\ device' = IF device + 1 < DeviceCount THEN device + 1 ELSE 0
  /\ bus' = IF device' = 0 THEN bus + 1 ELSE bus
  /\ pc' = IF bus' < BusCount THEN "device" ELSE "done"

NoDevice ==
  /\ pc = "device" /\ ~Exists(<<bus, device, 0>>)
  /\ NextDevice
  /\ UNCHANGED <<func, max_funcs, i, drivers, heap, machine, master, offers, claimed>>

\* A slip: every device is searched for further functions.
FuncsOf_all == FuncCount

FuncsOf == IF <<bus, device>> \in machine.multi THEN FuncCount ELSE 1

Device ==
  /\ pc = "device" /\ Exists(<<bus, device, 0>>)
  /\ pc' = "func" /\ func' = 0 /\ max_funcs' = FuncsOf
  /\ UNCHANGED <<bus, device, i, drivers, heap, machine, master, offers, claimed>>

FuncsDone ==
  /\ pc = "func" /\ func >= max_funcs
  /\ NextDevice
  /\ UNCHANGED <<func, max_funcs, i, drivers, heap, machine, master, offers, claimed>>

dev == <<bus, device, func>>

\* The header is read into a struct of its own, which nobody frees when the
\* function is filtered.
ReadHeader ==
  /\ pc = "func" /\ func < max_funcs
  /\ heap' = heap \cup {dev}
  /\ IF Filtered(dev) THEN func' = func + 1 /\ UNCHANGED <<pc, i>>
                      ELSE pc' = "offer" /\ i' = 1 /\ UNCHANGED func
  /\ UNCHANGED <<bus, device, max_funcs, drivers, machine, master, offers, claimed>>

Match == machine.kind[Function(dev)] \in Matches[drivers[i]]

BusMaster == Match /\ drivers[i] \in Masters

\* The driver's init, which writes the command register before it knows
\* whether its device works.
Offer ==
  /\ pc = "offer" /\ i <= Len(drivers)
  /\ offers' = Append(offers, <<drivers[i], Function(dev)>>)
  /\ master' = IF BusMaster THEN master \cup {Selected(get_pci_dev_addr(dev, 4))}
               ELSE master

\* A slip: init_done is not looked at.
Accepted_destroyed ==
  /\ Offer /\ Match
  /\ claimed' = claimed \cup {dev}
  /\ i' = Len(drivers) + 1
  /\ UNCHANGED <<pc, bus, device, func, max_funcs, drivers, heap, machine>>

Accepted ==
  /\ Offer /\ Match
  /\ claimed' = claimed \cup {dev}
  /\ pc' = "func" /\ func' = func + 1
  /\ UNCHANGED <<bus, device, max_funcs, i, drivers, heap, machine>>

\* Not the driver's kind, or the device does not work.
Declined ==
  /\ Offer
  /\ i' = i + 1
  /\ UNCHANGED <<pc, bus, device, func, max_funcs, drivers, heap, machine, claimed>>

pci_destroy_device ==
  /\ pc = "offer" /\ i > Len(drivers)
  /\ heap' = heap \ {dev}
  /\ pc' = "func" /\ func' = func + 1
  /\ UNCHANGED <<bus, device, max_funcs, i, drivers, machine, master, offers, claimed>>

Scan ==
  \/ pci_register_driver \/ pci_init
  \/ NoDevice \/ Device \/ FuncsDone
  \/ ReadHeader \/ pci_destroy_device

-----------------------------------------------------------------------------
Registered == {drivers[k] : k \in 1 .. Len(drivers)}

\* The scan stays inside the bus, the driver table inside its array.
TypeOK ==
  /\ pc \in {"register", "device", "func", "offer", "done"}
  /\ bus \in 0 .. BusCount /\ device \in 0 .. DeviceCount - 1
  /\ func \in 0 .. FuncCount /\ max_funcs \in {0, 1, FuncCount}
  /\ Len(drivers) <= MAX_REG_DRIVERS /\ i \in 1 .. Len(Calls) + 1
  /\ heap \subseteq Addresses /\ claimed \subseteq Addresses
  /\ master \subseteq Addresses

\* Every function of the machine is offered to the drivers in the order of
\* their registration until one accepts it, and to none of them twice, also
\* when a device answers under the numbers of functions it does not have. A
\* function with a reserved code is offered to nobody.
EachFunctionOnce ==
  /\ \A j, k \in 1 .. Len(offers) : offers[j] = offers[k] => j = k
  /\ \A k \in 1 .. Len(offers) :
       offers[k][1] \in Registered /\ machine.kind[offers[k][2]] # Reserved
  /\ \A k \in 1 .. Len(offers) : \A a, b \in 1 .. Len(drivers) :
       a < b /\ offers[k][1] = drivers[b] =>
         \E j \in 1 .. k - 1 : offers[j] = <<drivers[a], offers[k][2]>>
  /\ pc = "done" =>
       \A f \in {f \in DOMAIN machine.kind : machine.kind[f] # Reserved} :
         f \in claimed \/ \A d \in Registered : \E j \in 1 .. Len(offers) : offers[j] = <<d, f>>

\* The loops have gone past function a.
Passed(a) ==
  \/ a[1] < bus
  \/ a[1] = bus /\ a[2] < device
  \/ a[1] = bus /\ a[2] = device /\ pc \in {"func", "offer"} /\ a[3] < func

\* The functions whose headers the scan reads: number 0 of every device, the
\* others of a device that says it has more.
Headers ==
  {a \in Addresses : /\ <<a[1], a[2], 0>> \in DOMAIN machine.kind
                     /\ a[3] # 0 => <<a[1], a[2]>> \in machine.multi}

\* The structs nobody has a pointer to any more.
Leaked == {a \in Headers : Passed(a) /\ Filtered(a)}
Offering == IF pc = "offer" THEN {dev} ELSE {}

\* The struct a driver has accepted (uhci_dev->pci_dev) stays allocated, and so
\* does the one it is being offered. Of the others only those of the functions
\* that were filtered do, which are lost.
StructsOwned == Offering \subseteq heap /\ heap \ Offering = claimed \cup Leaked

\* Only a function of a kind its driver is for may access memory by itself:
\* the write of the command register reaches the function that was offered.
MastersMatch ==
  \A f \in master : \E d \in Registered \cap Masters : machine.kind[f] \in Matches[d]
=============================================================================
