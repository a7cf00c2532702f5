------------------------------ MODULE BringUp ------------------------------
(***************************************************************************)
(* The scan of the PCI bus (Pci) with pci_dev_init_cb of uhci.c (UhciInit) *)
(* inside it: for a UHCI controller the offer is a call that resets and    *)
(* starts the controller and brings up its ports, and what the call        *)
(* returns decides whether pci_read_device goes on to the next driver and  *)
(* frees the struct pci_dev. UhciInit's variables are those of the         *)
(* controller whose call is in progress, and rest between two calls.       *)
(***************************************************************************)
EXTENDS Pci

CONSTANTS PortCount, ResetWaits, EnableWaits, Results, MaxPlugs

VARIABLES
  called,    \* a call of pci_dev_init_cb is in progress
  live,      \* the controllers left running, or with a handler, by a call
  u_pc, u_i, timeout, regval, second, u_heap, hcreset, running, registered,
  port, addr, seen_up, stray, plugs

U == INSTANCE UhciInit WITH pc <- u_pc, i <- u_i, heap <- u_heap

ASSUME MachinesWellFormed == MachineAssumption
ASSUME DriversWellFormed == DriverAssumption
ASSUME ControllersWellFormed == U!InitAssumption

uhci == <<u_pc, u_i, timeout, regval, second, u_heap, hcreset, running,
          registered, port, addr, seen_up, stray, plugs>>
allVars == <<vars, called, live, uhci>>

\* Nothing is plugged in while nobody looks.
NoDevices == [p \in U!Ports |-> [conn |-> FALSE, csc |-> FALSE, pe |-> FALSE,
                                 rst |-> FALSE, ask |-> FALSE]]

BringUpInit ==
  /\ Init /\ U!Init /\ port = NoDevices
  /\ called = FALSE /\ live = {}

\* uhci.c registers one driver; the others, which Pci allows for, are one step.
Uhci == pc = "offer" /\ i <= Len(drivers) /\ BusMaster

Scans == Scan /\ UNCHANGED <<called, live, uhci>>

OtherDriver ==
  /\ ~Uhci
  /\ Accepted \/ Declined
  /\ UNCHANGED <<called, live, uhci>>

\* The call: a controller with whatever is plugged into it.
Call ==
  /\ Uhci /\ ~called
  /\ called' = TRUE /\ port' \in U!PowerOn
  /\ UNCHANGED <<vars, live, u_pc, u_i, timeout, regval, second, u_heap, hcreset,
                 running, registered, addr, seen_up, stray, plugs>>

Works == called /\ U!Driver /\ UNCHANGED <<vars, called, live>>
Fails == called /\ U!Failed /\ UNCHANGED <<vars, called, live>>
Moves == called /\ U!Hardware /\ UNCHANGED <<vars, called, live>>

Rest ==
  /\ u_pc' = "probe" /\ u_i' = 0 /\ timeout' = 0 /\ second' = FALSE
  /\ regval' = [csc |-> FALSE, pe |-> FALSE] /\ u_heap' = {}
  /\ hcreset' = FALSE /\ running' = FALSE /\ registered' = FALSE
  /\ port' = NoDevices /\ addr' = [p \in U!Ports |-> U!SILENT]
  /\ seen_up' = [p \in U!Ports |-> FALSE] /\ stray' = FALSE /\ plugs' = 0

\* pci_dev_init_cb returns true after the ports, false after a failed reset.
Return ==
  /\ called /\ called' = FALSE
  /\ live' = IF running \/ registered THEN live \cup {dev} ELSE live
  /\ \/ u_pc = "done" /\ Accepted
     \/ u_pc = "failed" /\ Declined
  /\ Rest

BringUpNext ==
  \/ Scans \/ OtherDriver
  \/ Call \/ Works \/ Fails \/ Moves \/ Return

BringUpSpec == BringUpInit /\ [][BringUpNext]_allVars

\* The CPU runs, sleep returns (Interrupts) and a device answers
\* (UhciTransfer). Nothing is assumed of the controller and the ports, and
\* no request is assumed to fail.
CpuRuns == Scans \/ OtherDriver \/ Call \/ Works \/ Return
BringUpFairSpec == BringUpSpec /\ WF_allVars(CpuRuns)

-----------------------------------------------------------------------------
\* Both parts keep their types; a controller is only touched for a function of
\* its kind.
TypesOK ==
  /\ TypeOK /\ U!TypeOK
  /\ called => Uhci
  /\ live \subseteq Addresses

\* Every function is offered to the drivers once and in order, also when a
\* device answers under the numbers of functions it does not have, and only a
\* function of the driver's kind may access memory by itself.
OffersMatch == EachFunctionOnce /\ MastersMatch

\* On every path through both files, whatever a running controller or a
\* registered handler may touch is allocated, the struct pci_dev included that
\* pci_read_device frees for a driver that declined; a failed probe leaves
\* nothing behind, and no request keeps its buffers. What is lost is known: the
\* structs of filtered functions (pci21.c:96). Nothing is said of what is left of
\* memory once the store at uhci.c:477, to an address nobody has set, has hit
\* something that was in use.
MemoryHeld ==
  u_pc # "astray" =>
    /\ U!HardwareMemoryHeld /\ U!RequestsCleanUp
    /\ StructsOwned /\ live \subseteq heap
    /\ live = {a \in claimed : machine.kind[Function(a)] \in
                 UNION {Matches[d] : d \in Registered \cap Masters}}

\* "do not clear the Status Change bit yet" (uhci.c:487): a connect change is
\* acknowledged only when its port has come up after the reset; a port whose
\* bring-up fails still shows the change. A change that comes between the driver's
\* last look at a port that has come up and its write (uhci.c:514-515) goes with
\* the old one.
ChangeKeptUntilUp ==
  [][called' => \A p \in U!Ports : port[p].csc /\ ~port'[p].csc => seen_up[p]]_allVars

\* No two enabled devices of a controller answer at one address, unless the
\* driver gave one of them up at address 0.
AddressesDiffer == U!AddressesDiffer

\* The scan reaches the end of the last bus, whatever controllers and ports do
\* or fail to do, as long as no device is unplugged under a request and the store
\* at uhci.c:477 hits nothing.
BringUpEnds == <>(pc = "done" \/ plugs > 0 \/ u_pc = "astray")
=============================================================================
