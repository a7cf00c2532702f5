--------------------------- MODULE BringUpProofs ---------------------------
(***************************************************************************)
(* Theorems about BringUp, for every bus, machine, set of drivers, number  *)
(* of ports and of polls: what pci_dev_init_cb does to its controller, what *)
(* the scan does around it, and the two together.                          *)
(***************************************************************************)
EXTENDS BringUp, TLAPS

-----------------------------------------------------------------------------
(* pci_dev_init_cb                                                         *)

Ports == 1 .. PortCount
SILENT == PortCount + 1

\* The points before there is a frame list, before there is a handler, and in
\* the work on one port.
Resetting == {"probe", "global", "poll", "failed"}
Starting == {"start", "astray", "register"}
OnPort == {"enable", "assert", "reset", "settle", "await", "clear", "ack", "maxpkg",
           "address", "desc", "mfg", "show_mfg", "prod", "show_prod"}
Points == Resetting \cup Starting \cup {"port", "done"} \cup OnPort

\* Where a device may be enabled and still answer at address 0.
Unaddressed == {"enable", "assert", "reset", "settle", "await", "clear", "ack",
                "maxpkg", "address"}

\* The driver's point says which port it is at and what runs.
Where ==
  /\ u_pc \in Points /\ u_i \in 0 .. PortCount + 1
  /\ u_pc \in OnPort => u_i \in Ports
  /\ u_pc = "port" => u_i # 0
  /\ u_pc = "done" => u_i = PortCount + 1
  /\ u_pc \in Resetting \cup Starting => u_i = 0
Runs ==
  /\ hcreset \in BOOLEAN /\ running \in BOOLEAN /\ registered \in BOOLEAN
  /\ running <=> u_pc \notin Resetting \cup {"start", "astray"}
  /\ registered <=> u_pc \notin Resetting \cup Starting
  /\ hcreset => u_pc \in {"poll", "failed"}
Regs ==
  /\ timeout \in U!uint16_t
  /\ regval \in [csc : BOOLEAN, pe : BOOLEAN] /\ second \in BOOLEAN
  /\ u_pc \in {"assert", "reset", "settle"} => ~regval.csc

\* Which objects there are at each point.
OfController == U!Object({"uhci_dev", "flist", "qh1ms"})
OfHandler == U!Object({"handler"})
Allocated ==
  /\ u_heap \subseteq U!Objects
  /\ u_pc \in {"probe", "failed"} => u_heap = {}
  /\ u_pc \in {"global", "poll"} => u_heap = U!Object({"uhci_dev"})
  /\ u_pc \in Starting => u_heap = OfController
  /\ u_pc \notin Resetting \cup Starting => OfController \cup OfHandler \subseteq u_heap
  /\ u_pc \notin {"show_mfg", "show_prod"} => u_heap \cap U!Strings = {}
  /\ \A p \in Ports : U!UsbDev(p) \in u_heap =>
       p <= u_i /\ (u_pc \in {"port", "done"} => p < u_i)

\* A port is enabled only after its reset; unless one was left behind, an
\* enabled device has its own address, or is the one the driver works at.
Bus ==
  /\ port \in [Ports -> U!PortRegs] /\ addr \in [Ports -> 0 .. SILENT]
  /\ seen_up \in [Ports -> BOOLEAN] /\ stray \in BOOLEAN /\ plugs \in 0 .. MaxPlugs
  /\ \A p \in Ports : port[p].pe => seen_up[p]
  /\ u_pc \in {"clear", "ack"} => seen_up[u_i]
Addressed ==
  ~stray =>
    /\ \A p \in Ports : addr[p] \in {0, p, SILENT}
    /\ \A p \in Ports : port[p].pe /\ addr[p] = 0 => p = u_i /\ u_pc \in Unaddressed
    /\ u_pc = "await" /\ timeout = 0 => ~port[u_i].pe

UInv == Where /\ Runs /\ Regs /\ Allocated /\ Bus /\ Addressed
UNext == U!Driver \/ U!Failed \/ U!Hardware

LEMMA PortFacts ==
  /\ PortCount \in Nat /\ PortCount >= 1 /\ MaxPlugs \in Nat
  /\ U!Ports = Ports /\ U!SILENT = SILENT
BY ControllersWellFormed, SMTT(30) DEF U!InitAssumption, Ports, SILENT, U!Ports, U!SILENT

LEMMA WaitFacts ==
  /\ ResetWaits \in U!uint16_t /\ EnableWaits \in U!uint16_t /\ EnableWaits # 0
  /\ \A t \in U!uint16_t : t > 0 => t - 1 \in U!uint16_t
<1>1. ResetWaits \in 1 .. 255 /\ EnableWaits \in U!uint16_t /\ EnableWaits # 0
  BY ControllersWellFormed, SMTT(30) DEF U!InitAssumption
<1>2. \A t \in Nat : t <= 65535 <=> t \in U!uint16_t
  BY SMTT(30) DEF U!uint16_t
<1>3. \A t \in U!uint16_t : t \in Nat
  BY SMTT(30) DEF U!uint16_t
<1> QED BY <1>1, <1>2, <1>3

LEMMA WhereKept == ASSUME Where, UNext PROVE Where'
<1>1. CASE U!Probe
  BY <1>1, PortFacts DEF Where, Points, Resetting, Starting, OnPort, Ports, U!Probe, U!At, U!Goto, U!hc
<1>2. CASE U!HcReset
  BY <1>2, PortFacts DEF Where, Points, Resetting, Starting, OnPort, Ports, U!HcReset, U!At, U!bus
<1>3. CASE U!PollReset
  BY <1>3, PortFacts DEF Where, Points, Resetting, Starting, OnPort, Ports, U!PollReset, U!At, U!hc, U!bus
<1>4. CASE U!ResetFailed
  BY <1>4, PortFacts DEF Where, Points, Resetting, Starting, OnPort, Ports, U!ResetFailed, U!At, U!Goto, U!hc, U!bus
<1>5. CASE U!InitFrameList
  BY <1>5, PortFacts DEF Where, Points, Resetting, Starting, OnPort, Ports, U!InitFrameList, U!At, U!Goto, U!hc, U!bus
<1>6. CASE U!StartController
  BY <1>6, PortFacts DEF Where, Points, Resetting, Starting, OnPort, Ports, U!StartController, U!At, U!Goto, U!hc, U!bus
<1>7. CASE U!Register
  BY <1>7, PortFacts DEF Where, Points, Resetting, Starting, OnPort, Ports, U!Register, U!At, U!hc, U!bus
<1>8. CASE U!SkipPort
  BY <1>8, PortFacts DEF Where, Points, Resetting, Starting, OnPort, Ports, U!SkipPort, U!At, U!NextPort, U!hc, U!bus
<1>9. CASE U!Connected
  BY <1>9, PortFacts DEF Where, Points, Resetting, Starting, OnPort, Ports, U!Connected, U!At, U!hc, U!bus
<1>10. CASE U!PortsDone
  BY <1>10, PortFacts DEF Where, Points, Resetting, Starting, OnPort, Ports, U!PortsDone, U!At, U!Goto, U!hc, U!bus
<1>11. CASE U!PortReset
  BY <1>11, PortFacts DEF Where, Points, Resetting, Starting, OnPort, Ports, U!PortReset, U!At, U!Goto, U!hc
<1>12. CASE U!PortRelease
  BY <1>12, PortFacts DEF Where, Points, Resetting, Starting, OnPort, Ports, U!PortRelease, U!At, U!Goto, U!hc
<1>13. CASE U!PortEnable
  BY <1>13, PortFacts DEF Where, Points, Resetting, Starting, OnPort, Ports, U!PortEnable, U!At, U!hc
<1>14. CASE U!AwaitEnable
  BY <1>14, PortFacts DEF Where, Points, Resetting, Starting, OnPort, Ports, U!AwaitEnable, U!At, U!hc, U!bus
<1>15. CASE U!EnableFailed
  BY <1>15, PortFacts DEF Where, Points, Resetting, Starting, OnPort, Ports, U!EnableFailed, U!At, U!NextPort, U!hc, U!bus
<1>16. CASE U!Enabled
  BY <1>16, PortFacts DEF Where, Points, Resetting, Starting, OnPort, Ports, U!Enabled, U!At, U!Goto, U!hc, U!bus
<1>17. CASE U!ClearChange
  BY <1>17, PortFacts DEF Where, Points, Resetting, Starting, OnPort, Ports, U!ClearChange, U!At, U!hc
<1>18. CASE U!ReadMaxPacket
  BY <1>18, PortFacts DEF Where, Points, Resetting, Starting, OnPort, Ports, U!ReadMaxPacket, U!At, U!hc, U!bus
<1>19. CASE U!SetAddress
  BY <1>19, PortFacts DEF Where, Points, Resetting, Starting, OnPort, Ports, U!SetAddress, U!At, U!Goto, U!hc
<1>20. CASE U!ReadDesc
  BY <1>20, PortFacts DEF Where, Points, Resetting, Starting, OnPort, Ports, U!ReadDesc, U!At, U!Goto, U!hc, U!bus
<1>21. CASE U!ReadString("mfg", "show_mfg")
  BY <1>21, PortFacts DEF Where, Points, Resetting, Starting, OnPort, Ports, U!ReadString, U!At, U!Goto, U!hc, U!bus
<1>22. CASE U!ShowMfg
  BY <1>22, PortFacts DEF Where, Points, Resetting, Starting, OnPort, Ports, U!ShowMfg, U!At, U!Goto, U!hc, U!bus
<1>23. CASE U!ReadString("prod", "show_prod")
  BY <1>23, PortFacts DEF Where, Points, Resetting, Starting, OnPort, Ports, U!ReadString, U!At, U!Goto, U!hc, U!bus
<1>24. CASE U!ShowProd
  BY <1>24, PortFacts DEF Where, Points, Resetting, Starting, OnPort, Ports, U!ShowProd, U!At, U!NextPort, U!hc, U!bus
<1>25. CASE U!RequestFailed
  BY <1>25, PortFacts DEF Where, Points, Resetting, Starting, OnPort, Ports, U!RequestFailed, U!NextPort, U!hc
<1>26. CASE U!StringFailed("mfg", "show_mfg")
  BY <1>26, PortFacts DEF Where, Points, Resetting, Starting, OnPort, Ports, U!StringFailed, U!At, U!Goto, U!hc, U!bus
<1>27. CASE U!StringFailed("prod", "show_prod")
  BY <1>27, PortFacts DEF Where, Points, Resetting, Starting, OnPort, Ports, U!StringFailed, U!At, U!Goto, U!hc, U!bus
<1>28. CASE U!LeaveReset
  BY <1>28, PortFacts DEF Where, Points, Resetting, Starting, OnPort, Ports, U!LeaveReset, U!driver, U!bus
<1>29. ASSUME NEW q \in U!Ports, U!ComeUp(q) PROVE Where'
  BY <1>29, PortFacts DEF Where, Points, Resetting, Starting, OnPort, Ports, U!ComeUp, U!driver, U!hc
<1>30. ASSUME NEW q \in U!Ports, U!PlugEvent(q) PROVE Where'
  BY <1>30, PortFacts DEF Where, Points, Resetting, Starting, OnPort, Ports, U!PlugEvent, U!driver, U!hc
<1>31. CASE U!ReadStatus
  BY <1>31, PortFacts DEF Where, Points, Resetting, Starting, OnPort, Ports, U!ReadStatus, U!At, U!hc, U!bus
<1>32. CASE U!ReadChange
  BY <1>32, PortFacts DEF Where, Points, Resetting, Starting, OnPort, Ports, U!ReadChange, U!At, U!hc, U!bus
<1> QED
  BY <1>1, <1>2, <1>3, <1>4, <1>5, <1>6, <1>7, <1>8, <1>9, <1>10, <1>11, <1>12, <1>13, <1>14, <1>15, <1>16, <1>17, <1>18, <1>19, <1>20, <1>21, <1>22, <1>23, <1>24, <1>25, <1>26, <1>27, <1>28, <1>29, <1>30, <1>31, <1>32
     DEF UNext, U!Driver, U!Failed, U!Hardware

LEMMA RunsKept == ASSUME Where, Runs, UNext PROVE Runs'
<1>1. CASE U!Probe
  BY <1>1 DEF Where, Runs, Points, Resetting, Starting, OnPort, U!Probe, U!At, U!Goto, U!hc
<1>2. CASE U!HcReset
  BY <1>2 DEF Where, Runs, Points, Resetting, Starting, OnPort, U!HcReset, U!At, U!bus
<1>3. CASE U!PollReset
  BY <1>3 DEF Where, Runs, Points, Resetting, Starting, OnPort, U!PollReset, U!At, U!hc, U!bus
<1>4. CASE U!ResetFailed
  BY <1>4 DEF Where, Runs, Points, Resetting, Starting, OnPort, U!ResetFailed, U!At, U!Goto, U!hc, U!bus
<1>5. CASE U!InitFrameList
  BY <1>5 DEF Where, Runs, Points, Resetting, Starting, OnPort, U!InitFrameList, U!At, U!Goto, U!hc, U!bus
<1>6. CASE U!StartController
  BY <1>6 DEF Where, Runs, Points, Resetting, Starting, OnPort, U!StartController, U!At, U!Goto, U!hc, U!bus
<1>7. CASE U!Register
  BY <1>7 DEF Where, Runs, Points, Resetting, Starting, OnPort, U!Register, U!At, U!hc, U!bus
<1>8. CASE U!SkipPort
  BY <1>8 DEF Where, Runs, Points, Resetting, Starting, OnPort, U!SkipPort, U!At, U!NextPort, U!hc, U!bus
<1>9. CASE U!Connected
  BY <1>9 DEF Where, Runs, Points, Resetting, Starting, OnPort, U!Connected, U!At, U!hc, U!bus
<1>10. CASE U!PortsDone
  BY <1>10 DEF Where, Runs, Points, Resetting, Starting, OnPort, U!PortsDone, U!At, U!Goto, U!hc, U!bus
<1>11. CASE U!PortReset
  BY <1>11 DEF Where, Runs, Points, Resetting, Starting, OnPort, U!PortReset, U!At, U!Goto, U!hc
<1>12. CASE U!PortRelease
  BY <1>12 DEF Where, Runs, Points, Resetting, Starting, OnPort, U!PortRelease, U!At, U!Goto, U!hc
<1>13. CASE U!PortEnable
  BY <1>13 DEF Where, Runs, Points, Resetting, Starting, OnPort, U!PortEnable, U!At, U!hc
<1>14. CASE U!AwaitEnable
  BY <1>14 DEF Where, Runs, Points, Resetting, Starting, OnPort, U!AwaitEnable, U!At, U!hc, U!bus
<1>15. CASE U!EnableFailed
  BY <1>15 DEF Where, Runs, Points, Resetting, Starting, OnPort, U!EnableFailed, U!At, U!NextPort, U!hc, U!bus
<1>16. CASE U!Enabled
  BY <1>16 DEF Where, Runs, Points, Resetting, Starting, OnPort, U!Enabled, U!At, U!Goto, U!hc, U!bus
<1>17. CASE U!ClearChange
  BY <1>17 DEF Where, Runs, Points, Resetting, Starting, OnPort, U!ClearChange, U!At, U!hc
<1>18. CASE U!ReadMaxPacket
  BY <1>18 DEF Where, Runs, Points, Resetting, Starting, OnPort, U!ReadMaxPacket, U!At, U!hc, U!bus
<1>19. CASE U!SetAddress
  BY <1>19 DEF Where, Runs, Points, Resetting, Starting, OnPort, U!SetAddress, U!At, U!Goto, U!hc
<1>20. CASE U!ReadDesc
  BY <1>20 DEF Where, Runs, Points, Resetting, Starting, OnPort, U!ReadDesc, U!At, U!Goto, U!hc, U!bus
<1>21. CASE U!ReadString("mfg", "show_mfg")
  BY <1>21 DEF Where, Runs, Points, Resetting, Starting, OnPort, U!ReadString, U!At, U!Goto, U!hc, U!bus
<1>22. CASE U!ShowMfg
  BY <1>22 DEF Where, Runs, Points, Resetting, Starting, OnPort, U!ShowMfg, U!At, U!Goto, U!hc, U!bus
<1>23. CASE U!ReadString("prod", "show_prod")
  BY <1>23 DEF Where, Runs, Points, Resetting, Starting, OnPort, U!ReadString, U!At, U!Goto, U!hc, U!bus
<1>24. CASE U!ShowProd
  BY <1>24 DEF Where, Runs, Points, Resetting, Starting, OnPort, U!ShowProd, U!At, U!NextPort, U!hc, U!bus
<1>25. CASE U!RequestFailed
  BY <1>25 DEF Where, Runs, Points, Resetting, Starting, OnPort, U!RequestFailed, U!NextPort, U!hc
<1>26. CASE U!StringFailed("mfg", "show_mfg")
  BY <1>26 DEF Where, Runs, Points, Resetting, Starting, OnPort, U!StringFailed, U!At, U!Goto, U!hc, U!bus
<1>27. CASE U!StringFailed("prod", "show_prod")
  BY <1>27 DEF Where, Runs, Points, Resetting, Starting, OnPort, U!StringFailed, U!At, U!Goto, U!hc, U!bus
<1>28. CASE U!LeaveReset
  BY <1>28 DEF Where, Runs, Points, Resetting, Starting, OnPort, U!LeaveReset, U!driver, U!bus
<1>29. ASSUME NEW q \in U!Ports, U!ComeUp(q) PROVE Runs'
  BY <1>29 DEF Where, Runs, Points, Resetting, Starting, OnPort, U!ComeUp, U!driver, U!hc
<1>30. ASSUME NEW q \in U!Ports, U!PlugEvent(q) PROVE Runs'
  BY <1>30 DEF Where, Runs, Points, Resetting, Starting, OnPort, U!PlugEvent, U!driver, U!hc
<1>31. CASE U!ReadStatus
  BY <1>31 DEF Where, Runs, Points, Resetting, Starting, OnPort, U!ReadStatus, U!At, U!hc, U!bus
<1>32. CASE U!ReadChange
  BY <1>32 DEF Where, Runs, Points, Resetting, Starting, OnPort, U!ReadChange, U!At, U!hc, U!bus
<1> QED
  BY <1>1, <1>2, <1>3, <1>4, <1>5, <1>6, <1>7, <1>8, <1>9, <1>10, <1>11, <1>12, <1>13, <1>14, <1>15, <1>16, <1>17, <1>18, <1>19, <1>20, <1>21, <1>22, <1>23, <1>24, <1>25, <1>26, <1>27, <1>28, <1>29, <1>30, <1>31, <1>32
     DEF UNext, U!Driver, U!Failed, U!Hardware

LEMMA RegsKept == ASSUME Where, Bus, Regs, UNext PROVE Regs'
<1>1. CASE U!Probe
  BY <1>1, WaitFacts DEF Regs, U!Probe, U!At, U!Goto, U!hc
<1>2. CASE U!HcReset
  BY <1>2, WaitFacts DEF Regs, U!HcReset, U!At, U!bus
<1>3. CASE U!PollReset
  BY <1>3, WaitFacts DEF Regs, U!PollReset, U!At, U!hc, U!bus
<1>4. CASE U!ResetFailed
  BY <1>4, WaitFacts DEF Regs, U!ResetFailed, U!At, U!Goto, U!hc, U!bus
<1>5. CASE U!InitFrameList
  BY <1>5, WaitFacts DEF Regs, U!InitFrameList, U!At, U!Goto, U!hc, U!bus
<1>6. CASE U!StartController
  BY <1>6, WaitFacts DEF Regs, U!StartController, U!At, U!Goto, U!hc, U!bus
<1>7. CASE U!Register
  BY <1>7, WaitFacts DEF Regs, U!Register, U!At, U!hc, U!bus
<1>8. CASE U!SkipPort
  BY <1>8, WaitFacts DEF Regs, U!SkipPort, U!At, U!NextPort, U!hc, U!bus
<1>9. CASE U!Connected
  BY <1>9, WaitFacts DEF Regs, U!Connected, U!At, U!hc, U!bus
<1>10. CASE U!PortsDone
  BY <1>10, WaitFacts DEF Regs, U!PortsDone, U!At, U!Goto, U!hc, U!bus
<1>11. CASE U!PortReset
  BY <1>11, WaitFacts DEF Regs, U!PortReset, U!At, U!Goto, U!hc
<1>12. CASE U!PortRelease
  BY <1>12, WaitFacts DEF Regs, U!PortRelease, U!At, U!Goto, U!hc
<1>13. CASE U!PortEnable
  BY <1>13, WaitFacts DEF Regs, U!PortEnable, U!At, U!hc
<1>14. CASE U!AwaitEnable
  BY <1>14, WaitFacts DEF Regs, U!AwaitEnable, U!At, U!hc, U!bus
<1>15. CASE U!EnableFailed
  BY <1>15, WaitFacts DEF Regs, U!EnableFailed, U!At, U!NextPort, U!hc, U!bus
<1>16. CASE U!Enabled
  BY <1>16, WaitFacts DEF Regs, U!Enabled, U!At, U!Goto, U!hc, U!bus
<1>17. CASE U!ClearChange
  BY <1>17, WaitFacts DEF Regs, U!ClearChange, U!At, U!hc
<1>18. CASE U!ReadMaxPacket
  BY <1>18, WaitFacts DEF Regs, U!ReadMaxPacket, U!At, U!hc, U!bus
<1>19. CASE U!SetAddress
  BY <1>19, WaitFacts DEF Regs, U!SetAddress, U!At, U!Goto, U!hc
<1>20. CASE U!ReadDesc
  BY <1>20, WaitFacts DEF Regs, U!ReadDesc, U!At, U!Goto, U!hc, U!bus
<1>21. CASE U!ReadString("mfg", "show_mfg")
  BY <1>21, WaitFacts DEF Regs, U!ReadString, U!At, U!Goto, U!hc, U!bus
<1>22. CASE U!ShowMfg
  BY <1>22, WaitFacts DEF Regs, U!ShowMfg, U!At, U!Goto, U!hc, U!bus
<1>23. CASE U!ReadString("prod", "show_prod")
  BY <1>23, WaitFacts DEF Regs, U!ReadString, U!At, U!Goto, U!hc, U!bus
<1>24. CASE U!ShowProd
  BY <1>24, WaitFacts DEF Regs, U!ShowProd, U!At, U!NextPort, U!hc, U!bus
<1>25. CASE U!RequestFailed
  BY <1>25, WaitFacts DEF Regs, U!RequestFailed, U!NextPort, U!hc
<1>26. CASE U!StringFailed("mfg", "show_mfg")
  BY <1>26, WaitFacts DEF Regs, U!StringFailed, U!At, U!Goto, U!hc, U!bus
<1>27. CASE U!StringFailed("prod", "show_prod")
  BY <1>27, WaitFacts DEF Regs, U!StringFailed, U!At, U!Goto, U!hc, U!bus
<1>28. CASE U!LeaveReset
  BY <1>28, WaitFacts DEF Regs, U!LeaveReset, U!driver, U!bus
<1>29. ASSUME NEW q \in U!Ports, U!ComeUp(q) PROVE Regs'
  BY <1>29, WaitFacts DEF Regs, U!ComeUp, U!driver, U!hc
<1>30. ASSUME NEW q \in U!Ports, U!PlugEvent(q) PROVE Regs'
  BY <1>30, WaitFacts DEF Regs, U!PlugEvent, U!driver, U!hc
<1>31. CASE U!ReadStatus
  <2>1. regval' = [csc |-> FALSE, pe |-> port[u_i].pe]
    BY <1>31 DEF U!ReadStatus, U!KeepChange, U!Read
  <2>2. u_i \in Ports
    BY <1>31 DEF Where, OnPort, U!ReadStatus, U!At
  <2>3. port[u_i].pe \in BOOLEAN
    BY <2>2, PortFacts DEF Bus, U!PortRegs
  <2> QED BY <1>31, <2>1, <2>3 DEF Regs, U!ReadStatus
<1>32. CASE U!ReadChange
  <2>1. u_pc' = "ack" /\ regval' = U!Read(u_i) /\ UNCHANGED <<timeout, second>>
    BY <1>32 DEF U!ReadChange
  <2>2. u_i \in Ports
    BY <1>32 DEF Where, OnPort, U!ReadChange, U!At
  <2>3. port[u_i].csc \in BOOLEAN /\ port[u_i].pe \in BOOLEAN
    BY <2>2, PortFacts DEF Bus, U!PortRegs
  <2>4. regval' \in [csc : BOOLEAN, pe : BOOLEAN]
    BY <2>1, <2>3 DEF U!Read
  <2> QED BY <2>1, <2>4 DEF Regs
<1> QED
  BY <1>1, <1>2, <1>3, <1>4, <1>5, <1>6, <1>7, <1>8, <1>9, <1>10, <1>11, <1>12, <1>13, <1>14, <1>15, <1>16, <1>17, <1>18, <1>19, <1>20, <1>21, <1>22, <1>23, <1>24, <1>25, <1>26, <1>27, <1>28, <1>29, <1>30, <1>31, <1>32
     DEF UNext, U!Driver, U!Failed, U!Hardware

LEMMA ObjectsApart ==
  /\ OfController \cup OfHandler \cup U!Strings \subseteq U!Objects
  /\ U!Object({"buf"}) \subseteq U!Strings /\ U!Object({"sdesc", "buf"}) \subseteq U!Strings
  /\ OfController \cap U!Strings = {} /\ OfHandler \cap U!Strings = {}
  /\ U!Object({"uhci_dev"}) \cup U!Object({"flist", "qh1ms"}) = OfController
  /\ \A p \in Ports :
       /\ U!UsbDev(p) \in U!Objects
       /\ U!UsbDev(p) \notin OfController \cup OfHandler \cup U!Strings
       /\ \A q \in Ports : U!UsbDev(p) = U!UsbDev(q) => p = q
BY PortFacts DEF OfController, OfHandler, U!Objects, U!Object, U!Strings, U!UsbDev

LEMMA AllocatedKept == ASSUME Where, Allocated, UNext PROVE Allocated'
<1>1. CASE U!Probe
  BY <1>1, ObjectsApart DEF Where, Allocated, Resetting, Starting, OnPort, U!Probe, U!At, U!Goto, U!hc
<1>2. CASE U!HcReset
  BY <1>2, ObjectsApart DEF Where, Allocated, Resetting, Starting, OnPort, U!HcReset, U!At, U!bus
<1>3. CASE U!PollReset
  BY <1>3, ObjectsApart DEF Where, Allocated, Resetting, Starting, OnPort, U!PollReset, U!At, U!hc, U!bus
<1>4. CASE U!ResetFailed
  BY <1>4, ObjectsApart DEF Where, Allocated, Resetting, Starting, OnPort, U!ResetFailed, U!At, U!Goto, U!hc, U!bus
<1>5. CASE U!InitFrameList
  BY <1>5, ObjectsApart DEF Where, Allocated, Resetting, Starting, OnPort, U!InitFrameList, U!At, U!Goto, U!hc, U!bus
<1>6. CASE U!StartController
  BY <1>6, ObjectsApart DEF Where, Allocated, Resetting, Starting, OnPort, U!StartController, U!At, U!Goto, U!hc, U!bus
<1>7. CASE U!Register
  BY <1>7, ObjectsApart
     DEF Where, Allocated, Resetting, Starting, OnPort, OfHandler, U!Register, U!At
<1>8. CASE U!SkipPort
  <2>1. \A p \in Ports : U!UsbDev(p) \in u_heap => p <= u_i + 1 /\ p < u_i + 1
    BY PortFacts DEF Where, Allocated, Ports
  <2>2. u_pc \in OnPort \cup {"port"} /\ u_pc' = "port" /\ u_i' = u_i + 1 /\ u_heap' \subseteq u_heap
    BY <1>8 DEF OnPort, U!SkipPort, U!At, U!NextPort
  <2>3. u_heap' \cap U!Strings = {} /\ OfController \cup OfHandler \subseteq u_heap'
    BY <1>8, ObjectsApart
       DEF Where, Allocated, Resetting, Starting, OnPort, U!SkipPort, U!At
  <2>4. \A p \in Ports : U!UsbDev(p) \in u_heap' => p <= u_i' /\ p < u_i'
    BY <2>1, <2>2
  <2> QED BY <2>2, <2>3, <2>4 DEF Allocated, Resetting, Starting
<1>9. CASE U!Connected
  BY <1>9, ObjectsApart DEF Where, Allocated, Resetting, Starting, OnPort, U!Connected, U!At, U!hc, U!bus
<1>10. CASE U!PortsDone
  BY <1>10, ObjectsApart DEF Where, Allocated, Resetting, Starting, OnPort, U!PortsDone, U!At, U!Goto, U!hc, U!bus
<1>11. CASE U!PortReset
  BY <1>11, ObjectsApart DEF Where, Allocated, Resetting, Starting, OnPort, U!PortReset, U!At, U!Goto, U!hc
<1>12. CASE U!PortRelease
  BY <1>12, ObjectsApart DEF Where, Allocated, Resetting, Starting, OnPort, U!PortRelease, U!At, U!Goto, U!hc
<1>13. CASE U!PortEnable
  BY <1>13, ObjectsApart DEF Where, Allocated, Resetting, Starting, OnPort, U!PortEnable, U!At, U!hc
<1>14. CASE U!AwaitEnable
  BY <1>14, ObjectsApart DEF Where, Allocated, Resetting, Starting, OnPort, U!AwaitEnable, U!At, U!hc, U!bus
<1>15. CASE U!EnableFailed
  <2>1. \A p \in Ports : U!UsbDev(p) \in u_heap => p <= u_i + 1 /\ p < u_i + 1
    BY PortFacts DEF Where, Allocated, Ports
  <2>2. u_pc \in OnPort \cup {"port"} /\ u_pc' = "port" /\ u_i' = u_i + 1 /\ u_heap' \subseteq u_heap
    BY <1>15 DEF OnPort, U!EnableFailed, U!At, U!NextPort
  <2>3. u_heap' \cap U!Strings = {} /\ OfController \cup OfHandler \subseteq u_heap'
    BY <1>15, ObjectsApart
       DEF Where, Allocated, Resetting, Starting, OnPort, U!EnableFailed, U!At
  <2>4. \A p \in Ports : U!UsbDev(p) \in u_heap' => p <= u_i' /\ p < u_i'
    BY <2>1, <2>2
  <2> QED BY <2>2, <2>3, <2>4 DEF Allocated, Resetting, Starting
<1>16. CASE U!Enabled
  BY <1>16, ObjectsApart DEF Where, Allocated, Resetting, Starting, OnPort, U!Enabled, U!At, U!Goto, U!hc, U!bus
<1>17. CASE U!ClearChange
  BY <1>17, ObjectsApart DEF Where, Allocated, Resetting, Starting, OnPort, U!ClearChange, U!At, U!hc
<1>18. CASE U!ReadMaxPacket
  BY <1>18, ObjectsApart DEF Where, Allocated, Resetting, Starting, OnPort, U!ReadMaxPacket, U!At, U!hc, U!bus
<1>19. CASE U!SetAddress
  BY <1>19, ObjectsApart DEF Where, Allocated, Resetting, Starting, OnPort, U!SetAddress, U!At, U!Goto, U!hc
<1>20. CASE U!ReadDesc
  BY <1>20, ObjectsApart DEF Where, Allocated, Resetting, Starting, OnPort, U!ReadDesc, U!At, U!Goto, U!hc, U!bus
<1>21. CASE U!ReadString("mfg", "show_mfg")
  BY <1>21, ObjectsApart DEF Where, Allocated, Resetting, Starting, OnPort, U!ReadString, U!At, U!Goto, U!hc, U!bus
<1>22. CASE U!ShowMfg
  BY <1>22, ObjectsApart DEF Where, Allocated, Resetting, Starting, OnPort, U!ShowMfg, U!At, U!Goto, U!hc, U!bus
<1>23. CASE U!ReadString("prod", "show_prod")
  BY <1>23, ObjectsApart DEF Where, Allocated, Resetting, Starting, OnPort, U!ReadString, U!At, U!Goto, U!hc, U!bus
<1>24. CASE U!ShowProd
  <2>1. \A p \in Ports : U!UsbDev(p) \in u_heap => p <= u_i + 1 /\ p < u_i + 1
    BY PortFacts DEF Where, Allocated, Ports
  <2>2. u_pc \in OnPort \cup {"port"} /\ u_pc' = "port" /\ u_i' = u_i + 1 /\ u_heap' \subseteq u_heap
    BY <1>24 DEF OnPort, U!ShowProd, U!At, U!NextPort
  <2>3. u_heap' \cap U!Strings = {} /\ OfController \cup OfHandler \subseteq u_heap'
    BY <1>24, ObjectsApart
       DEF Where, Allocated, Resetting, Starting, OnPort, U!ShowProd, U!At
  <2>4. \A p \in Ports : U!UsbDev(p) \in u_heap' => p <= u_i' /\ p < u_i'
    BY <2>1, <2>2
  <2> QED BY <2>2, <2>3, <2>4 DEF Allocated, Resetting, Starting
<1>25. CASE U!RequestFailed
  <2>1. \A p \in Ports : U!UsbDev(p) \in u_heap => p <= u_i + 1 /\ p < u_i + 1
    BY PortFacts DEF Where, Allocated, Ports
  <2>2. u_pc \in OnPort \cup {"port"} /\ u_pc' = "port" /\ u_i' = u_i + 1 /\ u_heap' \subseteq u_heap
    BY <1>25 DEF OnPort, U!RequestFailed, U!NextPort
  <2>3. u_heap' \cap U!Strings = {} /\ OfController \cup OfHandler \subseteq u_heap'
    BY <1>25, ObjectsApart
       DEF Where, Allocated, Resetting, Starting, OnPort, U!RequestFailed
  <2>4. \A p \in Ports : U!UsbDev(p) \in u_heap' => p <= u_i' /\ p < u_i'
    BY <2>1, <2>2
  <2> QED BY <2>2, <2>3, <2>4 DEF Allocated, Resetting, Starting
<1>26. CASE U!StringFailed("mfg", "show_mfg")
  BY <1>26, ObjectsApart DEF Where, Allocated, Resetting, Starting, OnPort, U!StringFailed, U!At, U!Goto, U!hc, U!bus
<1>27. CASE U!StringFailed("prod", "show_prod")
  BY <1>27, ObjectsApart DEF Where, Allocated, Resetting, Starting, OnPort, U!StringFailed, U!At, U!Goto, U!hc, U!bus
<1>28. CASE U!LeaveReset
  BY <1>28, ObjectsApart DEF Where, Allocated, Resetting, Starting, OnPort, U!LeaveReset, U!driver, U!bus
<1>29. ASSUME NEW q \in U!Ports, U!ComeUp(q) PROVE Allocated'
  BY <1>29, ObjectsApart DEF Where, Allocated, Resetting, Starting, OnPort, U!ComeUp, U!driver, U!hc
<1>30. ASSUME NEW q \in U!Ports, U!PlugEvent(q) PROVE Allocated'
  BY <1>30, ObjectsApart DEF Where, Allocated, Resetting, Starting, OnPort, U!PlugEvent, U!driver, U!hc
<1>31. CASE U!ReadStatus
  BY <1>31, ObjectsApart DEF Where, Allocated, Resetting, Starting, OnPort, U!ReadStatus, U!At, U!hc, U!bus
<1>32. CASE U!ReadChange
  BY <1>32, ObjectsApart DEF Where, Allocated, Resetting, Starting, OnPort, U!ReadChange, U!At, U!hc, U!bus
<1> QED
  BY <1>1, <1>2, <1>3, <1>4, <1>5, <1>6, <1>7, <1>8, <1>9, <1>10, <1>11, <1>12, <1>13, <1>14, <1>15, <1>16, <1>17, <1>18, <1>19, <1>20, <1>21, <1>22, <1>23, <1>24, <1>25, <1>26, <1>27, <1>28, <1>29, <1>30, <1>31, <1>32
     DEF UNext, U!Driver, U!Failed, U!Hardware

\* What a write to the register of port u_i does: it enables no port, a reset
\* disables it and puts its device at address 0.
LEMMA WriteEffect ==
  ASSUME Bus, u_i \in Ports, NEW r \in [csc : BOOLEAN, pe : BOOLEAN],
         NEW reset \in BOOLEAN, U!Write(r, reset)
  PROVE  /\ port' \in [Ports -> U!PortRegs] /\ addr' \in [Ports -> 0 .. SILENT]
         /\ seen_up' \in [Ports -> BOOLEAN] /\ UNCHANGED <<stray, plugs>>
         /\ \A p \in Ports :
              /\ port'[p].pe => port[p].pe /\ (p = u_i => ~reset)
              /\ port[p].pe /\ (p = u_i => r.pe /\ ~reset) => port'[p].pe
              /\ port'[p].conn = port[p].conn /\ (port'[p].csc => port[p].csc)
              /\ addr'[p] = addr[p] \/ (p = u_i /\ reset /\ addr'[p] = 0)
              /\ seen_up'[p] = seen_up[p] \/ (p = u_i /\ reset)
              /\ port[p].csc /\ ~port'[p].csc => p = u_i /\ r.csc
         /\ reset /\ port[u_i].conn => addr'[u_i] = 0
<1>1. U!Ports = Ports
  BY PortFacts
<1>2. port[u_i] \in U!PortRegs /\ port \in [Ports -> U!PortRegs]
  BY DEF Bus
<1> DEFINE old == port[u_i]
           csc == old.csc /\ ~r.csc
           pe == old.pe /\ r.pe /\ ~reset
           ask == r.pe /\ ~reset
           new == [old EXCEPT !.csc = csc, !.rst = reset, !.pe = pe, !.ask = ask]
<1>3. /\ csc \in BOOLEAN /\ pe \in BOOLEAN /\ ask \in BOOLEAN
      /\ csc => ~r.csc /\ old.csc
      /\ old.csc /\ ~csc => r.csc
      /\ pe => old.pe /\ ~reset
      /\ old.pe /\ r.pe /\ ~reset => pe
  <2>1. old.csc \in BOOLEAN /\ old.pe \in BOOLEAN /\ r.csc \in BOOLEAN /\ r.pe \in BOOLEAN
    BY <1>2 DEF U!PortRegs
  <2> QED BY <2>1
<1>4. port' = [port EXCEPT ![u_i] = new]
  BY <1>2, Zenon DEF U!Write
<1> HIDE DEF csc, pe, ask
<1>5. new \in U!PortRegs /\ new.csc = csc /\ new.pe = pe /\ new.conn = old.conn
  <2> DEFINE e1 == [old EXCEPT !.csc = csc]
             e2 == [e1 EXCEPT !.rst = reset]
             e3 == [e2 EXCEPT !.pe = pe]
  <2>1. old \in U!PortRegs
    BY <1>2
  <2> HIDE DEF old
  <2>2. e1 \in U!PortRegs /\ e1.csc = csc /\ e1.conn = old.conn
    BY <2>1, <1>3 DEF U!PortRegs
  <2> HIDE DEF e1
  <2>3. e2 \in U!PortRegs /\ e2.csc = csc /\ e2.conn = old.conn
    BY <2>2 DEF U!PortRegs
  <2> HIDE DEF e2
  <2>4. e3 \in U!PortRegs /\ e3.csc = csc /\ e3.pe = pe /\ e3.conn = old.conn
    BY <2>3, <1>3 DEF U!PortRegs
  <2> HIDE DEF e3
  <2>5. [e3 EXCEPT !.ask = ask] \in U!PortRegs /\ [e3 EXCEPT !.ask = ask].csc = csc
        /\ [e3 EXCEPT !.ask = ask].pe = pe /\ [e3 EXCEPT !.ask = ask].conn = old.conn
    BY <2>4, <1>3 DEF U!PortRegs
  <2>6. new = [e3 EXCEPT !.ask = ask]
    BY Zenon DEF e1, e2, e3
  <2> QED BY <2>5, <2>6
<1> HIDE DEF new
<1>6. port' \in [Ports -> U!PortRegs]
  BY <1>2, <1>4, <1>5
<1>7. ASSUME NEW p \in Ports
      PROVE  /\ port'[p].pe => port[p].pe /\ (p = u_i => ~reset)
             /\ port[p].pe /\ (p = u_i => r.pe /\ ~reset) => port'[p].pe
             /\ port'[p].conn = port[p].conn /\ (port'[p].csc => port[p].csc)
             /\ port[p].csc /\ ~port'[p].csc => p = u_i /\ r.csc
  <2>1. CASE p = u_i
    <3>1. port'[p] = new
      BY <1>2, <1>4, <1>5, <2>1
    <3>2. port'[p].pe = pe /\ port'[p].csc = csc /\ port'[p].conn = port[p].conn
      BY <1>5, <2>1, <3>1
    <3> QED BY <1>3, <2>1, <3>2
  <2>2. CASE p # u_i
    <3>1. port'[p] = port[p]
      BY <1>2, <1>4, <2>2
    <3> QED BY <2>2, <3>1
  <2> QED BY <2>1, <2>2
<1>8. addr \in [Ports -> 0 .. SILENT] /\ seen_up \in [Ports -> BOOLEAN] /\ 0 \in 0 .. SILENT
  BY PortFacts DEF Bus, SILENT
<1>9. /\ addr' \in [Ports -> 0 .. SILENT]
      /\ \A p \in Ports : addr'[p] = addr[p] \/ (p = u_i /\ reset /\ addr'[p] = 0)
      /\ reset /\ port[u_i].conn => addr'[u_i] = 0
  BY <1>8 DEF U!Write
<1>10. /\ seen_up' \in [Ports -> BOOLEAN]
       /\ \A p \in Ports : seen_up'[p] = seen_up[p] \/ (p = u_i /\ reset)
  BY <1>8 DEF U!Write
<1> QED BY <1>6, <1>7, <1>9, <1>10 DEF U!Write

\* The driver's four writes. Only the last one clears the change bit.
Writing == U!PortReset \/ U!PortRelease \/ U!PortEnable \/ U!ClearChange
LEMMA WriteSteps ==
  ASSUME Where, Regs, Bus, Writing
  PROVE  \E r \in [csc : BOOLEAN, pe : BOOLEAN], reset \in BOOLEAN :
           /\ u_i \in Ports /\ u_i' = u_i /\ U!Write(r, reset)
           /\ reset <=> u_pc = "assert"
           /\ r.csc => u_pc = "ack"
           /\ u_pc = "ack" => r.pe = regval.pe
           /\ u_pc' \in {"maxpkg", "address"} => u_pc = "ack"
           /\ u_pc \in Unaddressed \ {"enable"} /\ u_pc' \in Unaddressed \ {"enable", "assert", "clear", "ack"}
           /\ u_pc' # "await" \/ timeout' # 0
<1>1. CASE U!PortReset
  <2>1. u_pc = "assert" /\ u_pc' = "reset" /\ u_i' = u_i /\ U!Write(regval, TRUE)
    BY <1>1 DEF U!PortReset, U!At, U!Goto
  <2>2. regval \in [csc : BOOLEAN, pe : BOOLEAN] /\ ~regval.csc
    BY <2>1 DEF Regs
  <2>3. u_i \in Ports
    BY <2>1 DEF Where, OnPort
  <2> QED BY <2>1, <2>2, <2>3 DEF Unaddressed
<1>2. CASE U!PortRelease
  <2>1. u_pc = "reset" /\ u_pc' = "settle" /\ u_i' = u_i /\ U!Write(regval, FALSE)
    BY <1>2 DEF U!PortRelease, U!At, U!Goto
  <2>2. regval \in [csc : BOOLEAN, pe : BOOLEAN] /\ ~regval.csc
    BY <2>1 DEF Regs
  <2>3. u_i \in Ports
    BY <2>1 DEF Where, OnPort
  <2> QED BY <2>1, <2>2, <2>3 DEF Unaddressed
<1>3. CASE U!PortEnable
  <2> DEFINE r == [regval EXCEPT !.pe = TRUE]
  <2>1. u_pc = "settle" /\ u_pc' = "await" /\ u_i' = u_i /\ U!Write(r, FALSE) /\ timeout' # 0
    BY <1>3, WaitFacts DEF U!PortEnable, U!At
  <2>2. regval \in [csc : BOOLEAN, pe : BOOLEAN] /\ ~regval.csc
    BY <2>1 DEF Regs
  <2>3. r \in [csc : BOOLEAN, pe : BOOLEAN] /\ ~r.csc
    BY <2>2
  <2>4. u_i \in Ports
    BY <2>1 DEF Where, OnPort
  <2> HIDE DEF r
  <2> QED BY <2>1, <2>3, <2>4 DEF Unaddressed
<1>4. CASE U!ClearChange
  <2>1. u_pc = "ack" /\ u_pc' \in {"maxpkg", "address"} /\ u_i' = u_i /\ U!Write(regval, FALSE)
    BY <1>4 DEF U!ClearChange, U!At
  <2>2. u_i \in Ports
    BY <2>1 DEF Where, OnPort
  <2>3. regval \in [csc : BOOLEAN, pe : BOOLEAN]
    BY DEF Regs
  <2> QED BY <2>1, <2>2, <2>3 DEF Unaddressed
<1> QED BY <1>1, <1>2, <1>3, <1>4 DEF Writing

LEMMA BusWritten == ASSUME Where, Regs, Bus, Writing PROVE Bus'
<1>1. PICK r \in [csc : BOOLEAN, pe : BOOLEAN], reset \in BOOLEAN :
           /\ u_i \in Ports /\ u_i' = u_i /\ U!Write(r, reset)
           /\ u_pc' \in Unaddressed \ {"enable", "assert", "clear", "ack"}
  BY WriteSteps
<1>2. /\ port' \in [Ports -> U!PortRegs] /\ addr' \in [Ports -> 0 .. SILENT]
      /\ seen_up' \in [Ports -> BOOLEAN] /\ UNCHANGED <<stray, plugs>>
      /\ \A p \in Ports :
           /\ port'[p].pe => port[p].pe /\ (p = u_i => ~reset)
           /\ seen_up'[p] = seen_up[p] \/ (p = u_i /\ reset)
  BY <1>1, WriteEffect
<1>3. \A p \in Ports : port'[p].pe => seen_up'[p]
  BY <1>2 DEF Bus
<1> QED BY <1>1, <1>2, <1>3 DEF Bus

\* Unless a device was left behind, the port that is written keeps the others
\* apart.
LEMMA AddressedWritten ==
  ASSUME Where, Regs, Bus, Addressed, Writing
  PROVE  Addressed'
<1> SUFFICES ASSUME ~stray'
             PROVE  /\ \A p \in Ports : addr'[p] \in {0, p, SILENT}
                    /\ \A p \in Ports : port'[p].pe /\ addr'[p] = 0 =>
                         p = u_i' /\ u_pc' \in Unaddressed
                    /\ u_pc' = "await" /\ timeout' = 0 => ~port'[u_i'].pe
  BY DEF Addressed
<1>1. PICK r \in [csc : BOOLEAN, pe : BOOLEAN], reset \in BOOLEAN :
           /\ u_i \in Ports /\ u_i' = u_i /\ U!Write(r, reset)
           /\ u_pc' \in Unaddressed /\ (u_pc' # "await" \/ timeout' # 0)
  BY WriteSteps
<1>2. /\ UNCHANGED stray
      /\ \A p \in Ports :
           /\ port'[p].pe => port[p].pe /\ (p = u_i => ~reset)
           /\ addr'[p] = addr[p] \/ (p = u_i /\ reset /\ addr'[p] = 0)
  BY <1>1, WriteEffect
<1>3. /\ \A p \in Ports : addr[p] \in {0, p, SILENT}
      /\ \A p \in Ports : port[p].pe /\ addr[p] = 0 => p = u_i
  BY <1>2 DEF Addressed
<1> QED BY <1>1, <1>2, <1>3

\* What the other steps do to the ports.
LEMMA ProbeEffect ==
  ASSUME Bus, U!Probe
  PROVE  /\ port' \in [Ports -> U!PortRegs]
         /\ \A p \in Ports : /\ port'[p].pe = port[p].pe /\ port'[p].conn = port[p].conn
                             /\ port[p].csc => port'[p].csc
                             /\ port'[p].csc => port[p].csc \/ port[p].conn
         /\ u_pc = "probe" /\ u_pc' = "global" /\ UNCHANGED <<addr, seen_up, stray, plugs>>
<1>1. /\ u_pc = "probe" /\ u_pc' = "global" /\ UNCHANGED <<addr, seen_up, stray, plugs>>
      /\ port' = [p \in Ports |-> [port[p] EXCEPT !.csc = port[p].csc \/ port[p].conn]]
  BY PortFacts DEF U!Probe, U!At, U!Goto
<1>2. ASSUME NEW p \in Ports
      PROVE  /\ port'[p] \in U!PortRegs /\ port'[p].pe = port[p].pe
             /\ port'[p].conn = port[p].conn
             /\ port[p].csc => port'[p].csc
             /\ port'[p].csc => port[p].csc \/ port[p].conn
  <2> DEFINE c == port[p].csc \/ port[p].conn
  <2>1. port[p] \in U!PortRegs /\ port'[p] = [port[p] EXCEPT !.csc = c]
    BY <1>1 DEF Bus
  <2>2. c \in BOOLEAN /\ (port[p].csc => c) /\ (c => port[p].csc \/ port[p].conn)
    BY <2>1 DEF U!PortRegs
  <2> HIDE DEF c
  <2> QED BY <2>1, <2>2 DEF U!PortRegs
<1> QED BY <1>1, <1>2

LEMMA ComeUpEffect ==
  ASSUME Bus, NEW q \in Ports, U!ComeUp(q)
  PROVE  /\ port' \in [Ports -> U!PortRegs] /\ seen_up' \in [Ports -> BOOLEAN]
         /\ stray' \in BOOLEAN /\ UNCHANGED <<u_pc, u_i, timeout, addr, plugs>>
         /\ \A p \in Ports : p # q => port'[p] = port[p] /\ seen_up'[p] = seen_up[p]
         /\ seen_up'[q] /\ port'[q].csc = port[q].csc
         /\ port'[q].pe /\ port'[q].conn = port[q].conn
         /\ ~stray' => /\ ~stray /\ q = u_i
                       /\ u_pc = "settle" \/ (u_pc = "await" /\ timeout # 0)
<1>1. UNCHANGED <<u_pc, u_i, timeout, addr, plugs>>
  BY DEF U!ComeUp, U!driver
<1>2. port' = [port EXCEPT ![q].pe = TRUE] /\ seen_up' = [seen_up EXCEPT ![q] = TRUE]
  BY DEF U!ComeUp
<1>3. stray' \in BOOLEAN
  BY DEF U!ComeUp
<1>4. ~stray' => /\ ~stray /\ q = u_i
                 /\ u_pc = "settle" \/ (u_pc = "await" /\ timeout # 0)
  BY DEF U!ComeUp
<1>5. port[q] \in U!PortRegs
  BY DEF Bus
<1>6. /\ [port[q] EXCEPT !.pe = TRUE] \in U!PortRegs
      /\ [port[q] EXCEPT !.pe = TRUE].csc = port[q].csc
      /\ [port[q] EXCEPT !.pe = TRUE].pe
      /\ [port[q] EXCEPT !.pe = TRUE].conn = port[q].conn
  BY <1>5 DEF U!PortRegs
<1>7. /\ port' \in [Ports -> U!PortRegs] /\ seen_up' \in [Ports -> BOOLEAN]
      /\ \A p \in Ports : p # q => port'[p] = port[p] /\ seen_up'[p] = seen_up[p]
      /\ seen_up'[q] /\ port'[q].csc = port[q].csc
      /\ port'[q].pe /\ port'[q].conn = port[q].conn
  BY <1>2, <1>6 DEF Bus
<1> QED BY <1>1, <1>3, <1>4, <1>7

LEMMA PlugEffect ==
  ASSUME Bus, NEW q \in Ports, U!PlugEvent(q)
  PROVE  /\ port' \in [Ports -> U!PortRegs] /\ addr' \in [Ports -> 0 .. SILENT]
         /\ plugs' \in 0 .. MaxPlugs /\ UNCHANGED <<u_pc, u_i, timeout, seen_up, stray>>
         /\ \A p \in Ports : p # q => port'[p] = port[p] /\ addr'[p] = addr[p]
         /\ ~port'[q].pe /\ port'[q].csc /\ addr'[q] = SILENT
<1> DEFINE old == port[q]
           new == [old EXCEPT !.conn = ~old.conn, !.csc = TRUE, !.pe = FALSE, !.ask = FALSE]
<1>1. /\ UNCHANGED <<u_pc, u_i, timeout, seen_up, stray>>
      /\ plugs' = plugs + 1 /\ plugs < MaxPlugs
      /\ addr' = [addr EXCEPT ![q] = SILENT]
  BY PortFacts DEF U!PlugEvent, U!driver
<1>2. old \in U!PortRegs /\ port' = [port EXCEPT ![q] = new]
  <2>1. port' = [port EXCEPT ![q] = new]
    BY Zenon DEF U!PlugEvent
  <2> QED BY <2>1 DEF Bus
<1> HIDE DEF old
<1>3. new \in U!PortRegs /\ new.pe = FALSE /\ new.csc = TRUE
  BY <1>2 DEF U!PortRegs
<1> HIDE DEF new
<1>4. /\ port' \in [Ports -> U!PortRegs] /\ port'[q] = new
      /\ \A p \in Ports : p # q => port'[p] = port[p]
  BY <1>2, <1>3 DEF Bus
<1>5. plugs' \in 0 .. MaxPlugs
  <2>1. plugs \in 0 .. MaxPlugs
    BY DEF Bus
  <2> QED BY <1>1, <2>1, PortFacts
<1>6. /\ addr' \in [Ports -> 0 .. SILENT] /\ addr'[q] = SILENT
      /\ \A p \in Ports : p # q => addr'[p] = addr[p]
  BY <1>1, PortFacts DEF Bus, SILENT
<1> QED BY <1>1, <1>3, <1>4, <1>5, <1>6

LEMMA BusKept == ASSUME Where, Regs, Bus, UNext PROVE Bus'
<1>1. CASE U!Probe
  BY <1>1, ProbeEffect DEF Bus
<1>2. CASE U!HcReset
  BY <1>2 DEF Bus, U!HcReset, U!At, U!bus
<1>3. CASE U!PollReset
  BY <1>3 DEF Bus, U!PollReset, U!At, U!hc, U!bus
<1>4. CASE U!ResetFailed
  BY <1>4 DEF Bus, U!ResetFailed, U!At, U!Goto, U!hc, U!bus
<1>5. CASE U!InitFrameList
  BY <1>5 DEF Bus, U!InitFrameList, U!At, U!Goto, U!hc, U!bus
<1>6. CASE U!StartController
  BY <1>6 DEF Bus, U!StartController, U!At, U!Goto, U!hc, U!bus
<1>7. CASE U!Register
  BY <1>7 DEF Bus, U!Register, U!At, U!hc, U!bus
<1>8. CASE U!SkipPort
  BY <1>8 DEF Bus, U!SkipPort, U!At, U!NextPort, U!hc, U!bus
<1>9. CASE U!Connected
  BY <1>9 DEF Bus, U!Connected, U!At, U!hc, U!bus
<1>10. CASE U!PortsDone
  BY <1>10 DEF Bus, U!PortsDone, U!At, U!Goto, U!hc, U!bus
<1>11. CASE U!PortReset
  BY <1>11, BusWritten DEF Writing
<1>12. CASE U!PortRelease
  BY <1>12, BusWritten DEF Writing
<1>13. CASE U!PortEnable
  BY <1>13, BusWritten DEF Writing
<1>14. CASE U!AwaitEnable
  BY <1>14 DEF Bus, U!AwaitEnable, U!At, U!hc, U!bus
<1>15. CASE U!EnableFailed
  BY <1>15 DEF Bus, U!EnableFailed, U!At, U!NextPort, U!hc, U!bus
<1>16. CASE U!Enabled
  <2>1. u_i \in Ports
    BY <1>16 DEF Where, OnPort, U!Enabled, U!At
  <2> QED BY <1>16, <2>1 DEF Bus, U!Enabled, U!At, U!Goto, U!bus
<1>17. CASE U!ClearChange
  BY <1>17, BusWritten DEF Writing
<1>18. CASE U!ReadMaxPacket
  BY <1>18 DEF Bus, U!ReadMaxPacket, U!At, U!hc, U!bus
<1>19. CASE U!SetAddress
  <2>1. u_pc' = "desc" /\ UNCHANGED <<port, seen_up, stray, plugs>>
    BY <1>19 DEF U!SetAddress, U!Goto
  <2>2. addr' = [p \in Ports |-> IF port[p].pe /\ addr[p] = 0 THEN u_i ELSE addr[p]]
    BY <1>19, PortFacts DEF U!SetAddress, U!new_address
  <2>3. u_i \in 0 .. SILENT
    BY PortFacts DEF Where, SILENT
  <2> QED BY <2>1, <2>2, <2>3 DEF Bus
<1>20. CASE U!ReadDesc
  BY <1>20 DEF Bus, U!ReadDesc, U!At, U!Goto, U!hc, U!bus
<1>21. CASE U!ReadString("mfg", "show_mfg")
  BY <1>21 DEF Bus, U!ReadString, U!At, U!Goto, U!hc, U!bus
<1>22. CASE U!ShowMfg
  BY <1>22 DEF Bus, U!ShowMfg, U!At, U!Goto, U!hc, U!bus
<1>23. CASE U!ReadString("prod", "show_prod")
  BY <1>23 DEF Bus, U!ReadString, U!At, U!Goto, U!hc, U!bus
<1>24. CASE U!ShowProd
  BY <1>24 DEF Bus, U!ShowProd, U!At, U!NextPort, U!hc, U!bus
<1>25. CASE U!RequestFailed
  BY <1>25 DEF Bus, U!RequestFailed, U!NextPort
<1>26. CASE U!StringFailed("mfg", "show_mfg")
  BY <1>26 DEF Bus, U!StringFailed, U!At, U!Goto, U!hc, U!bus
<1>27. CASE U!StringFailed("prod", "show_prod")
  BY <1>27 DEF Bus, U!StringFailed, U!At, U!Goto, U!hc, U!bus
<1>28. CASE U!LeaveReset
  BY <1>28 DEF Bus, U!LeaveReset, U!driver, U!bus
<1>29. ASSUME NEW q \in U!Ports, U!ComeUp(q) PROVE Bus'
  <2>1. q \in Ports
    BY <1>29, PortFacts
  <2>2. \A p \in Ports : port'[p].pe => seen_up'[p]
    BY <1>29, <2>1, ComeUpEffect DEF Bus
  <2>3. u_pc' \in {"clear", "ack"} => seen_up'[u_i']
    <3>1. u_pc \in {"clear", "ack"} => u_i \in Ports /\ seen_up[u_i]
      BY DEF Where, OnPort, Bus
    <3> QED BY <1>29, <2>1, <3>1, ComeUpEffect
  <2>4. plugs' \in 0 .. MaxPlugs /\ addr' \in [Ports -> 0 .. SILENT]
    BY <1>29, <2>1, ComeUpEffect DEF Bus
  <2> QED BY <1>29, <2>1, <2>2, <2>3, <2>4, ComeUpEffect DEF Bus
<1>30. ASSUME NEW q \in U!Ports, U!PlugEvent(q) PROVE Bus'
  <2>1. q \in Ports
    BY <1>30, PortFacts
  <2>2. \A p \in Ports : port'[p].pe => port[p].pe
    BY <1>30, <2>1, PlugEffect
  <2> QED BY <1>30, <2>1, <2>2, PlugEffect DEF Bus
<1>31. CASE U!ReadStatus
  BY <1>31 DEF Bus, U!ReadStatus, U!At, U!bus
<1>32. CASE U!ReadChange
  BY <1>32 DEF Bus, U!ReadChange, U!At, U!bus
<1> QED
  BY <1>1, <1>2, <1>3, <1>4, <1>5, <1>6, <1>7, <1>8, <1>9, <1>10, <1>11, <1>12, <1>13, <1>14, <1>15, <1>16, <1>17, <1>18, <1>19, <1>20, <1>21, <1>22, <1>23, <1>24, <1>25, <1>26, <1>27, <1>28, <1>29, <1>30, <1>31, <1>32
     DEF UNext, U!Driver, U!Failed, U!Hardware

LEMMA AddressedKept == ASSUME Where, Regs, Bus, Addressed, UNext PROVE Addressed'
<1>1. CASE U!Probe
  <2>1. u_pc # "await" /\ u_pc' # "await" /\ u_pc \notin Unaddressed
    BY <1>1, ProbeEffect DEF Unaddressed
  <2> QED BY <1>1, <2>1, ProbeEffect DEF Addressed
<1>2. CASE U!HcReset
  BY <1>2 DEF Addressed, Unaddressed, U!HcReset, U!At, U!bus
<1>3. CASE U!PollReset
  BY <1>3 DEF Addressed, U!PollReset, U!At, U!bus
<1>4. CASE U!ResetFailed
  BY <1>4 DEF Addressed, Unaddressed, U!ResetFailed, U!At, U!Goto, U!hc, U!bus
<1>5. CASE U!InitFrameList
  BY <1>5 DEF Addressed, Unaddressed, U!InitFrameList, U!At, U!Goto, U!hc, U!bus
<1>6. CASE U!StartController
  BY <1>6 DEF Addressed, Unaddressed, U!StartController, U!At, U!Goto, U!hc, U!bus
<1>7. CASE U!Register
  BY <1>7 DEF Addressed, Unaddressed, U!Register, U!At, U!hc, U!bus
<1>8. CASE U!SkipPort
  BY <1>8 DEF Addressed, Unaddressed, U!SkipPort, U!At, U!NextPort, U!hc, U!bus
<1>9. CASE U!Connected
  BY <1>9 DEF Addressed, Unaddressed, U!Connected, U!At, U!hc, U!bus
<1>10. CASE U!PortsDone
  BY <1>10 DEF Addressed, Unaddressed, U!PortsDone, U!At, U!Goto, U!hc, U!bus
<1>11. CASE U!PortReset
  BY <1>11, AddressedWritten DEF Writing
<1>12. CASE U!PortRelease
  BY <1>12, AddressedWritten DEF Writing
<1>13. CASE U!PortEnable
  BY <1>13, AddressedWritten DEF Writing
<1>14. CASE U!AwaitEnable
  BY <1>14 DEF Addressed, Unaddressed, U!AwaitEnable, U!At, U!hc, U!bus
<1>15. CASE U!EnableFailed
  BY <1>15 DEF Addressed, Unaddressed, U!EnableFailed, U!At, U!NextPort, U!hc, U!bus
<1>16. CASE U!Enabled
  BY <1>16 DEF Addressed, Unaddressed, U!Enabled, U!At, U!Goto, U!hc, U!bus
<1>17. CASE U!ClearChange
  BY <1>17, AddressedWritten DEF Writing
<1>18. CASE U!ReadMaxPacket
  BY <1>18 DEF Addressed, Unaddressed, U!ReadMaxPacket, U!At, U!hc, U!bus
<1>19. CASE U!SetAddress
  <2>1. u_pc = "address" /\ u_pc' = "desc" /\ UNCHANGED <<port, u_i, stray>>
    BY <1>19 DEF U!SetAddress, U!At, U!Goto
  <2>2. addr' = [p \in Ports |-> IF port[p].pe /\ addr[p] = 0 THEN u_i ELSE addr[p]]
    BY <1>19, PortFacts DEF U!SetAddress, U!new_address
  <2>3. u_i \in Ports /\ u_i # 0
    BY <2>1 DEF Where, OnPort, Ports
  <2>4. ASSUME ~stray, NEW p \in Ports
        PROVE  addr'[p] \in {0, p, SILENT} /\ ~(port[p].pe /\ addr'[p] = 0)
    BY <2>2, <2>3, <2>4 DEF Addressed
  <2> QED BY <2>1, <2>4 DEF Addressed
<1>20. CASE U!ReadDesc
  BY <1>20 DEF Addressed, Unaddressed, U!ReadDesc, U!At, U!Goto, U!hc, U!bus
<1>21. CASE U!ReadString("mfg", "show_mfg")
  BY <1>21 DEF Addressed, Unaddressed, U!ReadString, U!At, U!Goto, U!hc, U!bus
<1>22. CASE U!ShowMfg
  BY <1>22 DEF Addressed, Unaddressed, U!ShowMfg, U!At, U!Goto, U!hc, U!bus
<1>23. CASE U!ReadString("prod", "show_prod")
  BY <1>23 DEF Addressed, Unaddressed, U!ReadString, U!At, U!Goto, U!hc, U!bus
<1>24. CASE U!ShowProd
  BY <1>24 DEF Addressed, Unaddressed, U!ShowProd, U!At, U!NextPort, U!hc, U!bus
<1>25. CASE U!RequestFailed
  BY <1>25 DEF Addressed, Unaddressed, U!RequestFailed, U!NextPort
<1>26. CASE U!StringFailed("mfg", "show_mfg")
  BY <1>26 DEF Addressed, Unaddressed, U!StringFailed, U!At, U!Goto, U!hc, U!bus
<1>27. CASE U!StringFailed("prod", "show_prod")
  BY <1>27 DEF Addressed, Unaddressed, U!StringFailed, U!At, U!Goto, U!hc, U!bus
<1>28. CASE U!LeaveReset
  BY <1>28 DEF Addressed, U!LeaveReset, U!driver, U!bus
<1>29. ASSUME NEW q \in U!Ports, U!ComeUp(q) PROVE Addressed'
  <2>1. q \in Ports
    BY <1>29, PortFacts
  <2> SUFFICES ASSUME ~stray' PROVE Addressed'
    BY DEF Addressed
  <2>2. /\ ~stray /\ q = u_i /\ u_pc \in Unaddressed /\ ~(u_pc = "await" /\ timeout = 0)
        /\ UNCHANGED <<u_pc, u_i, timeout, addr>>
        /\ \A p \in Ports : p # q => port'[p] = port[p]
    BY <1>29, <2>1, ComeUpEffect DEF Unaddressed
  <2> QED BY <2>2 DEF Addressed
<1>30. ASSUME NEW q \in U!Ports, U!PlugEvent(q) PROVE Addressed'
  <2>1. q \in Ports
    BY <1>30, PortFacts
  <2>2. /\ UNCHANGED <<u_pc, u_i, timeout, stray>> /\ ~port'[q].pe /\ addr'[q] = SILENT
        /\ \A p \in Ports : p # q => port'[p] = port[p] /\ addr'[p] = addr[p]
    BY <1>30, <2>1, PlugEffect
  <2>3. u_pc = "await" => u_i \in Ports
    BY DEF Where, OnPort
  <2>4. ASSUME ~stray, NEW p \in Ports
        PROVE  /\ addr'[p] \in {0, p, SILENT}
               /\ port'[p].pe /\ addr'[p] = 0 => p = u_i /\ u_pc \in Unaddressed
    BY <2>2, <2>4 DEF Addressed
  <2>5. ~stray /\ u_pc = "await" /\ timeout = 0 => ~port'[u_i].pe
    BY <2>2, <2>3 DEF Addressed
  <2> QED BY <2>2, <2>4, <2>5 DEF Addressed
<1>31. CASE U!ReadStatus
  BY <1>31 DEF Addressed, Unaddressed, U!ReadStatus, U!At, U!hc, U!bus
<1>32. CASE U!ReadChange
  BY <1>32 DEF Addressed, Unaddressed, U!ReadChange, U!At, U!hc, U!bus
<1> QED
  BY <1>1, <1>2, <1>3, <1>4, <1>5, <1>6, <1>7, <1>8, <1>9, <1>10, <1>11, <1>12, <1>13, <1>14, <1>15, <1>16, <1>17, <1>18, <1>19, <1>20, <1>21, <1>22, <1>23, <1>24, <1>25, <1>26, <1>27, <1>28, <1>29, <1>30, <1>31, <1>32
     DEF UNext, U!Driver, U!Failed, U!Hardware


LEMMA UKept == ASSUME UInv, UNext PROVE UInv'
BY WhereKept, RunsKept, RegsKept, AllocatedKept, BusKept, AddressedKept DEF UInv

\* A call begins at rest, with any devices plugged in.
Resting ==
  /\ u_pc = "probe" /\ u_i = 0 /\ timeout = 0 /\ second = FALSE
  /\ regval = [csc |-> FALSE, pe |-> FALSE] /\ u_heap = {}
  /\ hcreset = FALSE /\ running = FALSE /\ registered = FALSE
  /\ addr = [p \in Ports |-> SILENT] /\ seen_up = [p \in Ports |-> FALSE]
  /\ stray = FALSE /\ plugs = 0

LEMMA PowerOnPorts ==
  /\ NoDevices \in U!PowerOn
  /\ \A r \in U!PowerOn : r \in [Ports -> U!PortRegs] /\ \A p \in Ports : ~r[p].pe
<1>1. ASSUME NEW r \in U!PowerOn
      PROVE  r \in [Ports -> U!PortRegs] /\ \A p \in Ports : ~r[p].pe
  <2>1. ASSUME NEW p \in Ports PROVE r[p] \in U!PortRegs /\ ~r[p].pe
    <3>1. PICK c \in BOOLEAN : r[p] = [conn |-> c, csc |-> c, pe |-> FALSE, rst |-> FALSE,
                                       ask |-> FALSE]
      BY PortFacts DEF U!PowerOn
    <3> QED BY <3>1 DEF U!PortRegs
  <2>2. r \in [Ports -> {[conn |-> c, csc |-> c, pe |-> FALSE, rst |-> FALSE, ask |-> FALSE] :
                           c \in BOOLEAN}]
    BY PortFacts DEF U!PowerOn
  <2> QED BY <2>1, <2>2
<1>2. NoDevices \in U!PowerOn
  BY DEF NoDevices, U!PowerOn
<1> QED BY <1>1, <1>2

LEMMA RestingInv == ASSUME Resting, port \in U!PowerOn PROVE UInv
<1>1. Where /\ Runs /\ Allocated
  <2>1. u_pc \in Resetting /\ u_pc = "probe" /\ u_i = 0 /\ PortCount \in Nat
    BY PortFacts DEF Resting, Resetting
  <2>2. u_pc \notin OnPort \cup Starting \cup {"port", "done"}
    BY <2>1 DEF Starting, OnPort
  <2>3. Where
    BY <2>1, <2>2 DEF Where, Points
  <2>4. Runs
    BY <2>1 DEF Resting, Runs
  <2> QED BY <2>1, <2>2, <2>3, <2>4 DEF Resting, Allocated
<1>2. Regs
  <2>1. 0 \in U!uint16_t
    BY DEF U!uint16_t
  <2> QED BY <2>1 DEF Resting, Regs
<1>3. Bus /\ Addressed
  <2>1. SILENT \in 0 .. SILENT /\ 0 \in 0 .. MaxPlugs
    BY PortFacts DEF SILENT
  <2> QED BY <2>1, PowerOnPorts DEF Resting, Bus, Addressed
<1> QED BY <1>1, <1>2, <1>3 DEF UInv

LEMMA CallStarts ==
  ASSUME Resting, UInv, port' \in U!PowerOn,
         UNCHANGED <<u_pc, u_i, timeout, regval, second, u_heap, hcreset, running, registered,
                     addr, seen_up, stray, plugs>>
  PROVE  UInv'
<1>1. Where' /\ Runs' /\ Regs' /\ Allocated'
  BY DEF UInv, Where, Runs, Regs, Allocated
<1>2. Bus'
  BY PowerOnPorts DEF UInv, Bus
<1>3. Addressed'
  BY PowerOnPorts DEF UInv, Addressed, Resting
<1> QED BY <1>1, <1>2, <1>3 DEF UInv

\* What UInv is for.
LEMMA UTypes == ASSUME UInv PROVE U!TypeOK
<1> USE DEF UInv
<1>1. u_pc \in {"probe", "global", "poll", "failed", "start", "astray", "register",
                "port", "done", "enable", "assert", "reset", "settle", "await", "clear",
                "ack", "maxpkg", "address", "desc", "mfg", "show_mfg", "prod", "show_prod"}
  BY DEF Where, Points, Resetting, Starting, OnPort
<1>2. u_i \in 0 .. (PortCount + 1)
  BY DEF Where
<1>3. timeout \in U!uint16_t /\ regval \in [csc : BOOLEAN, pe : BOOLEAN] /\ second \in BOOLEAN
  BY DEF Regs
<1>4. u_heap \subseteq U!Objects
  BY DEF Allocated
<1>5. hcreset \in BOOLEAN /\ running \in BOOLEAN /\ registered \in BOOLEAN
  BY DEF Runs
<1>6. /\ port \in [U!Ports -> U!PortRegs] /\ addr \in [U!Ports -> 0 .. U!SILENT]
      /\ seen_up \in [U!Ports -> BOOLEAN] /\ stray \in BOOLEAN /\ plugs \in 0 .. MaxPlugs
  BY PortFacts DEF Bus
<1> QED BY <1>1, <1>2, <1>3, <1>4, <1>5, <1>6 DEF U!TypeOK

LEMMA UHeld == ASSUME UInv PROVE U!HardwareMemoryHeld /\ U!RequestsCleanUp
<1> USE DEF UInv
<1>1. running => OfController \subseteq u_heap /\ ~hcreset
  BY DEF Runs, Allocated, Resetting, Starting
<1>2. registered => OfController \cup OfHandler \subseteq u_heap
  BY DEF Runs, Allocated
<1>3. u_pc = "failed" => u_heap = {} /\ ~running /\ ~registered
  BY DEF Runs, Allocated, Resetting
<1>4. U!Object({"handler", "uhci_dev"}) \subseteq OfController \cup OfHandler
  BY DEF U!Object, OfController, OfHandler
<1>5. U!HardwareMemoryHeld
  BY <1>1, <1>2, <1>3, <1>4 DEF U!HardwareMemoryHeld, OfController
<1>6. u_pc \in {"port", "done", "mfg", "prod"} => u_heap \cap U!Strings = {}
  BY DEF Allocated
<1>7. U!Object({"sdesc", "buf"}) = U!Strings
  BY DEF U!Strings, U!Object
<1>8. U!RequestsCleanUp
  BY <1>6, <1>7, PortFacts DEF Allocated, U!RequestsCleanUp
<1> QED BY <1>5, <1>8

LEMMA UAddresses == ASSUME UInv PROVE AddressesDiffer
<1> SUFFICES ASSUME ~stray, NEW p \in Ports, NEW q \in Ports, p # q, port[p].pe, port[q].pe,
                    addr[p] = addr[q]
             PROVE  addr[p] = SILENT
  BY PortFacts DEF AddressesDiffer, U!AddressesDiffer
<1>1. p # SILENT /\ q # SILENT /\ p # 0 /\ q # 0 /\ SILENT # 0
  BY PortFacts DEF Ports, SILENT
<1>2. /\ addr[p] \in {0, p, SILENT} /\ addr[q] \in {0, q, SILENT}
      /\ addr[p] = 0 => p = u_i
      /\ addr[q] = 0 => q = u_i
  BY DEF UInv, Addressed
<1> QED BY <1>1, <1>2

\* Only the write after a port has come up clears its change bit.
LEMMA ChangeCleared ==
  ASSUME UInv, UNext, NEW p \in Ports, port[p].csc, ~port'[p].csc
  PROVE  seen_up[p]
<1> USE DEF UInv
<1>1. CASE Writing
  <2>1. PICK r \in [csc : BOOLEAN, pe : BOOLEAN], reset \in BOOLEAN :
          u_i \in Ports /\ U!Write(r, reset) /\ (r.csc => u_pc = "ack")
    BY <1>1, WriteSteps
  <2>2. p = u_i /\ r.csc
    BY <2>1, WriteEffect
  <2> QED BY <2>1, <2>2 DEF Bus
<1>2. ~U!Probe
  BY ProbeEffect
<1>3. ASSUME NEW q \in Ports, U!ComeUp(q) PROVE FALSE
  BY <1>3, ComeUpEffect
<1>4. ASSUME NEW q \in Ports, U!PlugEvent(q) PROVE FALSE
  BY <1>4, PlugEffect
<1>5. port' # port
  OBVIOUS
<1>6. ~U!Hardware
  BY <1>3, <1>4, <1>5, PortFacts DEF U!Hardware, U!LeaveReset, U!bus
<1>7. ~U!Failed
  BY <1>5 DEF U!Failed, U!RequestFailed, U!StringFailed, U!bus
<1>8. U!Driver => Writing
  BY <1>2, <1>5 DEF U!Driver, Writing, U!HcReset, U!PollReset, U!ResetFailed, U!InitFrameList,
     U!StartController, U!Register, U!SkipPort, U!Connected, U!PortsDone, U!ReadStatus,
     U!AwaitEnable, U!EnableFailed, U!Enabled, U!ReadChange, U!ReadMaxPacket, U!SetAddress, U!ReadDesc, U!ReadString, U!ShowMfg,
     U!ShowProd, U!bus
<1> QED BY <1>1, <1>6, <1>7, <1>8 DEF UNext
-----------------------------------------------------------------------------
(* The scan                                                                *)

PciNext == Scan \/ Accepted \/ Declined
Kinds == DOMAIN machine.kind
Answering == {f \in Kinds : machine.kind[f] # Reserved}

\* Where the scan is: func counts only in a device that exists, and at most to
\* the number of functions it says it has.
Scanning ==
  /\ pc \in {"register", "device", "func", "offer", "done"} /\ machine \in Machines
  /\ bus \in 0 .. BusCount /\ device \in 0 .. DeviceCount - 1 /\ func \in 0 .. FuncCount
  /\ pc # "done" => bus < BusCount
  /\ pc = "done" => bus = BusCount
  /\ pc = "register" => bus = 0 /\ device = 0
  /\ max_funcs \in {0, 1, FuncCount}
  /\ pc \in {"func", "offer"} => max_funcs = FuncsOf
  /\ pc \in {"func", "offer"} => <<bus, device, 0>> \in Kinds
  /\ pc = "offer" => func < max_funcs /\ dev \in Answering

\* The drivers are the first of the calls, as far as the table goes.
Table ==
  /\ i \in 1 .. Len(Calls) + 1
  /\ drivers \in Seq(DOMAIN Matches) /\ Len(drivers) <= MAX_REG_DRIVERS
  /\ Len(drivers) <= Len(Calls) /\ \A k \in 1 .. Len(drivers) : drivers[k] = Calls[k]
  /\ pc = "register" => Len(drivers) = i - 1 \/ Len(drivers) = MAX_REG_DRIVERS
  /\ pc = "offer" => i <= Len(drivers) + 1

\* Driver d was offered f among the first n offers of o.
Was(o, d, f, n) == \E j \in 1 .. n : o[j] = <<d, f>>

\* The functions that were passed have had all their offers, the one that is
\* looked at those before driver i, and no other has had one.
Offered ==
  /\ offers \in Seq((DOMAIN Matches) \X Kinds)
  /\ pc = "register" => offers = <<>>
  /\ \A j, k \in 1 .. Len(offers) : offers[j] = offers[k] => j = k
  /\ \A k \in 1 .. Len(offers) :
       offers[k][1] \in Registered /\ machine.kind[offers[k][2]] # Reserved
  /\ \A k \in 1 .. Len(offers) : \A a, b \in 1 .. Len(drivers) :
       a < b /\ offers[k][1] = drivers[b] => Was(offers, drivers[a], offers[k][2], k - 1)
  /\ \A k \in 1 .. Len(offers), f \in Kinds : offers[k][2] = f =>
       \/ Passed(f)
       \/ pc = "offer" /\ f = dev /\ \E a \in 1 .. i - 1 : offers[k][1] = drivers[a]
  /\ pc = "offer" => \A a \in 1 .. i - 1 : Was(offers, drivers[a], dev, Len(offers))
  /\ \A f \in Answering : Passed(f) =>
       f \in claimed \/ \A a \in 1 .. Len(drivers) : Was(offers, drivers[a], f, Len(offers))

\* The structs are those that were claimed, those that were lost and the one that
\* is being offered.
Claims ==
  /\ heap \subseteq Addresses
  /\ \A a \in Addresses : a \in heap <=> a \in claimed \cup Leaked \/ (pc = "offer" /\ a = dev)
  /\ \A a \in claimed : Passed(a) /\ a \in Answering

\* Bus masters are functions of their driver's kind.
Mastering == master \subseteq Kinds /\ MastersMatch

PciInv == Scanning /\ Table /\ Offered /\ Claims /\ Mastering

-----------------------------------------------------------------------------
(* Configuration space                                                     *)

LEMMA BusFacts ==
  /\ BusCount \in 1 .. 256 /\ DeviceCount \in 1 .. 32 /\ FuncCount \in 1 .. 8
  /\ \A m \in Machines : \A a \in DOMAIN m.kind :
       /\ a \in Addresses /\ <<a[1], a[2], 0>> \in DOMAIN m.kind
       /\ a[3] # 0 => <<a[1], a[2]>> \in m.multi
BY MachinesWellFormed DEF MachineAssumption

\* An access selects the function it names, or function 0 of a device that has
\* only one, whichever register it is for: the three numbers come back out of
\* the address they were put into.
LEMMA Selection ==
  ASSUME NEW a \in Addresses, NEW r \in {0, 4}
  PROVE  Selected(get_pci_dev_addr(a, r)) =
           IF <<a[1], a[2]>> \in machine.multi THEN a ELSE <<a[1], a[2], 0>>
<1> DEFINE x == get_pci_dev_addr(a, r)
           b == a[1]
           d == a[2]
           f == a[3]
<1>1. b \in 0 .. 255 /\ d \in 0 .. 31 /\ f \in 0 .. 7 /\ a = <<b, d, f>>
  BY BusFacts DEF Addresses
<1>2. x = b * 2^16 + (d % 32) * 2^11 + (f % 8) * 2^8 + (r - (r % 4))
  BY DEF get_pci_dev_addr
<1>3. Selected(x) =
        LET slot == <<(x \div 2^16) % 256, (x \div 2^11) % 32>>
        IN  <<slot[1], slot[2], IF slot \in machine.multi THEN (x \div 2^8) % 8 ELSE 0>>
  BY DEF Selected
<1> HIDE DEF x, b, d, f
<1>4. 2^16 = 65536 /\ 2^11 = 2048 /\ 2^8 = 256
  OBVIOUS
<1>5. d % 32 = d /\ f % 8 = f /\ r - (r % 4) = r
  BY <1>1
<1>6. x = b * 65536 + d * 2048 + f * 256 + r
  BY <1>2, <1>4, <1>5
<1>7. x \div 65536 = b /\ x \div 2048 = 32 * b + d /\ x \div 256 = 8 * (32 * b + d) + f
  BY <1>1, <1>6
<1>8. b % 256 = b /\ (32 * b + d) % 32 = d /\ (8 * (32 * b + d) + f) % 8 = f
  BY <1>1
<1>9. Selected(x) = <<b, d, IF <<b, d>> \in machine.multi THEN f ELSE 0>>
  BY <1>3, <1>4, <1>7, <1>8
<1> QED BY <1>1, <1>9 DEF x, b, d, f

\* Below max_funcs, and only there, a function answers for itself; what the
\* filter lets through is what exists and has a class.
LEMMA HeaderItself ==
  ASSUME machine \in Machines, NEW a \in Headers
  PROVE  /\ a \in Addresses /\ a = <<a[1], a[2], a[3]>> /\ a[1] \in 0 .. BusCount - 1
         /\ a[2] \in 0 .. DeviceCount - 1 /\ a[3] \in 0 .. FuncCount - 1
         /\ Function(a) = a /\ Selected(get_pci_dev_addr(a, 4)) = a
         /\ Exists(a) <=> a \in Kinds
         /\ Filtered(a) <=> a \notin Answering
<1>1. a \in Addresses /\ (a[3] # 0 => <<a[1], a[2]>> \in machine.multi)
  BY DEF Headers
<1>2. /\ a = <<a[1], a[2], a[3]>> /\ a[1] \in 0 .. BusCount - 1
      /\ a[2] \in 0 .. DeviceCount - 1 /\ a[3] \in 0 .. FuncCount - 1
  BY <1>1, BusFacts DEF Addresses
<1>3. \A r \in {0, 4} : Selected(get_pci_dev_addr(a, r)) = a
  <2> SUFFICES ASSUME NEW r \in {0, 4} PROVE Selected(get_pci_dev_addr(a, r)) = a
    OBVIOUS
  <2>1. CASE <<a[1], a[2]>> \in machine.multi
    BY <1>1, <2>1, Selection
  <2>2. CASE <<a[1], a[2]>> \notin machine.multi
    <3>1. a = <<a[1], a[2], 0>>
      BY <1>1, <1>2, <2>2
    <3> QED BY <1>1, <2>2, <3>1, Selection
  <2> QED BY <2>1, <2>2
<1>4. Function(a) = a /\ (Exists(a) <=> a \in Kinds)
  BY <1>3 DEF Function, Exists, Kinds
<1> QED BY <1>1, <1>2, <1>3, <1>4 DEF Filtered, Answering

LEMMA KindsRead == ASSUME machine \in Machines PROVE Kinds \subseteq Headers
BY BusFacts DEF Kinds, Headers

LEMMA DevRead ==
  ASSUME Scanning, pc \in {"func", "offer"}, func < max_funcs
  PROVE  dev \in Headers
<1>1. dev \in Addresses /\ dev[1] = bus /\ dev[2] = device /\ dev[3] = func
  BY BusFacts DEF Scanning, Addresses, dev
<1>2. <<bus, device>> \notin machine.multi => func = 0
  BY BusFacts DEF Scanning, FuncsOf
<1> QED BY <1>1, <1>2 DEF Scanning, Kinds, Headers

-----------------------------------------------------------------------------
(* What a step does to the scan                                            *)

Advance == Accepted \/ pci_destroy_device
Skip == ReadHeader /\ Filtered(dev)

\* One function at a time: the loops pass a function whose header they read only
\* after its offers, or when it is filtered.
LEMMA NextDevicePasses ==
  ASSUME Scanning, pc \in {"device", "func"}, NextDevice, NEW f \in Headers,
         f[1] = bus /\ f[2] = device => Passed(f)
  PROVE  Passed(f)' <=> Passed(f)
<1>1. f[1] \in Nat /\ f[2] \in 0 .. DeviceCount - 1 /\ f[3] \in Nat
  BY BusFacts, HeaderItself DEF Scanning
<1>2. bus \in Nat /\ device \in 0 .. DeviceCount - 1 /\ DeviceCount \in Nat
  BY BusFacts DEF Scanning
<1>3. pc' \notin {"func", "offer"}
  BY DEF NextDevice
<1>4. CASE device + 1 < DeviceCount
  BY <1>1, <1>2, <1>3, <1>4 DEF NextDevice, Passed
<1>5. CASE ~(device + 1 < DeviceCount)
  BY <1>1, <1>2, <1>3, <1>5 DEF NextDevice, Passed
<1> QED BY <1>4, <1>5

LEMMA Passes ==
  ASSUME Scanning, PciNext
  PROVE  /\ UNCHANGED machine
         /\ \A f \in Headers : Passed(f)' <=> Passed(f) \/ (f = dev /\ (Advance \/ Skip))
<1>0. UNCHANGED machine
  BY DEF PciNext, Scan, pci_register_driver, pci_init, NoDevice, Device, FuncsDone, ReadHeader,
         pci_destroy_device, Accepted, Declined
<1> SUFFICES ASSUME NEW f \in Headers
             PROVE  Passed(f)' <=> Passed(f) \/ (f = dev /\ (Advance \/ Skip))
  BY <1>0
<1>1. f \in Addresses /\ f = <<f[1], f[2], f[3]>> /\ f[1] \in Nat /\ f[2] \in Nat /\ f[3] \in Nat
  BY BusFacts, HeaderItself DEF Scanning
<1>2. bus \in Nat /\ device \in Nat /\ func \in Nat
  BY BusFacts DEF Scanning
<1>3. (pc # "offer" => ~Advance) /\ (pc # "func" => ~Skip) /\ (~ReadHeader => ~Skip)
  BY DEF Advance, Accepted, pci_destroy_device, Offer, Skip, ReadHeader
<1>4. CASE pci_register_driver \/ pci_init
  BY <1>3, <1>4 DEF pci_register_driver, pci_init, scan, Passed
<1>5. CASE NoDevice
  <2>1. f[1] = bus /\ f[2] = device => <<bus, device, 0>> \in Kinds
    BY DEF Headers, Kinds
  <2>2. ~(f[1] = bus /\ f[2] = device)
    BY <1>5, <2>1, KindsRead, HeaderItself DEF Scanning, NoDevice
  <2> QED BY <1>3, <1>5, <2>2, NextDevicePasses DEF NoDevice
<1>6. CASE Device
  BY <1>1, <1>2, <1>3, <1>6 DEF Device, Passed
<1>7. CASE FuncsDone
  <2>1. f[1] = bus /\ f[2] = device => f[3] < FuncsOf
    <3>1. f[3] \in 0 .. FuncCount - 1 /\ FuncCount \in Nat
      BY BusFacts, HeaderItself DEF Scanning
    <3>2. f[3] # 0 => <<f[1], f[2]>> \in machine.multi
      BY DEF Headers
    <3> QED BY <3>1, <3>2 DEF FuncsOf
  <2>2. pc = "func" /\ max_funcs = FuncsOf /\ func >= max_funcs /\ FuncsOf \in Nat
    BY <1>7, BusFacts DEF FuncsDone, Scanning, FuncsOf
  <2>3. f[1] = bus /\ f[2] = device => Passed(f)
    BY <1>1, <1>2, <2>1, <2>2 DEF Passed
  <2>4. ~Skip /\ ~Advance
    BY <1>7, <2>2, <1>3 DEF FuncsDone, Skip, ReadHeader, NextDevice
  <2> QED BY <1>7, <2>2, <2>3, <2>4, NextDevicePasses DEF FuncsDone
<1>8. CASE ReadHeader
  <2>1. pc = "func" /\ func < max_funcs /\ UNCHANGED <<bus, device, machine>>
    BY <1>8 DEF ReadHeader
  <2>2. CASE ~Filtered(dev)
    BY <1>3, <1>8, <2>1, <2>2 DEF ReadHeader, Passed, Skip
  <2>3. CASE Filtered(dev)
    <3>1. func' = func + 1 /\ pc' = "func" /\ Skip
      BY <1>8, <2>1, <2>3 DEF ReadHeader, Skip
    <3> QED BY <1>1, <1>2, <2>1, <3>1 DEF Passed, dev
  <2> QED BY <2>2, <2>3
<1>9. CASE Advance
  <2>1. pc = "offer" /\ pc' = "func" /\ func' = func + 1 /\ UNCHANGED <<bus, device, machine>>
    BY <1>9 DEF Advance, Accepted, pci_destroy_device, Offer
  <2> QED BY <1>1, <1>2, <1>9, <2>1 DEF Passed, dev
<1>10. CASE Declined /\ ~Advance
  BY <1>3, <1>10 DEF Declined, Offer, Passed
<1> QED BY <1>4, <1>5, <1>6, <1>7, <1>8, <1>9, <1>10 DEF PciNext, Scan, Advance

\* The function that is looked at has not been passed.
LEMMA DevNotPassed == ASSUME Scanning PROVE ~Passed(dev)
BY BusFacts DEF Scanning, Passed, dev

\* And before the scan nothing has.
LEMMA NothingPassed == ASSUME Scanning, pc = "register", NEW f \in Headers PROVE ~Passed(f)
<1>1. f[1] \in Nat /\ f[2] \in Nat /\ bus = 0 /\ device = 0
  BY BusFacts, HeaderItself DEF Scanning
<1> QED BY <1>1 DEF Passed

\* A struct is lost when its function is filtered, and only then.
LEMMA Leaks ==
  ASSUME Scanning, PciNext
  PROVE  \A a : a \in Leaked' <=> a \in Leaked \/ (Skip /\ a = dev)
<1>1. UNCHANGED <<machine, Headers>> /\ \A a : Filtered(a)' <=> Filtered(a)
  BY Passes DEF Headers, Filtered, Exists, Function, Selected
<1>2. Skip => dev \in Headers /\ Filtered(dev)
  BY DevRead DEF Skip, ReadHeader
<1>3. Advance => ~Filtered(dev)
  <2>1. Advance => pc = "offer"
    BY DEF Advance, Accepted, pci_destroy_device, Offer
  <2> QED BY <2>1, DevRead, HeaderItself DEF Scanning
<1>4. \A a \in Headers : Passed(a)' <=> Passed(a) \/ (a = dev /\ (Advance \/ Skip))
  BY Passes
<1> QED BY <1>1, <1>2, <1>3, <1>4 DEF Leaked

LEMMA ScanningKept == ASSUME Scanning, PciNext PROVE Scanning'
<1> USE BusFacts
<1>1. CASE pci_register_driver \/ pci_init
  BY <1>1 DEF Scanning, pci_register_driver, pci_init, scan, FuncsOf
<1>2. ASSUME NextDevice, pc \in {"device", "func"}, UNCHANGED <<func, max_funcs, machine>>
      PROVE  Scanning'
  BY <1>2 DEF Scanning, NextDevice
<1>3. CASE NoDevice \/ FuncsDone
  BY <1>2, <1>3 DEF NoDevice, FuncsDone
<1>4. CASE Device
  <2> DEFINE a == <<bus, device, 0>>
  <2>1. a \in Addresses /\ a[1] = bus /\ a[2] = device
    BY <1>4 DEF Scanning, Device, Addresses
  <2>2. Function(a) = a
    BY <2>1, Selection DEF Function
  <2>3. a \in Kinds
    BY <1>4, <2>2 DEF Device, Exists, Kinds
  <2>4. pc = "device" /\ pc' = "func" /\ func' = 0 /\ max_funcs' = FuncsOf /\ UNCHANGED <<bus, device, machine>>
    BY <1>4 DEF Device
  <2>5. UNCHANGED <<FuncsOf, Kinds, a>>
    BY <2>4 DEF FuncsOf, Kinds
  <2> HIDE DEF a
  <2>6. <<bus, device, 0>>' = a
    BY <2>4 DEF a
  <2> QED BY <2>3, <2>4, <2>5, <2>6 DEF Scanning, FuncsOf
<1>5. CASE ReadHeader
  <2>1. pc = "func" /\ func < max_funcs /\ UNCHANGED <<bus, device, max_funcs, machine>>
    BY <1>5 DEF ReadHeader
  <2>2. UNCHANGED <<FuncsOf, Kinds, Answering>>
    BY <2>1 DEF FuncsOf, Kinds, Answering
  <2>3. \/ pc' = "offer" /\ func' = func /\ dev \in Answering /\ dev' = dev
        \/ pc' = "func" /\ func' = func + 1
    <3>1. ~Filtered(dev) => dev \in Answering
      BY <2>1, DevRead, HeaderItself DEF Scanning
    <3> QED BY <1>5, <2>1, <3>1 DEF ReadHeader, dev
  <2>4. func + 1 \in 0 .. FuncCount
    BY <2>1 DEF Scanning
  <2> QED BY <2>1, <2>2, <2>3, <2>4 DEF Scanning
<1>6. CASE Advance
  <2>1. pc = "offer" /\ pc' = "func" /\ func' = func + 1 /\ UNCHANGED <<bus, device, max_funcs, machine>>
    BY <1>6 DEF Advance, Accepted, pci_destroy_device, Offer
  <2>2. UNCHANGED <<FuncsOf, Kinds>>
    BY <2>1 DEF FuncsOf, Kinds
  <2>3. func + 1 \in 0 .. FuncCount
    BY <2>1 DEF Scanning
  <2> QED BY <2>1, <2>2, <2>3 DEF Scanning
<1>7. CASE Declined
  BY <1>7 DEF Scanning, Declined, FuncsOf, dev, Kinds, Answering
<1> QED BY <1>1, <1>3, <1>4, <1>5, <1>6, <1>7 DEF PciNext, Scan, Advance

LEMMA CallFacts ==
  /\ Calls \in Seq(DOMAIN Matches) /\ MAX_REG_DRIVERS \in Nat
  /\ \A j, k \in 1 .. Len(Calls) : Calls[j] = Calls[k] => j = k
  /\ \A j, k \in 1 .. Len(Calls) :
       /\ j <= MAX_REG_DRIVERS /\ Calls[j] \in Masters
       /\ k <= MAX_REG_DRIVERS /\ Calls[k] \notin Masters
       => Matches[Calls[j]] \cap Matches[Calls[k]] = {}
BY DriversWellFormed, MachinesWellFormed DEF DriverAssumption, MachineAssumption

LEMMA TableKept == ASSUME Scanning, Table, PciNext PROVE Table'
<1>1. CASE pci_register_driver
  <2>1. pc = "register" /\ pc' = "register" /\ i <= Len(Calls) /\ i' = i + 1
    BY <1>1 DEF pci_register_driver
  <2>2. i \in Nat /\ Len(Calls) \in Nat /\ Calls[i] \in DOMAIN Matches
    BY <2>1, CallFacts DEF Table
  <2>3. CASE Len(drivers) >= MAX_REG_DRIVERS
    BY <1>1, <2>1, <2>2, <2>3, CallFacts DEF pci_register_driver, Table
  <2>4. CASE ~(Len(drivers) >= MAX_REG_DRIVERS)
    <3>1. drivers' = Append(drivers, Calls[i]) /\ Len(drivers) = i - 1
      BY <1>1, <2>1, <2>4, CallFacts DEF pci_register_driver, Table
    <3>2. /\ drivers' \in Seq(DOMAIN Matches) /\ Len(drivers') = i
          /\ \A k \in 1 .. i : drivers'[k] = IF k = i THEN Calls[i] ELSE drivers[k]
      BY <2>2, <3>1 DEF Table
    <3>3. \A k \in 1 .. i : drivers'[k] = Calls[k]
      BY <2>2, <3>1, <3>2 DEF Table
    <3> QED BY <2>1, <2>2, <2>4, <3>1, <3>2, <3>3, CallFacts DEF Table
  <2> QED BY <2>3, <2>4
<1>2. CASE pci_init
  BY <1>2 DEF Table, pci_init, scan
<1>3. CASE NoDevice \/ Device \/ FuncsDone
  BY <1>3 DEF Table, NoDevice, Device, FuncsDone, NextDevice
<1>4. CASE ReadHeader
  BY <1>4, CallFacts DEF Table, ReadHeader
<1>5. CASE Advance
  BY <1>5 DEF Table, Advance, Accepted, pci_destroy_device
<1>6. CASE Declined
  BY <1>6, CallFacts DEF Table, Declined, Offer
<1> QED BY <1>1, <1>2, <1>3, <1>4, <1>5, <1>6 DEF PciNext, Scan, Advance

-----------------------------------------------------------------------------
(* The offers                                                              *)

\* The drivers in the table are different ones.
LEMMA DriversDiffer ==
  ASSUME Table
  PROVE  /\ Len(drivers) \in Nat /\ \A k \in 1 .. Len(drivers) : drivers[k] \in DOMAIN Matches
         /\ \A a, b \in 1 .. Len(drivers) : drivers[a] = drivers[b] => a = b
<1>1. Len(drivers) \in Nat /\ Len(Calls) \in Nat /\ Len(drivers) <= Len(Calls)
  BY CallFacts DEF Table
<1>2. \A k \in 1 .. Len(drivers) : k \in 1 .. Len(Calls) /\ drivers[k] = Calls[k]
  BY <1>1 DEF Table
<1>3. \A k \in 1 .. Len(drivers) : drivers[k] \in DOMAIN Matches
  BY DEF Table
<1> QED BY <1>1, <1>2, <1>3, CallFacts

\* An offer goes to the function that is looked at, and so does the write of
\* its command register.
LEMMA OfferEffect ==
  ASSUME Scanning, Table, Offer
  PROVE  /\ pc = "offer" /\ i \in 1 .. Len(drivers) /\ drivers[i] \in DOMAIN Matches
         /\ offers' = Append(offers, <<drivers[i], dev>>)
         /\ dev \in Answering /\ dev \in Kinds /\ Function(dev) = dev
         /\ master' = IF BusMaster THEN master \cup {dev} ELSE master
<1>1. pc = "offer" /\ i \in 1 .. Len(drivers)
  BY DriversDiffer DEF Offer, Table
<1>2. func < max_funcs /\ dev \in Answering /\ dev \in Kinds
  BY <1>1 DEF Scanning, Answering
<1>3. Function(dev) = dev /\ Selected(get_pci_dev_addr(dev, 4)) = dev
  BY <1>1, <1>2, DevRead, HeaderItself DEF Scanning
<1> QED BY <1>1, <1>2, <1>3, DriversDiffer DEF Offer

\* Steps that offer nothing.
LEMMA OfferedQuiet ==
  ASSUME Scanning, Table, Offered, PciNext, UNCHANGED <<offers, drivers>>,
         pc' # "register", claimed \subseteq claimed',
         pc' = "offer" => pc # "offer" /\ i' = 1,
         pc = "offer" => Advance,
         pc = "offer" => dev \in claimed' \/ \A a \in 1 .. Len(drivers) : a \in 1 .. i - 1
  PROVE  Offered'
<1>1. /\ UNCHANGED <<machine, Kinds, Answering>>
      /\ \A f \in Kinds : Passed(f)' <=> Passed(f) \/ (f = dev /\ (Advance \/ Skip))
  BY Passes, KindsRead DEF Kinds, Answering, Scanning
<1>2. offers' = offers /\ drivers' = drivers
  OBVIOUS
<1>3. \A k \in 1 .. Len(offers), f \in Kinds : offers[k][2] = f => Passed(f)'
  <2> SUFFICES ASSUME NEW k \in 1 .. Len(offers), NEW f \in Kinds, offers[k][2] = f
               PROVE  Passed(f)'
    OBVIOUS
  <2>1. Passed(f) \/ (pc = "offer" /\ f = dev)
    BY DEF Offered
  <2> QED BY <1>1, <2>1
<1>4. ASSUME NEW f \in Answering, Passed(f)'
      PROVE  f \in claimed' \/ \A a \in 1 .. Len(drivers) : Was(offers, drivers[a], f, Len(offers))
  <2>1. CASE Passed(f)
    BY <2>1 DEF Offered
  <2>2. CASE Advance /\ f = dev
    <3>1. pc = "offer"
      BY <2>2 DEF Advance, Accepted, pci_destroy_device, Offer
    <3>2. \A a \in 1 .. i - 1 : Was(offers, drivers[a], dev, Len(offers))
      BY <3>1 DEF Offered
    <3> QED BY <2>2, <3>1, <3>2
  <2>3. ~(Skip /\ f = dev)
    BY DevRead, HeaderItself DEF Skip, ReadHeader, Scanning
  <2>4. f \in Kinds
    BY DEF Answering
  <2> QED BY <1>1, <1>4, <2>1, <2>2, <2>3, <2>4
<1>5. pc' = "offer" => 1 .. i' - 1 = {}
  OBVIOUS
<1>6. offers' \in Seq((DOMAIN Matches) \X Kinds')
  BY <1>1 DEF Offered
<1>7. \A j, k \in 1 .. Len(offers') : offers'[j] = offers'[k] => j = k
  BY <1>2 DEF Offered
<1>8. \A k \in 1 .. Len(offers') : \A a, b \in 1 .. Len(drivers') :
        a < b /\ offers'[k][1] = drivers'[b] => Was(offers', drivers'[a], offers'[k][2], k - 1)
  BY <1>2, SMTT(30) DEF Offered
<1>9. \A k \in 1 .. Len(offers'), f \in Kinds' : offers'[k][2] = f => Passed(f)'
  BY <1>1, <1>2, <1>3
<1>10. \A f \in Answering' : Passed(f)' =>
         f \in claimed' \/ \A a \in 1 .. Len(drivers') : Was(offers', drivers'[a], f, Len(offers'))
  BY <1>1, <1>2, <1>4
<1>11. \A k \in 1 .. Len(offers') :
         offers'[k][1] \in Registered' /\ machine'.kind[offers'[k][2]] # Reserved
  BY <1>1, <1>2 DEF Offered, Registered
<1> QED BY <1>5, <1>6, <1>7, <1>8, <1>9, <1>10, <1>11 DEF Offered

\* The offer itself. The function has had no offer by this driver: it has not
\* been passed, and its earlier offers were by the drivers before.
LEMMA OfferedMore ==
  ASSUME Scanning, Table, Offered, PciNext, Accepted \/ Declined
  PROVE  Offered'
<1> DEFINE n == Len(offers)
           e == <<drivers[i], dev>>
<1>1. /\ pc = "offer" /\ i \in 1 .. Len(drivers) /\ drivers[i] \in DOMAIN Matches
      /\ offers' = Append(offers, e) /\ dev \in Kinds /\ dev \in Answering
  BY OfferEffect DEF Accepted, Declined
<1>2. e \in (DOMAIN Matches) \X Kinds /\ e[1] = drivers[i] /\ e[2] = dev
  <2> DEFINE x == drivers[i]
             y == dev
  <2>1. e = <<x, y>> /\ x \in DOMAIN Matches /\ y \in Kinds
    BY <1>1
  <2> HIDE DEF x, y, e
  <2> SUFFICES e \in (DOMAIN Matches) \X Kinds /\ e[1] = x /\ e[2] = y
    BY DEF x, y
  <2> QED BY <2>1
<1>3. offers \in Seq((DOMAIN Matches) \X Kinds) /\ n \in Nat
  BY DEF Offered
<1> HIDE DEF e
<1>4. /\ offers' \in Seq((DOMAIN Matches) \X Kinds) /\ Len(offers') = n + 1
      /\ offers'[n + 1] = e /\ \A k \in 1 .. n : offers'[k] = offers[k]
  BY <1>1, <1>2, <1>3
<1> HIDE DEF n
<1>5. /\ \A d, f : \A k \in 0 .. n : Was(offers', d, f, k) <=> Was(offers, d, f, k)
      /\ \A d, f : Was(offers, d, f, n) => Was(offers', d, f, n + 1)
  <2>1. ASSUME NEW k \in 0 .. n, NEW j \in 1 .. k PROVE offers'[j] = offers[j]
    BY <1>3, <1>4
  <2>2. \A d, f : \A k \in 0 .. n : Was(offers', d, f, k) <=> Was(offers, d, f, k)
    BY <2>1 DEF Was
  <2>3. n \in 0 .. n /\ \A j \in 1 .. n : j \in 1 .. n + 1
    BY <1>3
  <2> QED BY <2>1, <2>2, <2>3 DEF Was
<1>6. Was(offers', drivers[i], dev, n + 1)
  <2>1. n + 1 \in 1 .. n + 1
    BY <1>3
  <2> QED BY <1>4, <2>1 DEF Was, e
<1>7. UNCHANGED <<machine, Kinds, Answering, drivers>>
  BY Passes DEF Kinds, Answering, Accepted, Declined
<1>8. \A f \in Kinds : Passed(f)' <=> Passed(f) \/ (Advance /\ f = dev)
  BY <1>1, Passes, KindsRead DEF Skip, ReadHeader, Scanning
<1>9. ~Passed(dev)
  BY DevNotPassed
<1>10. \A a, b \in 1 .. Len(drivers) : drivers[a] = drivers[b] => a = b
  BY DriversDiffer
<1>11. /\ \/ Accepted /\ pc' = "func" /\ dev \in claimed'
          \/ Declined /\ pc' = "offer" /\ i' = i + 1 /\ dev' = dev /\ claimed' = claimed
       /\ claimed \subseteq claimed'
  BY <1>1 DEF Accepted, Declined, dev
<1>12. i \in Nat /\ Len(drivers) \in Nat /\ 1 <= i /\ i <= Len(drivers)
  BY <1>1, DriversDiffer
<1>13. ASSUME NEW k \in 1 .. n PROVE offers[k] # e
  <2>1. offers[k][2] = dev => \E a \in 1 .. i - 1 : offers[k][1] = drivers[a]
    BY <1>1, <1>9 DEF Offered, n
  <2>2. \A a \in 1 .. i - 1 : drivers[a] # drivers[i]
    BY <1>10, <1>12
  <2> QED BY <1>2, <2>1, <2>2
<1>14. \A j, k \in 1 .. n + 1 : offers'[j] = offers'[k] => j = k
  <2>1. \A j, k \in 1 .. n : offers[j] = offers[k] => j = k
    BY DEF Offered, n
  <2>2. \A j \in 1 .. n + 1 : j \in 1 .. n \/ j = n + 1
    BY <1>3
  <2> QED BY <1>4, <1>13, <2>1, <2>2
<1>15. ASSUME NEW k \in 1 .. n + 1, NEW a \in 1 .. Len(drivers), NEW b \in 1 .. Len(drivers),
              a < b, offers'[k][1] = drivers[b]
       PROVE  Was(offers', drivers[a], offers'[k][2], k - 1)
  <2>1. CASE k \in 1 .. n
    <3>1. offers'[k] = offers[k] /\ k - 1 \in 0 .. n
      BY <1>3, <1>4, <2>1
    <3>2. Was(offers, drivers[a], offers[k][2], k - 1)
      BY <1>15, <2>1, <3>1 DEF Offered, n
    <3> QED BY <1>5, <3>1, <3>2
  <2>2. CASE k = n + 1
    <3>1. b = i /\ a \in 1 .. i - 1
      BY <1>2, <1>4, <1>10, <1>12, <1>15, <2>2
    <3>2. Was(offers, drivers[a], dev, n)
      BY <1>1, <3>1 DEF Offered, n
    <3>3. n \in 0 .. n /\ k - 1 = n
      BY <1>3, <2>2
    <3> QED BY <1>2, <1>4, <1>5, <2>2, <3>2, <3>3
  <2> QED BY <1>3, <2>1, <2>2
<1>16. ASSUME NEW k \in 1 .. n + 1, NEW f \in Kinds, offers'[k][2] = f
       PROVE  \/ Passed(f)'
              \/ pc' = "offer" /\ f = dev' /\ \E a \in 1 .. i' - 1 : offers'[k][1] = drivers[a]
  <2>1. CASE k \in 1 .. n
    <3>1. offers'[k] = offers[k]
      BY <1>4, <2>1
    <3>2. Passed(f) \/ (f = dev /\ \E a \in 1 .. i - 1 : offers[k][1] = drivers[a])
      BY <1>16, <2>1, <3>1 DEF Offered, n
    <3>3. \A a \in 1 .. i - 1 : a \in 1 .. (i + 1) - 1
      BY <1>12
    <3> QED BY <1>8, <1>11, <3>1, <3>2, <3>3 DEF Advance
  <2>2. CASE k = n + 1
    <3>1. f = dev /\ offers'[k][1] = drivers[i] /\ i \in 1 .. (i + 1) - 1
      BY <1>2, <1>4, <1>12, <1>16, <2>2
    <3> QED BY <1>8, <1>11, <3>1 DEF Advance
  <2> QED BY <1>3, <2>1, <2>2
<1>17. pc' = "offer" => \A a \in 1 .. i' - 1 : Was(offers', drivers[a], dev', n + 1)
  <2>1. \A a \in 1 .. i - 1 : Was(offers, drivers[a], dev, n)
    BY <1>1 DEF Offered, n
  <2>2. \A a \in 1 .. (i + 1) - 1 : a \in 1 .. i - 1 \/ a = i
    BY <1>12
  <2> QED BY <1>5, <1>6, <1>11, <2>1, <2>2
<1>18. ASSUME NEW f \in Answering, Passed(f)'
       PROVE  f \in claimed' \/ \A a \in 1 .. Len(drivers) : Was(offers', drivers[a], f, n + 1)
  <2>1. CASE Passed(f)
    <3>1. f \in claimed \/ \A a \in 1 .. Len(drivers) : Was(offers, drivers[a], f, n)
      BY <2>1 DEF Offered, n
    <3> QED BY <1>5, <1>11, <3>1
  <2>2. CASE Advance /\ f = dev
    <3>1. Accepted
      BY <1>12, <2>2 DEF Advance, pci_destroy_device
    <3> QED BY <2>2, <3>1 DEF Accepted
  <2>3. f \in Kinds
    BY DEF Answering
  <2> QED BY <1>8, <1>18, <2>1, <2>2, <2>3
<1>19. pc' # "register"
  BY <1>11
<1>20. \A k \in 1 .. n + 1 :
         offers'[k][1] \in Registered' /\ machine'.kind[offers'[k][2]] # Reserved
  <2>1. Registered' = Registered /\ drivers[i] \in Registered /\ machine.kind[dev] # Reserved
    BY <1>1, <1>7 DEF Registered, Answering
  <2>2. \A k \in 1 .. n : offers[k][1] \in Registered /\ machine.kind[offers[k][2]] # Reserved
    BY DEF Offered, n
  <2>3. \A k \in 1 .. n + 1 : k \in 1 .. n \/ k = n + 1
    BY <1>3
  <2> QED BY <1>2, <1>4, <1>7, <2>1, <2>2, <2>3
<1> QED BY <1>4, <1>7, <1>14, <1>15, <1>16, <1>17, <1>18, <1>19, <1>20 DEF Offered

LEMMA OfferedKept == ASSUME PciInv, PciNext PROVE Offered'
<1> USE DEF PciInv
<1>1. CASE pci_register_driver
  <2>1. /\ pc = "register" /\ pc' = "register" /\ UNCHANGED <<bus, device, func, offers, machine>>
    BY <1>1 DEF pci_register_driver
  <2>2. offers = <<>> /\ offers' = <<>>
    BY <2>1 DEF Offered
  <2>3. \A f \in Kinds : ~Passed(f)'
    BY <1>1, <2>1, Passes, NothingPassed, KindsRead
       DEF Scanning, Advance, Accepted, pci_destroy_device, Offer, Skip, ReadHeader
  <2>4. Kinds' = Kinds /\ Answering' \subseteq Kinds
    BY <2>1 DEF Kinds, Answering
  <2>5. Len(offers') = 0 /\ 1 .. 0 = {}
    BY <2>2
  <2> QED BY <2>1, <2>2, <2>3, <2>4, <2>5 DEF Offered
<1>2. CASE pci_init
  BY <1>2, OfferedQuiet DEF pci_init
<1>3. CASE NoDevice
  BY <1>3, OfferedQuiet DEF NoDevice, NextDevice
<1>4. CASE Device
  BY <1>4, OfferedQuiet DEF Device
<1>5. CASE FuncsDone
  BY <1>5, OfferedQuiet DEF FuncsDone, NextDevice
<1>6. CASE ReadHeader
  BY <1>6, OfferedQuiet DEF ReadHeader
<1>7. CASE pci_destroy_device
  <2>1. i > Len(drivers) /\ i \in Nat /\ Len(drivers) \in Nat
    BY <1>7, DriversDiffer DEF pci_destroy_device, Table
  <2>2. \A a \in 1 .. Len(drivers) : a \in 1 .. i - 1
    BY <2>1
  <2> QED BY <1>7, <2>2, OfferedQuiet DEF pci_destroy_device, Advance
<1>8. CASE Accepted \/ Declined
  BY <1>8, OfferedMore
<1> QED BY <1>1, <1>2, <1>3, <1>4, <1>5, <1>6, <1>7, <1>8 DEF PciNext, Scan

-----------------------------------------------------------------------------
(* The structs and the bus masters                                         *)

LEMMA ClaimsKept == ASSUME Scanning, Table, Claims, PciNext PROVE Claims'
<1>1. UNCHANGED Answering /\ \A a : a \in Leaked' <=> a \in Leaked \/ (Skip /\ a = dev)
  BY Passes, Leaks DEF Answering, Kinds
<1>2. \A f \in Answering : Passed(f) => Passed(f)'
  BY Passes, KindsRead DEF Answering, Scanning
<1>3. CASE pc # "offer" /\ pc' # "offer" /\ UNCHANGED <<heap, claimed>> /\ ~ReadHeader
  BY <1>1, <1>2, <1>3 DEF Claims, Skip
<1>4. CASE ReadHeader
  <2>1. dev \in Addresses
    BY <1>4, DevRead DEF ReadHeader, Headers
  <2>2. /\ pc = "func" /\ heap' = heap \cup {dev} /\ claimed' = claimed
        /\ \/ Filtered(dev) /\ pc' = "func" /\ Skip
           \/ ~Filtered(dev) /\ pc' = "offer" /\ dev' = dev /\ ~Skip
    BY <1>4 DEF ReadHeader, dev, Skip
  <2> QED BY <1>1, <1>2, <2>1, <2>2 DEF Claims
<1>5. CASE Accepted
  <2>1. /\ pc = "offer" /\ pc' = "func" /\ claimed' = claimed \cup {dev} /\ heap' = heap
        /\ dev \in Answering /\ ~Skip
    BY <1>5, OfferEffect DEF Accepted, Skip, ReadHeader
  <2>2. \A f \in Answering : f = dev => Passed(f)'
    BY <1>5, <2>1, Passes, KindsRead DEF Advance, Answering, Scanning
  <2> QED BY <1>1, <1>2, <2>1, <2>2 DEF Claims
<1>6. CASE Declined
  BY <1>1, <1>2, <1>6 DEF Claims, Declined, Offer, dev, Skip, ReadHeader
<1>7. CASE pci_destroy_device
  <2>1. pc = "offer" /\ pc' = "func" /\ claimed' = claimed /\ heap' = heap \ {dev} /\ ~Skip
    BY <1>7 DEF pci_destroy_device, Skip, ReadHeader
  <2>2. dev \notin claimed \cup Leaked
    BY DevNotPassed DEF Claims, Leaked
  <2> QED BY <1>1, <1>2, <2>1, <2>2 DEF Claims
<1>8. CASE pci_register_driver \/ pci_init \/ NoDevice \/ Device \/ FuncsDone
  <2>1. pc # "offer" /\ pc' # "offer" /\ UNCHANGED <<heap, claimed>>
    BY <1>8 DEF pci_register_driver, pci_init, NoDevice, Device, FuncsDone, NextDevice, scan
  <2> QED BY <1>3, <1>4, <2>1
<1> QED BY <1>4, <1>5, <1>6, <1>7, <1>8 DEF PciNext, Scan

LEMMA MasteringKept == ASSUME Scanning, Table, Mastering, PciNext PROVE Mastering'
<1>1. UNCHANGED <<machine, Kinds>>
  BY Passes DEF Kinds
<1>2. Registered \subseteq Registered'
  <2>1. CASE drivers' = drivers
    BY <2>1 DEF Registered
  <2>2. CASE drivers' # drivers
    <3>1. drivers' = Append(drivers, Calls[i]) /\ i \in 1 .. Len(Calls)
      BY <2>2, CallFacts DEF Table, PciNext, Scan, pci_register_driver, pci_init, scan, NoDevice,
         Device, FuncsDone, ReadHeader, pci_destroy_device, Accepted, Declined
    <3>2. drivers \in Seq(DOMAIN Matches) /\ Calls[i] \in DOMAIN Matches
      BY <3>1, CallFacts DEF Table
    <3>3. /\ Len(drivers) \in Nat /\ Len(drivers') = Len(drivers) + 1
          /\ \A k \in 1 .. Len(drivers) : drivers'[k] = drivers[k]
      BY <3>1, <3>2
    <3>4. \A k \in 1 .. Len(drivers) : k \in 1 .. Len(drivers')
      BY <3>3
    <3> QED BY <3>3, <3>4 DEF Registered
  <2> QED BY <2>1, <2>2
<1>3. CASE master' = master
  BY <1>1, <1>2, <1>3 DEF Mastering, MastersMatch
<1>4. CASE Offer
  <2>1. /\ i \in 1 .. Len(drivers) /\ dev \in Kinds /\ Function(dev) = dev
        /\ master' = IF BusMaster THEN master \cup {dev} ELSE master
    BY <1>4, OfferEffect
  <2>2. BusMaster => machine.kind[dev] \in Matches[drivers[i]] /\ drivers[i] \in Registered \cap Masters
    BY <2>1 DEF BusMaster, Match, Registered
  <2> QED BY <1>1, <1>2, <2>1, <2>2 DEF Mastering, MastersMatch
<1> QED BY <1>3, <1>4 DEF PciNext, Scan, pci_register_driver, pci_init, NoDevice, Device, FuncsDone,
           ReadHeader, pci_destroy_device, Accepted, Declined

LEMMA PciKept == ASSUME PciInv, [PciNext]_vars PROVE PciInv'
<1>1. CASE PciNext
  BY <1>1, ScanningKept, TableKept, OfferedKept, ClaimsKept, MasteringKept DEF PciInv
<1>2. CASE UNCHANGED vars
  <2>1. UNCHANGED <<pc, bus, device, func, max_funcs, i, drivers, heap, machine, master, offers, claimed>>
    BY <1>2 DEF vars, scan
  <2>2. UNCHANGED <<Kinds, Answering, FuncsOf, dev, Registered>>
    BY <2>1 DEF Kinds, Answering, FuncsOf, dev, Registered
  <2>3. /\ \A f : Passed(f)' <=> Passed(f)
        /\ \A f : f \in Leaked' <=> f \in Leaked
    BY <2>1 DEF Passed, Leaked, Headers, Filtered, Exists, Function, Selected
  <2>4. Scanning' /\ Table'
    BY <2>1, <2>2 DEF PciInv, Scanning, Table
  <2>5. Offered'
    BY <2>1, <2>2, <2>3 DEF PciInv, Offered
  <2>6. Claims' /\ Mastering'
    BY <2>1, <2>2, <2>3 DEF PciInv, Claims, Mastering, MastersMatch
  <2> QED BY <2>4, <2>5, <2>6 DEF PciInv
<1> QED BY <1>1, <1>2

LEMMA PciStarts == Init => PciInv
<1> SUFFICES ASSUME Init PROVE PciInv
  OBVIOUS
<1>1. Scanning
  BY BusFacts DEF Init, Scanning
<1>2. Table
  BY CallFacts DEF Init, Table
<1>3. \A f \in Headers : ~Passed(f)
  BY <1>1, NothingPassed DEF Init
<1>4. Offered
  <2>1. pc = "register" /\ offers = <<>> /\ Len(offers) = 0 /\ 1 .. 0 = {}
    BY DEF Init
  <2>2. Answering \subseteq Headers
    BY <1>1, KindsRead DEF Answering, Scanning
  <2> QED BY <1>3, <2>1, <2>2 DEF Offered
<1>5. Claims /\ Mastering
  BY <1>3 DEF Init, Claims, Mastering, MastersMatch, Leaked
<1> QED BY <1>1, <1>2, <1>4, <1>5 DEF PciInv

\* What PciInv is for.
LEMMA PciTypes == ASSUME PciInv PROVE TypeOK
<1> USE DEF PciInv
<1>1. \A a \in Kinds : a \in Addresses
  BY KindsRead DEF Scanning, Headers
<1>2. claimed \subseteq Addresses /\ master \subseteq Addresses /\ heap \subseteq Addresses
  BY <1>1 DEF Claims, Mastering, Answering
<1> QED BY <1>2 DEF TypeOK, Scanning, Table

LEMMA PciStructs == ASSUME PciInv PROVE StructsOwned
<1> USE DEF PciInv
<1>1. dev \notin claimed \cup Leaked
  BY DevNotPassed DEF Claims, Leaked
<1>2. heap \subseteq Addresses /\ claimed \cup Leaked \subseteq Addresses
  BY KindsRead DEF Claims, Scanning, Answering, Leaked, Headers
<1>3. \A a \in Addresses : a \in heap <=> a \in claimed \cup Leaked \/ (pc = "offer" /\ a = dev)
  BY DEF Claims
<1>4. pc = "offer" => dev \in Addresses
  BY KindsRead DEF Scanning, Answering, Headers
<1>5. CASE pc = "offer"
  <2>1. Offering = {dev}
    BY <1>5 DEF Offering
  <2> QED BY <1>1, <1>2, <1>3, <1>4, <1>5, <2>1 DEF StructsOwned
<1>6. CASE pc # "offer"
  <2>1. Offering = {}
    BY <1>6 DEF Offering
  <2> QED BY <1>2, <1>3, <1>6, <2>1 DEF StructsOwned
<1> QED BY <1>5, <1>6

LEMMA PciOffers == ASSUME PciInv PROVE EachFunctionOnce /\ MastersMatch
<1> USE DEF PciInv
<1>1. ASSUME pc = "done", NEW f \in Answering PROVE Passed(f)
  <2>1. f[1] \in 0 .. BusCount - 1 /\ bus = BusCount /\ BusCount \in Nat
    BY <1>1, BusFacts, KindsRead, HeaderItself DEF Scanning, Answering
  <2> QED BY <2>1 DEF Passed
<1>2. ASSUME pc = "done", NEW f \in Answering
      PROVE  f \in claimed \/ \A d \in Registered : \E j \in 1 .. Len(offers) : offers[j] = <<d, f>>
  <2>1. f \in claimed \/ \A a \in 1 .. Len(drivers) : Was(offers, drivers[a], f, Len(offers))
    BY <1>1, <1>2 DEF Offered
  <2> QED BY <2>1 DEF Registered, Was
<1>3. \A k \in 1 .. Len(offers) : \A a, b \in 1 .. Len(drivers) :
        a < b /\ offers[k][1] = drivers[b] =>
          \E j \in 1 .. k - 1 : offers[j] = <<drivers[a], offers[k][2]>>
  BY DEF Offered, Was
<1>4. /\ \A j, k \in 1 .. Len(offers) : offers[j] = offers[k] => j = k
      /\ \A k \in 1 .. Len(offers) :
           offers[k][1] \in Registered /\ machine.kind[offers[k][2]] # Reserved
  BY DEF Offered
<1> QED BY <1>2, <1>3, <1>4 DEF EachFunctionOnce, Mastering, Kinds, Answering

-----------------------------------------------------------------------------
(* The scan with the calls inside it                                       *)

\* Function a is of a kind that a driver which enables bus mastering is for.
Driven(a) == \E d \in Registered \cap Masters : machine.kind[a] \in Matches[d]

\* The controller's state is that of the call in progress, and rests otherwise.
Calling ==
  /\ called \in BOOLEAN
  /\ called => Uhci /\ UInv
  /\ ~called => Resting /\ port = NoDevices

\* The controllers left alive are the claimed functions of their kind.
Living ==
  /\ live \subseteq claimed
  /\ \A a \in claimed : a \in live <=> Driven(a)

BInv == PciInv /\ Calling /\ Living

LEMMA PciStep == ASSUME [BringUpNext]_allVars PROVE [PciNext]_vars
BY DEF BringUpNext, Scans, OtherDriver, Call, Works, Fails, Moves, Return, PciNext, allVars

\* No loop of the scan goes on while an offer is not over.
LEMMA UhciWaits == ASSUME Uhci, Table PROVE ~Scan
<1>1. pc = "offer" /\ ~(i > Len(drivers))
  BY DriversDiffer DEF Uhci, Table
<1> QED BY <1>1 DEF Scan, pci_register_driver, pci_init, NoDevice, Device, FuncsDone, ReadHeader,
           pci_destroy_device

LEMMA CallingKept == ASSUME BInv, [BringUpNext]_allVars PROVE Calling'
<1> USE DEF BInv, PciInv
<1>1. CASE Scans \/ OtherDriver
  <2>1. ~called /\ UNCHANGED <<called, live, uhci>>
    BY <1>1, UhciWaits DEF Calling, Scans, OtherDriver
  <2> QED BY <2>1 DEF Calling, uhci, Resting
<1>2. CASE Call
  <2>1. Resting /\ port \in U!PowerOn /\ UInv
    BY <1>2, RestingInv, PowerOnPorts DEF Call, Calling
  <2>2. UInv'
    BY <1>2, <2>1, CallStarts DEF Call
  <2>3. Uhci'
    BY <1>2 DEF Call, Uhci, BusMaster, Match, Function, Selected, dev, vars, scan
  <2> QED BY <1>2, <2>2, <2>3 DEF Call, Calling
<1>3. CASE Works \/ Fails \/ Moves
  <2>1. called /\ UNext /\ UNCHANGED <<vars, called, live>>
    BY <1>3 DEF Works, Fails, Moves, UNext
  <2>2. UInv'
    BY <2>1, UKept DEF Calling
  <2>3. Uhci'
    BY <2>1 DEF Calling, Uhci, BusMaster, Match, Function, Selected, dev, vars, scan
  <2> QED BY <2>1, <2>2, <2>3 DEF Calling
<1>4. CASE Return
  BY <1>4, PortFacts DEF Return, Rest, Calling, Resting, NoDevices
<1>5. CASE UNCHANGED allVars
  <2>1. UNCHANGED <<vars, called, uhci>>
    BY <1>5 DEF allVars
  <2>2. Uhci' <=> Uhci
    BY <2>1 DEF Uhci, BusMaster, Match, Function, Selected, dev, vars, scan
  <2>3. UInv' <=> UInv
    BY <2>1 DEF uhci, UInv, Where, Runs, Regs, Allocated, Bus, Addressed
  <2>4. Resting' <=> Resting
    BY <2>1 DEF uhci, Resting
  <2> QED BY <2>1, <2>2, <2>3, <2>4 DEF Calling, uhci
<1> QED BY <1>1, <1>2, <1>3, <1>4, <1>5 DEF BringUpNext

\* A driver that masters the bus and one that does not are never for one function.
LEMMA OthersApart ==
  ASSUME Scanning, Table, Offer, Match, ~Uhci
  PROVE  ~Driven(dev)
<1>1. i \in 1 .. Len(drivers) /\ Function(dev) = dev /\ pc = "offer"
  BY OfferEffect
<1>2. drivers[i] \notin Masters /\ machine.kind[dev] \in Matches[drivers[i]]
  BY <1>1, DriversDiffer DEF Uhci, BusMaster, Match
<1>3. \A k \in 1 .. Len(drivers) : k \in 1 .. Len(Calls) /\ k <= MAX_REG_DRIVERS /\ drivers[k] = Calls[k]
  BY CallFacts DEF Table
<1>4. ASSUME NEW d \in Registered \cap Masters PROVE Matches[d] \cap Matches[drivers[i]] = {}
  <2>1. PICK k \in 1 .. Len(drivers) : d = drivers[k]
    BY DEF Registered
  <2> QED BY <1>1, <1>2, <1>3, <2>1, CallFacts
<1> QED BY <1>2, <1>4 DEF Driven

LEMMA LivingKept == ASSUME BInv, [BringUpNext]_allVars PROVE Living'
<1> USE DEF BInv, PciInv
<1>1. CASE UNCHANGED <<live, claimed, machine, drivers>>
  BY <1>1 DEF Living, Driven, Registered
<1>2. ASSUME UNCHANGED <<machine, drivers>> PROVE \A a : Driven(a)' <=> Driven(a)
  BY <1>2 DEF Driven, Registered
<1>3. CASE Scans
  <2>1. CASE pci_register_driver
    <3>1. pc = "register" /\ UNCHANGED <<live, claimed>>
      BY <1>3, <2>1 DEF Scans, pci_register_driver
    <3>2. claimed = {}
      BY <3>1, NothingPassed, KindsRead DEF Claims, Answering, Scanning
    <3> QED BY <3>1, <3>2 DEF Living
  <2>2. CASE ~pci_register_driver
    <3>1. UNCHANGED <<live, claimed, machine, drivers>>
      BY <1>3, <2>2 DEF Scans, Scan, pci_init, NoDevice, Device, FuncsDone, ReadHeader,
         pci_destroy_device, scan
    <3> QED BY <1>1, <3>1
  <2> QED BY <2>1, <2>2
<1>4. CASE OtherDriver
  <2>1. CASE Declined
    BY <1>1, <1>4, <2>1 DEF OtherDriver, Declined
  <2>2. CASE Accepted
    <3>1. ~Driven(dev) /\ dev \notin claimed
      BY <1>4, <2>2, OthersApart, DevNotPassed DEF OtherDriver, Accepted, Claims
    <3>2. claimed' = claimed \cup {dev} /\ UNCHANGED <<live, machine, drivers>>
      BY <1>4, <2>2 DEF OtherDriver, Accepted
    <3> QED BY <1>2, <3>1, <3>2 DEF Living
  <2> QED BY <1>4, <2>1, <2>2 DEF OtherDriver
<1>5. CASE Return
  <2>1. called /\ Uhci /\ UInv
    BY <1>5 DEF Return, Calling
  <2>2. CASE u_pc = "failed" /\ Declined
    <3>1. ~running /\ ~registered
      BY <2>1, <2>2 DEF UInv, Runs, Resetting
    <3> QED BY <1>1, <1>5, <2>2, <3>1 DEF Return, Declined
  <2>3. CASE u_pc = "done" /\ Accepted
    <3>1. running
      BY <2>1, <2>3 DEF UInv, Runs, Resetting
    <3>2. /\ claimed' = claimed \cup {dev} /\ live' = live \cup {dev}
          /\ UNCHANGED <<machine, drivers>>
      BY <1>5, <2>3, <3>1 DEF Return, Accepted
    <3>3. Driven(dev)
      <4>1. i \in 1 .. Len(drivers) /\ Function(dev) = dev
        BY <2>3, OfferEffect DEF Accepted
      <4> QED BY <2>1, <4>1 DEF Uhci, BusMaster, Match, Driven, Registered
    <3> QED BY <1>2, <3>2, <3>3 DEF Living
  <2> QED BY <1>5, <2>2, <2>3 DEF Return
<1>6. CASE Call \/ Works \/ Fails \/ Moves \/ UNCHANGED allVars
  BY <1>1, <1>6 DEF Call, Works, Fails, Moves, allVars, vars
<1> QED BY <1>3, <1>4, <1>5, <1>6 DEF BringUpNext

LEMMA BStarts == BringUpInit => BInv
<1> SUFFICES ASSUME BringUpInit PROVE BInv
  OBVIOUS
<1>1. PciInv
  BY PciStarts DEF BringUpInit
<1>2. Calling
  BY PortFacts DEF BringUpInit, Calling, U!Init, Resting
<1>3. Living
  BY DEF BringUpInit, Init, Living
<1> QED BY <1>1, <1>2, <1>3 DEF BInv

LEMMA BKept == ASSUME BInv, [BringUpNext]_allVars PROVE BInv'
BY PciStep, PciKept, CallingKept, LivingKept DEF BInv

\* At any time, also between two calls.
LEMMA UAlways == ASSUME BInv PROVE UInv
BY RestingInv, PowerOnPorts DEF BInv, Calling

-----------------------------------------------------------------------------
(* What holds of the bring-up                                              *)

\* Every reachable state satisfies the invariant the other theorems rest on.
THEOREM BringUpInvariant == BringUpSpec => []BInv
<1>1. BInv /\ [BringUpNext]_allVars => BInv'
  BY BKept
<1> QED BY <1>1, BStarts, PTL DEF BringUpSpec

\* The scan stays inside the bus and its tables, the driver's registers and
\* variables keep their widths, and a controller is only touched for a function
\* of its kind.
THEOREM BringUpTypes == BringUpSpec => []TypesOK
<1>1. ASSUME BInv PROVE TypesOK
  <2>1. TypeOK /\ U!TypeOK
    BY <1>1, UAlways, UTypes, PciTypes DEF BInv
  <2>2. live \subseteq Addresses
    BY <1>1, <2>1 DEF BInv, Living, TypeOK
  <2> QED BY <1>1, <2>1, <2>2 DEF TypesOK, BInv, Calling
<1> QED BY <1>1, BringUpInvariant, PTL

\* Every function of every machine is offered once to each driver, in order,
\* until one accepts it, and only a function of its driver's kind masters the bus.
THEOREM OffersAlwaysMatch == BringUpSpec => []OffersMatch
<1>1. BInv => OffersMatch
  BY PciOffers DEF BInv, OffersMatch
<1> QED BY <1>1, BringUpInvariant, PTL

\* As long as the store at uhci.c:477 hits no memory that is in use: on every path
\* through both files, whatever a running controller or a registered handler may
\* touch is allocated, no request keeps its buffers, and the structs pci_dev are
\* those that were claimed and those that pci21.c:96 lost.
THEOREM MemoryAlwaysHeld == BringUpSpec => []MemoryHeld
<1>1. ASSUME BInv PROVE MemoryHeld
  <2> USE <1>1 DEF BInv, PciInv
  <2>1. U!HardwareMemoryHeld /\ U!RequestsCleanUp /\ StructsOwned
    BY UAlways, UHeld, PciStructs
  <2>2. \A a \in claimed : a \in Addresses /\ Function(a) = a
    BY KindsRead, HeaderItself DEF Claims, Answering, Scanning
  <2>3. live \subseteq heap
    BY <2>2 DEF Living, Claims
  <2>4. \A a \in claimed : a \in live <=>
          machine.kind[Function(a)] \in UNION {Matches[d] : d \in Registered \cap Masters}
    BY <2>2 DEF Living, Driven
  <2>5. live = {a \in claimed : machine.kind[Function(a)] \in
                  UNION {Matches[d] : d \in Registered \cap Masters}}
    BY <2>4 DEF Living
  <2> QED BY <2>1, <2>3, <2>5 DEF MemoryHeld
<1> QED BY <1>1, BringUpInvariant, PTL

\* No two enabled devices of a controller answer at one address, for any number
\* of ports and any plugging, unless the driver gave one of them up at address 0.
THEOREM AddressesAlwaysDiffer == BringUpSpec => []AddressesDiffer
<1>1. BInv => AddressesDiffer
  BY UAlways, UAddresses
<1> QED BY <1>1, BringUpInvariant, PTL

\* A connect change is acknowledged only when its port has come up after the
\* reset.
THEOREM ChangesKept == BringUpSpec => ChangeKeptUntilUp
<1> DEFINE Kept == called' => \A p \in U!Ports : port[p].csc /\ ~port'[p].csc => seen_up[p]
<1>1. ASSUME BInv, [BringUpNext]_allVars PROVE [Kept]_allVars
  <2> USE <1>1 DEF BInv, PciInv
  <2>1. CASE Works \/ Fails \/ Moves
    <3>1. called /\ UNext
      BY <2>1 DEF Works, Fails, Moves, UNext
    <3> QED BY <3>1, ChangeCleared, PortFacts DEF Calling
  <2>2. CASE Call
    <3>1. \A p \in U!Ports : ~port[p].csc
      BY <2>2 DEF Call, Calling, NoDevices
    <3> QED BY <3>1
  <2>3. CASE Scans \/ OtherDriver
    BY <2>3 DEF Scans, OtherDriver, uhci
  <2>4. CASE Return
    BY <2>4 DEF Return
  <2> QED BY <1>1, <2>1, <2>2, <2>3, <2>4 DEF BringUpNext
<1>2. BInv /\ [BringUpNext]_allVars => [Kept]_allVars
  BY <1>1
<1> QED BY <1>2, BringUpInvariant, PTL DEF BringUpSpec, ChangeKeptUntilUp

-----------------------------------------------------------------------------
(* Behind BringUpEnds: nobody is waited for in vain, and no step goes back *)

\* The points at which a device that has its address is asked for its texts.
AtDevice == {"desc", "mfg", "show_mfg", "prod", "show_prod"}

\* Nobody plugs or unplugs: the device on the port in work is there, answers at
\* address 0 from its reset until it takes its own, and stays enabled once the
\* driver has seen it so.
Listening ==
  plugs = 0 =>
    /\ \A p \in Ports : port[p].csc => port[p].conn
    /\ u_pc \in OnPort => port[u_i].conn
    /\ u_pc \in Unaddressed \ {"enable", "assert"} => addr[u_i] = 0
    /\ u_pc \in {"clear", "ack", "maxpkg", "address"} \cup AtDevice => port[u_i].pe
    /\ u_pc = "ack" => regval.pe
    /\ u_pc \in AtDevice => addr[u_i] = u_i

LEMMA ListeningWritten == ASSUME Where, Regs, Bus, Listening, Writing PROVE Listening'
<1>1. PICK r \in [csc : BOOLEAN, pe : BOOLEAN], reset \in BOOLEAN :
        /\ u_i \in Ports /\ u_i' = u_i /\ U!Write(r, reset)
        /\ reset <=> u_pc = "assert"
        /\ u_pc = "ack" => r.pe = regval.pe
        /\ u_pc' \in {"maxpkg", "address"} => u_pc = "ack"
        /\ u_pc \in Unaddressed \ {"enable"} /\ u_pc' \in Unaddressed \ {"enable", "assert", "clear", "ack"}
  BY WriteSteps
<1>2. plugs' = plugs
  BY <1>1, WriteEffect
<1>3. \A p \in Ports : port'[p].conn = port[p].conn /\ (port'[p].csc => port[p].csc)
  BY <1>1, WriteEffect
<1>4. ASSUME plugs = 0 PROVE port[u_i].conn /\ addr'[u_i] = 0
  <2>1. port[u_i].conn /\ (u_pc # "assert" => addr[u_i] = 0)
    BY <1>1, <1>4 DEF Listening, Unaddressed, OnPort
  <2> QED BY <1>1, <2>1, WriteEffect
<1>5. ASSUME plugs = 0, u_pc' \in {"maxpkg", "address"} PROVE port'[u_i].pe
  <2>1. u_pc = "ack" /\ port[u_i].pe /\ r.pe /\ ~reset
    BY <1>1, <1>5 DEF Listening
  <2> QED BY <1>1, <2>1, WriteEffect
<1> QED BY <1>1, <1>2, <1>3, <1>4, <1>5 DEF Listening, Unaddressed, AtDevice

LEMMA ListeningKept == ASSUME Where, Regs, Bus, Listening, UNext PROVE Listening'
<1>1. CASE U!Probe
  BY <1>1, ProbeEffect DEF Listening, OnPort, Unaddressed, AtDevice
<1>2. CASE U!HcReset
  BY <1>2 DEF Listening, OnPort, Unaddressed, AtDevice, U!HcReset, U!At, U!bus
<1>3. CASE U!PollReset
  BY <1>3 DEF Listening, OnPort, Unaddressed, AtDevice, U!PollReset, U!At, U!hc, U!bus
<1>4. CASE U!ResetFailed
  BY <1>4 DEF Listening, OnPort, Unaddressed, AtDevice, U!ResetFailed, U!At, U!Goto, U!hc, U!bus
<1>5. CASE U!InitFrameList
  BY <1>5 DEF Listening, OnPort, Unaddressed, AtDevice, U!InitFrameList, U!At, U!Goto, U!hc, U!bus
<1>6. CASE U!StartController
  BY <1>6 DEF Listening, OnPort, Unaddressed, AtDevice, U!StartController, U!At, U!Goto, U!hc, U!bus
<1>7. CASE U!Register
  BY <1>7 DEF Listening, OnPort, Unaddressed, AtDevice, U!Register, U!At, U!hc, U!bus
<1>8. CASE U!SkipPort
  BY <1>8 DEF Listening, OnPort, Unaddressed, AtDevice, U!SkipPort, U!At, U!NextPort, U!hc, U!bus
<1>9. CASE U!Connected
  <2>1. u_pc = "port" /\ u_pc' = "enable" /\ port[u_i].csc /\ UNCHANGED <<u_i, port, addr, plugs>>
    BY <1>9 DEF U!Connected, U!At, U!bus
  <2>2. u_i \in Ports
    BY <1>9, PortFacts DEF Where, Ports, U!Connected, U!At
  <2> QED BY <2>1, <2>2 DEF Listening, OnPort, Unaddressed, AtDevice
<1>10. CASE U!PortsDone
  BY <1>10 DEF Listening, OnPort, Unaddressed, AtDevice, U!PortsDone, U!At, U!Goto, U!hc, U!bus
<1>11. CASE U!PortReset
  BY <1>11, ListeningWritten DEF Writing
<1>12. CASE U!PortRelease
  BY <1>12, ListeningWritten DEF Writing
<1>13. CASE U!PortEnable
  BY <1>13, ListeningWritten DEF Writing
<1>14. CASE U!AwaitEnable
  BY <1>14 DEF Listening, OnPort, Unaddressed, AtDevice, U!AwaitEnable, U!At, U!hc, U!bus
<1>15. CASE U!EnableFailed
  BY <1>15 DEF Listening, OnPort, Unaddressed, AtDevice, U!EnableFailed, U!At, U!NextPort, U!hc, U!bus
<1>16. CASE U!Enabled
  BY <1>16 DEF Listening, OnPort, Unaddressed, AtDevice, U!Enabled, U!At, U!Goto, U!hc, U!bus
<1>17. CASE U!ClearChange
  BY <1>17, ListeningWritten DEF Writing
<1>18. CASE U!ReadMaxPacket
  BY <1>18 DEF Listening, OnPort, Unaddressed, AtDevice, U!ReadMaxPacket, U!At, U!hc, U!bus
<1>19. CASE U!SetAddress
  <2>1. u_pc = "address" /\ u_pc' = "desc" /\ UNCHANGED <<u_i, port, plugs>>
    BY <1>19 DEF U!SetAddress, U!At, U!Goto
  <2>2. addr' = [p \in Ports |-> IF port[p].pe /\ addr[p] = 0 THEN u_i ELSE addr[p]]
    BY <1>19, PortFacts DEF U!SetAddress, U!new_address
  <2>3. u_i \in Ports
    BY <2>1 DEF Where, OnPort
  <2> QED BY <2>1, <2>2, <2>3 DEF Listening, OnPort, Unaddressed, AtDevice
<1>20. CASE U!ReadDesc
  BY <1>20 DEF Listening, OnPort, Unaddressed, AtDevice, U!ReadDesc, U!At, U!Goto, U!hc, U!bus
<1>21. CASE U!ReadString("mfg", "show_mfg")
  BY <1>21 DEF Listening, OnPort, Unaddressed, AtDevice, U!ReadString, U!At, U!Goto, U!hc, U!bus
<1>22. CASE U!ShowMfg
  BY <1>22 DEF Listening, OnPort, Unaddressed, AtDevice, U!ShowMfg, U!At, U!Goto, U!hc, U!bus
<1>23. CASE U!ReadString("prod", "show_prod")
  BY <1>23 DEF Listening, OnPort, Unaddressed, AtDevice, U!ReadString, U!At, U!Goto, U!hc, U!bus
<1>24. CASE U!ShowProd
  BY <1>24 DEF Listening, OnPort, Unaddressed, AtDevice, U!ShowProd, U!At, U!NextPort, U!hc, U!bus
<1>25. CASE U!RequestFailed
  BY <1>25 DEF Listening, OnPort, Unaddressed, AtDevice, U!RequestFailed, U!NextPort, U!hc
<1>26. CASE U!StringFailed("mfg", "show_mfg")
  BY <1>26 DEF Listening, OnPort, Unaddressed, AtDevice, U!StringFailed, U!At, U!Goto, U!hc, U!bus
<1>27. CASE U!StringFailed("prod", "show_prod")
  BY <1>27 DEF Listening, OnPort, Unaddressed, AtDevice, U!StringFailed, U!At, U!Goto, U!hc, U!bus
<1>28. CASE U!LeaveReset
  BY <1>28 DEF Listening, OnPort, Unaddressed, AtDevice, U!LeaveReset, U!driver, U!bus
<1>29. ASSUME NEW q \in U!Ports, U!ComeUp(q) PROVE Listening'
  <2>1. q \in Ports /\ (u_pc \in OnPort => u_i \in Ports)
    BY <1>29, PortFacts DEF Where
  <2>2. /\ UNCHANGED <<u_pc, u_i, addr, plugs>> /\ port'[q].pe
        /\ \A p \in Ports : port'[p].csc = port[p].csc /\ port'[p].conn = port[p].conn
        /\ \A p \in Ports : p # q => port'[p] = port[p]
    BY <1>29, <2>1, ComeUpEffect
  <2>3. \A p \in Ports : port[p].pe => port'[p].pe
    BY <2>2
  <2>4. {"clear", "ack", "maxpkg", "address"} \cup AtDevice \subseteq OnPort
    BY DEF AtDevice, OnPort
  <2>5. regval' = regval
    BY <1>29 DEF U!ComeUp, U!driver
  <2> QED BY <2>1, <2>2, <2>3, <2>4, <2>5 DEF Listening
<1>30. ASSUME NEW q \in U!Ports, U!PlugEvent(q) PROVE Listening'
  <2>1. plugs' = plugs + 1 /\ plugs \in Nat
    BY <1>30, PortFacts DEF U!PlugEvent, Bus
  <2> QED BY <2>1 DEF Listening
<1>31. CASE U!ReadStatus
  BY <1>31 DEF Listening, OnPort, Unaddressed, AtDevice, U!ReadStatus, U!At, U!bus
<1>32. CASE U!ReadChange
  <2>1. u_pc = "clear" /\ u_pc' = "ack" /\ regval'.pe = port[u_i].pe /\ UNCHANGED <<u_i, port, addr, plugs>>
    BY <1>32 DEF U!ReadChange, U!At, U!Read, U!bus
  <2> QED BY <2>1 DEF Listening, OnPort, Unaddressed, AtDevice
<1> QED
  BY <1>1, <1>2, <1>3, <1>4, <1>5, <1>6, <1>7, <1>8, <1>9, <1>10, <1>11, <1>12, <1>13, <1>14, <1>15, <1>16, <1>17, <1>18, <1>19, <1>20, <1>21, <1>22, <1>23, <1>24, <1>25, <1>26, <1>27, <1>28, <1>29, <1>30, <1>31, <1>32
     DEF UNext, U!Driver, U!Failed, U!Hardware

LEMMA ListeningAlways ==
  ASSUME BInv, Listening, [BringUpNext]_allVars
  PROVE  Listening'
<1> USE DEF BInv
<1>1. CASE Works \/ Fails \/ Moves
  <2>1. called /\ UNext
    BY <1>1 DEF Works, Fails, Moves, UNext
  <2> QED BY <2>1, ListeningKept DEF Calling, UInv
<1>2. CASE Call
  <2>1. u_pc' = "probe" /\ port' \in U!PowerOn
    BY <1>2 DEF Call, Calling, Resting
  <2>2. \A p \in Ports : port'[p].csc => port'[p].conn
    BY <2>1, PortFacts DEF U!PowerOn
  <2> QED BY <2>1, <2>2 DEF Listening, OnPort, Unaddressed, AtDevice
<1>3. CASE Return
  <2>1. u_pc' = "probe" /\ port' = NoDevices
    BY <1>3 DEF Return, Rest
  <2> QED BY <2>1, PortFacts DEF NoDevices, Listening, OnPort, Unaddressed, AtDevice
<1>4. CASE UNCHANGED uhci
  BY <1>4 DEF uhci, Listening
<1> QED BY <1>1, <1>2, <1>3, <1>4 DEF BringUpNext, Scans, OtherDriver, allVars

\* As long as nobody plugs or unplugs a device, some device answers every request
\* the driver is about to wait for: the wait without end in uhci_wait_entry_complete
\* needs somebody to pull a plug.
THEOREM DeviceListens ==
  BringUpSpec => [](called /\ plugs = 0 =>
                      /\ u_pc \in {"maxpkg", "address"} => U!Answers(0)
                      /\ u_pc \in {"desc", "mfg", "prod"} => U!Answers(U!new_address(u_i)))
<1> DEFINE Heard == called /\ plugs = 0 =>
                      /\ u_pc \in {"maxpkg", "address"} => U!Answers(0)
                      /\ u_pc \in {"desc", "mfg", "prod"} => U!Answers(U!new_address(u_i))
<1>1. ASSUME BringUpInit PROVE Listening
  BY <1>1, PortFacts DEF BringUpInit, U!Init, NoDevices, Listening, OnPort, Unaddressed, AtDevice
<1>2. BInv /\ Listening /\ [BringUpNext]_allVars => Listening'
  BY ListeningAlways
<1>3. ASSUME BInv, Listening PROVE Heard
  <2> SUFFICES ASSUME called, plugs = 0, u_pc \in {"maxpkg", "address", "desc", "mfg", "prod"}
               PROVE  /\ u_pc \in {"maxpkg", "address"} => U!Answers(0)
                      /\ u_pc \in {"desc", "mfg", "prod"} => U!Answers(U!new_address(u_i))
    OBVIOUS
  <2>1. u_i \in U!Ports
    BY <1>3, PortFacts DEF BInv, Calling, UInv, Where, OnPort
  <2>2. port[u_i].pe
    BY <1>3 DEF Listening, AtDevice
  <2>3. /\ u_pc \in {"maxpkg", "address"} => addr[u_i] = 0
        /\ u_pc \in {"desc", "mfg", "prod"} => addr[u_i] = U!new_address(u_i)
    BY <1>3 DEF Listening, AtDevice, Unaddressed, U!new_address
  <2> QED BY <2>1, <2>2, <2>3 DEF U!Answers
<1>4. BInv /\ Listening => Heard
  BY <1>3
<1> HIDE DEF Heard
<1>5. BringUpSpec => []Heard
  BY <1>1, <1>2, <1>4, BringUpInvariant, PTL DEF BringUpSpec
<1> QED BY <1>5 DEF Heard

\* How far the work on a port is; the points from "enable" to "ack" come twice.
Stage ==
  CASE u_pc = "probe" -> 0
    [] u_pc = "global" -> 1
    [] u_pc = "poll" -> 2
    [] u_pc = "failed" -> 3
    [] u_pc = "start" -> 4
    [] u_pc = "astray" -> 4
    [] u_pc = "register" -> 5
    [] u_pc = "port" -> 0
    [] u_pc = "done" -> 1
    [] u_pc = "enable" -> IF second THEN 9 ELSE 1
    [] u_pc = "assert" -> IF second THEN 10 ELSE 2
    [] u_pc = "reset" -> IF second THEN 11 ELSE 3
    [] u_pc = "settle" -> IF second THEN 12 ELSE 4
    [] u_pc = "await" -> IF second THEN 13 ELSE 5
    [] u_pc = "clear" -> IF second THEN 14 ELSE 6
    [] u_pc = "ack" -> IF second THEN 15 ELSE 7
    [] u_pc = "maxpkg" -> 8
    [] u_pc = "address" -> 16
    [] u_pc = "desc" -> 17
    [] u_pc = "mfg" -> 18
    [] u_pc = "show_mfg" -> 19
    [] u_pc = "prod" -> 20
    [] u_pc = "show_prod" -> 21

DriverOn ==
  \/ u_i' > u_i
  \/ /\ u_i' = u_i
     /\ \/ Stage' > Stage
        \/ Stage' = Stage /\ timeout' < timeout

\* How far the scan is.
Phase == CASE pc = "register" -> 0 [] pc = "done" -> 2 [] OTHER -> 1
InDevice == IF pc = "device" THEN 0 ELSE func + 1
InFunction == IF pc = "offer" THEN 1 ELSE 0

ScanOn ==
  \/ Phase' > Phase
  \/ /\ Phase' = Phase
     /\ \/ bus' > bus
        \/ /\ bus' = bus
           /\ \/ device' > device
              \/ /\ device' = device
                 /\ \/ InDevice' > InDevice
                    \/ /\ InDevice' = InDevice
                       /\ \/ InFunction' > InFunction
                          \/ InFunction' = InFunction /\ i' > i

LEMMA DriverMovesOn == ASSUME Where, Regs, U!Driver \/ U!Failed PROVE DriverOn
<1>0. u_i \in Nat /\ timeout \in Nat /\ u_i + 1 > u_i
  <2>1. \A t \in U!uint16_t : t \in Nat
    BY SMTT(30) DEF U!uint16_t
  <2> QED BY <2>1, PortFacts, SMTT(30) DEF Where, Regs
<1>1. CASE U!Probe
  BY <1>0, <1>1 DEF DriverOn, Stage, U!Probe, U!At, U!Goto, U!hc
<1>2. CASE U!HcReset
  BY <1>0, <1>2 DEF DriverOn, Stage, U!HcReset, U!At, U!bus
<1>3. CASE U!PollReset
  <2>1. timeout' = timeout - 1 /\ timeout > 0 /\ UNCHANGED <<u_pc, u_i, second>>
    BY <1>3 DEF U!PollReset, U!At
  <2>2. Stage' = Stage
    BY <2>1 DEF Stage
  <2> QED BY <1>0, <2>1, <2>2 DEF DriverOn
<1>4. CASE U!ResetFailed
  BY <1>0, <1>4 DEF DriverOn, Stage, U!ResetFailed, U!At, U!Goto, U!hc, U!bus
<1>5. CASE U!InitFrameList
  BY <1>0, <1>5 DEF DriverOn, Stage, U!InitFrameList, U!At, U!Goto, U!hc, U!bus
<1>6. CASE U!StartController
  BY <1>0, <1>6 DEF DriverOn, Stage, U!StartController, U!At, U!Goto, U!hc, U!bus
<1>7. CASE U!Register
  BY <1>0, <1>7 DEF DriverOn, Where, Starting, U!Register, U!At
<1>8. CASE U!SkipPort
  BY <1>0, <1>8 DEF DriverOn, U!SkipPort, U!At, U!NextPort, U!hc, U!bus
<1>9. CASE U!Connected
  BY <1>0, <1>9 DEF DriverOn, Stage, U!Connected, U!At, U!hc, U!bus
<1>10. CASE U!PortsDone
  BY <1>0, <1>10 DEF DriverOn, Stage, U!PortsDone, U!At, U!Goto, U!hc, U!bus
<1>11. CASE U!PortReset
  BY <1>0, <1>11 DEF DriverOn, Stage, U!PortReset, U!At, U!Goto, U!hc
<1>12. CASE U!PortRelease
  BY <1>0, <1>12 DEF DriverOn, Stage, U!PortRelease, U!At, U!Goto, U!hc
<1>13. CASE U!PortEnable
  BY <1>0, <1>13 DEF DriverOn, Stage, U!PortEnable, U!At, U!hc
<1>14. CASE U!AwaitEnable
  <2>1. timeout' = timeout - 1 /\ timeout > 0 /\ UNCHANGED <<u_pc, u_i, second>>
    BY <1>14 DEF U!AwaitEnable, U!At
  <2>2. Stage' = Stage
    BY <2>1 DEF Stage
  <2> QED BY <1>0, <2>1, <2>2 DEF DriverOn
<1>15. CASE U!EnableFailed
  BY <1>0, <1>15 DEF DriverOn, U!EnableFailed, U!At, U!NextPort, U!hc, U!bus
<1>16. CASE U!Enabled
  BY <1>0, <1>16 DEF DriverOn, Stage, U!Enabled, U!At, U!Goto, U!hc, U!bus
<1>17. CASE U!ClearChange
  BY <1>0, <1>17 DEF DriverOn, Stage, U!ClearChange, U!At, U!hc
<1>18. CASE U!ReadMaxPacket
  BY <1>0, <1>18 DEF DriverOn, Stage, U!ReadMaxPacket, U!At, U!hc, U!bus
<1>19. CASE U!SetAddress
  BY <1>0, <1>19 DEF DriverOn, Stage, U!SetAddress, U!At, U!Goto, U!hc
<1>20. CASE U!ReadDesc
  BY <1>0, <1>20 DEF DriverOn, Stage, U!ReadDesc, U!At, U!Goto, U!hc, U!bus
<1>21. CASE U!ReadString("mfg", "show_mfg")
  BY <1>0, <1>21 DEF DriverOn, Stage, U!ReadString, U!At, U!Goto, U!hc, U!bus
<1>22. CASE U!ShowMfg
  BY <1>0, <1>22 DEF DriverOn, Stage, U!ShowMfg, U!At, U!Goto, U!hc, U!bus
<1>23. CASE U!ReadString("prod", "show_prod")
  BY <1>0, <1>23 DEF DriverOn, Stage, U!ReadString, U!At, U!Goto, U!hc, U!bus
<1>24. CASE U!ShowProd
  BY <1>0, <1>24 DEF DriverOn, U!ShowProd, U!At, U!NextPort, U!hc, U!bus
<1>25. CASE U!RequestFailed
  BY <1>0, <1>25 DEF DriverOn, U!RequestFailed, U!NextPort, U!hc
<1>26. CASE U!StringFailed("mfg", "show_mfg")
  BY <1>0, <1>26 DEF DriverOn, Stage, U!StringFailed, U!At, U!Goto, U!hc, U!bus
<1>27. CASE U!StringFailed("prod", "show_prod")
  BY <1>0, <1>27 DEF DriverOn, Stage, U!StringFailed, U!At, U!Goto, U!hc, U!bus
<1>31. CASE U!ReadStatus
  BY <1>31, <1>0 DEF DriverOn, Stage, U!ReadStatus, U!At, U!hc, U!bus
<1>32. CASE U!ReadChange
  BY <1>32, <1>0 DEF DriverOn, Stage, U!ReadChange, U!At, U!hc, U!bus
<1> QED
  BY <1>1, <1>2, <1>3, <1>4, <1>5, <1>6, <1>7, <1>8, <1>9, <1>10, <1>11, <1>12, <1>13, <1>14, <1>15, <1>16, <1>17, <1>18, <1>19, <1>20, <1>21, <1>22, <1>23, <1>24, <1>25, <1>26, <1>27, <1>31, <1>32
     DEF U!Driver, U!Failed

LEMMA NextDeviceOn ==
  ASSUME Scanning, pc \in {"device", "func"}, NextDevice
  PROVE  ScanOn
<1>1. bus \in Nat /\ device \in Nat /\ bus < BusCount /\ BusCount \in Nat /\ DeviceCount \in Nat
  BY BusFacts DEF Scanning
<1>2. CASE device + 1 < DeviceCount
  <2>1. device' = device + 1 /\ bus' = bus /\ pc' = "device"
    BY <1>1, <1>2 DEF NextDevice
  <2> QED BY <1>1, <2>1 DEF ScanOn, Phase
<1>3. CASE ~(device + 1 < DeviceCount)
  <2>1. bus' = bus + 1 /\ pc' \in {"device", "done"}
    BY <1>1, <1>3 DEF NextDevice
  <2> QED BY <1>1, <2>1 DEF ScanOn, Phase
<1> QED BY <1>2, <1>3

LEMMA ScanMovesOn == ASSUME Scanning, Table, PciNext PROVE ScanOn
<1>1. func \in Nat /\ i \in Nat
  BY BusFacts, CallFacts DEF Scanning, Table
<1>2. CASE pci_register_driver
  BY <1>1, <1>2 DEF pci_register_driver, ScanOn, Phase, InDevice, InFunction
<1>3. CASE pci_init
  BY <1>3 DEF pci_init, ScanOn, Phase
<1>4. CASE NoDevice \/ FuncsDone
  BY <1>4, NextDeviceOn DEF NoDevice, FuncsDone
<1>5. CASE Device
  BY <1>1, <1>5 DEF Device, ScanOn, Phase, InDevice
<1>6. CASE ReadHeader
  BY <1>1, <1>6 DEF ReadHeader, ScanOn, Phase, InDevice, InFunction
<1>7. CASE Accepted \/ pci_destroy_device
  BY <1>1, <1>7 DEF Accepted, Offer, pci_destroy_device, ScanOn, Phase, InDevice
<1>8. CASE Declined
  BY <1>1, <1>8 DEF Declined, Offer, ScanOn, Phase, InDevice, InFunction
<1> QED BY <1>2, <1>3, <1>4, <1>5, <1>6, <1>7, <1>8 DEF PciNext, Scan

\* A step goes on if the scan does, or if it stays where it is and a call of
\* pci_dev_init_cb begins or goes on; TypesOK bounds every part of the place.
Place == <<pc, scan, called, u_pc, u_i, second, timeout>>
MovesOn ==
  \/ ScanOn
  \/ /\ UNCHANGED <<pc, scan>> /\ called'
     /\ ~called \/ DriverOn

\* Every step of the CPU, whether a request fails or not, takes the scan or the
\* bring-up in it further in the order they go through buses, devices, functions,
\* drivers, ports, the points of a port and the turns of a poll, and nothing
\* takes them back: no controller and no device, however it behaves, makes the
\* loops of pci21.c and uhci.c begin anything again.
THEOREM BringUpMovesOn == BringUpSpec => [][MovesOn \/ (Moves /\ UNCHANGED Place)]_allVars
<1>1. ASSUME BInv, BringUpNext PROVE MovesOn \/ (Moves /\ UNCHANGED Place)
  <2> USE <1>1 DEF BInv, PciInv
  <2>1. CASE Scans \/ OtherDriver
    BY <2>1, ScanMovesOn DEF Scans, OtherDriver, PciNext, MovesOn
  <2>2. CASE Call
    BY <2>2 DEF Call, vars, MovesOn
  <2>3. CASE Works \/ Fails
    BY <2>3, DriverMovesOn DEF Works, Fails, Calling, UInv, vars, MovesOn
  <2>4. CASE Return
    BY <2>4, ScanMovesOn DEF Return, PciNext, MovesOn
  <2>5. CASE Moves
    <3>1. UNCHANGED <<u_pc, u_i, second, timeout>>
      BY <2>5, Zenon DEF Moves, U!Hardware, U!LeaveReset, U!ComeUp, U!PlugEvent, U!driver
    <3>2. UNCHANGED <<pc, scan, called>>
      BY <2>5 DEF Moves, vars
    <3> QED BY <2>5, <3>1, <3>2 DEF Place
  <2> QED BY <1>1, <2>1, <2>2, <2>3, <2>4, <2>5 DEF BringUpNext
<1>2. BInv /\ [BringUpNext]_allVars => [MovesOn \/ (Moves /\ UNCHANGED Place)]_allVars
  BY <1>1
<1> QED BY <1>2, BringUpInvariant, PTL DEF BringUpSpec
=============================================================================
