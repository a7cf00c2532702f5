----------------------------- MODULE MCBringUp -----------------------------
(* Two buses of two devices with up to three functions, and three drivers   *)
(* for a table of two. The machines: every one of at most three functions   *)
(* without a controller; one controller that answers for all functions of   *)
(* its device; one behind another function; one between a function of a     *)
(* reserved class and one that does not exist; two in one device.           *)
(* Controllers have two ports, polls of two turns, two plug events.         *)
EXTENDS BringUp, FiniteSetsExt, TLC

Order == <<"uhci_drv", "other_drv", "extra_drv">>
DriverMatches == [uhci_drv |-> {"uhci"}, other_drv |-> {"other"},
                  extra_drv |-> {"uhci", "other"}]
UhciDriver == {"uhci_drv"}
AnyResult == {TRUE, FALSE}

Slots == (0 .. BusCount - 1) \X (0 .. DeviceCount - 1)
WellFormed(funcs, multi) ==
  \A a \in funcs : <<a[1], a[2], 0>> \in funcs /\ (a[3] # 0 => <<a[1], a[2]>> \in multi)
WithoutController ==
  UNION {{[kind |-> [a \in funcs |-> "other"], multi |-> m] :
           m \in {m \in SUBSET Slots : WellFormed(funcs, m)}} :
         funcs \in UNION {kSubset(n, Addresses) : n \in 0 .. 3}}
WithController ==
  {[kind |-> <<0, 1, 0>> :> "uhci", multi |-> {}],
   [kind |-> <<1, 0, 0>> :> "other" @@ <<1, 0, 2>> :> "uhci", multi |-> {<<1, 0>>}],
   [kind |-> <<1, 0, 0>> :> Reserved @@ <<1, 0, 1>> :> "uhci", multi |-> {<<1, 0>>}],
   [kind |-> <<0, 0, 0>> :> "uhci" @@ <<0, 0, 1>> :> "uhci" @@ <<1, 1, 0>> :> "other",
    multi |-> {<<0, 0>>}]}
SomeMachines == WithoutController \cup WithController
=============================================================================
