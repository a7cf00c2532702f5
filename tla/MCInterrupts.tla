---------------------------- MODULE MCInterrupts ----------------------------
(* The timer, two controllers that share line 11, one that reports line 255 *)
(* (not connected: its vector wraps to 31) and one whose vector is out of   *)
(* range; delays of none to three ticks.                                   *)
EXTENDS Interrupts

CONSTANTS pit, uhci1, uhci2, stray, far

MCDevices == {uhci1, uhci2, stray, far}
MCTimers == {pit}
MCLine == [h \in MCDevices \cup MCTimers |->
             CASE h = pit -> 0 [] h = stray -> 255 [] h = far -> 100
               [] OTHER -> 11]
MCDelays == 0 .. 3
=============================================================================
