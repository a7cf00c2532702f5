----------------------------- MODULE MCGdbStub -----------------------------
(* A loop of two instructions, the second of which faults in one image, the  *)
(* timer's handler, a byte of data, and nothing behind it. The debugger sets *)
(* breakpoints in the loop and writes data, also past the end of memory.     *)
EXTENDS GdbStub

Program == <<"nop", "load", "nop", "nop">>
LoopAddresses == {0, 1}
LoopAndData == {0, 1, 3}
=============================================================================
