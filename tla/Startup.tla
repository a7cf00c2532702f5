------------------------------ MODULE Startup ------------------------------
(***************************************************************************)
(* From power on to the main program's loop: the boot sector (Stage1)      *)
(* loads stage 2 and jumps to it, and stage 2 (Boot) takes over PICs and   *)
(* descriptor table, whatever requests the BIOS has left pending.          *)
(***************************************************************************)
EXTENDS Stage1, Sequences, FiniteSets

CONSTANTS
  Built,   \* the size of the stage 2 that Boot models; a stage 2 of another
           \* size is another program
  Lines, Exceptions, Claimed, MaxRaises, MaxFaults

VARIABLES b_pc, di, esi, idt, iflag, stack, active, bss, registered, base, irr,
          inservice, raises, faults

B == INSTANCE Boot WITH pc <- b_pc

ASSUME StartupAssumption == Built \in Sizes /\ B!BootAssumption

stage2 == <<b_pc, di, esi, idt, iflag, stack, active, bss, registered, base, irr,
            inservice, raises, faults>>
allVars == <<vars, stage2>>

StartupInit == Init /\ B!Init

\* Until the jump the BIOS's own handlers serve the PICs.
Loads == Next /\ pc' # "stage2" /\ UNCHANGED stage2

Enters ==
  /\ JumpStage2
  /\ irr' \in SUBSET Lines
  /\ UNCHANGED <<b_pc, di, esi, idt, iflag, stack, active, bss, registered, base,
                 inservice, raises, faults>>

Entered == pc = "stage2" /\ size = Built

Goes == Entered /\ B!Program /\ UNCHANGED vars
Handles == Entered /\ B!Handler /\ UNCHANGED vars
Happens == Entered /\ B!Hardware /\ UNCHANGED vars

StartupNext == Loads \/ Enters \/ Goes \/ Handles \/ Happens

StartupSpec == StartupInit /\ [][StartupNext]_allVars

\* The CPU runs, the BIOS returns, and the CPU takes an interrupt it may take.
StartupFairSpec ==
  /\ StartupSpec
  /\ WF_allVars(Loads \/ Enters) /\ WF_allVars(Goes) /\ WF_allVars(Handles)
  /\ \A l \in Lines : WF_allVars(Entered /\ B!Deliver(l) /\ UNCHANGED vars)

-----------------------------------------------------------------------------
\* Both stages keep their types, and the second is untouched before the jump.
TypesOK ==
  /\ TypeOK /\ B!TypeOK
  /\ ~Entered => b_pc = "remap" /\ stack = <<>> /\ idt = <<>>

\* Every handler, dummy or not, leaves stack, interrupt flag and PICs as it
\* found them, in every nesting of interrupts, exceptions and NMIs: its iret
\* finds its own frame, and no line is left without its end of interrupt.
HandlersRestore == B!StackBalanced /\ B!AcknowledgedOnReturn

\* idt_common_isr is never entered for an interrupt inside another interrupt,
\* also when an exception with a trap gate came in between.
IrqsDoNotNest == B!IrqsDoNotNest

\* From the entry of stage 2 on, a line that is raised is delivered in the end
\* unless PicRemap or its device takes it back, whatever handlers run.
LinesServed ==
  \A l \in Lines : (Entered /\ l \in irr) ~> (l \notin irr)
=============================================================================
