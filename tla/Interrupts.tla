----------------------------- MODULE Interrupts -----------------------------
(***************************************************************************)
(* The timer and the interrupt handler lists together, as stage2_main sets *)
(* them up: pit_timer_isr is one of the handlers idt_common_isr calls,     *)
(* every interrupt wakes a sleeping main program at its entry, and the     *)
(* main program, which sleeps and registers handlers, goes on when the     *)
(* interrupt returns. Pit's steps are the ones PitProofs speaks of.        *)
(***************************************************************************)
EXTENDS Pit, Sequences

CONSTANTS Devices, Timers, Line, MAX_ISR_CNT, MaxRaises, NULL

VARIABLES int_handlers, next, reg, h_reg, elem, isr, int_n, curr, asserted,
          raises, order, called, due

I == INSTANCE Idt

ASSUME HandlerAssumption == I!HandlerAssumption

idtVars == <<int_handlers, next, reg, h_reg, elem, isr, int_n, curr, asserted,
             raises, order, called, due>>
allVars == <<vars, idtVars>>

InterruptsInit == Init /\ I!Init

\* The main program is one thread: it registers a handler or sleeps, and does
\* neither while a handler runs. stage2_main calls pit_init before
\* pci_init, whose drivers are the callers of sleep.
Registers ==
  /\ pc = "run"
  /\ (\E h \in I!Handlers : I!RegIgnored(h) \/ I!RegCall(h)) \/ I!RegStep
  /\ UNCHANGED vars

Sleeps ==
  /\ isr = "none" /\ reg = "idle" /\ Timers \subseteq I!Registered
  /\ \E ms \in Delays : CallSleep(ms)
  /\ UNCHANGED idtVars

Goes == isr = "none" /\ Sleeper /\ UNCHANGED idtVars

\* The entry of an interrupt ends the halt, whoever handles it.
Enters(n) == I!Interrupt(n) /\ OtherInterrupt
Unhandled(n) == I!NoHandler(n) /\ OtherInterrupt

\* elem->handler(): the timer's handler counts, the others leave it alone.
CallsHandler ==
  /\ I!Dispatch
  /\ IF curr \in Timers THEN pit_timer_isr ELSE UNCHANGED vars

Asserts(d) == I!Raise(d) /\ UNCHANGED vars

InterruptsNext ==
  \/ Registers
  \/ Sleeps
  \/ Goes
  \/ \E n \in I!Vectors : Enters(n) \/ Unhandled(n)
  \/ CallsHandler
  \/ \E d \in Devices : Asserts(d)

InterruptsSpec == InterruptsInit /\ [][InterruptsNext]_allVars

\* Handlers return and the PIC delivers a line that stays asserted although
\* other lines are served in between; a millisecond between two ticks leaves
\* the main program time to go on, again and again.
InterruptsFairSpec ==
  /\ InterruptsSpec
  /\ WF_allVars(CallsHandler)
  /\ SF_allVars(Goes)
  /\ \A n \in I!Vectors : SF_allVars(Enters(n))

-----------------------------------------------------------------------------
\* Both parts keep their types, sleep and the registration of a handler are
\* never under way at once.
TypesOK ==
  /\ TypeOK /\ I!TypeOK
  /\ pc = "run" \/ reg = "idle"

\* The list of a vector holds its handlers in the order of their registration,
\* also while idt_reg_handler is at work on it, and idt_common_isr calls them
\* in that order, each once, whenever it interrupts.
ListsInOrder == I!ListIsOrder /\ I!CalledInOrder

\* An interrupt a registered device asked for is never reported as not handled,
\* the timer's tick on another vector and a sleeping main program included.
NoFalseAlarm == [][(isr = "call" /\ isr' = "none" /\ asserted' = asserted) => due = {}]_allVars

\* A device with a registered handler is served, although the timer ticks for
\* ever and the handlers before its own claim the interrupts they share.
DeviceServed ==
  \A d \in Devices :
    (d \in asserted /\ d \in I!Registered) ~> (d \notin asserted)

\* Every sleep returns, whatever else interrupts it, from the first tick that
\* the list of vector 32 hands to pit_timer_isr.
SleepEnds == pc # "run" ~> pc = "run"
=============================================================================
