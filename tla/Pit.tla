-------------------------------- MODULE Pit --------------------------------
(***************************************************************************)
(* sleep() of arch/pit.c and the timer interrupt it waits for. The counter *)
(* timer_ms_left is written by sleep and decremented by pit_timer_isr,     *)
(* with no lock between them; the CPU halts between two looks at it, and   *)
(* any interrupt ends the halt. An interrupt may fall between the look and *)
(* the hlt, which then waits for the next one.                             *)
(***************************************************************************)
EXTENDS Integers

CONSTANTS Word,    \* 2^32 on the machine: uint32_t
          Delays   \* the delays the callers of sleep ask for

ASSUME DelayAssumption == Word \in Nat \ {0} /\ Delays \subseteq 0 .. (Word - 1)

VARIABLES
  timer_ms_left,
  pc,      \* "run": not sleeping; "look", "hlt", "halted": in sleep's loop
  asked,   \* the argument of the sleep in progress, or of the last one
  ticks,   \* timer interrupts since that call, counted up to asked + 1
  naps     \* halts that sleep entered when the time was already up

vars == <<timer_ms_left, pc, asked, ticks, naps>>

Init ==
  timer_ms_left = 0 /\ pc = "run" /\ asked = 0 /\ ticks = 0 /\ naps = 0

\* sleep(ms): the store. Nothing is said of the counter between two calls.
CallSleep(ms) ==
  /\ pc = "run"
  /\ timer_ms_left' = ms /\ pc' = "look"
  /\ asked' = ms /\ ticks' = 0 /\ naps' = 0

\* The loop's test.
Look ==
  /\ pc = "look" /\ timer_ms_left # 0
  /\ pc' = "hlt"
  /\ UNCHANGED <<timer_ms_left, asked, ticks, naps>>

Return ==
  /\ pc = "look" /\ timer_ms_left = 0
  /\ pc' = "run"
  /\ UNCHANGED <<timer_ms_left, asked, ticks, naps>>

Halt ==
  /\ pc = "hlt"
  /\ pc' = "halted"
  /\ naps' = IF timer_ms_left = 0 THEN naps + 1 ELSE naps
  /\ UNCHANGED <<timer_ms_left, asked, ticks>>

\* A slip: after an interrupt the loop halts again before it looks.
WokenAsleep(p) == IF p = "halted" THEN "hlt" ELSE p

\* What any interrupt does to the interrupted code.
Woken(p) == IF p = "halted" THEN "look" ELSE p

\* Slips: a test off by one, a signed counter without the test, and a step of
\* two (the divisor of a 500 Hz timer).
DecrementLate(t) == IF t > 1 THEN t - 1 ELSE t
DecrementSigned(t) == t - 1
DecrementTwice(t) == IF t > 1 THEN t - 2 ELSE 0

Decrement(t) == IF t > 0 THEN t - 1 ELSE t

\* pit_timer_isr
pit_timer_isr ==
  /\ timer_ms_left' = Decrement(timer_ms_left)
  /\ pc' = Woken(pc)
  /\ ticks' = IF ticks <= asked THEN ticks + 1 ELSE ticks
  /\ UNCHANGED <<asked, naps>>

\* Any other interrupt (the host controller's, a spurious one).
OtherInterrupt ==
  /\ pc' = Woken(pc)
  /\ UNCHANGED <<timer_ms_left, asked, ticks, naps>>

Sleeper == Look \/ Return \/ Halt

Next ==
  \/ \E ms \in Delays : CallSleep(ms)
  \/ Sleeper
  \/ pit_timer_isr
  \/ OtherInterrupt

Spec == Init /\ [][Next]_vars

-----------------------------------------------------------------------------
\* The counter keeps its 32 bits, and the loop is at one of its points.
TypeOK ==
  /\ timer_ms_left \in 0 .. (Word - 1)
  /\ pc \in {"run", "look", "hlt", "halted"}
  /\ asked \in Delays \cup {0}
  /\ ticks \in 0 .. (asked + 1)
  /\ naps \in Nat

\* However interrupts fall into the loop, the counter and the interrupts so
\* far add up to the argument, and a late tick does not wrap the counter.
CountsDown ==
  timer_ms_left = IF ticks <= asked THEN asked - ticks ELSE 0

\* sleep(ms) does not return before ms timer interrupts (uhci_reset and the
\* port bring-up rely on their minimum delays).
NeverEarly == [][Return => ticks >= asked]_vars

\* An interrupt between the test and the hlt of sleep's loop costs one halt too
\* many, never two.
OneNapTooMany == naps <= 1
=============================================================================
