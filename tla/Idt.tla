-------------------------------- MODULE Idt --------------------------------
(***************************************************************************)
(* Interrupt handlers of arch/idt.c: one list of handlers per vector,      *)
(* extended by idt_reg_handler in the main program and walked by           *)
(* idt_common_isr, which may interrupt it anywhere. Devices that share an  *)
(* interrupt line share a list: each asserts the line until its handler    *)
(* has served it, and an interrupt ends with the first handler that claims *)
(* it. The gates are interrupt gates: while a handler runs, the main       *)
(* program and the other interrupts wait. Interrupts has the next-state    *)
(* relation, with the timer.                                               *)
(***************************************************************************)
EXTENDS Integers, Sequences

CONSTANTS
  Devices,      \* handlers that claim what their device raised (uhci_isr)
  Timers,       \* handlers that claim nothing (pit_timer_isr)
  Line,         \* each one's interrupt line, a uint8_t of the PCI header
  MAX_ISR_CNT,  \* 48 vectors: CPU exceptions and the two PICs
  MaxRaises,    \* bound: how often a device raises its line
  NULL

Handlers == Devices \cup Timers

HandlerAssumption ==
  /\ NULL \notin Handlers /\ Devices \cap Timers = {}
  /\ Line \in [Handlers -> 0 .. 255]
  /\ MAX_ISR_CNT \in Nat /\ MaxRaises \in Nat

\* The argument int_n of idt_reg_handler, a uint8_t: the PICs raise 32 to 47.
Vector(h) == (Line[h] + 32) % 256
Vectors == {Vector(h) : h \in Handlers} \cap 0 .. (MAX_ISR_CNT - 1)

VARIABLES
  int_handlers,        \* the head of each vector's list
  next,                \* h->_next
  reg, h_reg, elem,    \* idt_reg_handler: its point, its argument, its cursor
  isr, int_n, curr,    \* idt_common_isr: its point, its argument, its cursor
  asserted, raises,    \* the devices that assert their line; how often so far
  order,               \* history: the finished registrations of each vector
  called, due          \* history: the handlers called in this interrupt; the
                       \* registered ones that asserted its line when it came

mainVars == <<int_handlers, next, reg, h_reg, elem, order>>
isrVars == <<isr, int_n, curr, called, due>>
devVars == <<asserted, raises>>
vars == <<mainVars, isrVars, devVars>>

Listed(n) == {order[n][i] : i \in DOMAIN order[n]}
Registered == UNION {Listed(n) : n \in Vectors}

\* pit.c initialises its handler's link; the others come from memalloc, with
\* whatever the heap holds.
Init ==
  /\ int_handlers = [n \in Vectors |-> NULL]
  /\ \E g \in Handlers \cup {NULL} :
       next = [h \in Handlers |-> IF h \in Timers THEN NULL ELSE g]
  /\ reg = "idle" /\ h_reg = NULL /\ elem = NULL
  /\ isr = "none" /\ int_n = 0 /\ curr = NULL
  /\ asserted = {} /\ raises = [d \in Devices |-> 0]
  /\ order = [n \in Vectors |-> <<>>]
  /\ called = <<>> /\ due = {}

-----------------------------------------------------------------------------
(* idt_reg_handler(Vector(h), h)                                           *)

\* stage2_main sets up the timer before any device.
MayRegister(h) ==
  /\ reg = "idle" /\ isr = "none"
  /\ h \notin Registered
  /\ h \in Devices => Timers \subseteq Registered

RegIgnored(h) ==
  /\ MayRegister(h)
  /\ Vector(h) >= MAX_ISR_CNT
  /\ UNCHANGED vars

\* A slip: the link is not cleared.
RegCallKeepsLink(h) ==
  /\ MayRegister(h)
  /\ Vector(h) < MAX_ISR_CNT
  /\ reg' = "head" /\ h_reg' = h
  /\ UNCHANGED <<int_handlers, next, elem, order, isrVars, devVars>>

RegCall(h) ==
  /\ MayRegister(h)
  /\ Vector(h) < MAX_ISR_CNT
  /\ next' = [next EXCEPT ![h] = NULL]
  /\ reg' = "head" /\ h_reg' = h
  /\ UNCHANGED <<int_handlers, elem, order, isrVars, devVars>>

Registration ==
  /\ reg' = "idle" /\ h_reg' = NULL /\ elem' = NULL
  /\ order' = [order EXCEPT ![Vector(h_reg)] = Append(@, h_reg)]

\* The list was empty: the handler becomes its head.
RegFirst ==
  /\ reg = "head" /\ isr = "none"
  /\ int_handlers[Vector(h_reg)] = NULL
  /\ int_handlers' = [int_handlers EXCEPT ![Vector(h_reg)] = h_reg]
  /\ Registration
  /\ UNCHANGED <<next, isrVars, devVars>>

RegHead ==
  /\ reg = "head" /\ isr = "none"
  /\ int_handlers[Vector(h_reg)] # NULL
  /\ elem' = int_handlers[Vector(h_reg)]
  /\ reg' = "walk"
  /\ UNCHANGED <<int_handlers, next, h_reg, order, isrVars, devVars>>

AtEnd(e) == next[e] = NULL

RegWalk ==
  /\ reg = "walk" /\ isr = "none" /\ ~AtEnd(elem)
  /\ elem' = next[elem]
  /\ UNCHANGED <<int_handlers, next, reg, h_reg, order, isrVars, devVars>>

RegLink ==
  /\ reg = "walk" /\ isr = "none" /\ AtEnd(elem)
  /\ next' = [next EXCEPT ![elem] = h_reg]
  /\ Registration
  /\ UNCHANGED <<int_handlers, isrVars, devVars>>

RegStep == RegFirst \/ RegHead \/ RegWalk \/ RegLink

-----------------------------------------------------------------------------
(* The devices and idt_common_isr                                          *)

\* A PIC has lines 0 to 15: a larger number means that none is connected.
Connected(h) == Line[h] <= 15

Raise(d) ==
  /\ Connected(d) /\ d \notin asserted /\ raises[d] < MaxRaises
  /\ asserted' = asserted \cup {d}
  /\ raises' = [raises EXCEPT ![d] = @ + 1]
  /\ UNCHANGED <<mainVars, isrVars>>

\* A PIC line reaches the CPU while a device asserts it; the timer's ticks are
\* edges that may come at any time.
Pending(n) == \E h \in asserted \cup Timers : Connected(h) /\ Line[h] + 32 = n

Served ==
  /\ isr' = "none" /\ int_n' = 0 /\ curr' = NULL /\ called' = <<>> /\ due' = {}

Interrupt(n) ==
  /\ isr = "none" /\ Pending(n)
  /\ int_handlers[n] # NULL
  /\ isr' = "call" /\ int_n' = n /\ curr' = int_handlers[n]
  /\ due' = asserted \cap Listed(n) /\ called' = <<>>
  /\ UNCHANGED <<mainVars, devVars>>

\* "No handler for INT": nobody silences the device.
NoHandler(n) ==
  /\ isr = "none" /\ Pending(n)
  /\ int_handlers[n] = NULL
  /\ UNCHANGED vars

\* A slip: a handler that claims every interrupt it is called for.
ClaimsAlways(h) == h \in Devices

Claims(h) == h \in asserted

\* elem->handler returns true: it has served its device.
Claim ==
  /\ isr = "call" /\ Claims(curr)
  /\ asserted' = asserted \ {curr}
  /\ Served
  /\ UNCHANGED <<mainVars, raises>>

\* elem->handler returns false, and another handler follows.
PassOn ==
  /\ isr = "call" /\ ~Claims(curr) /\ next[curr] # NULL
  /\ called' = Append(called, curr)
  /\ curr' = next[curr]
  /\ UNCHANGED <<mainVars, isr, int_n, due, devVars>>

\* A slip: the interrupt ends with the first handler, whatever it returns.
NotHandledAtFirst ==
  /\ isr = "call" /\ ~Claims(curr)
  /\ Served
  /\ UNCHANGED <<mainVars, devVars>>

\* The last handler returns false: "INT n not handled", but for the timer.
NotHandled ==
  /\ isr = "call" /\ ~Claims(curr) /\ next[curr] = NULL
  /\ Served
  /\ UNCHANGED <<mainVars, devVars>>

Dispatch == Claim \/ PassOn \/ NotHandled

-----------------------------------------------------------------------------
\* Every cursor is null or a handler, and a list is a list of handlers.
TypeOK ==
  /\ int_handlers \in [Vectors -> Handlers \cup {NULL}]
  /\ next \in [Handlers -> Handlers \cup {NULL}]
  /\ reg \in {"idle", "head", "walk"} /\ isr \in {"none", "call"}
  /\ reg # "idle" => h_reg \in Handlers /\ Vector(h_reg) \in Vectors
  /\ reg = "walk" => elem \in Handlers
  /\ isr = "call" => curr \in Handlers /\ int_n \in Vectors
  /\ asserted \subseteq Devices
  /\ raises \in [Devices -> 0 .. MaxRaises]
  /\ order \in [Vectors -> Seq(Handlers)]
  /\ called \in Seq(Handlers) /\ due \subseteq Devices

\* The list of a vector holds the handlers registered for it, in the order of
\* their registration, also while idt_reg_handler is at work on it.
ListIsOrder ==
  \A n \in Vectors :
    LET o == order[n] IN
    /\ int_handlers[n] = IF o = <<>> THEN NULL ELSE o[1]
    /\ \A i \in 1 .. Len(o) :
         next[o[i]] = IF i < Len(o) THEN o[i + 1] ELSE NULL
    /\ \A i, j \in 1 .. Len(o) : o[i] = o[j] => i = j

\* idt_common_isr calls the handlers in the order they registered, each once,
\* and a handler only after those before it did not claim the interrupt.
CalledInOrder ==
  isr = "call" =>
    /\ Len(called) < Len(order[int_n])
    /\ Append(called, curr) = SubSeq(order[int_n], 1, Len(called) + 1)
=============================================================================
