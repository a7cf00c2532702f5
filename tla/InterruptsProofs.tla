-------------------------- MODULE InterruptsProofs --------------------------
(***************************************************************************)
(* Theorems about Interrupts, for every set of devices, lines and delays:  *)
(* the timer's theorems hold with the handler lists around it, and the     *)
(* lists are in order and lose no interrupt.                               *)
(***************************************************************************)
EXTENDS Interrupts, TLAPS

-----------------------------------------------------------------------------
(* The timer, for every set of delays: the counter and the timer           *)
(* interrupts add up, so sleep is never early; a missed wake-up costs one  *)
(* halt because the counter stays 0 once it got there.                     *)


\* An extra halt has been taken only once the time was up, and never twice.
NapInv == naps \in {0, 1} /\ (naps = 1 => timer_ms_left = 0 /\ pc # "hlt")

IInv == TypeOK /\ CountsDown /\ NapInv

\* At boot nothing sleeps and the counter is 0.
LEMMA InitIInv == Init => IInv
BY DelayAssumption DEF Init, IInv, TypeOK, CountsDown, NapInv

\* A call of sleep starts the sum anew.
LEMMA CallKeeps ==
  ASSUME IInv, NEW ms \in Delays, CallSleep(ms) PROVE IInv'
BY DelayAssumption DEF CallSleep, IInv, TypeOK, CountsDown, NapInv

\* The loop of sleep leaves the counter alone; it enters the hlt only from a
\* look at a counter that is not 0.
LEMMA SleeperKeeps == ASSUME IInv, Sleeper PROVE IInv'
<1>1. CASE Look
  BY <1>1 DEF Look, IInv, TypeOK, CountsDown, NapInv
<1>2. CASE Return
  BY <1>2 DEF Return, IInv, TypeOK, CountsDown, NapInv
<1>3. CASE Halt
  BY <1>3 DEF Halt, IInv, TypeOK, CountsDown, NapInv
<1> QED BY <1>1, <1>2, <1>3 DEF Sleeper

\* A timer interrupt takes 1 from the counter and adds 1 to the ticks.
LEMMA TickKeeps == ASSUME IInv, pit_timer_isr PROVE IInv'
<1> USE DelayAssumption DEF IInv
<1>1. /\ timer_ms_left \in Nat /\ timer_ms_left < Word
      /\ asked \in Nat /\ ticks \in 0 .. (asked + 1)
  BY DEF TypeOK
<1>2. /\ timer_ms_left' = IF timer_ms_left > 0 THEN timer_ms_left - 1
                          ELSE timer_ms_left
      /\ ticks' = IF ticks <= asked THEN ticks + 1 ELSE ticks
      /\ asked' = asked /\ naps' = naps
  BY DEF pit_timer_isr, Decrement
<1>3. pc' = IF pc = "halted" THEN "look" ELSE pc
  BY DEF pit_timer_isr, Woken
<1>4. TypeOK'
  BY <1>1, <1>2, <1>3 DEF TypeOK
<1>5. CountsDown'
  BY <1>1, <1>2 DEF CountsDown
<1>6. NapInv'
  BY <1>1, <1>2, <1>3 DEF NapInv
<1> QED BY <1>4, <1>5, <1>6

\* No other interrupt touches the counter.
LEMMA OtherKeeps == ASSUME IInv, OtherInterrupt PROVE IInv'
BY DEF OtherInterrupt, Woken, IInv, TypeOK, CountsDown, NapInv

\* The inductive invariant of sleep and its timer interrupt.
THEOREM Invariance == Spec => []IInv
<1>1. IInv /\ [Next]_vars => IInv'
  <2> SUFFICES ASSUME IInv, [Next]_vars PROVE IInv'
    OBVIOUS
  <2>1. ASSUME NEW ms \in Delays, CallSleep(ms) PROVE IInv'
    BY <2>1, CallKeeps
  <2>2. CASE Sleeper
    BY <2>2, SleeperKeeps
  <2>3. CASE pit_timer_isr
    BY <2>3, TickKeeps
  <2>4. CASE OtherInterrupt
    BY <2>4, OtherKeeps
  <2>5. CASE UNCHANGED vars
    BY <2>5 DEF vars, IInv, TypeOK, CountsDown, NapInv
  <2> QED BY <2>1, <2>2, <2>3, <2>4, <2>5 DEF Next
<1> QED BY <1>1, InitIInv, PTL DEF Spec

\* The counter of pit.c and the timer interrupts since the call add up to the
\* argument of sleep, whatever interleaving, and it never wraps below 0.
THEOREM TicksAddUp == Spec => []CountsDown
<1>1. IInv => CountsDown
  BY DEF IInv
<1> QED BY <1>1, Invariance, PTL

\* sleep(ms) returns only after ms timer interrupts.
THEOREM SleepsLongEnough == Spec => NeverEarly
<1>1. IInv => (Return => ticks >= asked)
  BY DelayAssumption DEF IInv, TypeOK, CountsDown, Return
<1>2. IInv /\ [Next]_vars => [Return => ticks >= asked]_vars
  BY <1>1
<1> QED BY <1>2, Invariance, PTL DEF Spec, NeverEarly

\* The window between the loop's test and its hlt costs at most one halt.
THEOREM OneMissedWakeUp == Spec => []OneNapTooMany
<1>1. IInv => OneNapTooMany
  BY DEF IInv, NapInv, OneNapTooMany
<1> QED BY <1>1, Invariance, PTL

-----------------------------------------------------------------------------
(* The timer among the handlers                                            *)

\* The timer and the sleeping main program do nothing that Pit does not allow.
LEMMA PitKept == InterruptsSpec => Spec
<1>1. InterruptsInit => Init
  BY DEF InterruptsInit
<1>2. [InterruptsNext]_allVars => [Next]_vars
  <2> SUFFICES ASSUME [InterruptsNext]_allVars PROVE [Next]_vars
    OBVIOUS
  <2>1. CASE Registers
    BY <2>1 DEF Registers
  <2>2. CASE Sleeps
    BY <2>2 DEF Sleeps, Next
  <2>3. CASE Goes
    BY <2>3 DEF Goes, Next
  <2>4. CASE \E n \in I!Vectors : Enters(n) \/ Unhandled(n)
    BY <2>4 DEF Enters, Unhandled, Next
  <2>5. CASE CallsHandler
    BY <2>5 DEF CallsHandler, Next
  <2>6. CASE \E d \in Devices : Asserts(d)
    BY <2>6 DEF Asserts
  <2>7. CASE UNCHANGED allVars
    BY <2>7 DEF allVars
  <2> QED BY <2>1, <2>2, <2>3, <2>4, <2>5, <2>6, <2>7 DEF InterruptsNext
<1> QED BY <1>1, <1>2, PTL DEF InterruptsSpec, Spec

\* sleep(ms) returns only after ms timer interrupts that came through the list
\* of vector 32, whatever other handlers are registered and called.
THEOREM SleepsLongEnoughInLists == InterruptsSpec => NeverEarly
BY PitKept, SleepsLongEnough, PTL

\* No interrupt of any device makes sleep halt more than once too often.
THEOREM OneMissedWakeUpInLists == InterruptsSpec => []OneNapTooMany
BY PitKept, OneMissedWakeUp, PTL

-----------------------------------------------------------------------------
(* The lists                                                               *)

\* The stored lists, which are those of the finished registrations.
Stored ==
  /\ int_handlers \in [I!Vectors -> I!Handlers \cup {NULL}]
  /\ next \in [I!Handlers -> I!Handlers \cup {NULL}]
  /\ order \in [I!Vectors -> Seq(I!Handlers)]
  /\ I!ListIsOrder

\* A handler is in the list of its own vector and in no other.
OwnVector ==
  \A n \in I!Vectors : \A k \in 1 .. Len(order[n]) : I!Vector(order[n][k]) = n

\* The handler that is being registered ends its list and is not yet linked;
\* the cursor of the walk is in that list.
Registering ==
  /\ reg \in {"idle", "head", "walk"}
  /\ reg # "idle" =>
       /\ h_reg \in I!Handlers /\ I!Vector(h_reg) \in I!Vectors
       /\ next[h_reg] = NULL
       /\ \A k \in 1 .. Len(order[I!Vector(h_reg)]) : order[I!Vector(h_reg)][k] # h_reg
  /\ reg = "walk" =>
       \E k \in 1 .. Len(order[I!Vector(h_reg)]) : elem = order[I!Vector(h_reg)][k]

\* The handlers called so far begin the list, and none of them was due.
Calling ==
  isr = "call" =>
    /\ int_n \in I!Vectors /\ called \in Seq(I!Handlers)
    /\ Len(called) < Len(order[int_n])
    /\ \A k \in 1 .. Len(called) : called[k] = order[int_n][k]
    /\ curr = order[int_n][Len(called) + 1]
    /\ due \subseteq asserted /\ due \subseteq I!Listed(int_n)
    /\ \A k \in 1 .. Len(called) : called[k] \notin due

ListIInv == Stored /\ OwnVector /\ Registering /\ isr \in {"none", "call"} /\ Calling

USE HandlerAssumption DEF I!HandlerAssumption

\* The elements of a list are the entries of its sequence.
LEMMA ListedInOrder ==
  ASSUME Stored, NEW n \in I!Vectors, NEW h
  PROVE  h \in I!Listed(n) <=> \E k \in 1 .. Len(order[n]) : h = order[n][k]
<1>1. order[n] \in Seq(I!Handlers)
  BY DEF Stored
<1> QED BY <1>1 DEF I!Listed

\* A list as ListIsOrder describes it, vector by vector.
LEMMA ListOf ==
  ASSUME Stored, NEW n \in I!Vectors
  PROVE  /\ order[n] \in Seq(I!Handlers)
         /\ Len(order[n]) = 0 => int_handlers[n] = NULL
         /\ Len(order[n]) > 0 => int_handlers[n] = order[n][1]
         /\ \A k \in 1 .. Len(order[n]) :
              /\ order[n][k] \in I!Handlers
              /\ next[order[n][k]] = IF k < Len(order[n]) THEN order[n][k + 1] ELSE NULL
         /\ \A k, j \in 1 .. Len(order[n]) : order[n][k] = order[n][j] => k = j
<1>1. order[n] \in Seq(I!Handlers)
  BY DEF Stored
<1>2. Len(order[n]) = 0 <=> order[n] = <<>>
  BY <1>1
<1> QED BY <1>1, <1>2 DEF Stored, I!ListIsOrder

\* Before the first registration every list is empty.
LEMMA InitLists == InterruptsInit => ListIInv
<1> SUFFICES ASSUME I!Init PROVE ListIInv
  BY DEF InterruptsInit
<1>1. order \in [I!Vectors -> Seq(I!Handlers)] /\ \A n \in I!Vectors : order[n] = <<>>
  BY DEF I!Init
<1>2. next \in [I!Handlers -> I!Handlers \cup {NULL}]
  BY DEF I!Init
<1>3. Stored
  BY <1>1, <1>2 DEF I!Init, Stored, I!ListIsOrder
<1>4. OwnVector
  BY <1>1 DEF OwnVector
<1>5. Registering /\ isr \in {"none", "call"} /\ Calling
  BY DEF I!Init, Registering, Calling
<1> QED BY <1>3, <1>4, <1>5 DEF ListIInv

\* The vector of a handler that idt_reg_handler takes is one of the table's.
LEMMA VectorInTable ==
  ASSUME NEW h \in I!Handlers, I!Vector(h) < MAX_ISR_CNT
  PROVE  I!Vector(h) \in I!Vectors
<1>1. Line[h] \in 0 .. 255
  OBVIOUS
<1>2. I!Vector(h) \in Nat
  BY <1>1 DEF I!Vector
<1> QED BY <1>2 DEF I!Vectors

\* A handler that is not registered is in no list.
LEMMA NotRegistered ==
  ASSUME Stored, NEW h, h \notin I!Registered, NEW n \in I!Vectors
  PROVE  \A k \in 1 .. Len(order[n]) : order[n][k] # h
BY ListedInOrder DEF I!Registered

\* The start of a registration: the link it clears is in no list.
LEMMA RegCallKeeps ==
  ASSUME ListIInv, NEW h \in I!Handlers, I!RegCall(h) PROVE ListIInv'
<1> USE DEF ListIInv
<1>1. /\ reg = "idle" /\ isr = "none" /\ h \notin I!Registered
      /\ I!Vector(h) < MAX_ISR_CNT
      /\ next' = [next EXCEPT ![h] = NULL]
      /\ reg' = "head" /\ h_reg' = h
      /\ UNCHANGED <<int_handlers, elem, order, isr, int_n, curr, called, due, asserted>>
  BY DEF I!RegCall, I!MayRegister, I!isrVars, I!devVars
<1>2. \A n \in I!Vectors : \A k \in 1 .. Len(order[n]) : order[n][k] # h
  BY <1>1, NotRegistered
<1>3. Stored'
  <2>1. next' \in [I!Handlers -> I!Handlers \cup {NULL}]
    BY <1>1 DEF Stored
  <2>2. \A n \in I!Vectors : \A k \in 1 .. Len(order[n]) : next'[order[n][k]] = next[order[n][k]]
    BY <1>1, <1>2, ListOf DEF Stored
  <2> QED BY <1>1, <2>1, <2>2 DEF Stored, I!ListIsOrder
<1>4. OwnVector'
  BY <1>1 DEF OwnVector
<1>5. Registering'
  BY <1>1, <1>2, VectorInTable DEF Registering, Stored
<1>6. Calling'
  BY <1>1 DEF Calling
<1> QED BY <1>1, <1>3, <1>4, <1>5, <1>6

\* A list that is extended by the handler being registered, at its end.
LEMMA Extended ==
  ASSUME ListIInv, reg # "idle", NEW v, v = I!Vector(h_reg),
         I!Registration, isr = "none", isr' = "none",
         next' \in [I!Handlers -> I!Handlers \cup {NULL}],
         int_handlers' \in [I!Vectors -> I!Handlers \cup {NULL}],
         \A n \in I!Vectors \ {v} :
           /\ int_handlers'[n] = int_handlers[n]
           /\ \A k \in 1 .. Len(order[n]) : next'[order[n][k]] = next[order[n][k]],
         int_handlers'[v] = IF Len(order[v]) = 0 THEN h_reg ELSE int_handlers[v],
         next'[h_reg] = NULL,
         \A k \in 1 .. Len(order[v]) :
           next'[order[v][k]] = IF k = Len(order[v]) THEN h_reg ELSE next[order[v][k]]
  PROVE  ListIInv'
<1> USE DEF ListIInv
<1>1. h_reg \in I!Handlers /\ v \in I!Vectors
  BY DEF Registering
<1>2. order' = [order EXCEPT ![v] = Append(@, h_reg)] /\ reg' = "idle"
  BY DEF I!Registration
<1> DEFINE o == order[v]
           q == order'[v]
<1>3. o \in Seq(I!Handlers) /\ q = Append(o, h_reg)
  BY <1>1, <1>2 DEF Stored
<1>4. /\ q \in Seq(I!Handlers) /\ Len(q) = Len(o) + 1 /\ q # <<>>
      /\ \A k \in 1 .. Len(o) : q[k] = o[k]
      /\ q[Len(o) + 1] = h_reg
  BY <1>1, <1>3
<1>5. \A n \in I!Vectors \ {v} : order'[n] = order[n]
  BY <1>2 DEF Stored
<1>6. order' \in [I!Vectors -> Seq(I!Handlers)]
  BY <1>1, <1>2 DEF Stored
<1>7. \A k \in 1 .. Len(o) : o[k] # h_reg
  BY DEF Registering
<1>8. I!ListIsOrder'
  <2>1. /\ int_handlers'[v] = q[1]
        /\ \A k \in 1 .. Len(q) : next'[q[k]] = IF k < Len(q) THEN q[k + 1] ELSE NULL
        /\ \A k, j \in 1 .. Len(q) : q[k] = q[j] => k = j
    <3>1. int_handlers'[v] = q[1]
      BY <1>1, <1>3, <1>4, ListOf
    <3>2. ASSUME NEW k \in 1 .. Len(q)
          PROVE  next'[q[k]] = IF k < Len(q) THEN q[k + 1] ELSE NULL
      <4>1. CASE k = Len(o) + 1
        BY <4>1, <1>3, <1>4
      <4>2. CASE k = Len(o)
        BY <4>2, <1>3, <1>4
      <4>3. CASE k \in 1 .. (Len(o) - 1)
        <5>1. next'[q[k]] = next[o[k]] /\ next[o[k]] = o[k + 1]
          BY <4>3, <1>1, <1>3, <1>4, ListOf
        <5> QED BY <5>1, <4>3, <1>3, <1>4
      <4> QED BY <4>1, <4>2, <4>3, <1>3, <1>4
    <3>3. ASSUME NEW k \in 1 .. Len(q), NEW j \in 1 .. Len(q), q[k] = q[j]
          PROVE  k = j
      BY <3>3, <1>1, <1>3, <1>4, <1>7, ListOf
    <3> QED BY <3>1, <3>2, <3>3
  <2>2. ASSUME NEW n \in I!Vectors, n # v
        PROVE  /\ int_handlers'[n] = IF order'[n] = <<>> THEN NULL ELSE order'[n][1]
               /\ \A k \in 1 .. Len(order'[n]) :
                    next'[order'[n][k]] = IF k < Len(order'[n]) THEN order'[n][k + 1] ELSE NULL
               /\ \A k, j \in 1 .. Len(order'[n]) : order'[n][k] = order'[n][j] => k = j
    BY <2>2, <1>5 DEF Stored, I!ListIsOrder
  <2> QED BY <1>4, <2>1, <2>2 DEF I!ListIsOrder
<1>9. Stored'
  BY <1>6, <1>8 DEF Stored
<1>10. OwnVector'
  <2>1. ASSUME NEW n \in I!Vectors, NEW k \in 1 .. Len(order'[n])
        PROVE  I!Vector(order'[n][k]) = n
    <3>1. CASE n # v
      BY <3>1, <1>5 DEF OwnVector
    <3>2. CASE n = v
      BY <3>2, <1>1, <1>3, <1>4 DEF OwnVector
    <3> QED BY <3>1, <3>2
  <2> QED BY <2>1 DEF OwnVector
<1>11. Registering' /\ Calling'
  BY <1>2 DEF Registering, Calling
<1> QED BY <1>9, <1>10, <1>11

\* A handler that is linked as the head of an empty list.
LEMMA RegFirstKeeps == ASSUME ListIInv, I!RegFirst PROVE ListIInv'
<1> DEFINE v == I!Vector(h_reg)
<1>1. /\ reg = "head" /\ isr = "none" /\ int_handlers[v] = NULL /\ I!Registration
      /\ int_handlers' = [int_handlers EXCEPT ![v] = h_reg]
      /\ next' = next /\ isr' = isr
  BY DEF I!RegFirst, I!isrVars
<1>2. h_reg \in I!Handlers /\ v \in I!Vectors /\ next[h_reg] = NULL
  BY <1>1 DEF ListIInv, Registering
<1>3. Len(order[v]) = 0
  <2>1. Len(order[v]) > 0 => order[v][1] = NULL /\ order[v][1] \in I!Handlers
    BY <1>1, <1>2, ListOf DEF ListIInv
  <2>2. Len(order[v]) \in Nat
    BY <1>2 DEF ListIInv, Stored
  <2> QED BY <2>1, <2>2
<1>4. int_handlers' \in [I!Vectors -> I!Handlers \cup {NULL}]
  BY <1>1, <1>2 DEF ListIInv, Stored
<1>5. next' \in [I!Handlers -> I!Handlers \cup {NULL}]
  BY <1>1 DEF ListIInv, Stored
<1>6. /\ int_handlers'[v] = h_reg
      /\ \A n \in I!Vectors \ {v} : int_handlers'[n] = int_handlers[n]
  BY <1>1, <1>2 DEF ListIInv, Stored
<1> HIDE DEF v
<1> QED BY <1>1, <1>2, <1>3, <1>4, <1>5, <1>6, Extended DEF v

\* The walk to the end of a list that is not empty stays in it.
LEMMA RegHeadKeeps == ASSUME ListIInv, I!RegHead PROVE ListIInv'
<1> DEFINE v == I!Vector(h_reg)
<1>1. /\ reg = "head" /\ isr = "none" /\ int_handlers[v] # NULL
      /\ elem' = int_handlers[v] /\ reg' = "walk"
      /\ UNCHANGED <<int_handlers, next, h_reg, order, isr, asserted>>
  BY DEF I!RegHead, I!isrVars, I!devVars
<1>2. v \in I!Vectors
  BY <1>1 DEF ListIInv, Registering
<1>3. Len(order[v]) \in Nat \ {0} /\ elem' = order[v][1]
  BY <1>1, <1>2, ListOf DEF ListIInv
<1>4. Stored' /\ OwnVector'
  BY <1>1 DEF ListIInv, Stored, I!ListIsOrder, OwnVector
<1>5. Registering'
  BY <1>1, <1>2, <1>3 DEF ListIInv, Registering
<1> QED BY <1>1, <1>4, <1>5 DEF ListIInv, Calling

LEMMA RegWalkKeeps == ASSUME ListIInv, I!RegWalk PROVE ListIInv'
<1> DEFINE v == I!Vector(h_reg)
<1>1. /\ reg = "walk" /\ isr = "none" /\ next[elem] # NULL
      /\ elem' = next[elem]
      /\ UNCHANGED <<int_handlers, next, reg, h_reg, order, isr, asserted>>
  BY DEF I!RegWalk, I!AtEnd, I!isrVars, I!devVars
<1>2. v \in I!Vectors
  BY <1>1 DEF ListIInv, Registering
<1>3. PICK k \in 1 .. Len(order[v]) : elem = order[v][k]
  BY <1>1 DEF ListIInv, Registering
<1>4. k + 1 \in 1 .. Len(order[v]) /\ elem' = order[v][k + 1]
  BY <1>1, <1>2, <1>3, ListOf DEF ListIInv
<1>5. Stored' /\ OwnVector'
  BY <1>1 DEF ListIInv, Stored, I!ListIsOrder, OwnVector
<1>6. Registering'
  BY <1>1, <1>2, <1>4 DEF ListIInv, Registering
<1> QED BY <1>1, <1>5, <1>6 DEF ListIInv, Calling

\* The last handler of the list is linked to the new one.
LEMMA RegLinkKeeps == ASSUME ListIInv, I!RegLink PROVE ListIInv'
<1> DEFINE v == I!Vector(h_reg)
<1>1. /\ reg = "walk" /\ isr = "none" /\ next[elem] = NULL /\ I!Registration
      /\ next' = [next EXCEPT ![elem] = h_reg]
      /\ int_handlers' = int_handlers /\ isr' = isr
  BY DEF I!RegLink, I!AtEnd, I!isrVars
<1>2. /\ h_reg \in I!Handlers /\ v \in I!Vectors /\ next[h_reg] = NULL
      /\ \A k \in 1 .. Len(order[v]) : order[v][k] # h_reg
  BY <1>1 DEF ListIInv, Registering
<1>3. PICK k \in 1 .. Len(order[v]) : elem = order[v][k]
  BY <1>1 DEF ListIInv, Registering
<1>4. elem \in I!Handlers /\ elem # h_reg /\ k = Len(order[v])
  BY <1>1, <1>2, <1>3, ListOf DEF ListIInv
<1>5. /\ next' \in [I!Handlers -> I!Handlers \cup {NULL}]
      /\ next'[h_reg] = NULL
      /\ \A h \in I!Handlers : next'[h] = IF h = elem THEN h_reg ELSE next[h]
  BY <1>1, <1>2, <1>4 DEF ListIInv, Stored
<1>6. ASSUME NEW n \in I!Vectors \ {v}, NEW j \in 1 .. Len(order[n])
      PROVE  next'[order[n][j]] = next[order[n][j]]
  <2>1. I!Vector(order[n][j]) = n /\ I!Vector(elem) = v
    BY <1>2, <1>3 DEF ListIInv, OwnVector
  <2>2. order[n][j] \in I!Handlers
    BY ListOf DEF ListIInv
  <2> QED BY <1>5, <2>1, <2>2
<1>7. ASSUME NEW j \in 1 .. Len(order[v])
      PROVE  next'[order[v][j]] = IF j = Len(order[v]) THEN h_reg ELSE next[order[v][j]]
  BY <1>2, <1>3, <1>4, <1>5, ListOf DEF ListIInv
<1>8. int_handlers' \in [I!Vectors -> I!Handlers \cup {NULL}] /\ Len(order[v]) # 0
  BY <1>1, <1>2, <1>3 DEF ListIInv, Stored
<1> HIDE DEF v
<1> QED BY <1>1, <1>2, <1>5, <1>6, <1>7, <1>8, Extended DEF v

-----------------------------------------------------------------------------
(* The interrupts                                                          *)

\* What the lists consist of, when a step leaves it alone.
ListVars == <<int_handlers, next, order, reg, h_reg, elem>>

LEMMA ListsUnchanged ==
  ASSUME ListIInv, UNCHANGED ListVars
  PROVE  Stored' /\ OwnVector' /\ Registering'
BY DEF ListIInv, ListVars, Stored, I!ListIsOrder, OwnVector, Registering

\* An interrupt begins with the head of its list.
LEMMA InterruptKeeps ==
  ASSUME ListIInv, NEW n \in I!Vectors, I!Interrupt(n) PROVE ListIInv'
<1>1. /\ int_handlers[n] # NULL /\ isr' = "call" /\ int_n' = n
      /\ curr' = int_handlers[n] /\ called' = <<>>
      /\ due' = asserted \cap I!Listed(n)
      /\ UNCHANGED ListVars /\ asserted' = asserted
  BY DEF I!Interrupt, I!mainVars, I!devVars, ListVars
<1>2. Len(order[n]) \in Nat \ {0} /\ curr' = order[n][1]
  BY <1>1, ListOf DEF ListIInv
<1>3. I!Listed(n)' = I!Listed(n)
  BY <1>1 DEF I!Listed, ListVars
<1>4. called' \in Seq(I!Handlers) /\ Len(called') = 0
  BY <1>1
<1>5. Calling'
  BY <1>1, <1>2, <1>3, <1>4 DEF Calling, ListVars
<1> QED BY <1>1, <1>5, ListsUnchanged DEF ListIInv

\* A handler that passes an interrupt on was not due, as its device does not
\* assert the line.
LEMMA PassOnKeeps == ASSUME ListIInv, I!PassOn PROVE ListIInv'
<1>1. /\ isr = "call" /\ curr \notin asserted /\ next[curr] # NULL
      /\ called' = Append(called, curr) /\ curr' = next[curr]
      /\ UNCHANGED <<ListVars, isr, int_n, due, asserted>>
  BY DEF I!PassOn, I!Claims, I!mainVars, I!devVars, ListVars
<1> DEFINE o == order[int_n]
<1>2. /\ int_n \in I!Vectors /\ called \in Seq(I!Handlers) /\ o \in Seq(I!Handlers)
      /\ Len(called) < Len(o) /\ curr = o[Len(called) + 1]
  BY <1>1, ListOf DEF ListIInv, Calling
<1>3. curr \in I!Handlers /\ Len(called) + 1 < Len(o) /\ curr' = o[Len(called) + 2]
  BY <1>1, <1>2, ListOf DEF ListIInv
<1>4. /\ called' \in Seq(I!Handlers) /\ Len(called') = Len(called) + 1
      /\ \A k \in 1 .. Len(called) : called'[k] = called[k]
      /\ called'[Len(called) + 1] = curr
  BY <1>1, <1>2, <1>3
<1>5. /\ \A k \in 1 .. Len(called') : called'[k] = o[k]
      /\ \A k \in 1 .. Len(called') : called'[k] \notin due
  BY <1>1, <1>2, <1>4 DEF ListIInv, Calling
<1>6. I!Listed(int_n)' = I!Listed(int_n) /\ order' = order
  BY <1>1 DEF I!Listed, ListVars
<1>7. Calling'
  BY <1>1, <1>2, <1>3, <1>4, <1>5, <1>6 DEF ListIInv, Calling
<1> QED BY <1>1, <1>7, ListsUnchanged DEF ListIInv

\* The end of an interrupt.
LEMMA ServedKeeps ==
  ASSUME ListIInv, I!Claim \/ I!NotHandled PROVE ListIInv'
<1>1. isr' = "none" /\ UNCHANGED ListVars
  BY DEF I!Claim, I!NotHandled, I!Served, I!mainVars, I!devVars, ListVars
<1> QED BY <1>1, ListsUnchanged DEF ListIInv, Calling

\* A device that asserts its line during an interrupt is not due in it.
LEMMA RaiseKeeps ==
  ASSUME ListIInv, NEW d \in Devices, I!Raise(d) PROVE ListIInv'
<1>1. /\ asserted' = asserted \cup {d}
      /\ UNCHANGED <<ListVars, isr, int_n, curr, called, due>>
  BY DEF I!Raise, I!mainVars, I!isrVars, ListVars
<1>2. I!Listed(int_n)' = I!Listed(int_n) /\ order' = order
  BY <1>1 DEF I!Listed, ListVars
<1>3. Calling'
  BY <1>1, <1>2 DEF ListIInv, Calling
<1> QED BY <1>1, <1>3, ListsUnchanged DEF ListIInv

\* The inductive invariant of the handler lists.
THEOREM ListInvariance == InterruptsSpec => []ListIInv
<1>1. ListIInv /\ [InterruptsNext]_allVars => ListIInv'
  <2> SUFFICES ASSUME ListIInv, [InterruptsNext]_allVars PROVE ListIInv'
    OBVIOUS
  <2>1. CASE Registers
    <3>1. ASSUME NEW h \in I!Handlers, I!RegIgnored(h) PROVE ListIInv'
      <4>1. UNCHANGED <<ListVars, isr, int_n, curr, called, due, asserted>>
        BY <3>1 DEF I!RegIgnored, I!vars, I!mainVars, I!isrVars, I!devVars, ListVars
      <4>2. I!Listed(int_n)' = I!Listed(int_n) /\ order' = order
        BY <4>1 DEF I!Listed, ListVars
      <4> QED BY <4>1, <4>2, ListsUnchanged DEF ListIInv, Calling
    <3>2. ASSUME NEW h \in I!Handlers, I!RegCall(h) PROVE ListIInv'
      BY <3>2, RegCallKeeps
    <3> QED BY <2>1, <3>1, <3>2, RegFirstKeeps, RegHeadKeeps, RegWalkKeeps,
               RegLinkKeeps DEF Registers, I!RegStep
  <2>2. CASE \E n \in I!Vectors : Enters(n)
    BY <2>2, InterruptKeeps DEF Enters
  <2>3. CASE CallsHandler
    BY <2>3, PassOnKeeps, ServedKeeps DEF CallsHandler, I!Dispatch
  <2>4. CASE \E d \in Devices : Asserts(d)
    BY <2>4, RaiseKeeps DEF Asserts
  <2>5. CASE Sleeps \/ Goes \/ (\E n \in I!Vectors : Unhandled(n)) \/ UNCHANGED allVars
    <3>1. UNCHANGED <<ListVars, isr, int_n, curr, called, due, asserted>>
      BY <2>5 DEF Sleeps, Goes, Unhandled, I!NoHandler, I!vars, I!mainVars,
         I!isrVars, I!devVars, allVars, idtVars, ListVars
    <3>2. I!Listed(int_n)' = I!Listed(int_n) /\ order' = order
      BY <3>1 DEF I!Listed, ListVars
    <3> QED BY <3>1, <3>2, ListsUnchanged DEF ListIInv, Calling
  <2> QED BY <2>1, <2>2, <2>3, <2>4, <2>5 DEF InterruptsNext
<1> QED BY <1>1, InitLists, PTL DEF InterruptsSpec

\* The lists hold what was registered, in order, in every state of a
\* registration, and idt_common_isr calls their handlers in that order, for any
\* number of devices on any lines.
THEOREM ListsSound == InterruptsSpec => []ListsInOrder
<1>1. ListIInv => ListsInOrder
  <2> SUFFICES ASSUME ListIInv PROVE ListsInOrder
    OBVIOUS
  <2>1. I!ListIsOrder
    BY DEF ListIInv, Stored
  <2>2. I!CalledInOrder
    <3> SUFFICES ASSUME isr = "call"
                 PROVE  /\ Len(called) < Len(order[int_n])
                        /\ Append(called, curr) = SubSeq(order[int_n], 1, Len(called) + 1)
      BY DEF I!CalledInOrder
    <3> DEFINE o == order[int_n]
    <3>1. /\ int_n \in I!Vectors /\ called \in Seq(I!Handlers)
          /\ Len(called) < Len(o) /\ curr = o[Len(called) + 1]
          /\ \A k \in 1 .. Len(called) : called[k] = o[k]
      BY DEF ListIInv, Calling
    <3>2. o \in Seq(I!Handlers) /\ curr \in I!Handlers
      BY <3>1, ListOf DEF ListIInv
    <3> DEFINE a == Append(called, curr)
               b == SubSeq(o, 1, Len(called) + 1)
    <3>3. a \in Seq(I!Handlers) /\ Len(a) = Len(called) + 1
      BY <3>1, <3>2
    <3>4. b \in Seq(I!Handlers) /\ Len(b) = Len(called) + 1
      BY <3>1, <3>2
    <3>5. \A k \in 1 .. Len(called) + 1 : a[k] = b[k]
      BY <3>1, <3>2
    <3>6. a = b
      BY <3>3, <3>4, <3>5
    <3> QED BY <3>1, <3>6
  <2> QED BY <2>1, <2>2 DEF ListsInOrder
<1> QED BY <1>1, ListInvariance, PTL

\* No interrupt of a registered device is reported as not handled, for any
\* number of devices that share its line, whatever they assert meanwhile.
THEOREM EveryInterruptHandled == InterruptsSpec => NoFalseAlarm
<1>1. ListIInv /\ [InterruptsNext]_allVars =>
        [(isr = "call" /\ isr' = "none" /\ asserted' = asserted) => due = {}]_allVars
  <2> SUFFICES ASSUME ListIInv, InterruptsNext, isr = "call", isr' = "none",
                      asserted' = asserted
               PROVE  due = {}
    OBVIOUS
  <2>1. I!Dispatch
    BY DEF InterruptsNext, Registers, Sleeps, Goes, Enters, Unhandled, CallsHandler,
       Asserts, I!RegIgnored, I!RegCall, I!MayRegister, I!RegStep, I!RegFirst,
       I!RegHead, I!RegWalk, I!RegLink, I!Interrupt, I!NoHandler, I!Raise, I!isrVars
  <2>2. I!NotHandled
    BY <2>1 DEF I!Dispatch, I!Claim, I!Claims, I!PassOn
  <2> DEFINE o == order[int_n]
  <2>3. /\ int_n \in I!Vectors /\ called \in Seq(I!Handlers)
        /\ Len(called) < Len(o) /\ curr = o[Len(called) + 1]
        /\ \A k \in 1 .. Len(called) : called[k] = o[k] /\ called[k] \notin due
        /\ due \subseteq asserted /\ due \subseteq I!Listed(int_n)
    BY DEF ListIInv, Calling
  <2>4. next[curr] = NULL /\ curr \notin due
    BY <2>2, <2>3 DEF I!NotHandled, I!Claims
  <2>5. Len(o) = Len(called) + 1
    BY <2>3, <2>4, ListOf DEF ListIInv
  <2>6. ASSUME NEW h \in due PROVE FALSE
    <3>1. PICK k \in 1 .. Len(o) : h = o[k]
      BY <2>3, ListedInOrder DEF ListIInv
    <3> QED BY <2>3, <2>4, <2>5, <3>1
  <2> QED BY <2>6
<1> QED BY <1>1, ListInvariance, PTL DEF InterruptsSpec, NoFalseAlarm

-----------------------------------------------------------------------------
(* Types                                                                   *)

\* What the types need besides the lists.
OtherTypes ==
  /\ asserted \subseteq Devices
  /\ raises \in [Devices -> 0 .. MaxRaises]
  /\ isr = "none" => due = {} /\ called = <<>>
  /\ pc = "run" \/ reg = "idle"

\* Sleep and registration keep out of each other's way: the main program is one
\* thread, and an interrupt leaves it where it was.
LEMMA OtherTypesKept ==
  ASSUME ListIInv, OtherTypes, [InterruptsNext]_allVars PROVE OtherTypes'
<1> USE DEF OtherTypes
<1>1. CASE Registers
  <2>1. pc' = pc /\ pc = "run" /\ UNCHANGED <<asserted, raises, isr, due, called>>
    BY <1>1 DEF Registers, vars, I!RegIgnored, I!RegCall, I!RegStep, I!RegFirst,
       I!RegHead, I!RegWalk, I!RegLink, I!vars, I!isrVars, I!devVars
  <2> QED BY <2>1
<1>2. CASE Sleeps
  BY <1>2 DEF Sleeps, idtVars
<1>3. CASE Goes
  BY <1>3 DEF Goes, Sleeper, Look, Return, Halt, idtVars
<1>4. ASSUME NEW n \in I!Vectors, Enters(n) PROVE OtherTypes'
  BY <1>4 DEF Enters, OtherInterrupt, Woken, I!Interrupt, I!mainVars, I!devVars
<1>5. ASSUME NEW n \in I!Vectors, Unhandled(n) PROVE OtherTypes'
  BY <1>5 DEF Unhandled, OtherInterrupt, Woken, I!NoHandler, I!vars, I!mainVars,
     I!isrVars, I!devVars
<1>6. CASE CallsHandler
  <2>1. pc' = pc \/ pc' = Woken(pc)
    BY <1>6 DEF CallsHandler, pit_timer_isr, vars
  <2>2. I!Dispatch /\ reg' = reg /\ raises' = raises /\ asserted' \subseteq asserted
    BY <1>6 DEF CallsHandler, I!Dispatch, I!Claim, I!PassOn, I!NotHandled,
       I!mainVars, I!devVars
  <2>3. isr' = "none" => due' = {} /\ called' = <<>>
    BY <2>2 DEF I!Dispatch, I!Claim, I!PassOn, I!NotHandled, I!Served
  <2> QED BY <2>1, <2>2, <2>3 DEF Woken
<1>7. ASSUME NEW d \in Devices, Asserts(d) PROVE OtherTypes'
  BY <1>7 DEF Asserts, vars, I!Raise, I!mainVars, I!isrVars
<1>8. CASE UNCHANGED allVars
  BY <1>8 DEF allVars, vars, idtVars
<1> QED BY <1>1, <1>2, <1>3, <1>4, <1>5, <1>6, <1>7, <1>8 DEF InterruptsNext

\* Timer and lists keep their types, and the main program never sleeps in the
\* middle of a registration.
THEOREM TypesCorrect == InterruptsSpec => []TypesOK
<1>1. InterruptsInit => OtherTypes
  BY DEF InterruptsInit, I!Init, Init, OtherTypes
<1>2. InterruptsSpec => []OtherTypes
  BY <1>1, OtherTypesKept, ListInvariance, PTL DEF InterruptsSpec
<1>3. ListIInv /\ OtherTypes => I!TypeOK
  <2> SUFFICES ASSUME ListIInv, OtherTypes PROVE I!TypeOK
    OBVIOUS
  <2>1. reg = "walk" => elem \in I!Handlers
    BY ListOf DEF ListIInv, Registering
  <2>2. ASSUME isr = "call"
        PROVE  curr \in I!Handlers /\ int_n \in I!Vectors /\ due \subseteq Devices
    <3>1. /\ int_n \in I!Vectors /\ called \in Seq(I!Handlers)
          /\ Len(called) < Len(order[int_n]) /\ curr = order[int_n][Len(called) + 1]
          /\ due \subseteq asserted
      BY <2>2 DEF ListIInv, Calling
    <3>2. Len(called) + 1 \in 1 .. Len(order[int_n])
      BY <3>1, ListOf DEF ListIInv
    <3> QED BY <3>1, <3>2, ListOf DEF ListIInv, OtherTypes
  <2>3. called \in Seq(I!Handlers) /\ due \subseteq Devices
    <3>1. CASE isr = "call"
      BY <2>2, <3>1 DEF ListIInv, Calling
    <3>2. CASE isr = "none"
      <4>1. called = <<>> /\ due = {}
        BY <3>2 DEF OtherTypes
      <4> QED BY <4>1
    <3> QED BY <3>1, <3>2 DEF ListIInv
  <2> QED BY <2>1, <2>2, <2>3 DEF ListIInv, Stored, Registering, OtherTypes, I!TypeOK
<1>4. Spec => []TypeOK
  <2>1. IInv => TypeOK
    BY DEF IInv
  <2> QED BY <2>1, Invariance, PTL
<1>5. TypeOK /\ I!TypeOK /\ OtherTypes => TypesOK
  BY DEF TypesOK, OtherTypes
<1> QED BY <1>2, <1>3, <1>4, <1>5, ListInvariance, PitKept, PTL

-----------------------------------------------------------------------------
(* Behind SleepEnds and DeviceServed: an interrupt comes to its end, and a *)
(* sleep comes nearer to its own                                           *)

\* How many handlers of its list an interrupt may still call.
CallsLeft == Len(order[int_n]) - Len(called)

\* While an interrupt is under way only its handlers run and devices assert their
\* lines, and every call but the last leaves fewer handlers to call: whoever shares
\* the line, idt_common_isr returns after as many calls as its list is long.
THEOREM DispatchEnds ==
  InterruptsSpec =>
    [][isr = "call" =>
         /\ CallsLeft \in Nat \ {0}
         /\ \/ CallsHandler /\ (isr' = "none" \/ CallsLeft' < CallsLeft)
            \/ (\E d \in Devices : Asserts(d)) /\ UNCHANGED <<isr, int_n, CallsLeft>>]_allVars
<1> DEFINE Ends == /\ CallsLeft \in Nat \ {0}
                   /\ \/ CallsHandler /\ (isr' = "none" \/ CallsLeft' < CallsLeft)
                      \/ (\E d \in Devices : Asserts(d)) /\ UNCHANGED <<isr, int_n, CallsLeft>>
<1>1. ASSUME ListIInv, InterruptsNext, isr = "call" PROVE Ends
  <2>1. /\ int_n \in I!Vectors /\ called \in Seq(I!Handlers) /\ order[int_n] \in Seq(I!Handlers)
        /\ Len(called) < Len(order[int_n]) /\ curr = order[int_n][Len(called) + 1]
    BY <1>1, ListOf DEF ListIInv, Calling
  <2>2. Len(called) \in Nat /\ Len(order[int_n]) \in Nat /\ CallsLeft \in Nat \ {0}
    BY <2>1 DEF CallsLeft
  <2>3. CASE CallsHandler
    <3>1. CASE I!Claim \/ I!NotHandled
      BY <2>2, <2>3, <3>1 DEF I!Claim, I!NotHandled, I!Served
    <3>2. CASE I!PassOn
      <4>1. called' = Append(called, curr) /\ UNCHANGED <<order, int_n>>
        BY <3>2 DEF I!PassOn, I!mainVars
      <4>2. Len(called') = Len(called) + 1
        BY <2>1, <4>1
      <4>3. CallsLeft' = Len(order[int_n]) - Len(called')
        BY <4>1 DEF CallsLeft
      <4> QED BY <2>2, <2>3, <4>2, <4>3 DEF CallsLeft
    <3> QED BY <2>3, <3>1, <3>2 DEF CallsHandler, I!Dispatch
  <2>4. ASSUME NEW d \in Devices, Asserts(d) PROVE Ends
    <3>1. UNCHANGED <<isr, int_n, called, order>>
      BY <2>4 DEF Asserts, I!Raise, I!mainVars, I!isrVars
    <3> QED BY <2>2, <2>4, <3>1 DEF CallsLeft
  <2>5. CallsHandler \/ \E d \in Devices : Asserts(d)
    BY <1>1 DEF InterruptsNext, Registers, Sleeps, Goes, Enters, Unhandled, I!RegIgnored,
       I!RegCall, I!MayRegister, I!RegStep, I!RegFirst, I!RegHead, I!RegWalk, I!RegLink,
       I!Interrupt, I!NoHandler
  <2> QED BY <2>3, <2>4, <2>5
<1> HIDE DEF Ends
<1>2. ListIInv /\ [InterruptsNext]_allVars => [isr = "call" => Ends]_allVars
  BY <1>1
<1>3. InterruptsSpec => [][isr = "call" => Ends]_allVars
  BY <1>2, ListInvariance, PTL DEF InterruptsSpec
<1> QED BY <1>3 DEF Ends

\* How far sleep is from its return once the time is up.
Distance ==
  CASE pc = "run" -> 0 [] pc = "look" -> 1 [] pc = "halted" -> 2 [] pc = "hlt" -> 3

\* While sleep waits, nobody raises its counter and every call of the timer's
\* handler lowers it; once it is 0, nothing takes the loop further from its end,
\* and the main program's own steps and the interrupt that ends a halt take it
\* nearer, wherever in the loop the last tick found it.
THEOREM SleepWindsDown ==
  InterruptsSpec =>
    [][pc # "run" =>
         /\ timer_ms_left' <= timer_ms_left
         /\ CallsHandler /\ curr \in Timers /\ timer_ms_left # 0 => timer_ms_left' < timer_ms_left
         /\ timer_ms_left = 0 =>
              /\ Distance' <= Distance
              /\ Goes => Distance' < Distance
              /\ (\E n \in I!Vectors : Enters(n)) /\ pc = "halted" => Distance' < Distance]_allVars
<1> DEFINE Down == /\ timer_ms_left' <= timer_ms_left
                   /\ CallsHandler /\ curr \in Timers /\ timer_ms_left # 0 =>
                        timer_ms_left' < timer_ms_left
                   /\ timer_ms_left = 0 =>
                        /\ Distance' <= Distance
                        /\ Goes => Distance' < Distance
                        /\ (\E n \in I!Vectors : Enters(n)) /\ pc = "halted" =>
                             Distance' < Distance
<1>1. ASSUME IInv, InterruptsNext, pc # "run" PROVE Down
  <2>1. timer_ms_left \in Nat /\ pc \in {"look", "hlt", "halted"}
    BY <1>1, DelayAssumption DEF IInv, TypeOK
  <2>2. CASE Goes
    <3>1. isr = "none" /\ UNCHANGED <<isr, timer_ms_left>>
      BY <2>2 DEF Goes, Sleeper, Look, Return, Halt, idtVars
    <3>2. ~CallsHandler
      BY <3>1 DEF CallsHandler, I!Dispatch, I!Claim, I!PassOn, I!NotHandled
    <3>3. timer_ms_left = 0 => Distance' < Distance
      BY <2>2 DEF Goes, Sleeper, Look, Return, Halt, Distance
    <3>4. timer_ms_left = 0 => Distance' <= Distance
      BY <2>1, <2>2 DEF Goes, Sleeper, Look, Return, Halt, Distance
    <3> QED BY <2>1, <3>1, <3>2, <3>3, <3>4
  <2>3. CASE (\E n \in I!Vectors : Enters(n) \/ Unhandled(n))
    <3>1. isr = "none" /\ OtherInterrupt
      BY <2>3 DEF Enters, Unhandled, I!Interrupt, I!NoHandler
    <3>2. ~CallsHandler
      BY <3>1 DEF CallsHandler, I!Dispatch, I!Claim, I!PassOn, I!NotHandled
    <3>3. ~Goes
      BY <2>1, <3>1 DEF Goes, Sleeper, Look, Return, Halt, OtherInterrupt, Woken
    <3>4. Distance' <= Distance /\ (pc = "halted" => Distance' < Distance)
      BY <2>1, <3>1 DEF OtherInterrupt, Woken, Distance
    <3> QED BY <2>1, <3>1, <3>2, <3>3, <3>4 DEF OtherInterrupt
  <2>4. CASE CallsHandler
    <3>1. isr = "call"
      BY <2>4 DEF CallsHandler, I!Dispatch, I!Claim, I!PassOn, I!NotHandled
    <3>2. ~Goes /\ ~(\E n \in I!Vectors : Enters(n))
      BY <3>1 DEF Goes, Enters, I!Interrupt
    <3>3. CASE curr \in Timers
      <4>1. pit_timer_isr
        BY <2>4, <3>3 DEF CallsHandler
      <4>2. timer_ms_left' <= timer_ms_left /\ (timer_ms_left # 0 => timer_ms_left' < timer_ms_left)
        BY <2>1, <4>1 DEF pit_timer_isr, Decrement
      <4>3. Distance' <= Distance
        BY <2>1, <4>1 DEF pit_timer_isr, Woken, Distance
      <4> QED BY <3>2, <4>2, <4>3
    <3>4. CASE curr \notin Timers
      <4>1. UNCHANGED <<timer_ms_left, pc>>
        BY <2>4, <3>4 DEF CallsHandler, vars
      <4>2. Distance' = Distance /\ Distance <= Distance
        BY <2>1, <4>1 DEF Distance
      <4> QED BY <2>1, <3>2, <3>4, <4>1, <4>2
    <3> QED BY <3>3, <3>4
  <2>5. CASE \E d \in Devices : Asserts(d)
    <3>1. UNCHANGED <<timer_ms_left, pc, isr>> /\ \E d \in Devices : d \notin asserted /\ d \in asserted'
      BY <2>5 DEF Asserts, vars, I!Raise, I!isrVars
    <3>2. ~CallsHandler /\ ~Goes /\ ~(\E n \in I!Vectors : Enters(n))
      BY <3>1 DEF CallsHandler, Goes, Enters, I!Dispatch, I!Claim, I!PassOn, I!NotHandled,
         I!Interrupt, I!devVars, idtVars
    <3>3. Distance' = Distance /\ Distance <= Distance
      BY <2>1, <3>1 DEF Distance
    <3> QED BY <2>1, <3>1, <3>2, <3>3
  <2>6. ~Registers /\ ~Sleeps
    BY <1>1 DEF Registers, Sleeps, CallSleep
  <2> QED BY <1>1, <2>2, <2>3, <2>4, <2>5, <2>6 DEF InterruptsNext
<1> HIDE DEF Down
<1>2. IInv /\ [InterruptsNext]_allVars => [pc # "run" => Down]_allVars
  BY <1>1
<1>3. InterruptsSpec => [][pc # "run" => Down]_allVars
  BY <1>2, Invariance, PitKept, PTL DEF InterruptsSpec
<1> QED BY <1>3 DEF Down
=============================================================================
