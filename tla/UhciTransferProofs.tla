------------------------- MODULE UhciTransferProofs -------------------------
(***************************************************************************)
(* Theorems about UhciTransfer, for every number of cells and entries and  *)
(* every length of the chains, with devices that answer or fail before the *)
(* status stage. (A failed status stage is the finding on QelpIsElement.)  *)
(* The invariant follows a transfer through its phases: not yet linked,    *)
(* running, moving on to the next descriptor, finished or stuck.           *)
(***************************************************************************)
EXTENDS UhciTransfer, TLAPS

\* Only a chain that has been created is in memory, linked as it was built.
Descriptors ==
  /\ pc = "idle" => DOMAIN td = {}
  /\ pc # "idle" =>
       /\ chain \in [first : 1 .. Slots, last : 1 .. Slots] /\ chain.first < chain.last
       /\ td \in [Mine -> [active : BOOLEAN, failed : BOOLEAN,
                           link : 0 .. Slots, ioc : BOOLEAN]]
       /\ \A i \in Mine : td[i].link = link(chain, i) /\ td[i].ioc = ioc(chain, i)

\* The entry of the transfer, and the list it is on.
Entry ==
  /\ pc \in {"idle", "free"} => DOMAIN te = {}
  /\ pc \notin {"idle", "free"} =>
       mine \in Entries /\ DOMAIN te = {mine} /\ te[mine] = chain
  /\ pending_queue = IF pc = "link" \/ (Scheduled /\ ~done) THEN <<mine>> ELSE <<>>
  /\ pc \in {"append", "link"} => endptr = TERM

\* The first n descriptors are done with: those before position k.
Served(k) == \A i \in Mine : td[i].active <=> i >= k

Quiet == qelp = TERM /\ hpc = "run" /\ frame = {} /\ usbsts = {} /\ ipc = "none"

Running ==
  /\ hpc = "run" /\ qelp \in Mine /\ Served(qelp)
  /\ frame = {} /\ usbsts = {} /\ ipc = "none" /\ ~done

Moving ==
  /\ hpc = "advance" /\ qelp \in Mine /\ Served(qelp + 1) /\ hlink = link(chain, qelp)
  /\ frame = (IF qelp = chain.last THEN {"USBINT"} ELSE {})
  /\ usbsts = {} /\ ipc = "none" /\ ~done

\* The completion is to be reported, has been, or has been taken.
Finished ==
  /\ hpc = "run" /\ qelp = TERM /\ Served(chain.last + 1)
  /\ \/ ~done /\ frame = {"USBINT"} /\ usbsts = {} /\ ipc = "none"
     \/ ~done /\ frame = {} /\ usbsts # {} /\ (ipc = "none" \/ rest = <<mine>>)
     \/ done /\ frame = {} /\ rest = <<>> /\ (ipc = "none" => usbsts = {})

Stuck ==
  /\ hpc = "run" /\ qelp \in Mine /\ qelp # chain.last /\ Served(qelp + 1) /\ ~done
  /\ td[qelp].failed

Phase ==
  /\ pc = "idle" => Quiet
  /\ pc \in {"read", "append", "link"} => Quiet /\ Served(chain.first) /\ ~done
  /\ Scheduled => Running \/ Moving \/ Finished \/ Stuck
  /\ pc = "free" => Quiet /\ Served(chain.last + 1) /\ done

\* uhci_isr has at most this transfer's entry ahead of it.
Handler ==
  /\ ipc = "scan" => Scheduled
  /\ ipc = "none" => rest = <<>> /\ kept = <<>>
  /\ rest \in {<<>>, <<mine>>} /\ (rest # <<>> => kept = <<>> /\ ipc = "scan")

IInv == TypeOK /\ Descriptors /\ Entry /\ Phase /\ Handler

EarlyAssumption == Fails \subseteq {"early"}

USE TransferAssumption DEF TERM

-----------------------------------------------------------------------------
(* The driver                                                              *)

LEMMA InitIInv == Init => IInv
<1> SUFFICES ASSUME Init PROVE IInv
  OBVIOUS
<1>1. /\ td = <<>> /\ te = <<>> /\ pending_queue = <<>> /\ rest = <<>> /\ kept = <<>>
      /\ qelp = TERM /\ pc = "idle" /\ mine = NULL /\ endptr = TERM /\ done = FALSE
      /\ chain = [first |-> TERM, last |-> TERM] /\ ipc = "none"
      /\ hpc = "run" /\ hlink = TERM /\ frame = {} /\ usbsts = {}
  BY DEF Init
<1>2. DOMAIN td = {} /\ DOMAIN te = {}
  BY <1>1
<1>3. TypeOK
  <2>1. <<>> \in Seq(Entries)
    OBVIOUS
  <2>2. [first |-> TERM, last |-> TERM] \in [first : 0 .. Slots, last : 0 .. Slots]
    OBVIOUS
  <2> QED BY <1>1, <1>2, <2>1, <2>2 DEF TypeOK
<1>4. Descriptors
  BY <1>1, <1>2 DEF Descriptors
<1>5. Entry
  BY <1>1, <1>2 DEF Entry, Scheduled
<1>6. Phase
  BY <1>1 DEF Phase, Quiet, Scheduled
<1>7. Handler
  BY <1>1 DEF Handler
<1> QED BY <1>3, <1>4, <1>5, <1>6, <1>7 DEF IInv

\* The new chain is active and linked, and nothing else is in memory.
LEMMA CreateKeeps ==
  ASSUME IInv, NEW n \in Lengths, NEW a \in 1 .. Slots, NEW e \in Entries,
         Create(n, a, e)
  PROVE  IInv'
<1> DEFINE c == [first |-> a, last |-> a + n - 1]
<1>1. /\ ipc = "none" /\ pc = "idle" /\ pc' = "read" /\ mine' = e /\ chain' = c
      /\ done' = FALSE
      /\ td' = [i \in DOMAIN td \cup c.first .. c.last |->
                  IF i \in DOMAIN td THEN td[i]
                  ELSE [active |-> TRUE, failed |-> FALSE,
                        link |-> link(c, i), ioc |-> ioc(c, i)]]
      /\ te' = [x \in DOMAIN te \cup {e} |-> IF x = e THEN c ELSE te[x]]
      /\ UNCHANGED <<pending_queue, qelp, endptr, ipc, rest, kept, hpc, hlink, frame, usbsts>>
      /\ c.first .. c.last \subseteq 1 .. Slots
  BY DEF Create, Driving, queue, isr, hc
<1>2. n \in Nat \ {0, 1} /\ c.last \in 1 .. Slots /\ c.first < c.last
  <2>1. n \in Nat \ {0, 1}
    OBVIOUS
  <2>2. a + n - 1 \in c.first .. c.last
    BY <2>1
  <2> QED BY <1>1, <2>1, <2>2
<1>3. /\ td' = [i \in a .. a + n - 1 |->
                  [active |-> TRUE, failed |-> FALSE,
                   link |-> link(c, i), ioc |-> ioc(c, i)]]
      /\ DOMAIN te' = {e} /\ te'[e] = c
  BY <1>1 DEF IInv, Descriptors, Entry
<1>4. chain' = [first |-> a, last |-> a + n - 1]
  BY <1>1
<1>5. Mine' = a .. a + n - 1
  BY <1>4 DEF Mine
<1>6. \A i \in a .. a + n - 1 : link(c, i) \in 0 .. Slots /\ ioc(c, i) \in BOOLEAN
  BY <1>2 DEF link, ioc
<1>7. Descriptors'
  <2>1. chain' \in [first : 1 .. Slots, last : 1 .. Slots] /\ chain'.first < chain'.last
    BY <1>2, <1>4
  <2>2. td' \in [Mine' -> [active : BOOLEAN, failed : BOOLEAN,
                           link : 0 .. Slots, ioc : BOOLEAN]]
    BY <1>3, <1>5, <1>6
  <2>3. \A i \in Mine' : td'[i].link = link(c, i) /\ td'[i].ioc = ioc(c, i)
    BY <1>3, <1>5
  <2>4. \A i : link(c, i) = link(chain, i)' /\ ioc(c, i) = ioc(chain, i)'
    BY <1>4 DEF link, ioc
  <2>5. \A i \in Mine' : td'[i].link = link(chain, i)' /\ td'[i].ioc = ioc(chain, i)'
    BY <2>3, <2>4
  <2> QED BY <1>1, <2>1, <2>2, <2>5 DEF Descriptors
<1>8. Entry'
  BY <1>1, <1>3 DEF IInv, Entry, Scheduled
<1>9. Phase'
  BY <1>1, <1>2, <1>3, <1>5 DEF IInv, Phase, Quiet, Served, Scheduled
<1>10. Handler'
  BY <1>1 DEF IInv, Handler, Phase, Quiet
<1>11. TypeOK'
  <2>1. DOMAIN td' \subseteq 1 .. Slots
    BY <1>1, <1>2, <1>3
  <2>2. \A i \in DOMAIN td' : td'[i] \in [active : BOOLEAN, failed : BOOLEAN,
                                          link : 0 .. Slots, ioc : BOOLEAN]
    BY <1>3, <1>6
  <2>3. c \in [first : 1 .. Slots, last : 1 .. Slots]
    BY <1>2
  <2>4. \A x \in DOMAIN te' : te'[x] \in [first : 1 .. Slots, last : 1 .. Slots]
    BY <1>3, <2>3
  <2>5. chain' \in [first : 0 .. Slots, last : 0 .. Slots]
    BY <1>1, <2>3
  <2> QED BY <1>1, <1>3, <2>1, <2>2, <2>4, <2>5 DEF IInv, TypeOK
<1> QED BY <1>7, <1>8, <1>9, <1>10, <1>11 DEF IInv

\* What the steps of one transfer have in common.
LEMMA DescriptorsStay ==
  ASSUME Descriptors, UNCHANGED <<td, chain>>, pc = "idle" <=> pc' = "idle"
  PROVE  Descriptors'
BY DEF Descriptors, Mine, link, ioc

\* The queue is empty when it is read.
LEMMA ReadQelpKeeps == IInv /\ ReadQelp => IInv'
<1> SUFFICES ASSUME IInv, ReadQelp PROVE IInv'
  OBVIOUS
<1>1. /\ pc = "read" /\ pc' = "append" /\ endptr' = qelp
      /\ UNCHANGED <<td, te, pending_queue, qelp, mine, chain, done,
                     ipc, rest, kept, hpc, hlink, frame, usbsts>>
  BY DEF ReadQelp, Driving, heap, queue, isr, hc
<1>2. Descriptors'
  BY <1>1, DescriptorsStay DEF IInv
<1>3. Quiet /\ Quiet'
  BY <1>1 DEF IInv, Phase, Quiet
<1>4. Entry'
  BY <1>1, <1>3 DEF IInv, Entry, Scheduled, Quiet
<1>5. Phase'
  BY <1>1, <1>3 DEF IInv, Phase, Served, Mine, Scheduled
<1>6. Handler'
  BY <1>1 DEF IInv, Handler, Scheduled
<1>7. TypeOK'
  BY <1>1 DEF IInv, TypeOK
<1> QED BY <1>2, <1>4, <1>5, <1>6, <1>7 DEF IInv

\* The entry is the only one on the list.
LEMMA AppendPendingKeeps == IInv /\ AppendPending => IInv'
<1> SUFFICES ASSUME IInv, AppendPending PROVE IInv'
  OBVIOUS
<1>1. /\ pc = "append" /\ pc' = "link" /\ pending_queue' = Append(pending_queue, mine)
      /\ UNCHANGED <<td, te, qelp, mine, chain, endptr, done,
                     ipc, rest, kept, hpc, hlink, frame, usbsts>>
  BY DEF AppendPending, Driving, heap, isr, hc
<1>2. Descriptors'
  BY <1>1, DescriptorsStay DEF IInv
<1>3. pending_queue' = <<mine>> /\ mine \in Entries
  BY <1>1 DEF IInv, Entry, Scheduled
<1>4. Entry'
  BY <1>1, <1>3 DEF IInv, Entry, Scheduled
<1>5. Phase'
  BY <1>1 DEF IInv, Phase, Quiet, Served, Mine, Scheduled
<1>6. Handler'
  BY <1>1 DEF IInv, Handler, Scheduled
<1>7. TypeOK'
  BY <1>1, <1>3 DEF IInv, TypeOK
<1> QED BY <1>2, <1>4, <1>5, <1>6, <1>7 DEF IInv

\* The chain goes on an empty queue head, and the transfer runs.
LEMMA LinkKeeps == IInv /\ Link => IInv'
<1> SUFFICES ASSUME IInv, Link PROVE IInv'
  OBVIOUS
<1>1. /\ pc = "link" /\ pc' = "look" /\ ipc = "none"
      /\ UNCHANGED <<te, pending_queue, mine, chain, endptr, done,
                     ipc, rest, kept, hpc, hlink, frame, usbsts>>
  BY DEF Link, Driving, isr, hc
<1>2. endptr = TERM /\ te[mine] = chain
  BY <1>1 DEF IInv, Entry
<1>3. qelp' = chain.first /\ td' = td
  BY <1>2 DEF Link
<1>4. Descriptors'
  BY <1>1, <1>3, DescriptorsStay DEF IInv
<1>5. chain.first \in Mine /\ chain.first \in 1 .. Slots
  BY <1>1 DEF IInv, Descriptors, Mine
<1>6. Quiet /\ Served(chain.first) /\ ~done
  BY <1>1 DEF IInv, Phase
<1>7. Entry'
  BY <1>1, <1>6 DEF IInv, Entry, Scheduled
<1>8. Running'
  BY <1>1, <1>3, <1>5, <1>6 DEF Running, Quiet, Served, Mine
<1>9. Phase'
  BY <1>1, <1>8 DEF Phase
<1>10. Handler'
  BY <1>1 DEF IInv, Handler, Scheduled
<1>11. TypeOK'
  BY <1>1, <1>3, <1>5 DEF IInv, TypeOK
<1> QED BY <1>4, <1>7, <1>9, <1>10, <1>11 DEF IInv

\* Looking, halting and waking up change nothing but the driver's point.
LEMMA WaitKeeps ==
  ASSUME IInv,
         UNCHANGED <<td, te, pending_queue, qelp, mine, chain, endptr, done,
                     ipc, rest, kept, hpc, hlink, frame, usbsts>>,
         \/ Scheduled /\ Scheduled'
         \/ pc' = pc
  PROVE  IInv'
<1>1. CASE pc' = pc
  <2>1. Descriptors' /\ Entry'
    BY <1>1, DescriptorsStay DEF IInv, Entry, Scheduled
  <2>2. Phase'
    BY <1>1 DEF IInv, Phase, Quiet, Running, Moving, Finished, Stuck, Served, Mine,
                Scheduled, link
  <2>3. Handler' /\ TypeOK'
    BY <1>1 DEF IInv, Handler, Scheduled, TypeOK
  <2> QED BY <2>1, <2>2, <2>3 DEF IInv
<1>2. CASE Scheduled /\ Scheduled'
  <2>1. /\ pc \in {"look", "hlt", "halted"} /\ pc' \in {"look", "hlt", "halted"}
    BY <1>2 DEF Scheduled
  <2>2. Descriptors'
    BY <2>1, DescriptorsStay DEF IInv
  <2>3. Entry'
    BY <2>1 DEF IInv, Entry, Scheduled
  <2>4. Phase'
    <3>1. Running \/ Moving \/ Finished \/ Stuck
      BY <1>2 DEF IInv, Phase
    <3>2. (Running \/ Moving \/ Finished \/ Stuck)'
      BY <3>1 DEF Running, Moving, Finished, Stuck, Served, Mine, link
    <3> QED BY <2>1, <3>2 DEF Phase
  <2>5. Handler' /\ TypeOK'
    BY <2>1 DEF IInv, Handler, Scheduled, TypeOK
  <2> QED BY <2>2, <2>3, <2>4, <2>5 DEF IInv
<1> QED BY <1>1, <1>2

\* The completion was taken, and the queue is empty again.
LEMMA FreeEntryKeeps == IInv /\ FreeEntry => IInv'
<1> SUFFICES ASSUME IInv, FreeEntry PROVE IInv'
  OBVIOUS
<1>1. /\ pc = "look" /\ ipc = "none" /\ done /\ pc' = "free" /\ mine' = NULL
      /\ te' = [x \in DOMAIN te \ {mine} |-> te[x]]
      /\ UNCHANGED <<td, pending_queue, qelp, chain, endptr, done,
                     ipc, rest, kept, hpc, hlink, frame, usbsts>>
  BY DEF FreeEntry, WaitOver, Driving, heap, queue, isr, hc
<1>2. Finished
  BY <1>1 DEF IInv, Phase, Scheduled, Running, Moving, Stuck
<1>3. Quiet /\ Served(chain.last + 1)
  BY <1>1, <1>2 DEF Finished, Quiet
<1>4. Descriptors'
  BY <1>1, DescriptorsStay DEF IInv
<1>5. DOMAIN te' = {} /\ pending_queue = <<>>
  BY <1>1 DEF IInv, Entry, Scheduled
<1>6. Entry'
  BY <1>1, <1>5 DEF Entry, Scheduled
<1>7. Phase'
  BY <1>1, <1>3 DEF Phase, Quiet, Served, Mine, Scheduled
<1>8. Handler'
  BY <1>1 DEF IInv, Handler
<1>9. TypeOK'
  BY <1>1, <1>5 DEF IInv, TypeOK
<1> QED BY <1>4, <1>6, <1>7, <1>8, <1>9 DEF IInv

\* All of the chain is freed, and nothing points to it any more.
LEMMA DeleteKeeps == IInv /\ Delete => IInv'
<1> SUFFICES ASSUME IInv, Delete PROVE IInv'
  OBVIOUS
<1>1. /\ pc = "free" /\ ipc = "none" /\ pc' = "idle" /\ endptr' = TERM
      /\ td' = [i \in DOMAIN td \ Mine |-> td[i]]
      /\ UNCHANGED <<te, pending_queue, qelp, mine, chain, done,
                     ipc, rest, kept, hpc, hlink, frame, usbsts>>
  BY DEF Delete, Driving, queue, isr, hc, Mine
<1>2. DOMAIN td' = {}
  BY <1>1 DEF IInv, Descriptors
<1>3. Descriptors'
  BY <1>1, <1>2 DEF Descriptors
<1>4. Entry'
  BY <1>1 DEF IInv, Entry, Scheduled
<1>5. Phase'
  BY <1>1 DEF IInv, Phase, Quiet, Scheduled
<1>6. Handler'
  BY <1>1 DEF IInv, Handler
<1>7. TypeOK'
  BY <1>1, <1>2 DEF IInv, TypeOK
<1> QED BY <1>3, <1>4, <1>5, <1>6, <1>7 DEF IInv

LEMMA GoHaltKeeps == IInv /\ GoHalt => IInv'
BY WaitKeeps DEF GoHalt, Driving, heap, queue, isr, hc, Scheduled

LEMMA HaltKeeps == IInv /\ Halt => IInv'
BY WaitKeeps DEF Halt, Driving, heap, queue, isr, hc, Scheduled

-----------------------------------------------------------------------------
(* Interrupts                                                              *)

LEMMA OtherInterruptKeeps == IInv /\ OtherInterrupt => IInv'
BY WaitKeeps DEF OtherInterrupt, Woken, heap, queue, isr, hc, Scheduled

\* A status is pending only for a transfer that finished or is stuck.
LEMMA IsrEnterKeeps == IInv /\ IsrEnter => IInv'
<1> SUFFICES ASSUME IInv, IsrEnter PROVE IInv'
  OBVIOUS
<1>1. /\ ipc = "none" /\ usbsts # {}
      /\ ipc' = "scan" /\ rest' = pending_queue /\ kept' = <<>>
      /\ UNCHANGED <<td, te, pending_queue, qelp, pc, mine, chain, endptr, done,
                     hpc, hlink, frame, usbsts>>
  BY DEF IsrEnter, heap, queue, driver, hc
<1>2. Scheduled /\ (Finished \/ Stuck)
  <2>1. ~Quiet
    BY <1>1 DEF Quiet
  <2>2. Scheduled
    BY <2>1 DEF IInv, Phase, TypeOK, Scheduled
  <2> QED BY <1>1, <2>2 DEF IInv, Phase, Running, Moving
<1>3. ~done
  BY <1>1, <1>2 DEF Finished, Stuck
<1>4. pending_queue = <<mine>>
  BY <1>2, <1>3 DEF IInv, Entry
<1>5. Descriptors' /\ Entry'
  BY <1>1, DescriptorsStay DEF IInv, Entry, Scheduled
<1>6. Finished' \/ Stuck'
  BY <1>1, <1>2, <1>3, <1>4 DEF Finished, Stuck, Served, Mine
<1>7. Phase'
  BY <1>1, <1>2, <1>6 DEF Phase, Scheduled
<1>8. Handler'
  BY <1>1, <1>2, <1>4 DEF Handler, Scheduled
<1>9. TypeOK'
  BY <1>1 DEF IInv, TypeOK
<1> QED BY <1>5, <1>7, <1>8, <1>9 DEF IInv

\* The entry of a running uhci_isr's list is this transfer's, and the only one.
LEMMA ScanOne ==
  ASSUME IInv, ipc = "scan", rest # <<>>
  PROVE  /\ rest = <<mine>> /\ kept = <<>> /\ Head(rest) = mine /\ Tail(rest) = <<>>
         /\ Scheduled /\ te[mine] = chain /\ ~done /\ pending_queue = <<mine>>
         /\ mine \in Entries
<1>1. rest = <<mine>> /\ kept = <<>> /\ Scheduled
  BY DEF IInv, Handler
<1>2. Finished \/ Stuck
  BY <1>1 DEF IInv, Phase, Running, Moving
<1>3. ~done
  BY <1>1, <1>2 DEF Finished, Stuck
<1>4. te[mine] = chain /\ pending_queue = <<mine>> /\ mine \in Entries
  BY <1>1, <1>3 DEF IInv, Entry, Scheduled
<1> QED BY <1>1, <1>3, <1>4

\* What it takes has finished.
LEMMA IsrTakeKeeps == IInv /\ IsrTake => IInv'
<1> SUFFICES ASSUME IInv, IsrTake PROVE IInv'
  OBVIOUS
<1>1. ipc = "scan" /\ rest # <<>> /\ complete(Head(rest))
  BY DEF IsrTake
<1>2. /\ rest = <<mine>> /\ kept = <<>> /\ Scheduled /\ te[mine] = chain /\ ~done
  BY <1>1, ScanOne
<1>3. /\ pending_queue' = <<>> /\ done' = TRUE /\ rest' = <<>>
      /\ UNCHANGED <<td, te, qelp, pc, mine, chain, endptr, ipc, kept,
                     hpc, hlink, frame, usbsts>>
  BY <1>1, <1>2, ScanOne DEF IsrTake, heap, driver, hc
<1>4. ~td[chain.last].active
  BY <1>1, <1>2, ScanOne DEF complete
<1>5. chain.last \in Mine /\ chain.last \in Nat
  BY <1>2 DEF IInv, Descriptors, Mine, Scheduled
<1>6. ~Stuck
  <2> SUFFICES ASSUME Stuck PROVE FALSE
    OBVIOUS
  <2>1. qelp \in Mine /\ qelp # chain.last /\ chain \in [first : 1 .. Slots, last : 1 .. Slots]
    BY <1>2 DEF Stuck, IInv, Descriptors, Scheduled
  <2>2. chain.last >= qelp + 1
    BY <2>1 DEF Mine
  <2> QED BY <1>4, <1>5, <2>2 DEF Stuck, Served
<1>7. Finished
  BY <1>1, <1>2, <1>6 DEF IInv, Phase, Running, Moving
<1>8. Finished'
  BY <1>1, <1>2, <1>3, <1>7 DEF Finished, Served, Mine
<1>9. Descriptors'
  BY <1>3, DescriptorsStay DEF IInv
<1>10. Entry'
  BY <1>2, <1>3 DEF IInv, Entry, Scheduled
<1>11. Phase'
  BY <1>2, <1>3, <1>8 DEF Phase, Scheduled
<1>12. Handler'
  BY <1>1, <1>2, <1>3 DEF Handler, Scheduled
<1>13. TypeOK'
  BY <1>3 DEF IInv, TypeOK
<1> QED BY <1>9, <1>10, <1>11, <1>12, <1>13 DEF IInv

\* What it passes is stuck.
LEMMA IsrPassKeeps == IInv /\ IsrPass => IInv'
<1> SUFFICES ASSUME IInv, IsrPass PROVE IInv'
  OBVIOUS
<1>1. ipc = "scan" /\ rest # <<>> /\ ~complete(Head(rest))
  BY DEF IsrPass
<1>2. /\ rest = <<mine>> /\ kept = <<>> /\ Scheduled /\ te[mine] = chain /\ ~done
      /\ mine \in Entries
  BY <1>1, ScanOne
<1>3. /\ kept' = <<mine>> /\ rest' = <<>>
      /\ UNCHANGED <<td, te, pending_queue, qelp, pc, mine, chain, endptr, done,
                     ipc, hpc, hlink, frame, usbsts>>
  BY <1>1, <1>2, ScanOne DEF IsrPass, heap, queue, driver, hc
<1>4. td[chain.last].active
  BY <1>1, <1>2, ScanOne DEF complete
<1>5. ~Finished
  <2> SUFFICES ASSUME Served(chain.last + 1) PROVE FALSE
    BY DEF Finished
  <2>1. chain.last \in Mine /\ chain.last \in Nat
    BY <1>2 DEF IInv, Descriptors, Mine, Scheduled
  <2> QED BY <1>4, <2>1 DEF Served
<1>6. Stuck
  BY <1>1, <1>2, <1>5 DEF IInv, Phase, Running, Moving
<1>7. Stuck'
  BY <1>3, <1>6 DEF Stuck, Served, Mine
<1>8. Descriptors' /\ Entry'
  BY <1>3, DescriptorsStay DEF IInv, Entry, Scheduled
<1>9. Phase'
  BY <1>2, <1>3, <1>7 DEF Phase, Scheduled
<1>10. Handler'
  BY <1>1, <1>2, <1>3 DEF Handler, Scheduled
<1>11. TypeOK'
  BY <1>2, <1>3 DEF IInv, TypeOK
<1> QED BY <1>8, <1>9, <1>10, <1>11 DEF IInv

\* It ends with the completion taken, or with nothing to take.
LEMMA IsrClearKeeps == IInv /\ IsrClear => IInv'
<1> SUFFICES ASSUME IInv, IsrClear PROVE IInv'
  OBVIOUS
<1>1. /\ ipc = "scan" /\ rest = <<>>
      /\ usbsts' = {} /\ ipc' = "none" /\ kept' = <<>> /\ pc' = Woken(pc)
      /\ UNCHANGED <<td, te, pending_queue, qelp, mine, chain, endptr, done, rest,
                     hpc, hlink, frame>>
  BY DEF IsrClear, heap, queue
<1>2. pc \in {"look", "hlt", "halted"} /\ pc' \in {"look", "hlt", "halted"}
  BY <1>1 DEF IInv, Handler, Scheduled, Woken
<1>3. Finished \/ Stuck
  BY <1>1, <1>2 DEF IInv, Phase, Running, Moving, Scheduled
<1>4. Finished' \/ Stuck'
  BY <1>1, <1>3 DEF Finished, Stuck, Served, Mine
<1>5. Descriptors' /\ Entry'
  BY <1>1, <1>2, DescriptorsStay DEF IInv, Entry, Scheduled
<1>6. Phase'
  BY <1>2, <1>4 DEF Phase
<1>7. Handler' /\ TypeOK'
  BY <1>1, <1>2 DEF IInv, Handler, TypeOK
<1> QED BY <1>5, <1>6, <1>7 DEF IInv

-----------------------------------------------------------------------------
(* The controller                                                          *)

\* The controller executes only the descriptor of a running transfer.
LEMMA ExecutingIsRunning ==
  ASSUME IInv, Executing
  PROVE  /\ Scheduled /\ Running /\ qelp \in Mine /\ DOMAIN td = Mine
         /\ td[qelp].link = link(chain, qelp) /\ td[qelp].ioc = (qelp = chain.last)
         /\ td \in [Mine -> [active : BOOLEAN, failed : BOOLEAN,
                             link : 0 .. Slots, ioc : BOOLEAN]]
         /\ Mine \subseteq Nat
<1>1. qelp # TERM /\ td[qelp].active /\ hpc = "run"
  BY DEF Executing
<1>2. Scheduled
  BY <1>1 DEF IInv, TypeOK, Phase, Quiet, Scheduled
<1>3. pc # "idle"
  BY <1>2 DEF Scheduled
<1>4. Mine \subseteq Nat
  BY <1>3 DEF IInv, Descriptors, Mine
<1>5. ~Moving /\ ~Finished
  BY <1>1 DEF Moving, Finished
<1>6. ~Stuck
  <2> SUFFICES ASSUME Stuck PROVE FALSE
    OBVIOUS
  <2>1. qelp \in Mine /\ (td[qelp].active <=> qelp >= qelp + 1)
    BY DEF Stuck, Served
  <2>2. qelp \in Nat
    BY <1>4, <2>1
  <2> QED BY <1>1, <2>1, <2>2
<1>7. Running
  BY <1>2, <1>5, <1>6 DEF IInv, Phase
<1>8. qelp \in Mine
  BY <1>7 DEF Running
<1> QED BY <1>2, <1>3, <1>4, <1>7, <1>8 DEF IInv, Descriptors, ioc

\* Clearing the active bit of the descriptor at the queue head.
LEMMA ServesOne ==
  ASSUME IInv, Running, Mine \subseteq Nat, DOMAIN td = Mine, pc # "idle",
         td \in [Mine -> [active : BOOLEAN, failed : BOOLEAN,
                          link : 0 .. Slots, ioc : BOOLEAN]],
         NEW r \in [active : BOOLEAN, failed : BOOLEAN,
                    link : 0 .. Slots, ioc : BOOLEAN],
         ~r.active, r.link = td[qelp].link, r.ioc = td[qelp].ioc,
         td' = [td EXCEPT ![qelp] = r], UNCHANGED <<chain, pc>>
  PROVE  /\ Descriptors' /\ (\A i \in Mine : td'[i].active <=> i >= qelp + 1)
         /\ Mine' = Mine /\ DOMAIN td' = Mine
         /\ \A i \in Mine : td'[i] \in [active : BOOLEAN, failed : BOOLEAN,
                                        link : 0 .. Slots, ioc : BOOLEAN]
<1>1. Mine' = Mine /\ DOMAIN td' = Mine
  BY DEF Mine
<1>2. td' \in [Mine -> [active : BOOLEAN, failed : BOOLEAN,
                        link : 0 .. Slots, ioc : BOOLEAN]]
  OBVIOUS
<1>3. qelp \in Mine /\ Served(qelp)
  BY DEF Running
<1>4. \A i \in Mine : td'[i] = IF i = qelp THEN r ELSE td[i]
  OBVIOUS
<1>5. \A i \in Mine : td'[i].active <=> i >= qelp + 1
  <2> TAKE i \in Mine
  <2>1. CASE i = qelp
    BY <1>3, <1>4, <2>1
  <2>2. CASE i # qelp
    BY <1>3, <1>4, <2>2 DEF Served
  <2> QED BY <2>1, <2>2
<1>6. \A i \in Mine : td'[i].link = td[i].link /\ td'[i].ioc = td[i].ioc
  BY <1>4
<1>7. \A i : link(chain, i)' = link(chain, i) /\ ioc(chain, i)' = ioc(chain, i)
  BY DEF link, ioc
<1>8. \A i \in Mine' : td'[i].link = link(chain, i)' /\ td'[i].ioc = ioc(chain, i)'
  BY <1>1, <1>6, <1>7 DEF IInv, Descriptors
<1>9. Descriptors'
  BY <1>1, <1>2, <1>8 DEF IInv, Descriptors
<1> QED BY <1>1, <1>2, <1>5, <1>9

LEMMA ExecuteKeeps == IInv /\ Execute => IInv'
<1> SUFFICES ASSUME IInv, Execute PROVE IInv'
  OBVIOUS
<1> DEFINE r == [td[qelp] EXCEPT !.active = FALSE]
<1>1. /\ Scheduled /\ Running /\ qelp \in Mine /\ DOMAIN td = Mine
      /\ td[qelp].link = link(chain, qelp) /\ td[qelp].ioc = (qelp = chain.last)
      /\ td \in [Mine -> [active : BOOLEAN, failed : BOOLEAN,
                          link : 0 .. Slots, ioc : BOOLEAN]]
      /\ Mine \subseteq Nat
  BY ExecutingIsRunning DEF Execute
<1>2. /\ hlink' = td[qelp].link /\ hpc' = "advance"
      /\ frame' = IF td[qelp].ioc THEN frame \cup {"USBINT"} ELSE frame
      /\ UNCHANGED <<te, pending_queue, qelp, pc, mine, chain, endptr, done,
                     ipc, rest, kept, usbsts>>
  BY DEF Execute, queue, driver, isr
<1>3. td[qelp] \in [active : BOOLEAN, failed : BOOLEAN,
                    link : 0 .. Slots, ioc : BOOLEAN]
  BY <1>1
<1>4. /\ r \in [active : BOOLEAN, failed : BOOLEAN, link : 0 .. Slots, ioc : BOOLEAN]
      /\ ~r.active /\ r.link = td[qelp].link /\ r.ioc = td[qelp].ioc
  BY <1>3
<1>5. td' = [td EXCEPT ![qelp] = r]
  BY DEF Execute
<1>6. pc # "idle"
  BY <1>1 DEF Scheduled
<1>7. /\ Descriptors' /\ (\A i \in Mine : td'[i].active <=> i >= qelp + 1)
      /\ Mine' = Mine /\ DOMAIN td' = Mine
      /\ \A i \in Mine : td'[i] \in [active : BOOLEAN, failed : BOOLEAN,
                                     link : 0 .. Slots, ioc : BOOLEAN]
  <2> HIDE DEF r
  <2> QED BY <1>1, <1>2, <1>4, <1>5, <1>6, ServesOne
<1>8. Moving'
  <2>1. Served(qelp + 1)'
    BY <1>2, <1>7 DEF Served
  <2>2. hlink' = link(chain, qelp)'
    BY <1>1, <1>2 DEF link
  <2>3. frame' = (IF qelp = chain.last THEN {"USBINT"} ELSE {})
    BY <1>1, <1>2 DEF Running
  <2> QED BY <1>1, <1>2, <1>7, <2>1, <2>2, <2>3 DEF Moving, Running
<1>9. Entry'
  BY <1>2 DEF IInv, Entry, Scheduled
<1>10. Phase'
  BY <1>1, <1>2, <1>8 DEF Phase, Scheduled
<1>11. Handler'
  BY <1>2 DEF IInv, Handler, Scheduled
<1>12. TypeOK'
  <2>1. Mine \subseteq 1 .. Slots
    BY <1>1 DEF IInv, TypeOK
  <2> QED BY <1>2, <1>3, <1>7, <2>1 DEF IInv, TypeOK
<1> QED BY <1>7, <1>9, <1>10, <1>11, <1>12 DEF IInv

\* A device that fails does so before the status stage.
LEMMA FailKeeps == EarlyAssumption /\ IInv /\ Fail => IInv'
<1> SUFFICES ASSUME EarlyAssumption, IInv, Fail PROVE IInv'
  OBVIOUS
<1> DEFINE r == [td[qelp] EXCEPT !.active = FALSE, !.failed = TRUE]
<1>1. /\ Scheduled /\ Running /\ qelp \in Mine /\ DOMAIN td = Mine
      /\ td[qelp].link = link(chain, qelp) /\ td[qelp].ioc = (qelp = chain.last)
      /\ td \in [Mine -> [active : BOOLEAN, failed : BOOLEAN,
                          link : 0 .. Slots, ioc : BOOLEAN]]
      /\ Mine \subseteq Nat
  BY ExecutingIsRunning DEF Fail
<1>2. /\ (IF td[qelp].ioc THEN "last" ELSE "early") \in Fails
      /\ frame' = frame \cup {"USBERR"} \cup (IF td[qelp].ioc THEN {"USBINT"} ELSE {})
      /\ UNCHANGED <<te, pending_queue, qelp, pc, mine, chain, endptr, done,
                     ipc, rest, kept, hpc, hlink, usbsts>>
  BY DEF Fail, queue, driver, isr
<1>3. td[qelp] \in [active : BOOLEAN, failed : BOOLEAN,
                    link : 0 .. Slots, ioc : BOOLEAN]
  BY <1>1
<1>4. /\ r \in [active : BOOLEAN, failed : BOOLEAN, link : 0 .. Slots, ioc : BOOLEAN]
      /\ ~r.active /\ r.link = td[qelp].link /\ r.ioc = td[qelp].ioc
  BY <1>3
<1>5. td' = [td EXCEPT ![qelp] = r]
  <2>1. td' = [td EXCEPT ![qelp].active = FALSE, ![qelp].failed = TRUE]
    BY DEF Fail
  <2> QED BY <1>1, <1>3, <2>1
<1>6. pc # "idle"
  BY <1>1 DEF Scheduled
<1>7. /\ Descriptors' /\ (\A i \in Mine : td'[i].active <=> i >= qelp + 1)
      /\ Mine' = Mine /\ DOMAIN td' = Mine
      /\ \A i \in Mine : td'[i] \in [active : BOOLEAN, failed : BOOLEAN,
                                     link : 0 .. Slots, ioc : BOOLEAN]
  <2> HIDE DEF r
  <2> QED BY <1>1, <1>2, <1>4, <1>5, <1>6, ServesOne
<1>8. qelp # chain.last
  BY <1>1, <1>2 DEF EarlyAssumption
<1>9. Stuck'
  <2>1. Served(qelp + 1)'
    BY <1>2, <1>7 DEF Served
  <2>2. r.failed
    BY <1>3
  <2>3. td'[qelp].failed
    <3> HIDE DEF r
    <3> QED BY <1>1, <1>5, <2>2
  <2> QED BY <1>1, <1>2, <1>7, <1>8, <2>1, <2>3 DEF Stuck, Running
<1>10. Entry'
  BY <1>2 DEF IInv, Entry, Scheduled
<1>11. Phase'
  BY <1>1, <1>2, <1>9 DEF Phase, Scheduled
<1>12. Handler'
  BY <1>2 DEF IInv, Handler, Scheduled
<1>13. TypeOK'
  <2>1. Mine \subseteq 1 .. Slots
    BY <1>1 DEF IInv, TypeOK
  <2>2. frame' \subseteq {"USBINT", "USBERR"}
    BY <1>2 DEF IInv, TypeOK
  <2> QED BY <1>2, <1>3, <1>7, <2>1, <2>2 DEF IInv, TypeOK
<1> QED BY <1>7, <1>10, <1>11, <1>12, <1>13 DEF IInv

\* The queue head moves to the next descriptor of the chain, or terminates.
LEMMA AdvanceKeeps == IInv /\ Advance => IInv'
<1> SUFFICES ASSUME IInv, Advance PROVE IInv'
  OBVIOUS
<1>1. /\ hpc = "advance" /\ qelp' = hlink /\ hpc' = "run" /\ hlink' = TERM
      /\ UNCHANGED <<td, te, pending_queue, pc, mine, chain, endptr, done,
                     ipc, rest, kept, frame, usbsts>>
  BY DEF Advance, heap, driver, isr
<1>2. Scheduled /\ Moving
  <2>1. ~Quiet /\ ~Running /\ ~Finished /\ ~Stuck
    BY <1>1 DEF Quiet, Running, Finished, Stuck
  <2>2. Scheduled
    BY <2>1 DEF IInv, Phase, TypeOK, Scheduled
  <2> QED BY <2>1, <2>2 DEF IInv, Phase
<1>3. /\ chain.first \in 1 .. Slots /\ chain.last \in 1 .. Slots
      /\ chain.first < chain.last /\ qelp \in Mine
  BY <1>2 DEF IInv, Descriptors, Scheduled, Moving
<1>4. Descriptors' /\ Entry'
  BY <1>1, DescriptorsStay DEF IInv, Entry, Scheduled
<1>5. (Running \/ Finished)'
  <2>1. CASE qelp = chain.last
    <3>1. hlink = TERM /\ frame = {"USBINT"} /\ Served(chain.last + 1)
      BY <1>2, <1>3, <2>1 DEF Moving, link
    <3> QED BY <1>1, <1>2, <3>1 DEF Moving, Finished, Served, Mine
  <2>2. CASE qelp # chain.last
    <3>1. hlink = qelp + 1 /\ qelp + 1 \in Mine /\ Served(qelp + 1) /\ frame = {}
      BY <1>2, <1>3, <2>2 DEF Moving, link, Mine
    <3> QED BY <1>1, <1>2, <3>1 DEF Moving, Running, Served, Mine
  <2> QED BY <2>1, <2>2
<1>6. Phase'
  BY <1>1, <1>2, <1>5 DEF Phase, Scheduled
<1>7. Handler' /\ TypeOK'
  BY <1>1 DEF IInv, Handler, Scheduled, TypeOK
<1> QED BY <1>4, <1>6, <1>7 DEF IInv

\* Something completed, and the status says so.
LEMMA FrameEndKeeps == IInv /\ FrameEnd => IInv'
<1> SUFFICES ASSUME IInv, FrameEnd PROVE IInv'
  OBVIOUS
<1>1. /\ hpc = "run" /\ frame # {} /\ usbsts' = usbsts \cup frame /\ frame' = {}
      /\ UNCHANGED <<td, te, pending_queue, qelp, pc, mine, chain, endptr, done,
                     ipc, rest, kept, hpc, hlink>>
  BY DEF FrameEnd, heap, queue, driver, isr
<1>2. Scheduled /\ (Finished \/ Stuck)
  <2>1. ~Quiet /\ ~Running /\ ~Moving
    BY <1>1 DEF Quiet, Running, Moving
  <2>2. Scheduled
    BY <2>1 DEF IInv, Phase, TypeOK, Scheduled
  <2> QED BY <2>1, <2>2 DEF IInv, Phase
<1>3. Descriptors' /\ Entry'
  BY <1>1, DescriptorsStay DEF IInv, Entry, Scheduled
<1>4. usbsts' # {}
  BY <1>1
<1>5. Finished' \/ Stuck'
  BY <1>1, <1>2, <1>4 DEF Finished, Stuck, Served, Mine
<1>6. Phase'
  BY <1>1, <1>2, <1>5 DEF Phase, Scheduled
<1>7. Handler' /\ TypeOK'
  BY <1>1 DEF IInv, Handler, Scheduled, TypeOK
<1> QED BY <1>3, <1>6, <1>7 DEF IInv

-----------------------------------------------------------------------------
(* The invariant and what follows from it                                  *)

LEMMA NextKeeps == EarlyAssumption /\ IInv /\ [Next]_vars => IInv'
<1> SUFFICES ASSUME EarlyAssumption, IInv, [Next]_vars PROVE IInv'
  OBVIOUS
<1>1. CASE Driver
  BY <1>1, CreateKeeps, ReadQelpKeeps, AppendPendingKeeps, LinkKeeps, GoHaltKeeps,
     HaltKeeps, FreeEntryKeeps, DeleteKeeps DEF Driver
<1>2. CASE OtherInterrupt
  BY <1>2, OtherInterruptKeeps
<1>3. CASE IsrEnter
  BY <1>3, IsrEnterKeeps
<1>4. CASE Isr
  BY <1>4, IsrTakeKeeps, IsrPassKeeps, IsrClearKeeps DEF Isr
<1>5. CASE Controller
  BY <1>5, ExecuteKeeps, AdvanceKeeps, FailKeeps, FrameEndKeeps DEF Controller
<1>6. CASE UNCHANGED vars
  BY <1>6, WaitKeeps DEF vars, heap, queue, driver, isr, hc
<1> QED BY <1>1, <1>2, <1>3, <1>4, <1>5, <1>6 DEF Next

LEMMA IInvHolds == EarlyAssumption /\ Spec => []IInv
<1> SUFFICES ASSUME EarlyAssumption PROVE Spec => []IInv
  OBVIOUS
<1>1. IInv /\ [Next]_vars => IInv'
  BY NextKeeps
<1> QED BY InitIInv, <1>1, PTL DEF Spec

\* Pointers point to cells, and each actor is at one of its points.
THEOREM TypesHold == EarlyAssumption /\ Spec => []TypeOK
<1>1. IInv => TypeOK
  BY DEF IInv
<1> QED BY IInvHolds, <1>1, PTL

LEMMA IInvOwned == IInv => MemoryOwned
<1> SUFFICES ASSUME IInv PROVE MemoryOwned
  OBVIOUS
<1>1. CASE pc = "idle"
  <2>1. Quiet /\ DOMAIN td = {} /\ pending_queue = <<>> /\ rest = <<>>
    BY <1>1 DEF IInv, Phase, Descriptors, Entry, Handler, Quiet, Scheduled
  <2> QED BY <2>1 DEF MemoryOwned, DmaOwned, QelpIsElement, PendingOwned, Quiet
<1>2. CASE pc # "idle"
  <2>1. /\ DOMAIN td = Mine /\ chain \in [first : 1 .. Slots, last : 1 .. Slots]
        /\ \A i \in Mine : td[i].link = link(chain, i)
    BY <1>2 DEF IInv, Descriptors
  <2>2. \A i \in Mine : link(chain, i) # TERM => link(chain, i) \in Mine
    BY <2>1 DEF link, Mine
  <2>3. Quiet \/ Running \/ Moving \/ Finished \/ Stuck
    BY <1>2 DEF IInv, TypeOK, Phase, Scheduled
  <2>4. DmaOwned
    BY <2>1, <2>2, <2>3
       DEF DmaOwned, QelpIsElement, Quiet, Running, Moving, Finished, Stuck
  <2>5. PendingOwned
    <3> SUFFICES ASSUME NEW e \in {pending_queue[i] : i \in DOMAIN pending_queue}
                                  \cup {rest[i] : i \in DOMAIN rest}
                 PROVE  e \in DOMAIN te /\ te[e].first .. te[e].last \subseteq DOMAIN td
      BY DEF PendingOwned
    <3>1. pending_queue \in {<<>>, <<mine>>} /\ rest \in {<<>>, <<mine>>}
      BY DEF IInv, Entry, Handler
    <3>2. e = mine /\ (pending_queue # <<>> \/ rest # <<>>)
      BY <3>1
    <3>3. pc \notin {"idle", "free"}
      BY <3>2 DEF IInv, Entry, Handler, Scheduled
    <3>4. DOMAIN te = {mine} /\ te[mine] = chain
      BY <3>3 DEF IInv, Entry
    <3> QED BY <2>1, <3>2, <3>4 DEF Mine
  <2> QED BY <2>4, <2>5 DEF MemoryOwned
<1> QED BY <1>1, <1>2

\* The controller and uhci_isr never reach memory the driver has freed,
\* whatever the sizes of the heap and of the transfers.
THEOREM OwnedMemory == EarlyAssumption /\ Spec => []MemoryOwned
BY IInvHolds, IInvOwned, PTL

LEMMA IInvAgreed == IInv => CompletionAgreed
<1> SUFFICES ASSUME IInv PROVE CompletionAgreed
  OBVIOUS
<1>1. CASE pc = "idle"
  BY <1>1 DEF CompletionAgreed, DoneIsServed, StagesInOrder, CompletionNoticed, Scheduled
<1>2. CASE pc # "idle"
  <2>1. /\ DOMAIN td = Mine /\ chain \in [first : 1 .. Slots, last : 1 .. Slots]
        /\ chain.first < chain.last
    BY <1>2 DEF IInv, Descriptors
  <2>2. PICK k \in 1 .. Slots + 1 : Served(k)
    <3>1. Mine \subseteq 1 .. Slots /\ chain.first \in 1 .. Slots
          /\ chain.last + 1 \in 1 .. Slots + 1
      BY <2>1 DEF Mine
    <3>2. CASE pc \in {"read", "append", "link"}
      BY <3>1, <3>2 DEF IInv, Phase
    <3>3. CASE pc = "free"
      BY <3>1, <3>3 DEF IInv, Phase
    <3>4. CASE Scheduled
      <4>1. Running \/ Moving \/ Finished \/ Stuck
        BY <3>4 DEF IInv, Phase
      <4>2. qelp \in Mine => qelp \in 1 .. Slots + 1 /\ qelp + 1 \in 1 .. Slots + 1
        BY <3>1
      <4> QED BY <3>1, <4>1, <4>2 DEF Running, Moving, Finished, Stuck
    <3> QED BY <1>2, <3>2, <3>3, <3>4 DEF IInv, TypeOK, Scheduled
  <2>3. \A i \in Mine : td[i].active <=> i >= k
    BY <2>2 DEF Served
  <2>4. Mine \subseteq Nat /\ chain.last \in Mine
    BY <2>1 DEF Mine
  <2>5. StagesInOrder
    <3> SUFFICES ASSUME NEW i \in Mine, NEW j \in Mine, i < j, ~td[j].active
                 PROVE  ~td[i].active
      BY <2>1 DEF StagesInOrder
    <3>1. ~(j >= k) /\ i \in Nat /\ j \in Nat
      BY <2>3, <2>4
    <3>2. ~(i >= k)
      BY <3>1
    <3> QED BY <2>3, <3>2
  <2>6. DoneIsServed
    <3> SUFFICES ASSUME done, NEW i \in Mine PROVE ~td[i].active
      BY <2>1 DEF DoneIsServed
    <3>1. Served(chain.last + 1)
      BY <1>2 DEF IInv, TypeOK, Phase, Scheduled, Running, Moving, Finished, Stuck
    <3>2. ~(i >= chain.last + 1)
      BY <2>1 DEF Mine
    <3> QED BY <3>1, <3>2 DEF Served
  <2>7. CompletionNoticed
    <3> SUFFICES ASSUME Scheduled, ~done, ~td[chain.last].active
                 PROVE  frame # {} \/ (IF ipc = "none" THEN usbsts # {} ELSE rest # <<>>)
      BY DEF CompletionNoticed
    <3>1. ~Running /\ ~Stuck
      BY <2>1, <2>4 DEF Running, Stuck, Served, Mine
    <3>2. Moving \/ Finished
      BY <3>1 DEF IInv, Phase
    <3>3. CASE Moving
      <4>1. ~(chain.last >= qelp + 1)
        BY <2>4, <3>3 DEF Moving, Served
      <4>2. qelp = chain.last
        BY <2>1, <3>3, <4>1 DEF Moving, Mine
      <4> QED BY <3>3, <4>2 DEF Moving
    <3>4. CASE Finished
      BY <3>4 DEF Finished
    <3> QED BY <3>2, <3>3, <3>4
  <2> QED BY <2>5, <2>6, <2>7 DEF CompletionAgreed
<1> QED BY <1>1, <1>2

\* Driver, uhci_isr and controller agree on what is complete.
THEOREM AgreedCompletion == EarlyAssumption /\ Spec => []CompletionAgreed
BY IInvHolds, IInvAgreed, PTL

\* uhci_isr takes an entry off pending_queue only when its last descriptor is
\* inactive.
THEOREM NoneDropped == EarlyAssumption /\ Spec => NothingDropped
<1> DEFINE Step == \A i \in DOMAIN pending_queue :
                     pending_queue[i] \in {pending_queue'[j] : j \in DOMAIN pending_queue'}
                       \/ ~td[te[pending_queue[i]].last].active
<1>1. IInv /\ [Next]_vars => [Step]_vars
  <2> SUFFICES ASSUME IInv, Next PROVE Step
    OBVIOUS
  <2>1. CASE pending_queue' = pending_queue
    BY <2>1
  <2>2. CASE AppendPending
    <3>1. pending_queue = <<>>
      BY <2>2 DEF AppendPending, Driving, IInv, Entry, Scheduled
    <3> QED BY <3>1
  <2>3. CASE IsrTake
    <3>1. pending_queue = <<mine>> /\ complete(mine)
      BY <2>3, ScanOne DEF IsrTake
    <3> QED BY <3>1 DEF complete
  <2>4. pending_queue' = pending_queue \/ AppendPending \/ IsrTake
    BY DEF Next, Driver, Create, ReadQelp, Link, GoHalt, Halt, FreeEntry, Delete,
           OtherInterrupt, IsrEnter, Isr, IsrPass, IsrClear, Controller, Execute, Advance,
           Fail, FrameEnd, queue
  <2> QED BY <2>1, <2>2, <2>3, <2>4
<1> QED BY IInvHolds, <1>1, PTL DEF Spec, NothingDropped

\* What the driver read of the queue head still holds when it links its chain.
THEOREM FreshEndptr == EarlyAssumption /\ Spec => EndptrFresh
<1>1. IInv /\ [Next]_vars => [Link => endptr = qelp]_vars
  BY DEF IInv, Entry, Phase, Quiet, Link, Driving
<1> QED BY IInvHolds, <1>1, PTL DEF Spec, EndptrFresh

-----------------------------------------------------------------------------
(* Behind AnsweredTransferEnds: somebody always has the next step, and no   *)
(* step goes back                                                           *)

Failed == \E i \in DOMAIN td : td[i].failed

\* How far the transfer is: where the controller is in the chain, and, once it
\* is at its end, how far the news of it is on the way to the driver.
Place == IF qelp = TERM THEN chain.last + 1 ELSE qelp
News ==
  IF qelp # TERM THEN IF hpc = "advance" THEN 1 ELSE 0
  ELSE IF frame # {} THEN 0
  ELSE IF ~done THEN IF ipc = "none" THEN 1 ELSE 2
  ELSE IF ipc = "scan" THEN 3 ELSE 4

Further == Place' > Place \/ (Place' = Place /\ News' > News)

\* While a driver waits for a transfer none of whose descriptors failed, the
\* controller has a descriptor to execute, a link to follow or a frame to
\* end, or the status register asks for uhci_isr: the halt is never for nothing.
THEOREM SomebodyMoves ==
  EarlyAssumption /\ Spec =>
    [](Scheduled /\ ~done =>
         Executing \/ hpc = "advance" \/ frame # {} \/ usbsts # {} \/ Failed)
<1>1. ASSUME IInv, Scheduled, ~done
      PROVE  Executing \/ hpc = "advance" \/ frame # {} \/ usbsts # {} \/ Failed
  <2>1. DOMAIN td = Mine /\ Mine \subseteq 1 .. Slots
    BY <1>1 DEF IInv, Descriptors, Scheduled, Mine
  <2>2. CASE Running
    <3>1. qelp \in Mine /\ hpc = "run" /\ qelp \in Nat /\ qelp # TERM
      BY <2>1, <2>2 DEF Running
    <3>2. td[qelp].active
      BY <2>2, <3>1 DEF Running, Served
    <3> QED BY <2>1, <3>1, <3>2 DEF Executing
  <2>3. CASE Moving
    BY <2>3 DEF Moving
  <2>4. CASE Finished
    BY <1>1, <2>4 DEF Finished
  <2>5. CASE Stuck
    BY <2>1, <2>5 DEF Stuck, Failed
  <2> QED BY <1>1, <2>2, <2>3, <2>4, <2>5 DEF IInv, Phase
<1>2. IInv => (Scheduled /\ ~done =>
                 Executing \/ hpc = "advance" \/ frame # {} \/ usbsts # {} \/ Failed)
  BY <1>1
<1> QED BY IInvHolds, <1>2, PTL

LEMMA ControllerMovesOn ==
  ASSUME IInv, Scheduled, Execute \/ Advance \/ FrameEnd
  PROVE  Failed' \/ (UNCHANGED chain /\ Further)
<1>1. /\ chain.first \in Nat /\ chain.last \in Nat /\ chain.first <= chain.last
      /\ DOMAIN td = Mine /\ Mine \subseteq 1 .. Slots /\ TERM \notin Mine
  BY DEF IInv, Descriptors, Scheduled, Mine
<1>2. CASE Execute
  <2>1. qelp \in Mine /\ hpc = "run" /\ hpc' = "advance" /\ UNCHANGED <<qelp, chain>>
    BY <1>2, ExecutingIsRunning DEF Execute, Executing, queue, driver
  <2>2. qelp # TERM
    BY <1>1, <2>1
  <2> QED BY <1>1, <2>1, <2>2 DEF Further, Place, News
<1>3. CASE Advance
  <2>1. hpc = "advance" /\ qelp' = hlink /\ UNCHANGED chain
    BY <1>3 DEF Advance, driver
  <2>2. Moving
    BY <2>1 DEF IInv, Phase, Running, Finished, Stuck
  <2>3. qelp \in Mine /\ hlink = IF qelp < chain.last THEN qelp + 1 ELSE TERM
    BY <2>2 DEF Moving, link
  <2>4. qelp \in Nat /\ qelp # TERM /\ qelp <= chain.last
    BY <1>1, <2>3 DEF Mine
  <2>5. Place' > Place
    BY <1>1, <2>1, <2>3, <2>4 DEF Place
  <2> QED BY <2>1, <2>5 DEF Further
<1>4. CASE FrameEnd
  <2>1. /\ hpc = "run" /\ frame # {} /\ frame' = {}
        /\ UNCHANGED <<td, qelp, chain, done, ipc>>
    BY <1>4 DEF FrameEnd, heap, queue, driver, isr
  <2>2. Finished \/ Stuck
    BY <2>1 DEF IInv, Phase, Running, Moving
  <2>3. CASE Finished
    <3>1. qelp = TERM /\ ~done
      BY <2>1, <2>3 DEF Finished
    <3> QED BY <1>1, <2>1, <3>1 DEF Further, Place, News
  <2>4. CASE Stuck
    BY <1>1, <2>1, <2>4 DEF Stuck, Failed
  <2> QED BY <2>2, <2>3, <2>4
<1> QED BY <1>2, <1>3, <1>4

LEMMA HandlerMovesOn ==
  ASSUME IInv, Scheduled, IsrEnter \/ Isr
  PROVE  Failed' \/ (UNCHANGED chain /\ Further)
<1>1. /\ chain.first \in Nat /\ chain.last \in Nat
      /\ DOMAIN td = Mine
  BY DEF IInv, Descriptors, Scheduled, Mine
<1>2. UNCHANGED <<td, qelp, chain, frame, hpc>>
  BY DEF IsrEnter, Isr, IsrTake, IsrPass, IsrClear, heap, queue, driver, hc
<1>3. Finished \/ Stuck
  <2>1. ipc = "scan" \/ usbsts # {}
    BY DEF IsrEnter, Isr, IsrTake, IsrPass, IsrClear
  <2> QED BY <2>1 DEF IInv, Phase, Running, Moving
<1>4. CASE Stuck
  BY <1>1, <1>2, <1>4 DEF Stuck, Failed
<1>5. CASE Finished
  <2>1. qelp = TERM /\ Served(chain.last + 1)
    BY <1>5 DEF Finished
  <2>2. CASE IsrEnter
    <3>1. ipc = "none" /\ ipc' = "scan" /\ done' = done /\ usbsts # {}
      BY <2>2 DEF IsrEnter
    <3>2. ~done /\ frame = {}
      BY <1>5, <3>1 DEF Finished
    <3> QED BY <1>1, <1>2, <2>1, <3>1, <3>2 DEF Further, Place, News
  <2>3. CASE IsrTake
    <3>1. ipc = "scan" /\ ipc' = ipc /\ done' /\ rest # <<>>
      BY <2>3 DEF IsrTake
    <3>2. ~done /\ frame = {}
      BY <1>5, <3>1 DEF Finished
    <3> QED BY <1>1, <1>2, <2>1, <3>1, <3>2 DEF Further, Place, News
  <2>4. CASE IsrPass
    <3>1. ipc = "scan" /\ rest # <<>> /\ ~complete(Head(rest))
      BY <2>4 DEF IsrPass
    <3>2. td[chain.last].active
      BY <3>1, ScanOne DEF complete
    <3>3. chain.last \in Mine
      BY DEF IInv, Descriptors, Scheduled, Mine
    <3> QED BY <1>1, <2>1, <3>2, <3>3 DEF Served
  <2>5. CASE IsrClear
    <3>1. ipc = "scan" /\ rest = <<>> /\ ipc' = "none" /\ done' = done
      BY <2>5 DEF IsrClear
    <3>2. done /\ frame = {}
      BY <1>5, <3>1 DEF Finished
    <3> QED BY <1>1, <1>2, <2>1, <3>1, <3>2 DEF Further, Place, News
  <2> QED BY <2>2, <2>3, <2>4, <2>5 DEF Isr
<1> QED BY <1>3, <1>4, <1>5

\* While a driver waits, every step of the controller and of uhci_isr takes its
\* transfer further, one descriptor after the other and then from the frame's end
\* to done, unless a descriptor has failed; the driver's own steps and the other
\* interrupts leave it where it is. Place and News are bounded, so only a device
\* that never answers or a failed stage keeps the driver waiting.
THEOREM TransferMovesOn ==
  EarlyAssumption /\ Spec =>
    [][Scheduled =>
         \/ Failed'
         \/ (IsrEnter \/ Isr \/ Controller) /\ UNCHANGED chain /\ Further
         \/ (Driver \/ OtherInterrupt) /\ UNCHANGED <<chain, Place, News>>]_vars
<1> DEFINE On == \/ Failed'
                 \/ (IsrEnter \/ Isr \/ Controller) /\ UNCHANGED chain /\ Further
                 \/ (Driver \/ OtherInterrupt) /\ UNCHANGED <<chain, Place, News>>
<1>1. ASSUME EarlyAssumption, IInv, Next, Scheduled PROVE On
  <2>1. CASE IsrEnter \/ Isr
    BY <1>1, <2>1, HandlerMovesOn
  <2>2. CASE Execute \/ Advance \/ FrameEnd
    BY <1>1, <2>2, ControllerMovesOn DEF Controller
  <2>3. CASE Fail
    <3>1. /\ Scheduled' /\ hpc' = "run" /\ td' = [td EXCEPT ![qelp].active = FALSE, ![qelp].failed = TRUE]
          /\ qelp \in DOMAIN td
      BY <1>1, <2>3 DEF Fail, Executing, Scheduled, driver
    <3>2. DOMAIN td' = DOMAIN td /\ td'[qelp] = [td[qelp] EXCEPT !.active = FALSE, !.failed = TRUE]
      BY <3>1
    <3>3. td[qelp] \in [active : BOOLEAN, failed : BOOLEAN, link : 0 .. Slots, ioc : BOOLEAN]
      BY <1>1, <3>1 DEF IInv, TypeOK
    <3> QED BY <3>1, <3>2, <3>3 DEF Failed
  <2>4. CASE OtherInterrupt \/ GoHalt \/ Halt \/ FreeEntry
    <3>1. UNCHANGED <<qelp, chain, hpc, frame, done, ipc>>
      BY <2>4 DEF OtherInterrupt, GoHalt, Halt, FreeEntry, queue, isr, hc
    <3> QED BY <2>4, <3>1 DEF Place, News, Driver
  <2>5. ~(Driver /\ ~(GoHalt \/ Halt \/ FreeEntry))
    BY <1>1 DEF Driver, Create, ReadQelp, AppendPending, Link, Delete, Driving, Scheduled
  <2> QED BY <1>1, <2>1, <2>2, <2>3, <2>4, <2>5 DEF Next, Controller
<1>2. EarlyAssumption /\ IInv /\ [Next]_vars => [Scheduled => On]_vars
  BY <1>1
<1> HIDE DEF On
<1>3. EarlyAssumption /\ Spec => [][Scheduled => On]_vars
  <2> SUFFICES ASSUME EarlyAssumption PROVE Spec => [][Scheduled => On]_vars
    OBVIOUS
  <2>1. IInv /\ [Next]_vars => [Scheduled => On]_vars
    BY <1>2
  <2> QED BY IInvHolds, <2>1, PTL DEF Spec
<1> QED BY <1>3 DEF On
=============================================================================
