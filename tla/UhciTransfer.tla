---------------------------- MODULE UhciTransfer ----------------------------
(***************************************************************************)
(* Control transfers of drivers/usb/uhci.c. Four actors share memory:      *)
(*   the driver    builds a chain of transfer descriptors, puts it on the  *)
(*                 queue head and on pending_queue, halts until done, and  *)
(*                 frees the chain;                                        *)
(*   uhci_isr      takes finished entries off pending_queue and sets done; *)
(*   the controller follows the queue head by DMA, at any time;            *)
(*   the timer     ends the driver's halts.                                *)
(* The driver does not run while uhci_isr does. The controller is hardware *)
(* and modelled from the UHCI design guide as the driver relies on it: it  *)
(* marks a descriptor inactive, then moves the queue head on, and reports  *)
(* what completed in a frame at the end of that frame.                     *)
(***************************************************************************)
EXTENDS Integers, Sequences

CONSTANTS
  Slots,    \* number of descriptor sized cells of the heap
  Entries,  \* addresses of struct transfer_entry objects
  Lengths,  \* td_cnt of the transfers the driver makes
  Fails,    \* descriptors a device may fail: some of "early" and "last"
  NULL

TERM == 0   \* UHCI_FLP_TERM, UHCI_TD_LPTR_TERM

ASSUME TransferAssumption ==
  /\ Slots \in Nat /\ NULL \notin Entries
  /\ Lengths \subseteq Nat \ {0, 1} /\ Fails \subseteq {"early", "last"}

VARIABLES
  td,             \* the allocated descriptors, by address
  te,             \* the allocated transfer entries, by address
  pending_queue,  \* the list behind that pointer
  qelp,           \* the queue head's element pointer
  pc, mine, chain, endptr,  \* the driver: its point, its entry, the ends of
                            \* its chain, what it read of qelp
  done,                     \* the driver's flag, te->userdata
  ipc, rest, kept,   \* uhci_isr: its point, entries ahead, entries passed
  hpc, hlink,        \* the controller: its point, the link it fetched
  frame, usbsts      \* what completed in this frame; the status register

heap == <<td, te>>
queue == <<pending_queue, qelp>>
driver == <<pc, mine, chain, endptr>>
isr == <<ipc, rest, kept>>
hc == <<hpc, hlink, frame, usbsts>>
vars == <<heap, queue, driver, done, isr, hc>>

Init ==
  /\ td = <<>> /\ te = <<>>
  /\ pending_queue = <<>> /\ qelp = TERM
  /\ pc = "idle" /\ mine = NULL /\ endptr = TERM /\ done = FALSE
  /\ chain = [first |-> TERM, last |-> TERM]
  /\ ipc = "none" /\ rest = <<>> /\ kept = <<>>
  /\ hpc = "run" /\ hlink = TERM /\ frame = {} /\ usbsts = {}

-----------------------------------------------------------------------------
(* The driver: uhci_read_dev_desc and its siblings                         *)

Driving(p) == ipc = "none" /\ pc = p

\* A slip: the interrupt is asked for when the setup stage completes.
ioc_first(c, i) == i = c.first

\* Only the status stage has UHCI_TD_IOC.
ioc(c, i) == i = c.last

\* A slip: the last link is not terminated.
link_open(c, i) == i + 1

link(c, i) == IF i < c.last THEN i + 1 ELSE TERM

\* uhci_create_td_control and the entry: n descriptors at a, where memalloc
\* found room for them, and a transfer entry at e.
Create(n, a, e) ==
  LET c == [first |-> a, last |-> a + n - 1] IN
  /\ Driving("idle")
  /\ c.first .. c.last \subseteq 1 .. Slots \ DOMAIN td /\ e \notin DOMAIN te
  /\ td' = [i \in DOMAIN td \cup c.first .. c.last |->
              IF i \in DOMAIN td THEN td[i]
              ELSE [active |-> TRUE, failed |-> FALSE,
                    link |-> link(c, i), ioc |-> ioc(c, i)]]
  /\ te' = [x \in DOMAIN te \cup {e} |-> IF x = e THEN c ELSE te[x]]
  /\ pc' = "read" /\ mine' = e /\ chain' = c /\ done' = FALSE
  /\ UNCHANGED <<queue, endptr, isr, hc>>

\* uhci_schedule_queue, one step for each part of the queue it accesses.
ReadQelp ==
  /\ Driving("read")
  /\ endptr' = qelp /\ pc' = "append"
  /\ UNCHANGED <<heap, queue, mine, chain, done, isr, hc>>

AppendPending ==
  /\ Driving("append")
  /\ pending_queue' = Append(pending_queue, mine) /\ pc' = "link"
  /\ UNCHANGED <<heap, qelp, mine, chain, endptr, done, isr, hc>>

\* The descriptor where the chain at a ends, or leaves allocated memory.
ChainEnd[a \in DOMAIN td] ==
  IF td[a].link \notin DOMAIN td THEN a ELSE ChainEnd[td[a].link]

\* What is written behind a freed descriptor is not tracked.
Link ==
  /\ Driving("link")
  /\ IF endptr = TERM
     THEN qelp' = te[mine].first /\ UNCHANGED td
     ELSE /\ td' = IF endptr \notin DOMAIN td THEN td
                   ELSE [td EXCEPT ![ChainEnd[endptr]].link = te[mine].first]
          /\ UNCHANGED qelp
  /\ pc' = "look"
  /\ UNCHANGED <<te, pending_queue, mine, chain, endptr, done, isr, hc>>

\* uhci_wait_entry_complete
GoHalt ==
  /\ Driving("look") /\ ~done
  /\ pc' = "hlt"
  /\ UNCHANGED <<heap, queue, mine, chain, endptr, done, isr, hc>>

Halt ==
  /\ Driving("hlt")
  /\ pc' = "halted"
  /\ UNCHANGED <<heap, queue, mine, chain, endptr, done, isr, hc>>

\* A slip: a wait that is over after the first halt.
WaitOverAnyway == Driving("look")

WaitOver == Driving("look") /\ done

\* memfree(entry)
FreeEntry ==
  /\ WaitOver
  /\ te' = [x \in DOMAIN te \ {mine} |-> te[x]]
  /\ pc' = "free" /\ mine' = NULL
  /\ UNCHANGED <<td, queue, chain, endptr, done, isr, hc>>

\* uhci_delete_td_control
Delete ==
  /\ Driving("free")
  /\ td' = [i \in DOMAIN td \ (chain.first .. chain.last) |-> td[i]]
  /\ pc' = "idle" /\ endptr' = TERM
  /\ UNCHANGED <<te, queue, mine, chain, done, isr, hc>>

Driver ==
  \/ \E n \in Lengths, a \in 1 .. Slots, e \in Entries : Create(n, a, e)
  \/ ReadQelp \/ AppendPending \/ Link
  \/ GoHalt \/ Halt \/ FreeEntry \/ Delete

-----------------------------------------------------------------------------
(* Interrupts                                                              *)

\* An interrupt ends the driver's halt.
Woken(p) == IF p = "halted" THEN "look" ELSE p

\* The timer, or a device on the same line while USBSTS is 0: uhci_isr
\* returns false.
OtherInterrupt ==
  /\ ipc = "none"
  /\ pc' = Woken(pc)
  /\ UNCHANGED <<heap, queue, mine, chain, endptr, done, isr, hc>>

\* uhci_isr, called while USBSTS is not 0.
IsrEnter ==
  /\ ipc = "none" /\ usbsts # {}
  /\ ipc' = "scan" /\ rest' = pending_queue /\ kept' = <<>>
  /\ UNCHANGED <<heap, queue, driver, done, hc>>

\* Slips: a test of the chain's first descriptor, and no test at all.
complete_first(e) == ~td[te[e].first].active
complete_untested(e) == TRUE

complete(e) == ~td[te[e].last].active

\* Unlinking the first entry drops the list; uhci_callback_trans_end.
IsrTake ==
  /\ ipc = "scan" /\ rest # <<>> /\ complete(Head(rest))
  /\ pending_queue' = IF kept = <<>> THEN <<>> ELSE kept \o Tail(rest)
  /\ done' = TRUE
  /\ rest' = Tail(rest)
  /\ UNCHANGED <<heap, qelp, driver, ipc, kept, hc>>

IsrPass ==
  /\ ipc = "scan" /\ rest # <<>> /\ ~complete(Head(rest))
  /\ kept' = Append(kept, Head(rest))
  /\ rest' = Tail(rest)
  /\ UNCHANGED <<heap, queue, driver, done, ipc, hc>>

\* The write of 0x1f clears every interrupt cause, then the driver goes on.
IsrClear ==
  /\ ipc = "scan" /\ rest = <<>>
  /\ usbsts' = {} /\ ipc' = "none" /\ kept' = <<>>
  /\ pc' = Woken(pc)
  /\ UNCHANGED <<heap, queue, mine, chain, endptr, done, rest, hpc, hlink, frame>>

Isr == IsrTake \/ IsrPass \/ IsrClear

-----------------------------------------------------------------------------
(* The host controller                                                     *)

\* The queue head points to a descriptor to execute.
Executing ==
  /\ hpc = "run" /\ qelp # TERM
  /\ qelp \in DOMAIN td /\ td[qelp].active

\* The device acknowledges. (Until it does, the descriptor stays active.)
Execute ==
  /\ Executing
  /\ td' = [td EXCEPT ![qelp].active = FALSE]
  /\ hlink' = td[qelp].link /\ hpc' = "advance"
  /\ frame' = IF td[qelp].ioc THEN frame \cup {"USBINT"} ELSE frame
  /\ UNCHANGED <<te, queue, driver, done, isr, usbsts>>

Advance ==
  /\ hpc = "advance"
  /\ qelp' = hlink /\ hpc' = "run" /\ hlink' = TERM
  /\ UNCHANGED <<heap, pending_queue, driver, done, isr, frame, usbsts>>

\* A stall, or the third error: the queue head stays where it is.
Fail ==
  /\ Executing
  /\ (IF td[qelp].ioc THEN "last" ELSE "early") \in Fails
  /\ td' = [td EXCEPT ![qelp].active = FALSE, ![qelp].failed = TRUE]
  /\ frame' = frame \cup {"USBERR"}
                    \cup (IF td[qelp].ioc THEN {"USBINT"} ELSE {})
  /\ UNCHANGED <<te, queue, driver, done, isr, hpc, hlink, usbsts>>

FrameEnd ==
  /\ hpc = "run" /\ frame # {}
  /\ usbsts' = usbsts \cup frame /\ frame' = {}
  /\ UNCHANGED <<heap, queue, driver, done, isr, hpc, hlink>>

Controller == Execute \/ Advance \/ Fail \/ FrameEnd

Next == Driver \/ OtherInterrupt \/ IsrEnter \/ Isr \/ Controller

Spec == Init /\ [][Next]_vars

\* The CPU and the controller run, the timer ticks, and a device answers or
\* fails each descriptor in the end.
FairSpec ==
  /\ Spec /\ WF_vars(Driver) /\ WF_vars(OtherInterrupt)
  /\ WF_vars(IsrEnter) /\ WF_vars(Isr)
  /\ WF_vars(Execute \/ Fail) /\ WF_vars(Advance) /\ WF_vars(FrameEnd)

-----------------------------------------------------------------------------
Mine == chain.first .. chain.last
Scheduled == pc \in {"look", "hlt", "halted"}

\* Pointers point to cells or are terminated, and each actor is at one of its
\* points.
TypeOK ==
  /\ DOMAIN td \subseteq 1 .. Slots /\ DOMAIN te \subseteq Entries
  /\ \A i \in DOMAIN td :
       td[i] \in [active : BOOLEAN, failed : BOOLEAN,
                  link : 0 .. Slots, ioc : BOOLEAN]
  /\ \A e \in DOMAIN te : te[e] \in [first : 1 .. Slots, last : 1 .. Slots]
  /\ pending_queue \in Seq(Entries) /\ rest \in Seq(Entries) /\ kept \in Seq(Entries)
  /\ qelp \in 0 .. Slots /\ endptr \in 0 .. Slots /\ hlink \in 0 .. Slots
  /\ pc \in {"idle", "read", "append", "link", "look", "hlt", "halted", "free"}
  /\ mine \in Entries \cup {NULL} /\ done \in BOOLEAN
  /\ chain \in [first : 0 .. Slots, last : 0 .. Slots]
  /\ ipc \in {"none", "scan"} /\ hpc \in {"run", "advance"}
  /\ frame \subseteq {"USBINT", "USBERR"} /\ usbsts \subseteq {"USBINT", "USBERR"}

\* The queue head's element pointer is terminated or points to an element.
QelpIsElement == qelp # TERM => qelp \in DOMAIN td

\* The controller never follows a pointer into memory that was freed.
DmaOwned ==
  /\ QelpIsElement
  /\ hpc = "advance" /\ hlink # TERM => hlink \in DOMAIN td
  /\ \A i \in DOMAIN td : td[i].link # TERM => td[i].link \in DOMAIN td

\* Neither pending_queue nor a running uhci_isr holds an entry that was freed,
\* nor one whose descriptors were.
PendingOwned ==
  \A e \in {pending_queue[i] : i \in DOMAIN pending_queue}
             \cup {rest[i] : i \in DOMAIN rest} :
    e \in DOMAIN te /\ te[e].first .. te[e].last \subseteq DOMAIN td

\* When the driver is told that its transfer is complete, the device has
\* answered every descriptor of the chain: the data is in the buffer.
DoneIsServed == done /\ pc # "idle" => \A i \in Mine \cap DOMAIN td : ~td[i].active

\* The stages of a control transfer are served in their order.
StagesInOrder ==
  pc # "idle" => \A i, j \in Mine \cap DOMAIN td :
    i < j /\ ~td[j].active => ~td[i].active

\* A transfer that completed while its driver waits is about to be noticed:
\* the status is on its way, or uhci_isr has yet to look at the entry.
CompletionNoticed ==
  Scheduled /\ ~done /\ ~td[chain.last].active =>
    frame # {} \/ (IF ipc = "none" THEN usbsts # {} ELSE rest # <<>>)

\* The controller and the interrupt handler never reach freed memory.
MemoryOwned == DmaOwned /\ PendingOwned

\* Driver, handler and controller agree on what is complete: the stages are
\* served in order, done means all of them, and a transfer that is complete
\* is noticed.
CompletionAgreed == DoneIsServed /\ StagesInOrder /\ CompletionNoticed

\* Although unlinking its first entry drops the list, an entry leaves
\* pending_queue only when its last descriptor is inactive.
NothingDropped ==
  [][\A i \in DOMAIN pending_queue :
       pending_queue[i] \in {pending_queue'[j] : j \in DOMAIN pending_queue'}
         \/ ~td[te[pending_queue[i]].last].active]_vars

\* The driver acts on its reading of qelp while it still holds.
EndptrFresh == [][Link => endptr = qelp]_vars

\* A transfer function returns true only for a transfer no stage of which
\* failed: its callers print "Failed to ..." otherwise.
SuccessIsTrue == [][FreeEntry => \A i \in Mine : ~td[i].failed]_vars

\* Every transfer ends, although the driver looks at done and halts in two
\* steps and is not woken again for an interrupt in between.
TransferEnds == pc = "read" ~> pc = "idle"

\* The same for the transfers of a device that answers: only a descriptor that
\* stalls or fails can keep the driver waiting.
AnsweredTransferEnds ==
  pc = "read" ~> (pc = "idle" \/ \E i \in DOMAIN td : td[i].failed)
=============================================================================
