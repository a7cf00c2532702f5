---------------------------- MODULE UhciControl ----------------------------
(***************************************************************************)
(* The stages of a control transfer: the chain of descriptors that         *)
(* uhci_create_td_control (drivers/usb/uhci.c) lays out for a request, and *)
(* what becomes of it between the controller and a device that keeps to    *)
(* the USB specification: a setup stage, data packets of the device's      *)
(* packet size with alternating toggles until the requested length is      *)
(* reached, a status stage. The controller and the device are not under    *)
(* src/; they are modelled as the driver relies on them.                   *)
(***************************************************************************)
EXTENDS Integers, Sequences

CONSTANTS
  Lengths,    \* lengths of the descriptors the driver asks for
  PacketSizes \* packet sizes a device's endpoint 0 may have

uint16_t == 0 .. 65535

ASSUME ControlAssumption ==
  /\ Lengths \subseteq uint16_t /\ PacketSizes \subseteq {8, 16, 32, 64}

VARIABLES
  length, td,  \* the request's length and its chain, <<>> between transfers
  at,          \* the descriptor the controller is at
  packet_size, \* the device's packet size
  stage,       \* the device's stage: "setup", "data", "status"
  sent,        \* bytes the device has sent
  toggle,      \* the toggle of the device's next data packet
  buf          \* the buffer: which of the device's bytes each offset holds

request == <<length, td, packet_size>>
device == <<stage, sent, toggle>>
vars == <<request, at, device, buf>>

-----------------------------------------------------------------------------
\* A slip: the division that forgets the last, short packet.
DIV_FLOOR(a, b) == a \div b

DIV_CEIL(a, b) == (a + b - 1) \div b

\* The field has 11 bits, of which the macro keeps 6.
UHCI_TD_MAX_LEN(len) == len % 64

\* What the controller makes of the field.
Bytes(field) == IF field = 2047 THEN 0 ELSE field + 1

max_pkt_size(m) == IF m < 8 THEN 8 ELSE m

td_cnt(len, m) == 2 + DIV_CEIL(len, max_pkt_size(m))

setup_td == [pid |-> "SETUP", max_len |-> UHCI_TD_MAX_LEN(8 - 1),
             toggle |-> 0, buffer |-> 0, ioc |-> FALSE]

\* Slips: a toggle that counts on; the buffer that does not move.
data_td_counts(i, m) ==
  [pid |-> "IN", max_len |-> UHCI_TD_MAX_LEN(max_pkt_size(m) - 1),
   toggle |-> 1 + i, buffer |-> i * max_pkt_size(m), ioc |-> FALSE]
data_td_one_place(i, m) ==
  [pid |-> "IN", max_len |-> UHCI_TD_MAX_LEN(max_pkt_size(m) - 1),
   toggle |-> 1 - (i % 2), buffer |-> 0, ioc |-> FALSE]

\* The i-th data stage descriptor, from 0: DATA1 first.
data_td(i, m) ==
  [pid |-> "IN", max_len |-> UHCI_TD_MAX_LEN(max_pkt_size(m) - 1),
   toggle |-> 1 - (i % 2), buffer |-> i * max_pkt_size(m), ioc |-> FALSE]

status_td(in) ==
  [pid |-> IF in THEN "OUT" ELSE "IN", max_len |-> UHCI_TD_MAX_LEN(2047),
   toggle |-> 1, buffer |-> 0, ioc |-> TRUE]

\* uhci_create_td_control_in, or _out for a request without data.
uhci_create_td_control(len, m, in) ==
  LET n == td_cnt(len, m)
  IN [k \in 1 .. n |-> CASE k = 1 -> setup_td
                         [] k = n -> status_td(in)
                         [] OTHER -> data_td(k - 2, m)]

-----------------------------------------------------------------------------
Init ==
  /\ length = 0 /\ td = <<>> /\ at = 0
  /\ packet_size \in PacketSizes
  /\ stage = "setup" /\ sent = 0 /\ toggle = 0
  /\ buf = <<>>

\* A transfer of len bytes by a driver that takes the packet size to be m.
Submit(len, m, in) ==
  /\ td = <<>>
  /\ length' = len /\ td' = uhci_create_td_control(len, m, in)
  /\ at' = 1 /\ stage' = "setup" /\ sent' = 0 /\ toggle' = 0
  /\ buf' = [k \in 0 .. (len - 1) |-> -1]
  /\ UNCHANGED packet_size

\* uhci_read_dev_desc_maxpkg: the device descriptor is still all zeros.
ReadMaxPacket == Submit(8, 0, TRUE)

\* uhci_set_device_address: no data stage.
SetAddress == Submit(0, packet_size, FALSE)

\* uhci_read_dev_desc and uhci_read_string_desc.
ReadDescriptor == \E len \in Lengths : Submit(len, packet_size, TRUE)

At(pids) == at \in DOMAIN td /\ td[at].pid \in pids

Setup ==
  /\ At({"SETUP"})
  /\ stage' = IF length = 0 THEN "status" ELSE "data"
  /\ sent' = 0 /\ toggle' = 1 /\ at' = at + 1
  /\ UNCHANGED <<request, buf>>

IsData == At({"IN"}) /\ at < Len(td)
PacketLen == IF length - sent < packet_size THEN length - sent ELSE packet_size

\* The device has a packet to send, the descriptor has room for it, the
\* controller expects its toggle, and it fits into the caller's buffer.
Accepted ==
  /\ stage = "data"
  /\ PacketLen <= Bytes(td[at].max_len)
  /\ toggle = td[at].toggle
  /\ td[at].buffer + PacketLen <= length

DataIn ==
  /\ IsData /\ Accepted
  /\ buf' = [k \in 0 .. (length - 1) |->
               IF k \in td[at].buffer .. (td[at].buffer + PacketLen - 1)
               THEN sent + k - td[at].buffer ELSE buf[k]]
  /\ sent' = sent + PacketLen /\ toggle' = 1 - toggle
  /\ stage' = IF sent + PacketLen = length THEN "status" ELSE "data"
  /\ at' = at + 1
  /\ UNCHANGED request

\* The device takes whatever the controller sends for the end of the transfer.
Status ==
  /\ td # <<>> /\ at = Len(td)
  /\ at' = at + 1
  /\ UNCHANGED <<request, device, buf>>

\* uhci_delete_td_control
Delete ==
  /\ td # <<>> /\ at > Len(td)
  /\ length' = 0 /\ td' = <<>> /\ at' = 0 /\ buf' = <<>>
  /\ stage' = "setup" /\ sent' = 0 /\ toggle' = 0
  /\ UNCHANGED packet_size

Next ==
  \/ ReadMaxPacket \/ SetAddress \/ ReadDescriptor
  \/ Setup \/ DataIn \/ Status \/ Delete

Spec == Init /\ [][Next]_vars

-----------------------------------------------------------------------------
Descriptor == [pid : {"SETUP", "IN", "OUT"}, max_len : 0 .. 2047,
               toggle : {0, 1}, buffer : Nat, ioc : BOOLEAN]

\* A descriptor's fields keep their widths.
TypeOK ==
  /\ length \in uint16_t /\ sent \in 0 .. length
  /\ packet_size \in PacketSizes
  /\ \A i \in DOMAIN td : td[i] \in Descriptor
  /\ at \in 0 .. (Len(td) + 1) /\ toggle \in {0, 1}
  /\ stage \in {"setup", "data", "status"}

\* Each data descriptor finds the device ready to send what it has room for,
\* also the first time, when the driver does not know the packet size yet.
PacketAccepted == IsData => Accepted

\* The device has sent its last packet exactly when the controller reaches the
\* status stage.
StagesAgree ==
  td # <<>> => /\ at = Len(td) => stage = "status"
               /\ at < Len(td) => stage # "status"

\* Driver and device agree on every packet of the transfer, and on where it
\* ends.
PacketsAgreed == PacketAccepted /\ StagesAgree

\* When the transfer completes, the buffer holds the bytes asked for, in order.
\* It says nothing of room: a data descriptor allows a whole packet, also where
\* less is left of the buffer, and only a device that sends no more than it was
\* asked for leaves what lies behind alone.
BufferFilled ==
  td # <<>> /\ at > Len(td) => \A k \in 0 .. (length - 1) : buf[k] = k

\* The controller sends no data in the status stage: the descriptor says that
\* its packet is a null one.
StatusIsNull ==
  td # <<>> /\ at = Len(td) /\ td[at].pid = "OUT" => Bytes(td[at].max_len) = 0
=============================================================================
