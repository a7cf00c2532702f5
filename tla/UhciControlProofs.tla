-------------------------- MODULE UhciControlProofs --------------------------
(***************************************************************************)
(* Theorems about UhciControl, for every length of the descriptors up to   *)
(* what the request's 16 bit field can ask for and every packet size. The  *)
(* invariant relates the descriptor the controller is at to the packets    *)
(* the device has sent.                                                    *)
(***************************************************************************)
EXTENDS UhciControl, TLAPS

\* The chain in memory is the one a driver that knows the packet size, or asks
\* for 8 bytes without knowing it, builds.
Built(m, in) ==
  /\ length \in uint16_t /\ m \in {0, packet_size} /\ (m = 0 => length = 8)
  /\ in \in BOOLEAN
  /\ td = uhci_create_td_control(length, m, in)

\* Bytes sent before data packet j, and the packets there are.
Before(m, j) == IF j * max_pkt_size(m) < length THEN j * max_pkt_size(m) ELSE length
Packets(m) == DIV_CEIL(length, max_pkt_size(m))

\* The controller has reached data packet at - 2, or the status stage, or is
\* past it.
Progress(m) ==
  /\ at \in 1 .. Packets(m) + 3 /\ sent \in 0 .. length /\ toggle \in {0, 1}
  /\ at = 1 => stage = "setup" /\ sent = 0
  /\ at # 1 => stage = (IF sent = length THEN "status" ELSE "data")
  /\ at \in 2 .. Packets(m) + 2 => /\ sent = Before(m, at - 2)
                                   /\ toggle = 1 - ((at - 2) % 2)
  /\ at = Packets(m) + 3 => sent = length
  /\ \A k \in 0 .. sent - 1 : buf[k] = k

Idle ==
  /\ td = <<>> /\ at = 0 /\ length = 0 /\ sent = 0
  /\ stage = "setup" /\ toggle = 0

IInv ==
  /\ packet_size \in PacketSizes
  /\ Idle \/ \E m \in {0, packet_size}, in \in BOOLEAN : Built(m, in) /\ Progress(m)

-----------------------------------------------------------------------------
(* Packets and descriptors                                                 *)

LEMMA WordNat == \A len \in uint16_t : len \in Nat
BY SMTT(30) DEF uint16_t

LEMMA ShortLengths == 0 \in uint16_t /\ 8 \in uint16_t
BY DEF uint16_t

LEMMA PacketSize == ASSUME packet_size \in PacketSizes PROVE packet_size \in {8, 16, 32, 64}
BY ControlAssumption

LEMMA PacketsNat ==
  ASSUME NEW p \in {8, 16, 32, 64}, NEW len \in Nat
  PROVE  DIV_CEIL(len, p) \in Nat
BY DEF DIV_CEIL

LEMMA Sizes ==
  ASSUME packet_size \in PacketSizes, NEW m \in {0, packet_size}
  PROVE  /\ max_pkt_size(m) \in {8, 16, 32, 64}
         /\ m # 0 => max_pkt_size(m) = packet_size
         /\ m = 0 => max_pkt_size(m) = 8
         /\ packet_size \in {8, 16, 32, 64}
<1>1. packet_size \in {8, 16, 32, 64}
  BY PacketSize
<1>2. CASE m = 0
  BY <1>1, <1>2 DEF max_pkt_size
<1>3. CASE m = packet_size
  BY <1>1, <1>3 DEF max_pkt_size
<1> QED BY <1>1, <1>2, <1>3

\* The packets before j are full, and the last one reaches the length.
LEMMA Ceiling ==
  ASSUME NEW p \in {8, 16, 32, 64}, NEW len \in Nat
  PROVE  \A j \in 0 .. DIV_CEIL(len, p) :
           /\ j * p \in Nat /\ (j + 1) * p = j * p + p
           /\ j = DIV_CEIL(len, p) <=> len <= j * p
<1>1. CASE p = 8
  BY <1>1 DEF DIV_CEIL
<1>2. CASE p = 16
  BY <1>2 DEF DIV_CEIL
<1>3. CASE p = 32
  BY <1>3 DEF DIV_CEIL
<1>4. CASE p = 64
  BY <1>4 DEF DIV_CEIL
<1> QED BY <1>1, <1>2, <1>3, <1>4

\* A data descriptor has room for one packet.
LEMMA Room ==
  ASSUME NEW p \in {8, 16, 32, 64}
  PROVE  UHCI_TD_MAX_LEN(p - 1) \in 0 .. 2047 /\ Bytes(UHCI_TD_MAX_LEN(p - 1)) = p
BY DEF UHCI_TD_MAX_LEN, Bytes

\* The chain: setup, one descriptor for each packet, status.
LEMMA Chain ==
  ASSUME packet_size \in PacketSizes, NEW m \in {0, packet_size}, NEW in, Built(m, in)
  PROVE  /\ Packets(m) \in Nat /\ Len(td) = Packets(m) + 2 /\ td # <<>>
         /\ DOMAIN td = 1 .. Packets(m) + 2
         /\ td[1] = setup_td /\ td[Packets(m) + 2] = status_td(in)
         /\ \A k \in 2 .. Packets(m) + 1 : td[k] = data_td(k - 2, m)
<1> DEFINE n == td_cnt(length, m)
<1>1. Packets(m) \in Nat /\ n = Packets(m) + 2
  <2>1. length \in Nat
    BY WordNat DEF Built
  <2>2. PICK p \in {8, 16, 32, 64} : p = max_pkt_size(m)
    BY Sizes
  <2>3. DIV_CEIL(length, p) \in Nat
    BY <2>1, <2>2, PacketsNat
  <2> QED BY <2>2, <2>3 DEF Packets, td_cnt
<1>2. td = [k \in 1 .. n |-> CASE k = 1 -> setup_td
                               [] k = n -> status_td(in)
                               [] OTHER -> data_td(k - 2, m)]
  BY DEF Built, uhci_create_td_control
<1> HIDE DEF n
<1>3. DOMAIN td = 1 .. n /\ Len(td) = n
  BY <1>1, <1>2
<1>4. td[1] = setup_td /\ td[n] = status_td(in)
  BY <1>1, <1>2
<1>5. \A k \in 2 .. n - 1 : td[k] = data_td(k - 2, m)
  BY <1>1, <1>2
<1>6. td # <<>>
  BY <1>1, <1>3
<1> QED BY <1>1, <1>3, <1>4, <1>5, <1>6

-----------------------------------------------------------------------------
(* The steps of a transfer                                                 *)

LEMMA InitIInv == Init => IInv
BY DEF Init, IInv, Idle

\* A new transfer begins at its setup stage.
LEMMA SubmitKeeps ==
  ASSUME IInv, NEW len \in uint16_t, NEW m \in {0, packet_size}, NEW in \in BOOLEAN,
         m = 0 => len = 8, Submit(len, m, in)
  PROVE  IInv'
<1>1. /\ length' = len /\ td' = uhci_create_td_control(len, m, in)
      /\ at' = 1 /\ stage' = "setup" /\ sent' = 0 /\ toggle' = 0
      /\ packet_size' = packet_size /\ packet_size \in PacketSizes
  BY DEF Submit, IInv
<1>2. Built(m, in)'
  BY <1>1 DEF Built
<1>3. Packets(m)' \in Nat
  <2>1. PICK p \in {8, 16, 32, 64} : p = max_pkt_size(m)
    BY <1>1, Sizes
  <2>2. DIV_CEIL(len, p) \in Nat
    BY PacketsNat, WordNat
  <2> QED BY <1>1, <2>1, <2>2 DEF Packets
<1>4. Progress(m)'
  BY <1>1, <1>3, WordNat DEF Progress
<1> QED BY <1>1, <1>2, <1>4 DEF IInv

\* The transfer under way, and its chain.
LEMMA UnderWay ==
  ASSUME IInv, td # <<>>
  PROVE  \E m \in {0, packet_size}, in \in BOOLEAN :
           /\ Built(m, in) /\ Progress(m) /\ Packets(m) \in Nat /\ Len(td) = Packets(m) + 2
           /\ DOMAIN td = 1 .. Packets(m) + 2
           /\ td[1] = setup_td /\ td[Packets(m) + 2] = status_td(in)
           /\ \A k \in 2 .. Packets(m) + 1 : td[k] = data_td(k - 2, m)
<1>1. PICK m \in {0, packet_size}, in \in BOOLEAN : Built(m, in) /\ Progress(m)
  BY DEF IInv, Idle
<1> QED BY <1>1, Chain DEF IInv

\* What stays of the chain while its transfer goes on.
LEMMA BuiltStays ==
  ASSUME NEW m, NEW in, Built(m, in), UNCHANGED <<length, td, packet_size>>
  PROVE  Built(m, in)' /\ Packets(m)' = Packets(m) /\ (\A j : Before(m, j)' = Before(m, j))
BY DEF Built, Packets, Before

LEMMA SetupKeeps == IInv /\ Setup => IInv'
<1> SUFFICES ASSUME IInv, Setup PROVE IInv'
  OBVIOUS
<1>1. /\ at \in DOMAIN td /\ td[at].pid = "SETUP"
      /\ stage' = (IF length = 0 THEN "status" ELSE "data")
      /\ sent' = 0 /\ toggle' = 1 /\ at' = at + 1
      /\ UNCHANGED <<length, td, packet_size, buf>>
  BY DEF Setup, At, request
<1>2. td # <<>>
  BY <1>1
<1>3. PICK m \in {0, packet_size}, in \in BOOLEAN :
        /\ Built(m, in) /\ Progress(m) /\ Packets(m) \in Nat
        /\ DOMAIN td = 1 .. Packets(m) + 2
        /\ td[1] = setup_td /\ td[Packets(m) + 2] = status_td(in)
        /\ \A k \in 2 .. Packets(m) + 1 : td[k] = data_td(k - 2, m)
  BY <1>2, UnderWay
<1>4. at = 1
  <2>1. ASSUME at \in 2 .. Packets(m) + 1 PROVE td[at].pid = "IN"
    <3>1. td[at] = data_td(at - 2, m)
      BY <1>3, <2>1
    <3> QED BY <3>1 DEF data_td
  <2>2. td[Packets(m) + 2].pid \in {"IN", "OUT"}
    BY <1>3 DEF status_td
  <2> QED BY <1>1, <1>3, <2>1, <2>2
<1>5. length \in Nat /\ packet_size \in PacketSizes
  <2>1. length \in Nat
    BY <1>3, WordNat DEF Built
  <2> QED BY <2>1 DEF IInv
<1>6. Before(m, 0) = 0
  <2>1. max_pkt_size(m) \in Nat
    BY <1>5, Sizes
  <2> QED BY <1>5, <2>1 DEF Before
<1>7. Built(m, in)' /\ Packets(m)' = Packets(m) /\ Before(m, 0)' = 0
  BY <1>1, <1>3, <1>6, BuiltStays
<1>8. Progress(m)'
  BY <1>1, <1>3, <1>4, <1>5, <1>7 DEF Progress
<1> QED BY <1>1, <1>5, <1>7, <1>8 DEF IInv

\* Where the device is while the controller is past the setup stage.
LEMMA Position ==
  ASSUME packet_size \in PacketSizes, NEW m \in {0, packet_size}, NEW in, Built(m, in),
         Progress(m), Packets(m) \in Nat, at \in 2 .. Packets(m) + 2
  PROVE  \E p \in {8, 16, 32, 64} :
           /\ p = max_pkt_size(m) /\ length \in Nat
           /\ at = Packets(m) + 2 => sent = length
           /\ at # Packets(m) + 2 =>
                /\ sent \in Nat /\ sent = (at - 2) * p /\ sent < length
                /\ Before(m, at - 1) = IF sent + p < length THEN sent + p ELSE length
<1>1. PICK p \in {8, 16, 32, 64} : p = max_pkt_size(m)
  BY Sizes
<1>2. length \in Nat
  BY WordNat DEF Built
<1> DEFINE j == at - 2
<1>3. j \in 0 .. DIV_CEIL(length, p) /\ Packets(m) = DIV_CEIL(length, p)
  BY <1>1 DEF Packets
<1>4. /\ j * p \in Nat /\ (j + 1) * p = j * p + p
      /\ j = DIV_CEIL(length, p) <=> length <= j * p
  BY <1>2, <1>3, Ceiling
<1>5. sent = IF j * p < length THEN j * p ELSE length
  BY <1>1 DEF Progress, Before
<1>6. at - 1 = j + 1 /\ (at = Packets(m) + 2 <=> j = DIV_CEIL(length, p))
  BY <1>3
<1>7. Before(m, at - 1) = IF j * p + p < length THEN j * p + p ELSE length
  BY <1>1, <1>4, <1>6 DEF Before
<1>8. CASE at = Packets(m) + 2
  BY <1>1, <1>2, <1>4, <1>5, <1>6, <1>8
<1>9. CASE at # Packets(m) + 2
  <2> DEFINE x == j * p
  <2>1. sent = x /\ x \in Nat /\ x < length
    BY <1>2, <1>4, <1>5, <1>6, <1>9
  <2> QED BY <1>1, <1>2, <1>7, <1>9, <2>1
<1> QED BY <1>8, <1>9

\* The packet at a data descriptor: as long as the descriptor has room for, or
\* the rest, and at its place in the buffer.
LEMMA Packet ==
  ASSUME IInv, IsData
  PROVE  \E m \in {0, packet_size}, in \in BOOLEAN :
           /\ Built(m, in) /\ Progress(m) /\ Packets(m) \in Nat
           /\ at \in 2 .. Packets(m) + 1
           /\ sent \in Nat /\ length \in Nat /\ sent < length /\ td[at].buffer = sent
           /\ PacketLen \in Nat /\ sent + PacketLen <= length
           /\ Before(m, at - 1) = sent + PacketLen
           /\ PacketLen <= Bytes(td[at].max_len) /\ toggle = td[at].toggle
<1>1. td # <<>> /\ at \in DOMAIN td /\ td[at].pid = "IN" /\ at < Len(td)
  BY DEF IsData, At
<1>2. PICK m \in {0, packet_size}, in \in BOOLEAN :
        /\ Built(m, in) /\ Progress(m) /\ Packets(m) \in Nat /\ Len(td) = Packets(m) + 2
        /\ DOMAIN td = 1 .. Packets(m) + 2
        /\ td[1] = setup_td
        /\ \A k \in 2 .. Packets(m) + 1 : td[k] = data_td(k - 2, m)
  BY <1>1, UnderWay
<1>3. at \in 2 .. Packets(m) + 1
  <2>1. td[1].pid = "SETUP"
    BY <1>2 DEF setup_td
  <2> QED BY <1>1, <1>2, <2>1
<1>4. packet_size \in PacketSizes
  BY DEF IInv
<1>5. PICK p \in {8, 16, 32, 64} :
        /\ p = max_pkt_size(m) /\ length \in Nat
        /\ sent \in Nat /\ sent = (at - 2) * p /\ sent < length
        /\ Before(m, at - 1) = IF sent + p < length THEN sent + p ELSE length
  <2>1. at \in 2 .. Packets(m) + 2 /\ at # Packets(m) + 2
    BY <1>2, <1>3
  <2>2. PICK p \in {8, 16, 32, 64} :
          /\ p = max_pkt_size(m) /\ length \in Nat
          /\ at = Packets(m) + 2 => sent = length
          /\ at # Packets(m) + 2 =>
               /\ sent \in Nat /\ sent = (at - 2) * p /\ sent < length
               /\ Before(m, at - 1) = IF sent + p < length THEN sent + p ELSE length
    BY ZenonT(60), <1>2, <1>4, <2>1, Position
  <2> QED BY <2>1, <2>2
<1>6. td[at] = data_td(at - 2, m)
  BY <1>2, <1>3
<1>7. /\ td[at].buffer = sent /\ td[at].max_len = UHCI_TD_MAX_LEN(p - 1)
      /\ td[at].toggle = 1 - ((at - 2) % 2)
  BY <1>5, <1>6 DEF data_td
<1>8. toggle = td[at].toggle
  BY <1>2, <1>3, <1>7 DEF Progress
<1>9. Bytes(td[at].max_len) = p
  BY <1>7, Room
<1>10. PacketLen = IF length - sent < p THEN length - sent ELSE p
  <2>1. packet_size \in {8, 16, 32, 64}
    BY <1>4, PacketSize
  <2>2. CASE m # 0
    BY <1>4, <1>5, <2>2, Sizes DEF PacketLen
  <2>3. CASE m = 0
    <3>1. length = 8 /\ p = 8
      BY <1>2, <1>4, <1>5, <2>3, Sizes DEF Built
    <3>2. sent = (at - 2) * 8
      BY <1>5, <3>1
    <3>3. sent = 0
      BY <1>2, <1>3, <1>5, <3>1, <3>2
    <3> QED BY <2>1, <3>1, <3>3 DEF PacketLen
  <2> QED BY <2>2, <2>3
<1>11. /\ PacketLen \in Nat /\ sent + PacketLen <= length /\ PacketLen <= p
       /\ Before(m, at - 1) = sent + PacketLen
  BY <1>5, <1>10
<1> QED BY <1>2, <1>3, <1>5, <1>7, <1>8, <1>9, <1>11

LEMMA DataInKeeps == IInv /\ DataIn => IInv'
<1> SUFFICES ASSUME IInv, DataIn PROVE IInv'
  OBVIOUS
<1>1. PICK m \in {0, packet_size}, in \in BOOLEAN :
        /\ Built(m, in) /\ Progress(m) /\ Packets(m) \in Nat
        /\ at \in 2 .. Packets(m) + 1
        /\ sent \in Nat /\ length \in Nat /\ sent < length /\ td[at].buffer = sent
        /\ PacketLen \in Nat /\ sent + PacketLen <= length
        /\ Before(m, at - 1) = sent + PacketLen
  BY Packet DEF DataIn
<1> DEFINE len == PacketLen
<1>2. /\ buf' = [k \in 0 .. (length - 1) |->
                   IF k \in td[at].buffer .. (td[at].buffer + len - 1)
                   THEN sent + k - td[at].buffer ELSE buf[k]]
      /\ sent' = sent + len /\ toggle' = 1 - toggle
      /\ stage' = (IF sent + len = length THEN "status" ELSE "data")
      /\ at' = at + 1
      /\ UNCHANGED <<length, td, packet_size>>
  BY DEF DataIn, request
<1> PICK j : j = at - 1
  OBVIOUS
<1>3. Built(m, in)' /\ Packets(m)' = Packets(m) /\ Before(m, j)' = Before(m, j)
  BY <1>1, <1>2, BuiltStays
<1> HIDE DEF len
<1>4. \A k \in 0 .. sent' - 1 : buf'[k] = k
  <2> SUFFICES ASSUME NEW k \in 0 .. sent' - 1 PROVE buf'[k] = k
    OBVIOUS
  <2>1. k \in 0 .. (length - 1) /\ len \in Nat
    BY <1>1, <1>2 DEF len
  <2>2. buf'[k] = IF k \in sent .. (sent + len - 1) THEN sent + k - sent ELSE buf[k]
    BY <1>1, <1>2, <2>1
  <2>3. CASE k \in sent .. (sent + len - 1)
    BY <1>1, <2>1, <2>2, <2>3
  <2>4. CASE k \notin sent .. (sent + len - 1)
    <3>1. k \in 0 .. sent - 1
      BY SMTT(30), <1>1, <1>2, <2>1, <2>4
    <3> QED BY <1>1, <2>2, <2>4, <3>1 DEF Progress
  <2> QED BY <2>3, <2>4
<1>5. toggle = 1 - ((at - 2) % 2)
  BY <1>1 DEF Progress
<1>6. toggle' = 1 - ((at' - 2) % 2) /\ toggle' \in {0, 1}
  BY SMTT(30), <1>1, <1>2, <1>5
<1>7. /\ at' - 2 = j /\ at' \in 2 .. Packets(m) + 2
      /\ sent' = Before(m, j)' /\ sent' \in 0 .. length
  BY <1>1, <1>2, <1>3 DEF len
<1>8. sent' = Before(m, at - 2)'
  BY <1>7 DEF Before
<1>9. Progress(m)'
  <2>1. /\ at' \in 1 .. Packets(m)' + 3 /\ at' # 1 /\ at' # Packets(m)' + 3
        /\ sent' \in 0 .. length' /\ toggle' \in {0, 1}
    BY SMTT(30), <1>1, <1>2, <1>3, <1>6, <1>7
  <2>2. stage' = IF sent' = length' THEN "status" ELSE "data"
    BY <1>2
  <2> QED BY <1>4, <1>6, <1>8, <2>1, <2>2 DEF Progress
<1> QED BY <1>2, <1>3, <1>9 DEF IInv

LEMMA StatusKeeps == IInv /\ Status => IInv'
<1> SUFFICES ASSUME IInv, Status PROVE IInv'
  OBVIOUS
<1>1. /\ td # <<>> /\ at = Len(td) /\ at' = at + 1
      /\ UNCHANGED <<length, td, packet_size, stage, sent, toggle, buf>>
  BY DEF Status, request, device
<1>2. PICK m \in {0, packet_size}, in \in BOOLEAN :
        /\ Built(m, in) /\ Progress(m) /\ Packets(m) \in Nat /\ Len(td) = Packets(m) + 2
  BY <1>1, UnderWay
<1>3. sent = length
  BY <1>1, <1>2, Position DEF IInv
<1>4. Built(m, in)' /\ Packets(m)' = Packets(m)
  BY <1>1, <1>2, BuiltStays
<1>5. Progress(m)'
  BY <1>1, <1>2, <1>3, <1>4 DEF Progress
<1> QED BY <1>1, <1>4, <1>5 DEF IInv

LEMMA NextKeeps == IInv /\ [Next]_vars => IInv'
<1> SUFFICES ASSUME IInv, [Next]_vars PROVE IInv'
  OBVIOUS
<1>1. CASE ReadMaxPacket
  BY <1>1, SubmitKeeps, ShortLengths DEF ReadMaxPacket
<1>2. CASE SetAddress
  <2>1. Submit(0, packet_size, FALSE)
    BY <1>2 DEF SetAddress
  <2>2. packet_size # 0
    BY PacketSize DEF IInv
  <2> QED BY <2>1, <2>2, SubmitKeeps, ShortLengths
<1>3. CASE ReadDescriptor
  <2>1. PICK len \in Lengths : Submit(len, packet_size, TRUE)
    BY <1>3 DEF ReadDescriptor
  <2>2. len \in uint16_t /\ packet_size # 0
    BY ControlAssumption, PacketSize DEF IInv
  <2> QED BY <2>1, <2>2, SubmitKeeps
<1>4. CASE Delete
  BY <1>4 DEF Delete, IInv, Idle
<1>5. CASE UNCHANGED vars
  <2>1. UNCHANGED <<length, td, packet_size, at, stage, sent, toggle, buf>>
    BY <1>5 DEF vars, request, device
  <2> QED BY <2>1 DEF IInv, Idle, Built, Progress, Packets, Before
<1> QED BY <1>1, <1>2, <1>3, <1>4, <1>5, SetupKeeps, DataInKeeps, StatusKeeps DEF Next

LEMMA IInvHolds == Spec => []IInv
BY InitIInv, NextKeeps, PTL DEF Spec

-----------------------------------------------------------------------------
(* What a transfer keeps to                                                *)

LEMMA Descriptors ==
  ASSUME packet_size \in PacketSizes, NEW m \in {0, packet_size}, NEW in \in BOOLEAN
  PROVE  /\ setup_td \in Descriptor /\ status_td(in) \in Descriptor
         /\ \A i \in Nat : data_td(i, m) \in Descriptor
<1>1. PICK p \in {8, 16, 32, 64} : p = max_pkt_size(m)
  BY Sizes
<1>2. UHCI_TD_MAX_LEN(8 - 1) \in 0 .. 2047 /\ UHCI_TD_MAX_LEN(2047) \in 0 .. 2047
  BY DEF UHCI_TD_MAX_LEN
<1>3. UHCI_TD_MAX_LEN(max_pkt_size(m) - 1) \in 0 .. 2047
  BY <1>1, Room
<1>4. \A i \in Nat : 1 - (i % 2) \in {0, 1} /\ i * max_pkt_size(m) \in Nat
  BY <1>1
<1> QED BY <1>2, <1>3, <1>4 DEF setup_td, status_td, data_td, Descriptor

\* Descriptors and counters keep their ranges, and the controller stays within
\* the chain.
THEOREM TypesHold == Spec => []TypeOK
<1>1. IInv => TypeOK
  <2> SUFFICES ASSUME IInv PROVE TypeOK
    OBVIOUS
  <2>1. CASE Idle
    BY <2>1, ShortLengths DEF IInv, Idle, TypeOK
  <2>2. CASE ~Idle
    <3>1. td # <<>>
      <4>1. PICK m \in {0, packet_size}, in \in BOOLEAN : Built(m, in)
        BY <2>2 DEF IInv
      <4> QED BY <4>1, Chain DEF IInv
    <3>2. PICK m \in {0, packet_size}, in \in BOOLEAN :
            /\ Built(m, in) /\ Progress(m) /\ Packets(m) \in Nat /\ Len(td) = Packets(m) + 2
            /\ DOMAIN td = 1 .. Packets(m) + 2
            /\ td[1] = setup_td /\ td[Packets(m) + 2] = status_td(in)
            /\ \A k \in 2 .. Packets(m) + 1 : td[k] = data_td(k - 2, m)
      BY <3>1, UnderWay
    <3>3. \A i \in DOMAIN td : td[i] \in Descriptor
      <4> SUFFICES ASSUME NEW i \in DOMAIN td PROVE td[i] \in Descriptor
        OBVIOUS
      <4>1. CASE i = 1
        BY <3>2, <4>1, Descriptors DEF IInv
      <4>2. CASE i = Packets(m) + 2
        BY <3>2, <4>2, Descriptors DEF IInv
      <4>3. CASE i \in 2 .. Packets(m) + 1
        <5>1. td[i] = data_td(i - 2, m) /\ i - 2 \in Nat
          BY <3>2, <4>3
        <5> QED BY <5>1, Descriptors DEF IInv
      <4> QED BY <3>2, <4>1, <4>2, <4>3
    <3>4. length \in uint16_t /\ stage \in {"setup", "data", "status"}
      BY <3>2 DEF Built, Progress
    <3>5. at \in 0 .. (Len(td) + 1) /\ sent \in 0 .. length /\ toggle \in {0, 1}
      BY <3>2 DEF Progress
    <3> QED BY <3>3, <3>4, <3>5 DEF TypeOK, IInv
  <2> QED BY <2>1, <2>2
<1> QED BY <1>1, IInvHolds, PTL

\* Driver and device agree on every packet, and on where the data stage ends,
\* whether the driver knows the packet size or reads only the first 8 bytes
\* to find it out.
THEOREM Agreement == Spec => []PacketsAgreed
<1>1. IInv => PacketAccepted
  <2> SUFFICES ASSUME IInv, IsData PROVE Accepted
    BY DEF PacketAccepted
  <2>1. PICK m \in {0, packet_size}, in \in BOOLEAN :
          /\ Progress(m) /\ Packets(m) \in Nat /\ at \in 2 .. Packets(m) + 1
          /\ sent \in Nat /\ length \in Nat /\ sent < length /\ td[at].buffer = sent
          /\ PacketLen \in Nat /\ sent + PacketLen <= length
          /\ PacketLen <= Bytes(td[at].max_len) /\ toggle = td[at].toggle
    BY Packet
  <2>2. stage = "data"
    BY <2>1 DEF Progress
  <2> QED BY <2>1, <2>2 DEF Accepted
<1>2. IInv => StagesAgree
  <2> SUFFICES ASSUME IInv, td # <<>>
               PROVE  (at = Len(td) => stage = "status") /\ (at < Len(td) => stage # "status")
    BY DEF StagesAgree
  <2>1. PICK m \in {0, packet_size}, in \in BOOLEAN :
          Built(m, in) /\ Progress(m) /\ Packets(m) \in Nat /\ Len(td) = Packets(m) + 2
    BY UnderWay
  <2>2. CASE at = 1
    BY <2>1, <2>2 DEF Progress
  <2>3. CASE at = Packets(m) + 3
    BY <2>1, <2>3
  <2>4. CASE at \in 2 .. Packets(m) + 2
    <3>1. PICK p \in {8, 16, 32, 64} :
            /\ length \in Nat
            /\ at = Packets(m) + 2 => sent = length
            /\ at # Packets(m) + 2 => sent \in Nat /\ sent < length
      <4>1. PICK p \in {8, 16, 32, 64} :
              /\ p = max_pkt_size(m) /\ length \in Nat
              /\ at = Packets(m) + 2 => sent = length
              /\ at # Packets(m) + 2 =>
                   /\ sent \in Nat /\ sent = (at - 2) * p /\ sent < length
                   /\ Before(m, at - 1) = IF sent + p < length THEN sent + p ELSE length
        BY ZenonT(60), <2>1, <2>4, Position DEF IInv
      <4> QED BY <4>1
    <3>2. stage = IF sent = length THEN "status" ELSE "data"
      BY <2>1, <2>4 DEF Progress
    <3> QED BY <2>1, <2>4, <3>1, <3>2
  <2> QED BY <2>1, <2>2, <2>3, <2>4 DEF Progress
<1> QED BY <1>1, <1>2, IInvHolds, PTL DEF PacketsAgreed

\* With a device that sends no more than it was asked for, a completed transfer
\* has put every byte asked for at its place, in the order it was sent.
THEOREM Filled == Spec => []BufferFilled
<1>1. IInv => BufferFilled
  <2> SUFFICES ASSUME IInv, td # <<>>, at > Len(td)
               PROVE  \A k \in 0 .. (length - 1) : buf[k] = k
    BY DEF BufferFilled
  <2>1. PICK m \in {0, packet_size}, in \in BOOLEAN :
          Built(m, in) /\ Progress(m) /\ Packets(m) \in Nat /\ Len(td) = Packets(m) + 2
    BY UnderWay
  <2>2. at = Packets(m) + 3
    BY <2>1 DEF Progress
  <2> QED BY <2>1, <2>2 DEF Progress
<1> QED BY <1>1, IInvHolds, PTL
=============================================================================
