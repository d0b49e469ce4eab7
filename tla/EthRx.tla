-------------------------------- MODULE EthRx --------------------------------
(***************************************************************************)
(* The receive side of a WIZnet socket, for the W5500 and the W6300.  The  *)
(* network appends to a ring (vnet frames on a MACRAW socket, host bytes   *)
(* and datagrams on an offload socket) while the guest's driver measures,  *)
(* reads and consumes it in several SPI transactions, so the network can   *)
(* append between any two of them.                                         *)
(*                                                                         *)
(* A ring cell stands for a byte; the 2-byte length prefix of a MACRAW     *)
(* frame and the PACKET INFO header of a datagram are one cell.  Payload   *)
(* cells carry a running number so that a stale, lost or reordered cell    *)
(* shows.  Interrupt bits are in EthSockets.                               *)
(***************************************************************************)
EXTENDS Naturals, Sequences, SequencesExt

CONSTANTS
    Setups,       \* <<chip, mode, guest>>: "w5500"/"w6300", "macraw"/"tcp"/"udp", "head"/"pointer"
    Ring,         \* cells of the receive buffer (RX_BUF_SIZE)
    MaxPayload,   \* longest frame, datagram or burst, in cells
    LenMod        \* values of the length in a W6300 PACKET INFO (11 bits: 2048)

VARIABLE rx

Wrap == 2 * Ring           \* uint16_t pointers: a multiple of the ring size
Tags == Ring + 2           \* payload numbers, modulo more than the ring holds

Plus(a, b) == (a + b) % Wrap
Minus(a, b) == ((a + Wrap) - b) % Wrap
Least(a, b) == IF a < b THEN a ELSE b

Len1(n) == [hdr |-> TRUE, n |-> n]
Data(t) == [hdr |-> FALSE, n |-> t]
Payload(tag, n) == [i \in 1..n |-> Data((tag + i) % Tags)]

\* Write cells at an absolute position, modulo the ring.
Put(ring, at, cells) ==
    [i \in 0..(Ring - 1) |->
        LET hits == {k \in 1..Len(cells) : ((at + k) - 1) % Ring = i}
        IN  IF hits = {} THEN ring[i] ELSE cells[CHOOSE k \in hits : TRUE]]

-----------------------------------------------------------------------------
(* The chip.                                                               *)

\* picoemu attaches a chip; due is what the guest must still read, in order, and
\* loss how the chip itself made that impossible: it dropped bytes that were not
\* read, or told a wrong length.  A behaviour is followed up to there.
Init ==
    rx = [chip |-> "off", mode |-> "none", guest |-> "none",
          ring |-> [i \in 0..(Ring - 1) |-> Data(0)],
          base |-> 0, rd |-> 0, wr |-> 0, rsr |-> 0, tag |-> 0,
          pc |-> "idle", n |-> 0, due |-> << >>, ok |-> TRUE, loss |-> "none"]

\* CMD_OPEN: only a MACRAW socket starts from an empty ring.  An offload
\* socket keeps its pointers, and with them what the last connection left.
Open(r) ==
    IF r.mode = "macraw"
      THEN [r EXCEPT !.base = 0, !.rd = 0, !.wr = 0, !.rsr = 0, !.due = << >>]
      ELSE r

Free(r) == Ring - r.rsr

\* Append cells at a position; the guest owes itself the same cells.
Append2(r, at, cells, len) ==
    [r EXCEPT !.ring = Put(r.ring, at, cells),
              !.wr = Plus(at, Len(cells)),
              !.rsr = r.rsr + Len(cells),
              !.tag = (r.tag + len) % Tags,
              !.due = r.due \o cells]

\* w5500_macraw_vnet_rx, w6300_macraw_vnet_rx_core: the prefix counts itself,
\* and a frame that does not fit is dropped.
MacrawVnetRx(r, len) ==
    IF Free(r) < len + 1 THEN r
    ELSE Append2(r, Plus(r.base, r.rsr), <<Len1(len + 1)>> \o Payload(r.tag, len), len)

\* The length in the header of a datagram.
PacketInfoLen(chip, n) == IF chip = "w6300" THEN n % LenMod ELSE n

\* The data part of w5500_poll and w6300_poll: a stream takes what fits, a
\* datagram needs room for its header and is cut to the rest.
PollData(r, len) ==
    LET room == IF r.mode = "udp" THEN Free(r) - 1 ELSE Free(r)
        n == Least(len, room)
        head == IF r.mode = "udp" THEN <<Len1(PacketInfoLen(r.chip, n))>> ELSE << >>
    IN  IF Free(r) = 0 \/ (r.mode = "udp" /\ Free(r) <= 1) THEN r
        ELSE [Append2(r, r.wr, head \o Payload(r.tag, n), n)
                EXCEPT !.loss = IF head \in {<< >>, <<Len1(n)>>} THEN @ ELSE "mislabelled"]

\* Head moved to rd, with what is left after it.
Commit(r, pulled) ==
    LET took == Least(pulled, r.rsr)
    IN  [r EXCEPT !.base = r.rd, !.rsr = r.rsr - took,
                  !.wr = Plus(r.rd, r.rsr - took)]

\* Consume the entry at the head: the MACRAW rhythm that never writes RX_RD.
DropEntry(r) ==
    LET total == Least(r.ring[r.base % Ring].n, r.rsr)
        rd == Plus(r.base, total)
    IN  [r EXCEPT !.base = rd, !.rd = rd, !.rsr = r.rsr - total,
                  !.wr = Plus(rd, r.rsr - total)]

\* Variant: RECV on an empty queue with RX_RD moved is not told apart.
RecvPhantom(r) ==
    IF r.mode = "macraw"
      THEN DropEntry(r)
    ELSE IF r.chip = "w5500" THEN [r EXCEPT !.rsr = 0]
    ELSE IF r.rsr # 0 /\ r.rd # r.base THEN Commit(r, Minus(r.rd, r.base))
    ELSE r

\* The MACRAW half of CMD_RECV, on either chip.
MacrawRecv(r) ==
    IF r.rd # r.base /\ r.rsr > 0 THEN Commit(r, Minus(r.rd, r.base))
    ELSE IF r.rsr = 0 THEN r
    ELSE DropEntry(r)

\* CMD_RECV of the W5500: an offload socket's size is zeroed, whatever RX_RD says
\* was read and whatever came since the driver measured.
W5500Recv(r) ==
    IF r.mode = "macraw" THEN MacrawRecv(r)
    ELSE [r EXCEPT !.rsr = 0, !.loss = IF r.due = << >> THEN @ ELSE "dropped"]

\* CMD_RECV of the W6300 on an offload socket: the RX_RD advance is consumed.
OffloadRecv(r) ==
    IF r.rsr # 0 /\ r.rd # r.base THEN Commit(r, Minus(r.rd, r.base)) ELSE r

Recv(r) ==
    IF r.chip = "w5500" THEN W5500Recv(r)
    ELSE IF r.mode = "macraw" THEN MacrawRecv(r)
    ELSE OffloadRecv(r)

\* The Sn_RX_RSR register: the W6300 recomputes it for offload sockets.
ReadRsr(r) ==
    IF r.chip = "w6300" /\ r.mode # "macraw" THEN Minus(r.wr, r.rd) ELSE r.rsr

\* A byte of the receive buffer.  MACRAW reads are relative to the head: the
\* first address of the chip-select frame is the cursor (rx_cursor_base).
ReadByte(r, addr, start) ==
    IF r.mode = "macraw" THEN r.ring[(r.base + Minus(addr, start)) % Ring]
                         ELSE r.ring[addr % Ring]

-----------------------------------------------------------------------------
(* The driver.  A burst is one SPI frame; the stub guests of the tree read *)
(* from address 0, ioLibrary from RX_RD.                                   *)

\* Read n cells from an address and compare them with what is due.
Burst(r, start, n) ==
    LET got == [i \in 1..n |-> ReadByte(r, Plus(start, i - 1), start)]
        fits == n <= Len(r.due) /\ got = SubSeq(r.due, 1, n)
    IN  [r EXCEPT !.ok = r.ok /\ fits,
                  !.due = IF fits THEN SubSeq(r.due, n + 1, Len(r.due)) ELSE << >>]

PowerOn ==
    /\ rx.chip = "off"
    /\ \E s \in Setups :
          rx' = Open([rx EXCEPT !.chip = s[1], !.mode = s[2], !.guest = s[3]])

FrameArrives ==
    /\ rx.mode = "macraw"
    /\ \E len \in 1..MaxPayload : rx' = MacrawVnetRx(rx, len)

HostData ==
    /\ rx.mode \in {"tcp", "udp"}
    /\ \E len \in 1..MaxPayload : rx' = PollData(rx, len)

\* Read the size register; zero means nothing to do.
Measure ==
    /\ rx.chip # "off" /\ rx.pc = "idle" /\ ReadRsr(rx) > 0
    /\ rx' = [rx EXCEPT !.n = ReadRsr(rx),
                        !.pc = IF rx.guest = "head" THEN "frame"
                               ELSE IF rx.mode = "tcp" THEN "body" ELSE "header"]

\* In-tree guests: the prefix and the frame in one burst from address 0.
ReadFrame ==
    /\ rx.pc = "frame"
    /\ rx' = [Burst(rx, 0, ReadByte(rx, 0, 0).n) EXCEPT !.pc = "recv"]

\* ioLibrary: the header first; RX_RD moves past it and RECV commits it.
ReadHeader ==
    /\ rx.pc = "header"
    /\ LET h == ReadByte(rx, rx.rd, rx.rd)
           payload == IF rx.mode = "macraw" THEN h.n - 1 ELSE h.n
       IN  rx' = [Burst(rx, rx.rd, 1) EXCEPT
                    !.rd = Plus(rx.rd, 1), !.n = payload, !.pc = "recv_header"]

RecvHeader == rx.pc = "recv_header" /\ rx' = [Recv(rx) EXCEPT !.pc = "body"]

ReadBody ==
    /\ rx.pc = "body"
    /\ \E k \in IF rx.mode = "tcp" THEN 1..rx.n ELSE {rx.n} :
          rx' = [Burst(rx, rx.rd, k) EXCEPT !.rd = Plus(rx.rd, k), !.pc = "recv"]

RecvDone == rx.pc = "recv" /\ rx' = [Recv(rx) EXCEPT !.pc = "idle", !.n = 0]

\* The driver closes and opens the socket between two receptions.
Reopen == rx.chip # "off" /\ rx.pc = "idle" /\ rx' = Open(rx)

Next ==
    /\ rx.loss = "none"
    /\ \/ PowerOn \/ FrameArrives \/ HostData \/ Measure \/ ReadFrame \/ ReadHeader
       \/ RecvHeader \/ ReadBody \/ RecvDone \/ Reopen

Spec == Init /\ [][Next]_rx

-----------------------------------------------------------------------------

\* vnet_rx, poll, RECV and the buffer reads: whatever the network appends
\* between the driver's transactions, the driver reads exactly the accepted
\* bytes, in order and none twice, and RX_RSR counts the bytes not consumed
\* whenever the driver is at rest.  It holds up to the first RECV of a W5500
\* offload socket that drops bytes (RecvCommits) and the first datagram too long
\* for its header (LengthsTrue).
StreamIntact ==
    rx.loss = "none" =>
        /\ rx.ok
        /\ rx.pc = "idle" => ReadRsr(rx) = Len(rx.due)

\* "RECV commits the guest's RX_RD advance, exactly like the W5500 model" (w6300.c
\* 1088-1089): RECV gives up no byte that the driver has not read.
RecvCommits == rx.loss # "dropped"

\* "DATA length = payload length (11-bit field)" (w6300.c 1922-1923, 1954-1955): the header
\* of a datagram tells the length of what follows it.
LengthsTrue == rx.loss # "mislabelled"
=============================================================================
