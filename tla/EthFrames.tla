------------------------------ MODULE EthFrames ------------------------------
(***************************************************************************)
(* The byte streams that carry register accesses to a WIZnet chip: the     *)
(* W5500 and W6300 parsers behind the PL022 SPI controller, and the        *)
(* bridge that snoops the TX FIFO of a PIO state machine and recovers the  *)
(* same W6300 frames from it, in single or quad encoding.                  *)
(*                                                                         *)
(* A transaction is what the driver means: block, direction, address and   *)
(* data.  log is what the chip performed since chip select fell.           *)
(***************************************************************************)
EXTENDS Naturals, Sequences, SequencesExt, Folds

CONSTANTS
    Links,      \* subset of {"w5500", "w6300", "pio"}
    Blocks,     \* block select values
    Addresses,  \* 16-bit start addresses
    MaxData     \* data bytes in a transaction

VARIABLE fr

Bit(b, i) == (b \div (2 ^ i)) % 2

Nibbles == {\h00, \h01, \h10, \h11}

Transactions(link) ==
    { t \in [block : Blocks, rw : {0, 1}, addr : Addresses, n : 0..MaxData, quad : BOOLEAN] :
        t.quad => link = "pio" }

Init ==
    fr = [link |-> "off", armed |-> FALSE, cs |-> FALSE, pin |-> FALSE,
          phase |-> 0, bsb |-> 0, rw |-> 0, addr |-> 0,
          hdr |-> << >>, quad |-> "unknown", skip |-> 0,
          txn |-> << >>, out |-> << >>, reads |-> 0, log |-> << >>, pc |-> "idle"]

-----------------------------------------------------------------------------
(* The chips.                                                              *)

\* w5500_write_byte/read_byte, w6300_write_byte/read_byte, as an access.
Access(f) ==
    [f EXCEPT !.log = Append(@, <<f.bsb, f.rw, f.addr>>), !.addr = (@ + 1) % 65536]

\* w5500_spi_xfer: address, control, data.
W5500SpiXfer(f, b) ==
    IF ~f.cs THEN f
    ELSE CASE f.phase = 0 -> [f EXCEPT !.addr = b * 256, !.phase = 1]
           [] f.phase = 1 -> [f EXCEPT !.addr = @ + b, !.phase = 2]
           [] f.phase = 2 -> [f EXCEPT !.bsb = b \div 8, !.rw = Bit(b, 2), !.phase = 3]
           [] f.phase = 3 -> Access(f)

\* w6300_spi_xfer: opcode, address, dummy, data.
W6300SpiXfer(f, b) ==
    IF ~f.cs THEN f
    ELSE CASE f.phase = 0 -> [f EXCEPT !.bsb = b % 32, !.rw = Bit(b, 5), !.phase = 1]
           [] f.phase = 1 -> [f EXCEPT !.addr = b * 256, !.phase = 2]
           [] f.phase = 2 -> [f EXCEPT !.addr = @ + b, !.phase = 3]
           [] f.phase = 3 -> [f EXCEPT !.phase = 4]
           [] f.phase = 4 -> Access(f)

\* w5500_spi_cs, w6300_spi_cs; the PIO bridge has a parser of its own.
SpiCs(f, active) ==
    [f EXCEPT !.cs = active,
              !.phase = IF active /\ ~f.cs /\ f.link # "pio" THEN 0 ELSE @]

-----------------------------------------------------------------------------
(* The PIO-QSPI bridge.                                                    *)

\* w6300_qspi_frame_byte: writes land at once, a read waits for RXF.
QspiFrameByte(f, b) ==
    IF ~f.cs /\ f.phase # 0 THEN f
    ELSE CASE f.phase = 0 -> [f EXCEPT !.bsb = b % 32, !.rw = Bit(b, 5), !.phase = 1]
           [] f.phase = 1 -> [f EXCEPT !.addr = b * 256, !.phase = 2]
           [] f.phase = 2 -> [f EXCEPT !.addr = @ + b, !.phase = 3]
           [] f.phase = 3 -> [f EXCEPT !.phase = 4]
           [] f.phase = 4 -> IF f.rw = 1 THEN Access(f) ELSE f

\* w6300_qspi_quad_opcode: two opcode bits in each of four bytes.
QuadOpcode(nb) ==
    LET pair(i) == 2 * Bit(nb[i], 4) + Bit(nb[i], 0)
    IN  64 * pair(1) + 16 * pair(2) + 4 * pair(3) + pair(4)

\* A header of nibble bytes whose opcode carries QSPI_QUAD_MODE.
IsQuadHeader(hdr) == (\A i \in 1..4 : hdr[i] \in Nibbles) /\ QuadOpcode(hdr) >= 128

\* w6300_qspi_push_byte: the first four bytes decide the encoding.
QspiPushByte(f, b) ==
    LET h == Append(f.hdr, b)
        g == [f EXCEPT !.hdr = << >>]
    IN  IF f.quad = "unknown"
          THEN IF Len(h) < 4 THEN [f EXCEPT !.hdr = h]
               ELSE IF IsQuadHeader(h)
                 THEN QspiFrameByte([g EXCEPT !.quad = "quad"], QuadOpcode(h))
               ELSE FoldLeft(QspiFrameByte, [g EXCEPT !.quad = "single"], h)
        ELSE IF f.quad = "quad" /\ f.phase = 0
          THEN IF Len(h) < 4 THEN [f EXCEPT !.hdr = h]
               ELSE QspiFrameByte(g, QuadOpcode(h))
        ELSE QspiFrameByte(f, b)

\* w6300_pio_sm_restart: two bit-count words will come before the stream.
PioSmRestart(f) == [f EXCEPT !.phase = 0, !.hdr = << >>, !.quad = "unknown", !.skip = 2]

\* w6300_pio_pinctrl: the OUT base arms the bridge.
PioPinctrl(f, base) == [f EXCEPT !.armed = (base = 18)]

\* w6300_pio_tx_write: skip the setup words; a frame that starts while the
\* pin is low asserts chip select by itself.
PioTxWrite(f, b) ==
    IF ~f.armed THEN f
    ELSE IF f.skip > 0 THEN [f EXCEPT !.skip = @ - 1]
    ELSE QspiPushByte([f EXCEPT !.cs = @ \/ (f.phase = 0 /\ f.hdr = << >> /\ f.pin)], b)

\* w6300_pio_rx_ready, w6300_pio_rx_level.
PioRxReady(f) == f.armed /\ f.phase = 4 /\ f.rw = 0

\* w6300_pio_rx_read: one model byte per RXF read.
PioRxRead(f) == IF PioRxReady(f) THEN Access(f) ELSE f

-----------------------------------------------------------------------------
(* The driver.                                                             *)

Hi(a) == a \div 256
Lo(a) == a % 256
Fill(n) == [i \in 1..n |-> \hA5]

\* mk_cmd_buf: the opcode as four bytes of two bits.
QuadBytes(op) == [i \in 1..4 |-> 16 * Bit(op, 9 - 2 * i) + Bit(op, 8 - 2 * i)]

\* The bytes the driver clocks out; a PIO read clocks its data out of RXF.
Stream(link, t) ==
    LET op == 32 * t.rw + t.block
        head == IF t.quad THEN QuadBytes(128 + op) ELSE <<op>>
        rest == <<Hi(t.addr), Lo(t.addr), 0>>
    IN  CASE link = "w5500" -> <<Hi(t.addr), Lo(t.addr), 8 * t.block + 4 * t.rw>> \o Fill(t.n)
          [] link = "w6300" -> <<op>> \o rest \o Fill(t.n)
          [] link = "pio"   -> head \o rest \o (IF t.rw = 1 THEN Fill(t.n) ELSE << >>)

PowerOn ==
    /\ fr.link = "off"
    /\ \E l \in Links : fr' = PioPinctrl([fr EXCEPT !.link = l], IF l = "pio" THEN 18 ELSE 0)

\* A single-mode read of block 16 or 17, a register of socket 4, with an address
\* of nibble bytes: its header is a quad header too, bit 7 included.
Ambiguous(link, t) ==
    link = "pio" /\ ~t.quad /\ IsQuadHeader(SubSeq(Stream(link, t), 1, 4))

Begin ==
    /\ fr.link # "off" /\ fr.pc = "idle"
    /\ \E t \in Transactions(fr.link) :
          fr' = [fr EXCEPT !.txn = <<t>>, !.log = << >>,
                           !.out = (IF fr.link = "pio" THEN <<31, 31>> ELSE << >>)
                                   \o Stream(fr.link, t),
                           !.reads = IF fr.link = "pio" /\ t.rw = 0 THEN t.n ELSE 0,
                           !.pc = IF fr.link = "pio" THEN "restart" ELSE "select"]

Restart == fr.pc = "restart" /\ fr' = [PioSmRestart(fr) EXCEPT !.pc = "select"]

\* gpio_put on CSn; the watch sees the edge at once, or, for the bridge, only
\* at a later GPIO write.
Select ==
    /\ fr.pc = "select"
    /\ \/ fr' = [SpiCs(fr, TRUE) EXCEPT !.pin = TRUE, !.pc = "clock"]
       \/ fr.link = "pio" /\ fr' = [fr EXCEPT !.pin = TRUE, !.pc = "clock"]

Clock ==
    /\ fr.pc = "clock" /\ fr.out # << >>
    /\ LET f == [fr EXCEPT !.out = Tail(@)]
           b == Head(fr.out)
       IN  fr' = CASE fr.link = "w5500" -> W5500SpiXfer(f, b)
                   [] fr.link = "w6300" -> W6300SpiXfer(f, b)
                   [] fr.link = "pio"   -> PioTxWrite(f, b)

ReadRxf ==
    /\ fr.pc = "clock" /\ fr.out = << >> /\ fr.reads > 0
    /\ PioRxReady(fr)
    /\ fr' = [PioRxRead(fr) EXCEPT !.reads = @ - 1]

Deselect ==
    /\ fr.pc = "clock" /\ fr.out = << >> /\ fr.reads = 0
    /\ fr' = [SpiCs(fr, FALSE) EXCEPT !.pin = FALSE, !.pc = "done"]

Finish ==
    /\ fr.pc = "done"
    /\ fr' = [fr EXCEPT !.pc = "idle", !.txn = << >>, !.log = << >>,
                        !.addr = 0, !.bsb = 0, !.rw = 0]

Next == PowerOn \/ Begin \/ Restart \/ Select \/ Clock \/ ReadRxf \/ Deselect \/ Finish

Spec == Init /\ [][Next]_fr

-----------------------------------------------------------------------------

\* The chip has performed exactly the accesses the driver meant by the end of
\* a transaction, and a driver waiting for RXF is not left waiting.
Decoded(t) ==
    /\ fr.pc = "done" =>
         fr.log = [i \in 1..t.n |-> <<t.block, t.rw, (t.addr + (i - 1)) % 65536>>]
    /\ (fr.pc = "clock" /\ fr.out = << >> /\ fr.reads > 0) => PioRxReady(fr)

\* spi_xfer, spi_cs and the bridge's parser: every transaction is decoded, the
\* same over the PL022 and over the state machine in either encoding, and
\* however late the bridge learns of the chip-select edge; except the
\* single-mode reads whose header is a quad header too (Ambiguous).
FramesDecoded ==
    \A i \in DOMAIN fr.txn : Ambiguous(fr.link, fr.txn[i]) \/ Decoded(fr.txn[i])

\* Refuted.  w6300.c:2425, "Disambiguate with the QSPI mode bits": a single-mode
\* read of socket 4's registers at address 0 reassembles to an opcode with bit 7
\* set, is taken for a quad frame, and the driver waits for RXF.
ModesDisambiguated == \A i \in DOMAIN fr.txn : Decoded(fr.txn[i])
=============================================================================
