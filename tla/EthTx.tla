-------------------------------- MODULE EthTx --------------------------------
(***************************************************************************)
(* The transmit side of a MACRAW socket (W5500 or W6300): the frame the    *)
(* guest writes into the ring, the dirty window the chip tracks, SEND, and *)
(* the vnet port the socket joins at OPEN, whose address must follow the   *)
(* guest's SHAR register.  The RSTn pulse clears the chip but not the      *)
(* table of attached sockets.                                              *)
(*                                                                         *)
(* Frame lengths are scaled: MinFrame..MaxFrame stand for 14..1514.        *)
(***************************************************************************)
EXTENDS Naturals, Sequences

CONSTANTS
    Setups,       \* <<chip, rhythm>>: "zero" rewrites at offset 0, "ring" appends at TX_WR
    Ring, MinFrame, MaxFrame,
    LateReset     \* may RSTn pulse after the socket joined the vnet?

VARIABLE tx

Wrap == 2 * Ring
Macs == {"default", "a", "b"}
Cells == 0..2

Init ==
    tx = [chip |-> "off", rhythm |-> "none", open |-> FALSE, buf |-> [i \in 0..(Ring - 1) |-> 0],
          rd |-> 0, wr |-> 0, dirty |-> FALSE, base |-> 0, len |-> 0,
          shar |-> "default", locked |-> TRUE, port |-> FALSE, entry |-> FALSE,
          entrymac |-> "default", portmac |-> "default",
          pc |-> "idle", want |-> << >>, wire |-> << >>, sendok |-> FALSE]

\* w5500_init, w6300_init.
Cleared(t) ==
    [t EXCEPT !.open = FALSE, !.buf = [i \in 0..(Ring - 1) |-> 0], !.rd = 0, !.wr = 0,
              !.dirty = FALSE, !.base = 0, !.len = 0, !.shar = "default", !.locked = TRUE,
              !.port = FALSE, !.sendok = FALSE]

-----------------------------------------------------------------------------

\* w5500_macraw_attach, w6300_macraw_attach: one table entry per (dev, sock),
\* never reused; an attached socket only has its address refreshed.  The chip
\* has its gateway enabled and the table room: without, there is no port.
MacrawAttach(t) ==
    IF t.entry
      THEN [t EXCEPT !.entrymac = t.shar,
                     !.portmac = IF t.entrymac # t.shar /\ t.port THEN t.shar ELSE t.portmac]
      ELSE [t EXCEPT !.entry = TRUE, !.entrymac = t.shar, !.port = TRUE, !.portmac = t.shar]

\* CMD_OPEN of a MACRAW socket, transmit side.
CmdOpen(t) == [MacrawAttach(t) EXCEPT !.open = TRUE, !.dirty = FALSE, !.len = 0]

\* The SHAR registers; the W6300 needs NETLCKR unlocked.
WriteShar(t, mac) ==
    IF t.chip = "w6300" /\ t.locked THEN t
    ELSE IF t.port THEN [t EXCEPT !.shar = mac, !.portmac = mac, !.entrymac = mac]
    ELSE [t EXCEPT !.shar = mac]

\* A byte into the transmit buffer, extending the dirty window when it
\* follows it, restarting it at 0, and giving up on anything else.
WriteTxByte(t, addr, cell) ==
    LET a == addr % Ring
        next == (t.base + t.len) % Ring
        s == [t EXCEPT !.buf[a] = cell]
        len == IF a = next THEN t.len + 1
               ELSE IF a = 0 /\ t.len > 0 /\ t.base # 0 THEN 1 ELSE Ring
    IN  IF ~t.dirty THEN [s EXCEPT !.dirty = TRUE, !.base = a, !.len = 1]
        ELSE [s EXCEPT !.base = IF a # next /\ a = 0 /\ t.len > 0 /\ t.base # 0 THEN 0 ELSE @,
                       !.len = IF len > Ring THEN Ring ELSE len]

\* A burst of cells from an address.
WriteBurst(t, addr, cells) ==
    LET w[n \in 0..Len(cells)] ==
            IF n = 0 THEN t ELSE WriteTxByte(w[n - 1], addr + (n - 1), cells[n])
    IN  w[Len(cells)]

\* The bytes SEND emits: the W5500 what was dirtied, the W6300 TX_RD to TX_WR.
MacrawWindow(t) ==
    IF t.chip = "w5500" /\ t.dirty THEN <<t.base, t.len>>
    ELSE <<t.rd, ((t.wr + Wrap) - t.rd) % Wrap>>

\* w5500_macraw_send, w6300_macraw_send, and CMD_SEND's way to them: without
\* a port the command still reports SEND_OK and nothing is emitted.
CmdSend(t) ==
    LET win == MacrawWindow(t)
        n == IF win[2] > Ring THEN Ring ELSE win[2]
        frame == [i \in 1..n |-> t.buf[((win[1] + i) - 1) % Ring]]
        emit == t.port /\ n \in MinFrame..MaxFrame
    IN  [t EXCEPT !.wire = IF emit THEN frame ELSE << >>,
                  !.rd = t.wr, !.sendok = TRUE,
                  !.dirty = IF t.port THEN FALSE ELSE @,
                  !.len = IF t.port THEN 0 ELSE @]

-----------------------------------------------------------------------------

PowerOn ==
    /\ tx.chip = "off"
    /\ \E s \in Setups : tx' = [tx EXCEPT !.chip = s[1], !.rhythm = s[2]]

On == tx.chip # "off"

Open == On /\ tx.pc = "idle" /\ tx' = CmdOpen(tx)

Unlock == On /\ tx.locked /\ tx' = [tx EXCEPT !.locked = FALSE]

SetShar == On /\ \E m \in Macs : tx' = WriteShar(tx, m)

\* The driver's frame: one burst into the ring, then TX_WR, then SEND.
WriteFrame ==
    /\ tx.open /\ tx.pc = "idle"
    /\ \E n \in 1..(MaxFrame + 1), c \in Cells :
          LET cells == [i \in 1..n |-> (c + i) % 3]
              at == IF tx.rhythm = "zero" THEN 0 ELSE tx.wr
          IN  tx' = [WriteBurst(tx, at, cells) EXCEPT !.want = cells, !.pc = "written",
                                                       !.wire = << >>, !.sendok = FALSE]

AdvanceWr ==
    /\ tx.pc = "written"
    /\ tx' = [tx EXCEPT !.wr = IF tx.rhythm = "zero" THEN Len(tx.want)
                               ELSE (tx.wr + Len(tx.want)) % Wrap,
                        !.pc = "ready"]

Send == tx.pc = "ready" /\ tx' = [CmdSend(tx) EXCEPT !.pc = "sent"]

Done == tx.pc = "sent" /\ tx' = [tx EXCEPT !.pc = "idle", !.want = << >>, !.wire = << >>]

\* The RSTn pulse (both edges), or the W6300's SYCR0.RST.
Reset ==
    /\ On /\ tx.pc = "idle"
    /\ LateReset \/ ~tx.entry
    /\ tx' = Cleared(tx)

Next == PowerOn \/ Open \/ Unlock \/ SetShar \/ WriteFrame \/ AdvanceWr \/ Send \/ Done \/ Reset

Spec == Init /\ [][Next]_tx

-----------------------------------------------------------------------------

\* CMD_SEND with the tracked window or the pointer window: a SEND that
\* reports SEND_OK for a frame of legal length has put exactly that frame on
\* the vnet, and a frame of any other length is dropped whole.
FramesReachWire ==
    tx.pc = "sent" =>
        /\ tx.sendok
        /\ tx.wire = IF Len(tx.want) \in MinFrame..MaxFrame THEN tx.want ELSE << >>

\* attach and the SHAR writes: the vnet filters for the address the guest
\* programmed last, whatever the order of OPEN and SHAR.
PortMacCurrent == tx.port => (tx.portmac = tx.shar /\ tx.entrymac = tx.shar)

FramesLeaveAsAddressed == FramesReachWire /\ PortMacCurrent
=============================================================================
