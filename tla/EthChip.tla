------------------------------- MODULE EthChip -------------------------------
(***************************************************************************)
(* The common registers of the W5500 and W6300 boards: the interrupt chain *)
(* that ends in the INTn pin, the W6300's lock groups, soft reset and      *)
(* socket-less commands, of which the router solicitation (RS) waits for   *)
(* an advertisement on the wire or for its poll budget.                    *)
(*                                                                         *)
(* One socket stands for eight.  lag says what happened to the INTn chain  *)
(* on a path that does not recompute the pin: a source was withdrawn (a    *)
(* reset, IR of the W5500) or a mask was written.  asked says that the     *)
(* guest waits for the answer to an RS, waited for how many polls of the   *)
(* live board, and released that an SLIRCLR took the command out of flight *)
(* without answering it.                                                   *)
(***************************************************************************)
EXTENDS Naturals

CONSTANTS
    Boards,       \* subset of {"w5500", "w6300"}
    RsBudget      \* poll ticks of an RS: SLRTR ticks times SLRCR + 1

ASSUME ChipAssumption == RsBudget \in Nat \ {0} /\ "off" \notin Boards

VARIABLE ec

\* "ARP" stands for every command that completes from the write.
SlBits == {"ARP", "RS", "TOUT"}

\* w5500_init, w6300_init.
ChipReset(c) ==
    [c EXCEPT !.chiplock = TRUE, !.netlock = TRUE, !.ien = TRUE, !.imr = FALSE,
              !.slimr = FALSE, !.simr = TRUE, !.ir = FALSE, !.slir = {}, !.snir = {},
              !.wol = FALSE, !.block6 = FALSE, !.slrcr = FALSE,
              !.pend = FALSE, !.rs = FALSE, !.ticks = 0, !.asked = FALSE,
              !.waited = 0, !.released = FALSE, !.lag = "withdrawn"]

ChipInit ==
    ec = ChipReset([chip |-> "off", live |-> FALSE, rstn |-> TRUE, intn |-> FALSE,
                lag |-> "none",
                chiplock |-> TRUE, netlock |-> TRUE, ien |-> TRUE, imr |-> FALSE,
                slimr |-> FALSE, simr |-> TRUE, ir |-> FALSE, slir |-> {}, snir |-> {},
                wol |-> FALSE, block6 |-> FALSE, slrcr |-> FALSE,
                pend |-> FALSE, rs |-> FALSE, ticks |-> 0, asked |-> FALSE,
                waited |-> 0, released |-> FALSE])

-----------------------------------------------------------------------------

\* The W5500 pin: any socket or common interrupt, unmasked.
W5500Pending(c) == c.snir # {} \/ c.ir

\* w6300_int_pending: IEN over IR, SLIR and the socket chain.
W6300Pending(c) ==
    c.ien /\ ((c.ir /\ c.imr) \/ (c.slir # {} /\ c.slimr) \/ (c.snir # {} /\ c.simr))

Pending(c) == IF c.chip = "w5500" THEN W5500Pending(c) ELSE W6300Pending(c)

\* w5500_board_refresh_int, w6300_board_refresh_int and update_int: intn is
\* TRUE when the active-low pin is asserted.
RefreshInt(c) == [c EXCEPT !.intn = Pending(c), !.lag = "none"]

\* process_socket_cmd, vnet_rx: a socket interrupt, then the pin.
SocketEvent(c, bit) == RefreshInt([c EXCEPT !.snir = @ \cup {bit}])

\* w5500_write_sn_ir, and Sn_IR and Sn_IRCLR of the W6300.
WriteSnIr(c, bits) == RefreshInt([c EXCEPT !.snir = @ \ bits])

\* w5500_write_byte of IR: no refresh; the next poll sees it.
W5500WriteIr(c) == [c EXCEPT !.ir = FALSE, !.lag = "withdrawn"]

\* IRCLR of the W6300.
WriteIrclr(c) == RefreshInt([c EXCEPT !.ir = FALSE])

\* SLIRCLR: the RS bit disarms the capture, an empty SLIR the command.
WriteSlirclr(c, bits) ==
    LET left == c.slir \ bits
    IN  RefreshInt([c EXCEPT !.slir = left,
                             !.rs = @ /\ "RS" \notin bits,
                             !.pend = @ /\ left # {},
                             !.ticks = IF left = {} THEN 0 ELSE @,
                             !.asked = @ /\ "RS" \notin bits,
                             !.released = @ \/ (c.pend /\ left = {})])

\* SLCR: one command at a time; without retries it times out at once; RS
\* waits; everything else completes from the write.
WriteSlcr(c, cmd) ==
    IF c.pend THEN c
    ELSE IF ~c.slrcr THEN RefreshInt([c EXCEPT !.slir = @ \cup {"TOUT"}])
    ELSE IF cmd = "RS" THEN RefreshInt([c EXCEPT !.rs = TRUE, !.pend = TRUE, !.ticks = 0,
                                                 !.asked = TRUE, !.waited = 0, !.released = FALSE])
    ELSE RefreshInt([c EXCEPT !.slir = @ \cup {cmd}, !.pend = FALSE, !.ticks = 0])

\* SYCR0.RST, behind the chip lock.
WriteSycr0(c) == IF c.chiplock THEN c ELSE ChipReset(c)

\* NETMR, behind no lock: the WOL and IPv6-block bits.
WriteNetmr(c, wol, block6) == [c EXCEPT !.wol = wol, !.block6 = block6]

\* CHPLCKR and NETLCKR.
WriteLock(c, chip, net) == [c EXCEPT !.chiplock = chip, !.netlock = net]

\* IMR, SLIMR, SIMR and SYCR1.IEN.
WriteMasks(c, imr, slimr, simr, ien) ==
    [c EXCEPT !.imr = imr, !.slimr = slimr, !.simr = simr, !.ien = ien, !.lag = "masks"]

\* w6300_macraw_vnet_rx_core past the ring: an advertisement answers an
\* armed RS, a magic packet raises WOL.
VnetRx(c, kind) ==
    LET ra == kind = "ra" /\ c.rs
        a == [c EXCEPT !.snir = @ \cup {"RECV"},
                       !.slir = IF ra THEN @ \cup {"RS"} ELSE @,
                       !.rs = @ /\ ~ra, !.pend = @ /\ ~ra,
                       !.ticks = IF ra THEN 0 ELSE @, !.asked = @ /\ ~ra,
                       !.ir = @ \/ (kind = "magic" /\ c.wol)]
    IN  IF kind = "ra" /\ c.block6 THEN c ELSE RefreshInt(a)

\* Variant: the budget forgets to disarm the capture.
PollBudgetLeavesCapture(c) ==
    IF ~c.pend THEN c
    ELSE IF c.ticks + 1 < RsBudget THEN [c EXCEPT !.ticks = @ + 1]
    ELSE [c EXCEPT !.slir = @ \cup {"TOUT"}, !.pend = FALSE, !.ticks = 0, !.asked = FALSE]

\* The RS budget of w6300_poll.
PollBudget(c) ==
    IF ~c.pend THEN c
    ELSE IF c.ticks + 1 < RsBudget THEN [c EXCEPT !.ticks = @ + 1]
    ELSE [c EXCEPT !.slir = @ \cup {"TOUT"}, !.pend = FALSE, !.ticks = 0, !.rs = FALSE,
                   !.asked = FALSE]

\* w5500_board_poll, w6300_board_poll: the sockets when live, then the pin.
BoardPoll(c, bits) ==
    LET waited == IF c.waited < RsBudget THEN c.waited + 1 ELSE RsBudget
    IN  RefreshInt(IF c.live THEN [PollBudget(c) EXCEPT !.snir = @ \cup bits, !.waited = waited]
                   ELSE c)

\* board_gpio_write on RSTn: falling clears the registers, rising runs init.
RstFalls(c) ==
    [c EXCEPT !.rstn = FALSE, !.ien = FALSE, !.imr = FALSE, !.slimr = FALSE,
              !.simr = FALSE, !.ir = FALSE, !.slir = {}, !.snir = {},
              !.wol = FALSE, !.block6 = FALSE, !.slrcr = FALSE,
              !.asked = FALSE, !.lag = "withdrawn"]
RstRises(c) == RefreshInt([ChipReset(c) EXCEPT !.rstn = TRUE])

\* w5500_board_set_live, w6300_board_set_live.
SetLive(c, live) == [c EXCEPT !.live = live]

\* w5500_board_attach, w6300_board_attach.
AttachBoard(c, chip, live) == RefreshInt([ChipReset(c) EXCEPT !.chip = chip, !.live = live])

-----------------------------------------------------------------------------

ChipOn == ec.chip # "off" /\ ec.rstn
W6300 == ChipOn /\ ec.chip = "w6300"

PowerOn == ec.chip = "off" /\ \E c \in Boards, l \in BOOLEAN : ec' = AttachBoard(ec, c, l)
SocketInt == ChipOn /\ \E b \in {"SENDOK", "RECV"} : ec' = SocketEvent(ec, b)
AckSocket == ChipOn /\ \E b \in SUBSET {"SENDOK", "RECV"} : ec' = WriteSnIr(ec, b)
AckCommon == ChipOn /\ ec' = IF ec.chip = "w5500" THEN W5500WriteIr(ec) ELSE WriteIrclr(ec)
AckSl == W6300 /\ \E b \in SUBSET SlBits : ec' = WriteSlirclr(ec, b)
SlCommand == W6300 /\ \E cmd \in {"ARP", "RS"} : ec' = WriteSlcr(ec, cmd)
Retries == W6300 /\ ~ec.slrcr /\ ec' = [ec EXCEPT !.slrcr = TRUE]
ChipSoftReset == W6300 /\ ec' = WriteSycr0(ec)
\* The two bits act on different frames, and are written together.
Netmr == W6300 /\ \E on \in BOOLEAN : ec' = WriteNetmr(ec, on, on)
LockGroups == W6300 /\ \E c \in BOOLEAN : ec' = WriteLock(ec, c, c)
Masks == W6300 /\ \E m, s, i \in BOOLEAN : ec' = WriteMasks(ec, m, m, s, i)
VnetFrame == W6300 /\ \E k \in {"other", "ra", "magic"} : ec' = VnetRx(ec, k)
ChipPoll == ec.chip # "off" /\ \E b \in {{}, {"RECV"}} : ec' = BoardPoll(ec, b)
Liveness == ec.chip # "off" /\ \E l \in BOOLEAN : ec' = SetLive(ec, l)
RstnLow == ChipOn /\ ec' = RstFalls(ec)
RstnHigh == ec.chip # "off" /\ ~ec.rstn /\ ec' = RstRises(ec)

ChipNext == PowerOn \/ SocketInt \/ AckSocket \/ AckCommon \/ AckSl \/ SlCommand \/ Retries
        \/ ChipSoftReset \/ Netmr \/ LockGroups \/ Masks \/ VnetFrame \/ ChipPoll
        \/ Liveness
        \/ RstnLow \/ RstnHigh

ChipSpec == ChipInit /\ [][ChipNext]_ec

-----------------------------------------------------------------------------

\* The interrupt chain: the INTn pin shows the chain's value, so that a guest
\* sleeping on the pin misses no event and is not woken by an acknowledged
\* one.  Between a reset, or an IR write of the W5500, and the next poll the
\* pin may be asserted for nothing but still misses no event; between a write
\* of a mask and the next refresh it may do either.
IntnCurrent ==
    ec.chip # "off" => /\ ec.lag = "none" => ec.intn = Pending(ec)
                       /\ ec.lag = "withdrawn" => (Pending(ec) => ec.intn)

\* SLCR, the RA capture, SLIRCLR and the budget: a solicitation the guest
\* waits for is armed on the wire, and a command in flight for it ends within
\* its budget of live polls; no armed capture outlives a command that timed
\* out.  Only a SLIRCLR that empties SLIR (released) takes the command out of
\* flight and leaves the capture, with no budget.
SolicitationAnswered ==
    /\ ec.asked => (ec.rs /\ (ec.pend \/ ec.released))
    /\ (ec.asked /\ ~ec.released) => ec.waited < RsBudget
    /\ ec.rs => (ec.pend \/ ec.released)

\* The interrupt line follows the masked sources of the chip up to the named
\* lags, and a solicitation still in flight is answered or times out (the IR,
\* SIR and SLIR registers, poll).
ChipHonest == IntnCurrent /\ SolicitationAnswered

\* Refuted.  w6300.c:2222, "runs on every register path that can change an IR
\* bit", and w5500.c:1161, "Socket IR clears must recompute the line": SYCR0.RST
\* and a falling RSTn clear every bit and leave the pin asserted.
ClearsRecompute == (ec.chip # "off" /\ ec.lag = "withdrawn") => ec.intn = Pending(ec)

\* Refuted.  w6300.c:1263, an RS "finishes on the wire RA or on the [...] tick
\* budget": it has none on a board that is not live, nor after a SLIRCLR of
\* other bits.
SolicitationEnds == ec.asked => (ec.live /\ ec.pend)
=============================================================================
