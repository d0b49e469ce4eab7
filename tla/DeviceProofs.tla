---------------------------- MODULE DeviceProofs ----------------------------
(***************************************************************************)
(* What holds of the devices whatever the sizes of their FIFOs, tables and *)
(* budgets: the UART announces its data, the interrupt pin of the WIZnet   *)
(* chips is current and their solicitations are answered, their sockets    *)
(* keep account of the host's descriptors, and the GATT server of the BLE  *)
(* peripheral keeps its links apart.                                       *)
(***************************************************************************)
EXTENDS Uart, EthChip, EthSockets, BleGatt, WellFoundedInduction, TLAPS

-----------------------------------------------------------------------------
(***************************************************************************)
(* The UART.                                                               *)
(***************************************************************************)

UartInv == uart \in UartState /\ DataAnnounced

\* uart_check_irq touches only the line, which then has every masked interrupt.
LEMMA CheckIrqFacts ==
  ASSUME NEW u \in UartState
  PROVE  /\ CheckIrq(u) \in UartState
         /\ CheckIrq(u).rx = u.rx /\ CheckIrq(u).rt = u.rt /\ CheckIrq(u).ris = u.ris
         /\ CheckIrq(u).imsc = u.imsc /\ CheckIrq(u).noted = u.noted
         /\ Mis(CheckIrq(u)) # {} => CheckIrq(u).line
<1> DEFINE l == u.line \/ Mis(u) # {}
<1>1. l \in BOOLEAN /\ CheckIrq(u) = [u EXCEPT !.line = l]
  BY DEF UartState, CheckIrq
<1> HIDE DEF l
<1>2. /\ CheckIrq(u) \in UartState /\ CheckIrq(u).line = l
      /\ CheckIrq(u).rx = u.rx /\ CheckIrq(u).rt = u.rt /\ CheckIrq(u).ris = u.ris
      /\ CheckIrq(u).imsc = u.imsc /\ CheckIrq(u).noted = u.noted
  BY <1>1 DEF UartState
<1>3. Mis(CheckIrq(u)) = Mis(u)
  BY <1>2 DEF Mis
<1>4. Mis(u) # {} => l
  BY DEF l
<1> QED BY <1>2, <1>3, <1>4

LEMMA RaiseIntFacts ==
  ASSUME NEW u \in UartState, NEW i \in Ints
  PROVE  /\ RaiseInt(u, i) \in UartState
         /\ RaiseInt(u, i).rx = u.rx /\ RaiseInt(u, i).rt = u.rt
         /\ RaiseInt(u, i).ris = u.ris \cup {i}
         /\ RaiseInt(u, i).noted = u.noted
BY DEF UartState, RaiseInt, Ints

\* The timeout of uart_tick.
LEMMA UartTickStep ==
  ASSUME UartInv, UartTick
  PROVE  UartInv' /\ (Mis(uart) = {} /\ Mis(uart)' # {} => uart'.line)
<1> DEFINE u == [uart EXCEPT !.rt = uart.rt - 1]
<1>1. /\ u \in UartState /\ u.rx = uart.rx /\ u.rt = uart.rt - 1 /\ u.ris = uart.ris
      /\ u.imsc = uart.imsc /\ u.noted = uart.noted
      /\ uart' = IF u.rt = 0 /\ u.rx > 0 /\ "RT" \notin u.ris
                 THEN CheckIrq(RaiseInt(u, "RT")) ELSE u
  BY UartAssumption DEF UartInv, UartTick, UartState
<1> HIDE DEF u
<1>2. CASE u.rt = 0 /\ u.rx > 0 /\ "RT" \notin u.ris
  <2> DEFINE v == RaiseInt(u, "RT")
  <2>1. v \in UartState /\ "RT" \in v.ris
    BY <1>1, RaiseIntFacts DEF Ints
  <2>2. uart' = CheckIrq(v)
    BY <1>1, <1>2, Zenon
  <2> HIDE DEF v
  <2> QED BY <2>1, <2>2, CheckIrqFacts DEF UartInv, DataAnnounced
<1>3. CASE ~(u.rt = 0 /\ u.rx > 0 /\ "RT" \notin u.ris)
  BY <1>1, <1>3, Zenon DEF UartInv, DataAnnounced, Mis
<1> QED BY <1>2, <1>3

\* A byte is pushed by the bridge, the wire or the console.
LEMMA RxPushStep ==
  ASSUME UartInv, RxPush
  PROVE  UartInv' /\ (Mis(uart) = {} /\ Mis(uart)' # {} => uart'.line)
<1> DEFINE u == [uart EXCEPT !.rx = uart.rx + 1, !.noted = FALSE, !.rt = RtTimeoutSteps]
           v == RxUpdateIrq(u)
<1>1. u \in UartState /\ u.rt = RtTimeoutSteps
  <2>1. uart.rx + 1 \in 0..RxFifoSize /\ RtTimeoutSteps \in 0..RtTimeoutSteps
    BY UartAssumption DEF UartInv, RxPush, UartState
  <2> QED BY <2>1, Zenon DEF UartInv, UartState
<1>2. uart' = CheckIrq(v)
  BY DEF RxPush
<1> HIDE DEF u
<1>3. v \in UartState /\ v.rt = RtTimeoutSteps
  BY <1>1, RaiseIntFacts DEF RxUpdateIrq, Ints
<1> HIDE DEF v
<1>4. uart' \in UartState /\ uart'.rt = RtTimeoutSteps /\ (Mis(uart)' # {} => uart'.line)
  BY <1>2, <1>3, CheckIrqFacts
<1>5. uart'.rt # 0
  BY <1>4, UartAssumption
<1> QED BY <1>4, <1>5 DEF UartInv, DataAnnounced

\* A byte is read, or the core takes the interrupt.
LEMMA UartReadStep ==
  ASSUME UartInv, ReadDr \/ TakeIrq
  PROVE  UartInv' /\ Mis(uart)' \subseteq Mis(uart)
<1>1. CASE ReadDr
  <2> DEFINE u == [uart EXCEPT !.rx = uart.rx - 1]
             v == [u EXCEPT !.ris = u.ris \ {"RX"}]
  <2>1. /\ u \in UartState /\ u.rx = uart.rx - 1 /\ u.rt = uart.rt /\ u.ris = uart.ris
        /\ u.imsc = uart.imsc /\ u.noted = uart.noted /\ uart.rx \in Nat /\ uart.rx > 0
        /\ uart' \in {u, v}
    BY <1>1, UartAssumption DEF UartInv, ReadDr, UartState
  <2> HIDE DEF u
  <2>2. /\ v \in UartState /\ v.rx = u.rx /\ v.rt = u.rt /\ v.ris = u.ris \ {"RX"}
        /\ v.imsc = u.imsc /\ v.noted = u.noted
    BY <2>1 DEF UartState
  <2> HIDE DEF v
  <2>3. /\ uart' \in UartState /\ uart'.rx = uart.rx - 1 /\ uart'.rt = uart.rt
        /\ uart'.imsc = uart.imsc /\ uart'.noted = uart.noted
        /\ uart'.ris \subseteq uart.ris /\ ("RT" \in uart.ris => "RT" \in uart'.ris)
    BY <2>1, <2>2
  <2> QED BY <2>1, <2>3 DEF UartInv, DataAnnounced, Mis
<1>2. CASE TakeIrq
  BY <1>2, Zenon DEF TakeIrq, UartInv, UartState, DataAnnounced, Mis
<1> QED BY <1>1, <1>2

\* A write of a register ends in uart_check_irq of u, where no byte has moved and
\* the timeout is as well known as before.
WrittenFrom(u) ==
  /\ uart' = CheckIrq(u)
  /\ u.rx = uart.rx /\ u.rt = uart.rt
  /\ "RT" \in uart.ris \/ uart.noted => "RT" \in u.ris \/ u.noted

\* uart_write32.
LEMMA UartWriteStep ==
  ASSUME UartInv, UartWrite
  PROVE  UartInv' /\ (Mis(uart)' # {} => uart'.line)
<1> USE DEF WrittenFrom
<1>1. PICK u \in UartState : WrittenFrom(u)
  <2>1. CASE WriteDr
    <3> DEFINE a == [uart EXCEPT !.active = TRUE]
               u == IF uart.txe THEN RaiseInt(a, "TX") ELSE uart
    <3>1. a \in UartState /\ a.rx = uart.rx /\ a.rt = uart.rt /\ a.ris = uart.ris /\ a.noted = uart.noted
      BY Zenon DEF UartInv, UartState
    <3>2. uart' = CheckIrq(u)
      BY <2>1 DEF WriteDr
    <3> HIDE DEF a
    <3>3. u \in UartState /\ u.rx = uart.rx /\ u.rt = uart.rt /\ uart.ris \subseteq u.ris
          /\ u.noted = uart.noted
      BY <3>1, RaiseIntFacts DEF UartInv, Ints
    <3> QED BY <3>2, <3>3
  <2>2. ASSUME NEW en \in BOOLEAN, NEW txe \in BOOLEAN, WriteCr(en, txe)
        PROVE  \E u \in UartState : WrittenFrom(u)
    <3> DEFINE a == [uart EXCEPT !.enabled = en, !.txe = txe]
               u == IF en THEN RaiseInt(a, "TX") ELSE a
    <3>1. a \in UartState /\ a.rx = uart.rx /\ a.rt = uart.rt /\ a.ris = uart.ris /\ a.noted = uart.noted
      BY Zenon DEF UartInv, UartState
    <3>2. uart' = CheckIrq(u)
      BY <2>2 DEF WriteCr
    <3> HIDE DEF a
    <3>3. u \in UartState /\ u.rx = uart.rx /\ u.rt = uart.rt /\ uart.ris \subseteq u.ris
          /\ u.noted = uart.noted
      BY <3>1, RaiseIntFacts DEF UartInv, Ints
    <3> QED BY <3>2, <3>3
  <2>3. ASSUME NEW v \in IflsValues, WriteIfls(v)
        PROVE  \E u \in UartState : WrittenFrom(u)
    BY <2>3 DEF UartInv, UartState, WriteIfls
  <2>4. ASSUME NEW m \in SUBSET Ints, WriteImsc(m)
        PROVE  \E u \in UartState : WrittenFrom(u)
    BY <2>4 DEF UartInv, UartState, WriteImsc
  <2>5. ASSUME NEW m \in SUBSET Ints, WriteIcr(m)
        PROVE  \E u \in UartState : WrittenFrom(u)
    <3> DEFINE n == uart.noted \/ "RT" \in m
               u == [uart EXCEPT !.ris = uart.ris \ m, !.noted = n]
    <3>1. n \in BOOLEAN /\ ("RT" \in m => n) /\ (uart.noted => n)
      BY DEF UartInv, UartState
    <3>2. uart' = CheckIrq(u)
      BY <2>5 DEF WriteIcr
    <3> HIDE DEF n
    <3>3. u \in UartState /\ u.rx = uart.rx /\ u.rt = uart.rt /\ u.ris = uart.ris \ m
          /\ u.noted = n
      BY <3>1, Zenon DEF UartInv, UartState
    <3> QED BY <3>1, <3>2, <3>3, Zenon
  <2> QED BY <2>1, <2>2, <2>3, <2>4, <2>5 DEF UartWrite
<1>2. /\ uart' \in UartState /\ uart'.rx = u.rx /\ uart'.rt = u.rt /\ uart'.ris = u.ris
      /\ uart'.noted = u.noted /\ (Mis(uart)' # {} => uart'.line)
  BY <1>1, CheckIrqFacts
<1> QED BY <1>1, <1>2 DEF UartInv, DataAnnounced

LEMMA UartInvStep ==
  ASSUME UartInv, [UartNext]_uart
  PROVE  UartInv' /\ (Signals \/ UNCHANGED uart)
<1>1. CASE UartNext
  BY <1>1, UartTickStep, RxPushStep, UartReadStep, UartWriteStep DEF UartNext, Signals
<1>2. CASE UNCHANGED uart
  BY <1>2 DEF UartInv, DataAnnounced
<1> QED BY <1>1, <1>2

LEMMA UartInvInit == UartInit => UartInv
BY UartAssumption DEF UartInit, UartInv, UartState, DataAnnounced, Ints

\* For every FIFO size and timeout, and whatever firmware writes: bytes that
\* wait past the timeout of uart_tick are announced by RT, unless firmware
\* acknowledged it since the last byte.
THEOREM UartAnnounces == UartSpec => []DataAnnounced
<1>1. UartInv => DataAnnounced
  BY DEF UartInv
<1> QED BY <1>1, UartInvInit, UartInvStep, PTL DEF UartSpec

\* uart_check_irq is called wherever it is needed: a masked interrupt that
\* becomes active pends the line in the same step.
THEOREM UartSignals == UartSpec => RaiseSignals
<1>1. UartInv /\ [UartNext]_uart => [Signals]_uart
  BY UartInvStep
<1> QED BY <1>1, UartInvInit, UartInvStep, PTL DEF UartSpec, RaiseSignals

-----------------------------------------------------------------------------
\* A set of natural numbers has a least element.
LEMMA LeastOfNaturals ==
  ASSUME NEW S \in SUBSET Nat, S # {}
  PROVE  \E i \in S : \A j \in S : i <= j
<1>1. PICK n \in S : \A j \in S : ~(<<j, n>> \in OpToRel(<, Nat))
  BY WFMin, NatLessThanWellFounded, Zenon
<1>2. \A j \in S : ~(j < n)
  BY <1>1, Zenon DEF OpToRel
<1> QED BY <1>2

-----------------------------------------------------------------------------
(***************************************************************************)
(* The common registers of the WIZnet chips.                               *)
(***************************************************************************)

ChipState ==
  [chip : Boards \cup {"off"}, live : BOOLEAN, rstn : BOOLEAN, intn : BOOLEAN,
   lag : {"none", "withdrawn", "masks"}, chiplock : BOOLEAN, netlock : BOOLEAN, ien : BOOLEAN, imr : BOOLEAN,
   slimr : BOOLEAN, simr : BOOLEAN, ir : BOOLEAN, slir : SUBSET SlBits,
   snir : SUBSET {"SENDOK", "RECV"}, wol : BOOLEAN, block6 : BOOLEAN, slrcr : BOOLEAN,
   pend : BOOLEAN, rs : BOOLEAN, ticks : 0..(RsBudget - 1), asked : BOOLEAN,
   waited : 0..RsBudget, released : BOOLEAN]

\* The two sides of a solicitation and its budget, and the pin, of a chip c.
Armed(c) == /\ c.asked => (c.rs /\ (c.pend \/ c.released))
            /\ c.rs => (c.pend \/ c.released)
            /\ (c.asked /\ ~c.released) => c.waited = c.ticks
Shown(c) == /\ c.chip # "off" => /\ c.lag = "none" => c.intn = Pending(c)
                                 /\ c.lag = "withdrawn" => (Pending(c) => c.intn)
            /\ c.chip = "w5500" => c.lag # "masks"

\* What a step away from the solicitation leaves alone.
Solicits(c) == <<c.asked, c.rs, c.pend, c.released, c.waited, c.ticks>>

Sane(c) == c \in ChipState /\ Armed(c)
ChipInv == Sane(ec) /\ Shown(ec)

\* A refresh shows the chain, whatever it was before.
LEMMA RefreshShows ==
  ASSUME NEW c, Sane(c)
  PROVE  Sane(RefreshInt(c)) /\ Shown(RefreshInt(c))
<1> DEFINE p == Pending(c)
           d == [c EXCEPT !.intn = p, !.lag = "none"]
<1>1. p \in BOOLEAN
  BY Zenon DEF Pending, W5500Pending, W6300Pending, Sane, ChipState
<1>2. RefreshInt(c) = d
  BY DEF RefreshInt
<1> HIDE DEF p
<1>3. d \in ChipState
  BY <1>1, Zenon DEF Sane, ChipState
<1>4. /\ d.intn = p /\ d.chip = c.chip /\ d.lag = "none"
      /\ d.asked = c.asked /\ d.rs = c.rs /\ d.pend = c.pend /\ d.released = c.released
      /\ d.waited = c.waited /\ d.ticks = c.ticks
      /\ d.snir = c.snir /\ d.ir = c.ir /\ d.ien = c.ien /\ d.imr = c.imr /\ d.slir = c.slir
      /\ d.slimr = c.slimr /\ d.simr = c.simr
  BY <1>1 DEF Sane, ChipState
<1> HIDE DEF d
<1>5. Pending(d) = p
  BY <1>4 DEF Pending, W5500Pending, W6300Pending, p
<1>6. Armed(d)
  BY <1>4 DEF Sane, Armed
<1> QED BY <1>2, <1>3, <1>4, <1>5, <1>6 DEF Sane, Shown

LEMMA SolicitsSane ==
  ASSUME NEW c, NEW d \in ChipState, Sane(c), Solicits(d) = Solicits(c)
  PROVE  Sane(d)
BY DEF Sane, Armed, Solicits

\* After init nothing is asked and nothing is armed.
LEMMA ResetSane ==
  ASSUME NEW c \in ChipState
  PROVE  /\ ChipReset(c) \in ChipState /\ ~ChipReset(c).asked /\ ~ChipReset(c).rs
         /\ ~Pending(ChipReset(c)) /\ ChipReset(c).lag = "withdrawn"
<1> DEFINE r1 == [c EXCEPT !.chiplock = TRUE, !.netlock = TRUE, !.ien = TRUE]
           r2 == [r1 EXCEPT !.imr = FALSE, !.slimr = FALSE, !.simr = TRUE]
           r3 == [r2 EXCEPT !.ir = FALSE, !.slir = {}, !.snir = {}]
           r4 == [r3 EXCEPT !.wol = FALSE, !.block6 = FALSE, !.slrcr = FALSE]
           r5 == [r4 EXCEPT !.pend = FALSE, !.rs = FALSE]
           r6 == [r5 EXCEPT !.ticks = 0, !.asked = FALSE, !.waited = 0]
           r7 == [r6 EXCEPT !.released = FALSE, !.lag = "withdrawn"]
           None(r) == r \in ChipState /\ ~r.ir /\ r.slir = {} /\ r.snir = {}
<1>1. ChipReset(c) = r7
  BY DEF ChipReset
<1>2. r1 \in ChipState
  BY Zenon DEF ChipState
<1> HIDE DEF r1
<1>3. r2 \in ChipState
  BY <1>2, ZenonT(30) DEF ChipState
<1> HIDE DEF r2
<1>4. None(r3)
  BY <1>3, Zenon DEF ChipState
<1> HIDE DEF r3
<1>5. None(r4)
  BY <1>4, Zenon DEF ChipState
<1> HIDE DEF r4
<1>6. None(r5) /\ ~r5.rs
  BY <1>5, Zenon DEF ChipState
<1> HIDE DEF r5
<1>7. 0 \in 0..(RsBudget - 1) /\ 0 \in 0..RsBudget
  BY ChipAssumption
<1>8. None(r6) /\ ~r6.asked /\ ~r6.rs
  BY <1>6, <1>7, Zenon DEF ChipState
<1> HIDE DEF r6
<1>9. None(r7) /\ ~r7.asked /\ ~r7.rs /\ r7.lag = "withdrawn"
  BY <1>8, Zenon DEF ChipState
<1> HIDE DEF r7
<1>10. ~Pending(r7)
  BY <1>9, Zenon DEF Pending, W5500Pending, W6300Pending
<1> QED BY <1>1, <1>9, <1>10

\* Resets: attach, SYCR0.RST and both edges of RSTn.
LEMMA ResetKeeps ==
  ASSUME ChipInv, PowerOn \/ ChipSoftReset \/ RstnLow \/ RstnHigh
  PROVE  ChipInv'
<1>0. Sane(ec) /\ Shown(ec) /\ ec \in ChipState
  BY DEF ChipInv, Sane
<1> DEFINE r == ChipReset(ec)
<1>1. r \in ChipState /\ ~r.asked /\ ~r.rs /\ ~Pending(r) /\ r.lag = "withdrawn"
  BY <1>0, ResetSane
<1>2. Sane(r)
  BY <1>1 DEF Sane, Armed
<1> HIDE DEF r
<1>3. CASE PowerOn
  <2>1. PICK k \in Boards, l \in BOOLEAN :
          ec' = RefreshInt([r EXCEPT !.chip = k, !.live = l])
    BY <1>3, Zenon DEF PowerOn, AttachBoard, r
  <2> DEFINE d == [r EXCEPT !.chip = k, !.live = l]
  <2>2. d \in ChipState /\ ~d.asked /\ ~d.rs
    BY <1>1, Zenon DEF ChipState
  <2> HIDE DEF d
  <2>3. Sane(d)
    BY <2>2 DEF Sane, Armed
  <2> QED BY <2>1, <2>3, RefreshShows DEF ChipInv, d
<1>4. CASE ChipSoftReset
  <2>1. ec' = ec \/ ec' = r
    BY <1>4 DEF ChipSoftReset, WriteSycr0, r
  <2>2. Shown(r)
    BY <1>1 DEF Shown
  <2>3. CASE ec' = ec
    BY <1>0, <2>3 DEF ChipInv, Sane, Armed, Shown, Pending, W5500Pending, W6300Pending
  <2>4. CASE ec' = r
    BY <1>2, <2>2, <2>4, Zenon DEF ChipInv
  <2> QED BY <2>1, <2>3, <2>4
<1>5. CASE RstnLow
  <2> DEFINE r1 == [ec EXCEPT !.rstn = FALSE, !.ien = FALSE, !.imr = FALSE]
             r2 == [r1 EXCEPT !.slimr = FALSE, !.simr = FALSE, !.ir = FALSE]
             r3 == [r2 EXCEPT !.slir = {}, !.snir = {}, !.wol = FALSE]
             r4 == [r3 EXCEPT !.block6 = FALSE, !.slrcr = FALSE]
             r5 == [r4 EXCEPT !.asked = FALSE, !.lag = "withdrawn"]
             Kept(d) == /\ d \in ChipState
                        /\ d.rs = ec.rs /\ d.pend = ec.pend /\ d.released = ec.released
             None(d) == Kept(d) /\ ~d.ir /\ d.slir = {} /\ d.snir = {}
  <2>1. ec' = r5
    BY <1>5 DEF RstnLow, RstFalls
  <2>2. Kept(r1)
    BY <1>0, Zenon DEF ChipState
  <2> HIDE DEF r1
  <2>3. Kept(r2) /\ ~r2.ir
    BY <2>2, Zenon DEF ChipState
  <2> HIDE DEF r2
  <2>4. None(r3)
    BY <2>3, Zenon DEF ChipState
  <2> HIDE DEF r3
  <2>5. None(r4)
    BY <2>4, Zenon DEF ChipState
  <2> HIDE DEF r4
  <2>6. None(r5) /\ ~r5.asked /\ r5.lag = "withdrawn"
    BY <2>5, Zenon DEF ChipState
  <2> HIDE DEF r5
  <2>7. Sane(r5)
    BY <1>0, <2>6 DEF Sane, Armed
  <2>8. ~Pending(r5)
    BY <2>6, Zenon DEF Pending, W5500Pending, W6300Pending
  <2>9. Shown(r5)
    BY <2>6, <2>8 DEF Shown
  <2> QED BY <2>1, <2>7, <2>9, Zenon DEF ChipInv
<1>6. CASE RstnHigh
  <2> DEFINE d == [r EXCEPT !.rstn = TRUE]
  <2>1. ec' = RefreshInt(d)
    BY <1>6 DEF RstnHigh, RstRises, r
  <2>2. d \in ChipState /\ ~d.asked /\ ~d.rs
    BY <1>1, Zenon DEF ChipState
  <2> HIDE DEF d
  <2>3. Sane(d)
    BY <2>2 DEF Sane, Armed
  <2> QED BY <2>1, <2>3, RefreshShows DEF ChipInv
<1> QED BY <1>3, <1>4, <1>5, <1>6

\* Socket interrupts raised and acknowledged, IR acknowledged, and the masks.
LEMMA ChainKeeps ==
  ASSUME ChipInv, SocketInt \/ AckSocket \/ AckCommon \/ Masks
  PROVE  ChipInv'
<1>0. Sane(ec) /\ Shown(ec) /\ ec \in ChipState
  BY DEF ChipInv, Sane
<1>1. ASSUME NEW d \in ChipState, Solicits(d) = Solicits(ec), ec' = RefreshInt(d)
      PROVE  ChipInv'
  <2>1. Sane(d)
    BY <1>0, <1>1, SolicitsSane, Zenon
  <2> QED BY <1>1, <2>1, RefreshShows DEF ChipInv
<1>2. CASE SocketInt \/ AckSocket
  <2>1. PICK n \in SUBSET {"SENDOK", "RECV"} : ec' = RefreshInt([ec EXCEPT !.snir = n])
    BY <1>0, <1>2, Zenon DEF SocketInt, SocketEvent, AckSocket, WriteSnIr, ChipState
  <2> DEFINE d == [ec EXCEPT !.snir = n]
  <2>2. d \in ChipState /\ Solicits(d) = Solicits(ec)
    BY <1>0 DEF ChipState, Solicits
  <2> HIDE DEF d
  <2> QED BY <1>1, <2>1, <2>2, Zenon DEF d
<1>3. CASE AckCommon /\ ec.chip # "w5500"
  <2> DEFINE d == [ec EXCEPT !.ir = FALSE]
  <2>1. ec' = RefreshInt(d)
    BY <1>3 DEF AckCommon, WriteIrclr
  <2>2. d \in ChipState /\ Solicits(d) = Solicits(ec)
    BY <1>0, Zenon DEF ChipState, Solicits
  <2> HIDE DEF d
  <2> QED BY <1>1, <2>1, <2>2, Zenon
<1>4. CASE AckCommon /\ ec.chip = "w5500"
  <2> DEFINE d == [ec EXCEPT !.ir = FALSE, !.lag = "withdrawn"]
  <2>1. ec' = d
    BY <1>4 DEF AckCommon, W5500WriteIr
  <2>2. d \in ChipState /\ Solicits(d) = Solicits(ec)
    BY <1>0, Zenon DEF ChipState, Solicits
  <2>3. d.chip = "w5500" /\ d.lag = "withdrawn" /\ ~d.ir /\ d.snir = ec.snir /\ d.intn = ec.intn
    BY <1>0, <1>4, Zenon DEF ChipState
  <2> HIDE DEF d
  <2>4. Pending(d) => Pending(ec)
    BY <1>4, <2>3, Zenon DEF Pending, W5500Pending
  <2>5. Pending(ec) => ec.intn
    <3>1. ec.lag \in {"none", "withdrawn"}
      BY <1>0, <1>4 DEF Shown, ChipState
    <3> QED BY <1>0, <1>4, <3>1, Zenon DEF Shown
  <2>6. Shown(d)
    BY <2>3, <2>4, <2>5 DEF Shown
  <2>7. Sane(d)
    BY <1>0, <2>2, SolicitsSane, Zenon
  <2> QED BY <2>1, <2>6, <2>7, Zenon DEF ChipInv
<1>5. CASE Masks
  <2>1. PICK m \in BOOLEAN, b \in BOOLEAN, i \in BOOLEAN :
          ec' = [ec EXCEPT !.imr = m, !.slimr = m, !.simr = b, !.ien = i, !.lag = "masks"]
    BY <1>5, Zenon DEF Masks, WriteMasks
  <2>2. ec.chip = "w6300"
    BY <1>5 DEF Masks, W6300
  <2> DEFINE a == [ec EXCEPT !.imr = m, !.slimr = m]
             c == [a EXCEPT !.simr = b, !.ien = i]
             d == [c EXCEPT !.lag = "masks"]
  <2>3. a \in ChipState /\ Solicits(a) = Solicits(ec) /\ a.chip = "w6300"
    BY <1>0, <2>2, Zenon DEF ChipState, Solicits
  <2>4. ec' = d
    BY <2>1
  <2> HIDE DEF a
  <2>c. c \in ChipState /\ Solicits(c) = Solicits(ec) /\ c.chip = "w6300"
    BY <2>3, Zenon DEF ChipState, Solicits
  <2> HIDE DEF c
  <2>5. d \in ChipState /\ Solicits(d) = Solicits(ec) /\ d.chip = "w6300" /\ d.lag = "masks"
    BY <2>c, Zenon DEF ChipState, Solicits
  <2> HIDE DEF d
  <2>6. Sane(d)
    BY <1>0, <2>5, SolicitsSane, Zenon
  <2>7. Shown(d)
    BY <2>5 DEF Shown
  <2> QED BY <2>4, <2>6, <2>7, Zenon DEF ChipInv
<1> QED BY <1>2, <1>3, <1>4, <1>5

\* SLIRCLR and SLCR: the RS bit, the command in flight and the capture.
LEMMA SlirclrKeeps ==
  ASSUME ChipInv, AckSl
  PROVE  ChipInv'
<1>0. ec \in ChipState /\ Armed(ec)
  BY DEF ChipInv, Sane
<1>1. PICK bits \in SUBSET SlBits : ec' = WriteSlirclr(ec, bits)
  BY DEF AckSl
<1> DEFINE left == ec.slir \ bits
           rs == ec.rs /\ "RS" \notin bits
           pend == ec.pend /\ left # {}
           ticks == IF left = {} THEN 0 ELSE ec.ticks
           asked == ec.asked /\ "RS" \notin bits
           released == ec.released \/ (ec.pend /\ left = {})
           d == [ec EXCEPT !.slir = left, !.rs = rs, !.pend = pend, !.ticks = ticks,
                           !.asked = asked, !.released = released]
<1>2. ec' = RefreshInt(d)
  BY <1>1 DEF WriteSlirclr
<1>3. left \in SUBSET SlBits /\ ticks \in 0..(RsBudget - 1)
  BY <1>0, ChipAssumption DEF ChipState
<1>4. /\ rs \in BOOLEAN /\ pend \in BOOLEAN /\ asked \in BOOLEAN /\ released \in BOOLEAN
      /\ asked => (rs /\ (pend \/ released))
      /\ rs => (pend \/ released)
      /\ (asked /\ ~released) => ec.waited = ticks
  BY <1>0 DEF Armed
<1> HIDE DEF left, rs, pend, ticks, asked, released
<1>5. d \in ChipState /\ d.rs = rs /\ d.pend = pend /\ d.asked = asked /\ d.released = released
      /\ d.waited = ec.waited /\ d.ticks = ticks
  <2> DEFINE a == [ec EXCEPT !.slir = left, !.rs = rs, !.pend = pend]
             b == [a EXCEPT !.ticks = ticks, !.asked = asked, !.released = released]
  <2>1. a \in ChipState /\ a.rs = rs /\ a.pend = pend /\ a.waited = ec.waited
    BY <1>0, <1>3, <1>4, ZenonT(30) DEF ChipState
  <2>2. d = b
    OBVIOUS
  <2> HIDE DEF a, d
  <2>3. b \in ChipState /\ b.rs = rs /\ b.pend = pend /\ b.asked = asked
        /\ b.released = released /\ b.waited = ec.waited /\ b.ticks = ticks
    BY <2>1, <1>3, <1>4, Zenon DEF ChipState
  <2> QED BY <2>2, <2>3
<1> HIDE DEF d
<1>6. Sane(d)
  BY <1>4, <1>5 DEF Sane, Armed
<1> QED BY <1>2, <1>6, RefreshShows DEF ChipInv

LEMMA SlcrKeeps ==
  ASSUME ChipInv, SlCommand
  PROVE  ChipInv'
<1>0. ec \in ChipState /\ Armed(ec) /\ 0 \in 0..(RsBudget - 1) /\ 0 \in 0..RsBudget
      /\ Sane(ec)
  BY ChipAssumption DEF ChipInv, Sane
<1>1. PICK cmd \in {"ARP", "RS"} : ec' = WriteSlcr(ec, cmd)
  BY DEF SlCommand
<1>2. CASE ec' = ec
  BY <1>2 DEF ChipInv, Sane, Armed, Shown, Pending, W5500Pending, W6300Pending
<1>3. CASE ec' = RefreshInt([ec EXCEPT !.slir = @ \cup {"TOUT"}])
  <2> DEFINE d == [ec EXCEPT !.slir = @ \cup {"TOUT"}]
  <2>1. d \in ChipState /\ Solicits(d) = Solicits(ec)
    BY <1>0 DEF ChipState, SlBits, Solicits
  <2> HIDE DEF d
  <2>2. Sane(d)
    BY <1>0, <2>1, SolicitsSane, Zenon
  <2> QED BY <1>3, <2>2, RefreshShows DEF ChipInv, d
<1>4. CASE ec' = RefreshInt([ec EXCEPT !.rs = TRUE, !.pend = TRUE, !.ticks = 0,
                                       !.asked = TRUE, !.waited = 0, !.released = FALSE])
  <2> DEFINE a == [ec EXCEPT !.rs = TRUE, !.pend = TRUE]
             b == [a EXCEPT !.ticks = 0, !.asked = TRUE]
             e == [b EXCEPT !.waited = 0]
             d == [e EXCEPT !.released = FALSE]
  <2>1. a \in ChipState /\ a.rs /\ a.pend
    BY <1>0, Zenon DEF ChipState
  <2>2. ec' = RefreshInt(d)
    BY <1>4
  <2> HIDE DEF a
  <2>3. b \in ChipState /\ b.rs /\ b.pend /\ b.ticks = 0
    BY <1>0, <2>1, Zenon DEF ChipState
  <2> HIDE DEF b
  <2>6. e \in ChipState /\ e.rs /\ e.pend /\ e.ticks = 0 /\ e.waited = 0
    BY <1>0, <2>3, Zenon DEF ChipState
  <2> HIDE DEF e
  <2>5. d \in ChipState /\ d.rs /\ d.pend /\ d.ticks = 0 /\ d.waited = 0
    BY <2>6, Zenon DEF ChipState
  <2> HIDE DEF d
  <2>4. Sane(d)
    BY <2>5 DEF Sane, Armed
  <2> QED BY <2>2, <2>4, RefreshShows DEF ChipInv
<1>5. CASE ~ec.pend /\ ec' = RefreshInt([ec EXCEPT !.slir = @ \cup {cmd}, !.pend = FALSE,
                                                   !.ticks = 0]) /\ cmd # "RS"
  <2> DEFINE d == [ec EXCEPT !.slir = @ \cup {cmd}, !.pend = FALSE, !.ticks = 0]
  <2>1. d \in ChipState /\ d.rs = ec.rs /\ ~d.pend /\ d.asked = ec.asked
        /\ d.released = ec.released
    BY <1>0, <1>5, Zenon DEF ChipState, SlBits
  <2> HIDE DEF d
  <2>2. Sane(d)
    BY <1>0, <1>5, <2>1 DEF Sane, Armed
  <2> QED BY <1>5, <2>2, RefreshShows DEF ChipInv, d
<1> QED BY <1>1, <1>2, <1>3, <1>4, <1>5 DEF WriteSlcr

\* Writes that touch neither the chain nor a solicitation.
LEMMA QuietKeeps ==
  ASSUME ChipInv, Retries \/ Netmr \/ LockGroups \/ Liveness
  PROVE  ChipInv'
<1>0. ec \in ChipState /\ Armed(ec) /\ Shown(ec)
  BY DEF ChipInv, Sane
<1> DEFINE Same == /\ ec' \in ChipState /\ ec'.chip = ec.chip /\ ec'.intn = ec.intn
                   /\ ec'.lag = ec.lag /\ Solicits(ec') = Solicits(ec)
                   /\ ec'.snir = ec.snir /\ ec'.ir = ec.ir /\ ec'.ien = ec.ien
                   /\ ec'.imr = ec.imr /\ ec'.slir = ec.slir /\ ec'.slimr = ec.slimr
                   /\ ec'.simr = ec.simr
<1>1. Retries => Same
  BY <1>0, ZenonT(30) DEF Retries, ChipState, Solicits
<1>2. Netmr => Same
  BY <1>0, ZenonT(30) DEF Netmr, WriteNetmr, ChipState, Solicits
<1>3. LockGroups => Same
  BY <1>0, Zenon DEF LockGroups, WriteLock, ChipState, Solicits
<1>6. Liveness => Same
  BY <1>0, Zenon DEF Liveness, SetLive, ChipState, Solicits
<1>4. Same
  BY <1>1, <1>2, <1>3, <1>6
<1>5. Pending(ec)' = Pending(ec)
  BY <1>4 DEF Pending, W5500Pending, W6300Pending
<1>7. Sane(ec)'
  BY <1>0, <1>4 DEF Sane, Armed, Solicits
<1> QED BY <1>0, <1>4, <1>5, <1>7 DEF ChipInv, Shown

\* A frame from the vnet: an advertisement ends the solicitation on both sides.
LEMMA VnetKeeps ==
  ASSUME ChipInv, VnetFrame
  PROVE  ChipInv'
<1>0. ec \in ChipState /\ Armed(ec) /\ 0 \in 0..(RsBudget - 1)
  BY ChipAssumption DEF ChipInv, Sane
<1>1. PICK kind \in {"other", "ra", "magic"} : ec' = VnetRx(ec, kind)
  BY DEF VnetFrame
<1> DEFINE ra == kind = "ra" /\ ec.rs
           snir == ec.snir \cup {"RECV"}
           slir == IF ra THEN ec.slir \cup {"RS"} ELSE ec.slir
           rs == ec.rs /\ ~ra
           pend == ec.pend /\ ~ra
           ticks == IF ra THEN 0 ELSE ec.ticks
           asked == ec.asked /\ ~ra
           ir == ec.ir \/ (kind = "magic" /\ ec.wol)
           d == [ec EXCEPT !.snir = snir, !.slir = slir, !.rs = rs, !.pend = pend,
                           !.ticks = ticks, !.asked = asked, !.ir = ir]
<1>2. ec' = ec \/ ec' = RefreshInt(d)
  BY <1>1 DEF VnetRx
<1>3. /\ snir \in SUBSET {"SENDOK", "RECV"} /\ slir \in SUBSET SlBits
      /\ ticks \in 0..(RsBudget - 1)
  BY <1>0 DEF ChipState, SlBits
<1>4. /\ rs \in BOOLEAN /\ pend \in BOOLEAN /\ asked \in BOOLEAN /\ ir \in BOOLEAN
      /\ asked => (rs /\ (pend \/ ec.released))
      /\ rs => (pend \/ ec.released)
      /\ (asked /\ ~ec.released) => ec.waited = ticks
  BY <1>0 DEF Armed
<1> HIDE DEF snir, slir, rs, pend, ticks, asked, ir
<1>5. d \in ChipState /\ d.rs = rs /\ d.pend = pend /\ d.asked = asked
      /\ d.released = ec.released /\ d.waited = ec.waited /\ d.ticks = ticks
  <2> DEFINE a == [ec EXCEPT !.snir = snir, !.slir = slir, !.rs = rs]
             b == [a EXCEPT !.pend = pend, !.ticks = ticks]
             e == [b EXCEPT !.asked = asked, !.ir = ir]
  <2>1. a \in ChipState /\ a.rs = rs /\ a.released = ec.released /\ a.waited = ec.waited
    BY <1>0, <1>3, <1>4, Zenon DEF ChipState
  <2>2. d = e
    OBVIOUS
  <2> HIDE DEF a, d
  <2>3. b \in ChipState /\ b.rs = rs /\ b.pend = pend /\ b.released = ec.released
        /\ b.waited = ec.waited /\ b.ticks = ticks
    BY <2>1, <1>3, <1>4, Zenon DEF ChipState
  <2> HIDE DEF b
  <2>4. e \in ChipState /\ e.rs = rs /\ e.pend = pend /\ e.asked = asked
        /\ e.released = ec.released /\ e.waited = ec.waited /\ e.ticks = ticks
    BY <2>3, <1>4, Zenon DEF ChipState
  <2> QED BY <2>2, <2>4
<1> HIDE DEF d
<1>6. Sane(d)
  BY <1>4, <1>5 DEF Sane, Armed
<1>7. CASE ec' = ec
  BY <1>7 DEF ChipInv, Sane, Armed, Shown, Pending, W5500Pending, W6300Pending
<1> QED BY <1>2, <1>6, <1>7, RefreshShows DEF ChipInv

\* The poll of the board: the budget of a solicitation, then the pin.
LEMMA PollKeeps ==
  ASSUME ChipInv, ChipPoll
  PROVE  ChipInv'
<1>0. ec \in ChipState /\ Armed(ec) /\ 0 \in 0..(RsBudget - 1) /\ Sane(ec)
  BY ChipAssumption DEF ChipInv, Sane
<1>1. PICK bits \in {{}, {"RECV"}} : ec' = BoardPoll(ec, bits)
  BY DEF ChipPoll
<1> DEFINE q == PollBudget(ec)
           w == IF ec.waited < RsBudget THEN ec.waited + 1 ELSE RsBudget
           d == [q EXCEPT !.snir = @ \cup bits, !.waited = w]
<1>2. ec' = RefreshInt(ec) \/ ec' = RefreshInt(d)
  BY <1>1 DEF BoardPoll
<1>3. w \in 0..RsBudget
  BY <1>0, ChipAssumption DEF ChipState
<1>4. /\ q \in ChipState
      /\ q.asked => (q.rs /\ (q.pend \/ q.released))
      /\ q.rs => (q.pend \/ q.released)
      /\ (q.asked /\ ~q.released) => w = q.ticks
  <2>1. CASE ~ec.pend
    <3>1. q = ec
      BY <2>1 DEF PollBudget
    <3> QED BY <1>0, <2>1, <3>1 DEF Armed
  <2>2. CASE ec.pend /\ ec.ticks + 1 < RsBudget
    <3> DEFINE n == ec.ticks + 1
               a == [ec EXCEPT !.ticks = n]
    <3>1. n \in 0..(RsBudget - 1)
      BY <1>0, <2>2, ChipAssumption DEF ChipState
    <3>2. q = a
      BY <2>2 DEF PollBudget
    <3>3. ec.waited = ec.ticks => w = n
      BY <1>0, <2>2, ChipAssumption DEF ChipState
    <3> HIDE DEF n, q, w
    <3>4. a \in ChipState /\ a.rs = ec.rs /\ a.pend = ec.pend /\ a.asked = ec.asked
          /\ a.released = ec.released /\ a.ticks = n
      BY <1>0, <3>1 DEF ChipState
    <3> HIDE DEF a
    <3> QED BY <1>0, <3>2, <3>3, <3>4 DEF Armed
  <2>3. CASE ec.pend /\ ~(ec.ticks + 1 < RsBudget)
    <3> DEFINE a == [ec EXCEPT !.slir = @ \cup {"TOUT"}, !.pend = FALSE]
               b == [a EXCEPT !.ticks = 0, !.rs = FALSE, !.asked = FALSE]
    <3>1. a \in ChipState
      BY <1>0, Zenon DEF ChipState, SlBits
    <3>2. q = b
      BY <2>3 DEF PollBudget
    <3> HIDE DEF a, q
    <3>3. b \in ChipState /\ ~b.rs /\ ~b.asked
      BY <1>0, <3>1, Zenon DEF ChipState
    <3> HIDE DEF b
    <3> QED BY <3>2, <3>3
  <2> QED BY <2>1, <2>2, <2>3
<1> HIDE DEF q, w
<1>5. d \in ChipState /\ d.rs = q.rs /\ d.pend = q.pend /\ d.asked = q.asked
      /\ d.released = q.released /\ d.ticks = q.ticks /\ d.waited = w
  BY <1>3, <1>4, Zenon DEF ChipState
<1> HIDE DEF d
<1>6. Sane(d)
  BY <1>4, <1>5 DEF Sane, Armed
<1> QED BY <1>0, <1>2, <1>6, RefreshShows DEF ChipInv

LEMMA ChipInvInit == ChipInit => ChipInv
<1> SUFFICES ASSUME ChipInit PROVE ChipInv
  OBVIOUS
<1> DEFINE c == [chip |-> "off", live |-> FALSE, rstn |-> TRUE, intn |-> FALSE,
                 lag |-> "none",
                 chiplock |-> TRUE, netlock |-> TRUE, ien |-> TRUE, imr |-> FALSE,
                 slimr |-> FALSE, simr |-> TRUE, ir |-> FALSE, slir |-> {}, snir |-> {},
                 wol |-> FALSE, block6 |-> FALSE, slrcr |-> FALSE,
                 pend |-> FALSE, rs |-> FALSE, ticks |-> 0, asked |-> FALSE,
                 waited |-> 0, released |-> FALSE]
<1>1. c \in ChipState
  BY ChipAssumption DEF ChipState
<1>2. ec = ChipReset(c)
  BY DEF ChipInit
<1> HIDE DEF c
<1>3. Sane(ec)
  BY <1>1, <1>2, ResetSane DEF Sane, Armed
<1>4. ec.chip = "off"
  BY <1>2 DEF c, ChipReset
<1> QED BY <1>3, <1>4 DEF ChipInv, Shown

LEMMA ChipInvStep == ChipInv /\ [ChipNext]_ec => ChipInv'
<1> SUFFICES ASSUME ChipInv, [ChipNext]_ec PROVE ChipInv'
  OBVIOUS
<1>1. CASE UNCHANGED ec
  BY <1>1 DEF ChipInv, Sane, Armed, Shown, Pending, W5500Pending, W6300Pending
<1>2. CASE ChipNext
  BY <1>2, ResetKeeps, ChainKeeps, SlirclrKeeps, SlcrKeeps, QuietKeeps, VnetKeeps, PollKeeps
     DEF ChipNext
<1> QED BY <1>1, <1>2

\* Whatever the registers, the network and the polls do, the INTn pin shows the
\* chain, or is asserted for nothing after a reset or a W5500 IR write, until
\* the next poll, masks apart; and a router solicitation the guest waits for is
\* armed and, unless a SLIRCLR released its command, in flight and over within
\* its budget of live polls (w6300_poll, SLCR, SLIRCLR, the RA capture;
\* board_refresh_int).
THEOREM ChipIsHonest == ChipSpec => []ChipHonest
<1>1. ChipInv => ChipHonest
  <2> SUFFICES ASSUME ChipInv PROVE ChipHonest
    OBVIOUS
  <2>1. ec.ticks < RsBudget
    BY ChipAssumption DEF ChipInv, Sane, ChipState
  <2>2. SolicitationAnswered
    BY <2>1 DEF ChipInv, Sane, Armed, SolicitationAnswered
  <2> QED BY <2>2 DEF ChipInv, Shown, ChipHonest, IntnCurrent
<1> QED BY <1>1, ChipInvInit, ChipInvStep, PTL DEF ChipSpec

-----------------------------------------------------------------------------
(***************************************************************************)
(* The link table of the GATT layer.                                       *)
(***************************************************************************)

PrepState ==
  [h : {"none", "scratch", "cccd"}, len : Nat,
   buf : [Cells -> {"clear", "old"} \cup Staged], gap : BOOLEAN]

LinkState ==
  [active : BOOLEAN, peer : Peers \cup {Off}, cccd : SUBSET {"notify", "indicate"},
   ind : BOOLEAN, ntf : {"none", "notify", "indicate"}, prep : PrepState]

GattState ==
  [use : Profiles, links : [Links -> LinkState], mirror : BOOLEAN, mntf : BOOLEAN,
   row : SUBSET {"notify", "indicate"}, told : SUBSET Links, out : [Links -> Nat],
   mixed : SUBSET Links]

\* No other link's central staged here, and below the staged length only a gap
\* leaves bytes of an older sequence.
PrepSound(p) ==
  /\ \A k \in Cells : p.buf[k] # "foreign"
  /\ p.gap \/ \A k \in Cells : k < p.len => p.buf[k] \in Staged

\* What holds of one link: its staging, that a free slot stages nothing, and, as
\* long as only the guest's confirmations of our indications clear its flag, that
\* the indication in the slot or on its way is the only one and is marked pending.
LinkSound(l, o, b) ==
  /\ PrepSound(l.prep)
  /\ ~l.active => l.prep = NoPrep
  /\ ~b => /\ o = 0 \/ (o = 1 /\ l.ind /\ l.ntf # "indicate")
           /\ l.ntf = "indicate" => l.ind

OnePeerEach(s) ==
  \A i, j \in Links :
    (i # j /\ s.links[i].active /\ s.links[j].active) => s.links[i].peer # s.links[j].peer

Announced(s) ==
  \A i \in Links : /\ i \in s.told => s.links[i].active
                   /\ s.links[i].active => i = 0 \/ i \in s.told

TableSound(s) ==
  /\ s \in GattState
  /\ \A i \in Links : LinkSound(s.links[i], s.out[i], i \in s.mixed)
  /\ OnePeerEach(s)
  /\ Announced(s)

\* A step that changes one link keeps the table sound when it leaves that link
\* sound, announced and with a peer of its own.
LEMMA OneLinkChanges ==
  ASSUME NEW s, TableSound(s), NEW d \in GattState, NEW i \in Links,
         \A j \in Links : j # i => d.links[j] = s.links[j] /\ d.out[j] = s.out[j],
         \A j \in Links : j # i => (j \in d.mixed <=> j \in s.mixed),
         \A j \in Links : j # i => (j \in d.told <=> j \in s.told),
         LinkSound(d.links[i], d.out[i], i \in d.mixed),
         i \in d.told => d.links[i].active,
         d.links[i].active => i = 0 \/ i \in d.told,
         d.links[i].active => \A j \in Links : (j # i /\ s.links[j].active)
                                                 => s.links[j].peer # d.links[i].peer
  PROVE  TableSound(d)
<1>1. \A j \in Links : LinkSound(d.links[j], d.out[j], j \in d.mixed)
  <2> SUFFICES ASSUME NEW j \in Links PROVE LinkSound(d.links[j], d.out[j], j \in d.mixed)
    OBVIOUS
  <2>1. CASE j = i
    BY <2>1
  <2>2. CASE j # i
    <3>1. LinkSound(s.links[j], s.out[j], j \in s.mixed)
      BY DEF TableSound
    <3> QED BY <2>2, <3>1 DEF LinkSound
  <2> QED BY <2>1, <2>2
<1>2. OnePeerEach(d)
  BY DEF OnePeerEach, TableSound
<1>3. Announced(d)
  BY DEF Announced, TableSound
<1> QED BY <1>1, <1>2, <1>3 DEF TableSound

\* bt_gatt_link_by_peer finds the peer's link if it has one.
LEMMA LinkByPeerFacts ==
  ASSUME NEW s, NEW p
  PROVE  /\ LinkByPeer(s, p) # NoLink =>
              /\ LinkByPeer(s, p) \in Links /\ s.links[LinkByPeer(s, p)].active
              /\ s.links[LinkByPeer(s, p)].peer = p
         /\ LinkByPeer(s, p) = NoLink =>
              \A i \in Links : s.links[i].active => s.links[i].peer # p
<1> DEFINE Has(i) == s.links[i].active /\ s.links[i].peer = p
<1>1. NoLink \notin Links
  BY GattAssumption DEF NoLink, Links
<1>2. CASE \E i \in Links : Has(i)
  <2>1. LinkByPeer(s, p) = CHOOSE i \in Links : Has(i)
    BY <1>2 DEF LinkByPeer
  <2>2. LinkByPeer(s, p) \in Links /\ Has(LinkByPeer(s, p))
    BY <1>2, <2>1, Zenon
  <2> QED BY <1>1, <2>2
<1>3. CASE ~\E i \in Links : Has(i)
  <2>1. LinkByPeer(s, p) = NoLink
    BY <1>3 DEF LinkByPeer
  <2> QED BY <1>3, <2>1
<1> QED BY <1>2, <1>3

\* bt_gatt_link_alloc returns the peer's link, or a free slot for a peer without one.
LEMMA LinkAllocFacts ==
  ASSUME NEW s, NEW p, LinkAlloc(s, p) # NoLink
  PROVE  /\ LinkAlloc(s, p) \in Links
         /\ LinkByPeer(s, p) = NoLink => ~s.links[LinkAlloc(s, p)].active
         /\ LinkByPeer(s, p) # NoLink => LinkAlloc(s, p) = LinkByPeer(s, p)
<1> DEFINE free == {i \in Links : ~s.links[i].active}
<1>1. CASE LinkByPeer(s, p) # NoLink
  BY <1>1, LinkByPeerFacts DEF LinkAlloc
<1>2. CASE LinkByPeer(s, p) = NoLink
  <2>1. free # {} /\ free \subseteq Nat
    BY <1>2, GattAssumption DEF LinkAlloc, Links
  <2>2. \E i \in free : \A j \in free : i <= j
    BY <2>1, LeastOfNaturals, Zenon
  <2>3. LinkAlloc(s, p) = CHOOSE i \in free : \A j \in free : i <= j
    BY <1>2, <2>1 DEF LinkAlloc
  <2> HIDE DEF free
  <2>4. LinkAlloc(s, p) \in free
    BY <2>2, <2>3, Zenon
  <2> QED BY <1>2, <2>4 DEF free
<1> QED BY <1>1, <1>2

\* memset and the reset of prep_handle and prep_len leave no staged byte.
LEMMA BlankIsSound ==
  /\ NoPrep \in PrepState /\ PrepSound(NoPrep)
  /\ \A p \in PrepState : Unstage(p) \in PrepState /\ PrepSound(Unstage(p))
<1>0. Cells \subseteq Nat
  BY GattAssumption DEF Cells
<1>1. NoPrep \in PrepState /\ PrepSound(NoPrep)
  BY <1>0 DEF NoPrep, PrepState, PrepSound
<1>2. ASSUME NEW p \in PrepState PROVE Unstage(p) \in PrepState /\ PrepSound(Unstage(p))
  BY <1>0 DEF Unstage, PrepState, PrepSound
<1> QED BY <1>1, <1>2

\* A slot just freed, just taken, and taken again by the peer that holds it.
LEMMA ClearedIsSound ==
  /\ ClearedLink \in LinkState /\ ~ClearedLink.active
  /\ \A i, B : LinkSound(ClearedLink, 0, i \in B)
  /\ \A p \in Peers : /\ FreshLink(p) \in LinkState /\ FreshLink(p).active
                      /\ FreshLink(p).peer = p
                      /\ \A i, B : LinkSound(FreshLink(p), 0, i \in B)
  /\ \A l \in LinkState : l.active =>
                      /\ AgainLink(l) \in LinkState /\ AgainLink(l).active
                      /\ AgainLink(l).peer = l.peer
                      /\ \A i, B : LinkSound(AgainLink(l), 0, i \in B)
<1>1. ClearedLink \in LinkState /\ ~ClearedLink.active /\ ClearedLink.prep = NoPrep
      /\ ClearedLink.ntf = "none"
  BY BlankIsSound DEF ClearedLink, LinkState
<1> HIDE DEF ClearedLink
<1>2. \A p \in Peers : /\ FreshLink(p) \in LinkState /\ FreshLink(p).active
                       /\ FreshLink(p).peer = p /\ FreshLink(p).prep = NoPrep
                       /\ FreshLink(p).ntf = "none"
  BY <1>1, Zenon DEF FreshLink, LinkState
<1>3. ASSUME NEW l \in LinkState, l.active
      PROVE  /\ AgainLink(l) \in LinkState /\ AgainLink(l).active
             /\ AgainLink(l).peer = l.peer /\ PrepSound(AgainLink(l).prep)
             /\ AgainLink(l).ntf = "none"
  <2> DEFINE u == Unstage(l.prep)
             a == [l EXCEPT !.cccd = {}, !.ind = FALSE]
             b == [a EXCEPT !.ntf = "none", !.prep = u]
  <2>1. u \in PrepState /\ PrepSound(u)
    BY BlankIsSound DEF LinkState
  <2> HIDE DEF u
  <2>2. a \in LinkState /\ a.active = l.active /\ a.peer = l.peer
    BY Zenon DEF LinkState
  <2>3. AgainLink(l) = b
    BY DEF AgainLink, u
  <2> HIDE DEF a
  <2>4. b \in LinkState /\ b.active = a.active /\ b.peer = a.peer /\ b.prep = u /\ b.ntf = "none"
    BY <2>1, <2>2, Zenon DEF LinkState
  <2> HIDE DEF b
  <2> QED BY <1>3, <2>1, <2>2, <2>3, <2>4
<1> QED BY <1>1, <1>2, <1>3, BlankIsSound DEF LinkSound

\* A link given to a peer that has no other: bt_gatt_link_up, bt_gatt_connect_to.
LEMMA TakenKeeps ==
  ASSUME NEW s, TableSound(s), NEW p \in Peers, NEW i \in Links,
         \A j \in Links : (j # i /\ s.links[j].active) => s.links[j].peer # p,
         NEW l \in LinkState, l.active, l.peer = p, \A j, B : LinkSound(l, 0, j \in B)
  PROVE  TableSound(LinkRaiseComplete(SyncLink0(DbReset(
             [SessionOver(s, i) EXCEPT !.links[i] = l])), i))
<1> DEFINE links == [s.links EXCEPT ![i] = l]
           out == [s.out EXCEPT ![i] = 0]
           mixed == s.mixed \ {i}
           told == s.told \cup {i}
           a == [s EXCEPT !.out = out, !.mixed = mixed, !.links = links]
           b == [a EXCEPT !.row = {}, !.mntf = FALSE]
           m == b.links[0].active
           d == [b EXCEPT !.mirror = m]
           e == [d EXCEPT !.told = @ \cup {i}]
<1>0. s \in GattState /\ 0 \in Links
  BY GattAssumption DEF TableSound, Links
<1>1. /\ links \in [Links -> LinkState] /\ out \in [Links -> Nat] /\ mixed \in SUBSET Links
      /\ links[i] = l /\ out[i] = 0
      /\ \A j \in Links : j # i => links[j] = s.links[j] /\ out[j] = s.out[j]
      /\ \A j \in Links : j # i => (j \in mixed <=> j \in s.mixed)
  BY <1>0 DEF GattState
<1>2. LinkRaiseComplete(SyncLink0(DbReset([SessionOver(s, i) EXCEPT !.links[i] = l])), i) = e
  BY DEF LinkRaiseComplete, SyncLink0, DbReset, SessionOver
<1> HIDE DEF links, out, mixed
<1>3. a \in GattState /\ a.links = links /\ a.out = out /\ a.mixed = mixed /\ a.told = s.told
  BY <1>0, <1>1, Zenon DEF GattState
<1> HIDE DEF a
<1>4. b \in GattState /\ b.links = links /\ b.out = out /\ b.mixed = mixed /\ b.told = s.told
  BY <1>3, Zenon DEF GattState
<1>5. m \in BOOLEAN
  BY <1>0, <1>1, <1>4 DEF LinkState
<1> HIDE DEF b, m
<1>6. d \in GattState /\ d.links = links /\ d.out = out /\ d.mixed = mixed /\ d.told = s.told
  BY <1>4, <1>5 DEF GattState
<1> HIDE DEF d
<1>7. e \in GattState /\ e.links = links /\ e.out = out /\ e.mixed = mixed
      /\ e.told = s.told \cup {i}
  BY <1>6 DEF GattState
<1> HIDE DEF e
<1>8. LinkSound(l, 0, i \in e.mixed)
  OBVIOUS
<1>9. TableSound(e)
  BY <1>1, <1>7, <1>8, OneLinkChanges
<1> QED BY <1>2, <1>9

LEMMA ConnectKeeps ==
  ASSUME TableSound(g), NEW p \in Peers, RoomConnect(p) \/ GuestConnect(p)
  PROVE  TableSound(g')
<1> DEFINE i == LinkAlloc(g, p)
           Takes(l) == g' = LinkRaiseComplete(SyncLink0(DbReset(
                              [SessionOver(g, i) EXCEPT !.links[i] = l])), i)
<1>1. CASE g' = g
  BY <1>1
<1>2. CASE i # NoLink /\ (Takes(FreshLink(p)) \/ (g.links[i].active /\ Takes(AgainLink(g.links[i]))))
  <2>1. i \in Links
    BY <1>2, LinkAllocFacts
  <2>2. /\ \A j \in Links : (j # i /\ g.links[j].active) => g.links[j].peer # p
        /\ g.links[i].active => g.links[i].peer = p
    <3>1. CASE LinkByPeer(g, p) = NoLink
      BY <1>2, <3>1, LinkByPeerFacts, LinkAllocFacts
    <3>2. CASE LinkByPeer(g, p) # NoLink
      <4>1. i = LinkByPeer(g, p) /\ g.links[i].active /\ g.links[i].peer = p
        BY <1>2, <3>2, LinkAllocFacts, LinkByPeerFacts
      <4> QED BY <2>1, <4>1 DEF TableSound, OnePeerEach
    <3> QED BY <3>1, <3>2
  <2>3. g.links[i] \in LinkState
    BY <2>1 DEF TableSound, GattState
  <2> HIDE DEF i
  <2>4. CASE Takes(FreshLink(p))
    BY <2>1, <2>2, <2>4, ClearedIsSound, TakenKeeps, Zenon
  <2>5. CASE g.links[i].active /\ Takes(AgainLink(g.links[i]))
    <3>1. /\ AgainLink(g.links[i]) \in LinkState /\ AgainLink(g.links[i]).active
          /\ AgainLink(g.links[i]).peer = p
          /\ \A j, B : LinkSound(AgainLink(g.links[i]), 0, j \in B)
      BY <2>2, <2>3, <2>5, ClearedIsSound
    <3> QED BY <2>1, <2>2, <2>5, <3>1, TakenKeeps, Zenon
  <2> QED BY <1>2, <2>4, <2>5
<1> QED BY <1>1, <1>2 DEF RoomConnect, GuestConnect, LinkUp, CreateConnection, ConnectTo

LEMMA DisconnectKeeps ==
  ASSUME TableSound(g), NEW p \in Peers, RoomDisconnect(p)
  PROVE  TableSound(g')
<1> DEFINE i == LinkByPeer(g, p)
           links == [g.links EXCEPT ![i] = ClearedLink]
           out == [g.out EXCEPT ![i] = 0]
           mixed == g.mixed \ {i}
           told == g.told \ {i}
           a == [g EXCEPT !.links = links, !.told = told, !.out = out, !.mixed = mixed]
           m == a.links[0].active
           d == [a EXCEPT !.mirror = m]
<1>0. g \in GattState /\ 0 \in Links
  BY GattAssumption DEF TableSound, Links
<1>1. CASE i = NoLink
  BY <1>1 DEF RoomDisconnect, LinkDownPeer
<1>2. CASE i # NoLink
  <2>1. g' = d
    BY <1>2, Zenon DEF RoomDisconnect, LinkDownPeer, SyncLink0, SessionOver
  <2>2. i \in Links
    BY <1>2, LinkByPeerFacts
  <2> HIDE DEF i
  <2>3. /\ links \in [Links -> LinkState] /\ out \in [Links -> Nat] /\ mixed \in SUBSET Links
        /\ told \in SUBSET Links /\ links[i] = ClearedLink /\ out[i] = 0
        /\ \A j \in Links : j # i => links[j] = g.links[j] /\ out[j] = g.out[j]
        /\ \A j \in Links : j # i => (j \in mixed <=> j \in g.mixed)
        /\ \A j \in Links : j # i => (j \in told <=> j \in g.told)
        /\ i \notin told
    BY <1>0, <2>2, ClearedIsSound DEF GattState
  <2> HIDE DEF links, out, mixed, told
  <2>4. a \in GattState /\ a.links = links /\ a.out = out /\ a.mixed = mixed /\ a.told = told
    BY <1>0, <2>3, Zenon DEF GattState
  <2>5. m \in BOOLEAN
    BY <1>0, <2>3, <2>4 DEF LinkState
  <2> HIDE DEF a, m
  <2>6. d \in GattState /\ d.links = links /\ d.out = out /\ d.mixed = mixed /\ d.told = told
    BY <2>4, <2>5 DEF GattState
  <2> HIDE DEF d
  <2>7. ~ClearedLink.active /\ LinkSound(ClearedLink, 0, i \in d.mixed)
    BY <2>2, ClearedIsSound
  <2>8. TableSound(d)
    BY <2>2, <2>3, <2>6, <2>7, OneLinkChanges
  <2> QED BY <2>1, <2>8
<1> QED BY <1>1, <1>2

\* HCI Disconnect takes link 0 from the guest and leaves the table.
LEMMA HciDisconnectKeeps ==
  ASSUME TableSound(g), GuestDisconnect
  PROVE  TableSound(g')
<1> DEFINE told == g.told \ {0}
           d == [g EXCEPT !.mirror = FALSE, !.told = told]
<1>0. g \in GattState /\ 0 \in Links
  BY GattAssumption DEF TableSound, Links
<1>1. g' = g \/ g' = d
  BY DEF GuestDisconnect, HciDisconnect
<1>2. told \in SUBSET Links /\ 0 \notin told /\ \A j \in Links : j # 0 => (j \in told <=> j \in g.told)
  BY <1>0 DEF GattState
<1> HIDE DEF told
<1>3. d \in GattState /\ d.links = g.links /\ d.out = g.out /\ d.mixed = g.mixed /\ d.told = told
  BY <1>0, <1>2, Zenon DEF GattState
<1> HIDE DEF d
<1>4. LinkSound(d.links[0], d.out[0], 0 \in d.mixed)
  BY <1>0, <1>3 DEF TableSound
<1>5. \A j \in Links : (j # 0 /\ g.links[j].active /\ g.links[0].active)
                          => g.links[j].peer # g.links[0].peer
  BY <1>0 DEF TableSound, OnePeerEach
<1>6. TableSound(d)
  BY <1>0, <1>2, <1>3, <1>4, <1>5, OneLinkChanges
<1> QED BY <1>1, <1>6

\* A step on one link that keeps its session: who is connected does not change.
LEMMA SameSession ==
  ASSUME NEW s, TableSound(s), NEW d \in GattState, NEW i \in Links,
         \A j \in Links : j # i => d.links[j] = s.links[j] /\ d.out[j] = s.out[j],
         \A j \in Links : j # i => (j \in d.mixed <=> j \in s.mixed),
         d.told = s.told,
         d.links[i].active = s.links[i].active, d.links[i].peer = s.links[i].peer,
         LinkSound(d.links[i], d.out[i], i \in d.mixed)
  PROVE  TableSound(d)
<1>1. /\ i \in s.told => s.links[i].active
      /\ s.links[i].active => i = 0 \/ i \in s.told
      /\ \A j \in Links : (j # i /\ s.links[j].active /\ s.links[i].active)
                             => s.links[j].peer # s.links[i].peer
  BY DEF TableSound, Announced, OnePeerEach
<1> QED BY <1>1, OneLinkChanges

\* bt_gatt_notify_on.
LEMMA NotifyKeeps ==
  ASSUME TableSound(g), NEW i \in Links, NEW kind \in {"notify", "indicate"}, Notify(i, kind)
  PROVE  TableSound(g')
<1> DEFINE q == g.links[i]
           ind == q.ind \/ kind = "indicate"
           l == [q EXCEPT !.ntf = kind, !.ind = ind]
           links == [g.links EXCEPT ![i] = l]
           m == g.mntf \/ i = 0
           d == [g EXCEPT !.links = links, !.mntf = m]
<1>0. g \in GattState /\ q \in LinkState
  BY DEF TableSound, GattState
<1>1. CASE g' = g
  BY <1>1
<1>2. CASE ~(~q.active \/ (kind = "indicate" /\ q.ind) \/ q.ntf # "none" \/ ~CccdOn(g, i, kind))
  <2>1. g' = d
    BY <1>2 DEF Notify, NotifyOn
  <2>2. ind \in BOOLEAN /\ m \in BOOLEAN
    BY <1>0 DEF LinkState, GattState
  <2> HIDE DEF q, ind, m
  <2>4. l \in LinkState /\ l.ntf = kind /\ l.ind = ind /\ l.active = q.active
        /\ l.peer = q.peer /\ l.prep = q.prep
    BY <1>0, <2>2, Zenon DEF LinkState
  <2> HIDE DEF l
  <2>5. /\ links \in [Links -> LinkState] /\ links[i] = l
        /\ \A j \in Links : j # i => links[j] = g.links[j]
    BY <1>0, <2>4 DEF GattState
  <2> HIDE DEF links
  <2>6. d \in GattState /\ d.links = links /\ d.out = g.out /\ d.mixed = g.mixed
        /\ d.told = g.told
    BY <1>0, <2>2, <2>5, Zenon DEF GattState
  <2> HIDE DEF d
  <2>7. LinkSound(q, g.out[i], i \in g.mixed)
    BY DEF TableSound, q
  <2>8. LinkSound(l, g.out[i], i \in g.mixed)
    BY <1>2, <2>4, <2>7, Zenon DEF LinkSound, ind
  <2>9. TableSound(d)
    BY <2>4, <2>5, <2>6, <2>7, <2>8, SameSession DEF q
  <2> QED BY <2>1, <2>9
<1> QED BY <1>1, <1>2 DEF Notify, NotifyOn

\* bt_gatt_poll_notify: what a poll drains is on its way.
LEMMA GattPollKeeps ==
  ASSUME TableSound(g), GattPoll
  PROVE  TableSound(g')
<1> DEFINE due == {i \in Links : g.links[i].active /\ g.links[i].ntf # "none"}
           ind == {i \in due : g.links[i].ntf = "indicate"}
           links == [i \in Links |-> IF i \in due THEN [g.links[i] EXCEPT !.ntf = "none"]
                                     ELSE g.links[i]]
           out == [i \in Links |-> IF i \in ind \ g.mixed THEN g.out[i] + 1 ELSE g.out[i]]
           m == IF 0 \in due THEN FALSE ELSE g.mntf
           d == [g EXCEPT !.links = links, !.out = out, !.mntf = m]
<1>0. g \in GattState /\ g.links \in [Links -> LinkState] /\ g.out \in [Links -> Nat]
  BY DEF TableSound, GattState
<1>1. g' = g \/ g' = d
  BY DEF GattPoll, HciPoll, PollNotify
<1>2. \A i \in Links : /\ links[i] \in LinkState /\ links[i].active = g.links[i].active
                       /\ links[i].peer = g.links[i].peer /\ links[i].prep = g.links[i].prep
                       /\ links[i].ind = g.links[i].ind
                       /\ links[i].ntf = IF i \in due THEN "none" ELSE g.links[i].ntf
                       /\ out[i] = IF i \in ind \ g.mixed THEN g.out[i] + 1 ELSE g.out[i]
                       /\ out[i] \in Nat
  <2> SUFFICES ASSUME NEW i \in Links
               PROVE  /\ links[i] \in LinkState /\ links[i].active = g.links[i].active
                      /\ links[i].peer = g.links[i].peer /\ links[i].prep = g.links[i].prep
                      /\ links[i].ind = g.links[i].ind
                      /\ links[i].ntf = IF i \in due THEN "none" ELSE g.links[i].ntf
                      /\ out[i] = IF i \in ind \ g.mixed THEN g.out[i] + 1 ELSE g.out[i]
                      /\ out[i] \in Nat
    OBVIOUS
  <2>1. out[i] = IF i \in ind \ g.mixed THEN g.out[i] + 1 ELSE g.out[i]
    OBVIOUS
  <2>2. out[i] \in Nat
    BY <1>0, <2>1
  <2>3. links[i] = IF i \in due THEN [g.links[i] EXCEPT !.ntf = "none"] ELSE g.links[i]
    OBVIOUS
  <2> HIDE DEF links, out, due, ind
  <2> QED BY <1>0, <2>1, <2>2, <2>3 DEF LinkState
<1>3. m \in BOOLEAN
  BY <1>0, Zenon DEF GattState
<1>4. links \in [Links -> LinkState] /\ out \in [Links -> Nat]
  BY <1>2, Zenon
<1> HIDE DEF links, out, m
<1>5. d \in GattState /\ d.links = links /\ d.out = out /\ d.mixed = g.mixed /\ d.told = g.told
  BY <1>0, <1>3, <1>4, Zenon DEF GattState
<1> HIDE DEF d
<1>6. ASSUME NEW i \in Links PROVE LinkSound(links[i], out[i], i \in g.mixed)
  <2>1. LinkSound(g.links[i], g.out[i], i \in g.mixed)
    BY DEF TableSound
  <2>2. links[i].prep = g.links[i].prep /\ links[i].active = g.links[i].active
        /\ links[i].ind = g.links[i].ind
    BY <1>2
  <2>3. CASE i \in ind /\ i \notin g.mixed
    <3>1. g.links[i].ntf = "indicate" /\ links[i].ntf = "none" /\ out[i] = g.out[i] + 1
      BY <1>2, <2>3
    <3>2. g.out[i] = 0 /\ g.links[i].ind
      BY <2>1, <2>3, <3>1 DEF LinkSound
    <3>3. out[i] = 1
      BY <3>1, <3>2
    <3> QED BY <2>1, <2>2, <3>1, <3>2, <3>3 DEF LinkSound
  <2>4. CASE i \notin ind \/ i \in g.mixed
    <3>1. out[i] = g.out[i] /\ (links[i].ntf = "none" \/ links[i].ntf = g.links[i].ntf)
      BY <1>2, <2>4
    <3> QED BY <2>1, <2>2, <3>1 DEF LinkSound
  <2> QED BY <2>3, <2>4
<1>7. OnePeerEach(d) /\ Announced(d)
  BY <1>2, <1>5 DEF TableSound, OnePeerEach, Announced
<1>8. TableSound(d)
  BY <1>5, <1>6, <1>7 DEF TableSound
<1> QED BY <1>1, <1>8

\* A request is served on a link that is up, and a central with a link on its own.
LEMMA RequestFacts ==
  ASSUME TableSound(g), NEW who, NEW i, <<who, i>> \in Requests(g)
  PROVE  i \in Links /\ g.links[i].active /\ Origin(g, i, who) = "own"
<1>1. /\ i \in Links /\ g.links[i].active /\ who \in Peers \cup {"guest"}
      /\ who # "guest" => \E named \in Peers : i = RoomLink(g, who, named)
  BY DEF Requests
<1>2. CASE LinkByPeer(g, who) = NoLink
  BY <1>1, <1>2 DEF Origin
<1>3. CASE LinkByPeer(g, who) # NoLink /\ who # "guest"
  <2>1. i = LinkByPeer(g, who)
    BY <1>1, <1>3 DEF RoomLink
  <2> QED BY <1>1, <2>1 DEF Origin
<1>4. LinkByPeer(g, "guest") = NoLink
  <2>1. \A j \in Links : g.links[j].peer # "guest"
    BY GattAssumption DEF TableSound, GattState, LinkState, Off
  <2> QED BY <2>1, LinkByPeerFacts
<1> QED BY <1>2, <1>3, <1>4

\* ATT writes change the rows and the settings of one link.
LEMMA GattWriteKeeps ==
  ASSUME TableSound(g), NEW i \in Links, GattWrite(i)
  PROVE  TableSound(g')
<1>0. g \in GattState /\ g.links[i] \in LinkState
  BY DEF TableSound, GattState
<1> DEFINE Cfgs == SUBSET {"notify", "indicate"}
<1>1. PICK r \in Cfgs, c \in Cfgs :
        \/ g' = [g EXCEPT !.row = r]
        \/ g' = [g EXCEPT !.row = r, !.links[i].cccd = c]
  <2>1. PICK r \in Cfgs :
          \/ \E valid \in BOOLEAN : g' = WriteRequest(g, i, r, valid)
          \/ g' = WriteCommand(g, i, r)
    BY DEF GattWrite
  <2>2. g.links[i].cccd \in Cfgs
    BY <1>0 DEF LinkState
  <2> QED BY <2>1, <2>2, Zenon DEF WriteRequest, WriteCommand
<1> DEFINE l == [g.links[i] EXCEPT !.cccd = c]
           links == [g.links EXCEPT ![i] = l]
<1>2. CASE g' = [g EXCEPT !.row = r, !.links = links]
  <2> DEFINE d == [g EXCEPT !.row = r, !.links = links]
  <2>1. l \in LinkState /\ l.active = g.links[i].active /\ l.peer = g.links[i].peer
        /\ l.prep = g.links[i].prep /\ l.ind = g.links[i].ind /\ l.ntf = g.links[i].ntf
    BY <1>0 DEF LinkState
  <2> HIDE DEF l
  <2>2. /\ links \in [Links -> LinkState] /\ links[i] = l
        /\ \A j \in Links : j # i => links[j] = g.links[j]
    BY <1>0, <2>1 DEF GattState
  <2> HIDE DEF links
  <2>3. d \in GattState /\ d.links = links /\ d.out = g.out /\ d.mixed = g.mixed
        /\ d.told = g.told
    BY <1>0, <2>2, Zenon DEF GattState
  <2> HIDE DEF d
  <2>4. LinkSound(g.links[i], g.out[i], i \in g.mixed)
    BY DEF TableSound
  <2>5. LinkSound(l, g.out[i], i \in g.mixed)
    BY <2>1, <2>4 DEF LinkSound
  <2>6. TableSound(d)
    BY <2>1, <2>2, <2>3, <2>4, <2>5, SameSession
  <2> QED BY <1>2, <2>6 DEF d
<1>3. CASE g' = [g EXCEPT !.row = r]
  <2> DEFINE d == [g EXCEPT !.row = r]
  <2>1. d \in GattState /\ d.links = g.links /\ d.out = g.out /\ d.mixed = g.mixed
        /\ d.told = g.told
    BY <1>0 DEF GattState
  <2> HIDE DEF d
  <2>2. TableSound(d)
    BY <2>1 DEF TableSound, OnePeerEach, Announced
  <2> QED BY <1>3, <2>2 DEF d
<1>4. [g EXCEPT !.row = r, !.links[i].cccd = c] = [g EXCEPT !.row = r, !.links = links]
  BY <1>0 DEF GattState
<1> QED BY <1>1, <1>2, <1>3, <1>4

\* What a Prepare leaves in the staging of its link.
LEMMA PreparedIsSound ==
  ASSUME NEW p \in PrepState, PrepSound(p), NEW h \in {"scratch", "cccd"},
         NEW off \in Nat, NEW n \in Nat
  PROVE  Prepared(p, "own", h, off, n) \in PrepState /\ PrepSound(Prepared(p, "own", h, off, n))
<1> DEFINE len == IF off + n > p.len THEN off + n ELSE p.len
           gap == p.gap \/ off > p.len
           buf == [k \in Cells |-> IF k \in off..(off + n - 1) THEN "own" ELSE p.buf[k]]
           q == [h |-> h, len |-> len, gap |-> gap, buf |-> buf]
<1>0. Cells \subseteq Nat
  BY GattAssumption DEF Cells
<1>1. Prepared(p, "own", h, off, n) = q
  BY DEF Prepared
<1>2. p.len \in Nat /\ p.gap \in BOOLEAN
      /\ \A k \in Cells : p.buf[k] \in {"clear", "old"} \cup Staged
  BY DEF PrepState
<1>3. PrepSound(p)
  OBVIOUS
<1>4. len \in Nat /\ gap \in BOOLEAN
  BY <1>2
<1>5. buf \in [Cells -> {"clear", "old"} \cup Staged]
  BY <1>2 DEF Staged
<1>6. \A k \in Cells : buf[k] # "foreign"
  BY <1>3 DEF PrepSound
<1>7. gap \/ \A k \in Cells : k < len => buf[k] \in Staged
  <2> SUFFICES ASSUME ~gap, NEW k \in Cells, k < len PROVE buf[k] \in Staged
    OBVIOUS
  <2>1. ~p.gap /\ off <= p.len
    BY <1>2
  <2>2. CASE k \in off..(off + n - 1)
    BY <2>2 DEF Staged
  <2>3. CASE k \notin off..(off + n - 1)
    <3>1. k < p.len
      BY <1>0, <1>2, <2>1, <2>3
    <3>2. p.buf[k] \in Staged
      BY <1>3, <2>1, <3>1, Zenon DEF PrepSound
    <3> QED BY <2>3, <3>2
  <2> QED BY <2>2, <2>3
<1> HIDE DEF len, gap, buf
<1>8. q \in PrepState /\ PrepSound(q)
  BY <1>4, <1>5, <1>6, <1>7 DEF PrepState, PrepSound
<1> QED BY <1>1, <1>8

\* Prepare and Execute Write: one link's staging, and what a commit writes.
LEMMA LongWriteKeeps ==
  ASSUME TableSound(g), NEW who, NEW i, <<who, i>> \in Requests(g),
         LongWrite(Origin(g, i, who), i)
  PROVE  TableSound(g')
<1>0. i \in Links /\ g \in GattState /\ g.links[i] \in LinkState /\ g.links[i].active
      /\ LongWrite("own", i)
  BY RequestFacts DEF TableSound, GattState
<1>1. LinkSound(g.links[i], g.out[i], i \in g.mixed) /\ g.links[i].prep \in PrepState
  BY <1>0 DEF TableSound, LinkState
<1>2. ASSUME NEW x \in PrepState, PrepSound(x)
      PROVE  TableSound([g EXCEPT !.links[i].prep = x])
  <2> DEFINE l == [g.links[i] EXCEPT !.prep = x]
             links == [g.links EXCEPT ![i] = l]
             d == [g EXCEPT !.links = links]
  <2>1. l \in LinkState /\ l.active = g.links[i].active /\ l.peer = g.links[i].peer
        /\ l.prep = x /\ l.ind = g.links[i].ind /\ l.ntf = g.links[i].ntf
    BY <1>0, <1>2, Zenon DEF LinkState
  <2> HIDE DEF l
  <2>2. /\ links \in [Links -> LinkState] /\ links[i] = l
        /\ \A j \in Links : j # i => links[j] = g.links[j]
    BY <1>0, <2>1 DEF GattState
  <2> HIDE DEF links
  <2>3. d \in GattState /\ d.links = links /\ d.out = g.out /\ d.mixed = g.mixed
        /\ d.told = g.told
    BY <1>0, <2>2 DEF GattState
  <2> HIDE DEF d
  <2>4. LinkSound(l, g.out[i], i \in g.mixed)
    BY <1>0, <1>1, <1>2, <2>1 DEF LinkSound
  <2>5. TableSound(d)
    BY <1>0, <2>1, <2>2, <2>3, <2>4, SameSession, Zenon
  <2> QED BY <2>5 DEF d, links, l
<1>3. CASE \E h \in {"scratch", "cccd"}, off \in 0..PrepSize : \E n \in 0..(PrepSize - off) :
             g' = PrepareWrite(g, i, "own", h, off, n)
  <2>1. PICK h \in {"scratch", "cccd"}, off \in 0..PrepSize :
          \E n \in 0..(PrepSize - off) : g' = PrepareWrite(g, i, "own", h, off, n)
    BY <1>3, Zenon
  <2>2. PICK n \in 0..(PrepSize - off) : g' = PrepareWrite(g, i, "own", h, off, n)
    BY <2>1
  <2>3. off \in Nat /\ n \in Nat
    BY GattAssumption
  <2> DEFINE x == Prepared(g.links[i].prep, "own", h, off, n)
  <2>4. x \in PrepState /\ PrepSound(x)
    BY <1>1, <2>3, PreparedIsSound, Zenon DEF LinkSound
  <2>5. g' = g \/ g' = [g EXCEPT !.links[i].prep = x]
    BY <2>2 DEF PrepareWrite
  <2> HIDE DEF x
  <2> QED BY <1>2, <2>4, <2>5
<1>4. CASE \E commit \in BOOLEAN : g' = ExecuteWrite(g, i, commit)
  <2> DEFINE x == Unstage(g.links[i].prep)
             done == [g EXCEPT !.links[i].prep = x]
             row == IF g.links[i].prep.h = "cccd" THEN {"notify"} ELSE done.row
             d == [done EXCEPT !.row = row]
  <2>1. x \in PrepState /\ PrepSound(x)
    BY <1>1, BlankIsSound
  <2>2. g' = done \/ g' = d
    BY <1>4 DEF ExecuteWrite
  <2> HIDE DEF x
  <2>3. TableSound(done)
    BY <1>2, <2>1
  <2> HIDE DEF done
  <2>4. done \in GattState
    BY <2>3 DEF TableSound
  <2>5. row \in SUBSET {"notify", "indicate"}
    BY <2>4 DEF GattState
  <2> HIDE DEF row
  <2>6. d \in GattState /\ d.links = done.links /\ d.out = done.out /\ d.mixed = done.mixed
        /\ d.told = done.told
    BY <2>4, <2>5, Zenon DEF GattState
  <2> HIDE DEF d
  <2>7. TableSound(d)
    BY <2>3, <2>6 DEF TableSound, OnePeerEach, Announced
  <2> QED BY <2>2, <2>3, <2>7
<1> QED BY <1>0, <1>3, <1>4 DEF LongWrite

\* A Handle Value Confirmation, the guest's of our indication or another.
LEMMA ConfirmKeeps ==
  ASSUME TableSound(g), NEW i \in Links, Confirmed(i) \/ Overtaken(i)
  PROVE  TableSound(g')
<1> DEFINE l == [g.links[i] EXCEPT !.ind = FALSE]
           links == [g.links EXCEPT ![i] = l]
           a == [g EXCEPT !.links = links]
<1>0. g \in GattState /\ g.links[i] \in LinkState /\ g.out[i] \in Nat
      /\ LinkSound(g.links[i], g.out[i], i \in g.mixed)
  BY DEF TableSound, GattState
<1>1. Confirm(g, i) = a
  BY DEF Confirm
<1>2. l \in LinkState /\ l.active = g.links[i].active /\ l.peer = g.links[i].peer
      /\ l.prep = g.links[i].prep /\ ~l.ind /\ l.ntf = g.links[i].ntf
  BY <1>0, Zenon DEF LinkState
<1> HIDE DEF l
<1>3. /\ links \in [Links -> LinkState] /\ links[i] = l
      /\ \A j \in Links : j # i => links[j] = g.links[j]
  BY <1>0, <1>2 DEF GattState
<1> HIDE DEF links
<1>4. a \in GattState /\ a.links = links /\ a.out = g.out /\ a.mixed = g.mixed
      /\ a.told = g.told
  BY <1>0, <1>3 DEF GattState
<1> HIDE DEF a
<1>5. CASE Confirmed(i)
  <2> DEFINE n == g.out[i] - 1
             out == [g.out EXCEPT ![i] = n]
             d == [a EXCEPT !.out = out]
  <2>1. g' = d
    BY <1>1, <1>4, <1>5 DEF Confirmed
  <2>2. n \in Nat
    BY <1>0, <1>5 DEF Confirmed
  <2>3. i \notin g.mixed => n = 0 /\ g.links[i].ntf # "indicate"
    BY <1>0, <1>5 DEF Confirmed, LinkSound
  <2> HIDE DEF n
  <2>4. /\ out \in [Links -> Nat] /\ out[i] = n
        /\ \A j \in Links : j # i => out[j] = g.out[j]
    BY <1>0, <2>2 DEF GattState
  <2> HIDE DEF out
  <2>5. d \in GattState /\ d.links = links /\ d.out = out /\ d.mixed = g.mixed
        /\ d.told = g.told
    BY <1>4, <2>4 DEF GattState
  <2> HIDE DEF d
  <2>6. LinkSound(l, n, i \in g.mixed)
    BY <1>0, <1>2, <2>3 DEF LinkSound
  <2>7. TableSound(d)
    BY <1>2, <1>3, <2>4, <2>5, <2>6, SameSession
  <2> QED BY <2>1, <2>7
<1>6. CASE Overtaken(i)
  <2> DEFINE mixed == g.mixed \cup {i}
             d == [a EXCEPT !.mixed = mixed]
  <2>1. g' = d
    BY <1>1, <1>4, <1>6, Zenon DEF Overtaken
  <2>2. /\ mixed \in SUBSET Links /\ i \in mixed
        /\ \A j \in Links : j # i => (j \in mixed <=> j \in g.mixed)
    BY <1>0 DEF GattState
  <2> HIDE DEF mixed
  <2>3. d \in GattState /\ d.links = links /\ d.out = g.out /\ d.mixed = mixed
        /\ d.told = g.told
    BY <1>4, <2>2, Zenon DEF GattState
  <2> HIDE DEF d
  <2>4. LinkSound(l, g.out[i], i \in mixed)
    BY <1>0, <1>2, <2>2 DEF LinkSound
  <2>5. TableSound(d)
    BY <1>2, <1>3, <2>2, <2>3, <2>4, SameSession
  <2> QED BY <2>1, <2>5
<1> QED BY <1>5, <1>6

LEMMA TableSoundInit == GattInit => TableSound(g)
<1> SUFFICES ASSUME GattInit PROVE TableSound(g)
  OBVIOUS
<1> DEFINE links == [i \in Links |-> ClearedLink]
           out == [i \in Links |-> 0]
<1>1. /\ links \in [Links -> LinkState] /\ out \in [Links -> Nat]
      /\ \A i \in Links : links[i] = ClearedLink /\ out[i] = 0
  BY ClearedIsSound
<1>2. PICK use \in Profiles :
        g = [use |-> use, links |-> links, mirror |-> FALSE, mntf |-> FALSE, row |-> {},
             told |-> {}, out |-> out, mixed |-> {}]
  BY Zenon DEF GattInit
<1> HIDE DEF links, out
<1>3. g \in GattState /\ g.links = links /\ g.out = out /\ g.told = {} /\ g.mixed = {}
  BY <1>1, <1>2 DEF GattState
<1>4. ~ClearedLink.active /\ \A i \in Links : LinkSound(ClearedLink, 0, i \in g.mixed)
  BY ClearedIsSound
<1> QED BY <1>1, <1>3, <1>4 DEF TableSound, OnePeerEach, Announced

LEMMA TableSoundStep == TableSound(g) /\ [GattNext]_g => TableSound(g)'
<1> SUFFICES ASSUME TableSound(g), [GattNext]_g PROVE TableSound(g')
  BY DEF TableSound, OnePeerEach, Announced, LinkSound
<1>1. CASE UNCHANGED g
  BY <1>1
<1>2. CASE GattNext
  <2>1. CASE \E i \in {r[2] : r \in Requests(g)} : GattWrite(i)
    <3>1. PICK r \in Requests(g) : GattWrite(r[2])
      BY <2>1
    <3>2. r[2] \in Links
      BY DEF Requests
    <3> QED BY <3>1, <3>2, GattWriteKeeps
  <2>2. CASE \E r \in {<<Origin(g, q[2], q[1]), q[2]>> : q \in Requests(g)} : LongWrite(r[1], r[2])
    <3>1. PICK q \in Requests(g) : LongWrite(Origin(g, q[2], q[1]), q[2])
      BY <2>2
    <3>2. <<q[1], q[2]>> \in Requests(g)
      BY DEF Requests
    <3> QED BY <3>1, <3>2, LongWriteKeeps
  <2> QED BY <1>2, <2>1, <2>2, ConnectKeeps, DisconnectKeeps, HciDisconnectKeeps, NotifyKeeps,
             GattPollKeeps, ConfirmKeeps, Zenon DEF GattNext
<1> QED BY <1>1, <1>2

\* For every number of links, peers and staging bytes, whichever requests the guest,
\* the centrals and room MACs without a link make: the guest never has two
\* indications to confirm on a link whose flag only its confirmations of ours
\* clear; a peer holds one link and the guest was told of it; a central with a
\* link stages on no other, and a sequence without a gap commits its own bytes
\* only (bt_gatt_notify_on, bt_gatt_link_alloc, bt_gatt_handle_room_att_on).
THEOREM GattIsSound == GattSpec => []GattSound
<1>1. TableSound(g) => GattSound
  <2> SUFFICES ASSUME TableSound(g) PROVE GattSound
    OBVIOUS
  <2>1. g.told \subseteq Links
    BY DEF TableSound, GattState
  <2>2. OneIndication
    BY DEF OneIndication, TableSound, LinkSound
  <2>3. LinksKnown
    BY <2>1 DEF LinksKnown, TableSound, OnePeerEach, Announced
  <2>4. StagingIsolated
    <3>1. \A i \in Links : LinkSound(g.links[i], g.out[i], i \in g.mixed)
      BY DEF TableSound
    <3> QED BY <3>1 DEF StagingIsolated, LinkSound, PrepSound, Unstaged
  <2> QED BY <2>2, <2>3, <2>4 DEF GattSound
<1> QED BY <1>1, TableSoundInit, TableSoundStep, PTL DEF GattSpec

-----------------------------------------------------------------------------
(***************************************************************************)
(* A socket of a WIZnet chip and the host descriptors behind it.           *)
(***************************************************************************)

Connected == {"connected", "data", "eof", "hup"}
Dialled == Connected \cup {"connecting", "refused"}
Opened == Dialled \cup {"fresh", "dgram", "ddata", "dempty", "listening", "waiting"}
SockModes == {"tcp", "tcp6", "tcpd", "udp", "udpd", "ipraw", "macraw", "closed"}
SockStatus == {"CLOSED", "INIT", "LISTEN", "SYNSENT", "ESTABLISHED", "UDP", "IPRAW", "MACRAW"}
IrBits == {"CON", "DISCON", "RECV", "TIMEOUT", "SENDOK"}
FdState == [st : Opened \cup {"none", "lost"}, v6 : BOOLEAN]

SockState ==
  [chip : Chips \cup {"off"}, live : BOOLEAN, rst : BOOLEAN, mode : SockModes,
   sr : SockStatus, ir : SUBSET IrBits, host : 0..MaxFd, lis : 0..MaxFd,
   retry : Nat, keep : Nat, fd : [FdIds -> FdState]]

\* The books on descriptors: the open ones are the held ones, and only a live board
\* holds any.
Books(e) ==
  /\ e \in SockState
  /\ \A i \in FdIds : e.fd[i].st \in Opened <=> i \in {e.host, e.lis}
  /\ e.host # 0 => e.host # e.lis
  /\ ~e.live => e.host = 0 /\ e.lis = 0
  /\ e.chip = "off" => ~e.live

\* The host has no descriptor left to give: resets dropped them all.
AllDropped(e) == \A i \in FdIds : e.fd[i].st = "lost"

\* What the status says of the descriptors.
Status(e) ==
  /\ e.sr \in {"INIT", "LISTEN", "SYNSENT", "ESTABLISHED"} => Tcp(e.mode)
  /\ e.sr = "INIT" => e.lis = 0
  /\ (e.host # 0 /\ e.sr = "SYNSENT") => e.fd[e.host].st \in Dialled
  /\ (e.host # 0 /\ e.sr = "ESTABLISHED") => e.fd[e.host].st \in Connected
  /\ (e.live /\ e.host = 0 /\ e.sr \in {"INIT", "ESTABLISHED"}) => AllDropped(e)

SockInv(e) == Books(e) /\ Status(e)

\* A change of registers only.
Regs(d, e) ==
  /\ d \in SockState /\ d.chip = e.chip /\ d.live = e.live
  /\ d.fd = e.fd /\ d.host = e.host /\ d.lis = e.lis

LEMMA RegsKeep ==
  ASSUME NEW e, NEW d, Books(e), Regs(d, e)
  PROVE  Books(d)
BY DEF Books, Regs

LEMMA RaiseRegs ==
  ASSUME NEW e \in SockState, NEW bits \in SUBSET IrBits
  PROVE  /\ Regs(RaiseIr(e, bits), e)
         /\ RaiseIr(e, bits).sr = e.sr /\ RaiseIr(e, bits).mode = e.mode
BY DEF Regs, RaiseIr, SockState

\* An interrupt bit concerns neither the books nor the status.
LEMMA RaiseKeeps ==
  ASSUME NEW e, SockInv(e), NEW bits \in SUBSET IrBits
  PROVE  SockInv(RaiseIr(e, bits))
<1> DEFINE d == RaiseIr(e, bits)
<1>1. e \in SockState
  BY DEF SockInv, Books
<1>2. Regs(d, e) /\ d.sr = e.sr /\ d.mode = e.mode
  BY <1>1, RaiseRegs
<1> HIDE DEF d
<1>3. Books(d)
  BY <1>2, RegsKeep DEF SockInv
<1>4. Status(d)
  BY <1>2 DEF SockInv, Status, Regs, AllDropped
<1> QED BY <1>3, <1>4 DEF SockInv, d

\* A status that makes no claim on descriptors, with the counters started anew.
LEMMA QuietStatus ==
  ASSUME NEW e, Books(e), NEW d, Regs(d, e), d.sr \in {"CLOSED", "UDP", "IPRAW", "MACRAW"}
  PROVE  SockInv(d)
<1>1. Books(d)
  BY RegsKeep
<1> QED BY <1>1 DEF SockInv, Status

\* A step that leaves the connection's descriptor, its status and its mode alone.
LEMMA SameStatus ==
  ASSUME NEW e, SockInv(e), NEW d, Regs(d, e), d.sr = e.sr, d.mode = e.mode
  PROVE  SockInv(d)
<1>1. Books(d)
  BY RegsKeep DEF SockInv
<1>2. Status(d)
  BY DEF SockInv, Status, Regs, AllDropped
<1> QED BY <1>1, <1>2 DEF SockInv

\* close(2) keeps the books, and touches no register.
Closing(d, e) ==
  /\ d.chip = e.chip /\ d.live = e.live /\ d.rst = e.rst /\ d.mode = e.mode /\ d.sr = e.sr
  /\ d.ir = e.ir /\ d.retry = e.retry /\ d.keep = e.keep /\ d.host = 0

LEMMA CloseKeeps ==
  ASSUME NEW e, Books(e), NEW ids, ids = Held(e) \/ ids = {e.host} \ {0}
  PROVE  /\ Books(CloseFds(e, ids)) /\ Closing(CloseFds(e, ids), e)
         /\ CloseFds(e, ids).lis = IF ids = Held(e) THEN 0 ELSE e.lis
<1> DEFINE shut == [st |-> "none", v6 |-> FALSE]
           fd == [i \in FdIds |-> IF i \in ids THEN shut ELSE e.fd[i]]
           host == IF e.host \in ids THEN 0 ELSE e.host
           lis == IF e.lis \in ids THEN 0 ELSE e.lis
           d == [e EXCEPT !.fd = fd, !.host = host, !.lis = lis]
<1>0. e \in SockState /\ e.fd \in [FdIds -> FdState] /\ e.host \in 0..MaxFd /\ e.lis \in 0..MaxFd
  BY DEF Books, SockState
<1>1. CloseFds(e, ids) = d
  BY DEF CloseFds
<1>2. shut \in FdState /\ shut.st = "none"
  BY DEF FdState
<1> HIDE DEF shut
<1>3. /\ fd \in [FdIds -> FdState]
      /\ \A i \in FdIds : fd[i] = IF i \in ids THEN shut ELSE e.fd[i]
  BY <1>0, <1>2
<1>4. /\ host = 0 /\ host \in 0..MaxFd /\ lis \in 0..MaxFd
      /\ lis = IF ids = Held(e) THEN 0 ELSE e.lis
  <2>1. ids = Held(e) => host = 0 /\ lis = 0
    BY <1>0 DEF Held
  <2>2. ids = {e.host} \ {0} => host = 0
    BY <1>0
  <2>3. ids = {e.host} \ {0} /\ ids # Held(e) => lis = e.lis
    BY <1>0 DEF Books, Held
  <2>4. 0 \in 0..MaxFd
    BY SocketsAssumption
  <2> QED BY <1>0, <2>1, <2>2, <2>3, <2>4
<1> HIDE DEF fd, host, lis
<1>5. d \in SockState /\ Closing(d, e) /\ d.fd = fd /\ d.host = 0 /\ d.lis = lis
  <2>1. d \in SockState
    BY <1>0, <1>3, <1>4, Zenon DEF SockState
  <2>2. d.fd = fd /\ d.host = host /\ d.lis = lis
    BY <1>0 DEF SockState
  <2>3. /\ d.chip = e.chip /\ d.live = e.live /\ d.rst = e.rst /\ d.mode = e.mode
        /\ d.sr = e.sr /\ d.ir = e.ir /\ d.retry = e.retry /\ d.keep = e.keep
    BY <1>0 DEF SockState
  <2> HIDE DEF d
  <2> QED BY <1>4, <2>1, <2>2, <2>3 DEF Closing
<1> HIDE DEF d
<1>6. \A i \in FdIds : d.fd[i].st \in Opened <=> i \in {d.host, d.lis}
  <2> SUFFICES ASSUME NEW i \in FdIds PROVE d.fd[i].st \in Opened <=> i \in {d.host, d.lis}
    OBVIOUS
  <2>1. i # 0 /\ (e.fd[i].st \in Opened <=> i \in {e.host, e.lis})
    BY SocketsAssumption DEF Books, FdIds
  <2>2. CASE i \in ids
    <3>1. d.fd[i].st \notin Opened
      BY <1>2, <1>3, <1>5, <2>2 DEF Opened, Dialled, Connected
    <3>2. i # d.lis
      BY <1>4, <1>5, <2>1, <2>2 DEF Held, Books
    <3> QED BY <1>5, <2>1, <3>1, <3>2
  <2>3. CASE i \notin ids
    <3>1. d.fd[i].st \in Opened <=> i \in {e.host, e.lis}
      BY <1>3, <1>5, <2>1, <2>3
    <3>2. i # e.host
      BY <2>1, <2>3 DEF Held
    <3>3. i = e.lis <=> i = d.lis
      BY <1>4, <1>5, <2>1, <2>3 DEF Held
    <3> QED BY <1>5, <2>1, <3>1, <3>2, <3>3
  <2> QED BY <2>2, <2>3
<1>7. Books(d)
  BY <1>4, <1>5, <1>6 DEF Books, Closing
<1> QED BY <1>1, <1>4, <1>5, <1>7

\* socket(2) for a socket without a connection descriptor.
LEMMA SocketKeeps ==
  ASSUME NEW e, Books(e), e.live, e.host = 0, NEW kind \in Opened, NEW v6 \in BOOLEAN
  PROVE  /\ Books(Socket(e, kind, v6))
         /\ Socket(e, kind, v6).sr = e.sr /\ Socket(e, kind, v6).mode = e.mode
         /\ Socket(e, kind, v6).lis = e.lis /\ Socket(e, kind, v6).live = e.live
         /\ Socket(e, kind, v6).chip = e.chip
         /\ (e.lis = 0 /\ Socket(e, kind, v6).host = 0) => AllDropped(Socket(e, kind, v6))
<1>0. e \in SockState /\ e.fd \in [FdIds -> FdState] /\ FdIds \subseteq Nat
  BY SocketsAssumption DEF Books, SockState, FdIds
<1>1. CASE Usable(e) = {}
  <2>1. Socket(e, kind, v6) = [e EXCEPT !.host = 0]
    BY <1>1 DEF Socket
  <2>2. [e EXCEPT !.host = 0] = e
    BY <1>0 DEF SockState
  <2>3. e.lis = 0 => AllDropped(e)
    <3> SUFFICES ASSUME e.lis = 0, NEW i \in FdIds PROVE e.fd[i].st = "lost"
      BY DEF AllDropped
    <3>1. e.fd[i].st # "none" /\ e.fd[i] \in FdState
      BY <1>0, <1>1 DEF Usable
    <3>2. e.fd[i].st \notin Opened
      BY SocketsAssumption DEF Books, FdIds
    <3> QED BY <3>1, <3>2 DEF FdState
  <2> QED BY <2>1, <2>2, <2>3, Zenon
<1>2. CASE Usable(e) # {}
  <2> DEFINE i == CHOOSE i \in Usable(e) : \A j \in Usable(e) : i <= j
             new == [st |-> kind, v6 |-> v6]
             fd == [e.fd EXCEPT ![i] = new]
             d == [e EXCEPT !.host = i, !.fd = fd]
  <2>1. Socket(e, kind, v6) = d
    BY <1>2 DEF Socket
  <2>2. Usable(e) \subseteq Nat
    BY <1>0, Zenon DEF Usable
  <2>3. \E k \in Usable(e) : \A j \in Usable(e) : k <= j
    BY <1>2, <2>2, LeastOfNaturals
  <2>4. i \in Usable(e)
    BY <2>3, Zenon
  <2> HIDE DEF i
  <2>5. i \in FdIds /\ e.fd[i].st = "none" /\ i \in 0..MaxFd /\ i # 0
    BY <2>4, SocketsAssumption DEF Usable, FdIds
  <2>6. new \in FdState /\ new.st = kind
    BY DEF FdState
  <2> HIDE DEF new
  <2>7. fd \in [FdIds -> FdState] /\ fd[i] = new /\ \A j \in FdIds : j # i => fd[j] = e.fd[j]
    BY <1>0, <2>5, <2>6
  <2> HIDE DEF fd
  <2>8. d \in SockState /\ d.fd = fd /\ d.host = i /\ d.lis = e.lis /\ d.sr = e.sr
        /\ d.mode = e.mode /\ d.live = e.live /\ d.chip = e.chip
    BY <1>0, <2>5, <2>7, Zenon DEF SockState
  <2> HIDE DEF d
  <2>9. i # e.lis
    BY <2>5 DEF Books, Opened, Dialled, Connected
  <2>10. \A j \in FdIds : d.fd[j].st \in Opened <=> j \in {d.host, d.lis}
    <3> SUFFICES ASSUME NEW j \in FdIds PROVE d.fd[j].st \in Opened <=> j \in {d.host, d.lis}
      OBVIOUS
    <3>1. CASE j = i
      BY <2>6, <2>7, <2>8, <3>1
    <3>2. CASE j # i
      <4>1. j # 0 /\ (e.fd[j].st \in Opened <=> j \in {e.host, e.lis})
        BY SocketsAssumption DEF Books, FdIds
      <4> QED BY <2>7, <2>8, <3>2, <4>1
    <3> QED BY <3>1, <3>2
  <2>11. Books(d)
    BY <2>8, <2>9, <2>10 DEF Books
  <2> QED BY <2>1, <2>5, <2>8, <2>11
<1> QED BY <1>1, <1>2, Zenon

\* A descriptor in use changes its state.
LEMMA SetFdKeeps ==
  ASSUME NEW e, Books(e), NEW i \in FdIds, i \in {e.host, e.lis}, NEW st \in Opened
  PROVE  /\ Books(SetFd(e, i, st))
         /\ SetFd(e, i, st).sr = e.sr /\ SetFd(e, i, st).mode = e.mode
         /\ SetFd(e, i, st).lis = e.lis /\ SetFd(e, i, st).host = e.host
         /\ SetFd(e, i, st).live = e.live /\ SetFd(e, i, st).chip = e.chip
         /\ SetFd(e, i, st).fd[i].st = st
         /\ \A j \in FdIds : j # i => SetFd(e, i, st).fd[j] = e.fd[j]
<1> DEFINE f == [e.fd[i] EXCEPT !.st = st]
           fd == [e.fd EXCEPT ![i] = f]
           d == [e EXCEPT !.fd = fd]
<1>0. e \in SockState /\ e.fd \in [FdIds -> FdState]
  BY DEF Books, SockState
<1>1. SetFd(e, i, st) = d
  BY DEF SetFd
<1>2. f \in FdState /\ f.st = st
  BY <1>0 DEF FdState
<1> HIDE DEF f
<1>3. fd \in [FdIds -> FdState] /\ fd[i] = f /\ \A j \in FdIds : j # i => fd[j] = e.fd[j]
  BY <1>0, <1>2
<1> HIDE DEF fd
<1>4. /\ d \in SockState /\ d.fd = fd /\ d.sr = e.sr /\ d.mode = e.mode /\ d.lis = e.lis
      /\ d.host = e.host /\ d.live = e.live /\ d.chip = e.chip
  BY <1>0, <1>3 DEF SockState
<1> HIDE DEF d
<1>5. Books(d)
  BY <1>2, <1>3, <1>4 DEF Books
<1> QED BY <1>1, <1>2, <1>3, <1>4, <1>5

\* w6300_sock_recreate: the connection's descriptor is replaced by an IPv6 one.
LEMMA RecreateKeeps ==
  ASSUME NEW e, Books(e), e.live, NEW kind \in Opened
  PROVE  /\ Books(Recreate(e, kind))
         /\ Recreate(e, kind).sr = e.sr /\ Recreate(e, kind).mode = e.mode
         /\ Recreate(e, kind).lis = e.lis /\ Recreate(e, kind).live = e.live
         /\ Recreate(e, kind).chip = e.chip
<1> DEFINE ids == {e.host} \ {0}
           c == CloseFds(e, ids)
<1>1. Books(c) /\ Closing(c, e) /\ c.lis = IF ids = Held(e) THEN 0 ELSE e.lis
  BY CloseKeeps, Zenon
<1>2. c.lis = e.lis
  BY <1>1 DEF Held, Books
<1> HIDE DEF c
<1>3. c.live /\ c.host = 0
  BY <1>1 DEF Closing
<1>4. /\ Books(Socket(c, kind, TRUE))
      /\ Socket(c, kind, TRUE).sr = c.sr /\ Socket(c, kind, TRUE).mode = c.mode
      /\ Socket(c, kind, TRUE).lis = c.lis /\ Socket(c, kind, TRUE).live = c.live
      /\ Socket(c, kind, TRUE).chip = c.chip
  BY <1>1, <1>3, SocketKeeps, Zenon
<1>5. Recreate(e, kind) = Socket(c, kind, TRUE)
  BY DEF Recreate, c
<1> QED BY <1>1, <1>2, <1>4, <1>5, Zenon DEF Closing

\* A fresh descriptor for OPEN.
LEMMA FreshKeeps ==
  ASSUME NEW e, Books(e), NEW st \in {"INIT", "UDP", "IPRAW"}, NEW kind \in Opened,
         st = "INIT" => Tcp(e.mode)
  PROVE  SockInv(FreshSock(e, st, kind))
<1> DEFINE s == [e EXCEPT !.sr = st, !.retry = 0, !.keep = 0]
           c == CloseHostSock(s)
           d == Socket(c, kind, V6(e.mode))
<1>0. e \in SockState
  BY DEF Books
<1>1. Regs(s, e) /\ s.sr = st /\ s.mode = e.mode
  BY <1>0, Zenon DEF Regs, SockState, SockStatus
<1>2. FreshSock(e, st, kind) = IF e.live THEN d ELSE s
  BY DEF FreshSock
<1> HIDE DEF s
<1>3. Books(s)
  BY <1>1, RegsKeep
<1>4. CASE ~e.live
  <2>1. s.host = 0 /\ s.lis = 0
    BY <1>1, <1>4 DEF Books, Regs
  <2>2. Status(s)
    BY <1>1, <1>4, <2>1 DEF Status, Regs
  <2> QED BY <1>2, <1>3, <1>4, <2>2 DEF SockInv
<1>5. CASE e.live
  <2>1. Books(c) /\ Closing(c, s) /\ c.lis = 0
    BY <1>3, CloseKeeps DEF CloseHostSock
  <2> HIDE DEF c
  <2>2. c.live /\ c.host = 0 /\ V6(e.mode) \in BOOLEAN
    BY <1>1, <1>5, <2>1 DEF Closing, Regs, V6
  <2>3. /\ Books(d) /\ d.sr = c.sr /\ d.mode = c.mode /\ d.lis = c.lis
        /\ d.host = 0 => AllDropped(d)
    BY <2>1, <2>2, SocketKeeps
  <2> HIDE DEF d
  <2>4. d.sr = st /\ d.mode = e.mode /\ d.lis = 0
    BY <1>1, <2>1, <2>3 DEF Closing
  <2>5. Status(d)
    BY <2>3, <2>4 DEF Status
  <2> QED BY <1>2, <1>5, <2>3, <2>5 DEF SockInv
<1> QED BY <1>4, <1>5

\* CMD_OPEN.
LEMMA OpenKeeps ==
  ASSUME NEW e, SockInv(e), NEW m \in SockModes, NEW granted \in BOOLEAN,
         e.chip = "w5500" => m \in Modes("w5500")
  PROVE  SockInv(CmdOpen(e, m, granted))
<1> DEFINE a == [e EXCEPT !.mode = m]
<1>1. Regs(a, e) /\ a.mode = m /\ Books(e)
  BY DEF SockInv, Books, Regs, SockState
<1> HIDE DEF a
<1>2. Books(a) /\ a \in SockState
  BY <1>1, RegsKeep DEF Regs
<1>3. {"fresh", "dgram"} \subseteq Opened
  BY DEF Opened
<1>4. SockInv(FreshSock(a, "UDP", "dgram")) /\ SockInv(FreshSock(a, "IPRAW", "dgram"))
  BY <1>2, <1>3, FreshKeeps
<1>5. Tcp(m) => SockInv(FreshSock(a, "INIT", "fresh"))
  BY <1>1, <1>2, <1>3, FreshKeeps
<1>6. SockInv([a EXCEPT !.sr = "MACRAW"])
  <2> DEFINE d == [a EXCEPT !.sr = "MACRAW"]
  <2>1. Regs(d, a) /\ d.sr = "MACRAW"
    BY <1>2 DEF Regs, SockState, SockStatus
  <2> QED BY <1>2, <2>1, QuietStatus, Zenon
<1>7. ASSUME NEW x, Books(x), NEW st \in {"MACRAW", "CLOSED", "IPRAW"}
      PROVE  SockInv([x EXCEPT !.sr = st, !.retry = 0, !.keep = 0])
  <2> DEFINE d == [x EXCEPT !.sr = st, !.retry = 0, !.keep = 0]
  <2>1. Regs(d, x) /\ d.sr = st
    BY <1>7, Zenon DEF Books, Regs, SockState, SockStatus
  <2> QED BY <1>7, <2>1, QuietStatus, Zenon
<1>8. Books(CloseHostSock(a))
  BY <1>2, CloseKeeps DEF CloseHostSock
<1>9. CASE e.chip = "w5500"
  <2>1. m \in {"tcp", "udp", "macraw"} /\ CmdOpen(e, m, granted) = W5500Open(a)
    BY <1>9 DEF Modes, CmdOpen, a
  <2> QED BY <1>1, <1>4, <1>5, <1>6, <2>1 DEF W5500Open, Tcp
<1>10. CASE e.chip # "w5500"
  <2>1. CmdOpen(e, m, granted) = W6300Open(a, granted)
    BY <1>10 DEF CmdOpen, a
  <2>2. SockInv([a EXCEPT !.sr = "MACRAW", !.retry = 0, !.keep = 0])
        /\ SockInv([a EXCEPT !.sr = "CLOSED", !.retry = 0, !.keep = 0])
        /\ SockInv([CloseHostSock(a) EXCEPT !.sr = "IPRAW", !.retry = 0, !.keep = 0])
    BY <1>2, <1>7, <1>8, Zenon
  <2>3. CASE Tcp(m)
    BY <1>1, <1>5, <2>1, <2>3 DEF W6300Open, Tcp, Udp
  <2>4. CASE Udp(m)
    BY <1>1, <1>4, <2>1, <2>4 DEF W6300Open, Tcp, Udp
  <2>5. CASE m \in {"ipraw", "macraw", "closed"}
    BY <1>1, <1>4, <2>1, <2>2, <2>5 DEF W6300Open, Tcp, Udp
  <2> QED BY <2>3, <2>4, <2>5 DEF SockModes, Tcp, Udp
<1> QED BY <1>9, <1>10

\* bind and listen: the descriptor moves to the listening slot.
LEMMA BindKeeps ==
  ASSUME NEW e, Books(e), e.sr = "LISTEN", Tcp(e.mode), e.lis = 0, NEW bound \in BOOLEAN
  PROVE  SockInv(Bind(e, bound))
<1>1. CASE e.host = 0 \/ ~bound
  <2>1. Status(e)
    BY DEF Status
  <2> QED BY <1>1, <2>1 DEF Bind, SockInv
<1>2. CASE ~(e.host = 0 \/ ~bound)
  <2> DEFINE a == SetFd(e, e.host, "listening")
             d == [a EXCEPT !.lis = e.host, !.host = 0]
  <2>1. Bind(e, bound) = d
    BY <1>2 DEF Bind
  <2>2. e.host \in FdIds /\ e.host \in 0..MaxFd /\ 0 \in 0..MaxFd /\ "listening" \in Opened
    BY <1>2, SocketsAssumption DEF Books, SockState, FdIds, Opened
  <2>3. /\ Books(a) /\ a.sr = "LISTEN" /\ a.mode = e.mode /\ a.lis = 0 /\ a.host = e.host
        /\ a.live = e.live /\ a.chip = e.chip
    BY <2>2, SetFdKeeps
  <2> HIDE DEF a
  <2>4. /\ d \in SockState /\ d.fd = a.fd /\ d.lis = e.host /\ d.host = 0 /\ d.sr = "LISTEN"
        /\ d.mode = e.mode /\ d.live = a.live /\ d.chip = a.chip
    BY <2>2, <2>3, Zenon DEF Books, SockState
  <2> HIDE DEF d
  <2>5. Books(d)
    BY <1>2, <2>3, <2>4 DEF Books
  <2>6. Status(d)
    BY <2>4 DEF Status
  <2> QED BY <2>1, <2>5, <2>6 DEF SockInv
<1> QED BY <1>1, <1>2

\* CMD_LISTEN.
LEMMA ListenKeeps ==
  ASSUME NEW e, SockInv(e), NEW d6 \in BOOLEAN, NEW bound \in BOOLEAN
  PROVE  SockInv(W5500Listen(e, bound)) /\ SockInv(W6300Listen(e, d6, bound))
<1> DEFINE s == [e EXCEPT !.sr = "LISTEN"]
           r == Recreate(s, "fresh")
<1>1. CASE e.sr # "INIT"
  BY <1>1 DEF W5500Listen, W6300Listen
<1>2. CASE e.sr = "INIT"
  <2>1. Regs(s, e) /\ s.sr = "LISTEN" /\ s.mode = e.mode
    BY DEF SockInv, Books, Regs, SockState, SockStatus
  <2> HIDE DEF s
  <2>2. Books(s) /\ Tcp(s.mode) /\ s.lis = 0
    BY <1>2, <2>1, RegsKeep DEF SockInv, Status, Regs
  <2>3. SockInv(Bind(s, bound))
    BY <2>1, <2>2, BindKeeps
  <2>4. SockInv(s)
    BY <2>1, <2>2 DEF SockInv, Status
  <2>5. e.live => SockInv(Bind(r, bound))
    <3> SUFFICES ASSUME e.live PROVE SockInv(Bind(r, bound))
      OBVIOUS
    <3>1. s.live /\ "fresh" \in Opened
      BY <2>1 DEF Regs, Opened
    <3>2. Books(r) /\ r.sr = s.sr /\ r.mode = s.mode /\ r.lis = s.lis
      BY <2>2, <3>1, RecreateKeeps
    <3> HIDE DEF r
    <3> QED BY <2>1, <2>2, <3>2, BindKeeps
  <2>6. SockInv(W5500Listen(e, bound))
    BY <1>2, <2>3, <2>4 DEF W5500Listen, s
  <2>7. SockInv(W6300Listen(e, d6, bound))
    BY <1>2, <2>3, <2>4, <2>5 DEF W6300Listen, s, r
  <2> QED BY <2>6, <2>7
<1> QED BY <1>1, <1>2

\* connect(2).
LEMMA DialKeeps ==
  ASSUME NEW e, Books(e), Tcp(e.mode), e.host # 0, NEW rc \in {"ok", "progress", "fail"}
  PROVE  SockInv(Dial(e, rc))
<1>0. e.host \in FdIds /\ {"connected", "connecting"} \subseteq Opened
  BY SocketsAssumption DEF Books, SockState, FdIds, Opened, Dialled, Connected
<1>1. ASSUME NEW st \in {"connected", "connecting"}, NEW sr \in {"ESTABLISHED", "SYNSENT"},
             sr = "ESTABLISHED" => st = "connected"
      PROVE  SockInv([SetFd(e, e.host, st) EXCEPT !.sr = sr])
  <2> DEFINE a == SetFd(e, e.host, st)
             d == [a EXCEPT !.sr = sr]
  <2>1. /\ Books(a) /\ a.mode = e.mode /\ a.lis = e.lis /\ a.host = e.host
        /\ a.fd[e.host].st = st
    BY <1>0, SetFdKeeps
  <2> HIDE DEF a
  <2>2. Regs(d, a) /\ d.sr = sr /\ d.mode = a.mode
    BY <2>1 DEF Books, Regs, SockState, SockStatus
  <2> HIDE DEF d
  <2>3. Books(d)
    BY <2>1, <2>2, RegsKeep
  <2>4. Status(d)
    BY <1>1, <2>1, <2>2 DEF Status, Regs, Dialled, Connected
  <2> QED BY <2>3, <2>4 DEF SockInv, d, a
<1>2. SockInv([e EXCEPT !.sr = "CLOSED"])
  <2> DEFINE d == [e EXCEPT !.sr = "CLOSED"]
  <2>1. Regs(d, e) /\ d.sr = "CLOSED"
    BY DEF Books, Regs, SockState, SockStatus
  <2> QED BY <2>1, QuietStatus, Zenon
<1>3. CASE rc = "ok"
  <2>1. Dial(e, rc) = [SetFd(e, e.host, "connected") EXCEPT !.sr = "ESTABLISHED"]
    BY <1>3 DEF Dial
  <2> QED BY <1>1, <2>1
<1>4. CASE rc = "progress"
  <2>1. Dial(e, rc) = [SetFd(e, e.host, "connecting") EXCEPT !.sr = "SYNSENT"]
    BY <1>4 DEF Dial
  <2> QED BY <1>1, <2>1
<1>5. CASE rc = "fail"
  <2>1. Dial(e, rc) = [e EXCEPT !.sr = "CLOSED"]
    BY <1>5 DEF Dial
  <2> QED BY <1>2, <2>1
<1> QED BY <1>3, <1>4, <1>5

\* ESTABLISHED without a descriptor: the offline chip, or a host without one left.
LEMMA OfflineConnect ==
  ASSUME NEW e, Books(e), Tcp(e.mode), ~e.live \/ (e.host = 0 /\ AllDropped(e))
  PROVE  SockInv([e EXCEPT !.sr = "ESTABLISHED"])
<1> DEFINE d == [e EXCEPT !.sr = "ESTABLISHED"]
<1>1. Regs(d, e) /\ d.sr = "ESTABLISHED" /\ d.mode = e.mode
  BY DEF Books, Regs, SockState, SockStatus
<1> HIDE DEF d
<1>2. Books(d) /\ d.host = 0
  BY <1>1, RegsKeep DEF Regs, Books
<1>3. d.live => AllDropped(d)
  BY <1>1 DEF Regs, AllDropped
<1> QED BY <1>1, <1>2, <1>3 DEF SockInv, Status, d

\* CMD_CONNECT of the W5500.
LEMMA W5500ConnectKeeps ==
  ASSUME NEW e, SockInv(e), NEW rc \in {"ok", "progress", "fail"}
  PROVE  SockInv(W5500Connect(e, rc))
<1>1. CASE e.sr # "INIT"
  BY <1>1 DEF W5500Connect
<1>2. CASE e.sr = "INIT"
  <2>1. /\ Books(e) /\ Tcp(e.mode)
        /\ (e.live /\ e.host = 0) => AllDropped(e)
    BY <1>2 DEF SockInv, Status
  <2> QED BY <1>2, <2>1, DialKeeps, OfflineConnect DEF W5500Connect
<1> QED BY <1>1, <1>2

\* CMD_CONNECT and CMD_CONNECT6 of the W6300.
LEMMA W6300ConnectKeeps ==
  ASSUME NEW e, SockInv(e), NEW cmd6 \in BOOLEAN, NEW d6 \in BOOLEAN,
         NEW rc \in {"ok", "progress", "fail"}
  PROVE  SockInv(W6300Connect(e, cmd6, d6, rc))
<1>1. CASE e.sr # "INIT"
  BY <1>1 DEF W6300Connect
<1>2. CASE e.sr = "INIT"
  <2> DEFINE want6 == cmd6 \/ (V6(e.mode) /\ ~Dual(e.mode)) \/ (Dual(e.mode) /\ d6)
             s == [e EXCEPT !.retry = 0]
             u == IF want6 /\ Dual(e.mode) /\ ~HostV6(s) THEN Recreate(s, "fresh") ELSE s
             x == [u EXCEPT !.sr = "CLOSED"]
  <2>1. Regs(s, e) /\ s.sr = e.sr /\ s.mode = e.mode
    BY DEF SockInv, Books, Regs, SockState
  <2>2. W6300Connect(e, cmd6, d6, rc) =
          IF ~e.live \/ e.host = 0 THEN [s EXCEPT !.sr = "ESTABLISHED"]
          ELSE IF u.host = 0 THEN RaiseIr(x, {"TIMEOUT"})
          ELSE IF want6 /\ ~u.fd[u.host].v6 THEN RaiseIr(x, {"TIMEOUT"})
          ELSE Dial(u, rc)
    BY <1>2 DEF W6300Connect
  <2> HIDE DEF s
  <2>3. Books(s) /\ Tcp(s.mode)
    BY <1>2, <2>1, RegsKeep DEF SockInv, Status
  <2>4. CASE ~e.live \/ e.host = 0
    <3>1. ~s.live \/ (s.host = 0 /\ AllDropped(s))
      BY <1>2, <2>1, <2>4 DEF SockInv, Status, Regs, AllDropped
    <3>2. SockInv([s EXCEPT !.sr = "ESTABLISHED"])
      BY <2>3, <3>1, OfflineConnect
    <3> QED BY <2>2, <2>4, <3>2
  <2>5. CASE ~(~e.live \/ e.host = 0)
    <3>1. s.live /\ "fresh" \in Opened
      BY <2>1, <2>5 DEF Regs, Opened
    <3>2. Books(u) /\ u.mode = s.mode
      BY <2>3, <3>1, RecreateKeeps
    <3> HIDE DEF u, want6
    <3>3. Regs(x, u) /\ x.sr = "CLOSED"
      BY <3>2 DEF Books, Regs, SockState, SockStatus
    <3> HIDE DEF x
    <3>4. SockInv(x) /\ {"TIMEOUT"} \in SUBSET IrBits
      BY <3>2, <3>3, QuietStatus DEF IrBits
    <3>5. SockInv(RaiseIr(x, {"TIMEOUT"}))
      BY <3>4, RaiseKeeps
    <3>6. u.host # 0 => SockInv(Dial(u, rc))
      BY <2>3, <3>2, DialKeeps
    <3> QED BY <2>2, <2>5, <3>5, <3>6
  <2> QED BY <2>4, <2>5
<1> QED BY <1>1, <1>2

\* CMD_DISCON and CMD_CLOSE.
LEMMA DisconKeeps ==
  ASSUME NEW e, SockInv(e)
  PROVE  SockInv(CmdClose(e)) /\ SockInv(CmdDiscon(e))
<1> DEFINE s == [e EXCEPT !.sr = "CLOSED", !.retry = 0, !.keep = 0]
           c == CloseHostSock(s)
           x == IF e.live THEN c ELSE s
<1>1. Regs(s, e) /\ s.sr = "CLOSED" /\ Books(e)
  BY Zenon DEF SockInv, Books, Regs, SockState, SockStatus
<1>2. CmdClose(e) = x /\ CmdDiscon(e) = IF e.sr # "ESTABLISHED" THEN e ELSE RaiseIr(x, {"DISCON"})
  BY DEF CmdClose, CmdDiscon
<1> HIDE DEF s
<1>3. SockInv(s)
  BY <1>1, QuietStatus
<1>4. Books(c) /\ c.sr = "CLOSED"
  BY <1>1, <1>3, CloseKeeps DEF CloseHostSock, SockInv, Closing
<1>5. SockInv(c)
  BY <1>4 DEF SockInv, Status
<1>6. SockInv(x) /\ {"DISCON"} \in SUBSET IrBits
  BY <1>3, <1>5 DEF IrBits
<1> HIDE DEF x
<1>7. SockInv(RaiseIr(x, {"DISCON"}))
  BY <1>6, RaiseKeeps
<1> QED BY <1>2, <1>6, <1>7

\* The keep-alive counter starts anew.
LEMMA KeepRestarts ==
  ASSUME NEW e, SockInv(e), NEW n \in Nat
  PROVE  SockInv([e EXCEPT !.keep = n])
<1> DEFINE d == [e EXCEPT !.keep = n]
<1>1. Regs(d, e) /\ d.sr = e.sr /\ d.mode = e.mode
  BY DEF SockInv, Books, Regs, SockState
<1> QED BY <1>1, SameStatus, Zenon

\* CMD_SEND, SEND_MAC, SEND6 and SEND_KEEP.
LEMMA SendKeeps ==
  ASSUME NEW e, SockInv(e), NEW cmd6 \in BOOLEAN, NEW d6 \in BOOLEAN, NEW sent \in BOOLEAN
  PROVE  /\ SockInv(W5500Send(e)) /\ SockInv(W6300Send(e, cmd6, d6, sent))
         /\ SockInv(CmdSendKeep(e))
<1>0. {"SENDOK"} \in SUBSET IrBits /\ {"TIMEOUT"} \in SUBSET IrBits
      /\ {"TIMEOUT", "SENDOK"} \in SUBSET IrBits
  BY DEF IrBits
<1>1. SockInv(RaiseIr(e, {"SENDOK"})) /\ SockInv(RaiseIr(e, {"TIMEOUT"}))
  BY <1>0, RaiseKeeps
<1>2. SockInv([e EXCEPT !.keep = 0])
  BY KeepRestarts
<1>3. SockInv(RaiseIr([e EXCEPT !.keep = 0], {"SENDOK"}))
  BY <1>0, <1>2, RaiseKeeps
<1> DEFINE is6 == cmd6 \/ (V6(e.mode) /\ ~Dual(e.mode)) \/ (Dual(e.mode) /\ d6)
           hostable == e.live /\ e.host # 0
           anew == hostable /\ is6 /\ Udp(e.mode) /\ Dual(e.mode) /\ ~HostV6(e)
           u == IF anew THEN Recreate(e, "dgram") ELSE e
           wrong == hostable /\ is6 /\ (u.host = 0 \/ ~u.fd[u.host].v6)
           lost == e.mode = "ipraw" /\ (~hostable \/ ~sent)
           bits == IF lost THEN {"TIMEOUT", "SENDOK"} ELSE {"SENDOK"}
<1>4. SockInv(u)
  <2>1. CASE ~anew
    BY <2>1
  <2>2. CASE anew
    <3>1. Books(e) /\ e.live /\ Udp(e.mode) /\ "dgram" \in Opened
      BY <2>2 DEF SockInv, Opened
    <3> DEFINE r == Recreate(e, "dgram")
    <3>2. Books(r) /\ r.sr = e.sr /\ r.mode = e.mode
      BY <3>1, RecreateKeeps
    <3> HIDE DEF r
    <3>3. Status(r)
      BY <3>1, <3>2 DEF SockInv, Status, Tcp, Udp
    <3> QED BY <2>2, <3>2, <3>3 DEF SockInv, r
  <2> QED BY <2>1, <2>2
<1>5. W6300Send(e, cmd6, d6, sent) =
        IF e.sr \notin {"ESTABLISHED", "UDP", "IPRAW", "MACRAW"} THEN RaiseIr(e, {"TIMEOUT"})
        ELSE IF wrong \/ (lost /\ ~hostable) THEN RaiseIr(u, {"TIMEOUT"})
        ELSE RaiseIr([u EXCEPT !.keep = 0], bits)
  BY DEF W6300Send
<1>6. bits \in SUBSET IrBits
  BY <1>0
<1> HIDE DEF u, wrong, lost, hostable, bits
<1>7. SockInv([u EXCEPT !.keep = 0])
  BY <1>4, KeepRestarts
<1>8. SockInv(RaiseIr(u, {"TIMEOUT"})) /\ SockInv(RaiseIr([u EXCEPT !.keep = 0], bits))
  BY <1>0, <1>4, <1>6, <1>7, RaiseKeeps
<1>9. SockInv(W6300Send(e, cmd6, d6, sent))
  BY <1>1, <1>5, <1>8
<1> QED BY <1>1, <1>3, <1>9 DEF W5500Send, CmdSendKeep

\* A connection given up: its descriptor is closed, the status is CLOSED.
LEMMA DropKeeps ==
  ASSUME NEW e, SockInv(e), NEW ids, ids = {e.host} \ {0}
  PROVE  /\ SockInv([CloseFds(e, ids) EXCEPT !.sr = "CLOSED"])
         /\ SockInv([CloseFds(e, ids) EXCEPT !.sr = "CLOSED", !.retry = 0])
<1> DEFINE c == CloseFds(e, ids)
           x == [c EXCEPT !.sr = "CLOSED"]
           y == [c EXCEPT !.sr = "CLOSED", !.retry = 0]
<1>1. Books(c)
  BY CloseKeeps DEF SockInv
<1> HIDE DEF c
<1>2. Regs(x, c) /\ x.sr = "CLOSED"
  BY <1>1 DEF Books, Regs, SockState, SockStatus
<1>3. Regs(y, c) /\ y.sr = "CLOSED"
  BY <1>1, Zenon DEF Books, Regs, SockState, SockStatus
<1> HIDE DEF x, y
<1>4. SockInv(x) /\ SockInv(y)
  BY <1>1, <1>2, <1>3, QuietStatus
<1> QED BY <1>4 DEF x, y, c

\* poll: a waiting client is adopted.
LEMMA AcceptKeeps ==
  ASSUME NEW e, SockInv(e)
  PROVE  SockInv(PollAccept(e))
<1> DEFINE stays == e.lis = 0 \/ e.sr # "LISTEN" \/ e.fd[e.lis].st # "waiting" \/ Usable(e) = {}
<1>1. CASE stays
  BY <1>1 DEF PollAccept
<1>2. CASE ~stays
  <2> DEFINE i == CHOOSE i \in Usable(e) : \A j \in Usable(e) : i <= j
             b == SetFd(e, e.lis, "listening")
             new == [st |-> "connected", v6 |-> e.fd[e.lis].v6]
             a == [b EXCEPT !.fd[i] = new]
             ids == {e.host} \ {0}
             c == CloseFds(a, ids)
             d == [c EXCEPT !.host = i, !.sr = "ESTABLISHED"]
  <2>1. PollAccept(e) = RaiseIr(d, {"CON"})
    BY <1>2 DEF PollAccept
  <2>2. e \in SockState /\ e.fd \in [FdIds -> FdState] /\ FdIds \subseteq Nat /\ 0 \notin FdIds
        /\ e.lis \in FdIds /\ Usable(e) # {} /\ Tcp(e.mode) /\ e.sr = "LISTEN"
        /\ e.live /\ Books(e)
    BY <1>2, SocketsAssumption DEF SockInv, Status, Books, SockState, FdIds
  <2>3. Usable(e) \subseteq Nat
    BY <2>2, Zenon DEF Usable
  <2>4. \E k \in Usable(e) : \A j \in Usable(e) : k <= j
    BY <2>2, <2>3, LeastOfNaturals
  <2>5. i \in Usable(e)
    BY <2>4, Zenon
  <2> HIDE DEF i
  <2>6. i \in FdIds /\ e.fd[i].st = "none"
    BY <2>5 DEF Usable
  <2>7. i # e.lis /\ i # e.host /\ i # 0
    BY <2>2, <2>6 DEF Books, Opened, Dialled, Connected
  <2>8. /\ Books(b) /\ b.mode = e.mode /\ b.lis = e.lis /\ b.host = e.host /\ b.live = e.live
        /\ b.chip = e.chip
    <3>1. "listening" \in Opened
      BY DEF Opened
    <3>2. Books(e) /\ e.lis \in FdIds /\ e.lis \in {e.host, e.lis}
      BY <2>2
    <3> QED BY <3>1, <3>2, SetFdKeeps
  <2>9. new \in FdState /\ new.st = "connected"
    BY <2>2, Zenon DEF FdState, Opened, Dialled, Connected
  <2> HIDE DEF b, new
  <2>10. /\ d \in SockState /\ d.host = i /\ d.lis = e.lis /\ d.sr = "ESTABLISHED"
         /\ d.mode = e.mode /\ d.live = e.live /\ d.chip = e.chip
         /\ d.fd[i] = new
         /\ \A j \in FdIds : j # i /\ j \in ids => d.fd[j].st = "none"
         /\ \A j \in FdIds : j # i /\ j \notin ids => d.fd[j] = b.fd[j]
    <3> DEFINE fa == [b.fd EXCEPT ![i] = new]
               shut == [st |-> "none", v6 |-> FALSE]
               fd == [j \in FdIds |-> IF j \in ids THEN shut ELSE a.fd[j]]
               h == IF a.host \in ids THEN 0 ELSE a.host
               l == IF a.lis \in ids THEN 0 ELSE a.lis
    <3>0. b \in SockState /\ b.fd \in [FdIds -> FdState] /\ shut \in FdState /\ shut.st = "none"
      BY <2>8 DEF Books, SockState, FdState
    <3> HIDE DEF shut
    <3>1. /\ fa \in [FdIds -> FdState] /\ fa[i] = new
          /\ \A j \in FdIds : j # i => fa[j] = b.fd[j]
      BY <2>6, <2>9, <3>0
    <3>2. a = [b EXCEPT !.fd = fa]
      OBVIOUS
    <3> HIDE DEF a, fa
    <3>3. /\ a \in SockState /\ a.fd = fa /\ a.host = e.host /\ a.lis = e.lis
          /\ a.mode = e.mode /\ a.live = e.live /\ a.chip = e.chip
      BY <2>8, <3>0, <3>1, <3>2 DEF SockState
    <3>4. c = [a EXCEPT !.fd = fd, !.host = h, !.lis = l]
      BY DEF CloseFds, shut
    <3>5. /\ fd \in [FdIds -> FdState] /\ fd[i] = new
          /\ \A j \in FdIds : j \in ids => fd[j] = shut
          /\ \A j \in FdIds : j # i /\ j \notin ids => fd[j] = b.fd[j]
      BY <2>6, <2>7, <3>0, <3>1, <3>3
    <3>6. h \in 0..MaxFd /\ l \in 0..MaxFd /\ l = e.lis
      <4>1. 0 \in 0..MaxFd /\ e.host \in 0..MaxFd /\ e.lis \in 0..MaxFd
        BY <2>2, SocketsAssumption DEF SockState
      <4>2. e.lis \notin ids
        BY <2>2 DEF Books
      <4> QED BY <3>3, <4>1, <4>2
    <3> HIDE DEF c, fd, h, l
    <3>7. /\ c \in SockState /\ c.fd = fd /\ c.lis = e.lis /\ c.mode = e.mode
          /\ c.live = e.live /\ c.chip = e.chip
      <4>1. c \in SockState
        BY <3>3, <3>4, <3>5, <3>6, Zenon DEF SockState
      <4>2. c.fd = fd /\ c.lis = l /\ c.mode = a.mode /\ c.live = a.live /\ c.chip = a.chip
        BY <3>3, <3>4 DEF SockState
      <4> QED BY <3>3, <3>6, <4>1, <4>2
    <3>8. i \in 0..MaxFd
      BY <2>6, SocketsAssumption DEF FdIds
    <3>9. /\ d \in SockState /\ d.host = i /\ d.lis = e.lis /\ d.sr = "ESTABLISHED"
          /\ d.mode = e.mode /\ d.live = e.live /\ d.chip = e.chip /\ d.fd = fd
      BY <3>7, <3>8, Zenon DEF SockState, SockStatus
    <3> HIDE DEF d
    <3> QED BY <3>0, <3>5, <3>9
  <2> HIDE DEF d
  <2>11. \A j \in FdIds : d.fd[j].st \in Opened <=> j \in {d.host, d.lis}
    <3> SUFFICES ASSUME NEW j \in FdIds PROVE d.fd[j].st \in Opened <=> j \in {d.host, d.lis}
      OBVIOUS
    <3>1. j # 0 /\ (b.fd[j].st \in Opened <=> j \in {e.host, e.lis})
      BY <2>2, <2>8 DEF Books
    <3>2. CASE j = i
      BY <2>9, <2>10, <3>2 DEF Opened, Dialled, Connected
    <3>3. CASE j # i /\ j \in ids
      <4>1. d.fd[j].st = "none" /\ j = e.host /\ e.host # e.lis
        BY <2>2, <2>10, <3>3 DEF Books
      <4> QED BY <2>10, <3>3, <4>1 DEF Opened, Dialled, Connected
    <3>4. CASE j # i /\ j \notin ids
      <4>1. d.fd[j] = b.fd[j] /\ j # e.host
        BY <2>10, <3>1, <3>4
      <4> QED BY <2>10, <3>1, <3>4, <4>1
    <3> QED BY <3>2, <3>3, <3>4
  <2>12. Books(d)
    BY <2>2, <2>7, <2>10, <2>11 DEF Books
  <2>13. Status(d)
    BY <2>2, <2>7, <2>9, <2>10 DEF Status, Connected
  <2>14. SockInv(d) /\ {"CON"} \in SUBSET IrBits
    BY <2>12, <2>13 DEF SockInv, IrBits
  <2> QED BY <2>1, <2>14, RaiseKeeps
<1> QED BY <1>1, <1>2

\* A descriptor moves on, and does not fall back from connected or from dialled.
LEMMA MovesKeep ==
  ASSUME NEW e, SockInv(e), NEW i \in FdIds, e.fd[i].st \in Opened, NEW st \in Opened,
         e.fd[i].st \in Connected => st \in Connected,
         e.fd[i].st \in Dialled => st \in Dialled
  PROVE  SockInv(SetFd(e, i, st))
<1>0. ~AllDropped(e)
  BY DEF AllDropped, Opened, Dialled, Connected
<1> DEFINE d == SetFd(e, i, st)
<1>1. Books(e) /\ i \in {e.host, e.lis}
  BY DEF SockInv, Books
<1>2. /\ Books(d) /\ d.sr = e.sr /\ d.mode = e.mode /\ d.lis = e.lis /\ d.host = e.host
      /\ d.live = e.live /\ d.fd[i].st = st
      /\ \A j \in FdIds : j # i => d.fd[j] = e.fd[j]
  BY <1>1, SetFdKeeps
<1> HIDE DEF d
<1>3. d.host # 0 => d.host \in FdIds
  BY <1>2, SocketsAssumption DEF Books, SockState, FdIds
<1>4. Status(d)
  BY <1>0, <1>2, <1>3 DEF SockInv, Status
<1> QED BY <1>2, <1>4 DEF SockInv, d

\* w6300_sock_retry_tick, and the verdict on a connect.
LEMMA PollConnectKeeps ==
  ASSUME NEW e, SockInv(e), NEW forever \in BOOLEAN
  PROVE  SockInv(PollConnect(e, forever))
<1> DEFINE ids == {e.host} \ {0}
           drop == [CloseFds(e, ids) EXCEPT !.sr = "CLOSED", !.retry = 0]
           est == [e EXCEPT !.sr = "ESTABLISHED", !.retry = 0]
<1>0. {"TIMEOUT"} \in SUBSET IrBits /\ {"CON"} \in SUBSET IrBits
  BY DEF IrBits
<1>1. SockInv(drop)
  BY DropKeeps, Zenon
<1>2. SockInv(RetryTick(e, forever))
  <2> DEFINE n == e.retry + 1
             t == [e EXCEPT !.retry = n]
  <2>1. n \in Nat
    BY DEF SockInv, Books, SockState
  <2> HIDE DEF n
  <2>2. Regs(t, e) /\ t.sr = e.sr /\ t.mode = e.mode
    BY <2>1 DEF SockInv, Books, Regs, SockState
  <2>3. SockInv(t)
    BY <2>2, SameStatus, Zenon
  <2>4. SockInv(RaiseIr(drop, {"TIMEOUT"}))
    BY <1>0, <1>1, RaiseKeeps
  <2>5. RetryTick(e, forever) \in {e, t, RaiseIr(drop, {"TIMEOUT"})}
    BY DEF RetryTick, n
  <2> QED BY <2>3, <2>4, <2>5
<1>3. CASE e.sr # "SYNSENT" \/ e.host = 0 \/ e.fd[e.host].st = "connecting"
  BY <1>2, <1>3 DEF PollConnect
<1>4. CASE e.sr = "SYNSENT" /\ e.host # 0 /\ e.fd[e.host].st # "connecting"
  <2>1. CASE e.fd[e.host].st = "refused"
    <3>1. PollConnect(e, forever) = [CloseFds(e, {e.host}) EXCEPT !.sr = "CLOSED", !.retry = 0]
      BY <1>4, <2>1 DEF PollConnect
    <3>2. {e.host} = ids
      BY <1>4
    <3> QED BY <1>1, <3>1, <3>2, Zenon
  <2>2. CASE e.fd[e.host].st # "refused"
    <3>1. PollConnect(e, forever) = RaiseIr(est, {"CON"})
      BY <1>4, <2>2 DEF PollConnect
    <3>2. e.fd[e.host].st \in Connected /\ Tcp(e.mode)
      BY <1>4, <2>2 DEF SockInv, Status, Dialled
    <3>3. Regs(est, e) /\ est.sr = "ESTABLISHED" /\ est.mode = e.mode
      BY Zenon DEF SockInv, Books, Regs, SockState, SockStatus
    <3> HIDE DEF est
    <3>4. Books(est)
      BY <3>3, RegsKeep DEF SockInv
    <3>5. SockInv(est)
      BY <1>4, <3>2, <3>3, <3>4 DEF SockInv, Status, Regs
    <3> QED BY <1>0, <3>1, <3>5, RaiseKeeps
  <2> QED BY <2>1, <2>2
<1> QED BY <1>3, <1>4

\* The automatic keep-alive.
LEMMA KeepAliveKeeps ==
  ASSUME NEW e, SockInv(e), NEW quiet \in BOOLEAN
  PROVE  SockInv(PollKeepAlive(e, quiet))
<1>1. e.keep + 1 \in Nat
  BY DEF SockInv, Books, SockState
<1>2. SockInv([e EXCEPT !.keep = e.keep + 1]) /\ SockInv([e EXCEPT !.keep = 0])
  BY <1>1, KeepRestarts
<1>3. SockInv(RaiseIr([e EXCEPT !.keep = 0], {"SENDOK"}))
  BY <1>2, RaiseKeeps DEF IrBits
<1> QED BY <1>2, <1>3 DEF PollKeepAlive

\* Data and the end of a connection.
LEMMA PollDataKeeps ==
  ASSUME NEW e, SockInv(e), NEW full \in BOOLEAN
  PROVE  SockInv(PollData(e, full))
<1> DEFINE quiet == e.host = 0 \/ e.sr \notin {"ESTABLISHED", "UDP", "IPRAW"} \/ full
           st == e.fd[e.host].st
<1>0. {"RECV"} \in SUBSET IrBits /\ {"DISCON"} \in SUBSET IrBits
  BY DEF IrBits
<1>1. CASE quiet
  BY <1>1 DEF PollData
<1>2. CASE ~quiet
  <2>1. e.host # 0 /\ e.host \in FdIds
    BY <1>2, SocketsAssumption DEF SockInv, Books, SockState, FdIds
  <2>2. CASE st = "data"
    <3>1. PollData(e, full) = RaiseIr(SetFd(e, e.host, "connected"), {"RECV"})
      BY <1>2, <2>2 DEF PollData
    <3>2. "data" \in Opened /\ "connected" \in Opened /\ "connected" \in Connected
          /\ "connected" \in Dialled
      BY DEF Opened, Dialled, Connected
    <3>3. SockInv(SetFd(e, e.host, "connected"))
      BY <2>1, <2>2, <3>2, MovesKeep
    <3> QED BY <1>0, <3>1, <3>3, RaiseKeeps
  <2>3. CASE st = "ddata"
    <3>1. PollData(e, full) = RaiseIr(SetFd(e, e.host, "dgram"), {"RECV"})
      BY <1>2, <2>3 DEF PollData
    <3>2. "ddata" \in Opened /\ "dgram" \in Opened /\ "ddata" \notin Dialled
          /\ "ddata" \notin Connected
      BY DEF Opened, Dialled, Connected
    <3>3. SockInv(SetFd(e, e.host, "dgram"))
      BY <2>1, <2>3, <3>2, MovesKeep
    <3> QED BY <1>0, <3>1, <3>3, RaiseKeeps
  <2>4. CASE st \in {"eof", "hup", "dempty"}
    <3> DEFINE drop == [CloseFds(e, {e.host}) EXCEPT !.sr = "CLOSED"]
    <3>1. PollData(e, full) = RaiseIr(drop, {"DISCON"})
      BY <1>2, <2>4 DEF PollData
    <3>2. {e.host} = {e.host} \ {0}
      BY <2>1
    <3>3. SockInv(drop)
      BY <3>2, DropKeeps, Zenon
    <3> HIDE DEF drop
    <3> QED BY <1>0, <3>1, <3>3, RaiseKeeps
  <2>5. CASE st \notin {"data", "ddata", "eof", "hup", "dempty"}
    <3>1. PollData(e, full) = e
      BY <1>2, <2>5 DEF PollData
    <3> QED BY <3>1
  <2> QED BY <2>2, <2>3, <2>4, <2>5
<1> QED BY <1>1, <1>2

\* One pass of the poll over the socket.
LEMMA SocketsPollKeeps ==
  ASSUME SockInv(es), SocketsPoll
  PROVE  SockInv(es')
<1> DEFINE a == PollAccept(es)
           c(forever) == PollConnect(a, forever)
           k(forever, quiet) == PollKeepAlive(c(forever), quiet)
<1>1. PICK full \in BOOLEAN, forever \in BOOLEAN, quiet \in BOOLEAN :
        es' = PollData(c(TRUE), full) \/ es' = PollData(k(forever, quiet), full)
  BY Zenon DEF SocketsPoll, W5500Poll, W6300Poll
<1>2. SockInv(a)
  BY AcceptKeeps
<1> HIDE DEF a
<1>3. SockInv(c(TRUE)) /\ SockInv(c(forever))
  BY <1>2, PollConnectKeeps, ZenonT(30)
<1> HIDE DEF c
<1>4. SockInv(k(forever, quiet))
  BY <1>3, KeepAliveKeeps
<1> HIDE DEF k
<1> QED BY <1>1, <1>3, <1>4, PollDataKeeps, Zenon

\* The kernel and the peers move descriptors on.
LEMMA HostKeeps ==
  ASSUME SockInv(es), KernelDecides \/ Peer
  PROVE  SockInv(es')
<1>1. PICK i \in FdIds, st \in Opened :
        /\ es' = SetFd(es, i, st) /\ es.fd[i].st \in Opened
        /\ es.fd[i].st \in Connected => st \in Connected
        /\ es.fd[i].st \in Dialled => st \in Dialled
  <2>1. CASE KernelDecides
    BY <2>1 DEF KernelDecides, Opened, Dialled, Connected
  <2>2. CASE Peer
    BY <2>2, Zenon DEF Peer, Opened, Dialled, Connected
  <2> QED BY <2>1, <2>2
<1> QED BY <1>1, MovesKeep

\* The registers after init.
LEMMA ClearedFacts ==
  ASSUME NEW e \in SockState
  PROVE  /\ ClearedSock(e) \in SockState /\ ClearedSock(e).sr = "CLOSED"
         /\ ClearedSock(e).host = 0 /\ ClearedSock(e).lis = 0
         /\ ClearedSock(e).chip = e.chip /\ ClearedSock(e).live = e.live
         /\ ClearedSock(e).fd = e.fd
<1> DEFINE r1 == [e EXCEPT !.mode = "closed", !.sr = "CLOSED", !.ir = {}]
           r2 == [r1 EXCEPT !.host = 0, !.lis = 0]
           r3 == [r2 EXCEPT !.retry = 0, !.keep = 0]
<1>1. ClearedSock(e) = r3
  BY DEF ClearedSock
<1>2. r1 \in SockState /\ r1.sr = "CLOSED" /\ r1.chip = e.chip /\ r1.live = e.live /\ r1.fd = e.fd
  BY Zenon DEF SockState, SockModes, SockStatus
<1> HIDE DEF r1
<1>3. 0 \in 0..MaxFd
  BY SocketsAssumption
<1>4. /\ r2 \in SockState /\ r2.sr = "CLOSED" /\ r2.chip = e.chip /\ r2.live = e.live
      /\ r2.fd = e.fd /\ r2.host = 0 /\ r2.lis = 0
  BY <1>2, <1>3, Zenon DEF SockState
<1> HIDE DEF r2
<1>5. /\ r3 \in SockState /\ r3.sr = "CLOSED" /\ r3.chip = e.chip /\ r3.live = e.live
      /\ r3.fd = e.fd /\ r3.host = 0 /\ r3.lis = 0
  BY <1>4, Zenon DEF SockState
<1> QED BY <1>1, <1>5

\* What init drops without closing is lost, and nothing else is open.
LEMMA ForgetKeeps ==
  ASSUME NEW e, SockInv(e)
  PROVE  /\ SockInv(Forget(e)) /\ SockInv([Forget(e) EXCEPT !.rst = FALSE])
<1> DEFINE f == [i \in FdIds |-> IF i \in Held(e) THEN [e.fd[i] EXCEPT !.st = "lost"] ELSE e.fd[i]]
           q == ClearedSock(e)
           d == [q EXCEPT !.fd = f]
           x == [d EXCEPT !.rst = FALSE]
<1>0. e \in SockState /\ e.fd \in [FdIds -> FdState] /\ Books(e)
  BY DEF SockInv, Books, SockState
<1>1. Forget(e) = d
  BY DEF Forget
<1>2. \A i \in FdIds : f[i] \in FdState /\ f[i].st \notin Opened
  <2> SUFFICES ASSUME NEW i \in FdIds PROVE f[i] \in FdState /\ f[i].st \notin Opened
    OBVIOUS
  <2>1. f[i] = IF i \in Held(e) THEN [e.fd[i] EXCEPT !.st = "lost"] ELSE e.fd[i]
    OBVIOUS
  <2>2. e.fd[i] \in FdState /\ i # 0 /\ (e.fd[i].st \in Opened <=> i \in {e.host, e.lis})
    BY <1>0, SocketsAssumption DEF Books, FdIds
  <2> HIDE DEF f
  <2>3. CASE i \in Held(e)
    <3>1. f[i] \in FdState /\ f[i].st = "lost"
      BY <2>1, <2>2, <2>3 DEF FdState
    <3> QED BY <3>1 DEF Opened, Dialled, Connected
  <2>4. CASE i \notin Held(e)
    BY <2>1, <2>2, <2>4 DEF Held
  <2> QED BY <2>3, <2>4
<1>3. f \in [FdIds -> FdState]
  BY <1>2
<1> HIDE DEF f
<1>4. /\ q \in SockState /\ q.sr = "CLOSED" /\ q.host = 0 /\ q.lis = 0 /\ q.chip = e.chip
      /\ q.live = e.live
  BY <1>0, ClearedFacts
<1> HIDE DEF q
<1>5. /\ d \in SockState /\ d.sr = "CLOSED" /\ d.host = 0 /\ d.lis = 0 /\ d.chip = e.chip
      /\ d.live = e.live /\ d.fd = f
  BY <1>3, <1>4 DEF SockState
<1> HIDE DEF d
<1>6. 0 \notin FdIds
  BY SocketsAssumption DEF FdIds
<1>7. Books(d)
  BY <1>0, <1>2, <1>5, <1>6 DEF Books
<1>8. Regs(x, d) /\ x.sr = "CLOSED"
  BY <1>5, Zenon DEF Regs, SockState
<1> HIDE DEF x
<1>9. SockInv(x)
  BY <1>7, <1>8, QuietStatus
<1>10. SockInv(d)
  BY <1>5, <1>7 DEF SockInv, Status
<1> QED BY <1>1, <1>9, <1>10 DEF x

\* Attach, detach and the edges of RSTn.
LEMMA BoardKeeps ==
  ASSUME SockInv(es), AttachSocket \/ Detach \/ SocketsResetLow \/ SocketsResetHigh \/ SocketsSoftReset
  PROVE  SockInv(es')
<1>0. es \in SockState /\ Books(es)
  BY DEF SockInv, Books
<1>1. CASE AttachSocket
  <2> DEFINE q == ClearedSock(es)
  <2>1. PICK k \in Chips, l \in BOOLEAN : es' = [q EXCEPT !.chip = k, !.live = l]
    BY <1>1, Zenon DEF AttachSocket
  <2>2. es.host = 0 /\ es.lis = 0
    BY <1>0, <1>1, Zenon DEF AttachSocket, Books
  <2>3. q \in SockState /\ q.sr = "CLOSED" /\ q.host = 0 /\ q.lis = 0 /\ q.fd = es.fd
    BY <1>0, ClearedFacts
  <2> HIDE DEF q
  <2>4. /\ es' \in SockState /\ es'.sr = "CLOSED" /\ es'.host = 0 /\ es'.lis = 0
        /\ es'.fd = es.fd /\ es'.chip # "off"
    BY <2>1, <2>3, SocketsAssumption, Zenon DEF SockState
  <2>5. Books(es')
    BY <1>0, <2>2, <2>4 DEF Books
  <2> QED BY <2>4, <2>5 DEF SockInv, Status
<1>2. CASE Detach
  <2> DEFINE c == CloseHostSock(es)
             d == [c EXCEPT !.chip = "off", !.live = FALSE]
  <2>1. es' = d
    BY <1>2 DEF Detach, DetachState
  <2>2. Books(c) /\ Closing(c, es) /\ c.lis = 0
    BY <1>0, CloseKeeps DEF CloseHostSock
  <2> HIDE DEF c
  <2>3. /\ d \in SockState /\ d.chip = "off" /\ ~d.live /\ d.host = c.host /\ d.lis = c.lis
        /\ d.fd = c.fd /\ d.sr = c.sr /\ d.mode = c.mode
    BY <2>2, Zenon DEF Books, SockState
  <2> HIDE DEF d
  <2>4. Books(d)
    BY <2>2, <2>3 DEF Books, Closing
  <2>5. Status(d)
    BY <2>2, <2>3 DEF SockInv, Status, Closing
  <2> QED BY <2>1, <2>4, <2>5 DEF SockInv
<1>3. CASE SocketsResetLow
  <2> DEFINE a == [es EXCEPT !.rst = TRUE, !.mode = "closed"]
             d == [a EXCEPT !.sr = "CLOSED", !.ir = {}]
  <2>1. es' = d
    BY <1>3 DEF SocketsResetLow
  <2>2. Regs(a, es)
    BY <1>0, Zenon DEF Regs, SockState, SockModes
  <2> HIDE DEF a
  <2>3. Regs(d, a) /\ d.sr = "CLOSED" /\ Books(a)
    BY <1>0, <2>2, RegsKeep, Zenon DEF Regs, SockState, SockStatus
  <2> QED BY <2>1, <2>3, QuietStatus, Zenon
<1>4. CASE SocketsResetHigh \/ SocketsSoftReset
  BY <1>4, ForgetKeeps, Zenon DEF SocketsResetHigh, SocketsSoftReset
<1> QED BY <1>1, <1>2, <1>3, <1>4

\* The commands of both chips, and the guest's acknowledgement of Sn_IR.
LEMMA CommandKeeps ==
  ASSUME SockInv(es), W5500Cmd \/ W6300Cmd \/ AckIr
  PROVE  SockInv(es')
<1>1. CASE W5500Cmd
  <2>1. \A m \in Modes("w5500") : SockInv(CmdOpen(es, m, FALSE))
    BY OpenKeeps, Zenon DEF Modes, SockModes
  <2>2. \A bound \in BOOLEAN : SockInv(W5500Listen(es, bound))
    BY ListenKeeps
  <2>3. \A rc \in {"ok", "progress", "fail"} : SockInv(W5500Connect(es, rc))
    BY W5500ConnectKeeps
  <2>4. SockInv(CmdClose(es)) /\ SockInv(W5500Send(es))
    BY DisconKeeps, SendKeeps, Zenon
  <2> QED BY <1>1, <2>1, <2>2, <2>3, <2>4, Zenon DEF W5500Cmd
<1>2. CASE W6300Cmd
  <2>1. \A m \in Modes("w6300"), granted \in BOOLEAN : SockInv(CmdOpen(es, m, granted))
    <3>1. es.chip # "w5500" /\ Modes("w6300") \subseteq SockModes
      BY <1>2 DEF W6300Cmd, Modes, SockModes
    <3> QED BY <3>1, OpenKeeps
  <2>2. \A d6 \in BOOLEAN, bound \in BOOLEAN : SockInv(W6300Listen(es, d6, bound))
    BY ListenKeeps
  <2>3. \A c6, d6 \in BOOLEAN, rc \in {"ok", "progress", "fail"} :
          SockInv(W6300Connect(es, c6, d6, rc))
    BY W6300ConnectKeeps
  <2>4. SockInv(CmdClose(es)) /\ SockInv(CmdDiscon(es)) /\ SockInv(CmdSendKeep(es))
    BY DisconKeeps, SendKeeps, Zenon
  <2>5. \A c6, d6, sent \in BOOLEAN : SockInv(W6300Send(es, c6, d6, sent))
    BY SendKeeps
  <2> QED BY <1>2, <2>1, <2>2, <2>3, <2>4, <2>5 DEF W6300Cmd
<1>3. CASE AckIr
  <2> DEFINE d == [es EXCEPT !.ir = {}]
  <2>1. Regs(d, es) /\ d.sr = es.sr /\ d.mode = es.mode
    BY DEF SockInv, Books, Regs, SockState
  <2> QED BY <1>3, <2>1, SameStatus, Zenon DEF AckIr
<1> QED BY <1>1, <1>2, <1>3

LEMMA SockInvInit == SocketsInit => SockInv(es)
<1> SUFFICES ASSUME SocketsInit PROVE SockInv(es)
  OBVIOUS
<1> DEFINE shut == [st |-> "none", v6 |-> FALSE]
           fd == [i \in FdIds |-> shut]
<1>1. shut \in FdState /\ shut.st \notin Opened
  BY DEF FdState, Opened, Dialled, Connected
<1>2. es = [chip |-> "off", live |-> FALSE, rst |-> FALSE, mode |-> "closed",
            sr |-> "CLOSED", ir |-> {}, host |-> 0, lis |-> 0, retry |-> 0, keep |-> 0,
            fd |-> fd]
  BY DEF SocketsInit
<1> HIDE DEF shut
<1>3. fd \in [FdIds -> FdState] /\ \A i \in FdIds : fd[i] = shut
  BY <1>1
<1> HIDE DEF fd
<1>4. 0 \in 0..MaxFd /\ 0 \notin FdIds
  BY SocketsAssumption DEF FdIds
<1>5. es \in SockState /\ es.host = 0 /\ es.lis = 0 /\ ~es.live /\ es.sr = "CLOSED" /\ es.fd = fd
  BY <1>2, <1>3, <1>4 DEF SockState, SockModes, SockStatus
<1>6. Books(es)
  BY <1>1, <1>3, <1>4, <1>5 DEF Books
<1> QED BY <1>5, <1>6 DEF SockInv, Status

LEMMA SockInvStep == SockInv(es) /\ [SocketsNext]_es => SockInv(es)'
<1> SUFFICES ASSUME SockInv(es), [SocketsNext]_es PROVE SockInv(es')
  BY Zenon DEF SockInv, Books, Status, AllDropped
<1>1. CASE UNCHANGED es
  BY <1>1
<1>2. CASE SocketsNext
  BY <1>2, CommandKeeps, SocketsPollKeeps, HostKeeps, BoardKeeps DEF SocketsNext
<1> QED BY <1>1, <1>2

\* For every number of descriptors and whatever the host does: each open descriptor
\* is held in one slot of the socket or was dropped by an RSTn pulse or a soft
\* reset, none else leaks, and a live TCP socket that says ESTABLISHED has a
\* connected descriptor unless resets have dropped all the host had to give
\* (close_host_sock, recreate, accept, detach; OPEN, CONNECT and the SO_ERROR
\* check of poll).
THEOREM SocketsAreHonest == SocketsSpec => []SocketsHonest
<1>1. SockInv(es) => SocketsHonest
  <2> SUFFICES ASSUME SockInv(es) PROVE SocketsHonest
    OBVIOUS
  <2>1. /\ \A i \in FdIds : es.fd[i].st \notin {"none", "lost"} <=> es.fd[i].st \in Opened
        /\ es.host \in FdIds \cup {0} /\ es.lis \in FdIds \cup {0} /\ 0 \notin FdIds
    BY SocketsAssumption
       DEF SockInv, Books, SockState, FdState, FdIds, Opened, Dialled, Connected
  <2>2. \A i \in FdIds : es.fd[i].st \in Opened <=> i \in {es.host, es.lis}
    BY DEF SockInv, Books
  <2>3. /\ {i \in FdIds : es.fd[i].st # "none"} = Held(es) \cup Dropped(es)
        /\ Held(es) \cap Dropped(es) = {}
    BY <2>1, <2>2 DEF Held, Dropped
  <2>4. FdsAccounted
    BY <2>3 DEF FdsAccounted, SockInv, Books
  <2>5. EstablishedConnected
    BY DEF EstablishedConnected, SockInv, Status, Connected, AllDropped, Dropped
  <2> QED BY <2>4, <2>5 DEF SocketsHonest
<1> QED BY <1>1, SockInvInit, SockInvStep, PTL DEF SocketsSpec
=============================================================================
