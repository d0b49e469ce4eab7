-------------------------------- MODULE Uart --------------------------------
(***************************************************************************)
(* One PL011 block of src/uart.c.  The two blocks share nothing, so one is *)
(* modelled.  Received bytes are only counted: the ring that holds them is *)
(* indexed like the mailbox ring of module Sio.                            *)
(***************************************************************************)
EXTENDS Naturals

CONSTANTS
    RxFifoSize,     \* UART_RX_FIFO_SIZE
    RtTimeoutSteps, \* UART_RT_TIMEOUT_STEPS, scaled down
    IflsValues      \* the trigger selectors firmware writes to UART_IFLS

ASSUME UartAssumption == RxFifoSize \in Nat \ {0} /\ RtTimeoutSteps \in Nat \ {0}

VARIABLE uart

Ints == {"TX", "RX", "RT"}

\* uart_state_t.  line is the pending bit of this UART's interrupt in the NVIC;
\* noted is a history flag: firmware acknowledged the timeout since the last push.
UartState == [rx : 0..RxFifoSize, rt : 0..RtTimeoutSteps, ris : SUBSET Ints,
          imsc : SUBSET Ints, ifls : IflsValues \cup {2}, txe : BOOLEAN,
          enabled : BOOLEAN, active : BOOLEAN, line : BOOLEAN, noted : BOOLEAN]

\* uart_init: memset, then the reset trigger level (selector 2).
UartInit == uart = [rx |-> 0, rt |-> 0, ris |-> {}, imsc |-> {}, ifls |-> 2, txe |-> FALSE,
                enabled |-> FALSE, active |-> FALSE, line |-> FALSE, noted |-> FALSE]

\* rx_trigger_level, in sixteenths of the FIFO.
RxTriggerLevel(u) ==
    LET sixteenths == CASE u.ifls = 0 -> 2 [] u.ifls = 1 -> 4 [] u.ifls = 3 -> 12
                        [] u.ifls = 4 -> 14 [] OTHER -> 8
    IN  (sixteenths * RxFifoSize) \div 16

Mis(u) == u.ris \cap u.imsc

\* uart_check_irq: any masked interrupt pends the line.
CheckIrq(u) == [u EXCEPT !.line = @ \/ Mis(u) # {}]

RaiseInt(u, i) == [u EXCEPT !.ris = @ \cup {i}]

\* uart_rx_update_irq
RxUpdateIrq(u) == IF u.rx >= RxTriggerLevel(u) THEN RaiseInt(u, "RX") ELSE u

-----------------------------------------------------------------------------

\* uart_tick: the timeout counts down and fires once at zero while data waits.
UartTick ==
    /\ uart.rt > 0
    /\ LET u == [uart EXCEPT !.rt = @ - 1]
       IN  uart' = IF u.rt = 0 /\ u.rx > 0 /\ "RT" \notin u.ris
                     THEN CheckIrq(RaiseInt(u, "RT")) ELSE u

\* Variant: the timeout is armed by the first byte only.
RxPushFirstArms ==
    LET u == [uart EXCEPT !.rx = @ + 1, !.noted = FALSE,
                          !.rt = IF uart.rx = 0 THEN RtTimeoutSteps ELSE @]
    IN  uart.rx < RxFifoSize /\ uart' = CheckIrq(RxUpdateIrq(u))

\* uart_rx_push: refused when full, otherwise re-arms the timeout.
RxPush ==
    LET u == [uart EXCEPT !.rx = @ + 1, !.noted = FALSE, !.rt = RtTimeoutSteps]
    IN  uart.rx < RxFifoSize /\ uart' = CheckIrq(RxUpdateIrq(u))

\* Read of UART_DR (uart_rx_pop): below the trigger level RX drops.
ReadDr ==
    /\ uart.rx > 0
    /\ LET u == [uart EXCEPT !.rx = @ - 1]
       IN  uart' = IF u.rx < RxTriggerLevel(u) THEN [u EXCEPT !.ris = @ \ {"RX"}] ELSE u

\* Write of UART_DR: with TXE the byte leaves at once (to the bridge, the wire
\* or stdout) and re-raises the transmit interrupt.
WriteDr ==
    uart' = CheckIrq(IF uart.txe THEN RaiseInt([uart EXCEPT !.active = TRUE], "TX") ELSE uart)

WriteCr(en, txe) ==
    LET u == [uart EXCEPT !.enabled = en, !.txe = txe]
    IN  uart' = CheckIrq(IF en THEN RaiseInt(u, "TX") ELSE u)

WriteIfls(v) == uart' = CheckIrq([uart EXCEPT !.ifls = v])

WriteImsc(m) == uart' = CheckIrq([uart EXCEPT !.imsc = m])

\* UART_ICR, write one to clear.
WriteIcr(m) ==
    uart' = CheckIrq([uart EXCEPT !.ris = @ \ m, !.noted = @ \/ "RT" \in m])

\* uart_write32: every write ends in uart_check_irq.  RSR, IBRD, FBRD, LCR_H and
\* DMACR are storage and do nothing else.
UartWrite ==
    \/ WriteDr
    \/ \E en, txe \in BOOLEAN : WriteCr(en, txe)
    \/ \E v \in IflsValues : WriteIfls(v)
    \/ \E m \in SUBSET Ints : WriteImsc(m) \/ WriteIcr(m)

\* The core takes the interrupt (nvic.c clears the pending bit on entry).
TakeIrq == uart.line /\ uart' = [uart EXCEPT !.line = FALSE]

UartNext == UartTick \/ RxPush \/ ReadDr \/ UartWrite \/ TakeIrq

UartSpec == UartInit /\ [][UartNext]_uart

-----------------------------------------------------------------------------

\* Received data is never left unannounced: once the timeout of uart_tick has
\* run out with bytes in the FIFO, RT is raised, unless firmware has already
\* acknowledged it since the last byte came in.
DataAnnounced ==
    uart.rx > 0 /\ uart.rt = 0 => "RT" \in uart.ris \/ uart.noted

\* A masked interrupt that becomes active pends the line in the same step,
\* whichever register write, push or tick made it active (uart_check_irq).
Signals == Mis(uart) = {} /\ Mis(uart)' # {} => uart'.line
RaiseSignals == [][Signals]_uart

=============================================================================
