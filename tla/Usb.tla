-------------------------------- MODULE Usb --------------------------------
(***************************************************************************)
(* src/usb.c: the USB device controller of the chip and, on the other side *)
(* of it, a simulated host that enumerates the device and carries the CDC  *)
(* console.  Host and firmware meet in the buffer control words of the     *)
(* dual-port RAM, the status registers and one interrupt.                  *)
(*                                                                         *)
(* A descriptor is a sequence of items, one per descriptor it contains, a  *)
(* packet holds Pkt items, and console bytes carry their number.  The      *)
(* firmware is external: a TinyUSB stack as the comments of usb.c describe *)
(* it, with an interrupt handler that queues events and a task that takes  *)
(* them.  History: clash, a buffer armed while still available; stalled,   *)
(* the device refused a request; emitted, got, pushed, wrote, the bytes.   *)
(***************************************************************************)
EXTENDS Naturals, Sequences, SequencesExt, TLC

CONSTANTS
    Devices,     \* [config, string, refuses]: descriptors and refused requests
    Pkt,         \* 64 bytes
    AccumCap,    \* sizeof(in_accum)
    RxCap,       \* sizeof(cdc_rx_fifo)
    MaxBytes,    \* console bytes each way
    MaxReboots   \* watchdog reboots

VARIABLE u

Eps == 0..2
Bufs == Eps \X {"in", "out"}
In0 == <<0, "in">>
Out0 == <<0, "out">>

NoBuf == [avail |-> FALSE, full |-> FALSE, len |-> 0, data |-> <<>>]
NoIsr == [buff |-> {}, setup |-> FALSE, reset |-> FALSE]
NoReq == [kind |-> "none", in |-> FALSE, len |-> 0]

\* usb_init, and the firmware's side after a reset.
Host == [en |-> FALSE, pull |-> FALSE, inte |-> FALSE, reset |-> FALSE, setup |-> FALSE,
         buff |-> {}, bc |-> [b \in Bufs |-> NoBuf], req |-> NoReq, irq |-> FALSE,
         enum |-> "DISABLED", ctrl |-> "IDLE", delay |-> 0, accum |-> <<>>, expected |-> 0,
         inEp |-> 0, outEp |-> 0, fifo |-> <<>>, emitted |-> <<>>, pushed |-> 0]
Firmware == [isr |-> NoIsr, q |-> <<>>, phase |-> "idle", todo |-> <<>>,
             cur |-> NoReq, conf |-> FALSE, wrote |-> 0, got |-> <<>>, clash |-> FALSE,
             stalled |-> FALSE]

Init == \E d \in Devices : u = [dev |-> d, reboots |-> 0] @@ Host @@ Firmware

-----------------------------------------------------------------------------
\* Interrupts.

\* usb_compute_intr.
Intr(s) == s.buff # {} \/ s.reset \/ s.setup

\* usb_fire_irq.
FireIrq(s) == [s EXCEPT !.irq = @ \/ (s.inte /\ Intr(s))]

\* Variant: the line is signalled by events only.
LevelIrqNone(s) == s

\* The end of usb_step: the line stays asserted while a source is pending.
LevelIrq(s) == [s EXCEPT !.irq = @ \/ (s.inte /\ Intr(s))]

-----------------------------------------------------------------------------
\* Control transfers.

\* usb_send_setup.
SendSetup(s, req) == FireIrq([s EXCEPT !.req = req, !.setup = TRUE, !.ctrl = "SETUP_SENT"])

\* usb_complete_ep0_in: the length stays for the firmware to count.
CompleteIn(s, b) ==
    FireIrq([s EXCEPT !.bc[b] = [@ EXCEPT !.avail = FALSE, !.full = FALSE],
                      !.buff = @ \cup {b}])

\* usb_complete_ep0_out.
CompleteOut(s, b, data) ==
    FireIrq([s EXCEPT !.bc[b] = [avail |-> FALSE, full |-> TRUE, len |-> Len(data),
                                 data |-> data],
                      !.buff = @ \cup {b}])

\* The data stage of an IN transfer: a packet that does not fit is not kept; the
\* transfer ends with all bytes or with a short packet.
DataIn(s) ==
    LET p == s.bc[In0]
        acc == IF Len(s.accum) + p.len <= AccumCap THEN s.accum \o p.data ELSE s.accum
        done == Len(acc) >= s.expected \/ p.len < Pkt
        t == CompleteIn([s EXCEPT !.accum = acc], In0)
    IN  [t EXCEPT !.ctrl = IF done THEN "WAIT_STATUS_OUT" ELSE @]

OutData(s) == [i \in 1..s.req.len |-> "line"]

\* usb_ctrl_step: waits for as long as the firmware needs.
CtrlStep(s) ==
    CASE s.ctrl = "SETUP_SENT" /\ s.req.len = 0 -> [s EXCEPT !.ctrl = "WAIT_STATUS_IN"]
      [] s.ctrl = "SETUP_SENT" /\ s.req.len > 0 /\ s.req.in ->
            [s EXCEPT !.accum = <<>>, !.expected = s.req.len, !.ctrl = "WAIT_DATA_IN"]
      [] s.ctrl = "SETUP_SENT" /\ s.req.len > 0 /\ ~s.req.in -> [s EXCEPT !.ctrl = "WAIT_DATA_OUT"]
      [] s.ctrl = "WAIT_DATA_IN" /\ s.bc[In0].avail -> DataIn(s)
      [] s.ctrl = "WAIT_STATUS_OUT" /\ s.bc[Out0].avail ->
            [CompleteOut(s, Out0, <<>>) EXCEPT !.ctrl = "DONE"]
      [] s.ctrl = "WAIT_DATA_OUT" /\ s.bc[Out0].avail ->
            [CompleteOut(s, Out0, OutData(s)) EXCEPT !.ctrl = "WAIT_STATUS_IN"]
      [] s.ctrl = "WAIT_STATUS_IN" /\ s.bc[In0].avail ->
            [CompleteIn(s, In0) EXCEPT !.ctrl = "DONE"]
      [] OTHER -> s

-----------------------------------------------------------------------------
\* Enumeration.

\* usb_parse_config_desc and the defaults of GET_CONFIG_DATA: the last bulk
\* endpoint of each direction that follows a CDC data interface.
ParseConfig(s) ==
    LET step(st, item) ==
            CASE item.type = "data" -> [st EXCEPT !.cdc = TRUE]
              [] item.type = "iface" -> [st EXCEPT !.cdc = FALSE]
              [] item.type \in {"in", "out"} /\ st.cdc -> [st EXCEPT ![item.type] = item.ep]
              [] OTHER -> st
        r == FoldLeft(step, [cdc |-> FALSE, in |-> s.inEp, out |-> s.outEp], s.accum)
    IN  [s EXCEPT !.inEp = IF r.in = 0 THEN 2 ELSE r.in,
                  !.outEp = IF r.out = 0 THEN 2 ELSE r.out]

\* wTotalLength of the header, limited to the buffer.
TotalLen(s) ==
    IF s.accum = <<>> \/ s.accum[1].type # "header" THEN 0
    ELSE IF s.accum[1].total > AccumCap THEN AccumCap ELSE s.accum[1].total

Get(kind, len) == [kind |-> kind, in |-> TRUE, len |-> len]
Set(kind, len) == [kind |-> kind, in |-> FALSE, len |-> len]

\* The request each state of usb_enum_step sends, and the state that follows.
EnumTable ==
    [ GET_DESC_8          |-> <<Get("device", 1), "SET_ADDRESS">>,
      SET_ADDRESS         |-> <<Set("address", 0), "GET_DESC_FULL">>,
      GET_DESC_FULL       |-> <<Get("device", 1), "GET_CONFIG_SHORT">>,
      GET_CONFIG_SHORT    |-> <<Get("config", 1), "GET_CONFIG_FULL">>,
      GET_CONFIG_FULL     |-> <<Get("config", 0), "GET_CONFIG_DATA">>,
      GET_CONFIG_DATA     |-> <<Get("language", 1), "GET_STRING_LANG">>,
      GET_STRING_LANG     |-> <<Get("string", Pkt), "GET_STRING_MFR">>,
      GET_STRING_MFR      |-> <<Get("string", Pkt), "GET_STRING_PROD">>,
      GET_STRING_PROD     |-> <<Get("string", Pkt), "GET_STRING_SN">>,
      GET_STRING_SN       |-> <<Set("configuration", 0), "SET_CONFIG">>,
      SET_CONFIG          |-> <<Set("interface", 0), "SET_INTERFACE">>,
      SET_INTERFACE       |-> <<Set("coding", 1), "CDC_SET_LINE_CODING">>,
      CDC_SET_LINE_CODING |-> <<Set("coding", 1), "CDC_SET_CTRL_LINE">>,
      CDC_SET_CTRL_LINE   |-> <<Set("lines", 0), "ACTIVE">> ]

\* usb_enum_step: nothing while a transfer is in progress or a delay runs.
EnumStep(s) ==
    LET send(t, len) ==
            [SendSetup(t, [EnumTable[s.enum][1] EXCEPT !.len = len])
               EXCEPT !.enum = EnumTable[s.enum][2],
                      !.delay = IF s.enum = "SET_ADDRESS" THEN 1 ELSE @]
    IN  CASE s.ctrl \notin {"IDLE", "DONE"} -> s
          [] s.ctrl \in {"IDLE", "DONE"} /\ s.delay > 0 -> [s EXCEPT !.delay = @ - 1]
          [] OTHER ->
             CASE s.enum = "WAIT_PULLUP" /\ s.pull -> [s EXCEPT !.enum = "BUS_RESET", !.delay = 1]
               [] s.enum = "BUS_RESET" ->
                     [FireIrq([s EXCEPT !.reset = TRUE])
                        EXCEPT !.enum = "GET_DESC_8", !.delay = 1, !.ctrl = "IDLE"]
               [] s.enum = "GET_CONFIG_FULL" /\ s.ctrl = "DONE" -> send(s, TotalLen(s))
               [] s.enum = "GET_CONFIG_DATA" /\ s.ctrl = "DONE" -> send(ParseConfig(s), 1)
               [] /\ s.enum \in DOMAIN EnumTable \ {"GET_CONFIG_FULL", "GET_CONFIG_DATA"}
                  /\ s.enum = "GET_DESC_8" \/ s.ctrl = "DONE" ->
                     send(s, EnumTable[s.enum][1].len)
               [] s.enum = "ACTIVE" /\ s.ctrl = "DONE" -> [s EXCEPT !.ctrl = "IDLE"]
               [] OTHER -> s

-----------------------------------------------------------------------------
\* The CDC console.

\* usb_handle_cdc: bulk data of the device goes to the console.
HandleCdc(s) ==
    LET b == <<s.inEp, "in">>
    IN  IF s.inEp # 0 /\ s.bc[b].full /\ s.bc[b].avail
          THEN CompleteIn([s EXCEPT !.emitted = @ \o s.bc[b].data], b) ELSE s

\* usb_cdc_rx_drain takes a buffer the firmware has armed, not one it has not
\* read yet.
RxReady(c) == c.avail /\ ~c.full

\* usb_cdc_rx_drain.
RxDrain(s) ==
    LET b == <<s.outEp, "out">>
        max == IF s.bc[b].len = 0 THEN Pkt ELSE s.bc[b].len
        n == IF Len(s.fifo) < max THEN Len(s.fifo) ELSE max
    IN  IF s.fifo # <<>> /\ s.outEp # 0 /\ RxReady(s.bc[b])
          THEN [CompleteOut(s, b, SubSeq(s.fifo, 1, n))
                  EXCEPT !.fifo = SubSeq(@, n + 1, Len(@))]
          ELSE s

\* usb_step, once per turn of the main loop.
Step(s) ==
    LET a == IF s.enum = "DISABLED" THEN [s EXCEPT !.enum = "WAIT_PULLUP"] ELSE s
        c == EnumStep(CtrlStep(a))
        d == IF c.enum = "ACTIVE" THEN RxDrain(HandleCdc(c)) ELSE c
    IN  IF s.en THEN LevelIrq(d) ELSE s

UsbStep == u.en /\ Step(u) # u /\ u' = Step(u)

\* usb_cdc_rx_push: refused before the device is active and when the FIFO is
\* full; main.c keeps a refused byte and offers it again.
RxPush ==
    /\ u.enum = "ACTIVE" /\ u.outEp # 0
    /\ Len(u.fifo) < RxCap /\ u.pushed < MaxBytes
    /\ u' = [u EXCEPT !.fifo = Append(@, u.pushed + 1), !.pushed = @ + 1]

-----------------------------------------------------------------------------
\* The firmware (external).

\* Writes of usb_write32 that bring the controller up, in any order.
Enable == ~u.en /\ u' = [u EXCEPT !.en = TRUE]
PullUp == ~u.pull /\ u' = [u EXCEPT !.pull = TRUE]
EnableIrq == ~u.inte /\ u' = [u EXCEPT !.inte = TRUE]

Arm(s, b, rx, data, len) ==
    [s EXCEPT !.clash = @ \/ s.bc[b].avail,
              !.bc[b] = [avail |-> TRUE, full |-> ~rx /\ data # <<>>, len |-> len, data |-> data]]

\* The next packet of the data stage.
SendData(s) ==
    LET n == IF Len(s.todo) < Pkt THEN Len(s.todo) ELSE Pkt
    IN  Arm([s EXCEPT !.todo = SubSeq(@, n + 1, Len(@)), !.phase = "dataIn"],
            In0, FALSE, SubSeq(s.todo, 1, n), n)

Response(s, req) ==
    LET full == CASE req.kind = "config" -> s.dev.config
                  [] req.kind = "string" -> [i \in 1..s.dev.string |-> [type |-> "text"]]
                  [] OTHER -> <<[type |-> "text"]>>
    IN  SubSeq(full, 1, IF Len(full) < req.len THEN Len(full) ELSE req.len)

\* The interrupt handler: note the pending sources, then serve them one by one,
\* completions before the setup packet.
EnterIsr ==
    /\ u.irq /\ u.isr = NoIsr
    /\ u' = [u EXCEPT !.irq = FALSE,
                      !.isr = [buff |-> u.buff, setup |-> u.setup, reset |-> u.reset]]

IsrBuff ==
    \E b \in u.isr.buff :
        LET s == [u EXCEPT !.isr.buff = @ \ {b}, !.buff = @ \ {b}]
        IN  u' = IF b = In0 /\ s.phase = "dataIn" /\ s.todo # <<>> THEN SendData(s)
                 ELSE [s EXCEPT !.q = Append(@, <<"done", b>>)]

IsrSetup ==
    /\ u.isr.setup /\ u.isr.buff = {}
    /\ u' = [u EXCEPT !.isr.setup = FALSE, !.setup = FALSE, !.q = Append(@, <<"setup", u.req>>)]

IsrReset ==
    /\ u.isr = [NoIsr EXCEPT !.reset = TRUE]
    /\ u' = [u EXCEPT !.isr = NoIsr, !.reset = FALSE]

TakeSetup(s, req) ==
    LET t == [s EXCEPT !.cur = req]
    IN  CASE req.kind \in s.dev.refuses -> [t EXCEPT !.stalled = TRUE]
          [] req.kind \notin s.dev.refuses /\ req.len = 0 ->
                Arm([t EXCEPT !.phase = "statusIn"], In0, FALSE, <<>>, 0)
          [] req.kind \notin s.dev.refuses /\ req.len > 0 /\ req.in ->
                SendData([t EXCEPT !.todo = Response(s, req)])
          [] OTHER -> Arm([t EXCEPT !.phase = "dataOut"], Out0, TRUE, <<>>, Pkt)

\* A completed stage of a control transfer; SET_CONFIGURATION opens the console.
StageDone(s, b) ==
    CASE s.phase = "dataIn" /\ b = In0 ->
            Arm([s EXCEPT !.phase = "statusOut"], Out0, TRUE, <<>>, 0)
      [] s.phase = "dataOut" /\ b = Out0 ->
            Arm([s EXCEPT !.phase = "statusIn"], In0, FALSE, <<>>, 0)
      [] s.phase = "statusIn" /\ b = In0 /\ s.cur.kind = "configuration" ->
            Arm([s EXCEPT !.phase = "idle", !.conf = TRUE], <<s.dev.outEp, "out">>, TRUE, <<>>, Pkt)
      [] OTHER -> [s EXCEPT !.phase = "idle"]

\* Received console bytes are read, and the buffer is armed for more.
TakeConsole(s, b) == Arm([s EXCEPT !.got = @ \o s.bc[b].data], b, TRUE, <<>>, Pkt)

Task ==
    /\ u.q # <<>> /\ u.isr = NoIsr
    /\ LET e == Head(u.q)
           s == [u EXCEPT !.q = Tail(@)]
       IN  u' = CASE e[1] = "setup" -> TakeSetup(s, e[2])
                  [] e[1] = "done" /\ e[2][1] = 0 -> StageDone(s, e[2])
                  [] e[1] = "done" /\ e[2][1] # 0 /\ e[2][2] = "out" -> TakeConsole(s, e[2])
                  [] OTHER -> s

\* The console prints a packet of one or two bytes once its buffer is free.
PrintOut ==
    \E n \in 1..Pkt :
        LET b == <<u.dev.inEp, "in">>
        IN  /\ u.conf /\ u.isr = NoIsr /\ ~u.bc[b].avail /\ u.wrote + n <= MaxBytes
            /\ u' = Arm([u EXCEPT !.wrote = @ + n], b, FALSE, [i \in 1..n |-> u.wrote + i], n)

\* A watchdog reboot: usb_init and a fresh firmware.
Reboot ==
    /\ u.reboots < MaxReboots
    /\ u' = [dev |-> u.dev, reboots |-> u.reboots + 1] @@ Host @@ Firmware

FirmwareStep == Enable \/ PullUp \/ EnableIrq \/ EnterIsr \/ IsrBuff \/ IsrSetup \/ IsrReset \/ Task

Next == UsbStep \/ RxPush \/ FirmwareStep \/ PrintOut \/ Reboot

Spec == Init /\ [][Next]_u

-----------------------------------------------------------------------------

\* Neither side has a step to take.
HostIdle == ~u.en \/ Step(u) = u
FirmwareIdle == u.en /\ u.pull /\ u.inte /\ ~u.irq /\ u.isr = NoIsr /\ u.q = <<>>

\* Host and firmware never wait for each other: when neither can move, the
\* enumeration has reached ACTIVE or the device has refused a request.  The
\* interrupt of usb_step is a level, so it reaches firmware that enables it late.
NobodyWaits == HostIdle /\ FirmwareIdle => u.stalled \/ (u.enum = "ACTIVE" /\ u.conf)

\* The firmware never finds a buffer it is about to arm still available, which
\* makes TinyUSB panic: the host keeps to one control transfer at a time and
\* completes a buffer exactly once (usb_ctrl_step, usb_complete_ep0_in).
ArmedOnce == ~u.clash

\* The endpoints of a configuration that fits the buffer are the device's own,
\* however many packets it takes (usb_parse_config_desc).
EndpointsFound ==
    u.inEp # 0 /\ Len(u.dev.config) <= AccumCap
        => u.inEp = u.dev.inEp /\ u.outEp = u.dev.outEp

\* Console bytes arrive complete and in order both ways, across full buffers and
\* completions the firmware has not read yet (usb_handle_cdc, usb_cdc_rx_drain).
ConsoleExact ==
    LET inFlight == IF u.outEp = 0 \/ ~u.bc[<<u.outEp, "out">>].full THEN <<>>
                    ELSE u.bc[<<u.outEp, "out">>].data
    IN  /\ u.got \o inFlight \o u.fifo = [i \in 1..u.pushed |-> i]
        /\ u.emitted = [i \in 1..Len(u.emitted) |-> i]
        /\ Len(u.emitted) <= u.wrote

UsbHonest == NobodyWaits /\ ArmedOnce /\ EndpointsFound /\ ConsoleExact

\* A control transfer the device refuses comes to an end (docs/WASM.md:27,
\* "control-stall auto-DONE after 20k polls").
RefusalEnds == HostIdle /\ FirmwareIdle => ~u.stalled

=============================================================================
