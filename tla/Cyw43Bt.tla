------------------------------ MODULE Cyw43Bt ------------------------------
(***************************************************************************)
(* Bluetooth transport of the CYW43 model: the two HCI rings in shared     *)
(* RAM, the INT_STATUS word and the wake line BT shares with WLAN, the     *)
(* internal command responder, and the uplinks of an external controller   *)
(* (unix socket with a pre-connect stash, or the browser's ring).          *)
(*                                                                         *)
(* A B2H packet is one ring cell and carries its number; an H2B packet is  *)
(* a command, an ACL packet nobody serves, or one beyond the 264-byte      *)
(* limit.  The guest driver reads INT_STATUS, clears what it read, then    *)
(* consumes (cyw43_ll_bt_has_work).  History: made and read number the B2H *)
(* packets, sent and seen the forwarded ones, overrun a B2H ring lapped    *)
(* by its producer, torn a frame the bridge got in part.                   *)
(***************************************************************************)
EXTENDS Naturals, Sequences

CONSTANTS
    B2hRing,     \* cells of the B2H ring (4 KB)
    H2bHalf,     \* half the H2B ring (0x800)
    StashCap,    \* pre-connect packets kept (8)
    JsCap,       \* packets the browser's ring holds (7)
    MaxMade,     \* B2H packets in a behaviour
    MaxSent      \* forwarded packets in a behaviour

VARIABLE b

Modes == {"internal", "socket", "js"}
Cells == 0..(B2hRing - 1)

Init ==
    \E mode \in Modes :
        b = [mode |-> mode, h2b |-> <<>>,
             cell |-> [i \in Cells |-> 0], in |-> 0, out |-> 0,
             fc |-> FALSE, wake |-> FALSE, wl |-> FALSE, line |-> FALSE, pc |-> "idle",
             adv |-> FALSE, scan |-> FALSE,
             fd |-> FALSE, pend |-> <<>>, js |-> <<>>,
             made |-> 0, read |-> 0, overrun |-> FALSE,
             sent |-> 0, seen |-> 0, torn |-> FALSE]

-----------------------------------------------------------------------------
\* Rings and wake line.

\* cyw43_bt_pending.
Pending(s) == s.in # s.out

\* cyw43_update_irq: WLAN frames hold the line, BT packets pulse it.
UpdateIrq(s) == [s EXCEPT !.line = s.wl \/ s.wake]

\* Variant: a packet is announced in INT_STATUS only.
QueueHciNoWake(s) ==
    UpdateIrq([s EXCEPT !.cell[s.in] = s.made + 1, !.in = (s.in + 1) % B2hRing,
                        !.fc = TRUE, !.made = @ + 1,
                        !.overrun = @ \/ (s.in + 1) % B2hRing = s.out])

\* cyw43_bt_queue_hci: no look at the consumer's index.
QueueHci(s) ==
    UpdateIrq([s EXCEPT !.cell[s.in] = s.made + 1, !.in = (s.in + 1) % B2hRing,
                        !.fc = TRUE, !.wake = TRUE, !.made = @ + 1,
                        !.overrun = @ \/ (s.in + 1) % B2hRing = s.out])

\* cyw43_bt_cmd_complete.
CmdComplete(s) == QueueHci(s)

\* cyw43_backplane_read of INT_STATUS: FC_CHANGE is level, the read acks the
\* wake edge.
ReadIntStatus(s) ==
    LET f == s.fc \/ Pending(s)
    IN  IF s.wake /\ f THEN UpdateIrq([s EXCEPT !.fc = f, !.wake = FALSE])
        ELSE [s EXCEPT !.fc = f]

\* cyw43_backplane_write of INT_STATUS: write one to clear.
ClearIntStatus(s) == [s EXCEPT !.fc = FALSE]

\* cyw43_backplane_write of B2H_OUT: the guest has taken a packet.
ConsumeB2h(s) ==
    UpdateIrq([s EXCEPT !.out = (s.out + 1) % B2hRing, !.read = s.cell[s.out]])

-----------------------------------------------------------------------------
\* Uplinks.

\* bt_hci_forward: stash before the bridge connects, else header and body as
\* two writes, each of which may come up short.
Forward(s, outcome) ==
    LET t == s.sent + 1
        n == [s EXCEPT !.sent = t]
    IN  IF ~s.fd
        THEN IF Len(s.pend) < StashCap THEN [n EXCEPT !.pend = Append(@, t)] ELSE n
        ELSE CASE outcome = "ok"     -> [n EXCEPT !.seen = t]
               [] outcome = "none"   -> n
               [] outcome = "header" -> [n EXCEPT !.torn = TRUE]
               [] outcome = "closed" -> [n EXCEPT !.fd = FALSE, !.torn = FALSE]

\* bt_hci_drain: n complete packets, or the bridge is gone.
Drain(s, n) ==
    IF ~s.fd THEN s
    ELSE CASE n = 0 -> s
           [] n = 1 -> QueueHci(s)
           [] n = 2 -> QueueHci(QueueHci(s))

\* The bridge went away in a read.
DrainGone(s) == [s EXCEPT !.fd = FALSE, !.torn = FALSE]

\* bt_hci_forward_sync: a command waits for the controller's reply.
ForwardSync(s, type, outcome, n) ==
    LET f == Forward(s, outcome) IN IF type # "cmd" THEN f ELSE Drain(f, n)

\* cyw43_bt_hci_bridge_poll: accept, flush the first k of the stash in order
\* (a write that fails ends the flush and the rest is dropped), drain.
BridgePoll(s, k, n) ==
    IF s.fd THEN Drain(s, n)
    ELSE Drain([s EXCEPT !.fd = TRUE, !.pend = <<>>,
                         !.seen = IF k = 0 THEN @ ELSE s.pend[k],
                         !.torn = k # Len(s.pend)], n)

\* The JS branch of cyw43_bt_hci_poll: the newest is dropped when full.
JsUplink(s) ==
    LET t == s.sent + 1
    IN  [s EXCEPT !.sent = t, !.js = IF Len(@) < JsCap THEN Append(@, t) ELSE @]

\* cyw43_bt_hci_js_pop.
JsPop(s) == [s EXCEPT !.js = Tail(@), !.seen = Head(s.js)]

-----------------------------------------------------------------------------
\* cyw43_bt_hci_cmd, the internal responder.

\* Reset, masks, version, features and buffer sizes: a constant reply.
HciPlain(s) == CmdComplete(s)

\* Data length, PHY, pairing, address and vendor commands: settings nothing
\* here depends on; whatever is unknown is acked too.
HciStored(s) == CmdComplete(s)

\* LE_Set_Advertise_Enable.
HciAdvEnable(s, en) == CmdComplete([s EXCEPT !.adv = en])

\* LE_Set_Extended_Advertising_Enable: off leaves legacy advertising on.
HciExtAdvEnable(s, en) == CmdComplete([s EXCEPT !.adv = en \/ @])

\* LE_Set_Scan_Enable.
HciScanEnable(s, en) == CmdComplete([s EXCEPT !.scan = en])

\* LE_Create_Connection: complete, then Connection Complete of a new link.
HciCreateConnection(s, fresh) ==
    IF fresh THEN QueueHci(CmdComplete(s)) ELSE CmdComplete(s)

\* Disconnect: complete, then Disconnection Complete of a live link.
HciDisconnect(s, live) == IF live THEN QueueHci(CmdComplete(s)) ELSE CmdComplete(s)

HciCmd(s) ==
    {HciPlain(s), HciStored(s)} \cup {HciAdvEnable(s, e) : e \in BOOLEAN}
    \cup {HciExtAdvEnable(s, e) : e \in BOOLEAN} \cup {HciScanEnable(s, e) : e \in BOOLEAN}
    \cup {HciCreateConnection(s, f) : f \in BOOLEAN} \cup {HciDisconnect(s, f) : f \in BOOLEAN}

\* One packet taken off the ring by cyw43_bt_hci_poll: the states it can lead to.
Serve(s, type) ==
    CASE s.mode = "js" -> {JsUplink(s)}
      [] s.mode = "socket" ->
             {ForwardSync(s, type, o, n) : o \in {"ok", "none", "header", "closed"}, n \in 0..1}
      [] s.mode = "internal" /\ type = "cmd" -> HciCmd(s)
      [] OTHER -> {s}

Size(type) == IF type = "huge" THEN 2 ELSE 1
RECURSIVE Bytes(_)
Bytes(q) == IF q = <<>> THEN 0 ELSE Size(Head(q)) + Bytes(Tail(q))

\* cyw43_bt_hci_poll after the guest appended one packet: a ring more than
\* half full is taken for stale and dropped; a packet beyond the limit, and
\* all behind it, stays.
HciPoll(s, type) ==
    LET q == Append(s.h2b, type)
    IN  IF Bytes(q) > H2bHalf THEN {[s EXCEPT !.h2b = <<>>]}
        ELSE IF Head(q) = "huge" THEN {[s EXCEPT !.h2b = q]}
        ELSE Serve([s EXCEPT !.h2b = <<>>], type)

-----------------------------------------------------------------------------
\* The guest driver.

GuestSends(type) ==
    /\ b.sent < MaxSent /\ b.made + 2 <= MaxMade
    /\ b' \in HciPoll(b, type)

\* cyw43_ll_bt_has_work: idle when there is none.
GuestReads ==
    LET r == ReadIntStatus(b)
    IN  /\ b.pc \in {"idle", "poll"}
        /\ b' = [r EXCEPT !.pc = IF r.fc THEN "seen" ELSE "idle"]

GuestClears == b.pc = "seen" /\ b' = [ClearIntStatus(b) EXCEPT !.pc = "take"]

\* cyw43_bt_hci_read takes one packet.
GuestTakes == b.pc = "take" /\ Pending(b) /\ b' = ConsumeB2h(b)

\* The ring is empty, or the driver leaves the rest for the next round.
GuestDone == b.pc = "take" /\ b' = [b EXCEPT !.pc = "poll"]

\* The rest of the world.

\* cyw43_vnet_rx of an advertisement while scanning, or of a link frame.
RoomFrame(adv) ==
    /\ b.made < MaxMade
    /\ b' = IF adv /\ ~b.scan THEN b ELSE QueueHci(b)

\* WLAN frames come and go on the same line.
WlanQueue == b' = UpdateIrq([b EXCEPT !.wl = ~@])

\* The main loop pumps the bridge.
BridgeTurn ==
    /\ b.mode = "socket" /\ b.made + 2 <= MaxMade
    /\ \/ \E k \in 0..Len(b.pend), n \in 0..2 : b' = BridgePoll(b, k, n)
       \/ b.fd /\ b' = DrainGone(b)

\* The embedder drains or feeds the browser's ring (cyw43_bt_hci_js_push).
EmbedderTurn ==
    /\ b.mode = "js"
    /\ \/ b.js # <<>> /\ b' = JsPop(b)
       \/ b.made < MaxMade /\ b' = QueueHci(b)

Next ==
    \/ \E type \in {"cmd", "acl", "huge"} : GuestSends(type)
    \/ GuestReads
    \/ GuestClears
    \/ GuestTakes
    \/ GuestDone
    \/ \E adv \in BOOLEAN : RoomFrame(adv)
    \/ WlanQueue
    \/ BridgeTurn
    \/ EmbedderTurn

Spec == Init /\ [][Next]_b

-----------------------------------------------------------------------------
\* A driver that saw no work (cyw43_ll_bt_has_work read INT_STATUS without
\* FC_CHANGE) is woken by the line if packets wait: no wakeup is lost.
NoLostWake == (b.pc = "idle" /\ Pending(b)) => b.line \/ b.overrun

\* The rings deliver: the cells the guest has not read are the last packets
\* in order, and what the bridge or the embedder got is in the order sent.
RingsInOrder ==
    /\ ~b.overrun =>
           \A k \in 0..(B2hRing - 1) :
               k < (b.in + B2hRing - b.out) % B2hRing =>
                   b.cell[(b.out + k) % B2hRing] = b.read + k + 1
    /\ \A q \in {b.pend, b.js} :
           \A i \in 1..Len(q) : q[i] > b.seen /\ (i > 1 => q[i] > q[i - 1])

\* Every H2B packet up to the limit is taken as soon as it is written; only
\* one beyond it holds the ring.
RingServed == b.h2b = <<>> \/ Head(b.h2b) = "huge"

TransportSound == NoLostWake /\ RingsInOrder /\ RingServed

\* "the line asserts when a B2H packet is queued and deasserts when the guest
\* acks the BT interrupt": a driver that sees no work with nothing left in
\* either direction sees the line low.
AckReleasesLine == (b.pc = "idle" /\ ~b.fc /\ ~Pending(b) /\ ~b.wl) => ~b.line
=============================================================================
