----------------------------- MODULE Cyw43Wlan -----------------------------
(***************************************************************************)
(* The WLAN half of the CYW43439 model: the receive queue the guest reads  *)
(* over gSPI function 2, the HOST_WAKE line, IOCTLs and their responses,   *)
(* scan, join and soft-AP events, the built-in network (DHCP, ARP, ICMP,   *)
(* ICMPv6 answers) and the uplinks (vnet port, TAP).                       *)
(*                                                                         *)
(* A frame keeps its channel, what it is, the IOCTL it belongs to, the     *)
(* interface and the bus credit of its SDPCM header; all data frames are   *)
(* alike.  active, driven, renamed and shown are history: the joins whose  *)
(* response the guest has read, the wake line driven since the reset, an   *)
(* SSID changed under a running soft-AP, a beacon that found room in the   *)
(* scan list.                                                              *)
(***************************************************************************)
EXTENDS Integers, Sequences, SequencesExt

CONSTANTS
    QueueCap,    \* CYW43_RX_QUEUE_SIZE - 1
    CreditWindow,\* the 20 of sdpcm_fill_header
    MaxBeacons,  \* scan slots left after the three default networks
    MaxSends     \* bound on the frames the guest sends

VARIABLE w

None == -1
JoinEvents == <<"AUTH", "LINK", "SET_SSID", "PSK_SUP">>
Ssids == {"a", "b"}

\* cyw43_init: cyw43_reset clears everything but the uplinks; the wake line
\* keeps the pull-up of gpio_reset until it is first driven.
Booted(nofake, vnet, tap) ==
    [q |-> <<>>, line |-> TRUE, driven |-> FALSE, fwseq |-> 0, seq |-> 0, credit |-> CreditWindow,
     pend |-> None, wpa |-> FALSE, wifi |-> "off", ap |-> FALSE, apssid |-> "", scans |-> <<>>,
     nofake |-> nofake, vnet |-> vnet, tap |-> tap, ndwait |-> FALSE,
     active |-> {}, renamed |-> FALSE, shown |-> FALSE]

Init == \E nofake \in BOOLEAN : w = Booted(nofake, FALSE, TRUE)

-----------------------------------------------------------------------------
\* The queue and the wake line.

\* cyw43_update_irq (the Bluetooth share of the line is in Cyw43Bt).
UpdateIrq(c) == [c EXCEPT !.line = c.q # <<>>, !.driven = TRUE]

\* rx_queue_push: the frame a full queue refuses is gone.
RxQueuePush(c, f) ==
    IF Len(c.q) >= QueueCap THEN c
    ELSE UpdateIrq([c EXCEPT !.q = Append(@, f)])

\* rx_queue_pop.
RxQueuePop(c) == UpdateIrq([c EXCEPT !.q = Tail(@)])

\* sdpcm_fill_header: channel and credit; id and itf tell the frames apart.
Sdpcm(c, ch, what, id, itf) ==
    [ch |-> ch, what |-> what, id |-> id, itf |-> itf, credit |-> c.fwseq + CreditWindow]

\* cyw43_queue_ioctl_response.
QueueIoctlResponse(c, what, id) == RxQueuePush(c, Sdpcm(c, "control", what, id, 0))

\* cyw43_queue_event_if.
QueueEventIf(c, what, id, itf) == RxQueuePush(c, Sdpcm(c, "event", what, id, itf))

\* cyw43_queue_escan_result.
QueueEscanResult(c, ssid) == RxQueuePush(c, Sdpcm(c, "event", "ESCAN", None, 0))

\* cyw43_queue_rx_data_itf.
QueueRxDataItf(c, itf) == RxQueuePush(c, Sdpcm(c, "data", "frame", None, itf))

\* cyw43_queue_rx_vnet: a second copy for the soft-AP interface.
QueueRxVnet(c) ==
    LET sta == QueueRxDataItf(c, 0)
    IN  IF c.ap THEN QueueRxDataItf(sta, 1) ELSE sta

\* cyw43_send_scan_results: one default network stands for the three.
SendScanResults(c) ==
    LET results == FoldLeft(QueueEscanResult, c, <<"Pico-emuNet">> \o c.scans)
    IN  QueueEventIf(results, "ESCAN", None, 0)

\* cyw43_queue_connect_events: PSK_SUP only for a secured network.
QueueConnectEvents(c, id) ==
    LET events == IF c.wpa THEN JoinEvents ELSE SubSeq(JoinEvents, 1, 3)
        push(d, e) == QueueEventIf(d, e, id, 0)
    IN  [FoldLeft(push, c, events) EXCEPT !.wifi = "connected"]

-----------------------------------------------------------------------------
\* The soft-AP.

\* cyw43_add_scan_result.
AddScanResult(c, ssid) ==
    IF Len(c.scans) >= MaxBeacons THEN c
    ELSE [c EXCEPT !.scans = Append(@, ssid), !.shown = TRUE]

\* cyw43_del_scan_result: the first entry with that SSID.
DelScanResult(c, ssid) ==
    LET hits == {i \in DOMAIN c.scans : c.scans[i] = ssid}
    IN  IF hits = {} THEN c
        ELSE [c EXCEPT !.scans = RemoveAt(@, CHOOSE i \in hits : \A j \in hits : i <= j),
                       !.shown = FALSE]

\* cyw43_ap_set_up.
ApSetUp(c, up) ==
    LET beacon(d) == IF d.apssid # "" THEN AddScanResult(d, d.apssid) ELSE d
        silence(d) == IF d.apssid # "" THEN DelScanResult(d, d.apssid) ELSE d
    IN  CASE up /\ ~c.ap ->
               QueueEventIf(QueueEventIf(beacon([c EXCEPT !.ap = TRUE]),
                                         "AP", None, 1), "AP", None, 1)
          [] ~up /\ c.ap ->
               QueueEventIf(silence([c EXCEPT !.ap = FALSE]), "AP", None, 1)
          [] OTHER -> c

-----------------------------------------------------------------------------
\* IOCTLs: cyw43_handle_ioctl, one operator per command.

\* WLC_SET_VAR: escan, bsscfg:ssid and bss; the answer comes last.
SetVar(c, var, id) ==
    LET done == CASE var = "escan" -> SendScanResults(c)
                  [] var \in Ssids -> [c EXCEPT !.apssid = var,
                                                !.renamed = @ \/ (c.ap /\ var # c.apssid)]
                  [] var = "up" -> ApSetUp(c, TRUE)
                  [] var = "down" -> ApSetUp(c, FALSE)
    IN  QueueIoctlResponse(done, "ack", id)

\* WLC_GET_VAR: a value, nothing changes.
GetVar(c, id) == QueueIoctlResponse(c, "ack", id)

\* Variant: the join events are queued behind the response at once.
SetSsidAtOnce(c, id) == QueueConnectEvents(QueueIoctlResponse(c, "joinAck", id), id)

\* WLC_SET_SSID: the join events wait until this response is read.
SetSsid(c, id) == [QueueIoctlResponse(c, "joinAck", id) EXCEPT !.pend = id]

\* WLC_SET_WPA_AUTH.
SetWpaAuth(c, id, on) == QueueIoctlResponse([c EXCEPT !.wpa = on], "ack", id)

\* WLC_GET_SSID and WLC_GET_BSSID.
GetSsid(c, id) == QueueIoctlResponse(c, "ack", id)

\* WLC_SET_CHANNEL (a beacon detail) and the default: an answer.
Other(c, id) == QueueIoctlResponse(c, "ack", id)

\* cyw43_wlan_tx_complete, control channel: every frame carries the guest's
\* sequence number, which is what the next credit is counted from.
TxControl(c, cmd) ==
    LET d == [c EXCEPT !.seq = @ + 1, !.fwseq = c.seq]
        id == c.seq
    IN  CASE cmd = "join" -> SetSsid(d, id)
          [] cmd \in {"escan", "up", "down"} \cup Ssids -> SetVar(d, cmd, id)
          [] cmd = "getvar" -> GetVar(d, id)
          [] cmd = "getssid" -> GetSsid(d, id)
          [] cmd = "wpa" -> SetWpaAuth(d, id, TRUE)
          [] cmd = "open" -> SetWpaAuth(d, id, FALSE)
          [] OTHER -> Other(d, id)

-----------------------------------------------------------------------------
\* The built-in network.

\* cyw43_send_dhcp_reply: on the station interface only.
SendDhcpReply(c) == QueueRxDataItf(c, 0)

\* cyw43_handle_dhcp: DISCOVER and REQUEST are answered, other messages not.
HandleDhcp(c) == SendDhcpReply(c)

\* cyw43_handle_fake_arp.
HandleFakeArp(c) == QueueRxVnet(c)

\* cyw43_handle_fake_icmp.
HandleFakeIcmp(c) == QueueRxVnet(c)

\* cyw43_fake_send_ra.
FakeSendRa(c) == QueueRxVnet(c)

\* cyw43_handle_fake_icmp6: a solicitation of the gateway or a router.
HandleFakeIcmp6(c, frame) == IF frame = "rs" THEN FakeSendRa(c) ELSE QueueRxVnet(c)

\* picoemu_nd_snoop_tx: any neighbour solicitation freezes the fast forward.
NdSnoopTx(c, frame) == IF frame \in {"ns", "nsOther"} THEN [c EXCEPT !.ndwait = TRUE] ELSE c

\* cyw43_wlan_tx_complete, data channel: answered here, or handed to the
\* uplinks, which changes nothing on the chip.
TxData(c, frame) ==
    LET d == NdSnoopTx([c EXCEPT !.seq = @ + 1, !.fwseq = c.seq], frame)
    IN  CASE c.nofake -> d
          [] frame = "dhcp" -> HandleDhcp(d)
          [] frame = "arp" -> HandleFakeArp(d)
          [] frame = "ping" -> HandleFakeIcmp(d)
          [] frame \in {"rs", "ns"} -> HandleFakeIcmp6(d, frame)
          [] OTHER -> d

\* CYW43_FUNC_WLAN read of cyw43_pio_tx_write: the response of the join in
\* flight releases its events, then the frame leaves the queue.
ReadWlan(c) ==
    LET f == Head(c.q)
        joins == c.pend # None /\ f.ch = "control" /\ f.id = c.pend
        read == [c EXCEPT !.credit = f.credit,
                          !.active = IF f.what = "joinAck" THEN @ \cup {f.id} ELSE @]
        armed == IF joins THEN QueueConnectEvents([read EXCEPT !.pend = None], f.id) ELSE read
    IN  RxQueuePop(armed)

-----------------------------------------------------------------------------
\* The guest's SDPCM driver sends while it has credit.
MaySend == w.seq < MaxSends /\ w.seq < w.credit

GuestIoctl ==
    /\ MaySend
    /\ \E cmd \in {"join", "escan", "a", "b", "up", "down", "getvar", "getssid", "wpa", "open", "channel"} :
           w' = TxControl(w, cmd)

GuestData ==
    /\ MaySend
    /\ \E frame \in {"dhcp", "arp", "ping", "rs", "ns", "nsOther", "udp"} :
           w' = TxData(w, frame)

GuestRead == w.q # <<>> /\ w' = ReadWlan(w)

\* cyw43_vnet_rx, the frames that are neither advertisements nor GATT.
VnetRx == w.vnet /\ w' = QueueRxVnet(w)

\* cyw43_tap_poll: a burst, or an error that closes the interface.
TapPoll ==
    /\ w.tap /\ w.wifi = "connected"
    /\ \/ w' = QueueRxVnet(w)
       \/ w' = QueueRxVnet(QueueRxVnet(w))
       \/ w' = [w EXCEPT !.tap = FALSE]

\* cyw43_ndp_ra_poll, when its seven seconds are over.
RaPoll == ~w.nofake /\ w.wifi = "connected" /\ w' = FakeSendRa(w)

\* The solicitation window runs out (dual_core_step reads it).
NdWindowEnds == w.ndwait /\ w' = [w EXCEPT !.ndwait = FALSE]

\* cyw43_vnet_attach.
Attach == ~w.vnet /\ w' = [w EXCEPT !.vnet = TRUE]

\* reset_runtime_peripherals: cyw43_init keeps the uplinks.
Reboot == w.seq > 0 /\ w' = Booted(w.nofake, w.vnet, w.tap)

Next ==
    \/ GuestIoctl
    \/ GuestData
    \/ GuestRead
    \/ VnetRx
    \/ TapPoll
    \/ RaPoll
    \/ NdWindowEnds
    \/ Attach
    \/ Reboot

Spec == Init /\ [][Next]_w

-----------------------------------------------------------------------------
\* The guest arms a level interrupt on HOST_WAKE (cyw43_update_irq): the line
\* is high while a frame waits, so that none is missed, and, once the model has
\* driven it, low while none does.
WakeFollowsQueue ==
    /\ w.q # <<>> => w.line
    /\ (w.driven /\ w.line) => w.q # <<>>

\* Events of a join reach the guest after the response of that join and in
\* the order AUTH, LINK, SET_SSID, PSK_SUP, whatever else is queued between
\* (connect_pending_id, "strictly after ACTIVE").
JoinEventsFollow ==
    LET pos(e) == CHOOSE i \in 1..4 : JoinEvents[i] = e
        join == {i \in DOMAIN w.q : w.q[i].what \in Range(JoinEvents)}
    IN  /\ \A i \in join : w.q[i].id \in w.active
        /\ \A i, j \in join :
               (i < j /\ w.q[i].id = w.q[j].id) => pos(w.q[i].what) < pos(w.q[j].what)

\* The credit the guest holds never falls behind a credit still queued and
\* never runs ahead of what the chip has seen plus the window.
CreditConsistent ==
    LET credits == <<w.credit>> \o [i \in DOMAIN w.q |-> w.q[i].credit]
    IN  /\ \A i, j \in DOMAIN credits : i < j => credits[i] <= credits[j]
        /\ \A i \in DOMAIN credits : credits[i] <= w.fwseq + CreditWindow

\* The scan list shows the soft-AP exactly while it is up and its beacon
\* fitted, as long as the guest has not renamed a running soft-AP.
BeaconHonest == ~w.renamed => (Len(w.scans) = IF w.ap /\ w.shown THEN 1 ELSE 0)

WlanHonest == WakeFollowsQueue /\ JoinEventsFollow /\ CreditConsistent /\ BeaconHonest

\* Refuted.  cyw43.c:81, WL_HOST_WAKE is driven "LOW when empty": after a reset
\* nothing drives it before the first frame and gpio_in reads all ones.
LowWhenEmpty == w.line => w.q # <<>>

\* Refuted.  cyw43.c:3509, "publish/withdraw the beacon": a soft-AP renamed while
\* it is up goes down under its new name and leaves the beacon of the old one.
BeaconWithdrawn == ~w.ap => w.scans = <<>>
=============================================================================
