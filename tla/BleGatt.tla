------------------------------ MODULE BleGatt ------------------------------
(***************************************************************************)
(* The internal GATT layer of the CYW43 model: a table of virtual LE links *)
(* to room peers, the shared attribute rows, per-link notification slots,  *)
(* indications and long-write staging, and the legacy mirror of link 0.    *)
(*                                                                         *)
(* Of the attributes the CCCD row is kept; what the scratch value holds    *)
(* decides nothing here, so a write to it is a reply only.  A byte of      *)
(* prep_buf is known by who wrote it, and when.                            *)
(* History: told is the set of links whose Connection Complete the guest   *)
(* was sent; mixed the links whose pending flag another confirmation than  *)
(* the guest's of our indication has cleared; out our indications the      *)
(* guest's stack has not confirmed, no longer counted on a mixed link.     *)
(***************************************************************************)
EXTENDS Naturals, Sequences

CONSTANTS
    MaxLinks,    \* BT_GATT_MAX_LINKS
    Peers,       \* room MACs
    PrepSize,    \* bytes of prep_buf
    Profiles     \* subsets of {"notify", "long"}: what the centrals of a run use

ASSUME GattAssumption == MaxLinks \in Nat \ {0} /\ PrepSize \in Nat /\ "guest" \notin Peers

VARIABLE g

Links == 0..(MaxLinks - 1)
Off == "off"
NoLink == MaxLinks
Cells == 0..(PrepSize - 1)

\* A byte staged in the sequence under way, by the peer of another link or by
\* anybody else: the link's peer, the guest, a room MAC without a link.
Staged == {"own", "foreign"}

\* prep_handle, prep_len and prep_buf after memset; gap is history, a Prepare
\* that skipped bytes.
NoPrep == [h |-> "none", len |-> 0, buf |-> [k \in Cells |-> "clear"], gap |-> FALSE]

\* prep_handle and prep_len alone: the bytes stay, those of an older sequence now.
Unstage(p) ==
    [h |-> "none", len |-> 0, gap |-> FALSE,
     buf |-> [k \in Cells |-> IF p.buf[k] = "clear" THEN "clear" ELSE "old"]]

\* struct bt_gatt_link_state after memset.
ClearedLink ==
    [active |-> FALSE, peer |-> Off, cccd |-> {}, ind |-> FALSE, ntf |-> "none",
     prep |-> NoPrep]

GattInit ==
    \E use \in Profiles :
        g = [use |-> use,
             links |-> [i \in Links |-> ClearedLink], mirror |-> FALSE, mntf |-> FALSE,
             row |-> {}, told |-> {}, out |-> [i \in Links |-> 0],
             mixed |-> {}]

-----------------------------------------------------------------------------
\* The link table.

\* bt_gatt_link_by_peer.
LinkByPeer(s, p) ==
    IF \E i \in Links : s.links[i].active /\ s.links[i].peer = p
    THEN CHOOSE i \in Links : s.links[i].active /\ s.links[i].peer = p
    ELSE NoLink

\* bt_gatt_link_alloc: the peer's own slot, else the first free one.
LinkAlloc(s, p) ==
    LET free == {i \in Links : ~s.links[i].active}
    IN  IF LinkByPeer(s, p) # NoLink THEN LinkByPeer(s, p)
        ELSE IF free = {} THEN NoLink
        ELSE CHOOSE i \in free : \A j \in free : i <= j

\* bt_gatt_sync_link0.
SyncLink0(s) == [s EXCEPT !.mirror = s.links[0].active]

\* bt_gatt_link_raise_complete.
LinkRaiseComplete(s, i) == [s EXCEPT !.told = @ \cup {i}]

\* bt_gatt_db_reset: the attribute values and the legacy notify slot.
DbReset(s) == [s EXCEPT !.row = {}, !.mntf = FALSE]

\* A free slot taken by a peer, and the peer's own slot used again.
FreshLink(p) == [ClearedLink EXCEPT !.active = TRUE, !.peer = p]
AgainLink(l) == [l EXCEPT !.cccd = {}, !.ind = FALSE, !.ntf = "none", !.prep = Unstage(l.prep)]

\* The session of link i is over for the history.
SessionOver(s, i) == [s EXCEPT !.out[i] = 0, !.mixed = @ \ {i}]

\* bt_gatt_link_up: a CONNECT_REQ from the room.
LinkUp(s, p) ==
    LET i == LinkAlloc(s, p)
        link == IF s.links[i].active THEN AgainLink(s.links[i]) ELSE FreshLink(p)
    IN  IF i = NoLink THEN s
        ELSE LinkRaiseComplete(SyncLink0(DbReset(
                 [SessionOver(s, i) EXCEPT !.links[i] = link])), i)

\* bt_gatt_link_down_peer: a DISCONNECT from the room.
LinkDownPeer(s, p) ==
    LET i == LinkByPeer(s, p)
    IN  IF i = NoLink THEN s
        ELSE SyncLink0([SessionOver(s, i) EXCEPT !.links[i] = ClearedLink, !.told = @ \ {i}])

\* bt_gatt_connect_to: the request goes to the room; the local accept
\* completes at once.
ConnectTo(s, p) ==
    LET i == LinkAlloc(s, p)
    IN  IF LinkByPeer(s, p) # NoLink \/ i = NoLink THEN s
        ELSE LinkRaiseComplete(SyncLink0(DbReset(
                 [SessionOver(s, i) EXCEPT !.links[i] = FreshLink(p)])), i)

\* LE_Create_Connection of cyw43_bt_hci_cmd, internal responder.
CreateConnection(s, p) == IF s.mirror THEN s ELSE ConnectTo(s, p)

\* HCI Disconnect of cyw43_bt_hci_cmd: the mirror goes, the table stays, and
\* Disconnection Complete names handle 0x42.
HciDisconnect(s) == IF s.mirror THEN [s EXCEPT !.mirror = FALSE, !.told = @ \ {0}] ELSE s

-----------------------------------------------------------------------------
\* Server emits.

\* bt_gatt_cccd_on: the link's own setting, else the shared row.
CccdOn(s, i, kind) ==
    LET cfg == IF s.links[i].cccd # {} THEN s.links[i].cccd ELSE s.row
    IN  kind \in cfg

\* bt_gatt_notify_on.
NotifyOn(s, i, kind) ==
    IF \/ ~s.links[i].active
       \/ kind = "indicate" /\ s.links[i].ind
       \/ s.links[i].ntf # "none"
       \/ ~CccdOn(s, i, kind)
    THEN s
    ELSE [s EXCEPT !.links[i] = [s.links[i] EXCEPT !.ntf = kind,
                                                   !.ind = @ \/ kind = "indicate"],
                   !.mntf = @ \/ i = 0]

\* bt_gatt_poll_notify: every active link's slot, as ACL and to the room.
\* (The legacy slot is empty once link 0 is drained.)
PollNotify(s) ==
    LET due == {i \in Links : s.links[i].active /\ s.links[i].ntf # "none"}
        ind == {i \in due : s.links[i].ntf = "indicate"}
    IN  [s EXCEPT !.links = [i \in Links |-> IF i \in due THEN [s.links[i] EXCEPT !.ntf = "none"]
                                             ELSE s.links[i]],
                  !.out = [i \in Links |-> IF i \in ind \ s.mixed THEN @[i] + 1 ELSE @[i]],
                  !.mntf = IF 0 \in due THEN FALSE ELSE @]

\* cyw43_bt_hci_poll gates the drain on the legacy slot and mirror.
HciPoll(s) == IF s.mntf /\ s.mirror THEN PollNotify(s) ELSE s

-----------------------------------------------------------------------------
\* ATT requests on an active link: bt_gatt_handle_room_att_on.

\* 0x12 to the CCCD: the row is stored before the value is judged.
WriteRequest(s, i, cfg, valid) ==
    [s EXCEPT !.row = cfg, !.links[i].cccd = IF valid THEN cfg ELSE @]

\* 0x52 to the CCCD: the row only.
WriteCommand(s, i, cfg) == [s EXCEPT !.row = cfg]

\* 0x1E, from the room or from the guest's stack: whichever indication is
\* meant, ours is no longer pending.
Confirm(s, i) == [s EXCEPT !.links[i].ind = FALSE]

\* Where a request of who that is served on link i comes from.
Origin(s, i, who) == IF LinkByPeer(s, who) \in {i, NoLink} THEN "own" ELSE "foreign"

\* The staging p once n bytes of origin o are prepared at off for attribute h.
Prepared(p, o, h, off, n) ==
    [h |-> h, len |-> IF off + n > p.len THEN off + n ELSE p.len, gap |-> p.gap \/ off > p.len,
     buf |-> [k \in Cells |-> IF k \in off..(off + n - 1) THEN o ELSE p.buf[k]]]

\* Variant: one staging buffer for all links.
PrepareWriteShared(s, i, o, h, off, n) ==
    [s EXCEPT !.links = [j \in Links |->
        IF ~s.links[j].active THEN s.links[j]
        ELSE [s.links[j] EXCEPT !.prep = Prepared(@, IF j = i THEN o ELSE "foreign", h, off, n)]]]

\* 0x16: staged on the link, for one attribute at a time.
PrepareWrite(s, i, o, h, off, n) ==
    IF s.links[i].prep.h \notin {"none", h} THEN s
    ELSE [s EXCEPT !.links[i].prep = Prepared(s.links[i].prep, o, h, off, n)]

\* 0x18: commit or cancel, and the staging is over.
ExecuteWrite(s, i, commit) ==
    LET p == s.links[i].prep
        done == [s EXCEPT !.links[i].prep = Unstage(p)]
    IN  IF ~commit \/ p.h = "none" THEN done
        ELSE [done EXCEPT !.row = IF p.h = "cccd" THEN {"notify"} ELSE @]

\* cyw43_vnet_rx: the link of the sender, else of the MAC the request names,
\* else link 0.
RoomLink(s, src, named) ==
    IF LinkByPeer(s, src) # NoLink THEN LinkByPeer(s, src)
    ELSE IF LinkByPeer(s, named) # NoLink THEN LinkByPeer(s, named) ELSE 0

\* bt_gatt_handle_h2b_acl: the link of the handle, or link 0.
H2bLink(s, i) == IF s.links[i].active THEN i ELSE 0

\* Who may make a request, with the link it is served on.
Requests(s) ==
    { r \in (Peers \cup {"guest"}) \X Links :
        /\ s.links[r[2]].active
        /\ IF r[1] = "guest" THEN \E i \in Links : r[2] = H2bLink(s, i)
           ELSE \E named \in Peers : r[2] = RoomLink(s, r[1], named) }

-----------------------------------------------------------------------------
RoomConnect(p) == g' = LinkUp(g, p)
RoomDisconnect(p) == g' = LinkDownPeer(g, p)
GuestConnect(p) == g' = CreateConnection(g, p)
GuestDisconnect == g' = HciDisconnect(g)
Notify(i, kind) == "notify" \in g.use /\ g' = NotifyOn(g, i, kind)
GattPoll == g' = HciPoll(g)

\* A write from the room, or from the guest, served on link i.
GattWrite(i) ==
    \E cfg \in {{}, {"notify"}, {"indicate"}} :
        \/ \E valid \in BOOLEAN : g' = WriteRequest(g, i, cfg, valid)
        \/ g' = WriteCommand(g, i, cfg)

\* A long write of origin o, served on link i.
LongWrite(o, i) ==
    \/ \E h \in {"scratch", "cccd"}, off \in 0..PrepSize : \E n \in 0..(PrepSize - off) :
          g' = PrepareWrite(g, i, o, h, off, n)
    \/ \E commit \in BOOLEAN : g' = ExecuteWrite(g, i, commit)

\* The guest's stack confirms our indication.
Confirmed(i) ==
    /\ g.links[i].active /\ g.out[i] > 0
    /\ g' = [Confirm(g, i) EXCEPT !.out[i] = @ - 1]

\* Confirmations that are not the guest's of ours: the room confirms; the peer
\* is a server itself, bt_gatt_deliver_room_resp hands the guest its indication,
\* and the guest's stack confirms that one; or the guest confirms late, on a
\* handle that is down (served on link 0) or taken again.
Overtaken(i) ==
    /\ g.links[i].active /\ g.links[i].ind
    /\ g' = [Confirm(g, i) EXCEPT !.mixed = @ \cup {i}]

GattNext ==
    \/ \E p \in Peers : RoomConnect(p)
    \/ \E p \in Peers : RoomDisconnect(p)
    \/ \E p \in Peers : GuestConnect(p)
    \/ GuestDisconnect
    \/ \E i \in Links, kind \in {"notify", "indicate"} : Notify(i, kind)
    \/ GattPoll
    \/ "notify" \in g.use /\ \E i \in {r[2] : r \in Requests(g)} : GattWrite(i)
    \/ /\ "long" \in g.use
       /\ \E r \in {<<Origin(g, q[2], q[1]), q[2]>> : q \in Requests(g)} : LongWrite(r[1], r[2])
    \/ \E i \in Links : Overtaken(i)
    \/ \E i \in Links : Confirmed(i)

GattSpec == GattInit /\ [][GattNext]_g

-----------------------------------------------------------------------------
\* bt_gatt_notify_on, "no indication outstanding": on a link whose pending flag
\* only the guest's confirmations of our indications clear, the guest never has
\* two of them to confirm.
OneIndication == \A i \in Links \ g.mixed : g.out[i] <= 1

\* One peer holds one link, and the guest knows of every link: it was sent
\* Connection Complete for it, and only link 0 can be closed behind the table.
LinksKnown ==
    /\ \A i, j \in Links :
           (i # j /\ g.links[i].active /\ g.links[j].active) => g.links[i].peer # g.links[j].peer
    /\ \A i \in g.told : g.links[i].active
    /\ \A i \in Links \ {0} : g.links[i].active => i \in g.told

\* The bytes a commit would take that nobody staged in this sequence.
Unstaged(p) == {k \in Cells : k < p.len /\ p.buf[k] \notin Staged}

\* Prepare and Execute Write: a central with a link stages on no other link, a
\* sequence that leaves no gap commits the bytes of that sequence only, and a
\* link that is down holds none.
StagingIsolated ==
    \A i \in Links :
        LET p == g.links[i].prep
        IN  /\ \A k \in Cells : p.buf[k] # "foreign"
            /\ ~p.gap => Unstaged(p) = {}
            /\ ~g.links[i].active => p = NoPrep

\* The link table as the centrals and the guest rely on it: indications go out
\* one at a time, links are known, staged writes stay apart (the bt_gatt
\* functions of cyw43.c).
GattSound == OneIndication /\ LinksKnown /\ StagingIsolated

\* "this stays in sync via bt_gatt_sync_link0()": the mirror of link 0 says
\* what the table says.
MirrorInSync == g.mirror = g.links[0].active

\* "Drains ALL active links (per-link slots)": after a poll nothing waits, whether
\* the poll changed anything or not.
PollDrains ==
    LET after == HciPoll(g) IN \A i \in Links : after.links[i].active => after.links[i].ntf = "none"

\* Refuted.  cyw43.c:2308, "exactly one outstanding indication per link": the
\* room's 0x1E, the confirmation of the peer's own indication and a late one
\* all clear ind_pending while the guest has one to confirm, and the next may go.
IndicationsSpaced == \A i \in Links : g.out[i] > 0 => g.links[i].ind

\* Refuted.  cyw43.c:2595, 0x01 commits "the staged prepare-writes": a Prepare
\* beyond the staged length lets prep_buf's older bytes through.
CommitsStaged == \A i \in Links : Unstaged(g.links[i].prep) = {}

\* Refuted.  cyw43.c:563, "Frames not for us are ignored": a request for somebody
\* else, from a MAC without a link, is served on the link of the MAC it names
\* or on link 0.
StrangersIgnored ==
    \A r \in Requests(g) : r[1] = "guest" \/ LinkByPeer(g, r[1]) # NoLink
=============================================================================
