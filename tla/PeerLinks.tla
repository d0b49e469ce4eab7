----------------------------- MODULE PeerLinks -----------------------------
(***************************************************************************)
(* Two emulator processes that share one unix socket path: the peer mesh   *)
(* of the virtual network (vnet.c) and the wire protocol (wire.c).  Every  *)
(* system call is a step of its own, so the two start-ups interleave; a    *)
(* process may exit (running its cleanup) or be killed between any two of  *)
(* them and start again.                                                   *)
(*                                                                         *)
(* A frame is two units, header and body, each tagged with sender and      *)
(* number.  A write to a closed peer is the code's error branch; that the  *)
(* signal it raises may end the process as well is Kill.  History: n       *)
(* numbers the frames, got is the last one each side took, cut the senders *)
(* that left a frame unfinished on a connection, late those that kept some *)
(* of their backlog behind a connection, torn a header paired with another *)
(* frame's body, stale a frame out of order or the receiver's own, each    *)
(* with whether such a stop came before.  What a receiver makes of a cut   *)
(* stream depends on the bytes; here it goes on in pairs of units.         *)
(***************************************************************************)
EXTENDS Integers, Sequences, FiniteSets

CONSTANTS
    Protos,      \* subset of {"vnet", "wire"}
    PendCap,     \* frames stashed before a peer is there (16)
    SockCap,     \* units a socket buffers (208 KB)
    RxCap,       \* units of the receive buffer (one frame for vnet)
    TxCap,       \* units of the wire transmit buffer (2 KB)
    MaxFrames,   \* frames in a behaviour
    MaxStops     \* exits and kills in a behaviour

VARIABLE pl

Procs == {"a", "b"}
Other(p) == IF p = "a" THEN "b" ELSE "a"
Conns == 1..3
Free == [cl |-> "none", sv |-> "none", open |-> {}, to |-> [p \in Procs |-> <<>>], cut |-> {}]
Down == [pc |-> "down", fd |-> 0, lfd |-> "none", owns |-> FALSE, queue |-> <<>>,
         pend |-> <<>>, tx |-> <<>>, rx |-> <<>>]

Init ==
    \E proto \in Protos :
        pl = [proto |-> proto, file |-> "none", conn |-> [c \in Conns |-> Free],
              proc |-> [p \in Procs |-> Down], stops |-> 0, n |-> 0,
              got |-> [p \in Procs |-> 0], late |-> {}, torn |-> {}, stale |-> {}]

-----------------------------------------------------------------------------
\* The kernel's stream sockets.

\* connect(2) finds a socket that listens behind the path.
Reachable(s) == s.file \in Procs /\ s.proc[s.file].lfd = "listen"

\* Number of the connection that connect(2) makes.
NewConn(s) == CHOOSE c \in Conns : s.conn[c] = Free /\ \A d \in Conns : s.conn[d] = Free => c <= d

CanConnect(s) == \E c \in Conns : s.conn[c] = Free

\* connect(2) by p.
Connected(s, p) ==
    [s EXCEPT !.conn[NewConn(s)] = [Free EXCEPT !.cl = p, !.sv = s.file, !.open = {p, s.file}],
              !.proc[s.file].queue = Append(@, NewConn(s)),
              !.proc[p].fd = NewConn(s)]

\* close(2) of p's end of connection c; it is forgotten with its second end.
CloseEnd(s, p, c) ==
    IF c = 0 THEN s
    ELSE [s EXCEPT !.conn[c] = IF @.open \ {p} = {} THEN Free
                               ELSE [@ EXCEPT !.open = @ \ {p}]]

PeerGone(s, p) == s.conn[s.proc[p].fd].open = {p}
Incoming(s, p) == s.conn[s.proc[p].fd].to[p]

\* close(2) of p's listener: connections nobody accepted are reset.
CloseListener(s, p) ==
    LET dead(c) == CASE \A i \in DOMAIN s.proc[p].queue : c # s.proc[p].queue[i] -> s.conn[c]
                     [] s.conn[c].open = {p} -> Free
                     [] OTHER -> [s.conn[c] EXCEPT !.open = @ \ {p}]
    IN [s EXCEPT !.conn = [c \in Conns |-> dead(c)], !.proc[p].lfd = "none",
                 !.proc[p].queue = <<>>,
                 !.file = IF s.file = p /\ s.proc[p].lfd # "none" THEN "stale" ELSE @]

\* What the kernel closes when p ends.
EndProcess(s, p) == [CloseListener(CloseEnd(s, p, s.proc[p].fd), p) EXCEPT !.proc[p] = Down]

-----------------------------------------------------------------------------
\* Frames on a stream.

Units(f) == << <<f, "head">>, <<f, "body">> >>

\* A whole frame reaches the ports (vnet) or the peripheral (wire).
Deliver(s, p, head, body) ==
    LET cut == Other(p) \in s.conn[s.proc[p].fd].cut
        late == Other(p) \in s.late
    IN  [s EXCEPT !.torn = IF head[1] # body[1] THEN @ \cup {cut} ELSE @,
                  !.stale = IF head[1][1] = p \/ head[1][2] <= s.got[p] THEN @ \cup {late} ELSE @,
                  !.got[p] = head[1][2]]

\* Variant: only the length of the body is cut from the buffer.
ProcessRxShort(s, p) ==
    LET rx == s.proc[p].rx
        one == [Deliver(s, p, rx[1], rx[2]) EXCEPT !.proc[p].rx = SubSeq(rx, 2, Len(rx))]
        two == [Deliver(one, p, rx[2], rx[3]) EXCEPT !.proc[p].rx = SubSeq(rx, 3, Len(rx))]
    IN CASE Len(rx) < 2 -> s [] Len(rx) < 3 -> one [] OTHER -> two

\* peer_process_rx: whole frames leave the front of the buffer.
ProcessRx(s, p) ==
    LET rx == s.proc[p].rx
        one == [Deliver(s, p, rx[1], rx[2]) EXCEPT !.proc[p].rx = SubSeq(rx, 3, Len(rx))]
        two == [Deliver(one, p, rx[3], rx[4]) EXCEPT !.proc[p].rx = SubSeq(rx, 5, Len(rx))]
    IN CASE Len(rx) < 2 -> s [] Len(rx) < 4 -> one [] OTHER -> two

\* wire_process_rx: the same cut, whatever the message is.
WireProcessRx(s, p) == ProcessRx(s, p)

\* write(2) of units by p, as many as fit.
Room(s, p) == SockCap - Len(s.conn[s.proc[p].fd].to[Other(p)])
Fitting(s, p, units) == IF Room(s, p) < Len(units) THEN Room(s, p) ELSE Len(units)
Written(s, p, units) ==
    [s EXCEPT !.conn[s.proc[p].fd].to[Other(p)] = @ \o SubSeq(units, 1, Fitting(s, p, units))]

\* Error branches: the end is closed and what was received in part is forgotten.
Disconnect(s, p) ==
    [CloseEnd(s, p, s.proc[p].fd) EXCEPT !.proc[p].fd = 0, !.proc[p].rx = <<>>, !.proc[p].tx = <<>>]

-----------------------------------------------------------------------------
\* vnet.c.

\* vnet_peer_write, frame by frame, until one does not fit (EAGAIN): what went of
\* that one stays in the stream.
PeerWrite(s, p, units) ==
    [Written(s, p, units) EXCEPT !.conn[s.proc[p].fd].cut =
        IF Fitting(s, p, units) % 2 = 1 THEN @ \cup {p} ELSE @]

\* Its hard error: the caller disconnects, the receive buffer and the backlog stay.
WriteError(s, p) == [CloseEnd(s, p, s.proc[p].fd) EXCEPT !.proc[p].fd = 0]

\* vnet_peer_flush: the backlog leaves in order; the first frame that does not fit
\* and those behind it stay, and nothing flushes them before the next connection.
PeerFlush(s, p) ==
    LET pend == s.proc[p].pend
        units == [j \in 1..(2 * Len(pend)) |-> Units(pend[(j + 1) \div 2])[IF j % 2 = 1 THEN 1 ELSE 2]]
        rest == SubSeq(pend, Fitting(s, p, units) \div 2 + 1, Len(pend))
    IN  IF pend = <<>> THEN s
        ELSE IF PeerGone(s, p) THEN WriteError(s, p)
        ELSE [PeerWrite(s, p, units) EXCEPT !.proc[p].pend = rest,
                                            !.late = IF rest # <<>> THEN @ \cup {p} ELSE @]

\* A connection is there: buffer reset, backlog out.
Attached(s, p) == PeerFlush([s EXCEPT !.proc[p].rx = <<>>], p)

\* accept(2) and its follow-up, if a connection waits.
Accepted(s, p) ==
    IF s.proc[p].fd # 0 \/ s.proc[p].queue = <<>> THEN s
    ELSE Attached([s EXCEPT !.proc[p].queue = Tail(@), !.proc[p].fd = Head(s.proc[p].queue)], p)

\* vnet_peer_maintain: connect to whoever listens ...
MaintainConnect(p) ==
    /\ pl.proc[p].pc \in {"vpoll", "vretry"} /\ CanConnect(pl)
    /\ pl' = IF Reachable(pl) THEN [Attached(Connected(pl, p), p) EXCEPT !.proc[p].pc = "vread"]
             ELSE [pl EXCEPT !.proc[p].pc = IF @ = "vpoll" THEN "vbind" ELSE "vunlink"]

\* ... else bind, without unlinking first; EADDRINUSE: somebody may be quicker ...
MaintainBind(p) ==
    /\ pl.proc[p].pc = "vbind"
    /\ pl' = IF pl.file # "none" THEN [pl EXCEPT !.proc[p].pc = "vretry"]
             ELSE [pl EXCEPT !.file = p, !.proc[p].lfd = "bound", !.proc[p].pc = "vlisten"]

\* ... and listen ...
MaintainListen(p) ==
    /\ pl.proc[p].pc = "vlisten"
    /\ pl' = [pl EXCEPT !.proc[p].lfd = "listen", !.proc[p].owns = TRUE, !.proc[p].pc = "vaccept"]

\* ... or reclaim a path nobody answers on.
MaintainUnlink(p) ==
    /\ pl.proc[p].pc = "vunlink"
    /\ pl' = [pl EXCEPT !.file = "none", !.proc[p].pc = "idle"]

\* vnet_poll_peers, up to the read.
PollPeers(p) ==
    LET r == pl.proc[p]
    IN /\ pl.proto = "vnet" /\ r.pc = "idle"
       /\ pl' = [pl EXCEPT !.proc[p].pc = CASE r.fd # 0 -> "vread"
                                            [] r.fd = 0 /\ r.lfd = "none" -> "vpoll"
                                            [] OTHER -> "vaccept"]

PollAccept(p) ==
    /\ pl.proc[p].pc = "vaccept"
    /\ LET s == Accepted(pl, p)
       IN pl' = [s EXCEPT !.proc[p].pc = IF s.proc[p].fd # 0 THEN "vread" ELSE "idle"]

\* The read: some of what is there; end of file or a hang-up closes, even with
\* data left.
PollRead(p) ==
    LET r == pl.proc[p]
        in == Incoming(pl, p)
        space == RxCap - Len(r.rx)
        took(k) == ProcessRx([pl EXCEPT !.proc[p].rx = @ \o SubSeq(in, 1, k),
                                        !.conn[r.fd].to[p] = SubSeq(@, k + 1, Len(@))], p)
        after(s) == [IF PeerGone(pl, p) THEN Disconnect(s, p) ELSE s EXCEPT !.proc[p].pc = "idle"]
    IN /\ r.pc = "vread"
       /\ IF r.fd = 0 THEN pl' = [pl EXCEPT !.proc[p].pc = "idle"]
          ELSE IF in = <<>> \/ space = 0 THEN pl' = after(pl)
          ELSE \E k \in 1..space : k <= Len(in) /\ pl' = after(took(k))

\* vnet_peers_tx: accept on the way, then write or stash; what does not fit is
\* dropped.
PeersTx(p) ==
    LET f == <<p, pl.n + 1>>
        done(s) == [s EXCEPT !.n = @ + 1]
        stash(s) == IF Len(s.proc[p].pend) < PendCap THEN [s EXCEPT !.proc[p].pend = Append(@, f)] ELSE s
        send(s) == IF PeerGone(s, p) THEN WriteError(s, p) ELSE PeerWrite(s, p, Units(f))
    IN /\ pl.proto = "vnet" /\ pl.proc[p].pc = "idle" /\ pl.n < MaxFrames
       /\ LET s == Accepted(pl, p)
          IN pl' = done(IF s.proc[p].fd = 0 THEN stash(s) ELSE send(s))

\* vnet_cleanup: close, and unlink the path if its file was made here.
VnetCleanup(s, p) ==
    LET end == EndProcess(s, p)
    IN IF s.proc[p].lfd # "none" /\ s.proc[p].owns THEN [end EXCEPT !.file = "none"] ELSE end

-----------------------------------------------------------------------------
\* wire.c.

\* wire_attach_peer.
AttachPeer(s, p) == [s EXCEPT !.proc[p].rx = <<>>, !.proc[p].tx = <<>>]

\* wire_init: connect, or make the path anew and listen on it.
InitConnect(p) ==
    /\ pl.proc[p].pc = "wconnect" /\ CanConnect(pl)
    /\ pl' = IF Reachable(pl) THEN [AttachPeer(Connected(pl, p), p) EXCEPT !.proc[p].pc = "idle"]
             ELSE [pl EXCEPT !.proc[p].pc = "wunlink"]

\* create_listen: unlink, bind (a failure ends the program), listen.
ListenUnlink(p) ==
    /\ pl.proc[p].pc = "wunlink"
    /\ pl' = [pl EXCEPT !.file = "none", !.proc[p].pc = "wbind"]

ListenBind(p) ==
    /\ pl.proc[p].pc = "wbind"
    /\ pl' = IF pl.file # "none" THEN EndProcess(pl, p)
             ELSE [pl EXCEPT !.file = p, !.proc[p].lfd = "bound", !.proc[p].pc = "wlisten"]

ListenListen(p) ==
    /\ pl.proc[p].pc = "wlisten"
    /\ pl' = [pl EXCEPT !.proc[p].lfd = "listen", !.proc[p].pc = "idle"]

\* wire_flush_tx: what fits goes, the rest moves to the front.
FlushTx(s, p) ==
    LET tx == s.proc[p].tx
    IN IF tx = <<>> THEN s
       ELSE IF PeerGone(s, p) THEN Disconnect(s, p)
       ELSE [Written(s, p, tx) EXCEPT !.proc[p].tx = SubSeq(tx, Fitting(s, p, tx) + 1, Len(tx))]

\* wire_poll: a client that lost its peer tries again, a server accepts.
WirePoll(p) ==
    LET r == pl.proc[p]
    IN /\ pl.proto = "wire" /\ r.pc = "idle"
       /\ IF r.fd # 0 THEN pl' = [pl EXCEPT !.proc[p].pc = "wio"]
          ELSE IF IF r.lfd = "none" THEN ~Reachable(pl) ELSE r.queue = <<>> THEN UNCHANGED pl
          ELSE IF r.lfd = "none"
          THEN /\ CanConnect(pl)
               /\ pl' = [AttachPeer(Connected(pl, p), p) EXCEPT !.proc[p].pc = "wio"]
          ELSE pl' = [AttachPeer(pl, p) EXCEPT !.proc[p].queue = Tail(@), !.proc[p].fd = Head(r.queue),
                                               !.proc[p].pc = "wio"]

\* Its first poll(2): a hang-up disconnects unread, else pending output goes.
WireIo(p) ==
    /\ pl.proc[p].pc = "wio"
    /\ LET s == IF PeerGone(pl, p) THEN Disconnect(pl, p) ELSE FlushTx(pl, p)
       IN pl' = [s EXCEPT !.proc[p].pc = IF s.proc[p].fd = 0 THEN "idle" ELSE "wread"]

\* Its read loop; a buffer still full after processing disconnects.
WireRead(p) ==
    LET r == pl.proc[p]
        in == Incoming(pl, p)
        took(k) == WireProcessRx([pl EXCEPT !.proc[p].rx = @ \o SubSeq(in, 1, k),
                                            !.conn[r.fd].to[p] = SubSeq(@, k + 1, Len(@))], p)
        checked(s) == IF Len(s.proc[p].rx) = RxCap THEN Disconnect(s, p) ELSE s
    IN /\ r.pc = "wread"
       /\ IF in # <<>> THEN \E k \in 1..(RxCap - Len(r.rx)) : k <= Len(in) /\ pl' = checked(took(k))
          ELSE pl' = [IF PeerGone(pl, p) THEN Disconnect(pl, p) ELSE pl EXCEPT !.proc[p].pc = "idle"]

\* wire_send_uart, wire_send_gpio, wire_send_eth_frame over wire_send: flush,
\* buffer the frame if it fits, flush.
WireSend(p) ==
    LET s == FlushTx(pl, p)
        f == <<p, pl.n + 1>>
        full == Len(s.proc[p].tx) + 2 > TxCap
    IN /\ pl.proto = "wire" /\ pl.proc[p].pc = "idle" /\ pl.proc[p].fd # 0 /\ pl.n < MaxFrames
       /\ pl' = [IF s.proc[p].fd = 0 \/ full THEN s
                 ELSE FlushTx([s EXCEPT !.proc[p].tx = @ \o Units(f)], p) EXCEPT !.n = @ + 1]

\* wire_cleanup: whoever listens unlinks the path.
WireCleanup(s, p) ==
    IF s.proc[p].lfd = "none" THEN EndProcess(s, p) ELSE [EndProcess(s, p) EXCEPT !.file = "none"]

-----------------------------------------------------------------------------
\* The processes.

Start(p) ==
    /\ pl.proc[p].pc = "down"
    /\ pl' = [pl EXCEPT !.proc[p].pc = IF pl.proto = "vnet" THEN "idle" ELSE "wconnect"]

\* main returns: both cleanups run between two polls.
Exit(p) ==
    /\ pl.proc[p].pc = "idle" /\ pl.stops < MaxStops
    /\ pl' = [IF pl.proto = "vnet" THEN VnetCleanup(pl, p) ELSE WireCleanup(pl, p) EXCEPT !.stops = @ + 1]

Kill(p) ==
    /\ pl.proc[p].pc # "down" /\ pl.stops < MaxStops
    /\ pl' = [EndProcess(pl, p) EXCEPT !.stops = @ + 1]

Next ==
    \E p \in Procs :
        \/ MaintainConnect(p) \/ MaintainBind(p) \/ MaintainListen(p) \/ MaintainUnlink(p)
        \/ PollPeers(p) \/ PollAccept(p) \/ PollRead(p) \/ PeersTx(p)
        \/ InitConnect(p) \/ ListenUnlink(p) \/ ListenBind(p) \/ ListenListen(p)
        \/ WirePoll(p) \/ WireIo(p) \/ WireRead(p) \/ WireSend(p)
        \/ Start(p) \/ Exit(p) \/ Kill(p)

Spec == Init /\ [][Next]_pl

-----------------------------------------------------------------------------
\* Whatever the two processes do to the path and whichever connections come
\* and go, a process takes only whole frames, only the other's, each at most
\* once and in the order they were sent: the receive buffer is cut at every
\* new connection, the backlog forgets what it wrote and a partial write of the
\* wire protocol resumes where it stopped (peer_process_rx, vnet_peer_flush,
\* wire_flush_tx, wire_reset_buffers).  The virtual network does so until a full
\* socket stops a write: behind an unfinished frame a stream is torn, and a
\* backlog kept behind a connection is out of order on the next.
StreamsWhole == FALSE \notin pl.torn \cup pl.stale

\* Refuted.  vnet.c:251, "single-buffer atomic write": write(2) may take part of
\* the buffer, the rest of the frame is dropped at EAGAIN and the next frame
\* follows the part.
FramesAtomic == pl.torn = {}

\* Refuted.  vnet.c:233, "Flush pre-accept backlog in order": later frames pass
\* what a full socket kept in the backlog.
BacklogInOrder == pl.stale = {}

\* "Do NOT unlink first -- that would steal a live peer's socket file and
\* split-brain" (vnet_peer_maintain): the path of a process that listens leads
\* to it.
FileNotStolen == \A p \in Procs : pl.proc[p].lfd # "none" => pl.file = p
=============================================================================
