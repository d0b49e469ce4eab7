------------------------------ MODULE EthSockets ------------------------------
(***************************************************************************)
(* The command and status side of one WIZnet socket (W5500 or W6300) and   *)
(* the host sockets behind it in live mode: OPEN, LISTEN, CONNECT, DISCON, *)
(* CLOSE, SEND and SEND_KEEP from the guest, poll() from the main loop,    *)
(* the RSTn pulse, the soft reset and board detach, against a host kernel  *)
(* whose connects, peers and descriptors change state on their own.        *)
(*                                                                         *)
(* A host descriptor is a number in FdIds with a kernel state; 0 is the    *)
(* code's -1.  The data that moves is in EthRx and EthTx.                  *)
(***************************************************************************)
EXTENDS Naturals, FiniteSets

CONSTANTS
    Chips,        \* subset of {"w5500", "w6300"}
    MaxFd,        \* descriptors the host grants
    RetryBudget,  \* poll ticks a SYNSENT socket gets: attempts times ticks each
    KeepPeriod    \* poll ticks between keep-alive probes

ASSUME SocketsAssumption == MaxFd \in Nat /\ "off" \notin Chips

VARIABLE es

FdIds == 1..MaxFd

Tcp(m) == m \in {"tcp", "tcp6", "tcpd"}
Udp(m) == m \in {"udp", "udpd"}
V6(m) == m = "tcp6"
Dual(m) == m \in {"tcpd", "udpd"}

Modes(chip) ==
    IF chip = "w5500" THEN {"tcp", "udp", "macraw"}
    ELSE {"tcp", "tcp6", "tcpd", "udp", "udpd", "ipraw", "macraw", "closed"}

\* The registers and fields of a socket after w5500_init or w6300_init.
ClearedSock(e) ==
    [e EXCEPT !.mode = "closed", !.sr = "CLOSED", !.ir = {}, !.host = 0, !.lis = 0,
              !.retry = 0, !.keep = 0]

SocketsInit ==
    es = [chip |-> "off", live |-> FALSE, rst |-> FALSE, mode |-> "closed",
          sr |-> "CLOSED", ir |-> {}, host |-> 0, lis |-> 0, retry |-> 0, keep |-> 0,
          fd |-> [i \in FdIds |-> [st |-> "none", v6 |-> FALSE]]]

-----------------------------------------------------------------------------
(* The host's descriptors.                                                 *)

Held(e) == {e.host, e.lis} \ {0}
Usable(e) == {i \in FdIds : e.fd[i].st = "none"}

SetFd(e, i, st) == [e EXCEPT !.fd[i].st = st]

\* close(2) of what the socket holds in the given slots.
CloseFds(e, ids) ==
    [e EXCEPT !.fd = [i \in FdIds |->
                        IF i \in ids THEN [st |-> "none", v6 |-> FALSE] ELSE e.fd[i]],
              !.host = IF e.host \in ids THEN 0 ELSE e.host,
              !.lis = IF e.lis \in ids THEN 0 ELSE e.lis]

\* w5500_close_host_sock, w6300_close_host_sock.
CloseHostSock(e) == CloseFds(e, Held(e))

\* socket(2): the lowest free descriptor, or -1 when the host has none.
Socket(e, kind, v6) ==
    IF Usable(e) = {} THEN [e EXCEPT !.host = 0]
    ELSE LET i == CHOOSE i \in Usable(e) : \A j \in Usable(e) : i <= j
         IN  [e EXCEPT !.host = i, !.fd[i] = [st |-> kind, v6 |-> v6]]

\* w6300_sock_recreate to AF_INET6.
Recreate(e, kind) == Socket(CloseFds(e, {e.host} \ {0}), kind, TRUE)

HostV6(e) ==
    IF e.host # 0 THEN e.fd[e.host].v6
    ELSE IF e.lis # 0 THEN e.fd[e.lis].v6 ELSE FALSE

RaiseIr(e, bits) == [e EXCEPT !.ir = @ \cup bits]

-----------------------------------------------------------------------------
(* The commands; SR is the status register.                                *)

\* A fresh host socket for OPEN, when live.
FreshSock(e, st, kind) ==
    LET s == [e EXCEPT !.sr = st, !.retry = 0, !.keep = 0]
    IN  IF e.live THEN Socket(CloseHostSock(s), kind, V6(e.mode)) ELSE s

\* CMD_OPEN of the W5500.
W5500Open(e) ==
    CASE e.mode = "tcp"    -> FreshSock(e, "INIT", "fresh")
      [] e.mode = "udp"    -> FreshSock(e, "UDP", "dgram")
      [] e.mode = "macraw" -> [e EXCEPT !.sr = "MACRAW"]

\* CMD_OPEN of the W6300; granted says whether the host allows a raw socket.
W6300Open(e, granted) ==
    CASE Tcp(e.mode) -> FreshSock(e, "INIT", "fresh")
      [] Udp(e.mode) -> FreshSock(e, "UDP", "dgram")
      [] e.mode = "ipraw" ->
            IF e.live /\ ~granted
              THEN [CloseHostSock(e) EXCEPT !.sr = "IPRAW", !.retry = 0, !.keep = 0]
              ELSE FreshSock(e, "IPRAW", "dgram")
      [] e.mode = "macraw" -> [e EXCEPT !.sr = "MACRAW", !.retry = 0, !.keep = 0]
      [] OTHER -> [e EXCEPT !.sr = "CLOSED", !.retry = 0, !.keep = 0]

CmdOpen(e, m, granted) ==
    IF e.chip = "w5500" THEN W5500Open([e EXCEPT !.mode = m])
                        ELSE W6300Open([e EXCEPT !.mode = m], granted)

\* bind and listen on the socket's descriptor, which then moves to the
\* listen slot; without a bind it stays where it is.
Bind(e, bound) ==
    IF e.host = 0 \/ ~bound THEN e
    ELSE [SetFd(e, e.host, "listening") EXCEPT !.lis = e.host, !.host = 0]

\* CMD_LISTEN of the W5500: the status changes whatever bind says.
W5500Listen(e, bound) ==
    IF e.sr # "INIT" THEN e
    ELSE IF e.live THEN Bind([e EXCEPT !.sr = "LISTEN"], bound)
    ELSE [e EXCEPT !.sr = "LISTEN"]

\* CMD_LISTEN of the W6300: an IPv6 listener needs an IPv6 descriptor.
W6300Listen(e, d6, bound) ==
    LET want6 == V6(e.mode) \/ (Dual(e.mode) /\ Tcp(e.mode) /\ d6)
        s == [e EXCEPT !.sr = "LISTEN"]
    IN  IF e.sr # "INIT" THEN e
        ELSE IF ~e.live \/ e.host = 0 THEN s
        ELSE Bind(IF want6 /\ ~HostV6(s) THEN Recreate(s, "fresh") ELSE s, bound)

\* connect(2) on the socket's descriptor.
Dial(e, rc) ==
    CASE rc = "ok"       -> [SetFd(e, e.host, "connected") EXCEPT !.sr = "ESTABLISHED"]
      [] rc = "progress" -> [SetFd(e, e.host, "connecting") EXCEPT !.sr = "SYNSENT"]
      [] rc = "fail"     -> [e EXCEPT !.sr = "CLOSED"]

\* CMD_CONNECT of the W5500.
W5500Connect(e, rc) ==
    IF e.sr # "INIT" THEN e
    ELSE IF ~e.live \/ e.host = 0 THEN [e EXCEPT !.sr = "ESTABLISHED"]
    ELSE Dial(e, rc)

\* CMD_CONNECT and CMD_CONNECT6 of the W6300; d6 is a nonzero DIP6R.
W6300Connect(e, cmd6, d6, rc) ==
    LET want6 == cmd6 \/ (V6(e.mode) /\ ~Dual(e.mode)) \/ (Dual(e.mode) /\ d6)
        s == [e EXCEPT !.retry = 0]
        u == IF want6 /\ Dual(e.mode) /\ ~HostV6(s) THEN Recreate(s, "fresh") ELSE s
        refuse(x) == RaiseIr([x EXCEPT !.sr = "CLOSED"], {"TIMEOUT"})
    IN  IF e.sr # "INIT" THEN e
        ELSE IF ~e.live \/ e.host = 0 THEN [s EXCEPT !.sr = "ESTABLISHED"]
        ELSE IF u.host = 0 THEN refuse(u)
        ELSE IF want6 /\ ~u.fd[u.host].v6 THEN refuse(u)
        ELSE Dial(u, rc)

\* CMD_DISCON (W6300).
CmdDiscon(e) ==
    LET s == [e EXCEPT !.sr = "CLOSED", !.retry = 0, !.keep = 0]
    IN  IF e.sr # "ESTABLISHED" THEN e
        ELSE RaiseIr(IF e.live THEN CloseHostSock(s) ELSE s, {"DISCON"})

\* CMD_CLOSE.
CmdClose(e) ==
    LET s == [e EXCEPT !.sr = "CLOSED", !.retry = 0, !.keep = 0]
    IN  IF e.live THEN CloseHostSock(s) ELSE s

\* CMD_SEND of the W5500: from any status, and always SEND_OK.
W5500Send(e) == RaiseIr(e, {"SENDOK"})

\* CMD_SEND, SEND_MAC, SEND6 of a non-empty window; sent is sendto's result.
\* A MACRAW socket's frame is EthTx's.
W6300Send(e, cmd6, d6, sent) ==
    LET is6 == cmd6 \/ (V6(e.mode) /\ ~Dual(e.mode)) \/ (Dual(e.mode) /\ d6)
        hostable == e.live /\ e.host # 0
        u == IF hostable /\ is6 /\ Udp(e.mode) /\ Dual(e.mode) /\ ~HostV6(e)
               THEN Recreate(e, "dgram") ELSE e
        wrong == hostable /\ is6 /\ (u.host = 0 \/ ~u.fd[u.host].v6)
        lost == e.mode = "ipraw" /\ (~hostable \/ ~sent)
    IN  IF e.sr \notin {"ESTABLISHED", "UDP", "IPRAW", "MACRAW"} THEN RaiseIr(e, {"TIMEOUT"})
        ELSE IF wrong \/ (lost /\ ~hostable) THEN RaiseIr(u, {"TIMEOUT"})
        ELSE RaiseIr([u EXCEPT !.keep = 0],
                   IF lost THEN {"TIMEOUT", "SENDOK"} ELSE {"SENDOK"})

\* CMD_SEND_KEEP (W6300).
CmdSendKeep(e) ==
    IF e.sr # "ESTABLISHED" THEN RaiseIr(e, {"TIMEOUT"})
    ELSE RaiseIr([e EXCEPT !.keep = 0], {"SENDOK"})

-----------------------------------------------------------------------------
(* poll(), one pass over the socket.                                       *)

\* Adopt a waiting client; accept needs a descriptor of its own.
PollAccept(e) ==
    IF e.lis = 0 \/ e.sr # "LISTEN" \/ e.fd[e.lis].st # "waiting" \/ Usable(e) = {} THEN e
    ELSE LET i == CHOOSE i \in Usable(e) : \A j \in Usable(e) : i <= j
             a == [SetFd(e, e.lis, "listening") EXCEPT
                     !.fd[i] = [st |-> "connected", v6 |-> e.fd[e.lis].v6]]
             c == CloseFds(a, {e.host} \ {0})
         IN  RaiseIr([c EXCEPT !.host = i, !.sr = "ESTABLISHED"], {"CON"})

\* w6300_sock_retry_tick; forever is a retry count (Sn_RCR) of 0.
RetryTick(e, forever) ==
    IF e.chip = "w5500" \/ forever THEN e
    ELSE IF e.retry + 1 < RetryBudget THEN [e EXCEPT !.retry = @ + 1]
    ELSE RaiseIr([CloseFds(e, {e.host} \ {0}) EXCEPT !.sr = "CLOSED", !.retry = 0], {"TIMEOUT"})

\* A SYNSENT socket: writable means decided, SO_ERROR says how.
PollConnect(e, forever) ==
    IF e.sr # "SYNSENT" THEN e
    ELSE IF e.host = 0 THEN RetryTick(e, forever)
    ELSE IF e.fd[e.host].st = "connecting" THEN RetryTick(e, forever)
    ELSE IF e.fd[e.host].st = "refused"
      THEN [CloseFds(e, {e.host}) EXCEPT !.sr = "CLOSED", !.retry = 0]
    ELSE RaiseIr([e EXCEPT !.sr = "ESTABLISHED", !.retry = 0], {"CON"})

\* The W6300's automatic keep-alive, unless Sn_KPALVTR is 0.
PollKeepAlive(e, quiet) ==
    IF e.sr # "ESTABLISHED" \/ ~Tcp(e.mode) \/ quiet THEN e
    ELSE IF e.keep + 1 < KeepPeriod THEN [e EXCEPT !.keep = @ + 1]
    ELSE RaiseIr([e EXCEPT !.keep = 0], {"SENDOK"})

\* Data, end of file (an empty datagram too) and errors; nothing is read
\* while the ring is full.
PollData(e, full) ==
    IF e.host = 0 \/ e.sr \notin {"ESTABLISHED", "UDP", "IPRAW"} \/ full THEN e
    ELSE LET st == e.fd[e.host].st
         IN  CASE st = "data"  -> RaiseIr(SetFd(e, e.host, "connected"), {"RECV"})
               [] st = "ddata" -> RaiseIr(SetFd(e, e.host, "dgram"), {"RECV"})
               [] st \in {"eof", "hup", "dempty"} ->
                    RaiseIr([CloseFds(e, {e.host}) EXCEPT !.sr = "CLOSED"], {"DISCON"})
               [] OTHER -> e

\* w5500_poll and w6300_poll, one socket.
W5500Poll(e, full) == PollData(PollConnect(PollAccept(e), TRUE), full)
W6300Poll(e, full, forever, quiet) ==
    PollData(PollKeepAlive(PollConnect(PollAccept(e), forever), quiet), full)

-----------------------------------------------------------------------------

Ready == es.chip # "off" /\ ~es.rst

\* Board attach: w5500_board_attach, w6300_board_attach.
AttachSocket ==
    /\ es.chip = "off"
    /\ \E c \in Chips, live \in BOOLEAN :
          es' = [ClearedSock(es) EXCEPT !.chip = c, !.live = live]

\* w5500_process_socket_cmd.
W5500Cmd ==
    /\ Ready /\ es.chip = "w5500"
    /\ \/ \E m \in Modes("w5500") : es' = CmdOpen(es, m, FALSE)
       \/ \E bound \in BOOLEAN : es' = W5500Listen(es, bound)
       \/ \E rc \in {"ok", "progress", "fail"} : es' = W5500Connect(es, rc)
       \/ es' = CmdClose(es)
       \/ es' = W5500Send(es)

\* w6300_process_socket_cmd.
W6300Cmd ==
    /\ Ready /\ es.chip = "w6300"
    /\ \/ \E m \in Modes("w6300"), granted \in BOOLEAN : es' = CmdOpen(es, m, granted)
       \/ \E d6 \in BOOLEAN, bound \in BOOLEAN : es' = W6300Listen(es, d6, bound)
       \/ \E c6, d6 \in BOOLEAN, rc \in {"ok", "progress", "fail"} :
             es' = W6300Connect(es, c6, d6, rc)
       \/ es' = CmdDiscon(es)
       \/ es' = CmdClose(es)
       \/ \E c6, d6, sent \in BOOLEAN : es' = W6300Send(es, c6, d6, sent)
       \/ es' = CmdSendKeep(es)

\* The guest writes ones to Sn_IR.
AckIr == Ready /\ es.ir # {} /\ es' = [es EXCEPT !.ir = {}]

\* The main loop's board poll.
SocketsPoll ==
    /\ es.chip # "off" /\ es.live
    /\ \E full, forever, quiet \in BOOLEAN :
          es' = IF es.chip = "w5500" THEN W5500Poll(es, full)
                ELSE W6300Poll(es, full, forever, quiet)

\* Connects get decided, clients and data arrive, peers close or vanish.
KernelDecides ==
    \E i \in FdIds : es.fd[i].st = "connecting"
                     /\ \E st \in {"connected", "refused"} : es' = SetFd(es, i, st)

Peer ==
    \E i \in FdIds :
       \/ es.fd[i].st = "listening" /\ es' = SetFd(es, i, "waiting")
       \/ es.fd[i].st = "connected" /\ \E st \in {"data", "eof", "hup"} : es' = SetFd(es, i, st)
       \/ es.fd[i].st = "dgram" /\ \E st \in {"ddata", "dempty"} : es' = SetFd(es, i, st)

\* What init forgets without closing.
Forget(e) ==
    LET f == [i \in FdIds |-> IF i \in Held(e) THEN [e.fd[i] EXCEPT !.st = "lost"] ELSE e.fd[i]]
    IN  [ClearedSock(e) EXCEPT !.fd = f]

\* RSTn falls: the registers clear, the descriptors stay in the struct.
SocketsResetLow ==
    /\ Ready
    /\ es' = [es EXCEPT !.rst = TRUE, !.mode = "closed", !.sr = "CLOSED", !.ir = {}]

\* RSTn rises: init runs, live is kept.
SocketsResetHigh == es.chip # "off" /\ es.rst /\ es' = [Forget(es) EXCEPT !.rst = FALSE]

\* SYCR0.RST on an unlocked W6300.
SocketsSoftReset == Ready /\ es.chip = "w6300" /\ es' = Forget(es)

\* Variant: detach only drops the connection.
DetachPartly == [CloseFds(es, {es.host} \ {0}) EXCEPT !.chip = "off", !.live = FALSE, !.lis = 0]

\* w5500_board_detach, w6300_board_detach.
DetachState == [CloseHostSock(es) EXCEPT !.chip = "off", !.live = FALSE]

Detach == Ready /\ es' = DetachState

SocketsNext ==
    \/ AttachSocket \/ W5500Cmd \/ W6300Cmd \/ AckIr \/ SocketsPoll \/ KernelDecides \/ Peer
    \/ SocketsResetLow \/ SocketsResetHigh \/ SocketsSoftReset \/ Detach

SocketsSpec == SocketsInit /\ [][SocketsNext]_es

-----------------------------------------------------------------------------

\* Open descriptors that no socket holds: init overwrote the slots they were in.
Dropped(e) == {i \in FdIds : e.fd[i].st = "lost"}

\* close_host_sock, recreate, accept and detach: every descriptor the host has
\* open is either held in exactly one slot of the socket or was dropped by an RSTn
\* pulse or a soft reset (ResetCloses), and a slot never names a closed one.
FdsAccounted ==
    /\ {i \in FdIds : es.fd[i].st # "none"} = Held(es) \cup Dropped(es)
    /\ Held(es) \cap Dropped(es) = {}
    /\ es.host # 0 => es.host # es.lis

\* CONNECT, poll's SO_ERROR check and accept: a live TCP socket that reports
\* ESTABLISHED has a connected descriptor.  The one exception is a host that
\* grants no descriptor any more, because resets have dropped them all: CONNECT
\* then reports a connection without one (EstablishedHasHost).
EstablishedConnected ==
    (es.live /\ es.sr = "ESTABLISHED" /\ Tcp(es.mode)) =>
        IF es.host = 0 THEN Dropped(es) = FdIds
        ELSE es.fd[es.host].st \in {"connected", "data", "eof", "hup"}

\* Every open host descriptor is held by the socket or was dropped by a reset; an
\* ESTABLISHED socket has a connected descriptor as long as the host has one to
\* give (the socket commands, poll).
SocketsHonest == FdsAccounted /\ EstablishedConnected

\* w5500_board_gpio_write, w6300_board_gpio_write and SYCR0.RST: a reset closes
\* what the socket held, as CLOSE and detach do.  TLC refutes it.
ResetCloses == Dropped(es) = {}

\* CMD_CONNECT: a live socket reports ESTABLISHED over a host connection only.
\* TLC refutes it.
EstablishedHasHost == es.live /\ es.sr = "ESTABLISHED" => es.host # 0
=============================================================================
