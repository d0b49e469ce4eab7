------------------------------ MODULE Cyw43Spi ------------------------------
(***************************************************************************)
(* The gSPI front of the CYW43 model as the SDK's PIO driver uses it: the  *)
(* state machine restarts, two bit counts are put, then the command word   *)
(* and its data go through the TX FIFO, or the response is taken from the  *)
(* RX FIFO.  The bus registers, the SDIO direct registers, the backplane   *)
(* window and what lies behind it are decoded here.                        *)
(*                                                                         *)
(* A word is four bytes, most significant first.  A command's bytes are    *)
(* its operation, two for the register or offset, and the word count.  The *)
(* driver (external) is the field d: what it is transferring, how far it   *)
(* is, and what the registers must read by the words it has written.       *)
(***************************************************************************)
EXTENDS Naturals, Sequences

CONSTANTS
    Bytes,       \* values of a byte that is written
    MaxWords     \* words of a bulk transfer

VARIABLE sp

PadWords == 4    \* CYW43_BACKPLANE_READ_PAD_LEN_BYTES / 4
Direct == {"low", "mid", "high", "sleepcsr"}
BtRam == <<1, 0, 1>>      \* the window of the Bluetooth RAM
Wrapper == <<0, 1, 1>>    \* the window of the core wrapper registers
Offsets == {"w0", "w1", "w2"}

-----------------------------------------------------------------------------
\* Byte orders.

\* cyw43_bswap32.
Bswap32(w) == <<w[4], w[3], w[2], w[1]>>

\* cyw43_rev16.
Rev16(w) == <<w[2], w[1], w[4], w[3]>>

\* cyw43_decode_txf.
DecodeTxf(w, swap) == IF swap THEN Rev16(Bswap32(w)) ELSE Bswap32(w)

\* cyw43_encode_resp.
EncodeResp(w, swap) == IF swap THEN Bswap32(Rev16(w)) ELSE Bswap32(w)

\* The driver's side of both.
DriverSends(w, swap) == IF swap THEN Bswap32(Rev16(w)) ELSE Bswap32(w)
DriverTakes(w, swap) == IF swap THEN Rev16(Bswap32(w)) ELSE Bswap32(w)

\* A byte is a number or a field of a command.
Num(v) == <<"num", v>>
Field(f) == <<"field", f>>
Word(v) == <<Num(0), Num(0), Num(0), Num(v)>>
Command(op, reg, n) == <<Field(op), Field(reg), Num(0), Num(n)>>

\* A word whose bytes are out of place reads as something else.
Value(w) == IF w[4][1] = "num" THEN w[4][2] ELSE 9

-----------------------------------------------------------------------------
\* Registers.

Fresh == [test |-> 0, ctrl |-> 0, low |-> 0, mid |-> 0, high |-> 0, sleepcsr |-> 3,
          ram |-> [o \in Offsets |-> 0], reset |-> 1]

Window(r) == <<r.low, r.mid, r.high>>

\* cyw43_bus_read.
BusRead(r, reg) ==
    CASE reg = "feedbead" -> 7
      [] reg = "test" -> r.test
      [] reg = "ctrl" -> r.ctrl

\* cyw43_bus_write.
BusWrite(r, reg, v) ==
    CASE reg = "test" -> [r EXCEPT !.test = v]
      [] reg = "ctrl" -> [r EXCEPT !.ctrl = v]
      [] OTHER -> r

\* cyw43_backplane_read: the direct registers, then the window.
BackplaneRead(r, reg) ==
    IF reg \in Direct THEN r[reg]
    ELSE CASE Window(r) = BtRam -> r.ram[reg]
           [] Window(r) = Wrapper /\ reg = "w0" -> r.reset
           [] OTHER -> 0

\* cyw43_backplane_write.
BackplaneWrite(r, reg, v) ==
    IF reg = "sleepcsr" THEN [r EXCEPT !.sleepcsr = (v % 2) + 2]
    ELSE IF reg \in Direct THEN [r EXCEPT ![reg] = v]
    ELSE CASE Window(r) = BtRam -> [r EXCEPT !.ram[reg] = v]
           [] Window(r) = Wrapper /\ reg = "w0" -> [r EXCEPT !.reset = v]
           [] OTHER -> r

\* The next register of a bulk transfer.
After(reg, k) ==
    IF reg = "w0" /\ k = 1 THEN "w1"
    ELSE IF <<reg, k>> \in {<<"w0", 2>>, <<"w1", 1>>} THEN "w2"
    ELSE reg

-----------------------------------------------------------------------------
\* The PIO front.

Init ==
    sp = [regs |-> Fresh, skip |-> 0, phase |-> "idle", op |-> "none", reg |-> "w0", left |-> 0,
          swaps |-> 2, swap |-> FALSE, resp |-> <<>>,
          d |-> [pc |-> "free", op |-> "none", reg |-> "w0", n |-> 0, k |-> 0, v |-> 0,
                 boot |-> 2, want |-> Fresh, wrong |-> FALSE]]

\* Variant: the two bit counts are expected once, at boot.
PioSmRestartOnce(s) ==
    [s EXCEPT !.skip = IF s.swaps = 2 THEN 2 ELSE 0, !.phase = "idle", !.left = 0, !.resp = <<>>]

\* cyw43_pio_sm_restart.
PioSmRestart(s) == [s EXCEPT !.skip = 2, !.phase = "idle", !.left = 0, !.resp = <<>>]

\* The response words of a read.
Response(s, op, reg, n, swap) ==
    IF op = "busread" THEN [i \in 1..n |-> EncodeResp(Word(IF i = 1 THEN BusRead(s.regs, reg)
                                                          ELSE 0), swap)]
    ELSE [i \in 1..(PadWords + n) |->
              EncodeResp(Word(IF i <= PadWords THEN 0
                              ELSE BackplaneRead(s.regs, After(reg, i - PadWords - 1))), swap)]

\* PIO_CYW43_IDLE of cyw43_pio_tx_write: the command.  A word that is none
\* reads a bus register that does not exist.
TxCommand(s, w) ==
    LET swap == s.swaps > 0
        cmd == DecodeTxf(w, swap)
        u == [s EXCEPT !.swap = swap, !.swaps = IF swap THEN @ - 1 ELSE 0]
        t == [u EXCEPT !.op = cmd[1][2], !.reg = cmd[2][2]]
    IN  IF cmd[1] \in {Field("buswrite"), Field("bpwrite")}
        THEN [t EXCEPT !.phase = "write", !.left = IF Value(cmd) = 0 THEN 1 ELSE Value(cmd)]
        ELSE IF cmd[1] \in {Field("busread"), Field("bpread")}
        THEN [t EXCEPT !.phase = "read", !.resp = Response(s, t.op, t.reg, Value(cmd), swap)]
        ELSE [u EXCEPT !.phase = "read", !.resp = <<Word(0)>>]

\* PIO_CYW43_WRITE: one word, then the next address.
TxData(s, w) ==
    LET v == Value(DecodeTxf(w, s.swap))
        r == IF s.op = "buswrite" THEN BusWrite(s.regs, s.reg, v)
             ELSE BackplaneWrite(s.regs, s.reg, v)
    IN  [s EXCEPT !.regs = r, !.reg = After(@, 1), !.left = @ - 1,
                  !.phase = IF s.left = 1 THEN "idle" ELSE @]

\* cyw43_pio_tx_write.
PioTxWrite(s, w) ==
    IF s.skip > 0 THEN [s EXCEPT !.skip = @ - 1]
    ELSE IF s.phase = "write" THEN TxData(s, w)
    ELSE TxCommand([s EXCEPT !.phase = "idle"], w)

\* cyw43_pio_rx_ready and cyw43_pio_rx_read.
PioRxReady(s) == s.phase = "read" /\ s.resp # <<>>
PioRxRead(s) ==
    [s EXCEPT !.resp = Tail(@), !.phase = IF Len(s.resp) = 1 THEN "idle" ELSE @]

-----------------------------------------------------------------------------
\* The driver.

\* What a boot transfer is: read the test pattern, then set the bus control,
\* both in 16-bit swapped words; everything after is plain.
Transfers ==
    IF sp.d.boot = 2 THEN {<<"busread", "feedbead", 1>>}
    ELSE IF sp.d.boot = 1 THEN {<<"buswrite", "ctrl", 1>>}
    ELSE {<<"busread", "test", 1>>, <<"buswrite", "test", 1>>}
         \cup {<<op, reg, 1>> : op \in {"bpread", "bpwrite"}, reg \in Direct}
         \cup {<<op, "w0", n>> : op \in {"bpread", "bpwrite"}, n \in 1..MaxWords}

\* A new transfer; the last one is over, or is given up part-way.
Start ==
    /\ sp.d.pc = "free" \/ sp.d.boot = 0
    /\ \E t \in Transfers : \E v \in IF t[1] = "bpwrite" THEN Bytes ELSE {1} :
           sp' = [PioSmRestart(sp) EXCEPT !.d = [@ EXCEPT !.pc = "x", !.op = t[1], !.reg = t[2],
                                                         !.n = t[3], !.k = 0, !.v = v]]

\* pio_sm_put of the bit counts.
PutCounts ==
    /\ sp.d.pc \in {"x", "y"}
    /\ sp' = [PioTxWrite(sp, Word(1)) EXCEPT !.d.pc = IF sp.d.pc = "x" THEN "y" ELSE "cmd"]

\* The command word.
PutCommand ==
    /\ sp.d.pc = "cmd"
    /\ LET t == PioTxWrite(sp, DriverSends(Command(sp.d.op, sp.d.reg, sp.d.n), sp.d.boot > 0))
       IN  sp' = [t EXCEPT !.d.pc = IF sp.d.op \in {"buswrite", "bpwrite"} THEN "put" ELSE "get"]

\* The transfer is over.
Finish(d) == [d EXCEPT !.pc = "free", !.boot = IF @ > 0 THEN @ - 1 ELSE 0]

\* One word of a write; the driver notes what the register must now read.
PutData ==
    /\ sp.d.pc = "put"
    /\ LET d == sp.d
           reg == After(d.reg, d.k)
           e == [d EXCEPT !.k = @ + 1,
                          !.want = IF d.op = "buswrite" THEN BusWrite(@, reg, d.v)
                                   ELSE BackplaneWrite(@, reg, d.v)]
       IN  sp' = [PioTxWrite(sp, DriverSends(Word(d.v), d.boot > 0))
                     EXCEPT !.d = IF e.k = d.n THEN Finish(e) ELSE e]

\* One word of a response, against what the driver wrote before.
GetData ==
    /\ sp.d.pc = "get" /\ PioRxReady(sp)
    /\ LET d == sp.d
           pad == IF d.op = "bpread" THEN PadWords ELSE 0
           got == Value(DriverTakes(Head(sp.resp), d.boot > 0))
           exp == IF d.op = "busread" THEN BusRead(d.want, d.reg)
                  ELSE BackplaneRead(d.want, After(d.reg, d.k - pad))
           e == [d EXCEPT !.k = @ + 1, !.wrong = @ \/ (d.k >= pad /\ got # exp)]
       IN  sp' = [PioRxRead(sp) EXCEPT !.d = IF e.k = pad + d.n THEN Finish(e) ELSE e]

Next == Start \/ PutCounts \/ PutCommand \/ PutData \/ GetData

Spec == Init /\ [][Next]_sp

-----------------------------------------------------------------------------
\* Every read returns, in the word the driver looks at, what its writes left
\* in the register, through both byte orders, the window and transfers given
\* up part-way; and a read always has the words the driver waits for.
TransfersExact ==
    /\ ~sp.d.wrong
    /\ sp.regs = sp.d.want
    /\ sp.d.pc = "get" => PioRxReady(sp)
=============================================================================
