-------------------------------- MODULE Pio --------------------------------
(***************************************************************************)
(* One block of src/pio.c with two of its state machines, the firmware     *)
(* that feeds and drains their FIFOs, and the block's interrupt.  Blocks   *)
(* share only pins and the third signals the interrupts of the second      *)
(* (pio_check_irq), so one is modelled.                                    *)
(*                                                                         *)
(* Words have Width bits.  An instruction is a record of its fields, with  *)
(* its side-set value and its delay; a setup is the pair of programs with  *)
(* their shift and clock configuration.  Executing a word of data as an    *)
(* instruction (OUT EXEC, MOV EXEC) and the CYW43 and W6300 bridges on the *)
(* FIFO registers are left to Cyw43Spi and EthFrames.  History: wrote the  *)
(* words accepted by the sender's TX FIFO, read the words firmware took,   *)
(* over an automatic push that found the FIFO full.                        *)
(***************************************************************************)
EXTENDS Naturals, Sequences, TLC

CONSTANTS
    Width,      \* 32
    CountMod,   \* range of osr_count, a uint8_t
    Depth,      \* PIO_FIFO_DEPTH
    Unit,       \* 1.0 of the clock divider, 256
    Sends,      \* the words firmware sends
    Forced,     \* instructions firmware forces besides the initial jump
    MaxWords    \* words sent in a behaviour

VARIABLE p

SMs == {0, 1}
NoInstr == [op |-> "none"]

-----------------------------------------------------------------------------
\* Programs of the firmware (external): a serial link with a side-set clock, an
\* echo bit by bit and one by moves, a parallel link with a flag as handshake, and
\* one that waits for firmware to answer its flag.

I(op) == [op |-> op, side |-> "keep", delay |-> 0]
JumpToStart == I("jmp") @@ [cond |-> "always", addr |-> 0]
PullWait == I("pull") @@ [block |-> TRUE, ife |-> FALSE]
PushWait(ife) == I("push") @@ [block |-> TRUE, ife |-> ife]
WaitFor(src, pol) == I("wait") @@ [src |-> src, pol |-> pol, idx |-> 1]
Raise(wait) == I("irq") @@ [clr |-> FALSE, wait |-> wait, rel |-> TRUE, idx |-> 1]
InN(src, n) == I("in") @@ [src |-> src, n |-> n]
OutN(dst, n) == I("out") @@ [dst |-> dst, n |-> n]
Move(dst, mod, src) == I("mov") @@ [dst |-> dst, mod |-> mod, src |-> src]

SerialOut == <<[OutN("pins", 1) EXCEPT !.side = "low", !.delay = 1],
               [Move("y", "none", "y") EXCEPT !.side = "high", !.delay = 1]>>
SerialIn == <<WaitFor("pin", TRUE), InN("pins", 1), WaitFor("pin", FALSE)>>
BitEcho == <<PullWait, I("set") @@ [dst |-> "x", data |-> Width - 1], OutN("y", 1), InN("y", 1),
             I("jmp") @@ [cond |-> "x--", addr |-> 2], PushWait(TRUE)>>
MoveEcho == <<PullWait, Move("isr", "invert", "osr"), Move("x", "reverse", "isr"),
              Move("y", "invert", "x"), Move("isr", "reverse", "y"), PushWait(FALSE)>>
ParallelOut == <<PullWait, OutN("pins", Width), Raise(FALSE), WaitFor("irq", FALSE)>>
ParallelIn == <<WaitFor("irq", TRUE), InN("pins", Width), PushWait(FALSE)>>
Asking == <<PullWait, Raise(TRUE)>>
Idle == <<JumpToStart>>

\* from and to: the state machines firmware writes to and reads from; answers:
\* firmware clears the flag.
Pair(a, b, from, to) ==
    [prog |-> <<a, b>>, from |-> from, to |-> to, right |-> TRUE, auto |-> FALSE,
     div |-> Unit, answers |-> FALSE]
Setups == {[Pair(SerialOut, SerialIn, 0, 1) EXCEPT !.auto = TRUE],
           [Pair(SerialIn, SerialOut, 1, 0) EXCEPT !.auto = TRUE, !.right = FALSE,
                                                   !.div = Unit + 1],
           Pair(BitEcho, Idle, 0, 0),
           [Pair(Idle, MoveEcho, 1, 1) EXCEPT !.right = FALSE],
           [Pair(ParallelOut, ParallelIn, 0, 1) EXCEPT !.div = Unit + 1],
           [Pair(Asking, Idle, 0, 0) EXCEPT !.answers = TRUE]}

-----------------------------------------------------------------------------

Fresh == [pc |-> 0, x |-> 0, y |-> 0, isr |-> 0, osr |-> 0, isrc |-> 0, osrc |-> 0,
          stalled |-> FALSE, exec |-> NoInstr, delay |-> 0, acc |-> 0, tx |-> <<>>, rx |-> <<>>]

\* pio_init: osr_count, the bits already shifted out, starts at 0.
Init ==
    \E c \in Setups, masks \in BOOLEAN :
        p = [c |-> c, masks |-> masks, on |-> FALSE, irq |-> {}, pins |-> 0, dirs |-> 0,
             side |-> "low",
             sm |-> [i \in SMs |-> Fresh],
             line |-> FALSE, wrote |-> <<>>, read |-> <<>>, over |-> FALSE]

Full(f) == Len(f) >= Depth

-----------------------------------------------------------------------------
\* Words.

Bit(v, n) == (v \div 2 ^ n) % 2
FromBits(bits) == LET r[n \in 0..Width] == IF n = 0 THEN 0 ELSE r[n - 1] + 2 ^ (n - 1) * bits[n - 1]
                  IN  r[Width]
Or(v, w) == FromBits([n \in 0..Width - 1 |-> IF Bit(v, n) + Bit(w, n) > 0 THEN 1 ELSE 0])
Reversed(v) == FromBits([n \in 0..Width - 1 |-> Bit(v, Width - 1 - n)])

\* A shift by the whole width is undefined in C: builds whose shift masks the
\* count leave the word, others clear it.
Shr(b, v, n) == IF n = Width /\ b.masks THEN v ELSE v \div 2 ^ n
Shl(b, v, n) == IF n = Width /\ b.masks THEN v ELSE (v * 2 ^ n) % 2 ^ Width

-----------------------------------------------------------------------------
\* Interrupts.

\* pio_compute_intr and pio_check_irq, with the receive interrupts enabled.
CheckIrq(b) == [b EXCEPT !.line = @ \/ \E i \in SMs : b.sm[i].rx # <<>>]

-----------------------------------------------------------------------------
\* Instructions.

\* sm_advance_pc, with WRAP_TOP at the last instruction and WRAP_BOTTOM at 0.
Advance(b, i) ==
    [b EXCEPT !.sm[i].pc = IF @ + 1 = Len(b.c.prog[i + 1]) THEN 0 ELSE (@ + 1) % 32]

Stall(b, i) == [b EXCEPT !.sm[i].stalled = TRUE]

\* The one side-set pin is written whether or not the instruction then stalls.
SideSet(b, i, ins) ==
    [b EXCEPT !.side = IF ins.side = "keep" THEN @ ELSE ins.side,
              !.sm[i].delay = ins.delay, !.sm[i].stalled = FALSE]

Dec(v) == (v + 2 ^ Width - 1) % 2 ^ Width

\* The decrementing conditions test before they decrement.
Jmp(b, i, ins) ==
    LET s == b.sm[i]
        take == CASE ins.cond = "always" -> TRUE
                  [] ins.cond = "!x" -> s.x = 0
                  [] ins.cond = "x--" -> s.x # 0
                  [] ins.cond = "!y" -> s.y = 0
                  [] ins.cond = "y--" -> s.y # 0
                  [] ins.cond = "x!=y" -> s.x # s.y
                  [] ins.cond = "pin" -> b.side = "high"
                  [] ins.cond = "!osre" -> s.osrc < Width
        t == [b EXCEPT !.sm[i].x = IF ins.cond = "x--" THEN Dec(@) ELSE @,
                       !.sm[i].y = IF ins.cond = "y--" THEN Dec(@) ELSE @]
    IN  IF take THEN [t EXCEPT !.sm[i].pc = ins.addr] ELSE Advance(t, i)

\* A wait for a raised flag clears it.
Wait(b, i, ins) ==
    LET level == IF ins.src = "irq" THEN ins.idx \in b.irq ELSE b.side = "high"
    IN  IF level # ins.pol THEN Stall(b, i)
        ELSE Advance([b EXCEPT !.irq = IF ins.src = "irq" /\ ins.pol THEN @ \ {ins.idx} ELSE @], i)

\* A source of IN or MOV; STATUS and NULL read as zero.
Source(b, i, src) ==
    CASE src = "pins" -> b.pins
      [] src \in {"x", "y", "isr", "osr"} -> b.sm[i][src]
      [] OTHER -> 0

\* The shift of IN, then the automatic push, which does not stall.
ShiftIn(b, i, ins) ==
    LET s == b.sm[i]
        n == ins.n
        d == Source(b, i, ins.src) % 2 ^ n
        isr == IF b.c.right THEN Or(Shr(b, s.isr, n), d * 2 ^ (Width - n))
               ELSE Or(Shl(b, s.isr, n), d)
        isrc == IF s.isrc + n > Width THEN Width ELSE s.isrc + n
        push == b.c.auto /\ isrc >= Width
    IN  Advance(IF push /\ ~Full(s.rx)
                  THEN [b EXCEPT !.sm[i] = [@ EXCEPT !.isr = 0, !.isrc = 0, !.rx = Append(@, isr)]]
                  ELSE [b EXCEPT !.sm[i] = [@ EXCEPT !.isr = isr, !.isrc = isrc],
                                 !.over = @ \/ push],
                i)

\* A destination of OUT, MOV or SET; NULL discards.
Store(b, i, dst, v) ==
    CASE dst = "pins" -> [b EXCEPT !.pins = v]
      [] dst = "pindirs" -> [b EXCEPT !.dirs = v]
      [] dst \in {"x", "y", "isr", "osr"} -> [b EXCEPT !.sm[i][dst] = v]
      [] OTHER -> b

\* The automatic pull of OUT stalls on an empty FIFO; the count is not capped.
ShiftOut(b, i, ins) ==
    LET n == ins.n
        pull == b.c.auto /\ b.sm[i].osrc >= Width
        s == IF pull /\ b.sm[i].tx # <<>>
               THEN [b.sm[i] EXCEPT !.osr = Head(b.sm[i].tx), !.osrc = 0, !.tx = Tail(@)]
               ELSE b.sm[i]
        d == IF b.c.right THEN s.osr % 2 ^ n ELSE s.osr \div 2 ^ (Width - n)
        osr == IF b.c.right THEN Shr(b, s.osr, n) ELSE Shl(b, s.osr, n)
        t == [b EXCEPT !.sm[i] = [s EXCEPT !.osr = osr, !.osrc = (@ + n) % CountMod]]
    IN  IF pull /\ b.sm[i].tx = <<>> THEN Stall(b, i)
        ELSE CASE ins.dst = "pc" -> [t EXCEPT !.sm[i].pc = d % 32]
               [] ins.dst = "isr" -> Advance([t EXCEPT !.sm[i].isr = d, !.sm[i].isrc = n], i)
               [] OTHER -> Advance(Store(t, i, ins.dst, d), i)

\* Variant: a blocking pull from an empty FIFO copies X as well.
PullUnblocked(b, i, ins) ==
    LET s == b.sm[i]
    IN  IF ins.ife /\ s.osrc < Width THEN Advance(b, i)
        ELSE Advance([b EXCEPT !.sm[i] = [@ EXCEPT !.osr = Head(s.tx \o <<s.x>>), !.osrc = 0,
                                                   !.tx = IF @ = <<>> THEN @ ELSE Tail(@)]], i)

\* PULL: a non-blocking pull from an empty FIFO copies X.
Pull(b, i, ins) ==
    LET s == b.sm[i]
    IN  IF ins.ife /\ s.osrc < Width THEN Advance(b, i)
        ELSE IF s.tx # <<>>
          THEN Advance([b EXCEPT !.sm[i] = [@ EXCEPT !.osr = Head(s.tx), !.osrc = 0,
                                                     !.tx = Tail(s.tx)]], i)
        ELSE IF ins.block THEN Stall(b, i)
        ELSE Advance([b EXCEPT !.sm[i] = [@ EXCEPT !.osr = s.x, !.osrc = 0]], i)

\* PUSH: a blocking push waits for space, another loses the word.
Push(b, i, ins) ==
    LET s == b.sm[i]
    IN  IF ins.ife /\ s.isrc < Width THEN Advance(b, i)
        ELSE IF ~Full(s.rx)
          THEN Advance([b EXCEPT !.sm[i] = [@ EXCEPT !.isr = 0, !.isrc = 0,
                                                     !.rx = Append(@, s.isr)]], i)
        ELSE IF ins.block THEN Stall(b, i)
        ELSE Advance(b, i)

Mov(b, i, ins) ==
    LET v == Source(b, i, ins.src)
        w == CASE ins.mod = "invert" -> 2 ^ Width - 1 - v
               [] ins.mod = "reverse" -> Reversed(v)
               [] OTHER -> v
    IN  IF ins.dst = "pc" THEN [b EXCEPT !.sm[i].pc = w % 32]
        ELSE Advance(Store(b, i, ins.dst, w), i)

\* IRQ: with the wait bit the instruction raises the flag and stalls, and is
\* executed again from the start.
Irq(b, i, ins) ==
    LET n == IF ins.rel THEN (ins.idx + i) % 4 ELSE ins.idx
    IN  IF ins.clr THEN Advance([b EXCEPT !.irq = @ \ {n}], i)
        ELSE IF ins.wait THEN Stall([b EXCEPT !.irq = @ \cup {n}], i)
        ELSE Advance([b EXCEPT !.irq = @ \cup {n}], i)

SetReg(b, i, ins) == Advance(Store(b, i, ins.dst, ins.data), i)

\* pio_sm_exec.
Exec(b, i, ins) ==
    LET t == SideSet(b, i, ins)
    IN  CASE ins.op = "jmp" -> Jmp(t, i, ins)
          [] ins.op = "wait" -> Wait(t, i, ins)
          [] ins.op = "in" -> ShiftIn(t, i, ins)
          [] ins.op = "out" -> ShiftOut(t, i, ins)
          [] ins.op = "pull" -> Pull(t, i, ins)
          [] ins.op = "push" -> Push(t, i, ins)
          [] ins.op = "mov" -> Mov(t, i, ins)
          [] ins.op = "irq" -> Irq(t, i, ins)
          [] ins.op = "set" -> SetReg(t, i, ins)

-----------------------------------------------------------------------------
\* Stepping.

Instr(b, i) == b.c.prog[i + 1][b.sm[i].pc + 1]

\* One turn of a state machine in pio_step: a forced instruction first, whatever
\* the clock divider says; then the divider, a stalled instruction, the delay.
TurnSm(b, i) ==
    LET s == b.sm[i]
        acc == IF b.c.div = Unit THEN s.acc ELSE s.acc + Unit
        t == [b EXCEPT !.sm[i].acc = IF b.c.div = Unit THEN @ ELSE acc - b.c.div]
    IN  IF s.exec # NoInstr THEN Exec([b EXCEPT !.sm[i].exec = NoInstr], i, s.exec)
        ELSE IF b.c.div # Unit /\ acc < b.c.div THEN [b EXCEPT !.sm[i].acc = acc]
        ELSE IF ~s.stalled /\ s.delay > 0 THEN [t EXCEPT !.sm[i].delay = @ - 1]
        ELSE Exec(t, i, Instr(t, i))

\* pio_step: every enabled state machine in the order of the numbers.
Step(b) == CheckIrq(TurnSm(TurnSm(b, 0), 1))

PioStep == p.on /\ Step(p) # p /\ p' = Step(p)

-----------------------------------------------------------------------------
\* Register writes and reads of the firmware.

\* TXF, when FSTAT says there is space.
WriteTx ==
    \E w \in Sends :
        /\ ~Full(p.sm[p.c.from].tx) /\ Len(p.wrote) < MaxWords
        /\ p' = CheckIrq([p EXCEPT !.sm[p.c.from].tx = Append(@, w), !.wrote = Append(@, w)])

\* The interrupt handler takes one word from RXF.
Serve ==
    /\ p.line
    /\ LET f == p.sm[p.c.to].rx
           t == [p EXCEPT !.line = FALSE]
       IN  p' = IF f = <<>> THEN t
                ELSE [t EXCEPT !.sm[p.c.to].rx = Tail(f), !.read = Append(@, Head(f))]

\* SM_INSTR before the start (pio_sm_init): kept until the state machine runs; a
\* second write replaces it.
Force ==
    \E i \in SMs, ins \in {JumpToStart} \cup Forced :
        /\ ~p.on
        /\ \A j \in SMs : [p.sm[j] EXCEPT !.exec = NoInstr, !.tx = <<>>, !.delay = 0] = Fresh
        /\ p' = CheckIrq([p EXCEPT !.sm[i].exec = ins])

\* CTRL: both enabled or disabled together.
Enable == p' = CheckIrq([p EXCEPT !.on = ~@])

\* CTRL with SM_RESTART for both, and the flag cleared through PIO_IRQ; firmware
\* does not restart the serial link in the middle of a bit.
Restart ==
    /\ ~p.on /\ ~p.c.auto
    /\ p' = CheckIrq([p EXCEPT !.sm = [i \in SMs |-> [Fresh EXCEPT !.delay = p.sm[i].delay]],
                               !.irq = {}, !.wrote = <<>>, !.read = <<>>, !.over = FALSE])

\* PIO_IRQ, write one to clear.
ClearIrq == p.c.answers /\ p.irq # {} /\ p' = CheckIrq([p EXCEPT !.irq = {}])

Next == PioStep \/ WriteTx \/ Serve \/ Force \/ Enable \/ Restart \/ ClearIrq

Spec == Init /\ [][Next]_p

-----------------------------------------------------------------------------

\* The words firmware sent; an OSR that is pulled automatically goes out once
\* before the first of them.
Sent == IF p.c.auto THEN <<0>> \o p.wrote ELSE p.wrote

\* What firmware has read and what waits in the FIFO are the words it sent, in
\* order, through shift registers in either direction, pins, side-set clock,
\* delays and stalls, as long as no automatic push met a full FIFO.
WordsExact ==
    LET got == p.read \o p.sm[p.c.to].rx
    IN  p.over \/ /\ Len(got) <= Len(Sent)
                  /\ got = SubSeq(Sent, 1, Len(got))

\* Both state machines are stalled for good (a divider below two lets each run at
\* least once in two turns).
Still(b) == [b EXCEPT !.sm = [i \in SMs |-> [b.sm[i] EXCEPT !.acc = 0]]]
Quiet == p.on /\ ~p.line /\ Still(Step(Step(p))) = Still(p)

\* When no state machine can go on and no interrupt waits, every word has been
\* read: the FIFOs, the flags and the level interrupt of pio_check_irq leave
\* nothing behind.
NothingLeft == Quiet /\ ~p.over /\ ~p.c.answers => p.read = Sent

PioHonest == WordsExact /\ NothingLeft

\* A state machine that waits in IRQ WAIT goes on once the flag is cleared
\* (src/pio.c:518, "Wait for IRQ to be cleared").
IrqWaitEnds ==
    \A i \in SMs :
        /\ p.on /\ p.sm[i].stalled /\ p.irq = {} /\ p.sm[i].exec = NoInstr
        /\ Instr(p, i).op = "irq"
        => ~TurnSm(p, i).sm[i].stalled

\* A forced instruction that is no jump leaves the program where it was.
ForcedTransparent ==
    \A i \in SMs :
        p.on /\ p.sm[i].exec # NoInstr /\ p.sm[i].exec.op # "jmp"
        => TurnSm(p, i).sm[i].pc = p.sm[i].pc

\* The first word firmware reads is the first it sent (include/pio.h calls
\* osr_count "Bits remaining in OSR", and none remain at the start).
StartsEmpty == p.read # <<>> /\ ~p.over => p.wrote # <<>> /\ p.read[1] = p.wrote[1]

=============================================================================
