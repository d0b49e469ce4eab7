-------------------------------- MODULE Dma --------------------------------
(***************************************************************************)
(* The DMA controller (src/dma.c).  A transfer runs to its end inside the  *)
(* register write that triggers it, but its words may themselves go to     *)
(* registers of the controller and trigger other channels on the way:      *)
(* stack holds the calls of dma_do_transfer in progress, the innermost     *)
(* first, and one word is copied at a time.                                *)
(*                                                                         *)
(* Memory is bytes 0..Base-1 below RegBase; a word is two bytes, low byte  *)
(* first.  Channel registers are the words from RegBase on.  The firmware  *)
(* is one of Setups, which give every channel its control fields,          *)
(* addresses and count.  One core runs the interrupt handler while the     *)
(* other goes on triggering.                                               *)
(* History: expect the memory the copies should leave, unseen the channels *)
(* whose end no handler has noticed.                                       *)
(***************************************************************************)
EXTENDS Naturals, Sequences, SequencesExt

CONSTANTS
    Base,        \* values of a byte
    RegBase,     \* DMA_BASE
    MaxStack,    \* calls of dma_do_transfer in progress
    MaxTriggers  \* triggers by the firmware

VARIABLE d

Channels == DOMAIN d.ch
Lines == {0, 1}

\* A channel of a set-up: size 1 or 2, whether addresses advance and bytes are
\* swapped, the channel chained to (itself for none), whether it is quiet.
Channel(size, incrRead, incrWrite, bswap, chain, quiet, read, write, count) ==
    [ctrl |-> [en |-> TRUE, size |-> size, incrRead |-> incrRead, incrWrite |-> incrWrite,
               bswap |-> bswap, chain |-> chain, quiet |-> quiet],
     read |-> read, write |-> write, count |-> count]

\* AL3_TRANS_COUNT of channel 1, followed by AL3_READ_ADDR_TRIG.
Block1 == RegBase + 60

\* A swapped copy chained to a quiet fill that chains back; bytes to one address
\* chained from a copy of words; a control block for channel 1, which ends there
\* or chains back for the next block.  The block is at 8: one word from 2.
Setups ==
    {<<Channel(2, TRUE, TRUE, TRUE, 1, FALSE, 0, 4, 2),
       Channel(1, FALSE, TRUE, FALSE, 0, TRUE, 4, 8, 3)>>,
     <<Channel(1, TRUE, FALSE, TRUE, 0, FALSE, 1, 16, 3),
       Channel(2, TRUE, TRUE, FALSE, 0, FALSE, 6, 20, 2)>>,
     <<Channel(2, TRUE, TRUE, FALSE, 0, FALSE, 8, Block1, 2),
       Channel(2, TRUE, TRUE, FALSE, 1, FALSE, 0, 20, 1)>>,
     <<Channel(2, TRUE, TRUE, FALSE, 0, FALSE, 8, Block1, 2),
       Channel(2, TRUE, TRUE, FALSE, 0, FALSE, 0, 20, 1)>>}

Memory == [x \in 0..(RegBase - 1) |->
             IF x < 12 THEN <<1, 2, 3, 4, 0, 0, 0, 0, 1, 0, 2, 0>>[x + 1] ELSE 0]

\* dma_init.
Reset(c) ==
    [ctrl |-> [en |-> FALSE, size |-> 1, incrRead |-> FALSE, incrWrite |-> FALSE,
               bswap |-> FALSE, chain |-> c, quiet |-> FALSE],
     read |-> 0, write |-> 0, count |-> 0]

Init ==
    \E s \in Setups :
        d = [setup |-> [c \in 0..1 |-> s[c + 1]], ch |-> [c \in 0..1 |-> Reset(c)],
             mem |-> Memory, stack |-> <<>>, todo |-> <<>>, intr |-> {},
             inte |-> [l \in Lines |-> {}],
             line |-> {}, seen |-> {}, phase |-> "idle", triggers |-> 0,
             expect |-> Memory, unseen |-> {}]

-----------------------------------------------------------------------------
\* Triggers and register writes.

\* dma_do_transfer up to its loop: addresses and count are read here.
Call(s, c) ==
    IF ~s.ch[c].ctrl.en \/ s.ch[c].count = 0 THEN s
    ELSE [s EXCEPT !.stack = <<[ch |-> c, i |-> 0, src |-> s.ch[c].read, dst |-> s.ch[c].write,
                                count |-> s.ch[c].count]>> \o @]

\* alias_layout: the last register of an alias is its trigger.
Layout == << <<"read", "write", "count", "ctrl">>, <<"ctrl", "read", "write", "count">>,
             <<"ctrl", "count", "read", "write">>, <<"ctrl", "write", "count", "read">> >>

\* ch_field_write.
FieldWrite(s, c, field, val, trigger) ==
    LET t == [s EXCEPT !.ch[c][field] = val]
    IN  IF trigger THEN Call(t, c) ELSE t

\* dma_write32 of a channel register.
RegWrite(s, addr, val) ==
    LET reg == (addr - RegBase) \div 2
        alias == (reg % 16) \div 4
    IN  FieldWrite(s, reg \div 16, Layout[alias + 1][(reg % 4) + 1], val, reg % 4 = 3)

-----------------------------------------------------------------------------
\* The transfer loop.

Top == Head(d.stack)
Ctrl(f) == d.ch[f.ch].ctrl

\* Variant: the swap is lost with the other bits of the wrong mask.
ElementPlain(m, a, ctrl) == IF ctrl.size = 1 THEN <<m[a]>> ELSE <<m[a], m[a + 1]>>

\* One element read from memory; only halfwords and words are swapped.
Element(m, a, ctrl) ==
    IF ctrl.size = 1 THEN <<m[a]>>
    ELSE IF ctrl.bswap THEN <<m[a + 1], m[a]>> ELSE <<m[a], m[a + 1]>>

\* mem_write of the element, to memory or to a register.
Deliver(s, a, e) ==
    IF a >= RegBase THEN RegWrite(s, a, e[1] + Base * e[2])
    ELSE [s EXCEPT !.mem = [x \in DOMAIN @ |-> IF x \in a..(a + Len(e) - 1) THEN e[x - a + 1]
                                               ELSE @[x]]]

\* A round of the loop: the addresses are locals of the call, and the write may
\* call dma_do_transfer again.
CopyOne ==
    LET f == Top
        e == Element(d.mem, f.src, Ctrl(f))
        next == [f EXCEPT !.i = @ + 1, !.src = IF Ctrl(f).incrRead THEN @ + Ctrl(f).size ELSE @,
                          !.dst = IF Ctrl(f).incrWrite THEN @ + Ctrl(f).size ELSE @]
    IN  /\ d.stack # <<>> /\ f.i < f.count
        /\ Len(d.stack) < MaxStack
        /\ d' = Deliver([d EXCEPT !.stack = <<next>> \o Tail(@)], f.dst, e)

\* The lines nvic_signal_rp2350_irq is called for when c has ended.
Signals(s, c) == {l \in Lines : c \in s.inte[l]}

\* Behind the loop: addresses, count, interrupt, chain.
Finish ==
    LET f == Top
        c == f.ch
        told == IF Ctrl(f).quiet THEN {} ELSE {c}
        t == [d EXCEPT !.stack = Tail(@),
                       !.ch[c] = [@ EXCEPT !.read = f.src, !.write = f.dst, !.count = 0],
                       !.intr = @ \cup told,
                       !.line = IF told = {} THEN @ ELSE @ \cup Signals(d, c),
                       !.unseen = @ \cup {u \in told \X Lines : u[1] \in d.inte[u[2]]}]
    IN  /\ d.stack # <<>> /\ f.i = f.count
        /\ d' = IF Ctrl(f).chain # c THEN Call(t, Ctrl(f).chain) ELSE t

\* The loop of MULTI_CHAN_TRIGGER goes on with its next channel.
NextTodo ==
    /\ d.stack = <<>> /\ d.todo # <<>>
    /\ d' = Call([d EXCEPT !.todo = Tail(@)], Head(d.todo))

-----------------------------------------------------------------------------
\* What the copies should leave.

\* A whole transfer at once: every destination byte from its source.
Moved(m, r) ==
    LET size == r.ctrl.size
        dest == r.write..(r.write + (IF r.ctrl.incrWrite THEN r.count * size ELSE size) - 1)
        rank(x) == IF r.ctrl.incrWrite THEN (x - r.write) \div size ELSE r.count - 1
        place(x) == (x - r.write) % size
        byte(x) == IF r.ctrl.bswap THEN size - 1 - place(x) ELSE place(x)
        from(x) == r.read + byte(x) + (IF r.ctrl.incrRead THEN rank(x) * size ELSE 0)
    IN  [x \in DOMAIN m |-> m[IF x \in dest THEN from(x) ELSE x]]

\* Channels triggered in this order, each followed by the one it chains to; live
\* are those with a count left.
RECURSIVE Replay(_, _, _, _)
Replay(m, ch, live, cs) ==
    IF cs = <<>> THEN m
    ELSE LET c == Head(cs)
         IN  IF c \notin live THEN Replay(m, ch, live, Tail(cs))
             ELSE Replay(Moved(m, ch[c]), ch, live \ {c}, <<ch[c].ctrl.chain>> \o Tail(cs))

\* No channel of the set-up writes to registers.
Plain == \A c \in Channels : d.setup[c].write < RegBase

\* The memory after a trigger of these channels.
After(s, cs) ==
    LET live == {c \in Channels : s.ch[c].ctrl.en /\ s.ch[c].count > 0}
    IN  IF Plain THEN Replay(s.mem, s.ch, live, cs) ELSE s.mem

-----------------------------------------------------------------------------
\* Register writes of the firmware.

AtRest == d.stack = <<>> /\ d.todo = <<>>

\* READ_ADDR, WRITE_ADDR, TRANS_COUNT and AL1_CTRL, without a trigger.
Configure ==
    \E c \in Channels :
        /\ AtRest
        /\ d' = [d EXCEPT !.ch[c] = d.setup[c]]

\* A register that triggers: CTRL_TRIG, AL1_TRANS_COUNT_TRIG, AL3_READ_ADDR_TRIG.
\* Firmware does not let a channel run past the registers it means.
Trigger ==
    \E c \in Channels, field \in {"ctrl", "count", "read"} :
        LET val == d.setup[c][field]
            expect == After(FieldWrite(d, c, field, val, FALSE), <<c>>)
        IN  /\ AtRest /\ d.triggers < MaxTriggers /\ d.ch[c].ctrl.en
            /\ d.setup[c].write >= RegBase => d.ch[c].write = d.setup[c].write
            /\ d' = FieldWrite([d EXCEPT !.triggers = @ + 1, !.expect = expect],
                               c, field, val, TRUE)

\* MULTI_CHAN_TRIGGER, in the order of the numbers.
MultiTrigger ==
    \E cs \in SUBSET Channels :
        LET order == SetToSortSeq(cs, <)
        IN  /\ AtRest /\ d.triggers < MaxTriggers /\ cs # {}
            /\ d' = [d EXCEPT !.triggers = @ + 1, !.todo = order, !.expect = After(d, order)]

\* CHAN_ABORT.
Abort ==
    \E c \in Channels :
        /\ AtRest /\ d.ch[c].count > 0
        /\ d' = [d EXCEPT !.ch[c].count = 0]

\* INTE0 or INTE1, one line for a channel; a channel that ended before is not
\* signalled any more, so firmware enables it with nothing outstanding.
WriteInte ==
    \E l \in Lines, c \in Channels :
        /\ AtRest /\ d.intr = {} /\ \A k \in Lines : c \notin d.inte[k]
        /\ d' = [d EXCEPT !.inte[l] = @ \cup {c}]

-----------------------------------------------------------------------------
\* The interrupt handler: it reads INTS0 or INTS1, clears what it read through
\* INTR and then looks after the channels, while the other core goes on.
Handler ==
    /\ AtRest
    /\ \/ \E l \in d.line :
            /\ d.phase = "idle"
            /\ d' = [d EXCEPT !.phase = "read", !.line = @ \ {l},
                              !.seen = {<<c, l>> : c \in d.intr \cap d.inte[l]}]
       \/ /\ d.phase = "read"
          /\ d' = [d EXCEPT !.phase = "clear", !.intr = @ \ {u[1] : u \in d.seen}]
       \/ /\ d.phase = "clear"
          /\ d' = [d EXCEPT !.phase = "idle", !.unseen = @ \ d.seen, !.seen = {}]

Next ==
    CopyOne \/ Finish \/ NextTodo \/ Configure \/ Trigger \/ MultiTrigger \/ Abort
    \/ WriteInte \/ Handler

Spec == Init /\ [][Next]_d

-----------------------------------------------------------------------------

\* When the register write returns, memory is what its transfers, one after the
\* other along their chains, should have left (dma_do_transfer).
CopiesExact == AtRest /\ Plain => d.mem = d.expect

\* A channel that ended with its interrupt enabled is noticed: unless a handler is
\* at work, its line is pending and its bit is set (dma_do_transfer, INTR).
EndsNoticed ==
    AtRest /\ d.phase = "idle" => \A u \in d.unseen : u[1] \in d.intr /\ u[2] \in d.line

DmaHonest == CopiesExact /\ EndsNoticed

\* A chain triggers its channel on completion (src/dma.c:12): no channel is called
\* while its transfer is still in progress.
CalledOnce == \A i, j \in DOMAIN d.stack : d.stack[i].ch = d.stack[j].ch => i = j
=============================================================================
