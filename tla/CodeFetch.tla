----------------------------- MODULE CodeFetch -----------------------------
(***************************************************************************)
(* How a core gets its instructions: the decoded instruction cache, the    *)
(* basic blocks of the JIT and the predication of IT blocks (src/cpu.c),   *)
(* the cache of the RISC-V harts (rv_icache.h), and what invalidates them  *)
(* (src/membus.c) or does not (the flash functions of the boot ROM).       *)
(*                                                                         *)
(* Memory is halfword cells, flash below RamBase and RAM above.  An        *)
(* instruction is its class: a and b are two plain ones, br and mvpc jump  *)
(* (mvpc is not in the JIT's table), ret returns from the handler, wide    *)
(* takes two cells, it and iteq start an IT block of two slots, then and   *)
(* else.  A step produces events, run or skip, with the instruction used.  *)
(* History: ait the slots the architecture would have left, wrong a step   *)
(* that differs from it, dirty the flash cells changed while code of them  *)
(* may be cached, cut an interrupt or a block that met an IT block.        *)
(***************************************************************************)
EXTENDS Naturals, Sequences, SequencesExt

CONSTANTS
    Images,      \* flash and RAM contents
    RamBase,     \* first RAM cell
    Entries,     \* targets of jumps
    Handler,     \* cell of the interrupt handler
    Sets,        \* ICACHE_SIZE, RV_ICACHE_SIZE
    Blocks,      \* JIT_CACHE_BLOCKS
    MaxInsn,     \* JIT_BLOCK_MAX_INSN
    Unaligned,   \* stores of 32 bits at odd addresses
    MaxChanges   \* stores, flash operations, reloads, switches of the JIT

VARIABLE f

Cells == DOMAIN f.mem
Flash(pc) == pc < RamBase
IsIt(ins) == ins \in {"it", "iteq"}
\* An entry whose tag is ICACHE_TAG_EMPTY.
Empty == [pc |-> 65535]
Size(ins) == IF ins = "wide" THEN 2 ELSE 1

\* jit_is_terminal: branches, and 0xBF with a non-zero high nibble, which an IT
\* block on EQ does not have.
Terminal(ins) == ins \in {"br", "ret", "it"}

\* IT blocks exist on ARM only.
Loadable(arch) == {m \in Images : arch = "arm" \/ \A c \in DOMAIN m : ~IsIt(m[c])}

Init ==
    \E m \in Images, arch \in {"arm", "rv"}, on \in BOOLEAN :
        /\ arch = "rv" => ~on
        /\ m \in Loadable(arch)
        /\ f = [arch |-> arch, mem |-> m, on |-> on, pc |-> RamBase, it |-> <<>>, saved |-> <<>>,
                ic |-> [i \in 0..Sets - 1 |-> Empty], jit |-> [i \in 0..Blocks - 1 |-> Empty],
                changes |-> 0, ait |-> <<>>, wrong |-> FALSE, dirty |-> {}, cut |-> FALSE]

-----------------------------------------------------------------------------
\* What the architecture does with the events of a step.

Slots(c) == <<c, ~c>>

\* An event agrees with the IT block it stands in and with memory.
Agrees(ait, e) ==
    /\ e.kind = IF ait # <<>> /\ ~IsIt(e.ins) /\ ~Head(ait) THEN "skip" ELSE "run"
    /\ e.pc \in f.dirty \/ e.ins = f.mem[e.pc]
    /\ e.ins = "wide" => e.pc + 1 \in f.dirty \/ e.hi = f.mem[e.pc + 1]

AfterEvent(ait, e, c) ==
    IF IsIt(e.ins) THEN Slots(c) ELSE IF ait = <<>> THEN <<>> ELSE Tail(ait)

Judge(events, c) ==
    FoldLeft(LAMBDA s, e : [ait |-> AfterEvent(s.ait, e, c), ok |-> s.ok /\ Agrees(s.ait, e)],
             [ait |-> f.ait, ok |-> TRUE], events)

Event(kind, pc, ins, hi) == [kind |-> kind, pc |-> pc, ins |-> ins, hi |-> hi]
Hi(pc) == IF f.mem[pc] = "wide" THEN f.mem[pc + 1] ELSE "zero"

\* Where the program goes on after its last event; a return restores the saved
\* predication.
Goes(g, e, t) ==
    CASE e.kind = "run" /\ e.ins \in {"br", "mvpc"} -> [g EXCEPT !.pc = t]
      [] e.kind = "run" /\ e.ins = "ret" ->
            [g EXCEPT !.pc = g.saved[1].pc, !.it = g.saved[1].it, !.ait = g.saved[1].ait,
                      !.saved = <<>>]
      [] OTHER -> [g EXCEPT !.pc = e.pc + Size(e.ins)]

\* The step that produced these events.
Ran(g, events, c, t) ==
    LET j == Judge(events, c)
    IN  f' = Goes([g EXCEPT !.ait = j.ait, !.wrong = @ \/ ~j.ok], events[Len(events)], t)

-----------------------------------------------------------------------------
\* The JIT.

\* The instructions jit_compile takes: up to a terminal one, before a 32-bit one,
\* none when the first is zero.
Compiled(pc) ==
    LET take(n) == /\ pc + n <= RamBase /\ n <= MaxInsn
                   /\ \A k \in 0..n - 1 : f.mem[pc + k] # "wide"
                   /\ \A k \in 0..n - 2 : ~Terminal(f.mem[pc + k])
                   /\ f.mem[pc] # "zero"
        n == CHOOSE n \in 0..MaxInsn : (n = 0 \/ take(n)) /\ (n = MaxInsn \/ ~take(n + 1))
    IN  [k \in 1..n |-> f.mem[pc + k - 1]]

\* The block of this pc, cached or compiled now; one instruction is not kept.
Lookup(pc) == f.jit[pc % Blocks].pc = pc
BlockAt(pc) ==
    IF Lookup(pc) THEN f.jit[pc % Blocks]
    ELSE IF Flash(pc) /\ Len(Compiled(pc)) > 1 THEN [pc |-> pc, code |-> Compiled(pc)]
    ELSE Empty

\* jit_execute: every instruction in turn until one changes the pc.
BlockEvents(b) ==
    LET jumps == {k \in 1..Len(b.code) : b.code[k] = "mvpc"}
        n == IF jumps = {} THEN Len(b.code) ELSE CHOOSE k \in jumps : \A l \in jumps : k <= l
    IN  [k \in 1..n |-> Event("run", b.pc + k - 1, b.code[k], "zero")]

\* The predication state behind a block: an IT instruction in it has set it.
BlockIt(events, it, c) == IF \E k \in DOMAIN events : IsIt(events[k].ins) THEN Slots(c) ELSE it

-----------------------------------------------------------------------------
\* cpu_step.

\* it_check_skip: a slot is consumed before the step knows whether it will
\* execute; a nested IT starts afresh.
Slotted == f.it # <<>> /\ ~IsIt(f.mem[f.pc])
Consumed == IF Slotted THEN Tail(f.it) ELSE f.it

Skip(c, t) ==
    /\ Slotted /\ ~Head(f.it)
    /\ Ran([f EXCEPT !.it = Consumed], <<Event("skip", f.pc, f.mem[f.pc], Hi(f.pc))>>, c, t)

\* cpu_exception_entry saves the predication state for the return.
Interrupt ==
    /\ f.saved = <<>>
    /\ f' = [f EXCEPT !.saved = <<[pc |-> f.pc, it |-> Consumed, ait |-> f.ait]>>,
                      !.it = <<>>, !.ait = <<>>, !.pc = Handler, !.cut = @ \/ f.it # <<>>]

\* The block is run in one step.
RunBlock(c, t) ==
    LET b == BlockAt(f.pc)
        events == BlockEvents(b)
    IN  /\ f.on /\ b # Empty
        /\ Ran([f EXCEPT !.jit[f.pc % Blocks] = b, !.it = BlockIt(events, Consumed, c),
                         !.cut = @ \/ f.it # <<>> \/ BlockIt(events, <<>>, c) # <<>>],
               events, c, t)

\* The interpreter with its cache of non-zero 16-bit instructions; a failed
\* compilation has emptied the block's place.
Interpret(c, t) ==
    LET e == f.ic[f.pc % Sets]
        ins == IF e.pc = f.pc THEN e.ins ELSE f.mem[f.pc]
        keep == ins \notin {"zero", "wide"}
    IN  /\ ~f.on \/ BlockAt(f.pc) = Empty
        /\ Ran([f EXCEPT !.ic[f.pc % Sets] = IF keep THEN [pc |-> f.pc, ins |-> ins] ELSE @,
                         !.jit[f.pc % Blocks] = IF f.on /\ Flash(f.pc) THEN Empty ELSE @,
                         !.it = IF IsIt(ins) THEN Slots(c) ELSE Consumed],
               <<Event("run", f.pc, ins, IF ins = "wide" THEN f.mem[f.pc + 1] ELSE "zero")>>, c, t)

ArmStep ==
    \E c \in BOOLEAN, t \in Entries :
        /\ f.arch = "arm"
        /\ \/ Skip(c, t)
           \/ ~(Slotted /\ ~Head(f.it)) /\ (Interrupt \/ RunBlock(c, t) \/ Interpret(c, t))

\* rv_cpu_step: flash is cached, both halves of a 32-bit instruction together.
RvStep ==
    \E t \in Entries :
        LET e == f.ic[f.pc % Sets]
            hit == Flash(f.pc) /\ e.pc = f.pc
            got == IF hit THEN e ELSE [pc |-> f.pc, ins |-> f.mem[f.pc], hi |-> Hi(f.pc)]
        IN  /\ f.arch = "rv"
            /\ Ran([f EXCEPT !.ic[f.pc % Sets] = IF Flash(f.pc) THEN got ELSE @],
                   <<Event("run", f.pc, got.ins, got.hi)>>, TRUE, t)

-----------------------------------------------------------------------------
\* Writes to code.

\* Variant: only the entry of the written halfword.
InvalidateOne(ic, a) == [ic EXCEPT ![a % Sets] = Empty]

\* icache_invalidate_addr; jit_invalidate_addr finds no block in RAM.
InvalidateAddr(ic, a) == [ic EXCEPT ![a % Sets] = Empty, ![(a + 1) % Sets] = Empty]

\* The RAM cases of mem_write8, 16 and 32 and of mem_write32_dual, by this core,
\* the other one or DMA: one cell, an aligned pair, or three for an odd address.
Store ==
    \E a \in {c \in Cells : ~Flash(c)}, n \in {1, 2} \cup (IF Unaligned THEN {3} ELSE {}),
       v \in {"a", "b"} :
        LET written == {a + k : k \in 0..n - 1}
        IN  /\ f.changes < MaxChanges
            /\ \A c \in written : c \in Cells /\ f.mem[c] \in {"a", "b"}
            /\ n = 2 => a % 2 = 0
            /\ f' = [f EXCEPT !.mem = [c \in Cells |-> IF c \in written THEN v ELSE @[c]],
                              !.ic = IF f.arch = "arm" THEN InvalidateAddr(@, a) ELSE @,
                              !.changes = @ + 1]

\* flash_range_erase and flash_range_program of the boot ROM: no cache is told.
ProgramFlash ==
    \E a \in {c \in Cells : Flash(c)}, v \in {"a", "b"} :
        /\ f.changes < MaxChanges /\ f.mem[a] \in {"a", "b"} /\ f.mem[a] # v
        /\ f' = [f EXCEPT !.mem[a] = v, !.dirty = @ \cup {a}, !.changes = @ + 1]

\* picoemu_init and a new image: both instruction caches are emptied, the blocks
\* are not.
Reload ==
    \E m \in Loadable(f.arch) :
        /\ f.changes < MaxChanges
        /\ f' = [f EXCEPT !.mem = m, !.ic = [i \in 0..Sets - 1 |-> Empty],
                          !.pc = RamBase, !.it = <<>>, !.ait = <<>>, !.saved = <<>>,
                          !.dirty = IF f.arch = "rv" THEN {} ELSE {c \in Cells : Flash(c)},
                          !.changes = @ + 1]

\* picoemu_set_jit.
SetJit ==
    /\ f.arch = "arm" /\ f.changes < MaxChanges
    /\ f' = [f EXCEPT !.on = ~@, !.changes = @ + 1]

Next == ArmStep \/ RvStep \/ Store \/ ProgramFlash \/ Reload \/ SetJit

Spec == Init /\ [][Next]_f

-----------------------------------------------------------------------------

\* Every cached instruction and every instruction of a cached block is what
\* memory holds, except for flash that was changed behind the caches
\* (icache_invalidate_addr, jit_compile, rv_icache_insert).
CodeCurrent ==
    LET Current(pc, ins) == pc \in f.dirty \/ f.mem[pc] = ins
    IN  /\ \A e \in Range(f.ic) : e # Empty =>
               /\ Current(e.pc, e.ins)
               /\ f.arch = "rv" /\ e.ins = "wide" => Current(e.pc + 1, e.hi)
        /\ \A b \in Range(f.jit) : b # Empty =>
               \A k \in DOMAIN b.code : Current(b.pc + k - 1, b.code[k])

\* The core executes exactly the instructions the architecture would, with the
\* JIT, both caches and stores into code, as long as no interrupt and no block
\* meets an IT block (cpu_step, jit_execute, it_check_skip).
ExecutionExact == f.cut \/ ~f.wrong

FetchHonest == CodeCurrent /\ ExecutionExact

\* "Straight-line blocks (what compilers emit) are handled exactly; exception
\* entry/return save/restore the state across nesting" (src/cpu.c:901).
ItBlocksExact == ~f.wrong

\* "Only flash/ROM code is compiled (immutable, no invalidation needed"
\* (src/cpu.c:261): flash code that is cached is what flash holds.
FlashImmutable ==
    \A b \in Range(f.jit) : b # Empty => \A k \in DOMAIN b.code : f.mem[b.pc + k - 1] = b.code[k]
=============================================================================
