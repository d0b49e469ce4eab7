----------------------------- MODULE Exceptions -----------------------------
(***************************************************************************)
(* Exception entry, nesting and return of one emulated Cortex-M core: the  *)
(* per-core NVIC state of src/nvic.c and the exception engine of           *)
(* src/cpu.c (cpu_step's interrupt check, cpu_exception_entry,             *)
(* cpu_exception_return), with the firmware that drives them.              *)
(*                                                                         *)
(* A vector number stands for an exception everywhere.  The pending words, *)
(* systick_state_t.pending and pendsv_pending are one set of vectors, the  *)
(* IPR bytes and SHPR2/SHPR3 one priority function; a priority is the      *)
(* value of its two implemented bits [7:6].                                *)
(***************************************************************************)
EXTENDS Integers, Sequences

CONSTANTS
  NumIrqs,     \* external interrupts, vectors 16 .. 15 + NumIrqs
  NumPri,      \* priority levels (4 in the code, bits [7:6])
  MaxDepth,    \* MAX_EXCEPTION_DEPTH
  MaxFrames,   \* bound: frames on the guest's stack
  MaxIt,       \* bound: length of an IT block (4 on the hardware)
  Guest        \* what the firmware under study does

ASSUME SizesAssumption ==
  /\ NumIrqs \in Nat
  /\ NumPri \in Nat \ {0}
  /\ MaxDepth \in Nat
  /\ MaxFrames \in Nat
  /\ MaxIt \in Nat

ASSUME GuestAssumption ==
  Guest \subseteq {"svc", "svcAnywhere", "prio", "prioAnywhere", "fault",
                   "faultmask", "basepri", "it", "jit"}

\* Four levels and HardFault above them fit the nesting stack of eight.
ASSUME DepthAssumption == NumPri + 1 <= MaxDepth

NoExc     == 0      \* current_irq 0xFFFFFFFF; IPSR 0, Thread mode
HARDFAULT == 3
SVCALL    == 11
PENDSV    == 14
SYSTICK   == 15

IrqVectors   == 16 .. (15 + NumIrqs)
AsyncVectors == IrqVectors \cup {PENDSV, SYSTICK}
Configurable == AsyncVectors \cup {SVCALL}
Vectors      == Configurable \cup {HARDFAULT}
Pri          == 0 .. (NumPri - 1)
ThreadPri    == NumPri                  \* 0xFF, weaker than every level

VARIABLES
  enable,      \* enable[]: IRQ vectors enabled
  pended,      \* pending[], SysTick's pending, pendsv_pending
  prio,        \* priority[], shpr2, shpr3
  nondefault,  \* priorities_nondefault
  primask, faultmask, basepri,
  current,     \* cpu.current_irq
  ipsr,        \* cpu.xpsr & 0x1FF
  excStack,    \* exception_stack/it_stack, exception_depth entries
  frames,      \* the exception frames on the guest's stack
  active,      \* active_exceptions, active_exceptions_hi
  iabr,        \* iabr[]
  it,          \* it_len - it_pos: slots left in the IT block
  inBlock,     \* inside a JIT block: the next instruction is not preceded
               \* by cpu_step's interrupt check
  halted       \* is_halted, PC = 0xFFFFFFFF

nvicVars == <<enable, pended, prio, nondefault>>
maskVars == <<primask, faultmask, basepri>>
excVars  == <<current, ipsr, excStack, frames, active, iabr>>
cpuVars  == <<it, inBlock, halted>>
vars     == <<nvicVars, maskVars, excVars, cpuVars>>

Frame == [ipsr : Vectors \cup {NoExc}, it : 0 .. MaxIt]
Saved == [irq  : Vectors \cup {NoExc}, it : 0 .. MaxIt]

TypeOK ==
  /\ enable \subseteq IrqVectors
  /\ pended \subseteq AsyncVectors
  /\ prio \in [Configurable -> Pri]
  /\ nondefault \in BOOLEAN
  /\ primask \in BOOLEAN /\ faultmask \in BOOLEAN
  /\ basepri \in 0 .. NumPri
  /\ current \in Vectors \cup {NoExc}
  /\ ipsr \in Vectors \cup {NoExc}
  /\ excStack \in Seq(Saved) /\ Len(excStack) <= MaxDepth
  /\ frames \in Seq(Frame)
  /\ active \subseteq Vectors
  /\ iabr \subseteq IrqVectors
  /\ it \in 0 .. MaxIt
  /\ inBlock \in BOOLEAN
  /\ halted \in BOOLEAN

Init ==
  /\ enable = {} /\ pended = {}
  /\ prio = [v \in Configurable |-> 0]
  /\ nondefault = FALSE
  /\ primask = FALSE /\ faultmask = FALSE /\ basepri = 0
  /\ current = NoExc /\ ipsr = NoExc
  /\ excStack = <<>> /\ frames = <<>>
  /\ active = {} /\ iabr = {}
  /\ it = 0 /\ inBlock = FALSE /\ halted = FALSE

-----------------------------------------------------------------------------
(* Priorities and the choice of the interrupt to serve *)

\* nvic_get_exception_priority; no exception active counts as 0xFF
Priority(v) ==
  IF v = NoExc THEN ThreadPri ELSE IF v = HARDFAULT THEN 0 ELSE prio[v]

\* nvic_get_pending_irq, with vectors P pending, returns v
NvicGetPendingIrq(v, P) ==
  /\ v \in P \cap enable
  /\ \A w \in P \cap enable :
       IF nondefault
       THEN prio[v] < prio[w] \/ (prio[v] = prio[w] /\ v <= w)
       ELSE v <= w

\* v is the interrupt that preempts priority pri: the best external IRQ
\* first, then SysTick, then PendSV
IrqWins(v, P, pri) == NvicGetPendingIrq(v, P) /\ Priority(v) < pri

SysTickWins(P, pri) ==
  /\ SYSTICK \in P /\ Priority(SYSTICK) < pri
  /\ ~ \E v \in IrqVectors : IrqWins(v, P, pri)

PendSvWins(P, pri) ==
  /\ PENDSV \in P /\ Priority(PENDSV) < pri
  /\ ~ \E v \in IrqVectors : IrqWins(v, P, pri)
  /\ ~ SysTickWins(P, pri)

\* Variant: late arrival looks at the external interrupts only
LateWinsIrqOnly(v, P, pri) == v \in IrqVectors /\ IrqWins(v, P, pri)

\* The two tests that late arrival makes
LateWins(v, P, pri) ==
  \/ v \in IrqVectors /\ IrqWins(v, P, pri)
  \/ v = SYSTICK /\ SysTickWins(P, pri)

Wins(v, P, pri) == LateWins(v, P, pri) \/ (v = PENDSV /\ PendSvWins(P, pri))

Masked == primask \/ faultmask

\* cpu_step's check finds an interrupt to take
Eligible == ~Masked /\ \E v \in AsyncVectors : Wins(v, pended, Priority(current))

-----------------------------------------------------------------------------
(* Exception entry and return *)

\* it_check_skip uses up one slot of the IT block
Consume(n) == IF n > 0 THEN n - 1 ELSE 0

\* Variant: an overtaken external interrupt is not pended again
RependSystemOnly(v) == {v} \cap {PENDSV, SYSTICK}

\* What late arrival pends again of the exception it overtakes
Repend(v) == {v} \cap AsyncVectors

\* cpu_exception_entry(v) after the lockup test, with P the vectors still
\* pending: stack a frame, then let a late arrival w take the entry over and
\* pend v again.  The nesting stack drops what does not fit; savedIt is what
\* it_stack receives, frameIt what the stacked return address needs.
CpuExceptionEntry(v, P, savedIt, frameIt) ==
  \E w \in Vectors :
    /\ \/ /\ ~Masked /\ LateWins(w, P, Priority(v))
          /\ pended' = (P \cup Repend(v)) \ {w}
          /\ active' = (active \ {v}) \cup {w}
          /\ iabr' = (iabr \ {v}) \cup ({w} \cap IrqVectors)
       \/ /\ Masked \/ ~ \E u \in AsyncVectors : LateWins(u, P, Priority(v))
          /\ w = v
          /\ pended' = P
          /\ active' = active \cup {v}
          /\ iabr' = iabr \cup ({v} \cap IrqVectors)
    /\ current' = w
    /\ ipsr' = w
    /\ excStack' = IF Len(excStack) < MaxDepth
                   THEN Append(excStack, [irq |-> current, it |-> savedIt])
                   ELSE excStack
    /\ frames' = Append(frames, [ipsr |-> ipsr, it |-> frameIt])
    /\ it' = 0
    /\ inBlock' = FALSE

\* The pending interrupt found by cpu_step before it fetches an instruction.
\* The slot of that instruction has already been consumed.
TakeInterrupt ==
  /\ ~halted /\ ~inBlock /\ ~Masked
  /\ Len(frames) < MaxFrames
  /\ \E v \in AsyncVectors :
       /\ Wins(v, pended, Priority(current))
       /\ CpuExceptionEntry(v, pended \ {v}, Consume(it), it)
  /\ UNCHANGED <<enable, prio, nondefault, maskVars, halted>>

\* An instruction runs when cpu_step's check found nothing, or inside a block
InstrReady == ~halted /\ (inBlock \/ ~Eligible)

\* The slot an instruction uses; a JIT block does not look at the IT state
AfterInstr == IF inBlock THEN it ELSE Consume(it)

\* instr_svc.  On the hardware SVC faults unless SVCall outranks the code
\* that executes it; firmware marked svcAnywhere does not care.
Svc ==
  /\ InstrReady
  /\ \/ "svc" \in Guest /\ Priority(SVCALL) < Priority(current)
     \/ "svcAnywhere" \in Guest
  /\ Len(frames) < MaxFrames
  /\ CpuExceptionEntry(SVCALL, pended, AfterInstr, AfterInstr)
  /\ UNCHANGED <<enable, prio, nondefault, maskVars, halted>>

\* A faulting instruction (BKPT, UDF, an undecoded one), or a PC outside the
\* executable ranges, which cpu_step finds before its interrupt check.  A
\* second fault with HardFault current is a lockup.
HardFault ==
  /\ ~halted
  /\ "fault" \in Guest
  /\ Len(frames) < MaxFrames
  /\ UNCHANGED <<enable, prio, nondefault, maskVars>>
  /\ \/ /\ current = HARDFAULT
        /\ halted' = TRUE
        /\ UNCHANGED <<pended, excVars, it, inBlock>>
     \/ /\ current # HARDFAULT
        /\ CpuExceptionEntry(HARDFAULT, pended, AfterInstr, AfterInstr)
        /\ UNCHANGED halted

\* cpu_step: PC outside the executable ranges and no HardFault vector.  This
\* test precedes the interrupt check.
NoHandler ==
  /\ ~halted /\ ~inBlock
  /\ "fault" \in Guest
  /\ halted' = TRUE
  /\ it' = Consume(it)
  /\ UNCHANGED <<nvicVars, maskVars, excVars, inBlock>>

\* The priority cpu_exception_return compares with: that of the exception on
\* top of the nesting stack
ReturnPri ==
  IF excStack = <<>> THEN ThreadPri ELSE Priority(excStack[Len(excStack)].irq)

\* Variant: the exception that returns stays marked active
TailChainKeepsActive(v) ==
  /\ Wins(v, pended, ReturnPri)
  /\ pended' = pended \ {v}
  /\ active' = active \cup {v}
  /\ iabr' = (iabr \ {current}) \cup ({v} \cap IrqVectors)
  /\ current' = v
  /\ ipsr' = v
  /\ it' = AfterInstr
  /\ UNCHANGED <<excStack, frames, faultmask>>

\* Tail-chaining: v is entered without unstacking
TailChain(v) ==
  /\ Wins(v, pended, ReturnPri)
  /\ pended' = pended \ {v}
  /\ active' = (active \ {current}) \cup {v}
  /\ iabr' = (iabr \ {current}) \cup ({v} \cap IrqVectors)
  /\ current' = v
  /\ ipsr' = v
  /\ it' = AfterInstr
  /\ UNCHANGED <<excStack, frames, faultmask>>

\* Variant: every return lands in Thread mode
UnstackToThread ==
  /\ frames # <<>>
  /\ ipsr' = frames[Len(frames)].ipsr
  /\ frames' = SubSeq(frames, 1, Len(frames) - 1)
  /\ active' = active \ {current}
  /\ iabr' = iabr \ {current}
  /\ current' = NoExc
  /\ it' = AfterInstr
  /\ excStack' = <<>>
  /\ faultmask' = FALSE
  /\ UNCHANGED pended

\* Unstack the frame, drop current, pop the nesting stack
Unstack ==
  /\ frames # <<>>
  /\ ipsr' = frames[Len(frames)].ipsr
  /\ frames' = SubSeq(frames, 1, Len(frames) - 1)
  /\ active' = active \ {current}
  /\ iabr' = iabr \ {current}
  /\ IF excStack # <<>>
     THEN /\ current' = excStack[Len(excStack)].irq
          /\ it' = excStack[Len(excStack)].it
          /\ excStack' = SubSeq(excStack, 1, Len(excStack) - 1)
     ELSE /\ current' = NoExc
          /\ it' = AfterInstr
          /\ UNCHANGED excStack
  /\ faultmask' = FALSE
  /\ UNCHANGED pended

\* cpu_exception_return, reached by BX or POP of an EXC_RETURN value in a
\* handler (firmware has none in Thread mode, where the code would unstack too)
CpuExceptionReturn ==
  /\ InstrReady
  /\ current # NoExc
  /\ \/ ~Masked /\ \E v \in AsyncVectors : TailChain(v)
     \/ (Masked \/ ~ \E v \in AsyncVectors : Wins(v, pended, ReturnPri)) /\ Unstack
  /\ inBlock' = FALSE
  /\ UNCHANGED <<enable, prio, nondefault, primask, basepri, halted>>

-----------------------------------------------------------------------------
(* The other instructions of the firmware that touch this state *)

\* A 16-bit instruction that falls through: in a JIT block the next one may
\* follow without a check
Falls ==
  /\ InstrReady
  /\ it' = AfterInstr
  /\ inBlock' \in (IF "jit" \in Guest THEN BOOLEAN ELSE {FALSE})
  /\ UNCHANGED <<maskVars, excVars, halted>>

\* A 32-bit instruction, or a 16-bit one that ends a block
Ends(wide) ==
  /\ InstrReady
  /\ wide => ~inBlock
  /\ it' = AfterInstr
  /\ inBlock' = FALSE
  /\ UNCHANGED <<nvicVars, excVars, halted>>

\* A store to ISER, ICER, ISPR or ICPR acts on the bits set in the word
WriteIser(S) == Falls /\ enable' = enable \cup S /\ UNCHANGED <<pended, prio, nondefault>>
WriteIcer(S) == Falls /\ enable' = enable \ S /\ UNCHANGED <<pended, prio, nondefault>>
WriteIspr(S) == Falls /\ pended' = pended \cup S /\ UNCHANGED <<enable, prio, nondefault>>
WriteIcpr(S) == Falls /\ pended' = pended \ S /\ UNCHANGED <<enable, prio, nondefault>>

\* A store to ICSR: the clear bits act before the set bits
WriteIcsr(clr, set) ==
  /\ Falls
  /\ pended' = (pended \ clr) \cup set
  /\ UNCHANGED <<enable, prio, nondefault>>

\* Priorities are set up in Thread mode unless the firmware is prioAnywhere
PrioWritable ==
  \/ "prioAnywhere" \in Guest
  \/ "prio" \in Guest /\ current = NoExc

SetPriorities(f) ==
  prio' = [v \in Configurable |-> IF v \in DOMAIN f THEN f[v] ELSE prio[v]]

\* The vectors whose bytes share the n-th IPR word
IprWord(n) == {v \in IrqVectors : (v - 16) \div 4 = n}

\* Variant: priorities_nondefault is left alone
WriteIprStaleFlag(f) ==
  /\ Falls
  /\ PrioWritable
  /\ SetPriorities(f)
  /\ UNCHANGED <<enable, pended, nondefault>>

\* A store to IPR: four bytes, then the fast-path flag over all of them
WriteIpr(f) ==
  /\ Falls
  /\ PrioWritable
  /\ SetPriorities(f)
  /\ nondefault' = (\E w \in IrqVectors : prio'[w] # 0)
  /\ UNCHANGED <<enable, pended>>

\* A store to SHPR2 (SVCall) or SHPR3 (PendSV and SysTick)
WriteShpr(f) ==
  /\ Falls
  /\ PrioWritable
  /\ SetPriorities(f)
  /\ UNCHANGED <<enable, pended, nondefault>>

\* CPSID/CPSIE and MSR of the masks; BASEPRI is stored
Cps(b) == Ends(FALSE) /\ primask' = b /\ UNCHANGED <<faultmask, basepri>>
MsrFaultmask(b) ==
  /\ Ends(TRUE) /\ "faultmask" \in Guest
  /\ faultmask' = b /\ UNCHANGED <<primask, basepri>>
MsrBasepri(p) ==
  /\ Ends(TRUE) /\ "basepri" \in Guest
  /\ basepri' = p /\ UNCHANGED <<primask, faultmask>>

\* instr_it opens a block of n; IT EQ (0xBF0x) falls through a JIT block
InstrIt(n) ==
  /\ InstrReady
  /\ "it" \in Guest
  /\ it' = n
  /\ inBlock' \in (IF "jit" \in Guest THEN BOOLEAN ELSE {FALSE})
  /\ UNCHANGED <<nvicVars, maskVars, excVars, halted>>

\* A predicated instruction whose condition is false: skipped before the
\* interrupt check
ItSkip ==
  /\ ~halted /\ ~inBlock
  /\ it > 0
  /\ it' = Consume(it)
  /\ UNCHANGED <<nvicVars, maskVars, excVars, inBlock, halted>>

\* Any other instruction
Plain == Falls /\ UNCHANGED nvicVars

\* nvic_signal_irq from a peripheral, and SysTick reaching zero
NvicSignalIrq(v) ==
  /\ pended' = pended \cup {v}
  /\ UNCHANGED <<enable, prio, nondefault, maskVars, excVars, cpuVars>>

Register ==
  \/ \E S \in SUBSET IrqVectors : WriteIser(S) \/ WriteIcer(S) \/ WriteIspr(S) \/ WriteIcpr(S)
  \/ \E clr, set \in SUBSET {PENDSV, SYSTICK} : WriteIcsr(clr, set)
  \/ \E n \in 0 .. (NumIrqs \div 4) : \E f \in [IprWord(n) -> Pri] : WriteIpr(f)
  \/ \E f \in [{SVCALL} -> Pri] \cup [{PENDSV, SYSTICK} -> Pri] : WriteShpr(f)

Mask ==
  \/ \E b \in BOOLEAN : Cps(b) \/ MsrFaultmask(b)
  \/ \E p \in 0 .. NumPri : MsrBasepri(p)

Next ==
  \/ TakeInterrupt \/ Svc \/ HardFault \/ NoHandler \/ CpuExceptionReturn
  \/ Register \/ Mask
  \/ (\E n \in 1 .. MaxIt : InstrIt(n)) \/ ItSkip \/ Plain
  \/ \E v \in IrqVectors \cup {SYSTICK} : NvicSignalIrq(v)

Spec == Init /\ [][Next]_vars

-----------------------------------------------------------------------------
(* Properties *)

Depth == Len(excStack)

\* The k-th exception in progress, counted from Thread mode
Chain(k) == IF k = Depth THEN current ELSE excStack[k + 1].irq

\* The emulator's own nesting record and the frames it pushed on the guest's
\* stack describe the same interrupted contexts: cpu_exception_return, which
\* takes the exception number from one and IPSR from the other, resumes the
\* exception that was interrupted.
NestingMatchesFrames ==
  /\ Len(frames) = Depth
  /\ \A k \in 1 .. Depth : frames[k].ipsr = excStack[k].irq
  /\ ipsr = current
  /\ current = NoExc <=> Depth = 0

\* The active bits and IABR, set on entry and cleared on return, tail-chaining
\* and late arrival, are exactly the exceptions in progress.
ActiveIsChain ==
  /\ active = {Chain(k) : k \in 1 .. Depth}
  /\ iabr = active \cap IrqVectors

\* Every exception in progress has preempted a weaker one: the priority check
\* of cpu_step, of late arrival and of tail-chaining never nests a handler
\* inside one of its own or a stronger priority.  HardFault is only innermost.
PrioritiesDescend ==
  \A j, k \in 1 .. Depth : j < k =>
    /\ Chain(j) # HARDFAULT
    /\ Chain(k) = HARDFAULT \/ Priority(Chain(k)) < Priority(Chain(j))

\* Hence nesting never exceeds one handler per level plus HardFault, and the
\* push that cpu_exception_entry drops when exception_stack is full is never
\* dropped.
NestingFits == Depth <= NumPri + 1 /\ Len(frames) <= MaxDepth

\* The firmware of NestingInv's guarantee: SVC only where SVCall outranks the
\* code that executes it, priorities changed in Thread mode only.
Lawful == Guest \cap {"svcAnywhere", "prioAnywhere"} = {}

\* The inductive form of the four invariants above, for lawful firmware: the
\* k-th exception in progress is a real one and leaves k levels behind it.
NestingInv ==
  /\ TypeOK
  /\ NestingMatchesFrames
  /\ ActiveIsChain
  /\ PrioritiesDescend
  /\ Depth > 0 => excStack[1].irq = NoExc
  /\ \A k \in 1 .. Depth :
       /\ Chain(k) \in Vectors
       /\ Chain(k) = HARDFAULT \/ Priority(Chain(k)) + k <= NumPri

\* nvic_get_pending_irq's fast path agrees with its slow path: what it returns
\* is of the strongest priority pending, the lowest number among equals, so
\* priorities_nondefault is never stale.
PendingIrqIsStrongest ==
  \A v \in pended \cap enable : NvicGetPendingIrq(v, pended) <=>
    \A w \in pended \cap enable :
      prio[v] < prio[w] \/ (prio[v] = prio[w] /\ v <= w)

\* Entering an exception (a frame is pushed, or a tail-chain changes current)
\* takes the pending bit of that exception and of no other: late arrival pends
\* the overtaken exception again.
EntryTakesOnePending ==
  [][ \/ Len(frames') > Len(frames)
      \/ Len(frames') = Len(frames) /\ current' # current
      => /\ pended \ {current'} \subseteq pended'
         /\ current' \in AsyncVectors => current' \notin pended'
    ]_vars

\* When a handler starts after stacking, no enabled external interrupt or
\* SysTick of a stronger priority is still waiting behind it.
LateArrivalSettles ==
  [][ Len(frames') > Len(frames) /\ ~Masked =>
      \A v \in (pended' \cap enable) \cup (pended' \cap {SYSTICK}) :
        prio[v] >= Priority(current')
    ]_vars

\* cpu.c, late arrival: "Re-pend the original exception".  An SVC instruction
\* leaves SVCall active, or overtaken and due.
SvcDelivered == [][ Svc => SVCALL \in active' \cup pended' ]_vars

\* cpu.c, IT helpers: "exception entry/return save/restore the state across
\* nesting": the instruction resumed by an exception return finds the IT slots
\* it had when it was interrupted.
ItStateResumed ==
  [][ CpuExceptionReturn /\ Len(frames') < Len(frames)
      => it' = frames[Len(frames)].it ]_vars
=============================================================================
