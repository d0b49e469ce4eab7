------------------------------- MODULE Locks --------------------------------
(***************************************************************************)
(* What two cores build a lock from: the ARM exclusive monitor (cpu.c,     *)
(* LDREX/STREX of thumb32.c, the stores of membus.c that clear             *)
(* reservations), the SIO spinlocks, the RP2350 boot locks, and on the     *)
(* RISC-V harts AMOSWAP and LR/SC.  Every core runs the usual loop - take  *)
(* the lock word, work, give it back - and may be interrupted anywhere by  *)
(* a handler with locks of its own.  An action is one instruction: a core  *)
(* executes its quantum with the emulator's lock held.                     *)
(***************************************************************************)
EXTENDS Integers

CONSTANTS
    Lockers,   \* the cores (harts) whose loops compete
    Kinds,     \* the primitives used: "ldrex", "sio", "boot", "amo", "lrsc"
    Lock,      \* the address of the lock the loops compete for
    Others,    \* addresses of the words the handlers use
    TryLock,   \* whether a handler may load the lock exclusively and give up
    MaxIrqs    \* bound on the interrupts of a core

\* What the proofs assume of them.
Parameters ==
    /\ Lock \notin Others
    /\ TryLock \in BOOLEAN
    /\ MaxIrqs \in Nat
    /\ Kinds \subseteq {"ldrex", "sio", "boot", "amo", "lrsc"}

VARIABLES
    kind,      \* the primitive of this behaviour
    word,      \* memory: what each address holds (the lock: 1 when taken)
    valid,     \* arm_excl_valid / lr_valid
    addr,      \* arm_excl_addr / lr_reservation
    pc,        \* where the loop of a core stands
    irq,       \* whether a core is in a handler
    irqs       \* interrupts taken so far

lockVars == <<kind, word, valid, addr, pc, irq, irqs>>

Addresses == {Lock} \cup Others

LocksTypeOK ==
    /\ kind \in Kinds
    /\ word \in [Addresses -> {0, 1}]
    /\ valid \in [Lockers -> BOOLEAN]
    /\ addr \in [Lockers -> Addresses]
    /\ pc \in [Lockers -> {"idle", "loaded", "held"}]
    /\ irq \in [Lockers -> BOOLEAN]
    /\ irqs \in [Lockers -> 0..MaxIrqs]

\* bootram_bootlock_stat starts with every boot lock free, spinlocks[] too.
LocksInit ==
    /\ kind \in Kinds
    /\ word = [a \in Addresses |-> 0]
    /\ valid = [c \in Lockers |-> FALSE]
    /\ addr = [c \in Lockers |-> Lock]
    /\ pc = [c \in Lockers |-> "idle"]
    /\ irq = [c \in Lockers |-> FALSE]
    /\ irqs = [c \in Lockers |-> 0]

-----------------------------------------------------------------------------
\* The monitor.

\* Variant: one reservation for all cores, so a load takes it from the others.
ExclSetSole(c, a) ==
    /\ addr' = [addr EXCEPT ![c] = a]
    /\ valid' = [d \in Lockers |-> d = c]

ExclSet(c, a) ==
    /\ addr' = [addr EXCEPT ![c] = a]
    /\ valid' = [valid EXCEPT ![c] = TRUE]

ExclStore(c, a) == valid[c] /\ addr[c] = a

ExclClear(c) == [valid EXCEPT ![c] = FALSE]

\* Variant: a store clears the storing core's reservation instead.
ObserveStoreOwn(c, a, v) == [d \in Lockers |-> v[d] /\ ~(d = c /\ addr[d] = a)]

ObserveStore(c, a, v) == [d \in Lockers |-> v[d] /\ ~(d # c /\ addr[d] = a)]

\* mem_write32/16/8 on ARM: every other core's reservation of the address goes.
MemWrite(c, a, x, v) ==
    /\ word' = [word EXCEPT ![a] = x]
    /\ valid' = ObserveStore(c, a, v)
    /\ UNCHANGED addr

\* rv_mem_write32, or a write to a lock register: nobody loses a reservation.
RvWrite(a, x) == word' = [word EXCEPT ![a] = x] /\ UNCHANGED <<valid, addr>>

-----------------------------------------------------------------------------
\* The loop of a core.

Runs(c, k, at) == kind = k /\ ~irq[c] /\ pc[c] = at

\* LDREX or LDAEX, and the branch back while the lock is taken.
Ldrex(c) ==
    /\ Runs(c, "ldrex", "idle")
    /\ ExclSet(c, Lock)
    /\ pc' = [pc EXCEPT ![c] = IF word[Lock] = 0 THEN "loaded" ELSE "idle"]
    /\ UNCHANGED <<kind, word, irq, irqs>>

\* STREX: the store happens only with a live reservation, which it uses up.
\* A failure leaves a reservation of another address alone.
Strex(c) ==
    /\ Runs(c, "ldrex", "loaded")
    /\ IF ExclStore(c, Lock)
       THEN /\ MemWrite(c, Lock, 1, ExclClear(c))
            /\ pc' = [pc EXCEPT ![c] = "held"]
       ELSE /\ pc' = [pc EXCEPT ![c] = "idle"]
            /\ UNCHANGED <<word, valid, addr>>
    /\ UNCHANGED <<kind, irq, irqs>>

\* Reading a SIO spinlock claims it.
ReadSpinlock(c) ==
    /\ Runs(c, "sio", "idle")
    /\ word[Lock] = 0
    /\ word' = [word EXCEPT ![Lock] = 1]
    /\ pc' = [pc EXCEPT ![c] = "held"]
    /\ UNCHANGED <<kind, valid, addr, irq, irqs>>

\* Reading a boot lock whose bit of bootram_bootlock_stat is set clears the bit.
ReadBootlock(c) ==
    /\ Runs(c, "boot", "idle")
    /\ word[Lock] = 0
    /\ word' = [word EXCEPT ![Lock] = 1]
    /\ pc' = [pc EXCEPT ![c] = "held"]
    /\ UNCHANGED <<kind, valid, addr, irq, irqs>>

AmoSwap(c) ==
    /\ Runs(c, "amo", "idle")
    /\ RvWrite(Lock, 1)
    /\ pc' = [pc EXCEPT ![c] = IF word[Lock] = 0 THEN "held" ELSE "idle"]
    /\ UNCHANGED <<kind, irq, irqs>>

Lr(c) ==
    /\ Runs(c, "lrsc", "idle")
    /\ ExclSet(c, Lock)
    /\ pc' = [pc EXCEPT ![c] = IF word[Lock] = 0 THEN "loaded" ELSE "idle"]
    /\ UNCHANGED <<kind, word, irq, irqs>>

\* SC.W always drops the hart's own reservation and looks at no other hart's.
Sc(c) ==
    /\ Runs(c, "lrsc", "loaded")
    /\ word' = IF ExclStore(c, Lock) THEN [word EXCEPT ![Lock] = 1] ELSE word
    /\ pc' = [pc EXCEPT ![c] = IF ExclStore(c, Lock) THEN "held" ELSE "idle"]
    /\ valid' = ExclClear(c)
    /\ UNCHANGED <<kind, addr, irq, irqs>>

\* Giving the lock back: a plain store of 0, or a write to the lock register.
Release(c) ==
    /\ ~irq[c] /\ pc[c] = "held"
    /\ IF kind = "ldrex" THEN MemWrite(c, Lock, 0, valid) ELSE RvWrite(Lock, 0)
    /\ pc' = [pc EXCEPT ![c] = "idle"]
    /\ UNCHANGED <<kind, irq, irqs>>

-----------------------------------------------------------------------------
\* Interrupt handlers.

\* ARM exception entry clears the reservation; rv_trap_enter does not.
Interrupt(c) ==
    /\ ~irq[c] /\ irqs[c] < MaxIrqs
    /\ irq' = [irq EXCEPT ![c] = TRUE]
    /\ irqs' = [irqs EXCEPT ![c] = @ + 1]
    /\ valid' = IF kind = "ldrex" THEN ExclClear(c) ELSE valid
    /\ UNCHANGED <<kind, word, pc, addr>>

\* A handler loads a word exclusively, and may never store to it.
HandlerLoad(c) ==
    /\ irq[c]
    /\ kind \in {"ldrex", "lrsc"}
    /\ \E a \in (IF TryLock THEN Addresses ELSE Others) : ExclSet(c, a)
    /\ UNCHANGED <<kind, word, pc, irq, irqs>>

HandlerStore(c) ==
    /\ irq[c]
    /\ \E a \in Others, x \in {0, 1} :
         \/ kind = "ldrex" /\ MemWrite(c, a, x, valid)
         \/ kind = "ldrex" /\ ExclStore(c, a) /\ MemWrite(c, a, x, ExclClear(c))
         \/ kind # "ldrex" /\ RvWrite(a, x)
    /\ UNCHANGED <<kind, pc, irq, irqs>>

\* Exception return does not touch the monitor.
HandlerReturn(c) ==
    /\ irq[c]
    /\ irq' = [irq EXCEPT ![c] = FALSE]
    /\ UNCHANGED <<kind, word, valid, addr, pc, irqs>>

LockStep(c) ==
    \/ Ldrex(c) \/ Strex(c)
    \/ ReadSpinlock(c) \/ ReadBootlock(c)
    \/ AmoSwap(c)
    \/ Lr(c) \/ Sc(c)
    \/ Release(c)
    \/ HandlerReturn(c)

LocksNext ==
    \E c \in Lockers : \/ LockStep(c)
                     \/ Interrupt(c)
                     \/ HandlerLoad(c)
                     \/ HandlerStore(c)

LocksSpec == LocksInit /\ [][LocksNext]_lockVars

\* Every core keeps executing its loop, and handlers return.
LiveLocksSpec == LocksSpec /\ \A c \in Lockers : WF_lockVars(LockStep(c))

-----------------------------------------------------------------------------
Exclusive == \A c, d \in Lockers : pc[c] = "held" /\ pc[d] = "held" => c = d

\* No two cores hold the lock at once: "Previously STREX always reported
\* success, so spinlocks never excluded" (cpu.c:1580).  With STREX it rests on
\* every store clearing the reservations of the other cores.  LR/SC is the one
\* primitive left out, see HartsExclude.
MutualExclusion == kind # "lrsc" => Exclusive

\* The same of the two harts, with "LR/SC atomics, dual hart"
\* (docs/ROADMAP.md:116).  No store clears the reservation of the other hart.
HartsExclude == kind = "lrsc" => Exclusive

\* A live reservation of a lock seen free means that the lock is still free:
\* what arm_excl_observe_store is for.
ReservationsCurrent ==
    \A c \in Lockers :
        kind = "ldrex" /\ pc[c] = "loaded" /\ valid[c] /\ addr[c] = Lock => word[Lock] = 0

\* The loops never livelock: some core takes the lock again and again, though
\* a store-exclusive of one makes those of the others fail.
LockKeepsBeingTaken == []<>(\E c \in Lockers : pc[c] = "held")

\* What the proof of mutual exclusion needs beyond it: the lock word says
\* whether the lock is taken, and only LDREX and LR leave a loop half way.
WordTells ==
    kind # "lrsc" =>
        /\ word[Lock] = 0 <=> \A c \in Lockers : pc[c] # "held"
        /\ \A c \in Lockers : pc[c] = "loaded" => kind = "ldrex"

IInv == LocksTypeOK /\ MutualExclusion /\ ReservationsCurrent /\ WordTells
=============================================================================
