----------------------------- MODULE LocksProofs ----------------------------
(***************************************************************************)
(* Mutual exclusion of the emulated lock primitives, for every number of   *)
(* cores, any handlers' words and any number of interrupts, as long as no  *)
(* handler loads the lock exclusively and gives up (TryLock).              *)
(***************************************************************************)
EXTENDS Locks, TLAPS

\* The invariant holds at reset.
LEMMA InitIInv == Parameters /\ LocksInit => IInv
BY DEF Parameters,
       LocksInit, IInv, LocksTypeOK, MutualExclusion, Exclusive, ReservationsCurrent, WordTells, Addresses

\* A load-exclusive reads the lock and reserves it.
LEMMA LdrexIInv == ASSUME IInv, NEW c \in Lockers, Ldrex(c) PROVE IInv'
BY DEF IInv, LocksTypeOK, MutualExclusion, Exclusive, ReservationsCurrent, WordTells, Addresses,
       Ldrex, ExclSet, Runs

\* A store-exclusive that succeeds finds the lock still free, and takes every
\* other core's reservation of it away.
LEMMA StrexIInv == ASSUME IInv, NEW c \in Lockers, Strex(c) PROVE IInv'
<1>1. CASE ExclStore(c, Lock)
  <2>1. /\ word[Lock] = 0 /\ kind = "ldrex" /\ kind' = kind /\ addr' = addr
        /\ irq' = irq /\ irqs' = irqs
        /\ word' = [word EXCEPT ![Lock] = 1]
        /\ pc' = [pc EXCEPT ![c] = "held"]
        /\ valid' \in [Lockers -> BOOLEAN]
    BY <1>1 DEF IInv, LocksTypeOK, ReservationsCurrent, Strex, ExclStore, ExclClear, MemWrite,
                ObserveStore, Runs
  <2>2. LocksTypeOK'
    BY <2>1 DEF IInv, LocksTypeOK, Addresses
  <2>3. \A d \in Lockers : d # c => pc'[d] # "held"
    BY <2>1 DEF IInv, LocksTypeOK, WordTells
  <2>4. MutualExclusion' /\ WordTells'
    BY <2>1, <2>3 DEF IInv, LocksTypeOK, MutualExclusion, Exclusive, WordTells, Addresses
  <2>5. ASSUME NEW d \in Lockers, valid'[d] PROVE d = c \/ addr'[d] # Lock
    BY <1>1, <2>5, Zenon DEF Strex, ExclClear, MemWrite, ObserveStore, IInv, LocksTypeOK
  <2>6. ReservationsCurrent'
    BY <2>1, <2>5 DEF ReservationsCurrent, IInv, LocksTypeOK
  <2> QED BY <2>2, <2>4, <2>6 DEF IInv
<1>2. CASE ~ExclStore(c, Lock)
  BY <1>2 DEF IInv, LocksTypeOK, MutualExclusion, Exclusive, ReservationsCurrent, WordTells, Addresses,
              Strex, Runs
<1> QED BY <1>1, <1>2

\* The primitives that test and take the lock in one step.
LEMMA ClaimIInv ==
  ASSUME IInv, NEW c \in Lockers, ReadSpinlock(c) \/ ReadBootlock(c) \/ AmoSwap(c)
  PROVE  IInv'
BY DEF IInv, LocksTypeOK, MutualExclusion, Exclusive, ReservationsCurrent, WordTells, Addresses,
       ReadSpinlock, ReadBootlock, AmoSwap, RvWrite, Runs

\* Mutual exclusion says nothing of LR/SC; the types hold.
LEMMA LrScIInv == ASSUME IInv, NEW c \in Lockers, Lr(c) \/ Sc(c) PROVE IInv'
BY Zenon DEF IInv, LocksTypeOK, MutualExclusion, ReservationsCurrent, WordTells, Addresses,
       Lr, Sc, ExclSet, ExclClear, ExclStore, Runs

\* The holder gives the lock back, and there was no other.
LEMMA ReleaseIInv == ASSUME IInv, NEW c \in Lockers, Release(c) PROVE IInv'
<1>1. /\ word' = [word EXCEPT ![Lock] = 0] /\ addr' = addr /\ kind' = kind
      /\ pc' = [pc EXCEPT ![c] = "idle"] /\ irq' = irq /\ irqs' = irqs
      /\ valid' \in [Lockers -> BOOLEAN] /\ pc[c] = "held"
  BY DEF IInv, LocksTypeOK, Release, MemWrite, RvWrite, ObserveStore
<1> QED
  BY <1>1 DEF IInv, LocksTypeOK, MutualExclusion, Exclusive, ReservationsCurrent, WordTells, Addresses

\* Exception entry and return: reservations only go.
LEMMA IrqIInv ==
  ASSUME Parameters, IInv, NEW c \in Lockers, Interrupt(c) \/ HandlerReturn(c)
  PROVE  IInv'
<1>1. /\ word' = word /\ addr' = addr /\ kind' = kind /\ pc' = pc
      /\ valid' \in [Lockers -> BOOLEAN]
      /\ \A d \in Lockers : valid'[d] => valid[d]
  BY Zenon DEF IInv, LocksTypeOK, Interrupt, HandlerReturn, ExclClear
<1>2. irq' \in [Lockers -> BOOLEAN]
  BY Zenon DEF IInv, LocksTypeOK, Interrupt, HandlerReturn
<1>3. irqs' \in [Lockers -> 0..MaxIrqs]
  BY DEF Parameters, IInv, LocksTypeOK, Interrupt, HandlerReturn
<1> QED
  BY <1>1, <1>2, <1>3
     DEF IInv, LocksTypeOK, MutualExclusion, Exclusive, ReservationsCurrent, WordTells

\* A handler that leaves the lock alone can only lose the interrupted loop's
\* reservation, never bring it back.
LEMMA HandlerLoadIInv ==
  ASSUME Parameters, IInv, ~TryLock, NEW c \in Lockers, HandlerLoad(c)
  PROVE  IInv'
<1>1. PICK a \in Others : ExclSet(c, a)
  BY DEF HandlerLoad
<1> QED
  BY <1>1
     DEF Parameters, IInv, LocksTypeOK, MutualExclusion, Exclusive, ReservationsCurrent, WordTells, Addresses,
         HandlerLoad, ExclSet

LEMMA HandlerStoreIInv ==
  ASSUME Parameters, IInv, NEW c \in Lockers, HandlerStore(c)
  PROVE  IInv'
<1>1. PICK a \in Others, x \in {0, 1} :
           \/ MemWrite(c, a, x, valid)
           \/ MemWrite(c, a, x, ExclClear(c))
           \/ RvWrite(a, x)
  BY DEF HandlerStore
<1>2. word' = [word EXCEPT ![a] = x] /\ addr' = addr
  BY <1>1 DEF MemWrite, RvWrite
<1>3. word'[Lock] = word[Lock] /\ word' \in [Addresses -> {0, 1}]
  BY <1>2 DEF Parameters, IInv, LocksTypeOK, Addresses
<1>4. /\ valid' \in [Lockers -> BOOLEAN]
      /\ \A d \in Lockers : valid'[d] => valid[d]
  BY <1>1, Zenon DEF IInv, LocksTypeOK, MemWrite, RvWrite, ObserveStore, ExclClear
<1>5. kind' = kind /\ pc' = pc /\ irq' = irq /\ irqs' = irqs
  BY DEF HandlerStore
<1> QED
  BY <1>2, <1>3, <1>4, <1>5
     DEF IInv, LocksTypeOK, MutualExclusion, Exclusive, ReservationsCurrent, WordTells

\* The strengthened invariant is inductive.
LEMMA NextIInv == Parameters /\ ~TryLock /\ IInv /\ [LocksNext]_lockVars => IInv'
<1> SUFFICES ASSUME Parameters, ~TryLock, IInv, [LocksNext]_lockVars PROVE IInv'
  OBVIOUS
<1>1. CASE UNCHANGED lockVars
  BY <1>1 DEF lockVars, IInv, LocksTypeOK, MutualExclusion, Exclusive, ReservationsCurrent, WordTells
<1>2. ASSUME NEW c \in Lockers, LockStep(c) PROVE IInv'
  BY <1>2, LdrexIInv, StrexIInv, ClaimIInv, LrScIInv, ReleaseIInv, IrqIInv DEF LockStep
<1>3. ASSUME NEW c \in Lockers, Interrupt(c) \/ HandlerLoad(c) \/ HandlerStore(c) PROVE IInv'
  BY <1>3, IrqIInv, HandlerLoadIInv, HandlerStoreIInv
<1> QED BY <1>1, <1>2, <1>3 DEF LocksNext

\* Spinlocks built from LDREX/STREX, SIO spinlocks, boot locks and AMOSWAP
\* exclude, whatever the number of cores: arm_excl_observe_store, exception
\* entry and the read-to-claim registers are enough for it.
THEOREM LocksExclude == Parameters /\ ~TryLock /\ LocksSpec => []MutualExclusion
<1>1. Parameters /\ LocksInit => IInv
  BY InitIInv
<1>2. Parameters /\ ~TryLock /\ IInv /\ [LocksNext]_lockVars => IInv'
  BY NextIInv
<1>3. IInv => MutualExclusion
  BY DEF IInv
<1>4. Parameters /\ ~TryLock => (LocksSpec => []MutualExclusion)
  <2> SUFFICES ASSUME Parameters, ~TryLock PROVE LocksSpec => []MutualExclusion
    OBVIOUS
  <2>1. LocksInit => IInv
    BY <1>1
  <2>2. IInv /\ [LocksNext]_lockVars => IInv'
    BY <1>2
  <2> QED BY <1>3, <2>1, <2>2, PTL DEF LocksSpec
<1> QED BY <1>4
=============================================================================
