-------------------------- MODULE ExceptionsProofs --------------------------
(***************************************************************************)
(* Proofs about Exceptions, for every number of interrupts, priority       *)
(* levels, nesting depth and IT length: type correctness for any firmware; *)
(* for lawful firmware the nesting invariant and what follows from it; and *)
(* what the choice of the interrupt, exception entry and late arrival      *)
(* guarantee.                                                              *)
(***************************************************************************)
EXTENDS Exceptions, SequenceTheorems, WellFoundedInduction, TLAPS

USE SizesAssumption, GuestAssumption, DepthAssumption

-----------------------------------------------------------------------------
(* Type correctness *)

\* Popping a stack keeps what is below its top.
LEMMA DropLast ==
  ASSUME NEW S, NEW s \in Seq(S), s # <<>>
  PROVE  /\ Len(s) \in Nat \ {0}
         /\ s[Len(s)] \in S
         /\ SubSeq(s, 1, Len(s) - 1) \in Seq(S)
         /\ Len(SubSeq(s, 1, Len(s) - 1)) = Len(s) - 1
         /\ \A i \in 1 .. Len(s) - 1 : SubSeq(s, 1, Len(s) - 1)[i] = s[i]
<1> DEFINE n == Len(s) - 1
<1>1. Len(s) \in Nat /\ Len(s) # 0 /\ \A i \in 1 .. Len(s) : s[i] \in S
  OBVIOUS
<1>2. n \in Int /\ n >= 0 /\ \A i \in 1 .. n : s[i] \in S
  BY <1>1
<1>3. /\ SubSeq(s, 1, n) \in Seq(S)
      /\ Len(SubSeq(s, 1, n)) = IF 1 <= n THEN n - 1 + 1 ELSE 0
      /\ \A i \in 1 .. n - 1 + 1 : SubSeq(s, 1, n)[i] = s[1 + i - 1]
  <2> HIDE DEF n
  <2>1. 1 \in Int
    OBVIOUS
  <2> QED
    BY <1>2, <2>1, SubSeqProperties
<1>4. n - 1 + 1 = n /\ \A i \in 1 .. n : 1 + i - 1 = i
  BY <1>2
<1>5. Len(SubSeq(s, 1, n)) = n /\ \A i \in 1 .. n : SubSeq(s, 1, n)[i] = s[i]
  <2> HIDE DEF n
  <2> QED
    BY <1>2, <1>3, <1>4
<1> QED
  BY <1>1, <1>3, <1>5

\* Priorities are levels; Thread mode is weaker than every exception.
LEMMA PriorityRange ==
  ASSUME TypeOK
  PROVE  /\ \A v \in Vectors : Priority(v) \in Pri
         /\ Priority(NoExc) = NumPri
         /\ Priority(HARDFAULT) = 0
         /\ \A v \in Configurable : Priority(v) = prio[v]
  BY DEF TypeOK, Priority, Vectors, Configurable, AsyncVectors, IrqVectors,
         NoExc, HARDFAULT, SVCALL, PENDSV, SYSTICK, ThreadPri, Pri

\* The priorities of exceptions are levels below NumPri.
LEMMA PriorityBelow ==
  ASSUME NestingInv
  PROVE  \A v \in Vectors : Priority(v) \in Nat /\ Priority(v) < NumPri
<1>1. TypeOK
  BY DEF NestingInv
<1> QED
  BY ONLY <1>1, PriorityRange, SizesAssumption DEF Pri

\* What it_check_skip leaves is a slot count again.
LEMMA ConsumeRange ==
  ASSUME TypeOK
  PROVE  Consume(it) \in 0 .. MaxIt /\ AfterInstr \in 0 .. MaxIt
  BY DEF TypeOK, Consume, AfterInstr

\* cpu_exception_entry keeps the types.
LEMMA EntryType ==
  ASSUME TypeOK, NEW v \in Vectors, NEW P \in SUBSET AsyncVectors,
         NEW si \in 0 .. MaxIt, NEW fi \in 0 .. MaxIt,
         CpuExceptionEntry(v, P, si, fi),
         enable' = enable, prio' = prio, nondefault' = nondefault,
         maskVars' = maskVars, halted' \in BOOLEAN
  PROVE  TypeOK'
<1>1. PICK w \in Vectors :
        /\ \/ /\ LateWins(w, P, Priority(v))
              /\ pended' = (P \cup Repend(v)) \ {w}
              /\ active' = (active \ {v}) \cup {w}
              /\ iabr' = (iabr \ {v}) \cup ({w} \cap IrqVectors)
           \/ /\ w = v
              /\ pended' = P
              /\ active' = active \cup {v}
              /\ iabr' = iabr \cup ({v} \cap IrqVectors)
        /\ current' = w
        /\ ipsr' = w
        /\ excStack' = IF Len(excStack) < MaxDepth
                       THEN Append(excStack, [irq |-> current, it |-> si])
                       ELSE excStack
        /\ frames' = Append(frames, [ipsr |-> ipsr, it |-> fi])
        /\ it' = 0
        /\ inBlock' = FALSE
  BY DEF CpuExceptionEntry
<1>2. pended' \subseteq AsyncVectors /\ active' \subseteq Vectors /\ iabr' \subseteq IrqVectors
  BY <1>1 DEF TypeOK, Repend
<1>3. [irq |-> current, it |-> si] \in Saved /\ [ipsr |-> ipsr, it |-> fi] \in Frame
  BY DEF TypeOK, Saved, Frame
<1>4. excStack' \in Seq(Saved) /\ Len(excStack') <= MaxDepth /\ frames' \in Seq(Frame)
  BY <1>1, <1>3 DEF TypeOK
<1>5. /\ primask' \in BOOLEAN /\ faultmask' \in BOOLEAN /\ basepri' \in 0 .. NumPri
      /\ inBlock' \in BOOLEAN
  BY <1>1, Zenon DEF TypeOK, maskVars
<1>6. current' \in Vectors \cup {NoExc} /\ ipsr' \in Vectors \cup {NoExc} /\ it' \in 0 .. MaxIt
  BY <1>1
<1> QED
  BY <1>2, <1>4, <1>5, <1>6 DEF TypeOK

\* The operations that leave the exception state alone keep the types.
LEMMA QuietType ==
  ASSUME TypeOK, UNCHANGED excVars,
         enable' \subseteq IrqVectors, pended' \subseteq AsyncVectors,
         prio' \in [Configurable -> Pri], nondefault' \in BOOLEAN,
         primask' \in BOOLEAN, faultmask' \in BOOLEAN, basepri' \in 0 .. NumPri,
         it' \in 0 .. MaxIt, inBlock' \in BOOLEAN, halted' \in BOOLEAN
  PROVE  TypeOK'
  BY DEF TypeOK, excVars

\* The instructions that fall through or end a block change no type.
LEMMA InstrType ==
  ASSUME TypeOK, Falls \/ (\E wide \in BOOLEAN : Ends(wide))
  PROVE  /\ it' \in 0 .. MaxIt /\ inBlock' \in BOOLEAN /\ halted' \in BOOLEAN
         /\ UNCHANGED excVars
  BY ConsumeRange, Zenon DEF TypeOK, Falls, Ends

\* A register store keeps the types.
LEMMA RegisterType ==
  ASSUME TypeOK, Register
  PROVE  TypeOK'
<1>1. Falls
  BY Zenon DEF Register, WriteIser, WriteIcer, WriteIspr, WriteIcpr, WriteIcsr, WriteIpr, WriteShpr
<1>2. enable' \subseteq IrqVectors /\ pended' \subseteq AsyncVectors
  BY Zenon DEF Register, WriteIser, WriteIcer, WriteIspr, WriteIcpr, WriteIcsr, WriteIpr,
         WriteShpr, TypeOK, AsyncVectors
<1>3. ASSUME NEW f, NEW D \in SUBSET Configurable, f \in [D -> Pri], SetPriorities(f)
      PROVE  prio' \in [Configurable -> Pri]
  BY <1>3 DEF SetPriorities, TypeOK
<1>4. \A n : IprWord(n) \in SUBSET Configurable
  BY DEF IprWord, Configurable, AsyncVectors
<1>5. {SVCALL} \in SUBSET Configurable /\ {PENDSV, SYSTICK} \in SUBSET Configurable
  BY DEF Configurable, AsyncVectors
<1>6. prio' \in [Configurable -> Pri]
  <2>1. CASE \E n \in 0 .. (NumIrqs \div 4) : \E f \in [IprWord(n) -> Pri] : WriteIpr(f)
    BY <2>1, <1>3, <1>4 DEF WriteIpr
  <2>2. CASE \E f \in [{SVCALL} -> Pri] \cup [{PENDSV, SYSTICK} -> Pri] : WriteShpr(f)
    BY <2>2, <1>3, <1>5 DEF WriteShpr
  <2>3. CASE prio' = prio
    BY <2>3 DEF TypeOK
  <2> QED
    BY <2>1, <2>2, <2>3, Zenon DEF Register, WriteIser, WriteIcer, WriteIspr, WriteIcpr, WriteIcsr
<1>7. nondefault' \in BOOLEAN
  BY Zenon DEF Register, WriteIser, WriteIcer, WriteIspr, WriteIcpr, WriteIcsr, WriteIpr,
         WriteShpr, TypeOK
<1>8. primask' \in BOOLEAN /\ faultmask' \in BOOLEAN /\ basepri' \in 0 .. NumPri
  BY <1>1 DEF Falls, maskVars, TypeOK
<1> QED
  BY <1>1, <1>2, <1>6, <1>7, <1>8, InstrType, QuietType

\* cpu_exception_return keeps the types.
LEMMA ReturnType ==
  ASSUME TypeOK, CpuExceptionReturn
  PROVE  TypeOK'
<1>1. /\ inBlock' = FALSE
      /\ UNCHANGED <<enable, prio, nondefault, primask, basepri, halted>>
  BY DEF CpuExceptionReturn
<1>2. CASE \E v \in AsyncVectors : TailChain(v)
  BY <1>1, <1>2, ConsumeRange, Zenon DEF TailChain, TypeOK, Vectors, Configurable
<1>3. CASE Unstack
  <2>1. Len(frames) > 0 /\ frames[Len(frames)] \in Frame
    BY <1>3 DEF Unstack, TypeOK
  <2>2. frames' \in Seq(Frame) /\ ipsr' \in Vectors \cup {NoExc}
    BY <1>3, <2>1, DropLast, Zenon DEF Unstack, TypeOK, Frame
  <2>3. /\ excStack' \in Seq(Saved) /\ Len(excStack') <= MaxDepth
        /\ current' \in Vectors \cup {NoExc} /\ it' \in 0 .. MaxIt
    <3>1. CASE excStack = <<>>
      BY <1>3, <3>1, ConsumeRange DEF Unstack, TypeOK
    <3>2. CASE excStack # <<>>
      <4>1. Len(excStack) > 0 /\ excStack[Len(excStack)] \in Saved
        BY <3>2 DEF TypeOK
      <4>2. /\ current' = excStack[Len(excStack)].irq
            /\ it' = excStack[Len(excStack)].it
            /\ excStack' = SubSeq(excStack, 1, Len(excStack) - 1)
        BY <1>3, <3>2 DEF Unstack
      <4>3. excStack' \in Seq(Saved) /\ Len(excStack') = Len(excStack) - 1
        BY <3>2, <4>2, DropLast DEF TypeOK
      <4> QED
        BY <4>1, <4>2, <4>3 DEF TypeOK, Saved
    <3> QED
      BY <3>1, <3>2
  <2> QED
    BY <1>1, <1>3, <2>2, <2>3, Zenon DEF Unstack, TypeOK
<1> QED
  BY <1>2, <1>3 DEF CpuExceptionReturn

\* Every step of the core keeps the types.
LEMMA TypeStep == TypeOK /\ [Next]_vars => TypeOK'
<1> SUFFICES ASSUME TypeOK, [Next]_vars
             PROVE  TypeOK'
  OBVIOUS
<1> USE DEF maskVars, nvicVars, cpuVars
<1>1. CASE TakeInterrupt
  <2>1. PICK v \in AsyncVectors : CpuExceptionEntry(v, pended \ {v}, Consume(it), it)
    BY <1>1, Zenon DEF TakeInterrupt
  <2>2. v \in Vectors /\ pended \ {v} \in SUBSET AsyncVectors /\ it \in 0 .. MaxIt
    BY DEF TypeOK, Vectors, Configurable
  <2> QED
    BY <1>1, <2>1, <2>2, EntryType, ConsumeRange, Zenon DEF TakeInterrupt, TypeOK
<1>2. CASE Svc
  BY <1>2, EntryType, ConsumeRange, Zenon DEF Svc, TypeOK, Vectors, Configurable
<1>3. CASE HardFault
  <2>1. CASE current = HARDFAULT
    BY <1>3, <2>1 DEF HardFault, TypeOK, excVars
  <2>2. CASE current # HARDFAULT
    BY <1>3, <2>2, EntryType, ConsumeRange, Zenon DEF HardFault, TypeOK, Vectors
  <2> QED
    BY <2>1, <2>2
<1>4. CASE NoHandler
  BY <1>4, QuietType, ConsumeRange DEF NoHandler, TypeOK
<1>5. CASE CpuExceptionReturn
  BY <1>5, ReturnType
<1>6. CASE Register
  BY <1>6, RegisterType
<1>7. CASE Mask
  BY <1>7, InstrType, QuietType, Zenon DEF Mask, Cps, MsrFaultmask, MsrBasepri, Ends, TypeOK
<1>8. CASE (\E n \in 1 .. MaxIt : InstrIt(n)) \/ ItSkip
  <2>1. it' \in 0 .. MaxIt
    <3>1. CASE ItSkip
      BY <3>1, ConsumeRange DEF ItSkip
    <3>2. CASE \E n \in 1 .. MaxIt : InstrIt(n)
      <4>1. PICK n \in 1 .. MaxIt : it' = n
        BY <3>2 DEF InstrIt
      <4> QED
        BY <4>1
    <3> QED
      BY <1>8, <3>1, <3>2
  <2>2. inBlock' \in BOOLEAN
    <3>1. CASE ItSkip
      BY <3>1 DEF ItSkip, TypeOK
    <3>2. CASE \E n \in 1 .. MaxIt : InstrIt(n)
      BY <3>2, Zenon DEF InstrIt
    <3> QED
      BY <1>8, <3>1, <3>2
  <2>3. UNCHANGED <<nvicVars, maskVars, excVars, halted>>
    BY <1>8, Zenon DEF InstrIt, ItSkip
  <2> QED
    BY <2>1, <2>2, <2>3, QuietType DEF TypeOK
<1>9. CASE Plain
  BY <1>9, InstrType, QuietType, Zenon DEF Plain, Falls, TypeOK
<1>10. CASE \E v \in IrqVectors \cup {SYSTICK} : NvicSignalIrq(v)
  BY <1>10, QuietType DEF NvicSignalIrq, TypeOK, AsyncVectors
<1>11. CASE UNCHANGED vars
  BY <1>11 DEF vars, excVars, TypeOK
<1> QED
  BY <1>1, <1>2, <1>3, <1>4, <1>5, <1>6, <1>7, <1>8, <1>9, <1>10, <1>11 DEF Next

\* The initial state is well typed.
LEMMA TypeInit == Init => TypeOK
<1> SUFFICES ASSUME Init PROVE TypeOK
  OBVIOUS
<1>1. <<>> \in Seq(Saved) /\ <<>> \in Seq(Frame) /\ Len(<<>>) = 0
  OBVIOUS
<1>2. prio \in [Configurable -> Pri] /\ 0 \in 0 .. MaxIt /\ 0 \in 0 .. NumPri
  BY DEF Init, Pri
<1>3. excStack \in Seq(Saved) /\ Len(excStack) <= MaxDepth /\ frames \in Seq(Frame)
  BY <1>1 DEF Init
<1> QED
  BY <1>2, <1>3, Zenon DEF Init, TypeOK

\* The core's exception state is well typed whatever the firmware does: in
\* particular exception_depth never exceeds MAX_EXCEPTION_DEPTH.
THEOREM TypeCorrect == Spec => []TypeOK
  BY TypeInit, TypeStep, PTL DEF Spec

-----------------------------------------------------------------------------
(* Nesting *)

ChainOK ==
  /\ NestingMatchesFrames
  /\ ActiveIsChain
  /\ PrioritiesDescend
  /\ Depth > 0 => excStack[1].irq = NoExc
  /\ \A k \in 1 .. Depth :
       /\ Chain(k) \in Vectors
       /\ Chain(k) = HARDFAULT \/ Priority(Chain(k)) + k <= NumPri

\* What the invariant says of the innermost exception.
LEMMA Innermost ==
  ASSUME NestingInv
  PROVE  /\ Depth \in Nat /\ Depth = Len(excStack)
         /\ Depth > 0 => Chain(Depth) = current /\ current \in Vectors
         /\ Depth = 0 => current = NoExc
         /\ current # HARDFAULT => Depth <= NumPri
         /\ current # HARDFAULT /\ Depth > 0 => Priority(current) + Depth <= NumPri
<1>1. Depth \in Nat
  BY DEF NestingInv, TypeOK, Depth
<1>2. Depth > 0 => Chain(Depth) = current /\ Depth \in 1 .. Depth
  BY <1>1 DEF Chain
<1>3. Depth > 0 => current \in Vectors
  BY <1>2 DEF NestingInv
<1>4. Depth = 0 => current = NoExc
  BY DEF NestingInv, NestingMatchesFrames
<1>5. current # HARDFAULT /\ Depth > 0 => Priority(current) + Depth <= NumPri
  BY <1>2 DEF NestingInv
<1>6. Depth > 0 => Priority(current) \in Nat
  BY <1>3, PriorityRange DEF NestingInv, Pri
<1> QED
  BY <1>1, <1>2, <1>3, <1>4, <1>5, <1>6 DEF Depth

\* Pushing an exception stronger than the current one (or HardFault on top of
\* anything but itself) keeps the chain.
LEMMA PushKeepsChain ==
  ASSUME NestingInv, NEW w \in Vectors, NEW si, NEW fi,
         \/ w = HARDFAULT /\ current # HARDFAULT
         \/ Priority(w) < Priority(current),
         current' = w, ipsr' = w,
         excStack' = IF Len(excStack) < MaxDepth
                     THEN Append(excStack, [irq |-> current, it |-> si])
                     ELSE excStack,
         frames' = Append(frames, [ipsr |-> ipsr, it |-> fi]),
         active' = active \cup {w},
         iabr' = iabr \cup ({w} \cap IrqVectors),
         prio' = prio
  PROVE  ChainOK'
<1>0. PICK d \in Nat : d = Depth
  BY Innermost
<1>1. d = Depth /\ d = Len(excStack) /\ excStack \in Seq(Saved) /\ frames \in Seq(Frame)
  BY <1>0, Innermost DEF NestingInv, TypeOK
<1>2. \A v \in Vectors : Priority(v) \in Nat /\ Priority(v) < NumPri
  BY PriorityBelow
<1>3. current # HARDFAULT
  BY <1>2, PriorityRange DEF NestingInv
<1>4. d <= NumPri
  BY <1>0, <1>3, Innermost
<1>5. w = HARDFAULT \/ Priority(w) + (d + 1) <= NumPri
  BY <1>1, <1>2, <1>3, Innermost
<1>6. excStack' = Append(excStack, [irq |-> current, it |-> si])
  BY <1>1, <1>4
<1>7. /\ Depth' = d + 1
      /\ \A i \in 1 .. d : excStack'[i] = excStack[i]
      /\ excStack'[d + 1].irq = current
  BY <1>1, <1>6 DEF Depth
<1>8. \A k \in 1 .. d : Chain(k)' = Chain(k)
  <2> SUFFICES ASSUME NEW k \in 1 .. d PROVE Chain(k)' = Chain(k)
    OBVIOUS
  <2>1. Chain(k)' = excStack'[k + 1].irq
    BY <1>1, <1>7 DEF Chain
  <2>2. CASE k = d
    <3>1. excStack'[k + 1].irq = current
      BY <1>7, <2>2, Zenon
    <3>2. Chain(k) = current
      BY <1>0, <2>2 DEF Chain
    <3> QED
      BY <2>1, <3>1, <3>2, Zenon
  <2>3. CASE k < d
    BY <2>1, <2>3, <1>1, <1>7 DEF Chain
  <2> QED
    BY <1>1, <2>2, <2>3
<1>9. Chain(d + 1)' = w
  BY <1>1, <1>7 DEF Chain
<1>10. \A v : Priority(v)' = Priority(v)
  BY DEF Priority
<1>11. NestingMatchesFrames'
  <2>1. Len(frames) = d /\ (\A k \in 1 .. d : frames[k].ipsr = excStack[k].irq) /\ ipsr = current
    BY <1>0 DEF NestingInv, NestingMatchesFrames
  <2>2. /\ Len(frames') = d + 1
        /\ \A i \in 1 .. d : frames'[i] = frames[i]
        /\ frames'[d + 1] = [ipsr |-> ipsr, it |-> fi]
    <3>1. /\ frames \in Seq(Frame) /\ Len(frames) = d /\ d \in Nat
          /\ frames' = Append(frames, [ipsr |-> ipsr, it |-> fi])
      BY <1>1, <2>1
    <3> QED
      BY ONLY <3>1
  <2>3. \A k \in 1 .. d + 1 : frames'[k].ipsr = excStack'[k].irq
    BY <1>1, <1>7, <2>1, <2>2
  <2>4. w # NoExc
    BY DEF Vectors, Configurable, AsyncVectors, IrqVectors, NoExc, HARDFAULT, SVCALL,
           PENDSV, SYSTICK
  <2> QED
    BY <1>1, <1>7, <2>2, <2>3, <2>4 DEF NestingMatchesFrames
<1>12. ActiveIsChain'
  <2>1. active = {Chain(k) : k \in 1 .. d} /\ iabr = active \cap IrqVectors
    BY <1>0 DEF NestingInv, ActiveIsChain
  <2>2. {Chain(k)' : k \in 1 .. d + 1} = {Chain(k) : k \in 1 .. d} \cup {w}
    <3>1. 1 .. d + 1 = (1 .. d) \cup {d + 1}
      BY <1>0
    <3> QED
      BY ONLY <1>8, <1>9, <3>1, ZenonT(30)
  <2> QED
    BY <1>7, <2>1, <2>2, Zenon DEF ActiveIsChain
<1>13. PrioritiesDescend'
  <2> SUFFICES ASSUME NEW j \in 1 .. d + 1, NEW k \in 1 .. d + 1, j < k
               PROVE  /\ Chain(j)' # HARDFAULT
                      /\ Chain(k)' = HARDFAULT \/ Priority(Chain(k)') < Priority(Chain(j)')
    BY <1>7, <1>10 DEF PrioritiesDescend
  <2>1. j \in 1 .. d /\ Chain(j)' = Chain(j) /\ d > 0
    BY <1>1, <1>8
  <2>2. \A m \in 1 .. d : j < m =>
          Chain(j) # HARDFAULT /\ (Chain(m) = HARDFAULT \/ Priority(Chain(m)) < Priority(Chain(j)))
    BY <1>0, <2>1 DEF NestingInv, PrioritiesDescend
  <2>3. CASE k \in 1 .. d
    BY <1>8, <2>1, <2>2, <2>3
  <2>4. CASE k = d + 1
    <3>1. Chain(d) = current /\ d \in 1 .. d
      BY <2>1, <1>1, Innermost
    <3>2. Chain(j) # HARDFAULT /\ (j = d \/ Priority(current) < Priority(Chain(j)))
      BY <1>1, <1>3, <2>1, <2>2, <3>1
    <3>3. Chain(j) \in Vectors /\ current \in Vectors
      BY <1>0, <2>1, <3>1 DEF NestingInv
    <3>4. w = HARDFAULT \/ Priority(w) < Priority(Chain(j))
      BY <1>2, <3>1, <3>2, <3>3
    <3> QED
      BY <1>9, <2>1, <2>4, <3>2, <3>4
  <2> QED
    BY <1>0, <2>3, <2>4
<1>14. excStack'[1].irq = NoExc
  <2>1. CASE d = 0
    BY <1>0, <2>1, <1>7, Innermost
  <2>2. CASE d > 0
    BY <2>2, <1>1, <1>7 DEF NestingInv
  <2> QED
    BY <1>1, <2>1, <2>2
<1>15. \A k \in 1 .. d + 1 :
         /\ Chain(k)' \in Vectors
         /\ Chain(k)' = HARDFAULT \/ Priority(Chain(k)') + k <= NumPri
  <2> SUFFICES ASSUME NEW k \in 1 .. d + 1
               PROVE  /\ Chain(k)' \in Vectors
                      /\ Chain(k)' = HARDFAULT \/ Priority(Chain(k)') + k <= NumPri
    OBVIOUS
  <2>1. CASE k \in 1 .. d
    BY <1>0, <1>8, <2>1 DEF NestingInv
  <2>2. CASE k = d + 1
    BY <1>5, <1>9, <2>2
  <2> QED
    BY <1>1, <2>1, <2>2
<1>16. Vectors' = Vectors
  OBVIOUS
<1> QED
  BY <1>7, <1>10, <1>11, <1>12, <1>13, <1>14, <1>15, <1>16 DEF ChainOK

\* No exception is in progress twice: the innermost differs from the others.
LEMMA InnermostDistinct ==
  ASSUME NestingInv, NEW k \in 1 .. Depth, k # Depth
  PROVE  Chain(k) # current /\ Chain(k) # HARDFAULT
<1>1. Depth \in Nat /\ Depth \in 1 .. Depth /\ k < Depth /\ Chain(Depth) = current
  BY Innermost
<1>2. /\ Chain(k) # HARDFAULT
      /\ current = HARDFAULT \/ Priority(current) < Priority(Chain(k))
  BY <1>1 DEF NestingInv, PrioritiesDescend
<1>3. Chain(k) \in Vectors /\ current \in Vectors
  BY <1>1 DEF NestingInv
<1>4. Priority(Chain(k)) \in Nat /\ Priority(current) \in Nat
  BY <1>3, PriorityRange DEF NestingInv, Pri
<1> QED
  BY <1>2, <1>4

\* Unstacking resumes the exception below and keeps the chain.
LEMMA PopKeepsChain ==
  ASSUME NestingInv, current # NoExc, Unstack, prio' = prio
  PROVE  ChainOK'
<1>0. PICK d \in Nat : d = Depth
  BY Innermost
<1>1. d > 0 /\ d = Len(excStack) /\ excStack \in Seq(Saved) /\ frames \in Seq(Frame)
  BY <1>0, Innermost DEF NestingInv, TypeOK
<1>2. Len(frames) = d /\ (\A k \in 1 .. d : frames[k].ipsr = excStack[k].irq) /\ ipsr = current
  BY <1>0 DEF NestingInv, NestingMatchesFrames
<1>3. /\ current' = excStack[d].irq
      /\ excStack' = SubSeq(excStack, 1, Len(excStack) - 1)
      /\ frames' = SubSeq(frames, 1, Len(frames) - 1)
      /\ ipsr' = frames[Len(frames)].ipsr
      /\ active' = active \ {current}
      /\ iabr' = iabr \ {current}
  BY <1>1 DEF Unstack
<1>4. excStack # <<>> /\ frames # <<>>
  BY <1>1, <1>2
<1>5. /\ Depth' = d - 1
      /\ \A i \in 1 .. d - 1 : excStack'[i] = excStack[i]
  BY <1>1, <1>3, <1>4, DropLast DEF Depth
<1>6. Len(frames') = d - 1 /\ \A i \in 1 .. d - 1 : frames'[i] = frames[i]
  BY <1>1, <1>2, <1>3, <1>4, DropLast
<1>7. \A k \in 1 .. d - 1 : Chain(k)' = Chain(k)
  <2> SUFFICES ASSUME NEW k \in 1 .. d - 1 PROVE Chain(k)' = Chain(k)
    OBVIOUS
  <2>1. Chain(k) = excStack[k + 1].irq
    BY <1>0 DEF Chain
  <2>2. CASE k = d - 1
    <3>1. Chain(k)' = current'
      BY <1>5, <2>2 DEF Chain
    <3>2. k + 1 = d
      BY <2>2
    <3> QED
      BY <1>3, <2>1, <3>1, <3>2
  <2>3. CASE k # d - 1
    <3>1. Chain(k)' = excStack'[k + 1].irq
      BY <1>5, <2>3 DEF Chain
    <3>2. k + 1 \in 1 .. d - 1
      BY <1>0, <2>3
    <3> QED
      BY <1>5, <2>1, <3>1, <3>2
  <2> QED
    BY <2>2, <2>3
<1>8. \A v : Priority(v)' = Priority(v)
  BY DEF Priority
<1>9. \A k \in 1 .. d : Chain(k) \in Vectors
  BY <1>0 DEF NestingInv
<1>10. current' = NoExc <=> d - 1 = 0
  <2>1. CASE d = 1
    BY <1>0, <1>3, <2>1 DEF NestingInv
  <2>2. CASE d > 1
    <3>1. d - 1 \in 1 .. d - 1 /\ d - 1 \in 1 .. d
      BY <1>0, <2>2
    <3>2. Chain(d - 1)' = current'
      BY <1>5 DEF Chain
    <3>3. current' \in Vectors
      BY <1>7, <1>9, <3>1, <3>2
    <3> QED
      BY <2>2, <3>3 DEF Vectors, Configurable, AsyncVectors, IrqVectors, NoExc,
                        HARDFAULT, SVCALL, PENDSV, SYSTICK
  <2> QED
    BY <1>0, <1>1, <2>1, <2>2
<1>11. NestingMatchesFrames'
  <2>1. ipsr' = current'
    BY <1>0, <1>1, <1>2, <1>3
  <2>2. \A k \in 1 .. d - 1 : frames'[k].ipsr = excStack'[k].irq
    <3>1. \A k \in 1 .. d - 1 : k \in 1 .. d
      BY <1>0
    <3> QED
      BY <1>2, <1>5, <1>6, <3>1
  <2> QED
    BY <1>5, <1>6, <1>10, <2>1, <2>2 DEF NestingMatchesFrames
<1>12. ActiveIsChain'
  <2>1. active = {Chain(k) : k \in 1 .. d} /\ iabr = active \cap IrqVectors
    BY <1>0 DEF NestingInv, ActiveIsChain
  <2>2. 1 .. d = (1 .. d - 1) \cup {d}
    BY <1>0, <1>1
  <2>3. Chain(d) = current
    BY <1>0 DEF Chain
  <2>4. \A k \in 1 .. d - 1 : Chain(k) # current
    BY <1>0, InnermostDistinct
  <2>5. {Chain(k) : k \in 1 .. d} \ {current} = {Chain(k)' : k \in 1 .. d - 1}
    BY <1>7, <2>2, <2>3, <2>4, Zenon
  <2> QED
    BY <1>3, <1>5, <2>1, <2>5, Zenon DEF ActiveIsChain
<1>13. PrioritiesDescend'
  <2> SUFFICES ASSUME NEW j \in 1 .. d - 1, NEW k \in 1 .. d - 1, j < k
               PROVE  /\ Chain(j)' # HARDFAULT
                      /\ Chain(k)' = HARDFAULT \/ Priority(Chain(k)') < Priority(Chain(j)')
    BY <1>5, <1>8 DEF PrioritiesDescend
  <2>1. j \in 1 .. d /\ k \in 1 .. d
    BY <1>0
  <2>2. Chain(j) # HARDFAULT /\ (Chain(k) = HARDFAULT \/ Priority(Chain(k)) < Priority(Chain(j)))
    BY <1>0, <2>1 DEF NestingInv, PrioritiesDescend
  <2> QED
    BY <1>7, <2>2
<1>14. d - 1 > 0 => excStack'[1].irq = NoExc
  BY <1>0, <1>5 DEF NestingInv
<1>15. \A k \in 1 .. d - 1 :
         /\ Chain(k)' \in Vectors
         /\ Chain(k)' = HARDFAULT \/ Priority(Chain(k)') + k <= NumPri
  <2> SUFFICES ASSUME NEW k \in 1 .. d - 1
               PROVE  /\ Chain(k)' \in Vectors
                      /\ Chain(k)' = HARDFAULT \/ Priority(Chain(k)') + k <= NumPri
    OBVIOUS
  <2>1. k \in 1 .. Depth
    BY <1>0
  <2> QED
    BY <1>7, <2>1 DEF NestingInv
<1> QED
  BY <1>5, <1>8, <1>11, <1>12, <1>13, <1>14, <1>15 DEF ChainOK

\* A step that leaves the exception state alone, and the priorities too unless
\* no exception is in progress, keeps the chain.
LEMMA QuietKeepsChain ==
  ASSUME NestingInv, UNCHANGED excVars, prio' = prio \/ current = NoExc
  PROVE  ChainOK'
<1>1. Depth' = Depth /\ \A k : Chain(k)' = Chain(k)
  BY DEF excVars, Depth, Chain
<1>2. NestingMatchesFrames' /\ ActiveIsChain'
  BY <1>1 DEF NestingInv, NestingMatchesFrames, ActiveIsChain, excVars
<1>3. CASE prio' = prio
  <2>1. \A v : Priority(v)' = Priority(v)
    BY <1>3 DEF Priority
  <2> QED
    BY <1>1, <1>2, <2>1 DEF NestingInv, ChainOK, PrioritiesDescend, excVars
<1>4. CASE current = NoExc
  <2>1. Depth = 0
    BY <1>4 DEF NestingInv, NestingMatchesFrames
  <2> QED
    BY <1>1, <1>2, <2>1 DEF ChainOK, PrioritiesDescend
<1> QED
  BY <1>3, <1>4

\* Tail-chaining replaces the innermost exception by one stronger than the
\* exception below it, and keeps the chain.
LEMMA TailKeepsChain ==
  ASSUME NestingInv, current # NoExc, NEW w \in AsyncVectors, TailChain(w),
         Priority(w) < ReturnPri, prio' = prio
  PROVE  ChainOK'
<1>0. PICK d \in Nat : d = Depth
  BY Innermost
<1>1. d > 0 /\ d = Len(excStack) /\ excStack \in Seq(Saved) /\ excStack # <<>>
  BY <1>0, Innermost DEF NestingInv, TypeOK
<1>2. /\ current' = w /\ ipsr' = w
      /\ excStack' = excStack /\ frames' = frames
      /\ active' = (active \ {current}) \cup {w}
      /\ iabr' = (iabr \ {current}) \cup ({w} \cap IrqVectors)
  BY DEF TailChain
<1>3. w \in Vectors /\ w # NoExc /\ w # HARDFAULT
  BY DEF Vectors, Configurable, AsyncVectors, IrqVectors, NoExc, HARDFAULT, SVCALL,
         PENDSV, SYSTICK
<1>4. \A v \in Vectors : Priority(v) \in Nat /\ Priority(v) < NumPri
  BY PriorityBelow
<1>5. Depth' = d
  BY <1>0, <1>2 DEF Depth
<1>6. \A k \in 1 .. d - 1 : Chain(k)' = Chain(k) /\ Chain(k) = excStack[k + 1].irq
  BY <1>0, <1>2, <1>5 DEF Chain
<1>7. Chain(d)' = w /\ Chain(d) = current
  BY <1>0, <1>2, <1>5 DEF Chain
<1>8. \A v : Priority(v)' = Priority(v)
  BY DEF Priority
<1>9. 1 .. d = (1 .. d - 1) \cup {d}
  BY <1>0, <1>1
<1>10. \A k \in 1 .. d - 1 : k \in 1 .. Depth /\ k # Depth /\ k < d
  BY <1>0
<1>11. \A k \in 1 .. d - 1 : Chain(k) # current /\ Chain(k) # HARDFAULT /\ Chain(k) \in Vectors
  BY <1>10, InnermostDistinct DEF NestingInv
<1>12. d > 1 => d - 1 \in 1 .. d - 1 /\ ReturnPri = Priority(Chain(d - 1))
  <2> SUFFICES ASSUME d > 1
               PROVE  d - 1 \in 1 .. d - 1 /\ ReturnPri = Priority(Chain(d - 1))
    OBVIOUS
  <2>1. d - 1 \in 1 .. d - 1 /\ (d - 1) + 1 = d
    BY <1>0
  <2>2. Chain(d - 1) = excStack[d].irq
    BY <1>6, <2>1
  <2> QED
    BY <1>1, <2>1, <2>2 DEF ReturnPri
<1>13. \A j \in 1 .. d - 1 : Priority(w) < Priority(Chain(j))
  <2> SUFFICES ASSUME NEW j \in 1 .. d - 1 PROVE Priority(w) < Priority(Chain(j))
    OBVIOUS
  <2>1. d > 1 /\ Chain(d - 1) \in Vectors /\ Chain(d - 1) # HARDFAULT
    BY <1>0, <1>11, <1>12
  <2>2. Priority(w) < Priority(Chain(d - 1))
    BY <1>12, <2>1
  <2>3. CASE j = d - 1
    BY <2>2, <2>3
  <2>4. CASE j # d - 1
    <3>1. j < d - 1 /\ j \in 1 .. Depth /\ d - 1 \in 1 .. Depth
      BY <1>0, <1>12, <2>1, <2>4
    <3>2. Priority(Chain(d - 1)) < Priority(Chain(j))
      BY <2>1, <3>1 DEF NestingInv, PrioritiesDescend
    <3> QED
      BY <1>3, <1>4, <1>11, <2>1, <2>2, <3>2
  <2> QED
    BY <2>3, <2>4
<1>14. NestingMatchesFrames'
  BY <1>0, <1>1, <1>2, <1>3, <1>5 DEF NestingInv, NestingMatchesFrames
<1>15. ActiveIsChain'
  <2>1. active = {Chain(k) : k \in 1 .. d} /\ iabr = active \cap IrqVectors
    BY <1>0 DEF NestingInv, ActiveIsChain
  <2>2. ({Chain(k) : k \in 1 .. d} \ {current}) \cup {w} = {Chain(k)' : k \in 1 .. d}
    <3>1. \A k \in 1 .. d - 1 : Chain(k)' = Chain(k)
      BY <1>6
    <3>2. {Chain(k) : k \in 1 .. d} \ {current} = {Chain(k)' : k \in 1 .. d - 1}
      BY <3>1, <1>7, <1>9, <1>11, Zenon
    <3>3. {Chain(k)' : k \in 1 .. d} = {Chain(k)' : k \in 1 .. d - 1} \cup {w}
      BY <1>7, <1>9, Zenon
    <3> QED
      BY <3>2, <3>3
  <2> QED
    BY <1>2, <1>5, <2>1, <2>2 DEF ActiveIsChain
<1>16. PrioritiesDescend'
  <2> SUFFICES ASSUME NEW j \in 1 .. d, NEW k \in 1 .. d, j < k
               PROVE  /\ Chain(j)' # HARDFAULT
                      /\ Chain(k)' = HARDFAULT \/ Priority(Chain(k)') < Priority(Chain(j)')
    BY <1>5, <1>8 DEF PrioritiesDescend
  <2>1. j \in 1 .. d - 1 /\ Chain(j)' = Chain(j)
    BY <1>0, <1>6
  <2>2. CASE k = d
    BY <1>7, <1>11, <1>13, <2>1, <2>2
  <2>3. CASE k \in 1 .. d - 1
    BY <1>0, <1>6, <2>1, <2>3 DEF NestingInv, PrioritiesDescend
  <2> QED
    BY <1>9, <2>2, <2>3
<1>17. excStack'[1].irq = NoExc
  BY <1>0, <1>1, <1>2 DEF NestingInv
<1>18. Priority(w) + d <= NumPri
  <2>1. CASE d = 1
    BY <1>3, <1>4, <2>1
  <2>2. CASE d > 1
    <3>1. d - 1 \in 1 .. Depth /\ Chain(d - 1) # HARDFAULT /\ Chain(d - 1) \in Vectors
      BY <1>10, <1>11, <1>12, <2>2
    <3>2. Priority(Chain(d - 1)) + (d - 1) <= NumPri
      BY <3>1 DEF NestingInv
    <3> QED
      BY <1>0, <1>3, <1>4, <1>12, <2>2, <3>1, <3>2
  <2> QED
    BY <1>0, <1>1, <2>1, <2>2
<1>19. \A k \in 1 .. d :
         /\ Chain(k)' \in Vectors
         /\ Chain(k)' = HARDFAULT \/ Priority(Chain(k)') + k <= NumPri
  <2> SUFFICES ASSUME NEW k \in 1 .. d
               PROVE  /\ Chain(k)' \in Vectors
                      /\ Chain(k)' = HARDFAULT \/ Priority(Chain(k)') + k <= NumPri
    OBVIOUS
  <2>1. CASE k = d
    BY <1>3, <1>7, <1>18, <2>1
  <2>2. CASE k \in 1 .. d - 1
    BY <1>6, <1>10, <2>2 DEF NestingInv
  <2> QED
    BY <1>9, <2>1, <2>2
<1> QED
  BY <1>5, <1>8, <1>14, <1>15, <1>16, <1>17, <1>19 DEF ChainOK

\* cpu_exception_entry for an exception stronger than the current one, or for
\* HardFault outside HardFault: with or without a late arrival, one exception
\* stronger than the current one is pushed.
LEMMA EntryKeepsChain ==
  ASSUME NestingInv, NEW v \in Vectors, NEW P \in SUBSET AsyncVectors,
         NEW si, NEW fi,
         CpuExceptionEntry(v, P, si, fi), prio' = prio,
         \/ v = HARDFAULT /\ current # HARDFAULT
         \/ Priority(v) < Priority(current)
  PROVE  ChainOK'
<1>1. PICK w \in Vectors :
        /\ \/ /\ LateWins(w, P, Priority(v))
              /\ active' = (active \ {v}) \cup {w}
              /\ iabr' = (iabr \ {v}) \cup ({w} \cap IrqVectors)
           \/ /\ w = v
              /\ active' = active \cup {v}
              /\ iabr' = iabr \cup ({v} \cap IrqVectors)
        /\ current' = w
        /\ ipsr' = w
        /\ excStack' = IF Len(excStack) < MaxDepth
                       THEN Append(excStack, [irq |-> current, it |-> si])
                       ELSE excStack
        /\ frames' = Append(frames, [ipsr |-> ipsr, it |-> fi])
  BY DEF CpuExceptionEntry
<1>0. TypeOK
  BY DEF NestingInv
<1>2. \A u \in Vectors : Priority(u) \in Nat
  BY PriorityBelow
<1>3. current \in Vectors \cup {NoExc} /\ Priority(current) \in Nat /\ NumPri \in Nat
  BY <1>2, PriorityRange DEF NestingInv, TypeOK
<1>4. CASE LateWins(w, P, Priority(v)) /\ active' = (active \ {v}) \cup {w}
           /\ iabr' = (iabr \ {v}) \cup ({w} \cap IrqVectors)
  <2>1. Priority(w) < Priority(v)
    BY <1>4 DEF LateWins, IrqWins, SysTickWins
  <2>2. v # HARDFAULT /\ Priority(v) < Priority(current) /\ Priority(w) < Priority(current)
    <3>1. Priority(HARDFAULT) = 0
      BY <1>0, PriorityRange
    <3>2. v # HARDFAULT
      BY <1>2, <2>1, <3>1
    <3> QED
      BY <1>2, <1>3, <2>1, <3>2
  <2>3. v \notin active
    <3> SUFFICES ASSUME v \in active PROVE FALSE
      OBVIOUS
    <3>1. PICK k \in 1 .. Depth : v = Chain(k)
      BY DEF NestingInv, ActiveIsChain
    <3>2. Depth \in Nat /\ Depth \in 1 .. Depth /\ Chain(Depth) = current
      BY <3>1, Innermost
    <3>3. current # HARDFAULT /\ current \in Vectors
      <4>1. current \in Vectors
        BY <3>2, Innermost
      <4>2. Priority(HARDFAULT) = 0
        BY <1>0, PriorityRange
      <4> QED
        BY <1>2, <2>2, <4>1, <4>2
    <3>4. k = Depth \/ Priority(current) < Priority(v)
      BY <3>1, <3>2, <3>3 DEF NestingInv, PrioritiesDescend
    <3> QED
      BY <1>2, <1>3, <2>2, <3>1, <3>2, <3>4
  <2>4. v \notin iabr
    BY <2>3 DEF NestingInv, ActiveIsChain
  <2>5. active' = active \cup {w} /\ iabr' = iabr \cup ({w} \cap IrqVectors)
    BY <1>4, <2>3, <2>4
  <2> QED
    BY <1>1, <2>2, <2>5, PushKeepsChain
<1>5. CASE w = v /\ active' = active \cup {v} /\ iabr' = iabr \cup ({v} \cap IrqVectors)
  BY <1>1, <1>5, PushKeepsChain
<1> QED
  BY <1>1, <1>4, <1>5

\* The initial state has no exception in progress.
LEMMA NestingInit == Init => NestingInv
<1> SUFFICES ASSUME Init PROVE NestingInv
  OBVIOUS
<1>1. Depth = 0 /\ Len(frames) = 0
  BY DEF Init, Depth
<1>2. 1 .. Depth = {}
  BY <1>1
<1>3. ActiveIsChain
  BY <1>2 DEF ActiveIsChain, Init
<1>4. NestingMatchesFrames /\ PrioritiesDescend
  BY <1>1, <1>2 DEF NestingMatchesFrames, PrioritiesDescend, Init
<1> QED
  BY <1>1, <1>2, <1>3, <1>4, TypeInit DEF NestingInv

\* Every step of lawful firmware, interrupt, fault or return keeps the nesting
\* invariant.
LEMMA NestingStep ==
  ASSUME Lawful
  PROVE  NestingInv /\ [Next]_vars => NestingInv'
<1> SUFFICES ASSUME NestingInv, [Next]_vars PROVE ChainOK'
  BY TypeStep DEF NestingInv, ChainOK
<1>1. CASE TakeInterrupt
  <2>1. PICK v \in AsyncVectors :
          Wins(v, pended, Priority(current)) /\ CpuExceptionEntry(v, pended \ {v}, Consume(it), it)
    BY <1>1, Zenon DEF TakeInterrupt
  <2>2. Priority(v) < Priority(current)
    BY <2>1 DEF Wins, LateWins, IrqWins, SysTickWins, PendSvWins
  <2>3. v \in Vectors /\ pended \ {v} \in SUBSET AsyncVectors
    BY DEF NestingInv, TypeOK, Vectors, Configurable
  <2>4. prio' = prio
    BY <1>1 DEF TakeInterrupt
  <2> QED
    BY <2>1, <2>2, <2>3, <2>4, EntryKeepsChain
<1>2. CASE Svc
  <2>1. /\ Priority(SVCALL) < Priority(current) /\ prio' = prio
        /\ CpuExceptionEntry(SVCALL, pended, AfterInstr, AfterInstr)
    BY <1>2 DEF Svc, Lawful
  <2>2. SVCALL \in Vectors /\ pended \in SUBSET AsyncVectors
    BY DEF NestingInv, TypeOK, Vectors, Configurable
  <2> QED
    BY <2>1, <2>2, EntryKeepsChain
<1>3. CASE HardFault
  <2>1. CASE current = HARDFAULT
    <3>1. UNCHANGED excVars /\ prio' = prio
      BY <1>3, <2>1 DEF HardFault
    <3> QED
      BY <3>1, QuietKeepsChain
  <2>2. CASE current # HARDFAULT
    <3>1. prio' = prio /\ CpuExceptionEntry(HARDFAULT, pended, AfterInstr, AfterInstr)
      BY <1>3, <2>2 DEF HardFault
    <3>2. HARDFAULT \in Vectors /\ pended \in SUBSET AsyncVectors
      BY DEF NestingInv, TypeOK, Vectors
    <3> QED
      BY <2>2, <3>1, <3>2, EntryKeepsChain
  <2> QED
    BY <2>1, <2>2
<1>4. CASE CpuExceptionReturn
  <2>1. current # NoExc /\ prio' = prio
    BY <1>4 DEF CpuExceptionReturn
  <2>2. CASE \E v \in AsyncVectors : TailChain(v)
    <3>1. PICK v \in AsyncVectors : TailChain(v)
      BY <2>2
    <3>2. Priority(v) < ReturnPri
      BY <3>1 DEF TailChain, Wins, LateWins, IrqWins, SysTickWins, PendSvWins
    <3> QED
      BY <2>1, <3>1, <3>2, TailKeepsChain
  <2>3. CASE Unstack
    BY <2>1, <2>3, PopKeepsChain
  <2> QED
    BY <1>4, <2>2, <2>3 DEF CpuExceptionReturn
<1>5. CASE Register
  <2>1. UNCHANGED excVars
    BY <1>5, Zenon DEF Register, WriteIser, WriteIcer, WriteIspr, WriteIcpr, WriteIcsr, WriteIpr,
                WriteShpr, Falls
  <2>2. prio' = prio \/ current = NoExc
    BY <1>5, Zenon DEF Register, WriteIser, WriteIcer, WriteIspr, WriteIcpr, WriteIcsr, WriteIpr,
                WriteShpr, PrioWritable, Lawful
  <2> QED
    BY <2>1, <2>2, QuietKeepsChain
<1>6. CASE Mask \/ Plain
  <2>1. UNCHANGED excVars /\ prio' = prio
    BY <1>6, Zenon DEF Mask, Plain, Cps, MsrFaultmask, MsrBasepri, Ends, Falls, nvicVars
  <2> QED
    BY <2>1, QuietKeepsChain
<1>7. CASE (\E n \in 1 .. MaxIt : InstrIt(n)) \/ ItSkip \/ NoHandler
  <2>1. UNCHANGED excVars /\ prio' = prio
    BY <1>7, Zenon DEF InstrIt, ItSkip, NoHandler, nvicVars
  <2> QED
    BY <2>1, QuietKeepsChain
<1>8. CASE \E v \in IrqVectors \cup {SYSTICK} : NvicSignalIrq(v)
  <2>1. UNCHANGED excVars /\ prio' = prio
    BY <1>8 DEF NvicSignalIrq
  <2> QED
    BY <2>1, QuietKeepsChain
<1>9. CASE UNCHANGED vars
  <2>1. UNCHANGED excVars /\ prio' = prio
    BY <1>9 DEF vars, nvicVars
  <2> QED
    BY <2>1, QuietKeepsChain
<1> QED
  BY <1>1, <1>2, <1>3, <1>4, <1>5, <1>6, <1>7, <1>8, <1>9 DEF Next

\* For lawful firmware the exception engine keeps its nesting record, the
\* frames on the guest's stack, the active bits and the priorities in
\* agreement, for any number of interrupts and priority levels.
THEOREM NestingCorrect ==
  ASSUME Lawful
  PROVE  Spec => []NestingInv
<1>1. Init => NestingInv
  BY NestingInit
<1>2. NestingInv /\ [Next]_vars => NestingInv'
  BY NestingStep
<1> QED
  BY <1>1, <1>2, PTL DEF Spec

\* Nesting never exceeds one handler per level plus HardFault, so with the four
\* levels of the code exception_stack (8 entries) never drops a push.
THEOREM NestingBounded ==
  ASSUME Lawful
  PROVE  Spec => []NestingFits
<1>1. NestingInv => NestingFits
  <2> SUFFICES ASSUME NestingInv PROVE NestingFits
    OBVIOUS
  <2>0. PICK d \in Nat : d = Depth
    BY Innermost
  <2>1. d <= NumPri + 1
    <3>1. CASE current # HARDFAULT
      BY <2>0, <3>1, Innermost
    <3>2. CASE current = HARDFAULT /\ d > 1
      <4>1. d - 1 \in 1 .. Depth /\ d - 1 # Depth
        BY <2>0, <3>2
      <4>2. Chain(d - 1) # HARDFAULT /\ Chain(d - 1) \in Vectors
        BY <4>1, InnermostDistinct DEF NestingInv
      <4>3. Priority(Chain(d - 1)) + (d - 1) <= NumPri /\ Priority(Chain(d - 1)) \in Nat
        BY <4>1, <4>2, PriorityRange DEF NestingInv, Pri
      <4> QED
        BY <2>0, <4>3
    <3> QED
      BY <2>0, <3>1, <3>2
  <2> QED
    BY <2>0, <2>1 DEF NestingFits, NestingInv, NestingMatchesFrames
<1>2. Spec => []NestingInv
  BY NestingCorrect
<1> QED
  BY <1>1, <1>2, PTL
-----------------------------------------------------------------------------
(* What nvic_get_pending_irq returns *)

\* priorities_nondefault is clear only while every IPR byte is zero.
FlagExact == ~nondefault => \A w \in IrqVectors : prio[w] = 0

\* A set of numbers has a least one.
LEMMA LeastNatural ==
  ASSUME NEW T \in SUBSET Nat, T # {}
  PROVE  \E n \in T : \A m \in T : n <= m
<1>1. PICK n \in T : \A m \in T : ~(<<m, n>> \in OpToRel(<, Nat))
  BY WFMin, NatLessThanWellFounded, Zenon
<1>2. \A m \in T : m < n => <<m, n>> \in OpToRel(<, Nat)
  BY DEF OpToRel
<1>3. \A m \in T : ~(m < n)
  BY <1>1, <1>2, Zenon
<1> QED
  BY <1>3

\* The enabled external interrupts have a number and a level.
LEMMA IrqTypes ==
  ASSUME TypeOK, NEW v \in enable
  PROVE  v \in IrqVectors /\ v \in Nat /\ v \in Configurable
         /\ prio[v] \in Nat /\ Priority(v) = prio[v]
  BY DEF TypeOK, IrqVectors, AsyncVectors, Configurable, Pri, Priority, NoExc, HARDFAULT

\* With an exact flag the fast path picks by priority, too.
LEMMA FastPathAgrees ==
  ASSUME TypeOK, FlagExact, NEW P, NEW v \in P \cap enable
  PROVE  NvicGetPendingIrq(v, P) <=>
           \A w \in P \cap enable :
             prio[v] < prio[w] \/ (prio[v] = prio[w] /\ v <= w)
<1>1. \A w \in P \cap enable : prio[w] \in Nat /\ w \in IrqVectors
  BY IrqTypes
<1>2. CASE nondefault
  BY <1>2 DEF NvicGetPendingIrq
<1>3. CASE ~nondefault
  <2>1. \A w \in P \cap enable : prio[w] = 0
    BY <1>1, <1>3 DEF FlagExact
  <2> QED
    BY <1>3, <2>1 DEF NvicGetPendingIrq
<1> QED
  BY <1>2, <1>3

\* nvic_get_pending_irq finds an interrupt whenever an enabled one is pending,
\* and none that is pending is stronger.
LEMMA PendingIrqFound ==
  ASSUME TypeOK, FlagExact, NEW P, NEW x \in P \cap enable
  PROVE  \E v \in IrqVectors : NvicGetPendingIrq(v, P) /\ prio[v] <= prio[x]
<1> DEFINE S == P \cap enable
           L == {prio[w] : w \in S}
<1>1. \A w \in S : w \in Nat /\ prio[w] \in Nat /\ w \in IrqVectors
  BY IrqTypes
<1>2. L \in SUBSET Nat /\ prio[x] \in L
  BY <1>1
<1>3. PICK p \in L : \A q \in L : p <= q
  BY <1>2, LeastNatural, Zenon
<1> DEFINE T == {w \in S : prio[w] = p}
<1>4. T \in SUBSET Nat /\ T # {}
  BY <1>1, <1>3
<1>5. PICK v \in T : \A w \in T : v <= w
  BY <1>4, LeastNatural, Zenon
<1>6. \A w \in S : p <= prio[w]
  BY <1>3
<1>7. \A w \in S : prio[v] < prio[w] \/ (prio[v] = prio[w] /\ v <= w)
  BY <1>1, <1>5, <1>6
<1>8. NvicGetPendingIrq(v, P)
  BY <1>5, <1>7, FastPathAgrees
<1> QED
  BY <1>1, <1>5, <1>6, <1>8

\* The flag is exact after every step: an IPR store recomputes it over all the
\* bytes, an SHPR store touches none of them.
LEMMA FlagStep == TypeOK /\ FlagExact /\ [Next]_vars => FlagExact'
<1> SUFFICES ASSUME TypeOK, FlagExact, [Next]_vars PROVE FlagExact'
  OBVIOUS
<1>1. CASE prio' = prio /\ nondefault' = nondefault
  BY <1>1 DEF FlagExact
<1>2. CASE \E n \in 0 .. (NumIrqs \div 4) : \E f \in [IprWord(n) -> Pri] : WriteIpr(f)
  BY <1>2 DEF WriteIpr, FlagExact
<1>3. CASE \E f \in [{SVCALL} -> Pri] \cup [{PENDSV, SYSTICK} -> Pri] : WriteShpr(f)
  <2>1. PICK f \in [{SVCALL} -> Pri] \cup [{PENDSV, SYSTICK} -> Pri] : WriteShpr(f)
    BY <1>3
  <2>2. \A w \in IrqVectors : w \in Configurable /\ w \notin DOMAIN f
    BY DEF IrqVectors, AsyncVectors, Configurable, SVCALL, PENDSV, SYSTICK
  <2> QED
    BY <2>1, <2>2 DEF WriteShpr, SetPriorities, FlagExact
<1>4. CASE Register
  BY <1>1, <1>2, <1>3, <1>4 DEF Register, WriteIser, WriteIcer, WriteIspr, WriteIcpr, WriteIcsr
<1>5. CASE TakeInterrupt \/ Svc \/ HardFault \/ CpuExceptionReturn
  BY <1>1, <1>5 DEF TakeInterrupt, Svc, HardFault, CpuExceptionReturn
<1>6. CASE NoHandler \/ Mask \/ (\E n \in 1 .. MaxIt : InstrIt(n)) \/ ItSkip \/ Plain
  BY <1>1, <1>6, Zenon DEF NoHandler, Mask, Cps, MsrFaultmask, MsrBasepri, Ends, InstrIt, ItSkip,
                    Plain, nvicVars
<1>7. CASE \E v \in IrqVectors \cup {SYSTICK} : NvicSignalIrq(v)
  BY <1>1, <1>7 DEF NvicSignalIrq
<1>8. CASE UNCHANGED vars
  BY <1>1, <1>8 DEF vars, nvicVars
<1> QED
  BY <1>4, <1>5, <1>6, <1>7, <1>8 DEF Next

\* The flag is exact along every behaviour.
LEMMA FlagInv == Spec => [](TypeOK /\ FlagExact)
<1>1. Init => TypeOK /\ FlagExact
  BY TypeInit DEF Init, FlagExact, Configurable, AsyncVectors
<1>2. TypeOK /\ FlagExact /\ [Next]_vars => (TypeOK /\ FlagExact)'
  BY TypeStep, FlagStep
<1> QED
  BY <1>1, <1>2, PTL DEF Spec

\* Whatever the firmware writes to IPR and SHPR, nvic_get_pending_irq's fast
\* path and its slow path pick the same interrupt.
THEOREM FastPathCorrect == Spec => []PendingIrqIsStrongest
<1>1. TypeOK /\ FlagExact => PendingIrqIsStrongest
  BY FastPathAgrees DEF PendingIrqIsStrongest
<1> QED
  BY <1>1, FlagInv, PTL

-----------------------------------------------------------------------------
(* What an exception entry takes and leaves pending *)

\* cpu_exception_entry pushes one frame and makes one exception current.
LEMMA EntryCases ==
  ASSUME TypeOK, NEW v, NEW P, NEW si, NEW fi, CpuExceptionEntry(v, P, si, fi)
  PROVE  /\ Len(frames') = Len(frames) + 1
         /\ \/ /\ ~Masked /\ LateWins(current', P, Priority(v))
               /\ pended' = (P \cup Repend(v)) \ {current'}
            \/ /\ Masked \/ ~ \E u \in AsyncVectors : LateWins(u, P, Priority(v))
               /\ current' = v
               /\ pended' = P
<1>1. frames' = Append(frames, [ipsr |-> ipsr, it |-> fi]) /\ frames \in Seq(Frame)
  BY DEF CpuExceptionEntry, TypeOK
<1>2. Len(frames') = Len(frames) + 1
  BY ONLY <1>1
<1> QED
  BY <1>2 DEF CpuExceptionEntry

\* What the property asks of one step
TakesOne ==
  \/ Len(frames') > Len(frames)
  \/ Len(frames') = Len(frames) /\ current' # current
  => /\ pended \ {current'} \subseteq pended'
     /\ current' \in AsyncVectors => current' \notin pended'

\* An entry with the pending bit of v already taken, or for an exception that
\* has none, takes one bit.
LEMMA EntryTakesOne ==
  ASSUME TypeOK, NEW v, NEW P, NEW si, NEW fi, CpuExceptionEntry(v, P, si, fi),
         \/ v \in AsyncVectors /\ P = pended \ {v}
         \/ v \notin AsyncVectors /\ P = pended
  PROVE  TakesOne
  BY EntryCases DEF TakesOne, Repend

\* Every step takes at most one pending bit, that of the exception it enters.
LEMMA TakesOneStep == TypeOK /\ [Next]_vars => TakesOne \/ UNCHANGED vars
<1> SUFFICES ASSUME TypeOK, [Next]_vars PROVE TakesOne \/ UNCHANGED vars
  OBVIOUS
<1>0. SVCALL \notin AsyncVectors /\ HARDFAULT \notin AsyncVectors
  BY DEF AsyncVectors, IrqVectors, SVCALL, HARDFAULT, PENDSV, SYSTICK
<1>1. CASE UNCHANGED excVars
  <2>1. ~(Len(frames) > Len(frames))
    BY DEF TypeOK
  <2> QED
    BY <1>1, <2>1 DEF excVars, TakesOne
<1>2. CASE TakeInterrupt
  BY <1>2, EntryTakesOne DEF TakeInterrupt
<1>3. CASE Svc
  BY <1>0, <1>3, EntryTakesOne DEF Svc
<1>4. CASE HardFault
  BY <1>0, <1>1, <1>4, EntryTakesOne DEF HardFault
<1>5. CASE CpuExceptionReturn
  <2>1. CASE \E v \in AsyncVectors : TailChain(v)
    BY <2>1 DEF TailChain, TakesOne
  <2>2. CASE Unstack
    <3>1. frames \in Seq(Frame) /\ frames # <<>> /\ frames' = SubSeq(frames, 1, Len(frames) - 1)
      BY <2>2 DEF Unstack, TypeOK
    <3>2. Len(frames) \in Nat /\ Len(frames') = Len(frames) - 1
      BY <3>1, DropLast
    <3> QED
      BY <3>2 DEF TakesOne
  <2> QED
    BY <1>5, <2>1, <2>2 DEF CpuExceptionReturn
<1>6. CASE NoHandler \/ Mask \/ (\E n \in 1 .. MaxIt : InstrIt(n)) \/ ItSkip \/ Plain
  BY <1>1, <1>6, Zenon DEF NoHandler, Mask, Cps, MsrFaultmask, MsrBasepri, Ends, InstrIt, ItSkip,
                    Plain, Falls
<1>7. CASE Register
  BY <1>1, <1>7, Zenon DEF Register, WriteIser, WriteIcer, WriteIspr, WriteIcpr, WriteIcsr, WriteIpr,
                    WriteShpr, Falls
<1>8. CASE \E v \in IrqVectors \cup {SYSTICK} : NvicSignalIrq(v)
  BY <1>1, <1>8 DEF NvicSignalIrq
<1> QED
  BY <1>2, <1>3, <1>4, <1>5, <1>6, <1>7, <1>8 DEF Next

\* Whatever the firmware, entering an exception by preemption, late arrival or
\* tail-chaining uses up that exception's pending bit and loses no other.
THEOREM OnePendingTaken == Spec => EntryTakesOnePending
<1>1. TypeOK /\ [Next]_vars => [TakesOne]_vars
  BY TakesOneStep
<1>2. Spec => [][TakesOne]_vars
  BY <1>1, TypeCorrect, PTL DEF Spec
<1> QED
  BY <1>2 DEF EntryTakesOnePending, TakesOne

-----------------------------------------------------------------------------
(* What late arrival leaves waiting *)

\* The external interrupts and SysTick that late arrival looks at, in P
Rivals(P) == (P \cap enable) \cup (P \cap {SYSTICK})

\* What the property asks of one step
Settled ==
  Len(frames') > Len(frames) /\ ~Masked =>
    \A v \in Rivals(pended') : prio[v] >= Priority(current')

\* When no external interrupt wins over a priority, none pending is stronger.
LEMMA NoIrqWins ==
  ASSUME TypeOK, FlagExact, NEW P, NEW pri \in Nat,
         ~ \E v \in IrqVectors : IrqWins(v, P, pri),
         NEW x \in P \cap enable
  PROVE  prio[x] >= pri
<1>1. PICK v \in IrqVectors : NvicGetPendingIrq(v, P) /\ prio[v] <= prio[x]
  BY PendingIrqFound
<1>2. v \in enable
  BY <1>1 DEF NvicGetPendingIrq
<1>3. prio[v] \in Nat /\ prio[x] \in Nat /\ Priority(v) = prio[v]
  BY <1>2, IrqTypes
<1>4. ~(prio[v] < pri)
  BY <1>1, <1>3 DEF IrqWins
<1> QED
  BY <1>1, <1>3, <1>4

\* Nothing late arrival looks at is stronger than the exception being entered,
\* or SysTick alone is: the entry settles on the strongest.
LEMMA EntrySettles ==
  ASSUME TypeOK, FlagExact, NEW v \in Vectors, NEW P \in SUBSET AsyncVectors,
         NEW si, NEW fi, CpuExceptionEntry(v, P, si, fi),
         \A x \in P \cap enable : prio[x] >= Priority(v)
  PROVE  Settled
<1> SUFFICES ASSUME ~Masked, NEW x \in Rivals(pended')
             PROVE  prio[x] >= Priority(current')
  BY DEF Settled
<1>1. \A u \in Vectors : Priority(u) \in Nat
  BY PriorityRange DEF Pri
<1>2. SYSTICK \in AsyncVectors /\ SYSTICK \in Configurable /\ SYSTICK \in Vectors
      /\ SYSTICK \notin IrqVectors
  BY DEF AsyncVectors, Configurable, Vectors, IrqVectors, SYSTICK
<1>3. Priority(SYSTICK) = prio[SYSTICK]
  BY <1>2, PriorityRange
<1>4. \A y \in enable : y \in IrqVectors /\ prio[y] \in Nat /\ Priority(y) = prio[y]
  BY IrqTypes
<1>5. \A u \in IrqVectors : ~IrqWins(u, P, Priority(v))
  BY <1>1, <1>4 DEF IrqWins, NvicGetPendingIrq
<1>6. CASE LateWins(current', P, Priority(v)) /\ pended' = (P \cup Repend(v)) \ {current'}
  <2>1. current' = SYSTICK /\ Priority(SYSTICK) < Priority(v)
    BY <1>5, <1>6 DEF LateWins, SysTickWins
  <2>2. x # SYSTICK /\ x \in enable /\ (x \in P \/ x = v)
    BY <1>6, <2>1 DEF Rivals, Repend
  <2>3. prio[x] >= Priority(v)
    BY <1>1, <1>4, <2>2
  <2> QED
    BY <1>1, <1>2, <1>4, <2>1, <2>2, <2>3
<1>7. CASE /\ ~ \E u \in AsyncVectors : LateWins(u, P, Priority(v))
           /\ current' = v /\ pended' = P
  <2>1. CASE x \in P \cap enable
    BY <1>7, <2>1
  <2>2. CASE x = SYSTICK
    <3>1. ~SysTickWins(P, Priority(v)) /\ SYSTICK \in P
      BY <1>2, <1>7, <2>2 DEF LateWins, Rivals
    <3>2. ~(Priority(SYSTICK) < Priority(v))
      BY <1>5, <3>1 DEF SysTickWins
    <3> QED
      BY <1>1, <1>2, <1>3, <1>7, <2>2, <3>2
  <2> QED
    BY <1>7, <2>1, <2>2 DEF Rivals
<1> QED
  BY <1>6, <1>7, EntryCases

\* The interrupt that cpu_step's check finds is at least as strong as every
\* enabled external interrupt pending.
LEMMA WinnerIsStrongest ==
  ASSUME TypeOK, FlagExact, NEW v \in AsyncVectors, NEW P \in SUBSET AsyncVectors,
         NEW pri \in Nat, Wins(v, P, pri), NEW x \in P \cap enable
  PROVE  prio[x] >= Priority(v)
<1>1. v \in Vectors /\ Priority(v) \in Nat
  BY PriorityRange DEF Vectors, Configurable, Pri
<1>2. prio[x] \in Nat
  BY IrqTypes
<1>3. CASE IrqWins(v, P, pri)
  <2>1. NvicGetPendingIrq(v, P) /\ v \in P \cap enable
    BY <1>3 DEF IrqWins, NvicGetPendingIrq
  <2>2. prio[v] < prio[x] \/ prio[v] = prio[x]
    BY <2>1, FastPathAgrees
  <2>3. Priority(v) = prio[v]
    BY <2>1, IrqTypes
  <2> QED
    BY <1>1, <1>2, <2>2, <2>3
<1>4. CASE ~ \E u \in IrqVectors : IrqWins(u, P, pri)
  <2>1. prio[x] >= pri
    BY <1>4, NoIrqWins
  <2>2. Priority(v) < pri
    BY DEF Wins, LateWins, IrqWins, SysTickWins, PendSvWins
  <2> QED
    BY <1>1, <1>2, <2>1, <2>2
<1> QED
  BY <1>3, <1>4 DEF Wins, LateWins, SysTickWins, PendSvWins

\* Firmware in whose code the check of cpu_step precedes every SVC, which is
\* executed only where SVCall outranks it.
Checked == Guest \cap {"svcAnywhere", "jit"} = {}

\* Without the JIT every instruction is preceded by cpu_step's check.
LEMMA NoBlocks ==
  ASSUME Checked
  PROVE  inBlock = FALSE /\ [Next]_vars => inBlock' = FALSE
<1> SUFFICES ASSUME inBlock = FALSE, [Next]_vars PROVE inBlock' = FALSE
  BY Zenon
<1>0. "jit" \notin Guest
  BY DEF Checked
<1>1. CASE TakeInterrupt \/ Svc \/ HardFault \/ NoHandler \/ CpuExceptionReturn
  BY <1>1, Zenon DEF TakeInterrupt, Svc, HardFault, NoHandler, CpuExceptionReturn, CpuExceptionEntry
<1>2. CASE Register \/ Plain
  <2>1. Falls
    BY <1>2, Zenon DEF Register, WriteIser, WriteIcer, WriteIspr, WriteIcpr, WriteIcsr, WriteIpr,
                WriteShpr, Plain
  <2> QED
    BY <1>0, <2>1 DEF Falls
<1>3. CASE Mask \/ (\E n \in 1 .. MaxIt : InstrIt(n)) \/ ItSkip
  BY <1>0, <1>3, Zenon DEF Mask, Cps, MsrFaultmask, MsrBasepri, Ends, InstrIt, ItSkip
<1>4. CASE (\E v \in IrqVectors \cup {SYSTICK} : NvicSignalIrq(v)) \/ UNCHANGED vars
  BY <1>4 DEF NvicSignalIrq, cpuVars, vars
<1> QED
  BY <1>1, <1>2, <1>3, <1>4, Zenon DEF Next

\* Every entry settles on the strongest exception late arrival looks at.
LEMMA SettledStep ==
  ASSUME Checked
  PROVE  TypeOK /\ FlagExact /\ inBlock = FALSE /\ [Next]_vars => Settled \/ UNCHANGED vars
<1> SUFFICES ASSUME TypeOK, FlagExact, inBlock = FALSE, [Next]_vars
             PROVE  Settled \/ UNCHANGED vars
  BY Zenon
<1>0. Len(frames) \in Nat /\ \A v \in Vectors : Priority(v) \in Nat
  BY PriorityRange DEF TypeOK, Pri
<1>1. CASE UNCHANGED frames
  BY <1>0, <1>1 DEF Settled
<1>2. Priority(current) \in Nat
  BY <1>0, PriorityRange DEF TypeOK
<1>3. CASE TakeInterrupt
  <2>1. PICK v \in AsyncVectors : /\ Wins(v, pended, Priority(current))
                                 /\ CpuExceptionEntry(v, pended \ {v}, Consume(it), it)
    BY <1>3, Zenon DEF TakeInterrupt
  <2>2. v \in Vectors /\ pended \in SUBSET AsyncVectors /\ pended \ {v} \in SUBSET AsyncVectors
    BY DEF TypeOK, Vectors, Configurable
  <2>3. \A x \in (pended \ {v}) \cap enable : prio[x] >= Priority(v)
    BY <1>2, <2>1, <2>2, WinnerIsStrongest
  <2> QED
    BY <2>1, <2>2, <2>3, EntrySettles
<1>4. CASE Svc
  <2>1. /\ InstrReady /\ Priority(SVCALL) < Priority(current)
        /\ CpuExceptionEntry(SVCALL, pended, AfterInstr, AfterInstr)
    BY <1>4 DEF Svc, Checked
  <2>2. SVCALL \in Vectors /\ pended \in SUBSET AsyncVectors
    BY DEF TypeOK, Vectors, Configurable
  <2>3. CASE Masked
    BY <2>3 DEF Settled
  <2>4. CASE ~Masked
    <3>1. ~ \E v \in IrqVectors : IrqWins(v, pended, Priority(current))
      BY <2>1, <2>4 DEF InstrReady, Eligible, Wins, LateWins, AsyncVectors
    <3>2. \A x \in pended \cap enable : prio[x] >= Priority(current)
      BY <1>2, <3>1, NoIrqWins
    <3>3. \A x \in pended \cap enable : prio[x] >= Priority(SVCALL)
      BY <1>0, <1>2, <2>1, <2>2, <3>2, IrqTypes
    <3> QED
      BY <2>1, <2>2, <3>3, EntrySettles
  <2> QED
    BY <2>3, <2>4
<1>5. CASE HardFault
  <2>1. CASE current = HARDFAULT
    BY <1>1, <1>5, <2>1 DEF HardFault, excVars
  <2>2. CASE current # HARDFAULT
    <3>1. CpuExceptionEntry(HARDFAULT, pended, AfterInstr, AfterInstr)
      BY <1>5, <2>2 DEF HardFault
    <3>2. HARDFAULT \in Vectors /\ pended \in SUBSET AsyncVectors /\ Priority(HARDFAULT) = 0
      BY PriorityRange DEF TypeOK, Vectors
    <3>3. \A x \in pended \cap enable : prio[x] >= Priority(HARDFAULT)
      BY <3>2, IrqTypes
    <3> QED
      BY <3>1, <3>2, <3>3, EntrySettles
  <2> QED
    BY <2>1, <2>2
<1>6. CASE CpuExceptionReturn
  <2>1. CASE \E v \in AsyncVectors : TailChain(v)
    BY <1>1, <2>1 DEF TailChain
  <2>2. CASE Unstack
    <3>1. frames \in Seq(Frame) /\ frames # <<>> /\ frames' = SubSeq(frames, 1, Len(frames) - 1)
      BY <2>2 DEF Unstack, TypeOK
    <3>2. Len(frames') = Len(frames) - 1
      BY <3>1, DropLast
    <3> QED
      BY <1>0, <3>2 DEF Settled
  <2> QED
    BY <1>6, <2>1, <2>2 DEF CpuExceptionReturn
<1>7. CASE NoHandler \/ Mask \/ (\E n \in 1 .. MaxIt : InstrIt(n)) \/ ItSkip \/ Plain
  BY <1>1, <1>7, Zenon DEF NoHandler, Mask, Cps, MsrFaultmask, MsrBasepri, Ends, InstrIt, ItSkip,
                    Plain, Falls, excVars
<1>8. CASE Register
  BY <1>1, <1>8, Zenon DEF Register, WriteIser, WriteIcer, WriteIspr, WriteIcpr, WriteIcsr, WriteIpr,
                    WriteShpr, Falls, excVars
<1>9. CASE \E v \in IrqVectors \cup {SYSTICK} : NvicSignalIrq(v)
  BY <1>1, <1>9 DEF NvicSignalIrq, excVars
<1> QED
  BY <1>3, <1>4, <1>5, <1>6, <1>7, <1>8, <1>9 DEF Next

\* When a handler starts after stacking, cpu_exception_entry's single look for
\* a late arrival has been enough: no enabled interrupt and no SysTick stronger
\* than the handler is left waiting.
THEOREM LateArrivalEnough ==
  ASSUME Checked
  PROVE  Spec => LateArrivalSettles
<1>1. Init => inBlock = FALSE
  BY DEF Init
<1>2. inBlock = FALSE /\ [Next]_vars => (inBlock = FALSE)'
  BY NoBlocks, Zenon
<1>3. TypeOK /\ FlagExact /\ inBlock = FALSE /\ [Next]_vars => [Settled]_vars
  BY SettledStep, Zenon
<1>4. Spec => [][Settled]_vars
  BY <1>1, <1>2, <1>3, FlagInv, PTL DEF Spec
<1> QED
  BY <1>4 DEF LateArrivalSettles, Settled, Rivals

-----------------------------------------------------------------------------
(* The two records of the interrupted contexts, for any firmware *)

\* Frames and nesting record agree, with Thread mode at the bottom only; the
\* bound on the frames keeps the record from dropping a push.
RecordOK ==
  /\ TypeOK
  /\ NestingMatchesFrames
  /\ Depth <= MaxFrames
  /\ \A k \in 1 .. Depth : excStack[k].irq = NoExc <=> k = 1

\* An exception entry pushes the same context on both.
LEMMA PushKeepsRecord ==
  ASSUME MaxFrames <= MaxDepth, RecordOK, TypeOK', Len(frames) < MaxFrames,
         NEW v, NEW P, NEW si, NEW fi, CpuExceptionEntry(v, P, si, fi)
  PROVE  RecordOK'
<1>1. PICK w \in Vectors :
        /\ current' = w /\ ipsr' = w
        /\ excStack' = IF Len(excStack) < MaxDepth
                       THEN Append(excStack, [irq |-> current, it |-> si])
                       ELSE excStack
        /\ frames' = Append(frames, [ipsr |-> ipsr, it |-> fi])
  BY DEF CpuExceptionEntry
<1>2. PICK d \in Nat : d = Depth /\ d = Len(excStack) /\ d = Len(frames)
  <2>1. Len(excStack) \in Nat
    BY DEF RecordOK, TypeOK
  <2>2. Depth = Len(excStack) /\ Depth = Len(frames)
    BY DEF RecordOK, NestingMatchesFrames, Depth
  <2> QED BY <2>1, <2>2
<1>3. /\ excStack \in Seq(Saved) /\ frames \in Seq(Frame) /\ d < MaxFrames /\ d < MaxDepth
      /\ ipsr = current /\ (current = NoExc <=> d = 0)
      /\ \A k \in 1 .. d : frames[k].ipsr = excStack[k].irq /\ (excStack[k].irq = NoExc <=> k = 1)
  BY <1>2 DEF RecordOK, TypeOK, NestingMatchesFrames
<1>4. /\ Len(excStack') = d + 1 /\ excStack'[d + 1].irq = current
      /\ \A k \in 1 .. d : excStack'[k] = excStack[k]
  <2>1. /\ excStack \in Seq(Saved) /\ Len(excStack) = d /\ d \in Nat
        /\ excStack' = Append(excStack, [irq |-> current, it |-> si])
    BY <1>1, <1>2, <1>3
  <2> QED
    BY ONLY <2>1
<1>5. /\ Len(frames') = d + 1 /\ frames'[d + 1].ipsr = ipsr
      /\ \A k \in 1 .. d : frames'[k] = frames[k]
  BY <1>1, <1>2, <1>3
<1>6. w # NoExc
  BY DEF Vectors, Configurable, AsyncVectors, IrqVectors, NoExc, HARDFAULT, SVCALL,
         PENDSV, SYSTICK
<1>7. NestingMatchesFrames'
  <2>1. \A k \in 1 .. d + 1 : frames'[k].ipsr = excStack'[k].irq
    BY <1>2, <1>3, <1>4, <1>5
  <2> QED
    BY <1>1, <1>2, <1>4, <1>5, <1>6, <2>1 DEF NestingMatchesFrames, Depth
<1>8. \A k \in 1 .. d + 1 : excStack'[k].irq = NoExc <=> k = 1
  BY <1>2, <1>3, <1>4
<1>9. Depth' = d + 1 /\ d + 1 <= MaxFrames
  BY <1>2, <1>3, <1>4 DEF Depth
<1> QED
  BY <1>7, <1>8, <1>9 DEF RecordOK

\* Unstacking pops the same context from both.
LEMMA PopKeepsRecord ==
  ASSUME RecordOK, TypeOK', Unstack, current # NoExc
  PROVE  RecordOK'
<1>1. PICK d \in Nat : d = Depth /\ d = Len(excStack) /\ d = Len(frames) /\ d > 0
  BY DEF RecordOK, TypeOK, NestingMatchesFrames, Depth
<1>0. excStack \in Seq(Saved) /\ frames \in Seq(Frame) /\ excStack # <<>> /\ frames # <<>>
  <2>1. excStack \in Seq(Saved) /\ frames \in Seq(Frame)
    BY DEF RecordOK, TypeOK
  <2>2. Len(<<>>) = 0 /\ Len(excStack) # 0 /\ Len(frames) # 0
    BY <1>1
  <2> QED
    BY <2>1, <2>2
<1>2. /\ excStack \in Seq(Saved) /\ frames \in Seq(Frame) /\ excStack # <<>> /\ frames # <<>>
      /\ \A k \in 1 .. d : frames[k].ipsr = excStack[k].irq /\ (excStack[k].irq = NoExc <=> k = 1)
  BY <1>0, <1>1 DEF RecordOK, NestingMatchesFrames
<1>3. /\ current' = excStack[d].irq /\ ipsr' = frames[d].ipsr
      /\ excStack' = SubSeq(excStack, 1, Len(excStack) - 1)
      /\ frames' = SubSeq(frames, 1, Len(frames) - 1)
  BY <1>1, <1>2 DEF Unstack
<1>4. Len(excStack') = d - 1 /\ \A k \in 1 .. d - 1 : excStack'[k] = excStack[k]
  BY <1>1, <1>2, <1>3, DropLast, Zenon
<1>5. Len(frames') = d - 1 /\ \A k \in 1 .. d - 1 : frames'[k] = frames[k]
  BY <1>1, <1>2, <1>3, DropLast
<1>6. d \in 1 .. d /\ \A k \in 1 .. d - 1 : k \in 1 .. d
  BY <1>1
<1>7. ipsr' = current' /\ (current' = NoExc <=> d - 1 = 0)
  BY <1>1, <1>2, <1>3, <1>6
<1>8. NestingMatchesFrames'
  BY <1>2, <1>4, <1>5, <1>6, <1>7 DEF NestingMatchesFrames, Depth
<1>9. \A k \in 1 .. d - 1 : excStack'[k].irq = NoExc <=> k = 1
  BY <1>2, <1>4, <1>6
<1>10. Depth' = d - 1 /\ d - 1 <= MaxFrames
  BY <1>1, <1>4 DEF RecordOK, Depth
<1> QED
  BY <1>8, <1>9, <1>10 DEF RecordOK

\* Every step of any firmware keeps the two records in agreement.
LEMMA RecordStep ==
  ASSUME MaxFrames <= MaxDepth
  PROVE  RecordOK /\ [Next]_vars => RecordOK'
<1> SUFFICES ASSUME RecordOK, [Next]_vars PROVE RecordOK'
  OBVIOUS
<1>0. TypeOK /\ TypeOK'
  BY TypeStep DEF RecordOK
<1>1. CASE UNCHANGED excVars
  BY <1>0, <1>1 DEF RecordOK, NestingMatchesFrames, Depth, excVars
<1>2. CASE TakeInterrupt
  BY <1>0, <1>2, PushKeepsRecord DEF TakeInterrupt
<1>3. CASE Svc
  BY <1>0, <1>3, PushKeepsRecord DEF Svc
<1>4. CASE HardFault
  BY <1>0, <1>1, <1>4, PushKeepsRecord DEF HardFault
<1>5. CASE CpuExceptionReturn
  <2>1. current # NoExc
    BY <1>5 DEF CpuExceptionReturn
  <2>2. CASE \E v \in AsyncVectors : TailChain(v)
    <3>1. PICK v \in AsyncVectors : TailChain(v)
      BY <2>2
    <3>2. v # NoExc
      BY DEF AsyncVectors, IrqVectors, NoExc, PENDSV, SYSTICK
    <3>3. Depth # 0 /\ UNCHANGED <<excStack, frames>> /\ current' = v /\ ipsr' = v
      BY <2>1, <3>1 DEF RecordOK, NestingMatchesFrames, TailChain
    <3> QED
      BY <1>0, <3>2, <3>3 DEF RecordOK, NestingMatchesFrames, Depth
  <2>3. CASE Unstack
    BY <1>0, <2>1, <2>3, PopKeepsRecord
  <2> QED
    BY <1>5, <2>2, <2>3 DEF CpuExceptionReturn
<1>6. CASE NoHandler \/ Mask \/ (\E n \in 1 .. MaxIt : InstrIt(n)) \/ ItSkip \/ Plain
  BY <1>1, <1>6, Zenon DEF NoHandler, Mask, Cps, MsrFaultmask, MsrBasepri, Ends, InstrIt, ItSkip,
                    Plain, Falls
<1>7. CASE Register
  BY <1>1, <1>7, Zenon DEF Register, WriteIser, WriteIcer, WriteIspr, WriteIcpr, WriteIcsr, WriteIpr,
                    WriteShpr, Falls
<1>8. CASE (\E v \in IrqVectors \cup {SYSTICK} : NvicSignalIrq(v)) \/ UNCHANGED vars
  BY <1>1, <1>8 DEF NvicSignalIrq, vars
<1> QED
  BY <1>2, <1>3, <1>4, <1>5, <1>6, <1>7, <1>8 DEF Next

\* Any firmware, also one that nests handlers against their priorities, finds
\* on return the exception it interrupted, as long as it nests no deeper than
\* exception_stack: with MaxFrames above MaxDepth cpu_exception_entry drops a
\* push and the two records part.
THEOREM RecordsAgree ==
  ASSUME MaxFrames <= MaxDepth
  PROVE  Spec => []NestingMatchesFrames
<1>1. Init => RecordOK
  <2> SUFFICES ASSUME Init PROVE RecordOK
    OBVIOUS
  <2>1. Depth = 0 /\ Len(frames) = 0 /\ 1 .. Depth = {}
    BY DEF Init, Depth
  <2>2. NestingMatchesFrames
    BY <2>1 DEF NestingMatchesFrames, Init
  <2> QED
    BY <2>1, <2>2, TypeInit DEF RecordOK
<1>2. RecordOK /\ [Next]_vars => RecordOK'
  BY RecordStep
<1>3. RecordOK => NestingMatchesFrames
  BY DEF RecordOK
<1> QED
  BY <1>1, <1>2, <1>3, PTL DEF Spec
=============================================================================
