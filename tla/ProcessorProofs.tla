-------------------------- MODULE ProcessorProofs --------------------------
(***************************************************************************)
(* What the processors promise.  The flags of the Thumb core decide        *)
(* comparisons for words of every size, the 32 bits of the code among      *)
(* them; and the RISC-V harts return from every handler to where its trap  *)
(* was taken, and sleep through no interrupt, however long the timer runs  *)
(* and whichever mode mtvec selects.                                       *)
(***************************************************************************)
EXTENDS ThumbAlu, RvHarts, TLAPS

\* N # V of a difference, less a borrow, is the signed order.
LEMMA SignedOrder ==
  ASSUME Half \in Nat \ {0}, NEW a \in RegWord, NEW b \in RegWord, NEW bin \in {0, 1},
         NEW res, res = Wrap(a - b - bin)
  PROVE  ~(Neg(res) <=> (~(Neg(a) <=> Neg(b)) /\ ~(Neg(a) <=> Neg(res))))
           <=> Signed(a) < Signed(b) + bin
BY DEF Wrap, Signed, Neg, RegWord, Mod

LEMMA ZeroMeansEqual ==
  ASSUME Half \in Nat \ {0}, NEW a \in RegWord, NEW b \in RegWord
  PROVE  Wrap(a - b) = 0 <=> a = b
BY DEF Wrap, RegWord, Mod

LEMMA BooleanInequality ==
  ASSUME NEW p \in BOOLEAN, NEW q \in BOOLEAN
  PROVE  (p # q) <=> ~(p <=> q)
OBVIOUS

\* What update_sub_flags says of two words: Z is equality, C unsigned and
\* N # V signed order.
LEMMA SubFlagsOrder ==
  ASSUME Half \in Nat \ {0}, NEW a \in RegWord, NEW b \in RegWord, NEW f,
         f = UpdateSub(a, b, Wrap(a - b))
  PROVE  /\ f.z <=> a = b
         /\ f.c <=> a >= b
         /\ (f.n # f.v) <=> Signed(a) < Signed(b)
         /\ f.n \in BOOLEAN /\ f.v \in BOOLEAN /\ f.c \in BOOLEAN /\ f.z \in BOOLEAN
<1> DEFINE res == Wrap(a - b)
           N == Neg(res)
           V == Neg(a) # Neg(b) /\ Neg(a) # Neg(res)
<1>1. f.n = N /\ f.z = (res = 0) /\ f.c = (a >= b) /\ f.v = V
  BY DEF UpdateSub
<1>2. V <=> (~(Neg(a) <=> Neg(b)) /\ ~(Neg(a) <=> Neg(res)))
  BY DEF Neg
<1>3. N \in BOOLEAN /\ V \in BOOLEAN /\ (res = 0) \in BOOLEAN /\ (a >= b) \in BOOLEAN
  BY DEF Neg
<1>4. res = Wrap(a - b - 0) /\ Signed(b) = Signed(b) + 0
  BY DEF RegWord, Mod, Signed
<1>5. ~(N <=> V) <=> Signed(a) < Signed(b)
  BY <1>2, <1>4, SignedOrder
<1>6. (res = 0) <=> a = b
  BY ZeroMeansEqual
<1> HIDE DEF N, V, res
<1> QED BY <1>1, <1>3, <1>5, <1>6, BooleanInequality, Zenon

\* Two-word numbers are ordered by their high words and, at equal high words,
\* by the borrow of their low words.
LEMMA WideOrder ==
  ASSUME NEW M \in Nat \ {0}, NEW a \in Int, NEW b \in Int,
         NEW x \in 0..(M - 1), NEW y \in 0..(M - 1)
  PROVE  a * M + x >= b * M + y <=> a >= b + (IF x >= y THEN 0 ELSE 1)
<1>1. CASE a = b
  BY <1>1
<1>2. CASE a >= b + 1
  <2>1. (a - b - 1) * M >= 0
    BY <1>2
  <2>2. a * M >= b * M + M
    BY <2>1
  <2> QED BY <1>2, <2>2
<1>3. CASE b >= a + 1
  <2>1. (b - a - 1) * M >= 0
    BY <1>3
  <2>2. b * M >= a * M + M
    BY <2>1
  <2> QED BY <1>3, <2>2
<1> QED BY <1>1, <1>2, <1>3

\* The conditions read the flags they are named for.
LEMMA ConditionsRead ==
  ASSUME NEW f
  PROVE  /\ CheckCond("EQ", f) = f.z /\ CheckCond("NE", f) = ~f.z
         /\ CheckCond("HS", f) = f.c /\ CheckCond("LO", f) = ~f.c
         /\ CheckCond("HI", f) = (f.c /\ ~f.z) /\ CheckCond("LS", f) = (~f.c \/ f.z)
         /\ CheckCond("GE", f) = (f.n = f.v) /\ CheckCond("LT", f) = (f.n # f.v)
         /\ CheckCond("GT", f) = (~f.z /\ f.n = f.v)
         /\ CheckCond("LE", f) = (f.z \/ f.n # f.v)
BY DEF CheckCond

LEMMA ComparisonsMean ==
  ASSUME NEW a, NEW b
  PROVE  /\ Compares("EQ", a, b) = (a = b) /\ Compares("NE", a, b) = (a # b)
         /\ Compares("HS", a, b) = (a >= b) /\ Compares("LO", a, b) = (a < b)
         /\ Compares("HI", a, b) = (a > b) /\ Compares("LS", a, b) = (a <= b)
         /\ Compares("GE", a, b) = (Signed(a) >= Signed(b))
         /\ Compares("LT", a, b) = (Signed(a) < Signed(b))
         /\ Compares("GT", a, b) = (Signed(a) > Signed(b))
         /\ Compares("LE", a, b) = (Signed(a) <= Signed(b))
BY DEF Compares

\* Half, the weight of the sign bit, is a positive number, and the registers
\* hold words.
Words == Half \in Nat \ {0} /\ alu \in [r : [Reg -> RegWord], f : Flags]

LEMMA BooleanEquality ==
  ASSUME NEW p \in BOOLEAN, NEW q \in BOOLEAN, p <=> q
  PROVE  p = q
OBVIOUS

\* CMP and the ordering conditions, for two words.
LEMMA CmpDecides ==
  ASSUME Half \in Nat \ {0}, NEW a \in RegWord, NEW b \in RegWord, NEW f,
         f = UpdateSub(a, b, Wrap(a - b)), NEW k \in Ordering
  PROVE  CheckCond(k, f) = Compares(k, a, b)
<1>1. /\ f.z <=> a = b
      /\ f.c <=> a >= b
      /\ (f.n # f.v) <=> Signed(a) < Signed(b)
      /\ f.n \in BOOLEAN /\ f.v \in BOOLEAN /\ f.c \in BOOLEAN /\ f.z \in BOOLEAN
  BY SubFlagsOrder
<1>2. a \in Int /\ b \in Int /\ Signed(a) \in Int /\ Signed(b) \in Int
  BY DEF RegWord, Mod, Signed
<1>3. /\ a < b <=> ~(a >= b)
      /\ a > b <=> (a >= b /\ a # b)
      /\ a <= b <=> (~(a >= b) \/ a = b)
      /\ Signed(a) >= Signed(b) <=> ~(Signed(a) < Signed(b))
  BY <1>2
<1>4. (a = b) <=> (Signed(a) = Signed(b))
  BY DEF RegWord, Mod, Signed, Neg
<1>5. /\ Signed(a) > Signed(b) <=> (~(Signed(a) < Signed(b)) /\ ~(Signed(a) = Signed(b)))
      /\ Signed(a) <= Signed(b) <=> (Signed(a) < Signed(b) \/ Signed(a) = Signed(b))
  BY <1>2
<1>6. k \in {"EQ", "NE", "HS", "LO", "HI", "LS", "GE", "LT", "GT", "LE"}
  BY DEF Ordering, Conds
<1>7. /\ (a >= b) \in BOOLEAN /\ (a < b) \in BOOLEAN
      /\ (a > b) \in BOOLEAN /\ (a <= b) \in BOOLEAN
      /\ (Signed(a) >= Signed(b)) \in BOOLEAN /\ (Signed(a) < Signed(b)) \in BOOLEAN
      /\ (Signed(a) > Signed(b)) \in BOOLEAN /\ (Signed(a) <= Signed(b)) \in BOOLEAN
  BY <1>2
<1>EQ. CheckCond("EQ", f) = Compares("EQ", a, b)
  <2> DEFINE p == f.z
             q == a = b
  <2>1. p \in BOOLEAN /\ q \in BOOLEAN /\ (p <=> q)
    BY <1>1, Zenon
  <2>2. CheckCond("EQ", f) = p /\ Compares("EQ", a, b) = q
    BY ConditionsRead, ComparisonsMean
  <2> HIDE DEF p, q
  <2> QED BY <2>1, <2>2, BooleanEquality, Zenon
<1>NE. CheckCond("NE", f) = Compares("NE", a, b)
  <2> DEFINE p == ~f.z
             q == a # b
  <2>1. p \in BOOLEAN /\ q \in BOOLEAN /\ (p <=> q)
    BY <1>1, Zenon
  <2>2. CheckCond("NE", f) = p /\ Compares("NE", a, b) = q
    BY ConditionsRead, ComparisonsMean
  <2> HIDE DEF p, q
  <2> QED BY <2>1, <2>2, BooleanEquality, Zenon
<1>HS. CheckCond("HS", f) = Compares("HS", a, b)
  <2> DEFINE p == f.c
             q == a >= b
  <2>1. p \in BOOLEAN /\ q \in BOOLEAN /\ (p <=> q)
    BY <1>1, <1>7, Zenon
  <2>2. CheckCond("HS", f) = p /\ Compares("HS", a, b) = q
    BY ConditionsRead, ComparisonsMean
  <2> HIDE DEF p, q
  <2> QED BY <2>1, <2>2, BooleanEquality, Zenon
<1>LO. CheckCond("LO", f) = Compares("LO", a, b)
  <2> DEFINE p == ~f.c
             q == a < b
  <2>1. p \in BOOLEAN /\ q \in BOOLEAN /\ (p <=> q)
    BY <1>1, <1>7, <1>3, Zenon
  <2>2. CheckCond("LO", f) = p /\ Compares("LO", a, b) = q
    BY ConditionsRead, ComparisonsMean
  <2> HIDE DEF p, q
  <2> QED BY <2>1, <2>2, BooleanEquality, Zenon
<1>HI. CheckCond("HI", f) = Compares("HI", a, b)
  <2> DEFINE p == f.c /\ ~f.z
             q == a > b
  <2>1. p \in BOOLEAN /\ q \in BOOLEAN /\ (p <=> q)
    BY <1>1, <1>7, <1>3, Zenon
  <2>2. CheckCond("HI", f) = p /\ Compares("HI", a, b) = q
    BY ConditionsRead, ComparisonsMean
  <2> HIDE DEF p, q
  <2> QED BY <2>1, <2>2, BooleanEquality, Zenon
<1>LS. CheckCond("LS", f) = Compares("LS", a, b)
  <2> DEFINE p == ~f.c \/ f.z
             q == a <= b
  <2>1. p \in BOOLEAN /\ q \in BOOLEAN /\ (p <=> q)
    BY <1>1, <1>7, <1>3, Zenon
  <2>2. CheckCond("LS", f) = p /\ Compares("LS", a, b) = q
    BY ConditionsRead, ComparisonsMean
  <2> HIDE DEF p, q
  <2> QED BY <2>1, <2>2, BooleanEquality, Zenon
<1>GE. CheckCond("GE", f) = Compares("GE", a, b)
  <2> DEFINE p == f.n = f.v
             q == Signed(a) >= Signed(b)
  <2>1. p \in BOOLEAN /\ q \in BOOLEAN /\ (p <=> q)
    BY <1>1, <1>7, <1>3, Zenon
  <2>2. CheckCond("GE", f) = p /\ Compares("GE", a, b) = q
    BY ConditionsRead, ComparisonsMean
  <2> HIDE DEF p, q
  <2> QED BY <2>1, <2>2, BooleanEquality, Zenon
<1>LT. CheckCond("LT", f) = Compares("LT", a, b)
  <2> DEFINE p == f.n # f.v
             q == Signed(a) < Signed(b)
  <2>1. p \in BOOLEAN /\ q \in BOOLEAN /\ (p <=> q)
    BY <1>1, <1>7, Zenon
  <2>2. CheckCond("LT", f) = p /\ Compares("LT", a, b) = q
    BY ConditionsRead, ComparisonsMean
  <2> HIDE DEF p, q
  <2> QED BY <2>1, <2>2, BooleanEquality, Zenon
<1>GT. CheckCond("GT", f) = Compares("GT", a, b)
  <2> DEFINE p == ~f.z /\ f.n = f.v
             q == Signed(a) > Signed(b)
  <2>1. p \in BOOLEAN /\ q \in BOOLEAN /\ (p <=> q)
    BY <1>1, <1>7, <1>4, <1>5, Zenon
  <2>2. CheckCond("GT", f) = p /\ Compares("GT", a, b) = q
    BY ConditionsRead, ComparisonsMean
  <2> HIDE DEF p, q
  <2> QED BY <2>1, <2>2, BooleanEquality, Zenon
<1>LE. CheckCond("LE", f) = Compares("LE", a, b)
  <2> DEFINE p == f.z \/ f.n # f.v
             q == Signed(a) <= Signed(b)
  <2>1. p \in BOOLEAN /\ q \in BOOLEAN /\ (p <=> q)
    BY <1>1, <1>7, <1>4, <1>5, Zenon
  <2>2. CheckCond("LE", f) = p /\ Compares("LE", a, b) = q
    BY ConditionsRead, ComparisonsMean
  <2> HIDE DEF p, q
  <2> QED BY <2>1, <2>2, BooleanEquality, Zenon
<1> QED BY <1>6, <1>EQ, <1>NE, <1>HS, <1>LO, <1>HI, <1>LS, <1>GE, <1>LT, <1>GT, <1>LE, Zenon

\* SBC of the high words after CMP of the low words orders two-word numbers.
LEMMA SbcDecides ==
  ASSUME Half \in Nat \ {0}, NEW a \in RegWord, NEW b \in RegWord, NEW x \in RegWord, NEW y \in RegWord,
         NEW bin \in {0, 1}, bin = (IF x >= y THEN 0 ELSE 1),
         NEW f, f = SbcFlags(a, b, bin, Wrap(a - b - bin))
  PROVE  /\ CheckCond("HS", f) = (Wide(a, x) >= Wide(b, y))
         /\ CheckCond("LT", f) = (WideSigned(a, x) < WideSigned(b, y))
<1>2. /\ f.c <=> a >= b + bin
      /\ (f.n # f.v) <=> Signed(a) < Signed(b) + bin
      /\ f.n \in BOOLEAN /\ f.v \in BOOLEAN /\ f.c \in BOOLEAN
  <2> DEFINE res == Wrap(a - b - bin)
             N == Neg(res)
             V == Neg(a) # Neg(b) /\ Neg(a) # Neg(res)
  <2>1. f.n = N /\ f.c = (a - b - bin >= 0) /\ f.v = V
    BY DEF SbcFlags
  <2>2. V <=> (~(Neg(a) <=> Neg(b)) /\ ~(Neg(a) <=> Neg(res)))
    BY DEF Neg
  <2>3. N \in BOOLEAN /\ V \in BOOLEAN /\ (a - b - bin >= 0) \in BOOLEAN
    BY DEF Neg
  <2>4. ~(N <=> V) <=> Signed(a) < Signed(b) + bin
    BY <2>2, SignedOrder
  <2>5. (a - b - bin >= 0) <=> a >= b + bin
    BY DEF RegWord, Mod
  <2> HIDE DEF N, V, res
  <2> QED BY <2>1, <2>3, <2>4, <2>5, BooleanInequality, Zenon
<1>3. /\ Mod \in Nat \ {0} /\ a \in Int /\ b \in Int /\ Signed(a) \in Int /\ Signed(b) \in Int
      /\ x \in 0..(Mod - 1) /\ y \in 0..(Mod - 1)
  BY DEF RegWord, Mod, Signed
<1>4. a * Mod + x >= b * Mod + y <=> a >= b + bin
  BY <1>3, WideOrder
<1>5. Signed(a) * Mod + x >= Signed(b) * Mod + y <=> Signed(a) >= Signed(b) + bin
  BY <1>3, WideOrder, Zenon
<1>6. Signed(a) * Mod + x < Signed(b) * Mod + y <=> Signed(a) < Signed(b) + bin
  <2> DEFINE l == Signed(a) * Mod + x
             r == Signed(b) * Mod + y
             r1 == Signed(b) + bin
  <2>1. l \in Int /\ r \in Int /\ Signed(a) \in Int /\ r1 \in Int
    BY <1>3
  <2>2. l >= r <=> Signed(a) >= r1
    BY <1>5
  <2> HIDE DEF l, r, r1
  <2>3. l < r <=> Signed(a) < r1
    BY <2>1, <2>2
  <2> QED BY <2>3 DEF l, r, r1
<1>7. CheckCond("HS", f) = (Wide(a, x) >= Wide(b, y))
  <2> DEFINE p == f.c
             q == Wide(a, x) >= Wide(b, y)
  <2>1. q <=> a >= b + bin
    BY <1>4 DEF Wide
  <2>2. q \in BOOLEAN
    BY <1>3 DEF Wide
  <2>3. CheckCond("HS", f) = p
    BY ConditionsRead
  <2>4. p \in BOOLEAN /\ (p <=> q)
    BY <1>2, <2>1, Zenon
  <2> HIDE DEF p, q
  <2>5. CheckCond("HS", f) = q
    BY <2>2, <2>3, <2>4, BooleanEquality, Zenon
  <2> QED BY <2>5 DEF q
<1>8. CheckCond("LT", f) = (WideSigned(a, x) < WideSigned(b, y))
  <2> DEFINE p == f.n # f.v
             q == WideSigned(a, x) < WideSigned(b, y)
  <2>1. q <=> Signed(a) < Signed(b) + bin
    BY <1>6 DEF WideSigned
  <2>2. q \in BOOLEAN
    BY <1>3 DEF WideSigned
  <2>3. CheckCond("LT", f) = p
    BY ConditionsRead
  <2>4. p \in BOOLEAN /\ (p <=> q)
    BY <1>2, <2>1, Zenon
  <2> HIDE DEF p, q
  <2>5. CheckCond("LT", f) = q
    BY <2>2, <2>3, <2>4, BooleanEquality, Zenon
  <2> QED BY <2>5 DEF q
<1> QED BY <1>7, <1>8

\* The borrow of SBC is what the CMP before it left in C.
LEMMA BorrowOfCmp ==
  ASSUME Half \in Nat \ {0}, NEW x \in RegWord, NEW y \in RegWord
  PROVE  1 - Bit(UpdateSub(x, y, Wrap(x - y)).c) = (IF x >= y THEN 0 ELSE 1)
<1>1. UpdateSub(x, y, Wrap(x - y)).c = (x >= y)
  BY DEF UpdateSub
<1>2. CASE x >= y
  <2>1. UpdateSub(x, y, Wrap(x - y)).c = TRUE
    BY <1>1, <1>2, Zenon
  <2> QED BY <1>2, <2>1 DEF Bit
<1>3. CASE ~(x >= y)
  <2>1. (x >= y) \in BOOLEAN
    BY DEF RegWord, Mod
  <2>2. UpdateSub(x, y, Wrap(x - y)).c = FALSE
    BY <1>1, <1>3, <2>1, Zenon
  <2> QED BY <1>3, <2>2 DEF Bit
<1> QED BY <1>2, <1>3

\* CMP, and CMP then SBC in either encoding, decide every ordering of words
\* and of two-word numbers as the numbers compare, for every word size: what
\* instr_bcond and t32_check_cond branch on after update_sub_flags.
THEOREM ComparisonsDecideAllWords ==
  ASSUME Words
  PROVE  ComparisonsDecide
<1> SUFFICES ASSUME NEW a \in RegWord, NEW b \in RegWord
             PROVE  /\ \A k \in Ordering : CheckCond(k, Cmp(alu, a, b).f) = Compares(k, a, b)
                    /\ LET lo == Cmp(alu, alu.r[0], alu.r[1])
                       IN \A hi \in {Sbcs(lo, 0, a, b), DpExec(lo, "SBC", TRUE, 0, a, b, FALSE)} :
                            /\ CheckCond("HS", hi.f) = (Wide(a, alu.r[0]) >= Wide(b, alu.r[1]))
                            /\ CheckCond("LT", hi.f) =
                                 (WideSigned(a, alu.r[0]) < WideSigned(b, alu.r[1]))
  BY Zenon DEF ComparisonsDecide
<1> DEFINE x == alu.r[0]
           y == alu.r[1]
<1>1. Half \in Nat \ {0} /\ x \in RegWord /\ y \in RegWord
  BY DEF Words, Reg
<1>2. ASSUME NEW c \in RegWord, NEW d \in RegWord
      PROVE  Cmp(alu, c, d).f = UpdateSub(c, d, Wrap(c - d)) /\ Cmp(alu, c, d).r = alu.r
  BY DEF Cmp, Words
<1>3. \A k \in Ordering : CheckCond(k, Cmp(alu, a, b).f) = Compares(k, a, b)
  BY <1>1, <1>2, CmpDecides
<1> DEFINE lo == Cmp(alu, x, y)
           bin == 1 - Bit(lo.f.c)
           fl == SbcFlags(a, b, bin, Wrap(a - b - bin))
<1>4. bin = (IF x >= y THEN 0 ELSE 1)
  BY <1>1, <1>2, BorrowOfCmp
<1>5. /\ CheckCond("HS", fl) = (Wide(a, x) >= Wide(b, y))
      /\ CheckCond("LT", fl) = (WideSigned(a, x) < WideSigned(b, y))
  <2>1. bin \in {0, 1}
    BY <1>4
  <2> QED BY <1>1, <1>4, <2>1, SbcDecides
<1>6. Sbcs(lo, 0, a, b).f = fl
  BY DEF Sbcs, Set
<1>7. DpExec(lo, "SBC", TRUE, 0, a, b, FALSE).f = fl
  BY DEF DpExec, DpFlags, DpResult
<1> QED BY <1>3, <1>5, <1>6, <1>7, Zenon

-----------------------------------------------------------------------------
(* The harts.  What a hart keeps by itself, whatever the other one does.   *)

Places == Main \cup Sources \cup {"base"}

HartState == [pc : Places, halted : BOOLEAN, wfi : BOOLEAN, mie : BOOLEAN, mpie : BOOLEAN,
              en : SUBSET Sources, mepc : Places, resume : Places \X BOOLEAN]

LoopState == [hart : [Hart -> HartState], mtime : Nat, cmp : [Hart -> Nat],
              msip : [Hart -> BOOLEAN], launch : BOOLEAN, entry : Main]

\* A hart in a handler has its way back and is awake with interrupts off.
HartLawful(h) ==
  /\ h \in HartState
  /\ InHandler(h) => /\ h.resume = <<h.mepc, h.mpie>> /\ h.mepc \in Main
                     /\ ~h.mie /\ ~h.wfi

LoopLawful(s) == s \in LoopState /\ \A i \in Hart : HartLawful(s.hart[i])

\* A hart that waits with MIE set has nothing to wait for.
Attended(s, i) == s.hart[i].wfi /\ s.hart[i].mie => Mip(s, i) \cap s.hart[i].en = {}

\* The inductive invariant: a halted hart is not checked and may have anything pending.
HartsInv ==
  /\ LoopLawful(rvh)
  /\ \A i \in Hart : rvh.hart[i].halted \/ Attended(rvh, i)

\* A trap is taken from the main program and leaves the hart awake.
LEMMA TrapLawful ==
  ASSUME NEW h \in HartState, h.pc \in Main, ~h.wfi, NEW cause
  PROVE  /\ HartLawful(TrapEnter(h, cause)) /\ ~TrapEnter(h, cause).wfi
         /\ TrapEnter(h, cause).halted = h.halted
<1> DEFINE p == IF MtvecMode = 1 /\ cause \in Sources THEN cause ELSE "base"
           r == <<h.pc, h.mie>>
           h1 == [h EXCEPT !.mepc = h.pc, !.mpie = h.mie, !.mie = FALSE]
           h2 == [h1 EXCEPT !.pc = p, !.resume = r]
<1>1. p \in Places /\ r \in Places \X BOOLEAN
  BY DEF Places, HartState
<1>2. h1 \in HartState /\ h1.mepc = h.pc /\ h1.mpie = h.mie /\ h1.mie = FALSE /\ h1.wfi = h.wfi
      /\ h1.halted = h.halted
  BY Zenon DEF HartState
<1>3. TrapEnter(h, cause) = h2
  BY DEF TrapEnter, HartState
<1>4. r = <<h1.mepc, h1.mpie>>
  BY <1>2
<1> HIDE DEF p, r, h1
<1>5. h2 \in HartState /\ h2.mepc = h1.mepc /\ h2.mpie = h1.mpie /\ h2.mie = h1.mie
      /\ h2.wfi = h1.wfi /\ h2.halted = h1.halted /\ h2.resume = r
  BY <1>1, <1>2, Zenon DEF HartState
<1> HIDE DEF h2
<1> QED BY <1>2, <1>3, <1>4, <1>5 DEF HartLawful

\* The next instruction of the main program is one of the main program; a handler
\* stays where it is.
LEMMA AdvanceLawful ==
  ASSUME NEW h, HartLawful(h)
  PROVE  HartLawful(Advance(h))
<1> DEFINE p == CASE h.pc = "m0" -> "m1" [] h.pc = "m1" -> "m0" [] OTHER -> h.pc
<1>1. p \in Places /\ (p \in Main <=> h.pc \in Main)
  BY DEF HartLawful, HartState, Places, Main
<1>2. Advance(h) = [h EXCEPT !.pc = p]
  BY DEF Advance
<1> HIDE DEF p
<1> QED BY <1>1, <1>2 DEF HartLawful, HartState, InHandler

\* MRET goes back to the main program.
LEMMA ReturnLawful ==
  ASSUME NEW h, HartLawful(h), InHandler(h)
  PROVE  HartLawful(TrapReturn(h))
<1> DEFINE r == <<"m0", FALSE>>
           h1 == [h EXCEPT !.pc = h.mepc, !.mie = h.mpie, !.mpie = TRUE]
<1>1. r \in Places \X BOOLEAN
  BY Zenon DEF Places, Main
<1>2. h1 \in HartState /\ h1.pc \in Main
  BY Zenon DEF HartLawful, HartState
<1>3. TrapReturn(h) = [h1 EXCEPT !.resume = r]
  BY DEF TrapReturn, HartLawful, HartState, HartInit
<1> HIDE DEF r, h1
<1>4. TrapReturn(h) \in HartState /\ TrapReturn(h).pc \in Main
  BY <1>1, <1>2, <1>3 DEF HartState
<1> QED BY <1>4 DEF HartLawful, InHandler

\* A reset hart is awake in the main program, whatever its registers hold.
LEMMA ResetLawful ==
  ASSUME NEW h \in HartState, NEW entry \in Main, NEW b \in BOOLEAN
  PROVE  /\ HartLawful(CpuReset(h, entry)) /\ ~CpuReset(h, entry).wfi
         /\ HartLawful([CpuReset(h, entry) EXCEPT !.halted = b])
         /\ ~[CpuReset(h, entry) EXCEPT !.halted = b].wfi
<1> DEFINE r == CpuReset(h, entry)
<1>1. r \in HartState /\ r.pc = entry /\ ~r.wfi
  BY Zenon DEF CpuReset, HartState, Places
<1> HIDE DEF r
<1>2. LET q == [r EXCEPT !.halted = b] IN q \in HartState /\ q.pc = entry /\ ~q.wfi
  BY <1>1 DEF HartState
<1>3. HartLawful(r) /\ ~r.wfi /\ HartLawful([r EXCEPT !.halted = b]) /\ ~[r EXCEPT !.halted = b].wfi
  BY <1>1, <1>2 DEF HartLawful, InHandler
<1> QED BY <1>3 DEF r

\* An instruction of the main program leaves the hart lawful.
LEMMA MainOpLawful ==
  ASSUME NEW h, HartLawful(h), ~InHandler(h), ~h.wfi
  PROVE  /\ HartLawful(Priv(h, "ecall")) /\ HartLawful(Priv(h, "wfi"))
         /\ HartLawful(RomReboot(h))
         /\ \A op \in {"csrs_mie", "csrc_mie", "csrw_mie"} : HartLawful(Advance(CsrWrite(h, op)))
<1>1. h \in HartState /\ h.pc \in Main
  BY DEF HartLawful, InHandler
<1>2. HartLawful(Priv(h, "ecall"))
  BY <1>1, TrapLawful DEF Priv
<1>3. HartLawful([h EXCEPT !.wfi = TRUE]) /\ HartLawful([h EXCEPT !.halted = TRUE])
  BY <1>1, Zenon DEF HartLawful, HartState, InHandler
<1>4. HartLawful(Priv(h, "wfi")) /\ HartLawful(RomReboot(h))
  BY <1>3, AdvanceLawful DEF Priv, RomReboot
<1>5. ASSUME NEW op \in {"csrs_mie", "csrc_mie", "csrw_mie"}
      PROVE  HartLawful(Advance(CsrWrite(h, op)))
  <2>1. HartLawful(CsrWrite(h, op))
    BY <1>1, Zenon DEF CsrWrite, HartLawful, HartState, InHandler
  <2> QED BY <2>1, AdvanceLawful
<1> QED BY <1>2, <1>4, <1>5

\* Giving hart i the state h touches nothing else of the loop.
LEMMA PutLawful ==
  ASSUME NEW s, LoopLawful(s), NEW i \in Hart, NEW h, HartLawful(h), NEW t, t = Put(s, i, h)
  PROVE  /\ LoopLawful(t) /\ t.hart[i] = h
         /\ t.mtime = s.mtime /\ t.cmp = s.cmp /\ t.msip = s.msip
         /\ \A j \in Hart : j # i => t.hart[j] = s.hart[j]
<1> DEFINE f == [s.hart EXCEPT ![i] = h]
<1>1. f \in [Hart -> HartState] /\ \A j \in Hart : HartLawful(f[j])
  BY DEF LoopLawful, LoopState, HartLawful
<1>2. f[i] = h /\ \A j \in Hart : j # i => f[j] = s.hart[j]
  BY DEF LoopLawful, LoopState
<1>3. t = [s EXCEPT !.hart = f]
  BY DEF Put
<1> HIDE DEF f
<1>4. t \in LoopState /\ t.hart = f /\ t.mtime = s.mtime /\ t.cmp = s.cmp /\ t.msip = s.msip
  BY <1>1, <1>3 DEF LoopLawful, LoopState
<1> QED BY <1>1, <1>2, <1>4 DEF LoopLawful

\* An instruction that hart i may execute leaves the loop lawful and the other hart alone.
LEMMA StepLawful ==
  ASSUME NEW s, LoopLawful(s), NEW i \in Hart, NEW s0, s0.hart[i] = s.hart[i],
         NEW op \in Ops(s0, i), NEW n, n = StepIf(s, i, op)
  PROVE  /\ LoopLawful(n)
         /\ \A j \in Hart : j # i => n.hart[j] = s.hart[j]
<1> DEFINE h == s.hart[i]
<1>1. HartLawful(h)
  BY DEF LoopLawful
<1>2. CASE op = "idle"
  BY <1>2 DEF StepIf
<1>3. CASE op # "idle"
  <2>1. /\ op \in MainOps \cup HandlerOps /\ ~h.wfi
        /\ op \in {"ecall", "wfi", "reboot", "csrs_mie", "csrc_mie", "csrw_mie"} => ~InHandler(h)
        /\ op = "mret" => InHandler(h)
    BY <1>3, Zenon DEF Ops, Runs, MainOps, HandlerOps
  <2>2. HartLawful(Advance(h))
    BY <1>1, AdvanceLawful
  <2>3. n = CpuStep(s, i, op)
    BY <1>3 DEF StepIf
  <2>4. CASE op \in {"ecall", "mret", "wfi"}
    <3>1. HartLawful(Priv(h, op))
      BY <1>1, <2>1, <2>4, ReturnLawful, MainOpLawful DEF Priv
    <3>2. n = Put(s, i, Priv(h, op))
      BY <2>3, <2>4 DEF CpuStep
    <3> QED BY <3>1, <3>2, PutLawful
  <2>5. CASE op \in {"ipi", "msip_ack", "mtimecmp", "mtimecmp_off"}
    <3> DEFINE t == ClintWrite(s, i, op)
    <3>1. LoopLawful(t) /\ t.hart = s.hart
      <4>1. PICK m \in [Hart -> BOOLEAN], k \in [Hart -> Nat] :
              t = [s EXCEPT !.msip = m] \/ t = [s EXCEPT !.cmp = k]
        <5> DEFINE ipi == [s.msip EXCEPT ![OtherHart(i)] = TRUE]
                   ack == [s.msip EXCEPT ![i] = FALSE]
                   set == [s.cmp EXCEPT ![i] = MaxTime]
                   off == [s.cmp EXCEPT ![i] = Never]
        <5>1. /\ ipi \in [Hart -> BOOLEAN] /\ ack \in [Hart -> BOOLEAN]
              /\ set \in [Hart -> Nat] /\ off \in [Hart -> Nat]
          <6>1. s.msip \in [Hart -> BOOLEAN] /\ s.cmp \in [Hart -> Nat]
            BY DEF LoopLawful, LoopState
          <6>2. MaxTime \in Nat /\ Never \in Nat
            BY HartsAssumption DEF Never
          <6> QED BY <6>1, <6>2, Zenon
        <5>2. \/ t = [s EXCEPT !.msip = ipi] \/ t = [s EXCEPT !.msip = ack]
              \/ t = [s EXCEPT !.cmp = set] \/ t = [s EXCEPT !.cmp = off]
          BY <2>5 DEF ClintWrite
        <5> QED BY <5>1, <5>2, Zenon
      <4> HIDE DEF t
      <4>2. t \in LoopState /\ t.hart = s.hart
        BY <4>1 DEF LoopLawful, LoopState
      <4> QED BY <4>2 DEF LoopLawful
    <3>2. n = Put(t, i, Advance(h))
      BY <2>3, <2>5 DEF CpuStep
    <3> HIDE DEF t
    <3> QED BY <2>2, <3>1, <3>2, PutLawful
  <2>6. CASE op = "launch"
    <3> DEFINE t == SioWrite(s, "m1")
    <3>1. LoopLawful(t) /\ t.hart = s.hart
      BY Zenon DEF SioWrite, LoopLawful, LoopState, Main
    <3>2. n = Put(t, i, Advance(h))
      BY <2>3, <2>6 DEF CpuStep
    <3> HIDE DEF t
    <3> QED BY <2>2, <3>1, <3>2, PutLawful
  <2>7. CASE op = "reboot"
    <3>1. HartLawful(RomReboot(h))
      BY <1>1, <2>1, <2>7, MainOpLawful
    <3>2. n = Put(s, i, RomReboot(h))
      BY <2>3, <2>7 DEF CpuStep
    <3> QED BY <3>1, <3>2, PutLawful
  <2>8. CASE op = "nop"
    <3>1. n = Put(s, i, Advance(h))
      BY <2>3, <2>8 DEF CpuStep
    <3> QED BY <2>2, <3>1, PutLawful
  <2>9. CASE op \in {"csrs_mie", "csrc_mie", "csrw_mie"}
    <3>1. HartLawful(Advance(CsrWrite(h, op)))
      BY <1>1, <2>1, <2>9, MainOpLawful
    <3>2. n = Put(s, i, Advance(CsrWrite(h, op)))
      BY <2>3, <2>9 DEF CpuStep
    <3> QED BY <3>1, <3>2, PutLawful
  <2> QED BY <2>1, <2>4, <2>5, <2>6, <2>7, <2>8, <2>9 DEF MainOps, HandlerOps
<1> QED BY <1>2, <1>3

\* After the check, hart i does not sleep through what it enables; the other hart
\* and what is pending are as before.
LEMMA CheckLawful ==
  ASSUME NEW s, LoopLawful(s), NEW i \in Hart, NEW c, c = CheckInterrupts(s, i)
  PROVE  /\ LoopLawful(c) /\ Attended(c, i)
         /\ c.hart[i].halted = s.hart[i].halted
         /\ \A j \in Hart : j # i => c.hart[j] = s.hart[j]
         /\ \A j \in Hart : Mip(c, j) = Mip(s, j)
<1> DEFINE h == s.hart[i]
           due == Mip(s, i) \cap h.en
           cause == IF "MSI" \in due THEN "MSI" ELSE "MTI"
<1>1. HartLawful(h) /\ h \in HartState
  BY DEF LoopLawful, HartLawful
<1>2. CASE ~h.mie \/ due = {}
  <2>1. c = s
    BY <1>2 DEF CheckInterrupts
  <2> QED BY <1>2, <2>1 DEF Attended
<1>3. CASE ~(~h.mie \/ due = {})
  <2> DEFINE w == [h EXCEPT !.wfi = FALSE]
             e == TrapEnter(w, cause)
  <2>1. c = Put(s, i, e)
    BY <1>3 DEF CheckInterrupts
  <2>2. w \in HartState /\ w.pc \in Main /\ ~w.wfi /\ w.halted = h.halted
    BY <1>1, <1>3, Zenon DEF HartLawful, HartState, InHandler
  <2> HIDE DEF w, cause, due
  <2>3. HartLawful(e) /\ ~e.wfi /\ e.halted = h.halted
    BY <2>2, TrapLawful
  <2> HIDE DEF e
  <2>4. /\ LoopLawful(c) /\ c.hart[i] = e /\ \A j \in Hart : j # i => c.hart[j] = s.hart[j]
        /\ c.mtime = s.mtime /\ c.cmp = s.cmp /\ c.msip = s.msip
    BY <2>1, <2>3, PutLawful
  <2> QED BY <2>3, <2>4 DEF Attended, Mip
<1> QED BY <1>2, <1>3

\* A launch starts a halted hart in the main program, awake, and touches no other.
LEMMA LaunchLawful ==
  ASSUME NEW s, LoopLawful(s), NEW n, n = CheckLaunch(s)
  PROVE  /\ LoopLawful(n)
         /\ \/ n = s
            \/ /\ ~n.hart[1].wfi /\ n.hart[0] = s.hart[0]
               /\ \A j \in Hart : Mip(n, j) = Mip(s, j)
<1>1. CASE s.hart[1].halted /\ s.launch
  <2> DEFINE t == [s EXCEPT !.launch = FALSE]
             h == CpuReset(s.hart[1], s.entry)
  <2>1. LoopLawful(t) /\ t.hart = s.hart /\ t.mtime = s.mtime /\ t.cmp = s.cmp /\ t.msip = s.msip
    BY Zenon DEF LoopLawful, LoopState
  <2>2. s.hart[1] \in HartState /\ s.entry \in Main /\ 1 \in Hart /\ 0 \in Hart
    BY DEF LoopLawful, LoopState, Hart
  <2>3. HartLawful(h) /\ ~h.wfi
    BY <2>2, ResetLawful, Zenon
  <2>4. n = Put(t, 1, h)
    BY <1>1 DEF CheckLaunch
  <2> HIDE DEF t, h
  <2>5. /\ LoopLawful(n) /\ n.hart[1] = h /\ n.mtime = t.mtime /\ n.cmp = t.cmp /\ n.msip = t.msip
        /\ \A j \in Hart : j # 1 => n.hart[j] = t.hart[j]
    BY <2>1, <2>2, <2>3, <2>4, PutLawful
  <2> QED BY <2>1, <2>2, <2>3, <2>5 DEF Mip
<1>2. CASE ~(s.hart[1].halted /\ s.launch)
  BY <1>2 DEF CheckLaunch
<1> QED BY <1>1, <1>2

\* One pass: the steps of both harts, the timer, both checks and the launch.
LEMMA LoopPassKeeps == HartsInv /\ LoopPass => HartsInv'
<1> SUFFICES ASSUME HartsInv, LoopPass PROVE HartsInv'
  OBVIOUS
<1>1. PICK op0 \in Ops(rvh, 0), op1 \in Ops(rvh, 1) : rvh' = Pass(rvh, op0, op1)
  BY DEF LoopPass
<1> DEFINE a == StepIf(rvh, 0, op0)
           b == StepIf(a, 1, op1)
           t == ClintTick(b)
           c == CheckInterrupts(t, 0)
           d == IF c.hart[1].halted THEN c ELSE CheckInterrupts(c, 1)
<1>2. rvh' = CheckLaunch(d)
  BY <1>1 DEF Pass
<1>3. 0 \in Hart /\ 1 \in Hart /\ Hart = {0, 1}
  BY DEF Hart
<1>4. LoopLawful(a) /\ a.hart[1] = rvh.hart[1]
  BY <1>1, <1>3, StepLawful DEF HartsInv
<1> HIDE DEF a
<1>5. LoopLawful(b)
  BY <1>1, <1>3, <1>4, StepLawful
<1> HIDE DEF b
<1>6. LoopLawful(t)
  BY <1>5, HartsAssumption DEF ClintTick, LoopLawful, LoopState
<1> HIDE DEF t
<1>7. LoopLawful(c) /\ Attended(c, 0)
  BY <1>3, <1>6, CheckLawful
<1> HIDE DEF c
<1>8. LoopLawful(d) /\ Attended(d, 0) /\ (d.hart[1].halted \/ Attended(d, 1))
  <2>1. CASE c.hart[1].halted
    BY <1>7, <2>1
  <2>2. CASE ~c.hart[1].halted
    <3>1. d = CheckInterrupts(c, 1)
      BY <2>2
    <3> HIDE DEF d
    <3>2. LoopLawful(d) /\ Attended(d, 1) /\ d.hart[0] = c.hart[0] /\ Mip(d, 0) = Mip(c, 0)
      BY <1>3, <1>7, <3>1, CheckLawful
    <3> QED BY <1>7, <3>2 DEF Attended
  <2> QED BY <2>1, <2>2
<1> HIDE DEF d
<1>9. /\ LoopLawful(rvh')
      /\ \/ rvh' = d
         \/ ~rvh'.hart[1].wfi /\ rvh'.hart[0] = d.hart[0] /\ Mip(rvh', 0) = Mip(d, 0)
  BY <1>2, <1>3, <1>8, LaunchLawful
<1>10. Attended(rvh', 0) /\ (rvh'.hart[1].halted \/ Attended(rvh', 1))
  BY <1>8, <1>9 DEF Attended
<1> QED BY <1>3, <1>9, <1>10 DEF HartsInv, Attended, Mip

\* A reboot wakes both harts in the main program, with the registers they had.
LEMMA RebootKeeps == HartsInv /\ WatchdogReboot => HartsInv'
<1> SUFFICES ASSUME HartsInv, WatchdogReboot PROVE HartsInv'
  OBVIOUS
<1> DEFINE f == [i \in Hart |-> [CpuReset(rvh.hart[i], "m0") EXCEPT !.halted = (i = 1)]]
<1>1. rvh' = [rvh EXCEPT !.hart = f]
  BY DEF WatchdogReboot
<1>2. ASSUME NEW i \in Hart PROVE HartLawful(f[i]) /\ ~f[i].wfi
  <2>1. rvh.hart[i] \in HartState /\ "m0" \in Main /\ (i = 1) \in BOOLEAN
    BY DEF HartsInv, LoopLawful, LoopState, Main
  <2> QED BY <2>1, ResetLawful, Zenon
<1>3. f \in [Hart -> HartState]
  BY <1>2 DEF HartLawful
<1> HIDE DEF f
<1>4. rvh' \in LoopState /\ rvh'.hart = f
  BY <1>1, <1>3 DEF HartsInv, LoopLawful, LoopState
<1> QED BY <1>2, <1>4 DEF HartsInv, LoopLawful, Attended

\* However long the timer runs and whichever mode mtvec selects, both harts return
\* from a handler to where its trap was taken, with the interrupt enable of that
\* moment, and no hart waits in WFI for an interrupt that is already pending, nor
\* inside a handler (rv_trap_enter, rv_trap_return, rv_clint_check_interrupts).
THEOREM HartsAreSound == HartsSpec => []HartsSound
<1>1. HartsInit => HartsInv
  <2> SUFFICES ASSUME HartsInit PROVE HartsInv
    OBVIOUS
  <2> DEFINE f == [i \in Hart |-> [HartInit EXCEPT !.halted = (i = 1)]]
  <2>1. ASSUME NEW i \in Hart PROVE HartLawful(f[i]) /\ ~f[i].wfi
    <3> DEFINE r == <<"m0", FALSE>>
    <3>1. r \in Places \X BOOLEAN /\ {} \in SUBSET Sources /\ "m0" \in Places /\ "m0" \in Main
      BY Zenon DEF Places, Main
    <3>2. HartInit \in HartState /\ HartInit.pc = "m0" /\ HartInit.wfi = FALSE
      BY <3>1 DEF HartInit, HartState
    <3>3. f[i] \in HartState /\ f[i].pc = "m0" /\ ~f[i].wfi
      BY <3>2, Zenon DEF HartState
    <3> QED BY <3>1, <3>3 DEF HartLawful, InHandler
  <2>2. f \in [Hart -> HartState]
    BY <2>1 DEF HartLawful
  <2> HIDE DEF f
  <2>3. rvh \in LoopState /\ rvh.hart = f
    BY <2>2, HartsAssumption DEF HartsInit, LoopState, Never, Main, f
  <2> QED BY <2>1, <2>3 DEF HartsInv, LoopLawful, Attended
<1>2. HartsInv /\ [HartsNext]_rvh => HartsInv'
  <2>1. HartsInv /\ UNCHANGED rvh => HartsInv'
    BY DEF HartsInv, Attended, Mip
  <2> QED BY <2>1, LoopPassKeeps, RebootKeeps DEF HartsNext
<1>3. HartsInv => HartsSound
  BY DEF HartsInv, HartsSound, HandlersReturn, WfiNotMissed, LoopLawful, HartLawful, Attended
<1> QED BY <1>1, <1>2, <1>3, PTL DEF HartsSpec
=============================================================================
