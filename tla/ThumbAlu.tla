------------------------------ MODULE ThumbAlu ------------------------------
(***************************************************************************)
(* The flag-setting arithmetic of the Thumb core: the 16-bit handlers of   *)
(* src/instructions.c and the data-processing group of src/thumb32.c.      *)
(*                                                                         *)
(* A register word has Width bits (32 in the code); Half is its sign bit.  *)
(* The state is one core: the two registers r[0], r[1] and the flags n, z, *)
(* c, v of the xPSR.  Register 15, the destination that turns an operation *)
(* into CMP, CMN, TST or TEQ, is the destination None.                     *)
(***************************************************************************)
EXTENDS Integers, FiniteSetsExt

CONSTANTS Width,   \* bits of a register word
          Half     \* the weight of its top bit, 2 ^ (Width - 1)

VARIABLE alu       \* [r |-> registers, f |-> flags]

Mod == 2 * Half
RegWord == 0 .. Mod - 1
Flags == [n : BOOLEAN, z : BOOLEAN, c : BOOLEAN, v : BOOLEAN]
Reg == 0 .. 1
None == 15

Neg(x) == x >= Half
Signed(x) == IF Neg(x) THEN x - Mod ELSE x
(* uint32_t arithmetic: one wrap suffices for the sum of two words and a carry. *)
Wrap(x) == IF x < 0 THEN x + Mod ELSE IF x >= Mod THEN x - Mod ELSE x
Bit(b) == IF b THEN 1 ELSE 0

Bits(x) == {i \in 0 .. Width - 1 : (x \div 2 ^ i) % 2 = 1}
Value(S) == MapThenSumSet(LAMBDA i : 2 ^ i, S)

Init == alu = [r |-> [i \in Reg |-> 0],
               f |-> [n |-> FALSE, z |-> FALSE, c |-> FALSE, v |-> FALSE]]

-----------------------------------------------------------------------------
(* Flags.                                                                  *)

UpdateNz(f, res) == [f EXCEPT !.n = Neg(res), !.z = (res = 0)]

UpdateAdd(a, b, res) ==
  [n |-> Neg(res), z |-> res = 0, c |-> a + b >= Mod,
   v |-> Neg(a) # Neg(res) /\ Neg(b) # Neg(res)]

UpdateSub(a, b, res) ==
  [n |-> Neg(res), z |-> res = 0, c |-> a >= b,
   v |-> Neg(a) # Neg(b) /\ Neg(a) # Neg(res)]

AdcFlags(a, b, cin, res) ==
  [n |-> Neg(res), z |-> res = 0, c |-> a + b + cin >= Mod,
   v |-> Neg(a) # Neg(res) /\ Neg(b) # Neg(res)]

SbcFlags(a, b, bin, res) ==
  [n |-> Neg(res), z |-> res = 0, c |-> a - b - bin >= 0,
   v |-> Neg(a) # Neg(b) /\ Neg(a) # Neg(res)]

(* The condition codes of instr_bcond and t32_check_cond. *)
Conds == {"EQ", "NE", "HS", "LO", "MI", "PL", "VS", "VC",
          "HI", "LS", "GE", "LT", "GT", "LE"}

CheckCond(k, f) ==
  CASE k = "EQ" -> f.z           [] k = "NE" -> ~f.z
    [] k = "HS" -> f.c           [] k = "LO" -> ~f.c
    [] k = "MI" -> f.n           [] k = "PL" -> ~f.n
    [] k = "VS" -> f.v           [] k = "VC" -> ~f.v
    [] k = "HI" -> f.c /\ ~f.z   [] k = "LS" -> ~f.c \/ f.z
    [] k = "GE" -> f.n = f.v     [] k = "LT" -> f.n # f.v
    [] k = "GT" -> ~f.z /\ f.n = f.v
    [] k = "LE" -> f.z \/ f.n # f.v

-----------------------------------------------------------------------------
(* The barrel shifter.  A shift yields <<result, carry out>>.              *)

Shifts == {"LSL", "LSR", "ASR", "ROR"}

ShiftC(v, type, n, cin) ==
  IF n = 0 THEN <<v, cin>>
  ELSE CASE type = "LSL" -> IF n >= Width THEN <<0, n = Width /\ v % 2 = 1>>
                            ELSE <<(v * 2 ^ n) % Mod, (v \div 2 ^ (Width - n)) % 2 = 1>>
         [] type = "LSR" -> IF n > Width THEN <<0, FALSE>>
                            ELSE IF n = Width THEN <<0, Neg(v)>>
                            ELSE <<v \div 2 ^ n, (v \div 2 ^ (n - 1)) % 2 = 1>>
         [] type = "ASR" -> IF n >= Width THEN <<IF Neg(v) THEN Mod - 1 ELSE 0, Neg(v)>>
                            ELSE <<(Signed(v) \div 2 ^ n) % Mod, (v \div 2 ^ (n - 1)) % 2 = 1>>
         [] type = "ROR" -> LET m == n % Width IN
                            IF m = 0 THEN <<v, Neg(v)>>
                            ELSE <<(v \div 2 ^ m) + ((v * 2 ^ (Width - m)) % Mod),
                                   (v \div 2 ^ (m - 1)) % 2 = 1>>

Shifted(s, d, res, carry) ==
  [r |-> [s.r EXCEPT ![d] = res], f |-> [UpdateNz(s.f, res) EXCEPT !.c = carry]]

(* LSLS, LSRS, ASRS by an immediate.  LSR #0 means LSR #Width and clears   *)
(* r[d] before it reads the carry from r[m].                               *)
ShiftImm(s, type, d, m, imm) ==
  CASE imm = 0 /\ type = "LSL" -> [r |-> [s.r EXCEPT ![d] = s.r[m]], f |-> UpdateNz(s.f, s.r[m])]
    [] imm = 0 /\ type = "LSR" -> LET r1 == [s.r EXCEPT ![d] = 0] IN Shifted(s, d, 0, Neg(r1[m]))
    [] imm = 0 /\ type = "ASR" -> LET rc == ShiftC(s.r[m], "ASR", Width, s.f.c) IN Shifted(s, d, rc[1], rc[2])
    [] OTHER -> LET rc == ShiftC(s.r[m], type, imm, s.f.c) IN Shifted(s, d, rc[1], rc[2])

(* LSLS, LSRS, ASRS, RORS by a register: an amount of 0 leaves even N and Z. *)
(* The amount is the register's low byte, here the whole register.           *)
ShiftReg(s, type, d, m) ==
  IF s.r[m] = 0 THEN s
  ELSE LET rc == ShiftC(s.r[d], type, s.r[m], s.f.c) IN Shifted(s, d, rc[1], rc[2])

(* LSL.W and the others by a register, with or without S. *)
ShiftRegWide(s, type, S, d, n, m) ==
  LET rc == ShiftC(s.r[n], type, s.r[m], s.f.c)
  IN IF S THEN Shifted(s, d, rc[1], rc[2]) ELSE [s EXCEPT !.r[d] = rc[1]]

-----------------------------------------------------------------------------
(* The 16-bit data-processing handlers, on operand values a and b.  CMP,   *)
(* CMN, TST and TEQ write no register.                                     *)

Set(s, d, res, f) == [r |-> [s.r EXCEPT ![d] = res], f |-> f]

Logic(op, a, b) ==
  Value(CASE op = "AND" -> Bits(a) \cap Bits(b)
          [] op = "BIC" -> Bits(a) \ Bits(b)
          [] op = "ORR" -> Bits(a) \cup Bits(b)
          [] op = "ORN" -> Bits(a) \cup Bits(Mod - 1 - b)
          [] op = "EOR" -> (Bits(a) \cup Bits(b)) \ (Bits(a) \cap Bits(b)))

Adds(s, d, a, b) == LET res == Wrap(a + b) IN Set(s, d, res, UpdateAdd(a, b, res))
Subs(s, d, a, b) == LET res == Wrap(a - b) IN Set(s, d, res, UpdateSub(a, b, res))
Movs(s, d, b) == Set(s, d, b, UpdateNz(s.f, b))
Cmp(s, a, b) == [s EXCEPT !.f = UpdateSub(a, b, Wrap(a - b))]
Cmn(s, a, b) == [s EXCEPT !.f = UpdateAdd(a, b, Wrap(a + b))]
Bitwise16(s, op, d, a, b) ==
  LET res == Logic(op, a, b) IN Set(s, d, res, UpdateNz(s.f, res))
Test(s, op, a, b) == [s EXCEPT !.f = UpdateNz(s.f, Logic(op, a, b))]
Muls(s, d, a, b) == LET res == (a * b) % Mod IN Set(s, d, res, UpdateNz(s.f, res))
Adcs(s, d, a, b) ==
  LET cin == Bit(s.f.c)
      res == Wrap(a + b + cin)
  IN Set(s, d, res, AdcFlags(a, b, cin, res))
Sbcs(s, d, a, b) ==
  LET bin == 1 - Bit(s.f.c)
      res == Wrap(a - b - bin)
  IN Set(s, d, res, SbcFlags(a, b, bin, res))
Rsbs(s, d, b) == Subs(s, d, 0, b)

-----------------------------------------------------------------------------
(* t32_dp_exec: op on r[n] = a (the accumulator of MOV and MVN is ignored) *)
(* and the shifter operand b with its carry sc; S sets the flags; a None   *)
(* destination with S only compares.  ADC folds its carry into the operand *)
(* that update_add_flags sees, and then corrects C alone.                  *)

DpOps == {"AND", "BIC", "ORR", "ORN", "EOR", "MOV", "MVN", "ADD", "ADC", "SBC", "SUB", "RSB"}

DpResult(s, op, a, b) ==
  CASE op = "MOV" -> b
    [] op = "MVN" -> Mod - 1 - b
    [] op = "ADD" -> Wrap(a + b)
    [] op = "SUB" -> Wrap(a - b)
    [] op = "RSB" -> Wrap(b - a)
    [] op = "ADC" -> Wrap(a + b + Bit(s.f.c))
    [] op = "SBC" -> Wrap(a - b - (1 - Bit(s.f.c)))
    [] OTHER -> Logic(op, a, b)

DpFlags(s, op, a, b, sc, res) ==
  CASE op = "ADD" -> UpdateAdd(a, b, res)
    [] op = "SUB" -> UpdateSub(a, b, res)
    [] op = "RSB" -> UpdateSub(b, a, res)
    [] op = "ADC" -> [UpdateAdd(a, Wrap(b + Bit(s.f.c)), res) EXCEPT !.c = (a + b + Bit(s.f.c) >= Mod)]
    [] op = "SBC" -> SbcFlags(a, b, 1 - Bit(s.f.c), res)
    [] OTHER -> [UpdateNz(s.f, res) EXCEPT !.c = sc]

DpExec(s, op, S, d, a, b, sc) ==
  LET res == DpResult(s, op, a, b)
  IN [r |-> IF d = None THEN s.r ELSE [s.r EXCEPT ![d] = res],
      f |-> IF S THEN DpFlags(s, op, a, b, sc, res) ELSE s.f]

(* The shifted-register operand: ROR #0 is RRX, LSR #0 and ASR #0 shift by Width. *)
ShifterOperand(s, m, type, n) ==
  IF type = "ROR" /\ n = 0
  THEN <<(IF s.f.c THEN Half ELSE 0) + (s.r[m] \div 2), s.r[m] % 2 = 1>>
  ELSE ShiftC(s.r[m], type, IF type # "LSL" /\ n = 0 THEN Width ELSE n, s.f.c)

DpShiftedReg(s, op, S, d, n, m, type, amount) ==
  LET o == ShifterOperand(s, m, type, amount) IN DpExec(s, op, S, d, s.r[n], o[1], o[2])

(* The modified immediate: the carry is always the top bit of the expanded value. *)
DpModImm(s, op, S, d, n, imm) == DpExec(s, op, S, d, s.r[n], imm, Neg(imm))

-----------------------------------------------------------------------------
(* The instruction stream: any instruction, any registers.                 *)

Alu16Imm ==
  \E d \in Reg, m \in Reg, imm \in RegWord :
    alu' \in {Adds(alu, d, alu.r[m], imm), Subs(alu, d, alu.r[m], imm),
              Movs(alu, d, imm), Cmp(alu, alu.r[m], imm)}
Alu16Reg ==
  \E d \in Reg, m \in Reg : LET a == alu.r[d]  b == alu.r[m] IN
    alu' \in {Adds(alu, d, a, b), Subs(alu, d, a, b), Cmp(alu, a, b), Cmn(alu, a, b),
              Muls(alu, d, a, b), Adcs(alu, d, a, b), Sbcs(alu, d, a, b), Rsbs(alu, d, b),
              Test(alu, "AND", a, b), Test(alu, "EOR", a, b),
              Bitwise16(alu, "ORN", d, 0, b)}
             \cup {Bitwise16(alu, op, d, a, b) : op \in {"AND", "EOR", "ORR", "BIC"}}
Shift16 ==
  \E d \in Reg, m \in Reg :
    \/ \E type \in Shifts \ {"ROR"}, imm \in 0 .. Width - 1 : alu' = ShiftImm(alu, type, d, m, imm)
    \/ \E type \in Shifts : alu' = ShiftReg(alu, type, d, m)
Shift32 ==
  \E type \in Shifts, S \in BOOLEAN, d, n, m \in Reg : alu' = ShiftRegWide(alu, type, S, d, n, m)
DataProcShifted ==
  \E op \in DpOps, S \in BOOLEAN, d \in {0, None}, type \in Shifts, amount \in 0 .. Width - 1 :
    alu' = DpShiftedReg(alu, op, S, d, 0, 1, type, amount)
DataProcImm ==
  \E op \in DpOps, S \in BOOLEAN, d \in {1, None}, imm \in RegWord :
    alu' = DpModImm(alu, op, S, d, 0, imm)

Next == Alu16Imm \/ Alu16Reg \/ Shift16 \/ Shift32 \/ DataProcShifted \/ DataProcImm
Spec == Init /\ [][Next]_alu

-----------------------------------------------------------------------------
(* What a condition means of the two operands it was compared on. *)
Compares(k, a, b) ==
  CASE k = "EQ" -> a = b         [] k = "NE" -> a # b
    [] k = "HS" -> a >= b        [] k = "LO" -> a < b
    [] k = "HI" -> a > b         [] k = "LS" -> a <= b
    [] k = "GE" -> Signed(a) >= Signed(b)
    [] k = "LT" -> Signed(a) < Signed(b)
    [] k = "GT" -> Signed(a) > Signed(b)
    [] k = "LE" -> Signed(a) <= Signed(b)
    [] OTHER -> TRUE
Ordering == Conds \ {"MI", "PL", "VS", "VC"}

(* A two-word number of high word h and low word l, unsigned and signed. *)
Wide(h, l) == h * Mod + l
WideSigned(h, l) == Signed(h) * Mod + l

(* A branch after a compare decides as the numbers compare: every ordering *)
(* condition of instr_bcond and t32_check_cond after CMP (update_sub_flags)*)
(* and, for two-word numbers, HS, LO, GE and LT after CMP of the low words *)
(* and SBC of the high words, in the 16-bit handler instr_sbcs and in the  *)
(* SBC of t32_dp_exec alike.                                               *)
ComparisonsDecide ==
  \A a, b \in RegWord :
    /\ LET f == Cmp(alu, a, b).f IN \A k \in Ordering : CheckCond(k, f) = Compares(k, a, b)
    /\ LET lo == Cmp(alu, alu.r[0], alu.r[1])
       IN \A hi \in {Sbcs(lo, 0, a, b), DpExec(lo, "SBC", TRUE, 0, a, b, FALSE)} :
            /\ CheckCond("HS", hi.f) = (Wide(a, alu.r[0]) >= Wide(b, alu.r[1]))
            /\ CheckCond("LT", hi.f) = (WideSigned(a, alu.r[0]) < WideSigned(b, alu.r[1]))

(* A carry chain adds: ADDS of the low words and then ADCS of the high     *)
(* words (instr_adds_reg_reg, instr_adcs) leave the two-word sum, C its    *)
(* carry and V its signed overflow; the ADC of t32_dp_exec leaves the same *)
(* sum and carry (its V is not compared: it is computed from an operand to *)
(* which the carry was already added).                                     *)
CarryChainAdds ==
  \A a, b \in RegWord :
    LET lo == Adds(alu, 0, alu.r[0], alu.r[1])
        hi == Adcs(lo, 1, a, b)
        wide == DpExec(lo, "ADC", TRUE, 1, a, b, FALSE)
        sum == Wide(a, alu.r[0]) + Wide(b, alu.r[1])
        signed == WideSigned(a, alu.r[0]) + WideSigned(b, alu.r[1])
    IN /\ Wide(hi.r[1], hi.r[0]) = sum % (Mod * Mod)
       /\ hi.f.c = (sum >= Mod * Mod)
       /\ hi.f.v = (signed \notin -(Half * Mod) .. (Half * Mod - 1))
       /\ wide.r = hi.r /\ wide.f.c = hi.f.c

(* Reference: a shift by n is n shifts by one, the carry the last bit out. *)
ShiftOne(type, p) ==
  LET v == p[1] IN
  CASE type = "LSL" -> <<(2 * v) % Mod, Neg(v)>>
    [] type = "LSR" -> <<v \div 2, v % 2 = 1>>
    [] type = "ASR" -> <<(v \div 2) + (IF Neg(v) THEN Half ELSE 0), v % 2 = 1>>
    [] type = "ROR" -> <<(v \div 2) + Half * (v % 2), v % 2 = 1>>
RefShift(type, v, n, cin) ==
  LET iter[i \in 0 .. n] == IF i = 0 THEN <<v, cin>> ELSE ShiftOne(type, iter[i - 1])
  IN iter[n]

(* Every shift is that many single-bit shifts, at 0, at Width, above it:   *)
(* the immediate shifts (where #0 is #Width for LSR and ASR), the shifts   *)
(* by register, the barrel shifter t32_shift_c and RRX.  Left out: LSR #0  *)
(* onto its own source, whose carry instr_shift_logical_right reads after  *)
(* clearing the register; and N, Z of a 16-bit shift by a register of 0,   *)
(* which the handlers leave alone.                                         *)
ShiftsAgree ==
  \A type \in Shifts, d, m \in Reg :
    /\ LET ref == RefShift(type, alu.r[d], alu.r[m], alu.f.c)
           s16 == ShiftReg(alu, type, d, m)
           s32 == ShiftRegWide(alu, type, TRUE, d, d, m)
       IN /\ s16.r = s32.r /\ s16.f.c = s32.f.c
          /\ s32 = Shifted(alu, d, ref[1], ref[2])
    /\ \A n \in 0 .. Width - 1 :
         LET amount == IF type \in {"LSR", "ASR"} /\ n = 0 THEN Width ELSE n
             ref == IF type = "ROR" /\ n = 0
                    THEN ShiftOne("LSR", <<alu.r[m] + (IF alu.f.c THEN Mod ELSE 0), alu.f.c>>)
                    ELSE RefShift(type, alu.r[m], amount, alu.f.c)
         IN /\ ShifterOperand(alu, m, type, n) = ref
            /\ type # "ROR" /\ (n # 0 \/ type # "LSR" \/ d # m)
               => ShiftImm(alu, type, d, m, n) = Shifted(alu, d, ref[1], ref[2])

=============================================================================
