------------------------------- MODULE RvAlu --------------------------------
(***************************************************************************)
(* The integer instructions of the RISC-V hart: the immediate, register,   *)
(* multiply, divide, bit-manipulation and atomic groups of rv_cpu_step in  *)
(* src/rp2350_rv/rv_cpu.c, and the compressed forms that abbreviate them.  *)
(*                                                                         *)
(* A byte has ByteBits bits (8 in the code) and a word four bytes.  The    *)
(* state is the registers x[0] .. x[2], of which x[0] is the hardwired     *)
(* zero, and one memory word for the atomics.  An instruction goes by the  *)
(* name the comment beside its case gives it; its encoding is modelled     *)
(* where the code reads it in a way of its own (OpRegRow, CZcb).           *)
(***************************************************************************)
EXTENDS Integers, FiniteSetsExt

CONSTANT ByteBits

VARIABLE rv      \* [x |-> registers, m |-> the word the atomics address]

Width == 4 * ByteBits
B == 2 ^ ByteBits
H == B * B
Mod == H * H
RegWord == 0 .. Mod - 1
Reg == 0 .. 2
SignedAs(v, mod) == IF v >= mod \div 2 THEN v - mod ELSE v
Signed(v) == SignedAs(v, Mod)
Bits(v) == {i \in 0 .. Width - 1 : (v \div 2 ^ i) % 2 = 1}
Value(S) == MapThenSumSet(LAMBDA i : 2 ^ i, S)
Not(v) == Mod - 1 - v
And(a, b) == Value(Bits(a) \cap Bits(b))
Or(a, b) == Value(Bits(a) \cup Bits(b))
Xor(a, b) == Value((Bits(a) \cup Bits(b)) \ (Bits(a) \cap Bits(b)))
Bool(p) == IF p THEN 1 ELSE 0
(* C division and remainder truncate toward zero. *)
Abs(a) == IF a < 0 THEN -a ELSE a
Quot(a, b) == IF (a < 0) = (b < 0) THEN Abs(a) \div Abs(b) ELSE -(Abs(a) \div Abs(b))
Rest(a, b) == a - b * Quot(a, b)

Init == rv = [x |-> [r \in Reg |-> 0], m |-> 0]

(* rv_write_rd, and the x[0] = 0 that ends every step. *)
WriteRd(s, rd, v) == IF rd = 0 THEN s ELSE [s EXCEPT !.x[rd] = v % Mod]

-----------------------------------------------------------------------------
(* Shifts and rotations use the low bits of the amount.                    *)

Sh(b) == b % Width
Sll(a, b) == a * 2 ^ Sh(b)
Srl(a, b) == a \div 2 ^ Sh(b)
Sra(a, b) == Signed(a) \div 2 ^ Sh(b)
Ror(a, b) == Srl(a, b) + ((a * 2 ^ (Width - Sh(b))) % Mod)
Rol(a, b) == (Sll(a, b) % Mod) + (a \div 2 ^ (Width - Sh(b)))
OneBit(b) == 2 ^ Sh(b)

(* The group OP_IMM: an operation of x[rs1] and a sign-extended immediate. *)
ImmOps == {"ADD", "SLT", "SLTU", "XOR", "OR", "AND", "SLL", "SRL", "SRA",
           "BSET", "BCLR", "BINV", "BEXT", "ROR"}
UnaryOps == {"CLZ", "CTZ", "CPOP", "SEXT.B", "SEXT.H", "ORC.B", "REV8"}
Unary(op, a) ==
  CASE op = "CLZ" -> IF a = 0 THEN Width ELSE Width - 1 - Max(Bits(a))
    [] op = "CTZ" -> IF a = 0 THEN Width ELSE Min(Bits(a))
    [] op = "CPOP" -> Cardinality(Bits(a))
    [] op = "SEXT.B" -> SignedAs(a % B, B)
    [] op = "SEXT.H" -> SignedAs(a % H, H)
    [] op = "ORC.B" -> MapThenSumSet(LAMBDA i : IF (a \div B ^ i) % B = 0 THEN 0 ELSE (B - 1) * B ^ i, 0 .. 3)
    [] op = "REV8" -> MapThenSumSet(LAMBDA i : ((a \div B ^ i) % B) * B ^ (3 - i), 0 .. 3)

(* The multiply and divide group of funct7 1. *)
MulOps == {"MUL", "MULH", "MULHSU", "MULHU", "DIV", "DIVU", "REM", "REMU"}
(* Variant: the least word divided by -1 left to the C division. *)
DivNoOverflow(op, a, b) ==
  CASE op = "DIV" -> IF b = 0 THEN Mod - 1 ELSE Quot(Signed(a), Signed(b)) % (Mod \div 2)
    [] op = "REM" -> IF b = 0 THEN a ELSE Rest(Signed(a), Signed(b))
    [] OTHER -> 0
Div(op, a, b) ==
  LET overflow == Signed(a) = -(Mod \div 2) /\ Signed(b) = -1 IN
  CASE op = "DIV" -> IF b = 0 THEN Mod - 1 ELSE IF overflow THEN a ELSE Quot(Signed(a), Signed(b))
    [] op = "DIVU" -> IF b = 0 THEN Mod - 1 ELSE a \div b
    [] op = "REM" -> IF b = 0 THEN a ELSE IF overflow THEN 0 ELSE Rest(Signed(a), Signed(b))
    [] op = "REMU" -> IF b = 0 THEN a ELSE a % b
(* The product is formed in 64 bits; that of MULHSU in unsigned arithmetic. *)
MulDiv(op, a, b) ==
  CASE op = "MUL" -> a * b
    [] op = "MULH" -> (Signed(a) * Signed(b)) \div Mod
    [] op = "MULHSU" -> (((Signed(a) % (Mod * Mod)) * b) % (Mod * Mod)) \div Mod
    [] op = "MULHU" -> (a * b) \div Mod
    [] OTHER -> Div(op, a, b)

(* The group OP_REG: RV32I, Zba, Zbb, Zbs, Zbkb and M. *)
RegOps == ImmOps \cup MulOps \cup
          {"SUB", "XNOR", "ORN", "ANDN", "ROL", "SH1ADD", "SH2ADD", "SH3ADD",
           "MIN", "MINU", "MAX", "MAXU", "PACK", "PACKH"}
Alu(op, a, b) ==
  CASE op = "ADD" -> a + b
    [] op = "SUB" -> a - b
    [] op = "SLT" -> Bool(Signed(a) < Signed(b))
    [] op = "SLTU" -> Bool(a < b)
    [] op = "XOR" -> Xor(a, b)
    [] op = "OR" -> Or(a, b)
    [] op = "AND" -> And(a, b)
    [] op = "XNOR" -> Xor(a, Not(b))
    [] op = "ORN" -> Or(a, Not(b))
    [] op = "ANDN" -> And(a, Not(b))
    [] op = "SLL" -> Sll(a, b)
    [] op = "SRL" -> Srl(a, b)
    [] op = "SRA" -> Sra(a, b)
    [] op = "ROL" -> IF Sh(b) = 0 THEN a ELSE Rol(a, b)
    [] op = "ROR" -> IF Sh(b) = 0 THEN a ELSE Ror(a, b)
    [] op = "BSET" -> Or(a, OneBit(b))
    [] op = "BCLR" -> And(a, Not(OneBit(b)))
    [] op = "BINV" -> Xor(a, OneBit(b))
    [] op = "BEXT" -> Srl(a, b) % 2
    [] op = "SH1ADD" -> b + a * 2
    [] op = "SH2ADD" -> b + a * 4
    [] op = "SH3ADD" -> b + a * 8
    [] op = "MIN" -> IF Signed(a) < Signed(b) THEN a ELSE b
    [] op = "MINU" -> IF a < b THEN a ELSE b
    [] op = "MAX" -> IF Signed(a) > Signed(b) THEN a ELSE b
    [] op = "MAXU" -> IF a > b THEN a ELSE b
    [] op = "PACK" -> (a % H) + (b % H) * H
    [] op = "PACKH" -> (a % B) + (b % B) * B
    [] op \in MulOps -> MulDiv(op, a, b)

(* The rows funct7, funct3 of the rotations. *)
OpRegRow(funct7, funct3) ==
  CASE <<funct7, funct3>> = <<32, 1>> -> "ROL"
    [] <<funct7, funct3>> = <<48, 1>> -> "ROR"
    [] OTHER -> "illegal"

OpReg(s, op, rd, rs1, rs2) == WriteRd(s, rd, Alu(op, s.x[rs1], s.x[rs2]))
OpImm(s, op, rd, rs1, imm) == WriteRd(s, rd, Alu(op, s.x[rs1], imm))
OpUnary(s, op, rd, rs1) == WriteRd(s, rd, Unary(op, s.x[rs1]))
Lui(s, rd, imm) == WriteRd(s, rd, imm)
(* h3.bextm and h3.bextmi: nbits bits of x[rs1] from bit shamt. *)
Bextm(s, rd, rs1, shamt, nbits) == WriteRd(s, rd, Srl(s.x[rs1], shamt) % 2 ^ nbits)

-----------------------------------------------------------------------------
(* Branches and the atomics.                                               *)

Branches == {"BEQ", "BNE", "BLT", "BGE", "BLTU", "BGEU"}
Taken(op, a, b) ==
  CASE op = "BEQ" -> a = b                   [] op = "BNE" -> a # b
    [] op = "BLT" -> Signed(a) < Signed(b)   [] op = "BGE" -> Signed(a) >= Signed(b)
    [] op = "BLTU" -> a < b                  [] op = "BGEU" -> a >= b

AmoOps == {"SWAP", "ADD", "AND", "OR", "XOR", "MIN", "MAX", "MINU", "MAXU"}
Amo(s, op, rd, rs2) ==
  WriteRd([s EXCEPT !.m = (CASE op = "SWAP" -> s.x[rs2]
                             [] op = "ADD" -> s.m + s.x[rs2]
                             [] op = "AND" -> And(s.m, s.x[rs2])
                             [] op = "OR" -> Or(s.m, s.x[rs2])
                             [] op = "XOR" -> Xor(s.m, s.x[rs2])
                             [] op = "MIN" -> IF Signed(s.m) < Signed(s.x[rs2]) THEN s.m ELSE s.x[rs2]
                             [] op = "MAX" -> IF Signed(s.m) > Signed(s.x[rs2]) THEN s.m ELSE s.x[rs2]
                             [] op = "MINU" -> IF s.m < s.x[rs2] THEN s.m ELSE s.x[rs2]
                             [] op = "MAXU" -> IF s.m > s.x[rs2] THEN s.m ELSE s.x[rs2]) % Mod],
          rd, s.m)

-----------------------------------------------------------------------------
(* Compressed instructions.  A 3-bit register field names x8 .. x15, never *)
(* x0; a 5-bit field may name x0, which most forms then leave alone.       *)

CReg == Reg \ {0}
CAddi(s, rd, imm) == IF rd = 0 THEN s ELSE [s EXCEPT !.x[rd] = (s.x[rd] + imm) % Mod]
CLi(s, rd, imm) == WriteRd(s, rd, imm)
(* C.ADDI16SP when rd is the stack pointer x[2], and C.LUI; a zero         *)
(* immediate is illegal in both.                                           *)
CLui(s, rd, imm) ==
  IF rd = 2 THEN [s EXCEPT !.x[2] = (s.x[2] + imm) % Mod]
  ELSE IF rd # 0 THEN WriteRd(s, rd, imm) ELSE s
CAddi4Spn(s, rd, imm) == WriteRd(s, rd, s.x[2] + imm)
CSlli(s, rd, shamt) == IF rd = 0 THEN s ELSE [s EXCEPT !.x[rd] = Sll(s.x[rd], shamt) % Mod]
CMisc(s, op, rd, imm) ==
  [s EXCEPT !.x[rd] = (CASE op = "C.SRLI" -> Srl(s.x[rd], imm)
                         [] op = "C.SRAI" -> Sra(s.x[rd], imm)
                         [] op = "C.ANDI" -> And(s.x[rd], imm)) % Mod]
CMiscOps == {"C.SRLI", "C.SRAI", "C.ANDI"}
CArith(s, op, rd, rs2) ==
  [s EXCEPT !.x[rd] = (CASE op = "C.SUB" -> s.x[rd] - s.x[rs2]
                         [] op = "C.XOR" -> Xor(s.x[rd], s.x[rs2])
                         [] op = "C.OR" -> Or(s.x[rd], s.x[rs2])
                         [] op = "C.AND" -> And(s.x[rd], s.x[rs2])) % Mod]
CArithOps == {"C.SUB", "C.XOR", "C.OR", "C.AND"}
(* The register a 3-bit field names: x[1] and x[2] stand for x8 .. x15 in  *)
(* turn.                                                                   *)
CField(k) == 1 + (k % 2)
(* The Zcb group: the 3 bits k choose the operation and name rs2 as well,  *)
(* and the 2 bits above them are not looked at.                            *)
CZcbOps == [k \in 0 .. 7 |->
  CASE k = 0 -> "C.NOT"    [] k = 1 -> "C.SEXT.B" [] k = 2 -> "C.SEXT.H"
    [] k = 3 -> "C.ZEXT.B" [] k = 4 -> "C.ZEXT.H" [] k = 5 -> "C.MUL" [] OTHER -> "illegal"]
CZcb(s, rd, k) ==
  LET op == CZcbOps[k]
      v == s.x[rd]
  IN IF op = "illegal" THEN s
     ELSE [s EXCEPT !.x[rd] = (CASE op = "C.NOT" -> Not(v)
                                 [] op = "C.SEXT.B" -> SignedAs(v % B, B)
                                 [] op = "C.SEXT.H" -> SignedAs(v % H, H)
                                 [] op = "C.ZEXT.B" -> v % B
                                 [] op = "C.ZEXT.H" -> v % H
                                 [] op = "C.MUL" -> v * s.x[CField(k)]) % Mod]
(* C.MV and C.ADD; rs2 = 0 encodes a jump instead. *)
CMv(s, rd, rs2) == WriteRd(s, rd, s.x[rs2])
CAdd(s, rd, rs2) == [s EXCEPT !.x[rd] = (s.x[rd] + s.x[rs2]) % Mod]
CTaken(op, a) == IF op = "C.BEQZ" THEN a = 0 ELSE a # 0

-----------------------------------------------------------------------------
(* The instruction stream: any instruction, with x[1] and x[2], which hold *)
(* any words, as its sources.  An immediate is sign-extended from fewer    *)
(* bits than a word has; LUI fills the upper bits.                         *)

Imm == {i % Mod : i \in -B .. B - 1}
UpperImm == {k * H : k \in 0 .. H - 1}

RegStep == \E op \in RegOps, rd \in Reg : rv' = OpReg(rv, op, rd, 1, 2)
ImmStep == \E op \in ImmOps, rd \in Reg, imm \in Imm : rv' = OpImm(rv, op, rd, 1, imm)
LuiStep == \E rd \in Reg, imm \in UpperImm : rv' = Lui(rv, rd, imm)
UnaryStep == \E op \in UnaryOps, rd \in Reg : rv' = OpUnary(rv, op, rd, 1)
BextmStep ==
  \E rd \in Reg, shamt \in 0 .. Width - 1, nbits \in 1 .. 2 * ByteBits :
    rv' = Bextm(rv, rd, 1, shamt, nbits)
AmoStep == \E op \in AmoOps, rd, rs2 \in Reg : rv' = Amo(rv, op, rd, rs2)
CompressedStep ==
  \/ \E rd \in Reg, imm \in Imm : rv' \in {CAddi(rv, rd, imm), CLi(rv, rd, imm), CSlli(rv, rd, imm)}
  \/ \E rd \in Reg, imm \in UpperImm \ {0} : rv' = CLui(rv, rd, imm)
  \/ \E rd \in CReg, imm \in 1 .. B - 1 : rv' = CAddi4Spn(rv, rd, imm)
  \/ \E op \in CMiscOps, rd \in CReg, imm \in Imm : rv' = CMisc(rv, op, rd, imm)
  \/ \E op \in CArithOps, rd, rs2 \in CReg : rv' = CArith(rv, op, rd, rs2)
  \/ \E rd \in CReg, k \in 0 .. 7 : rv' = CZcb(rv, rd, k)
  \/ \E rd \in Reg, rs2 \in CReg : rv' = CMv(rv, rd, rs2)
  \/ \E rd, rs2 \in CReg : rv' = CAdd(rv, rd, rs2)

Next == RegStep \/ ImmStep \/ LuiStep \/ UnaryStep \/ BextmStep \/ AmoStep \/ CompressedStep
Spec == Init /\ [][Next]_rv

-----------------------------------------------------------------------------
(* Multiplication and division are exact at every pair of words, the       *)
(* divisor zero and the least word by -1 included: the high and low        *)
(* products (MULH, MULHU, MULHSU with MUL) are the halves of the full one, *)
(* and quotient and remainder (DIV with REM, DIVU with REMU) recombine to  *)
(* the dividend, the remainder smaller than the divisor and of the         *)
(* dividend's sign (cases 0 to 7 of the M extension in rv_cpu_step).       *)
MulDivExact ==
  LET a == rv.x[1]
      b == rv.x[2]
      R(op) == OpReg(rv, op, 1, 1, 2).x[1]
      q == Signed(R("DIV"))
      r == Signed(R("REM"))
  IN /\ R("MULHU") * Mod + R("MUL") = a * b
     /\ Signed(R("MULH")) * Mod + R("MUL") = Signed(a) * Signed(b)
     /\ Signed(R("MULHSU")) * Mod + R("MUL") = Signed(a) * b
     /\ (q * Signed(b) + r) % Mod = a
     /\ b # 0 => Abs(r) < Abs(Signed(b)) /\ (r # 0 => (r < 0) = (Signed(a) < 0))
     /\ R("DIVU") * b + R("REMU") = a
     /\ b # 0 => R("REMU") < b
     /\ b = 0 => R("DIV") = Mod - 1 /\ R("DIVU") = Mod - 1

(* An abbreviation does what it abbreviates: every compressed instruction  *)
(* leaves the registers its 32-bit form leaves, C.BEQZ and C.BNEZ branch as*)
(* BEQ and BNE against x0, and an atomic is the register operation on the  *)
(* old memory word, which it returns, even when rd is the operand register.*)
(* C.MUL multiplies by x13 (field 5), the one register its case is reached *)
(* with; which encoding reaches which case of Zcb is in ZbDecoded.         *)
FormsAgree ==
  /\ \A rd \in Reg, imm \in Imm :
       /\ CAddi(rv, rd, imm) = OpImm(rv, "ADD", rd, rd, imm)
       /\ CLi(rv, rd, imm) = OpImm(rv, "ADD", rd, 0, imm)
       /\ CSlli(rv, rd, imm) = OpImm(rv, "SLL", rd, rd, imm)
       /\ imm # 0 => CLui(rv, rd, imm) = (IF rd = 2 THEN OpImm(rv, "ADD", 2, 2, imm) ELSE Lui(rv, rd, imm))
       /\ rd # 0 /\ imm # 0 => CAddi4Spn(rv, rd, imm) = OpImm(rv, "ADD", rd, 2, imm)
  /\ \A rd \in CReg, imm \in Imm :
       /\ CMisc(rv, "C.SRLI", rd, imm) = OpImm(rv, "SRL", rd, rd, imm)
       /\ CMisc(rv, "C.SRAI", rd, imm) = OpImm(rv, "SRA", rd, rd, imm)
       /\ CMisc(rv, "C.ANDI", rd, imm) = OpImm(rv, "AND", rd, rd, imm)
  /\ \A rd, rs2 \in CReg :
       /\ CArith(rv, "C.SUB", rd, rs2) = OpReg(rv, "SUB", rd, rd, rs2)
       /\ CArith(rv, "C.XOR", rd, rs2) = OpReg(rv, "XOR", rd, rd, rs2)
       /\ CArith(rv, "C.OR", rd, rs2) = OpReg(rv, "OR", rd, rd, rs2)
       /\ CArith(rv, "C.AND", rd, rs2) = OpReg(rv, "AND", rd, rd, rs2)
       /\ CAdd(rv, rd, rs2) = OpReg(rv, "ADD", rd, rd, rs2)
  /\ \A rd \in CReg :
       /\ CZcb(rv, rd, 0) = OpImm(rv, "XOR", rd, rd, Mod - 1)
       /\ CZcb(rv, rd, 1) = OpUnary(rv, "SEXT.B", rd, rd)
       /\ CZcb(rv, rd, 2) = OpUnary(rv, "SEXT.H", rd, rd)
       /\ CZcb(rv, rd, 3) = OpImm(rv, "AND", rd, rd, B - 1)
       /\ CZcb(rv, rd, 4) = OpReg(rv, "PACK", rd, rd, 0)
       /\ CZcb(rv, rd, 5) = OpReg(rv, "MUL", rd, rd, CField(5))
       /\ CTaken("C.BEQZ", rv.x[rd]) = Taken("BEQ", rv.x[rd], rv.x[0])
       /\ CTaken("C.BNEZ", rv.x[rd]) = Taken("BNE", rv.x[rd], rv.x[0])
  /\ \A rd \in Reg, rs2 \in CReg : CMv(rv, rd, rs2) = OpReg(rv, "ADD", rd, 0, rs2)
  /\ \A op \in AmoOps, rd, rs2 \in Reg :
       LET t == Amo(rv, op, rd, rs2)
       IN /\ t.m = (IF op = "SWAP" THEN rv.x[rs2] ELSE Alu(op, rv.m, rv.x[rs2]) % Mod)
          /\ t.x = [rv.x EXCEPT ![rd] = IF rd = 0 THEN 0 ELSE rv.m]

(* The bit operations agree with each other: a rotation is undone by the   *)
(* opposite one and equals the funnel of the two shifts; a bit set, cleared*)
(* or inverted reads back so (BEXT) and leaves the others; MIN, MAX choose *)
(* as SLT and BLT decide, MINU, MAXU as SLTU and BLTU; CLZ, CTZ and CPOP   *)
(* count what h3.bextm extracts; REV8 is its own inverse.                  *)
BitOpsAgree ==
  LET a == rv.x[1]
      b == rv.x[2]
      V(op, p, q) == Alu(op, p, q) % Mod
  IN /\ V("ROR", V("ROL", a, b), b) = a
     /\ V("ROL", a, b) = V("OR", V("SLL", a, b), IF Sh(b) = 0 THEN 0 ELSE V("SRL", a, Width - Sh(b)))
     /\ \A i \in 0 .. Width - 1 :
          LET Bit(v) == Bextm([rv EXCEPT !.x[1] = v], 1, 1, i, 1).x[1]
          IN /\ Bit(V("BSET", a, b)) = (IF i = Sh(b) THEN 1 ELSE Bit(a))
             /\ Bit(V("BCLR", a, b)) = (IF i = Sh(b) THEN 0 ELSE Bit(a))
             /\ Bit(V("BINV", a, b)) = (IF i = Sh(b) THEN 1 - Bit(a) ELSE Bit(a))
             /\ V("BEXT", a, i) = Bit(a)
             /\ i >= Width - Unary("CLZ", a) => Bit(a) = 0
             /\ i < Unary("CTZ", a) => Bit(a) = 0
     /\ a # 0 => V("BEXT", a, Width - 1 - Unary("CLZ", a)) = 1 /\ V("BEXT", a, Unary("CTZ", a)) = 1
     /\ Taken("BLT", a, b) = (V("SLT", a, b) = 1) /\ Taken("BLTU", a, b) = (V("SLTU", a, b) = 1)
     /\ {V("MIN", a, b), V("MAX", a, b)} = {a, b} /\ ~Taken("BLT", V("MAX", a, b), V("MIN", a, b))
     /\ {V("MINU", a, b), V("MAXU", a, b)} = {a, b} /\ ~Taken("BLTU", V("MAXU", a, b), V("MINU", a, b))
     /\ Unary("REV8", Unary("REV8", a)) = a

(* What docs/ROADMAP.md lists as complete, Zbb and Zcb in their standard   *)
(* encodings: ROL and ROR are rows 1 and 5 of funct7 48, C.MUL takes rs2   *)
(* from k under the upper bits 2, and under 3 k chooses one of five.  The  *)
(* code does not hold it (rv_cpu.c 628-637, 1140, 1152).                   *)
ZbDecoded ==
  /\ OpRegRow(48, 1) = "ROL" /\ OpRegRow(48, 5) = "ROR"
  /\ \A rd \in CReg, k \in 0 .. 7 : CZcb(rv, rd, k) = OpReg(rv, "MUL", rd, rd, CField(k))
  /\ [k \in {0, 1, 2, 3, 5} |-> CZcbOps[k]]
       = [k \in {0, 1, 2, 3, 5} |-> CASE k = 0 -> "C.ZEXT.B" [] k = 1 -> "C.SEXT.B"
                                      [] k = 2 -> "C.ZEXT.H" [] k = 3 -> "C.SEXT.H" [] k = 5 -> "C.NOT"]

=============================================================================
