----------------------------- MODULE ThumbFields -----------------------------
(***************************************************************************)
(* The Thumb instructions that move, multiply, divide, extract and         *)
(* saturate parts of a word: the miscellaneous group t32_misc and the      *)
(* immediate forms of src/thumb32.c, and the extend and reverse handlers   *)
(* of src/instructions.c.                                                  *)
(*                                                                         *)
(* A byte has ByteBits bits (8 in the code) and a word four bytes.  The    *)
(* state is three registers and the sticky saturation flag Q of the xPSR.  *)
(***************************************************************************)
EXTENDS Integers, FiniteSetsExt

CONSTANT ByteBits

VARIABLE fld      \* [r |-> registers, q |-> Q flag]

Width == 4 * ByteBits
B == 2 ^ ByteBits
H == B * B                   \* a halfword's modulus
Mod == H * H
RegWord == 0 .. Mod - 1
Reg == 0 .. 2
SignedAs(x, m) == IF x >= m \div 2 THEN x - m ELSE x    \* x read as a signed field of modulus m
Signed(x) == SignedAs(x, Mod)
Byte(x, i) == (x \div B ^ i) % B
Low(x) == x % H
High(x) == x \div H
Pack(hi, lo) == (hi % H) * H + (lo % H)

Init == fld = [r |-> [i \in Reg |-> 0], q |-> FALSE]
Put(s, d, res) == [s EXCEPT !.r[d] = res % Mod]

-----------------------------------------------------------------------------
(* Immediates and extensions.                                              *)

ExpandImm(mode, b, rot) ==
  CASE mode = 0 -> b
    [] mode = 1 -> b * H + b
    [] mode = 2 -> b * B * H + b * B
    [] mode = 3 -> b * (B * H + H + B + 1)
    [] OTHER -> LET v == (B \div 2) + (b % (B \div 2))       \* the top bit of the byte is always 1
                IN IF rot = 0 THEN v ELSE (v \div 2 ^ rot) + ((v * 2 ^ (Width - rot)) % Mod)
MovW(s, d, imm) == Put(s, d, imm)
MovT(s, d, imm) == Put(s, d, Low(s.r[d]) + imm * H)

RotBytes(x, k) == (x \div B ^ k) + (x % B ^ k) * B ^ (4 - k)
Extends == {"SXTB", "SXTH", "UXTB", "UXTH"}
Extend(kind, x) ==
  CASE kind = "SXTB" -> SignedAs(x % B, B)
    [] kind = "SXTH" -> SignedAs(x % H, H)
    [] kind = "UXTB" -> x % B
    [] kind = "UXTH" -> x % H
Ext(s, kind, d, m, k) == Put(s, d, Extend(kind, RotBytes(s.r[m], k)))
ExtAdd(s, kind, d, n, m, k) == Put(s, d, s.r[n] + Extend(kind, RotBytes(s.r[m], k)))

Rev(x) == Byte(x, 0) * B ^ 3 + Byte(x, 1) * B ^ 2 + Byte(x, 2) * B + Byte(x, 3)
Rev16(x) == Byte(x, 1) + Byte(x, 0) * B + Byte(x, 3) * H + Byte(x, 2) * B * H
Revsh(x) == SignedAs(Byte(x, 0) * B + Byte(x, 1), H)
Rbit(x) == MapThenSumSet(LAMBDA i : ((x \div 2 ^ i) % 2) * 2 ^ (Width - 1 - i), 0 .. Width - 1)
Clz(x) == IF x = 0 THEN Width ELSE Max({n \in 0 .. Width - 1 : x < 2 ^ (Width - n)})

-----------------------------------------------------------------------------
(* Bit fields.  A shift of 1u by the whole width is undefined in C: its    *)
(* mask is either of the two the targets produce, no bits or all of them.  *)

Mask(width) == IF width = Width THEN {0, Mod - 1} ELSE {2 ^ width - 1}
Ubfx(x, lsb, width) == (x \div 2 ^ lsb) % 2 ^ width
Sbfx(x, lsb, width) ==
  LET e == Ubfx(x, lsb, width)
  IN IF e \div 2 ^ (width - 1) = 0 THEN {e}
     ELSE {(e % (m + 1)) + Mod - 1 - m : m \in Mask(width)}
Bfi(x, src, lsb, msb) ==
  IF msb < lsb THEN {x}
  ELSE {(x - Ubfx(x, lsb, msb - lsb + 1) * 2 ^ lsb) + (src % (m + 1)) * 2 ^ lsb
          : m \in Mask(msb - lsb + 1) \ {0}}
       \cup {x : m \in Mask(msb - lsb + 1) \cap {0}}

-----------------------------------------------------------------------------
(* Division and multiplication.  C division truncates; the quotient of the *)
(* least word by -1 is undefined.                                          *)

Quot(a, b) == IF (a < 0) = (b < 0) THEN (IF b < 0 THEN -a ELSE a) \div (IF b < 0 THEN -b ELSE b)
              ELSE -((IF a < 0 THEN -a ELSE a) \div (IF b < 0 THEN -b ELSE b))
Sdiv(a, b) == IF b = 0 THEN {0}
              ELSE IF a = Mod \div 2 /\ b = Mod - 1 THEN RegWord
              ELSE {Quot(Signed(a), Signed(b)) % Mod}
Udiv(a, b) == IF b = 0 THEN 0 ELSE a \div b

Mla(s, d, n, m, acc) == Put(s, d, acc + s.r[n] * s.r[m])
Mls(s, d, n, m, acc) == Put(s, d, acc - s.r[n] * s.r[m])
Long(s, lo, hi, v) == [s EXCEPT !.r = [@ EXCEPT ![lo] = v % Mod, ![hi] = (v \div Mod) % Mod]]
Acc(s, lo, hi) == s.r[hi] * Mod + s.r[lo]
MulLong(s, lo, hi, a, b, signed, accumulate) ==
  Long(s, lo, hi, (IF signed THEN Signed(a) * Signed(b) ELSE a * b)
                  + (IF accumulate THEN Acc(s, lo, hi) ELSE 0))
MulHigh(a, b, round) == ((Signed(a) * Signed(b) + (IF round THEN Mod \div 2 ELSE 0)) \div Mod) % Mod
MulHighAcc(s, d, a, b, round, acc) == Put(s, d, MulHigh(a, b, round) + acc)
MulHighSub(s, d, a, b, acc) == Put(s, d, MulHigh(a, b, FALSE) - acc)
Dual(a, b, minus) ==
  LET p1 == SignedAs(Low(a), H) * SignedAs(Low(b), H)
      p2 == SignedAs(High(a), H) * SignedAs(High(b), H)
  IN IF minus THEN p1 - p2 ELSE p1 + p2
DualAcc(s, d, a, b, minus, acc) == Put(s, d, acc + Dual(a, b, minus))
DualLong(s, lo, hi, a, b, minus) ==
  Long(s, lo, hi, Acc(s, lo, hi) + (IF minus THEN -1 ELSE 1) * Dual(a, b, FALSE))

-----------------------------------------------------------------------------
(* Saturation.                                                             *)

Clamp(v, lo, hi) == IF v < lo THEN lo ELSE IF v > hi THEN hi ELSE v
SatShift(x, asr, amount) ==
  IF asr THEN (IF amount = 0 THEN (IF Signed(x) < 0 THEN -1 ELSE 0) ELSE Signed(x) \div 2 ^ amount)
  ELSE Signed((x * 2 ^ amount) % Mod)
SatLow(unsigned, n) == IF unsigned THEN 0 ELSE -(2 ^ (n - 1))
SatHigh(unsigned, n) == IF unsigned THEN 2 ^ n - 1 ELSE 2 ^ (n - 1) - 1
Saturated(s, d, unsigned, n, v) ==
  LET res == Clamp(v, SatLow(unsigned, n), SatHigh(unsigned, n))
  IN [Put(s, d, res) EXCEPT !.q = @ \/ res # v]

(* SSAT16 and USAT16 share one path: the bit that should tell them apart   *)
(* is 0 in both encodings, so both saturate signed halfwords.              *)
Saturate16(s, d, a, n) ==
  LET lo == SignedAs(Low(a), H)
      hi == SignedAs(High(a), H)
      sat(v) == Clamp(v, SatLow(FALSE, n), SatHigh(FALSE, n))
  IN [Put(s, d, Pack(sat(hi), sat(lo))) EXCEPT !.q = @ \/ sat(hi) # hi \/ sat(lo) # lo]

(* QADD16, QSUB16, QASX, QSAX; QADD8 and QSUB8 take the same two lanes.    *)
Parallel(s, d, op, a, b) ==
  LET a0 == SignedAs(Low(a), H)   a1 == SignedAs(High(a), H)
      b0 == SignedAs(Low(b), H)   b1 == SignedAs(High(b), H)
      s0 == CASE op = "ADD" -> a0 + b0 [] op = "SUB" -> a0 - b0 [] op = "ASX" -> a0 - b1 [] op = "SAX" -> a0 + b1
      s1 == CASE op = "ADD" -> a1 + b1 [] op = "SUB" -> a1 - b1 [] op = "ASX" -> a1 + b0 [] op = "SAX" -> a1 - b0
      sat(v) == Clamp(v, -(H \div 2), H \div 2 - 1)
  IN [Put(s, d, Pack(sat(s1), sat(s0))) EXCEPT !.q = @ \/ sat(s0) # s0 \/ sat(s1) # s1]

PkhBt(s, d, n, x, amount) == Put(s, d, Low(s.r[n]) + High((x * 2 ^ amount) % Mod) * H)
PkhTb(s, d, n, x, amount) ==
  Put(s, d, High(s.r[n]) * H + (SatShift(x, TRUE, amount) % H))

-----------------------------------------------------------------------------
(* The instruction stream.  r[2] is the destination or the accumulator.    *)

Loads == \E d \in 0 .. 1, b \in 0 .. B - 1 :
           \/ \E mode \in 0 .. 4, rot \in 0 .. Width - 1 : fld' = Put(fld, d, ExpandImm(mode, b, rot))
           \/ fld' = MovW(fld, d, b)
           \/ fld' = MovT(fld, d, b)
Extending == \E kind \in Extends, k \in 0 .. 3 :
           \/ fld' = Ext(fld, kind, 2, 0, k)
           \/ fld' = ExtAdd(fld, kind, 2, 1, 0, k)
Reversing == \E f \in {Rev(fld.r[0]), Rev16(fld.r[0]), Revsh(fld.r[0]), Rbit(fld.r[0]), Clz(fld.r[0])} :
           fld' = Put(fld, 2, f)
Fields == \E lsb \in 0 .. Width - 1, msb \in 0 .. Width - 1 :
           \/ lsb <= msb /\ fld' = Put(fld, 2, Ubfx(fld.r[0], lsb, msb - lsb + 1))
           \/ lsb <= msb /\ \E e \in Sbfx(fld.r[0], lsb, msb - lsb + 1) : fld' = Put(fld, 2, e)
           \/ \E e \in Bfi(fld.r[1], fld.r[0], lsb, msb) : fld' = Put(fld, 2, e)
Dividing == \/ \E e \in Sdiv(fld.r[0], fld.r[1]) : fld' = Put(fld, 2, e)
            \/ fld' = Put(fld, 2, Udiv(fld.r[0], fld.r[1]))
Multiplying == \E flag \in BOOLEAN, accumulate \in BOOLEAN :
  LET a == fld.r[0]  b == fld.r[1]  acc == IF accumulate THEN fld.r[2] ELSE 0 IN
    \/ fld' = Mla(fld, 2, 0, 1, acc)
    \/ fld' = Mls(fld, 2, 0, 1, fld.r[2])
    \/ fld' = MulLong(fld, 1, 2, a, b, flag, accumulate)
    \/ fld' = MulHighAcc(fld, 2, a, b, flag, acc)
    \/ fld' = MulHighSub(fld, 2, a, b, fld.r[2])
    \/ fld' = DualAcc(fld, 2, a, b, flag, acc)
    \/ fld' = DualLong(fld, 1, 2, a, b, flag)
Saturating ==
    \/ \E n \in 1 .. Width, unsigned, asr \in BOOLEAN, amount \in 0 .. Width - 1 :
         fld' = Saturated(fld, 2, unsigned, IF unsigned THEN n - 1 ELSE n, SatShift(fld.r[0], asr, amount))
    \/ \E n \in 1 .. Width \div 2 : fld' = Saturate16(fld, 2, fld.r[0], n)
    \/ \E op \in {"ADD", "SUB", "ASX", "SAX"} : fld' = Parallel(fld, 2, op, fld.r[0], fld.r[1])
Packing == \E amount \in 0 .. Width - 1 :
    \/ fld' = PkhBt(fld, 2, 0, fld.r[1], amount)
    \/ fld' = PkhTb(fld, 2, 0, fld.r[1], amount)

Next == Loads \/ Extending \/ Reversing \/ Fields \/ Dividing \/ Multiplying \/ Saturating \/ Packing
Spec == Init /\ [][Next]_fld

-----------------------------------------------------------------------------
(* Fields are recovered: UBFX of the field BFI just wrote gives the source *)
(* cut to the field, SBFX the same value sign-extended, and the bits of    *)
(* the target outside the field are kept, for every field narrower than a  *)
(* word (a field of the whole word is the undefined shift above).          *)
FieldsRecovered ==
  \A lsb \in 0 .. Width - 1, w \in 1 .. Width - 1 : lsb + w <= Width =>
    LET src == fld.r[0]
        x == fld.r[1]
        y == CHOOSE v \in Bfi(x, src, lsb, lsb + w - 1) : TRUE
    IN /\ Ubfx(y, lsb, w) = src % 2 ^ w
       /\ Sbfx(y, lsb, w) = {SignedAs(src % 2 ^ w, 2 ^ w) % Mod}
       /\ y % 2 ^ lsb = x % 2 ^ lsb /\ y \div 2 ^ (lsb + w) = x \div 2 ^ (lsb + w)

(* A long multiply loses nothing: SMULL, UMULL, SMLAL and UMLAL leave the  *)
(* whole product, plus the accumulator modulo two words, in RdHi:RdLo, and *)
(* the quotient and remainder of UDIV (with MLS) rebuild the dividend.     *)
ProductsExact ==
  LET a == fld.r[0]  b == fld.r[1] IN
  \A signed, accumulate \in BOOLEAN :
    LET t == MulLong(fld, 1, 2, a, b, signed, accumulate) IN
    /\ (Acc(t, 1, 2) - (IF signed THEN Signed(a) * Signed(b) ELSE a * b)
        - (IF accumulate THEN Acc(fld, 1, 2) ELSE 0)) % (Mod * Mod) = 0
    /\ b # 0 => LET u == Put(fld, 2, Udiv(a, b)) IN Mls(u, 2, 2, 1, a).r[2] < b

=============================================================================
