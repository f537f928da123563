------------------------------- MODULE MulDiv -------------------------------
(***************************************************************************)
(* The instructions of the M extension (riscv/insns/mul*.h, div*.h,        *)
(* rem*.h), which share their registers between RV64 and RV32, and the     *)
(* high multiplications of riscv/arith.h, which build a double word from   *)
(* half words.                                                             *)
(*                                                                         *)
(* A word (int32_t) has one of Word values and a register, of two words,   *)
(* one of Double; a value is a natural number, and Signed reads one of so  *)
(* many as two's complement.                                               *)
(***************************************************************************)
EXTENDS Integers

CONSTANT Word   \* 2^32: the values of half a register

ASSUME MulDivAssumption == Word \in Nat \ {0} /\ Word % 2 = 0

VARIABLES
  xlen,      \* how many values an integer register has: Double (RV64) or Word (RV32)
  x1, x2     \* two registers

mulVars == <<xlen, x1, x2>>

Double == Word * Word

Signed(x, size) == LET v == x % size IN IF v >= size \div 2 THEN v - size ELSE v
Zext(x, size)   == x % size
Reg(v)          == v % Double                       \* conversion to reg_t
Sext(x, size)   == Reg(Signed(x, size))             \* sext32, sext_xlen
Abs(v)          == IF v < 0 THEN -v ELSE v

\* C's division, which rounds towards zero.
Quotient(a, b)  == IF (a < 0) = (b < 0) THEN Abs(a) \div Abs(b) ELSE -(Abs(a) \div Abs(b))
Remainder(a, b) == a - b * Quotient(a, b)

-----------------------------------------------------------------------------
(* arith.h.                                                                *)

Mulhu(a, b) ==
  LET a0 == a % Word  a1 == a \div Word
      b0 == b % Word  b1 == b \div Word
      t1 == Reg(a1 * b0 + (a0 * b0) \div Word)
      t2 == Reg(a0 * b1 + (t1 % Word))
  IN  Reg(a1 * b1 + (t1 \div Word) + (t2 \div Word))

\* ~res + carry, where negate is set.
Negated(res, negate, carry) == IF negate THEN Reg(-res - 1 + (IF carry THEN 1 ELSE 0)) ELSE res

\* mulh multiplies its int64_t arguments to see whether the low half of the product is
\* zero.  Where that product overflows the behaviour is undefined, and nothing in the
\* build asks for wrapping: the test may also come out as for the true product.
MulhZero(a, b) ==
  LET product == Signed(a, Double) * Signed(b, Double)  IN  {Reg(product) = 0, product = 0}
Mulh(a, b) ==
  {Negated(Mulhu(Reg(Abs(Signed(a, Double))), Reg(Abs(Signed(b, Double)))),
           (Signed(a, Double) < 0) # (Signed(b, Double) < 0), zero) : zero \in MulhZero(a, b)}

\* Mutant of Mulhsu: the carry out of the low half is never there.
MulhsuNoZero(a, b) == Negated(Mulhu(Reg(Abs(Signed(a, Double))), b), Signed(a, Double) < 0, FALSE)

\* Here the product is of unsigned numbers, and wraps.
Mulhsu(a, b) == Negated(Mulhu(Reg(Abs(Signed(a, Double))), b), Signed(a, Double) < 0, Reg(a * b) = 0)

-----------------------------------------------------------------------------
(* The instructions: the values RD may get.                                *)

Mul(a, b)  == {Sext(Reg(a * b), xlen)}
Mulw(a, b) == {Sext(Reg(a * b), Word)}
MulhInsn(a, b) ==
  IF xlen = Double THEN Mulh(a, b) ELSE {Sext((Signed(a, Word) * Signed(b, Word)) \div Word, Word)}
MulhuInsn(a, b) ==
  IF xlen = Double THEN {Mulhu(a, b)} ELSE {Sext((Zext(a, Word) * Zext(b, Word)) \div Word, Word)}
MulhsuInsn(a, b) ==
  IF xlen = Double THEN {Mulhsu(a, b)} ELSE {Sext(Reg(Sext(a, Word) * Zext(b, Word)) \div Word, Word)}

AllOnes == Double - 1     \* UINT64_MAX

Div(a, b) ==
  LET lhs == Signed(a, xlen)
      rhs == Signed(b, xlen)
  IN  {IF rhs = 0 THEN AllOnes
       ELSE IF lhs = -(Double \div 2) /\ rhs = -1 THEN Reg(lhs)
       ELSE Sext(Quotient(lhs, rhs), xlen)}
Rem(a, b) ==
  LET lhs == Signed(a, xlen)
      rhs == Signed(b, xlen)
  IN  {IF rhs = 0 THEN Reg(lhs)
       ELSE IF lhs = -(Double \div 2) /\ rhs = -1 THEN 0
       ELSE Sext(Remainder(lhs, rhs), xlen)}
Divu(a, b) == {IF Zext(b, xlen) = 0 THEN AllOnes ELSE Sext(Zext(a, xlen) \div Zext(b, xlen), xlen)}

Remu(a, b) == {IF Zext(b, xlen) = 0 THEN Sext(a, xlen) ELSE Sext(Zext(a, xlen) % Zext(b, xlen), xlen)}

\* The word forms, of RV64 only.
Divw(a, b)  ==
  {IF Signed(b, Word) = 0 THEN AllOnes ELSE Sext(Quotient(Signed(a, Word), Signed(b, Word)), Word)}
Remw(a, b)  ==
  {IF Signed(b, Word) = 0 THEN Reg(Signed(a, Word))
   ELSE Sext(Remainder(Signed(a, Word), Signed(b, Word)), Word)}
Divuw(a, b) ==
  {IF Zext(b, Word) = 0 THEN AllOnes ELSE Sext(Zext(a, Word) \div Zext(b, Word), Word)}
Remuw(a, b) ==
  {IF Zext(b, Word) = 0 THEN Sext(Zext(a, Word), Word) ELSE Sext(Zext(a, Word) % Zext(b, Word), Word)}

\* A hart of either width starts with zeros; immediates give a register any value that
\* the width can hold.
MulInit == xlen \in {Double, Word} /\ x1 = 0 /\ x2 = 0
LoadImmediate(v) == x2' = Sext(v, xlen) /\ UNCHANGED <<xlen, x1>>
Execute(results) == x1' \in results /\ UNCHANGED <<xlen, x2>>

MulNext ==
  \/ \E v \in 0 .. xlen - 1 : LoadImmediate(v)
  \/ Execute(Mul(x1, x2)) \/ Execute(MulhInsn(x1, x2))
  \/ Execute(MulhuInsn(x1, x2)) \/ Execute(MulhsuInsn(x1, x2))
  \/ Execute(Div(x1, x2)) \/ Execute(Divu(x1, x2)) \/ Execute(Rem(x1, x2)) \/ Execute(Remu(x1, x2))
  \/ /\ xlen = Double
     /\ \/ Execute(Mulw(x1, x2)) \/ Execute(Divw(x1, x2)) \/ Execute(Divuw(x1, x2))
        \/ Execute(Remw(x1, x2)) \/ Execute(Remuw(x1, x2))

MulSpec == MulInit /\ [][MulNext]_mulVars

-----------------------------------------------------------------------------
(* Properties.                                                             *)

\* The high half of a product, from the product itself.
HighHalf(product) == Sext(product \div xlen, xlen)

\* The high multiplications give the upper half of the exact product for all operands,
\* the most negative number and zero low halves included; mulh, which depends on the
\* compiler where the product of its arguments overflows, gives it in every other case.
HighHalvesExact ==
  LET s1 == Signed(x1, xlen)  s2 == Signed(x2, xlen)
      u1 == Zext(x1, xlen)    u2 == Zext(x2, xlen)
  IN  /\ MulhuInsn(x1, x2) = {HighHalf(u1 * u2)}
      /\ MulhsuInsn(x1, x2) = {HighHalf(s1 * u2)}
      /\ HighHalf(s1 * s2) \in MulhInsn(x1, x2)
      /\ (Signed(s1 * s2, Double) = s1 * s2) => MulhInsn(x1, x2) = {HighHalf(s1 * s2)}

Fits(Q, R, size, signed) ==
  \A q \in Q, r \in R :
    /\ Zext(q * x2 + r, size) = Zext(x1, size)
    /\ IF Zext(x2, size) = 0 THEN q = AllOnes
       ELSE IF signed THEN Abs(Signed(r, size)) < Abs(Signed(x2, size))
       ELSE Zext(r, size) < Zext(x2, size)

\* Division and remainder go together for all operands: the dividend is the quotient
\* times the divisor plus the remainder, modulo the register, and a remainder is
\* smaller than a divisor that is not zero; by zero the quotient is all ones.
DivisionExact ==
  /\ Fits(Div(x1, x2), Rem(x1, x2), xlen, TRUE)
  /\ Fits(Divu(x1, x2), Remu(x1, x2), xlen, FALSE)
  /\ xlen = Double => /\ Fits(Divw(x1, x2), Remw(x1, x2), Word, TRUE)
                      /\ Fits(Divuw(x1, x2), Remuw(x1, x2), Word, FALSE)

\* Whatever sequence of these instructions runs, a register of RV32 holds a word that
\* is sign-extended, which the comparisons and the address arithmetic rely on.
RegsSignExtended == x1 = Sext(x1, xlen) /\ x2 = Sext(x2, xlen)

\* The M extension agrees with the arithmetic of the integers over all operands.
MExact == HighHalvesExact /\ DivisionExact /\ RegsSignExtended
=============================================================================
