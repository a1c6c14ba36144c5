-------------------------------- MODULE Alu --------------------------------
(***************************************************************************)
(* The arithmetic and logic unit (rtl/generated/alu.v) and the branch      *)
(* comparator of rtl/generated/branch_unit.v, on XLEN-bit words            *)
(* represented by the numbers 0 .. 2^XLEN - 1.                             *)
(***************************************************************************)
EXTENDS Integers

CONSTANT XLEN       \* the width of a word: 32 in the code

ASSUME XlenAssumption == XLEN \in Nat /\ XLEN > 2

\* The powers of two, and the number of words.
Pow[n \in 0 .. XLEN] == IF n = 0 THEN 1 ELSE 2 * Pow[n - 1]
Two == Pow[XLEN]

\* Bit a[i], and the word that a vector of bits is.
Bit(a, i) == (a \div Pow[i]) % 2
Number(bit) ==
    LET high[n \in 0 .. XLEN] == IF n = 0 THEN 0 ELSE 2 * high[n - 1] + bit[XLEN - n]
    IN  high[XLEN]

\* $signed: the number a word stands for in two's complement.
Signed(a) == IF a >= Two \div 2 THEN a - Two ELSE a

\* Mutant: the right shift fills with zeros whatever the sign.
SraLogical(a, n) == a \div Pow[n]

\* $signed(a) >>> n: floor division keeps the sign bit.
Sra(a, n) == (Signed(a) \div Pow[n]) % Two

\* The shift amount: b[4:0].
Shamt(b) == b % XLEN

AluResultOf(alu_op, a, b) ==
    CASE alu_op = "ADD"  -> (a + b) % Two
      [] alu_op = "SUB"  -> (a - b) % Two
      [] alu_op = "AND"  -> Number([ i \in 0 .. XLEN - 1 |-> Bit(a, i) * Bit(b, i) ])
      [] alu_op = "OR"   -> Number([ i \in 0 .. XLEN - 1 |-> 1 - (1 - Bit(a, i)) * (1 - Bit(b, i)) ])
      [] alu_op = "XOR"  -> Number([ i \in 0 .. XLEN - 1 |-> IF Bit(a, i) = Bit(b, i) THEN 0 ELSE 1 ])
      [] alu_op = "SLT"  -> IF Signed(a) < Signed(b) THEN 1 ELSE 0
      [] alu_op = "SLTU" -> IF a < b THEN 1 ELSE 0
      [] alu_op = "SLL"  -> (a * Pow[Shamt(b)]) % Two
      [] alu_op = "SRL"  -> a \div Pow[Shamt(b)]
      [] alu_op = "SRA"  -> Sra(a, Shamt(b))
      [] OTHER           -> 0

\* Mutant: BLTU and BGEU compare signed.
ConditionSigned(funct3, rs1, rs2) ==
    CASE funct3 = 0        -> rs1 = rs2
      [] funct3 = 1        -> rs1 /= rs2
      [] funct3 \in {4, 6} -> Signed(rs1) < Signed(rs2)
      [] funct3 \in {5, 7} -> Signed(rs1) >= Signed(rs2)
      [] OTHER             -> FALSE

\* condition_met; funct3 2 and 3 are no branch and never taken.
ConditionMet(funct3, rs1, rs2) ==
    CASE funct3 = 0 -> rs1 = rs2
      [] funct3 = 1 -> rs1 /= rs2
      [] funct3 = 4 -> Signed(rs1) < Signed(rs2)
      [] funct3 = 5 -> Signed(rs1) >= Signed(rs2)
      [] funct3 = 6 -> rs1 < rs2
      [] funct3 = 7 -> rs1 >= rs2
      [] OTHER      -> FALSE

=============================================================================
