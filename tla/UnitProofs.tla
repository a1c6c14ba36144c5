----------------------------- MODULE UnitProofs -----------------------------
(***************************************************************************)
(* Proofs about the units of PureUnits: the decoder's immediates, for any  *)
(* sample of immediates and any bits beside them; the load/store unit, for *)
(* any size of a byte and any sequence of stores; detect_pass, for any     *)
(* output and any PASS_MIN_CYCLES above 1; the ALU and the comparator, for *)
(* any width of a word. What a recursive function computes is shown by     *)
(* induction over an interval, with the property as a set.                 *)
(***************************************************************************)
EXTENDS PureUnits, SequenceTheorems, WellFoundedInduction, TLAPS

---------------------------------------------------------------------------
(* Concatenations of bits. A sequence of n bits holds bit n - 1 first, as  *)
(* WordOf takes it.                                                        *)

Bits(n) == [ 1 .. n -> 0 .. 1 ]
BitAt(bits, n, i) == bits[n - i]
WordBits == [ BitNo -> 0 .. 1 ]

\* Bit i of {a, b} is a bit of b, or further up one of a.
LEMMA Concatenation ==
    ASSUME NEW m \in Nat, NEW n \in Nat, NEW a \in Bits(m), NEW b \in Bits(n),
           NEW p \in Nat, p = m + n
    PROVE  /\ a \o b \in Bits(p)
           /\ \A i \in Nat : i < p =>
                 BitAt(a \o b, p, i) = IF i >= n THEN BitAt(a, m, i - n) ELSE BitAt(b, n, i)
<1>1. a \in Seq(0 .. 1) /\ b \in Seq(0 .. 1) /\ Len(a) = m /\ Len(b) = n
  BY DEF Bits
<1>2. /\ a \o b \in Seq(0 .. 1)
      /\ Len(a \o b) = p
      /\ \A k \in 1 .. p : (a \o b)[k] = IF k <= m THEN a[k] ELSE b[k - m]
  BY <1>1, ConcatProperties
<1>3. a \o b \in [ 1 .. Len(a \o b) -> 0 .. 1 ]
  BY <1>2, LenProperties
<1>4. ASSUME NEW i \in 0 .. p - 1
      PROVE  (a \o b)[p - i] = IF i >= n THEN a[m - (i - n)] ELSE b[n - i]
  <2>1. p - i \in 1 .. p /\ (i >= n <=> p - i <= m) /\ m - (i - n) = p - i /\ (p - i) - m = n - i
    OBVIOUS
  <2> QED  BY <2>1, <1>2
<1> QED  BY <1>2, <1>3, <1>4 DEF Bits, BitAt

\* Bit i of e[h:l], of {n{b}} and of {b}.
LEMMA SliceIs ==
    ASSUME NEW e \in WordBits, NEW h \in BitNo, NEW l \in 0 .. h, NEW n \in Nat, n = h - l + 1
    PROVE  /\ Slice(e, h, l) \in Bits(n)
           /\ \A i \in 0 .. n - 1 : BitAt(Slice(e, h, l), n, i) = e[l + i]
<1>1. \A k \in 1 .. n : h + 1 - k \in BitNo
  BY DEF BitNo
<1>2. Slice(e, h, l) = [ k \in 1 .. n |-> e[h + 1 - k] ]
  BY DEF Slice
<1>3. ASSUME NEW i \in 0 .. n - 1 PROVE Slice(e, h, l)[n - i] = e[l + i]
  <2>1. n - i \in 1 .. n /\ h + 1 - (n - i) = l + i
    BY DEF BitNo
  <2> QED  BY <2>1, <1>2
<1> QED  BY <1>1, <1>2, <1>3 DEF Bits, BitAt, WordBits

LEMMA ReplicateIs ==
    ASSUME NEW n \in Nat, NEW b \in 0 .. 1
    PROVE  /\ Replicate(n, b) \in Bits(n)
           /\ \A i \in 0 .. n - 1 : BitAt(Replicate(n, b), n, i) = b
<1>1. \A i \in 0 .. n - 1 : n - i \in 1 .. n
  OBVIOUS
<1> QED  BY <1>1 DEF Replicate, Bits, BitAt

LEMMA OneBit == ASSUME NEW b \in 0 .. 1 PROVE << b >> \in Bits(1) /\ BitAt(<< b >>, 1, 0) = b
BY DEF Bits, BitAt

LEMMA BitOf == ASSUME NEW e \in WordBits, NEW i \in BitNo PROVE e[i] \in 0 .. 1
BY DEF WordBits

\* The immediate of each format, bit by bit.
LEMMA BitsOfI ==
    ASSUME NEW e \in WordBits, NEW i \in BitNo
    PROVE  WordOf(ImmI(e))[i] =
           IF i >= 12 THEN e[31] ELSE e[20 + i]
<1> DEFINE a == Replicate(20, e[31])
           b == Slice(e, 31, 20)
<1>1. a \in Bits(20) /\ \A k \in 0 .. 19 : BitAt(a, 20, k) = e[31]
  BY BitOf, ReplicateIs DEF BitNo
<1>2. b \in Bits(12) /\ \A k \in 0 .. 11 : BitAt(b, 12, k) = e[20 + k]
  BY SliceIs DEF BitNo
<1>3. WordOf(ImmI(e))[i] = BitAt(a \o b, 32, i)
  BY DEF WordOf, ImmI, BitAt, BitNo
<1> HIDE DEF a, b
<1> DEFINE p == a \o b
<1>4. p \in Bits(32) /\ \A k \in Nat : k < 32 =>
        BitAt(p, 32, k) = IF k >= 12 THEN BitAt(a, 20, k - 12) ELSE BitAt(b, 12, k)
  <2>1. a \in Bits(20) /\ b \in Bits(12) /\ 32 = 20 + 12
    BY <1>1, <1>2
  <2> QED  BY <2>1, Concatenation
<1> HIDE DEF p
<1>5. WordOf(ImmI(e))[i] = BitAt(p, 32, i)
  BY <1>3 DEF p
<1> QED  BY <1>1, <1>2, <1>4, <1>5 DEF BitNo

LEMMA BitsOfS ==
    ASSUME NEW e \in WordBits, NEW i \in BitNo
    PROVE  WordOf(ImmS(e))[i] =
           IF i >= 12 THEN e[31] ELSE IF i >= 5 THEN e[20 + i] ELSE e[7 + i]
<1> DEFINE a == Replicate(20, e[31])
           b == Slice(e, 31, 25)
           c == Slice(e, 11, 7)
<1>1. a \in Bits(20) /\ \A k \in 0 .. 19 : BitAt(a, 20, k) = e[31]
  BY BitOf, ReplicateIs DEF BitNo
<1>2. b \in Bits(7) /\ \A k \in 0 .. 6 : BitAt(b, 7, k) = e[25 + k]
  BY SliceIs DEF BitNo
<1>3. c \in Bits(5) /\ \A k \in 0 .. 4 : BitAt(c, 5, k) = e[7 + k]
  BY SliceIs DEF BitNo
<1>4. WordOf(ImmS(e))[i] = BitAt(a \o b \o c, 32, i)
  BY DEF WordOf, ImmS, BitAt, BitNo
<1> HIDE DEF a, b, c
<1> DEFINE p == a \o b
           q == p \o c
<1>5. p \in Bits(27) /\ \A k \in Nat : k < 27 =>
        BitAt(p, 27, k) = IF k >= 7 THEN BitAt(a, 20, k - 7) ELSE BitAt(b, 7, k)
  <2>1. a \in Bits(20) /\ b \in Bits(7) /\ 27 = 20 + 7
    BY <1>1, <1>2
  <2> QED  BY <2>1, Concatenation
<1> HIDE DEF p
<1>6. q \in Bits(32) /\ \A k \in Nat : k < 32 =>
        BitAt(q, 32, k) = IF k >= 5 THEN BitAt(p, 27, k - 5) ELSE BitAt(c, 5, k)
  <2>1. p \in Bits(27) /\ c \in Bits(5) /\ 32 = 27 + 5
    BY <1>5, <1>3
  <2> QED  BY <2>1, Concatenation
<1> HIDE DEF q
<1>7. WordOf(ImmS(e))[i] = BitAt(q, 32, i)
  BY <1>4 DEF p, q
<1> QED  BY <1>1, <1>2, <1>3, <1>5, <1>6, <1>7 DEF BitNo

LEMMA BitsOfB ==
    ASSUME NEW e \in WordBits, NEW i \in BitNo
    PROVE  WordOf(ImmB(e))[i] =
           IF i >= 12 THEN e[31] ELSE IF i = 11 THEN e[7] ELSE IF i >= 5 THEN e[20 + i]
           ELSE IF i >= 1 THEN e[7 + i] ELSE 0
<1> DEFINE a == Replicate(20, e[31])
           b == << e[7] >>
           c == Slice(e, 30, 25)
           d == Slice(e, 11, 8)
           f == << 0 >>
<1>1. a \in Bits(20) /\ \A k \in 0 .. 19 : BitAt(a, 20, k) = e[31]
  BY BitOf, ReplicateIs DEF BitNo
<1>2. b \in Bits(1) /\ \A k \in 0 .. 0 : BitAt(b, 1, k) = e[7]
  BY BitOf, OneBit DEF BitNo
<1>3. c \in Bits(6) /\ \A k \in 0 .. 5 : BitAt(c, 6, k) = e[25 + k]
  BY SliceIs DEF BitNo
<1>4. d \in Bits(4) /\ \A k \in 0 .. 3 : BitAt(d, 4, k) = e[8 + k]
  BY SliceIs DEF BitNo
<1>5. f \in Bits(1) /\ \A k \in 0 .. 0 : BitAt(f, 1, k) = 0
  BY OneBit
<1>6. WordOf(ImmB(e))[i] = BitAt(a \o b \o c \o d \o f, 32, i)
  BY DEF WordOf, ImmB, BitAt, BitNo
<1> HIDE DEF a, b, c, d, f
<1> DEFINE p == a \o b
           q == p \o c
           r == q \o d
           t == r \o f
<1>7. p \in Bits(21) /\ \A k \in Nat : k < 21 =>
        BitAt(p, 21, k) = IF k >= 1 THEN BitAt(a, 20, k - 1) ELSE BitAt(b, 1, k)
  <2>1. a \in Bits(20) /\ b \in Bits(1) /\ 21 = 20 + 1
    BY <1>1, <1>2
  <2> QED  BY <2>1, Concatenation
<1> HIDE DEF p
<1>8. q \in Bits(27) /\ \A k \in Nat : k < 27 =>
        BitAt(q, 27, k) = IF k >= 6 THEN BitAt(p, 21, k - 6) ELSE BitAt(c, 6, k)
  <2>1. p \in Bits(21) /\ c \in Bits(6) /\ 27 = 21 + 6
    BY <1>7, <1>3
  <2> QED  BY <2>1, Concatenation
<1> HIDE DEF q
<1>9. r \in Bits(31) /\ \A k \in Nat : k < 31 =>
        BitAt(r, 31, k) = IF k >= 4 THEN BitAt(q, 27, k - 4) ELSE BitAt(d, 4, k)
  <2>1. q \in Bits(27) /\ d \in Bits(4) /\ 31 = 27 + 4
    BY <1>8, <1>4
  <2> QED  BY <2>1, Concatenation
<1> HIDE DEF r
<1>10. t \in Bits(32) /\ \A k \in Nat : k < 32 =>
        BitAt(t, 32, k) = IF k >= 1 THEN BitAt(r, 31, k - 1) ELSE BitAt(f, 1, k)
  <2>1. r \in Bits(31) /\ f \in Bits(1) /\ 32 = 31 + 1
    BY <1>9, <1>5
  <2> QED  BY <2>1, Concatenation
<1> HIDE DEF t
<1>11. WordOf(ImmB(e))[i] = BitAt(t, 32, i)
  BY <1>6 DEF p, q, r, t
<1> QED  BY <1>1, <1>2, <1>3, <1>4, <1>5, <1>7, <1>8, <1>9, <1>10, <1>11 DEF BitNo

LEMMA BitsOfJ ==
    ASSUME NEW e \in WordBits, NEW i \in BitNo
    PROVE  WordOf(ImmJ(e))[i] =
           IF i >= 20 THEN e[31] ELSE IF i >= 12 THEN e[i] ELSE IF i = 11 THEN e[20]
           ELSE IF i >= 1 THEN e[20 + i] ELSE 0
<1> DEFINE a == Replicate(12, e[31])
           b == Slice(e, 19, 12)
           c == << e[20] >>
           d == Slice(e, 30, 21)
           f == << 0 >>
<1>1. a \in Bits(12) /\ \A k \in 0 .. 11 : BitAt(a, 12, k) = e[31]
  BY BitOf, ReplicateIs DEF BitNo
<1>2. b \in Bits(8) /\ \A k \in 0 .. 7 : BitAt(b, 8, k) = e[12 + k]
  BY SliceIs DEF BitNo
<1>3. c \in Bits(1) /\ \A k \in 0 .. 0 : BitAt(c, 1, k) = e[20]
  BY BitOf, OneBit DEF BitNo
<1>4. d \in Bits(10) /\ \A k \in 0 .. 9 : BitAt(d, 10, k) = e[21 + k]
  BY SliceIs DEF BitNo
<1>5. f \in Bits(1) /\ \A k \in 0 .. 0 : BitAt(f, 1, k) = 0
  BY OneBit
<1>6. WordOf(ImmJ(e))[i] = BitAt(a \o b \o c \o d \o f, 32, i)
  BY DEF WordOf, ImmJ, BitAt, BitNo
<1> HIDE DEF a, b, c, d, f
<1> DEFINE p == a \o b
           q == p \o c
           r == q \o d
           t == r \o f
<1>7. p \in Bits(20) /\ \A k \in Nat : k < 20 =>
        BitAt(p, 20, k) = IF k >= 8 THEN BitAt(a, 12, k - 8) ELSE BitAt(b, 8, k)
  <2>1. a \in Bits(12) /\ b \in Bits(8) /\ 20 = 12 + 8
    BY <1>1, <1>2
  <2> QED  BY <2>1, Concatenation
<1> HIDE DEF p
<1>8. q \in Bits(21) /\ \A k \in Nat : k < 21 =>
        BitAt(q, 21, k) = IF k >= 1 THEN BitAt(p, 20, k - 1) ELSE BitAt(c, 1, k)
  <2>1. p \in Bits(20) /\ c \in Bits(1) /\ 21 = 20 + 1
    BY <1>7, <1>3
  <2> QED  BY <2>1, Concatenation
<1> HIDE DEF q
<1>9. r \in Bits(31) /\ \A k \in Nat : k < 31 =>
        BitAt(r, 31, k) = IF k >= 10 THEN BitAt(q, 21, k - 10) ELSE BitAt(d, 10, k)
  <2>1. q \in Bits(21) /\ d \in Bits(10) /\ 31 = 21 + 10
    BY <1>8, <1>4
  <2> QED  BY <2>1, Concatenation
<1> HIDE DEF r
<1>10. t \in Bits(32) /\ \A k \in Nat : k < 32 =>
        BitAt(t, 32, k) = IF k >= 1 THEN BitAt(r, 31, k - 1) ELSE BitAt(f, 1, k)
  <2>1. r \in Bits(31) /\ f \in Bits(1) /\ 32 = 31 + 1
    BY <1>9, <1>5
  <2> QED  BY <2>1, Concatenation
<1> HIDE DEF t
<1>11. WordOf(ImmJ(e))[i] = BitAt(t, 32, i)
  BY <1>6 DEF p, q, r, t
<1> QED  BY <1>1, <1>2, <1>3, <1>4, <1>5, <1>7, <1>8, <1>9, <1>10, <1>11 DEF BitNo

LEMMA BitsOfU ==
    ASSUME NEW e \in WordBits, NEW i \in BitNo
    PROVE  WordOf(ImmU(e))[i] =
           IF i >= 12 THEN e[i] ELSE 0
<1> DEFINE a == Slice(e, 31, 12)
           b == Zeros(12)
<1>1. a \in Bits(20) /\ \A k \in 0 .. 19 : BitAt(a, 20, k) = e[12 + k]
  BY SliceIs DEF BitNo
<1>2. b \in Bits(12) /\ \A k \in 0 .. 11 : BitAt(b, 12, k) = 0
  BY ReplicateIs DEF Zeros
<1>3. WordOf(ImmU(e))[i] = BitAt(a \o b, 32, i)
  BY DEF WordOf, ImmU, BitAt, BitNo
<1> HIDE DEF a, b
<1> DEFINE p == a \o b
<1>4. p \in Bits(32) /\ \A k \in Nat : k < 32 =>
        BitAt(p, 32, k) = IF k >= 12 THEN BitAt(a, 20, k - 12) ELSE BitAt(b, 12, k)
  <2>1. a \in Bits(20) /\ b \in Bits(12) /\ 32 = 20 + 12
    BY <1>1, <1>2
  <2> QED  BY <2>1, Concatenation
<1> HIDE DEF p
<1>5. WordOf(ImmU(e))[i] = BitAt(p, 32, i)
  BY <1>3 DEF p
<1> QED  BY <1>1, <1>2, <1>4, <1>5 DEF BitNo

---------------------------------------------------------------------------
(* The encoding.                                                           *)

\* The bits of the immediate that an opcode encodes, and where each of them goes.
Encoded(opcode) == CASE opcode \in {"ITYPE", "LOAD", "JALR", "STORE"} -> 0 .. 11
                     [] opcode = "BRANCH" -> 1 .. 12
                     [] opcode = "JAL"    -> 1 .. 20
                     [] OTHER             -> 12 .. 31
Target(opcode, i) ==
    CASE opcode \in {"ITYPE", "LOAD", "JALR"} -> 20 + i
      [] opcode = "STORE"  -> IF i >= 5 THEN 20 + i ELSE 7 + i
      [] opcode = "BRANCH" -> IF i = 12 THEN 31 ELSE IF i = 11 THEN 7
                              ELSE IF i >= 5 THEN 20 + i ELSE 7 + i
      [] opcode = "JAL"    -> IF i = 20 THEN 31 ELSE IF i = 11 THEN 20
                              ELSE IF i >= 12 THEN i ELSE 20 + i
      [] OTHER             -> i

LEMMA InBlock ==
    ASSUME NEW hi, NEW lo, NEW at, NEW q
    PROVE  q \in Block(hi, lo, at) <=> \E i \in lo .. hi : q = << i, at + i - lo >>
BY DEF Block

LEMMA PlacesAre ==
    ASSUME NEW opcode \in Opcodes, NEW q
    PROVE  q \in Places(opcode) <=> \E i \in Encoded(opcode) : q = << i, Target(opcode, i) >>
<1>1. CASE opcode \in {"ITYPE", "LOAD", "JALR"}
  <2>1. Places(opcode) = Block(11, 0, 20) /\ Encoded(opcode) = 0 .. 11
    BY <1>1 DEF Places, Encoded
  <2>2. \A i \in 0 .. 11 : Target(opcode, i) = 20 + i - 0
    BY <1>1 DEF Target
  <2> QED  BY <2>1, <2>2, InBlock
<1>2. CASE opcode = "STORE"
  <2>1. Places(opcode) = Block(11, 5, 25) \cup Block(4, 0, 7) /\ Encoded(opcode) = 0 .. 11
    BY <1>2 DEF Places, Encoded
  <2>2. /\ \A i \in 5 .. 11 : Target(opcode, i) = 25 + i - 5
        /\ \A i \in 0 .. 4 : Target(opcode, i) = 7 + i - 0
    BY <1>2 DEF Target
  <2>3. \A i \in 0 .. 11 : i \in 5 .. 11 \/ i \in 0 .. 4
    OBVIOUS
  <2> QED  BY <2>1, <2>2, <2>3, InBlock
<1>3. CASE opcode = "BRANCH"
  <2>1. /\ Places(opcode) = Block(12, 12, 31) \cup Block(10, 5, 25) \cup Block(4, 1, 8)
                              \cup Block(11, 11, 7)
        /\ Encoded(opcode) = 1 .. 12
    BY <1>3 DEF Places, Encoded
  <2>2. /\ \A i \in 12 .. 12 : Target(opcode, i) = 31 + i - 12
        /\ \A i \in 5 .. 10 : Target(opcode, i) = 25 + i - 5
        /\ \A i \in 1 .. 4 : Target(opcode, i) = 8 + i - 1
        /\ \A i \in 11 .. 11 : Target(opcode, i) = 7 + i - 11
    BY <1>3 DEF Target
  <2>3. \A i \in 1 .. 12 : i \in 12 .. 12 \/ i \in 5 .. 10 \/ i \in 1 .. 4 \/ i \in 11 .. 11
    OBVIOUS
  <2> QED  BY <2>1, <2>2, <2>3, InBlock
<1>4. CASE opcode = "JAL"
  <2>1. /\ Places(opcode) = Block(20, 20, 31) \cup Block(10, 1, 21) \cup Block(11, 11, 20)
                              \cup Block(19, 12, 12)
        /\ Encoded(opcode) = 1 .. 20
    BY <1>4 DEF Places, Encoded
  <2>2. /\ \A i \in 20 .. 20 : Target(opcode, i) = 31 + i - 20
        /\ \A i \in 1 .. 10 : Target(opcode, i) = 21 + i - 1
        /\ \A i \in 11 .. 11 : Target(opcode, i) = 20 + i - 11
        /\ \A i \in 12 .. 19 : Target(opcode, i) = 12 + i - 12
    BY <1>4 DEF Target
  <2>3. \A i \in 1 .. 20 : i \in 20 .. 20 \/ i \in 1 .. 10 \/ i \in 11 .. 11 \/ i \in 12 .. 19
    OBVIOUS
  <2> QED  BY <2>1, <2>2, <2>3, InBlock
<1>5. CASE opcode \in {"LUI", "AUIPC"}
  <2>1. Places(opcode) = Block(31, 12, 12) /\ Encoded(opcode) = 12 .. 31
    BY <1>5 DEF Places, Encoded
  <2>2. \A i \in 12 .. 31 : Target(opcode, i) = 12 + i - 12
    BY <1>5 DEF Target
  <2> QED  BY <2>1, <2>2, InBlock
<1> QED  BY <1>1, <1>2, <1>3, <1>4, <1>5 DEF Opcodes

\* No two bits of an immediate have the same place.
LEMMA TargetsDiffer ==
    ASSUME NEW opcode \in Opcodes, NEW i \in Encoded(opcode), NEW k \in Encoded(opcode)
    PROVE  /\ Target(opcode, i) \in BitNo
           /\ Target(opcode, i) = Target(opcode, k) => i = k
<1>1. CASE opcode \in {"ITYPE", "LOAD", "JALR"}  BY <1>1 DEF Encoded, Target, BitNo
<1>2. CASE opcode = "STORE"  BY <1>2 DEF Encoded, Target, BitNo
<1>3. CASE opcode = "BRANCH"  BY <1>3 DEF Encoded, Target, BitNo
<1>4. CASE opcode = "JAL"  BY <1>4 DEF Encoded, Target, BitNo
<1>5. CASE opcode \in {"LUI", "AUIPC"}  BY <1>5 DEF Encoded, Target, BitNo
<1> QED  BY <1>1, <1>2, <1>3, <1>4, <1>5 DEF Opcodes

\* Each bit of the immediate is in its place.
LEMMA EncodeIs ==
    ASSUME NEW opcode \in Opcodes, NEW imm, NEW w, NEW i \in Encoded(opcode)
    PROVE  Encode(opcode, imm, w)[Target(opcode, i)] = imm[i]
<1> DEFINE j == Target(opcode, i)
           P == Places(opcode)
           q == CHOOSE p \in P : p[2] = j
<1>1. << i, j >> \in P /\ << i, j >>[2] = j
  BY PlacesAre
<1>2. q \in P /\ q[2] = j
  BY <1>1
<1>3. PICK k \in Encoded(opcode) : q = << k, Target(opcode, k) >>
  BY <1>2, PlacesAre
<1>4. k = i /\ j \in BitNo
  BY <1>2, <1>3, TargetsDiffer
<1>5. q[1] = i
  <2> HIDE DEF q, P
  <2> QED  BY <1>3, <1>4
<1>6. Encode(opcode, imm, w)[j] = imm[q[1]]
  BY <1>1, <1>4 DEF Encode
<1> QED  BY <1>5, <1>6

LEMMA EncodeType ==
    ASSUME NEW opcode \in Opcodes, NEW imm \in WordBits, NEW w \in WordBits
    PROVE  Encode(opcode, imm, w) \in WordBits
<1> SUFFICES ASSUME NEW j \in BitNo
             PROVE  (IF \E p \in Places(opcode) : p[2] = j
                     THEN imm[(CHOOSE p \in Places(opcode) : p[2] = j)[1]] ELSE w[j]) \in 0 .. 1
  BY DEF Encode, WordBits
<1>1. ASSUME NEW p \in Places(opcode) PROVE p[1] \in BitNo
  <2>1. PICK i \in Encoded(opcode) : p = << i, Target(opcode, i) >>
    BY PlacesAre
  <2>2. Encoded(opcode) \subseteq BitNo
    BY DEF Encoded, BitNo, Opcodes
  <2> QED  BY <2>1, <2>2
<1> QED  BY <1>1, BitOf

\* The sign bit is the highest encoded one.
LEMMA SignBitIs ==
    ASSUME NEW opcode \in Opcodes
    PROVE  /\ Encodable(opcode) = Encoded(opcode)
           /\ SignBit(opcode) = CASE opcode \in {"ITYPE", "LOAD", "JALR", "STORE"} -> 11
                                  [] opcode = "BRANCH" -> 12
                                  [] opcode = "JAL"    -> 20
                                  [] OTHER             -> 31
<1>1. Encodable(opcode) = Encoded(opcode)
  <2>1. \A i : i \in Encodable(opcode) <=> \E p \in Places(opcode) : p[1] = i
    BY DEF Encodable
  <2>2. \A i \in Encoded(opcode) : << i, Target(opcode, i) >> \in Places(opcode)
    BY PlacesAre
  <2>3. \A p \in Places(opcode) : p[1] \in Encoded(opcode)
    BY PlacesAre
  <2> QED  BY <2>1, <2>2, <2>3
<1> DEFINE top == CASE opcode \in {"ITYPE", "LOAD", "JALR", "STORE"} -> 11
                    [] opcode = "BRANCH" -> 12
                    [] opcode = "JAL"    -> 20
                    [] OTHER             -> 31
<1>2. top \in Encoded(opcode) /\ top \in Nat /\ \A c \in Encoded(opcode) : c <= top /\ c \in Nat
  BY DEF Encoded, Opcodes
<1> HIDE DEF top
<1>3. SignBit(opcode) \in Encoded(opcode) /\ \A c \in Encoded(opcode) : c <= SignBit(opcode)
  BY <1>1, <1>2 DEF SignBit
<1>4. SignBit(opcode) = top
  <2>1. SignBit(opcode) <= top /\ top <= SignBit(opcode) /\ SignBit(opcode) \in Nat
    BY <1>2, <1>3
  <2> QED  BY <2>1, <1>2
<1> QED  BY <1>1, <1>4 DEF top

LEMMA DecodeEncodes ==
    ASSUME NEW opcode \in Opcodes, NEW imm, Fits(opcode, imm), NEW w \in WordBits
    PROVE  Imm(opcode, Encode(opcode, imm, w)) = imm
<1> DEFINE e == Encode(opcode, imm, w)
           v == Imm(opcode, e)
<1>1. imm \in WordBits /\ e \in WordBits
  BY EncodeType DEF Fits, WordBits
<1>2. \A i \in Encoded(opcode) : e[Target(opcode, i)] = imm[i]
  BY EncodeIs
<1>3. \A i \in BitNo : IF i >= SignBit(opcode) THEN imm[i] = imm[SignBit(opcode)]
                       ELSE i \notin Encoded(opcode) => imm[i] = 0
  BY SignBitIs DEF Fits
<1> HIDE DEF e
<1>4. \A i \in BitNo : v[i] = imm[i]
  <2>1. CASE opcode \in {"ITYPE", "LOAD", "JALR"}
    <3>1. \A i \in BitNo : v[i] = IF i >= 12 THEN e[31] ELSE e[20 + i]
      BY <2>1, <1>1, BitsOfI DEF Imm
    <3>2. SignBit(opcode) = 11 /\ Encoded(opcode) = 0 .. 11
      BY <2>1, SignBitIs DEF Encoded
    <3>3. \A i \in 0 .. 11 : e[20 + i] = imm[i]
      BY <2>1, <3>2, <1>2 DEF Target
    <3>4. e[31] = imm[11]
      BY <3>3
    <3> QED  BY <3>1, <3>2, <3>3, <3>4, <1>3 DEF BitNo
  <2>2. CASE opcode = "STORE"
    <3>1. \A i \in BitNo : v[i] = IF i >= 12 THEN e[31] ELSE IF i >= 5 THEN e[20 + i] ELSE e[7 + i]
      BY <2>2, <1>1, BitsOfS DEF Imm
    <3>2. SignBit(opcode) = 11 /\ Encoded(opcode) = 0 .. 11
      BY <2>2, SignBitIs DEF Encoded
    <3>3. \A i \in 0 .. 11 : e[IF i >= 5 THEN 20 + i ELSE 7 + i] = imm[i]
      BY <2>2, <3>2, <1>2 DEF Target
    <3>4. e[31] = imm[11]
      BY <3>3
    <3> QED  BY <3>1, <3>2, <3>3, <3>4, <1>3 DEF BitNo
  <2>3. CASE opcode = "BRANCH"
    <3>1. \A i \in BitNo : v[i] = IF i >= 12 THEN e[31] ELSE IF i = 11 THEN e[7]
                                  ELSE IF i >= 5 THEN e[20 + i] ELSE IF i >= 1 THEN e[7 + i] ELSE 0
      BY <2>3, <1>1, BitsOfB DEF Imm
    <3>2. SignBit(opcode) = 12 /\ Encoded(opcode) = 1 .. 12
      BY <2>3, SignBitIs DEF Encoded
    <3>3. \A i \in 1 .. 12 : e[IF i = 12 THEN 31 ELSE IF i = 11 THEN 7
                               ELSE IF i >= 5 THEN 20 + i ELSE 7 + i] = imm[i]
      BY <2>3, <3>2, <1>2 DEF Target
    <3>4. e[31] = imm[12] /\ e[7] = imm[11] /\ 0 \notin 1 .. 12
      BY <3>3
    <3> QED  BY <3>1, <3>2, <3>3, <3>4, <1>3 DEF BitNo
  <2>4. CASE opcode = "JAL"
    <3>1. \A i \in BitNo : v[i] = IF i >= 20 THEN e[31] ELSE IF i >= 12 THEN e[i]
                                  ELSE IF i = 11 THEN e[20] ELSE IF i >= 1 THEN e[20 + i] ELSE 0
      BY <2>4, <1>1, BitsOfJ DEF Imm
    <3>2. SignBit(opcode) = 20 /\ Encoded(opcode) = 1 .. 20
      BY <2>4, SignBitIs DEF Encoded
    <3>3. \A i \in 1 .. 20 : e[IF i = 20 THEN 31 ELSE IF i = 11 THEN 20
                               ELSE IF i >= 12 THEN i ELSE 20 + i] = imm[i]
      BY <2>4, <3>2, <1>2 DEF Target
    <3>4. e[31] = imm[20] /\ e[20] = imm[11] /\ 0 \notin 1 .. 20
      BY <3>3
    <3> QED  BY <3>1, <3>2, <3>3, <3>4, <1>3 DEF BitNo
  <2>5. CASE opcode \in {"LUI", "AUIPC"}
    <3>1. \A i \in BitNo : v[i] = IF i >= 12 THEN e[i] ELSE 0
      BY <2>5, <1>1, BitsOfU DEF Imm
    <3>2. SignBit(opcode) = 31 /\ Encoded(opcode) = 12 .. 31
      BY <2>5, SignBitIs DEF Encoded
    <3>3. \A i \in 12 .. 31 : e[i] = imm[i]
      BY <2>5, <3>2, <1>2 DEF Target
    <3> QED  BY <3>1, <3>2, <3>3, <1>3 DEF BitNo
  <2> QED  BY <2>1, <2>2, <2>3, <2>4, <2>5 DEF Opcodes
<1>5. \E bits : v = WordOf(bits)
  BY DEF Imm
<1> HIDE DEF v
<1>6. v = [ i \in BitNo |-> v[i] ]
  BY <1>5 DEF WordOf
<1>7. imm = [ i \in BitNo |-> imm[i] ]
  BY <1>1 DEF WordBits
<1> QED  BY <1>4, <1>6, <1>7 DEF v, e

---------------------------------------------------------------------------

\* The input is an immediate of the opcode and a word beside it.
ImmediateInv == unit = "immediate" =>
                  /\ x[1] \in Opcodes /\ Fits(x[1], x[2]) /\ x[3] \in WordBits

LEMMA ImmediateInitInv == UnitInit => ImmediateInv
BY SampleAssumption DEF UnitInit, ImmediateInit, ImmediateInv, WordBits

LEMMA ImmediateNextInv == ImmediateInv /\ [UNCHANGED unit /\ UnitStep]_vars => ImmediateInv'
<1> SUFFICES ASSUME ImmediateInv, [UNCHANGED unit /\ UnitStep]_vars, unit' = "immediate"
             PROVE  x'[1] \in Opcodes /\ Fits(x'[1], x'[2]) /\ x'[3] \in WordBits
  BY DEF ImmediateInv, WordBits, Fits, Opcodes, Encodable, SignBit, Places, Block
<1>1. unit = "immediate" /\ x[1] \in Opcodes /\ Fits(x[1], x[2]) /\ x[3] \in WordBits
  BY DEF vars, ImmediateInv
<1>2. CASE UNCHANGED vars
  BY <1>1, <1>2 DEF vars
<1>3. CASE UnitStep
  <2>1. PICK w \in Beside : x' = << x[1], x[2], w >>
    BY <1>1, <1>3 DEF UnitStep, OtherFields
  <2>2. x'[1] = x[1] /\ x'[2] = x[2] /\ x'[3] = w /\ w \in WordBits
    BY <2>1, SampleAssumption DEF WordBits
  <2> QED  BY <1>1, <2>2
<1> QED  BY <1>2, <1>3

\* The decoder returns every immediate the assembler encodes (decoder.v).
THEOREM DecoderInvertsEncoder == UnitSpec => []RoundTrip
<1>1. ImmediateInv => RoundTrip
  BY DecodeEncodes DEF ImmediateInv, RoundTrip
<1> QED  BY <1>1, ImmediateInitInv, ImmediateNextInv, PTL DEF UnitSpec

---------------------------------------------------------------------------
(* Division, and the bytes of a word.                                      *)

\* A positive factor keeps the order of what it multiplies.
LEMMA ProductGrows ==
    ASSUME NEW m \in Nat, NEW p \in Nat, NEW q \in Nat, p < q
    PROVE  m * p + m <= m * q
<1>1. PICK k \in Nat : q = p + 1 + k
  <2>1. q - p - 1 \in Nat /\ q = p + 1 + (q - p - 1)
    OBVIOUS
  <2> QED  BY <2>1
<1>2. m * q = m * p + m + m * k
  BY <1>1
<1>3. m * k \in Nat /\ m * p \in Nat
  OBVIOUS
<1> QED  BY <1>2, <1>3

\* Division by a positive number.
LEMMA DivisionIs ==
    ASSUME NEW w \in Nat, NEW m \in Nat \ {0}
    PROVE  /\ w \div m \in Nat
           /\ w % m \in 0 .. m - 1
           /\ w = m * (w \div m) + (w % m)
OBVIOUS

LEMMA DivisionIsOnly ==
    ASSUME NEW m \in Nat \ {0}, NEW q \in Nat, NEW r \in 0 .. m - 1
    PROVE  (m * q + r) \div m = q /\ (m * q + r) % m = r
<1> DEFINE w == m * q + r
           d == w \div m
           e == w % m
<1>1. w \in Nat
  OBVIOUS
<1>2. d \in Nat /\ e \in 0 .. m - 1 /\ w = m * d + e
  BY <1>1, DivisionIs
<1> DEFINE md == m * d
           mq == m * q
<1>3. md \in Nat /\ mq \in Nat
  BY <1>2
<1>4. d < q => md + m <= mq
  BY <1>2, ProductGrows
<1>5. q < d => mq + m <= md
  BY <1>2, ProductGrows
<1>6. mq + r = md + e
  BY <1>2
<1>7. ~(d < q) /\ ~(q < d)
  <2> HIDE DEF md, mq, d, e
  <2> QED  BY <1>2, <1>3, <1>4, <1>5, <1>6
<1>8. d = q
  BY <1>2, <1>7
<1>9. md = mq
  BY <1>8
<1>10. e = r
  <2> HIDE DEF md, mq, d, e
  <2> QED  BY <1>6, <1>9, <1>3, <1>2
<1> QED  BY <1>8, <1>10

\* Division by a product.
LEMMA DivisionByProduct ==
    ASSUME NEW w \in Nat, NEW m \in Nat \ {0}, NEW n \in Nat \ {0}
    PROVE  /\ w \div (m * n) = (w \div m) \div n
           /\ w % (m * n) = m * ((w \div m) % n) + (w % m)
<1> DEFINE d == w \div m
           e == w % m
           d2 == d \div n
           e2 == d % n
           r == m * e2 + e
<1>1. d \in Nat /\ e \in 0 .. m - 1 /\ w = m * d + e
  BY DivisionIs
<1>2. d2 \in Nat /\ e2 \in 0 .. n - 1 /\ d = n * d2 + e2
  BY <1>1, DivisionIs
<1> HIDE DEF d, e, d2, e2
<1>3. m * e2 + m <= m * n
  BY <1>2, ProductGrows
<1>4. m * n \in Nat \ {0} /\ m * e2 \in Nat
  <2>1. m * n \in Nat /\ m * e2 \in Nat
    BY <1>2
  <2>2. m * n >= m
    <3> DEFINE mn == m * n
               me == m * e2
    <3>1. me \in Nat /\ mn \in Nat
      BY <2>1
    <3>2. me + m <= mn
      BY <1>3
    <3> HIDE DEF mn, me
    <3>3. mn >= m
      BY <3>1, <3>2
    <3> QED  BY <3>3 DEF mn
  <2> QED  BY <2>1, <2>2
<1>5. r \in 0 .. m * n - 1
  <2> DEFINE mn == m * n
             me == m * e2
  <2>1. me \in Nat /\ mn \in Nat /\ me + m <= mn
    BY <1>3, <1>4
  <2> HIDE DEF mn, me
  <2>2. me + e \in 0 .. mn - 1
    BY <1>1, <2>1
  <2> QED  BY <2>2 DEF mn, me, r
<1>6. w = (m * n) * d2 + r
  <2>1. w = m * (n * d2 + e2) + e
    BY <1>1, <1>2
  <2> QED  BY <2>1, <1>1, <1>2
<1> HIDE DEF r
<1>7. w \div (m * n) = d2 /\ w % (m * n) = r
  BY <1>4, <1>5, <1>6, <1>2, DivisionIsOnly
<1> QED  BY <1>7 DEF r, d, e, d2, e2

\* The bytes of a word are its digits in base ByteSize.
Rest(w) == w \div ByteSize

LEMMA RestType == ASSUME NEW w \in Nat
                  PROVE  /\ Rest(w) \in Nat
                         /\ w % ByteSize \in 0 .. ByteSize - 1
                         /\ w = ByteSize * Rest(w) + (w % ByteSize)
<1>1. ByteSize \in Nat \ {0}
  BY ByteAssumption
<1> QED  BY <1>1, DivisionIs DEF Rest

LEMMA WeightIs == /\ Weight[0] = 1 /\ Weight[1] = ByteSize
                  /\ Weight[2] = HalfValues /\ Weight[3] = HalfValues * ByteSize
BY DEF Weight, Lanes

LEMMA BytesAre ==
    ASSUME NEW w \in Nat
    PROVE  /\ ByteOf(w, 0) = w % ByteSize
           /\ ByteOf(w, 1) = Rest(w) % ByteSize
           /\ ByteOf(w, 2) = Rest(Rest(w)) % ByteSize
           /\ ByteOf(w, 3) = Rest(Rest(Rest(w))) % ByteSize
<1>1. ByteSize \in Nat \ {0} /\ HalfValues \in Nat \ {0}
  <2>1. ByteSize \in Nat \ {0}
    BY ByteAssumption
  <2>2. ByteSize * ByteSize \in Nat /\ ByteSize * ByteSize # 0
    BY <2>1
  <2> QED  BY <2>1, <2>2 DEF HalfValues
<1>2. w \div 1 = w
  OBVIOUS
<1>3. w \div HalfValues = Rest(Rest(w))
  BY <1>1, DivisionByProduct DEF Rest, HalfValues
<1>4. w \div (HalfValues * ByteSize) = Rest(Rest(Rest(w)))
  <2>1. w \div (HalfValues * ByteSize) = (w \div HalfValues) \div ByteSize
    BY <1>1, DivisionByProduct
  <2> QED  BY <2>1, <1>3 DEF Rest
<1>5. w \div ByteSize = Rest(w)
  BY DEF Rest
<1> QED  BY <1>2, <1>3, <1>4, <1>5, WeightIs DEF ByteOf

\* The word four bytes make, and its bytes.
Word4(b0, b1, b2, b3) == b0 * Weight[0] + b1 * Weight[1] + b2 * Weight[2] + b3 * Weight[3]
Digit == 0 .. ByteSize - 1

LEMMA DigitOf == ASSUME NEW w \in Nat, NEW i \in Lanes PROVE ByteOf(w, i) \in Digit
BY BytesAre, RestType DEF Lanes, Digit

LEMMA AddDigit ==
    ASSUME NEW b \in Digit, NEW q \in Nat
    PROVE  b + ByteSize * q \in Nat /\ Rest(b + ByteSize * q) = q /\ (b + ByteSize * q) % ByteSize = b
<1>1. ByteSize \in Nat \ {0} /\ b \in 0 .. ByteSize - 1
  BY ByteAssumption DEF Digit
<1>2. (ByteSize * q + b) \div ByteSize = q /\ (ByteSize * q + b) % ByteSize = b
  BY <1>1, DivisionIsOnly
<1>3. ByteSize * q + b = b + ByteSize * q /\ b + ByteSize * q \in Nat
  BY <1>1
<1> QED  BY <1>2, <1>3 DEF Rest

LEMMA WordNested ==
    ASSUME NEW b0 \in Digit, NEW b1 \in Digit, NEW b2 \in Digit, NEW b3 \in Digit
    PROVE  Word4(b0, b1, b2, b3) = b0 + ByteSize * (b1 + ByteSize * (b2 + ByteSize * b3))
<1>1. /\ ByteSize \in Nat /\ b0 \in Nat /\ b1 \in Nat /\ b2 \in Nat /\ b3 \in Nat
  BY ByteAssumption DEF Digit
<1> QED  BY <1>1, WeightIs DEF Word4, HalfValues

LEMMA BytesOfWord ==
    ASSUME NEW b0 \in Digit, NEW b1 \in Digit, NEW b2 \in Digit, NEW b3 \in Digit
    PROVE  LET w == Word4(b0, b1, b2, b3)
           IN  /\ ByteOf(w, 0) = b0 /\ ByteOf(w, 1) = b1 /\ ByteOf(w, 2) = b2 /\ ByteOf(w, 3) = b3
               /\ w \in Words
<1> DEFINE w2 == b2 + ByteSize * b3
           w1 == b1 + ByteSize * w2
           w == b0 + ByteSize * w1
<1>0. Word4(b0, b1, b2, b3) = w
  BY WordNested
<1>1. b3 \in Nat /\ b3 % ByteSize = b3
  BY ByteAssumption DEF Digit
<1>2. w2 \in Nat /\ Rest(w2) = b3 /\ w2 % ByteSize = b2
  BY <1>1, AddDigit
<1> HIDE DEF w2
<1>3. w1 \in Nat /\ Rest(w1) = w2 /\ w1 % ByteSize = b1
  BY <1>2, AddDigit
<1> HIDE DEF w1
<1>4. w \in Nat /\ Rest(w) = w1 /\ w % ByteSize = b0
  BY <1>3, AddDigit
<1> HIDE DEF w
<1>5. ByteOf(w, 0) = b0 /\ ByteOf(w, 1) = b1 /\ ByteOf(w, 2) = b2 /\ ByteOf(w, 3) = b3
  BY <1>1, <1>2, <1>3, <1>4, BytesAre
<1>6. ByteSize \in Nat /\ ByteSize > 0
  BY ByteAssumption
<1>7. w2 < ByteSize * ByteSize
  <2>1. ByteSize * b3 + ByteSize <= ByteSize * ByteSize
    BY <1>1, <1>6, ProductGrows DEF Digit
  <2>2. ByteSize * b3 \in Nat /\ ByteSize * ByteSize \in Nat
    BY <1>1, <1>6
  <2>3. b2 < ByteSize /\ b2 \in Nat
    BY <1>6 DEF Digit
  <2> DEFINE p == ByteSize * b3
             q == ByteSize * ByteSize
  <2>4. p \in Nat /\ q \in Nat /\ p + ByteSize <= q
    BY <2>1, <2>2
  <2> HIDE DEF p, q
  <2>5. b2 + p < q
    BY <2>3, <2>4, <1>6
  <2> QED  BY <2>5 DEF p, q, w2
<1>8. w1 < ByteSize * HalfValues
  <2> DEFINE h == ByteSize * ByteSize
             p == ByteSize * w2
             q == ByteSize * h
  <2>0. h \in Nat /\ w2 < h
    BY <1>7, <1>6
  <2> HIDE DEF h
  <2>1. p + ByteSize <= q
    BY <1>2, <1>6, <2>0, ProductGrows
  <2>2. p \in Nat /\ q \in Nat
    BY <1>2, <1>6, <2>0
  <2>3. b1 < ByteSize /\ b1 \in Nat
    BY <1>6 DEF Digit
  <2> HIDE DEF p, q
  <2>5. b1 + p < q
    BY <2>1, <2>2, <2>3, <1>6
  <2> QED  BY <2>5 DEF p, q, w1, h, HalfValues
<1>9. w < WordValues
  <2> DEFINE h == ByteSize * HalfValues
             p == ByteSize * w1
             q == ByteSize * h
  <2>0. h \in Nat /\ w1 < h
    BY <1>8, <1>6 DEF HalfValues
  <2> HIDE DEF h
  <2>1. p + ByteSize <= q
    BY <1>3, <1>6, <2>0, ProductGrows
  <2>2. p \in Nat /\ q \in Nat
    BY <1>3, <1>6, <2>0
  <2>3. b0 < ByteSize /\ b0 \in Nat
    BY <1>6 DEF Digit
  <2> HIDE DEF p, q
  <2>5. b0 + p < q
    BY <2>1, <2>2, <2>3, <1>6
  <2>6. q = WordValues
    BY <1>6 DEF q, h, WordValues, HalfValues
  <2> QED  BY <2>5, <2>6 DEF p, w
<1>10. WordValues \in Nat
  BY <1>6 DEF WordValues, HalfValues
<1> QED  BY <1>0, <1>4, <1>5, <1>9, <1>10 DEF Words
\* A word is made of its bytes, and its low half of two of them.
LEMMA WordOfBytes ==
    ASSUME NEW w \in Words
    PROVE  /\ w \in Nat
           /\ w = Word4(ByteOf(w, 0), ByteOf(w, 1), ByteOf(w, 2), ByteOf(w, 3))
           /\ w % HalfValues = ByteOf(w, 0) + ByteSize * ByteOf(w, 1)
<1>0. /\ ByteSize \in Nat \ {0} /\ w \in Nat /\ w < WordValues
      /\ HalfValues \in Nat \ {0} /\ HalfValues * ByteSize \in Nat \ {0}
  <2>1. ByteSize \in Nat \ {0}
    BY ByteAssumption
  <2>2. HalfValues \in Nat /\ HalfValues # 0
    BY <2>1 DEF HalfValues
  <2>3. HalfValues * ByteSize \in Nat /\ HalfValues * ByteSize # 0
    BY <2>1, <2>2
  <2>4. WordValues \in Nat
    BY <2>2 DEF WordValues
  <2> QED  BY <2>1, <2>2, <2>3, <2>4 DEF Words
<1> DEFINE r1 == Rest(w)
           r2 == Rest(r1)
           r3 == Rest(r2)
<1>1. /\ ByteOf(w, 0) = w % ByteSize /\ ByteOf(w, 1) = r1 % ByteSize
      /\ ByteOf(w, 2) = r2 % ByteSize /\ ByteOf(w, 3) = r3 % ByteSize
  BY <1>0, BytesAre
<1>2. r1 \in Nat /\ w = ByteSize * r1 + (w % ByteSize) /\ w % ByteSize \in Digit
  BY <1>0, RestType DEF Digit
<1> HIDE DEF r1
<1>3. r2 \in Nat /\ r1 = ByteSize * r2 + (r1 % ByteSize) /\ r1 % ByteSize \in Digit
  BY <1>2, RestType DEF Digit
<1> HIDE DEF r2
<1>4. r3 \in Nat /\ r2 = ByteSize * r3 + (r2 % ByteSize) /\ r2 % ByteSize \in Digit
  BY <1>3, RestType DEF Digit
<1> HIDE DEF r3
<1>5. r3 < ByteSize
  <2> DEFINE m == HalfValues * ByteSize
             p == m * r3
             q == m * ByteSize
  <2>0. m \in Nat /\ m > 0
    BY <1>0
  <2> HIDE DEF m
  <2>1. w >= p
    <3>1. w = m * r3 + (w % m) /\ w % m \in Nat
      <4>1. w \div m = r3
        <5>1. w \div m = (w \div HalfValues) \div ByteSize
          BY <1>0, DivisionByProduct DEF m
        <5>2. w \div HalfValues = (w \div ByteSize) \div ByteSize
          BY <1>0, DivisionByProduct DEF HalfValues
        <5> QED  BY <5>1, <5>2 DEF r1, r2, r3, Rest
      <4>2. w = m * (w \div m) + (w % m) /\ w % m \in 0 .. m - 1
        BY <1>0, <2>0, DivisionIs
      <4> QED  BY <4>1, <4>2, <2>0
    <3>2. p \in Nat
      BY <2>0, <1>4
    <3>3. w = p + (w % m)
      BY <3>1
    <3> HIDE DEF p
    <3> QED  BY <1>0, <3>1, <3>2, <3>3
  <2>2. q = WordValues
    BY <1>0 DEF m, WordValues, HalfValues
  <2>3. ByteSize < r3 => q + m <= p
    BY <1>0, <1>4, <2>0, ProductGrows
  <2>4. ByteSize = r3 => q = p
    OBVIOUS
  <2>5. p \in Nat /\ q \in Nat
    BY <1>0, <1>4, <2>0
  <2> HIDE DEF p, q
  <2> QED  BY <1>0, <1>4, <2>0, <2>1, <2>2, <2>3, <2>4, <2>5
<1>6. r3 % ByteSize = r3 /\ r3 \in Digit
  BY <1>0, <1>4, <1>5 DEF Digit
<1>7. w = (w % ByteSize) + ByteSize * ((r1 % ByteSize) + ByteSize * ((r2 % ByteSize) + ByteSize * r3))
  <2>1. r2 = (r2 % ByteSize) + ByteSize * r3
    BY <1>0, <1>4 DEF Digit
  <2>2. r1 = (r1 % ByteSize) + ByteSize * r2
    BY <1>0, <1>3 DEF Digit
  <2>3. w = (w % ByteSize) + ByteSize * r1
    BY <1>0, <1>2 DEF Digit
  <2> QED  BY <2>1, <2>2, <2>3
<1>8. w = Word4(ByteOf(w, 0), ByteOf(w, 1), ByteOf(w, 2), ByteOf(w, 3))
  <2>1. Word4(w % ByteSize, r1 % ByteSize, r2 % ByteSize, r3)
        = (w % ByteSize) + ByteSize * ((r1 % ByteSize) + ByteSize * ((r2 % ByteSize) + ByteSize * r3))
    <3> DEFINE b0 == w % ByteSize
               b1 == r1 % ByteSize
               b2 == r2 % ByteSize
    <3>1. b0 \in Digit /\ b1 \in Digit /\ b2 \in Digit /\ r3 \in Digit
      BY <1>2, <1>3, <1>4, <1>6
    <3> HIDE DEF b0, b1, b2
    <3>2. Word4(b0, b1, b2, r3) = b0 + ByteSize * (b1 + ByteSize * (b2 + ByteSize * r3))
      BY <3>1, WordNested
    <3> QED  BY <3>2 DEF b0, b1, b2
  <2> QED  BY <2>1, <1>1, <1>6, <1>7
<1>9. w % HalfValues = ByteSize * ByteOf(w, 1) + ByteOf(w, 0)
  <2>1. w % (ByteSize * ByteSize) = ByteSize * ((w \div ByteSize) % ByteSize) + (w % ByteSize)
    BY <1>0, DivisionByProduct
  <2> QED  BY <2>1, <1>1 DEF HalfValues, r1, Rest
<1>10. ByteOf(w, 0) \in Nat /\ ByteOf(w, 1) \in Nat
  BY <1>1, <1>2, <1>3, <1>0 DEF Digit
<1> QED  BY <1>0, <1>8, <1>9, <1>10

---------------------------------------------------------------------------
(* Loads and stores.                                                       *)

\* A load from the base of a word is the one RV32I defines.
LEMMA BaseLoad ==
    ASSUME NEW w \in Words, NEW mem_op \in {0, 1, 2, 4, 5}
    PROVE  Rdata(mem_op, 0, w) = RefLoad([ i \in Lanes |-> ByteOf(w, i) ], mem_op, 0)
<1> DEFINE bs == [ i \in Lanes |-> ByteOf(w, i) ]
<1>1. /\ w \in Nat
      /\ w = Word4(bs[0], bs[1], bs[2], bs[3])
      /\ w % HalfValues = bs[0] + ByteSize * bs[1]
      /\ w % ByteSize = bs[0]
  BY WordOfBytes, BytesAre DEF Lanes
<1>2. bs[0] \in Nat /\ bs[1] \in Nat /\ bs[2] \in Nat /\ bs[3] \in Nat /\ ByteSize \in Nat
      /\ Weight[2] \in Nat /\ Weight[3] \in Nat
  BY <1>1, DigitOf, ByteAssumption, WeightIs DEF Digit, Lanes, HalfValues
<1> HIDE DEF bs
<1>3. Value(bs, 0, 1) = w % ByteSize
  BY <1>1, <1>2, WeightIs DEF Value, Join, Lanes
<1>4. Value(bs, 0, 2) = w % HalfValues
  BY <1>1, <1>2, WeightIs DEF Value, Join, Lanes
<1>5. Value(bs, 0, 4) = w
  BY <1>1, <1>2 DEF Value, Join, Word4, Lanes
<1>6. Values(1) = ByteSize /\ Values(2) = HalfValues
  BY DEF Values
<1>7. CASE mem_op \in {0, 4}
  <2>1. SizeOf(mem_op) = 1
    BY <1>7 DEF SizeOf
  <2> QED  BY <1>7, <2>1, <1>3, <1>6 DEF RefLoad, Rdata, bs
<1>8. CASE mem_op \in {1, 5}
  <2>1. SizeOf(mem_op) = 2
    BY <1>8 DEF SizeOf
  <2> QED  BY <1>8, <2>1, <1>4, <1>6 DEF RefLoad, Rdata, bs
<1>9. CASE mem_op = 2
  <2>1. SizeOf(mem_op) = 4 /\ Values(4) = WordValues
    BY <1>9 DEF SizeOf, Values
  <2>2. SignExtend(w, WordValues) = w
    BY <1>1, <1>2 DEF SignExtend, WordValues, HalfValues
  <2> QED  BY <1>9, <2>1, <2>2, <1>5 DEF RefLoad, Rdata, bs
<1> QED  BY <1>7, <1>8, <1>9

\* An aligned store enables the lanes it addresses, and there are such lanes.
LEMMA EnabledIsTouched ==
    ASSUME NEW mem_op \in 0 .. 2, NEW off \in Lanes, Aligned(mem_op, off)
    PROVE  /\ MemBe(mem_op, off) = Touched(mem_op, off)
           /\ Touched(mem_op, off) \subseteq Lanes
           /\ 0 \in Touched(mem_op, off) =>
                off = 0 /\ Touched(mem_op, off) = 0 .. SizeOf(mem_op) - 1
<1>1. CASE mem_op = 0
  <2>1. SizeOf(mem_op) = 1 /\ MemBe(mem_op, off) = {off}
    BY <1>1 DEF SizeOf, MemBe, Lanes
  <2> QED  BY <2>1 DEF Touched, Lanes
<1>2. CASE mem_op = 1
  <2>1. SizeOf(mem_op) = 2 /\ off \in {0, 2}
    BY <1>2 DEF SizeOf, Aligned, Lanes
  <2>2. Touched(mem_op, off) = {off, off + 1}
    BY <2>1 DEF Touched
  <2>3. CASE off = 0
    <3>1. MemBe(mem_op, off) = {0, 1} /\ Touched(mem_op, off) = {0, 1}
      BY <1>2, <2>2, <2>3 DEF MemBe
    <3>2. {0, 1} = 0 .. SizeOf(mem_op) - 1
      BY <2>1
    <3> QED  BY <3>1, <3>2, <2>3 DEF Lanes
  <2>4. CASE off = 2
    BY <1>2, <2>1, <2>2, <2>4 DEF MemBe, Lanes
  <2> QED  BY <2>1, <2>3, <2>4
<1>3. CASE mem_op = 2
  <2>1. SizeOf(mem_op) = 4 /\ off = 0
    BY <1>3 DEF SizeOf, Aligned, Lanes
  <2>2. MemBe(mem_op, off) = Lanes
    BY <1>3 DEF MemBe
  <2> QED  BY <2>1, <2>2 DEF Touched, Lanes
<1> QED  BY <1>1, <1>2, <1>3

\* The data of a store has the operand's bytes, as many as the store writes.
LEMMA DataBytes ==
    ASSUME NEW wdata \in Words, NEW mem_op \in 0 .. 2
    PROVE  /\ MemWdata(mem_op, wdata) \in Nat
           /\ \A i \in 0 .. SizeOf(mem_op) - 1 :
                 ByteOf(MemWdata(mem_op, wdata), i) = ByteOf(wdata, i)
<1>1. /\ wdata \in Nat
      /\ wdata % HalfValues = ByteOf(wdata, 0) + ByteSize * ByteOf(wdata, 1)
      /\ wdata % ByteSize = ByteOf(wdata, 0)
      /\ ByteOf(wdata, 0) \in Digit /\ ByteOf(wdata, 1) \in Digit
  BY WordOfBytes, BytesAre, DigitOf DEF Lanes
<1> DEFINE b0 == ByteOf(wdata, 0)
           b1 == ByteOf(wdata, 1)
<1>2. ByteSize \in Nat /\ b0 \in Nat /\ b1 \in Nat
  BY <1>1, ByteAssumption DEF Digit
<1>3. /\ b0 + ByteSize * b1 \in Nat /\ Rest(b0 + ByteSize * b1) = b1
      /\ (b0 + ByteSize * b1) % ByteSize = b0
  BY <1>1, <1>2, AddDigit
<1>4. b0 % ByteSize = b0 /\ b1 % ByteSize = b1
  BY <1>1, <1>2, ByteAssumption DEF Digit
<1> HIDE DEF b0, b1
<1>5. CASE mem_op = 0
  <2>1. MemWdata(mem_op, wdata) = b0 /\ SizeOf(mem_op) = 1
    BY <1>5, <1>1 DEF MemWdata, SizeOf, b0
  <2>2. ByteOf(b0, 0) = b0
    BY <1>2, <1>4, BytesAre
  <2> QED  BY <2>1, <2>2, <1>2 DEF b0
<1>6. CASE mem_op = 1
  <2> DEFINE h == b0 + ByteSize * b1
  <2>1. MemWdata(mem_op, wdata) = h /\ SizeOf(mem_op) = 2
    BY <1>6, <1>1 DEF MemWdata, SizeOf, b0, b1
  <2>2. h \in Nat /\ Rest(h) = b1 /\ h % ByteSize = b0
    BY <1>3
  <2> HIDE DEF h
  <2>3. ByteOf(h, 0) = b0 /\ ByteOf(h, 1) = b1
    BY <2>2, <1>4, BytesAre
  <2> QED  BY <2>1, <2>2, <2>3 DEF b0, b1
<1>7. CASE mem_op = 2
  BY <1>7, <1>1 DEF MemWdata
<1> QED  BY <1>5, <1>6, <1>7

\* The word after a store, byte by byte.
LEMMA StoredBytes ==
    ASSUME NEW w \in Words, NEW wdata \in Words, NEW mem_op \in 0 .. 2, NEW off \in Lanes,
           Aligned(mem_op, off)
    PROVE  /\ Stored(mem_op, off, wdata, w) \in Words
           /\ \A i \in Lanes : ByteOf(Stored(mem_op, off, wdata, w), i) =
                 IF i \in Touched(mem_op, off) THEN ByteOf(MemWdata(mem_op, wdata), i)
                 ELSE ByteOf(w, i)
<1> DEFINE T == Touched(mem_op, off)
           data == MemWdata(mem_op, wdata)
           b(i) == ByteOf(IF i \in T THEN data ELSE w, i)
           s == Stored(mem_op, off, wdata, w)
<1>1. MemBe(mem_op, off) = T
  BY EnabledIsTouched
<1>2. s = Word4(b(0), b(1), b(2), b(3))
  BY <1>1 DEF Stored, Join, Word4, Lanes
<1>3. w \in Nat /\ data \in Nat
  BY WordOfBytes, DataBytes
<1> HIDE DEF T, data, s
<1>4. b(0) \in Digit /\ b(1) \in Digit /\ b(2) \in Digit /\ b(3) \in Digit
  BY <1>3, DigitOf DEF Lanes
<1> DEFINE d0 == b(0)
           d1 == b(1)
           d2 == b(2)
           d3 == b(3)
<1>5. d0 \in Digit /\ d1 \in Digit /\ d2 \in Digit /\ d3 \in Digit /\ s = Word4(d0, d1, d2, d3)
  BY <1>2, <1>4
<1> HIDE DEF d0, d1, d2, d3
<1>6. ByteOf(s, 0) = d0 /\ ByteOf(s, 1) = d1 /\ ByteOf(s, 2) = d2 /\ ByteOf(s, 3) = d3 /\ s \in Words
  BY <1>5, BytesOfWord
<1>7. \A i \in Lanes : ByteOf(s, i) = IF i \in T THEN ByteOf(data, i) ELSE ByteOf(w, i)
  BY <1>6 DEF Lanes, d0, d1, d2, d3
<1> QED  BY <1>6, <1>7 DEF s, T, data

---------------------------------------------------------------------------

\* The word of the memory is a word.
WordInv == unit = "lsu" => x.word \in Words

LEMMA WordInitInv == UnitInit => WordInv
<1>1. 0 \in Words
  <2>1. 0 \in Digit
    BY ByteAssumption DEF Digit
  <2>2. WordValues \in Nat /\ Word4(0, 0, 0, 0) \in Words
    BY <2>1, BytesOfWord, ByteAssumption DEF WordValues, HalfValues
  <2>3. WordValues >= 1
    BY <2>2 DEF Words
  <2> QED  BY <2>2, <2>3 DEF Words
<1> QED  BY <1>1 DEF UnitInit, MemoryInit, WordInv

\* What a step of the load/store unit is.
LEMMA StoreStep ==
    ASSUME unit = "lsu", UnitStep
    PROVE  \E mem_op \in 0 .. 2, off \in Lanes, wdata \in Words :
              Aligned(mem_op, off) /\ Store(mem_op, off, wdata)
BY OffsetAssumption DEF UnitStep, Store

LEMMA WordNextInv == WordInv /\ [UNCHANGED unit /\ UnitStep]_vars => WordInv'
<1> SUFFICES ASSUME WordInv, [UNCHANGED unit /\ UnitStep]_vars, unit' = "lsu"
             PROVE  x'.word \in Words
  BY DEF WordInv, Words, WordValues, HalfValues
<1>1. unit = "lsu" /\ x.word \in Words
  BY DEF vars, WordInv
<1>2. CASE UNCHANGED vars
  BY <1>1, <1>2 DEF vars
<1>3. CASE UnitStep
  <2>1. PICK mem_op \in 0 .. 2, off \in Lanes, wdata \in Words :
           Aligned(mem_op, off) /\ Store(mem_op, off, wdata)
    BY <1>1, <1>3, StoreStep
  <2>2. x'.word = Stored(mem_op, off, wdata, x.word)
    BY <2>1 DEF Store
  <2> QED  BY <1>1, <2>1, <2>2, StoredBytes
<1> QED  BY <1>2, <1>3

\* The memory always holds a word.
LEMMA WordInvHolds == UnitSpec => []WordInv
BY WordInitInv, WordNextInv, PTL DEF UnitSpec

\* A load from the base of a word returns its bytes, extended (lsu.v).
THEOREM LoadsReadBytes == UnitSpec => []BaseLoadsReadTheirLane
<1>1. WordInv => BaseLoadsReadTheirLane
  BY BaseLoad DEF WordInv, BaseLoadsReadTheirLane, LoadsAreExact
<1> QED  BY <1>1, WordInvHolds, PTL

\* A store to the base of a word puts each byte into its lane (lsu.v, top.v).
THEOREM StoresWriteBytes == UnitSpec => BaseStoresReachTheirLane
<1>1. WordInv /\ [UNCHANGED unit /\ UnitStep]_vars =>
        [ unit = "lsu" /\ 0 \in x'.touched
          => \A i \in x'.touched : ByteOf(x'.word, i) = x'.bytes[i] ]_vars
  <2> SUFFICES ASSUME WordInv, UnitStep, unit = "lsu", 0 \in x'.touched, NEW i \in x'.touched
               PROVE  ByteOf(x'.word, i) = x'.bytes[i]
    OBVIOUS
  <2>1. PICK mem_op \in 0 .. 2, off \in Lanes, wdata \in Words :
           Aligned(mem_op, off) /\ Store(mem_op, off, wdata)
    BY StoreStep
  <2>2. /\ x'.word = Stored(mem_op, off, wdata, x.word)
        /\ x'.touched = Touched(mem_op, off)
        /\ x'.bytes = [ k \in Lanes |-> IF k \in Touched(mem_op, off) THEN ByteOf(wdata, k - off)
                                        ELSE x.bytes[k] ]
    BY <2>1 DEF Store
  <2>3. off = 0 /\ i \in 0 .. SizeOf(mem_op) - 1 /\ i \in Lanes /\ i \in Touched(mem_op, off)
    BY <2>1, <2>2, EnabledIsTouched
  <2>4. ByteOf(x'.word, i) = ByteOf(MemWdata(mem_op, wdata), i)
    BY <2>1, <2>2, <2>3, StoredBytes DEF WordInv
  <2>5. ByteOf(x'.word, i) = ByteOf(wdata, i)
    BY <2>3, <2>4, DataBytes
  <2>6. x'.bytes[i] = ByteOf(wdata, i - off) /\ i - off = i
    BY <2>2, <2>3 DEF Lanes
  <2> QED  BY <2>5, <2>6
<1> QED  BY <1>1, WordInvHolds, PTL DEF UnitSpec, BaseStoresReachTheirLane

\* A store changes no byte beside those it addresses, at any offset.
THEOREM NeighboursSurvive == UnitSpec => StoresKeepNeighbours
<1>1. WordInv /\ [UNCHANGED unit /\ UnitStep]_vars =>
        [ unit = "lsu" => \A i \in Lanes \ x'.touched : ByteOf(x'.word, i) = ByteOf(x.word, i) ]_vars
  <2> SUFFICES ASSUME WordInv, UnitStep, unit = "lsu", NEW i \in Lanes \ x'.touched
               PROVE  ByteOf(x'.word, i) = ByteOf(x.word, i)
    OBVIOUS
  <2>1. PICK mem_op \in 0 .. 2, off \in Lanes, wdata \in Words :
           Aligned(mem_op, off) /\ Store(mem_op, off, wdata)
    BY StoreStep
  <2>2. x'.word = Stored(mem_op, off, wdata, x.word) /\ x'.touched = Touched(mem_op, off)
    BY <2>1 DEF Store
  <2> QED  BY <2>1, <2>2, StoredBytes DEF WordInv
<1> QED  BY <1>1, WordInvHolds, PTL DEF UnitSpec, StoresKeepNeighbours

---------------------------------------------------------------------------
(* The scan of the output.                                                 *)

Samples == Pcs \X Instrs

\* The last c samples of an output are all the pass instruction at one PC.
LastRun(output, c) ==
    /\ c \in 1 .. Len(output)
    /\ \A j \in Len(output) - c + 1 .. Len(output) : output[j] = << output[Len(output)][1], PassInstr >>

\* What the scan knows of the output: the last sample, and of a run of the pass
\* instruction how long it is, as long as no run has been long enough.
ScanOf(output, d) ==
    /\ output \in Seq(Samples)
    /\ d.found => StableRun(output, PassMinCycles)
    /\ ~d.found =>
         /\ ~StableRun(output, PassMinCycles)
         /\ output = << >> => d = DetectStart
         /\ output # << >> =>
              /\ << d.last_pc, d.last_instr >> = output[Len(output)]
              /\ d.consecutive \in Nat
              /\ d.last_instr = PassInstr =>
                   /\ LastRun(output, d.consecutive)
                   /\ ~LastRun(output, d.consecutive + 1)
                   /\ d.consecutive < PassMinCycles
ScanInv == unit = "scan" => ScanOf(x.output, x.d)

\* A run stays a run when a sample is added, and a new one ends in that sample.
LEMMA RunsGrow ==
    ASSUME NEW s \in Seq(Samples), NEW e \in Samples, NEW n \in Nat \ {0}
    PROVE  StableRun(Append(s, e), n) <=> StableRun(s, n) \/ LastRun(Append(s, e), n)
<1> DEFINE t == Append(s, e)
<1>1. /\ t \in Seq(Samples) /\ Len(t) = Len(s) + 1 /\ Len(s) \in Nat
      /\ t[Len(s) + 1] = e
      /\ \A i \in 1 .. Len(s) : t[i] = s[i]
  BY AppendProperties, LenProperties
<1>2. e[1] \in Pcs
  BY DEF Samples
<1> HIDE DEF t
<1>3. ASSUME StableRun(s, n) PROVE StableRun(t, n)
  <2>1. PICK i \in 1 .. Len(s) - n + 1, pc \in Pcs :
           \A j \in i .. i + n - 1 : s[j] = << pc, PassInstr >>
    BY <1>3 DEF StableRun
  <2>2. i \in 1 .. Len(t) - n + 1 /\ \A j \in i .. i + n - 1 : t[j] = << pc, PassInstr >>
    BY <2>1, <1>1
  <2> QED  BY <2>2 DEF StableRun
<1>4. ASSUME LastRun(t, n) PROVE StableRun(t, n)
  <2>1. Len(t) - n + 1 \in 1 .. Len(t) - n + 1
    BY <1>1, <1>4 DEF LastRun
  <2>2. \A j \in Len(t) - n + 1 .. (Len(t) - n + 1) + n - 1 : t[j] = << e[1], PassInstr >>
    BY <1>1, <1>4 DEF LastRun
  <2> QED  BY <2>1, <2>2, <1>2 DEF StableRun
<1>5. ASSUME StableRun(t, n), ~LastRun(t, n) PROVE StableRun(s, n)
  <2>1. PICK i \in 1 .. Len(t) - n + 1, pc \in Pcs :
           \A j \in i .. i + n - 1 : t[j] = << pc, PassInstr >>
    BY <1>5 DEF StableRun
  <2>2. i # Len(t) - n + 1
    <3> SUFFICES ASSUME i = Len(t) - n + 1 PROVE FALSE
      OBVIOUS
    <3>0. Len(t) \in i .. i + n - 1
      BY <1>1
    <3>1. t[Len(t)] = << pc, PassInstr >>
      BY <3>0, <2>1
    <3>2. t[Len(t)][1] = pc
      BY <3>1
    <3>3. n \in 1 .. Len(t)
      BY <1>1, <2>1
    <3> QED  BY <1>1, <2>1, <3>2, <3>3, <1>5 DEF LastRun
  <2>3. i \in 1 .. Len(s) - n + 1 /\ \A j \in i .. i + n - 1 : s[j] = << pc, PassInstr >>
    BY <1>1, <2>1, <2>2
  <2> QED  BY <2>3 DEF StableRun
<1> QED  BY <1>3, <1>4, <1>5 DEF t

\* The run at the end after one more sample.
LEMMA TailGrows ==
    ASSUME NEW s \in Seq(Samples), NEW pc \in Pcs, NEW instr \in Instrs, NEW n \in Nat, n >= 1
    PROVE  /\ LastRun(Append(s, << pc, instr >>), 1) <=> instr = PassInstr
           /\ LastRun(Append(s, << pc, instr >>), n + 1) <=>
                 /\ instr = PassInstr
                 /\ LastRun(s, n)
                 /\ s[Len(s)] = << pc, PassInstr >>
<1> DEFINE e == << pc, instr >>
           t == Append(s, e)
<1>0. e \in Samples
  BY DEF Samples
<1>1. /\ t \in Seq(Samples) /\ Len(t) = Len(s) + 1 /\ Len(s) \in Nat
      /\ t[Len(s) + 1] = e
      /\ \A i \in 1 .. Len(s) : t[i] = s[i]
  BY <1>0, AppendProperties, LenProperties
<1>2. e[1] = pc /\ (e = << pc, PassInstr >> <=> instr = PassInstr)
  OBVIOUS
<1> HIDE DEF t, e
<1>3. LastRun(t, 1) <=> instr = PassInstr
  <2>1. Len(t) \in Nat \ {0} /\ t[Len(t)] = e
    BY <1>1
  <2>2. \A j \in Len(t) - 1 + 1 .. Len(t) : j = Len(t)
    BY <2>1
  <2>3. Len(t) \in Len(t) - 1 + 1 .. Len(t) /\ 1 \in 1 .. Len(t)
    BY <2>1
  <2> QED  BY <1>2, <2>1, <2>2, <2>3 DEF LastRun
<1>4. ASSUME LastRun(t, n + 1)
      PROVE  instr = PassInstr /\ LastRun(s, n) /\ s[Len(s)] = << pc, PassInstr >>
  <2>1. n + 1 \in 1 .. Len(t) /\ \A j \in Len(t) - n .. Len(t) : t[j] = << pc, PassInstr >>
    <3>1. t[Len(t)] = e /\ Len(t) - (n + 1) + 1 = Len(t) - n
      BY <1>1
    <3>2. n + 1 \in 1 .. Len(t)
          /\ \A j \in Len(t) - (n + 1) + 1 .. Len(t) : t[j] = << t[Len(t)][1], PassInstr >>
      BY <1>4 DEF LastRun
    <3> QED  BY <3>1, <3>2, <1>2
  <2>2. t[Len(t)] = << pc, PassInstr >> /\ n \in 1 .. Len(s)
    <3>1. Len(t) \in Len(t) - n .. Len(t) /\ n \in 1 .. Len(s)
      BY <1>1, <2>1
    <3> QED  BY <3>1, <2>1
  <2>3. \A j \in Len(s) - n + 1 .. Len(s) : s[j] = << pc, PassInstr >>
    BY <1>1, <2>1, <2>2
  <2>4. s[Len(s)] = << pc, PassInstr >>
    BY <1>1, <2>2, <2>3
  <2>5. s[Len(s)][1] = pc
    BY <2>4
  <2> QED  BY <1>1, <1>2, <2>2, <2>3, <2>4, <2>5 DEF LastRun
<1>5. ASSUME instr = PassInstr, LastRun(s, n), s[Len(s)] = << pc, PassInstr >>
      PROVE  LastRun(t, n + 1)
  <2>1. s[Len(s)][1] = pc
    BY <1>5
  <2>2. n \in 1 .. Len(s) /\ \A j \in Len(s) - n + 1 .. Len(s) : s[j] = << pc, PassInstr >>
    BY <1>5, <2>1 DEF LastRun
  <2>3. t[Len(t)] = << pc, PassInstr >>
    BY <1>1, <1>2, <1>5
  <2>4. \A j \in Len(t) - n .. Len(t) : t[j] = << pc, PassInstr >>
    <3> TAKE j \in Len(t) - n .. Len(t)
    <3>1. CASE j = Len(t)  BY <3>1, <2>3
    <3>2. CASE j # Len(t)
      <4>1. j \in Len(s) - n + 1 .. Len(s) /\ j \in 1 .. Len(s)
        BY <3>2, <1>1, <2>2
      <4> QED  BY <4>1, <1>1, <2>2
    <3> QED  BY <3>1, <3>2
  <2>5. n + 1 \in 1 .. Len(t) /\ Len(t) - n = Len(t) - (n + 1) + 1
    BY <1>1, <2>2
  <2>6. t[Len(t)][1] = pc
    BY <2>3
  <2> QED  BY <2>4, <2>5, <2>6 DEF LastRun
<1> QED  BY <1>3, <1>4, <1>5 DEF t, e

\* A run of n samples contains the shorter ones.
LEMMA RunsContainShorter ==
    ASSUME NEW s \in Seq(Samples), NEW n \in Nat, NEW m \in 1 .. n, LastRun(s, n)
    PROVE  LastRun(s, m)
<1>1. Len(s) \in Nat
  BY LenProperties
<1> QED  BY <1>1 DEF LastRun

\* One turn of the loop keeps what the scan knows.
LEMMA SampleKeeps ==
    ASSUME NEW s, NEW d, ScanOf(s, d), NEW pc \in Pcs, NEW instr \in Instrs
    PROVE  ScanOf(Append(s, << pc, instr >>), Detect(d, pc, instr))
<1> DEFINE e == << pc, instr >>
           t == Append(s, e)
           N == PassMinCycles
           f == Detect(d, pc, instr)
<1>0. e \in Samples /\ s \in Seq(Samples) /\ N \in Nat \ {0} /\ N > 1
  BY DetectAssumption DEF Samples, ScanOf
<1>1. /\ t \in Seq(Samples) /\ Len(t) = Len(s) + 1 /\ Len(s) \in Nat
      /\ t[Len(t)] = e /\ t # << >>
  BY <1>0, AppendProperties, LenProperties
<1>2. StableRun(t, N) <=> StableRun(s, N) \/ LastRun(t, N)
  BY <1>0, RunsGrow
<1>3. \A n \in Nat : n >= 1 =>
        /\ LastRun(t, 1) <=> instr = PassInstr
        /\ LastRun(t, n + 1) <=> instr = PassInstr /\ LastRun(s, n) /\ s[Len(s)] = << pc, PassInstr >>
  BY <1>0, TailGrows
<1>4. e = << pc, instr >>
  OBVIOUS
<1> HIDE DEF e, t
<1>5. CASE d.found
  <2>1. f = d
    BY <1>5 DEF Detect
  <2> QED  BY <1>5, <2>1, <1>1, <1>2 DEF ScanOf, t, e
<1>6. CASE ~d.found /\ s = << >>
  <2>1. d = DetectStart /\ ~StableRun(s, N)
    BY <1>6 DEF ScanOf
  <2>2. pc # NoSample
    BY ScanAssumption
  <2>3. f = [ last_pc |-> pc, last_instr |-> instr, consecutive |-> 1, found |-> FALSE ]
    BY <2>1, <2>2 DEF Detect, DetectStart
  <2>4. Len(s) = 0
    BY <1>6
  <2>5. ~LastRun(t, N) /\ ~LastRun(t, 2)
    BY <1>0, <1>1, <2>4 DEF LastRun
  <2>6. instr = PassInstr => LastRun(t, 1)
    BY <1>3
  <2> HIDE DEF f
  <2> QED  BY <1>0, <1>1, <1>2, <1>4, <2>1, <2>3, <2>5, <2>6 DEF ScanOf, t, e, f
<1>7. CASE ~d.found /\ s # << >>
  <2> DEFINE c == d.consecutive
  <2>1. /\ ~StableRun(s, N)
        /\ << d.last_pc, d.last_instr >> = s[Len(s)]
        /\ c \in Nat
        /\ d.last_instr = PassInstr => LastRun(s, c) /\ ~LastRun(s, c + 1) /\ c < N
    BY <1>7 DEF ScanOf
  <2>2. N - 1 \in Nat /\ N - 1 >= 1 /\ (N - 1) + 1 = N
    BY <1>0
  <2>3. LastRun(t, N) <=> instr = PassInstr /\ LastRun(s, N - 1) /\ s[Len(s)] = << pc, PassInstr >>
    BY <2>2, <1>3
  <2>4. CASE instr = PassInstr /\ pc = d.last_pc /\ instr = d.last_instr
    <3>1. f = [ last_pc |-> d.last_pc, last_instr |-> d.last_instr,
                consecutive |-> c + 1, found |-> c + 1 >= N ]
      BY <1>7, <2>4 DEF Detect
    <3>2. LastRun(s, c) /\ ~LastRun(s, c + 1) /\ c < N /\ s[Len(s)] = << pc, PassInstr >>
      BY <2>1, <2>4
    <3>3. c >= 1 /\ c + 1 >= 1 /\ c + 1 \in Nat
      BY <2>1, <3>2 DEF LastRun
    <3>4. LastRun(t, c + 1) /\ ~LastRun(t, (c + 1) + 1)
      BY <1>3, <2>1, <2>4, <3>2, <3>3
    <3>5. CASE c + 1 >= N
      <4>1. c + 1 = N
        BY <3>5, <3>2, <2>1, <1>0
      <4> HIDE DEF f, c
      <4>2. f.found /\ StableRun(t, N)
        BY <4>1, <3>1, <3>4, <1>2, <3>5
      <4> QED  BY <4>2, <1>1 DEF ScanOf, t, e, f
    <3>6. CASE ~(c + 1 >= N)
      <4>1. c + 1 \in 1 .. N - 1 /\ c + 1 < N
        BY <3>6, <3>3, <1>0, <2>1
      <4>2. ~LastRun(s, N - 1)
        BY <4>1, <2>2, <3>2, <1>0, RunsContainShorter
      <4>3. ~StableRun(t, N)
        BY <4>2, <2>1, <2>3, <1>2
      <4>4. /\ ~f.found /\ f.consecutive = c + 1 /\ f.last_pc = pc /\ f.last_instr = instr
        <5>1. f.found = (c + 1 >= N) /\ f.consecutive = c + 1 /\ f.last_pc = d.last_pc
              /\ f.last_instr = d.last_instr
          <6> HIDE DEF f, c
          <6> QED  BY <3>1
        <5> HIDE DEF f
        <5> QED  BY <5>1, <3>6, <2>4
      <4> HIDE DEF f, c
      <4> QED  BY <4>1, <4>3, <4>4, <3>3, <3>4, <1>1, <1>4 DEF ScanOf, t, e, f
    <3> QED  BY <3>5, <3>6
  <2>5. CASE ~(instr = PassInstr /\ pc = d.last_pc /\ instr = d.last_instr)
    <3>1. f = [ last_pc |-> pc, last_instr |-> instr, consecutive |-> 1, found |-> FALSE ]
      BY <1>7, <2>5 DEF Detect
    <3>2. instr = PassInstr => s[Len(s)] # << pc, PassInstr >>
      <4> SUFFICES ASSUME instr = PassInstr, << d.last_pc, d.last_instr >> = << pc, PassInstr >>
                   PROVE  FALSE
        BY <2>1
      <4> QED  BY <2>5
    <3>3. ~StableRun(t, N)
      BY <1>2, <2>1, <2>3, <3>2
    <3>4. instr = PassInstr => LastRun(t, 1) /\ ~LastRun(t, 1 + 1)
      BY <1>3, <3>2
    <3> HIDE DEF f
    <3> QED  BY <1>0, <1>1, <1>4, <3>1, <3>3, <3>4 DEF ScanOf, t, e, f
  <2> QED  BY <2>4, <2>5
<1> QED  BY <1>5, <1>6, <1>7 DEF t, e

LEMMA ScanInit0 == ScanOf(<< >>, DetectStart)
<1>1. << >> \in Seq(Samples) /\ Len(<< >>) = 0
  BY EmptySeq
<1>2. ~StableRun(<< >>, PassMinCycles)
  BY <1>1, DetectAssumption DEF StableRun
<1> QED  BY <1>1, <1>2 DEF ScanOf, DetectStart

LEMMA ScanInitInv == UnitInit => ScanInv
<1> SUFFICES ASSUME UnitInit, unit = "scan" PROVE ScanOf(x.output, x.d)
  BY DEF ScanInv
<1>1. x = [ output |-> << >>, d |-> DetectStart ]
  BY DEF UnitInit, ScanInit
<1> QED  BY <1>1, ScanInit0

LEMMA ScanNextInv == ScanInv /\ [UNCHANGED unit /\ UnitStep]_vars => ScanInv'
<1> SUFFICES ASSUME ScanInv, [UNCHANGED unit /\ UnitStep]_vars, unit' = "scan"
             PROVE  ScanOf(x'.output, x'.d)
  BY DEF ScanInv, ScanOf, StableRun, LastRun
<1>1. unit = "scan" /\ ScanOf(x.output, x.d)
  BY DEF vars, ScanInv
<1>2. CASE UNCHANGED vars
  BY <1>1, <1>2 DEF vars
<1>3. CASE UnitStep
  <2>1. PICK pc \in Pcs, instr \in Instrs : Sample(pc, instr)
    BY <1>1, <1>3 DEF UnitStep
  <2>2. x'.output = Append(x.output, << pc, instr >>) /\ x'.d = Detect(x.d, pc, instr)
    BY <2>1 DEF Sample
  <2> QED  BY <1>1, <2>2, SampleKeeps
<1> QED  BY <1>2, <1>3

\* detect_pass answers True exactly on a stable run (run_tests.py).
THEOREM ScanIsExact == UnitSpec => []DetectsStableRuns
<1>1. ScanInv => DetectsStableRuns
  BY DEF ScanInv, ScanOf, DetectsStableRuns
<1> QED  BY <1>1, ScanInitInv, ScanNextInv, PTL DEF UnitSpec

---------------------------------------------------------------------------
(* Induction over an interval, and loops over one.                         *)

\* A set of natural numbers has a least element.
LEMMA Least ==
    ASSUME NEW T \in SUBSET Nat, T # {}
    PROVE  \E m \in T : \A k \in T : m <= k
<1> DEFINE R == OpToRel(<, Nat)
<1>1. IsWellFoundedOn(R, Nat)
  BY NatLessThanWellFounded
<1>2. \A i, j \in Nat : << i, j >> \in R <=> i < j
  BY DEF OpToRel
<1> HIDE DEF R
<1>3. PICK m \in T : \A k \in T : ~(<< k, m >> \in R)
  BY <1>1, WFMin
<1>4. ASSUME NEW k \in T PROVE m <= k
  <2>1. k \in Nat /\ m \in Nat /\ ~(<< k, m >> \in R)
    BY <1>3
  <2>2. ~(k < m)
    BY <1>2, <2>1
  <2> QED  BY <2>1, <2>2
<1> QED  BY <1>4

\* Induction up to n, for a property given as a set.
LEMMA Induction ==
    ASSUME NEW n \in Nat, NEW S, 0 \in S, \A i \in 0 .. n - 1 : i \in S => i + 1 \in S
    PROVE  \A i \in 0 .. n : i \in S
<1> DEFINE T == { i \in 0 .. n : i \notin S }
<1> SUFFICES ASSUME T # {} PROVE FALSE
  OBVIOUS
<1>1. PICK m \in T : \A k \in T : m <= k
  <2>1. T \in SUBSET Nat
    OBVIOUS
  <2> HIDE DEF T
  <2> QED  BY <2>1, Least
<1>2. m \in 0 .. n /\ m \notin S /\ m # 0
  BY <1>1
<1>3. m - 1 \in 0 .. n - 1 /\ m - 1 + 1 = m /\ m - 1 \notin T
  BY <1>1, <1>2
<1> QED  BY <1>2, <1>3

\* f holds the values of a loop that starts with z and takes v to F[i][v] in its
\* i-th round.
Iterates(f, n, z, F) == f[0] = z /\ \A i \in 1 .. n : f[i] = F[i][f[i - 1]]

\* A loop over 1 .. n has its sequence of values.
LEMMA Iteration ==
    ASSUME NEW n \in Nat, NEW V, NEW z \in V, NEW F \in [ 1 .. n -> [ V -> V ] ]
    PROVE  \E f \in [ 0 .. n -> V ] : Iterates(f, n, z, F)
<1> DEFINE Follows(f, m) == f[0] = z /\ \A i \in 1 .. m : f[i] = F[i][f[i - 1]]
           S == { m \in 0 .. n : \E f \in [ 0 .. m -> V ] : Follows(f, m) }
<1>1. 0 \in S
  <2> DEFINE f == [ i \in 0 .. 0 |-> z ]
  <2>1. f \in [ 0 .. 0 -> V ] /\ Follows(f, 0)
    OBVIOUS
  <2> HIDE DEF f, Follows
  <2>2. 0 \in 0 .. n
    OBVIOUS
  <2> QED  BY <2>1, <2>2
<1>2. ASSUME NEW m \in 0 .. n - 1, m \in S PROVE m + 1 \in S
  <2>1. PICK f \in [ 0 .. m -> V ] : Follows(f, m)
    BY <1>2
  <2> DEFINE g == [ i \in 0 .. m + 1 |-> IF i = m + 1 THEN F[m + 1][f[m]] ELSE f[i] ]
  <2>2. m \in Nat /\ m + 1 \in 1 .. n /\ f[m] \in V /\ F[m + 1][f[m]] \in V
    <3>1. m \in Nat /\ m + 1 \in 1 .. n /\ f[m] \in V
      OBVIOUS
    <3>2. F[m + 1] \in [ V -> V ]
      BY <3>1
    <3> QED  BY <3>1, <3>2
  <2>3. g \in [ 0 .. m + 1 -> V ]
    BY <2>2
  <2>4. \A i \in 0 .. m : g[i] = f[i]
    BY <2>2
  <2>5. g[m + 1] = F[m + 1][f[m]]
    BY <2>2
  <2>6. ASSUME NEW i \in 1 .. m + 1 PROVE g[i] = F[i][g[i - 1]]
    <3>1. CASE i = m + 1
      <4>1. i - 1 = m /\ m \in 0 .. m
        BY <2>2, <3>1
      <4> HIDE DEF g
      <4>2. g[i - 1] = f[m]
        BY <2>4, <4>1
      <4> QED  BY <2>5, <3>1, <4>2
    <3>2. CASE i # m + 1
      <4>1. i \in 1 .. m /\ i \in 0 .. m /\ i - 1 \in 0 .. m
        BY <2>2, <3>2
      <4> HIDE DEF g
      <4>2. g[i] = f[i] /\ g[i - 1] = f[i - 1]
        BY <2>4, <4>1
      <4>3. f[i] = F[i][f[i - 1]]
        BY <2>1, <4>1
      <4> QED  BY <4>2, <4>3
    <3> QED  BY <3>1, <3>2
  <2>7. g[0] = z
    BY <2>1, <2>2, <2>4
  <2> HIDE DEF g
  <2>8. Follows(g, m + 1)
    BY <2>6, <2>7
  <2>9. m + 1 \in 0 .. n
    BY <2>2
  <2> QED  BY <2>3, <2>8, <2>9
<1> HIDE DEF S
<1>3. n \in S
  <2>1. \A i \in 0 .. n : i \in S
    BY <1>1, <1>2, Induction
  <2> QED  BY <2>1
<1> USE DEF S
<1> QED  BY <1>3 DEF Iterates

---------------------------------------------------------------------------
(* Powers of two and the bits of a number.                                *)

\* The powers of two are what their recursion says.
LEMMA PowIs ==
    /\ \A i \in 0 .. XLEN : Pow[i] \in Nat \ {0}
    /\ Pow[0] = 1
    /\ \A i \in 0 .. XLEN - 1 : Pow[i + 1] = 2 * Pow[i]
<1> DEFINE V == Nat \ {0}
           F == [ i \in 1 .. XLEN |-> [ v \in V |-> 2 * v ] ]
<1>1. XLEN \in Nat
  BY XlenAssumption
<1>2. F \in [ 1 .. XLEN -> [ V -> V ] ]
  OBVIOUS
<1>3. \A i \in 1 .. XLEN, v \in V : F[i][v] = 2 * v
  OBVIOUS
<1>4. PICK f \in [ 0 .. XLEN -> V ] : Iterates(f, XLEN, 1, F)
  <2>1. 1 \in V
    OBVIOUS
  <2> HIDE DEF F, V
  <2> QED  BY <1>1, <1>2, <2>1, Iteration
<1>5. f = [ n \in 0 .. XLEN |-> IF n = 0 THEN 1 ELSE 2 * f[n - 1] ]
  <2>1. ASSUME NEW i \in 0 .. XLEN
        PROVE  f[i] = IF i = 0 THEN 1 ELSE 2 * f[i - 1]
    <3>1. i # 0 => i \in 1 .. XLEN /\ f[i - 1] \in V
      BY <1>1
    <3> QED  BY <1>3, <1>4, <3>1 DEF Iterates
  <2> QED  BY <1>4, <2>1
<1>6. Pow = [ n \in 0 .. XLEN |-> IF n = 0 THEN 1 ELSE 2 * Pow[n - 1] ]
  BY <1>5 DEF Pow
<1>7. ASSUME NEW i \in 0 .. XLEN - 1 PROVE Pow[i + 1] = 2 * Pow[i]
  <2>1. i + 1 \in 0 .. XLEN /\ i + 1 # 0 /\ i + 1 - 1 = i
    BY <1>1
  <2> DEFINE p == Pow
  <2>2. p = [ n \in 0 .. XLEN |-> IF n = 0 THEN 1 ELSE 2 * p[n - 1] ]
    BY <1>6
  <2> HIDE DEF p
  <2>3. \A n \in 0 .. XLEN : n # 0 => p[n] = 2 * p[n - 1]
    BY <2>2
  <2> QED  BY <2>1, <2>3 DEF p
<1>8. Pow[0] = 1
  BY <1>1, <1>6
<1> DEFINE S == { i \in 0 .. XLEN : Pow[i] \in Nat \ {0} }
<1>9. 0 \in S /\ \A i \in 0 .. XLEN - 1 : i \in S => i + 1 \in S
  <2>1. ASSUME NEW i \in 0 .. XLEN - 1, i \in S PROVE i + 1 \in S
    BY <1>1, <1>7, <2>1
  <2> QED  BY <1>1, <1>8, <2>1
<1> HIDE DEF S
<1>10. \A i \in 0 .. XLEN : i \in S
  BY <1>1, <1>9, Induction
<1> QED  BY <1>7, <1>8, <1>10 DEF S

\* 2^(i + j).
LEMMA PowSum ==
    ASSUME NEW i \in Nat, NEW j \in Nat, i + j <= XLEN
    PROVE  Pow[i + j] = Pow[i] * Pow[j]
<1>1. XLEN \in Nat /\ i \in 0 .. XLEN /\ XLEN - i \in Nat
  BY XlenAssumption
<1> DEFINE S == { k \in 0 .. XLEN - i : Pow[i + k] = Pow[i] * Pow[k] }
<1>2. 0 \in S
  BY <1>1, PowIs
<1>3. ASSUME NEW k \in 0 .. XLEN - i - 1, k \in S PROVE k + 1 \in S
  <2>1. i + k \in 0 .. XLEN - 1 /\ k \in 0 .. XLEN - 1 /\ (i + k) + 1 = i + (k + 1)
    BY <1>1
  <2>2. Pow[i + (k + 1)] = 2 * Pow[i + k] /\ Pow[k + 1] = 2 * Pow[k]
    BY <2>1, PowIs
  <2>3. Pow[i] \in Nat /\ Pow[k] \in Nat /\ Pow[i + k] = Pow[i] * Pow[k]
    BY <1>1, <1>3, <2>1, PowIs
  <2> DEFINE p == Pow[i]
             q == Pow[k]
  <2>4. 2 * (p * q) = p * (2 * q)
    <3> HIDE DEF p, q
    <3>1. p \in Nat /\ q \in Nat
      BY <2>3 DEF p, q
    <3> QED  BY <3>1
  <2>5. Pow[i + (k + 1)] = Pow[i] * Pow[k + 1]
    BY <2>2, <2>3, <2>4
  <2> QED  BY <1>1, <2>5
<1> HIDE DEF S
<1>4. \A k \in 0 .. XLEN - i : k \in S
  BY <1>1, <1>2, <1>3, Induction
<1>5. j \in 0 .. XLEN - i
  BY <1>1
<1> QED  BY <1>4, <1>5 DEF S

\* Shifting to the right one more place halves.
LEMMA Shifted ==
    ASSUME NEW w \in Nat
    PROVE  /\ w \div Pow[0] = w
           /\ \A i \in 0 .. XLEN : w \div Pow[i] \in Nat
           /\ \A i \in 0 .. XLEN - 1 : w \div Pow[i + 1] = (w \div Pow[i]) \div 2
<1>1. \A i \in 0 .. XLEN : w \div Pow[i] \in Nat
  BY PowIs, DivisionIs
<1>2. ASSUME NEW i \in 0 .. XLEN - 1 PROVE w \div Pow[i + 1] = (w \div Pow[i]) \div 2
  <2> DEFINE p == Pow[i]
  <2>1. p \in Nat \ {0} /\ Pow[i + 1] = p * 2
    BY PowIs, XlenAssumption
  <2> HIDE DEF p
  <2>2. \A n \in Nat \ {0} : w \div (p * n) = (w \div p) \div n
    BY <2>1, DivisionByProduct
  <2> QED  BY <2>1, <2>2 DEF p
<1>3. w \div Pow[0] = w
  BY PowIs
<1> QED  BY <1>1, <1>2, <1>3

\* Shifting by i and then by j shifts by i + j.
LEMMA ShiftedTwice ==
    ASSUME NEW w \in Nat, NEW i \in Nat, NEW j \in Nat, i + j <= XLEN
    PROVE  w \div Pow[i + j] = (w \div Pow[i]) \div Pow[j]
<1> DEFINE p == Pow[i]
           q == Pow[j]
<1>1. p \in Nat \ {0} /\ q \in Nat \ {0} /\ Pow[i + j] = p * q
  <2>1. i \in 0 .. XLEN /\ j \in 0 .. XLEN
    BY XlenAssumption
  <2> QED  BY <2>1, PowIs, PowSum
<1> HIDE DEF p, q
<1>2. w \div (p * q) = (w \div p) \div q
  BY <1>1, DivisionByProduct
<1> QED  BY <1>1, <1>2 DEF p, q

\* A bit is what halving drops.
LEMMA BitIs ==
    ASSUME NEW w \in Nat, NEW i \in 0 .. XLEN - 1
    PROVE  Bit(w, i) \in 0 .. 1 /\ w \div Pow[i] = 2 * (w \div Pow[i + 1]) + Bit(w, i)
<1> DEFINE q == w \div Pow[i]
<1>1. q \in Nat /\ w \div Pow[i + 1] = q \div 2
  BY Shifted, XlenAssumption
<1> HIDE DEF q
<1>2. q = 2 * (q \div 2) + (q % 2) /\ q % 2 \in 0 .. 1
  BY <1>1
<1> QED  BY <1>1, <1>2 DEF q, Bit

\* A word is a number whose bits end at XLEN.
LEMMA WordEnds ==
    ASSUME NEW w \in Nat
    PROVE  w \in Operand <=> w \div Pow[XLEN] = 0
<1> DEFINE t == Pow[XLEN]
<1>1. t \in Nat \ {0} /\ Two = t
  BY PowIs, XlenAssumption DEF Two
<1> HIDE DEF t
<1>2. w < t <=> w \div t = 0
  BY <1>1
<1> QED  BY <1>1, <1>2 DEF Operand, t

\* The number made of some bits has these bits.
LEMMA NumberIs ==
    ASSUME NEW bit \in [ 0 .. XLEN - 1 -> 0 .. 1 ]
    PROVE  Number(bit) \in Operand /\ \A i \in 0 .. XLEN - 1 : Bit(Number(bit), i) = bit[i]
<1> DEFINE IsHigh(f) == f = [ n \in 0 .. XLEN |-> IF n = 0 THEN 0 ELSE 2 * f[n - 1] + bit[XLEN - n] ]
           F == [ i \in 1 .. XLEN |-> [ v \in Nat |-> 2 * v + bit[XLEN - i] ] ]
<1>1. XLEN \in Nat
  BY XlenAssumption
<1>2. ASSUME NEW i \in 1 .. XLEN PROVE XLEN - i \in 0 .. XLEN - 1 /\ bit[XLEN - i] \in 0 .. 1
  BY <1>1
<1>3. F \in [ 1 .. XLEN -> [ Nat -> Nat ] ]
  BY <1>2
<1>4. \A i \in 1 .. XLEN, v \in Nat : F[i][v] = 2 * v + bit[XLEN - i]
  OBVIOUS
<1>5. PICK f \in [ 0 .. XLEN -> Nat ] : Iterates(f, XLEN, 0, F)
  <2> HIDE DEF F
  <2> QED  BY <1>1, <1>3, Iteration
<1>6. IsHigh(f)
  <2>1. ASSUME NEW i \in 0 .. XLEN
        PROVE  f[i] = IF i = 0 THEN 0 ELSE 2 * f[i - 1] + bit[XLEN - i]
    <3>1. i # 0 => i \in 1 .. XLEN /\ f[i - 1] \in Nat
      BY <1>1
    <3> HIDE DEF F
    <3> QED  BY <1>4, <1>5, <3>1 DEF Iterates
  <2> QED  BY <2>1
<1> HIDE DEF F
<1> DEFINE high == CHOOSE g : IsHigh(g)
<1>7. IsHigh(high)
  <2> HIDE DEF IsHigh
  <2> QED  BY <1>6
<1>8. Number(bit) = high[XLEN]
  BY DEF Number
<1> HIDE DEF high
<1>9. high[0] = 0 /\ \A i \in 1 .. XLEN : high[i] = 2 * high[i - 1] + bit[XLEN - i]
  <2>1. \A i \in 0 .. XLEN : high[i] = IF i = 0 THEN 0 ELSE 2 * high[i - 1] + bit[XLEN - i]
    BY <1>7
  <2> HIDE DEF IsHigh
  <2>2. \A i \in 1 .. XLEN : i \in 0 .. XLEN /\ i # 0
    BY <1>1
  <2> QED  BY <1>1, <2>1, <2>2
<1> DEFINE S == { i \in 0 .. XLEN : high[i] \in Nat }
<1>10. 0 \in S /\ \A i \in 0 .. XLEN - 1 : i \in S => i + 1 \in S
  <2>1. ASSUME NEW i \in 0 .. XLEN - 1, i \in S PROVE i + 1 \in S
    <3>1. i + 1 \in 1 .. XLEN /\ i + 1 - 1 = i
      BY <1>1
    <3>2. bit[XLEN - (i + 1)] \in 0 .. 1 /\ high[i + 1] = 2 * high[i] + bit[XLEN - (i + 1)]
      BY <1>2, <1>9, <3>1
    <3>3. high[i] \in Nat
      BY <2>1
    <3>4. high[i + 1] \in Nat
      BY <3>2, <3>3
    <3> QED  BY <3>1, <3>4
  <2> QED  BY <1>1, <1>9, <2>1
<1>11. \A i \in 0 .. XLEN : high[i] \in Nat
  <2> HIDE DEF S
  <2>1. \A i \in 0 .. XLEN : i \in S
    BY <1>1, <1>10, Induction
  <2> QED  BY <2>1 DEF S
<1> DEFINE w == high[XLEN]
<1>12. w \in Nat
  BY <1>1, <1>11
<1> DEFINE D == { i \in 0 .. XLEN : w \div Pow[i] = high[XLEN - i] }
<1>13. ASSUME NEW i \in 0 .. XLEN - 1
       PROVE  /\ XLEN - i \in 1 .. XLEN /\ XLEN - (i + 1) \in 0 .. XLEN
              /\ high[XLEN - i] = 2 * high[XLEN - (i + 1)] + bit[i]
  <2>1. XLEN - i \in 1 .. XLEN /\ XLEN - (i + 1) \in 0 .. XLEN /\ XLEN - (XLEN - i) = i
        /\ XLEN - i - 1 = XLEN - (i + 1)
    BY <1>1
  <2> QED  BY <1>9, <2>1
<1>14. 0 \in D /\ \A i \in 0 .. XLEN - 1 : i \in D => i + 1 \in D
  <2>1. ASSUME NEW i \in 0 .. XLEN - 1, i \in D PROVE i + 1 \in D
    <3> DEFINE h == high[XLEN - (i + 1)]
               b == bit[i]
    <3>1. h \in Nat /\ b \in 0 .. 1 /\ w \div Pow[i] = 2 * h + b
      BY <1>11, <1>13, <2>1
    <3>2. w \div Pow[i + 1] = (w \div Pow[i]) \div 2
      BY <1>12, Shifted
    <3> HIDE DEF h, b, w
    <3>3. (2 * h + b) \div 2 = h
      BY <3>1
    <3>4. w \div Pow[i + 1] = high[XLEN - (i + 1)]
      BY <3>1, <3>2, <3>3 DEF h
    <3>5. i + 1 \in 0 .. XLEN
      BY <1>1
    <3> QED  BY <3>4, <3>5
  <2>2. 0 \in D
    <3>1. w \div Pow[0] = w
      BY <1>12, Shifted
    <3> QED  BY <1>1, <3>1
  <2> QED  BY <2>1, <2>2
<1>15. \A i \in 0 .. XLEN : w \div Pow[i] = high[XLEN - i]
  <2> HIDE DEF D
  <2>1. \A i \in 0 .. XLEN : i \in D
    BY <1>1, <1>14, Induction
  <2> QED  BY <2>1 DEF D
<1>16. w \in Operand
  <2>1. w \div Pow[XLEN] = high[XLEN - XLEN] /\ XLEN - XLEN = 0
    BY <1>1, <1>15
  <2> QED  BY <1>9, <1>12, <2>1, WordEnds
<1>17. ASSUME NEW i \in 0 .. XLEN - 1 PROVE Bit(w, i) = bit[i]
  <2> DEFINE h == high[XLEN - (i + 1)]
             b == bit[i]
  <2>1. h \in Nat /\ b \in 0 .. 1 /\ w \div Pow[i] = 2 * h + b
    BY <1>1, <1>11, <1>13, <1>15
  <2> HIDE DEF h, b, w
  <2>2. (2 * h + b) % 2 = b
    BY <2>1
  <2> QED  BY <2>1, <2>2 DEF Bit, b
<1> QED  BY <1>8, <1>16, <1>17

---------------------------------------------------------------------------
(* The ripple adder, and words cut to their width.                         *)

\* The carries are what their recursion says.
LEMMA CarryExists ==
    ASSUME NEW a \in Nat, NEW b \in Nat, NEW cin \in 0 .. 1
    PROVE  /\ Carry(a, b, cin)[0] = cin
           /\ \A i \in 0 .. XLEN - 1 :
                Carry(a, b, cin)[i + 1] =
                IF Bit(a, i) + Bit(b, i) + Carry(a, b, cin)[i] >= 2 THEN 1 ELSE 0
<1> DEFINE Next2(i, v) == IF Bit(a, i - 1) + Bit(b, i - 1) + v >= 2 THEN 1 ELSE 0
           IsCarry(f) == f = [ i \in 0 .. XLEN |-> IF i = 0 THEN cin ELSE Next2(i, f[i - 1]) ]
           F == [ i \in 1 .. XLEN |-> [ v \in 0 .. 1 |-> Next2(i, v) ] ]
           carry == CHOOSE f : IsCarry(f)
<1>1. XLEN \in Nat
  BY XlenAssumption
<1>2. F \in [ 1 .. XLEN -> [ 0 .. 1 -> 0 .. 1 ] ]
  OBVIOUS
<1>3. \A i \in 1 .. XLEN, v \in 0 .. 1 : F[i][v] = Next2(i, v)
  OBVIOUS
<1> HIDE DEF Next2, F
<1>4. PICK f \in [ 0 .. XLEN -> 0 .. 1 ] : Iterates(f, XLEN, cin, F)
  BY <1>1, <1>2, Iteration
<1>5. IsCarry(f)
  <2>1. ASSUME NEW i \in 0 .. XLEN
        PROVE  f[i] = IF i = 0 THEN cin ELSE Next2(i, f[i - 1])
    <3>1. i # 0 => i \in 1 .. XLEN /\ f[i - 1] \in 0 .. 1
      BY <1>1
    <3> QED  BY <1>3, <1>4, <3>1 DEF Iterates
  <2> QED  BY <2>1
<1>6. IsCarry(carry)
  <2> HIDE DEF IsCarry
  <2> QED  BY <1>5
<1>7. Carry(a, b, cin) = carry
  BY DEF Carry, Next2
<1> HIDE DEF carry
<1>8. \A i \in 0 .. XLEN : carry[i] = IF i = 0 THEN cin ELSE Next2(i, carry[i - 1])
  BY <1>6
<1> HIDE DEF IsCarry
<1>9. ASSUME NEW i \in 0 .. XLEN - 1 PROVE carry[i + 1] = Next2(i + 1, carry[i])
  <2>1. i + 1 \in 0 .. XLEN /\ i + 1 # 0 /\ i + 1 - 1 = i
    BY <1>1
  <2>2. carry[i + 1] = Next2(i + 1, carry[i + 1 - 1])
    BY <1>8, <2>1
  <2> QED  BY <2>1, <2>2
<1>10. ASSUME NEW i \in 0 .. XLEN - 1, NEW v
       PROVE  Next2(i + 1, v) = IF Bit(a, i) + Bit(b, i) + v >= 2 THEN 1 ELSE 0
  <2>1. i + 1 - 1 = i
    BY <1>1
  <2> QED  BY <2>1 DEF Next2
<1>11. carry[0] = cin
  BY <1>1, <1>8
<1> QED  BY <1>7, <1>9, <1>10, <1>11

\* What a ripple adder has summed up to bit i, and its carry.
LEMMA Ripple ==
    ASSUME NEW a \in Nat, NEW b \in Nat, NEW cin \in 0 .. 1
    PROVE  \A i \in 0 .. XLEN :
             /\ Carry(a, b, cin)[i] \in 0 .. 1
             /\ (a + b + cin) \div Pow[i] = (a \div Pow[i]) + (b \div Pow[i]) + Carry(a, b, cin)[i]
<1> DEFINE w == a + b + cin
           c == Carry(a, b, cin)
           S == { i \in 0 .. XLEN : c[i] \in 0 .. 1 /\ w \div Pow[i] = (a \div Pow[i]) + (b \div Pow[i]) + c[i] }
<1>1. XLEN \in Nat /\ w \in Nat
  BY XlenAssumption
<1>2. c[0] = cin /\ \A i \in 0 .. XLEN - 1 : c[i + 1] = IF Bit(a, i) + Bit(b, i) + c[i] >= 2 THEN 1 ELSE 0
  BY CarryExists
<1> HIDE DEF c, w
<1>3. 0 \in S
  <2>1. w \div Pow[0] = w /\ a \div Pow[0] = a /\ b \div Pow[0] = b
    BY <1>1, Shifted
  <2> QED  BY <1>1, <1>2, <2>1 DEF w
<1>4. ASSUME NEW i \in 0 .. XLEN - 1, i \in S PROVE i + 1 \in S
  <2> DEFINE qa == a \div Pow[i + 1]
             qb == b \div Pow[i + 1]
             ba == Bit(a, i)
             bb == Bit(b, i)
  <2>1. /\ ba \in 0 .. 1 /\ a \div Pow[i] = 2 * qa + ba
        /\ bb \in 0 .. 1 /\ b \div Pow[i] = 2 * qb + bb
    BY BitIs
  <2>2. qa \in Nat /\ qb \in Nat /\ i + 1 \in 0 .. XLEN
    BY <1>1, Shifted
  <2>3. w \div Pow[i + 1] = (w \div Pow[i]) \div 2
    BY <1>1, Shifted
  <2>4. c[i] \in 0 .. 1 /\ c[i + 1] = IF ba + bb + c[i] >= 2 THEN 1 ELSE 0
    BY <1>2, <1>4
  <2>5. w \div Pow[i] = (2 * qa + ba) + (2 * qb + bb) + c[i]
    BY <1>4, <2>1
  <2> HIDE DEF qa, qb, ba, bb
  <2>6. ((2 * qa + ba) + (2 * qb + bb) + c[i]) \div 2 = qa + qb + c[i + 1]
    BY <2>1, <2>2, <2>4
  <2> QED  BY <2>2, <2>3, <2>4, <2>5, <2>6 DEF qa, qb
<1> HIDE DEF S
<1>5. \A i \in 0 .. XLEN : i \in S
  BY <1>1, <1>3, <1>4, Induction
<1> QED  BY <1>5 DEF S, c, w

\* The bits of the ripple adder are those of the sum.
LEMMA SumBitIs ==
    ASSUME NEW a \in Nat, NEW b \in Nat, NEW cin \in 0 .. 1, NEW i \in 0 .. XLEN - 1
    PROVE  SumBit(a, b, cin, i) = Bit(a + b + cin, i)
<1> DEFINE qa == a \div Pow[i + 1]
           qb == b \div Pow[i + 1]
           ba == Bit(a, i)
           bb == Bit(b, i)
           ci == Carry(a, b, cin)[i]
<1>1. /\ ba \in 0 .. 1 /\ a \div Pow[i] = 2 * qa + ba
      /\ bb \in 0 .. 1 /\ b \div Pow[i] = 2 * qb + bb
  BY BitIs
<1>2. qa \in Nat /\ qb \in Nat /\ i \in 0 .. XLEN
  <2>1. i \in 0 .. XLEN /\ i + 1 \in 0 .. XLEN
    BY XlenAssumption
  <2> QED  BY <2>1, Shifted
<1>3. ci \in 0 .. 1 /\ (a + b + cin) \div Pow[i] = (2 * qa + ba) + (2 * qb + bb) + ci
  <2>1. ci \in 0 .. 1 /\ (a + b + cin) \div Pow[i] = (a \div Pow[i]) + (b \div Pow[i]) + ci
    BY <1>2, Ripple
  <2> QED  BY <1>1, <2>1
<1>4. SumBit(a, b, cin, i) = (ba + bb + ci) % 2
  BY DEF SumBit
<1> HIDE DEF qa, qb, ba, bb, ci
<1>5. ((2 * qa + ba) + (2 * qb + bb) + ci) % 2 = (ba + bb + ci) % 2
  BY <1>1, <1>2, <1>3
<1> QED  BY <1>3, <1>4, <1>5 DEF Bit

\* Bit i of a number does not depend on the bits above it.
LEMMA EvenAbove ==
    ASSUME NEW i \in 0 .. XLEN - 1, NEW k \in Nat, NEW r \in Nat
    PROVE  Bit(Pow[i] * (2 * k) + r, i) = Bit(r, i)
<1> DEFINE p == Pow[i]
           d == r \div p
           e == r % p
           s == 2 * k + d
           x1 == p * (2 * k)
           x2 == p * d
<1>1. p \in Nat \ {0}
  BY PowIs, XlenAssumption
<1> HIDE DEF p
<1>2. d \in Nat /\ e \in 0 .. p - 1 /\ r = p * d + e
  BY <1>1, DivisionIs
<1> HIDE DEF d, e
<1>3. s \in Nat /\ s % 2 = d % 2 /\ x1 \in Nat /\ x2 \in Nat /\ p * s = x1 + x2
  BY <1>1, <1>2
<1>4. x1 + r = p * s + e
  <2> HIDE DEF s, x1
  <2>1. r = x2 + e
    BY <1>2
  <2> HIDE DEF x2
  <2> DEFINE ps == p * s
  <2>2. ps = x1 + x2
    BY <1>3
  <2> HIDE DEF ps
  <2>3. x1 + r = ps + e
    BY <1>2, <1>3, <2>1, <2>2
  <2> QED  BY <2>3 DEF ps
<1> HIDE DEF s
<1>5. (p * s + e) \div p = s
  BY <1>1, <1>2, <1>3, DivisionIsOnly
<1> HIDE DEF x1, x2
<1>6. (x1 + r) \div p = s
  BY <1>4, <1>5
<1> QED  BY <1>3, <1>6 DEF Bit, p, d, x1

\* The number of words is an even multiple of each power.
LEMMA TwoIs ==
    ASSUME NEW i \in 0 .. XLEN - 1
    PROVE  /\ Pow[i] \in Nat \ {0} /\ Pow[XLEN - (i + 1)] \in Nat \ {0}
           /\ Two = Pow[i] * (2 * Pow[XLEN - (i + 1)])
<1>1. XLEN \in Nat
  BY XlenAssumption
<1>2. /\ i \in 0 .. XLEN /\ XLEN - (i + 1) \in 0 .. XLEN - 1 /\ XLEN - i \in 0 .. XLEN
      /\ XLEN - (i + 1) \in 0 .. XLEN /\ XLEN - (i + 1) + 1 = XLEN - i /\ i + (XLEN - i) = XLEN
  BY <1>1
<1>3. Pow[XLEN - i] = 2 * Pow[XLEN - (i + 1)]
  BY <1>2, PowIs
<1>4. Pow[i + (XLEN - i)] = Pow[i] * Pow[XLEN - i]
  BY <1>2, PowSum
<1>5. Pow[i] \in Nat \ {0} /\ Pow[XLEN - (i + 1)] \in Nat \ {0}
  BY <1>2, PowIs
<1> QED  BY <1>2, <1>3, <1>4, <1>5 DEF Two

\* The remainder modulo the number of words keeps the bits of a word.
LEMMA LowBits ==
    ASSUME NEW w \in Nat
    PROVE  w % Two \in Operand /\ \A i \in 0 .. XLEN - 1 : Bit(w % Two, i) = Bit(w, i)
<1> DEFINE r == w % Two
           q == w \div Two
<1>1. Two \in Nat \ {0} /\ XLEN \in Nat
  BY PowIs, XlenAssumption DEF Two
<1>2. r \in Nat /\ r \in Operand /\ q \in Nat /\ w = Two * q + r
  <2>1. q \in Nat /\ r \in 0 .. Two - 1 /\ w = Two * q + r
    BY <1>1, DivisionIs
  <2> HIDE DEF q, r
  <2> QED  BY <2>1 DEF Operand
<1> HIDE DEF r, q
<1>3. ASSUME NEW i \in 0 .. XLEN - 1 PROVE Bit(r, i) = Bit(w, i)
  <2> DEFINE p == Pow[i]
             h == Pow[XLEN - (i + 1)]
             k == h * q
  <2>1. p \in Nat /\ h \in Nat /\ Two = p * (2 * h)
    BY TwoIs
  <2> HIDE DEF p, h
  <2>2. k \in Nat /\ (p * (2 * h)) * q = p * (2 * k)
    BY <1>2, <2>1
  <2> HIDE DEF k
  <2>3. w = p * (2 * k) + r
    BY <1>2, <2>1, <2>2
  <2>4. Bit(p * (2 * k) + r, i) = Bit(r, i)
    BY <1>2, <2>2, EvenAbove DEF p
  <2> QED  BY <2>3, <2>4
<1> QED  BY <1>2, <1>3 DEF r

---------------------------------------------------------------------------
(* Signs, borrows and the order of words.                                  *)

\* A word is a number below the number of words.
LEMMA OperandIs ==
    ASSUME NEW a \in Operand
    PROVE  a \in Nat /\ a < Two /\ a \div Pow[XLEN] = 0
<1>1. a \in Nat /\ a < Two
  BY PowIs, XlenAssumption DEF Two, Operand
<1> QED  BY <1>1, WordEnds

\* The sign bit tells the upper half of the words.
LEMMA SignIs ==
    ASSUME NEW a \in Operand
    PROVE  /\ Two \div 2 = Pow[XLEN - 1] /\ Two = 2 * Pow[XLEN - 1] /\ Pow[XLEN - 1] \in Nat \ {0}
           /\ Sign(a) \in 0 .. 1
           /\ Sign(a) = 1 <=> a >= Two \div 2
<1> DEFINE h == Pow[XLEN - 1]
<1>1. XLEN - 1 \in 0 .. XLEN /\ XLEN - 1 \in 0 .. XLEN - 1 /\ XLEN - 1 + 1 = XLEN
  BY XlenAssumption
<1>2. h \in Nat \ {0} /\ Two = 2 * h
  BY <1>1, PowIs DEF Two
<1>3. a \in Nat /\ a < Two
  BY OperandIs
<1>4. Sign(a) = (a \div h) % 2
  BY DEF Sign, Bit
<1> HIDE DEF h
<1>5. Two \div 2 = h
  BY <1>2
<1> DEFINE d == a \div h
           e == a % h
<1>6. d \in Nat /\ e \in 0 .. h - 1 /\ a = h * d + e
  BY <1>2, <1>3, DivisionIs
<1> HIDE DEF d, e
<1>7. d = 0 \/ d = 1
  <2> SUFFICES ASSUME d >= 2 PROVE FALSE
    BY <1>6
  <2>1. d = 2 \/ 2 < d
    BY <1>6
  <2> DEFINE hd == h * d
  <2>2. hd \in Nat /\ h * 2 = 2 * h
    BY <1>2, <1>6
  <2>3. 2 < d => h * 2 + h <= hd
    BY <1>2, <1>6, ProductGrows
  <2>4. d = 2 => hd = 2 * h
    BY <1>2, <1>6
  <2>5. a = hd + e
    BY <1>6
  <2> HIDE DEF hd
  <2> QED  BY <1>2, <1>3, <1>6, <2>1, <2>2, <2>3, <2>4, <2>5
<1>8. CASE d = 0
  BY <1>2, <1>4, <1>5, <1>6, <1>8 DEF d, h
<1>9. CASE d = 1
  BY <1>2, <1>4, <1>5, <1>6, <1>9 DEF d, h
<1> QED  BY <1>7, <1>8, <1>9

\* The bitwise complement is a word.
LEMMA ComplementIs ==
    ASSUME NEW b \in Operand
    PROVE  Complement(b) \in Operand /\ Complement(b) \in Nat /\ Complement(b) = Two - 1 - b
BY PowIs, XlenAssumption DEF Two, Operand, Complement

\* a - b borrows exactly when a is below b.
LEMMA BelowIs ==
    ASSUME NEW a \in Operand, NEW b \in Operand
    PROVE  Below(a, b) <=> a < b
<1> DEFINE c == Complement(b)
           w == a + c + 1
           k == Carry(a, c, 1)[XLEN]
<1>1. a \in Nat /\ b \in Nat /\ c \in Nat /\ c = Two - 1 - b /\ a < Two /\ b < Two
      /\ a \div Pow[XLEN] = 0 /\ c \div Pow[XLEN] = 0
  BY OperandIs, ComplementIs
<1>2. k \in 0 .. 1 /\ w \div Pow[XLEN] = (a \div Pow[XLEN]) + (c \div Pow[XLEN]) + k
  <2>1. XLEN \in 0 .. XLEN /\ 1 \in 0 .. 1
    BY XlenAssumption
  <2> HIDE DEF c, w
  <2>2. \A i \in 0 .. XLEN :
          /\ Carry(a, c, 1)[i] \in 0 .. 1
          /\ (a + c + 1) \div Pow[i] = (a \div Pow[i]) + (c \div Pow[i]) + Carry(a, c, 1)[i]
    <3> DEFINE n == 1
    <3>1. n \in 0 .. 1 /\ a \in Nat /\ c \in Nat
      BY <1>1, <2>1
    <3> HIDE DEF n
    <3>2. \A i \in 0 .. XLEN :
            /\ Carry(a, c, n)[i] \in 0 .. 1
            /\ (a + c + n) \div Pow[i] = (a \div Pow[i]) + (c \div Pow[i]) + Carry(a, c, n)[i]
      <4> HIDE DEF k
      <4> QED  BY <3>1, Ripple
    <3> QED  BY <3>2 DEF n
  <2> QED  BY <2>1, <2>2 DEF w
<1>3. Below(a, b) <=> k = 0
  BY DEF Below
<1> HIDE DEF c, k
<1>4. w \in Nat /\ Two \in Nat /\ w = a + (Two - b)
  BY <1>1, PowIs, XlenAssumption DEF Two
<1> HIDE DEF w
<1>5. k = 0 <=> w \in Operand
  BY <1>1, <1>2, <1>4, WordEnds
<1>6. w \in Operand <=> w < Two
  BY <1>4 DEF Operand
<1> QED  BY <1>1, <1>3, <1>4, <1>5, <1>6

\* Signed order by signs and borrow.
LEMMA LessIs ==
    ASSUME NEW a \in Operand, NEW b \in Operand
    PROVE  Less(a, b) <=> Signed(a) < Signed(b)
<1> DEFINE h == Pow[XLEN - 1]
           sa == Sign(a)
           sb == Sign(b)
<1>1. /\ h \in Nat \ {0} /\ Two = 2 * h /\ Two \div 2 = h
      /\ sa \in 0 .. 1 /\ (sa = 1 <=> a >= h)
      /\ sb \in 0 .. 1 /\ (sb = 1 <=> b >= h)
  BY SignIs
<1>2. a \in Nat /\ a < Two /\ b \in Nat /\ b < Two
  BY OperandIs
<1>3. Less(a, b) <=> IF sa = sb THEN a < b ELSE sa = 1
  BY BelowIs DEF Less
<1>4. /\ Signed(a) = IF sa = 1 THEN a - Two ELSE a
      /\ Signed(b) = IF sb = 1 THEN b - Two ELSE b
  BY <1>1 DEF Signed
<1> HIDE DEF h, sa, sb
<1> QED  BY <1>1, <1>2, <1>3, <1>4

\* The six conditions, and the two codes that are none.
LEMMA BranchesExact ==
    ASSUME NEW a \in Operand, NEW b \in Operand
    PROVE  /\ ConditionMet(0, a, b) = (a = b)  /\ ConditionMet(1, a, b) = ~ConditionMet(0, a, b)
           /\ ConditionMet(4, a, b) = Less(a, b)  /\ ConditionMet(5, a, b) = ~Less(a, b)
           /\ ConditionMet(6, a, b) = Below(a, b) /\ ConditionMet(7, a, b) = ~Below(a, b)
           /\ ~ConditionMet(2, a, b) /\ ~ConditionMet(3, a, b)
<1>1. a \in Nat /\ b \in Nat /\ Two \in Nat
  BY OperandIs, PowIs, XlenAssumption DEF Two
<1>2. Signed(a) \in Int /\ Signed(b) \in Int
  BY <1>1 DEF Signed
<1>3. ConditionMet(4, a, b) = Less(a, b) /\ ConditionMet(5, a, b) = ~Less(a, b)
  <2> DEFINE sa == Signed(a)
             sb == Signed(b)
  <2>1. ConditionMet(4, a, b) = (sa < sb) /\ ConditionMet(5, a, b) = (sa >= sb)
    BY DEF ConditionMet
  <2>2. Less(a, b) <=> sa < sb
    BY LessIs
  <2>3. Less(a, b) \in BOOLEAN
    BY DEF Less, Below
  <2> HIDE DEF sa, sb
  <2> QED  BY <1>2, <2>1, <2>2, <2>3 DEF sa, sb
<1>4. ConditionMet(6, a, b) = Below(a, b) /\ ConditionMet(7, a, b) = ~Below(a, b)
  BY <1>1, BelowIs DEF ConditionMet, Below
<1> QED  BY <1>3, <1>4 DEF ConditionMet

---------------------------------------------------------------------------
(* Shifts.                                                                 *)

\* a << n.
LEMMA ShiftLeft ==
    ASSUME NEW a \in Nat, NEW n \in 0 .. XLEN - 1, NEW i \in 0 .. XLEN - 1
    PROVE  a * Pow[n] \in Nat /\ Bit(a * Pow[n], i) = IF i >= n THEN Bit(a, i - n) ELSE 0
<1> DEFINE p == Pow[n]
           w == a * p
<1>1. XLEN \in Nat /\ n \in 0 .. XLEN /\ i \in 0 .. XLEN
  BY XlenAssumption
<1>2. p \in Nat \ {0} /\ w \in Nat
  BY <1>1, PowIs
<1>3. CASE i >= n
  <2> DEFINE j == i - n
  <2>1. j \in Nat /\ n + j = i /\ n \in Nat /\ n + j <= XLEN
    BY <1>1, <1>3
  <2> HIDE DEF j, p, w
  <2>2. w \div Pow[n + j] = (w \div Pow[n]) \div Pow[j]
    BY <1>2, <2>1, ShiftedTwice
  <2>3. (p * a + 0) \div p = a
    BY <1>2, DivisionIsOnly
  <2>4. w \div p = a
    BY <1>2, <2>3 DEF w
  <2>5. w \div Pow[i] = a \div Pow[j]
    BY <2>1, <2>2, <2>4 DEF p
  <2> QED  BY <1>2, <1>3, <2>5 DEF Bit, w, p, j
<1>4. CASE i < n
  <2> DEFINE j == n - i - 1
             g == Pow[j]
             q == Pow[i]
  <2>1. i + (j + 1) = n /\ i \in Nat /\ j + 1 \in Nat /\ i + (j + 1) <= XLEN /\ j \in 0 .. XLEN - 1 /\ j \in 0 .. XLEN
    BY <1>1, <1>4
  <2> HIDE DEF j
  <2>2. Pow[i + (j + 1)] = q * Pow[j + 1] /\ Pow[j + 1] = 2 * g
    BY <2>1, PowIs, PowSum
  <2>3. g \in Nat /\ q \in Nat
    BY <1>1, <2>1, PowIs
  <2> HIDE DEF g, q
  <2>4. p = q * (2 * g)
    BY <2>1, <2>2
  <2> DEFINE k == a * g
  <2>5. k \in Nat /\ a * (q * (2 * g)) = q * (2 * k) + 0
    BY <2>3
  <2> HIDE DEF k
  <2>6. Bit(q * (2 * k) + 0, i) = Bit(0, i)
    BY <2>5, EvenAbove DEF q
  <2>7. Bit(0, i) = 0
    BY <1>1, PowIs DEF Bit
  <2>8. w = q * (2 * k) + 0
    BY <2>4, <2>5
  <2> QED  BY <1>1, <1>2, <1>4, <2>6, <2>7, <2>8
<1> QED  BY <1>1, <1>3, <1>4

\* a >> n.
LEMMA ShiftRight ==
    ASSUME NEW a \in Operand, NEW n \in 0 .. XLEN - 1
    PROVE  /\ a \div Pow[n] \in Operand
           /\ a \div Pow[n] < Pow[XLEN - n]
           /\ \A i \in 0 .. XLEN - 1 :
                Bit(a \div Pow[n], i) = IF i + n < XLEN THEN Bit(a, i + n) ELSE 0
<1> DEFINE r == a \div Pow[n]
           m == XLEN - n
<1>1. XLEN \in Nat /\ n \in Nat /\ m \in Nat /\ n + m = XLEN /\ m \in 0 .. XLEN /\ n \in 0 .. XLEN
  BY XlenAssumption
<1>2. a \in Nat /\ a \div Pow[XLEN] = 0
  BY OperandIs
<1>3. r \in Nat
  BY <1>1, <1>2, Shifted
<1>4. r \div Pow[m] = 0
  <2> HIDE DEF m
  <2>1. a \div Pow[n + m] = r \div Pow[m]
    BY <1>1, <1>2, ShiftedTwice
  <2> QED  BY <1>1, <1>2, <2>1
<1>5. r < Pow[m]
  <2> DEFINE g == Pow[m]
  <2>1. g \in Nat \ {0}
    BY <1>1, PowIs
  <2> HIDE DEF r, g
  <2>2. r \div g = 0
    BY <1>4 DEF g
  <2> QED  BY <1>3, <2>1, <2>2 DEF g
<1>6. ASSUME NEW i \in 0 .. XLEN, i + n >= XLEN PROVE r \div Pow[i] = 0
  <2> DEFINE j == i - m
  <2>1. j \in Nat /\ m + j = i /\ m + j <= XLEN /\ j \in 0 .. XLEN
    BY <1>1, <1>6
  <2> HIDE DEF j, m, r
  <2>2. r \div Pow[m + j] = (r \div Pow[m]) \div Pow[j]
    BY <1>1, <1>3, <2>1, ShiftedTwice
  <2>3. 0 \div Pow[j] = 0
    BY <2>1, PowIs
  <2> QED  BY <1>4, <2>1, <2>2, <2>3
<1>7. r \in Operand
  <2>1. r \div Pow[XLEN] = 0
    BY <1>1, <1>6
  <2> HIDE DEF r
  <2> QED  BY <1>3, <2>1, WordEnds
<1>8. ASSUME NEW i \in 0 .. XLEN - 1 PROVE Bit(r, i) = IF i + n < XLEN THEN Bit(a, i + n) ELSE 0
  <2>1. CASE i + n < XLEN
    <3>1. i \in Nat /\ n + i = i + n /\ n + i <= XLEN
      BY <1>1, <2>1
    <3>2. a \div Pow[n + i] = r \div Pow[i]
      BY <1>1, <1>2, <3>1, ShiftedTwice
    <3> QED  BY <2>1, <3>1, <3>2 DEF Bit
  <2>2. CASE i + n >= XLEN
    <3>1. r \div Pow[i] = 0 /\ ~(i + n < XLEN)
      BY <1>1, <1>6, <2>2
    <3> HIDE DEF r
    <3> QED  BY <3>1 DEF Bit
  <2> QED  BY <1>1, <2>1, <2>2
<1> QED  BY <1>5, <1>7, <1>8

\* Division rounds down below zero too.
LEMMA DivisionBelow ==
    ASSUME NEW m \in Nat \ {0}, NEW q \in Int, NEW r \in 0 .. m - 1
    PROVE  (m * q + r) \div m = q
<1> DEFINE w == m * q + r
           d == w \div m
           e == w % m
           f == d - q
           mf == m * f
<1>1. d \in Int /\ e \in 0 .. m - 1 /\ w = m * d + e
  OBVIOUS
<1>2. mf = r - e /\ f \in Int
  <2>1. m * d = m * q + mf
    BY <1>1
  <2> DEFINE md == m * d
             mq == m * q
  <2>2. md = mq + mf /\ w = md + e /\ w = mq + r /\ md \in Int /\ mq \in Int /\ mf \in Int
    BY <1>1, <2>1
  <2> HIDE DEF md, mq, mf, w, d, e
  <2> QED  BY <1>1, <2>2
<1>3. f > 0 => mf >= m
  <2> SUFFICES ASSUME f > 0 PROVE mf >= m
    OBVIOUS
  <2>1. 0 < f /\ f \in Nat /\ m * 0 = 0
    BY <1>2
  <2> HIDE DEF f
  <2>2. m * 0 + m <= m * f
    BY <2>1, ProductGrows
  <2> QED  BY <2>1, <2>2
<1>4. f < 0 => mf <= -m
  <2> SUFFICES ASSUME f < 0 PROVE mf <= -m
    OBVIOUS
  <2> DEFINE b == -f
             mb == m * b
  <2>1. 0 < b /\ b \in Nat /\ m * 0 = 0 /\ mf = -mb /\ mb \in Nat
    BY <1>2
  <2> HIDE DEF b, f
  <2>2. m * 0 + m <= m * b
    BY <2>1, ProductGrows
  <2> HIDE DEF mf
  <2>3. mb >= m
    BY <2>1, <2>2
  <2> HIDE DEF mb
  <2> QED  BY <2>1, <2>3
<1>5. f = 0
  <2> HIDE DEF mf, f, e, d, w
  <2> QED  BY <1>1, <1>2, <1>3, <1>4
<1>6. d = q
  <2> HIDE DEF d
  <2> QED  BY <1>1, <1>5 DEF f
<1> QED  BY <1>6

\* $signed(a) >>> n.
LEMMA ShiftSigned ==
    ASSUME NEW a \in Operand, NEW n \in 0 .. XLEN - 1
    PROVE  /\ Sra(a, n) \in Operand
           /\ \A i \in 0 .. XLEN - 1 :
                Bit(Sra(a, n), i) = IF i + n < XLEN THEN Bit(a, i + n) ELSE Sign(a)
<1> DEFINE y == a \div Pow[n]
           p == Pow[n]
           g == Pow[XLEN - n]
           r == Sra(a, n)
<1>1. XLEN \in Nat /\ n \in 0 .. XLEN /\ n \in Nat /\ XLEN - n \in 0 .. XLEN /\ n + (XLEN - n) = XLEN
  BY XlenAssumption
<1>2. a \in Nat /\ a < Two
  BY OperandIs
<1>3. /\ y \in Operand /\ y < g
      /\ \A i \in 0 .. XLEN - 1 : Bit(y, i) = IF i + n < XLEN THEN Bit(a, i + n) ELSE 0
  BY ShiftRight
<1>4. y \in Nat /\ p \in Nat \ {0} /\ g \in Nat \ {0} /\ Two = p * g /\ Two \in Nat \ {0}
  <2>1. y \in Nat
    BY <1>3, OperandIs
  <2>2. p \in Nat \ {0} /\ g \in Nat \ {0} /\ Pow[n + (XLEN - n)] = p * g
    BY <1>1, PowIs, PowSum
  <2>3. Two \in Nat \ {0} /\ Two = Pow[n + (XLEN - n)]
    BY <1>1, PowIs DEF Two
  <2> QED  BY <2>1, <2>2, <2>3
<1>5. Sign(a) \in 0 .. 1 /\ (Sign(a) = 1 <=> a >= Two \div 2)
  BY SignIs
<1>6. CASE Sign(a) = 0
  <2>1. Signed(a) = a
    BY <1>5, <1>6 DEF Signed
  <2>2. y % Two = y
    <3>1. y < Two
      BY <1>3, OperandIs
    <3> HIDE DEF y
    <3> QED  BY <1>4, <3>1
  <2>3. r = y
    BY <2>1, <2>2 DEF Sra
  <2> HIDE DEF r, y
  <2> QED  BY <1>3, <1>6, <2>3 DEF r
<1>7. CASE Sign(a) = 1
  <2>1. Signed(a) = a - Two
    BY <1>5, <1>7 DEF Signed
  <2> DEFINE e == a % p
             s == g - y
  <2>2. e \in 0 .. p - 1 /\ a = p * y + e
    BY <1>2, <1>4, DivisionIs
  <2> HIDE DEF e, y, p, g
  <2>3. s \in Nat \ {0} /\ s <= g /\ -s \in Int
    BY <1>3, <1>4
  <2>4. p * s = p * g - p * y
    BY <1>4
  <2> HIDE DEF s
  <2>5. a - Two = p * (-s) + e
    <3> DEFINE ps == p * s
               pg == p * g
               py == p * y
    <3>1. ps = pg - py /\ pg \in Nat /\ py \in Nat /\ ps \in Nat /\ p * (-s) = -ps
      BY <1>4, <2>3, <2>4
    <3>2. Two = pg /\ a = py + e
      BY <1>4, <2>2
    <3> HIDE DEF ps, pg, py
    <3>3. a - Two = (-ps) + e
      BY <1>2, <2>2, <3>1, <3>2
    <3> QED  BY <3>1, <3>3
  <2>6. Signed(a) \div p = -s
    <3> DEFINE t == -s
    <3>1. t \in Int /\ a - Two = p * t + e
      BY <2>3, <2>5
    <3> HIDE DEF t
    <3>2. (p * t + e) \div p = t
      BY <1>4, <2>2, <3>1, DivisionBelow
    <3> QED  BY <2>1, <3>1, <3>2 DEF t
  <2>7. g <= Two
    <3>1. g = 1 * g /\ (p = 1 \/ 1 < p)
      BY <1>4
    <3>2. p * g = g * p /\ g * 1 = g
      BY <1>4
    <3>3. 1 < p => g * 1 + g <= g * p
      BY <1>4, ProductGrows
    <3>4. p = 1 => Two = g
      BY <1>4, <3>1
    <3> QED  BY <1>4, <3>1, <3>2, <3>3, <3>4
  <2>8. r = Two - s /\ r \in Operand /\ r \in Nat
    <3>1. Two - s \in 0 .. Two - 1
      BY <1>4, <2>3, <2>7
    <3>2. (-s) % Two = Two - s
      BY <1>4, <2>3, <2>7
    <3>3. r = (-s) % Two
      BY <2>6 DEF Sra, p
    <3> QED  BY <3>1, <3>2, <3>3 DEF Operand
  <2> HIDE DEF r
  <2>9. ASSUME NEW i \in 0 .. XLEN - 1, i + n < XLEN PROVE Bit(r, i) = Bit(a, i + n)
    <3> DEFINE j == XLEN - n - (i + 1)
               u == Pow[j]
               v == Pow[XLEN - (i + 1)]
               q == Pow[i]
    <3>1. /\ j \in Nat /\ n + j = XLEN - (i + 1) /\ n + j <= XLEN /\ j \in 0 .. XLEN
          /\ i + (j + 1) = XLEN - n /\ i + (j + 1) <= XLEN /\ i \in Nat /\ j + 1 \in Nat /\ j \in 0 .. XLEN - 1
      BY <1>1, <2>9
    <3> HIDE DEF j
    <3>2. q \in Nat \ {0} /\ v \in Nat \ {0} /\ Two = q * (2 * v)
      BY TwoIs
    <3>3. v = p * u /\ u \in Nat \ {0}
      <4>1. Pow[n + j] = p * u
        BY <1>1, <3>1, PowSum DEF p
      <4> QED  BY <3>1, <4>1, PowIs
    <3>4. g = q * (2 * u)
      <4>1. Pow[i + (j + 1)] = q * Pow[j + 1] /\ Pow[j + 1] = 2 * u
        BY <3>1, PowSum, PowIs
      <4> QED  BY <3>1, <4>1 DEF g
    <3> HIDE DEF u, v, q
    <3> DEFINE k == v - u
    <3>5. k \in Nat
      <4>1. p = 1 \/ 1 < p
        BY <1>4
      <4>2. p * u = u * p /\ u * 1 = u
        BY <1>4, <3>3
      <4>3. 1 < p => u * 1 + u <= u * p
        BY <1>4, <3>3, ProductGrows
      <4>4. p = 1 => v = u
        BY <3>3
      <4> QED  BY <1>4, <3>2, <3>3, <4>1, <4>2, <4>3, <4>4
    <3>6. r = q * (2 * k) + y
      <4>1. q * (2 * k) = q * (2 * v) - q * (2 * u)
        BY <3>2, <3>3
      <4>2. r = Two - (g - y)
        BY <2>8 DEF s
      <4> DEFINE x0 == q * (2 * k)
                 x1 == q * (2 * v)
                 x2 == q * (2 * u)
      <4>3. x0 = x1 - x2 /\ x1 \in Nat /\ x2 \in Nat /\ Two = x1 /\ g = x2
        BY <3>2, <3>3, <3>4, <4>1
      <4> HIDE DEF x0, x1, x2
      <4>4. r = x0 + y
        BY <1>4, <4>2, <4>3
      <4> QED  BY <4>4 DEF x0
    <3> HIDE DEF k
    <3>7. Bit(q * (2 * k) + y, i) = Bit(y, i)
      BY <1>4, <3>5, EvenAbove DEF q
    <3>8. Bit(y, i) = Bit(a, i + n)
      BY <1>3, <2>9
    <3> QED  BY <3>6, <3>7, <3>8
  <2>10. ASSUME NEW i \in 0 .. XLEN - 1, ~(i + n < XLEN) PROVE Bit(r, i) = 1
    <3> DEFINE j == i - (XLEN - n)
               v == Pow[XLEN - (i + 1)]
               q == Pow[i]
               o == q - s
    <3>1. j \in Nat /\ (XLEN - n) + j = i /\ (XLEN - n) + j <= XLEN /\ j \in 0 .. XLEN /\ XLEN - n \in Nat
      BY <1>1, <2>10
    <3> HIDE DEF j
    <3>2. q \in Nat \ {0} /\ v \in Nat \ {0} /\ Two = q * (2 * v)
      BY TwoIs
    <3>3. g <= q
      <4> DEFINE h == Pow[j]
      <4>1. q = g * h /\ h \in Nat \ {0}
        <5> DEFINE m == XLEN - n
        <5>1. m \in Nat /\ m + j = i /\ m + j <= XLEN
          BY <3>1
        <5> HIDE DEF m
        <5>2. Pow[m + j] = Pow[m] * Pow[j]
          BY <3>1, <5>1, PowSum
        <5> QED  BY <3>1, <5>1, <5>2, PowIs DEF m, g
      <4> HIDE DEF h, q
      <4>2. (h = 1 \/ 1 < h) /\ g * 1 = g
        BY <1>4, <4>1
      <4>3. 1 < h => g * 1 + g <= g * h
        BY <1>4, <4>1, ProductGrows
      <4>4. h = 1 => q = g
        BY <1>4, <4>1
      <4> QED  BY <1>4, <3>2, <4>1, <4>2, <4>3, <4>4
    <3> HIDE DEF q, v
    <3>4. o \in 0 .. q - 1
      BY <1>4, <2>3, <3>2, <3>3
    <3> DEFINE t == 2 * v - 1
    <3>5. t \in Nat /\ t % 2 = 1 /\ q * (2 * v) = q * t + q
      BY <3>2
    <3> HIDE DEF t
    <3>6. r = q * t + o
      <4> DEFINE qt == q * t
      <4>1. Two = qt + q /\ qt \in Nat
        BY <3>2, <3>5
      <4> HIDE DEF qt
      <4>2. r = qt + o
        BY <2>3, <2>8, <3>2, <4>1
      <4> QED  BY <4>2 DEF qt
    <3> HIDE DEF o
    <3>7. (q * t + o) \div q = t
      BY <3>2, <3>4, <3>5, DivisionIsOnly
    <3> QED  BY <3>5, <3>6, <3>7 DEF Bit, q
  <2> QED  BY <1>7, <2>8, <2>9, <2>10 DEF r
<1> QED  BY <1>5, <1>6, <1>7

---------------------------------------------------------------------------
(* The operations of the ALU.                                              *)

\* The bits of the flag that SLT and SLTU return.
LEMMA FlagBits ==
    ASSUME NEW i \in 0 .. XLEN - 1
    PROVE  /\ 0 \in Operand /\ 1 \in Operand
           /\ Bit(0, i) = 0
           /\ Bit(1, i) = IF i = 0 THEN 1 ELSE 0
<1>1. XLEN \in Nat /\ i \in Nat /\ i \in 0 .. XLEN
  BY XlenAssumption
<1>2. Pow[0] = 1 /\ Pow[i] \in Nat \ {0}
  BY <1>1, PowIs
<1>3. i # 0 => Pow[i] > 1
  <2> SUFFICES ASSUME i # 0 PROVE Pow[i] > 1
    OBVIOUS
  <2>1. i - 1 \in 0 .. XLEN - 1 /\ i - 1 \in 0 .. XLEN /\ i - 1 + 1 = i
    BY <1>1
  <2>2. Pow[i] = 2 * Pow[i - 1] /\ Pow[i - 1] \in Nat \ {0}
    BY <2>1, PowIs
  <2> QED  BY <2>2
<1>4. Bit(0, i) = 0
  <2> DEFINE p == Pow[i]
  <2> HIDE DEF p
  <2>1. p \in Nat \ {0} => 0 \div p = 0
    OBVIOUS
  <2> QED  BY <1>2, <2>1 DEF Bit, p
<1>5. Bit(1, i) = IF i = 0 THEN 1 ELSE 0
  <2>1. CASE i = 0
    BY <1>2, <2>1 DEF Bit
  <2>2. CASE i # 0
    <3> DEFINE p == Pow[i]
    <3>1. p \in Nat /\ p > 1
      BY <1>2, <1>3, <2>2
    <3> HIDE DEF p
    <3>2. 1 \div p = 0
      BY <3>1
    <3> QED  BY <2>2, <3>2 DEF Bit, p
  <2> QED  BY <2>1, <2>2
<1>6. Two > 1 /\ Two \in Nat
  <2>1. Two = 2 * Pow[XLEN - 1] /\ Pow[XLEN - 1] \in Nat \ {0}
    <3>1. 0 \in Operand
      BY PowIs, XlenAssumption DEF Two, Operand
    <3> QED  BY <3>1, SignIs
  <2> QED  BY <2>1
<1> QED  BY <1>4, <1>5, <1>6 DEF Operand

\* What it is for a result to be exact.
Exact(op, a, b) ==
    /\ AluResultOf(op, a, b) \in Operand
    /\ \A i \in 0 .. XLEN - 1 : Bit(AluResultOf(op, a, b), i) = RefBit(op, a, b, i)

\* ADD: the sum, bit by bit.
LEMMA AddExact == ASSUME NEW a \in Operand, NEW b \in Operand PROVE Exact("ADD", a, b)
<1> DEFINE w == a + b
<1>1. a \in Nat /\ b \in Nat /\ w \in Nat
  BY OperandIs
<1>2. AluResultOf("ADD", a, b) = w % Two
  BY DEF AluResultOf
<1>3. ASSUME NEW i \in 0 .. XLEN - 1 PROVE Bit(w % Two, i) = RefBit("ADD", a, b, i)
  <2>1. SumBit(a, b, 0, i) = Bit(a + b + 0, i)
    BY <1>1, SumBitIs
  <2>2. Bit(w % Two, i) = Bit(w, i)
    BY <1>1, LowBits
  <2>3. a + b + 0 = w
    BY <1>1
  <2>4. RefBit("ADD", a, b, i) = SumBit(a, b, 0, i)
    BY DEF RefBit
  <2> QED  BY <2>1, <2>2, <2>3, <2>4
<1>4. w % Two \in Operand
  BY <1>1, LowBits
<1> QED  BY <1>2, <1>3, <1>4 DEF Exact

\* SUB: the sum with the complement and a carry in.
LEMMA SubExact == ASSUME NEW a \in Operand, NEW b \in Operand PROVE Exact("SUB", a, b)
<1> DEFINE c == Complement(b)
           w == a + c + 1
<1>1. a \in Nat /\ b \in Nat /\ a < Two /\ b < Two /\ c \in Nat /\ c = Two - 1 - b /\ Two \in Nat \ {0}
  BY OperandIs, ComplementIs, PowIs, XlenAssumption DEF Two
<1> HIDE DEF c
<1>2. w \in Nat /\ w = (a - b) + Two
  BY <1>1
<1>3. AluResultOf("SUB", a, b) = w % Two
  <2>1. AluResultOf("SUB", a, b) = (a - b) % Two
    BY DEF AluResultOf
  <2> DEFINE d == a - b
  <2>2. d \in Int /\ w = d + Two /\ -Two < d /\ d < Two
    BY <1>1, <1>2
  <2> HIDE DEF d, w
  <2>3. d % Two = w % Two
    <3>1. CASE d >= 0
      <4>1. d % Two = d
        BY <1>1, <2>2, <3>1
      <4>2. (Two * 1 + d) % Two = d
        <5>1. d \in 0 .. Two - 1 /\ 1 \in Nat
          BY <1>1, <2>2, <3>1
        <5> DEFINE one == 1
        <5> HIDE DEF one
        <5>2. one \in Nat
          BY DEF one
        <5>3. (Two * one + d) % Two = d
          BY <1>1, <5>1, <5>2, DivisionIsOnly
        <5> QED  BY <5>3 DEF one
      <4>3. w = Two * 1 + d
        BY <1>1, <2>2
      <4> QED  BY <4>1, <4>2, <4>3
    <3>2. CASE d < 0
      <4>1. w \in 0 .. Two - 1
        BY <1>1, <2>2, <3>2
      <4>2. w % Two = w
        BY <1>1, <4>1
      <4>3. d % Two = d + Two
        BY <1>1, <2>2, <3>2
      <4> QED  BY <2>2, <4>2, <4>3
    <3> QED  BY <2>2, <3>1, <3>2
  <2> QED  BY <2>1, <2>3 DEF d
<1>4. ASSUME NEW i \in 0 .. XLEN - 1 PROVE Bit(w % Two, i) = RefBit("SUB", a, b, i)
  <2>1. SumBit(a, c, 1, i) = Bit(w, i)
    <3> DEFINE n == 1
    <3>1. n \in 0 .. 1
      OBVIOUS
    <3> HIDE DEF n
    <3>2. SumBit(a, c, n, i) = Bit(a + c + n, i)
      BY <1>1, <3>1, SumBitIs
    <3> QED  BY <3>2 DEF n
  <2>2. Bit(w % Two, i) = Bit(w, i)
    BY <1>2, LowBits
  <2>3. RefBit("SUB", a, b, i) = SumBit(a, c, 1, i)
    BY DEF RefBit, c
  <2> QED  BY <2>1, <2>2, <2>3
<1>5. w % Two \in Operand
  BY <1>2, LowBits
<1> QED  BY <1>3, <1>4, <1>5 DEF Exact

\* AND, OR and XOR.
LEMMA LogicExact ==
    ASSUME NEW a \in Operand, NEW b \in Operand, NEW op \in {"AND", "OR", "XOR"}
    PROVE  Exact(op, a, b)
<1>1. a \in Nat /\ b \in Nat
  BY OperandIs
<1>2. \A i \in 0 .. XLEN - 1 : Bit(a, i) \in 0 .. 1 /\ Bit(b, i) \in 0 .. 1
  BY <1>1, BitIs
<1>3. CASE op = "AND"
  <2> DEFINE f == [ i \in 0 .. XLEN - 1 |-> Bit(a, i) * Bit(b, i) ]
  <2>1. ASSUME NEW i \in 0 .. XLEN - 1 PROVE Bit(a, i) * Bit(b, i) = IF Bit(a, i) = 1 /\ Bit(b, i) = 1 THEN 1 ELSE 0
    <3>1. (Bit(a, i) = 0 \/ Bit(a, i) = 1) /\ (Bit(b, i) = 0 \/ Bit(b, i) = 1)
      BY <1>2
    <3> QED  BY <3>1
  <2>2. f \in [ 0 .. XLEN - 1 -> 0 .. 1 ]
    BY <2>1
  <2>3. \A i \in 0 .. XLEN - 1 : f[i] = RefBit(op, a, b, i)
    BY <1>3, <2>1 DEF RefBit
  <2>4. AluResultOf(op, a, b) = Number(f)
    BY <1>3 DEF AluResultOf
  <2> HIDE DEF f
  <2> QED  BY <2>2, <2>3, <2>4, NumberIs DEF Exact
<1>4. CASE op = "OR"
  <2> DEFINE f == [ i \in 0 .. XLEN - 1 |-> 1 - (1 - Bit(a, i)) * (1 - Bit(b, i)) ]
  <2>1. ASSUME NEW i \in 0 .. XLEN - 1
        PROVE  1 - (1 - Bit(a, i)) * (1 - Bit(b, i)) = IF Bit(a, i) = 1 \/ Bit(b, i) = 1 THEN 1 ELSE 0
    <3>1. (Bit(a, i) = 0 \/ Bit(a, i) = 1) /\ (Bit(b, i) = 0 \/ Bit(b, i) = 1)
      BY <1>2
    <3> QED  BY <3>1
  <2>2. f \in [ 0 .. XLEN - 1 -> 0 .. 1 ]
    BY <2>1
  <2>3. \A i \in 0 .. XLEN - 1 : f[i] = RefBit(op, a, b, i)
    BY <1>4, <2>1 DEF RefBit
  <2>4. AluResultOf(op, a, b) = Number(f)
    BY <1>4 DEF AluResultOf
  <2> HIDE DEF f
  <2> QED  BY <2>2, <2>3, <2>4, NumberIs DEF Exact
<1>5. CASE op = "XOR"
  <2> DEFINE f == [ i \in 0 .. XLEN - 1 |-> IF Bit(a, i) = Bit(b, i) THEN 0 ELSE 1 ]
  <2>1. ASSUME NEW i \in 0 .. XLEN - 1
        PROVE  (IF Bit(a, i) = Bit(b, i) THEN 0 ELSE 1) = (Bit(a, i) + Bit(b, i)) % 2
    <3>1. (Bit(a, i) = 0 \/ Bit(a, i) = 1) /\ (Bit(b, i) = 0 \/ Bit(b, i) = 1)
      BY <1>2
    <3> QED  BY <3>1
  <2>2. f \in [ 0 .. XLEN - 1 -> 0 .. 1 ]
    OBVIOUS
  <2>3. \A i \in 0 .. XLEN - 1 : f[i] = RefBit(op, a, b, i)
    BY <1>5, <2>1 DEF RefBit
  <2>4. AluResultOf(op, a, b) = Number(f)
    BY <1>5 DEF AluResultOf
  <2> HIDE DEF f
  <2> QED  BY <2>2, <2>3, <2>4, NumberIs DEF Exact
<1> QED  BY <1>3, <1>4, <1>5

\* SLT and SLTU.
LEMMA CompareExact ==
    ASSUME NEW a \in Operand, NEW b \in Operand, NEW op \in {"SLT", "SLTU"}
    PROVE  Exact(op, a, b)
<1> DEFINE less == IF op = "SLT" THEN Less(a, b) ELSE Below(a, b)
<1>1. AluResultOf(op, a, b) = IF less THEN 1 ELSE 0
  <2>1. CASE op = "SLT"
    BY <2>1, LessIs DEF AluResultOf
  <2>2. CASE op = "SLTU"
    BY <2>2, BelowIs DEF AluResultOf
  <2> QED  BY <2>1, <2>2
<1>2. \A i \in 0 .. XLEN - 1 : RefBit(op, a, b, i) = IF i = 0 /\ less THEN 1 ELSE 0
  BY DEF RefBit
<1> HIDE DEF less
<1>3. 0 \in Operand /\ 1 \in Operand
  <2>1. 0 \in 0 .. XLEN - 1
    BY XlenAssumption
  <2> QED  BY <2>1, FlagBits
<1> QED  BY <1>1, <1>2, <1>3, FlagBits DEF Exact

\* The three shifts.
LEMMA ShiftExact ==
    ASSUME NEW a \in Operand, NEW b \in Operand, NEW op \in {"SLL", "SRL", "SRA"}
    PROVE  Exact(op, a, b)
<1> DEFINE n == Shamt(b)
<1>1. a \in Nat /\ b \in Nat /\ n \in 0 .. XLEN - 1
  BY OperandIs, XlenAssumption DEF Shamt
<1> HIDE DEF n
<1>2. CASE op = "SLL"
  <2> DEFINE w == a * Pow[n]
  <2>1. w \in Nat /\ \A i \in 0 .. XLEN - 1 : Bit(w, i) = IF i >= n THEN Bit(a, i - n) ELSE 0
    <3>1. 0 \in 0 .. XLEN - 1
      BY XlenAssumption
    <3> QED  BY <1>1, <3>1, ShiftLeft
  <2>2. AluResultOf(op, a, b) = w % Two
    BY <1>2 DEF AluResultOf, n
  <2>3. \A i \in 0 .. XLEN - 1 : RefBit(op, a, b, i) = IF i >= n THEN Bit(a, i - n) ELSE 0
    BY <1>2 DEF RefBit, n
  <2> HIDE DEF w
  <2> QED  BY <2>1, <2>2, <2>3, LowBits DEF Exact
<1>3. CASE op = "SRL"
  <2>1. AluResultOf(op, a, b) = a \div Pow[n]
    BY <1>3 DEF AluResultOf, n
  <2>2. \A i \in 0 .. XLEN - 1 : RefBit(op, a, b, i) = IF i + n < XLEN THEN Bit(a, i + n) ELSE 0
    BY <1>3 DEF RefBit, n
  <2> QED  BY <1>1, <2>1, <2>2, ShiftRight DEF Exact
<1>4. CASE op = "SRA"
  <2>1. AluResultOf(op, a, b) = Sra(a, n)
    BY <1>4 DEF AluResultOf, n
  <2>2. \A i \in 0 .. XLEN - 1 : RefBit(op, a, b, i) = IF i + n < XLEN THEN Bit(a, i + n) ELSE Sign(a)
    BY <1>4 DEF RefBit, n
  <2> QED  BY <1>1, <2>1, <2>2, ShiftSigned DEF Exact
<1> QED  BY <1>2, <1>3, <1>4

\* A behaviour that drives the ALU gives it operations and operands.
AluInv == unit = "alu" => x[1] \in Ops /\ x[2] \in Operand /\ x[3] \in Operand

LEMMA AluInitInv == UnitInit => AluInv
<1>1. 0 \in Operand
  <2>1. 0 \in 0 .. XLEN - 1
    BY XlenAssumption
  <2> QED  BY <2>1, FlagBits
<1> QED  BY <1>1 DEF UnitInit, AluInit, AluInv

LEMMA AluNextInv == AluInv /\ [UNCHANGED unit /\ UnitStep]_vars => AluInv'
<1> SUFFICES ASSUME AluInv, [UNCHANGED unit /\ UnitStep]_vars, unit' = "alu"
             PROVE  x'[1] \in Ops /\ x'[2] \in Operand /\ x'[3] \in Operand
  BY DEF AluInv
<1>1. unit = "alu"
  BY DEF vars
<1>2. x[1] \in Ops /\ x[2] \in Operand /\ x[3] \in Operand
  BY <1>1 DEF AluInv
<1>3. CASE UNCHANGED vars
  BY <1>2, <1>3 DEF vars
<1>4. CASE UnitStep
  <2>1. x' = << x[1], x[2], (x[3] + 1) % Two >>
    BY <1>1, <1>4 DEF UnitStep, NextOperand
  <2>2. (x[3] + 1) % Two \in Operand
    BY <1>2, OperandIs, LowBits
  <2> QED  BY <1>2, <2>1, <2>2
<1> QED  BY <1>3, <1>4

LEMMA AluInvHolds == UnitSpec => []AluInv
BY AluInitInv, AluNextInv, PTL DEF UnitSpec

(* For every width of a word, every operation of the ALU returns, bit by   *)
(* bit, what the manual defines.                                           *)
THEOREM AluIsExact == UnitSpec => []ResultIsExact
<1>1. AluInv => ResultIsExact
  <2> SUFFICES ASSUME AluInv, unit = "alu"
               PROVE  Exact(x[1], x[2], x[3])
    BY DEF ResultIsExact, Exact
  <2>1. x[1] \in Ops /\ x[2] \in Operand /\ x[3] \in Operand
    BY DEF AluInv
  <2> QED  BY <2>1, AddExact, SubExact, LogicExact, CompareExact, ShiftExact DEF Ops
<1> QED  BY <1>1, AluInvHolds, PTL

(* For every width of a word, the branch conditions order the operands as  *)
(* borrow and sign do.                                                     *)
THEOREM ComparatorIsExact == UnitSpec => []BranchesAreExact
<1>1. AluInv => BranchesAreExact
  <2> SUFFICES ASSUME AluInv, unit = "alu" PROVE BranchesAreExact
    BY DEF BranchesAreExact
  <2>1. x[2] \in Operand /\ x[3] \in Operand
    BY DEF AluInv
  <2> QED  BY <2>1, BranchesExact DEF BranchesAreExact
<1> QED  BY <1>1, AluInvHolds, PTL

---------------------------------------------------------------------------
(* What the core assumes of its units.                                     *)

\* What the load/store unit returns and writes are words.
LEMMA WordSizes ==
    /\ ByteSize \in Nat \ {0} /\ HalfValues \in Nat \ {0} /\ WordValues \in Nat
    /\ ByteSize <= HalfValues /\ HalfValues <= WordValues
<1>1. ByteSize \in Nat /\ ByteSize > 1
  BY ByteAssumption
<1>2. HalfValues \in Nat /\ ByteSize * 1 + ByteSize <= HalfValues
  BY <1>1, ProductGrows DEF HalfValues
<1>3. HalfValues > 1
  BY <1>1, <1>2
<1>4. WordValues \in Nat /\ HalfValues * 1 + HalfValues <= WordValues
  BY <1>2, <1>3, ProductGrows DEF WordValues
<1> QED  BY <1>1, <1>2, <1>3, <1>4

\* Extending a byte or a half gives a word.
LEMMA ExtendedIsWord ==
    ASSUME NEW size \in Nat, size <= WordValues, NEW v \in 0 .. size - 1
    PROVE  v \in Words /\ SignExtend(v, size) \in Words
<1>1. v \in Nat /\ WordValues \in Nat /\ v < size
  BY WordSizes
<1>2. v \in Words /\ (WordValues - size) + v \in Words
  BY <1>1 DEF Words
<1> QED  BY <1>2 DEF SignExtend

\* Every load returns a word.
LEMMA RdataIsWord ==
    ASSUME NEW w \in Words, NEW addr, NEW mem_op \in 0 .. 7
    PROVE  Rdata(mem_op, addr, w) \in Words
<1>1. w \in Nat
  BY WordOfBytes
<1>2. w % ByteSize \in 0 .. ByteSize - 1 /\ w % HalfValues \in 0 .. HalfValues - 1
  BY <1>1, WordSizes, DivisionIs
<1>3. /\ w % ByteSize \in Words /\ SignExtend(w % ByteSize, ByteSize) \in Words
      /\ w % HalfValues \in Words /\ SignExtend(w % HalfValues, HalfValues) \in Words
  <2> DEFINE b == w % ByteSize
             h == w % HalfValues
  <2>1. ByteSize \in Nat /\ ByteSize <= WordValues /\ HalfValues \in Nat /\ HalfValues <= WordValues
    BY WordSizes
  <2>2. b \in 0 .. ByteSize - 1 /\ h \in 0 .. HalfValues - 1
    BY <1>2
  <2> HIDE DEF b, h
  <2>3. b \in Words /\ SignExtend(b, ByteSize) \in Words /\ h \in Words /\ SignExtend(h, HalfValues) \in Words
    BY <2>1, <2>2, ExtendedIsWord
  <2> QED  BY <2>3 DEF b, h
<1>4. 0 \in Words
  <2>1. 0 < WordValues
    BY WordSizes
  <2> QED  BY <2>1, WordSizes DEF Words
<1> QED  BY <1>3, <1>4 DEF Rdata

\* Every store leaves a word in memory.
LEMMA StoredIsWord ==
    ASSUME NEW w \in Words, NEW wdata \in Words, NEW addr, NEW mem_op \in 0 .. 7
    PROVE  Stored(mem_op, addr, wdata, w) \in Words
<1> DEFINE data == MemWdata(mem_op, wdata)
           b(i) == ByteOf(IF i \in MemBe(mem_op, addr) THEN data ELSE w, i)
<1>1. w \in Nat /\ wdata \in Nat
  BY WordOfBytes
<1>2. data \in Nat
  <2>1. wdata % ByteSize \in 0 .. ByteSize - 1 /\ wdata % HalfValues \in 0 .. HalfValues - 1
    BY <1>1, WordSizes, DivisionIs
  <2>2. wdata % ByteSize \in Nat /\ wdata % HalfValues \in Nat
    BY <2>1, WordSizes
  <2> QED  BY <1>1, <2>2 DEF MemWdata
<1> HIDE DEF data
<1>3. b(0) \in Digit /\ b(1) \in Digit /\ b(2) \in Digit /\ b(3) \in Digit
  BY <1>1, <1>2, DigitOf DEF Lanes
<1>4. Stored(mem_op, addr, wdata, w) = Word4(b(0), b(1), b(2), b(3))
  BY DEF Stored, Join, Word4, Lanes, data
<1> DEFINE d0 == b(0)
           d1 == b(1)
           d2 == b(2)
           d3 == b(3)
<1>5. d0 \in Digit /\ d1 \in Digit /\ d2 \in Digit /\ d3 \in Digit
  BY <1>3
<1> HIDE DEF d0, d1, d2, d3
<1>6. Word4(d0, d1, d2, d3) \in Words
  BY <1>5, BytesOfWord
<1> QED  BY <1>4, <1>6 DEF d0, d1, d2, d3

(* What Datapath assumes of the units of the core - results are words,     *)
(* ADD adds, the branch conditions are Booleans - holds of alu.v, of the   *)
(* comparator and of lsu.v with top.v's memory write, for every width.     *)
THEOREM UnitsFitDatapath ==
    /\ \A a, b \in Operand :
          /\ \A op \in Ops : AluResultOf(op, a, b) \in Operand
          /\ AluResultOf("ADD", a, b) = (a + b) % Two
          /\ \A funct3 \in 0 .. 7 : ConditionMet(funct3, a, b) \in BOOLEAN
    /\ \A mem_op \in 0 .. 7, addr \in Nat, w \in Words :
          /\ Rdata(mem_op, addr, w) \in Words
          /\ \A wdata \in Words : Stored(mem_op, addr, wdata, w) \in Words
<1>1. ASSUME NEW a \in Operand, NEW b \in Operand, NEW op \in Ops PROVE AluResultOf(op, a, b) \in Operand
  BY AddExact, SubExact, LogicExact, CompareExact, ShiftExact DEF Ops, Exact
<1>2. ASSUME NEW a \in Operand, NEW b \in Operand
      PROVE  /\ AluResultOf("ADD", a, b) = (a + b) % Two
             /\ \A funct3 \in 0 .. 7 : ConditionMet(funct3, a, b) \in BOOLEAN
  BY DEF AluResultOf, ConditionMet
<1>3. ASSUME NEW mem_op \in 0 .. 7, NEW addr \in Nat, NEW w \in Words
      PROVE  /\ Rdata(mem_op, addr, w) \in Words
             /\ \A wdata \in Words : Stored(mem_op, addr, wdata, w) \in Words
  BY RdataIsWord, StoredIsWord
<1> QED  BY <1>1, <1>2, <1>3

=============================================================================
