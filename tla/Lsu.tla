-------------------------------- MODULE Lsu --------------------------------
(***************************************************************************)
(* The load/store unit (rtl/generated/lsu.v) and the byte enables with     *)
(* which top.v writes its memory. A word is a number of four bytes, each   *)
(* of which takes ByteSize values; lane 0 is the least significant.        *)
(***************************************************************************)
EXTENDS Integers

CONSTANT ByteSize   \* the number of values of a byte: 256 in the code

ASSUME ByteAssumption == ByteSize \in Nat /\ ByteSize > 1

HalfValues == ByteSize * ByteSize
WordValues == HalfValues * HalfValues
Lanes    == 0 .. 3

\* What the byte of a lane counts for in a word, and that byte.
Weight == [ lane \in Lanes |-> CASE lane = 0 -> 1
                                 [] lane = 1 -> ByteSize
                                 [] lane = 2 -> HalfValues
                                 [] lane = 3 -> HalfValues * ByteSize ]
ByteOf(w, lane) == (w \div Weight[lane]) % ByteSize

\* The word with the byte b[i] in lane i.
Join(b) == b[0] * Weight[0] + b[1] * Weight[1] + b[2] * Weight[2] + b[3] * Weight[3]

\* A byte or half of `size' values extended with its sign bit to a word.
SignExtend(v, size) ==
    IF v >= size \div 2 THEN WordValues - size + v ELSE v

\* Mutant: LB is zero-extended like LBU.
RdataUnsignedByte(mem_op, addr, mem_rdata) ==
    CASE mem_op % 4 = 0 -> mem_rdata % ByteSize
      [] mem_op = 1     -> SignExtend(mem_rdata % HalfValues, HalfValues)
      [] mem_op = 5     -> mem_rdata % HalfValues
      [] mem_op = 2     -> mem_rdata
      [] OTHER          -> 0

\* rdata: the low byte or half of the memory word, whatever addr[1:0] says.
Rdata(mem_op, addr, mem_rdata) ==
    CASE mem_op = 0 -> SignExtend(mem_rdata % ByteSize, ByteSize)
      [] mem_op = 4 -> mem_rdata % ByteSize
      [] mem_op = 1 -> SignExtend(mem_rdata % HalfValues, HalfValues)
      [] mem_op = 5 -> mem_rdata % HalfValues
      [] mem_op = 2 -> mem_rdata
      [] OTHER      -> 0

\* Mutant: a half-word store keeps only the low byte of its operand.
MemWdataByte(mem_op, wdata) == IF mem_op % 4 < 2 THEN wdata % ByteSize ELSE wdata

\* mem_wdata: the low byte or half of the operand, in the low lanes.
MemWdata(mem_op, wdata) ==
    CASE mem_op % 4 = 0 -> wdata % ByteSize
      [] mem_op % 4 = 1 -> wdata % HalfValues
      [] OTHER          -> wdata

\* Mutant: a half-word store always enables the low two lanes.
MemBeLowHalf(mem_op, addr) ==
    CASE mem_op % 4 = 0 -> {addr % 4}
      [] mem_op % 4 = 1 -> {0, 1}
      [] OTHER          -> Lanes

\* mem_be: the lanes a store writes.
MemBe(mem_op, addr) ==
    CASE mem_op % 4 = 0 -> {addr % 4}
      [] mem_op % 4 = 1 -> IF addr % 4 >= 2 THEN {2, 3} ELSE {0, 1}
      [] OTHER          -> Lanes

\* The memory word after a store: each enabled lane takes that lane of mem_wdata.
Stored(mem_op, addr, wdata, word) ==
    Join([ i \in Lanes |-> ByteOf(IF i \in MemBe(mem_op, addr) THEN MemWdata(mem_op, wdata)
                                  ELSE word, i) ])

=============================================================================
