------------------------------ MODULE Datapath ------------------------------
(***************************************************************************)
(* Words, addresses and the functional units of the core, as parameters.   *)
(* The pipeline (Core) and the instruction-set machine (Isa) are both      *)
(* written over these operators, so what is shown about the one and the    *)
(* other holds for every ALU, branch condition and load/store unit; the    *)
(* units themselves are modelled in Alu and Lsu.                           *)
(***************************************************************************)
EXTENDS Integers, Decoder

CONSTANTS
    WordSize,           \* the number of words: 2^32 in the code
    MemWords,           \* the number of words in memory: 65536 in the code
    RegCount,           \* the number of registers: 32 in the code
    Nop,                \* the word 0x13 a flushed IF/ID holds
    Fields(_),          \* the fields of an instruction word
    Alu(_, _, _),       \* alu.v: (alu_op, a, b)
    Condition(_, _, _), \* branch_unit.v: (funct3, rs1, rs2)
    LoadData(_, _, _),  \* lsu.v, rdata: (funct3, addr, memory word)
    StoreData(_, _, _, _) \* lsu.v and top.v, the word written:
                        \* (funct3, addr, store data, memory word)

Word    == 0 .. WordSize - 1
MemIdx  == 0 .. MemWords - 1
RegNum  == 0 .. RegCount - 1

ASSUME SizeAssumption ==
    /\ WordSize \in Nat /\ WordSize > 8
    /\ MemWords \in Nat \ {0}
    /\ RegCount \in Nat \ {0}

FieldsType == [ opcode : Opcodes, rd : RegNum, rs1 : RegNum, rs2 : RegNum,
                funct3 : 0 .. 7, alt : BOOLEAN, imm : Word ]

\* 0x13 is addi x0, x0, 0; the all-zero word is no RV32I instruction.
ASSUME FieldsAssumption ==
    /\ \A w \in Word : Fields(w) \in FieldsType
    /\ Nop \in Word
    /\ Fields(Nop).opcode = "ITYPE" /\ Fields(Nop).rd = 0
    /\ Fields(0).opcode = "OTHER"

\* 32-bit addition; bit 0 cleared; the word of memory an address selects
\* (bits 17:2 in the code, so that memory repeats through the address space).
Add(a, b) == (a + b) % WordSize
Even(a)   == a - (a % 2)
Index(a)  == (a \div 4) % MemWords

ASSUME AluAssumption ==
    \A a, b \in Word :
        /\ \A op \in AluOps : Alu(op, a, b) \in Word
        /\ Alu("ADD", a, b) = Add(a, b)

ASSUME UnitAssumption ==
    \A f3 \in 0 .. 7, a, b \in Word :
        /\ Condition(f3, a, b) \in BOOLEAN
        /\ LoadData(f3, a, b) \in Word
        /\ \A c \in Word : StoreData(f3, a, b, c) \in Word

=============================================================================
