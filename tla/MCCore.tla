------------------------------- MODULE MCCore -------------------------------
(***************************************************************************)
(* The core on 4-bit words (bytes of one bit), four words of memory and    *)
(* three registers. The sixteen words are sixteen instructions, so every   *)
(* store can also rewrite the program.                                     *)
(***************************************************************************)
EXTENDS CoreIsa

CONSTANTS
    Words,      \* the words of the first three memory locations
    LastWords   \* the words of the last memory location

UnitAlu == INSTANCE Alu WITH XLEN <- 4
UnitLsu == INSTANCE Lsu WITH ByteSize <- 2

MCAlu(op, a, b)        == UnitAlu!AluResultOf(op, a, b)
MCCondition(f3, a, b)  == UnitAlu!ConditionMet(f3, a, b)
MCLoadData(f3, a, w)   == UnitLsu!Rdata(f3, a, w)
MCStoreData(f3, a, d, w) == UnitLsu!Stored(f3, a, d, w)

I(opcode, rd, rs1, rs2, funct3, imm) ==
    [ opcode |-> opcode, rd |-> rd, rs1 |-> rs1, rs2 |-> rs2,
      funct3 |-> funct3, alt |-> FALSE, imm |-> imm ]

\* The instruction each word encodes. The fields a format does not have hold
\* other numbers there, as the bits of its immediate do.
MCFields(w) ==
    CASE w = 1  -> I("ITYPE", 0, 0, 0, 0, 0)     \* nop
      [] w = 2  -> I("ITYPE", 1, 1, 1, 0, 1)     \* addi x1, x1, 1
      [] w = 3  -> I("OTHER", 0, 0, 0, 1, 0)     \* fence.i
      [] w = 4  -> I("RTYPE", 1, 1, 2, 0, 0)     \* add  x1, x1, x2
      [] w = 5  -> I("LUI", 2, 1, 1, 0, 8)       \* lui  x2, 8
      [] w = 6  -> I("LOAD", 1, 2, 1, 2, 4)      \* lw   x1, 4(x2)
      [] w = 7  -> I("LOAD", 2, 1, 0, 2, 0)      \* lw   x2, 0(x1)
      [] w = 8  -> I("STORE", 1, 1, 2, 2, 0)     \* sw   x2, 0(x1)
      [] w = 9  -> I("SYSTEM", 1, 1, 2, 2, 0)    \* csrrs x1, csr, x1
      [] w = 10 -> I("BRANCH", 1, 1, 2, 0, 8)    \* beq  x1, x2, +8
      [] w = 11 -> I("BRANCH", 2, 1, 0, 1, 12)   \* bne  x1, x0, -4
      [] w = 12 -> I("JAL", 1, 2, 1, 0, 8)       \* jal  x1, +8
      [] w = 13 -> I("JALR", 2, 1, 0, 0, 0)      \* jalr x2, 0(x1)
      [] w = 14 -> I("JAL", 0, 0, 0, 0, 0)       \* jal  x0, 0
      [] w = 15 -> I("AUIPC", 2, 1, 1, 0, 4)     \* auipc x2, 4
      [] OTHER  -> I("OTHER", 1, 1, 2, 0, 0)     \* no RV32I instruction

MCImages == { [ i \in MemIdx |-> IF i = 3 THEN last ELSE body[i] ] :
                 body \in [ 0 .. 2 -> Words ], last \in LastWords }

\* The storage behind x0 holds something else than 0.
MCRegInits == { [ r \in RegNum |-> r + 1 ] }

\* rag/knowledge.py: with one memory for instructions and data, the instruction
\* after a fence.i (in EX) is what every older store has left in memory.
FenceIMakesCurrent ==
    exValid /\ mem[Index(idex.pc)] = 3 => ifid.instr = ArchMem[Index(ifid.pc)]

\* rag/generator.py: "wb_sel=2'b11 for CSR instructions", the source 3 that
\* top.v's write-back multiplexer has for the CSR read data.
CsrIsWrittenBack ==
    idValid /\ Fields(ifid.instr).opcode = "SYSTEM" => Decoded.reg_write /\ Decoded.wb_sel = 3

=============================================================================
