------------------------------ MODULE Decoder ------------------------------
(***************************************************************************)
(* The instruction decoder (rtl/generated/decoder.v): a combinational map  *)
(* from the fields of an instruction word to the control signals of the    *)
(* pipeline.                                                               *)
(*                                                                         *)
(* The fields of a word are a record                                       *)
(*    [opcode, rd, rs1, rs2, funct3, alt, imm]                             *)
(* where opcode is the name the decoder's comments give to instr[6:0]      *)
(* ("OTHER" for every value its case statement does not list), alt is      *)
(* instr[30], and imm is the immediate in the format of that opcode.       *)
(***************************************************************************)
EXTENDS Naturals

OpcodesWithImm == {"ITYPE", "LOAD", "STORE", "BRANCH", "JAL", "JALR", "LUI", "AUIPC"}
Opcodes == OpcodesWithImm \cup {"RTYPE", "SYSTEM", "OTHER"}

AluOps == {"ADD", "SUB", "AND", "OR", "XOR", "SLT", "SLTU", "SLL", "SRL", "SRA"}

\* dec_alu_op for funct3 and instr[30] of an R-type or I-type instruction; only
\* an R-type one has a SUB, while both have an SRA.
DecAluOp(opcode, funct3, alt) ==
    CASE funct3 = 0 -> IF opcode = "RTYPE" /\ alt THEN "SUB" ELSE "ADD"
      [] funct3 = 1 -> "SLL"
      [] funct3 = 2 -> "SLT"
      [] funct3 = 3 -> "SLTU"
      [] funct3 = 4 -> "XOR"
      [] funct3 = 5 -> IF alt THEN "SRA" ELSE "SRL"
      [] funct3 = 6 -> "OR"
      [] funct3 = 7 -> "AND"

\* Mutant: a CSR instruction selects the CSR read data.
WbSelCsr(opcode) ==
    CASE opcode = "LOAD" -> 1 [] opcode \in {"JAL", "JALR"} -> 2
      [] opcode = "SYSTEM" -> 3 [] OTHER -> 0

\* Write-back source: 0 the ALU result, 1 the loaded data, 2 the link.
WbSel(opcode) ==
    CASE opcode = "LOAD"            -> 1
      [] opcode \in {"JAL", "JALR"} -> 2
      [] OTHER                      -> 0

\* The decoder's outputs that the pipeline uses. rs2 and rd are the raw fields
\* even where the format has no such operand; rs1 is forced to x0 for LUI only.
Decode(f) ==
    [ rs1       |-> IF f.opcode = "LUI" THEN 0 ELSE f.rs1,
      rs2       |-> f.rs2,
      rd        |-> f.rd,
      imm       |-> IF f.opcode \in OpcodesWithImm THEN f.imm ELSE 0,
      alu_op    |-> IF f.opcode \in {"RTYPE", "ITYPE"}
                    THEN DecAluOp(f.opcode, f.funct3, f.alt) ELSE "ADD",
      alu_src   |-> f.opcode \in OpcodesWithImm \ {"BRANCH", "JAL"},
      mem_read  |-> f.opcode = "LOAD",
      mem_write |-> f.opcode = "STORE",
      wb_sel    |-> WbSel(f.opcode),
      reg_write |-> f.opcode \in {"RTYPE", "ITYPE", "LOAD", "JAL", "JALR", "LUI", "AUIPC"},
      branch    |-> f.opcode = "BRANCH",
      jump      |-> f.opcode \in {"JAL", "JALR"},
      funct3    |-> f.funct3,
      is_auipc  |-> f.opcode = "AUIPC" ]

=============================================================================
