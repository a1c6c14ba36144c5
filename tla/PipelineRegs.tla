---------------------------- MODULE PipelineRegs ----------------------------
(***************************************************************************)
(* The four pipeline registers (rtl/generated/pipeline_regs.v): their      *)
(* types, their reset values and what each holds after a clock edge.       *)
(* Fields of EX/MEM that nothing reads (branch_target, branch_taken,       *)
(* mem_read: the LSU ignores it) are left out.                             *)
(***************************************************************************)
EXTENDS Datapath

IfIdType  == [ pc : Word, instr : Word ]
ControlType == [ rs1 : RegNum, rs2 : RegNum, rd : RegNum, imm : Word,
                 alu_op : AluOps, alu_src : BOOLEAN, mem_read : BOOLEAN,
                 mem_write : BOOLEAN, wb_sel : 0 .. 2, reg_write : BOOLEAN,
                 branch : BOOLEAN, jump : BOOLEAN, funct3 : 0 .. 7,
                 is_auipc : BOOLEAN ]
IdExType  == [ pc : Word, pc_plus4 : Word, rs1_data : Word, rs2_data : Word,
               ctl : ControlType ]
ExMemType == [ alu_result : Word, rs2_data : Word, rd : RegNum,
               mem_write : BOOLEAN, wb_sel : 0 .. 2, reg_write : BOOLEAN,
               funct3 : 0 .. 7, pc_plus4 : Word ]
MemWbType == [ alu_result : Word, load_data : Word, rd : RegNum,
               reg_write : BOOLEAN, wb_sel : 0 .. 2, pc_plus4 : Word ]

\* Mutant: a bubble keeps the write enable of the instruction it replaces.
BubbleWrites(ctl) ==
    [ rs1 |-> ctl.rs1, rs2 |-> ctl.rs2, rd |-> ctl.rd, imm |-> 0, alu_op |-> "ADD",
      alu_src |-> FALSE, mem_read |-> FALSE, mem_write |-> FALSE, wb_sel |-> 0,
      reg_write |-> ctl.reg_write, branch |-> FALSE, jump |-> FALSE, funct3 |-> 0,
      is_auipc |-> FALSE ]

\* The control fields of a bubble: everything but the register numbers is zero.
Bubble(ctl) ==
    [ rs1 |-> ctl.rs1, rs2 |-> ctl.rs2, rd |-> ctl.rd, imm |-> 0, alu_op |-> "ADD",
      alu_src |-> FALSE, mem_read |-> FALSE, mem_write |-> FALSE, wb_sel |-> 0,
      reg_write |-> FALSE, branch |-> FALSE, jump |-> FALSE, funct3 |-> 0,
      is_auipc |-> FALSE ]

IfIdReset  == [ pc |-> 0, instr |-> 0 ]
IdExReset  ==
    [ pc |-> 0, pc_plus4 |-> 0, rs1_data |-> 0, rs2_data |-> 0,
      ctl |-> Bubble([ rs1 |-> 0, rs2 |-> 0, rd |-> 0, reg_write |-> FALSE ]) ]
ExMemReset == [ alu_result |-> 0, rs2_data |-> 0, rd |-> 0, mem_write |-> FALSE,
                wb_sel |-> 0, reg_write |-> FALSE, funct3 |-> 0, pc_plus4 |-> 0 ]
MemWbReset == [ alu_result |-> 0, load_data |-> 0, rd |-> 0, reg_write |-> FALSE,
                wb_sel |-> 0, pc_plus4 |-> 0 ]

\* Mutant: a stall is ignored and IF/ID takes the next instruction.
NextIfIdNoStall(ifid, flush, stall, pc, instr) ==
    [ pc |-> pc, instr |-> IF flush THEN Nop ELSE instr ]

\* A flush wins over a stall; the PC is recorded even with the flushed NOP.
NextIfId(ifid, flush, stall, pc, instr) ==
    IF flush THEN [ pc |-> pc, instr |-> Nop ]
    ELSE IF stall THEN ifid ELSE [ pc |-> pc, instr |-> instr ]

\* A flushed ID/EX keeps its PC, operands and register numbers; decoded is
\* what ID would put there (stall_id_ex is tied to 0 in top.v).
NextIdEx(idex, flush, decoded) ==
    IF flush THEN [ pc |-> idex.pc, pc_plus4 |-> 0, rs1_data |-> idex.rs1_data,
                    rs2_data |-> idex.rs2_data, ctl |-> Bubble(idex.ctl) ]
             ELSE decoded

=============================================================================
