-------------------------------- MODULE Core --------------------------------
(***************************************************************************)
(* The generated five-stage core (rtl/generated/top.v with the modules it  *)
(* instantiates). One action is one rising clock edge: every register, the *)
(* register file and the memory take the values their always blocks give   *)
(* them, all computed from the state before the edge.                      *)
(*                                                                         *)
(* Three history variables record what the hardware does not: whether      *)
(* IF/ID and ID/EX hold an instruction the program really executes (not a  *)
(* bubble, a flushed NOP or a reset value), and whether an operand or an   *)
(* instruction has been read before an older instruction wrote it.         *)
(***************************************************************************)
EXTENDS PipelineRegs, HazardUnit

CONSTANTS
    Images,     \* the memory contents at power-on (top.v loads none)
    RegInits    \* the register contents at power-on (regfile.v resets none)

ASSUME PowerOnAssumption ==
    /\ Images \subseteq [ MemIdx -> Word ]
    /\ RegInits \subseteq [ RegNum -> Word ]

VARIABLES
    rst,        \* the reset input
    pc, ifid, idex, exmem, memwb, regs, mem,
    idValid,    \* history: IF/ID holds an instruction of the program
    exValid,    \* history: ID/EX holds an instruction of the program
    stale       \* history: something was read before it was written

hw   == << pc, ifid, idex, exmem, memwb, regs, mem >>
vars == << rst, hw, idValid, exValid, stale >>

TypeOK ==
    /\ rst \in BOOLEAN
    /\ pc \in Word
    /\ ifid \in IfIdType /\ idex \in IdExType
    /\ exmem \in ExMemType /\ memwb \in MemWbType
    /\ regs \in [ RegNum -> Word ]
    /\ mem \in [ MemIdx -> Word ]
    /\ idValid \in BOOLEAN /\ exValid \in BOOLEAN /\ stale \in BOOLEAN

---------------------------------------------------------------------------
(* Combinational logic of top.v, over the state before the edge.           *)

\* Mutant: a read of x0 returns the storage behind it.
RegReadRaw(r) == regs[r]

RegRead(r) == IF r = 0 THEN 0 ELSE regs[r]

CsrRdata == 0       \* csr_unit.v: every CSR reads 0

\* regfile_wdata: the value MEM/WB writes back.
RegfileWdata ==
    CASE memwb.wb_sel = 0 -> memwb.alu_result
      [] memwb.wb_sel = 1 -> memwb.load_data
      [] memwb.wb_sel = 2 -> memwb.pc_plus4
      [] OTHER            -> CsrRdata

ForwardVal(rs, data) ==
    LET sel == Forward(exmem, memwb, rs)
    IN  CASE sel = 1 -> exmem.alu_result
          [] sel = 2 -> RegfileWdata
          [] OTHER   -> data

ForwardAVal == ForwardVal(idex.ctl.rs1, idex.rs1_data)
ForwardBVal == ForwardVal(idex.ctl.rs2, idex.rs2_data)

AluResult ==
    Alu(idex.ctl.alu_op,
        IF idex.ctl.is_auipc THEN idex.pc ELSE ForwardAVal,
        IF idex.ctl.alu_src THEN idex.ctl.imm ELSE ForwardBVal)

\* branch_unit.v as top.v instantiates it: a jump is a JALR when its ALU source
\* is the immediate, and a JAL otherwise.
IsJalr       == idex.ctl.jump /\ idex.ctl.alu_src
BranchTaken  ==
    \/ idex.ctl.jump
    \/ idex.ctl.branch /\ Condition(idex.ctl.funct3, ForwardAVal, ForwardBVal)

\* Mutant: bit 0 of a JALR target is kept.
BranchTargetOdd ==
    Add(IF IsJalr THEN ForwardAVal ELSE idex.pc, idex.ctl.imm)

BranchTarget ==
    IF IsJalr THEN Even(Add(ForwardAVal, idex.ctl.imm))
              ELSE Add(idex.pc, idex.ctl.imm)

Fetched == mem[Index(pc)]
Decoded == Decode(Fields(ifid.instr))
Stall   == LoadUse(idex.ctl, Decoded.rs1, Decoded.rs2)
Flush   == IdExFlush(Stall, BranchTaken)

LoadedWord == LoadData(exmem.funct3, exmem.alu_result, mem[Index(exmem.alu_result)])

---------------------------------------------------------------------------
(* The state after the edge, one operator per register.                    *)

NextPc ==
    IF BranchTaken THEN BranchTarget
    ELSE IF ~PcWrite(Stall) THEN pc ELSE Add(pc, 4)

\* What ID passes to ID/EX. The link, pc_plus4, is computed from the PC of the
\* fetch stage (top.v line 236).
IdOutput ==
    [ pc |-> ifid.pc, pc_plus4 |-> Add(pc, 4),
      rs1_data |-> RegRead(Decoded.rs1), rs2_data |-> RegRead(Decoded.rs2),
      ctl |-> Decoded ]

ExOutput ==
    [ alu_result |-> AluResult, rs2_data |-> ForwardBVal, rd |-> idex.ctl.rd,
      mem_write |-> idex.ctl.mem_write, wb_sel |-> idex.ctl.wb_sel,
      reg_write |-> idex.ctl.reg_write, funct3 |-> idex.ctl.funct3,
      pc_plus4 |-> idex.pc_plus4 ]

MemOutput ==
    [ alu_result |-> exmem.alu_result, load_data |-> LoadedWord, rd |-> exmem.rd,
      reg_write |-> exmem.reg_write, wb_sel |-> exmem.wb_sel,
      pc_plus4 |-> exmem.pc_plus4 ]

NextRegs ==
    IF memwb.reg_write /\ memwb.rd /= 0
    THEN [ regs EXCEPT ![memwb.rd] = RegfileWdata ] ELSE regs

NextMem ==
    IF exmem.mem_write
    THEN LET i == Index(exmem.alu_result)
         IN  [ mem EXCEPT ![i] = StoreData(exmem.funct3, exmem.alu_result,
                                           exmem.rs2_data, @) ]
    ELSE mem

---------------------------------------------------------------------------
(* History: reads that come too early.                                     *)

UsesRs1(f) == f.opcode \in {"RTYPE", "ITYPE", "LOAD", "STORE", "BRANCH", "JALR"}
UsesRs2(f) == f.opcode \in {"RTYPE", "STORE", "BRANCH"}
Operands(f) == (IF UsesRs1(f) THEN {f.rs1} ELSE {}) \cup (IF UsesRs2(f) THEN {f.rs2} ELSE {})

\* The instruction leaving ID reads a register that MEM/WB writes at this very
\* edge, and no instruction between the two will forward a newer value to it.
StaleRead ==
    /\ idValid /\ ~Flush
    /\ \E r \in Operands(Fields(ifid.instr)) :
          Writes(memwb, r) /\ ~Writes(exmem, r) /\ ~Writes(idex.ctl, r)

\* A store writes the word of an instruction that has already been fetched.
StaleFetch ==
    /\ exmem.mem_write
    /\ \/ exValid /\ Index(idex.pc) = Index(exmem.alu_result)
       \/ ~BranchTaken /\ idValid /\ Index(ifid.pc) = Index(exmem.alu_result)
       \/ ~BranchTaken /\ ~Stall /\ Index(pc) = Index(exmem.alu_result)

---------------------------------------------------------------------------

Init ==
    /\ rst = TRUE
    /\ pc = 0
    /\ ifid = IfIdReset /\ idex = IdExReset
    /\ exmem = ExMemReset /\ memwb = MemWbReset
    /\ regs \in RegInits
    /\ mem \in Images
    /\ idValid = FALSE /\ exValid = FALSE /\ stale = FALSE

\* A clock edge with rst high. The register file and the memory have no reset,
\* and their write enables are already 0.
Reset ==
    /\ rst
    /\ pc' = 0
    /\ ifid' = IfIdReset /\ idex' = IdExReset
    /\ exmem' = ExMemReset /\ memwb' = MemWbReset
    /\ regs' = NextRegs
    /\ mem' = NextMem
    /\ rst' \in BOOLEAN
    /\ idValid' = FALSE /\ exValid' = FALSE
    /\ UNCHANGED stale

\* A clock edge with rst low.
Clock ==
    /\ ~rst
    /\ pc' = NextPc
    /\ ifid' = NextIfId(ifid, IfIdFlush(BranchTaken), ~IfIdWrite(Stall), pc, Fetched)
    /\ idex' = NextIdEx(idex, Flush, IdOutput)
    /\ exmem' = ExOutput
    /\ memwb' = MemOutput
    /\ regs' = NextRegs
    /\ mem' = NextMem
    /\ idValid' = IF IfIdFlush(BranchTaken) THEN FALSE ELSE Stall => idValid
    /\ exValid' = (idValid /\ ~Flush)
    /\ stale' = (stale \/ StaleRead \/ StaleFetch)
    /\ UNCHANGED rst

Next == Reset \/ Clock

Spec == Init /\ [][Next]_vars /\ WF_vars(Next)

=============================================================================
