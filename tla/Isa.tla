-------------------------------- MODULE Isa --------------------------------
(***************************************************************************)
(* What the core promises: the RV32I machine that executes one instruction *)
(* per step, with no pipeline. `undefined' is raised when the program has  *)
(* done something the core makes no promise about; from then on any        *)
(* behaviour is allowed.                                                   *)
(*                                                                         *)
(* LinkOffset is the distance from a jump to the address it links: 4 in    *)
(* the RISC-V manual and in rag/knowledge.py, 8 in the generated core.     *)
(***************************************************************************)
EXTENDS Datapath

CONSTANTS LinkOffset, Images, RegInits

VARIABLES apc, aregs, amem, undefined

avars == << apc, aregs, amem, undefined >>

AInstr == Fields(amem[Index(apc)])

\* The two source operands of the next instruction.
A == IF AInstr.rs1 = 0 THEN 0 ELSE aregs[AInstr.rs1]
B == IF AInstr.rs2 = 0 THEN 0 ELSE aregs[AInstr.rs2]

EffAddr == Add(A, AInstr.imm)
Operation == DecAluOp(AInstr.opcode, AInstr.funct3, AInstr.alt)

\* The result of an instruction that has a destination register.
Result ==
    CASE AInstr.opcode = "RTYPE" -> Alu(Operation, A, B)
      [] AInstr.opcode = "ITYPE" -> Alu(Operation, A, AInstr.imm)
      [] AInstr.opcode = "LOAD"  -> LoadData(AInstr.funct3, EffAddr, amem[Index(EffAddr)])
      [] AInstr.opcode = "LUI"   -> AInstr.imm
      [] AInstr.opcode = "AUIPC" -> Add(apc, AInstr.imm)
      [] OTHER                   -> Add(apc, LinkOffset)

HasResult == AInstr.opcode \in {"RTYPE", "ITYPE", "LOAD", "LUI", "AUIPC", "JAL", "JALR"}

NextInstr ==
    CASE AInstr.opcode = "JAL"  -> Add(apc, AInstr.imm)
      [] AInstr.opcode = "JALR" -> Even(EffAddr)
      [] AInstr.opcode = "BRANCH" /\ Condition(AInstr.funct3, A, B) -> Add(apc, AInstr.imm)
      [] OTHER -> Add(apc, 4)

Execute ==
    /\ apc' = NextInstr
    /\ aregs' = IF HasResult /\ AInstr.rd /= 0
                THEN [ aregs EXCEPT ![AInstr.rd] = Result ] ELSE aregs
    /\ amem' = IF AInstr.opcode = "STORE"
               THEN [ amem EXCEPT ![Index(EffAddr)] =
                          StoreData(AInstr.funct3, EffAddr, B, @) ]
               ELSE amem
    /\ UNCHANGED undefined

Undefined ==
    /\ undefined'
    /\ apc' \in Word /\ aregs' \in [ RegNum -> Word ] /\ amem' \in [ MemIdx -> Word ]

AInit == apc = 0 /\ aregs \in RegInits /\ amem \in Images /\ undefined = FALSE

ANext == Execute \/ Undefined

ASpec == AInit /\ [][ANext]_avars

=============================================================================
