------------------------------ MODULE CoreIsa ------------------------------
(***************************************************************************)
(* The properties of the core: that the pipeline implements the machine    *)
(* that executes one instruction at a time, and the invariants that make   *)
(* it do so.                                                               *)
(***************************************************************************)
EXTENDS Core

\* The value an instruction in EX/MEM is going to write back.
ExMemValue ==
    CASE exmem.wb_sel = 0 -> exmem.alu_result
      [] exmem.wb_sel = 1 -> LoadedWord
      [] OTHER            -> exmem.pc_plus4

\* The architectural state: the registers and the memory as they will be when
\* MEM/WB and then EX/MEM have completed, and the first instruction not executed.
ArchRegs ==
    LET afterWb == NextRegs
    IN  IF exmem.reg_write /\ exmem.rd /= 0
        THEN [ afterWb EXCEPT ![exmem.rd] = ExMemValue ] ELSE afterWb
ArchMem == NextMem
ArchPc  == IF exValid THEN idex.pc ELSE IF idValid THEN ifid.pc ELSE pc

---------------------------------------------------------------------------

(* The instructions in flight are consecutive: the one in ID follows the   *)
(* one in EX, and the fetch PC follows the one in ID. The link of a jump   *)
(* is computed from the fetch PC on the strength of this.                  *)
InOrder ==
    /\ idValid => pc = Add(ifid.pc, 4)
    /\ exValid => idValid /\ ifid.pc = Add(idex.pc, 4)

(* Whatever is not an instruction of the program - a flushed NOP, a bubble *)
(* with the register numbers of the instruction it replaced, the reset     *)
(* word - reaches EX with nothing to write and nowhere to jump.            *)
BubblesAreInert ==
    /\ ~idValid => ifid.instr \in {0, Nop}
    /\ ~exValid => /\ ~idex.ctl.mem_write /\ ~idex.ctl.mem_read
                   /\ ~idex.ctl.branch /\ ~idex.ctl.jump
                   /\ idex.ctl.reg_write => idex.ctl.rd = 0

(* EX/MEM forwards its ALU result whatever that instruction writes back:   *)
(* an instruction in EX never takes the address of a load, or the sum a    *)
(* jump computes beside its link, for the register's value.                *)
ForwardsAluResultsOnly ==
    exValid => \A rs \in {idex.ctl.rs1, idex.ctl.rs2} :
                  Writes(exmem, rs) => exmem.wb_sel = 0

(* The operands of the instruction in EX, after forwarding, are the values *)
(* its registers have when every older instruction has completed.          *)
OperandsCurrent ==
    exValid =>
      LET f == Fields(mem[Index(idex.pc)])
          value(r) == IF r = 0 THEN 0 ELSE ArchRegs[r]
      IN  /\ UsesRs1(f) => ForwardAVal = value(f.rs1)
          /\ UsesRs2(f) => ForwardBVal = value(f.rs2)

(* ... unless something has been read before an older instruction wrote it *)
(* (the register file has no write-through, and nothing compares a store   *)
(* with the instructions already fetched).                                 *)
OperandsCurrentUnlessStale == ~stale => OperandsCurrent

(* pc_plus4 of a jump in EX is the address of the next instruction.        *)
LinkIsPcPlus4 == exValid /\ idex.ctl.jump => idex.pc_plus4 = Add(idex.pc, 4)

(* The store data that enters EX/MEM is what ID read from the register     *)
(* file, as submission_Joshua_Thomas.md says top.v was rewired to pass it. *)
StoreDataIsIdExRs2 == [][ Clock => exmem'.rs2_data = idex.rs2_data ]_vars

(* The core never stops executing instructions: no stall lasts.            *)
KeepsExecuting == []<>exValid

---------------------------------------------------------------------------
(* What has to be added to make the invariants inductive.                  *)

\* Only a load and a jump write back something else than the ALU result; the
\* one stalls its users in ID, the other empties ID.
WbSelMatches == idex.ctl.wb_sel /= 0 => idex.ctl.mem_read \/ idex.ctl.jump

\* The link of the instruction in EX is two instructions further.
LinkAsBuilt == exValid => idex.pc_plus4 = Add(Add(idex.pc, 4), 4)

\* What ID and EX hold is still what memory holds at their addresses.
FetchedCurrent ==
    ~stale => /\ idValid => ifid.instr = mem[Index(ifid.pc)]
              /\ exValid => idex.ctl = Decode(Fields(mem[Index(idex.pc)]))

\* The value ID read for an operand of the instruction in EX is still that of
\* the register file, unless it is going to be forwarded.
ReadCurrent ==
    ~stale /\ exValid =>
      LET f == Fields(mem[Index(idex.pc)])
          current(rs, data) == Forward(exmem, memwb, rs) = 0 => data = RegRead(rs)
      IN  /\ UsesRs1(f) => current(f.rs1, idex.rs1_data)
          /\ UsesRs2(f) => current(f.rs2, idex.rs2_data)

\* The operand read from x0 stays 0 in ID/EX.
ZeroReadsZero ==
    /\ idex.ctl.rs1 = 0 => idex.rs1_data = 0
    /\ idex.ctl.rs2 = 0 => idex.rs2_data = 0

\* While rst is high nothing is in flight.
ResetHeld ==
    rst => /\ pc = 0 /\ ~idValid /\ ~exValid
           /\ exmem = ExMemReset /\ memwb = MemWbReset

(* The inductive invariant.                                                *)
IInv ==
    /\ TypeOK
    /\ InOrder
    /\ BubblesAreInert
    /\ WbSelMatches
    /\ ForwardsAluResultsOnly
    /\ LinkAsBuilt
    /\ FetchedCurrent
    /\ ReadCurrent
    /\ ZeroReadsZero
    /\ ResetHeld

---------------------------------------------------------------------------

AsBuilt == INSTANCE Isa WITH LinkOffset <- 8, apc <- ArchPc, aregs <- ArchRegs,
                             amem <- ArchMem, undefined <- stale

(* Seen one instruction at a time, the core is the machine of Isa with the *)
(* link it has as built: each clock edge with an instruction in EX is one  *)
(* step of it, every other edge none - as long as nothing stale is read.   *)
ImplementsIsa == AsBuilt!ASpec

=============================================================================
