----------------------------- MODULE HazardUnit -----------------------------
(***************************************************************************)
(* The hazard unit (rtl/generated/hazard_unit.v): stall, flush and         *)
(* forwarding selects as functions of what the four pipeline registers     *)
(* hold. rs1, rs2 are register numbers read by an instruction in ID or EX; *)
(* idex, exmem and memwb are pipeline registers (module PipelineRegs).     *)
(***************************************************************************)
EXTENDS Naturals

\* Mutant: the bubble's stale rd field stalls again, as if every instruction
\* in EX were a load.
LoadUseAnyRd(idex, rs1, rs2) == idex.rd /= 0 /\ idex.rd \in {rs1, rs2}

\* Mutant: the second source of the instruction in ID is not compared.
LoadUseRs1Only(idex, rs1, rs2) == idex.mem_read /\ idex.rd /= 0 /\ idex.rd = rs1

\* Mutant: a load into x0 stalls whoever names x0.
LoadUseX0(idex, rs1, rs2) == idex.mem_read /\ idex.rd \in {rs1, rs2}

\* A load in EX whose destination the instruction in ID names as a source.
LoadUse(idex, rs1, rs2) ==
    /\ idex.mem_read
    /\ idex.rd /= 0
    /\ idex.rd \in {rs1, rs2}

\* A load-use stall holds the PC and IF/ID and puts a bubble into ID/EX; a taken
\* branch empties IF/ID and ID/EX.
PcWrite(loadUse) == ~loadUse
IfIdWrite(loadUse) == ~loadUse
IfIdFlush(branchTaken) == branchTaken

IdExFlush(loadUse, branchTaken) == loadUse \/ branchTaken

Writes(stage, r) == stage.reg_write /\ stage.rd /= 0 /\ stage.rd = r

\* Mutant: the older result wins when both EX/MEM and MEM/WB write the register.
ForwardOldest(exmem, memwb, rs) ==
    IF Writes(memwb, rs) THEN 2 ELSE IF Writes(exmem, rs) THEN 1 ELSE 0

\* forward_a and forward_b: 1 from EX/MEM, 2 from MEM/WB, 0 the value read in ID.
Forward(exmem, memwb, rs) ==
    IF Writes(exmem, rs) THEN 1 ELSE IF Writes(memwb, rs) THEN 2 ELSE 0

=============================================================================
