----------------------------- MODULE CoreProofs -----------------------------
(***************************************************************************)
(* Proofs about the core, for every word size, memory size, number of      *)
(* registers, instruction encoding, ALU, comparator and load/store unit    *)
(* that satisfy the assumptions of Datapath, and every power-on content of *)
(* the memory and the register file.                                       *)
(***************************************************************************)
EXTENDS TestBench, TLAPS

---------------------------------------------------------------------------
(* Words and addresses.                                                    *)

\* The sum of two words is a word, whatever overflows.
LEMMA AddType ==
    ASSUME NEW a \in Nat, NEW b \in Nat PROVE Add(a, b) \in Word
BY SizeAssumption DEF Add, Word

\* Clearing bit 0 of a word gives a word.
LEMMA EvenType == ASSUME NEW a \in Word PROVE Even(a) \in Word
BY SizeAssumption DEF Even, Word

\* Every address selects a word of memory.
LEMMA IndexType == ASSUME NEW a \in Word PROVE Index(a) \in MemIdx
<1>1. a \div 4 \in Nat
  BY SizeAssumption DEF Word
<1> QED
  BY <1>1, SizeAssumption DEF Index, MemIdx

\* Zero is a word, a register number and, with 4 and 8, a natural number.
LEMMA ZeroType == 0 \in Word /\ 0 \in RegNum /\ Word \subseteq Nat
BY SizeAssumption DEF Word, RegNum

---------------------------------------------------------------------------
(* Control signals.                                                        *)

\* The decoder's outputs have their types for every instruction word.
LEMMA DecodeType == ASSUME NEW f \in FieldsType PROVE Decode(f) \in ControlType
<1>1. f.funct3 \in 0 .. 7 => DecAluOp(f.opcode, f.funct3, f.alt) \in AluOps
  BY DEF DecAluOp, AluOps
<1>2. WbSel(f.opcode) \in 0 .. 2
  BY DEF WbSel
<1>3. "ADD" \in AluOps
  BY DEF AluOps
<1> QED
  BY <1>1, <1>2, <1>3, ZeroType DEF Decode, ControlType, FieldsType

\* A bubble has the types of the control signals.
LEMMA BubbleType == ASSUME NEW c \in ControlType PROVE Bubble(c) \in ControlType
BY ZeroType DEF Bubble, ControlType, AluOps

---------------------------------------------------------------------------
(* Types of the combinational logic.                                       *)

\* What the instruction in ID decodes to.
LEMMA DecodedType == TypeOK => Decoded \in ControlType
<1> SUFFICES ASSUME TypeOK PROVE Decoded \in ControlType
  OBVIOUS
<1>1. Fields(ifid.instr) \in FieldsType
  BY FieldsAssumption DEF TypeOK, IfIdType
<1> QED
  BY <1>1, DecodeType DEF Decoded

\* The value MEM/WB writes back and the forwarded operands are words.
LEMMA OperandType ==
    TypeOK => RegfileWdata \in Word /\ ForwardAVal \in Word /\ ForwardBVal \in Word
<1> SUFFICES ASSUME TypeOK
             PROVE RegfileWdata \in Word /\ ForwardAVal \in Word /\ ForwardBVal \in Word
  OBVIOUS
<1>1. RegfileWdata \in Word
  BY ZeroType DEF TypeOK, MemWbType, RegfileWdata, CsrRdata
<1>2. ASSUME NEW r, NEW d \in Word PROVE ForwardVal(r, d) \in Word
  BY <1>1 DEF ForwardVal, TypeOK, ExMemType
<1> QED
  BY <1>1, <1>2 DEF ForwardAVal, ForwardBVal, TypeOK, IdExType

\* The result of the ALU and the next PC are words.
LEMMA ExecuteType == TypeOK => AluResult \in Word /\ NextPc \in Word
<1> SUFFICES ASSUME TypeOK PROVE AluResult \in Word /\ NextPc \in Word
  OBVIOUS
<1>1. /\ idex.pc \in Word /\ idex.ctl.imm \in Word
      /\ idex.ctl.alu_op \in AluOps /\ pc \in Word
  BY DEF TypeOK, IdExType, ControlType
<1>2. AluResult \in Word
  BY <1>1, OperandType, AluAssumption DEF AluResult
<1>3. BranchTarget \in Word
  BY <1>1, OperandType, AddType, EvenType, ZeroType DEF BranchTarget
<1>4. Add(pc, 4) \in Word
  BY <1>1, AddType, ZeroType
<1> QED
  BY <1>1, <1>2, <1>3, <1>4 DEF NextPc

\* The state of the memory and of the register file after an edge.
LEMMA StorageType ==
    TypeOK => /\ LoadedWord \in Word
              /\ NextMem \in [ MemIdx -> Word ] /\ NextRegs \in [ RegNum -> Word ]
<1> SUFFICES ASSUME TypeOK
             PROVE  /\ LoadedWord \in Word
                    /\ NextMem \in [ MemIdx -> Word ] /\ NextRegs \in [ RegNum -> Word ]
  OBVIOUS
<1>1. /\ exmem.alu_result \in Word /\ exmem.rs2_data \in Word
      /\ exmem.funct3 \in 0 .. 7 /\ mem \in [ MemIdx -> Word ]
  BY DEF TypeOK, ExMemType
<1>2. Index(exmem.alu_result) \in MemIdx
  BY <1>1, IndexType
<1>3. mem[Index(exmem.alu_result)] \in Word
  BY <1>1, <1>2
<1>4. LoadedWord \in Word
  BY <1>1, <1>3, UnitAssumption DEF LoadedWord
<1>5. StoreData(exmem.funct3, exmem.alu_result, exmem.rs2_data,
                mem[Index(exmem.alu_result)]) \in Word
  BY <1>1, <1>3, UnitAssumption
<1>6. NextMem \in [ MemIdx -> Word ]
  BY <1>1, <1>2, <1>5 DEF NextMem
<1>7. NextRegs \in [ RegNum -> Word ]
  BY OperandType DEF NextRegs, TypeOK, MemWbType
<1> QED
  BY <1>4, <1>6, <1>7

---------------------------------------------------------------------------
(* The type invariant.                                                     *)

\* The reset values have their types.
LEMMA ResetType ==
    /\ IfIdReset \in IfIdType /\ IdExReset \in IdExType
    /\ ExMemReset \in ExMemType /\ MemWbReset \in MemWbType
<1>1. "ADD" \in AluOps
  BY DEF AluOps
<1>2. IfIdReset \in IfIdType
  BY ZeroType DEF IfIdReset, IfIdType
<1>3. IdExReset \in IdExType
  BY ZeroType, <1>1 DEF IdExReset, IdExType, ControlType, Bubble
<1>4. ExMemReset \in ExMemType
  BY ZeroType DEF ExMemReset, ExMemType
<1>5. MemWbReset \in MemWbType
  BY ZeroType DEF MemWbReset, MemWbType
<1> QED
  BY <1>2, <1>3, <1>4, <1>5

\* The power-on state has the types of the registers.
LEMMA InitType == Init => TypeOK
BY ResetType, ZeroType, PowerOnAssumption DEF Init, TypeOK

\* A clock edge, with rst high or low, preserves the types.
LEMMA NextType == TypeOK /\ Next => TypeOK'
<1> SUFFICES ASSUME TypeOK, Next PROVE TypeOK'
  OBVIOUS
<1>1. CASE Reset
  BY <1>1, ResetType, ZeroType, StorageType DEF Reset, TypeOK
<1>2. CASE Clock
  <2>1. pc' \in Word
    BY <1>2, ExecuteType DEF Clock
  <2>2. Fetched \in Word
    BY IndexType DEF Fetched, TypeOK
  <2>3. ifid' \in IfIdType
    BY <1>2, <2>2, FieldsAssumption DEF Clock, NextIfId, TypeOK, IfIdType
  <2>4. RegRead(Decoded.rs1) \in Word /\ RegRead(Decoded.rs2) \in Word
    BY DecodedType, ZeroType DEF RegRead, TypeOK, ControlType
  <2>5. IdOutput \in IdExType
    BY <2>4, DecodedType, AddType, ZeroType DEF IdOutput, IdExType, TypeOK, IfIdType
  <2>6. Bubble(idex.ctl) \in ControlType
    BY BubbleType DEF TypeOK, IdExType
  <2>7. idex' \in IdExType
    BY <1>2, <2>5, <2>6, ZeroType DEF Clock, NextIdEx, TypeOK, IdExType
  <2>8. exmem' \in ExMemType
    BY <1>2, ExecuteType, OperandType
       DEF Clock, ExOutput, ExMemType, TypeOK, IdExType, ControlType
  <2>9. memwb' \in MemWbType
    BY <1>2, StorageType DEF Clock, MemOutput, MemWbType, TypeOK, ExMemType
  <2>10. regs' \in [ RegNum -> Word ] /\ mem' \in [ MemIdx -> Word ]
    BY <1>2, StorageType DEF Clock
  <2>11. rst' \in BOOLEAN /\ idValid' \in BOOLEAN /\ exValid' \in BOOLEAN /\ stale' \in BOOLEAN
    BY <1>2, Zenon DEF Clock, TypeOK
  <2> QED
    BY <2>1, <2>3, <2>7, <2>8, <2>9, <2>10, <2>11 DEF TypeOK
<1> QED
  BY <1>1, <1>2 DEF Next

\* Type correctness of the core: every register always holds a value of its
\* width, whatever the program, the encoding and the functional units.
THEOREM TypeCorrect == Spec => []TypeOK
<1>1. TypeOK /\ UNCHANGED vars => TypeOK'
  BY DEF TypeOK, vars, hw
<1> QED
  BY InitType, NextType, <1>1, PTL DEF Spec

---------------------------------------------------------------------------
(* The inductive invariant.                                                *)

\* A flushed NOP and the reset word decode to an instruction without effect.
LEMMA NopIsInert ==
    ASSUME NEW w \in {0, Nop}
    PROVE  LET c == Decode(Fields(w))
           IN  /\ ~c.mem_write /\ ~c.mem_read /\ ~c.branch /\ ~c.jump
               /\ c.reg_write => c.rd = 0
BY FieldsAssumption DEF Decode

\* A clock edge leaves a word of memory alone unless EX/MEM stores to it.
LEMMA MemKept ==
    ASSUME TypeOK, NEW j \in MemIdx,
           ~(exmem.mem_write /\ Index(exmem.alu_result) = j)
    PROVE  NextMem[j] = mem[j]
<1>1. mem \in [ MemIdx -> Word ]
  BY DEF TypeOK
<1> QED
  BY <1>1 DEF NextMem

\* A clock edge leaves a register alone unless MEM/WB writes it.
LEMMA RegKept ==
    ASSUME TypeOK, NEW r \in RegNum, r /= 0, ~Writes(memwb, r)
    PROVE  NextRegs[r] = regs[r]
<1>1. regs \in [ RegNum -> Word ]
  BY DEF TypeOK
<1> QED
  BY <1>1 DEF NextRegs, Writes

\* An instruction reaches EX only from ID, when it is neither stalled there nor
\* on the wrong side of a branch taken in EX.
LEMMA EntersEx ==
    ASSUME Clock, exValid'
    PROVE  idValid /\ ~Stall /\ ~BranchTaken /\ idex' = IdOutput
BY DEF Clock, Flush, IdExFlush, NextIdEx

\* What IF/ID holds after an edge.
LEMMA EntersId ==
    ASSUME Clock, idValid'
    PROVE  /\ ~BranchTaken
           /\ Stall => idValid /\ ifid' = ifid /\ pc' = pc
           /\ ~Stall => ifid' = [ pc |-> pc, instr |-> Fetched ] /\ pc' = Add(pc, 4)
BY DEF Clock, IfIdFlush, IfIdWrite, NextIfId, NextPc, PcWrite

\* The inductive invariant holds at power-on.
LEMMA InitInv == Init => IInv
BY InitType
   DEF Init, IInv, InOrder, BubblesAreInert, WbSelMatches, ForwardsAluResultsOnly,
       LinkAsBuilt, FetchedCurrent, ReadCurrent, ZeroReadsZero, ResetHeld,
       IfIdReset, IdExReset, Bubble

\* The inductive invariant is preserved while rst is high.
LEMMA ResetInv == IInv /\ Reset => IInv'
<1> SUFFICES ASSUME IInv, Reset PROVE IInv'
  OBVIOUS
<1>1. TypeOK'
  BY NextType DEF IInv, Next
<1>2. /\ ~idValid' /\ ~exValid' /\ ifid' = IfIdReset /\ idex' = IdExReset
      /\ pc' = 0 /\ exmem' = ExMemReset /\ memwb' = MemWbReset
  BY DEF Reset
<1> QED
  BY <1>1, <1>2
     DEF IInv, InOrder, BubblesAreInert, WbSelMatches, ForwardsAluResultsOnly,
         LinkAsBuilt, FetchedCurrent, ReadCurrent, ZeroReadsZero, ResetHeld,
       IfIdReset, IdExReset, Bubble

\* The inductive invariant is preserved by a clock edge.
LEMMA ClockInv == IInv /\ Clock => IInv'
<1> SUFFICES ASSUME IInv, Clock PROVE IInv'
  OBVIOUS
<1>1. TypeOK /\ TypeOK'
  BY NextType DEF IInv, Next
<1>2. InOrder'
  <2>1. idValid' => pc' = Add(ifid'.pc, 4)
    BY EntersId DEF IInv, InOrder
  <2>2. exValid' => idValid' /\ ifid'.pc = Add(idex'.pc, 4)
    <3> SUFFICES ASSUME exValid' PROVE idValid' /\ ifid'.pc = Add(idex'.pc, 4)
      OBVIOUS
    <3>1. idValid /\ ~Stall /\ ~BranchTaken /\ idex'.pc = ifid.pc
      BY EntersEx DEF IdOutput
    <3>2. idValid'
      BY <3>1, Zenon DEF Clock, IfIdFlush
    <3>3. ifid'.pc = pc
      BY <3>1, <3>2, EntersId
    <3> QED
      BY <3>1, <3>2, <3>3 DEF IInv, InOrder
  <2> QED
    BY <2>1, <2>2 DEF InOrder
<1>3. BubblesAreInert'
  <2>1. ~idValid' => ifid'.instr \in {0, Nop}
    BY DEF IInv, BubblesAreInert, Clock, IfIdFlush, IfIdWrite, NextIfId
  <2>2. CASE Flush
    BY <2>1, <2>2 DEF Clock, NextIdEx, Bubble, BubblesAreInert
  <2>3. CASE ~Flush
    <3>1. idex'.ctl = Decode(Fields(ifid.instr))
      BY <2>3 DEF Clock, NextIdEx, IdOutput, Decoded
    <3>2. ~exValid' => ifid.instr \in {0, Nop}
      BY <2>3 DEF Clock, IInv, BubblesAreInert
    <3> QED
      BY <2>1, <3>1, <3>2, NopIsInert DEF BubblesAreInert
  <2> QED
    BY <2>2, <2>3
<1>4. WbSelMatches'
  <2>1. CASE Flush
    BY <2>1 DEF Clock, NextIdEx, Bubble, WbSelMatches
  <2>2. CASE ~Flush
    BY <2>2 DEF Clock, NextIdEx, IdOutput, Decoded, Decode, WbSel, WbSelMatches
  <2> QED
    BY <2>1, <2>2
<1>5. ForwardsAluResultsOnly'
  <2> SUFFICES ASSUME exValid', NEW rs \in {idex'.ctl.rs1, idex'.ctl.rs2},
                      Writes(exmem', rs)
               PROVE  exmem'.wb_sel = 0
    BY DEF ForwardsAluResultsOnly
  <2>1. ~Stall /\ ~BranchTaken /\ idex'.ctl = Decoded
    BY EntersEx DEF IdOutput
  <2>2. exmem'.wb_sel = idex.ctl.wb_sel /\ idex.ctl.rd = rs /\ rs /= 0
    BY DEF Clock, ExOutput, Writes
  <2>3. ~idex.ctl.mem_read
    BY <2>1, <2>2 DEF Stall, LoadUse
  <2>4. ~idex.ctl.jump
    BY <2>1 DEF BranchTaken
  <2> QED
    BY <2>2, <2>3, <2>4 DEF IInv, WbSelMatches
<1>6. LinkAsBuilt'
  BY EntersEx DEF LinkAsBuilt, IdOutput, IInv, InOrder
<1>7. FetchedCurrent'
  <2> SUFFICES ASSUME ~stale'
               PROVE  /\ idValid' => ifid'.instr = mem'[Index(ifid'.pc)]
                      /\ exValid' => idex'.ctl = Decode(Fields(mem'[Index(idex'.pc)]))
    BY DEF FetchedCurrent
  <2>1. ~stale /\ ~StaleFetch /\ mem' = NextMem
    BY DEF Clock
  <2>2. Index(ifid.pc) \in MemIdx /\ Index(pc) \in MemIdx
    BY <1>1, IndexType DEF TypeOK, IfIdType
  <2>3. idValid /\ ~BranchTaken => mem'[Index(ifid.pc)] = ifid.instr
    BY <1>1, <2>1, <2>2, MemKept DEF StaleFetch, IInv, FetchedCurrent
  <2>4. ~Stall /\ ~BranchTaken => mem'[Index(pc)] = Fetched
    BY <1>1, <2>1, <2>2, MemKept DEF StaleFetch, Fetched
  <2>5. idValid' => ifid'.instr = mem'[Index(ifid'.pc)]
    BY <2>3, <2>4, EntersId
  <2>6. exValid' => idex'.ctl = Decode(Fields(mem'[Index(idex'.pc)]))
    BY <2>3, EntersEx DEF IdOutput, Decoded
  <2> QED
    BY <2>5, <2>6
<1>8. ReadCurrent'
  <2> SUFFICES ASSUME ~stale', exValid'
               PROVE  ReadCurrent'
    BY DEF ReadCurrent
  <2> DEFINE f == Fields(ifid.instr)
  <2>1. /\ ~stale /\ ~StaleRead /\ ~StaleFetch /\ mem' = NextMem /\ regs' = NextRegs
        /\ idValid /\ ~Flush /\ ~BranchTaken /\ idex' = IdOutput
    BY EntersEx DEF Clock, Flush, IdExFlush
  <2>2. Fields(mem'[Index(idex'.pc)]) = f
    BY <1>1, <2>1, MemKept, IndexType
       DEF StaleFetch, IInv, FetchedCurrent, IdOutput, TypeOK, IfIdType
  <2>3. ASSUME NEW r \in Operands(f), Forward(exmem', memwb', r) = 0
        PROVE  RegRead(r) = (IF r = 0 THEN 0 ELSE regs'[r])
    <3>1. ~Writes(idex.ctl, r) /\ ~Writes(exmem, r)
      BY <2>3 DEF Clock, ExOutput, MemOutput, Forward, Writes
    <3>2. ~Writes(memwb, r)
      BY <2>1, <3>1 DEF StaleRead
    <3>3. r \in RegNum
      BY <1>1, FieldsAssumption DEF TypeOK, IfIdType, FieldsType, Operands
    <3> QED
      BY <1>1, <2>1, <3>2, <3>3, RegKept DEF RegRead
  <2>4. /\ UsesRs1(f) => Decoded.rs1 = f.rs1 /\ f.rs1 \in Operands(f)
        /\ UsesRs2(f) => Decoded.rs2 = f.rs2 /\ f.rs2 \in Operands(f)
    BY DEF UsesRs1, UsesRs2, Operands, Decoded, Decode
  <2> QED
    BY <2>1, <2>2, <2>3, <2>4 DEF ReadCurrent, IdOutput, RegRead
<1>9. ZeroReadsZero'
  <2>1. CASE Flush
    BY <2>1 DEF Clock, NextIdEx, Bubble, IInv, ZeroReadsZero
  <2>2. CASE ~Flush
    BY <2>2 DEF Clock, NextIdEx, IdOutput, RegRead, ZeroReadsZero
  <2> QED
    BY <2>1, <2>2
<1>10. ResetHeld'
  BY DEF Clock, ResetHeld
<1> QED
  BY <1>1, <1>2, <1>3, <1>4, <1>5, <1>6, <1>7, <1>8, <1>9, <1>10 DEF IInv

\* The inductive invariant is about the core's own variables only.
LEMMA StutterInv == IInv /\ UNCHANGED vars => IInv'
<1> SUFFICES ASSUME IInv, UNCHANGED vars PROVE IInv'
  OBVIOUS
<1> QED
  BY DEF vars, hw, IInv, TypeOK, InOrder, BubblesAreInert, WbSelMatches,
         ForwardsAluResultsOnly, LinkAsBuilt, FetchedCurrent, ReadCurrent, RegRead,
         ZeroReadsZero, ResetHeld

\* The inductive invariant holds in every reachable state.
THEOREM InvHolds == Spec => []IInv
<1>1. IInv /\ [Next]_vars => IInv'
  BY StutterInv, ResetInv, ClockInv DEF Next
<1> QED
  BY InitInv, <1>1, PTL DEF Spec

---------------------------------------------------------------------------
(* Progress.                                                               *)

\* The clock cycles until the next instruction is in EX.
Distance == IF exValid THEN 0 ELSE IF idValid THEN 1 ELSE 2

\* A bubble in EX neither stalls nor branches.
LEMMA BubbleHoldsNothing == IInv /\ ~exValid => ~Stall /\ ~BranchTaken
BY DEF IInv, BubblesAreInert, Stall, LoadUse, BranchTaken

\* The core executes one of any three cycles after reset: a load-use stall and a
\* flush each cost what they have to, and no stall keeps up the next one. This
\* is what is left of KeepsExecuting when the clock is taken for granted.
THEOREM NoLongWait ==
    Spec => [](Distance \in 0 .. 2) /\ [][Clock /\ Distance /= 0 => Distance' < Distance]_vars
<1>1. IInv => Distance \in 0 .. 2
  BY DEF Distance
<1>2. IInv /\ Clock /\ Distance /= 0 => Distance' < Distance
  <2> SUFFICES ASSUME IInv, Clock, Distance /= 0 PROVE Distance' < Distance
    OBVIOUS
  <2>1. ~exValid
    BY DEF Distance
  <2>2. ~Stall /\ ~BranchTaken
    BY <2>1, BubbleHoldsNothing
  <2>3. idValid' = TRUE /\ exValid' = idValid
    BY <2>2 DEF Clock, IfIdFlush, Flush, IdExFlush, IInv, TypeOK
  <2> QED
    BY <2>1, <2>3 DEF Distance, IInv, TypeOK
<1> QED
  BY <1>1, <1>2, InvHolds, PTL

\* A load-use stall lasts one cycle: the load has left EX by the next one.
THEOREM StallsLastOneCycle == Spec => [][Clock /\ Stall => ~Stall']_vars
<1>1. IInv /\ IInv' /\ Clock /\ Stall => ~Stall'
  <2> SUFFICES ASSUME IInv', Clock, Stall PROVE ~Stall'
    OBVIOUS
  <2>1. ~exValid'
    BY DEF Clock, Flush, IdExFlush
  <2> QED
    BY <2>1 DEF IInv, BubblesAreInert, Stall, LoadUse
<1> QED
  BY <1>1, InvHolds, PTL

---------------------------------------------------------------------------
(* Operands.                                                               *)

\* What a register holds architecturally: the youngest write in flight, or the
\* register file.
LEMMA ArchRegsAt ==
    ASSUME TypeOK, NEW r \in RegNum, r /= 0
    PROVE  ArchRegs[r] = IF Writes(exmem, r) THEN ExMemValue
                         ELSE IF Writes(memwb, r) THEN RegfileWdata ELSE regs[r]
<1>1. regs \in [ RegNum -> Word ] /\ NextRegs \in [ RegNum -> Word ]
  BY StorageType DEF TypeOK
<1>2. NextRegs[r] = IF Writes(memwb, r) THEN RegfileWdata ELSE regs[r]
  BY <1>1 DEF NextRegs, Writes
<1> QED
  BY <1>1, <1>2 DEF ArchRegs, Writes

\* Forwarding gives an operand its architectural value.
LEMMA ForwardCorrect ==
    ASSUME IInv, exValid, NEW r \in RegNum, r \in {idex.ctl.rs1, idex.ctl.rs2},
           NEW d, Forward(exmem, memwb, r) = 0 => d = RegRead(r)
    PROVE  ForwardVal(r, d) = IF r = 0 THEN 0 ELSE ArchRegs[r]
<1>1. TypeOK
  BY DEF IInv
<1>2. CASE Writes(exmem, r)
  <2>1. exmem.wb_sel = 0 /\ r /= 0
    BY <1>2 DEF IInv, ForwardsAluResultsOnly, Writes
  <2> QED
    BY <1>1, <1>2, <2>1, ArchRegsAt DEF ForwardVal, Forward, ExMemValue
<1>3. CASE ~Writes(exmem, r) /\ Writes(memwb, r)
  BY <1>1, <1>3, ArchRegsAt DEF ForwardVal, Forward, Writes
<1>4. CASE ~Writes(exmem, r) /\ ~Writes(memwb, r)
  BY <1>1, <1>4, ArchRegsAt DEF ForwardVal, Forward, RegRead
<1> QED
  BY <1>2, <1>3, <1>4

\* The operands of the instruction in EX are current in every state in which
\* the inductive invariant holds and nothing stale has been read.
LEMMA OperandsFromInv == IInv => OperandsCurrentUnlessStale
<1> SUFFICES ASSUME IInv, ~stale, exValid PROVE OperandsCurrent
  BY DEF OperandsCurrentUnlessStale, OperandsCurrent
<1> DEFINE f == Fields(mem[Index(idex.pc)])
<1>1. TypeOK /\ idex.ctl = Decode(f)
  BY DEF IInv, FetchedCurrent
<1>2. f \in FieldsType
  BY <1>1, IndexType, FieldsAssumption DEF TypeOK, IdExType
<1>3. UsesRs1(f) => /\ idex.ctl.rs1 = f.rs1 /\ f.rs1 \in RegNum
                    /\ Forward(exmem, memwb, f.rs1) = 0 => idex.rs1_data = RegRead(f.rs1)
  BY <1>1, <1>2 DEF IInv, ReadCurrent, Decode, UsesRs1, FieldsType
<1>4. UsesRs2(f) => /\ idex.ctl.rs2 = f.rs2 /\ f.rs2 \in RegNum
                    /\ Forward(exmem, memwb, f.rs2) = 0 => idex.rs2_data = RegRead(f.rs2)
  BY <1>1, <1>2 DEF IInv, ReadCurrent, Decode, FieldsType
<1> QED
  BY <1>3, <1>4, ForwardCorrect DEF OperandsCurrent, ForwardAVal, ForwardBVal

\* Forwarding and the load-use stall deliver the value of the youngest older
\* write to every operand, unless a register was read at the edge that wrote
\* it or an instruction was overwritten after its fetch.
THEOREM OperandsAreCurrent == Spec => []OperandsCurrentUnlessStale
BY InvHolds, OperandsFromInv, PTL

\* The instructions in flight are consecutive.
THEOREM InFlightInOrder == Spec => []InOrder
<1>1. IInv => InOrder
  BY DEF IInv
<1> QED
  BY InvHolds, <1>1, PTL

\* Nothing but an instruction of the program has an effect.
THEOREM BubblesHaveNoEffect == Spec => []BubblesAreInert
<1>1. IInv => BubblesAreInert
  BY DEF IInv
<1> QED
  BY InvHolds, <1>1, PTL

\* The address of a load or of a jump is never taken for its result.
THEOREM ForwardedAreResults == Spec => []ForwardsAluResultsOnly
<1>1. IInv => ForwardsAluResultsOnly
  BY DEF IInv
<1> QED
  BY InvHolds, <1>1, PTL

---------------------------------------------------------------------------
(* The core implements the instruction-set machine: power-on maps to its   *)
(* initial state, an edge with an instruction in EX maps to its execution, *)
(* every other edge to a stutter, and an edge that reads something stale   *)
(* to the step after which it promises nothing.                            *)

\* The machine and the core use the same operators and sets.
LEMMA SameOperators ==
    /\ \A a, b : AsBuilt!Add(a, b) = Add(a, b)
    /\ \A a : AsBuilt!Index(a) = Index(a) /\ AsBuilt!Even(a) = Even(a)
    /\ \A o, f3, t : AsBuilt!DecAluOp(o, f3, t) = DecAluOp(o, f3, t)
    /\ AsBuilt!Word = Word /\ AsBuilt!RegNum = RegNum /\ AsBuilt!MemIdx = MemIdx
BY DEF AsBuilt!Add, Add, AsBuilt!Index, Index, AsBuilt!Even, Even,
       AsBuilt!DecAluOp, DecAluOp, AsBuilt!Word, Word, AsBuilt!RegNum, RegNum,
       AsBuilt!MemIdx, MemIdx

---------------------------------------------------------------------------
(* The mapped state.                                                       *)

ArchTypeOK ==
    ArchPc \in Word /\ ArchRegs \in [ RegNum -> Word ] /\ ArchMem \in [ MemIdx -> Word ]

\* The architectural state has the types of the machine's state.
LEMMA ArchType == TypeOK => ArchTypeOK
<1> SUFFICES ASSUME TypeOK PROVE ArchTypeOK
  OBVIOUS
<1>1. ExMemValue \in Word
  BY StorageType DEF ExMemValue, TypeOK, ExMemType
<1>2. ArchRegs \in [ RegNum -> Word ]
  BY <1>1, StorageType DEF ArchRegs, TypeOK, ExMemType
<1>3. ArchPc \in Word
  BY DEF ArchPc, TypeOK, IfIdType, IdExType
<1> QED
  BY <1>2, <1>3, StorageType DEF ArchMem, ArchTypeOK

\* At an edge the write of EX/MEM moves to MEM/WB and that of the instruction
\* in EX becomes the youngest.
LEMMA RegsAdvance ==
    ASSUME IInv, Clock
    PROVE  ArchRegs' = IF idex.ctl.reg_write /\ idex.ctl.rd /= 0
                       THEN [ ArchRegs EXCEPT ![idex.ctl.rd] = ExMemValue' ] ELSE ArchRegs
<1>1. RegfileWdata' = ExMemValue
  BY DEF IInv, TypeOK, ExMemType, Clock, MemOutput, RegfileWdata, ExMemValue
<1>2. NextRegs' = ArchRegs
  BY <1>1 DEF Clock, MemOutput, NextRegs, ArchRegs
<1> QED
  BY <1>2 DEF ArchRegs, Clock, ExOutput

\* At an edge the store of EX/MEM completes and that of the instruction in EX
\* becomes the pending one.
LEMMA MemAdvance ==
    ASSUME Clock
    PROVE  ArchMem' = IF idex.ctl.mem_write
                      THEN [ ArchMem EXCEPT ![Index(AluResult)] =
                                StoreData(idex.ctl.funct3, AluResult, ForwardBVal, @) ]
                      ELSE ArchMem
BY DEF Clock, ExOutput, NextMem, ArchMem

\* What the instruction in EX is going to write back.
LEMMA ValueAdvance ==
    ASSUME IInv, Clock
    PROVE  ExMemValue' = CASE idex.ctl.wb_sel = 0 -> AluResult
                           [] idex.ctl.wb_sel = 1 -> LoadData(idex.ctl.funct3, AluResult,
                                                              ArchMem[Index(AluResult)])
                           [] OTHER -> idex.pc_plus4
BY DEF Clock, ExOutput, ExMemValue, LoadedWord, ArchMem

---------------------------------------------------------------------------
(* Edges without an instruction in EX.                                     *)

\* They leave the architectural state alone.
LEMMA BubbleStep ==
    ASSUME IInv, Clock, ~exValid
    PROVE  ArchPc' = ArchPc /\ ArchRegs' = ArchRegs /\ ArchMem' = ArchMem
<1>1. /\ ~idex.ctl.mem_write /\ ~idex.ctl.mem_read /\ ~idex.ctl.branch /\ ~idex.ctl.jump
      /\ idex.ctl.reg_write => idex.ctl.rd = 0
  BY DEF IInv, BubblesAreInert
<1>2. ArchRegs' = ArchRegs
  BY <1>1, RegsAdvance
<1>3. ArchMem' = ArchMem
  BY <1>1, MemAdvance
<1>4. ~BranchTaken /\ ~Stall /\ ~Flush
  BY <1>1 DEF BranchTaken, Stall, LoadUse, Flush, IdExFlush
<1>5. idValid' /\ ifid'.pc = pc
  BY <1>4, Zenon DEF Clock, IfIdFlush, NextIfId, IfIdWrite
<1>6. exValid' = idValid
  BY <1>4 DEF Clock, IInv, TypeOK
<1>7. idex'.pc = ifid.pc
  BY <1>4 DEF Clock, NextIdEx, IdOutput
<1>8. ArchPc' = ArchPc
  BY <1>5, <1>6, <1>7 DEF ArchPc
<1> QED
  BY <1>2, <1>3, <1>8

---------------------------------------------------------------------------
(* Edges with an instruction in EX.                                        *)

\* Two steps of four bytes are one of eight, across the end of the address
\* space as well.
LEMMA AddTwice == ASSUME NEW a \in Word PROVE Add(Add(a, 4), 4) = Add(a, 8)
BY SizeAssumption DEF Add, Word

\* Adding a word to zero gives the word.
LEMMA AddZero == ASSUME NEW a \in Word PROVE Add(0, a) = a
BY SizeAssumption DEF Add, Word

\* With nothing stale, the machine's next instruction is the one in EX.
LEMMA SameInstr ==
    ASSUME IInv, exValid, ~stale, ~StaleFetch
    PROVE  /\ AsBuilt!AInstr = Fields(mem[Index(idex.pc)])
           /\ AsBuilt!AInstr \in FieldsType
           /\ idex.ctl = Decode(AsBuilt!AInstr)
           /\ ArchPc = idex.pc
<1>1. TypeOK /\ Index(idex.pc) \in MemIdx
  BY IndexType DEF IInv, TypeOK, IdExType
<1>2. ArchMem[Index(idex.pc)] = mem[Index(idex.pc)]
  BY <1>1, MemKept DEF StaleFetch, ArchMem
<1>3. AsBuilt!AInstr = Fields(mem[Index(idex.pc)])
  BY <1>2, SameOperators DEF AsBuilt!AInstr, ArchPc
<1>4. mem[Index(idex.pc)] \in Word
  BY <1>1 DEF TypeOK
<1> QED
  BY <1>3, <1>4, FieldsAssumption DEF ArchPc, IInv, FetchedCurrent

\* ... and so are its operands.
LEMMA SameOperands ==
    ASSUME IInv, exValid, ~stale, ~StaleFetch
    PROVE  /\ UsesRs1(AsBuilt!AInstr) => ForwardAVal = AsBuilt!A
           /\ UsesRs2(AsBuilt!AInstr) => ForwardBVal = AsBuilt!B
<1>1. OperandsCurrent
  BY OperandsFromInv DEF OperandsCurrentUnlessStale
<1> QED
  BY <1>1, SameInstr DEF OperandsCurrent, AsBuilt!A, AsBuilt!B

\* What the decoder's outputs say of the instruction.
LEMMA DecodeOutputs ==
    ASSUME NEW f
    PROVE  LET c == Decode(f)
           IN  /\ (c.is_auipc <=> f.opcode = "AUIPC")
               /\ (c.alu_src <=> f.opcode \in OpcodesWithImm \ {"BRANCH", "JAL"})
               /\ c.imm = IF f.opcode \in OpcodesWithImm THEN f.imm ELSE 0
               /\ c.alu_op = IF f.opcode \in {"RTYPE", "ITYPE"}
                             THEN DecAluOp(f.opcode, f.funct3, f.alt) ELSE "ADD"
               /\ c.rs1 = IF f.opcode = "LUI" THEN 0 ELSE f.rs1
               /\ c.rd = f.rd /\ c.funct3 = f.funct3 /\ c.wb_sel = WbSel(f.opcode)
               /\ (c.mem_write <=> f.opcode = "STORE")
               /\ (c.mem_read <=> f.opcode = "LOAD")
               /\ (c.reg_write <=> f.opcode \in {"RTYPE", "ITYPE", "LOAD", "JAL", "JALR",
                                              "LUI", "AUIPC"})
               /\ (c.branch <=> f.opcode = "BRANCH")
               /\ (c.jump <=> f.opcode \in {"JAL", "JALR"})
BY DEF Decode

\* The ALU computes the result, the sum of base and offset, or nothing used.
LEMMA SameAluResult ==
    ASSUME IInv, exValid, ~stale, ~StaleFetch
    PROVE  LET o == AsBuilt!AInstr.opcode
           IN  /\ o \in {"RTYPE", "ITYPE", "LUI", "AUIPC"} => AluResult = AsBuilt!Result
               /\ o \in {"LOAD", "STORE"} => AluResult = AsBuilt!EffAddr
<1> DEFINE f == AsBuilt!AInstr
<1>1. /\ f \in FieldsType /\ idex.ctl = Decode(f) /\ ArchPc = idex.pc /\ TypeOK
      /\ idex.pc \in Word /\ f.imm \in Word
      /\ ForwardAVal \in Word /\ ForwardBVal \in Word
  BY SameInstr, OperandType DEF IInv, TypeOK, IdExType, FieldsType
<1>2. /\ idex.ctl.is_auipc <=> f.opcode = "AUIPC"
      /\ idex.ctl.alu_src <=> f.opcode \in {"ITYPE", "LOAD", "STORE", "JALR", "LUI", "AUIPC"}
      /\ f.opcode \in OpcodesWithImm => idex.ctl.imm = f.imm
      /\ f.opcode \in {"RTYPE", "ITYPE"} => idex.ctl.alu_op = AsBuilt!Operation
      /\ f.opcode \notin {"RTYPE", "ITYPE"} => idex.ctl.alu_op = "ADD"
      /\ f.opcode = "LUI" => idex.ctl.rs1 = 0
  BY <1>1, DecodeOutputs, SameOperators DEF OpcodesWithImm, AsBuilt!Operation
<1>3. CASE f.opcode = "RTYPE"
  <2>1. AluResult = Alu(AsBuilt!Operation, ForwardAVal, ForwardBVal)
    BY <1>2, <1>3 DEF AluResult
  <2> QED
    BY <1>3, <2>1, SameOperands DEF AsBuilt!Result, UsesRs1, UsesRs2
<1>4. CASE f.opcode = "ITYPE"
  <2>1. AluResult = Alu(AsBuilt!Operation, ForwardAVal, f.imm)
    BY <1>2, <1>4 DEF AluResult, OpcodesWithImm
  <2> QED
    BY <1>4, <2>1, SameOperands DEF AsBuilt!Result, UsesRs1
<1>5. CASE f.opcode \in {"LOAD", "STORE"}
  <2>1. AluResult = Alu("ADD", ForwardAVal, f.imm)
    BY <1>2, <1>5 DEF AluResult, OpcodesWithImm
  <2> QED
    BY <1>1, <1>5, <2>1, AluAssumption, SameOperands, SameOperators
       DEF UsesRs1, AsBuilt!EffAddr
<1>6. CASE f.opcode = "LUI"
  <2>1. ForwardAVal = 0
    BY <1>2, <1>6 DEF ForwardAVal, ForwardVal, Forward, Writes, IInv, ZeroReadsZero
  <2>2. AluResult = Alu("ADD", 0, f.imm)
    BY <1>2, <1>6, <2>1 DEF AluResult, OpcodesWithImm
  <2> QED
    BY <1>1, <1>6, <2>2, AluAssumption, AddZero, ZeroType DEF AsBuilt!Result
<1>7. CASE f.opcode = "AUIPC"
  <2>1. AluResult = Alu("ADD", idex.pc, f.imm)
    BY <1>2, <1>7 DEF AluResult, OpcodesWithImm
  <2> QED
    BY <1>1, <1>7, <2>1, AluAssumption, SameOperators DEF AsBuilt!Result
<1> QED
  BY <1>3, <1>4, <1>5, <1>6, <1>7

\* The branch unit redirects exactly the instructions the machine redirects.
LEMMA SameTarget ==
    ASSUME IInv, exValid, ~stale, ~StaleFetch
    PROVE  AsBuilt!NextInstr = IF BranchTaken THEN BranchTarget ELSE Add(idex.pc, 4)
<1> DEFINE f == AsBuilt!AInstr
<1>1. /\ idex.ctl.jump <=> f.opcode \in {"JAL", "JALR"}
      /\ idex.ctl.branch <=> f.opcode = "BRANCH"
      /\ idex.ctl.alu_src <=> f.opcode \in OpcodesWithImm \ {"BRANCH", "JAL"}
      /\ f.opcode \in OpcodesWithImm => idex.ctl.imm = f.imm
      /\ idex.ctl.funct3 = f.funct3 /\ ArchPc = idex.pc
  BY SameInstr, DecodeOutputs
<1>2. CASE f.opcode = "JAL"
  BY <1>1, <1>2, SameOperators
     DEF AsBuilt!NextInstr, BranchTaken, BranchTarget, IsJalr, OpcodesWithImm
<1>3. CASE f.opcode = "JALR"
  BY <1>1, <1>3, SameOperators, SameOperands
     DEF AsBuilt!NextInstr, AsBuilt!EffAddr, BranchTaken, BranchTarget, IsJalr,
         OpcodesWithImm, UsesRs1
<1>4. CASE f.opcode = "BRANCH"
  <2>1. ForwardAVal = AsBuilt!A /\ ForwardBVal = AsBuilt!B
    BY <1>4, SameOperands DEF UsesRs1, UsesRs2
  <2>2. BranchTaken <=> Condition(f.funct3, AsBuilt!A, AsBuilt!B)
    BY <1>1, <1>4, <2>1 DEF BranchTaken
  <2> QED
    BY <1>1, <1>4, <2>2, SameOperators
       DEF AsBuilt!NextInstr, BranchTarget, IsJalr, OpcodesWithImm
<1>5. CASE f.opcode \notin {"JAL", "JALR", "BRANCH"}
  BY <1>1, <1>5, SameOperators DEF AsBuilt!NextInstr, BranchTaken
<1> QED
  BY <1>2, <1>3, <1>4, <1>5

\* The next instruction to execute is the one the branch unit selects.
LEMMA PcAdvance ==
    ASSUME IInv, Clock, exValid
    PROVE  ArchPc' = IF BranchTaken THEN BranchTarget ELSE Add(idex.pc, 4)
<1>1. idValid /\ ifid.pc = Add(idex.pc, 4)
  BY DEF IInv, InOrder
<1>2. CASE BranchTaken
  <2>1. ~idValid' /\ ~exValid'
    BY <1>2 DEF Clock, IfIdFlush, Flush, IdExFlush
  <2> QED
    BY <1>2, <2>1 DEF Clock, NextPc, ArchPc
<1>3. CASE ~BranchTaken /\ Stall
  <2>1. idValid' /\ ~exValid'
    BY <1>1, <1>3 DEF Clock, IfIdFlush, Flush, IdExFlush
  <2> QED
    BY <1>1, <1>3, <2>1, EntersId DEF ArchPc
<1>4. CASE ~BranchTaken /\ ~Stall
  <2>1. exValid'
    BY <1>1, <1>4 DEF Clock, Flush, IdExFlush
  <2> QED
    BY <1>1, <1>4, <2>1, EntersEx DEF ArchPc, IdOutput
<1> QED
  BY <1>2, <1>3, <1>4

\* An edge with an instruction in EX that reads nothing stale executes it.
LEMMA ExecuteStep ==
    ASSUME IInv, Clock, exValid, ~stale'
    PROVE  AsBuilt!Execute
<1> DEFINE f == AsBuilt!AInstr
<1>1. ~stale /\ ~StaleFetch
  BY DEF Clock
<1>2. /\ f \in FieldsType /\ ArchPc = idex.pc /\ idex.pc \in Word
      /\ idex.ctl.rd = f.rd /\ idex.ctl.funct3 = f.funct3
      /\ idex.ctl.wb_sel = WbSel(f.opcode)
      /\ idex.ctl.mem_write <=> f.opcode = "STORE"
      /\ idex.ctl.reg_write <=> AsBuilt!HasResult
  BY <1>1, SameInstr, DecodeOutputs DEF AsBuilt!HasResult, IInv, TypeOK, IdExType
<1>3. ArchPc' = AsBuilt!NextInstr
  BY <1>1, PcAdvance, SameTarget
<1>4. AsBuilt!HasResult => ExMemValue' = AsBuilt!Result
  <2>1. CASE f.opcode \in {"RTYPE", "ITYPE", "LUI", "AUIPC"}
    BY <1>1, <1>2, <2>1, ValueAdvance, SameAluResult DEF WbSel
  <2>2. CASE f.opcode = "LOAD"
    BY <1>1, <1>2, <2>2, ValueAdvance, SameAluResult, SameOperators
       DEF WbSel, AsBuilt!Result
  <2>3. CASE f.opcode \in {"JAL", "JALR"}
    <3>1. ExMemValue' = idex.pc_plus4
      BY <1>2, <2>3, ValueAdvance DEF WbSel
    <3>2. idex.pc_plus4 = Add(idex.pc, 8)
      BY <1>2, AddTwice DEF IInv, LinkAsBuilt
    <3> QED
      BY <1>2, <2>3, <3>1, <3>2, SameOperators DEF AsBuilt!Result
  <2> QED
    BY <2>1, <2>2, <2>3 DEF AsBuilt!HasResult
<1>5. ArchRegs' = IF AsBuilt!HasResult /\ f.rd /= 0
                  THEN [ ArchRegs EXCEPT ![f.rd] = AsBuilt!Result ] ELSE ArchRegs
  BY <1>2, <1>4, RegsAdvance
<1>6. ArchMem' = IF f.opcode = "STORE"
                 THEN [ ArchMem EXCEPT ![AsBuilt!Index(AsBuilt!EffAddr)] =
                           StoreData(f.funct3, AsBuilt!EffAddr, AsBuilt!B, @) ]
                 ELSE ArchMem
  <2>1. CASE f.opcode = "STORE"
    <3>1. AluResult = AsBuilt!EffAddr /\ ForwardBVal = AsBuilt!B
      BY <1>1, <2>1, SameAluResult, SameOperands DEF UsesRs2
    <3> QED
      BY <1>2, <2>1, <3>1, MemAdvance, SameOperators
  <2>2. CASE f.opcode /= "STORE"
    BY <1>2, <2>2, MemAdvance
  <2> QED
    BY <2>1, <2>2
<1>7. UNCHANGED stale
  BY <1>1 DEF IInv, TypeOK, Clock
<1> QED
  BY <1>3, <1>5, <1>6, <1>7 DEF AsBuilt!Execute

---------------------------------------------------------------------------
(* The refinement.                                                         *)

\* Power-on is an initial state of the machine.
LEMMA InitRefines == Init => AsBuilt!AInit
BY DEF Init, AsBuilt!AInit, ArchPc, ArchRegs, ArchMem, NextRegs, NextMem,
       ExMemReset, MemWbReset

\* Every step of the core is a step of the machine or leaves it alone.
LEMMA StepRefines ==
    IInv /\ ArchTypeOK' /\ [Next]_vars => [AsBuilt!ANext]_AsBuilt!avars
<1> SUFFICES ASSUME IInv, ArchTypeOK', [Next]_vars PROVE [AsBuilt!ANext]_AsBuilt!avars
  OBVIOUS
<1>1. CASE UNCHANGED vars
  BY <1>1 DEF vars, hw, AsBuilt!avars, ArchPc, ArchRegs, ArchMem, NextRegs, NextMem,
              ExMemValue, LoadedWord, RegfileWdata
<1>2. CASE Reset
  <2>1. ~exmem.reg_write /\ ~memwb.reg_write /\ ~exmem.mem_write /\ pc = 0
        /\ ~idValid /\ ~exValid
    BY <1>2 DEF Reset, IInv, ResetHeld, ExMemReset, MemWbReset
  <2>2. ~exmem'.reg_write /\ ~memwb'.reg_write /\ ~exmem'.mem_write /\ pc' = 0
        /\ ~idValid' /\ ~exValid' /\ regs' = regs /\ mem' = mem /\ stale' = stale
    BY <1>2, <2>1 DEF Reset, ExMemReset, MemWbReset, NextRegs, NextMem
  <2> QED
    BY <2>1, <2>2 DEF AsBuilt!avars, ArchPc, ArchRegs, ArchMem, NextRegs, NextMem
<1>3. CASE Clock /\ stale'
  BY <1>3, SameOperators DEF ArchTypeOK, AsBuilt!ANext, AsBuilt!Undefined
<1>4. CASE Clock /\ ~stale' /\ exValid
  BY <1>4, ExecuteStep DEF AsBuilt!ANext
<1>5. CASE Clock /\ ~stale' /\ ~exValid
  <2>1. stale' = stale
    BY <1>5 DEF Clock, IInv, TypeOK
  <2> QED
    BY <1>5, <2>1, BubbleStep DEF AsBuilt!avars
<1> QED
  BY <1>1, <1>2, <1>3, <1>4, <1>5 DEF Next

\* The pipeline implements the machine that executes one instruction at a time
\* and links the address eight bytes after a jump, up to the first stale read.
THEOREM CoreImplementsIsa == Spec => ImplementsIsa
<1>1. Spec => []IInv /\ []ArchTypeOK
  BY InvHolds, TypeCorrect, ArchType, PTL
<1>2. Spec => AsBuilt!AInit /\ [][AsBuilt!ANext]_AsBuilt!avars
  BY <1>1, InitRefines, StepRefines, PTL DEF Spec
<1> QED
  BY <1>2 DEF ImplementsIsa, AsBuilt!ASpec

---------------------------------------------------------------------------
(* The test bench: no program makes run_test report a pass. On this core   *)
(* the instruction the scan looks for is never displayed in two cycles     *)
(* running.                                                                *)

\* What detect_pass does with a sample that differs from the one before.
LEMMA DetectRestarts ==
    ASSUME NEW d, NEW p, NEW i,
           d.found = FALSE, ~(i = PassInstr /\ p = d.last_pc /\ i = d.last_instr)
    PROVE  Detect(d, p, i) = [ last_pc |-> p, last_instr |-> i,
                               consecutive |-> 1, found |-> FALSE ]
BY DEF Detect

\* IF/ID never holds the jump to itself at one PC before and after an edge: no
\* stall holds it, for it names only x0, and what follows it has another PC.
LEMMA LoopMovesOn ==
    ASSUME IInv, Clock, ifid.instr = PassInstr, ifid'.instr = PassInstr
    PROVE  ifid'.pc /= ifid.pc
<1>1. TypeOK /\ InOrder /\ BubblesAreInert
  BY DEF IInv
<1>2. idValid
  BY <1>1, BenchAssumption DEF BubblesAreInert
<1>3. pc = Add(ifid.pc, 4) /\ ifid.pc \in Word
  BY <1>1, <1>2 DEF InOrder, TypeOK, IfIdType
<1>4. ~Stall
  BY BenchAssumption DEF Stall, LoadUse, Decoded, Decode
<1>5. ~IfIdFlush(BranchTaken)
  BY BenchAssumption DEF Clock, NextIfId
<1>6. ifid'.pc = pc
  BY <1>4, <1>5 DEF Clock, NextIfId, IfIdWrite
<1>7. Add(ifid.pc, 4) /= ifid.pc
  BY <1>3, SizeAssumption DEF Add, Word
<1> QED
  BY <1>3, <1>6, <1>7

LEMMA BenchInitInv == BenchInit => BenchInv
<1> SUFFICES ASSUME BenchInit PROVE BenchInv
  OBVIOUS
<1>1. IInv
  BY InitInv DEF BenchInit
<1>2. PassInstr \in Nat
  BY BenchAssumption, ZeroType
<1> QED
  BY <1>1, <1>2 DEF BenchInit, BenchInv, SampleChanges, DetectStart, NoSample

LEMMA BenchNextInv == BenchInv /\ [BenchNext]_benchVars => BenchInv'
<1> SUFFICES ASSUME BenchInv, [BenchNext]_benchVars PROVE BenchInv'
  OBVIOUS
<1>1. CASE ResetEdge
  <2>1. IInv'
    BY <1>1, ResetInv DEF BenchInv, ResetEdge
  <2>2. ifid'.instr = 0 /\ scan' = scan
    BY <1>1 DEF ResetEdge, Reset, IfIdReset
  <2> QED
    BY <2>1, <2>2, BenchAssumption DEF BenchInv, SampleChanges
<1>2. CASE RunEdge
  <2>1. IInv'
    BY <1>2, ClockInv DEF BenchInv, RunEdge
  <2>2. scan' = [ last_pc |-> ifid.pc, last_instr |-> ifid.instr,
                  consecutive |-> 1, found |-> FALSE ]
    BY <1>2, DetectRestarts DEF BenchInv, SampleChanges, RunEdge
  <2>3. SampleChanges'
    BY <1>2, <2>2, LoopMovesOn DEF BenchInv, SampleChanges, RunEdge
  <2> QED
    BY <2>1, <2>2, <2>3 DEF BenchInv
<1>3. CASE UNCHANGED << vars, scan >>
  <2>1. IInv'
    BY <1>3, StutterInv DEF BenchInv
  <2>2. scan' = scan /\ ifid' = ifid
    BY <1>3 DEF vars, hw
  <2> QED
    BY <2>1, <2>2 DEF BenchInv, SampleChanges
<1>4. Start \/ Exit \/ TimeOut \/ UNCHANGED benchVars => UNCHANGED << vars, scan >>
  BY DEF Start, Exit, TimeOut, benchVars
<1> QED
  BY <1>1, <1>2, <1>3, <1>4 DEF BenchNext

\* The inductive invariant of the test bench holds, for every core parameter,
\* program and number of edges.
THEOREM BenchInvHolds == BenchSpec => []BenchInv
BY BenchInitInv, BenchNextInv, PTL DEF BenchSpec

\* The pass instruction is never displayed twice in a row at one PC.
THEOREM LoopIsNeverStable == BenchSpec => []NoStableSample
<1>1. BenchInv => NoStableSample
  BY DEF BenchInv, NoStableSample
<1> QED
  BY BenchInvHolds, <1>1, PTL

\* run_test reports a pass for no program.
THEOREM NoTestPasses == BenchSpec => []NothingPasses
<1>1. BenchInv => NothingPasses
  BY DEF BenchInv, NothingPasses, Passed
<1> QED
  BY BenchInvHolds, <1>1, PTL

=============================================================================
