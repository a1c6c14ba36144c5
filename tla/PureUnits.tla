----------------------------- MODULE PureUnits -----------------------------
(***************************************************************************)
(* The parts of the system that are functions of their input, each against *)
(* a reference of its own: the ALU and the branch comparator against the   *)
(* bits of a ripple adder, the immediates against the encoding tables of   *)
(* rag/corpus.py, the load/store unit against a byte-addressed memory      *)
(* (rag/knowledge.py, bp_endian), and the scan of a simulation's output    *)
(* against the definition of a stable run. A behaviour drives one of them. *)
(***************************************************************************)
EXTENDS Alu, Immediates, Lsu, PassDetect

CONSTANTS
    Sampled(_),                 \* the immediates an opcode is tried with
    Beside,                     \* the instruction words they are put into
    Offsets,                    \* the values addr[1:0] takes
    Pcs, Instrs, MaxSamples     \* the outputs that are scanned

VARIABLES
    unit,       \* the part that is driven
    x           \* its input, or what it has been driven to
vars == << unit, x >>

---------------------------------------------------------------------------
(* The ALU and the branch comparator, against carries and borrows: x is an *)
(* operation and two operands.                                             *)

Ops     == {"ADD", "SUB", "AND", "OR", "XOR", "SLT", "SLTU", "SLL", "SRL", "SRA"}
Operand == 0 .. Two - 1

Sign(a) == Bit(a, XLEN - 1)

\* The carry into bit i of a ripple adder.
Carry(a, b, cin) ==
    LET c[i \in 0 .. XLEN] == IF i = 0 THEN cin
                             ELSE IF Bit(a, i - 1) + Bit(b, i - 1) + c[i - 1] >= 2 THEN 1 ELSE 0
    IN  c
SumBit(a, b, cin, i) == (Bit(a, i) + Bit(b, i) + Carry(a, b, cin)[i]) % 2
Complement(b) == Two - 1 - b

\* Unsigned and signed order by the borrow of a - b and by the signs.
Below(a, b)   == Carry(a, Complement(b), 1)[XLEN] = 0
Less(a, b)    == IF Sign(a) = Sign(b) THEN Below(a, b) ELSE Sign(a) = 1

\* Bit i of the result that the RV32I manual defines.
RefBit(op, a, b, i) ==
    LET n == Shamt(b)
    IN  CASE op = "ADD"  -> SumBit(a, b, 0, i)
          [] op = "SUB"  -> SumBit(a, Complement(b), 1, i)
          [] op = "AND"  -> IF Bit(a, i) = 1 /\ Bit(b, i) = 1 THEN 1 ELSE 0
          [] op = "OR"   -> IF Bit(a, i) = 1 \/ Bit(b, i) = 1 THEN 1 ELSE 0
          [] op = "XOR"  -> (Bit(a, i) + Bit(b, i)) % 2
          [] op = "SLT"  -> IF i = 0 /\ Less(a, b) THEN 1 ELSE 0
          [] op = "SLTU" -> IF i = 0 /\ Below(a, b) THEN 1 ELSE 0
          [] op = "SLL"  -> IF i >= n THEN Bit(a, i - n) ELSE 0
          [] op = "SRL"  -> IF i + n < XLEN THEN Bit(a, i + n) ELSE 0
          [] op = "SRA"  -> IF i + n < XLEN THEN Bit(a, i + n) ELSE Sign(a)

AluInit == x \in Ops \X Operand \X {0}
NextOperand == x' = << x[1], x[2], (x[3] + 1) % Two >>

---------------------------------------------------------------------------
(* Immediates: x is an opcode, an immediate and the bits beside it. An     *)
(* assembler places the bits of the immediate, from the tables'            *)
(* "imm[..]=[..]"; the decoder must find them again.                       *)

Opcodes == {"ITYPE", "LOAD", "JALR", "STORE", "BRANCH", "JAL", "LUI", "AUIPC"}

\* Where each bit of the immediate goes in the instruction: pairs of a bit of
\* the immediate and a bit of the instruction.
Block(hi, lo, at) == { << i, at + i - lo >> : i \in lo .. hi }
Places(opcode) ==
    CASE opcode \in {"ITYPE", "LOAD", "JALR"} -> Block(11, 0, 20)
      [] opcode = "STORE"  -> Block(11, 5, 25) \cup Block(4, 0, 7)
      [] opcode = "BRANCH" -> Block(12, 12, 31) \cup Block(10, 5, 25)
                              \cup Block(4, 1, 8) \cup Block(11, 11, 7)
      [] opcode = "JAL"    -> Block(20, 20, 31) \cup Block(10, 1, 21)
                              \cup Block(11, 11, 20) \cup Block(19, 12, 12)
      [] OTHER             -> Block(31, 12, 12)

Encodable(opcode) == { p[1] : p \in Places(opcode) }
SignBit(opcode) == CHOOSE b \in Encodable(opcode) : \A c \in Encodable(opcode) : c <= b

\* What an opcode can encode: the sign bit repeats above the highest encoded bit,
\* and the bits a format leaves out are 0.
Fits(opcode, imm) ==
    /\ imm \in [ BitNo -> 0 .. 1 ]
    /\ \A i \in BitNo : IF i >= SignBit(opcode) THEN imm[i] = imm[SignBit(opcode)]
                        ELSE i \notin Encodable(opcode) => imm[i] = 0

ASSUME SampleAssumption ==
    /\ \A opcode \in Opcodes : \A imm \in Sampled(opcode) : Fits(opcode, imm)
    /\ Beside \subseteq [ BitNo -> 0 .. 1 ]

\* The instruction word, with the bits that are not the immediate's those of w.
Encode(opcode, imm, w) ==
    [ j \in BitNo |->
        IF \E p \in Places(opcode) : p[2] = j
        THEN imm[(CHOOSE p \in Places(opcode) : p[2] = j)[1]] ELSE w[j] ]

ImmediateInit == \E opcode \in Opcodes, w \in Beside :
                    \E imm \in Sampled(opcode) : x = << opcode, imm, w >>
OtherFields == \E w \in Beside : x' = << x[1], x[2], w >>

---------------------------------------------------------------------------
(* The load/store unit: x is a word of top.v's memory, the same four bytes *)
(* as a byte-addressed memory, and the bytes the last store addressed.     *)

Words == 0 .. WordValues - 1

\* The bytes an access of size mem_op touches at offset off, if it is aligned.
SizeOf(mem_op)       == CASE mem_op % 4 = 0 -> 1 [] mem_op % 4 = 1 -> 2 [] OTHER -> 4
Aligned(mem_op, off) == off % SizeOf(mem_op) = 0
Touched(mem_op, off) == off .. off + SizeOf(mem_op) - 1

\* The value of the first n bytes from off of a byte memory, and the number of
\* values n bytes have.
Value(bs, off, n) == Join([ i \in Lanes |-> IF i < n THEN bs[off + i] ELSE 0 ])
Values(n)         == CASE n = 1 -> ByteSize [] n = 2 -> HalfValues [] OTHER -> WordValues

\* What RV32I loads; the operations 4 and 5 are LBU and LHU.
RefLoad(bs, mem_op, off) ==
    LET n == SizeOf(mem_op)
        v == Value(bs, off, n)
    IN  IF mem_op < 4 THEN SignExtend(v, Values(n)) ELSE v

ASSUME OffsetAssumption == Offsets \subseteq Lanes

MemoryInit == x = [ word |-> 0, bytes |-> [ i \in Lanes |-> 0 ], touched |-> {} ]

Store(mem_op, off, wdata) ==
    /\ Aligned(mem_op, off)
    /\ LET new == Touched(mem_op, off)
       IN  x' = [ word    |-> Stored(mem_op, off, wdata, x.word),
                  bytes   |-> [ i \in Lanes |-> IF i \in new THEN ByteOf(wdata, i - off)
                                                ELSE x.bytes[i] ],
                  touched |-> new ]

---------------------------------------------------------------------------
(* detect_pass: x is the output so far and the state of the scan.          *)

ASSUME ScanAssumption == NoSample \notin Pcs     \* None is no PC

ScanInit == x = [ output |-> << >>, d |-> DetectStart ]

Sample(pc, instr) ==
    /\ Len(x.output) < MaxSamples
    /\ x' = [ output |-> Append(x.output, << pc, instr >>), d |-> Detect(x.d, pc, instr) ]

\* Somewhere in the output n samples in a row show the pass instruction at one PC.
StableRun(output, n) ==
    \E i \in 1 .. Len(output) - n + 1, pc \in Pcs :
        \A j \in i .. i + n - 1 : output[j] = << pc, PassInstr >>

---------------------------------------------------------------------------

UnitInit == \/ unit = "alu"       /\ AluInit
            \/ unit = "immediate" /\ ImmediateInit
            \/ unit = "lsu"       /\ MemoryInit
            \/ unit = "scan"      /\ ScanInit

UnitStep == \/ unit = "alu" /\ NextOperand
            \/ unit = "immediate" /\ OtherFields
            \/ unit = "lsu"  /\ \E mem_op \in 0 .. 2, off \in Offsets, wdata \in Words :
                                    Store(mem_op, off, wdata)
            \/ unit = "scan" /\ \E pc \in Pcs, instr \in Instrs : Sample(pc, instr)

UnitSpec == UnitInit /\ [][UNCHANGED unit /\ UnitStep]_vars

---------------------------------------------------------------------------

(* Each bit of the ALU's result is the manual's: carries, borrows, sign    *)
(* extension and the masking of the shift amount, at every boundary.       *)
ResultIsExact ==
    unit = "alu" =>
      LET r == AluResultOf(x[1], x[2], x[3])
      IN  r \in Operand /\ \A i \in 0 .. XLEN - 1 : Bit(r, i) = RefBit(x[1], x[2], x[3], i)

(* The branch comparator orders operands as SLT and SLTU do, equality and  *)
(* the negations included, and two funct3 codes never branch.              *)
BranchesAreExact ==
    unit = "alu" =>
      LET a == x[2]
          b == x[3]
      IN  /\ ConditionMet(0, a, b) = (a = b)  /\ ConditionMet(1, a, b) = ~ConditionMet(0, a, b)
          /\ ConditionMet(4, a, b) = Less(a, b)  /\ ConditionMet(5, a, b) = ~Less(a, b)
          /\ ConditionMet(6, a, b) = Below(a, b) /\ ConditionMet(7, a, b) = ~Below(a, b)
          /\ ~ConditionMet(2, a, b) /\ ~ConditionMet(3, a, b)


(* Every immediate the assembler can encode is the one the decoder makes,  *)
(* whatever the register and funct3 fields beside it hold.                 *)
RoundTrip == unit = "immediate" => Imm(x[1], Encode(x[1], x[2], x[3])) = x[2]

(* A load from the base of a word returns its bytes with the extension its *)
(* operation asks for, whatever was stored there in whatever sizes.        *)
LoadsAreExact(offs) ==
    unit = "lsu" =>
      \A mem_op \in {0, 1, 2, 4, 5}, off \in offs :
        Aligned(mem_op, off) =>
            Rdata(mem_op, off, x.word) = RefLoad([ i \in Lanes |-> ByteOf(x.word, i) ], mem_op, off)
BaseLoadsReadTheirLane == LoadsAreExact({0})

(* A store to the base of a word puts each byte into its lane.             *)
BaseStoresReachTheirLane ==
    [][ unit = "lsu" /\ 0 \in x'.touched
        => \A i \in x'.touched : ByteOf(x'.word, i) = x'.bytes[i] ]_vars

(* A store changes no byte beside those it addresses: its neighbours in    *)
(* the same word survive byte and half-word stores.                        *)
StoresKeepNeighbours ==
    [][ unit = "lsu" => \A i \in Lanes \ x'.touched : ByteOf(x'.word, i) = ByteOf(x.word, i) ]_vars

(* detect_pass answers True exactly when the pass instruction stays at one *)
(* PC for PASS_MIN_CYCLES samples, wherever runs break, restart or move.   *)
DetectsStableRuns == unit = "scan" => (x.d.found <=> StableRun(x.output, PassMinCycles))

---------------------------------------------------------------------------
(* What the documentation says and the code does not do.                   *)

(* rag/generator.py:192, "extract correct bytes from mem_rdata using       *)
(* addr[1:0]": violated, the loads take the low lanes.                     *)
LoadsReadTheirLane == LoadsAreExact(Offsets)

(* rag/generator.py:193, "replicate wdata byte/half into correct lane":    *)
(* violated, the data of a store stays in the low lanes.                   *)
StoresReachTheirLane == unit = "lsu" => \A i \in Lanes : ByteOf(x.word, i) = x.bytes[i]

(* run_tests.py:6, the same PC "for >100 consecutive cycles": violated,    *)
(* PASS_MIN_CYCLES samples are enough.                                     *)
NeedsMoreThanMinimum == unit = "scan" => (x.d.found => StableRun(x.output, PassMinCycles + 1))

=============================================================================
