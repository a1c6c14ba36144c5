----------------------------- MODULE TestBench -----------------------------
(***************************************************************************)
(* One test: the core of module Core in the Verilator test bench           *)
(* (sim/sim_main.cpp), which holds rst for ResetEdges rising edges and     *)
(* then runs the clock for RunEdges more; the trace top.v displays at      *)
(* every edge; and run_test of sim/run_tests.py, which starts the          *)
(* simulation, kills it after a timeout and otherwise scans its output.    *)
(* The scan is advanced with every sample, which finds what scanning the   *)
(* complete output finds.                                                  *)
(***************************************************************************)
EXTENDS CoreIsa, PassDetect

CONSTANTS
    ResetEdges,     \* rising edges with rst high: 10 in the code
    RunEdges,       \* rising edges after that: 1,000,000 in the code
    Programs        \* what elf_to_hex makes of the test programs

\* 0x6f is jal x0, 0: every field of it but the opcode is zero.
ASSUME BenchAssumption ==
    /\ ResetEdges \in Nat \ {0} /\ RunEdges \in Nat
    /\ Programs \subseteq [ MemIdx -> Word ]
    /\ PassInstr \in Word \ {0, Nop}
    /\ Fields(PassInstr).opcode = "JAL"
    /\ Fields(PassInstr).rs1 = 0 /\ Fields(PassInstr).rs2 = 0

VARIABLES
    edges,      \* rising edges so far
    scan,       \* the state of detect_pass
    process,    \* the simulation: "none", "running", "exited" or "killed"
    hexFile     \* mem_init.hex

benchVars == << vars, edges, scan, process, hexFile >>

BenchTypeOK ==
    /\ TypeOK
    /\ edges \in 0 .. ResetEdges + RunEdges
    /\ scan.consecutive \in Nat /\ scan.found \in BOOLEAN
    /\ process \in {"none", "running", "exited", "killed"}
    /\ hexFile \in [ MemIdx -> Word ]

BenchInit ==
    /\ Init
    /\ edges = 0 /\ scan = DetectStart /\ process = "none"
    /\ hexFile \in Programs     \* of an earlier test

\* run_test: the binary exists and the ELF has been converted. When either
\* fails the test fails without a simulation, and the process stays "none".
Start ==
    /\ process = "none"
    /\ process' = "running"
    /\ hexFile' \in Programs
    /\ UNCHANGED << vars, edges, scan >>

ResetEdge ==
    /\ process = "running" /\ edges < ResetEdges
    /\ Reset
    /\ edges' = edges + 1
    /\ rst' = (edges' < ResetEdges)
    /\ UNCHANGED << scan, process, hexFile >>

\* Mutant: the loop runs one edge too long.
RunEdgeOneMore ==
    /\ process = "running" /\ edges >= ResetEdges /\ edges <= ResetEdges + RunEdges
    /\ Clock
    /\ edges' = edges + 1
    /\ scan' = Detect(scan, ifid.pc, ifid.instr)
    /\ UNCHANGED << process, hexFile >>

\* A rising edge with rst low. $display shows IF/ID as it was before the edge.
RunEdge ==
    /\ process = "running" /\ edges >= ResetEdges /\ edges < ResetEdges + RunEdges
    /\ Clock
    /\ edges' = edges + 1
    /\ scan' = Detect(scan, ifid.pc, ifid.instr)
    /\ UNCHANGED << process, hexFile >>

Exit ==
    /\ process = "running" /\ edges = ResetEdges + RunEdges
    /\ process' = "exited" /\ UNCHANGED << vars, edges, scan, hexFile >>

\* subprocess.TimeoutExpired: the process is killed wherever it is.
TimeOut ==
    /\ process = "running"
    /\ process' = "killed" /\ UNCHANGED << vars, edges, scan, hexFile >>

BenchNext == Start \/ ResetEdge \/ RunEdge \/ Exit \/ TimeOut

BenchSpec == BenchInit /\ [][BenchNext]_benchVars /\ WF_benchVars(ResetEdge \/ RunEdge \/ Exit)

\* The verdict of run_test; it is False as long as there is none.
Passed == process = "exited" /\ scan.found

---------------------------------------------------------------------------

(* A jump to itself is never displayed in two cycles running: the jump     *)
(* resolves two stages later, and the two words fetched meanwhile are      *)
(* displayed in between.                                                   *)
NoStableSample == scan.last_instr = PassInstr => scan.consecutive <= 1

(* Whatever the program, no test is reported as passed.                    *)
NothingPasses == ~Passed

(* The memory the simulation starts with is the program of the test.       *)
RunsTheProgram == process = "running" /\ edges = 0 => mem = hexFile

---------------------------------------------------------------------------

\* The sample last scanned and the one IF/ID holds now are not both the pass
\* instruction at one PC.
SampleChanges == scan.last_instr = PassInstr =>
                     ~(ifid.instr = PassInstr /\ ifid.pc = scan.last_pc)

(* The inductive invariant of the test bench.                              *)
BenchInv ==
    /\ IInv
    /\ scan.consecutive \in 0 .. 1 /\ scan.found = FALSE
    /\ SampleChanges

=============================================================================
