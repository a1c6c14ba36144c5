----------------------------- MODULE PassDetect -----------------------------
(***************************************************************************)
(* detect_pass of sim/run_tests.py: the scan of a simulation's output for  *)
(* the instruction `jal x0, 0' staying at one PC. The output is a sequence *)
(* of samples, one (PC, INSTR) pair per clock cycle.                       *)
(***************************************************************************)
EXTENDS Integers

CONSTANTS
    PassInstr,      \* PASS_INSTR: the word 0x0000006f
    PassMinCycles   \* PASS_MIN_CYCLES: 100 in the code

ASSUME DetectAssumption == PassMinCycles \in Nat /\ PassMinCycles > 1

\* Before the first sample: last_pc and last_instr are None.
NoSample    == -1
DetectStart == [ last_pc |-> NoSample, last_instr |-> NoSample,
                 consecutive |-> 0, found |-> FALSE ]

\* Mutant: a sample that breaks the run does not restart the count.
DetectNoReset(d, pc, instr) ==
    IF d.found THEN d
    ELSE IF instr = PassInstr /\ pc = d.last_pc /\ instr = d.last_instr
         THEN [ last_pc |-> d.last_pc, last_instr |-> d.last_instr,
                consecutive |-> d.consecutive + 1,
                found |-> d.consecutive + 1 >= PassMinCycles ]
         ELSE [ last_pc |-> pc, last_instr |-> instr,
                consecutive |-> IF d.consecutive = 0 THEN 1 ELSE d.consecutive,
                found |-> FALSE ]

\* One turn of the loop over the samples; found stands for the early return.
Detect(d, pc, instr) ==
    IF d.found THEN d
    ELSE IF instr = PassInstr /\ pc = d.last_pc /\ instr = d.last_instr
         THEN [ last_pc |-> d.last_pc, last_instr |-> d.last_instr,
                consecutive |-> d.consecutive + 1,
                found |-> d.consecutive + 1 >= PassMinCycles ]
         ELSE [ last_pc |-> pc, last_instr |-> instr,
                consecutive |-> 1, found |-> FALSE ]

=============================================================================
