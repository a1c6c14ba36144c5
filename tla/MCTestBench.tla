---------------------------- MODULE MCTestBench ----------------------------
(***************************************************************************)
(* The test bench on the small core of MCCore, with a load into x0.        *)
(***************************************************************************)
EXTENDS TestBench, MCCore

BenchFields(w) == IF w = 7 THEN I("LOAD", 0, 1, 0, 2, 0) ELSE MCFields(w)

\* Without an initial block Verilator starts a memory at zero.
ZeroImages == { [ i \in MemIdx |-> 0 ] }

\* run_tests.py: "A test passes when instruction 0x0000006f is observed at the
\* same PC for >100 consecutive cycles": a program that jumps to itself at its
\* first instruction, and nowhere else from the first cycle to the last, passes.
LoopIsReported ==
    [][ process = "running" /\ process' = "exited" /\ mem[0] = PassInstr => Passed' ]_benchVars

=============================================================================
