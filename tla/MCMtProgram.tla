---------------------------- MODULE MCMtProgram ----------------------------
(* The benchmarks of data/riscv-tests/mt, each run by the harts: the matrix *)
(* kernels on matrices of the size of their literals, both scaled down, and *)
(* the vector kernels.                                                      *)
EXTENDS MtVectors, TLC

Matrix == INSTANCE MtBenchmarks WITH Dim <- 8, Full <- 8
ASSUME SizesAssumption == Matrix!RightSizes

MatmulSteps == [c \in Cores |-> Matrix!Matmuls(c)]
MatmulNames == DOMAIN MatmulSteps[0]
MatmulPlan == [k \in MatmulNames |-> [c \in Cores |-> Matrix!MatmulEntry(MatmulSteps[c][k])]]

MCPlan == MatmulPlan @@ VectorPlan
MCExpected == [k \in MatmulNames |-> Matrix!MatmulResults] @@ VectorResults
MCScratch == Matrix!Copied

(* cf and cm are the run of MCMtRace.cfg. *)
Racing == {"cf", "cm"}
Regular == (MatmulNames \cup VectorNames) \ Racing
=============================================================================
