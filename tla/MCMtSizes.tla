------------------------------ MODULE MCMtSizes -----------------------------
(* What the theorems of MtProofs ask of the lists of steps, and at which    *)
(* sizes the kernels have it.                                               *)
EXTENDS MCMtProgram

(* The kernels that take the literal for lda where it decides what they     *)
(* store to, and at, which takes it for lda where it copies B.              *)
ByLiteral ==
    {"ad", "af", "al", "am", "av", "ay", "az", "bf", "bk", "bo", "br", "ce",
     "cf", "cl", "cm", "cv", "cy", "df", "do", "dr", "du", "dv"}

(* They have it on matrices of the size of the literal, as in the run ...   *)
ASSUME LiteralsAreSound ==
    \A k \in Kernels \cap (ByLiteral \cup {"at"}) :
        Divides(k) /\ Awaits(k) /\ Stays(k) /\ Computes(k) /\ Meets(k)

(* ... and of 32 by 32, for which they are written. By the theorems all     *)
(* interleavings of them verify, which are far too many to explore. (These  *)
(* are the kernels with few steps.)                                         *)
Real == INSTANCE MtKernels WITH Dim <- 32, Full <- 32
RealSteps(c) ==
    [af |-> Real!af(c), al |-> Real!al(c), am |-> Real!am(c), ay |-> Real!ay(c),
     az |-> Real!az(c), bf |-> Real!bf(c), bk |-> Real!bk(c), bo |-> Real!bo(c),
     cl |-> Real!cl(c), cy |-> Real!cy(c), df |-> Real!df(c), du |-> Real!du(c),
     dv |-> Real!dv(c)]
RealOf == [c \in Cores |-> RealSteps(c)]
RealPlan == [k \in DOMAIN RealOf[0] |-> [c \in Cores |-> Real!MatmulEntry(RealOf[c][k])]]
RealResults == [k \in DOMAIN RealPlan |-> [x \in C(0 .. 32 * 32 - 1) |-> 0 .. 31]]

RealProgram == INSTANCE MtProgram
    WITH Kernels <- DOMAIN RealPlan, Plan <- RealPlan, Expected <- RealResults,
         Scratch <- Real!BB(Real!All, Real!All)

ASSUME RealAreSound ==
    \A k \in DOMAIN RealPlan :
        /\ RealProgram!Divides(k) /\ RealProgram!Awaits(k)
        /\ RealProgram!Stays(k) /\ RealProgram!Computes(k) /\ RealProgram!Meets(k)

(* The matrices of mt-matmul's data set are of 16 by 16. With them exactly  *)
(* the kernels of ByLiteral have a step that leaves the arrays. All others  *)
(* divide the elements, and add every term once but for at; an, ap and bs   *)
(* have too many steps to evaluate that.                                    *)
Long == {"an", "ap", "bs"}

Dataset == INSTANCE MtBenchmarks WITH Dim <- 16, Full <- 32
DatasetSteps == [c \in Cores |-> Dataset!Matmuls(c)]
DatasetPlan == [k \in MatmulNames |-> [c \in Cores |-> Dataset!MatmulEntry(DatasetSteps[c][k])]]
DatasetResults == [k \in MatmulNames |-> Dataset!MatmulResults]
DatasetProgram == INSTANCE MtProgram
    WITH Kernels <- MatmulNames, Plan <- DatasetPlan, Expected <- DatasetResults,
         Scratch <- Dataset!Copied
ASSUME RightSizes == Dataset!RightSizes /\ Real!RightSizes
ASSUME LiteralsOverrun == \A k \in MatmulNames : DatasetProgram!Stays(k) <=> k \notin ByLiteral
ASSUME AllMeet == \A k \in MatmulNames : DatasetProgram!Awaits(k) /\ DatasetProgram!Meets(k)
ASSUME OthersDivide == \A k \in MatmulNames \ ByLiteral : DatasetProgram!Divides(k)
ASSUME OthersCompute ==
    \A k \in MatmulNames \ (ByLiteral \cup Long) : DatasetProgram!Computes(k) <=> k # "at"

(* Of the vector benchmarks only vvadd1 does not fit the lengths of the     *)
(* data sets, which are 1000 and for memcpy 6000.                           *)
ASSUME LengthsFit ==
    \A k \in VectorNames : Fits(k, IF k = "memcpy" THEN 6000 ELSE 1000) <=> k # "vvadd1"
=============================================================================
