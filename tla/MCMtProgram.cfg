SPECIFICATION FairSpec
CONSTANTS
    Cores = {0, 1}
    VectorLen = 24
    Kernels <- Regular
    Plan <- MCPlan
    Scratch <- MCScratch
    Expected <- MCExpected
INVARIANTS
    DataRaceFree
    LeavesArraysIffUnfit
    VerifyPasses
    SuccessIsVerified
PROPERTIES
    KeepsPromise
    EveryHartExits
