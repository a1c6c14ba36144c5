SPECIFICATION FairSpec
CONSTANTS
    Cores = {0, 1}
    VectorLen = 24
    Kernels <- Racing
    Plan <- MCPlan
    Scratch <- MCScratch
    Expected <- MCExpected
INVARIANT
    VerifyPasses
