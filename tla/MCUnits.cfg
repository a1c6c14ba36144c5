CONSTANTS
    XLEN = 4
    ByteSize = 4
    Sampled <- MCSampled
    Beside <- MCBeside
    Offsets = {0, 1, 2, 3}
    PassInstr = 6
    PassMinCycles = 3
    Pcs = {0, 1}
    Instrs = {5, 6}
    MaxSamples = 7
SPECIFICATION UnitSpec
CHECK_DEADLOCK FALSE
INVARIANTS
    ResultIsExact
    BranchesAreExact
    RoundTrip
    BaseLoadsReadTheirLane
    DetectsStableRuns
PROPERTIES
    BaseStoresReachTheirLane
    StoresKeepNeighbours
