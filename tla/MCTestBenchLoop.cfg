CONSTANTS
    WordSize = 16
    MemWords = 4
    RegCount = 3
    Nop = 1
    Fields <- BenchFields
    Alu <- MCAlu
    Condition <- MCCondition
    LoadData <- MCLoadData
    StoreData <- MCStoreData
    Words = {14}
    LastWords = {14}
    Images <- MCImages
    RegInits <- MCRegInits
    PassInstr = 14
    PassMinCycles = 2
    ResetEdges = 2
    RunEdges = 16
    Programs <- ZeroImages
SPECIFICATION BenchSpec
PROPERTIES
    LoopIsReported
CHECK_DEADLOCK FALSE
