CONSTANTS
    WordSize = 16
    MemWords = 4
    RegCount = 3
    Nop = 1
    Fields <- MCFields
    Alu <- MCAlu
    Condition <- MCCondition
    LoadData <- MCLoadData
    StoreData <- MCStoreData
    Words = {0, 1, 2, 3, 4, 5, 6, 7, 8, 9, 10, 11, 12, 13, 14, 15}
    LastWords = {0, 14}
    Images <- MCImages
    RegInits <- MCRegInits
SPECIFICATION Spec
INVARIANTS
    InOrder
    BubblesAreInert
    ForwardsAluResultsOnly
    OperandsCurrentUnlessStale
    IInv
PROPERTIES
    ImplementsIsa
    KeepsExecuting
