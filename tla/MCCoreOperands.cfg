CONSTANTS
    WordSize = 16
    MemWords = 4
    RegCount = 3
    Nop = 1
    Fields <- MCFields
    Alu <- MCAlu
    Condition <- MCCondition
    LoadData <- MCLoadData
    StoreData <- MCStoreData
    Words = {0, 2, 3, 6, 8, 12}
    LastWords = {0, 2}
    Images <- MCImages
    RegInits <- MCRegInits
SPECIFICATION Spec
INVARIANT
    OperandsCurrent
