SPECIFICATION Spec
CONSTANTS
    Word = 2
    Start = 0
    Limit = 32
    Gap = 8
    AddressSpace = 256
    Page = 8
    Requests = {0, 3, 6}
    Alignments = {3, 4, 8}
INVARIANTS
    FreeListTidy
    NoByteLost
    KeepsGap
    BlocksAsAsked
PROPERTIES
    ServesChunks
