CONSTANTS
    Docs = {1, 2, 3, 4}
    Names = {"ibex_alu", "rv32i_alu", "picorv32"}
    Components <- MCComponents
    Collections <- MCCollections
    K = 2
    Factor = 1
    RrfK = 60
SPECIFICATION Spec
CHECK_DEADLOCK FALSE
INVARIANTS
    AnswerIsFull
    KnownFirst
    AgreedFirst
