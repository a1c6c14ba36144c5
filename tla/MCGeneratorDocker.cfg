CONSTANTS
    Order <- MCOrder
    Top = "top"
    Ports = {1, 2}
    MaxIterations = 1
    DockerUp = FALSE
    MaxRuns = 1
    NoText = NoText
    NoPorts = NoPorts
SPECIFICATION Spec
CHECK_DEADLOCK FALSE
INVARIANTS
    VerifiedAreClean
