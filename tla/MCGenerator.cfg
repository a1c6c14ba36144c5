CONSTANTS
    Order <- MCOrder
    Top = "top"
    Ports = {1, 2}
    MaxIterations = 3
    DockerUp = TRUE
    MaxRuns = 3
    NoText = NoText
    NoPorts = NoPorts
SPECIFICATION Spec
CHECK_DEADLOCK FALSE
INVARIANTS
    AcceptedWereChecked
    VerifiedAreClean
PROPERTIES
    RunsEnd
