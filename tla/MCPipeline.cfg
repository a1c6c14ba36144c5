CONSTANTS
    Repos <- MCRepos
    Whitelist <- MCWhitelist
    SpecDocs = {"riscv_spec"}
    Batch = 2
    Entries <- MCEntries
    Tests <- MCTests
    Probe = "add"
    Passes <- MCPasses
    Modules = {"alu", "top"}
    Options <- MCOptions
    MaxRuns = 2
SPECIFICATION Spec
CHECK_DEADLOCK FALSE
INVARIANTS
    RebuildHeals
    LossHasACause
    AnswersKept
    KnowledgeIsCurrent
    PassesAreEarned
    ReportsAreOfThisRun
PROPERTIES
    RunEnds
