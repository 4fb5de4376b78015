SPECIFICATION FairSpec
CONSTANTS
    p1 = p1
    p2 = p2
    NoId = NoId
    NoProc = NoProc
    Procs = {p1, p2}
    Ids <- MCIds
    Deps <- MCDeps
    Checkouts <- MCCheckouts
    Pos <- MCPos
    MaxSteps = 2
    Steps <- MCSteps
    Atomic <- MCAtomic
    Repeatable <- MCRepeatable
    Committing <- MCCommitting
    Commands <- MCFewCommands
    Locking = TRUE
    MaxEffect = 2
    MaxCommands = 3
PROPERTIES
    EveryCommandEnds
CHECK_DEADLOCK FALSE
