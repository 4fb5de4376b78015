SPECIFICATION Spec
CONSTANTS
    p1 = p1
    p2 = p2
    NoId = NoId
    NoProc = NoProc
    Procs = {p1, p2}
    Ids <- MCIds
    Deps <- MCDeps
    Checkouts <- MCCheckouts
    Pos <- MCPos
    MaxSteps = 2
    Steps <- MCSteps
    Atomic <- MCAtomic
    Repeatable = {21}
    Committing <- MCCommitting
    Commands <- MCCommands
    Locking = FALSE
    MaxEffect = 2
    MaxCommands = 3
INVARIANTS
    AllOrNothing
CHECK_DEADLOCK FALSE
