SPECIFICATION Spec
CONSTANTS
    p1 = p1
    p2 = p2
    NoId = NoId
    NoProc = NoProc
    Procs = {p1, p2}
    Ids <- MCIds
    Deps <- MCDeps
    Checkouts <- MCCheckouts
    Pos <- MCPos
    MaxSteps = 2
    Steps <- MCSteps
    Atomic <- MCIds
    Repeatable = {11}
    Committing <- MysqlCommitting
    Commands <- MCCommands
    Locking = TRUE
    MaxEffect = 2
    MaxCommands = 4
INVARIANTS
    TypeOK
    MutualExclusion
    DependencyClosed
    ConvergedOnSuccess
PROPERTIES
    RecordFollowsWork
    ImplementsLedger
CHECK_DEADLOCK FALSE
