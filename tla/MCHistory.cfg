SPECIFICATION Spec
SYMMETRY Interchangeable
CONSTANTS
    w1 = w1
    w2 = w2
    d1 = d1
    d2 = d2
    Workers = {w1, w2}
    Setups <- MCSetups
    Names = {1, 2}
    TransactionalDdl = TRUE
INVARIANTS
    HistoryAlwaysOrders
    NumbersGrowAlongDependencies
    OrderedAfterWhatItsAuthorSaw
PROPERTIES
    CommittedFilesNeverChange
    UpToDateMakeNeverForks
    UpToDateMergeEndsTheConflict
CHECK_DEADLOCK FALSE
