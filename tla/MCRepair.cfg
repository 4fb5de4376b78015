CONSTANTS
    r1 = r1  r2 = r2  table = table  index = index  key = key  row = row
    Absent = Absent  NoRunner = NoRunner
    Runners = {r1, r2}
    Rows = {row}
    TableOf <- MCTableOf
    Walk <- MCWalk
    Opaque = {}
    Unrepairable = {key}
    Recreated = {index}
    History <- RepairHistory
    Checkout <- Behind
    Commands <- Everything
    Values = {1, 2}
    Dialects = {"postgres", "mysql"}
    MaxManual = 1
SPECIFICATION Spec
INVARIANTS
    QuietRepairRestores
    QuietReportIsTrue
    LastAdoptionIsProved
PROPERTIES
    RowsChangeOnlyAsObserved
    FailedRepairLeavesNothing
CHECK_DEADLOCK FALSE
