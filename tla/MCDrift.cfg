SPECIFICATION Spec
CONSTANTS
  None = None
  Names <- MCNames
  Projects <- MCProjects
  MaxChanges = 2
CHECK_DEADLOCK FALSE
INVARIANTS
  CleanReportIsTrue
  NoFalseAlarm
  RepairSettles
  RepairKeepsTheRest
