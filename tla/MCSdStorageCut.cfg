SPECIFICATION SdSpec
SYMMETRY Symmetry
CONSTANTS
  Task = {t1, t2}
  Record = {r1, r2}
  NoTask = NoTask
  NoRecord = NoRecord
  MaxRecords = 3
  Faults = {"open", "tmp", "remove"}
  ResetInSwap = TRUE
PROPERTY KeepsUnread
