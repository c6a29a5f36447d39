SPECIFICATION WmSpec
CONSTANTS
  BaseMs = 1000
  MaxMs = 300000
  EventLimit = 3
  ConnectMayFail = FALSE
INVARIANTS
  WmTypeOK
  OneAttempt
  FlagCatchesUp
  BackoffSchedule
PROPERTY KeepsTrying
