SPECIFICATION NodeSpec
CONSTANTS
  Record = {r1, r2}
  Burst = {b1}
  NoRecord = NoRecord
  PublishDepth = 1
  OutboxLimit = 1
  CallsMayFail = FALSE
  FlushMayFail = FALSE
  CardCuts = FALSE
  Abrupt = FALSE
  MaxBoots = 1
  MaxLines = 2
PROPERTY StoredSurvives
