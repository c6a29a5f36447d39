SPECIFICATION NodeSpec
SYMMETRY Symmetry
CONSTANTS
  Record = {r1, r2}
  Burst = {b1}
  NoRecord = NoRecord
  PublishDepth = 1
  OutboxLimit = 1
  CallsMayFail = FALSE
  FlushMayFail = TRUE
  CardCuts = TRUE
  Abrupt = TRUE
  MaxBoots = 2
  MaxLines = 2
INVARIANTS
  NodeTypeOK
  CountedAcrossBoots
PROPERTIES
  AwakeResetKeepsHeld
  DeliversOrDeclares
