SPECIFICATION SfFairSpec
CONSTANTS
  Record = {r1, r2}
  Burst = {b1, b2}
  NoRecord = NoRecord
  PublishDepth = 1
  OutboxLimit = 2
  CallsMayFail = TRUE
INVARIANTS
  SfTypeOK
  OneBurst
  BacklogCounted
  NoSilentLoss
  CountedWasSent
PROPERTY BurstEnds
