SPECIFICATION SfSpec
SYMMETRY Symmetry
CONSTANTS
  Record = {r1, r2, r3}
  Burst = {b1, b2}
  NoRecord = NoRecord
  PublishDepth = 1
  OutboxLimit = 3
  CallsMayFail = FALSE
INVARIANT CountedIsOnItsWay
