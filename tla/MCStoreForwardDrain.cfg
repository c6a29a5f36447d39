SPECIFICATION SfLinkSpec
CONSTANTS
  Record = {r1}
  Burst = {b1, b2}
  NoRecord = NoRecord
  PublishDepth = 1
  OutboxLimit = 2
  CallsMayFail = FALSE
PROPERTY BacklogForwarded
