SPECIFICATION AcSpec
CONSTANTS
  Depth = 4
  MaxChunks = 7
INVARIANTS
  AcTypeOK
  FileInOrder
  DrainComplete
  NoDanglingQueue
PROPERTY LateIsSeen
CHECK_DEADLOCK FALSE
