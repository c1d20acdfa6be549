SPECIFICATION Spec
CONSTANTS
  Levels = 2
  TopLevelOrder = 2
  Block = {b1, b2}
  Value = {b1, b2}
  NoBlock = NoBlock
  NoReply = NoReply
  NoPath = NoPath
  BlocksPerBucket = 1
  StashCapacity = 1
  LevelsPerPage = 1
  BypassPathReadOnStashHit = TRUE
  SavesMidPath = FALSE
  CounterModulus = 2
SYMMETRY BlockSymmetry
INVARIANTS TypeOK BlocksOnTheirPaths AtMostOneCopy OnlyPopAwaitsWriteBack EveryPathReadable
PROPERTIES ImplementsBlockStore
CHECK_DEADLOCK FALSE
