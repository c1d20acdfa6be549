SPECIFICATION Spec
CONSTANTS
  Levels = 2
  TopLevelOrder = 2
  Block = {b1, b2}
  Value = {b1, b2}
  NoBlock = NoBlock
  NoReply = NoReply
  NoPath = NoPath
  BlocksPerBucket = 1
  StashCapacity = 1
  LevelsPerPage = 1
  BypassPathReadOnStashHit = FALSE
  SavesMidPath = TRUE
  CounterModulus = 1
PROPERTIES RestartKeepsContents
CHECK_DEADLOCK FALSE
