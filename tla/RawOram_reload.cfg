SPECIFICATION Spec
CONSTANTS
  Levels = 2
  TopLevelOrder = 2
  Block = {b1}
  Value = {b1}
  NoBlock = NoBlock
  NoReply = NoReply
  BlocksPerBucket = 1
  StashCapacity = 2
  NumAccessesPerEviction = 2
  BypassPathReadOnStashHit = FALSE
  MaxEvictions = 2
SYMMETRY BlockSymmetry
PROPERTIES CounterResetOnlyByEviction
CHECK_DEADLOCK FALSE
