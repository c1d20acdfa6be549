SPECIFICATION Spec
CONSTANTS
  Levels = 3
  TopLevelOrder = 2
  Block = {b1, b2, b3}
  Value = {v1}
  NoBlock = NoBlock
  NoReply = NoReply
  BlocksPerBucket = 1
  StashCapacity = 3
  BypassPathReadOnStashHit = FALSE
SYMMETRY BlockSymmetry
INVARIANTS TypeOK BlocksOnTheirPaths AtMostOneCopy
PROPERTIES EvictionPacksPath ImplementsBlockStore
CHECK_DEADLOCK FALSE
