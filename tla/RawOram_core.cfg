SPECIFICATION Spec
CONSTANTS
  Levels = 3
  TopLevelOrder = 2
  Block = {b1, b2}
  Value = {b1, b2}
  NoBlock = NoBlock
  NoReply = NoReply
  BlocksPerBucket = 1
  StashCapacity = 2
  NumAccessesPerEviction = 2
  BypassPathReadOnStashHit = FALSE
  MaxEvictions = 3
SYMMETRY BlockSymmetry
INVARIANTS TypeOK BlocksOnTheirPaths AtMostOneCopy PagesDecryptable EvictionsBalanced
PROPERTIES EvictionPacksPath ImplementsBlockStore
CHECK_DEADLOCK FALSE
