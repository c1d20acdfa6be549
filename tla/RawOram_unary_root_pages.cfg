SPECIFICATION Spec
CONSTANTS
  Levels = 3
  TopLevelOrder = 1
  Block = {b1}
  Value = {b1}
  NoBlock = NoBlock
  NoReply = NoReply
  BlocksPerBucket = 1
  StashCapacity = 1
  NumAccessesPerEviction = 1
  BypassPathReadOnStashHit = FALSE
  MaxEvictions = 6
SYMMETRY BlockSymmetry
INVARIANTS PagesDecryptable
CHECK_DEADLOCK FALSE
