SPECIFICATION Spec
CONSTANTS
  PageId = {p1, p2}
  Value = {v1, v2}
  NumBlocks = 1
  NoReply = NoReply
PROPERTIES WritesReflectedInReads
