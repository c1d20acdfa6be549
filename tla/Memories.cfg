SPECIFICATION MemoriesSpec
CONSTANTS
  PageId = {p1, p2, p3, p4}
  Value = {v1}
  NumBlocks = 3
  NoReply = NoReply
  None = None
INVARIANTS MemoriesTypeOK BatchDoneInSomeOrder BatchDoneInOrder HoldsLastUsedPages
PROPERTIES RestartKeepsContents
