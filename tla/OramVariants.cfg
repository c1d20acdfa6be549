SPECIFICATION Spec
CONSTANTS
  b1 = b1
  b2 = b2
  b3 = b3
  v1 = v1
  v2 = v2
  NoBlock = NoBlock
  NoReply = NoReply
  NoPath = NoPath
  None = None
SYMMETRY Symmetry
INVARIANTS BlocksOnTheirPaths AtMostOneCopy PagesDecryptable EveryPathReadable
PROPERTIES ImplementsBlockStore
CHECK_DEADLOCK FALSE
