SPECIFICATION TreesSpec
CONSTANTS
  Levels = 3
  TopLevelOrder = 2
  Bits = {clear, set}
  NoBits = clear
  PageLevels = 3
  LevelsPerNonLeafPage = 1
  LevelsPerLeafPage = 1
  BytesPerBucket = 2
  AuthTagSize = 16
  NoPath = NoPath
  MaxFilled = 1
  MaxWrites = 2
INVARIANTS TypeOK EveryPathReadable BitsAsWritten OnePageForEachLevelOfPages
PROPERTIES NoncesNeverRepeat ImplementsTreeStore
