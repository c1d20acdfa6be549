SPECIFICATION Spec
CONSTANTS
  Levels = 2
  TopLevelOrder = 2
  LayoutType = "BasicHeapLayout"
  DataBucketSize = 3
  MetadataBucketSize = 1
  PageSize = 8
  NoPath = NoPath
  MaxFilled = 2
  MaxChanges = 1
PROPERTIES ImplementsTreeStore
