SPECIFICATION FairSpec
CONSTANTS
  Original = Original
  Categories <- SomeCategories
  Uploaded <- SomeSizes
  Widths = {0, 1, 577, 1070, 1280, 1900, 2560, 7681}
  Heights = {0, 360, 719, 1050, 1080, 2101, 4321}
  MaxWidth = 7680
  MaxHeight = 4320
  MaxFaults = 1
INVARIANTS SameAsFromOriginal MissingOnlyWithoutOriginal
PROPERTY RequestIsAnswered
CHECK_DEADLOCK FALSE
