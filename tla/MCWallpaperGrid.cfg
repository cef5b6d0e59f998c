SPECIFICATION GridSpec
CONSTANTS
  gridWidth = 13
  Infinity = 1000
  baseSize = 3
  gap = 1
  viewportHeight = 14
  MaxElements = 4
  StrictMode = TRUE
  imageOf <- Images
  Centres <- TwoCentres
INVARIANTS GridTypeOK EveryChildIsPlaced OneInstance LaidOutByFirstFit
PROPERTY LeavesWithItsItem
CHECK_DEADLOCK FALSE
