SPECIFICATION Spec
CONSTANTS
  DeviceSizes = {9, 30}
  Offsets = {0, 3, 4}
  Lengths = {0, 7, 8}
  SectorSizes = {1, 4}
  Starts <- MCStarts
  Sizes <- MCSizes
  DeviceMayFail = TRUE
  Word = 1024
INVARIANTS
  RightPlace
  Complete
\* a read returns
CHECK_DEADLOCK FALSE
