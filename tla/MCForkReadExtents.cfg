SPECIFICATION StreamSpec
CONSTANTS
  Forks <- MCHealthyForks
  BlockSize = 3
  Offsets = {0, 1, 2, 3, 6, 11, 12}
  Sizes = {1, 2, 3, 4, 6, 7, 12, 13}
  LoopLimit = 3
  Chunk = 6
  Whences = {"set"}
  SeekLimit = 0
INVARIANT
  SeveralExtentsExact
CHECK_DEADLOCK FALSE
