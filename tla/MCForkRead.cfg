SPECIFICATION StreamSpec
CONSTANTS
  Forks <- MCForks
  BlockSize = 3
  Offsets = {0, 1, 2, 3, 6, 11, 12}
  Sizes = {1, 2, 3, 4, 6, 7, 12, 13}
  LoopLimit = 3
  Chunk = 6
  Whences = {"set", "current", "end"}
  SeekLimit = 1
INVARIANTS
  OneExtentExact
  NoForeignCopies
  CopyIsFork
PROPERTY
  StreamEnds
\* a stream that is closed stays so, and the program may end
CHECK_DEADLOCK FALSE
