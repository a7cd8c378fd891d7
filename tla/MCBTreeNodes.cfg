SPECIFICATION RecordsSpec
CONSTANTS
  TotalNodes = 10
  MapRecords <- MCMapRecords
  BitsPerByte = 2
  Healthy <- MCHealthy
  Wanted = {0, 1, 3, 5, 7, 9, 10}
  CacheSlots = 2
  NULL = NULL
  Contents <- MCContents
  Blocks = {"header", "journal", "mdb", "tree"}
INVARIANTS
  UnusedOnlyWhenBlind
  BitmapComplete
  
  UsedNodesLoad
  SwappedOnce
\* a map node that cannot be read ends the program
CHECK_DEADLOCK FALSE
