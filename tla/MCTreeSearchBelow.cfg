SPECIFICATION Spec
CONSTANTS
  Trees <- MCHealthyTrees
  SearchKeys = {1, 2, 3, 4, 5, 6, 8, 9, 11, 12}
INVARIANT
  SearchReturns
CHECK_DEADLOCK FALSE
