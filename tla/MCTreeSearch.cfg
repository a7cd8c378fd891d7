SPECIFICATION FairSpec
CONSTANTS
  Trees <- MCTrees
  SearchKeys = {1, 2, 3, 4, 5, 6, 8, 9, 11, 12}
INVARIANTS
  Lands
  NoRevisit
PROPERTY
  Ends
\* a search returns or ends the program
CHECK_DEADLOCK FALSE
