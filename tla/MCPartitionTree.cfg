SPECIFICATION FairTreeSpec
CONSTANTS
  Disks <- MCDisks
  MaxDescriptors = 9
INVARIANTS
  
  NothingOverlooked
  
PROPERTY
  LoadEnds
\* the program ends
CHECK_DEADLOCK FALSE
