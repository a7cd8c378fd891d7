SPECIFICATION FairListsSpec
CONSTANTS
  Volumes <- MCVolumes
  UserForks <- MCUserForks
  Density = 2
  MaxForks = 2
INVARIANTS
  
  
  ListsComplete

  
\* the program opens some forks and ends
CHECK_DEADLOCK FALSE
