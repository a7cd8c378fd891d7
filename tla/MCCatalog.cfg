SPECIFICATION SessionSpec
CONSTANTS
  Sessions <- MCSessions
  NameOf <- MCNameOf
  FileInfo <- MCFileInfo
  Valence <- MCValence
  Density = 2
  RankCount = 3
INVARIANTS
  PathResolves
  ListsChildren
  SummaryExact
  YankHoldsItsForks
  
PROPERTY
  SessionEnds
\* the session ends
CHECK_DEADLOCK FALSE
