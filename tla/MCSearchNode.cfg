SPECIFICATION NameSpec
CONSTANTS
  KeySpace = {1, 2, 3, 4, 5, 6, 7}
  MaxRecords = 4
  DiskNodes <- MCDiskNodes
  TypedNames <- MCTypedNames
  BufUnits = 6
INVARIANTS
  Position
  
  
  SpellingsAgree
PROPERTY
  Returns
\* the search ends with its return
CHECK_DEADLOCK FALSE
