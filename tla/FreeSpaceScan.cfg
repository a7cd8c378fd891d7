\* every bitmap of volumes of up to seven blocks, files of up to five bytes
SPECIFICATION FairSpec
CONSTANTS
  MaxBlocks = 7
  MaxSize = 5
  ChunkSize = 2
INVARIANTS
  Conservation
  ReportMissesLast
  TotalsExact
PROPERTY
  Reports
\* the function returns after its report
CHECK_DEADLOCK FALSE
