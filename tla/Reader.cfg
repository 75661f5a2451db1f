CONSTANTS
  a = a
  b = b
  c = c
  unknown = unknown
  All = All
  NoItem = NoItem
  Files <- MCFiles
  Requests <- MCRequests
  BatchSizes <- MCBatchSizes
  DefaultBatchSize = 3
SPECIFICATION FairSpec
CHECK_DEADLOCK FALSE
INVARIANTS
  ValuesUnderOwnNames
  DecodedByOwnField
PROPERTIES
  ImplementsRowStream
  BadRowsAreNotSkipped
  IterationEnds
