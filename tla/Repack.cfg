CONSTANTS
  Paths <- MCPaths
  S = S
  T = T
  U = U
  Schemas = {S, T, U}
  Rows = {1, 2, 3, 4, 5, 6, 7}
  SchemaOf <- MCSchemaOf
  WriterTakes <- MCWriterTakes
  Initial <- MCInitial
  Calls <- MCCalls
  OutputPath <- MCOutputPath
  Replacements <- MCReplacements
  MaxChunk = 2
  MaxCalls = 2
  NoFile = NoFile
  NoSchema = NoSchema
  NoLimit = NoLimit
CHECK_DEADLOCK FALSE
SPECIFICATION FairSpec
INVARIANTS
  RowsAreConserved
  OutputsAreFilled
  OriginalsAreRead
  OutputsAppearInOrder
  ReportedFilesHoldAllRows
  InterruptsAndFailuresCleanUp
PROPERTIES
  EveryCallEnds
