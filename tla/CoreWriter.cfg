CONSTANTS
  DEFAULT_BATCH_SIZE = 3
  MIN_BATCH_SIZE = 2
  MAX_BATCH_SIZE = 4
  MAX_BUFFERED_VALUE_SLOTS = 6
  MAX_SAMPLE_SIZE = 3
  MIN_SAMPLES_FOR_ESTIMATE = 2
  NumFields = 2
  Values <- MCValues
  Valid <- MCValid
  Buildable <- MCBuildable
  EstimatedRowSize <- MCEstimatedRowSize
  OfferedRows <- MCOfferedRows
  OfferedColumns <- MCOfferedColumns
  BatchSizeOptions <- MCBatchSizeOptions
  SampleSizes = {0, 2, 3, 4}
  Thresholds = {6}
  Dynamic = Dynamic
  MaxRows = 4
SPECIFICATION Spec
CHECK_DEADLOCK FALSE
INVARIANTS
  TypeOK
  AcknowledgedRowsAreAccountedFor
  ClosedFileIsComplete
  BufferStaysWithinBatch
PROPERTIES
  FailureIsSticky
  RejectionLeavesNoTrace
  ImplementsRowFile
