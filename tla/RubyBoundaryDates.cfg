CONSTANTS
  K = 2
  Day = 4
  SystemZone = 1
  TimeHalf = 32
  DayHalf = 64
  DecimalHalf = 128
  CountHalf = 4
  SciPlaces = 1
  FloatBits = 7
  Absent = Absent
  DECIMAL128_MAX_PRECISION = 2
  DECIMAL256_MAX_PRECISION = 4
  U8_MAX = 6
  I8_MAX = 5
  Nil = Nil
  None = None
  DEFAULT_SHARED_MAX_ENTRIES = 2
  DEFAULT_SHARED_MAX_VALUE_BYTES = 3
  Topics <- MCDates
  Sessions <- MCSessions
  Schemas <- schemas_of
  Convert <- convert_with_schema_hint
  Takes <- Acceptable
  FromParquet <- parquet_to_ruby
CHECK_DEADLOCK FALSE
SPECIFICATION SessionSpec
INVARIANTS
  DateStringsKeepTheirDay
