CONSTANTS
  NumFields = 2
  Strings = {"a", "b", "dd", "ccc"}
  Size <- MCSize
  Nil = Nil
  Bad = Bad
  NotArray = NotArray
  Enumerator = Enumerator
  Footer = Footer
  None = None
  On = On
  Off = Off
  Required = {1}
  Calls <- MCCalls
  Old <- MCOld
  MaxCalls = 2
  BufferSize = 2
  DEFAULT_STRING_CACHE_CAPACITY = 2
  STRING_CACHE_CAPACITY_MAX = 2
  STRING_CACHE_VALUE_BYTES_MAX = 2
  STRING_CACHE_RETAINED_BYTES_MAX = 3
CHECK_DEADLOCK FALSE
SPECIFICATION FairSpec
INVARIANTS
  PathHoldsOldOrWholeFile
  IOHoldsBeginningOfWholeFile
  CacheCountsAreExact
PROPERTIES
  EveryCallReturns
