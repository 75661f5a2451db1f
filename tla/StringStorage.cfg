CONSTANTS
  r1 = r1
  r2 = r2
  Reads <- MCReads
  Strings <- MCStrings
  Names = {name}
  name = name
  Size <- MCSize
  Budgets <- MCBudgets
  NoString = NoString
  SHARED_PROCESS_MAX_ENTRIES = 2
  SHARED_PROCESS_MAX_BYTES = 5
  SHARED_FALLBACK_CACHE_ENTRY_COUNT_MAX = 2
  SHARED_FALLBACK_CACHE_RETAINED_BYTES_MAX = 2
  INTERN_VALUE_CACHE_ENTRY_COUNT_MAX = 1
  KEY_CACHE_ENTRY_COUNT_MAX = 1
  UsizeMax = 15
SPECIFICATION Spec
INVARIANTS
  RegistryBelowCeilings
  HeldBytesAreCounted
  LeakedOnce
  ReadBudgetHolds
  AdmissionIsMonotone
PROPERTIES
  AnswersAreStable
SYMMETRY Symmetry
