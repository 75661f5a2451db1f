---------------------------- MODULE BatchSizing ----------------------------
(***************************************************************************)
(* How many rows the core writer buffers before it hands them to the Arrow *)
(* writer (ext/parquet-core/src/writer.rs).  A batch is fixed by the       *)
(* caller, or a default that dynamic sizing replaces once enough row sizes *)
(* have been sampled.  Every choice is limited by the width of the schema, *)
(* because all column buffers are reserved up front.                       *)
(***************************************************************************)
EXTENDS Integers

CONSTANTS
  DEFAULT_BATCH_SIZE,       \* rows buffered before anything is known
  MIN_BATCH_SIZE,           \* floor of a dynamic batch
  MAX_BATCH_SIZE,           \* ceiling of any batch
  MAX_BUFFERED_VALUE_SLOTS, \* ceiling of rows times columns
  MAX_SAMPLE_SIZE,          \* ceiling of the row-size sample
  MIN_SAMPLES_FOR_ESTIMATE  \* samples wanted before the size is adapted

ASSUME LimitsAssumption ==
  /\ DEFAULT_BATCH_SIZE \in Nat \ {0}
  /\ MIN_BATCH_SIZE \in Nat \ {0}
  /\ MAX_BATCH_SIZE \in Nat \ {0}
  /\ MAX_BUFFERED_VALUE_SLOTS \in Nat \ {0}
  /\ MAX_SAMPLE_SIZE \in Nat \ {0}
  /\ MIN_SAMPLES_FOR_ESTIMATE \in Nat \ {0}

Lesser(a, b) == IF a <= b THEN a ELSE b
Greater(a, b) == IF a >= b THEN a ELSE b

\* x brought into lo .. hi
Clamp(x, lo, hi) ==
  IF x \in lo .. hi THEN x ELSE IF x > hi THEN hi ELSE lo

valid_column_count(columns) == columns <= MAX_BUFFERED_VALUE_SLOTS

max_batch_size(columns) ==
  Lesser(Greater(MAX_BUFFERED_VALUE_SLOTS \div Greater(columns, 1), 1),
         MAX_BATCH_SIZE)

default_batch_size(columns) ==
  Lesser(DEFAULT_BATCH_SIZE, max_batch_size(columns))

valid_fixed_batch_size(size, columns) == size \in 1 .. max_batch_size(columns)

valid_sample_size(size) == size \in 1 .. MAX_SAMPLE_SIZE

dynamic_batch_size(suggested, columns) ==
  Clamp(suggested,
        Lesser(MIN_BATCH_SIZE, max_batch_size(columns)),
        max_batch_size(columns))

\* Whether a sample of this many rows, of at most sample_size, is enough.
enough_samples(taken, sample_size) ==
  taken >= Lesser(sample_size, MIN_SAMPLES_FOR_ESTIMATE)

\* floor(threshold / max(total / taken, 1)): rows of average size that fit.
suggested_batch_size(threshold, total, taken) ==
  IF total > taken THEN (threshold * taken) \div total ELSE threshold
============================================================================
