# A verification development for parquet-ruby

parquet-ruby reads and writes Parquet files from Ruby. It consists of a Rust
library with no Ruby in it (`ext/parquet-core`), an adapter that speaks to Ruby
(`ext/parquet-ruby-adapter`) and the extension that registers the entry points
(`ext/parquet`). The Parquet format itself is the business of the external
`arrow` and `parquet` crates. The modules here model the project's own logic:
what it buffers, validates, shares, caches, renames, and in which order.

## 1. The system

| Component | State it keeps | Operations | What is hard about it | What makes it correct |
|---|---|---|---|---|
| Core writer (`parquet-core/src/writer.rs`) | column buffers, row count, batch size, sample, rows written, the Arrow writer | build, write_row, write_rows, write_columns, flush, close, drop | two ways in (rows, columns) that share one order; batch size moves under buffered rows; every step may fail half-way | acknowledged rows are in the file once and in order, or the file is never finished |
| Batch sizing (same file) | limits | pure functions | quotients and clamps at extreme widths | at least one row, at most the slot limit |
| Value rules (`writer.rs`, `arrow_conversion.rs`) | none | schema to field, validate, build array, read value | two independent checks of a value at two times; offsets and null masks of nested data | what is accepted can be built and is read back |
| String storage (`string_storage.rs`) | a process-wide registry of leaked buffers, per-read entries, fallbacks, caches | ruby_string, ruby_key | threads race to the registry; leaked memory is never freed; per-read and process limits mix | limits hold, one buffer per string, stable answers |
| Repack (`repack.rs`) | current and completed outputs, counters, cancel flag | one long call without the GVL | interrupts, failing file operations, inputs that change or are outputs too, crashes | rows are conserved, files are replaced whole and in order |
| Core reader (`reader.rs`) | batch and row position | next of rows and columns, projections | errors in the middle of a batch; alignment by name | rows in order, values under their own name |
| Chunk readers (`chunk_reader.rs`, `io.rs`) | a Ruby IO's cursor, shared by clones; a file's length | get_read, get_bytes | a cursor that clones share and Ruby code moves; files reopened | bytes come from the range asked for |
| Ruby read pipeline (`adapter/reader.rs`) | iterator, string storage | each_row, each_column | user blocks run between rows | as the core reader |
| Ruby write pipeline (`adapter/writer.rs`, `types.rs`) | core writer, temporary file, columns gathered so far | write_rows, write_columns | every step may fail with the target already truncated; a copy to an IO meets short and failing writes | a whole file or an exception; never a file that passes for whole and is not |
| String cache of writes (`string_cache.rs`) | entries, bytes, counts | intern, stats | three limits at once; statistics after it is full | bounded, transparent, exact counts |
| Conversion (`converter.rs`) | none of its own; Time objects of the caller | Ruby value to ParquetValue and back | zones, signs, widths of integers, decimals as text; `Time#utc` changes its receiver; keys of hashes that become one | what was meant comes back, up to the type of its column |
| Schemas (`schema.rs` of both crates, `lib/parquet/schema.rb`) | none | seven ways to write one down, inference, checks of the whole | each form has its defaults; the first item decides for all | all forms mean the same; nonsense is refused |
| Arguments and enumerators (`utils.rs`, `adapter_ffi.rs`) | what an enumerator repeats | keywords of reads and writes, calls without a block | arguments are rebuilt from what they were parsed to | an enumerator does what the call would have |
| Metadata, value and error types, logger, allocator | none | formatting and delegation | nothing | not modelled |

Calls go downwards only: the Ruby pipelines call the core writer or reader, the
writer calls value rules, batch sizing and the Arrow writer. On the way down a Ruby
value passes three checks at three times: by its schema when it is converted, by the
core writer when its row is taken, and by the array builder when its batch is
flushed. State is shared in two places: the string registry, between all reads of
the process, and a Ruby IO's cursor, between clones of a reader. Two threads run
code of the project at the same time in two places too: Repack releases the GVL, and
Ruby threads may switch inside a read wherever it calls into Ruby.

## 2. Modules

| Module | Models | Extends |
|---|---|---|
| `BatchSizing` | the sizing functions of `writer.rs`, on the named limits | |
| `RowFile` | abstract: an all-or-nothing file of rows | |
| `CoreWriter` | the `Writer` and, nondeterministically, the Arrow writer it drives | `BatchSizing`, instantiates `RowFile` |
| `ValueRules` | one column from schema node to values read back | |
| `StringStorage` | the registry and the storage of concurrent reads | |
| `Repack` | `repack_files`, its Ruby wrapper and the environment | |
| `RowStream` | abstract: rows that arrive in order until the end or an error | |
| `Reader` | the iterators of `reader.rs`, and `each_row` and `each_column` over them | instantiates `RowStream` |
| `ChunkReader` | the sources of bytes of a read, and calls of their clones | |
| `WritePipeline` | `write_rows`, `write_columns`, the string cache and the copy to an IO | |
| `RubySchema` | every form of a schema, what it is parsed to and the checks of the whole | |
| `RubyTimes` | the arithmetic of dates, times of day and timestamps | |
| `RubyValues` | Ruby values to Parquet values and back | `RubyTimes` |
| `RubyArguments` | keyword arguments of reads and their enumerators | |
| `RubySession` | the steps of a schema, a row and a read through one file | `RubyArguments` |
| `RubyBoundary` | what schemas, cells and values are in a session, and what is expected of it | `RubySession`, `RubySchema`, `RubyValues` |
| `MC...` | values of the constants for TLC | the module of that name |
| `DataFacts` | lemmas about sequences, finite sets, folds and sums that several proofs need | |
| `CoreWriterProofs`, `ValueRulesProofs`, `StringStorageProofs`, `ReaderProofs`, `RepackProofs`, `WritePipelineProofs` | theorems and their proofs | the module of that name; all that speak of sequences of sequences or of sums also `DataFacts` |
| `AdapterProofs` | theorems and their proofs | `ChunkReader`, `RubySession`, `RubyTimes` |

**CoreWriter.** `writer` is the Rust struct with its field names; `arrow` is the
external `ArrowWriter` reduced to the rows in completed row groups, the rows of
the row group in progress and whether the sink has failed. The functions of
`writer.rs` are operators of the same names that return the *set* of possible
results (writer, Arrow writer, Ok or kind of error), and the actions choose one:
`&mut self` makes a call a step. `write_rows` is not a step but a loop, since an
error leaves its earlier rows written. The Arrow writer may end a row group in any
call and may fail in any call; a row group that failed is lost and no later one
completes. A caller does not know that, and goes on calling. What a value is does
not matter to the writer: the constants `Valid` and `Buildable` say what
validation and array building accept, field by field, and a value may be valid and
not buildable, as `ValueRules` shows. When several checks of `write_columns` would
fail, the model reports the validation error.

**ValueRules** translates the three recursive functions on values and the two on
schemas. Each is an operator for one level of nesting, which is given what is below,
and a function of the number of levels that ties it to itself: `Accepts[d]` is
`validate_value_against_field` with `Accepts[d - 1]` for the parts of a value. That is
the recursion of the code up to `Depth` levels, in a form that can be reasoned about.
`Nodes[d]` are the schemas that `validate_schema_node` passes, `Fields[d]` and
`Values[d]` the types and values in general; a record has any fields, whatever its
schema names. A value keeps its kind, and a number that stands for its content; text
and bytes are reduced to what is looked at, a length. Conversions that only move
bits (dates, 32-byte decimals) are left out, and offsets, which the code keeps as i32,
do not wrap here. A behaviour offers values to one column and flushes it; the flush
builds the arrays and reads them back.

**StringStorage.** A leaked buffer is a position in `heap`. `ruby_string` in
`:shared` mode is two steps, up to and under the registry's lock, and any number
of reads interleave between them; calls that need no lock are one step. `answer`
is a history of what each read was given.

**Repack.** Each file operation and each turn of the loops is an action. A file
is a schema and a sequence of rows, and `SchemaOf` says which schema a row was written
under. Schemas are compared when inputs are opened first; when rows are written there is
only the check of `ArrowWriter::write`, which is external: `WriterTakes` says which batches
a writer takes, those of its own schema and those with the same types in the same order,
whatever the names. `Unblock` is Ruby's unblocking function and
may come at any time; `Replace` is another process writing an input; `Crash` ends
the process; `Fail` is any operation that fails, or a panic that the trampoline
catches. Dropped temporary files are deleted, except by a crash.

**Reader.** `iter` is the Rust struct of the iterator with its field names; a batch
is its first row and its length. A column is a position in the file, and a value
remembers its column, its row and the Parquet field it was decoded with: this is
what the lists that the code builds at different places (indices of a projection,
aligned fields, names for hash keys) may get wrong. `Fetches` is the external Arrow
reader, which ends, fails, or gives a batch. `call` says who reads: `core` is a Rust
caller, who may go on after an error; `each` is the loop of `each_row` or
`each_column`, which stops at one. A call of `next` and the conversion of what it
returned are a step, as nothing is shared that another step could see in between.
`delivered` is a history of rows, `clean` says how many of them came before the
first error.

**ChunkReader.** `source` is the reader that clones are made of, in its five kinds;
the `direct` ones are those of `parse_metadata`, which hands a `ThreadSafeRubyIOReader` to
the Parquet reader as it is, the string of an object that is no IO among them;
`cursor` belongs to the shared IO, or to the temporary copy of one that cannot
seek. A call of a clone is a begin, its seeks and any number of reads. A byte is a version of the content and an
offset, so that a wrong byte is told from a right one. `GiveUp` is a seek or read
that fails, or a caller of `get_read` who has enough. Positions wrap at `U64`: the
subtractions of the code are unchecked in a release build.

Where clones share a cursor one call is under way at a time: every seek and read calls
into Ruby, which only a thread that holds the GVL can do (a thread of its own gets an
error from `Ruby::get`), a read runs on one Ruby thread, and the Parquet reader takes a
chunk to its end before it asks for the next. Between calls Ruby code may move the cursor; a
program whose Ruby threads read from one IO object during a call is left out.
`Replace` puts another file at the path of a file source, as a
rename does; a file rewritten in place is left out.

**WritePipeline.** A call goes through stages: gather the data (`to_a`), create the
writer, convert and write rows one by one or columns as a whole, close, and for an IO
copy the temporary file. The core writer appears as what `RowFile` promises of it
(`WriterImplementsRowFile`): rows are refused, acknowledged or lost for good, and only
a healthy writer closes. A file is a sequence of rows that ends with `Footer` once it
is finished; without it no Parquet reader opens the file. `SinkSome` lets any part of
what is buffered reach the file at any time. `Crash` ends the process between any two
steps. What is easy to get wrong is in the order of the steps: `create_writer`
truncates the target before the size limits of the builder and the logger of
`write_rows` are looked at, so a call refused for those leaves an empty file, while one
refused for its compression leaves the old one; `to_a` runs before, so reading from an
enumerator over the target itself is safe. `io::copy` goes through a `BufWriter`,
which when it is dropped writes its buffer once more: after an `IO#write` that took
bytes and then raised, up to a buffer of bytes may come twice, in a call that fails.
`RubyIOWriter` takes the word of `IO#write` for how much it wrote. `write_columns`
takes ragged batches whose totals agree, and pairs values of different batches.

**RubySchema, RubyValues, RubyTimes, RubyArguments** hold operators, `RubySession` the
steps of a session: parse the schema, convert the row cell by cell, check and write
it, call a read with a block or get an enumerator and run it, and read value by value.
What a schema is parsed to, and a cell and a value converted to, are operators among its
constants, so that what does not depend on them can be proved for any; `RubyBoundary`
has their definitions and the configurations name them.
A session starts from `columns`, descriptions of what the user wants, and a `form` to
write them down in; `AsValue` and its helpers are what a Ruby program writes. The
operators translate the parsers and converters, each giving a set that is empty for an
error. `Meaning` says independently what a description stands for. The zones of Time
objects are a variable, because `Time#utc` changes its receiver: a time-of-day column
that converts the same object later sees another hour, and a frozen Time that is not in
UTC is refused by a column with a zone. Nested cells are arrays and hashes of leaves; a
name as a key is a string or a symbol.

Some of what these modules had to get right: timestamps are taken as seconds and
nanoseconds, so they round down to their unit before 1970 too, while dates of Times are
quotients, round towards 1970 on both sides and are cast to an i32; products of an i64 wrap; scientific
notation goes through an f64 and is printed with 15 decimals before it is cut; the millionfold that `Date64`
reads pass as microseconds is harmless as the values are whole seconds. In the DSL
`:timestamp` and timestamps as items are unzoned, fields `timestamp_*` are UTC unless
told otherwise, and what a nested list holds is a `field` call of its own, hence zoned;
in hashes nothing is zoned unless `has_timezone` is true or there is a `timezone`. In
the legacy form columns are zoned and items are not. An array is legacy if its first
item is, so that `[{"a" => ...}, {name: "b", type: "int32"}]` has a column named "type".

## 3. Runs

| Run | Question | Bounds and why they are enough |
|---|---|---|
| `core_writer` | Does every mix of calls keep the acknowledged rows? | 2 fields, 5 rows and 6 column sets of every kind of refusal, at most 4 rows in the pipeline: a batch (2 to 4 rows) fills, flushes and starts again, the batch size shrinks under buffered rows, and rows meet columns on both sides. Samples of 2 and 3 rows: not full, full, overdrawn. Limits are small, in the proportions of the code |
| `string_storage` | Do limits and sharing hold across reads? | 2 reads, 4 strings of 0 to 3 bytes, registry of 2 entries and 5 bytes: each ceiling is reached by itself; budgets below (one entry of one byte) and above the ceilings, one whose product does not fit `usize` (15 here). Reads are symmetric |
| `value_rules` | Are validation, building and reading consistent? | all kinds of leaf against all kinds of value, lists, maps and structs two deep with nulls at each level (`Depth` = 3: a leaf is one), columns of up to 3 values (`MaxColumn`) |
| `repack` | Are rows conserved and files replaced whole? | 2 calls, inputs of 3, 1 and 0 rows and a missing one, outputs of 1, 2, 3 rows or unlimited, chunks smaller and larger than outputs; the first output is also an input; a second call meets what the first left; one interruption and one replacement per call, by a file of other types or of the same types under other names |
| `reader` | Do rows arrive in order, once, and under their own names? | files of 0 to 4 rows and 3 columns, with distinct names and with the same name twice, and no or any one cell that cannot be decoded; 5 column lists (none, some in another order than the file's, a repeated name, an unknown one); batches of 1, 2, 3 and 5 rows, of which the external reader may give less: batches end before, at and after the end of the file and around the bad cell |
| `chunk_reader` | Are the bytes those of the range asked for? | 2 clones, contents of 1 and 3 bytes, starts and lengths 0 and 2: inside, across and beyond the ends of either, `U64` = 16 so that `len - start` wraps; the path is replaced, removed and comes back, the cursor moves between calls; the readers of reads and of metadata |
| `write_pipeline` | What is at the path or in the IO after each way a call can go? | 2 calls, so that one finds what another left; 2 fields, one required; up to 3 rows or 2 batches, with each kind of bad row second, after a good one; refused options and schemas; files of up to 4 items against buffers of 2: chunks that fill the buffer and a last one that does not; the cache has 2 entries and 3 bytes with values of up to 2, strings of 1 to 3 bytes, so that each limit refuses alone |
| `ruby_boundary` | What becomes of a schema, a row and a read on the way from Ruby and back? | schemas: all 8 forms with 1 to 3 columns, all leaves with every option, lists, maps and structs two deep, wrong numbers and duplicate names. Times: 7 instants on both sides of 0, one beyond the last day that fits, with 4 parts of a second, 4 zones, frozen or not, in all pairs of 11 types with the same object in both. Nested: 7 types, arrays and hashes of 0 to 2 items, two Times that fall in the same second. Decimals: 0 to 3 digits before and 0 to 4 after the point, both signs, both notations, one integer that no float of 7 bits is, 8 types. Reads: every mix of arguments, in range and not |
| `ruby_boundary_dates` | Does a date string keep its day? | days -30 to 30 in a zone east of UTC; see findings |
| `repack_replaced` | Do rows stay under the schema they were written with? | as `repack`; see findings |
| `value_rules_poison` | Can an accepted value make a flush fail? | as `value_rules`; see findings |
| `core_writer_reservoir` | Does the row sample get replaced evenly? | as `core_writer`; see findings |

The constants of `ruby_boundary` are scaled so that limits are reached: `K` = 2 for
1000, a day of 4 seconds, 6 bits for an i64 (`TimeHalf` = 32 of its numbers are negative),
8 for an i128 (`DecimalHalf` = 128; 2 digits for its 38), 3 for the i8 that counts digits
(`CountHalf` = 4), 1 decimal for the 15 of scientific notation,
7 bits for the mantissa of an f64 (`FloatBits`), 2 days for the 2^31 on each side of an i32
(`DayHalf`; 64 for `ruby_boundary_dates`, which is about other days), precisions up to
2 and 4 for 38 and 76, `U8_MAX` 6 and `I8_MAX` 5. The proportions that matter are kept:
a wrapped number of digits is negative, a decimal128 of full precision fits its integer,
and a day is a whole number of seconds. The process runs one second east of UTC.

A writer, a repack, a pipeline, a session or a read may stop for good (closed, dropped,
out of calls, refused, at its end), so these runs do not look for deadlock; the others
do.

What `write_pipeline` shows: `PathHoldsOldOrWholeFile` holds at every step, so it is also
about a process that dies and about another that opens the file meanwhile.
`IOHoldsBeginningOfWholeFile` says for an IO that a refused row means that nothing is
written, and names the one case of repeated bytes. `CacheCountsAreExact` is about the
statistics that the logger reports.

What `ruby_boundary` shows: `CellsComeBack` and `DecimalsKeepTheirDigits` say what comes
back in terms of what was given, and name the limits: instants that can be counted in
the unit, dates of Times not before 1970 whose day is an i32, decimal128 products that
fit, and scientific notation as far as it is told apart by an f64 and by 15 decimals
(`ExactAsFloat`: whole numbers below 2^53, or as many decimals as an f64 of that size
holds). The digits that are expected are those of the text that Ruby gave.
`SchemaFormsAgree` and `EnumeratorRepeatsTheCall` compare two ways to say the same.

What the runs of Reader and ChunkReader show: `ImplementsRowStream` is the promise
of `each_row` and `each_column`, whatever the batches are. `BadRowsAreNotSkipped` is
about a caller who goes on after an error: rows are never passed over silently by
the row iterator. (The column iterator does lose the rest of a batch, after telling;
`clean` ends there.) `AnswersAreTheirRanges` is about whole calls: what they answer
is one range of one version. It does not say that two calls see the same version,
and they need not when a file is replaced.

*Fairness* is assumed in four places. `FairSpec` of Repack has weak fairness of
`Work`, the steps of the native code: it runs on its own thread without the GVL
and none of its steps waits for another thread. Failing, interrupting, replacing
and crashing are not fair. `EveryCallEnds` rests on it. `FairSpec` of Reader has weak
fairness of `Next`: the loop over an iterator does nothing else, and blocks are
taken to return; `IterationEnds` rests on it. `FairSpec` of ChunkReader has weak
fairness of the seeks and reads of each call: a call is straight-line code and a
loop of reads; `CallsEnd` rests on it, without
relying on `GiveUp`. `FairSpec` of WritePipeline has weak fairness of `Work`: a call is
straight-line code and loops over finite data, and every call into Ruby that it makes,
such as `IO#write`, is taken to return; `EveryCallReturns` rests on it, and holds
whatever the IO answers. The other modules make no liveness claim: their calls are single
steps of a caller who may go away.

### Findings

* `DateStringsKeepTheirDay` fails. A string for a date column is parsed to a Date,
  turned into a Time and counted in days of 86400 seconds (converter.rs:525-531).
  `Date#to_time` is midnight in the zone of the process; in zones ahead of UTC that lies
  in the day before, which is what is stored. `test/date_format_test.rb:42-44` expects
  the day of the string, and holds only in zones that are not ahead of UTC.
* `ReportedRowsKeepTheirSchema` fails. `Parquet.repack` is for "files with matching
  schemas" (`CHANGELOG.md:4`), and `test_repack_rejects_mismatched_input_schemas` expects
  an error for others. The schemas are compared when the inputs are opened first
  (repack.rs:323-336); each input is opened again to be read (repack.rs:150). One that
  another process replaced in between, with the same types under other names, has its rows
  written under the names of the first input, and the call reports success. Other types
  are refused by the Arrow writer.
* `AcceptedValuesNeverPoison` fails. A comment in `validate_value_against_field`
  (writer.rs:569) explains that a fixed binary is checked "up front so a
  wrong-length value is rejected at write_row rather than poisoning the buffer at
  flush time", and a test in `tests/review_regressions.rs` repeats it. For times
  and timestamps the same function accepts any unit (writer.rs:586), and the array
  builder refuses another one: the batch with that value, good rows included, can
  never be written, and neither can the file be closed. `OnlyUnitsPoison` shows
  that there is no other such value.
* `ReservoirReachesEverySlot` fails. The sample of row sizes is documented as
  reservoir sampling (writer.rs:208). The draw ranges over `total_rows_written`,
  which counts flushed rows; before the first flush it is 0, and every row beyond
  the sample replaces the first slot.

Seen while modelling, without a run of their own:

* The products of `parse_decimal128` wrap in a release build (converter.rs:1180), so a
  decimal128 that is out of range by far may be stored as another number instead of
  being refused, as `CHANGELOG.md:32` has it. `DecimalsKeepTheirDigits` excludes it by
  `Comfortable`.
* A decimal in scientific notation is parsed as an f64 and printed with 15 decimals
  (converter.rs:1122-1129 and 1204-1211), with "enough precision" as a comment says. For a
  decimal256 column the string `9007199254740993e0` is stored as ...992, and `1.23e-17` as 0,
  without an error; in plain notation both are stored exactly, and a BigDecimal is written
  in it. `DecimalsKeepTheirDigits` excludes it by `ExactAsFloat`.
* The examples of the README (378-379) and `ARCH.md:456` take `field :t,
  :timestamp_millis` for a local timestamp; the DSL makes it UTC. A timestamp without a
  zone stores the instant, not the local clock (converter.rs:274-276).
* An enumerator forgets `strict: false`; no read looks at it.
* A precision or scale that is no u8 or i8 is ignored in a hash and refused in the
  string `decimal(p,s)`.
* 128 digits or more after the point make a negative count, by which 10 to the power
  wraps to zero and is divided by, or is a power that no memory holds.

## 4. Proofs

TLC checks the instances above. The theorems hold for all values of the constants
that satisfy the assumptions named in the modules.

*CoreWriterProofs.* First, from `LimitsAssumption`: `MaxBatchFitsSlots` and
`ChosenBatchFits`, that a default, fixed or dynamic batch is at least 1 and at most
the largest batch, whose rows times columns fit the slots. The argument is the
lemma `QuotientFits` on integer division. The rest is from `LimitsAssumption` and
`WriterAssumption`. The inductive invariant `IInv` adds to the checked invariants: an unbuilt writer is empty; the
current batch size fits the limits whenever the writer is open, although each row
may change it; a *healthy* writer (sink intact, buffers buildable) holds less than a
batch; and content equals acknowledged rows while healthy. The last is
not inductive without the first three, as flush decides by the row count. The
lemmas follow the functions: what `ArrowFlush`, `ArrowWrite` and `ArrowClose` may
do, then `flush_buffered_rows`, then each public call as a statement about the set
it returns; the step proof has one case per action. `FailuresStick`,
`RejectionsLeaveNoTrace` and `WriterImplementsRowFile` follow from the same lemmas:
the last maps each step to `Accept`, `Finish`, `Abandon` or a stutter of `RowFile`.

*StringStorageProofs.* From `StorageAssumption`. `IInv` is the type invariant, the
ceilings, that no two leaked buffers are equal, and per read that its entries
contain what it was given, are no longer than its budget and number at most its
budget. Between the two steps of a call nobody else changes a read's own storage,
which carries the bound on entries across the lock; that equal strings are leaked
once follows from the registry holding all of the heap. `LargerBudgetsAdmitMore`
needs of it only that the registry is finite, and the lemma that the byte limit
grows with either part of the budget, `saturating_add` and `saturating_mul` included.
`RepresentationsAreStable` adds `AllConsistent`: a string that a read interned or was
given without a copy is in its cache or entries, one that it copied is in neither and,
in `:intern` mode, the cache is full; a string that it waits for is unknown to it. So the
same question finds the same answer. `CountsAreExact` adds
`AllCounted`, the two sums and the sizes of the caches; a step adds one element to one
of the sets. The assumption that `SHARED_FALLBACK_CACHE_RETAINED_BYTES_MAX` is less than
`UsizeMax` is needed there: a sum that saturated would be no sum. In the code the one is 4 MiB,
the other 2^64 - 1, or 2^32 - 1.

*ValueRulesProofs.* From `ColumnsAssumption`: schemas are of the primitive types there
are, values that hold no others are not tagged as if they did, and timestamps have a
zone. All four properties of the run are proved, for any names, primitive types, values
and depth. First, that the functions over levels exist (`AcceptsTie`, `BuiltTie` and so on,
each by `NatSetInduction`, as a function that is right as far as n and can be continued), so
that a level is what its operator makes of the level below. Then one statement about
columns of d levels for each property, carried from d - 1 to d by a lemma for lists, one
for maps, one for structs and one for leaves: a *fitting* column, one of values that are null
or accepted, has fitting child columns (`ListFits`, `MapFits`, `StructFits`; a struct that is
null has children that are null without being allowed to, which is why accepted is not
enough). `OnlyPoisonFails` is that a fitting column which cannot be built has a leaf of
another unit, `ValueByValue` that it can be built if its values can, `NullsSound` that what
is built has no null out of place, `ReadsBack` that reading undoes it. What the flattening
needs is in `ItemsAtOffsets` and `FlattenedFrom`: every item of every value is found behind its
value's offset, and there is nothing else. The inductive invariant of the specification,
`AcceptedColumns`, says that what is buffered or was written was accepted, that a failed
flush left a column that cannot be built, and that what was read is what was stored.

*AdapterProofs, of readers.* From `ChunkAssumption`. `TypeCorrect` rests on `Shape`, the type
of every record and, for each call, `Sound`: it has a content while it reads, no more
than its length, and, for sources without a shared cursor, a position that follows
from what it has. The invariant of `AnswersAreRight` adds
that at most one call is under way where a cursor is shared, and that the cursor then
stands behind what this call has read, or at the end of a string that the call starts
beyond (`Follows`). It is needed because the seek and the reads are different steps. A
lemma for each kind of step gives the record of the call after it; `FollowsOfStep`
carries the invariant over to the other calls. `RangesAreRight` adds `AllInside`: the
end of a range is the length its source had (`EndOfRange`, where the two wrapped
differences cancel), and a read stops at it.

*ReaderProofs.* From `ReaderAssumption`. First the operators: what a projection selects
are positions of the file in its order (`Projects`, by induction over the columns), names
and fields are looked up at those positions, and a hash built by inserting one pair
after another has for each name a value of a column of that name, although a repeated
name overwrites. Then the iterators: `IInv` says that iterator, schema and fields belong to the
file and the request (`Iterators`), the batch lies in what was fetched and the place in
the batch (`PlaceOK`), `delivered` consists of rows of the file and begins with the first
`clean` of them in order (`DeliveredOK`), the number of rows passed is `clean` as long as
nothing failed (`PhaseOK`), and an iterator that has told of a bad row stands at it
(`StaysAtBadRow`). The properties alone are not inductive: nothing in what was
delivered says where the iterator is. One lemma, `ResultOK` of each function of
`reader.rs`, says what a call of `next` may return. `ReadersImplementRowStream` maps each
step to a step of `RowStream` or a stutter.

*RepackProofs.* From `RepackAssumption`. `IInv` has a part for each hazard: which
variables are set in which phase (`PhaseOK`), that inputs not opened are the last of the
arguments (`InputsOK`), that outputs have the paths and temporary files of their index
(`OutputsOK`), how full they are (`FillOK`), that rows consumed are in outputs or under
way (`RowsOK`), that rows consumed and those left in the open input are the rows of the
inputs opened (`SourceOK`), that what stands at the paths reported, followed by what is
still to be renamed, is what was consumed (`FilesOK`), that temporary files belong to
the call or to calls that died (`TempsOK`), and that after an early interrupt rows are
left (`CancelOK`). `RowsAreConserved` says nothing of the renames and
`OutputsAppearInOrder` nothing of what is left to rename; `FilesOK` joins the two.
`OutputPath` is assumed to be injective in the index, which the format of the names
(`{prefix}-{index}.parquet`) ensures.

*WritePipelineProofs.* From `PipelineAssumption`. That calls are well-typed there, with
data that `to_a` can give, and that a file found at the path holds rows, are assumptions
on the environment that the instance satisfies. `IInv` relates what was given to what the
core writer has acknowledged and what is still to convert: the first is the
second followed by the third (`RowsOK`), or the columns are those of the first batches
joined (`ColumnsOK`); after that every row was accepted (`AllTaken`), and while the copy
runs the IO holds the beginning of the file up to what is under way, except for at most
a buffer of items that came twice (`Delivered`). It is needed because whether a row will be
refused is decided long after the file was created. `CacheCountsAreExactAlways` has the
invariant `CacheOK`. Besides the counts it says that a string that was refused would be
refused again: it is too long, or the cache is full in entries or for its size, and
neither gets better. Without it a string that missed could be retained later and the
number of misses would be wrong. A row is looked up by a fold; the lemma `FoldCounts`
carries `Counted` along it. TLC checked each part of these invariants on the instance of
`write_pipeline`, as it did those of the other modules on theirs, before they were proved.

*AdapterProofs, of sessions.* From `ArgumentsAssumption`: nil, and what stands for an argument
left out, are not among the values that arguments have. `EnumeratorsRepeatCalls` says for
all keyword arguments that what `create_enumerator` rebuilds from parsed arguments is parsed
to the same arguments. The reason is `Configs`: what can be parsed is a mode with its default
budget, or `:shared` with any, and `string_storage_kwarg` writes down all that is not default.
`EnumeratorsReadTheSame` carries it to sessions, whatever their schemas, cells and values:
its invariant `CallIsKept` says that an enumerator holds what its call was parsed to, which the
property, silent until the read begins, does not.

*AdapterProofs, of times.* From `TimesAssumption`. `TimestampsComeBack`, `TimesOfDayComeBack` and
`DatesComeBack` are the arithmetic of `CellsComeBack` for every clock, zone and unit: what is
written by the one formula and read by the other is the instant, or the time of day, rounded
down to the unit, or the day. Their hypotheses are the limits that `CellsComeBack` names, that the
instant can be counted in an i64, that a date is not before 1970 and that its day is an i32. They rest on
`DivisionIsUnique`, as one formula divides the nanoseconds of a second and the other takes a
quotient towards zero.

*DataFacts.* Rows in files are `FlattenSeq`, retained bytes are `MapThenSumSet`, and both
are recursive functions of the community modules. The induction theorems of the library
take an operator, which the provers cannot instantiate; `NatSetInduction` says the same
for a *set* of numbers, with the set of the n for which a statement holds as its instance, and
follows from the well-foundedness of inclusion between finite sets. From it follow that the
functions behind the two operators exist, and with that what they are for one more
element: `FlattenOneMore`, `FlattenAppend`, `SumOfOneMore`.

*Model-checked only.* Three safety properties of `ruby_boundary`: `SchemaFormsAgree`,
`CellsComeBack` and `DecimalsKeepTheirDigits`. The first two follow descriptions, schemas and
cells that nest, with recursive operators, which are outside the prover's language; of
`CellsComeBack` what matters for leaves, the arithmetic of times, is proved. The third is about
decimal notation, powers of ten and digits of a number, to which the provers give no meaning.
`EveryCallEnds`, `IterationEnds`, `CallsEnd` and `EveryCallReturns` are
liveness under fairness, out of its reach. The four properties of the findings are
violated. The other way round, the type invariants of
`StringStorage` and `ChunkReader` are proved and need no run.

## 5. Not modelled, and plan

Not modelled by choice:

* the format and layout inside the Arrow writer and reader, metadata formatting,
  logging, the allocator, and Ruby's garbage collector;
* `estimate_row_size`, a constant function: its arithmetic feeds nothing but the
  batch size, which is clamped;
* in the conversion: booleans, plain numbers, binaries and UUIDs, which are checked
  casts or copies, and the inference of a type for a cell beyond the last column, whose
  row is refused in any case;
* in the schemas: `schema_node_to_ruby`, which formats one, and items of an array that
  are of no class a schema can have;
* the classes of keyword arguments, which are taken to be right.

Planned: to write the schemas and conversions of nested cells by levels, as `ValueRules`
now is, and to prove `CellsComeBack` for arrays and hashes from the theorems on times.
