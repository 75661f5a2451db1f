---------------------------- MODULE WritePipeline ----------------------------
(***************************************************************************)
(* Parquet.write_rows and Parquet.write_columns,                           *)
(* ext/parquet-ruby-adapter/src/writer.rs with string_cache.rs and the IO  *)
(* side of io.rs: the data is gathered, the target opened, values          *)
(* converted and handed to the core writer, which is closed; for an IO the *)
(* finished file is then copied out of a temporary one.                    *)
(*                                                                         *)
(* The core writer is what RowFile promises and CoreWriter keeps: rows are *)
(* acknowledged, and only a healthy writer finishes, with all of them.  A  *)
(* file is a sequence of rows, which ends with Footer once it is finished: *)
(* without it nothing can be read.  All fields hold strings.               *)
(***************************************************************************)
EXTENDS Integers, FiniteSetsExt, SequencesExt

CONSTANTS
  NumFields,         \* fields of the schema
  Strings,           \* strings that can be converted
  Size,              \* Size[s]: bytes of s
  Nil,               \* nil
  Bad,               \* a string that is not UTF-8, or a to_s that raises
  NotArray,          \* anything but an Array
  Enumerator,        \* each_row of the target itself, not yet read
  Footer,            \* ends a finished file
  None,              \* an option left out
  On, Off,           \* true and false as values of string_cache
  Required,          \* fields the core writer takes no null for
  Calls,             \* the calls under study, see CallType
  Old,               \* the file at the path before the first call
  MaxCalls,          \* bound of the model: calls
  BufferSize,        \* capacity of BufReader and BufWriter
  DEFAULT_STRING_CACHE_CAPACITY,
  STRING_CACHE_CAPACITY_MAX,
  STRING_CACHE_VALUE_BYTES_MAX,
  STRING_CACHE_RETAINED_BYTES_MAX

Fields == 1 .. NumFields

\* schema is "ok", "schema" if it cannot be parsed, "compression" if that option
\* is unknown, or "sizes" if the builder refuses batch_size for its width;
\* logger tells whether the logger responds to the methods needed.
CallType ==
  [method : {"write_rows", "write_columns"}, write_to : {"path", "io"},
   schema : {"ok", "schema", "compression", "sizes"}, logger : BOOLEAN]

Values == Strings \cup {Nil, Bad}

\* What to_a can give: rows of cells, or batches of columns of cells.
RowData == Seq({NotArray} \cup Seq(Values))
ColumnData == Seq({NotArray} \cup Seq({NotArray} \cup Seq(Values)))

Readable(file) == file # <<>> /\ Last(file) = Footer

\* The rows of a target are data of write_rows; write_columns is given them only
\* where its other arguments are refused.
ASSUME PipelineAssumption ==
  /\ NumFields \in Nat \ {0}
  /\ Size \in [Strings -> Nat]
  /\ Bad \notin Strings \cup {Nil}
  /\ \A x \in {NotArray, Footer} : x \notin Seq(Values)
  /\ Required \subseteq Fields
  /\ \A c \in Calls :
       /\ [method |-> c.method, write_to |-> c.write_to,
           schema |-> c.schema, logger |-> c.logger] \in CallType
       /\ IF c.read_from = Enumerator
          THEN c.method = "write_columns" => c.schema # "ok"
          ELSE c.read_from \in {NotArray} \cup
                 (IF c.method = "write_rows" THEN RowData ELSE ColumnData)
  /\ Old \in Seq({Footer} \cup Seq(Values))
  /\ Readable(Old) => Front(Old) \in Seq(Seq(Values))
  /\ MaxCalls \in Nat
  /\ BufferSize \in Nat \ {0}
  /\ {STRING_CACHE_CAPACITY_MAX, STRING_CACHE_VALUE_BYTES_MAX,
      STRING_CACHE_RETAINED_BYTES_MAX} \subseteq Nat
  /\ DEFAULT_STRING_CACHE_CAPACITY \in 1 .. STRING_CACHE_CAPACITY_MAX

VARIABLES
  stage,     \* what the call does next; "idle" between calls
  call,      \* its arguments
  data,      \* rows or batches still to convert
  columns,   \* all_columns of write_columns
  writer,    \* the core writer: open or not, healthy or not, rows acknowledged
  target,    \* the file at the path
  temp,      \* the temporary file, or None
  io,        \* what the IO of the call was given
  copy,      \* the copy to the IO: read so far, bytes under way
  cache,     \* the StringCache, or None
  result,    \* what the last call returned
  calls,     \* how many calls there were
  given,     \* history: what to_a gave
  before,    \* history: the file at the path when the call began
  converted, \* history: values converted while there is a cache
  swallowed  \* history: a write of the IO that raised had taken bytes

vars == <<stage, call, data, columns, writer, target, temp, io, copy, cache,
          result, calls, given, before, converted, swallowed>>
----------------------------------------------------------------------------
(* StringCache. *)

Lesser(a, b) == IF a < b THEN a ELSE b

NewCache(capacity) ==
  [capacity |-> Lesser(capacity, STRING_CACHE_CAPACITY_MAX), entries |-> {},
   retained_bytes |-> 0, hits |-> 0, misses |-> 0]

Missed(c) == [c EXCEPT !.misses = @ + 1]

Retained(c, s) ==
  [Missed(c) EXCEPT !.entries = @ \cup {s}, !.retained_bytes = @ + Size[s]]

\* A slip: a string counts against the byte limit whether or not it is retained.
intern_charging_all(c, s) ==
  IF s \in c.entries THEN [c EXCEPT !.hits = @ + 1]
  ELSE IF /\ Cardinality(c.entries) < c.capacity
          /\ Size[s] <= STRING_CACHE_VALUE_BYTES_MAX
          /\ c.retained_bytes + Size[s] <= STRING_CACHE_RETAINED_BYTES_MAX
  THEN Retained(c, s)
  ELSE [Missed(c) EXCEPT !.retained_bytes = @ + Size[s]]

\* What is handed back is the string itself, shared or new.
intern(c, s) ==
  IF s \in c.entries THEN [c EXCEPT !.hits = @ + 1]
  ELSE IF /\ Cardinality(c.entries) < c.capacity
          /\ Size[s] <= STRING_CACHE_VALUE_BYTES_MAX
          /\ c.retained_bytes + Size[s] <= STRING_CACHE_RETAINED_BYTES_MAX
  THEN Retained(c, s)
  ELSE Missed(c)

CacheFor(capacity) == IF capacity = None THEN None ELSE NewCache(capacity)
----------------------------------------------------------------------------
(* Arguments. *)

\* string_cache: the capacity it asks for, None for no cache; 0 is refused by
\* parse_string_cache, as is more than the maximum.
parse_string_cache(value) ==
  IF value = On THEN DEFAULT_STRING_CACHE_CAPACITY
  ELSE IF value = Off THEN None ELSE value

ArgumentsAccepted(c) ==
  LET capacity == parse_string_cache(c.string_cache)
  IN  /\ capacity # None => capacity \in 1 .. STRING_CACHE_CAPACITY_MAX
      /\ c.method = "write_columns" =>
           capacity = None /\ c.batch_size = None /\ c.sample_size = None

\* to_a: an Array is taken as it is, an enumerator is run to its end, anything
\* else is refused.  The outcomes are a sequence or NotArray.
Gathered(read_from, file) ==
  IF read_from = Enumerator
  THEN IF Readable(file) THEN Front(file) ELSE NotArray
  ELSE read_from
----------------------------------------------------------------------------
(* The core writer. *)

NewWriter == [phase |-> "open", healthy |-> TRUE, acked |-> <<>>]
NoWriter == [phase |-> "none", healthy |-> FALSE, acked |-> <<>>]

ValidValue(f, v) == v \in Strings \/ (v = Nil /\ f \notin Required)

ValidRow(row) == Len(row) = NumFields /\ \A f \in Fields : ValidValue(f, row[f])

Took(w, rows) == [w EXCEPT !.acked = @ \o rows]
Poisoned(w) == [w EXCEPT !.healthy = FALSE]

\* Rows are refused, or acknowledged, or lost with the batch they completed.
Accept(w, valid, rows) ==
  IF ~valid THEN {[writer |-> w, ok |-> FALSE]}
  ELSE {[writer |-> Took(w, rows), ok |-> TRUE],
        [writer |-> Poisoned(w), ok |-> FALSE]}

write_row(w, row) == Accept(w, ValidRow(row), <<row>>)

\* Columns of one length as rows; no columns at all are no rows.
RowsOf(cols) ==
  IF cols = <<>> THEN <<>>
  ELSE [i \in 1 .. Len(cols[1]) |-> [f \in Fields |-> cols[f][i]]]

WellFormed(cols) ==
  cols # <<>> => \A f \in Fields :
    /\ Len(cols[f]) = Len(cols[1])
    /\ \A i \in DOMAIN cols[f] : ValidValue(f, cols[f][i])

write_batch(w, cols) == Accept(w, WellFormed(cols), RowsOf(cols))
----------------------------------------------------------------------------
Init ==
  /\ stage = "idle"
  /\ call = None
  /\ data = <<>> /\ columns = <<>>
  /\ writer = NoWriter
  /\ target = Old /\ temp = None /\ io = <<>>
  /\ copy = [read |-> 0, pending |-> <<>>, buffered |-> FALSE]
  /\ cache = None
  /\ result = "none"
  /\ calls = 0
  /\ given = <<>> /\ before = Old /\ converted = <<>>
  /\ swallowed = FALSE

\* The call raises: the writer is dropped where it stands and the temporary
\* file is deleted with it.
Raise ==
  /\ stage' = "idle"
  /\ result' = "error"
  /\ writer' = NoWriter
  /\ temp' = None

\* A slip: the writer is closed on the way out, whatever went wrong.
RaiseClosingWriter ==
  /\ Raise
  /\ target' = IF call.write_to = "path" /\ writer.healthy
               THEN writer.acked \o <<Footer>> ELSE target

RaiseKeepingTarget == Raise /\ UNCHANGED target

Return ==
  /\ stage' = "idle"
  /\ result' = "ok"
  /\ writer' = NoWriter
  /\ temp' = None

\* What the core writer has written goes to the path or the temporary file.
Sink(content) ==
  IF call.write_to = "path" THEN target' = content /\ UNCHANGED temp
                            ELSE temp' = content /\ UNCHANGED target

Sunk == IF call.write_to = "path" THEN target ELSE temp

\* Some or all of what is buffered reaches the file.
SinkSome(rows) == \E n \in Len(Sunk) .. Len(rows) : Sink(SubSeq(rows, 1, n))

\* A call begins: arguments are checked and the data gathered.
Begin ==
  /\ stage = "idle"
  /\ calls < MaxCalls
  /\ \E c \in Calls :
       LET items == Gathered(c.read_from, target)
       IN  /\ call' = c
           /\ IF /\ ArgumentsAccepted(c)
                 /\ c.method = "write_columns" => c.logger
                 /\ items # NotArray
                 /\ c.schema # "schema"
              THEN stage' = "create" /\ given' = items /\ result' = "none"
              ELSE stage' = "idle" /\ given' = <<>> /\ result' = "error"
  /\ before' = target
  /\ calls' = calls + 1
  /\ data' = given' /\ columns' = <<>>
  /\ writer' = NoWriter
  /\ io' = <<>>
  /\ copy' = [read |-> 0, pending |-> <<>>, buffered |-> FALSE]
  /\ cache' = None /\ converted' = <<>> /\ swallowed' = FALSE
  /\ UNCHANGED <<target, temp>>

\* create_writer empties the file at the path before the builder and the logger
\* of write_rows are looked at, but after the compression.
CreateWriter ==
  /\ stage = "create"
  /\ IF call.schema = "compression" THEN RaiseKeepingTarget /\ UNCHANGED cache
     ELSE \/ RaiseKeepingTarget /\ UNCHANGED cache
          \/ /\ Sink(<<>>)
             /\ call.schema # "sizes" /\ call.logger
             /\ stage' = call.method
             /\ writer' = NewWriter
             /\ cache' = CacheFor(parse_string_cache(call.string_cache))
             /\ UNCHANGED result
          \/ /\ call.schema = "sizes" \/ ~call.logger
             /\ Raise
             /\ target' = IF call.write_to = "path" THEN <<>> ELSE target
             /\ UNCHANGED cache
  /\ UNCHANGED <<call, data, columns, io, copy, calls, given, before,
                 converted, swallowed>>

\* Values are converted in order up to the first that cannot be.
Converts(values) == \A i \in DOMAIN values : values[i] # Bad

\* Values of columns; a cell beyond the last column, which has the row refused, is
\* converted without the cache.
ConvertedPart(values) ==
  LET n == IF Converts(values) THEN Len(values)
           ELSE SelectInSeq(values, LAMBDA v : v = Bad) - 1
  IN  SubSeq(values, 1, Lesser(n, NumFields))

\* Strings go through the cache.
LookedUp(c, v) == IF v \in Strings THEN intern(c, v) ELSE c

LookUp(values) ==
  IF cache = None THEN UNCHANGED <<cache, converted>>
  ELSE /\ cache' = FoldLeft(LookedUp, cache, ConvertedPart(values))
       /\ converted' = converted \o ConvertedPart(values)

\* A row is converted and handed on.
WriteRow ==
  /\ stage = "write_rows"
  /\ data # <<>>
  /\ IF Head(data) = NotArray
     THEN RaiseKeepingTarget /\ UNCHANGED <<data, cache, converted>>
     ELSE /\ LookUp(Head(data))
          /\ IF ~Converts(Head(data)) THEN RaiseKeepingTarget /\ UNCHANGED data
             ELSE \E o \in write_row(writer, Head(data)) :
                    IF ~o.ok THEN RaiseKeepingTarget /\ UNCHANGED data
                    ELSE /\ writer' = o.writer
                         /\ SinkSome(o.writer.acked)
                         /\ data' = Tail(data)
                         /\ UNCHANGED <<stage, result>>
  /\ UNCHANGED <<call, columns, io, copy, calls, given, before, swallowed>>

\* The columns start with the first batch and later ones are appended.
Appended(cols, batch) ==
  IF cols = <<>> THEN batch ELSE [f \in Fields |-> cols[f] \o batch[f]]

ConvertibleBatch(batch) ==
  /\ batch # NotArray
  /\ Len(batch) = NumFields
  /\ \A f \in Fields : batch[f] # NotArray /\ Converts(batch[f])

ConvertBatch ==
  /\ stage = "write_columns"
  /\ data # <<>>
  /\ IF ConvertibleBatch(Head(data))
     THEN /\ columns' = Appended(columns, Head(data))
          /\ data' = Tail(data)
          /\ UNCHANGED <<stage, result, writer, temp, target>>
     ELSE RaiseKeepingTarget /\ UNCHANGED <<data, columns>>
  /\ UNCHANGED <<call, io, copy, cache, calls, given, before, converted,
                 swallowed>>

WriteColumns ==
  /\ stage = "write_columns"
  /\ data = <<>>
  /\ \E o \in write_batch(writer, columns) :
       IF ~o.ok THEN RaiseKeepingTarget
       ELSE /\ writer' = o.writer
            /\ SinkSome(o.writer.acked)
            /\ stage' = "close"
            /\ UNCHANGED result
  /\ UNCHANGED <<call, data, columns, io, copy, cache, calls, given, before,
                 converted, swallowed>>

\* finalize_writer: a path is done; an IO gets a copy of the temporary file.
Finalize ==
  /\ stage = "close" \/ (stage = "write_rows" /\ data = <<>>)
  /\ \/ RaiseKeepingTarget
     \/ /\ writer.healthy
        /\ IF call.write_to = "path"
           THEN Return /\ target' = writer.acked \o <<Footer>>
           ELSE /\ stage' = "copy"
                /\ writer' = [writer EXCEPT !.phase = "finished"]
                /\ Sink(writer.acked \o <<Footer>>)
                /\ UNCHANGED result
  /\ UNCHANGED <<call, data, columns, io, copy, cache, calls, given, before,
                 converted, swallowed>>
----------------------------------------------------------------------------
(* The copy: io::copy through a BufWriter.  A chunk of a whole buffer may be *)
(* written at once, a smaller one, the last, waits in the buffer.            *)

\* A slip: nothing is taken until a whole buffer can be.
ChunkEnd_whole ==
  IF copy.read + BufferSize <= Len(temp) THEN copy.read + BufferSize ELSE copy.read

ChunkEnd == Lesser(copy.read + BufferSize, Len(temp))

ReadChunk ==
  /\ stage = "copy"
  /\ copy.pending = <<>> /\ copy.read < Len(temp)
  /\ LET chunk == SubSeq(temp, copy.read + 1, ChunkEnd)
     IN  \E buffered \in BOOLEAN :
           /\ Len(chunk) < BufferSize => buffered
           /\ copy' = [read |-> ChunkEnd, pending |-> chunk, buffered |-> buffered]
  /\ UNCHANGED <<stage, call, data, columns, writer, target, temp, io, cache,
                 result, calls, given, before, converted, swallowed>>

\* A slip: a write is taken to have written everything.
Unwritten_assumed(n) == <<>>

\* What is left of the bytes under way after a write of n.
Unwritten(n) == SubSeq(copy.pending, n + 1, Len(copy.pending))

Writing == stage \in {"copy", "drop"} /\ copy.pending # <<>>

\* RubyIOWriter::write calls IO#write, which says how much it wrote.
WriteToIO ==
  /\ Writing
  /\ \E n \in 1 .. Len(copy.pending) :
       /\ io' = io \o SubSeq(copy.pending, 1, n)
       /\ copy' = [copy EXCEPT !.pending = Unwritten(n)]
  /\ UNCHANGED <<stage, call, data, columns, writer, target, temp, cache,
                 result, calls, given, before, converted, swallowed>>

\* The copy ends; the BufWriter, when it is dropped, tries once more to write
\* what is in its buffer, and nobody looks at what comes of it.
GivesUp ==
  IF stage = "copy" /\ copy.buffered
  THEN stage' = "drop" /\ UNCHANGED <<result, writer, temp, target, copy>>
  ELSE RaiseKeepingTarget /\ copy' = [copy EXCEPT !.pending = <<>>]

\* IO#write writes nothing, which is an error of its own, ...
WriteZero ==
  /\ Writing
  /\ GivesUp
  /\ UNCHANGED <<call, data, columns, io, cache, calls, given, before,
                 converted, swallowed>>

\* ... or raises, or returns what is no count, having taken some of the bytes.
WriteRaises ==
  /\ Writing
  /\ \E n \in 0 .. Len(copy.pending) :
       /\ io' = io \o SubSeq(copy.pending, 1, n)
       /\ swallowed' = (swallowed \/ n > 0)
  /\ GivesUp
  /\ UNCHANGED <<call, data, columns, cache, calls, given, before, converted>>

\* Everything is written: IO#flush, and the call returns.
FlushIO ==
  /\ stage = "copy"
  /\ copy.pending = <<>> /\ copy.read = Len(temp)
  /\ Return \/ Raise
  /\ UNCHANGED <<call, data, columns, target, io, copy, cache, calls, given,
                 before, converted, swallowed>>

\* The buffer is empty after all.
Dropped ==
  /\ stage = "drop"
  /\ copy.pending = <<>>
  /\ RaiseKeepingTarget
  /\ UNCHANGED <<call, data, columns, io, copy, cache, calls, given, before,
                 converted, swallowed>>

\* The process ends where it is.
Crash ==
  /\ stage \notin {"idle", "crashed"}
  /\ stage' = "crashed"
  /\ UNCHANGED <<call, data, columns, writer, target, temp, io, copy, cache,
                 result, calls, given, before, converted, swallowed>>

Work ==
  CreateWriter \/ WriteRow \/ ConvertBatch \/ WriteColumns \/ Finalize
    \/ ReadChunk \/ WriteToIO \/ WriteZero \/ WriteRaises \/ FlushIO \/ Dropped

Next == Begin \/ Work \/ Crash

Spec == Init /\ [][Next]_vars

\* A call is straight-line code and loops over finite data; every call into
\* Ruby that it makes is taken to return.
FairSpec == Spec /\ WF_vars(Work)
----------------------------------------------------------------------------
(* Properties. *)

\* The rows of the whole data: those of write_rows as they are, the values of
\* each column of write_columns one batch after another.
GivenColumn(f) == FlattenSeq([b \in DOMAIN given |-> given[b][f]])

GivenRows ==
  IF call.method = "write_rows" THEN given
  ELSE IF given = <<>> THEN <<>>
  ELSE [i \in 1 .. Len(GivenColumn(1)) |-> [f \in Fields |-> GivenColumn(f)[i]]]

WholeFile == GivenRows \o <<Footer>>

\* Whoever opens the file at the path, while a call runs, after it failed or
\* after a crash, reads the file from before the call or all rows of the call in
\* order, or is told that it is no Parquet file; the latter never after success.
PathHoldsOldOrWholeFile ==
  /\ Readable(target) /\ target # before =>
       call.write_to = "path" /\ target = WholeFile
  /\ result = "ok" /\ call.write_to = "path" => target = WholeFile

AllAccepted ==
  \A i \in DOMAIN GivenRows :
    GivenRows[i] # NotArray /\ Converts(GivenRows[i]) /\ ValidRow(GivenRows[i])

\* An IO gets nothing of a call with a row that is refused.  What it gets is the
\* finished file in order and without a gap: all of it if the call succeeds, a
\* beginning of it if not.  Only if a write that raised had taken bytes can bytes
\* come twice, no more of them than a buffer holds, and the call fails.
IOHoldsBeginningOfWholeFile ==
  io # <<>> =>
    /\ AllAccepted
    /\ \E n \in 0 .. (IF swallowed THEN Lesser(BufferSize, Len(io)) ELSE 0) :
         IsPrefix(SubSeq(io, 1, Len(io) - n), WholeFile)
    /\ result = "ok" => io = WholeFile

\* The cache stays within its limits, and its counts are exact even after it is
\* full: a string that was retained missed once, one that was not misses always.
CacheCountsAreExact ==
  cache # None =>
    LET strings == {i \in DOMAIN converted : converted[i] \in Strings}
        refused == {i \in strings : converted[i] \notin cache.entries}
    IN  /\ Cardinality(cache.entries) <= cache.capacity
        /\ cache.retained_bytes = MapThenSumSet(LAMBDA s : Size[s], cache.entries)
        /\ cache.retained_bytes <= STRING_CACHE_RETAINED_BYTES_MAX
        /\ cache.misses = Cardinality(cache.entries) + Cardinality(refused)
        /\ cache.hits + cache.misses = Cardinality(strings)

\* Every call returns, whatever the IO answers, unless the process ends.
EveryCallReturns == stage # "idle" ~> stage \in {"idle", "crashed"}
============================================================================
