-------------------------- MODULE CoreWriterProofs --------------------------
(***************************************************************************)
(* The core writer never loses, repeats or reorders an acknowledged row,   *)
(* for every schema width, set of values, limit and option, and implements *)
(* the all-or-nothing file of RowFile.                                     *)
(***************************************************************************)
EXTENDS CoreWriter, SequenceTheorems, TLAPS

----------------------------------------------------------------------------
(* Batch sizes: each that the writer can choose, for every limit and every *)
(* schema width, respects the slot limit it is there for.                  *)

\* Rows times columns, when the rows are what the slots allow per column.
LEMMA QuotientFits ==
  ASSUME NEW s \in Nat \ {0}, NEW c \in Nat \ {0}, c <= s
  PROVE  /\ s \div c \in Nat \ {0}
         /\ (s \div c) * c <= s
  <1>1. s = c * (s \div c) + (s % c) /\ s % c \in 0 .. c - 1 /\ s \div c \in Int
    OBVIOUS
  <1>2. s \div c >= 1
    BY <1>1
  <1>. QED
    BY <1>1, <1>2

\* Multiplying both sides of an inequality by a number of columns.
LEMMA ScaledByColumns ==
  ASSUME NEW m \in Nat, NEW n \in Nat, NEW c \in Nat, m <= n
  PROVE  m * c <= n * c
  <1>1. PICK d \in Nat : n = m + d
    <2>1. n - m \in Nat /\ n = m + (n - m)
      OBVIOUS
    <2>. QED BY <2>1
  <1>2. n * c = m * c + d * c /\ d * c \in Nat /\ m * c \in Nat
    BY <1>1
  <1>. QED BY <1>2

\* The largest batch is at least one row, and as many rows as it holds fit the
\* slots of every column: wide schemas shrink the batch, never past one row.
THEOREM MaxBatchFitsSlots ==
  ASSUME NEW columns \in Nat \ {0}, valid_column_count(columns)
  PROVE  /\ max_batch_size(columns) \in 1 .. MAX_BATCH_SIZE
         /\ max_batch_size(columns) * columns <= MAX_BUFFERED_VALUE_SLOTS
  <1>. USE LimitsAssumption
  <1>. DEFINE q == MAX_BUFFERED_VALUE_SLOTS \div columns
  <1>1. q \in Nat \ {0} /\ q * columns <= MAX_BUFFERED_VALUE_SLOTS
    BY QuotientFits DEF valid_column_count
  <1>. HIDE DEF q
  <1>2. max_batch_size(columns) = IF q <= MAX_BATCH_SIZE THEN q ELSE MAX_BATCH_SIZE
    BY <1>1 DEF max_batch_size, Lesser, Greater, q
  <1>3. max_batch_size(columns) \in 1 .. MAX_BATCH_SIZE /\ max_batch_size(columns) <= q
    BY <1>1, <1>2
  <1>4. max_batch_size(columns) * columns <= q * columns
    BY <1>1, <1>3, ScaledByColumns
  <1>. QED
    BY <1>1, <1>3, <1>4

\* Whatever size the samples suggest, dynamic sizing chooses a batch of at
\* least one row that the schema's width allows, and so does the default.
THEOREM ChosenBatchFits ==
  ASSUME NEW columns \in Nat \ {0}, valid_column_count(columns), NEW suggested
  PROVE  /\ dynamic_batch_size(suggested, columns) \in 1 .. max_batch_size(columns)
         /\ default_batch_size(columns) \in 1 .. max_batch_size(columns)
  <1>. DEFINE max == max_batch_size(columns)
  <1>1. max \in Nat \ {0}
    BY MaxBatchFitsSlots, LimitsAssumption
  <1>. HIDE DEF max
  <1>2. Lesser(MIN_BATCH_SIZE, max) \in 1 .. max
    BY <1>1, LimitsAssumption DEF Lesser
  <1>3. dynamic_batch_size(suggested, columns) =
        Clamp(suggested, Lesser(MIN_BATCH_SIZE, max), max)
    BY DEF dynamic_batch_size, max
  <1>4. dynamic_batch_size(suggested, columns) \in 1 .. max
    <2>1. CASE suggested \in Lesser(MIN_BATCH_SIZE, max) .. max
      BY <1>1, <1>2, <1>3, <2>1 DEF Clamp
    <2>2. CASE suggested \notin Lesser(MIN_BATCH_SIZE, max) .. max
      BY <1>1, <1>2, <1>3, <2>2 DEF Clamp
    <2>. QED BY <2>1, <2>2
  <1>5. default_batch_size(columns) \in 1 .. max
    BY <1>1, LimitsAssumption DEF default_batch_size, Lesser, max
  <1>. QED
    BY <1>4, <1>5 DEF max
----------------------------------------------------------------------------
(* The Arrow writer: what it holds survives unless the sink broke. *)

RowsOf(a) == a.row_groups \o a.in_progress

LEMMA ArrowStates ==
  ASSUME NEW a \in ArrowType
  PROVE  /\ RowsOf(a) \in Seq(Rows)
         /\ Broken(a) \in ArrowType /\ Broken(a).sink = "failed"
         /\ Completed(a) \in ArrowType /\ Completed(a).sink = a.sink
         /\ Completed(a).in_progress = <<>>
         /\ Completed(a).row_groups = RowsOf(a)
         /\ RowsOf(Completed(a)) = RowsOf(a)
  <1>1. <<>> \in Seq(Rows)
    BY EmptySeq
  <1>2. RowsOf(a) \in Seq(Rows)
    BY ConcatProperties DEF ArrowType, RowsOf
  <1>3. Broken(a) \in ArrowType /\ Broken(a).sink = "failed"
    BY <1>1 DEF ArrowType, Broken
  <1>4. /\ Completed(a) \in ArrowType /\ Completed(a).sink = a.sink
        /\ Completed(a).in_progress = <<>>
        /\ Completed(a).row_groups = RowsOf(a)
    BY <1>1, <1>2 DEF ArrowType, Completed, RowsOf
  <1>5. RowsOf(Completed(a)) = RowsOf(a)
    BY <1>2, <1>4, ConcatEmptySeq DEF RowsOf
  <1>. QED
    BY <1>2, <1>3, <1>4, <1>5

LEMMA FlushKeepsRows ==
  ASSUME NEW a \in ArrowType, NEW o \in ArrowFlush(a)
  PROVE  /\ o.arrow \in ArrowType
         /\ o.result \in {"ok", "io_error"}
         /\ o.result # "ok" => o.arrow.sink = "failed"
         /\ o.result = "ok" => RowsOf(o.arrow) = RowsOf(a)
         /\ o.arrow.sink = "ok" => a.sink = "ok" /\ o.result = "ok"
  <1>1. CASE o = Done(a)
    BY <1>1 DEF Done
  <1>2. CASE o = Failed(a)
    BY <1>2, ArrowStates DEF Failed
  <1>3. CASE o = Done(Completed(a)) /\ a.sink = "ok"
    BY <1>3, ArrowStates DEF Done
  <1>. QED
    BY <1>1, <1>2, <1>3 DEF ArrowFlush

LEMMA WriteAddsBatch ==
  ASSUME NEW a \in ArrowType, NEW batch \in Seq(Rows), NEW o \in ArrowWrite(a, batch)
  PROVE  /\ o.arrow \in ArrowType
         /\ o.result \in {"ok", "io_error"}
         /\ o.result # "ok" => o.arrow.sink = "failed"
         /\ o.result = "ok" => RowsOf(o.arrow) = RowsOf(a) \o batch
         /\ o.arrow.sink = "ok" => a.sink = "ok" /\ o.result = "ok"
  <1>. DEFINE more == a.in_progress \o batch
              joined == [a EXCEPT !.in_progress = more]
  <1>1. a.row_groups \in Seq(Rows) /\ a.in_progress \in Seq(Rows) /\ more \in Seq(Rows)
    BY ConcatProperties DEF ArrowType
  <1>2. a.row_groups \o more = RowsOf(a) \o batch
    <2>1. \A s, t, u \in Seq(Rows) : (s \o t) \o u = s \o (t \o u)
      BY ConcatAssociative
    <2>. QED BY <1>1, <2>1 DEF RowsOf
  <1>. HIDE DEF more
  <1>3. /\ joined \in ArrowType /\ joined.sink = a.sink
        /\ joined.row_groups = a.row_groups /\ joined.in_progress = more
    BY <1>1 DEF ArrowType
  <1>4. o = Done(joined) \/ o \in ArrowFlush(joined)
    BY DEF ArrowWrite, more
  <1>. HIDE DEF joined
  <1>5. RowsOf(joined) = RowsOf(a) \o batch
    BY <1>2, <1>3 DEF RowsOf
  <1>6. CASE o = Done(joined)
    BY <1>3, <1>5, <1>6 DEF Done
  <1>7. CASE o \in ArrowFlush(joined)
    BY <1>3, <1>5, <1>7, FlushKeepsRows
  <1>. QED
    BY <1>4, <1>6, <1>7

LEMMA CloseCompletesRows ==
  ASSUME NEW a \in ArrowType, NEW o \in ArrowClose(a)
  PROVE  /\ o.arrow \in ArrowType
         /\ o.result \in {"ok", "io_error"}
         /\ o.arrow.sink = "ok" <=> o.result = "ok"
         /\ o.result = "ok" => a.sink = "ok" /\ o.arrow.in_progress = <<>>
                      /\ o.arrow.row_groups = RowsOf(a)
  <1>1. CASE o = Failed(a)
    BY <1>1, ArrowStates DEF Failed
  <1>2. CASE o = Done(Completed(a)) /\ a.sink = "ok"
    BY <1>2, ArrowStates DEF Done
  <1>. QED
    BY <1>1, <1>2 DEF ArrowClose
----------------------------------------------------------------------------
(* The buffers. *)

LEMMA BufferedRowsType ==
  ASSUME NEW w, WriterOK(w)
  PROVE  /\ BufferedRows(w) \in Seq(Rows)
         /\ Len(BufferedRows(w)) = w.buffered_row_count
  <1>1. w.buffered_row_count \in Nat
    BY DEF WriterOK, WriterType
  <1>2. ASSUME NEW i \in 1 .. w.buffered_row_count
        PROVE  [f \in Fields |-> w.buffered_columns[f][i]] \in Rows
    <2>1. ASSUME NEW f \in Fields PROVE w.buffered_columns[f][i] \in Values
      BY <1>2 DEF WriterOK, WriterType
    <2>. QED BY <2>1 DEF Rows
  <1>3. BufferedRows(w) \in [1 .. w.buffered_row_count -> Rows]
    BY <1>2 DEF BufferedRows
  <1>. QED
    BY <1>1, <1>3

LEMMA ReplacedBuffer ==
  ASSUME NEW w \in WriterType, NEW columns \in [Fields -> Seq(Values)],
         NEW total \in Nat, NEW e,
         e = [w EXCEPT !.buffered_columns = columns, !.buffered_row_count = 0,
                       !.total_rows_written = total]
  PROVE  e \in WriterType
  BY DEF WriterType

\* Emptying the buffers leaves no rows and keeps the shape.
LEMMA EmptiedBuffer ==
  ASSUME NEW w, WriterOK(w)
  PROVE  /\ WriterOK(Emptied(w))
         /\ BufferedRows(Emptied(w)) = <<>>
         /\ Emptied(w).buffered_row_count = 0
         /\ Emptied(w).current_batch_size = w.current_batch_size
         /\ Emptied(w).size_samples = w.size_samples
         /\ ColumnsBuild(Emptied(w).buffered_columns)
  <1>. DEFINE none == [f \in Fields |-> <<>>]
              total == w.total_rows_written + w.buffered_row_count
  <1>1. Emptied(w) = [w EXCEPT !.buffered_columns = none,
            !.buffered_row_count = 0, !.total_rows_written = total]
    BY DEF Emptied
  <1>2. w \in WriterType /\ none \in [Fields -> Seq(Values)] /\ total \in Nat
    BY EmptySeq DEF WriterOK, WriterType
  <1>. HIDE DEF none, total
  <1>3. /\ Emptied(w).buffered_columns = none
        /\ Emptied(w).buffered_row_count = 0
        /\ Emptied(w).current_batch_size = w.current_batch_size
        /\ Emptied(w).size_samples = w.size_samples
        /\ Emptied(w).sample_size = w.sample_size
    BY <1>1, <1>2 DEF WriterType
  <1>4. WriterOK(Emptied(w))
    <2>1. Emptied(w) \in WriterType
      BY <1>1, <1>2, ReplacedBuffer
    <2>. QED BY <1>3, <2>1 DEF WriterOK, none
  <1>5. BufferedRows(Emptied(w)) = <<>>
    BY <1>4, <1>3, BufferedRowsType
  <1>. QED
    BY <1>3, <1>4, <1>5 DEF ColumnsBuild, none

\* Pushing a row onto the columns appends it to the rows they hold.
LEMMA PushedRow ==
  ASSUME NEW w, WriterOK(w), NEW row \in Rows
  PROVE  /\ WriterOK(Pushed(w, row))
         /\ BufferedRows(Pushed(w, row)) = Append(BufferedRows(w), row)
         /\ Pushed(w, row).buffered_row_count = w.buffered_row_count + 1
         /\ Pushed(w, row).current_batch_size = w.current_batch_size
         /\ ColumnsBuild(Pushed(w, row).buffered_columns) =>
              ColumnsBuild(w.buffered_columns)
  <1>. DEFINE p == Pushed(w, row)
              columns == [f \in Fields |-> Append(w.buffered_columns[f], row[f])]
  <1>1. p = [w EXCEPT !.buffered_columns = columns,
                      !.buffered_row_count = w.buffered_row_count + 1]
    BY DEF Pushed
  <1>2. w \in WriterType /\ w.buffered_row_count \in Nat
    BY DEF WriterOK, WriterType
  <1>3. ASSUME NEW f \in Fields
        PROVE  /\ w.buffered_columns[f] \in Seq(Values)
               /\ Len(w.buffered_columns[f]) = w.buffered_row_count
               /\ row[f] \in Values
               /\ columns[f] \in Seq(Values)
               /\ Len(columns[f]) = w.buffered_row_count + 1
               /\ columns[f][w.buffered_row_count + 1] = row[f]
               /\ \A i \in 1 .. w.buffered_row_count :
                    columns[f][i] = w.buffered_columns[f][i]
    BY <1>2 DEF WriterOK, WriterType, Rows
  <1>4. /\ p.buffered_columns = columns
        /\ p.buffered_row_count = w.buffered_row_count + 1
        /\ p.current_batch_size = w.current_batch_size
        /\ p.size_samples = w.size_samples
        /\ p.sample_size = w.sample_size
    BY <1>1, <1>2 DEF WriterType
  <1>5. columns \in [Fields -> Seq(Values)]
    BY <1>3
  <1>. HIDE DEF columns
  <1>6. p \in WriterType
    <2>1. w.buffered_row_count + 1 \in Nat
      BY <1>2
    <2>. QED BY <1>1, <1>2, <1>5, <2>1 DEF WriterType
  <1>. HIDE DEF p
  <1>7. WriterOK(p)
    BY <1>3, <1>4, <1>6 DEF WriterOK
  <1>8. BufferedRows(p) = Append(BufferedRows(w), row)
    <2>1. /\ BufferedRows(w) \in Seq(Rows) /\ Len(BufferedRows(w)) = w.buffered_row_count
          /\ BufferedRows(p) \in Seq(Rows)
          /\ Len(BufferedRows(p)) = w.buffered_row_count + 1
      BY <1>4, <1>7, BufferedRowsType
    <2>2. /\ Append(BufferedRows(w), row) \in Seq(Rows)
          /\ Len(Append(BufferedRows(w), row)) = w.buffered_row_count + 1
      BY <2>1
    <2>3. ASSUME NEW i \in 1 .. w.buffered_row_count + 1
          PROVE  BufferedRows(p)[i] = Append(BufferedRows(w), row)[i]
      <3>1. BufferedRows(p)[i] = [f \in Fields |-> columns[f][i]]
        BY <1>4 DEF BufferedRows
      <3>2. CASE i = w.buffered_row_count + 1
        <4>1. [f \in Fields |-> columns[f][i]] = row
          BY <1>3, <3>2 DEF Rows
        <4>. QED BY <2>1, <3>1, <3>2, <4>1
      <3>3. CASE i \in 1 .. w.buffered_row_count
        <4>1. [f \in Fields |-> columns[f][i]] = [f \in Fields |-> w.buffered_columns[f][i]]
          BY <1>3, <3>3
        <4>2. BufferedRows(w)[i] = [f \in Fields |-> w.buffered_columns[f][i]]
          BY <3>3 DEF BufferedRows
        <4>. QED BY <2>1, <3>1, <3>3, <4>1, <4>2
      <3>4. i = w.buffered_row_count + 1 \/ i \in 1 .. w.buffered_row_count
        BY <1>2
      <3>. QED BY <3>2, <3>3, <3>4
    <2>. QED BY <2>1, <2>2, <2>3, SeqEqual
  <1>9. ASSUME ColumnsBuild(columns) PROVE ColumnsBuild(w.buffered_columns)
    <2> SUFFICES ASSUME NEW f \in Fields, NEW i \in DOMAIN w.buffered_columns[f]
                 PROVE  w.buffered_columns[f][i] \in Buildable[f]
      BY DEF ColumnsBuild
    <2>1. i \in 1 .. w.buffered_row_count /\ i \in DOMAIN columns[f]
      BY <1>2, <1>3
    <2>. QED BY <1>3, <1>9, <2>1 DEF ColumnsBuild
  <1>. QED
    BY <1>4, <1>7, <1>8, <1>9 DEF p

\* Sampling a row size touches the sample and the batch size only, and the
\* batch size it chooses fits the slots.
LEMMA SampledWriter ==
  ASSUME NEW w, WriterOK(w), valid_column_count(NumFields),
         w.current_batch_size \in 1 .. max_batch_size(NumFields),
         NEW row \in Rows, NEW s \in sample_row_size(w, row)
  PROVE  /\ WriterOK(s)
         /\ s.buffered_columns = w.buffered_columns
         /\ s.buffered_row_count = w.buffered_row_count
         /\ s.current_batch_size \in 1 .. max_batch_size(NumFields)
  <1>1. CASE s = w
    BY <1>1
  <1>2. CASE \E sizes \in SampledSizes(w, EstimatedRowSize[row]) :
               s = update_batch_size([w EXCEPT !.size_samples = sizes])
    <2>1. PICK sizes \in SampledSizes(w, EstimatedRowSize[row]) :
                 s = update_batch_size([w EXCEPT !.size_samples = sizes])
      BY <1>2
    <2>. DEFINE size == EstimatedRowSize[row]
                v == [w EXCEPT !.size_samples = sizes]
                batch == dynamic_batch_size(
                           suggested_batch_size(v.memory_threshold,
                             Total(v.size_samples), Len(v.size_samples)),
                           NumFields)
    <2>2. /\ w \in WriterType /\ size \in Nat
          /\ w.size_samples \in Seq(Nat) /\ w.sample_size \in Nat
          /\ Len(w.size_samples) <= w.sample_size
      BY WriterAssumption DEF WriterOK, WriterType
    <2>. HIDE DEF size
    <2>3. sizes \in Seq(Nat) /\ Len(sizes) <= w.sample_size
      <3>1. CASE sizes = Append(w.size_samples, size) /\ Len(w.size_samples) < w.sample_size
        BY <2>2, <3>1
      <3>2. CASE sizes = w.size_samples
        BY <2>2, <3>2
      <3>3. CASE /\ Len(w.size_samples) = w.sample_size
                 /\ \E idx \in 0 .. w.total_rows_written :
                      idx < w.sample_size /\ sizes = [w.size_samples EXCEPT ![idx + 1] = size]
        <4>1. PICK idx \in 0 .. w.total_rows_written :
                idx < w.sample_size /\ sizes = [w.size_samples EXCEPT ![idx + 1] = size]
          BY <3>3
        <4>2. idx + 1 \in 1 .. Len(w.size_samples)
          BY <2>2, <3>3, <4>1
        <4>. QED BY <2>2, <4>1, <4>2, ExceptSeq
      <3>4. Len(w.size_samples) \in Nat
        BY <2>2
      <3>. QED BY <2>1, <2>2, <3>1, <3>2, <3>3, <3>4 DEF SampledSizes, DrawRange, size
    <2>4. /\ v \in WriterType
          /\ v.buffered_columns = w.buffered_columns
          /\ v.buffered_row_count = w.buffered_row_count
          /\ v.current_batch_size = w.current_batch_size
          /\ v.size_samples = sizes
          /\ v.sample_size = w.sample_size
      BY <2>2, <2>3 DEF WriterType
    <2>5. batch \in 1 .. max_batch_size(NumFields)
      BY ChosenBatchFits, WriterAssumption
    <2>6. max_batch_size(NumFields) \in Nat
      BY MaxBatchFitsSlots, WriterAssumption, LimitsAssumption
    <2>7. s = v \/ s = [v EXCEPT !.current_batch_size = batch]
      BY <2>1 DEF update_batch_size
    <2>. HIDE DEF v, batch
    <2>8. /\ s \in WriterType
          /\ s.buffered_columns = v.buffered_columns
          /\ s.buffered_row_count = v.buffered_row_count
          /\ s.current_batch_size \in {v.current_batch_size, batch}
          /\ s.size_samples = v.size_samples
          /\ s.sample_size = v.sample_size
      BY <2>4, <2>5, <2>6, <2>7 DEF WriterType
    <2>. QED
      BY <2>3, <2>4, <2>5, <2>8 DEF WriterOK
  <1>. QED
    BY <1>1, <1>2 DEF sample_row_size
----------------------------------------------------------------------------
(* The calls.  A call that leaves the writer healthy found it healthy. *)

LEMMA ContentType ==
  ASSUME NEW w, WriterOK(w), NEW a \in ArrowType
  PROVE  /\ ContentOf(w, a) = RowsOf(a) \o BufferedRows(w)
         /\ ContentOf(w, a) \in Seq(Rows)
  BY BufferedRowsType, ArrowStates, ConcatProperties DEF ContentOf, RowsOf

LEMMA FlushedBuffers ==
  ASSUME NEW w, WriterOK(w), NEW a \in ArrowType,
         NEW o \in flush_buffered_rows(w, a)
  PROVE  /\ WriterOK(o.writer)
         /\ o.arrow \in ArrowType
         /\ o.result \in {"ok", "conversion_error", "io_error"}
         /\ o.writer.current_batch_size = w.current_batch_size
         /\ o.writer.size_samples = w.size_samples
         /\ o.result = "ok" =>
              /\ o.writer.buffered_row_count = 0
              /\ ColumnsBuild(o.writer.buffered_columns)
              /\ ContentOf(o.writer, o.arrow) = ContentOf(w, a)
         /\ IsHealthy(o.writer, o.arrow) => IsHealthy(w, a) /\ o.result = "ok"
  <1>1. CASE w.buffered_row_count = 0 /\ o = Result(w, a, "ok")
    <2>1. ColumnsBuild(w.buffered_columns)
      BY <1>1 DEF ColumnsBuild, WriterOK, WriterType
    <2>. QED BY <1>1, <2>1 DEF Result
  <1>2. CASE ~ColumnsBuild(w.buffered_columns) /\ o = Result(w, a, "conversion_error")
    BY <1>2 DEF Result, IsHealthy
  <1>3. CASE /\ ColumnsBuild(w.buffered_columns)
             /\ \E written \in ArrowWrite(a, BufferedRows(w)) :
                  \/ written.result # "ok" /\ o = Result(w, written.arrow, "io_error")
                  \/ written.result = "ok" /\ o = Result(Emptied(w), written.arrow, "ok")
                  \/ /\ written.result = "ok"
                     /\ \E flushed \in ArrowFlush(written.arrow) :
                          o = Result(Emptied(w), flushed.arrow, flushed.result)
    <2>1. PICK written \in ArrowWrite(a, BufferedRows(w)) :
             \/ written.result # "ok" /\ o = Result(w, written.arrow, "io_error")
             \/ written.result = "ok" /\ o = Result(Emptied(w), written.arrow, "ok")
             \/ /\ written.result = "ok"
                /\ \E flushed \in ArrowFlush(written.arrow) :
                     o = Result(Emptied(w), flushed.arrow, flushed.result)
      BY <1>3
    <2>2. /\ BufferedRows(w) \in Seq(Rows)
          /\ written.arrow \in ArrowType
          /\ written.result # "ok" => written.arrow.sink = "failed"
          /\ written.result = "ok" =>
               RowsOf(written.arrow) = RowsOf(a) \o BufferedRows(w)
          /\ written.arrow.sink = "ok" => a.sink = "ok"
      BY BufferedRowsType, WriteAddsBatch
    <2>3. ASSUME NEW b \in ArrowType, RowsOf(b) = RowsOf(a) \o BufferedRows(w)
          PROVE  ContentOf(Emptied(w), b) = ContentOf(w, a)
      <3>1. RowsOf(b) \in Seq(Rows)
        BY ArrowStates
      <3>2. WriterOK(Emptied(w)) /\ BufferedRows(Emptied(w)) = <<>>
        BY EmptiedBuffer
      <3>3. ContentOf(Emptied(w), b) = RowsOf(b) \o <<>>
        BY <3>2, ContentType
      <3>4. ContentOf(w, a) = RowsOf(a) \o BufferedRows(w)
        BY ContentType
      <3>. QED BY <2>3, <3>1, <3>3, <3>4, ConcatEmptySeq
    <2>4. CASE written.result # "ok" /\ o = Result(w, written.arrow, "io_error")
      BY <2>2, <2>4 DEF Result, IsHealthy
    <2>5. CASE written.result = "ok" /\ o = Result(Emptied(w), written.arrow, "ok")
      <3>1. /\ o.writer = Emptied(w) /\ o.arrow = written.arrow /\ o.result = "ok"
        BY <2>5 DEF Result
      <3>2. IsHealthy(o.writer, o.arrow) => IsHealthy(w, a)
        BY <1>3, <2>2, <3>1 DEF IsHealthy
      <3>3. ContentOf(o.writer, o.arrow) = ContentOf(w, a)
        BY <2>2, <2>3, <2>5, <3>1
      <3>. QED BY <2>2, <3>1, <3>2, <3>3, EmptiedBuffer
    <2>6. CASE /\ written.result = "ok"
               /\ \E flushed \in ArrowFlush(written.arrow) :
                    o = Result(Emptied(w), flushed.arrow, flushed.result)
      <3>1. PICK flushed \in ArrowFlush(written.arrow) :
                 o = Result(Emptied(w), flushed.arrow, flushed.result)
        BY <2>6
      <3>2. /\ o.writer = Emptied(w) /\ o.arrow = flushed.arrow
            /\ o.result = flushed.result
        BY <3>1 DEF Result
      <3>3. /\ flushed.arrow \in ArrowType
            /\ flushed.result \in {"ok", "io_error"}
            /\ flushed.result = "ok" => RowsOf(flushed.arrow) = RowsOf(written.arrow)
            /\ flushed.arrow.sink = "ok" =>
                 written.arrow.sink = "ok" /\ flushed.result = "ok"
        BY <2>2, FlushKeepsRows
      <3>4. /\ WriterOK(Emptied(w)) /\ Emptied(w).buffered_row_count = 0
            /\ Emptied(w).current_batch_size = w.current_batch_size
            /\ Emptied(w).size_samples = w.size_samples
            /\ ColumnsBuild(Emptied(w).buffered_columns)
        BY EmptiedBuffer
      <3>5. IsHealthy(o.writer, o.arrow) => IsHealthy(w, a) /\ o.result = "ok"
        BY <1>3, <2>2, <3>2, <3>3 DEF IsHealthy
      <3>6. o.result = "ok" => ContentOf(o.writer, o.arrow) = ContentOf(w, a)
        BY <2>2, <2>3, <2>6, <3>2, <3>3
      <3>. QED BY <3>2, <3>3, <3>4, <3>5, <3>6
    <2>. QED BY <2>1, <2>4, <2>5, <2>6
  <1>. QED
    BY <1>1, <1>2, <1>3 DEF flush_buffered_rows

\* Whether the writer holds less than a batch, of a size the slots allow.
BatchFits(w) ==
  /\ w.current_batch_size \in 1 .. max_batch_size(NumFields)
  /\ w.buffered_row_count < w.current_batch_size

LEMMA WrittenRow ==
  ASSUME NEW w, WriterOK(w), NEW a \in ArrowType, NEW row,
         valid_column_count(NumFields),
         w.current_batch_size \in 1 .. max_batch_size(NumFields),
         NEW o \in write_row(w, a, row)
  PROVE  /\ WriterOK(o.writer)
         /\ o.arrow \in ArrowType
         /\ o.result \in Outcomes
         /\ o.writer.current_batch_size \in 1 .. max_batch_size(NumFields)
         /\ o.result = "schema_error" => o.writer = w /\ o.arrow = a
         /\ o.result # "schema_error" => row \in Rows
         /\ IsHealthy(o.writer, o.arrow) =>
              /\ IsHealthy(w, a)
              /\ o.result # "schema_error" =>
                   /\ o.result = "ok"
                   /\ ContentOf(o.writer, o.arrow) = ContentOf(w, a) \o <<row>>
                   /\ BatchFits(o.writer)
  <1>1. CASE ~ValidRow(row) /\ o = Result(w, a, "schema_error")
    BY <1>1 DEF Result, Outcomes
  <1>2. CASE /\ ValidRow(row)
             /\ \E s \in sample_row_size(w, row) :
                  \/ /\ Pushed(s, row).buffered_row_count >= s.current_batch_size
                     /\ o \in flush_buffered_rows(Pushed(s, row), a)
                  \/ /\ ~(Pushed(s, row).buffered_row_count >= s.current_batch_size)
                     /\ o = Result(Pushed(s, row), a, "ok")
    <2>1. PICK s \in sample_row_size(w, row) :
                  \/ /\ Pushed(s, row).buffered_row_count >= s.current_batch_size
                     /\ o \in flush_buffered_rows(Pushed(s, row), a)
                  \/ /\ ~(Pushed(s, row).buffered_row_count >= s.current_batch_size)
                     /\ o = Result(Pushed(s, row), a, "ok")
      BY <1>2
    <2>. DEFINE p == Pushed(s, row)
    <2>2. row \in Rows
      BY <1>2 DEF ValidRow
    <2>3. /\ WriterOK(s)
          /\ s.buffered_columns = w.buffered_columns
          /\ s.buffered_row_count = w.buffered_row_count
          /\ s.current_batch_size \in 1 .. max_batch_size(NumFields)
      BY <2>2, SampledWriter
    <2>4. BufferedRows(s) = BufferedRows(w)
      BY <2>3 DEF BufferedRows
    <2>5. /\ WriterOK(p)
          /\ BufferedRows(p) = Append(BufferedRows(s), row)
          /\ p.current_batch_size = s.current_batch_size
          /\ p.buffered_row_count \in Nat
          /\ ColumnsBuild(p.buffered_columns) => ColumnsBuild(w.buffered_columns)
      BY <2>2, <2>3, PushedRow DEF WriterOK, WriterType
    <2>6. ContentOf(p, a) = ContentOf(w, a) \o <<row>>
      <3>1. /\ RowsOf(a) \in Seq(Rows) /\ BufferedRows(w) \in Seq(Rows)
            /\ <<row>> \in Seq(Rows)
        BY <2>2, ArrowStates, BufferedRowsType
      <3>2. BufferedRows(p) = BufferedRows(w) \o <<row>>
        BY <2>4, <2>5, <3>1, AppendIsConcat
      <3>3. \A x, y, z \in Seq(Rows) : (x \o y) \o z = x \o (y \o z)
        BY ConcatAssociative
      <3>4. /\ ContentOf(p, a) = RowsOf(a) \o BufferedRows(p)
            /\ ContentOf(w, a) = RowsOf(a) \o BufferedRows(w)
        BY <2>5, ContentType
      <3>. QED BY <3>1, <3>2, <3>3, <3>4
    <2>7. IsHealthy(p, a) => IsHealthy(w, a)
      BY <2>5 DEF IsHealthy
    <2>8. CASE o \in flush_buffered_rows(p, a)
      <3>1. /\ WriterOK(o.writer)
            /\ o.arrow \in ArrowType
            /\ o.result \in {"ok", "conversion_error", "io_error"}
            /\ o.writer.current_batch_size = p.current_batch_size
            /\ o.result = "ok" => o.writer.buffered_row_count = 0
            /\ IsHealthy(o.writer, o.arrow) =>
                 /\ IsHealthy(p, a)
                 /\ o.result = "ok"
                 /\ ContentOf(o.writer, o.arrow) = ContentOf(p, a)
        BY <2>5, <2>8, FlushedBuffers
      <3>2. o.result = "ok" => BatchFits(o.writer)
        BY <2>3, <2>5, <3>1 DEF BatchFits
      <3>. QED BY <2>2, <2>3, <2>5, <2>6, <2>7, <3>1, <3>2 DEF Outcomes
    <2>9. CASE /\ ~(p.buffered_row_count >= s.current_batch_size)
               /\ o = Result(p, a, "ok")
      <3>1. o.writer = p /\ o.arrow = a /\ o.result = "ok"
        BY <2>9 DEF Result
      <3>2. BatchFits(p)
        BY <2>3, <2>5, <2>9 DEF BatchFits
      <3>. QED BY <2>2, <2>3, <2>5, <2>6, <2>7, <3>1, <3>2 DEF Outcomes
    <2>. QED BY <2>1, <2>8, <2>9
  <1>. QED
    BY <1>1, <1>2 DEF write_row

LEMMA ColumnRowsType ==
  ASSUME NEW columns \in Seq(Nat \X Seq(Values)), WellFormed(columns)
  PROVE  ColumnRows(columns) \in Seq(Rows)
  <1>. DEFINE order == InSchemaOrder(columns)
  <1>1. ASSUME NEW f \in Fields PROVE order[f] \in Seq(Values)
    <2>1. PICK i \in DOMAIN columns : columns[i][1] = f
      BY DEF WellFormed, Names
    <2>2. ColumnOf(columns, f) \in DOMAIN columns
      BY <2>1 DEF ColumnOf
    <2>3. columns[ColumnOf(columns, f)] \in Nat \X Seq(Values)
      BY <2>2
    <2>. QED BY <2>3 DEF InSchemaOrder
  <1>2. 1 \in Fields
    BY WriterAssumption DEF Fields
  <1>3. \A f \in Fields : Len(order[f]) = Len(order[1])
    BY <1>2 DEF WellFormed
  <1>. HIDE DEF order
  <1>4. Len(order[1]) \in Nat
    BY <1>1, <1>2
  <1>5. ASSUME NEW i \in 1 .. Len(order[1])
        PROVE  [f \in Fields |-> order[f][i]] \in Rows
    <2>1. ASSUME NEW f \in Fields PROVE order[f][i] \in Values
      BY <1>1, <1>3
    <2>. QED BY <2>1 DEF Rows
  <1>6. ColumnRows(columns) = [i \in 1 .. Len(order[1]) |-> [f \in Fields |-> order[f][i]]]
    BY DEF ColumnRows, order
  <1>. DEFINE n == Len(order[1])
  <1>7. ColumnRows(columns) \in [1 .. n -> Rows]
    BY <1>5, <1>6
  <1>. HIDE DEF n
  <1>8. n \in Nat
    BY <1>4 DEF n
  <1>. QED
    BY <1>7, <1>8

LEMMA WrittenBatch ==
  ASSUME NEW w, WriterOK(w), w.buffered_row_count = 0, NEW a \in ArrowType,
         NEW columns \in Seq(Nat \X Seq(Values)), NEW o \in write_batch(w, a, columns)
  PROVE  /\ o.writer = w
         /\ o.arrow \in ArrowType
         /\ o.result \in Outcomes
         /\ o.result = "ok" => RowsIn(columns) \in Seq(Rows)
         /\ o.result = "schema_error" => o.arrow = a
         /\ IsHealthy(w, o.arrow) =>
              /\ IsHealthy(w, a)
              /\ o.result = "ok" => ContentOf(w, o.arrow) = ContentOf(w, a) \o RowsIn(columns)
              /\ o.result # "ok" => ContentOf(w, o.arrow) = ContentOf(w, a)
  <1>1. BufferedRows(w) = <<>>
    BY BufferedRowsType
  <1>2. ASSUME NEW b \in ArrowType
        PROVE  ContentOf(w, b) = RowsOf(b) /\ RowsOf(b) \in Seq(Rows)
    <2>1. RowsOf(b) \in Seq(Rows)
      BY ArrowStates
    <2>2. ContentOf(w, b) = RowsOf(b) \o <<>>
      BY <1>1, ContentType
    <2>. QED BY <2>1, <2>2, ConcatEmptySeq
  <1>3. CASE columns = <<>> /\ o = Result(w, a, "ok")
    <2>1. RowsIn(columns) = <<>> /\ <<>> \in Seq(Rows)
      BY <1>3, EmptySeq DEF RowsIn
    <2>2. ContentOf(w, a) \o <<>> = ContentOf(w, a)
      BY <1>2, ConcatEmptySeq
    <2>. QED BY <1>3, <2>1, <2>2 DEF Result, Outcomes
  <1>4. CASE o = Result(w, a, "schema_error") \/ o = Result(w, a, "conversion_error")
    BY <1>4 DEF Result, Outcomes
  <1>5. CASE /\ columns # <<>> /\ WellFormed(columns)
             /\ \E written \in ArrowWrite(a, ColumnRows(columns)) :
                  o = Result(w, written.arrow, written.result)
    <2>1. RowsIn(columns) = ColumnRows(columns) /\ ColumnRows(columns) \in Seq(Rows)
      BY <1>5, ColumnRowsType DEF RowsIn
    <2>2. PICK written \in ArrowWrite(a, ColumnRows(columns)) :
                  o = Result(w, written.arrow, written.result)
      BY <1>5
    <2>3. o.writer = w /\ o.arrow = written.arrow /\ o.result = written.result
      BY <2>2 DEF Result
    <2>4. /\ written.arrow \in ArrowType
          /\ written.result \in {"ok", "io_error"}
          /\ written.arrow.sink = "ok" =>
               /\ a.sink = "ok" /\ written.result = "ok"
               /\ RowsOf(written.arrow) = RowsOf(a) \o ColumnRows(columns)
      BY <2>1, WriteAddsBatch
    <2>. QED BY <1>2, <2>1, <2>3, <2>4 DEF IsHealthy, Outcomes
  <1>. QED
    BY <1>3, <1>4, <1>5 DEF write_batch

LEMMA WrittenColumns ==
  ASSUME NEW w, WriterOK(w), NEW a \in ArrowType,
         NEW columns \in Seq(Nat \X Seq(Values)), NEW o \in write_columns(w, a, columns)
  PROVE  /\ WriterOK(o.writer)
         /\ o.arrow \in ArrowType
         /\ o.result \in Outcomes
         /\ o.writer.current_batch_size = w.current_batch_size
         /\ o.result = "ok" => RowsIn(columns) \in Seq(Rows)
         /\ o.result = "schema_error" =>
              /\ ContentOf(o.writer, o.arrow) = ContentOf(w, a)
              /\ o.writer.size_samples = w.size_samples
         /\ IsHealthy(o.writer, o.arrow) =>
              /\ IsHealthy(w, a)
              /\ o.writer.buffered_row_count = 0
              /\ o.result = "ok" =>
                   ContentOf(o.writer, o.arrow) = ContentOf(w, a) \o RowsIn(columns)
              /\ o.result # "ok" => ContentOf(o.writer, o.arrow) = ContentOf(w, a)
  <1>1. PICK first \in flush_buffered_rows(w, a) :
          IF first.result = "ok"
          THEN o \in write_batch(first.writer, first.arrow, columns) ELSE o = first
    BY DEF write_columns
  <1>2. /\ WriterOK(first.writer)
        /\ first.arrow \in ArrowType
        /\ first.result \in {"ok", "conversion_error", "io_error"}
        /\ first.writer.current_batch_size = w.current_batch_size
        /\ first.writer.size_samples = w.size_samples
        /\ first.result = "ok" =>
             /\ first.writer.buffered_row_count = 0
             /\ ContentOf(first.writer, first.arrow) = ContentOf(w, a)
        /\ IsHealthy(first.writer, first.arrow) =>
             /\ IsHealthy(w, a)
             /\ first.result = "ok"
             /\ ContentOf(first.writer, first.arrow) = ContentOf(w, a)
    BY FlushedBuffers
  <1>3. CASE first.result # "ok"
    BY <1>1, <1>2, <1>3 DEF Outcomes
  <1>4. CASE first.result = "ok"
    <2>1. /\ o \in write_batch(first.writer, first.arrow, columns)
          /\ WriterOK(first.writer) /\ first.arrow \in ArrowType
          /\ first.writer.buffered_row_count = 0
      BY <1>1, <1>2, <1>4
    <2>. DEFINE v == first.writer
                b == first.arrow
    <2>2. WriterOK(v) /\ v.buffered_row_count = 0 /\ b \in ArrowType
          /\ o \in write_batch(v, b, columns)
      BY <2>1
    <2>. HIDE DEF v, b
    <2>3. /\ o.writer = v
          /\ o.arrow \in ArrowType
          /\ o.result \in Outcomes
          /\ o.result = "schema_error" => o.arrow = b
      BY <2>2, WrittenBatch
    <2>4. o.result = "ok" => RowsIn(columns) \in Seq(Rows)
      BY <2>2, WrittenBatch
    <2>5. IsHealthy(v, o.arrow) => IsHealthy(v, b)
      BY <2>2, WrittenBatch
    <2>6. IsHealthy(v, o.arrow) /\ o.result # "ok" => ContentOf(v, o.arrow) = ContentOf(v, b)
      BY <2>2, WrittenBatch
    <2>7. IsHealthy(v, o.arrow) /\ o.result = "ok" =>
            ContentOf(v, o.arrow) = ContentOf(v, b) \o RowsIn(columns)
      BY <2>2, WrittenBatch
    <2>8. /\ o.writer = first.writer
          /\ o.arrow \in ArrowType
          /\ o.result \in Outcomes
          /\ o.result = "ok" => RowsIn(columns) \in Seq(Rows)
          /\ o.result = "schema_error" => o.arrow = first.arrow
          /\ IsHealthy(first.writer, o.arrow) =>
               /\ IsHealthy(first.writer, first.arrow)
               /\ o.result = "ok" => ContentOf(first.writer, o.arrow) =
                    ContentOf(first.writer, first.arrow) \o RowsIn(columns)
               /\ o.result # "ok" => ContentOf(first.writer, o.arrow) =
                    ContentOf(first.writer, first.arrow)
      BY <2>3, <2>4, <2>5, <2>6, <2>7 DEF v, b
    <2>9. /\ WriterOK(o.writer)
          /\ o.writer.current_batch_size = w.current_batch_size
          /\ o.writer.buffered_row_count = 0
          /\ o.result = "schema_error" =>
               /\ ContentOf(o.writer, o.arrow) = ContentOf(w, a)
               /\ o.writer.size_samples = w.size_samples
      BY <1>2, <1>4, <2>8
    <2>10. ASSUME IsHealthy(o.writer, o.arrow)
          PROVE  /\ IsHealthy(w, a)
                 /\ ContentOf(first.writer, first.arrow) = ContentOf(w, a)
                 /\ o.result = "ok" =>
                      ContentOf(o.writer, o.arrow) = ContentOf(w, a) \o RowsIn(columns)
                 /\ o.result # "ok" => ContentOf(o.writer, o.arrow) = ContentOf(w, a)
      <3>1. IsHealthy(first.writer, o.arrow)
        BY <2>8, <2>10
      <3>2. IsHealthy(first.writer, first.arrow)
        BY <2>8, <3>1
      <3>3. IsHealthy(w, a) /\ ContentOf(first.writer, first.arrow) = ContentOf(w, a)
        BY <1>2, <3>2
      <3>4. ContentOf(o.writer, o.arrow) = ContentOf(first.writer, o.arrow)
        BY <2>8
      <3>. QED BY <2>8, <3>1, <3>3, <3>4
    <2>. QED BY <2>8, <2>9, <2>10
  <1>. QED
    BY <1>3, <1>4

LEMMA FlushedWriter ==
  ASSUME NEW w, WriterOK(w), NEW a \in ArrowType, NEW o \in flush(w, a)
  PROVE  /\ WriterOK(o.writer)
         /\ o.arrow \in ArrowType
         /\ o.result \in {"ok", "conversion_error", "io_error"}
         /\ o.writer.current_batch_size = w.current_batch_size
         /\ IsHealthy(o.writer, o.arrow) =>
              /\ IsHealthy(w, a)
              /\ o.writer.buffered_row_count = 0
              /\ ContentOf(o.writer, o.arrow) = ContentOf(w, a)
  <1>1. PICK first \in flush_buffered_rows(w, a) :
          IF first.result # "ok" THEN o = first
          ELSE \E flushed \in ArrowFlush(first.arrow) :
                 o = Result(first.writer, flushed.arrow, flushed.result)
    BY DEF flush
  <1>2. /\ WriterOK(first.writer)
        /\ first.arrow \in ArrowType
        /\ first.result \in {"ok", "conversion_error", "io_error"}
        /\ first.writer.current_batch_size = w.current_batch_size
        /\ first.result = "ok" => first.writer.buffered_row_count = 0
        /\ IsHealthy(first.writer, first.arrow) =>
             /\ IsHealthy(w, a)
             /\ first.result = "ok"
             /\ ContentOf(first.writer, first.arrow) = ContentOf(w, a)
    BY FlushedBuffers
  <1>3. CASE first.result # "ok"
    BY <1>1, <1>2, <1>3
  <1>4. CASE first.result = "ok"
    <2>1. PICK flushed \in ArrowFlush(first.arrow) :
                 o = Result(first.writer, flushed.arrow, flushed.result)
      BY <1>1, <1>4
    <2>2. /\ o.writer = first.writer /\ o.arrow = flushed.arrow
          /\ o.result = flushed.result
      BY <2>1 DEF Result
    <2>3. /\ flushed.arrow \in ArrowType
          /\ flushed.result \in {"ok", "io_error"}
          /\ flushed.arrow.sink = "ok" =>
               first.arrow.sink = "ok" /\ RowsOf(flushed.arrow) = RowsOf(first.arrow)
      BY <1>2, FlushKeepsRows
    <2>4. flushed.arrow.sink = "ok" =>
            ContentOf(first.writer, flushed.arrow) = ContentOf(first.writer, first.arrow)
      BY <1>2, <2>3, ContentType
    <2>. QED BY <1>2, <1>4, <2>2, <2>3, <2>4 DEF IsHealthy
  <1>. QED
    BY <1>3, <1>4

LEMMA ClosedWriter ==
  ASSUME NEW w, WriterOK(w), NEW a \in ArrowType, NEW o \in close(w, a)
  PROVE  /\ WriterOK(o.writer)
         /\ o.arrow \in ArrowType
         /\ o.result \in {"ok", "conversion_error", "io_error"}
         /\ IsHealthy(o.writer, o.arrow) => IsHealthy(w, a)
         /\ o.result = "ok" =>
              /\ IsHealthy(o.writer, o.arrow)
              /\ o.arrow.row_groups = ContentOf(w, a)
              /\ ContentOf(o.writer, o.arrow) = ContentOf(w, a)
  <1>1. PICK first \in flush_buffered_rows(w, a) :
          IF first.result # "ok" THEN o = first
          ELSE \E closed \in ArrowClose(first.arrow) :
                 o = Result(first.writer, closed.arrow, closed.result)
    BY DEF close
  <1>2. /\ WriterOK(first.writer)
        /\ first.arrow \in ArrowType
        /\ first.result \in {"ok", "conversion_error", "io_error"}
        /\ first.result = "ok" =>
             /\ first.writer.buffered_row_count = 0
             /\ ColumnsBuild(first.writer.buffered_columns)
        /\ IsHealthy(first.writer, first.arrow) =>
             /\ IsHealthy(w, a)
             /\ first.result = "ok"
             /\ ContentOf(first.writer, first.arrow) = ContentOf(w, a)
    BY FlushedBuffers
  <1>3. CASE first.result # "ok"
    BY <1>1, <1>2, <1>3
  <1>4. CASE first.result = "ok"
    <2>1. PICK closed \in ArrowClose(first.arrow) :
                 o = Result(first.writer, closed.arrow, closed.result)
      BY <1>1, <1>4
    <2>2. /\ o.writer = first.writer /\ o.arrow = closed.arrow
          /\ o.result = closed.result
      BY <2>1 DEF Result
    <2>3. /\ closed.arrow \in ArrowType
          /\ closed.result \in {"ok", "io_error"}
          /\ closed.arrow.sink = "ok" <=> closed.result = "ok"
          /\ closed.result = "ok" =>
               /\ first.arrow.sink = "ok" /\ closed.arrow.in_progress = <<>>
               /\ closed.arrow.row_groups = RowsOf(first.arrow)
      BY <1>2, CloseCompletesRows
    <2>4. ASSUME closed.result = "ok"
          PROVE  /\ IsHealthy(first.writer, first.arrow)
                 /\ closed.arrow.row_groups = ContentOf(w, a)
                 /\ ContentOf(first.writer, closed.arrow) = ContentOf(w, a)
      <3>1. IsHealthy(first.writer, first.arrow)
        BY <1>2, <1>4, <2>3, <2>4 DEF IsHealthy
      <3>2. BufferedRows(first.writer) = <<>> /\ RowsOf(first.arrow) \in Seq(Rows)
        BY <1>2, <1>4, BufferedRowsType, ArrowStates
      <3>3. ContentOf(first.writer, first.arrow) = RowsOf(first.arrow)
        BY <1>2, <3>2, ContentType, ConcatEmptySeq
      <3>4. RowsOf(closed.arrow) = RowsOf(first.arrow)
        BY <2>3, <2>4, <3>2, ConcatEmptySeq DEF RowsOf
      <3>5. ContentOf(first.writer, closed.arrow) = RowsOf(first.arrow)
        BY <1>2, <2>3, <3>2, <3>4, ContentType, ConcatEmptySeq
      <3>. QED BY <1>2, <2>3, <2>4, <3>1, <3>3, <3>5
    <2>5. IsHealthy(o.writer, o.arrow) => closed.result = "ok"
      BY <2>2, <2>3 DEF IsHealthy
    <2>6. closed.result = "ok" => IsHealthy(o.writer, o.arrow)
      BY <1>2, <1>4, <2>2, <2>3 DEF IsHealthy
    <2>. QED BY <1>2, <2>2, <2>3, <2>4, <2>5, <2>6
  <1>. QED
    BY <1>3, <1>4
----------------------------------------------------------------------------
(* The inductive invariant.  Two facts strengthen the properties: the batch *)
(* size chosen so far fits the slots, and a writer that was not built, or    *)
(* is closed, has nothing outstanding.                                       *)

UnbuiltIsEmpty ==
  phase = "unbuilt" =>
    arrow = NewArrow /\ writer.buffered_row_count = 0 /\ acknowledged = <<>>

BatchSizeFits ==
  phase = "open" =>
    /\ valid_column_count(NumFields)
    /\ writer.current_batch_size \in 1 .. max_batch_size(NumFields)

HealthyHoldsLessThanABatch ==
  phase = "open" /\ Healthy =>
    writer.buffered_row_count < writer.current_batch_size

ClosedIsComplete ==
  phase = "closed" => Healthy /\ arrow.row_groups = acknowledged

IInv ==
  /\ TypeOK
  /\ UnbuiltIsEmpty
  /\ BatchSizeFits
  /\ HealthyHoldsLessThanABatch
  /\ AcknowledgedRowsAreAccountedFor
  /\ ClosedIsComplete

LEMMA BatchSizesAreNat ==
  /\ max_batch_size(NumFields) \in Nat
  /\ default_batch_size(NumFields) \in Nat
  <1>. DEFINE q == MAX_BUFFERED_VALUE_SLOTS \div NumFields
  <1>1. q \in Int
    BY LimitsAssumption, WriterAssumption
  <1>. HIDE DEF q
  <1>2. max_batch_size(NumFields) =
          Lesser(Greater(q, 1), MAX_BATCH_SIZE)
    BY WriterAssumption DEF max_batch_size, Greater, q
  <1>3. max_batch_size(NumFields) \in Nat
    BY <1>1, <1>2, LimitsAssumption DEF Lesser, Greater
  <1>. QED
    BY <1>3, LimitsAssumption DEF default_batch_size, Lesser

\* A new writer is empty and its batch size is the one asked for, or the default.
LEMMA NewWriterOK ==
  ASSUME NEW batch \in Nat \cup {Dynamic}, NEW sample \in Nat, NEW threshold \in Nat
  PROVE  /\ WriterOK(NewWriter(batch, sample, threshold))
         /\ NewWriter(batch, sample, threshold).buffered_row_count = 0
         /\ NewWriter(batch, sample, threshold).current_batch_size =
              IF batch = Dynamic THEN default_batch_size(NumFields) ELSE batch
  <1>. DEFINE size == IF batch = Dynamic THEN default_batch_size(NumFields) ELSE batch
              none == [f \in Fields |-> <<>>]
  <1>1. size \in Nat
    BY BatchSizesAreNat
  <1>2. none \in [Fields -> Seq(Values)] /\ <<>> \in Seq(Nat)
    BY EmptySeq
  <1>3. \A f \in Fields : Len(none[f]) = 0
    OBVIOUS
  <1>. HIDE DEF size, none
  <1>4. NewWriter(batch, sample, threshold) =
          [buffered_columns |-> none, buffered_row_count |-> 0,
           current_batch_size |-> size, memory_threshold |-> threshold,
           sample_size |-> sample, size_samples |-> <<>>,
           total_rows_written |-> 0, fixed_batch_size |-> batch]
    BY DEF NewWriter, size, none
  <1>5. NewWriter(batch, sample, threshold) \in WriterType
    BY <1>1, <1>2, <1>4 DEF WriterType
  <1>6. Len(<<>>) <= sample
    OBVIOUS
  <1>. QED
    BY <1>3, <1>4, <1>5, <1>6 DEF WriterOK, size

\* A writer without rows, on a new sink, is healthy and holds nothing.
LEMMA NothingBuffered ==
  ASSUME NEW w, WriterOK(w), w.buffered_row_count = 0
  PROVE  IsHealthy(w, NewArrow) /\ ContentOf(w, NewArrow) = <<>>
  <1>1. ColumnsBuild(w.buffered_columns)
    BY DEF ColumnsBuild, WriterOK, WriterType
  <1>2. BufferedRows(w) = <<>>
    BY BufferedRowsType
  <1>3. <<>> \o <<>> \o <<>> = <<>>
    OBVIOUS
  <1>. QED
    BY <1>1, <1>2, <1>3 DEF IsHealthy, ContentOf, NewArrow
----------------------------------------------------------------------------
(* The steps.  Besides the invariant each keeps three promises. *)

NoRepair == ~Healthy => ~Healthy' /\ phase' # "closed"

NoTrace ==
  outcome' = "schema_error" =>
    Content' = Content /\ writer'.size_samples = writer.size_samples

OnlyGrows == \E rows \in Seq(Rows) : acknowledged' = acknowledged \o rows

StepOK == IInv' /\ NoRepair /\ NoTrace /\ OnlyGrows

LEMMA Unacknowledged ==
  ASSUME TypeOK, UNCHANGED acknowledged
  PROVE  OnlyGrows
  <1>1. <<>> \in Seq(Rows) /\ acknowledged \o <<>> = acknowledged
    BY EmptySeq, ConcatEmptySeq DEF TypeOK
  <1>. QED
    BY <1>1 DEF OnlyGrows

\* What a call on an open writer has to show.
LEMMA OpenCall ==
  ASSUME IInv, phase = "open", phase' = "open",
         NEW o, writer' = o.writer, arrow' = o.arrow, outcome' = o.result,
         WriterOK(o.writer), o.arrow \in ArrowType, o.result \in Outcomes,
         rows_left' \in Seq(OfferedRows),
         NEW rows, o.result = "ok" => rows \in Seq(Rows),
         Acknowledge(o, rows),
         o.writer.current_batch_size \in 1 .. max_batch_size(NumFields),
         IsHealthy(o.writer, o.arrow) =>
           /\ IsHealthy(writer, arrow)
           /\ o.writer.buffered_row_count < o.writer.current_batch_size
           /\ ContentOf(o.writer, o.arrow) =
                IF o.result = "ok" THEN Content \o rows ELSE Content
  PROVE  IInv' /\ NoRepair /\ OnlyGrows
  <1>1. acknowledged \in Seq(Rows)
    BY DEF IInv, TypeOK
  <1>2. OnlyGrows /\ acknowledged' \in Seq(Rows)
    <2>1. CASE o.result = "ok"
      BY <1>1, <2>1, ConcatProperties DEF OnlyGrows, Acknowledge
    <2>2. CASE o.result # "ok"
      <3>1. UNCHANGED acknowledged
        BY <2>2 DEF Acknowledge
      <3>. QED BY <1>1, <3>1, Unacknowledged DEF IInv
    <2>. QED BY <2>1, <2>2
  <1>3. TypeOK'
    BY <1>2 DEF TypeOK
  <1>4. Healthy' = IsHealthy(o.writer, o.arrow) /\ Healthy = IsHealthy(writer, arrow)
    BY DEF Healthy
  <1>5. NoRepair
    BY <1>4 DEF NoRepair
  <1>6. Content' = ContentOf(o.writer, o.arrow)
    BY DEF Content
  <1>7. AcknowledgedRowsAreAccountedFor'
    <2>1. Healthy => Content = acknowledged
      BY DEF IInv, AcknowledgedRowsAreAccountedFor
    <2>. QED
      BY <1>4, <1>6, <2>1 DEF AcknowledgedRowsAreAccountedFor, Acknowledge
  <1>8. HealthyHoldsLessThanABatch' /\ BatchSizeFits'
    BY <1>4 DEF HealthyHoldsLessThanABatch, BatchSizeFits, IInv
  <1>9. UnbuiltIsEmpty' /\ ClosedIsComplete'
    BY DEF UnbuiltIsEmpty, ClosedIsComplete
  <1>. QED
    BY <1>2, <1>3, <1>5, <1>7, <1>8, <1>9 DEF IInv

LEMMA OpenWriter ==
  ASSUME IInv, phase = "open"
  PROVE  /\ WriterOK(writer) /\ arrow \in ArrowType
         /\ valid_column_count(NumFields)
         /\ writer.current_batch_size \in 1 .. max_batch_size(NumFields)
         /\ Content = ContentOf(writer, arrow)
         /\ Healthy => writer.buffered_row_count < writer.current_batch_size
  BY DEF IInv, TypeOK, BatchSizeFits, Content, HealthyHoldsLessThanABatch

LEMMA RowCall ==
  ASSUME IInv, phase = "open", phase' = "open", NEW row, Content \in Seq(Rows),
         NEW o \in write_row(writer, arrow, row), Returns(o), Acknowledge(o, <<row>>),
         rows_left' \in Seq(OfferedRows)
  PROVE  StepOK
  <1>1. /\ WriterOK(writer) /\ arrow \in ArrowType
        /\ valid_column_count(NumFields)
        /\ writer.current_batch_size \in 1 .. max_batch_size(NumFields)
        /\ Content = ContentOf(writer, arrow)
        /\ Healthy => writer.buffered_row_count < writer.current_batch_size
    BY OpenWriter
  <1>2. /\ WriterOK(o.writer)
        /\ o.arrow \in ArrowType
        /\ o.result \in Outcomes
        /\ o.writer.current_batch_size \in 1 .. max_batch_size(NumFields)
        /\ o.result = "schema_error" => o.writer = writer /\ o.arrow = arrow
        /\ o.result # "schema_error" => row \in Rows
        /\ IsHealthy(o.writer, o.arrow) =>
             /\ IsHealthy(writer, arrow)
             /\ o.result # "schema_error" =>
                  /\ o.result = "ok"
                  /\ ContentOf(o.writer, o.arrow) = ContentOf(writer, arrow) \o <<row>>
                  /\ BatchFits(o.writer)
    BY <1>1, WrittenRow
  <1>3. writer' = o.writer /\ arrow' = o.arrow /\ outcome' = o.result
    BY DEF Returns
  <1>4. o.result = "ok" => <<row>> \in Seq(Rows)
    BY <1>2
  <1>5. ASSUME IsHealthy(o.writer, o.arrow)
        PROVE  /\ IsHealthy(writer, arrow)
               /\ o.writer.buffered_row_count < o.writer.current_batch_size
               /\ ContentOf(o.writer, o.arrow) =
                    IF o.result = "ok" THEN Content \o <<row>> ELSE Content
    BY <1>1, <1>2, <1>5 DEF BatchFits, Healthy
  <1>6. IInv' /\ NoRepair /\ OnlyGrows
    BY <1>2, <1>3, <1>4, <1>5, OpenCall
  <1>7. NoTrace
    BY <1>2, <1>3 DEF NoTrace, Content
  <1>. QED
    BY <1>6, <1>7 DEF StepOK

LEMMA ContentIsRows ==
  ASSUME TypeOK
  PROVE  Content \in Seq(Rows)
  BY ContentType DEF TypeOK, Content

LEMMA BuildStep ==
  ASSUME IInv, Build
  PROVE  StepOK
  <1>1. PICK batch \in BatchSizeOptions, sample \in SampleSizes,
             threshold \in Thresholds :
          IF /\ valid_column_count(NumFields)
             /\ batch # Dynamic => valid_fixed_batch_size(batch, NumFields)
             /\ valid_sample_size(sample)
          THEN /\ phase' = "open"
               /\ writer' = NewWriter(batch, sample, threshold)
               /\ outcome' = "ok"
          ELSE /\ phase' = "refused"
               /\ outcome' = "schema_error"
               /\ UNCHANGED writer
    BY DEF Build
  <1>2. /\ phase = "unbuilt" /\ UNCHANGED <<arrow, rows_left, acknowledged>>
        /\ TypeOK /\ WriterOK(writer) /\ arrow = NewArrow /\ acknowledged = <<>>
        /\ writer.buffered_row_count = 0
    BY DEF Build, IInv, TypeOK, UnbuiltIsEmpty
  <1>3. Healthy /\ Content = <<>>
    BY <1>2, NothingBuffered DEF Healthy, Content
  <1>4. OnlyGrows
    BY <1>2, Unacknowledged
  <1>5. CASE /\ valid_column_count(NumFields)
             /\ batch # Dynamic => valid_fixed_batch_size(batch, NumFields)
             /\ phase' = "open"
             /\ writer' = NewWriter(batch, sample, threshold)
             /\ outcome' = "ok"
    <2>1. batch \in Nat \cup {Dynamic} /\ sample \in Nat /\ threshold \in Nat
      BY WriterAssumption
    <2>2. /\ WriterOK(writer') /\ writer'.buffered_row_count = 0
          /\ writer'.current_batch_size =
              IF batch = Dynamic THEN default_batch_size(NumFields) ELSE batch
      BY <1>5, <2>1, NewWriterOK
    <2>3. default_batch_size(NumFields) \in 1 .. max_batch_size(NumFields)
      BY <1>5, WriterAssumption, ChosenBatchFits
    <2>4. writer'.current_batch_size \in 1 .. max_batch_size(NumFields)
      BY <1>5, <2>2, <2>3 DEF valid_fixed_batch_size
    <2>5. IsHealthy(writer', NewArrow) /\ ContentOf(writer', NewArrow) = <<>>
      BY <2>2, NothingBuffered
    <2>6. Healthy' /\ Content' = <<>>
      BY <1>2, <2>5 DEF Healthy, Content
    <2>7. TypeOK'
      BY <1>2, <1>5, <2>2 DEF TypeOK, Outcomes
    <2>8. BatchSizeFits' /\ HealthyHoldsLessThanABatch'
      BY <1>5, <2>2, <2>4 DEF BatchSizeFits, HealthyHoldsLessThanABatch
    <2>9. UnbuiltIsEmpty' /\ AcknowledgedRowsAreAccountedFor' /\ ClosedIsComplete'
      BY <1>2, <1>5, <2>6
      DEF UnbuiltIsEmpty, AcknowledgedRowsAreAccountedFor, ClosedIsComplete
    <2>. QED
      BY <1>3, <1>4, <1>5, <2>7, <2>8, <2>9 DEF StepOK, IInv, NoRepair, NoTrace
  <1>6. CASE phase' = "refused" /\ outcome' = "schema_error" /\ UNCHANGED writer
    <2>1. TypeOK'
      BY <1>2, <1>6 DEF TypeOK, Outcomes
    <2>2. Content' = Content /\ Healthy'
      BY <1>2, <1>3, <1>6 DEF Content, Healthy
    <2>3. /\ UnbuiltIsEmpty' /\ BatchSizeFits' /\ HealthyHoldsLessThanABatch'
          /\ AcknowledgedRowsAreAccountedFor' /\ ClosedIsComplete'
      BY <1>6 DEF UnbuiltIsEmpty, BatchSizeFits, HealthyHoldsLessThanABatch,
                  AcknowledgedRowsAreAccountedFor, ClosedIsComplete
    <2>. QED
      BY <1>3, <1>4, <1>6, <2>1, <2>2, <2>3 DEF StepOK, IInv, NoRepair, NoTrace
  <1>. QED
    BY <1>1, <1>5, <1>6

LEMMA WriteRowStep ==
  ASSUME IInv, WriteRow
  PROVE  StepOK
  <1>1. PICK row \in OfferedRows : \E o \in write_row(writer, arrow, row) :
          Returns(o) /\ Acknowledge(o, <<row>>)
    BY DEF WriteRow
  <1>2. phase = "open" /\ phase' = "open" /\ rows_left' \in Seq(OfferedRows)
    BY DEF WriteRow, Idle, IInv, TypeOK
  <1>3. Content \in Seq(Rows)
    BY ContentIsRows DEF IInv
  <1>. QED
    BY <1>1, <1>2, <1>3, RowCall

LEMMA WriteNextRowStep ==
  ASSUME IInv, WriteNextRow
  PROVE  StepOK
  <1>1. PICK o \in write_row(writer, arrow, Head(rows_left)) :
          /\ Returns(o)
          /\ Acknowledge(o, <<Head(rows_left)>>)
          /\ rows_left' = IF o.result = "ok" THEN Tail(rows_left) ELSE <<>>
    BY DEF WriteNextRow
  <1>2. phase = "open" /\ phase' = "open" /\ rows_left # <<>>
    BY DEF WriteNextRow
  <1>3. rows_left' \in Seq(OfferedRows)
    <2>1. Tail(rows_left) \in Seq(OfferedRows) /\ <<>> \in Seq(OfferedRows)
      BY <1>2, EmptySeq DEF IInv, TypeOK
    <2>. QED BY <1>1, <2>1
  <1>4. Content \in Seq(Rows)
    BY ContentIsRows DEF IInv
  <1>. QED
    BY <1>1, <1>2, <1>3, <1>4, RowCall

LEMMA WriteColumnsStep ==
  ASSUME IInv, WriteColumns
  PROVE  StepOK
  <1>1. PICK columns \in OfferedColumns :
          \E o \in write_columns(writer, arrow, columns) :
            Returns(o) /\ Acknowledge(o, RowsIn(columns))
    BY DEF WriteColumns
  <1>2. PICK o \in write_columns(writer, arrow, columns) :
            Returns(o) /\ Acknowledge(o, RowsIn(columns))
    BY <1>1
  <1>3. phase = "open" /\ phase' = "open" /\ rows_left' \in Seq(OfferedRows)
    BY DEF WriteColumns, Idle, IInv, TypeOK
  <1>4. columns \in Seq(Nat \X Seq(Values))
    BY WriterAssumption
  <1>5. /\ WriterOK(writer) /\ arrow \in ArrowType
        /\ writer.current_batch_size \in 1 .. max_batch_size(NumFields)
        /\ Content = ContentOf(writer, arrow)
    BY <1>3, OpenWriter
  <1>6. writer' = o.writer /\ arrow' = o.arrow /\ outcome' = o.result
    BY <1>2 DEF Returns
  <1>. DEFINE w == writer
              a == arrow
              rows == RowsIn(columns)
  <1>7. /\ WriterOK(w) /\ a \in ArrowType /\ o \in write_columns(w, a, columns)
    BY <1>2, <1>5
  <1>. HIDE DEF w, a, rows
  <1>8. /\ WriterOK(o.writer)
        /\ o.arrow \in ArrowType
        /\ o.result \in Outcomes
        /\ o.writer.current_batch_size = w.current_batch_size
        /\ o.result = "ok" => rows \in Seq(Rows)
        /\ o.result = "schema_error" =>
             /\ ContentOf(o.writer, o.arrow) = ContentOf(w, a)
             /\ o.writer.size_samples = w.size_samples
    BY <1>4, <1>7, WrittenColumns DEF rows
  <1>9. IsHealthy(o.writer, o.arrow) =>
          IsHealthy(w, a) /\ o.writer.buffered_row_count = 0
    BY <1>4, <1>7, WrittenColumns
  <1>10. IsHealthy(o.writer, o.arrow) /\ o.result = "ok" =>
          ContentOf(o.writer, o.arrow) = ContentOf(w, a) \o rows
    BY <1>4, <1>7, WrittenColumns DEF rows
  <1>11. IsHealthy(o.writer, o.arrow) /\ o.result # "ok" =>
          ContentOf(o.writer, o.arrow) = ContentOf(w, a)
    BY <1>4, <1>7, WrittenColumns
  <1>12. o.writer.current_batch_size \in 1 .. max_batch_size(NumFields)
    BY <1>5, <1>8 DEF w
  <1>13. ASSUME IsHealthy(o.writer, o.arrow)
         PROVE  /\ IsHealthy(writer, arrow)
                /\ o.writer.buffered_row_count < o.writer.current_batch_size
                /\ ContentOf(o.writer, o.arrow) =
                     IF o.result = "ok" THEN Content \o rows ELSE Content
    <2>1. o.writer.buffered_row_count = 0
      BY <1>9, <1>13
    <2>2. o.writer.buffered_row_count < o.writer.current_batch_size
      BY <1>12, <2>1
    <2>. QED BY <1>5, <1>9, <1>10, <1>11, <1>13, <2>2 DEF w, a
  <1>14. Acknowledge(o, rows)
    BY <1>2 DEF rows
  <1>15. IInv' /\ NoRepair /\ OnlyGrows
    BY <1>3, <1>6, <1>8, <1>12, <1>13, <1>14, OpenCall
  <1>16. NoTrace
    BY <1>5, <1>6, <1>8 DEF NoTrace, Content, w, a
  <1>. QED
    BY <1>15, <1>16 DEF StepOK

LEMMA FlushStep ==
  ASSUME IInv, Flush
  PROVE  StepOK
  <1>1. PICK o \in flush(writer, arrow) : Returns(o)
    BY DEF Flush
  <1>2. /\ phase = "open" /\ phase' = "open" /\ UNCHANGED acknowledged
        /\ rows_left' \in Seq(OfferedRows)
    BY DEF Flush, Idle, IInv, TypeOK
  <1>3. /\ WriterOK(writer) /\ arrow \in ArrowType
        /\ writer.current_batch_size \in 1 .. max_batch_size(NumFields)
        /\ Content = ContentOf(writer, arrow)
    BY <1>2, OpenWriter
  <1>4. /\ WriterOK(o.writer)
        /\ o.arrow \in ArrowType
        /\ o.result \in {"ok", "conversion_error", "io_error"}
        /\ o.writer.current_batch_size = writer.current_batch_size
        /\ IsHealthy(o.writer, o.arrow) =>
             /\ IsHealthy(writer, arrow)
             /\ o.writer.buffered_row_count = 0
             /\ ContentOf(o.writer, o.arrow) = ContentOf(writer, arrow)
    BY <1>1, <1>3, FlushedWriter
  <1>5. writer' = o.writer /\ arrow' = o.arrow /\ outcome' = o.result
    BY <1>1 DEF Returns
  <1>6. <<>> \in Seq(Rows) /\ Content \o <<>> = Content
    BY <1>3, EmptySeq, ContentType, ConcatEmptySeq
  <1>7. Acknowledge(o, <<>>)
    <2>1. acknowledged \o <<>> = acknowledged
      BY ConcatEmptySeq DEF IInv, TypeOK
    <2>. QED BY <1>2, <2>1 DEF Acknowledge
  <1>8. o.result \in Outcomes
    BY <1>4 DEF Outcomes
  <1>9. ASSUME IsHealthy(o.writer, o.arrow)
        PROVE  /\ IsHealthy(writer, arrow)
               /\ o.writer.buffered_row_count < o.writer.current_batch_size
               /\ ContentOf(o.writer, o.arrow) =
                    IF o.result = "ok" THEN Content \o <<>> ELSE Content
    BY <1>3, <1>4, <1>6, <1>9
  <1>10. o.writer.current_batch_size \in 1 .. max_batch_size(NumFields)
    BY <1>3, <1>4
  <1>11. IInv' /\ NoRepair /\ OnlyGrows
    BY <1>2, <1>4, <1>5, <1>6, <1>7, <1>8, <1>9, <1>10, OpenCall
  <1>. QED
    BY <1>4, <1>5, <1>11 DEF StepOK, NoTrace

LEMMA CloseStep ==
  ASSUME IInv, Close
  PROVE  StepOK /\ (phase' = "closed" => arrow'.row_groups = acknowledged')
  <1>1. PICK o \in close(writer, arrow) :
          /\ Returns(o)
          /\ phase' = IF o.result = "ok" THEN "closed" ELSE "failed"
    BY DEF Close
  <1>2. phase = "open" /\ UNCHANGED <<rows_left, acknowledged>>
    BY DEF Close, Idle
  <1>3. /\ WriterOK(writer) /\ arrow \in ArrowType
        /\ Content = ContentOf(writer, arrow)
    BY <1>2, OpenWriter
  <1>4. /\ WriterOK(o.writer)
        /\ o.arrow \in ArrowType
        /\ o.result \in {"ok", "conversion_error", "io_error"}
        /\ IsHealthy(o.writer, o.arrow) => IsHealthy(writer, arrow)
        /\ o.result = "ok" =>
             /\ IsHealthy(o.writer, o.arrow)
             /\ o.arrow.row_groups = ContentOf(writer, arrow)
             /\ ContentOf(o.writer, o.arrow) = ContentOf(writer, arrow)
    BY <1>1, <1>3, ClosedWriter
  <1>5. writer' = o.writer /\ arrow' = o.arrow /\ outcome' = o.result
    BY <1>1 DEF Returns
  <1>6. Healthy' = IsHealthy(o.writer, o.arrow) /\ Healthy = IsHealthy(writer, arrow)
    BY <1>5 DEF Healthy
  <1>7. TypeOK'
    BY <1>1, <1>2, <1>4, <1>5 DEF IInv, TypeOK, Outcomes
  <1>8. ASSUME o.result = "ok"
        PROVE  /\ phase' = "closed" /\ Healthy /\ Healthy'
               /\ arrow'.row_groups = acknowledged' /\ Content' = acknowledged'
    <2>1. Healthy /\ Healthy'
      BY <1>4, <1>6, <1>8
    <2>2. Content = acknowledged
      BY <1>2, <2>1 DEF IInv, AcknowledgedRowsAreAccountedFor
    <2>3. Content' = ContentOf(o.writer, o.arrow)
      BY <1>5 DEF Content
    <2>. QED BY <1>1, <1>2, <1>3, <1>4, <1>5, <1>8, <2>1, <2>2, <2>3
  <1>9. NoRepair /\ NoTrace
    BY <1>1, <1>4, <1>5, <1>6, <1>8 DEF NoRepair, NoTrace
  <1>10. OnlyGrows
    BY <1>2, Unacknowledged DEF IInv
  <1>11. /\ UnbuiltIsEmpty' /\ BatchSizeFits' /\ HealthyHoldsLessThanABatch'
         /\ AcknowledgedRowsAreAccountedFor' /\ ClosedIsComplete'
    BY <1>1, <1>8 DEF UnbuiltIsEmpty, BatchSizeFits, HealthyHoldsLessThanABatch,
                      AcknowledgedRowsAreAccountedFor, ClosedIsComplete
  <1>. QED
    BY <1>1, <1>7, <1>8, <1>9, <1>10, <1>11 DEF StepOK, IInv

\* Steps that leave the writer, the Arrow writer and the rows alone.
LEMMA SameRowsStep ==
  ASSUME IInv, UNCHANGED <<writer, arrow, outcome, acknowledged>>,
         rows_left' \in Seq(OfferedRows),
         phase' \in {phase, "dropped"}
  PROVE  StepOK
  <1>1. Content' = Content /\ Healthy' = Healthy
    BY DEF Content, Healthy
  <1>2. TypeOK'
    BY DEF IInv, TypeOK
  <1>3. UnbuiltIsEmpty' /\ BatchSizeFits' /\ HealthyHoldsLessThanABatch'
    BY <1>1 DEF IInv, UnbuiltIsEmpty, BatchSizeFits, HealthyHoldsLessThanABatch
  <1>4. AcknowledgedRowsAreAccountedFor' /\ ClosedIsComplete'
    BY <1>1 DEF IInv, AcknowledgedRowsAreAccountedFor, ClosedIsComplete
  <1>5. NoRepair /\ NoTrace
    BY <1>1 DEF NoRepair, NoTrace, IInv, ClosedIsComplete
  <1>6. OnlyGrows
    BY Unacknowledged DEF IInv
  <1>. QED
    BY <1>2, <1>3, <1>4, <1>5, <1>6 DEF StepOK, IInv

LEMMA WriteRowsStep ==
  ASSUME IInv, WriteRows
  PROVE  StepOK
  <1>1. PICK first \in OfferedRows, second \in OfferedRows :
          rows_left' = <<first, second>>
    BY DEF WriteRows
  <1>2. rows_left' \in Seq(OfferedRows)
    BY <1>1
  <1>. QED
    BY <1>2, SameRowsStep DEF WriteRows

LEMMA DropStep ==
  ASSUME IInv, Drop
  PROVE  StepOK
  <1>1. rows_left' \in Seq(OfferedRows)
    BY DEF Drop, IInv, TypeOK
  <1>. QED
    BY <1>1, SameRowsStep DEF Drop

LEMMA InitEstablishes ==
  ASSUME Init
  PROVE  IInv /\ Healthy
  <1>1. WriterOK(writer) /\ writer.buffered_row_count = 0
    BY NewWriterOK DEF Init
  <1>2. Healthy /\ Content = <<>>
    BY <1>1, NothingBuffered DEF Init, Healthy, Content
  <1>3. NewArrow \in ArrowType
    BY EmptySeq DEF NewArrow, ArrowType
  <1>4. TypeOK
    BY <1>1, <1>3, EmptySeq DEF Init, TypeOK, Outcomes
  <1>. QED
    BY <1>1, <1>2, <1>4
    DEF Init, IInv, UnbuiltIsEmpty, BatchSizeFits, HealthyHoldsLessThanABatch,
        AcknowledgedRowsAreAccountedFor, ClosedIsComplete

LEMMA StepPreserves ==
  ASSUME IInv, [Next]_vars
  PROVE  StepOK
  <1>1. CASE Build BY <1>1, BuildStep
  <1>2. CASE WriteRow BY <1>2, WriteRowStep
  <1>3. CASE WriteRows BY <1>3, WriteRowsStep
  <1>4. CASE WriteNextRow BY <1>4, WriteNextRowStep
  <1>5. CASE WriteColumns BY <1>5, WriteColumnsStep
  <1>6. CASE Flush BY <1>6, FlushStep
  <1>7. CASE Close BY <1>7, CloseStep
  <1>8. CASE Drop BY <1>8, DropStep
  <1>9. CASE UNCHANGED vars
    <2>1. rows_left' \in Seq(OfferedRows)
      BY <1>9 DEF vars, IInv, TypeOK
    <2>. QED BY <1>9, <2>1, SameRowsStep DEF vars
  <1>. QED
    BY <1>1, <1>2, <1>3, <1>4, <1>5, <1>6, <1>7, <1>8, <1>9 DEF Next
----------------------------------------------------------------------------
(* The theorems. *)

LEMMA Invariance == Spec => []IInv
  <1>1. Init => IInv
    BY InitEstablishes
  <1>2. IInv /\ [Next]_vars => IInv'
    BY StepPreserves DEF StepOK
  <1>. QED
    BY <1>1, <1>2, PTL DEF Spec

\* Column buffers, row count, sample and histories keep their shape: the row
\* loop of flush_buffered_rows never meets columns of different lengths, and
\* the sample never outgrows its reservation.
THEOREM TypeCorrect == Spec => []TypeOK
  <1>1. IInv => TypeOK
    BY DEF IInv
  <1>. QED
    BY <1>1, Invariance, PTL

\* No mix of rows, columns, flushes and rejected calls loses, repeats or
\* reorders a row of a healthy writer, whatever the batch size does meanwhile.
THEOREM RowsAreConserved == Spec => []AcknowledgedRowsAreAccountedFor
  <1>1. IInv => AcknowledgedRowsAreAccountedFor
    BY DEF IInv
  <1>. QED
    BY <1>1, Invariance, PTL

\* A successful close leaves every acknowledged row in a completed row group,
\* and nothing else.
THEOREM CloseIsComplete == Spec => []ClosedFileIsComplete
  <1>1. IInv => ClosedFileIsComplete
    BY DEF IInv, ClosedIsComplete, ClosedFileIsComplete
  <1>. QED
    BY <1>1, Invariance, PTL

\* The buffers of a healthy writer stay below the batch size and within the
\* value slots, for every width of schema and every limit.
THEOREM BuffersAreBounded == Spec => []BufferStaysWithinBatch
  <1>1. ASSUME IInv PROVE BufferStaysWithinBatch
    <2> SUFFICES ASSUME phase = "open", Healthy
                 PROVE  /\ writer.buffered_row_count < writer.current_batch_size
                        /\ writer.buffered_row_count * NumFields <= MAX_BUFFERED_VALUE_SLOTS
      BY DEF BufferStaysWithinBatch
    <2>. DEFINE n == writer.buffered_row_count
                m == max_batch_size(NumFields)
    <2>1. /\ valid_column_count(NumFields)
          /\ writer.current_batch_size \in 1 .. m
          /\ n < writer.current_batch_size
      BY <1>1 DEF IInv, BatchSizeFits, HealthyHoldsLessThanABatch
    <2>2. n \in Nat
      BY <1>1 DEF IInv, TypeOK, WriterOK, WriterType
    <2>3. m \in Nat /\ m * NumFields <= MAX_BUFFERED_VALUE_SLOTS
      BY <2>1, BatchSizesAreNat, MaxBatchFitsSlots, WriterAssumption
    <2>. HIDE DEF n, m
    <2>4. n <= m
      BY <2>1, <2>2, <2>3
    <2>5. n * NumFields <= m * NumFields
      BY <2>2, <2>3, <2>4, ScaledByColumns, WriterAssumption
    <2>6. n * NumFields \in Int /\ m * NumFields \in Int
      BY <2>2, <2>3, WriterAssumption
    <2>7. n * NumFields <= MAX_BUFFERED_VALUE_SLOTS
      BY <2>3, <2>5, <2>6, LimitsAssumption
    <2>. QED BY <2>1, <2>7 DEF n
  <1>. QED
    BY <1>1, Invariance, PTL

\* No call repairs a writer that lost a row group or holds a value it cannot
\* build, and no close of such a writer succeeds.
THEOREM FailuresStick == Spec => FailureIsSticky
  <1>1. IInv /\ [Next]_vars => [~Healthy => ~Healthy' /\ phase' # "closed"]_vars
    BY StepPreserves DEF StepOK, NoRepair
  <1>. QED
    BY <1>1, Invariance, PTL DEF Spec, FailureIsSticky

\* A call refused for its arguments changes no row and no sample.
THEOREM RejectionsLeaveNoTrace == Spec => RejectionLeavesNoTrace
  <1>1. IInv /\ [Next]_vars =>
          [outcome' = "schema_error" =>
             Content' = Content /\ writer'.size_samples = writer.size_samples]_vars
    BY StepPreserves DEF StepOK, NoTrace
  <1>. QED
    BY <1>1, Invariance, PTL DEF Spec, RejectionLeavesNoTrace
----------------------------------------------------------------------------
(* The writer implements the all-or-nothing file. *)

LEMMA PrefixOfConcat ==
  ASSUME NEW S, NEW s \in Seq(S), NEW t \in Seq(S)
  PROVE  /\ Len(s) <= Len(s \o t)
         /\ SubSeq(s \o t, 1, Len(s)) = s
  <1>1. /\ s \o t \in Seq(S) /\ Len(s \o t) = Len(s) + Len(t)
        /\ Len(s) \in Nat /\ Len(t) \in Nat
        /\ \A i \in 1 .. Len(s) : (s \o t)[i] = s[i]
    BY ConcatProperties
  <1>. DEFINE c == s \o t
  <1>. HIDE DEF c
  <1>2. c \in Seq(S) /\ Len(s) <= Len(c) /\ \A i \in 1 .. Len(s) : c[i] = s[i]
    BY <1>1 DEF c
  <1>3. /\ SubSeq(c, 1, Len(s)) \in Seq(S)
        /\ Len(SubSeq(c, 1, Len(s))) = Len(s)
        /\ \A i \in 1 .. Len(s) : SubSeq(c, 1, Len(s))[i] = c[i]
    BY <1>1, <1>2
  <1>4. SubSeq(c, 1, Len(s)) = s
    BY <1>2, <1>3, SeqEqual
  <1>. QED
    BY <1>2, <1>4 DEF c

LEMMA AbstractInit == Init => Abstract!Init
  <1>1. Init => Healthy
    BY InitEstablishes
  <1>. QED
    BY <1>1 DEF Init, Abstract!Init, AbstractPhase

LEMMA AbstractStep == IInv /\ [Next]_vars => [Abstract!Next]_(Abstract!vars)
  <1> SUFFICES ASSUME IInv, [Next]_vars
               PROVE  [Abstract!Next]_(Abstract!vars)
    OBVIOUS
  <1>1. StepOK
    BY StepPreserves
  <1>2. acknowledged \in Seq(Rows) /\ acknowledged' \in Seq(Rows)
    BY <1>1 DEF StepOK, IInv, TypeOK
  <1>3. /\ Len(acknowledged) <= Len(acknowledged')
        /\ SubSeq(acknowledged', 1, Len(acknowledged)) = acknowledged
    BY <1>1, <1>2, PrefixOfConcat DEF StepOK, OnlyGrows
  <1>. DEFINE file == IF phase = "closed" THEN arrow.row_groups ELSE <<>>
  <1>4. CASE /\ phase \in {"unbuilt", "open"} /\ phase' \in {"unbuilt", "open"}
    <2>1. /\ AbstractPhase \in {"open", "doomed"}
          /\ AbstractPhase' \in {AbstractPhase, "doomed"}
          /\ file = <<>> /\ file' = <<>>
      BY <1>1, <1>4 DEF AbstractPhase, StepOK, NoRepair
    <2>. QED
      BY <1>2, <1>3, <2>1 DEF Abstract!Next, Abstract!Accept
  <1>5. CASE Close /\ phase' = "closed"
    <2>1. /\ phase = "open" /\ UNCHANGED acknowledged
          /\ arrow'.row_groups = acknowledged'
      BY <1>5, CloseStep DEF Close, Idle
    <2>2. AbstractPhase = "open" /\ AbstractPhase' = "finished"
      BY <1>1, <1>5, <2>1 DEF AbstractPhase, StepOK, NoRepair
    <2>. QED
      BY <1>5, <2>1, <2>2 DEF Abstract!Next, Abstract!Finish
  <1>6. CASE /\ phase \in {"unbuilt", "open"} /\ phase' \in {"refused", "failed", "dropped"}
             /\ UNCHANGED acknowledged
    <2>1. /\ AbstractPhase \in {"open", "doomed"}
          /\ AbstractPhase' = "abandoned"
          /\ file = <<>> /\ file' = <<>>
      BY <1>6 DEF AbstractPhase
    <2>. QED
      BY <1>6, <2>1 DEF Abstract!Next, Abstract!Abandon
  <1>7. CASE UNCHANGED vars
    BY <1>7 DEF vars, Abstract!vars, AbstractPhase, Healthy
  <1>8. \/ phase \in {"unbuilt", "open"} /\ phase' \in {"unbuilt", "open"}
        \/ Close /\ phase' = "closed"
        \/ /\ phase \in {"unbuilt", "open"} /\ phase' \in {"refused", "failed", "dropped"}
           /\ UNCHANGED acknowledged
        \/ UNCHANGED vars
    BY DEF Next, Build, WriteRow, WriteRows, WriteNextRow, WriteColumns, Flush,
           Close, Drop, Idle
  <1>. QED
    BY <1>4, <1>5, <1>6, <1>7, <1>8

\* The writer, whatever it buffers and whichever step of it fails, is the
\* all-or-nothing file of RowFile.
THEOREM WriterImplementsRowFile == Spec => ImplementsRowFile
  <1>. QED
    BY AbstractInit, AbstractStep, Invariance, PTL
    DEF Spec, ImplementsRowFile, Abstract!Spec
============================================================================
