----------------------------- MODULE CoreWriter -----------------------------
(***************************************************************************)
(* The core Parquet writer, ext/parquet-core/src/writer.rs: rows are       *)
(* validated, sampled, split into column buffers and handed in batches to  *)
(* the Arrow writer, an external library that collects them in a row group *)
(* and writes to the sink.  The Writer is owned by one caller (&mut self), *)
(* so a call is one step; what the Arrow writer does inside it is chosen   *)
(* nondeterministically.                                                   *)
(*                                                                         *)
(* writer is the Rust struct Writer, arrow the external ArrowWriter.  Rows *)
(* are sequences of values indexed by field.  What a value is, is left to  *)
(* four constants: see ValueRules for the rules of the two checks.         *)
(***************************************************************************)
EXTENDS BatchSizing, SequencesExt

CONSTANTS
  NumFields,        \* fields of the root struct
  Values,           \* values a caller may pass
  Valid,            \* Valid[f]: accepted by validate_value_against_field
  Buildable,        \* Buildable[f]: accepted by the Arrow array builders
  EstimatedRowSize, \* estimate_row_size, by row
  OfferedRows,      \* rows callers pass; some have the wrong arity
  OfferedColumns,   \* arguments of write_columns
  BatchSizeOptions, \* values of with_batch_size, or Dynamic
  SampleSizes,      \* values of with_sample_size
  Thresholds,       \* values of with_memory_threshold
  Dynamic,          \* batch_size: None
  MaxRows           \* bound of the model: rows that reach the buffers

Fields == 1 .. NumFields
Rows == [Fields -> Values]

ASSUME WriterAssumption ==
  /\ NumFields \in Nat \ {0}
  /\ Valid \in [Fields -> SUBSET Values]
  /\ Buildable \in [Fields -> SUBSET Values]
  /\ OfferedColumns \subseteq Seq(Nat \X Seq(Values))
  /\ EstimatedRowSize \in [Rows -> Nat]
  /\ Thresholds \subseteq Nat
  /\ SampleSizes \subseteq Nat
  /\ BatchSizeOptions \subseteq Nat \cup {Dynamic}
  /\ Dynamic \notin Nat
  /\ MaxRows \in Nat

VARIABLES
  phase,        \* "unbuilt", "refused", "open", "closed", "failed", "dropped"
  writer,       \* the Writer
  arrow,        \* the ArrowWriter: its rows by how far they got, its sink
  rows_left,    \* the rows a call of write_rows has still to write
  outcome,      \* what the last call returned
  acknowledged  \* history: rows whose write returned Ok

vars == <<phase, writer, arrow, rows_left, outcome, acknowledged>>

Outcomes == {"ok", "schema_error", "conversion_error", "io_error"}
----------------------------------------------------------------------------
(* The Arrow writer. *)

NewArrow == [row_groups |-> <<>>, in_progress |-> <<>>, sink |-> "ok"]

\* A row group that fails to reach the sink has left in_progress and is lost;
\* no later row group can be completed after it.
Broken(a) == [a EXCEPT !.in_progress = <<>>, !.sink = "failed"]

Completed(a) ==
  [a EXCEPT !.row_groups = a.row_groups \o a.in_progress, !.in_progress = <<>>]

Done(a) == [arrow |-> a, result |-> "ok"]
Failed(a) == [arrow |-> Broken(a), result |-> "io_error"]

\* Ending a row group: nothing to do, completed, or broken.
ArrowFlush(a) ==
  IF a.in_progress = <<>> THEN {Done(a)}
  ELSE IF a.sink = "ok" THEN {Done(Completed(a)), Failed(a)}
  ELSE {Failed(a)}

\* A batch joins the row group, which may then be full and end.
ArrowWrite(a, batch) ==
  LET joined == [a EXCEPT !.in_progress = a.in_progress \o batch]
  IN  {Done(joined)} \cup ArrowFlush(joined)

\* The last row group and the footer.
ArrowClose(a) ==
  IF a.sink = "ok" THEN {Done(Completed(a)), Failed(a)} ELSE {Failed(a)}
----------------------------------------------------------------------------
(* The Writer. *)

NewWriter(batch, sample, threshold) ==
  [buffered_columns   |-> [f \in Fields |-> <<>>],
   buffered_row_count |-> 0,
   current_batch_size |-> IF batch = Dynamic THEN default_batch_size(NumFields)
                                             ELSE batch,
   memory_threshold   |-> threshold,
   sample_size        |-> sample,
   size_samples       |-> <<>>,
   total_rows_written |-> 0,
   fixed_batch_size   |-> batch]

\* The rows the column buffers hold.
BufferedRows(w) ==
  [i \in 1 .. w.buffered_row_count |->
     [f \in Fields |-> w.buffered_columns[f][i]]]

ColumnsBuild(columns) ==
  \A f \in Fields : \A i \in DOMAIN columns[f] : columns[f][i] \in Buildable[f]

ValidRow(row) == row \in Rows /\ \A f \in Fields : row[f] \in Valid[f]

Result(w, a, r) == [writer |-> w, arrow |-> a, result |-> r]

\* After a batch was written the buffers are empty; the row count of the file
\* is what later draws of the sample range over.
Emptied(w) ==
  [w EXCEPT !.buffered_columns = [f \in Fields |-> <<>>],
            !.buffered_row_count = 0,
            !.total_rows_written = @ + w.buffered_row_count]

\* A slip the checks must catch: a batch that cannot be built is thrown away.
flush_discarding_bad_batch(w, a) ==
  IF ColumnsBuild(w.buffered_columns)
  THEN {Result(Emptied(w), written.arrow, written.result) :
          written \in ArrowWrite(a, BufferedRows(w))}
  ELSE {Result(Emptied(w), a, "conversion_error")}

\* A failure to build or to write leaves the buffers as they are; a failure to
\* end the row group, done when memory is above the threshold, finds them empty.
flush_buffered_rows(w, a) ==
  IF w.buffered_row_count = 0 THEN {Result(w, a, "ok")}
  ELSE IF ~ColumnsBuild(w.buffered_columns)
  THEN {Result(w, a, "conversion_error")}
  ELSE UNION
       {IF written.result # "ok" THEN {Result(w, written.arrow, "io_error")}
        ELSE {Result(Emptied(w), written.arrow, "ok")} \cup
             {Result(Emptied(w), flushed.arrow, flushed.result) :
                flushed \in ArrowFlush(written.arrow)} :
        written \in ArrowWrite(a, BufferedRows(w))}

\* A slip: the sample grows with every row.
SampledSizes_unbounded(w, size) == {Append(w.size_samples, size)}

\* What a draw for a full sample ranges over: the rows of earlier batches.
DrawRange(w) == 0 .. w.total_rows_written

\* Samples after one more row: collected, or drawn into the full sample.
SampledSizes(w, size) ==
  IF Len(w.size_samples) < w.sample_size THEN {Append(w.size_samples, size)}
  ELSE {IF idx < w.sample_size THEN [w.size_samples EXCEPT ![idx + 1] = size]
                               ELSE w.size_samples :
        idx \in DrawRange(w)}

Total(sizes) == FoldSeq(LAMBDA x, y : x + y, 0, sizes)

update_batch_size(w) ==
  IF ~enough_samples(Len(w.size_samples), w.sample_size) THEN w
  ELSE [w EXCEPT !.current_batch_size =
          dynamic_batch_size(
            suggested_batch_size(w.memory_threshold,
                                 Total(w.size_samples), Len(w.size_samples)),
            NumFields)]

sample_row_size(w, row) ==
  IF w.fixed_batch_size # Dynamic THEN {w}
  ELSE {update_batch_size([w EXCEPT !.size_samples = sizes]) :
          sizes \in SampledSizes(w, EstimatedRowSize[row])}

Pushed(w, row) ==
  [w EXCEPT !.buffered_columns = [f \in Fields |-> Append(@[f], row[f])],
            !.buffered_row_count = @ + 1]

\* A slip: the batch is handed on one row late.
write_row_flushing_late(w, a, row) ==
  IF ~ValidRow(row) THEN {Result(w, a, "schema_error")}
  ELSE UNION
       {IF Pushed(s, row).buffered_row_count > s.current_batch_size
        THEN flush_buffered_rows(Pushed(s, row), a)
        ELSE {Result(Pushed(s, row), a, "ok")} :
        s \in sample_row_size(w, row)}

\* A slip: a row of the right length is sampled before its values are checked.
write_row_sampling_first(w, a, row) ==
  IF row \notin Rows THEN {Result(w, a, "schema_error")}
  ELSE UNION
       {IF ~ValidRow(row) THEN {Result(s, a, "schema_error")}
        ELSE IF Pushed(s, row).buffered_row_count >= s.current_batch_size
        THEN flush_buffered_rows(Pushed(s, row), a)
        ELSE {Result(Pushed(s, row), a, "ok")} :
        s \in sample_row_size(w, row)}

write_row(w, a, row) ==
  IF ~ValidRow(row) THEN {Result(w, a, "schema_error")}
  ELSE UNION
       {IF Pushed(s, row).buffered_row_count >= s.current_batch_size
        THEN flush_buffered_rows(Pushed(s, row), a)
        ELSE {Result(Pushed(s, row), a, "ok")} :
        s \in sample_row_size(w, row)}
----------------------------------------------------------------------------
(* write_columns takes <<name, values>> pairs in any order; the name of a   *)
(* field is its index, any other name is unknown.                           *)

Names(columns) == {columns[i][1] : i \in DOMAIN columns}

ColumnOf(columns, f) ==
  (CHOOSE i \in DOMAIN columns : columns[i][1] = f)

InSchemaOrder(columns) ==
  [f \in Fields |-> columns[ColumnOf(columns, f)][2]]

\* One column per field, all of one length, every value valid.
WellFormed(columns) ==
  /\ Len(columns) = NumFields
  /\ Names(columns) = Fields
  /\ \A f, g \in Fields :
       Len(InSchemaOrder(columns)[f]) = Len(InSchemaOrder(columns)[g])
  /\ \A f \in Fields : Range(InSchemaOrder(columns)[f]) \subseteq Valid[f]

ColumnRows(columns) ==
  [i \in 1 .. Len(InSchemaOrder(columns)[1]) |->
     [f \in Fields |-> InSchemaOrder(columns)[f][i]]]

\* The rows an accepted call of write_columns adds.
RowsIn(columns) == IF columns = <<>> THEN <<>> ELSE ColumnRows(columns)

\* The columns themselves, once the buffered rows are out of the way.  The code
\* validates and builds column by column, so that of two errors the one of the
\* first column is reported; here the error of validation is.
write_batch(w, a, columns) ==
  IF columns = <<>> THEN {Result(w, a, "ok")}
  ELSE IF ~WellFormed(columns) THEN {Result(w, a, "schema_error")}
  ELSE IF ~ColumnsBuild(InSchemaOrder(columns))
  THEN {Result(w, a, "conversion_error")}
  ELSE {Result(w, written.arrow, written.result) :
          written \in ArrowWrite(a, ColumnRows(columns))}

\* A slip: columns overtake the rows that are still buffered.
write_columns_overtaking(w, a, columns) == write_batch(w, a, columns)

write_columns(w, a, columns) ==
  UNION {IF o.result = "ok" THEN write_batch(o.writer, o.arrow, columns) ELSE {o} :
           o \in flush_buffered_rows(w, a)}

flush(w, a) ==
  UNION {IF o.result # "ok" THEN {o}
         ELSE {Result(o.writer, flushed.arrow, flushed.result) :
                 flushed \in ArrowFlush(o.arrow)} :
           o \in flush_buffered_rows(w, a)}

\* A slip: the rows still buffered are not written before the footer.
close_without_flush(w, a) ==
  {Result(w, closed.arrow, closed.result) : closed \in ArrowClose(a)}

close(w, a) ==
  UNION {IF o.result # "ok" THEN {o}
         ELSE {Result(o.writer, closed.arrow, closed.result) :
                 closed \in ArrowClose(o.arrow)} :
           o \in flush_buffered_rows(w, a)}
----------------------------------------------------------------------------
Init ==
  /\ phase = "unbuilt"
  /\ writer = NewWriter(Dynamic, 0, 0)
  /\ arrow = NewArrow
  /\ rows_left = <<>>
  /\ outcome = "ok"
  /\ acknowledged = <<>>

\* The call's effect on writer and arrow is one of the computed ones.
Returns(o) ==
  /\ writer' = o.writer
  /\ arrow' = o.arrow
  /\ outcome' = o.result

Acknowledge(o, rows) ==
  acknowledged' = IF o.result = "ok" THEN acknowledged \o rows ELSE acknowledged

\* Room for n more rows under the bound of the model.
RoomFor(n) ==
  Len(acknowledged) + writer.buffered_row_count + n <= MaxRows

Build ==
  /\ phase = "unbuilt"
  /\ \E batch \in BatchSizeOptions, sample \in SampleSizes,
        threshold \in Thresholds :
       IF /\ valid_column_count(NumFields)
          /\ batch # Dynamic => valid_fixed_batch_size(batch, NumFields)
          /\ valid_sample_size(sample)
       THEN /\ phase' = "open"
            /\ writer' = NewWriter(batch, sample, threshold)
            /\ outcome' = "ok"
       ELSE /\ phase' = "refused"
            /\ outcome' = "schema_error"
            /\ UNCHANGED writer
  /\ UNCHANGED <<arrow, rows_left, acknowledged>>

Idle == phase = "open" /\ rows_left = <<>>

WriteRow ==
  /\ Idle
  /\ RoomFor(1)
  /\ \E row \in OfferedRows : \E o \in write_row(writer, arrow, row) :
       Returns(o) /\ Acknowledge(o, <<row>>)
  /\ UNCHANGED <<phase, rows_left>>

\* write_rows is a loop over write_row that stops at the first error.
WriteRows ==
  /\ Idle
  /\ RoomFor(2)
  /\ \E first, second \in OfferedRows : rows_left' = <<first, second>>
  /\ UNCHANGED <<phase, writer, arrow, outcome, acknowledged>>

WriteNextRow ==
  /\ phase = "open"
  /\ rows_left # <<>>
  /\ \E o \in write_row(writer, arrow, Head(rows_left)) :
       /\ Returns(o)
       /\ Acknowledge(o, <<Head(rows_left)>>)
       /\ rows_left' = IF o.result = "ok" THEN Tail(rows_left) ELSE <<>>
  /\ UNCHANGED phase

WriteColumns ==
  /\ Idle
  /\ \E columns \in OfferedColumns :
       /\ RoomFor(IF columns = <<>> THEN 0 ELSE Len(columns[1][2]))
       /\ \E o \in write_columns(writer, arrow, columns) :
            /\ Returns(o)
            /\ Acknowledge(o, RowsIn(columns))
  /\ UNCHANGED <<phase, rows_left>>

Flush ==
  /\ Idle
  /\ \E o \in flush(writer, arrow) : Returns(o)
  /\ UNCHANGED <<phase, rows_left, acknowledged>>

Close ==
  /\ Idle
  /\ \E o \in close(writer, arrow) :
       /\ Returns(o)
       /\ phase' = IF o.result = "ok" THEN "closed" ELSE "failed"
  /\ UNCHANGED <<rows_left, acknowledged>>

\* The caller lets go of the writer, between calls or on an error.
Drop ==
  /\ Idle
  /\ phase' = "dropped"
  /\ UNCHANGED <<writer, arrow, rows_left, outcome, acknowledged>>

Next ==
  Build \/ WriteRow \/ WriteRows \/ WriteNextRow \/ WriteColumns
    \/ Flush \/ Close \/ Drop

Spec == Init /\ [][Next]_vars
----------------------------------------------------------------------------
WriterType ==
  [buffered_columns   : [Fields -> Seq(Values)],
   buffered_row_count : Nat,
   current_batch_size : Nat,
   memory_threshold   : Nat,
   sample_size        : Nat,
   size_samples       : Seq(Nat),
   total_rows_written : Nat,
   fixed_batch_size   : Nat \cup {Dynamic}]

ArrowType ==
  [row_groups : Seq(Rows), in_progress : Seq(Rows), sink : {"ok", "failed"}]

\* The columns have one length, the row count, and the sample is bounded.
WriterOK(w) ==
  /\ w \in WriterType
  /\ \A f \in Fields : Len(w.buffered_columns[f]) = w.buffered_row_count
  /\ Len(w.size_samples) <= w.sample_size

\* The shape of the state: every column buffer holds one value per buffered
\* row and the sample never outgrows the size it was reserved for.
TypeOK ==
  /\ phase \in {"unbuilt", "refused", "open", "closed", "failed", "dropped"}
  /\ outcome \in Outcomes
  /\ WriterOK(writer)
  /\ arrow \in ArrowType
  /\ rows_left \in Seq(OfferedRows)
  /\ acknowledged \in Seq(Rows)
----------------------------------------------------------------------------
(* Properties. *)

\* Every row on its way to the file, in the order the file will have.
ContentOf(w, a) == a.row_groups \o a.in_progress \o BufferedRows(w)

Content == ContentOf(writer, arrow)

\* Nothing has gone wrong that a later call could trip over.
IsHealthy(w, a) == a.sink = "ok" /\ ColumnsBuild(w.buffered_columns)

Healthy == IsHealthy(writer, arrow)

\* While the writer is healthy, the rows it acknowledged are exactly those in
\* the file, in the open row group and in the buffers, in order and once each,
\* whatever mix of rows, columns, flushes and rejected calls led there.
AcknowledgedRowsAreAccountedFor ==
  phase \in {"unbuilt", "open", "closed"} /\ Healthy => Content = acknowledged

\* A close that returned Ok left nothing behind: every acknowledged row is in a
\* completed row group.  Rows whose call failed are not in the file.
ClosedFileIsComplete ==
  phase = "closed" => arrow.row_groups = acknowledged

\* Between calls a healthy writer holds less than a batch, and its buffers stay
\* within the slot limit, although dynamic sizing moves the batch size under
\* rows that are already buffered.
BufferStaysWithinBatch ==
  phase = "open" /\ Healthy =>
    /\ writer.buffered_row_count < writer.current_batch_size
    /\ writer.buffered_row_count * NumFields <= MAX_BUFFERED_VALUE_SLOTS

\* No call repairs a writer that lost a row group or holds a value it cannot
\* build: it never becomes healthy again and never closes successfully.
FailureIsSticky ==
  [][~Healthy => ~Healthy' /\ phase' # "closed"]_vars

\* A call refused for its arguments changes neither the rows on their way nor
\* the sample the batch size is computed from.
RejectionLeavesNoTrace ==
  [][outcome' = "schema_error" =>
       Content' = Content /\ writer'.size_samples = writer.size_samples]_vars

\* The all-or-nothing file of RowFile: the writer implements it.
AbstractPhase ==
  CASE phase \in {"unbuilt", "open"} -> IF Healthy THEN "open" ELSE "doomed"
    [] phase = "closed" -> "finished"
    [] OTHER -> "abandoned"

Abstract ==
  INSTANCE RowFile WITH
    phase <- AbstractPhase,
    acked <- acknowledged,
    file  <- IF phase = "closed" THEN arrow.row_groups ELSE <<>>

\* Every step of the writer is a step of the all-or-nothing file or changes
\* nothing of it.
ImplementsRowFile == Abstract!Spec

\* "Sample row size for dynamic batch sizing using reservoir sampling": the
\* draw for a row ranges over the rows sampled so far, and so over every slot
\* of a full sample.
ReservoirReachesEverySlot ==
  phase = "open" /\ writer.fixed_batch_size = Dynamic
    /\ Len(writer.size_samples) = writer.sample_size =>
       0 .. writer.sample_size - 1 \subseteq DrawRange(writer)
============================================================================
