------------------------------- MODULE Reader -------------------------------
(***************************************************************************)
(* Reading a file by rows or by columns: the iterators of parquet-core and *)
(* each_row and each_column, which drive them for a Ruby block.            *)
(*                                                                         *)
(* A column is its position in the file, with a name that may not be its   *)
(* own; a value is known by its column, its row and the Parquet field it   *)
(* was decoded with.  The Arrow reader that cuts the file into batches is  *)
(* external: a batch has at least one row and at most the batch size, and  *)
(* any fetch may fail.                                                     *)
(***************************************************************************)
EXTENDS Integers, Sequences, FiniteSets, SequencesExt

CONSTANTS
  Files,             \* [columns: sequence of names, rows: Nat, bad: cells that cannot be decoded]
  Requests,          \* column lists of callers, each as the set the code makes of it
  All,               \* no column list
  BatchSizes,        \* batch sizes callers ask for
  DefaultBatchSize,  \* the one they get otherwise
  NoItem             \* nothing was handed out yet

ASSUME ReaderAssumption ==
  /\ \A f \in Files : f.columns \in Seq(Range(f.columns)) /\ f.rows \in Nat
  /\ BatchSizes \subseteq Nat \ {0}
  /\ DefaultBatchSize \in Nat \ {0}
  /\ All \notin Requests
  /\ NoItem \notin {[kind |-> "none"], [kind |-> "fetch_error"]}

VARIABLES
  file,       \* the file read, which never changes
  call,       \* who reads what, and how
  iter,       \* RowIterator or ColumnIterator
  fetched,    \* how many rows the Arrow reader has passed
  phase,      \* "idle", "open", "complete", or "failed" at the first error
  last,       \* what the last call of next handed out
  delivered,  \* history: every row handed out, as [row, values]
  clean       \* history: how many of them before the first error

vars == <<file, call, iter, fetched, phase, last, delivered, clean>>

-----------------------------------------------------------------------------
(* Opening.                                                                *)

\* A name the file has not is no error.
Selected(f, request, i) == request = All \/ f.columns[i] \in request

\* Positions of the wanted columns.
ColumnIndices(f, request) ==
  FlattenSeq([i \in 1 .. Len(f.columns) |->
                IF Selected(f, request, i) THEN <<i>> ELSE <<>>])

\* Slip: by position, as if nothing were projected away.
AlignByPosition(f, schema) == [i \in DOMAIN schema |-> i]

\* For each column of the output, the Parquet field it is decoded with: of
\* several of that name the first.
AlignParquetFields(f, schema) ==
  [i \in DOMAIN schema |->
     Min({j \in 1 .. Len(f.columns) : f.columns[j] = f.columns[schema[i]]})]

NewIterator(f, c) ==
  LET schema == ColumnIndices(f, c.columns)
  IN [schema |-> schema,
      aligned_parquet_fields |-> AlignParquetFields(f, schema),
      batch_start |-> 0,     \* current_batch: its first row and its length,
      batch_rows |-> 0,      \* none being a batch that is used up
      current_row |-> 0,
      is_empty_file |-> f.rows = 0,
      returned_empty_batch |-> FALSE]

\* Slip: names of the whole file on the values of a projection.
ColumnNamesOfFile(f, request) == f.columns

\* The names each_row puts on the values of a row: it filters the columns of
\* the file itself and trusts that the iterator does the same.
ColumnNames(f, request) ==
  FlattenSeq([i \in 1 .. Len(f.columns) |->
                IF Selected(f, request, i) THEN <<f.columns[i]>> ELSE <<>>])

\* Rust callers get the values of a row or the columns of a batch as they
\* are; only read_columns takes a batch size.
Calls ==
  [api : {"rows"}, client : {"core"}, result_type : {"array"},
   columns : Requests \union {All}, batch_size : {DefaultBatchSize}]
  \union
  [api : {"rows"}, client : {"each"}, result_type : {"array", "hash"},
   columns : Requests \union {All}, batch_size : {DefaultBatchSize}]
  \union
  [api : {"columns"}, client : {"core"}, result_type : {"array"},
   columns : Requests \union {All}, batch_size : BatchSizes \union {DefaultBatchSize}]
  \union
  [api : {"columns"}, client : {"each"}, result_type : {"array", "hash"},
   columns : Requests \union {All}, batch_size : BatchSizes \union {DefaultBatchSize}]

\* The iterator follows from the file and the call, and takes no part before
\* Open.
Init ==
  /\ file \in Files
  /\ call \in Calls
  /\ iter = NewIterator(file, call)
  /\ fetched = 0
  /\ phase = "idle"
  /\ last = NoItem
  /\ delivered = <<>>
  /\ clean = 0

\* The argument, the file or its metadata may be no good.
Open ==
  /\ phase = "idle"
  /\ phase' \in {"open", "failed"}
  /\ UNCHANGED <<file, call, iter, fetched, last, delivered, clean>>

-----------------------------------------------------------------------------
(* Iterating.  A result is the item handed out, the iterator afterwards and *)
(* how far the Arrow reader has come.                                      *)

Result(item, it, f) == [item |-> item, iter |-> it, fetched |-> f]

None == [kind |-> "none"]
FetchError == [kind |-> "fetch_error"]
ConversionError(row) == [kind |-> "conversion_error", row |-> row]

Value(it, i, row) ==
  [column |-> it.schema[i], row |-> row, as |-> it.aligned_parquet_fields[i]]

\* Whether the output columns of these rows can all be decoded.
Decodable(it, rows) ==
  \A i \in DOMAIN it.schema : \A r \in rows : <<it.schema[i], r>> \notin file.bad

\* Slip: the row position of the last batch is kept.
FetchesKeepingRow(it) ==
  IF fetched = file.rows
  THEN {Result(None, it, fetched)}
  ELSE {Result(NoItem, [it EXCEPT !.batch_start = fetched, !.batch_rows = n], fetched + n) :
          n \in 1 .. Min({call.batch_size, file.rows - fetched})}

\* What the Arrow reader may do next: end, fail, or give a batch.  After a
\* failure it may have lost any rows.
Fetches(it) ==
  IF fetched = file.rows
  THEN {Result(None, it, fetched)}
  ELSE {Result(FetchError, it, f) : f \in fetched .. file.rows}
       \union
       {Result(NoItem,
               [it EXCEPT !.batch_start = fetched, !.batch_rows = n, !.current_row = 0],
               fetched + n) :
          n \in 1 .. Min({call.batch_size, file.rows - fetched})}

\* Slip: the position moves on before the row is known to be good.
RowOfBatchSkipping(it, f) ==
  LET row == it.batch_start + it.current_row
      passed == [it EXCEPT !.current_row = @ + 1]
  IN IF Decodable(it, {row})
     THEN Result([kind |-> "row", row |-> row,
                  values |-> [i \in DOMAIN it.schema |-> Value(it, i, row)]], passed, f)
     ELSE Result(ConversionError(row), passed, f)

\* A row that cannot be decoded is not passed.
RowOfBatch(it, f) ==
  LET row == it.batch_start + it.current_row
  IN IF Decodable(it, {row})
     THEN Result([kind |-> "row", row |-> row,
                  values |-> [i \in DOMAIN it.schema |-> Value(it, i, row)]],
                 [it EXCEPT !.current_row = @ + 1], f)
     ELSE Result(ConversionError(row), it, f)

\* RowIterator::next.  Its loop fetches at most once: no batch is empty.
NextRow ==
  IF iter.current_row < iter.batch_rows
  THEN {RowOfBatch(iter, fetched)}
  ELSE {IF r.item = NoItem THEN RowOfBatch(r.iter, r.fetched) ELSE r : r \in Fetches(iter)}

\* A batch that cannot be decoded is lost with all its rows.
ColumnsOfBatch(it, f) ==
  LET rows == it.batch_start .. (it.batch_start + it.batch_rows - 1)
  IN IF Decodable(it, rows)
     THEN Result([kind |-> "columns", first |-> it.batch_start, count |-> it.batch_rows,
                  columns |-> [i \in DOMAIN it.schema |->
                    [name |-> file.columns[it.schema[i]],
                     values |-> [k \in 1 .. it.batch_rows |-> Value(it, i, it.batch_start + k - 1)]]]],
                 it, f)
     ELSE Result(ConversionError(it.batch_start), it, f)

\* Slip: nothing remembers that the columns were shown.
EmptyBatchAgain(it, f) ==
  Result([kind |-> "columns", first |-> 0, count |-> 0,
          columns |-> [i \in DOMAIN it.schema |->
            [name |-> file.columns[it.schema[i]], values |-> <<>>]]],
         it, f)

\* A file without rows shows its columns once.
EmptyBatch(it, f) ==
  Result([kind |-> "columns", first |-> 0, count |-> 0,
          columns |-> [i \in DOMAIN it.schema |->
            [name |-> file.columns[it.schema[i]], values |-> <<>>]]],
         [it EXCEPT !.returned_empty_batch = TRUE], f)

\* ColumnIterator::next.
NextColumns ==
  IF iter.is_empty_file /\ ~iter.returned_empty_batch
  THEN {EmptyBatch(iter, fetched)}
  ELSE {IF r.item = NoItem THEN ColumnsOfBatch(r.iter, r.fetched) ELSE r : r \in Fetches(iter)}

NextItems == IF call.api = "rows" THEN NextRow ELSE NextColumns

-----------------------------------------------------------------------------
(* Consumers.                                                              *)

IsError(item) == item.kind \in {"fetch_error", "conversion_error"}

\* The rows of an item, as its values tell them.
RowsOf(item) ==
  CASE item.kind = "row" -> <<[row |-> item.row, values |-> item.values]>>
    [] item.kind = "columns" ->
         [k \in 1 .. item.count |->
            [row |-> item.first + k - 1,
             values |-> [i \in DOMAIN item.columns |-> item.columns[i].values[k]]]]
    [] OTHER -> <<>>

\* hash.aset in column order: of several columns of one name the last stays.
HashOf(names, values) ==
  [n \in {names[i] : i \in DOMAIN names \intersect DOMAIN values} |->
     values[Max({i \in DOMAIN names \intersect DOMAIN values : names[i] = n})]]

\* What the block is given.
RubyValue(item) ==
  LET columnNames == [i \in DOMAIN item.columns |-> item.columns[i].name]
      columnValues == [i \in DOMAIN item.columns |-> item.columns[i].values]
  IN CASE item.kind = "row" /\ call.result_type = "array" -> item.values
       [] item.kind = "row" /\ call.result_type = "hash" ->
            HashOf(ColumnNames(file, call.columns), item.values)
       [] item.kind = "columns" /\ call.result_type = "array" -> columnValues
       [] OTHER -> HashOf(columnNames, columnValues)

\* Nothing but the outcome changes when an item cannot be handed on.
Refuse(r) ==
  /\ phase' = "failed"
  /\ last' = r.item
  /\ iter' = r.iter
  /\ fetched' = r.fetched
  /\ UNCHANGED <<file, call, delivered, clean>>

\* A Rust caller of the iterators, who may go on after an error.
CoreNext ==
  /\ call.client = "core"
  /\ phase \in {"open", "failed"}
  /\ \E r \in NextItems :
       /\ last' = r.item
       /\ iter' = r.iter
       /\ fetched' = r.fetched
       /\ delivered' = delivered \o RowsOf(r.item)
       /\ clean' = IF phase = "open" THEN Len(delivered') ELSE clean
       /\ phase' = IF IsError(r.item) THEN "failed"
                   ELSE IF r.item = None /\ phase = "open" THEN "complete" ELSE phase
  /\ UNCHANGED <<file, call>>

\* One round of the loop of each_row and each_column.  The block may break
\* out or raise.
Yield(r) ==
  /\ r.item.kind \in {"row", "columns"}
  /\ last' = [kind |-> "yielded", value |-> RubyValue(r.item)]
  /\ iter' = r.iter
  /\ fetched' = r.fetched
  /\ delivered' = delivered \o RowsOf(r.item)
  /\ clean' = Len(delivered')
  /\ phase' \in {"open", "failed"}
  /\ UNCHANGED <<file, call>>

\* nil is returned: there is nothing more.
Finish(r) ==
  /\ r.item = None
  /\ phase' = "complete"
  /\ last' = None
  /\ UNCHANGED <<file, call, iter, fetched, delivered, clean>>

\* An error of the iterator or of the conversion to Ruby ends the call.
EachNext ==
  /\ call.client = "each"
  /\ phase = "open"
  /\ \E r \in NextItems :
       \/ Yield(r)
       \/ Finish(r)
       \/ r.item # None /\ Refuse(r)

Next == Open \/ CoreNext \/ EachNext

Spec == Init /\ [][Next]_vars

\* A loop over an iterator does nothing but ask for the next item; blocks are
\* taken to return.
FairSpec == Spec /\ WF_vars(Next)

-----------------------------------------------------------------------------
(* Properties.                                                             *)

\* The columns a caller means, in the order of the file.
Wanted == {i \in 1 .. Len(file.columns) :
             call.columns = All \/ file.columns[i] \in call.columns}
InFileOrder(columns) == \A i, j \in DOMAIN columns : i < j => columns[i] < columns[j]

Content ==
  [k \in 1 .. file.rows |->
     [row |-> k - 1, values |-> [i \in DOMAIN iter.schema |-> Value(iter, i, k - 1)]]]

Stream == INSTANCE RowStream WITH
  content <- Content, delivered <- SubSeq(delivered, 1, clean)

\* Whoever reads, by rows or by columns, whole or projected, in batches of
\* any size: up to the first error the rows arrive in order, each once and
\* with the values of its own row; and a nil result, or the end of the
\* iterator, means that none is missing.
ImplementsRowStream == Stream!Spec

\* Names and values are paired by position, between lists built at
\* different places from different schemas (the request, the Arrow schema,
\* the Parquet root): each name of a hash carries a value of a column of
\* that name, no wanted name is missing and no other is there.  An array has
\* no names to go by: its values are those of the wanted columns in the
\* order of the file, whatever the order of the request.
ValuesUnderOwnNames ==
  /\ last # NoItem /\ last.kind = "yielded" /\ call.result_type = "hash" =>
       /\ DOMAIN last.value = {file.columns[i] : i \in Wanted}
       /\ \A n \in DOMAIN last.value :
            IF call.api = "rows"
            THEN file.columns[last.value[n].column] = n
            ELSE \A v \in Range(last.value[n]) : file.columns[v.column] = n
  /\ \A k \in DOMAIN delivered :
       LET columns == [i \in DOMAIN delivered[k].values |-> delivered[k].values[i].column]
       IN Range(columns) = Wanted /\ InFileOrder(columns)

\* A value is decoded with the Parquet field of its own column also when a
\* projection moves the column: only columns that share a name may share a
\* field, the first one (align_parquet_fields).
DecodedByOwnField ==
  \A k \in DOMAIN delivered : \A i \in DOMAIN delivered[k].values :
    LET v == delivered[k].values[i]
    IN /\ v.as <= v.column
       /\ file.columns[v.as] = file.columns[v.column]
       /\ v.as # v.column => Cardinality(Range(file.columns)) < Len(file.columns)

\* The row iterator stays at a row that cannot be decoded: it skips none,
\* so that a caller who ignores errors gets this one for ever.
BadRowsAreNotSkipped ==
  [][call.api = "rows" /\ last # NoItem /\ last.kind = "conversion_error" =>
       last' = last /\ delivered' = delivered]_vars

\* Whoever keeps asking comes to the end of the file or to an error, also of
\* a file without rows, whose columns are handed out without an end of the
\* Arrow reader to stop at.
IterationEnds == <>(phase \in {"complete", "failed"})
=============================================================================
