---------------------------- MODULE ReaderProofs ----------------------------
(***************************************************************************)
(* What every reader of a file gets, proved for any files, requests and    *)
(* batch sizes: the names and the fields of the values, and that reading   *)
(* implements the row stream of RowStream.                                 *)
(***************************************************************************)
EXTENDS Reader, DataFacts

-----------------------------------------------------------------------------
(* Projections.                                                            *)

\* The positions below n that are in W, and what stands there in columns.
Positions(W, n) == [i \in 1 .. n |-> IF i \in W THEN <<i>> ELSE <<>>]
NamesAt(columns, W, n) == [i \in 1 .. n |-> IF i \in W THEN <<columns[i]>> ELSE <<>>]

\* Sequences that list the positions of W below n, and what stands there.
Projects(columns, W, n, s, t) ==
  /\ s \in Seq(1 .. n)
  /\ t \in Seq(Range(columns))
  /\ Len(t) = Len(s)
  /\ \A i \in 1 .. n : i \in W <=> \E k \in 1 .. Len(s) : s[k] = i
  /\ \A i, j \in 1 .. Len(s) : i < j => s[i] < s[j]
  /\ \A i \in 1 .. Len(s) : s[i] \in W /\ t[i] = columns[s[i]]

LEMMA ProjectNothing ==
  ASSUME NEW columns, NEW W
  PROVE  Projects(columns, W, 0, <<>>, <<>>)
  BY DEF Projects

\* One more column.
LEMMA ProjectOneMore ==
  ASSUME NEW columns, columns \in Seq(Range(columns)), NEW W, NEW n \in Nat, n + 1 \in 1 .. Len(columns),
         NEW s, NEW t, Projects(columns, W, n, s, t)
  PROVE  /\ n + 1 \in W =>
              Projects(columns, W, n + 1, s \o <<n + 1>>, t \o <<columns[n + 1]>>)
         /\ n + 1 \notin W => Projects(columns, W, n + 1, s, t)
  <1>1. /\ s \in Seq(1 .. n) /\ s \in Seq(1 .. n + 1) /\ Len(s) \in Nat
        /\ t \in Seq(Range(columns)) /\ Len(t) = Len(s)
        /\ \A k \in 1 .. Len(s) : s[k] \in 1 .. n
    <2>1. s \in Seq(1 .. n) /\ 1 .. n \subseteq 1 .. n + 1
      BY DEF Projects
    <2>2. s \in Seq(1 .. n + 1)
      BY <2>1, SeqMonotonic
    <2>. QED BY <2>1, <2>2, LenProperties, ElementOfSeq DEF Projects
  <1>2. CASE n + 1 \in W
    <2>. DEFINE u == s \o <<n + 1>>
                v == t \o <<columns[n + 1]>>
    <2>1. /\ u \in Seq(1 .. n + 1) /\ Len(u) = Len(s) + 1
          /\ \A k \in 1 .. Len(s) : u[k] = s[k]
          /\ u[Len(s) + 1] = n + 1
      BY <1>1
    <2>2. columns[n + 1] \in Range(columns)
      BY ElementOfSeq
    <2>3. /\ v \in Seq(Range(columns)) /\ Len(v) = Len(s) + 1
          /\ \A k \in 1 .. Len(s) : v[k] = t[k]
          /\ v[Len(s) + 1] = columns[n + 1]
      BY <1>1, <2>2
    <2>. HIDE DEF u, v
    <2>4. ASSUME NEW i \in 1 .. n + 1
          PROVE  i \in W <=> \E k \in 1 .. Len(u) : u[k] = i
      <3>1. CASE i = n + 1
        BY <1>1, <1>2, <2>1, <3>1
      <3>2. CASE i \in 1 .. n
        <4>1. i \in W <=> \E k \in 1 .. Len(s) : s[k] = i
          BY <3>2 DEF Projects
        <4>2. ASSUME NEW k \in 1 .. Len(s), s[k] = i
              PROVE  k \in 1 .. Len(u) /\ u[k] = i
          BY <1>1, <2>1, <4>2
        <4>3. ASSUME NEW k \in 1 .. Len(u), u[k] = i
              PROVE  k \in 1 .. Len(s) /\ s[k] = i
          BY <1>1, <2>1, <3>2, <4>3
        <4>. QED BY <4>1, <4>2, <4>3
      <3>. QED BY <3>1, <3>2
    <2>5. \A i, j \in 1 .. Len(u) : i < j => u[i] < u[j]
      <3>. SUFFICES ASSUME NEW i \in 1 .. Len(u), NEW j \in 1 .. Len(u), i < j
                    PROVE  u[i] < u[j]
        OBVIOUS
      <3>1. i \in 1 .. Len(s) /\ u[i] = s[i]
        BY <1>1, <2>1
      <3>2. CASE j \in 1 .. Len(s)
        <4>1. s[i] < s[j]
          BY <3>1, <3>2 DEF Projects
        <4>. QED BY <2>1, <3>1, <3>2, <4>1
      <3>3. CASE j = Len(s) + 1
        <4>1. u[j] = n + 1
          BY <2>1, <3>3
        <4>2. s[i] \in 1 .. n
          BY <1>1, <3>1
        <4>. QED BY <3>1, <4>1, <4>2
      <3>4. j \in 1 .. Len(s) \/ j = Len(s) + 1
        <4>1. Len(s) \in Nat /\ Len(u) = Len(s) + 1
          BY <1>1, <2>1
        <4>. QED BY <4>1
      <3>. QED BY <3>2, <3>3, <3>4
    <2>6. ASSUME NEW i \in 1 .. Len(u)
          PROVE  u[i] \in W /\ v[i] = columns[u[i]]
      <3>1. CASE i = Len(s) + 1
        BY <1>2, <2>1, <2>3, <3>1
      <3>2. CASE i \in 1 .. Len(s)
        BY <2>1, <2>3, <3>2 DEF Projects
      <3>. QED BY <1>1, <2>1, <3>1, <3>2
    <2>7. Projects(columns, W, n + 1, u, v)
      BY <2>1, <2>3, <2>4, <2>5, <2>6 DEF Projects
    <2>. QED BY <1>2, <2>7 DEF u, v
  <1>3. CASE n + 1 \notin W
    <2>1. ASSUME NEW i \in 1 .. n + 1
          PROVE  i \in W <=> \E k \in 1 .. Len(s) : s[k] = i
      <3>1. CASE i = n + 1
        BY <1>1, <1>3, <3>1
      <3>2. CASE i \in 1 .. n
        BY <3>2 DEF Projects
      <3>. QED BY <3>1, <3>2
    <2>. QED BY <1>1, <1>3, <2>1 DEF Projects
  <1>. QED BY <1>2, <1>3

LEMMA Projection ==
  ASSUME NEW columns, columns \in Seq(Range(columns)), NEW W
  PROVE  Projects(columns, W, Len(columns),
           FlattenSeq(Positions(W, Len(columns))),
           FlattenSeq(NamesAt(columns, W, Len(columns))))
  <1>. DEFINE P(n) == FlattenSeq(Positions(W, n))
              N(n) == FlattenSeq(NamesAt(columns, W, n))
              T == {n \in Nat : n <= Len(columns) => Projects(columns, W, n, P(n), N(n))}
  <1>1. 0 \in T
    <2>1. Positions(W, 0) = <<>> /\ NamesAt(columns, W, 0) = <<>>
      BY DEF Positions, NamesAt
    <2>. QED BY <2>1, FlattenEmpty, ProjectNothing
  <1>2. ASSUME NEW n \in Nat, n \in T
        PROVE  n + 1 \in T
    <2>. SUFFICES ASSUME n + 1 <= Len(columns)
                  PROVE  Projects(columns, W, n + 1, P(n + 1), N(n + 1))
      OBVIOUS
    <2>1. Len(columns) \in Nat /\ n + 1 \in 1 .. Len(columns) /\ Projects(columns, W, n, P(n), N(n))
      BY <1>2, LenProperties
    <2>. HIDE DEF T
    <2>2. P(n + 1) = P(n) \o (IF n + 1 \in W THEN <<n + 1>> ELSE <<>>)
      <3>1. /\ Positions(W, n) \in Seq(Seq(Nat)) /\ Len(Positions(W, n)) = n
            /\ Positions(W, n + 1) \in Seq(Seq(Nat)) /\ Len(Positions(W, n + 1)) = n + 1
            /\ \A i \in 1 .. n : Positions(W, n)[i] = Positions(W, n + 1)[i]
            /\ Positions(W, n + 1)[n + 1] = IF n + 1 \in W THEN <<n + 1>> ELSE <<>>
        BY DEF Positions
      <3>. QED BY <3>1, FlattenOneMore
    <2>3. N(n + 1) = N(n) \o (IF n + 1 \in W THEN <<columns[n + 1]>> ELSE <<>>)
      <3>. DEFINE S == Range(columns)
      <3>1. \A i \in 1 .. Len(columns) : columns[i] \in S
        BY ElementOfSeq
      <3>. HIDE DEF S
      <3>2. /\ NamesAt(columns, W, n) \in Seq(Seq(S)) /\ Len(NamesAt(columns, W, n)) = n
            /\ NamesAt(columns, W, n + 1) \in Seq(Seq(S)) /\ Len(NamesAt(columns, W, n + 1)) = n + 1
            /\ \A i \in 1 .. n : NamesAt(columns, W, n)[i] = NamesAt(columns, W, n + 1)[i]
            /\ NamesAt(columns, W, n + 1)[n + 1] = IF n + 1 \in W THEN <<columns[n + 1]>> ELSE <<>>
        BY <2>1, <3>1 DEF NamesAt
      <3>. QED BY <3>2, FlattenOneMore
    <2>4. P(n) \o <<>> = P(n) /\ N(n) \o <<>> = N(n)
      BY <2>1, ConcatEmptySeq DEF Projects
    <2>. HIDE DEF P, N
    <2>. QED BY <2>1, <2>2, <2>3, <2>4, ProjectOneMore
  <1>3. Len(columns) \in T
    <2>. HIDE DEF T
    <2>. QED BY <1>1, <1>2, NatSetInduction, LenProperties
  <1>. QED BY <1>3

-----------------------------------------------------------------------------
(* The inductive invariant.                                                *)

\* The iterators of this call over this file: nothing but the batch and the
\* place in it ever changes.
Schema == ColumnIndices(file, call.columns)
Fields == AlignParquetFields(file, Schema)
IsEmpty == file.rows = 0
Iterators ==
  [schema : {Schema}, aligned_parquet_fields : {Fields},
   batch_start : Nat, batch_rows : Nat, current_row : Nat,
   is_empty_file : {IsEmpty}, returned_empty_batch : BOOLEAN]

\* An iterator and how far the Arrow reader has come: the batch lies in what
\* has been read, and the place in the batch.
PlaceOK(it, f) ==
  /\ it \in Iterators
  /\ f \in 0 .. file.rows
  /\ it.current_row <= it.batch_rows
  /\ it.batch_start + it.batch_rows <= f

\* As long as nothing failed the batch is the last that was read, and these
\* are the rows passed.
InStep(it, f) == it.batch_start + it.batch_rows = f
Passed(it, f) == IF call.api = "rows" THEN it.batch_start + it.current_row ELSE f

\* The row at a position of the file.
Row(p) == [row |-> p, values |-> [i \in DOMAIN iter.schema |-> Value(iter, i, p)]]
Rows == {Row(p) : p \in 0 .. (file.rows - 1)}

DeliveredOK ==
  /\ delivered \in Seq(Rows)
  /\ clean \in 0 .. Len(delivered)
  /\ clean <= file.rows
  /\ \A k \in 1 .. clean : delivered[k] = Row(k - 1)

PhaseOK ==
  /\ phase \in {"idle", "open", "complete", "failed"}
  /\ phase = "idle" => last = NoItem /\ delivered = <<>> /\ Passed(iter, fetched) = 0
  /\ phase \in {"idle", "open"} =>
       InStep(iter, fetched) /\ clean = Len(delivered) /\ clean = Passed(iter, fetched)
  /\ phase = "open" => ~(last # NoItem /\ last.kind = "conversion_error")

\* A hash has the wanted names, each on values of a column of that name.
HashOK ==
  last # NoItem /\ last.kind = "yielded" /\ call.result_type = "hash" =>
    /\ DOMAIN last.value = {file.columns[i] : i \in Wanted}
    /\ \A n \in DOMAIN last.value :
         IF call.api = "rows"
         THEN file.columns[last.value[n].column] = n
         ELSE \A v \in Range(last.value[n]) : file.columns[v.column] = n

\* Who was told of a row that cannot be decoded stands at it.
StaysAtBadRow ==
  call.api = "rows" /\ last # NoItem /\ last.kind = "conversion_error" =>
    /\ iter.current_row < iter.batch_rows
    /\ last = ConversionError(iter.batch_start + iter.current_row)
    /\ ~Decodable(iter, {iter.batch_start + iter.current_row})

IInv ==
  /\ file \in Files
  /\ call \in Calls
  /\ PlaceOK(iter, fetched)
  /\ DeliveredOK
  /\ PhaseOK
  /\ HashOK
  /\ StaysAtBadRow

-----------------------------------------------------------------------------
(* Columns, names and fields.                                              *)

LEMMA MinIsLeast ==
  ASSUME NEW S, S \subseteq Nat, S # {}
  PROVE  Min(S) \in S /\ \A x \in S : Min(S) <= x
  BY LeastElement DEF Min

LEMMA MaxIsMember ==
  ASSUME NEW n \in Nat, NEW S, S \subseteq 0 .. n, S # {}
  PROVE  Max(S) \in S
  <1>1. S \subseteq Nat /\ \A x \in S : x <= n
    OBVIOUS
  <1>2. \E x \in S : \A y \in S : y <= x
    BY <1>1, GreatestElement
  <1>. QED BY <1>1, <1>2 DEF Max

\* The positions the iterator takes and the names each_row takes are those of
\* the same columns, the selected ones in the order of the file.
LEMMA SelectedColumns ==
  ASSUME NEW f \in Files, NEW request
  PROVE  LET W == {i \in 1 .. Len(f.columns) : Selected(f, request, i)}
         IN Projects(f.columns, W, Len(f.columns),
                     ColumnIndices(f, request), ColumnNames(f, request))
  <1>. DEFINE W == {i \in 1 .. Len(f.columns) : Selected(f, request, i)}
  <1>1. f.columns \in Seq(Range(f.columns))
    BY ReaderAssumption
  <1>2. /\ \A i \in 1 .. Len(f.columns) : Selected(f, request, i) <=> i \in W
        /\ W \subseteq 1 .. Len(f.columns)
    OBVIOUS
  <1>. HIDE DEF W
  <1>3. ColumnIndices(f, request) = FlattenSeq(Positions(W, Len(f.columns)))
    <2>1. [i \in 1 .. Len(f.columns) |-> IF Selected(f, request, i) THEN <<i>> ELSE <<>>]
            = [i \in 1 .. Len(f.columns) |-> IF i \in W THEN <<i>> ELSE <<>>]
      BY <1>2
    <2>. QED BY <2>1 DEF ColumnIndices, Positions
  <1>4. ColumnNames(f, request) = FlattenSeq(NamesAt(f.columns, W, Len(f.columns)))
    <2>1. [i \in 1 .. Len(f.columns) |->
             IF Selected(f, request, i) THEN <<f.columns[i]>> ELSE <<>>]
            = [i \in 1 .. Len(f.columns) |-> IF i \in W THEN <<f.columns[i]>> ELSE <<>>]
      BY <1>2
    <2>. QED BY <2>1 DEF ColumnNames, NamesAt
  <1>5. Projects(f.columns, W, Len(f.columns), ColumnIndices(f, request),
                 ColumnNames(f, request))
    BY <1>1, <1>3, <1>4, Projection
  <1>. QED BY <1>5 DEF W

\* What the state functions say of the columns of the iterator.
LEMMA SchemaFacts ==
  ASSUME file \in Files, iter \in Iterators
  PROVE  /\ iter.schema \in Seq(1 .. Len(file.columns))
         /\ Len(iter.schema) \in Nat /\ DOMAIN iter.schema = 1 .. Len(iter.schema)
         /\ \A i \in DOMAIN iter.schema : iter.schema[i] \in 1 .. Len(file.columns)
         /\ {iter.schema[i] : i \in DOMAIN iter.schema} = Wanted
         /\ InFileOrder(iter.schema)
         /\ ColumnNames(file, call.columns) \in Seq(Range(file.columns))
         /\ Len(ColumnNames(file, call.columns)) = Len(iter.schema)
         /\ \A i \in DOMAIN iter.schema :
              ColumnNames(file, call.columns)[i] = file.columns[iter.schema[i]]
  <1>. DEFINE s == ColumnIndices(file, call.columns)
              t == ColumnNames(file, call.columns)
  <1>1. Projects(file.columns, Wanted, Len(file.columns), s, t)
    BY SelectedColumns DEF Wanted, Selected
  <1>2. iter.schema = s
    BY DEF Iterators, Schema
  <1>. HIDE DEF s
  <1>3. /\ s \in Seq(1 .. Len(file.columns)) /\ Len(s) \in Nat /\ DOMAIN s = 1 .. Len(s)
        /\ \A i \in 1 .. Len(s) : s[i] \in 1 .. Len(file.columns)
    BY <1>1, LenProperties, ElementOfSeq DEF Projects
  <1>4. {s[i] : i \in DOMAIN s} = Wanted
    <2>1. \A i \in 1 .. Len(file.columns) : i \in Wanted <=> \E k \in 1 .. Len(s) : s[k] = i
      BY <1>1 DEF Projects
    <2>. QED BY <1>3, <2>1 DEF Wanted
  <1>5. InFileOrder(s)
    BY <1>1, <1>3 DEF Projects, InFileOrder
  <1>6. t \in Seq(Range(file.columns)) /\ Len(t) = Len(s)
    BY <1>1 DEF Projects
  <1>7. \A i \in 1 .. Len(s) : t[i] = file.columns[s[i]]
    BY <1>1 DEF Projects
  <1>. QED BY <1>2, <1>3, <1>4, <1>5, <1>6, <1>7

\* The field of a column is that of the first column of its name.
LEMMA AlignedFacts ==
  ASSUME file \in Files, iter \in Iterators
  PROVE  \A i \in DOMAIN iter.schema :
           /\ iter.aligned_parquet_fields[i] \in 1 .. Len(file.columns)
           /\ iter.aligned_parquet_fields[i] <= iter.schema[i]
           /\ file.columns[iter.aligned_parquet_fields[i]] = file.columns[iter.schema[i]]
  <1>. TAKE i \in DOMAIN iter.schema
  <1>. DEFINE S == {j \in 1 .. Len(file.columns) : file.columns[j] = file.columns[iter.schema[i]]}
  <1>1. iter.aligned_parquet_fields[i] = Min(S)
    BY DEF Iterators, Fields, AlignParquetFields, Schema
  <1>2. iter.schema[i] \in S
    BY SchemaFacts
  <1>3. S \subseteq Nat
    OBVIOUS
  <1>4. Min(S) \in S /\ Min(S) <= iter.schema[i]
    <2>. HIDE DEF S
    <2>. QED BY <1>2, <1>3, MinIsLeast
  <1>. QED BY <1>1, <1>4

-----------------------------------------------------------------------------
(* What the iterators hand out.                                            *)

LEMMA CallType ==
  ASSUME call \in Calls
  PROVE  /\ call.api \in {"rows", "columns"}
         /\ call.client \in {"core", "each"}
         /\ call.result_type \in {"array", "hash"}
         /\ call.batch_size \in Nat \ {0}
  BY ReaderAssumption DEF Calls

\* Items with rows: one row, or the columns of n rows.
RowItem(p) ==
  [kind |-> "row", row |-> p, values |-> [i \in DOMAIN iter.schema |-> Value(iter, i, p)]]
ColumnsItem(first, n) ==
  [kind |-> "columns", first |-> first, count |-> n,
   columns |-> [i \in DOMAIN iter.schema |->
     [name |-> file.columns[iter.schema[i]],
      values |-> [k \in 1 .. n |-> Value(iter, i, first + k - 1)]]]]

\* The outcomes of a call of next.
Ends(r) ==
  /\ r.item = None
  /\ r.iter = iter
  /\ r.fetched = fetched
  /\ InStep(iter, fetched) => Passed(iter, fetched) = file.rows

Breaks(r) == r.item = FetchError

Sticks(r) ==
  \E p \in Nat :
    /\ r.item = ConversionError(p)
    /\ call.api = "rows" =>
         /\ r.iter.current_row < r.iter.batch_rows
         /\ p = r.iter.batch_start + r.iter.current_row
         /\ ~Decodable(r.iter, {p})

\* The n rows from first are next unless something failed before.
Moves(r, first, n) ==
  /\ first + n <= file.rows
  /\ InStep(iter, fetched) =>
       /\ InStep(r.iter, r.fetched)
       /\ first = Passed(iter, fetched)
       /\ first + n = Passed(r.iter, r.fetched)

BringsRow(r) ==
  /\ call.api = "rows"
  /\ \E p \in Nat : r.item = RowItem(p) /\ Moves(r, p, 1)

BringsColumns(r) ==
  /\ call.api = "columns"
  /\ \E first, n \in Nat : r.item = ColumnsItem(first, n) /\ Moves(r, first, n)

ResultOK(r) ==
  /\ PlaceOK(r.iter, r.fetched)
  /\ Ends(r) \/ Breaks(r) \/ Sticks(r) \/ BringsRow(r) \/ BringsColumns(r)

LEMMA Kinds ==
  ASSUME NEW r
  PROVE  /\ Ends(r) => r.item.kind = "none"
         /\ Breaks(r) => r.item.kind = "fetch_error"
         /\ Sticks(r) => r.item.kind = "conversion_error"
         /\ BringsRow(r) => r.item.kind = "row"
         /\ BringsColumns(r) => r.item.kind = "columns"
  <1>1. Ends(r) => r.item.kind = "none"
    BY DEF Ends, None
  <1>2. Breaks(r) => r.item.kind = "fetch_error"
    BY DEF Breaks, FetchError
  <1>3. Sticks(r) => r.item.kind = "conversion_error"
    BY DEF Sticks, ConversionError
  <1>4. BringsRow(r) => r.item.kind = "row"
    BY DEF BringsRow, RowItem
  <1>5. BringsColumns(r) => r.item.kind = "columns"
    BY DEF BringsColumns, ColumnsItem
  <1>. QED BY <1>1, <1>2, <1>3, <1>4, <1>5

\* A batch begins where the one before ended and is not empty.
FetchOK(r) ==
  /\ PlaceOK(r.iter, r.fetched)
  /\ \/ r.item = None /\ r.iter = iter /\ r.fetched = fetched /\ fetched = file.rows
     \/ r.item = FetchError
     \/ /\ r.item = NoItem
        /\ r.iter.batch_start = fetched /\ r.iter.current_row = 0 /\ r.iter.batch_rows > 0
        /\ InStep(r.iter, r.fetched)

LEMMA FetchedIterator ==
  ASSUME iter \in Iterators, fetched \in Nat, NEW n \in Nat
  PROVE  LET it == [iter EXCEPT !.batch_start = fetched, !.batch_rows = n, !.current_row = 0]
         IN /\ it \in Iterators
            /\ it.batch_start = fetched /\ it.batch_rows = n /\ it.current_row = 0
  BY DEF Iterators

LEMMA FetchedBatch ==
  ASSUME file \in Files, call \in Calls, PlaceOK(iter, fetched)
  PROVE  \A r \in Fetches(iter) : FetchOK(r)
  <1>. TAKE r \in Fetches(iter)
  <1>1. /\ file.rows \in Nat /\ fetched \in 0 .. file.rows /\ iter \in Iterators
        /\ iter.batch_start \in Nat /\ iter.batch_rows \in Nat /\ iter.current_row \in Nat
    BY ReaderAssumption DEF PlaceOK, Iterators
  <1>2. CASE fetched = file.rows
    <2>1. r = Result(None, iter, fetched)
      BY <1>2 DEF Fetches
    <2>. QED BY <1>2, <2>1 DEF FetchOK, Result
  <1>3. CASE fetched # file.rows
    <2>. DEFINE S == {call.batch_size, file.rows - fetched}
    <2>1. Min(S) <= file.rows - fetched
      <3>1. S \subseteq Nat /\ S # {} /\ file.rows - fetched \in S
        BY <1>1, CallType
      <3>. HIDE DEF S
      <3>. QED BY <3>1, MinIsLeast
    <2>2. Min(S) \in Nat
      <3>1. S \subseteq Nat /\ S # {}
        BY <1>1, CallType
      <3>. HIDE DEF S
      <3>. QED BY <3>1, MinIsLeast
    <2>3. CASE \E f \in fetched .. file.rows : r = Result(FetchError, iter, f)
      BY <1>1, <2>3 DEF FetchOK, PlaceOK, Result
    <2>4. CASE \E n \in 1 .. Min(S) :
                 r = Result(NoItem, [iter EXCEPT !.batch_start = fetched, !.batch_rows = n,
                                                 !.current_row = 0], fetched + n)
      <3>. HIDE DEF S
      <3>1. PICK n \in 1 .. Min(S) :
                 r = Result(NoItem, [iter EXCEPT !.batch_start = fetched, !.batch_rows = n,
                                                 !.current_row = 0], fetched + n)
        BY <2>4
      <3>2. n \in Nat /\ n > 0 /\ fetched + n \in 0 .. file.rows
        BY <1>1, <2>1, <2>2
      <3>. DEFINE it == [iter EXCEPT !.batch_start = fetched, !.batch_rows = n, !.current_row = 0]
      <3>3. /\ it \in Iterators
            /\ it.batch_start = fetched /\ it.batch_rows = n /\ it.current_row = 0
        <4>1. fetched \in Nat
          BY <1>1
        <4>. QED BY <1>1, <3>2, <4>1, FetchedIterator
      <3>4. r.item = NoItem /\ r.iter = it /\ r.fetched = fetched + n
        BY <3>1 DEF Result
      <3>. HIDE DEF it
      <3>. QED BY <1>1, <3>2, <3>3, <3>4 DEF FetchOK, PlaceOK, InStep
    <2>. QED BY <1>3, <2>3, <2>4 DEF Fetches
  <1>. QED BY <1>2, <1>3

LEMMA PassedRow ==
  ASSUME NEW it \in Iterators
  PROVE  LET passed == [it EXCEPT !.current_row = @ + 1]
         IN /\ passed \in Iterators
            /\ passed.batch_start = it.batch_start /\ passed.batch_rows = it.batch_rows
            /\ passed.current_row = it.current_row + 1
  BY DEF Iterators

\* Whatever the batch, the values of an iterator are those of its file.
LEMMA SameValues ==
  ASSUME iter \in Iterators, NEW it \in Iterators
  PROVE  /\ it.schema = iter.schema
         /\ \A i, p : Value(it, i, p) = Value(iter, i, p)
         /\ \A rows : Decodable(it, rows) <=> Decodable(iter, rows)
  <1>1. it.schema = iter.schema /\ it.aligned_parquet_fields = iter.aligned_parquet_fields
    BY DEF Iterators
  <1>. QED BY <1>1 DEF Value, Decodable

\* A row of the batch is handed out, or stays where it is.
LEMMA RowOfBatchOK ==
  ASSUME file \in Files, call \in Calls, call.api = "rows", iter \in Iterators,
         NEW it, NEW f, PlaceOK(it, f), it.current_row < it.batch_rows,
         InStep(iter, fetched) =>
           InStep(it, f) /\ it.batch_start + it.current_row = Passed(iter, fetched)
  PROVE  ResultOK(RowOfBatch(it, f))
  <1>. DEFINE r == RowOfBatch(it, f)
              p == it.batch_start + it.current_row
  <1>1. /\ file.rows \in Nat /\ it \in Iterators
        /\ it.batch_start \in Nat /\ it.batch_rows \in Nat /\ it.current_row \in Nat
        /\ f \in 0 .. file.rows /\ p \in Nat
    BY ReaderAssumption DEF PlaceOK, Iterators
  <1>2. CASE Decodable(it, {p})
    <2>1. /\ r.item = RowItem(p)
          /\ r.iter = [it EXCEPT !.current_row = @ + 1]
          /\ r.fetched = f
      <3>1. [i \in DOMAIN it.schema |-> Value(it, i, p)]
              = [i \in DOMAIN iter.schema |-> Value(iter, i, p)]
        BY <1>1, SameValues
      <3>. QED BY <1>2, <3>1 DEF RowOfBatch, Result, RowItem
    <2>2. /\ r.iter \in Iterators
          /\ r.iter.batch_start = it.batch_start /\ r.iter.batch_rows = it.batch_rows
          /\ r.iter.current_row = it.current_row + 1
      BY <1>1, <2>1, PassedRow
    <2>. HIDE DEF r
    <2>3. PlaceOK(r.iter, r.fetched)
      BY <1>1, <2>1, <2>2 DEF PlaceOK
    <2>4. Moves(r, p, 1)
      BY <1>1, <2>1, <2>2 DEF Moves, InStep, Passed, PlaceOK
    <2>5. BringsRow(r)
      BY <1>1, <2>1, <2>4 DEF BringsRow
    <2>. QED BY <2>3, <2>5 DEF ResultOK, r
  <1>3. CASE ~Decodable(it, {p})
    <2>1. r.item = ConversionError(p) /\ r.iter = it /\ r.fetched = f
      BY <1>3 DEF RowOfBatch, Result
    <2>. HIDE DEF r
    <2>2. Sticks(r)
      BY <1>1, <1>3, <2>1 DEF Sticks
    <2>. QED BY <2>1, <2>2 DEF ResultOK, r
  <1>. QED BY <1>2, <1>3

\* All rows of the batch are handed out, or all are lost.
LEMMA ColumnsOfBatchOK ==
  ASSUME file \in Files, call \in Calls, call.api = "columns", iter \in Iterators,
         NEW it, NEW f, PlaceOK(it, f), it.batch_start = fetched, InStep(it, f)
  PROVE  ResultOK(ColumnsOfBatch(it, f))
  <1>. DEFINE r == ColumnsOfBatch(it, f)
              rows == it.batch_start .. (it.batch_start + it.batch_rows - 1)
  <1>1. /\ file.rows \in Nat /\ it \in Iterators
        /\ it.batch_start \in Nat /\ it.batch_rows \in Nat
        /\ f \in 0 .. file.rows
    BY ReaderAssumption DEF PlaceOK, Iterators
  <1>2. CASE Decodable(it, rows)
    <2>1. /\ r.item = ColumnsItem(it.batch_start, it.batch_rows)
          /\ r.iter = it
          /\ r.fetched = f
      <3>1. [i \in DOMAIN it.schema |->
               [name |-> file.columns[it.schema[i]],
                values |-> [k \in 1 .. it.batch_rows |-> Value(it, i, it.batch_start + k - 1)]]]
              = [i \in DOMAIN iter.schema |->
                  [name |-> file.columns[iter.schema[i]],
                   values |-> [k \in 1 .. it.batch_rows |-> Value(iter, i, it.batch_start + k - 1)]]]
        BY <1>1, SameValues
      <3>. QED BY <1>2, <3>1 DEF ColumnsOfBatch, Result, ColumnsItem
    <2>. HIDE DEF r
    <2>2. Moves(r, it.batch_start, it.batch_rows)
      BY <1>1, <2>1 DEF Moves, InStep, Passed, PlaceOK
    <2>3. BringsColumns(r)
      BY <1>1, <2>1, <2>2 DEF BringsColumns
    <2>. QED BY <2>1, <2>3 DEF ResultOK, r
  <1>3. CASE ~Decodable(it, rows)
    <2>1. r.item = ConversionError(it.batch_start) /\ r.iter = it /\ r.fetched = f
      BY <1>3 DEF ColumnsOfBatch, Result
    <2>. HIDE DEF r
    <2>2. Sticks(r)
      BY <1>1, <2>1 DEF Sticks
    <2>. QED BY <2>1, <2>2 DEF ResultOK, r
  <1>. QED BY <1>2, <1>3

LEMMA ShownIterator ==
  ASSUME NEW it \in Iterators
  PROVE  LET shown == [it EXCEPT !.returned_empty_batch = TRUE]
         IN /\ shown \in Iterators
            /\ shown.batch_start = it.batch_start /\ shown.batch_rows = it.batch_rows
            /\ shown.current_row = it.current_row
  BY DEF Iterators

\* The columns of a file without rows.
LEMMA EmptyBatchOK ==
  ASSUME file \in Files, call \in Calls, call.api = "columns", PlaceOK(iter, fetched),
         iter.is_empty_file
  PROVE  ResultOK(EmptyBatch(iter, fetched))
  <1>. DEFINE r == EmptyBatch(iter, fetched)
  <1>1. /\ file.rows \in Nat /\ iter \in Iterators
        /\ iter.batch_start \in Nat /\ iter.batch_rows \in Nat
        /\ iter.current_row \in Nat /\ file.rows = 0 /\ fetched = 0
        /\ iter.current_row <= iter.batch_rows /\ iter.batch_start + iter.batch_rows <= 0
    <2>1. file.rows = 0
      <3>1. iter.is_empty_file = IsEmpty
        BY DEF PlaceOK, Iterators
      <3>. QED BY <3>1 DEF IsEmpty
    <2>. QED BY <2>1 DEF PlaceOK, Iterators
  <1>2. /\ r.item = ColumnsItem(0, 0)
        /\ r.iter = [iter EXCEPT !.returned_empty_batch = TRUE]
        /\ r.fetched = fetched
    <2>1. \A i : [k \in 1 .. 0 |-> Value(iter, i, 0 + k - 1)] = <<>>
      OBVIOUS
    <2>. QED BY <2>1 DEF EmptyBatch, Result, ColumnsItem
  <1>3. /\ r.iter \in Iterators
        /\ r.iter.batch_start = iter.batch_start /\ r.iter.batch_rows = iter.batch_rows
        /\ r.iter.current_row = iter.current_row
    BY <1>1, <1>2, ShownIterator
  <1>. HIDE DEF r
  <1>4. PlaceOK(r.iter, r.fetched)
    BY <1>1, <1>2, <1>3 DEF PlaceOK
  <1>5. Moves(r, 0, 0)
    BY <1>1, <1>2, <1>3 DEF Moves, InStep, Passed
  <1>6. BringsColumns(r)
    BY <1>2, <1>5 DEF BringsColumns
  <1>. QED BY <1>4, <1>6 DEF ResultOK, r

LEMMA NextItemsOK ==
  ASSUME file \in Files, call \in Calls, PlaceOK(iter, fetched),
         NEW r \in NextItems
  PROVE  ResultOK(r)
  <1>1. iter \in Iterators
    BY DEF PlaceOK
  <1>2. CASE call.api = "rows" /\ iter.current_row < iter.batch_rows
    <2>1. r = RowOfBatch(iter, fetched)
      BY <1>2 DEF NextItems, NextRow
    <2>. QED BY <1>1, <1>2, <2>1, RowOfBatchOK DEF Passed
  <1>3. CASE call.api = "rows" /\ ~(iter.current_row < iter.batch_rows)
    <2>1. PICK q \in Fetches(iter) :
            r = IF q.item = NoItem THEN RowOfBatch(q.iter, q.fetched) ELSE q
      BY <1>3 DEF NextItems, NextRow
    <2>2. FetchOK(q)
      BY FetchedBatch
    <2>3. iter.current_row = iter.batch_rows
      BY <1>1, <1>3 DEF PlaceOK, Iterators
    <2>4. CASE q.item = NoItem
      <3>1. /\ PlaceOK(q.iter, q.fetched) /\ q.iter.batch_start = fetched
            /\ q.iter.current_row = 0 /\ q.iter.batch_rows > 0 /\ InStep(q.iter, q.fetched)
        BY <2>2, <2>4, ReaderAssumption DEF FetchOK, None, FetchError
      <3>2. q.iter.current_row < q.iter.batch_rows
        BY <3>1 DEF PlaceOK, Iterators
      <3>3. q.iter.batch_start + q.iter.current_row = fetched
        BY <3>1 DEF PlaceOK, Iterators
      <3>4. InStep(iter, fetched) => Passed(iter, fetched) = fetched
        BY <1>3, <2>3 DEF InStep, Passed
      <3>. QED BY <1>1, <1>3, <2>1, <2>4, <3>1, <3>2, <3>3, <3>4, RowOfBatchOK
    <2>5. CASE q.item # NoItem
      <3>1. r = q
        BY <2>1, <2>5
      <3>. QED BY <1>3, <2>2, <2>3, <2>5, <3>1
               DEF FetchOK, ResultOK, Ends, Breaks, InStep, Passed
    <2>. QED BY <2>4, <2>5
  <1>4. CASE call.api = "columns" /\ iter.is_empty_file /\ ~iter.returned_empty_batch
    <2>1. r = EmptyBatch(iter, fetched)
      BY <1>4 DEF NextItems, NextColumns
    <2>. QED BY <1>4, <2>1, EmptyBatchOK
  <1>5. CASE call.api = "columns" /\ ~(iter.is_empty_file /\ ~iter.returned_empty_batch)
    <2>1. PICK q \in Fetches(iter) :
            r = IF q.item = NoItem THEN ColumnsOfBatch(q.iter, q.fetched) ELSE q
      BY <1>5 DEF NextItems, NextColumns
    <2>2. FetchOK(q)
      BY FetchedBatch
    <2>3. CASE q.item = NoItem
      <3>1. /\ PlaceOK(q.iter, q.fetched) /\ q.iter.batch_start = fetched
            /\ InStep(q.iter, q.fetched)
        BY <2>2, <2>3, ReaderAssumption DEF FetchOK, None, FetchError
      <3>. QED BY <1>1, <1>5, <2>1, <2>3, <3>1, ColumnsOfBatchOK
    <2>4. CASE q.item # NoItem
      <3>1. r = q
        BY <2>1, <2>4
      <3>. QED BY <1>5, <2>2, <2>4, <3>1 DEF FetchOK, ResultOK, Ends, Breaks, Passed
    <2>. QED BY <2>3, <2>4
  <1>. QED BY <1>2, <1>3, <1>4, <1>5, CallType

-----------------------------------------------------------------------------
(* What the consumers do with them.                                        *)

RowsFrom(first, n) == [k \in 1 .. n |-> Row(first + k - 1)]

LEMMA ItemRows ==
  /\ RowsOf(None) = <<>>
  /\ RowsOf(FetchError) = <<>>
  /\ \A p : RowsOf(ConversionError(p)) = <<>>
  /\ \A p \in Nat : RowsOf(RowItem(p)) = RowsFrom(p, 1)
  /\ \A first, n \in Nat : RowsOf(ColumnsItem(first, n)) = RowsFrom(first, n)
  <1>1. RowsOf(None) = <<>> /\ RowsOf(FetchError) = <<>>
    BY DEF RowsOf, None, FetchError
  <1>2. \A p : RowsOf(ConversionError(p)) = <<>>
    BY DEF RowsOf, ConversionError
  <1>3. ASSUME NEW p \in Nat
        PROVE  RowsOf(RowItem(p)) = RowsFrom(p, 1)
    <2>1. RowsOf(RowItem(p)) = <<Row(p)>>
      BY DEF RowsOf, RowItem, Row
    <2>2. \A k \in 1 .. 1 : Row(p + k - 1) = Row(p)
      <3>1. \A k \in 1 .. 1 : p + k - 1 = p
        OBVIOUS
      <3>. QED BY <3>1
    <2>3. RowsFrom(p, 1) = [k \in 1 .. 1 |-> Row(p)]
      BY <2>2 DEF RowsFrom
    <2>4. <<Row(p)>> = [k \in 1 .. 1 |-> Row(p)]
      OBVIOUS
    <2>. QED BY <2>1, <2>3, <2>4
  <1>4. ASSUME NEW first \in Nat, NEW n \in Nat
        PROVE  RowsOf(ColumnsItem(first, n)) = RowsFrom(first, n)
    <2>. DEFINE columns == [i \in DOMAIN iter.schema |->
                  [name |-> file.columns[iter.schema[i]],
                   values |-> [k \in 1 .. n |-> Value(iter, i, first + k - 1)]]]
    <2>1. RowsOf(ColumnsItem(first, n))
            = [k \in 1 .. n |-> [row |-> first + k - 1,
                 values |-> [i \in DOMAIN columns |-> columns[i].values[k]]]]
      BY DEF RowsOf, ColumnsItem
    <2>2. ASSUME NEW k \in 1 .. n
          PROVE  [i \in DOMAIN columns |-> columns[i].values[k]]
                   = [i \in DOMAIN iter.schema |-> Value(iter, i, first + k - 1)]
      OBVIOUS
    <2>. QED BY <2>1, <2>2 DEF RowsFrom, Row
  <1>. QED BY <1>1, <1>2, <1>3, <1>4

\* e is d with n rows more, from first on.
Extends(e, d, first, n) ==
  /\ e \in Seq(Rows)
  /\ Len(e) = Len(d) + n
  /\ \A k \in 1 .. Len(d) : e[k] = d[k]
  /\ \A k \in 1 .. n : e[Len(d) + k] = Row(first + k - 1)

LEMMA MoreRows ==
  ASSUME file \in Files, NEW d \in Seq(Rows), NEW first \in Nat, NEW n \in Nat,
         first + n <= file.rows
  PROVE  Extends(d \o RowsFrom(first, n), d, first, n)
  <1>1. file.rows \in Nat
    BY ReaderAssumption
  <1>2. \A k \in 1 .. n : Row(first + k - 1) \in Rows
    <2>1. \A k \in 1 .. n : first + k - 1 \in 0 .. (file.rows - 1)
      BY <1>1
    <2>. QED BY <2>1 DEF Rows
  <1>3. /\ RowsFrom(first, n) \in Seq(Rows) /\ Len(RowsFrom(first, n)) = n
        /\ \A k \in 1 .. n : RowsFrom(first, n)[k] = Row(first + k - 1)
    BY <1>2 DEF RowsFrom
  <1>. DEFINE u == RowsFrom(first, n)
              e == d \o u
  <1>4. Len(u) = n /\ \A k \in 1 .. n : u[k] = Row(first + k - 1)
    BY <1>3
  <1>5. /\ e \in Seq(Rows)
        /\ Len(e) = Len(d) + Len(u)
        /\ \A k \in 1 .. Len(d) : e[k] = d[k]
        /\ \A k \in 1 .. Len(u) : e[Len(d) + k] = u[k]
    <2>1. u \in Seq(Rows)
      BY <1>3
    <2>. HIDE DEF u
    <2>. QED BY <2>1, ConcatElements
  <1>. HIDE DEF u, e
  <1>6. /\ e \in Seq(Rows)
        /\ Len(e) = Len(d) + n
        /\ \A k \in 1 .. Len(d) : e[k] = d[k]
        /\ \A k \in 1 .. n : e[Len(d) + k] = Row(first + k - 1)
    BY <1>4, <1>5
  <1>. QED BY <1>6 DEF e, u, Extends

\* The rows of the file are the same after a step.
LEMMA SameRows ==
  ASSUME iter \in Iterators, iter' \in Iterators, file' = file, call' = call
  PROVE  /\ Rows' = Rows
         /\ \A p : Row(p)' = Row(p)
         /\ Content' = Content
         /\ Iterators' = Iterators
  <1>1. iter'.schema = iter.schema /\ iter'.aligned_parquet_fields = iter.aligned_parquet_fields
    BY DEF Iterators
  <1>2. Rows' = Rows
    BY <1>1 DEF Rows, Row, Value
  <1>3. \A p : Row(p)' = Row(p)
    BY <1>1 DEF Row, Value
  <1>4. Content' = Content
    BY <1>1 DEF Content, Value
  <1>5. Iterators' = Iterators
    BY DEF Iterators, Schema, Fields, IsEmpty
  <1>. QED BY <1>2, <1>3, <1>4, <1>5

\* A step that takes a result.
LEMMA Taken ==
  ASSUME IInv, NEW r, ResultOK(r), file' = file, call' = call,
         iter' = r.iter, fetched' = r.fetched
  PROVE  /\ PlaceOK(iter, fetched)'
         /\ Rows' = Rows /\ (\A p : Row(p)' = Row(p)) /\ Content' = Content
         /\ InStep(iter, fetched)' <=> InStep(r.iter, r.fetched)
         /\ Passed(iter, fetched)' = Passed(r.iter, r.fetched)
  <1>1. iter \in Iterators /\ iter' \in Iterators
    BY DEF IInv, ResultOK, PlaceOK
  <1>2. Rows' = Rows /\ (\A p : Row(p)' = Row(p)) /\ Content' = Content /\ Iterators' = Iterators
    BY <1>1, SameRows
  <1>3. PlaceOK(iter, fetched)'
    BY <1>2 DEF ResultOK, PlaceOK
  <1>. QED BY <1>2, <1>3 DEF InStep, Passed

\* What has been delivered when the rows of a result are added: its rows come
\* next if nothing failed, and an error or the end has none.
LEMMA Delivery ==
  ASSUME IInv, NEW r, ResultOK(r)
  PROVE  LET more == delivered \o RowsOf(r.item)
         IN /\ more \in Seq(Rows)
            /\ Len(delivered) <= Len(more)
            /\ \A k \in 1 .. Len(delivered) : more[k] = delivered[k]
            /\ phase = "open" =>
                 /\ Len(more) <= file.rows
                 /\ \A k \in 1 .. Len(more) : more[k] = Row(k - 1)
                 /\ ~IsError(r.item) => InStep(r.iter, r.fetched)
                                        /\ Len(more) = Passed(r.iter, r.fetched)
            /\ ~(r.item.kind \in {"row", "columns"}) => more = delivered
  <1>. DEFINE more == delivered \o RowsOf(r.item)
  <1>1. /\ file.rows \in Nat /\ delivered \in Seq(Rows) /\ Len(delivered) \in Nat
        /\ clean <= file.rows /\ clean \in 0 .. Len(delivered)
        /\ \A k \in 1 .. clean : delivered[k] = Row(k - 1)
    BY ReaderAssumption, LenProperties DEF IInv, DeliveredOK
  <1>2. phase = "open" =>
          /\ InStep(iter, fetched)
          /\ Len(delivered) = Passed(iter, fetched)
          /\ Len(delivered) <= file.rows
          /\ \A k \in 1 .. Len(delivered) : delivered[k] = Row(k - 1)
    BY <1>1 DEF IInv, PhaseOK
  <1>3. CASE RowsOf(r.item) = <<>> /\ ~(r.item.kind \in {"row", "columns"})
             /\ (Ends(r) \/ IsError(r.item))
    <2>1. more = delivered
      BY <1>1, <1>3, ConcatEmptySeq
    <2>2. phase = "open" /\ ~IsError(r.item) =>
            InStep(r.iter, r.fetched) /\ Len(delivered) = Passed(r.iter, r.fetched)
      BY <1>2, <1>3 DEF Ends
    <2>. QED BY <1>1, <1>2, <1>3, <2>1, <2>2
  <1>4. CASE \E first, n \in Nat :
               /\ RowsOf(r.item) = RowsFrom(first, n)
               /\ Moves(r, first, n)
               /\ r.item.kind \in {"row", "columns"}
    <2>1. PICK first \in Nat, n \in Nat :
               /\ RowsOf(r.item) = RowsFrom(first, n)
               /\ Moves(r, first, n)
               /\ r.item.kind \in {"row", "columns"}
      BY <1>4
    <2>2. first + n <= file.rows
      BY <2>1 DEF Moves
    <2>3. /\ more \in Seq(Rows)
          /\ Len(more) = Len(delivered) + n
          /\ \A k \in 1 .. Len(delivered) : more[k] = delivered[k]
          /\ \A k \in 1 .. n : more[Len(delivered) + k] = Row(first + k - 1)
      <3>1. file \in Files
        BY DEF IInv
      <3>2. more = delivered \o RowsFrom(first, n)
        BY <2>1
      <3>3. delivered \in Seq(Rows)
        BY <1>1
      <3>4. Extends(delivered \o RowsFrom(first, n), delivered, first, n)
        BY <2>2, <3>1, <3>3, MoreRows
      <3>. QED BY <3>2, <3>4 DEF Extends
    <2>. HIDE DEF more
    <2>4. ASSUME phase = "open"
          PROVE  /\ Len(more) <= file.rows
                 /\ \A k \in 1 .. Len(more) : more[k] = Row(k - 1)
                 /\ InStep(r.iter, r.fetched) /\ Len(more) = Passed(r.iter, r.fetched)
      <3>1. /\ first = Len(delivered) /\ InStep(r.iter, r.fetched)
            /\ first + n = Passed(r.iter, r.fetched)
        BY <1>2, <2>1, <2>4 DEF Moves
      <3>2. ASSUME NEW k \in 1 .. Len(more)
            PROVE  more[k] = Row(k - 1)
        <4>1. CASE k \in 1 .. Len(delivered)
          BY <1>2, <2>3, <2>4, <4>1
        <4>2. CASE k > Len(delivered)
          <5>1. k - Len(delivered) \in 1 .. n /\ Len(delivered) + (k - Len(delivered)) = k
                /\ first + (k - Len(delivered)) - 1 = k - 1
            BY <1>1, <2>3, <3>1, <4>2
          <5>2. more[Len(delivered) + (k - Len(delivered))]
                  = Row(first + (k - Len(delivered)) - 1)
            BY <2>3, <5>1
          <5>. QED BY <5>1, <5>2
        <4>. QED BY <1>1, <2>3, <4>1, <4>2
      <3>. QED BY <2>2, <2>3, <3>1, <3>2
    <2>5. Len(delivered) <= Len(more)
      BY <1>1, <2>3
    <2>. QED BY <2>1, <2>3, <2>4, <2>5 DEF more
  <1>5. CASE Ends(r)
    <2>1. r.item = None
      BY <1>5 DEF Ends
    <2>. QED BY <1>3, <1>5, <2>1, ItemRows DEF None
  <1>6. CASE Breaks(r)
    <2>1. r.item = FetchError
      BY <1>6 DEF Breaks
    <2>. QED BY <1>3, <2>1, ItemRows DEF FetchError, IsError
  <1>7. CASE Sticks(r)
    <2>1. PICK p \in Nat : r.item = ConversionError(p)
      BY <1>7 DEF Sticks
    <2>. QED BY <1>3, <2>1, ItemRows DEF ConversionError, IsError
  <1>8. CASE BringsRow(r)
    <2>1. PICK p \in Nat : r.item = RowItem(p) /\ Moves(r, p, 1)
      BY <1>8 DEF BringsRow
    <2>2. RowsOf(r.item) = RowsFrom(p, 1) /\ r.item.kind \in {"row", "columns"}
      BY <2>1, ItemRows DEF RowItem
    <2>. QED BY <1>4, <2>1, <2>2
  <1>9. CASE BringsColumns(r)
    <2>1. PICK first \in Nat, n \in Nat : r.item = ColumnsItem(first, n) /\ Moves(r, first, n)
      BY <1>9 DEF BringsColumns
    <2>2. RowsOf(r.item) = RowsFrom(first, n) /\ r.item.kind \in {"row", "columns"}
      BY <2>1, ItemRows DEF ColumnsItem
    <2>. QED BY <1>4, <2>1, <2>2
  <1>. QED BY <1>5, <1>6, <1>7, <1>8, <1>9 DEF ResultOK

-----------------------------------------------------------------------------
(* Hashes.                                                                 *)

\* A hash has each name, on the value of some column of that name.
Hashes(h, names, values, n) ==
  /\ DOMAIN h = {names[i] : i \in 1 .. n}
  /\ \A x \in DOMAIN h : \E i \in 1 .. n : names[i] = x /\ h[x] = values[i]

LEMMA HashFacts ==
  ASSUME NEW n \in Nat, NEW names, DOMAIN names = 1 .. n, NEW values, DOMAIN values = 1 .. n
  PROVE  Hashes(HashOf(names, values), names, values, n)
  <1>. DEFINE h == HashOf(names, values)
              At(x) == {i \in DOMAIN names \intersect DOMAIN values : names[i] = x}
  <1>1. h = [x \in {names[i] : i \in 1 .. n} |-> values[Max(At(x))]]
    <2>1. DOMAIN names \intersect DOMAIN values = 1 .. n
      OBVIOUS
    <2>. QED BY <2>1 DEF HashOf
  <1>2. ASSUME NEW x \in {names[i] : i \in 1 .. n}
        PROVE  \E i \in 1 .. n : names[i] = x /\ h[x] = values[i]
    <2>1. At(x) \subseteq 0 .. n /\ At(x) # {}
      OBVIOUS
    <2>2. Max(At(x)) \in At(x)
      <3>. HIDE DEF At
      <3>. QED BY <2>1, MaxIsMember
    <2>3. h[x] = values[Max(At(x))]
      <3>. HIDE DEF At, h
      <3>. QED BY <1>1
    <2>4. \A i \in At(x) : i \in 1 .. n /\ names[i] = x
      OBVIOUS
    <2>. HIDE DEF At, h
    <2>. QED BY <2>2, <2>3, <2>4
  <1>3. DOMAIN h = {names[i] : i \in 1 .. n}
    <2>. HIDE DEF At, h
    <2>. QED BY <1>1
  <1>. HIDE DEF h
  <1>4. \A x \in DOMAIN h : \E i \in 1 .. n : names[i] = x /\ h[x] = values[i]
    BY <1>2, <1>3
  <1>. QED BY <1>3, <1>4 DEF h, Hashes

\* The hash of a row or of a batch.
HashOfCall(v) ==
  /\ DOMAIN v = {file.columns[i] : i \in Wanted}
  /\ \A n \in DOMAIN v :
       IF call.api = "rows"
       THEN file.columns[v[n].column] = n
       ELSE \A w \in Range(v[n]) : file.columns[w.column] = n

LEMMA NamesOfSchema ==
  ASSUME file \in Files, iter \in Iterators
  PROVE  {file.columns[iter.schema[i]] : i \in 1 .. Len(iter.schema)}
           = {file.columns[i] : i \in Wanted}
  <1>1. {iter.schema[i] : i \in 1 .. Len(iter.schema)} = Wanted
    BY SchemaFacts
  <1>. QED BY <1>1

LEMMA RowHash ==
  ASSUME file \in Files, iter \in Iterators, call.api = "rows", call.result_type = "hash",
         NEW p \in Nat
  PROVE  HashOfCall(RubyValue(RowItem(p)))
  <1>. DEFINE n == Len(iter.schema)
              names == ColumnNames(file, call.columns)
              values == [i \in DOMAIN iter.schema |-> Value(iter, i, p)]
              h == HashOf(names, values)
  <1>1. RubyValue(RowItem(p)) = h
    BY DEF RubyValue, RowItem
  <1>2. /\ n \in Nat /\ DOMAIN iter.schema = 1 .. n /\ DOMAIN names = 1 .. n
        /\ \A i \in 1 .. n : names[i] = file.columns[iter.schema[i]]
    BY SchemaFacts
  <1>3. DOMAIN values = 1 .. n /\ \A i \in 1 .. n : values[i].column = iter.schema[i]
    BY <1>2 DEF Value
  <1>. HIDE DEF n, names, values
  <1>4. /\ DOMAIN h = {names[i] : i \in 1 .. n}
        /\ \A x \in DOMAIN h : \E i \in 1 .. n : names[i] = x /\ h[x] = values[i]
    <2>1. Hashes(h, names, values, n)
      BY <1>2, <1>3, HashFacts
    <2>. HIDE DEF h
    <2>. QED BY <2>1 DEF Hashes
  <1>. HIDE DEF h
  <1>5. DOMAIN h = {file.columns[i] : i \in Wanted}
    <2>1. {names[i] : i \in 1 .. n} = {file.columns[iter.schema[i]] : i \in 1 .. n}
      BY <1>2
    <2>. QED BY <1>4, <2>1, NamesOfSchema DEF n
  <1>6. \A x \in DOMAIN h : file.columns[h[x].column] = x
    BY <1>2, <1>3, <1>4
  <1>. QED BY <1>1, <1>5, <1>6 DEF HashOfCall

LEMMA ColumnsHash ==
  ASSUME file \in Files, iter \in Iterators, call.api = "columns", call.result_type = "hash",
         NEW first \in Nat, NEW m \in Nat
  PROVE  HashOfCall(RubyValue(ColumnsItem(first, m)))
  <1>. DEFINE n == Len(iter.schema)
              item == ColumnsItem(first, m)
              names == [i \in DOMAIN item.columns |-> item.columns[i].name]
              values == [i \in DOMAIN item.columns |-> item.columns[i].values]
              h == HashOf(names, values)
  <1>1. RubyValue(item) = h
    <2>1. item.kind = "columns"
      BY DEF ColumnsItem
    <2>. QED BY <2>1 DEF RubyValue
  <1>2. n \in Nat /\ DOMAIN iter.schema = 1 .. n
    BY SchemaFacts
  <1>3. DOMAIN names = 1 .. n /\ DOMAIN values = 1 .. n
    BY <1>2 DEF ColumnsItem
  <1>4. ASSUME NEW i \in 1 .. n
        PROVE  names[i] = file.columns[iter.schema[i]]
               /\ \A w \in Range(values[i]) : w.column = iter.schema[i]
    <2>1. /\ names[i] = file.columns[iter.schema[i]]
          /\ values[i] = [k \in 1 .. m |-> Value(iter, i, first + k - 1)]
      BY <1>2 DEF ColumnsItem
    <2>. QED BY <2>1 DEF Range, Value
  <1>. HIDE DEF n, names, values
  <1>5. /\ DOMAIN h = {names[i] : i \in 1 .. n}
        /\ \A x \in DOMAIN h : \E i \in 1 .. n : names[i] = x /\ h[x] = values[i]
    <2>1. Hashes(h, names, values, n)
      BY <1>2, <1>3, HashFacts
    <2>. HIDE DEF h
    <2>. QED BY <2>1 DEF Hashes
  <1>. HIDE DEF h
  <1>6. DOMAIN h = {file.columns[i] : i \in Wanted}
    <2>1. {names[i] : i \in 1 .. n} = {file.columns[iter.schema[i]] : i \in 1 .. n}
      BY <1>4
    <2>. QED BY <1>5, <2>1, NamesOfSchema DEF n
  <1>7. \A x \in DOMAIN h : \A w \in Range(h[x]) : file.columns[w.column] = x
    BY <1>4, <1>5
  <1>. QED BY <1>1, <1>6, <1>7 DEF HashOfCall

\* Whatever a block is given.
LEMMA YieldedHash ==
  ASSUME file \in Files, call \in Calls, NEW r, ResultOK(r), iter \in Iterators,
         call.result_type = "hash", r.item.kind \in {"row", "columns"}
  PROVE  HashOfCall(RubyValue(r.item))
  <1>1. CASE BringsRow(r)
    BY <1>1, RowHash DEF BringsRow
  <1>2. CASE BringsColumns(r)
    BY <1>2, ColumnsHash DEF BringsColumns
  <1>3. CASE Ends(r) \/ Breaks(r) \/ Sticks(r)
    <2>1. r.item.kind \in {"none", "fetch_error", "conversion_error"}
      BY <1>3, Kinds
    <2>. QED BY <2>1
  <1>. QED BY <1>1, <1>2, <1>3 DEF ResultOK

-----------------------------------------------------------------------------
(* The invariant holds.                                                    *)

LEMMA InitEstablishes == Init => IInv
  <1>. SUFFICES ASSUME Init PROVE IInv
    OBVIOUS
  <1>1. /\ file \in Files /\ call \in Calls /\ file.rows \in Nat
        /\ fetched = 0 /\ phase = "idle" /\ last = NoItem /\ delivered = <<>> /\ clean = 0
    BY ReaderAssumption DEF Init
  <1>2. iter = [schema |-> Schema, aligned_parquet_fields |-> Fields,
                batch_start |-> 0, batch_rows |-> 0, current_row |-> 0,
                is_empty_file |-> IsEmpty, returned_empty_batch |-> FALSE]
    BY DEF Init, NewIterator, Schema, Fields, IsEmpty
  <1>3. /\ iter \in Iterators
        /\ iter.batch_start = 0 /\ iter.batch_rows = 0 /\ iter.current_row = 0
    BY <1>2 DEF Iterators
  <1>4. PlaceOK(iter, fetched) /\ InStep(iter, fetched) /\ Passed(iter, fetched) = 0
    BY <1>1, <1>3 DEF PlaceOK, InStep, Passed
  <1>5. DeliveredOK
    <2>1. delivered \in Seq(Rows) /\ Len(delivered) = 0
      BY <1>1
    <2>. QED BY <1>1, <2>1 DEF DeliveredOK
  <1>6. PhaseOK
    BY <1>1, <1>4 DEF PhaseOK
  <1>7. HashOK /\ StaysAtBadRow
    BY <1>1 DEF HashOK, StaysAtBadRow
  <1>. QED BY <1>1, <1>4, <1>5, <1>6, <1>7 DEF IInv

LEMMA UnchangedPreserves == IInv /\ UNCHANGED vars => IInv'
  <1>. SUFFICES ASSUME IInv, UNCHANGED vars PROVE IInv'
    OBVIOUS
  <1>1. /\ file' = file /\ call' = call /\ iter' = iter /\ fetched' = fetched
        /\ phase' = phase /\ last' = last /\ delivered' = delivered /\ clean' = clean
    BY DEF vars
  <1>. QED
    BY <1>1 DEF IInv, PlaceOK, DeliveredOK, PhaseOK, HashOK, StaysAtBadRow, Iterators, Schema,
                Fields, IsEmpty, InStep, Passed, Row, Rows, Value, Wanted, Decodable

\* A result is remembered as it is: it is no hash, and an error is known by
\* its row.
LEMMA RememberedItem ==
  ASSUME IInv, NEW r, ResultOK(r), file' = file, call' = call,
         iter' = r.iter, fetched' = r.fetched, last' = r.item
  PROVE  /\ HashOK'
         /\ StaysAtBadRow'
         /\ last' # NoItem /\ last'.kind = "conversion_error" => IsError(r.item)
  <1>1. r.item.kind # "yielded"
    BY Kinds DEF ResultOK
  <1>2. HashOK'
    BY <1>1 DEF HashOK
  <1>3. r.item.kind = "conversion_error" => Sticks(r)
    BY Kinds DEF ResultOK
  <1>4. StaysAtBadRow'
    <2>. SUFFICES ASSUME call.api = "rows", r.item.kind = "conversion_error"
                  PROVE  StaysAtBadRow'
      BY DEF StaysAtBadRow
    <2>1. PICK p \in Nat :
            /\ r.item = ConversionError(p)
            /\ r.iter.current_row < r.iter.batch_rows
            /\ p = r.iter.batch_start + r.iter.current_row
            /\ ~Decodable(r.iter, {p})
      BY <1>3 DEF Sticks
    <2>2. ~Decodable(iter, {p})'
      BY <2>1 DEF Decodable
    <2>. QED BY <2>1, <2>2 DEF StaysAtBadRow, ConversionError
  <1>. QED BY <1>2, <1>4 DEF IsError

LEMMA OpenPreserves == IInv /\ Open => IInv'
  <1>. SUFFICES ASSUME IInv, Open PROVE IInv'
    OBVIOUS
  <1>1. /\ file' = file /\ call' = call /\ iter' = iter /\ fetched' = fetched
        /\ last' = last /\ delivered' = delivered /\ clean' = clean
        /\ phase = "idle" /\ phase' \in {"open", "failed"}
    BY DEF Open
  <1>2. PhaseOK'
    BY <1>1 DEF IInv, PhaseOK, InStep, Passed
  <1>. QED
    BY <1>1, <1>2 DEF IInv, PlaceOK, DeliveredOK, HashOK, StaysAtBadRow, Iterators, Schema,
                Fields, IsEmpty, Row, Rows, Value, Wanted, Decodable

LEMMA CorePreserves == IInv /\ CoreNext => IInv'
  <1>. SUFFICES ASSUME IInv, CoreNext PROVE IInv'
    OBVIOUS
  <1>1. PICK r \in NextItems :
          /\ last' = r.item
          /\ iter' = r.iter
          /\ fetched' = r.fetched
          /\ delivered' = delivered \o RowsOf(r.item)
          /\ clean' = IF phase = "open" THEN Len(delivered') ELSE clean
          /\ phase' = IF IsError(r.item) THEN "failed"
                      ELSE IF r.item = None /\ phase = "open" THEN "complete" ELSE phase
    BY DEF CoreNext
  <1>2. file' = file /\ call' = call /\ phase \in {"open", "failed"}
    BY DEF CoreNext
  <1>3. ResultOK(r)
    BY NextItemsOK DEF IInv
  <1>4. /\ PlaceOK(iter, fetched)'
        /\ Rows' = Rows /\ \A p : Row(p)' = Row(p)
        /\ InStep(iter, fetched)' <=> InStep(r.iter, r.fetched)
        /\ Passed(iter, fetched)' = Passed(r.iter, r.fetched)
    BY <1>1, <1>2, <1>3, Taken
  <1>5. /\ delivered' \in Seq(Rows)
        /\ Len(delivered) <= Len(delivered')
        /\ \A k \in 1 .. Len(delivered) : delivered'[k] = delivered[k]
        /\ phase = "open" =>
             /\ Len(delivered') <= file.rows
             /\ \A k \in 1 .. Len(delivered') : delivered'[k] = Row(k - 1)
             /\ ~IsError(r.item) => InStep(r.iter, r.fetched)
                                    /\ Len(delivered') = Passed(r.iter, r.fetched)
    BY <1>1, <1>3, Delivery
  <1>6. Len(delivered') \in Nat /\ Len(delivered) \in Nat /\ clean \in 0 .. Len(delivered)
        /\ clean <= file.rows
    BY <1>5, LenProperties DEF IInv, DeliveredOK
  <1>7. DeliveredOK'
    <2>1. CASE phase = "open"
      BY <1>1, <1>2, <1>4, <1>5, <1>6, <2>1 DEF DeliveredOK
    <2>2. CASE phase # "open"
      <3>1. clean' = clean
        BY <1>1, <2>2
      <3>2. \A k \in 1 .. clean : delivered[k] = Row(k - 1)
        BY DEF IInv, DeliveredOK
      <3>3. clean \in 0 .. Len(delivered')
        BY <1>5, <1>6
      <3>4. \A k \in 1 .. clean : delivered'[k] = Row(k - 1)
        BY <1>5, <1>6, <3>2
      <3>. QED BY <1>2, <1>4, <1>5, <1>6, <3>1, <3>3, <3>4 DEF DeliveredOK
    <2>. QED BY <2>1, <2>2
  <1>8. /\ HashOK' /\ StaysAtBadRow'
        /\ last' # NoItem /\ last'.kind = "conversion_error" => IsError(r.item)
    BY <1>1, <1>2, <1>3, RememberedItem
  <1>9. PhaseOK'
    <2>1. CASE IsError(r.item)
      BY <1>1, <2>1 DEF PhaseOK
    <2>2. CASE ~IsError(r.item) /\ phase = "open"
      BY <1>1, <1>4, <1>5, <1>8, <2>2 DEF PhaseOK
    <2>3. CASE ~IsError(r.item) /\ phase = "failed"
      BY <1>1, <2>3 DEF PhaseOK
    <2>. QED BY <1>2, <2>1, <2>2, <2>3
  <1>. QED BY <1>2, <1>4, <1>7, <1>8, <1>9 DEF IInv

LEMMA YieldPreserves ==
  ASSUME IInv, phase = "open", NEW r \in NextItems, Yield(r)
  PROVE  IInv'
  <1>1. /\ r.item.kind \in {"row", "columns"}
        /\ last' = [kind |-> "yielded", value |-> RubyValue(r.item)]
        /\ iter' = r.iter /\ fetched' = r.fetched
        /\ delivered' = delivered \o RowsOf(r.item)
        /\ clean' = Len(delivered')
        /\ phase' \in {"open", "failed"}
        /\ file' = file /\ call' = call
    BY DEF Yield
  <1>2. ResultOK(r) /\ ~IsError(r.item)
    BY <1>1, NextItemsOK DEF IInv, IsError
  <1>3. /\ PlaceOK(iter, fetched)'
        /\ Rows' = Rows /\ \A p : Row(p)' = Row(p)
        /\ InStep(iter, fetched)' <=> InStep(r.iter, r.fetched)
        /\ Passed(iter, fetched)' = Passed(r.iter, r.fetched)
    BY <1>1, <1>2, Taken
  <1>4. /\ delivered' \in Seq(Rows)
        /\ Len(delivered') <= file.rows
        /\ \A k \in 1 .. Len(delivered') : delivered'[k] = Row(k - 1)
        /\ InStep(r.iter, r.fetched)
        /\ Len(delivered') = Passed(r.iter, r.fetched)
    BY <1>1, <1>2, Delivery
  <1>5. DeliveredOK'
    <2>1. Len(delivered') \in Nat
      BY <1>4, LenProperties
    <2>. QED BY <1>1, <1>3, <1>4, <2>1 DEF DeliveredOK
  <1>6. PhaseOK'
    BY <1>1, <1>3, <1>4 DEF PhaseOK
  <1>7. StaysAtBadRow'
    BY <1>1 DEF StaysAtBadRow
  <1>8. HashOK'
    <2>. SUFFICES ASSUME call.result_type = "hash" PROVE HashOK'
      BY <1>1 DEF HashOK
    <2>1. HashOfCall(RubyValue(r.item))
      BY <1>1, <1>2, YieldedHash DEF IInv, PlaceOK
    <2>2. last'.value = RubyValue(r.item) /\ Wanted' = Wanted
      BY <1>1 DEF Wanted
    <2>. QED BY <1>1, <2>1, <2>2 DEF HashOK, HashOfCall
  <1>. QED BY <1>1, <1>3, <1>5, <1>6, <1>7, <1>8 DEF IInv

LEMMA FinishPreserves ==
  ASSUME IInv, NEW r \in NextItems, Finish(r)
  PROVE  IInv'
  <1>1. /\ file' = file /\ call' = call /\ iter' = iter /\ fetched' = fetched
        /\ delivered' = delivered /\ clean' = clean
        /\ last' = None /\ phase' = "complete"
    BY DEF Finish
  <1>2. PhaseOK' /\ HashOK' /\ StaysAtBadRow'
    BY <1>1 DEF PhaseOK, HashOK, StaysAtBadRow, None
  <1>. QED
    BY <1>1, <1>2 DEF IInv, PlaceOK, DeliveredOK, Iterators, Schema, Fields, IsEmpty,
                Row, Rows, Value

LEMMA RefusePreserves ==
  ASSUME IInv, NEW r \in NextItems, Refuse(r)
  PROVE  IInv'
  <1>1. /\ file' = file /\ call' = call /\ delivered' = delivered /\ clean' = clean
        /\ last' = r.item /\ iter' = r.iter /\ fetched' = r.fetched /\ phase' = "failed"
    BY DEF Refuse
  <1>2. ResultOK(r)
    BY NextItemsOK DEF IInv
  <1>3. PlaceOK(iter, fetched)' /\ Rows' = Rows /\ \A p : Row(p)' = Row(p)
    BY <1>1, <1>2, Taken
  <1>4. DeliveredOK'
    BY <1>1, <1>3 DEF IInv, DeliveredOK
  <1>5. HashOK' /\ StaysAtBadRow'
    BY <1>1, <1>2, RememberedItem
  <1>6. PhaseOK'
    BY <1>1 DEF PhaseOK
  <1>. QED BY <1>1, <1>3, <1>4, <1>5, <1>6 DEF IInv

LEMMA StepPreserves == IInv /\ [Next]_vars => IInv'
  <1>. SUFFICES ASSUME IInv, Next PROVE IInv'
    BY UnchangedPreserves
  <1>1. CASE Open
    BY <1>1, OpenPreserves
  <1>2. CASE CoreNext
    BY <1>2, CorePreserves
  <1>3. CASE EachNext
    BY <1>3, YieldPreserves, FinishPreserves, RefusePreserves DEF EachNext
  <1>. QED BY <1>1, <1>2, <1>3 DEF Next

LEMMA Invariance == Spec => []IInv
  BY InitEstablishes, StepPreserves, PTL DEF Spec

-----------------------------------------------------------------------------
(* The theorems.                                                           *)

\* Names and values are paired by position between lists built at different
\* places: each name of a hash has a value of a column of that name, and each
\* row the values of the wanted columns in the order of the file (each_row,
\* each_column), for any file, any request and any batch size.
THEOREM NamesAreTheColumns == Spec => []ValuesUnderOwnNames
  <1>1. IInv => ValuesUnderOwnNames
    <2>. SUFFICES ASSUME IInv PROVE ValuesUnderOwnNames
      OBVIOUS
    <2>1. file \in Files /\ iter \in Iterators /\ HashOK /\ delivered \in Seq(Rows)
      BY DEF IInv, PlaceOK, DeliveredOK
    <2>2. ASSUME NEW k \in DOMAIN delivered
          PROVE  LET columns == [i \in DOMAIN delivered[k].values |-> delivered[k].values[i].column]
                 IN Range(columns) = Wanted /\ InFileOrder(columns)
      <3>. DEFINE columns == [i \in DOMAIN delivered[k].values |-> delivered[k].values[i].column]
      <3>1. PICK p \in 0 .. (file.rows - 1) : delivered[k] = Row(p)
        BY <2>1 DEF Rows
      <3>2. DOMAIN delivered[k].values = DOMAIN iter.schema
            /\ \A i \in DOMAIN iter.schema : delivered[k].values[i].column = iter.schema[i]
        BY <3>1 DEF Row, Value
      <3>3. columns = [i \in DOMAIN iter.schema |-> iter.schema[i]]
        BY <3>2
      <3>4. Range(columns) = {iter.schema[i] : i \in DOMAIN iter.schema}
        BY <3>3 DEF Range
      <3>5. InFileOrder(columns)
        BY <2>1, <3>3, SchemaFacts DEF InFileOrder
      <3>. QED BY <2>1, <3>4, <3>5, SchemaFacts
    <2>. QED BY <2>1, <2>2 DEF ValuesUnderOwnNames, HashOK
  <1>. QED BY <1>1, Invariance, PTL

\* A value is decoded with the field of its own column, or with that of the
\* first of several columns of its name (align_parquet_fields).
THEOREM FieldsAreTheColumns == Spec => []DecodedByOwnField
  <1>1. IInv => DecodedByOwnField
    <2>. SUFFICES ASSUME IInv, NEW k \in DOMAIN delivered,
                         NEW i \in DOMAIN delivered[k].values
                  PROVE  LET v == delivered[k].values[i]
                         IN /\ v.as <= v.column
                            /\ file.columns[v.as] = file.columns[v.column]
                            /\ v.as # v.column =>
                                 Cardinality(Range(file.columns)) < Len(file.columns)
      BY DEF DecodedByOwnField
    <2>. DEFINE v == delivered[k].values[i]
                n == Len(file.columns)
                C == Range(file.columns)
    <2>1. file \in Files /\ iter \in Iterators /\ delivered \in Seq(Rows)
      BY DEF IInv, PlaceOK, DeliveredOK
    <2>2. PICK p \in 0 .. (file.rows - 1) : delivered[k] = Row(p)
      BY <2>1 DEF Rows
    <2>3. i \in DOMAIN iter.schema /\ v.column = iter.schema[i]
          /\ v.as = iter.aligned_parquet_fields[i]
      BY <2>2 DEF Row, Value
    <2>4. /\ v.as \in 1 .. n /\ v.column \in 1 .. n
          /\ v.as <= v.column
          /\ file.columns[v.as] = file.columns[v.column]
      BY <2>1, <2>3, SchemaFacts, AlignedFacts
    <2>5. file.columns \in Seq(C) /\ n \in Nat
      BY <2>1, ReaderAssumption, LenProperties
    <2>. HIDE DEF v
    <2>6. ASSUME v.as # v.column
          PROVE  Cardinality(C) < n
      <3>1. file.columns \in Surjection(1 .. n, C)
        BY <2>5 DEF Surjection, Range
      <3>2. IsFiniteSet(1 .. n) /\ Cardinality(1 .. n) = n
        <4>1. \A m \in Nat : IsFiniteSet(1 .. m) /\ Cardinality(1 .. m) = m
          BY FS_Interval
        <4>. QED BY <2>5, <4>1
      <3>3. /\ IsFiniteSet(C) /\ Cardinality(C) <= n
            /\ Cardinality(C) = n => file.columns \in Injection(1 .. n, C)
        BY <3>1, <3>2, FS_Surjection
      <3>4. file.columns \notin Injection(1 .. n, C)
        BY <2>4, <2>6 DEF Injection, IsInjective
      <3>5. Cardinality(C) \in Nat
        BY <3>3, FS_CardinalityType
      <3>. QED BY <2>5, <3>3, <3>4, <3>5
    <2>. QED BY <2>4, <2>6 DEF v
  <1>. QED BY <1>1, Invariance, PTL

\* The row iterator stays at a row that cannot be decoded, whoever asks again
\* (RowIterator::next returns before current_row is advanced).
THEOREM BadRowsStop == Spec => BadRowsAreNotSkipped
  <1>1. ASSUME IInv, [Next]_vars, call.api = "rows", last # NoItem,
               last.kind = "conversion_error"
        PROVE  last' = last /\ delivered' = delivered
    <2>1. CASE UNCHANGED vars
      BY <2>1 DEF vars
    <2>2. CASE Open
      BY <1>1, <2>2 DEF Open, IInv, PhaseOK
    <2>3. CASE EachNext
      BY <1>1, <2>3 DEF EachNext, IInv, PhaseOK
    <2>4. CASE CoreNext
      <3>. DEFINE p == iter.batch_start + iter.current_row
      <3>1. /\ iter.current_row < iter.batch_rows
            /\ last = ConversionError(p)
            /\ ~Decodable(iter, {p})
        BY <1>1 DEF IInv, StaysAtBadRow
      <3>2. NextItems = {Result(ConversionError(p), iter, fetched)}
        BY <1>1, <3>1 DEF NextItems, NextRow, RowOfBatch
      <3>3. last' = ConversionError(p) /\ delivered' = delivered \o RowsOf(ConversionError(p))
        <4>1. PICK r \in NextItems : last' = r.item /\ delivered' = delivered \o RowsOf(r.item)
          BY <2>4 DEF CoreNext
        <4>2. r.item = ConversionError(p)
          BY <3>2 DEF Result
        <4>. QED BY <4>1, <4>2
      <3>4. delivered \in Seq(Rows)
        BY <1>1 DEF IInv, DeliveredOK
      <3>5. delivered \o <<>> = delivered
        BY <3>4, ConcatEmptySeq
      <3>. QED BY <3>1, <3>3, <3>5, ItemRows
    <2>. QED BY <1>1, <2>1, <2>2, <2>3, <2>4 DEF Next
  <1>2. IInv /\ [Next]_vars =>
          [call.api = "rows" /\ last # NoItem /\ last.kind = "conversion_error" =>
             last' = last /\ delivered' = delivered]_vars
    BY <1>1
  <1>. QED BY <1>2, Invariance, PTL DEF Spec, BadRowsAreNotSkipped

-----------------------------------------------------------------------------
(* Refinement.                                                             *)

LEMMA ContentRows ==
  ASSUME file \in Files
  PROVE  /\ Content \in Seq(Rows) /\ Len(Content) = file.rows
         /\ \A k \in 1 .. file.rows : Content[k] = Row(k - 1)
  <1>1. file.rows \in Nat
    BY ReaderAssumption
  <1>2. Content = [k \in 1 .. file.rows |-> Row(k - 1)]
    BY DEF Content, Row
  <1>3. \A k \in 1 .. file.rows : Row(k - 1) \in Rows
    <2>1. \A k \in 1 .. file.rows : k - 1 \in 0 .. (file.rows - 1)
      BY <1>1
    <2>. QED BY <2>1 DEF Rows
  <1>. QED BY <1>1, <1>2, <1>3

\* What has arrived before the first error is a beginning of the content.
LEMMA CleanIsPrefix ==
  ASSUME IInv
  PROVE  SubSeq(delivered, 1, clean) = SubSeq(Content, 1, clean)
  <1>1. /\ delivered \in Seq(Rows) /\ clean \in 0 .. Len(delivered) /\ Len(delivered) \in Nat
        /\ clean <= file.rows /\ file.rows \in Nat
        /\ \A k \in 1 .. clean : delivered[k] = Row(k - 1)
    BY ReaderAssumption, LenProperties DEF IInv, DeliveredOK
  <1>2. /\ Content \in Seq(Rows) /\ Len(Content) = file.rows
        /\ \A k \in 1 .. file.rows : Content[k] = Row(k - 1)
    BY ContentRows DEF IInv
  <1>3. \A k \in 1 .. clean : delivered[k] = Content[k]
    BY <1>1, <1>2
  <1>4. SubSeq(delivered, 1, clean) = [k \in 1 .. clean |-> delivered[k]]
    BY <1>1
  <1>5. SubSeq(Content, 1, clean) = [k \in 1 .. clean |-> Content[k]]
    BY <1>1, <1>2
  <1>. QED BY <1>3, <1>4, <1>5

LEMMA AbstractInit == Init => Stream!Init
  <1>. SUFFICES ASSUME Init PROVE Stream!Init
    OBVIOUS
  <1>1. file \in Files /\ phase = "idle" /\ delivered = <<>> /\ clean = 0
    BY DEF Init
  <1>2. Content \in Seq(Rows)
    BY <1>1, ContentRows
  <1>3. DOMAIN Content = 1 .. Len(Content)
    BY <1>2, LenProperties
  <1>4. SubSeq(delivered, 1, clean) = <<>>
    BY <1>1
  <1>. QED BY <1>1, <1>3, <1>4 DEF Stream!Init

\* While nothing has failed all that was delivered is the stream, and a
\* result adds to it.
LEMMA AbstractDeliver ==
  ASSUME IInv, IInv', phase = "open", NEW r, ResultOK(r), ~IsError(r.item),
         delivered' = delivered \o RowsOf(r.item), clean' = Len(delivered'),
         Content' = Content, file' = file, phase' \in {"open", "failed"}
  PROVE  Stream!Deliver
  <1>1. /\ delivered \in Seq(Rows) /\ Len(delivered) \in Nat /\ clean = Len(delivered)
        /\ file.rows \in Nat
    BY ReaderAssumption, LenProperties DEF IInv, DeliveredOK, PhaseOK
  <1>2. /\ delivered' \in Seq(Rows)
        /\ Len(delivered) <= Len(delivered') /\ Len(delivered') <= file.rows
    BY Delivery
  <1>3. Len(delivered') \in Nat
    BY <1>2, LenProperties
  <1>4. Len(Content) = file.rows
    BY ContentRows DEF IInv
  <1>5. Len(SubSeq(delivered, 1, clean)) = Len(delivered)
    BY <1>1
  <1>6. SubSeq(delivered, 1, clean)' = SubSeq(Content, 1, Len(delivered'))
    <2>1. (SubSeq(delivered, 1, clean) = SubSeq(Content, 1, clean))'
      BY CleanIsPrefix, PTL
    <2>. QED BY <2>1
  <1>. DEFINE n == Len(delivered') - Len(delivered)
  <1>7. n \in 0 .. (Len(Content) - Len(SubSeq(delivered, 1, clean)))
    BY <1>1, <1>2, <1>3, <1>4, <1>5
  <1>8. SubSeq(delivered, 1, clean)'
          = SubSeq(Content, 1, Len(SubSeq(delivered, 1, clean)) + n)
    <2>1. Len(SubSeq(delivered, 1, clean)) + n = Len(delivered')
      <3>1. \A a, b \in Nat : a + (b - a) = b
        OBVIOUS
      <3>. QED BY <1>1, <1>3, <1>5, <3>1
    <2>. QED BY <1>6, <2>1
  <1>. HIDE DEF n
  <1>. QED BY <1>7, <1>8 DEF Stream!Deliver

\* Nothing more has arrived.
LEMMA SameStream ==
  ASSUME IInv, IInv', Content' = Content, clean' = clean
  PROVE  SubSeq(delivered, 1, clean)' = SubSeq(delivered, 1, clean)
  <1>1. (SubSeq(delivered, 1, clean) = SubSeq(Content, 1, clean))'
    BY CleanIsPrefix, PTL
  <1>. QED BY <1>1, CleanIsPrefix

LEMMA AbstractStep == IInv /\ IInv' /\ [Next]_vars => [Stream!Next]_(Stream!vars)
  <1>. SUFFICES ASSUME IInv, IInv', [Next]_vars PROVE [Stream!Next]_(Stream!vars)
    OBVIOUS
  \* Every row of the file has arrived when the iterator ends.
  <1>1. ASSUME phase = "open", NEW r, Ends(r)
        PROVE  SubSeq(delivered, 1, clean) = Content
    <2>1. clean = file.rows
      BY <1>1 DEF IInv, PhaseOK, Ends
    <2>2. Content \in Seq(Rows) /\ Len(Content) = file.rows
      BY ContentRows DEF IInv
    <2>3. SubSeq(Content, 1, file.rows) = Content
      BY <2>2, SubSeqFull
    <2>. QED BY <2>1, <2>3, CleanIsPrefix
  <1>2. CASE UNCHANGED vars
    <2>1. Content' = Content /\ SubSeq(delivered, 1, clean)' = SubSeq(delivered, 1, clean)
          /\ phase' = phase
      BY <1>2 DEF vars, Content, Value
    <2>. QED BY <2>1 DEF Stream!vars
  <1>3. CASE Open
    <2>1. Content' = Content /\ SubSeq(delivered, 1, clean)' = SubSeq(delivered, 1, clean)
          /\ phase = "idle" /\ phase' \in {"open", "failed"}
      BY <1>3 DEF Open, Content, Value
    <2>. QED BY <2>1 DEF Stream!Next, Stream!Open, Stream!Fail
  <1>4. CASE CoreNext
    <2>1. PICK r \in NextItems :
            /\ iter' = r.iter
            /\ fetched' = r.fetched
            /\ delivered' = delivered \o RowsOf(r.item)
            /\ clean' = IF phase = "open" THEN Len(delivered') ELSE clean
            /\ phase' = IF IsError(r.item) THEN "failed"
                        ELSE IF r.item = None /\ phase = "open" THEN "complete" ELSE phase
      BY <1>4 DEF CoreNext
    <2>2. file' = file /\ call' = call /\ phase \in {"open", "failed"}
      BY <1>4 DEF CoreNext
    <2>3. ResultOK(r)
      BY NextItemsOK DEF IInv
    <2>4. Content' = Content
      BY <2>1, <2>2, <2>3, Taken
    <2>5. ~(r.item.kind \in {"row", "columns"}) => delivered' = delivered
      BY <2>1, <2>3, Delivery
    <2>6. CASE phase = "failed"
      <3>1. clean' = clean /\ phase' = "failed"
        BY <2>1, <2>6
      <3>2. SubSeq(delivered, 1, clean)' = SubSeq(delivered, 1, clean)
        BY <2>4, <3>1, SameStream
      <3>. QED BY <2>4, <2>6, <3>1, <3>2 DEF Stream!vars
    <2>7. CASE phase = "open" /\ (IsError(r.item) \/ Ends(r))
      <3>1. ~(r.item.kind \in {"row", "columns"})
        BY <2>7, Kinds DEF IsError
      <3>2. delivered' = delivered /\ clean' = clean
        BY <2>1, <2>5, <2>7, <3>1 DEF IInv, PhaseOK
      <3>3. SubSeq(delivered, 1, clean)' = SubSeq(delivered, 1, clean)
        BY <3>2
      <3>4. CASE IsError(r.item)
        BY <2>1, <2>4, <2>7, <3>3, <3>4 DEF Stream!Next, Stream!Fail
      <3>5. CASE Ends(r) /\ ~IsError(r.item)
        <4>1. phase' = "complete"
          BY <2>1, <2>7, <3>5 DEF Ends
        <4>2. SubSeq(delivered, 1, clean) = Content
          BY <1>1, <2>7, <3>5
        <4>. QED BY <2>4, <2>7, <3>3, <4>1, <4>2 DEF Stream!Next, Stream!Complete
      <3>. QED BY <2>7, <3>4, <3>5
    <2>8. CASE phase = "open" /\ ~IsError(r.item) /\ ~Ends(r)
      <3>1. r.item.kind \in {"row", "columns"}
        BY <2>3, <2>8, Kinds DEF ResultOK, IsError
      <3>2. r.item # None
        BY <3>1 DEF None
      <3>3. phase' = "open" /\ clean' = Len(delivered')
        BY <2>1, <2>8, <3>2
      <3>4. Stream!Deliver
        BY <2>1, <2>2, <2>3, <2>4, <2>8, <3>3, AbstractDeliver
      <3>. QED BY <3>4 DEF Stream!Next
    <2>. QED BY <2>2, <2>6, <2>7, <2>8
  <1>5. CASE EachNext
    <2>1. phase = "open"
      BY <1>5 DEF EachNext
    <2>2. PICK r \in NextItems : Yield(r) \/ Finish(r) \/ Refuse(r)
      BY <1>5 DEF EachNext
    <2>3. ResultOK(r)
      BY NextItemsOK DEF IInv
    <2>4. CASE Yield(r)
      <3>1. /\ iter' = r.iter /\ fetched' = r.fetched
            /\ delivered' = delivered \o RowsOf(r.item)
            /\ clean' = Len(delivered')
            /\ phase' \in {"open", "failed"}
            /\ file' = file /\ call' = call
            /\ ~IsError(r.item)
        BY <2>4 DEF Yield, IsError
      <3>2. Content' = Content
        BY <2>3, <3>1, Taken
      <3>3. Stream!Deliver
        BY <2>1, <2>3, <3>1, <3>2, AbstractDeliver
      <3>. QED BY <3>3 DEF Stream!Next
    <2>5. CASE Finish(r)
      <3>1. r.item.kind = "none"
        BY <2>5 DEF Finish, None
      <3>2. Ends(r)
        BY <2>3, <3>1, Kinds DEF ResultOK
      <3>3. Content' = Content /\ SubSeq(delivered, 1, clean)' = SubSeq(delivered, 1, clean)
            /\ phase' = "complete"
        BY <2>5 DEF Finish, Content, Value
      <3>4. SubSeq(delivered, 1, clean) = Content
        BY <1>1, <2>1, <3>2
      <3>. QED BY <2>1, <3>3, <3>4 DEF Stream!Next, Stream!Complete
    <2>6. CASE Refuse(r)
      <3>1. /\ phase' = "failed" /\ delivered' = delivered /\ clean' = clean
            /\ iter' = r.iter /\ fetched' = r.fetched /\ file' = file /\ call' = call
        BY <2>6 DEF Refuse
      <3>2. Content' = Content
        BY <2>3, <3>1, Taken
      <3>. QED BY <2>1, <3>1, <3>2 DEF Stream!Next, Stream!Fail
    <2>. QED BY <2>2, <2>4, <2>5, <2>6
  <1>. QED BY <1>2, <1>3, <1>4, <1>5 DEF Next

\* Whoever reads, by rows or by columns, whole or projected, in batches of
\* any size, gets the rows of any file in order, each once, up to the first
\* error, and is told of the end only when none is missing (RowStream).
THEOREM ReadersImplementRowStream == Spec => ImplementsRowStream
  BY AbstractInit, AbstractStep, Invariance, PTL
    DEF Spec, ImplementsRowStream, Stream!Spec
=============================================================================
