-------------------------- MODULE WritePipelineProofs --------------------------
(***************************************************************************)
(* What a path or an IO is left with by write_rows and write_columns,      *)
(* proved for any calls and data, whatever the IO answers and wherever a   *)
(* call fails or the process ends.                                         *)
(***************************************************************************)
EXTENDS WritePipeline, DataFacts

----------------------------------------------------------------------------
(* The inductive invariant. *)

Stages == {"idle", "create", "write_rows", "write_columns", "close", "copy",
           "drop", "crashed"}

Writers == [phase : {"none", "open", "finished"}, healthy : BOOLEAN,
            acked : Seq(Seq(Values))]

\* What a file is made of; a finished one is rows and the footer.
Items == {Footer} \cup Seq(Values)

Copies == [read : Nat, pending : Seq(Items), buffered : BOOLEAN]

TypeOK ==
  /\ stage \in Stages
  /\ result \in {"none", "ok", "error"}
  /\ writer \in Writers
  /\ copy \in Copies
  /\ io \in Seq(Items)
  /\ target \in Seq(Items)
  /\ swallowed \in BOOLEAN

\* What is finished at the path can be read back as rows.
TargetOK == Readable(target) => Front(target) \in Seq(Seq(Values))

\* A call under way, and what it has done before the copy begins.
CallOK ==
  /\ stage \notin {"idle", "crashed"} =>
       call \in Calls /\ call.schema # "schema" /\ result = "none"
  /\ stage \in {"create", "write_rows", "write_columns", "close"} =>
       io = <<>> /\ copy.read = 0 /\ copy.pending = <<>> /\ ~swallowed

DataGiven ==
  /\ call.method = "write_rows" => given \in RowData
  /\ call.method = "write_columns" /\ call.schema = "ok" => given \in ColumnData

Taken(row) == Converts(row) /\ ValidRow(row)

\* write_rows has acknowledged what it no longer has to convert.
RowsOK ==
  /\ call.method = "write_rows"
  /\ given \in RowData /\ data \in RowData
  /\ given = writer.acked \o data
  /\ \A i \in DOMAIN writer.acked : Taken(writer.acked[i])

\* The columns of the first k batches given.
ColumnsOf(k) ==
  IF k = 0 THEN <<>>
  ELSE [f \in Fields |-> FlattenSeq([b \in 1 .. k |-> given[b][f]])]

ColumnsOK ==
  /\ call.method = "write_columns"
  /\ given \in ColumnData
  /\ writer.acked = <<>>
  /\ \E k \in 0 .. Len(given) :
       /\ data = SubSeq(given, k + 1, Len(given))
       /\ columns = ColumnsOf(k)
       /\ \A b \in 1 .. k : ConvertibleBatch(given[b])

AllTaken ==
  /\ GivenRows \in Seq(Seq(Values))
  /\ AllAccepted

DataOK ==
  /\ stage = "create" => data = given /\ columns = <<>> /\ DataGiven
  /\ stage = "write_rows" => RowsOK
  /\ stage = "write_columns" => ColumnsOK
  /\ stage = "close" => writer.acked = GivenRows
  /\ stage \in {"close", "copy", "drop"} => AllTaken

\* What the IO was given and what is under way to it: m items, at the end of the
\* former, may have come twice.
Delivered ==
  /\ temp = WholeFile
  /\ copy.read \in 0 .. Len(temp)
  /\ Len(copy.pending) <= BufferSize
  /\ ~swallowed => io \o copy.pending = SubSeq(temp, 1, copy.read)
  /\ \E m \in 0 .. Len(io) :
       /\ m + Len(copy.pending) <= BufferSize
       /\ IsPrefix(SubSeq(io, 1, Len(io) - m), temp)

CopyOK ==
  /\ stage \in {"copy", "drop"} => call.write_to = "io" /\ Delivered
  /\ stage = "copy" => ~swallowed

IInv ==
  /\ TypeOK
  /\ TargetOK
  /\ CallOK
  /\ DataOK
  /\ CopyOK
  /\ PathHoldsOldOrWholeFile
  /\ IOHoldsBeginningOfWholeFile

----------------------------------------------------------------------------
(* Files. *)

LEMMA FooterIsNoRow == Footer \notin Seq(Values) /\ NotArray \notin Seq(Values)
  BY PipelineAssumption

\* Rows without a footer are no Parquet file.
LEMMA RowsAreNotReadable ==
  ASSUME NEW s \in Seq(Seq(Values))
  PROVE  s \in Seq(Items) /\ ~Readable(s)
  <1>1. s \in Seq(Items)
    BY DEF Items
  <1>2. ASSUME Readable(s) PROVE FALSE
    <2>1. Len(s) \in 1 .. Len(s) /\ s[Len(s)] = Footer
      BY <1>2, LenProperties, EmptySeq DEF Readable, Last
    <2>2. s[Len(s)] \in Seq(Values)
      BY <2>1, ElementOfSeq
    <2>. QED BY <2>1, <2>2, FooterIsNoRow
  <1>. QED BY <1>1, <1>2

\* With it they are, and no rows are lost.
LEMMA FinishedIsReadable ==
  ASSUME NEW s \in Seq(Seq(Values))
  PROVE  /\ s \o <<Footer>> \in Seq(Items)
         /\ Readable(s \o <<Footer>>)
         /\ Front(s \o <<Footer>>) = s
  <1>. DEFINE t == s \o <<Footer>>
  <1>1. s \in Seq(Items) /\ <<Footer>> \in Seq(Items)
    BY DEF Items
  <1>2. /\ t \in Seq(Items) /\ Len(t) = Len(s) + 1 /\ Len(s) \in Nat
        /\ t[Len(s) + 1] = Footer
        /\ \A i \in 1 .. Len(s) : t[i] = s[i]
    BY <1>1, LenProperties
  <1>3. t # <<>>
    BY <1>2
  <1>4. Last(t) = Footer
    BY <1>2 DEF Last
  <1>5. Front(t) = s
    <2>1. Front(t) = SubSeq(t, 1, Len(s))
      BY <1>2 DEF Front
    <2>2. /\ SubSeq(t, 1, Len(s)) \in Seq(Items) /\ Len(SubSeq(t, 1, Len(s))) = Len(s)
          /\ \A i \in 1 .. Len(s) : SubSeq(t, 1, Len(s))[i] = t[i]
      BY <1>2
    <2>3. \A i \in 1 .. Len(s) : SubSeq(t, 1, Len(s))[i] = s[i]
      BY <1>2, <2>2
    <2>. HIDE DEF t
    <2>4. SubSeq(t, 1, Len(s)) = s
      BY <1>1, <2>2, <2>3, SeqEqual
    <2>. QED BY <2>1, <2>4
  <1>. QED BY <1>2, <1>3, <1>4, <1>5 DEF Readable

\* What reaches the path before the footer does not make it a Parquet file.
LEMMA SinkSomeFacts ==
  ASSUME TypeOK, TargetOK, NEW rows \in Seq(Seq(Values)), SinkSome(rows)
  PROVE  /\ target' \in Seq(Items)
         /\ TargetOK'
         /\ target' = target \/ ~Readable(target')
  <1>1. PICK n \in Len(Sunk) .. Len(rows) : Sink(SubSeq(rows, 1, n))
    BY DEF SinkSome
  <1>2. CASE call.write_to = "path"
    <2>1. target' = SubSeq(rows, 1, n) /\ n \in Len(target) .. Len(rows)
      BY <1>1, <1>2 DEF Sink, Sunk
    <2>2. n \in 0 .. Len(rows)
      BY <2>1, LenProperties DEF TypeOK
    <2>3. target' \in Seq(Seq(Values))
      BY <2>1, <2>2, SplitAt
    <2>4. target' \in Seq(Items) /\ ~Readable(target')
      BY <2>3, RowsAreNotReadable
    <2>. QED BY <2>4 DEF TargetOK
  <1>3. CASE call.write_to # "path"
    <2>1. target' = target
      BY <1>1, <1>3 DEF Sink
    <2>. QED BY <2>1 DEF TypeOK, TargetOK
  <1>. QED BY <1>2, <1>3

----------------------------------------------------------------------------
(* Steps. *)

\* The call, its data and the file before it stay what they are.
SameCall == call' = call /\ given' = given /\ before' = before

LEMMA SameCallFacts ==
  ASSUME SameCall
  PROVE  GivenRows' = GivenRows /\ WholeFile' = WholeFile /\ AllAccepted' = AllAccepted
  <1>1. GivenRows' = GivenRows
    <2>1. \A f : (GivenColumn(f))' = GivenColumn(f)
      BY DEF SameCall, GivenColumn
    <2>. QED BY <2>1 DEF SameCall, GivenRows
  <1>2. WholeFile' = WholeFile
    BY <1>1 DEF WholeFile
  <1>3. AllAccepted' = AllAccepted
    BY <1>1 DEF AllAccepted
  <1>. QED BY <1>1, <1>2, <1>3

\* A path that is left alone, or with what is no Parquet file, by a call that
\* has not succeeded.
LEMMA PathStaysOK ==
  ASSUME PathHoldsOldOrWholeFile, SameCall, result' # "ok",
         target' = target \/ ~Readable(target')
  PROVE  PathHoldsOldOrWholeFile'
  <1>1. WholeFile' = WholeFile
    BY SameCallFacts
  <1>. QED BY <1>1 DEF PathHoldsOldOrWholeFile, SameCall

LEMMA RaiseFacts ==
  ASSUME Raise, SameCall, PathHoldsOldOrWholeFile,
         copy' \in Copies, io' \in Seq(Items), swallowed' \in BOOLEAN,
         target' \in Seq(Items), TargetOK',
         target' = target \/ ~Readable(target'),
         IOHoldsBeginningOfWholeFile'
  PROVE  IInv'
  <1>1. stage' = "idle" /\ result' = "error" /\ writer' = NoWriter
    BY DEF Raise
  <1>2. NoWriter \in Writers
    BY DEF NoWriter, Writers
  <1>3. TypeOK'
    BY <1>1, <1>2 DEF TypeOK, Stages
  <1>4. PathHoldsOldOrWholeFile'
    BY <1>1, PathStaysOK
  <1>5. CallOK' /\ DataOK' /\ CopyOK'
    BY <1>1 DEF CallOK, DataOK, CopyOK
  <1>. QED BY <1>3, <1>4, <1>5 DEF IInv

\* A call that raises before the copy leaves the IO without anything.
LEMMA EarlyRaise ==
  ASSUME IInv, stage \in {"create", "write_rows", "write_columns", "close"},
         RaiseKeepingTarget, SameCall, UNCHANGED <<io, copy, swallowed>>
  PROVE  IInv'
  <1>1. Raise /\ target' = target
    BY DEF RaiseKeepingTarget
  <1>2. /\ copy' \in Copies /\ io' \in Seq(Items) /\ swallowed' \in BOOLEAN
        /\ target' \in Seq(Items) /\ TargetOK'
    BY <1>1 DEF IInv, TypeOK, TargetOK
  <1>3. io' = <<>>
    BY DEF IInv, CallOK
  <1>4. IOHoldsBeginningOfWholeFile'
    BY <1>3 DEF IOHoldsBeginningOfWholeFile
  <1>5. PathHoldsOldOrWholeFile
    BY DEF IInv
  <1>. QED BY <1>1, <1>2, <1>4, <1>5, RaiseFacts

LEMMA InitOK == Init => IInv
  <1>. SUFFICES ASSUME Init PROVE IInv
    OBVIOUS
  <1>1. Old \in Seq(Items) /\ (Readable(Old) => Front(Old) \in Seq(Seq(Values)))
    BY PipelineAssumption DEF Items
  <1>2. NoWriter \in Writers
    BY DEF NoWriter, Writers
  <1>3. copy \in Copies /\ io \in Seq(Items)
    BY DEF Init, Copies
  <1>4. TypeOK /\ TargetOK
    BY <1>1, <1>2, <1>3 DEF Init, TypeOK, TargetOK, Stages
  <1>5. CallOK /\ DataOK /\ CopyOK
    BY DEF Init, CallOK, DataOK, CopyOK
  <1>6. PathHoldsOldOrWholeFile /\ IOHoldsBeginningOfWholeFile
    BY DEF Init, PathHoldsOldOrWholeFile, IOHoldsBeginningOfWholeFile
  <1>. QED BY <1>4, <1>5, <1>6 DEF IInv

LEMMA CallFacts ==
  ASSUME NEW c \in Calls
  PROVE  /\ c.method \in {"write_rows", "write_columns"}
         /\ c.write_to \in {"path", "io"}
         /\ c.schema \in {"ok", "schema", "compression", "sizes"}
  <1>. DEFINE r == [method |-> c.method, write_to |-> c.write_to,
                    schema |-> c.schema, logger |-> c.logger]
  <1>1. r \in CallType
    BY PipelineAssumption
  <1>. QED BY <1>1 DEF CallType

\* What to_a gives is data of its method.
LEMMA GatheredFacts ==
  ASSUME TargetOK, NEW c \in Calls, Gathered(c.read_from, target) # NotArray
  PROVE  /\ c.method = "write_rows" => Gathered(c.read_from, target) \in RowData
         /\ c.method = "write_columns" /\ c.schema = "ok"
              => Gathered(c.read_from, target) \in ColumnData
  <1>1. IF c.read_from = Enumerator
        THEN c.method = "write_columns" => c.schema # "ok"
        ELSE c.read_from \in {NotArray} \cup
               (IF c.method = "write_rows" THEN RowData ELSE ColumnData)
    BY PipelineAssumption
  <1>2. CASE c.read_from = Enumerator
    <2>1. Gathered(c.read_from, target) \in Seq(Seq(Values))
      BY <1>2 DEF Gathered, TargetOK
    <2>2. \A rows \in Seq(Seq(Values)) : rows \in RowData
      BY DEF RowData
    <2>. QED BY <1>1, <1>2, <2>1, <2>2
  <1>3. CASE c.read_from # Enumerator
    BY <1>1, <1>3 DEF Gathered
  <1>. QED BY <1>2, <1>3

LEMMA BeginOK == ASSUME IInv, Begin PROVE IInv'
  <1>1. PICK c \in Calls :
          LET items == Gathered(c.read_from, target)
          IN  /\ call' = c
              /\ IF /\ ArgumentsAccepted(c)
                    /\ c.method = "write_columns" => c.logger
                    /\ items # NotArray
                    /\ c.schema # "schema"
                 THEN stage' = "create" /\ given' = items /\ result' = "none"
                 ELSE stage' = "idle" /\ given' = <<>> /\ result' = "error"
    BY DEF Begin
  <1>2. /\ before' = target /\ target' = target /\ data' = given' /\ columns' = <<>>
        /\ writer' = NoWriter /\ io' = <<>> /\ swallowed' = FALSE
        /\ copy' = [read |-> 0, pending |-> <<>>, buffered |-> FALSE]
    BY DEF Begin
  <1>3. stage' \in {"create", "idle"} /\ result' \in {"none", "error"}
    BY <1>1
  <1>4. TypeOK'
    <2>1. NoWriter \in Writers
      BY DEF NoWriter, Writers
    <2>2. copy' \in Copies /\ io' \in Seq(Items)
      BY <1>2 DEF Copies
    <2>. QED BY <1>2, <1>3, <2>1, <2>2 DEF IInv, TypeOK, Stages
  <1>5. TargetOK'
    BY <1>2 DEF IInv, TargetOK
  <1>6. CallOK'
    BY <1>1, <1>2, <1>3 DEF CallOK
  <1>7. DataOK'
    <2>1. stage' = "create" => given' = Gathered(c.read_from, target)
                               /\ given' # NotArray /\ call' = c
      BY <1>1
    <2>2. stage' = "create" => DataGiven'
      BY <2>1, GatheredFacts DEF DataGiven, IInv
    <2>. QED BY <1>2, <1>3, <2>2 DEF DataOK
  <1>8. CopyOK'
    BY <1>3 DEF CopyOK
  <1>9. PathHoldsOldOrWholeFile' /\ IOHoldsBeginningOfWholeFile'
    BY <1>2, <1>3 DEF PathHoldsOldOrWholeFile, IOHoldsBeginningOfWholeFile
  <1>. QED BY <1>4, <1>5, <1>6, <1>7, <1>8, <1>9 DEF IInv

\* A step of a call that has not reached the copy and goes on.
LEMMA EarlyStep ==
  ASSUME IInv, SameCall, UNCHANGED <<io, copy, swallowed, result>>,
         stage \in {"create", "write_rows", "write_columns", "close"},
         stage' \in {"write_rows", "write_columns", "close"},
         writer' \in Writers, target' \in Seq(Items), TargetOK',
         target' = target \/ ~Readable(target'), DataOK'
  PROVE  IInv'
  <1>1. /\ call' \in Calls /\ call'.schema # "schema" /\ result' = "none"
        /\ io' = <<>> /\ copy'.read = 0 /\ copy'.pending = <<>> /\ ~swallowed'
    BY DEF IInv, CallOK, SameCall
  <1>2. TypeOK'
    BY <1>1 DEF IInv, TypeOK, Stages
  <1>3. CallOK' /\ CopyOK'
    BY <1>1 DEF CallOK, CopyOK
  <1>4. PathHoldsOldOrWholeFile'
    BY <1>1, PathStaysOK DEF IInv
  <1>5. IOHoldsBeginningOfWholeFile'
    BY <1>1 DEF IOHoldsBeginningOfWholeFile
  <1>. QED BY <1>2, <1>3, <1>4, <1>5 DEF IInv

LEMMA CreateWriterOK == ASSUME IInv, CreateWriter PROVE IInv'
  <1>1. stage = "create" /\ SameCall /\ UNCHANGED <<data, columns, io, copy, swallowed>>
    BY DEF CreateWriter, SameCall
  <1>2. CASE RaiseKeepingTarget
    BY <1>1, <1>2, EarlyRaise
  <1>. SUFFICES ASSUME ~RaiseKeepingTarget PROVE IInv'
    BY <1>2
  <1>3. <<>> \in Seq(Items) /\ ~Readable(<<>>)
    BY DEF Readable
  <1>4. /\ call \in Calls /\ call.schema # "schema" /\ result = "none" /\ io = <<>>
        /\ copy \in Copies /\ swallowed \in BOOLEAN /\ target \in Seq(Items)
        /\ data = given /\ columns = <<>> /\ DataGiven
    BY <1>1 DEF IInv, TypeOK, CallOK, DataOK
  <1>5. CASE /\ Sink(<<>>)
             /\ call.schema # "sizes" /\ call.logger
             /\ stage' = call.method
             /\ writer' = NewWriter
             /\ UNCHANGED result
    <2>1. target' = <<>> \/ target' = target
      BY <1>5 DEF Sink
    <2>2. /\ target' \in Seq(Items) /\ TargetOK'
          /\ target' = target \/ ~Readable(target')
      BY <1>3, <1>4, <2>1 DEF IInv, TargetOK
    <2>3. call.schema # "compression"
      BY <1>4 DEF CreateWriter, RaiseKeepingTarget
    <2>4. /\ call.schema = "ok" /\ call.method \in {"write_rows", "write_columns"}
          /\ stage' = call.method
      BY <1>4, <1>5, <2>3, CallFacts
    <2>5. writer' \in Writers /\ writer'.acked = <<>>
      BY <1>5 DEF NewWriter, Writers
    <2>6. CASE call.method = "write_rows"
      <3>1. given \in RowData
        BY <1>4, <2>6 DEF DataGiven
      <3>2. given = <<>> \o given
        BY <3>1 DEF RowData
      <3>3. RowsOK'
        BY <1>1, <1>4, <2>5, <2>6, <3>1, <3>2 DEF RowsOK, SameCall
      <3>. QED BY <1>1, <1>5, <2>2, <2>4, <2>5, <2>6, <3>3, EarlyStep DEF DataOK
    <2>7. CASE call.method = "write_columns"
      <3>1. given \in ColumnData
        BY <1>4, <2>4, <2>7 DEF DataGiven
      <3>2. Len(given) \in Nat /\ given = SubSeq(given, 0 + 1, Len(given))
        BY <3>1 DEF ColumnData
      <3>3. ColumnsOf(0)' = <<>>
        BY DEF ColumnsOf
      <3>4. ColumnsOK'
        <4>1. 0 \in 0 .. Len(given')
          BY <1>1, <3>2 DEF SameCall
        <4>2. data' = SubSeq(given', 0 + 1, Len(given')) /\ columns' = ColumnsOf(0)'
          BY <1>1, <1>4, <3>2, <3>3 DEF SameCall
        <4>3. \A b \in 1 .. 0 : ConvertibleBatch(given'[b])
          OBVIOUS
        <4>. QED BY <1>1, <2>5, <2>7, <3>1, <4>1, <4>2, <4>3 DEF ColumnsOK, SameCall
      <3>. QED BY <1>1, <1>5, <2>2, <2>4, <2>5, <2>7, <3>4, EarlyStep DEF DataOK
    <2>. QED BY <2>4, <2>6, <2>7
  <1>6. CASE /\ Raise
             /\ target' = IF call.write_to = "path" THEN <<>> ELSE target
    <2>1. target' = <<>> \/ target' = target
      BY <1>6
    <2>2. /\ target' \in Seq(Items) /\ TargetOK'
          /\ target' = target \/ ~Readable(target')
      BY <1>3, <1>4, <2>1 DEF IInv, TargetOK
    <2>3. IOHoldsBeginningOfWholeFile'
      BY <1>1, <1>4 DEF IOHoldsBeginningOfWholeFile
    <2>4. copy' \in Copies /\ io' \in Seq(Items) /\ swallowed' \in BOOLEAN
      BY <1>1, <1>4
    <2>. QED BY <1>1, <1>6, <2>2, <2>3, <2>4, RaiseFacts DEF IInv
  <1>. QED BY <1>5, <1>6 DEF CreateWriter

\* The core writer takes what is valid, or nothing.
LEMMA AcceptFacts ==
  ASSUME NEW w, NEW valid, NEW rows, NEW o \in Accept(w, valid, rows), o.ok
  PROVE  valid /\ o.writer = Took(w, rows)
  BY DEF Accept

LEMMA TookFacts ==
  ASSUME NEW w \in Writers, NEW rows \in Seq(Seq(Values))
  PROVE  Took(w, rows) \in Writers /\ Took(w, rows).acked = w.acked \o rows
  <1>1. w.acked \o rows \in Seq(Seq(Values))
    BY DEF Writers
  <1>. QED BY <1>1 DEF Took, Writers

LEMMA MoveHead ==
  ASSUME NEW S, NEW a \in Seq(S), NEW d \in Seq(S), d # <<>>
  PROVE  /\ Head(d) \in S /\ Tail(d) \in Seq(S)
         /\ a \o d = (a \o <<Head(d)>>) \o Tail(d)
  <1>1. Head(d) \in S /\ Tail(d) \in Seq(S) /\ <<Head(d)>> \in Seq(S)
    OBVIOUS
  <1>2. d = <<Head(d)>> \o Tail(d)
    OBVIOUS
  <1>3. (a \o <<Head(d)>>) \o Tail(d) = a \o (<<Head(d)>> \o Tail(d))
    BY <1>1, ConcatAssociative
  <1>. QED BY <1>1, <1>2, <1>3

LEMMA OneMoreElement ==
  ASSUME NEW S, NEW a \in Seq(S), NEW x \in S
  PROVE  \A i \in DOMAIN (a \o <<x>>) :
           (i \in DOMAIN a /\ (a \o <<x>>)[i] = a[i]) \/ (a \o <<x>>)[i] = x
  OBVIOUS

LEMMA WriteRowOK == ASSUME IInv, WriteRow PROVE IInv'
  <1>1. /\ stage = "write_rows" /\ data # <<>> /\ SameCall
        /\ UNCHANGED <<io, copy, swallowed>>
    BY DEF WriteRow, SameCall
  <1>2. CASE RaiseKeepingTarget
    BY <1>1, <1>2, EarlyRaise
  <1>. SUFFICES ASSUME ~RaiseKeepingTarget PROVE IInv'
    BY <1>2
  <1>. DEFINE row == Head(data)
  <1>3. PICK o \in write_row(writer, row) :
          /\ o.ok /\ row # NotArray /\ Converts(row)
          /\ writer' = o.writer /\ SinkSome(o.writer.acked)
          /\ data' = Tail(data) /\ stage' = stage /\ result' = result
    BY DEF WriteRow
  <1>4. /\ call.method = "write_rows" /\ given \in RowData /\ data \in RowData
        /\ given = writer.acked \o data
        /\ \A i \in DOMAIN writer.acked : Taken(writer.acked[i])
        /\ writer \in Writers /\ writer.acked \in Seq(Seq(Values))
    BY <1>1 DEF IInv, DataOK, RowsOK, TypeOK, Writers
  <1>5. writer.acked \in RowData
    <2>1. \A rows \in Seq(Seq(Values)) : rows \in RowData
      BY DEF RowData
    <2>. QED BY <1>4, <2>1
  <1>6. /\ row \in {NotArray} \cup Seq(Values) /\ Tail(data) \in RowData
        /\ given = (writer.acked \o <<row>>) \o Tail(data)
    BY <1>1, <1>4, <1>5, MoveHead DEF RowData
  <1>7. <<row>> \in Seq(Seq(Values))
    BY <1>3, <1>6
  <1>8. ValidRow(row) /\ writer' = Took(writer, <<row>>)
    BY <1>3, AcceptFacts DEF write_row
  <1>9. writer' \in Writers /\ writer'.acked = writer.acked \o <<row>>
    BY <1>4, <1>7, <1>8, TookFacts
  <1>. HIDE DEF row
  <1>10. writer'.acked \in Seq(Seq(Values))
    BY <1>9 DEF Writers
  <1>11. \A i \in DOMAIN writer'.acked : Taken(writer'.acked[i])
    <2>. SUFFICES ASSUME NEW i \in DOMAIN writer'.acked PROVE Taken(writer'.acked[i])
      OBVIOUS
    <2>1. row \in Seq(Values)
      BY <1>3, <1>6 DEF row
    <2>2. i \in DOMAIN (writer.acked \o <<row>>)
      BY <1>9
    <2>3. \/ i \in DOMAIN writer.acked /\ writer'.acked[i] = writer.acked[i]
          \/ writer'.acked[i] = row
      BY <1>4, <1>9, <2>1, <2>2, OneMoreElement
    <2>4. Taken(row)
      BY <1>3, <1>8 DEF Taken, row
    <2>. QED BY <1>4, <2>3, <2>4
  <1>12. RowsOK'
    BY <1>1, <1>3, <1>4, <1>6, <1>9, <1>11 DEF RowsOK, SameCall
  <1>13. DataOK'
    BY <1>1, <1>3, <1>12 DEF DataOK
  <1>14. /\ target' \in Seq(Items) /\ TargetOK'
         /\ target' = target \/ ~Readable(target')
    BY <1>3, <1>10, SinkSomeFacts DEF IInv
  <1>. QED BY <1>1, <1>3, <1>9, <1>13, <1>14, EarlyStep

----------------------------------------------------------------------------
(* Columns. *)

\* The values of a column of the first k batches given.
Part(f, k) == FlattenSeq([b \in 1 .. k |-> given[b][f]])

LEMMA FieldsFacts == NumFields \in Nat /\ 1 \in Fields
  BY PipelineAssumption DEF Fields

LEMMA BatchFacts ==
  ASSUME NEW batch \in {NotArray} \cup Seq({NotArray} \cup Seq(Values)),
         ConvertibleBatch(batch)
  PROVE  /\ batch = [f \in Fields |-> batch[f]]
         /\ \A f \in Fields : batch[f] \in Seq(Values)
  <1>1. /\ batch \in Seq({NotArray} \cup Seq(Values)) /\ Len(batch) = NumFields
        /\ \A f \in Fields : batch[f] # NotArray
    BY DEF ConvertibleBatch
  <1>2. DOMAIN batch = Fields
    BY <1>1 DEF Fields
  <1>3. batch = [f \in DOMAIN batch |-> batch[f]]
    BY <1>1
  <1>4. \A f \in Fields : batch[f] \in {NotArray} \cup Seq(Values)
    BY <1>1, <1>2, ElementOfSeq DEF Fields
  <1>. QED BY <1>1, <1>2, <1>3, <1>4

LEMMA GivenFacts ==
  ASSUME given \in ColumnData, NEW k \in 0 .. Len(given),
         \A b \in 1 .. k : ConvertibleBatch(given[b])
  PROVE  \A b \in 1 .. k : /\ given[b] = [f \in Fields |-> given[b][f]]
                           /\ \A f \in Fields : given[b][f] \in Seq(Values)
  <1>. SUFFICES ASSUME NEW b \in 1 .. k
                PROVE  /\ given[b] = [f \in Fields |-> given[b][f]]
                       /\ \A f \in Fields : given[b][f] \in Seq(Values)
    OBVIOUS
  <1>1. b \in 1 .. Len(given)
    BY LenProperties DEF ColumnData
  <1>2. given[b] \in {NotArray} \cup Seq({NotArray} \cup Seq(Values))
    BY <1>1, ElementOfSeq DEF ColumnData
  <1>3. ConvertibleBatch(given[b])
    OBVIOUS
  <1>. HIDE DEF ConvertibleBatch
  <1>. QED BY <1>2, <1>3, BatchFacts

LEMMA PartFacts ==
  ASSUME given \in ColumnData, NEW n \in 0 .. Len(given),
         \A b \in 1 .. n : ConvertibleBatch(given[b]),
         NEW f \in Fields, NEW k \in 0 .. n
  PROVE  /\ Part(f, k) \in Seq(Values)
         /\ Part(f, 0) = <<>>
         /\ k < n => Part(f, k + 1) = Part(f, k) \o given[k + 1][f]
  <1>. DEFINE tt == [b \in 1 .. n |-> given[b][f]]
              F(j) == FlattenSeq([i \in 1 .. j |-> tt[i]])
  <1>1. n \in Nat /\ k \in Nat
    BY LenProperties DEF ColumnData
  <1>2. \A b \in 1 .. n : given[b][f] \in Seq(Values)
    BY GivenFacts
  <1>3. tt \in Seq(Seq(Values)) /\ Len(tt) = n
    BY <1>1, <1>2
  <1>4. \A j \in 0 .. n : F(j) = Part(f, j)
    <2>. SUFFICES ASSUME NEW j \in 0 .. n PROVE F(j) = Part(f, j)
      OBVIOUS
    <2>1. [i \in 1 .. j |-> tt[i]] = [b \in 1 .. j |-> given[b][f]]
      <3>1. \A i \in 1 .. j : i \in 1 .. n
        BY <1>1
      <3>. QED BY <3>1
    <2>. QED BY <2>1 DEF Part
  <1>5. k < n => tt[k + 1] = given[k + 1][f]
    BY <1>1
  <1>. HIDE DEF tt
  <1>6. /\ F(k) \in Seq(Values) /\ F(0) = <<>>
        /\ k < Len(tt) => F(k + 1) = F(k) \o tt[k + 1]
    <2>1. k \in 0 .. Len(tt)
      BY <1>1, <1>3
    <2>. QED BY <1>3, <2>1, FlattenUpto
  <1>7. F(0) = Part(f, 0) /\ F(k) = Part(f, k) /\ (k < n => F(k + 1) = Part(f, k + 1))
    <2>1. 0 \in 0 .. n /\ (k < n => k + 1 \in 0 .. n)
      BY <1>1
    <2>. QED BY <1>4, <2>1
  <1>. HIDE DEF F
  <1>. QED BY <1>3, <1>5, <1>6, <1>7

\* The columns with one batch more.
LEMMA ColumnsGrow ==
  ASSUME given \in ColumnData, NEW k \in 0 .. Len(given), k < Len(given),
         \A b \in 1 .. k + 1 : ConvertibleBatch(given[b])
  PROVE  Appended(ColumnsOf(k), given[k + 1]) = ColumnsOf(k + 1)
  <1>. DEFINE n == k + 1
  <1>1. n \in 0 .. Len(given) /\ k \in 0 .. n /\ k < n /\ k \in Nat /\ n # 0
    BY LenProperties DEF ColumnData
  <1>2. \A f \in Fields : Part(f, n) = Part(f, k) \o given[n][f]
    BY <1>1, PartFacts
  <1>3. /\ given[n] = [f \in Fields |-> given[n][f]]
        /\ \A f \in Fields : given[n][f] \in Seq(Values)
    <2>1. n \in 1 .. n
      BY <1>1
    <2>. QED BY <1>1, <2>1, GivenFacts
  <1>4. ColumnsOf(n) = [f \in Fields |-> Part(f, k) \o given[n][f]]
    BY <1>1, <1>2 DEF ColumnsOf, Part
  <1>5. CASE k = 0
    <2>1. \A f \in Fields : Part(f, k) \o given[n][f] = given[n][f]
      <3>1. \A f \in Fields : Part(f, k) = <<>>
        BY <1>1, <1>5, PartFacts
      <3>. QED BY <1>3, <3>1
    <2>2. Appended(ColumnsOf(k), given[n]) = given[n]
      BY <1>5 DEF Appended, ColumnsOf
    <2>. HIDE DEF n
    <2>3. [f \in Fields |-> Part(f, k) \o given[n][f]] = [f \in Fields |-> given[n][f]]
      BY <2>1
    <2>. QED BY <1>3, <1>4, <2>2, <2>3 DEF n
  <1>6. CASE k # 0
    <2>1. ColumnsOf(k) = [f \in Fields |-> Part(f, k)]
      BY <1>6 DEF ColumnsOf, Part
    <2>2. ColumnsOf(k) # <<>>
      <3>1. DOMAIN ColumnsOf(k) = Fields /\ DOMAIN <<>> = {}
        BY <2>1
      <3>. QED BY <3>1, FieldsFacts
    <2>3. Appended(ColumnsOf(k), given[n]) = [f \in Fields |-> Part(f, k) \o given[n][f]]
      BY <2>1, <2>2 DEF Appended
    <2>. QED BY <1>4, <2>3
  <1>. QED BY <1>5, <1>6

LEMMA ConvertBatchOK == ASSUME IInv, ConvertBatch PROVE IInv'
  <1>1. /\ stage = "write_columns" /\ data # <<>> /\ SameCall
        /\ UNCHANGED <<io, copy, swallowed>>
    BY DEF ConvertBatch, SameCall
  <1>2. CASE RaiseKeepingTarget
    BY <1>1, <1>2, EarlyRaise
  <1>. SUFFICES ASSUME ~RaiseKeepingTarget PROVE IInv'
    BY <1>2
  <1>3. /\ ConvertibleBatch(Head(data))
        /\ columns' = Appended(columns, Head(data)) /\ data' = Tail(data)
        /\ UNCHANGED <<stage, result, writer, target>>
    BY DEF ConvertBatch
  <1>4. /\ call.method = "write_columns" /\ given \in ColumnData /\ writer.acked = <<>>
        /\ writer \in Writers /\ target \in Seq(Items) /\ TargetOK
    BY <1>1 DEF IInv, DataOK, ColumnsOK, TypeOK
  <1>5. PICK k \in 0 .. Len(given) :
          /\ data = SubSeq(given, k + 1, Len(given))
          /\ columns = ColumnsOf(k)
          /\ \A b \in 1 .. k : ConvertibleBatch(given[b])
    BY <1>1 DEF IInv, DataOK, ColumnsOK
  <1>6. /\ k + 1 \in 0 .. Len(given) /\ k < Len(given) /\ k \in Nat
        /\ Head(data) = given[k + 1]
        /\ Tail(data) = SubSeq(given, (k + 1) + 1, Len(given))
    BY <1>1, <1>4, <1>5 DEF ColumnData
  <1>7. \A b \in 1 .. k + 1 : ConvertibleBatch(given[b])
    <2>. SUFFICES ASSUME NEW b \in 1 .. k + 1 PROVE ConvertibleBatch(given[b])
      OBVIOUS
    <2>1. b \in 1 .. k \/ b = k + 1
      BY <1>6
    <2>. QED BY <1>3, <1>5, <1>6, <2>1
  <1>8. columns' = ColumnsOf(k + 1)
    BY <1>3, <1>4, <1>5, <1>6, <1>7, ColumnsGrow
  <1>9. ColumnsOf(k + 1)' = ColumnsOf(k + 1)
    BY <1>1 DEF ColumnsOf, SameCall
  <1>10. ColumnsOK'
    <2>1. /\ k + 1 \in 0 .. Len(given')
          /\ data' = SubSeq(given', (k + 1) + 1, Len(given'))
          /\ columns' = ColumnsOf(k + 1)'
          /\ \A b \in 1 .. k + 1 : ConvertibleBatch(given'[b])
      BY <1>1, <1>3, <1>6, <1>7, <1>8, <1>9 DEF SameCall
    <2>. QED BY <1>1, <1>3, <1>4, <2>1 DEF ColumnsOK, SameCall
  <1>11. DataOK'
    BY <1>1, <1>3, <1>10 DEF DataOK
  <1>12. TargetOK'
    BY <1>3, <1>4 DEF TargetOK
  <1>. QED BY <1>1, <1>3, <1>4, <1>11, <1>12, EarlyStep

\* A valid row has nothing that cannot be converted.
LEMMA ValidRowsConvert ==
  ASSUME NEW row \in Seq(Values), ValidRow(row)
  PROVE  row # NotArray /\ Converts(row)
  <1>1. row # NotArray
    BY FooterIsNoRow
  <1>2. DOMAIN row = Fields
    BY DEF ValidRow, Fields
  <1>3. \A f \in Fields : row[f] \in Strings \/ row[f] = Nil
    BY DEF ValidRow, ValidValue
  <1>4. \A f \in Fields : row[f] # Bad
    BY <1>3, PipelineAssumption
  <1>. QED BY <1>1, <1>2, <1>4 DEF Converts

\* All columns of valid values are rows the core writer takes.
LEMMA RowsOfColumns ==
  ASSUME call.method = "write_columns", given \in ColumnData,
         \A b \in 1 .. Len(given) : ConvertibleBatch(given[b]),
         WellFormed(ColumnsOf(Len(given)))
  PROVE  RowsOf(ColumnsOf(Len(given))) = GivenRows /\ AllTaken
  <1>. DEFINE n == Len(given)
              cols == ColumnsOf(n)
  <1>1. n \in Nat /\ DOMAIN given = 1 .. n /\ n \in 0 .. n
    BY LenProperties DEF ColumnData
  <1>2. CASE n = 0
    <2>1. given = <<>> /\ cols = <<>>
      BY <1>1, <1>2, EmptySeq DEF ColumnData, ColumnsOf
    <2>2. GivenRows = <<>> /\ RowsOf(cols) = <<>>
      BY <2>1 DEF GivenRows, RowsOf
    <2>3. GivenRows \in Seq(Seq(Values)) /\ AllAccepted
      BY <2>2 DEF AllAccepted
    <2>. QED BY <2>2, <2>3 DEF AllTaken
  <1>3. CASE n # 0
    <2>1. cols = [f \in Fields |-> GivenColumn(f)] /\ given # <<>>
      BY <1>1, <1>3 DEF ColumnsOf, GivenColumn
    <2>2. \A f \in Fields : GivenColumn(f) \in Seq(Values)
      <3>1. \A f \in Fields : GivenColumn(f) = Part(f, n)
        BY <1>1 DEF GivenColumn, Part
      <3>2. \A f \in Fields : Part(f, n) \in Seq(Values)
        BY <1>1, PartFacts
      <3>. QED BY <3>1, <3>2
    <2>3. 1 \in Fields /\ cols # <<>>
      <3>1. DOMAIN cols = Fields /\ DOMAIN <<>> = {}
        BY <2>1
      <3>. QED BY <3>1, FieldsFacts
    <2>. DEFINE m == Len(GivenColumn(1))
                Row(i) == [f \in Fields |-> GivenColumn(f)[i]]
    <2>4. GivenRows = [i \in 1 .. m |-> Row(i)]
      BY <2>1 DEF GivenRows
    <2>5. RowsOf(cols) = GivenRows
      <3>1. \A i \in 1 .. m : [f \in Fields |-> cols[f][i]] = Row(i)
        BY <2>1
      <3>2. Len(cols[1]) = m
        BY <2>1, <2>3
      <3>. HIDE DEF cols, m, Row
      <3>3. RowsOf(cols) = [i \in 1 .. m |-> [f \in Fields |-> cols[f][i]]]
        BY <2>3, <3>2 DEF RowsOf
      <3>. QED BY <2>4, <3>1, <3>3
    <2>6. \A f \in Fields : /\ Len(GivenColumn(f)) = m
                            /\ \A i \in DOMAIN GivenColumn(f) : ValidValue(f, GivenColumn(f)[i])
      BY <2>1, <2>3 DEF WellFormed
    <2>7. m \in Nat /\ NumFields \in Nat
      BY <2>2, <2>3, FieldsFacts
    <2>8. \A i \in 1 .. m : Row(i) \in Seq(Values) /\ ValidRow(Row(i))
      <3>. SUFFICES ASSUME NEW i \in 1 .. m PROVE Row(i) \in Seq(Values) /\ ValidRow(Row(i))
        OBVIOUS
      <3>1. \A f \in Fields : i \in DOMAIN GivenColumn(f) /\ GivenColumn(f)[i] \in Values
        BY <2>2, <2>6, <2>7
      <3>2. Row(i) \in Seq(Values) /\ Len(Row(i)) = NumFields
        BY <2>7, <3>1 DEF Fields
      <3>3. \A f \in Fields : ValidValue(f, Row(i)[f])
        BY <2>6, <3>1
      <3>. QED BY <3>2, <3>3 DEF ValidRow
    <2>. HIDE DEF m, Row
    <2>9. GivenRows \in Seq(Seq(Values)) /\ DOMAIN GivenRows = 1 .. m
      BY <2>4, <2>7, <2>8
    <2>10. \A i \in 1 .. m : Row(i) # NotArray /\ Converts(Row(i)) /\ ValidRow(Row(i))
      BY <2>8, ValidRowsConvert
    <2>11. AllAccepted
      BY <2>4, <2>9, <2>10 DEF AllAccepted
    <2>. QED BY <2>5, <2>9, <2>11 DEF AllTaken
  <1>. QED BY <1>2, <1>3

LEMMA WriteColumnsOK == ASSUME IInv, WriteColumns PROVE IInv'
  <1>1. /\ stage = "write_columns" /\ data = <<>> /\ SameCall
        /\ UNCHANGED <<io, copy, swallowed>>
    BY DEF WriteColumns, SameCall
  <1>2. CASE RaiseKeepingTarget
    BY <1>1, <1>2, EarlyRaise
  <1>. SUFFICES ASSUME ~RaiseKeepingTarget PROVE IInv'
    BY <1>2
  <1>3. PICK o \in write_batch(writer, columns) :
          /\ o.ok /\ writer' = o.writer /\ SinkSome(o.writer.acked)
          /\ stage' = "close" /\ result' = result
    BY DEF WriteColumns
  <1>4. /\ call.method = "write_columns" /\ given \in ColumnData /\ writer.acked = <<>>
        /\ writer \in Writers
    BY <1>1 DEF IInv, DataOK, ColumnsOK, TypeOK
  <1>5. PICK k \in 0 .. Len(given) :
          /\ data = SubSeq(given, k + 1, Len(given))
          /\ columns = ColumnsOf(k)
          /\ \A b \in 1 .. k : ConvertibleBatch(given[b])
    BY <1>1 DEF IInv, DataOK, ColumnsOK
  <1>6. k = Len(given)
    BY <1>1, <1>4, <1>5 DEF ColumnData
  <1>7. WellFormed(columns) /\ writer' = Took(writer, RowsOf(columns))
    BY <1>3, AcceptFacts DEF write_batch
  <1>8. RowsOf(columns) = GivenRows /\ AllTaken
    BY <1>4, <1>5, <1>6, <1>7, RowsOfColumns
  <1>9. GivenRows \in Seq(Seq(Values))
    BY <1>8 DEF AllTaken
  <1>10. writer' \in Writers /\ writer'.acked = GivenRows
    <2>1. <<>> \o GivenRows = GivenRows
      BY <1>9
    <2>. QED BY <1>4, <1>7, <1>8, <1>9, <2>1, TookFacts
  <1>11. DataOK'
    <2>1. GivenRows' = GivenRows /\ AllAccepted' = AllAccepted
      BY <1>1, SameCallFacts
    <2>2. AllTaken'
      BY <1>8, <2>1 DEF AllTaken
    <2>. QED BY <1>3, <1>10, <2>1, <2>2 DEF DataOK
  <1>12. /\ target' \in Seq(Items) /\ TargetOK'
         /\ target' = target \/ ~Readable(target')
    BY <1>3, <1>9, <1>10, SinkSomeFacts DEF IInv
  <1>. QED BY <1>1, <1>3, <1>10, <1>11, <1>12, EarlyStep

\* Everything is acknowledged when the writer is closed.
LEMMA AllAcknowledged ==
  ASSUME IInv, stage = "close" \/ (stage = "write_rows" /\ data = <<>>)
  PROVE  writer.acked = GivenRows /\ AllTaken
  <1>1. CASE stage = "close"
    BY <1>1 DEF IInv, DataOK
  <1>2. CASE stage = "write_rows" /\ data = <<>>
    <2>1. /\ call.method = "write_rows" /\ given = writer.acked \o <<>>
          /\ writer.acked \in Seq(Seq(Values))
          /\ \A i \in DOMAIN writer.acked : Taken(writer.acked[i])
      BY <1>2 DEF IInv, DataOK, RowsOK, TypeOK, Writers
    <2>2. given = writer.acked /\ GivenRows = given
      BY <2>1 DEF GivenRows
    <2>3. AllAccepted
      <3>1. \A i \in DOMAIN given : given[i] # NotArray
        BY <2>1, <2>2, FooterIsNoRow
      <3>. QED BY <2>1, <2>2, <3>1 DEF AllAccepted, Taken
    <2>. QED BY <2>1, <2>2, <2>3 DEF AllTaken
  <1>. QED BY <1>1, <1>2

----------------------------------------------------------------------------
(* The copy. *)

LEMMA WholeFileFacts ==
  ASSUME AllTaken
  PROVE  WholeFile \in Seq(Items) /\ Readable(WholeFile) /\ Front(WholeFile) = GivenRows
  BY FinishedIsReadable DEF AllTaken, WholeFile

LEMMA LesserFacts ==
  ASSUME NEW a \in Nat, NEW b \in Nat, NEW n \in Nat, n <= a, n <= b
  PROVE  n \in 0 .. Lesser(a, b)
  BY DEF Lesser

LEMMA BufferSizeFacts == BufferSize \in Nat \ {0}
  BY PipelineAssumption

LEMMA DeliveredIsABeginning ==
  TypeOK /\ AllTaken /\ Delivered /\ result # "ok" => IOHoldsBeginningOfWholeFile
  <1>. SUFFICES ASSUME TypeOK, AllTaken, Delivered, result # "ok", io # <<>>
                PROVE  IOHoldsBeginningOfWholeFile
    BY DEF IOHoldsBeginningOfWholeFile
  <1>1. /\ io \in Seq(Items) /\ copy.pending \in Seq(Items) /\ Len(copy.pending) \in Nat
        /\ Len(io) \in Nat /\ WholeFile \in Seq(Items) /\ temp = WholeFile
        /\ copy.read \in 0 .. Len(WholeFile) /\ BufferSize \in Nat
    BY WholeFileFacts, BufferSizeFacts, LenProperties DEF TypeOK, Copies, Delivered
  <1>2. CASE swallowed
    <2>1. PICK m \in 0 .. Len(io) :
            /\ m + Len(copy.pending) <= BufferSize
            /\ IsPrefix(SubSeq(io, 1, Len(io) - m), WholeFile)
      BY <1>1 DEF Delivered
    <2>2. m \in 0 .. Lesser(BufferSize, Len(io))
      BY <1>1, <2>1, LesserFacts
    <2>. QED BY <1>2, <2>1, <2>2 DEF IOHoldsBeginningOfWholeFile, AllTaken
  <1>3. CASE ~swallowed
    <2>1. io \o copy.pending = SubSeq(WholeFile, 1, copy.read)
      BY <1>1, <1>3 DEF Delivered
    <2>2. IsPrefix(io \o SubSeq(copy.pending, 1, 0), WholeFile)
      <3>1. 0 \in 0 .. Len(copy.pending)
        BY <1>1
      <3>. QED BY <1>1, <2>1, <3>1, BeginningOfBoth
    <2>3. io \o SubSeq(copy.pending, 1, 0) = SubSeq(io, 1, Len(io) - 0)
      BY <1>1
    <2>4. 0 \in 0 .. (IF swallowed THEN Lesser(BufferSize, Len(io)) ELSE 0)
      BY <1>3
    <2>5. IsPrefix(SubSeq(io, 1, Len(io) - 0), WholeFile)
      BY <2>2, <2>3
    <2>. QED BY <2>4, <2>5 DEF IOHoldsBeginningOfWholeFile, AllTaken
  <1>. QED BY <1>2, <1>3

LEMMA DeliveredIsABeginningNext ==
  (TypeOK /\ AllTaken /\ Delivered /\ result # "ok" => IOHoldsBeginningOfWholeFile)'
  BY DeliveredIsABeginning, PTL

LEMMA FinalizeOK == ASSUME IInv, Finalize PROVE IInv'
  <1>1. /\ stage = "close" \/ (stage = "write_rows" /\ data = <<>>)
        /\ SameCall /\ UNCHANGED <<io, copy, swallowed>>
    BY DEF Finalize, SameCall
  <1>2. CASE RaiseKeepingTarget
    BY <1>1, <1>2, EarlyRaise
  <1>. SUFFICES ASSUME ~RaiseKeepingTarget PROVE IInv'
    BY <1>2
  <1>3. /\ call \in Calls /\ call.schema # "schema" /\ result = "none" /\ io = <<>>
        /\ copy.read = 0 /\ copy.pending = <<>> /\ ~swallowed
        /\ copy \in Copies /\ writer \in Writers /\ target \in Seq(Items)
    BY <1>1 DEF IInv, CallOK, TypeOK
  <1>4. writer.acked = GivenRows /\ AllTaken /\ WholeFile = writer.acked \o <<Footer>>
    BY <1>1, AllAcknowledged DEF WholeFile
  <1>5. WholeFile \in Seq(Items) /\ Readable(WholeFile) /\ Front(WholeFile) = GivenRows
    BY <1>4, WholeFileFacts
  <1>6. WholeFile' = WholeFile /\ GivenRows' = GivenRows /\ AllAccepted' = AllAccepted
    BY <1>1, SameCallFacts
  <1>7. IOHoldsBeginningOfWholeFile'
    BY <1>1, <1>3 DEF IOHoldsBeginningOfWholeFile
  <1>8. CASE call.write_to = "path" /\ Return /\ target' = writer.acked \o <<Footer>>
    <2>1. stage' = "idle" /\ result' = "ok" /\ writer' = NoWriter /\ target' = WholeFile
      BY <1>4, <1>8 DEF Return
    <2>2. TypeOK'
      <3>1. NoWriter \in Writers
        BY DEF NoWriter, Writers
      <3>. QED BY <1>1, <1>5, <2>1, <3>1 DEF IInv, TypeOK, Stages
    <2>3. TargetOK'
      BY <1>4, <1>5, <2>1 DEF TargetOK, AllTaken
    <2>4. CallOK' /\ DataOK' /\ CopyOK'
      BY <2>1 DEF CallOK, DataOK, CopyOK
    <2>5. PathHoldsOldOrWholeFile'
      BY <1>1, <1>6, <1>8, <2>1 DEF PathHoldsOldOrWholeFile, SameCall
    <2>. QED BY <1>7, <2>2, <2>3, <2>4, <2>5 DEF IInv
  <1>9. CASE /\ call.write_to # "path" /\ stage' = "copy"
             /\ writer' = [writer EXCEPT !.phase = "finished"]
             /\ Sink(writer.acked \o <<Footer>>) /\ UNCHANGED result
    <2>1. target' = target /\ temp' = WholeFile
      BY <1>4, <1>9 DEF Sink
    <2>2. writer' \in Writers
      BY <1>3, <1>9 DEF Writers
    <2>3. TypeOK'
      BY <1>1, <1>9, <2>1, <2>2 DEF IInv, TypeOK, Stages
    <2>4. TargetOK'
      BY <2>1 DEF IInv, TargetOK
    <2>5. CallOK' /\ DataOK'
      BY <1>1, <1>3, <1>4, <1>6, <1>9 DEF CallOK, DataOK, AllTaken, SameCall
    <2>6. Delivered'
      <3>1. Len(WholeFile) \in Nat /\ BufferSize \in Nat
        BY <1>5, LenProperties, BufferSizeFacts
      <3>2. <<>> \o <<>> = SubSeq(WholeFile, 1, 0)
        BY <1>5
      <3>3. io' = <<>> /\ copy'.pending = <<>> /\ Len(<<>>) = 0
            /\ SubSeq(<<>>, 1, Len(<<>>) - 0) = <<>>
        BY <1>1, <1>3
      <3>4. IsPrefix(<<>>, WholeFile)
        BY <1>5, <3>1 DEF IsPrefix
      <3>5. /\ 0 \in 0 .. Len(io') /\ 0 + Len(copy'.pending) <= BufferSize
            /\ IsPrefix(SubSeq(io', 1, Len(io') - 0), temp')
        <4>1. IsPrefix(SubSeq(io', 1, Len(io') - 0), temp')
          BY <2>1, <3>3, <3>4
        <4>2. 0 \in 0 .. Len(io') /\ 0 + Len(copy'.pending) <= BufferSize
          BY <3>1, <3>3
        <4>. QED BY <4>1, <4>2
      <3>6. ~swallowed' /\ io' \o copy'.pending = SubSeq(temp', 1, copy'.read)
        BY <1>1, <1>3, <2>1, <3>2
      <3>7. /\ temp' = WholeFile' /\ copy'.read \in 0 .. Len(temp')
            /\ Len(copy'.pending) <= BufferSize
        BY <1>1, <1>3, <1>6, <2>1, <3>1, <3>3
      <3>. QED BY <3>5, <3>6, <3>7 DEF Delivered
    <2>7. CopyOK'
      <3>1. call.write_to = "io"
        BY <1>3, <1>9, CallFacts
      <3>. QED BY <1>1, <1>3, <1>9, <2>6, <3>1 DEF CopyOK, SameCall
    <2>8. PathHoldsOldOrWholeFile'
      BY <1>1, <1>3, <1>9, <2>1, PathStaysOK DEF IInv
    <2>. QED BY <1>7, <2>3, <2>4, <2>5, <2>7, <2>8 DEF IInv
  <1>. QED BY <1>1, <1>8, <1>9 DEF Finalize

LEMMA CopyFacts ==
  ASSUME IInv, stage \in {"copy", "drop"}
  PROVE  /\ io \in Seq(Items) /\ Len(io) \in Nat
         /\ copy \in Copies /\ copy.pending \in Seq(Items) /\ Len(copy.pending) \in Nat
         /\ temp = WholeFile /\ temp \in Seq(Items) /\ Len(temp) \in Nat
         /\ BufferSize \in Nat \ {0} /\ Len(copy.pending) <= BufferSize
         /\ copy.read \in 0 .. Len(temp)
         /\ AllTaken /\ Delivered /\ (stage = "copy" => ~swallowed)
         /\ swallowed \in BOOLEAN
         /\ call \in Calls /\ call.schema # "schema" /\ call.write_to = "io"
         /\ result = "none" /\ target \in Seq(Items) /\ TargetOK
  <1>1. AllTaken /\ WholeFile \in Seq(Items)
    BY WholeFileFacts DEF IInv, DataOK
  <1>2. /\ Delivered /\ call.write_to = "io" /\ (stage = "copy" => ~swallowed)
        /\ call \in Calls /\ call.schema # "schema" /\ result = "none" /\ TypeOK /\ TargetOK
    BY DEF IInv, CopyOK, CallOK
  <1>. QED BY <1>1, <1>2, BufferSizeFacts, LenProperties DEF TypeOK, Copies, Delivered

\* A step of the copy, or of the drop of the BufWriter, after which it goes on.
LEMMA CopyStep ==
  ASSUME IInv, stage \in {"copy", "drop"}, stage' \in {"copy", "drop"}, SameCall,
         UNCHANGED <<target, temp, writer, result>>,
         copy' \in Copies, io' \in Seq(Items), swallowed' \in BOOLEAN,
         Delivered', stage' = "copy" => ~swallowed'
  PROVE  IInv'
  <1>1. /\ AllTaken /\ call \in Calls /\ call.schema # "schema" /\ call.write_to = "io"
        /\ result' = "none" /\ target \in Seq(Items) /\ TargetOK
    BY CopyFacts
  <1>2. TypeOK'
    BY <1>1 DEF IInv, TypeOK, Stages
  <1>3. TargetOK'
    BY <1>1 DEF TargetOK
  <1>4. AllTaken'
    BY <1>1, SameCallFacts DEF AllTaken
  <1>5. CallOK' /\ DataOK' /\ CopyOK'
    BY <1>1, <1>4 DEF CallOK, DataOK, CopyOK, SameCall
  <1>6. PathHoldsOldOrWholeFile'
    BY <1>1, PathStaysOK DEF IInv
  <1>7. IOHoldsBeginningOfWholeFile'
    BY <1>1, <1>2, <1>4, DeliveredIsABeginningNext
  <1>. QED BY <1>2, <1>3, <1>5, <1>6, <1>7 DEF IInv

\* The copy fails; what was delivered is a beginning or comes twice at its end.
LEMMA CopyFails ==
  ASSUME IInv, stage \in {"copy", "drop"}, SameCall, RaiseKeepingTarget,
         copy' \in Copies, io' \in Seq(Items), swallowed' \in BOOLEAN,
         IOHoldsBeginningOfWholeFile'
  PROVE  IInv'
  <1>1. Raise /\ target' = target
    BY DEF RaiseKeepingTarget
  <1>2. target' \in Seq(Items) /\ TargetOK' /\ PathHoldsOldOrWholeFile
    BY <1>1 DEF IInv, TypeOK, TargetOK
  <1>. QED BY <1>1, <1>2, RaiseFacts

LEMMA ReadChunkOK == ASSUME IInv, ReadChunk PROVE IInv'
  <1>1. /\ stage = "copy" /\ stage' = "copy" /\ copy.pending = <<>>
        /\ copy.read < Len(temp) /\ SameCall
        /\ UNCHANGED <<target, temp, writer, result, io, swallowed>>
    BY DEF ReadChunk, SameCall
  <1>2. PICK buffered \in BOOLEAN :
          copy' = [read |-> ChunkEnd, pending |-> SubSeq(temp, copy.read + 1, ChunkEnd),
                   buffered |-> buffered]
    BY DEF ReadChunk
  <1>3. /\ io \in Seq(Items) /\ temp = WholeFile /\ temp \in Seq(Items) /\ Len(temp) \in Nat
        /\ BufferSize \in Nat \ {0} /\ copy.read \in 0 .. Len(temp) /\ ~swallowed
        /\ Delivered /\ swallowed \in BOOLEAN
    BY <1>1, CopyFacts
  <1>. PICK e : e = ChunkEnd
    OBVIOUS
  <1>. PICK chunk : chunk = SubSeq(temp, copy.read + 1, e)
    OBVIOUS
  <1>4. e \in copy.read .. Len(temp) /\ e \in 0 .. Len(temp) /\ e - copy.read <= BufferSize
    <2>1. e = IF copy.read + BufferSize < Len(temp) THEN copy.read + BufferSize
                                                    ELSE Len(temp)
      BY DEF ChunkEnd, Lesser
    <2>. PICK r, l : r = copy.read /\ l = Len(temp)
      OBVIOUS
    <2>2. r \in Nat /\ l \in Nat /\ r < l /\ BufferSize \in Nat \ {0}
          /\ e = IF r + BufferSize < l THEN r + BufferSize ELSE l
      BY <1>1, <1>3, <2>1
    <2>3. e \in r .. l /\ e \in 0 .. l /\ e - r <= BufferSize
      BY <2>2
    <2>. QED BY <2>3
  <1>5. io = SubSeq(temp, 1, copy.read)
    <2>1. io \o <<>> = SubSeq(temp, 1, copy.read)
      BY <1>1, <1>3 DEF Delivered
    <2>. QED BY <1>3, <2>1
  <1>6. /\ chunk \in Seq(Items) /\ Len(chunk) = e - copy.read
        /\ io \o chunk = SubSeq(temp, 1, e)
    <2>. PICK t : t = temp
      OBVIOUS
    <2>. PICK r : r = copy.read
      OBVIOUS
    <2>1. t \in Seq(Items) /\ r \in 0 .. Len(t) /\ e \in r .. Len(t)
      BY <1>3, <1>4
    <2>2. /\ SubSeq(t, r + 1, e) \in Seq(Items) /\ Len(SubSeq(t, r + 1, e)) = e - r
          /\ SubSeq(t, 1, r) \o SubSeq(t, r + 1, e) = SubSeq(t, 1, e)
      BY <2>1, SubSeqsJoin
    <2>. QED BY <1>5, <2>2
  <1>7. copy'.read = e /\ copy'.pending = chunk /\ copy' \in Copies
    <2>1. copy' = [read |-> e, pending |-> chunk, buffered |-> buffered]
      BY <1>2
    <2>2. e \in Nat
      BY <1>3, <1>4
    <2>. QED BY <1>6, <2>1, <2>2 DEF Copies
  <1>8. WholeFile' = WholeFile
    BY <1>1, SameCallFacts
  <1>9. IsPrefix(SubSeq(io, 1, Len(io) - 0), temp)
    <2>1. 0 \in 0 .. Len(chunk)
      BY <1>6, LenProperties
    <2>2. IsPrefix(io \o SubSeq(chunk, 1, 0), temp)
      BY <1>3, <1>4, <1>6, <2>1, BeginningOfBoth
    <2>3. io \o SubSeq(chunk, 1, 0) = SubSeq(io, 1, Len(io) - 0)
      BY <1>3, <1>6
    <2>. QED BY <2>2, <2>3
  <1>10. Delivered'
    <2>1. /\ temp' = WholeFile' /\ copy'.read \in 0 .. Len(temp')
          /\ Len(copy'.pending) <= BufferSize
      BY <1>1, <1>3, <1>4, <1>6, <1>7, <1>8
    <2>2. io' \o copy'.pending = SubSeq(temp', 1, copy'.read)
      BY <1>1, <1>6, <1>7
    <2>3. 0 \in 0 .. Len(io') /\ 0 + Len(copy'.pending) <= BufferSize
      BY <1>1, <1>3, <1>4, <1>6, <1>7, LenProperties
    <2>4. IsPrefix(SubSeq(io', 1, Len(io') - 0), temp')
      BY <1>1, <1>9
    <2>. QED BY <2>1, <2>2, <2>3, <2>4 DEF Delivered
  <1>11. io' \in Seq(Items) /\ swallowed' \in BOOLEAN /\ ~swallowed'
    BY <1>1, <1>3
  <1>. QED BY <1>1, <1>7, <1>10, <1>11, CopyStep

LEMMA ItemsThree == \A a, b, c \in Seq(Items) : (a \o b) \o c = a \o (b \o c)
  BY ConcatThree

\* A write takes the first n of the items under way.
LEMMA WriteFacts ==
  ASSUME IInv, stage \in {"copy", "drop"}, NEW n \in 0 .. Len(copy.pending)
  PROVE  LET first == SubSeq(copy.pending, 1, n)
         IN  /\ io \o first \in Seq(Items) /\ Len(io \o first) = Len(io) + n
             /\ Unwritten(n) \in Seq(Items) /\ Len(Unwritten(n)) = Len(copy.pending) - n
             /\ (io \o first) \o Unwritten(n) = io \o copy.pending
             /\ \A m \in 0 .. Len(io) :
                  SubSeq(io \o first, 1, Len(io \o first) - (m + n))
                    = SubSeq(io, 1, Len(io) - m)
  <1>. DEFINE first == SubSeq(copy.pending, 1, n)
              rest == SubSeq(copy.pending, n + 1, Len(copy.pending))
  <1>1. io \in Seq(Items) /\ Len(io) \in Nat /\ copy.pending \in Seq(Items)
        /\ Len(copy.pending) \in Nat /\ n \in Nat
    BY CopyFacts
  <1>2. /\ first \in Seq(Items) /\ Len(first) = n
        /\ rest \in Seq(Items) /\ Len(rest) = Len(copy.pending) - n
        /\ first \o rest = copy.pending
    BY <1>1, SplitAt
  <1>3. rest = Unwritten(n)
    BY DEF Unwritten
  <1>. HIDE DEF first, rest
  <1>4. io \o first \in Seq(Items) /\ Len(io \o first) = Len(io) + n
    BY <1>1, <1>2, ConcatElements
  <1>5. (io \o first) \o rest = io \o copy.pending
    <2>. PICK x, p : x = io /\ p = copy.pending
      OBVIOUS
    <2>1. x \in Seq(Items) /\ first \in Seq(Items) /\ rest \in Seq(Items) /\ first \o rest = p
      BY <1>1, <1>2
    <2>2. (x \o first) \o rest = x \o (first \o rest)
      BY <2>1, ItemsThree, Zenon
    <2>. QED BY <2>1, <2>2
  <1>6. ASSUME NEW m \in 0 .. Len(io)
        PROVE  SubSeq(io \o first, 1, Len(io \o first) - (m + n)) = SubSeq(io, 1, Len(io) - m)
    <2>1. Len(io) - m \in 0 .. Len(io) /\ Len(io \o first) - (m + n) = Len(io) - m
      BY <1>1, <1>4
    <2>. QED BY <1>1, <1>2, <2>1, PartOfFirst
  <1>. QED BY <1>2, <1>3, <1>4, <1>5, <1>6 DEF first

LEMMA WriteToIOOK == ASSUME IInv, WriteToIO PROVE IInv'
  <1>1. /\ stage \in {"copy", "drop"} /\ stage' = stage /\ SameCall
        /\ UNCHANGED <<target, temp, writer, result, swallowed>>
    BY DEF WriteToIO, Writing, SameCall
  <1>2. PICK n \in 1 .. Len(copy.pending) :
          /\ io' = io \o SubSeq(copy.pending, 1, n)
          /\ copy' = [copy EXCEPT !.pending = Unwritten(n)]
    BY DEF WriteToIO
  <1>3. /\ copy \in Copies /\ Len(copy.pending) \in Nat /\ Len(io) \in Nat
        /\ temp = WholeFile /\ copy.read \in 0 .. Len(temp) /\ BufferSize \in Nat
        /\ Len(copy.pending) <= BufferSize /\ Delivered /\ swallowed \in BOOLEAN
        /\ (stage = "copy" => ~swallowed)
    BY <1>1, CopyFacts
  <1>4. n \in 0 .. Len(copy.pending) /\ n \in Nat
    BY <1>3
  <1>5. /\ io' \in Seq(Items) /\ Len(io') = Len(io) + n
        /\ Unwritten(n) \in Seq(Items) /\ Len(Unwritten(n)) = Len(copy.pending) - n
        /\ io' \o Unwritten(n) = io \o copy.pending
        /\ \A m \in 0 .. Len(io) :
             SubSeq(io', 1, Len(io') - (m + n)) = SubSeq(io, 1, Len(io) - m)
    BY <1>1, <1>2, <1>4, WriteFacts
  <1>6. copy' \in Copies /\ copy'.read = copy.read /\ copy'.pending = Unwritten(n)
    BY <1>2, <1>3, <1>5 DEF Copies
  <1>7. WholeFile' = WholeFile
    BY <1>1, SameCallFacts
  <1>8. Delivered'
    <2>1. /\ temp' = WholeFile' /\ copy'.read \in 0 .. Len(temp')
          /\ Len(copy'.pending) <= BufferSize
      BY <1>1, <1>3, <1>4, <1>5, <1>6, <1>7
    <2>2. ~swallowed' => io' \o copy'.pending = SubSeq(temp', 1, copy'.read)
      BY <1>1, <1>3, <1>5, <1>6 DEF Delivered
    <2>3. PICK m \in 0 .. Len(io) :
            /\ m + Len(copy.pending) <= BufferSize
            /\ IsPrefix(SubSeq(io, 1, Len(io) - m), temp)
      BY <1>3 DEF Delivered
    <2>4. m + n \in 0 .. Len(io') /\ (m + n) + Len(copy'.pending) <= BufferSize
      BY <1>3, <1>4, <1>5, <1>6, <2>3
    <2>5. IsPrefix(SubSeq(io', 1, Len(io') - (m + n)), temp')
      BY <1>1, <1>5, <2>3
    <2>. QED BY <2>1, <2>2, <2>4, <2>5 DEF Delivered
  <1>. QED BY <1>1, <1>3, <1>5, <1>6, <1>8, CopyStep

\* A call that raises has given the IO no more than a beginning, the last n items
\* aside.
LEMMA IOHoldsNext ==
  ASSUME SameCall, AllTaken, result' # "ok",
         NEW n \in 0 .. (IF swallowed' THEN Lesser(BufferSize, Len(io')) ELSE 0),
         IsPrefix(SubSeq(io', 1, Len(io') - n), WholeFile)
  PROVE  IOHoldsBeginningOfWholeFile'
  <1>1. WholeFile' = WholeFile /\ AllAccepted'
    BY SameCallFacts DEF AllTaken
  <1>. QED BY <1>1 DEF IOHoldsBeginningOfWholeFile

\* An IO that is given nothing more.
LEMMA IOHoldsStill ==
  ASSUME IOHoldsBeginningOfWholeFile, SameCall, result' # "ok",
         UNCHANGED <<io, swallowed>>
  PROVE  IOHoldsBeginningOfWholeFile'
  <1>1. WholeFile' = WholeFile /\ AllAccepted' = AllAccepted
    BY SameCallFacts
  <1>. QED BY <1>1 DEF IOHoldsBeginningOfWholeFile

LEMMA RaiseResult == RaiseKeepingTarget => result' = "error"
  BY DEF RaiseKeepingTarget, Raise

LEMMA NothingUnderWay ==
  ASSUME NEW c \in Copies
  PROVE  [c EXCEPT !.pending = <<>>] \in Copies
  <1>. PICK e : e = <<>>
    OBVIOUS
  <1>1. e \in Seq(Items)
    OBVIOUS
  <1>2. [c EXCEPT !.pending = e] \in Copies
    BY <1>1 DEF Copies
  <1>. QED BY <1>2

LEMMA DeliveredStill ==
  ASSUME Delivered, SameCall, UNCHANGED <<temp, io, copy, swallowed>>
  PROVE  Delivered'
  <1>1. WholeFile' = WholeFile
    BY SameCallFacts
  <1>. QED BY <1>1 DEF Delivered

LEMMA WriteZeroOK == ASSUME IInv, WriteZero PROVE IInv'
  <1>1. /\ stage \in {"copy", "drop"} /\ GivesUp /\ SameCall
        /\ UNCHANGED <<io, swallowed>>
    BY DEF WriteZero, Writing, SameCall
  <1>2. /\ copy \in Copies /\ io \in Seq(Items) /\ swallowed \in BOOLEAN /\ Delivered
        /\ (stage = "copy" => ~swallowed)
    BY <1>1, CopyFacts
  <1>3. CASE stage = "copy" /\ copy.buffered
    <2>1. stage' = "drop" /\ UNCHANGED <<result, writer, temp, target, copy>>
      BY <1>1, <1>3 DEF GivesUp
    <2>2. Delivered'
      BY <1>1, <1>2, <2>1, DeliveredStill
    <2>. QED BY <1>1, <1>2, <2>1, <2>2, CopyStep
  <1>4. CASE ~(stage = "copy" /\ copy.buffered)
    <2>1. RaiseKeepingTarget /\ copy' = [copy EXCEPT !.pending = <<>>]
      BY <1>1, <1>4 DEF GivesUp
    <2>2. copy' \in Copies
      BY <1>2, <2>1, NothingUnderWay
    <2>3. IOHoldsBeginningOfWholeFile'
      BY <1>1, <2>1, RaiseResult, IOHoldsStill DEF IInv
    <2>. QED BY <1>1, <1>2, <2>1, <2>2, <2>3, CopyFails
  <1>. QED BY <1>3, <1>4

LEMMA WriteRaisesOK == ASSUME IInv, WriteRaises PROVE IInv'
  <1>1. stage \in {"copy", "drop"} /\ GivesUp /\ SameCall
    BY DEF WriteRaises, Writing, SameCall
  <1>2. PICK n \in 0 .. Len(copy.pending) :
          /\ io' = io \o SubSeq(copy.pending, 1, n)
          /\ swallowed' = (swallowed \/ n > 0)
    BY DEF WriteRaises
  <1>3. /\ copy \in Copies /\ Len(copy.pending) \in Nat /\ Len(io) \in Nat
        /\ temp = WholeFile /\ temp \in Seq(Items) /\ copy.read \in 0 .. Len(temp)
        /\ BufferSize \in Nat /\ Len(copy.pending) <= BufferSize
        /\ AllTaken /\ Delivered /\ (stage = "copy" => ~swallowed)
        /\ io \in Seq(Items) /\ copy.pending \in Seq(Items) /\ n \in Nat
        /\ swallowed \in BOOLEAN
    BY <1>1, CopyFacts
  <1>4. /\ io' \in Seq(Items) /\ Len(io') = Len(io) + n
        /\ \A m \in 0 .. Len(io) :
             SubSeq(io', 1, Len(io') - (m + n)) = SubSeq(io, 1, Len(io) - m)
    BY <1>1, <1>2, WriteFacts
  <1>5. swallowed' \in BOOLEAN
    BY <1>2
  <1>6. ~swallowed' => ~swallowed /\ n = 0
    <2>1. ~swallowed' => ~swallowed /\ ~(n > 0)
      BY <1>2, Zenon
    <2>. QED BY <1>3, <2>1
  \* The first time it is still a beginning.
  <1>7. ASSUME stage = "copy" PROVE IsPrefix(SubSeq(io', 1, Len(io') - 0), WholeFile)
    <2>1. io \o copy.pending = SubSeq(temp, 1, copy.read)
      BY <1>3, <1>7 DEF Delivered
    <2>2. IsPrefix(io \o SubSeq(copy.pending, 1, n), temp)
      BY <1>3, <2>1, BeginningOfBoth
    <2>3. SubSeq(io', 1, Len(io') - 0) = io'
      BY <1>4
    <2>. QED BY <1>2, <1>3, <2>2, <2>3
  \* The bytes are tried once more: what is there of them already comes before.
  <1>8. CASE stage = "copy" /\ copy.buffered
    <2>1. stage' = "drop" /\ UNCHANGED <<result, writer, temp, target, copy>>
      BY <1>1, <1>8 DEF GivesUp
    <2>2. Delivered'
      <3>1. WholeFile' = WholeFile
        BY <1>1, SameCallFacts
      <3>2. /\ temp' = WholeFile' /\ copy'.read \in 0 .. Len(temp')
            /\ Len(copy'.pending) <= BufferSize
        BY <1>3, <2>1, <3>1
      <3>3. ~swallowed' => io' \o copy'.pending = SubSeq(temp', 1, copy'.read)
        <4>. SUFFICES ASSUME ~swallowed'
                      PROVE  io' \o copy'.pending = SubSeq(temp', 1, copy'.read)
          OBVIOUS
        <4>1. ~swallowed /\ n = 0
          BY <1>6
        <4>2. io' = io
          BY <1>2, <1>3, <4>1
        <4>. QED BY <1>3, <2>1, <4>1, <4>2 DEF Delivered
      <3>4. 0 \in 0 .. Len(io') /\ 0 + Len(copy'.pending) <= BufferSize
        BY <1>3, <1>4, <2>1
      <3>5. IsPrefix(SubSeq(io', 1, Len(io') - 0), temp')
        BY <1>3, <1>7, <1>8, <2>1
      <3>. QED BY <3>2, <3>3, <3>4, <3>5 DEF Delivered
    <2>. QED BY <1>1, <1>3, <1>4, <1>5, <2>1, <2>2, CopyStep
  <1>9. CASE ~(stage = "copy" /\ copy.buffered)
    <2>1. RaiseKeepingTarget /\ copy' = [copy EXCEPT !.pending = <<>>] /\ result' = "error"
      BY <1>1, <1>9, RaiseResult DEF GivesUp
    <2>2. copy' \in Copies
      BY <1>3, <2>1, NothingUnderWay
    <2>3. CASE stage = "copy"
      <3>1. IsPrefix(SubSeq(io', 1, Len(io') - 0), WholeFile)
        BY <1>7, <2>3
      <3>2. 0 \in 0 .. (IF swallowed' THEN Lesser(BufferSize, Len(io')) ELSE 0)
        <4>1. 0 \in 0 .. Lesser(BufferSize, Len(io')) /\ 0 \in 0 .. 0
          BY <1>3, <1>4 DEF Lesser
        <4>. QED BY <4>1
      <3>3. IOHoldsBeginningOfWholeFile'
        BY <1>1, <1>3, <2>1, <3>1, <3>2, IOHoldsNext
      <3>. QED BY <1>1, <1>4, <1>5, <2>1, <2>2, <3>3, CopyFails
    <2>4. CASE stage # "copy" /\ ~swallowed'
      <3>1. ~swallowed /\ n = 0
        BY <1>6, <2>4
      <3>2. io' = io /\ swallowed' = swallowed
        BY <1>2, <1>3, <1>5, <2>4, <3>1
      <3>3. IOHoldsBeginningOfWholeFile'
        BY <1>1, <2>1, <3>2, IOHoldsStill DEF IInv
      <3>. QED BY <1>1, <1>4, <1>5, <2>1, <2>2, <3>3, CopyFails
    <2>5. CASE stage # "copy" /\ swallowed'
      <3>1. PICK m \in 0 .. Len(io) :
              /\ m + Len(copy.pending) <= BufferSize
              /\ IsPrefix(SubSeq(io, 1, Len(io) - m), temp)
        BY <1>3 DEF Delivered
      <3>2. IsPrefix(SubSeq(io', 1, Len(io') - (m + n)), WholeFile)
        BY <1>3, <1>4, <3>1
      <3>3. m + n \in Nat /\ Len(io') \in Nat /\ m + n <= BufferSize /\ m + n <= Len(io')
        BY <1>3, <1>4, <3>1
      <3>4. m + n \in 0 .. (IF swallowed' THEN Lesser(BufferSize, Len(io')) ELSE 0)
        BY <1>3, <2>5, <3>3, LesserFacts
      <3>5. IOHoldsBeginningOfWholeFile'
        BY <1>1, <1>3, <2>1, <3>2, <3>4, IOHoldsNext
      <3>. QED BY <1>1, <1>4, <1>5, <2>1, <2>2, <3>5, CopyFails
    <2>. QED BY <2>3, <2>4, <2>5
  <1>. QED BY <1>8, <1>9

LEMMA FlushIOOK == ASSUME IInv, FlushIO PROVE IInv'
  <1>1. /\ stage = "copy" /\ copy.pending = <<>> /\ copy.read = Len(temp)
        /\ (Return \/ Raise) /\ SameCall /\ UNCHANGED <<target, io, copy, swallowed>>
    BY DEF FlushIO, SameCall
  <1>2. /\ copy \in Copies /\ io \in Seq(Items) /\ swallowed \in BOOLEAN /\ Delivered
        /\ ~swallowed /\ temp = WholeFile /\ temp \in Seq(Items) /\ AllTaken
        /\ call.write_to = "io" /\ target \in Seq(Items) /\ TargetOK
    BY <1>1, CopyFacts
  <1>3. CASE Raise
    <2>1. RaiseKeepingTarget
      BY <1>1, <1>3 DEF RaiseKeepingTarget
    <2>2. IOHoldsBeginningOfWholeFile'
      BY <1>1, <2>1, RaiseResult, IOHoldsStill DEF IInv
    <2>. QED BY <1>1, <1>2, <2>1, <2>2, CopyFails
  <1>4. CASE Return
    <2>1. stage' = "idle" /\ result' = "ok" /\ writer' = NoWriter
      BY <1>4 DEF Return
    <2>2. io = WholeFile
      <3>1. io \o <<>> = SubSeq(temp, 1, Len(temp))
        BY <1>1, <1>2 DEF Delivered
      <3>. QED BY <1>2, <3>1
    <2>3. WholeFile' = WholeFile /\ AllAccepted'
      BY <1>1, <1>2, SameCallFacts DEF AllTaken
    <2>4. IOHoldsBeginningOfWholeFile'
      <3>1. SubSeq(io, 1, Len(io) - 0) = io /\ IsPrefix(io, io)
        BY <1>2 DEF IsPrefix
      <3>2. 0 \in 0 .. (IF swallowed' THEN Lesser(BufferSize, Len(io')) ELSE 0)
        BY <1>1, <1>2
      <3>3. io' = WholeFile' /\ IsPrefix(SubSeq(io', 1, Len(io') - 0), WholeFile')
        BY <1>1, <2>2, <2>3, <3>1
      <3>. QED BY <2>3, <3>2, <3>3 DEF IOHoldsBeginningOfWholeFile
    <2>5. PathHoldsOldOrWholeFile'
      <3>1. Readable(target) /\ target # before => call.write_to = "path"
        BY DEF IInv, PathHoldsOldOrWholeFile
      <3>. QED BY <1>1, <1>2, <3>1 DEF PathHoldsOldOrWholeFile, SameCall
    <2>6. TypeOK'
      <3>1. NoWriter \in Writers
        BY DEF NoWriter, Writers
      <3>. QED BY <1>1, <1>2, <2>1, <3>1 DEF TypeOK, Stages
    <2>7. TargetOK' /\ CallOK' /\ DataOK' /\ CopyOK'
      BY <1>1, <1>2, <2>1 DEF TargetOK, CallOK, DataOK, CopyOK
    <2>. QED BY <2>4, <2>5, <2>6, <2>7 DEF IInv
  <1>. QED BY <1>1, <1>3, <1>4

LEMMA DroppedOK == ASSUME IInv, Dropped PROVE IInv'
  <1>1. /\ stage = "drop" /\ RaiseKeepingTarget /\ SameCall
        /\ UNCHANGED <<io, copy, swallowed>>
    BY DEF Dropped, SameCall
  <1>2. copy' \in Copies /\ io' \in Seq(Items) /\ swallowed' \in BOOLEAN
    BY <1>1 DEF IInv, TypeOK
  <1>3. IOHoldsBeginningOfWholeFile'
    BY <1>1, RaiseResult, IOHoldsStill DEF IInv
  <1>. QED BY <1>1, <1>2, <1>3, CopyFails

\* A step that leaves files, IO and call alone, such as a crash.
LEMMA PropertiesStay ==
  ASSUME PathHoldsOldOrWholeFile, IOHoldsBeginningOfWholeFile, SameCall,
         UNCHANGED <<target, io, result, swallowed>>
  PROVE  PathHoldsOldOrWholeFile' /\ IOHoldsBeginningOfWholeFile'
  <1>1. WholeFile' = WholeFile /\ AllAccepted' = AllAccepted
    BY SameCallFacts
  <1>2. PathHoldsOldOrWholeFile'
    BY <1>1 DEF PathHoldsOldOrWholeFile, SameCall
  <1>3. IOHoldsBeginningOfWholeFile'
    BY <1>1 DEF IOHoldsBeginningOfWholeFile
  <1>. QED BY <1>2, <1>3

LEMMA CrashOK == ASSUME IInv, Crash PROVE IInv'
  <1>1. /\ stage' = "crashed" /\ SameCall
        /\ UNCHANGED <<writer, target, io, copy, result, swallowed>>
    BY DEF Crash, SameCall
  <1>2. TypeOK' /\ TargetOK'
    BY <1>1 DEF IInv, TypeOK, TargetOK, Stages
  <1>3. CallOK' /\ DataOK' /\ CopyOK'
    BY <1>1 DEF CallOK, DataOK, CopyOK
  <1>4. PathHoldsOldOrWholeFile' /\ IOHoldsBeginningOfWholeFile'
    BY <1>1, PropertiesStay DEF IInv
  <1>. QED BY <1>2, <1>3, <1>4 DEF IInv

LEMMA StutterOK == ASSUME IInv, UNCHANGED vars PROVE IInv'
  <1>1. UNCHANGED <<stage, call, data, columns, writer, target, temp, io, copy,
                    result, given, before, swallowed>>
    BY DEF vars
  <1>2. SameCall
    BY <1>1 DEF SameCall
  <1>3. TypeOK' /\ TargetOK' /\ CallOK'
    BY <1>1 DEF IInv, TypeOK, TargetOK, CallOK
  <1>4. GivenRows' = GivenRows /\ AllAccepted' = AllAccepted
    BY <1>2, SameCallFacts
  <1>5. ColumnsOK => ColumnsOK'
    <2>1. \A k : ColumnsOf(k)' = ColumnsOf(k)
      BY <1>1 DEF ColumnsOf
    <2>. QED BY <1>1, <2>1 DEF ColumnsOK
  <1>6. DataOK'
    BY <1>1, <1>4, <1>5 DEF IInv, DataOK, DataGiven, RowsOK, AllTaken
  <1>7. CopyOK'
    BY <1>1, <1>2, DeliveredStill DEF IInv, CopyOK
  <1>8. PathHoldsOldOrWholeFile' /\ IOHoldsBeginningOfWholeFile'
    BY <1>1, <1>2, PropertiesStay DEF IInv
  <1>. QED BY <1>3, <1>6, <1>7, <1>8 DEF IInv

LEMMA Invariance == Spec => []IInv
  <1>1. IInv /\ [Next]_vars => IInv'
    <2>. SUFFICES ASSUME IInv, [Next]_vars PROVE IInv'
      OBVIOUS
    <2>1. CASE Begin
      BY <2>1, BeginOK
    <2>2. CASE CreateWriter
      BY <2>2, CreateWriterOK
    <2>3. CASE WriteRow
      BY <2>3, WriteRowOK
    <2>4. CASE ConvertBatch
      BY <2>4, ConvertBatchOK
    <2>5. CASE WriteColumns
      BY <2>5, WriteColumnsOK
    <2>6. CASE Finalize
      BY <2>6, FinalizeOK
    <2>7. CASE ReadChunk
      BY <2>7, ReadChunkOK
    <2>8. CASE WriteToIO
      BY <2>8, WriteToIOOK
    <2>9. CASE WriteZero
      BY <2>9, WriteZeroOK
    <2>10. CASE WriteRaises
      BY <2>10, WriteRaisesOK
    <2>11. CASE FlushIO
      BY <2>11, FlushIOOK
    <2>12. CASE Dropped
      BY <2>12, DroppedOK
    <2>13. CASE Crash
      BY <2>13, CrashOK
    <2>14. CASE UNCHANGED vars
      BY <2>14, StutterOK
    <2>. QED BY <2>1, <2>2, <2>3, <2>4, <2>5, <2>6, <2>7, <2>8, <2>9, <2>10, <2>11,
                <2>12, <2>13, <2>14 DEF Next, Work
  <1>. QED BY InitOK, <1>1, PTL DEF Spec

----------------------------------------------------------------------------
(* The string cache. *)

Caches == [capacity : Nat, entries : SUBSET Strings, retained_bytes : Nat,
           hits : Nat, misses : Nat]

Admissible(c, s) ==
  /\ Cardinality(c.entries) < c.capacity
  /\ Size[s] <= STRING_CACHE_VALUE_BYTES_MAX
  /\ c.retained_bytes + Size[s] <= STRING_CACHE_RETAINED_BYTES_MAX

\* Positions of the strings, and of those that are not retained.
StringsOf(values) == {i \in DOMAIN values : values[i] \in Strings}
Refused(c, values) == {i \in StringsOf(values) : values[i] \notin c.entries}

\* A string that was refused is refused for good: the cache only grows.
Counted(c, values) ==
  /\ c \in Caches /\ values \in Seq(Values)
  /\ IsFiniteSet(c.entries) /\ Cardinality(c.entries) <= c.capacity
  /\ c.retained_bytes = SumOf(Size, c.entries)
  /\ c.retained_bytes <= STRING_CACHE_RETAINED_BYTES_MAX
  /\ \A i \in Refused(c, values) : ~Admissible(c, values[i])
  /\ c.misses = Cardinality(c.entries) + Cardinality(Refused(c, values))
  /\ c.hits + c.misses = Cardinality(StringsOf(values))

CacheOK ==
  /\ cache # None => Counted(cache, converted)
  /\ stage = "create" => ArgumentsAccepted(call) /\ converted = <<>>

LEMMA SizeFacts == \A s \in Strings : Size[s] \in Nat
  BY PipelineAssumption

LEMMA LimitFacts ==
  /\ STRING_CACHE_CAPACITY_MAX \in Nat /\ STRING_CACHE_VALUE_BYTES_MAX \in Nat
  /\ STRING_CACHE_RETAINED_BYTES_MAX \in Nat /\ DEFAULT_STRING_CACHE_CAPACITY \in Nat
  BY PipelineAssumption

LEMMA UpTo == \A n \in Nat : IsFiniteSet(1 .. n) /\ Cardinality(1 .. n) = n
  BY FS_Interval

\* One value more: its position, if it is a string.
LEMMA StringsOfOneMore ==
  ASSUME NEW values \in Seq(Values), NEW v \in Values
  PROVE  LET n == Len(values) + 1
         IN  /\ Append(values, v) \in Seq(Values)
             /\ Append(values, v)[n] = v
             /\ n \notin StringsOf(values)
             /\ \A i \in StringsOf(values) : Append(values, v)[i] = values[i]
             /\ StringsOf(Append(values, v)) =
                  IF v \in Strings THEN StringsOf(values) \cup {n} ELSE StringsOf(values)
             /\ IsFiniteSet(StringsOf(values))
  <1>. DEFINE n == Len(values) + 1
  <1>1. /\ Len(values) \in Nat /\ DOMAIN values = 1 .. Len(values)
        /\ Append(values, v) \in Seq(Values) /\ DOMAIN Append(values, v) = 1 .. n
        /\ Append(values, v)[n] = v
        /\ \A i \in 1 .. Len(values) : Append(values, v)[i] = values[i]
    BY AppendProperties, LenProperties
  <1>2. n \notin StringsOf(values)
    BY <1>1 DEF StringsOf
  <1>3. \A i \in StringsOf(values) : Append(values, v)[i] = values[i]
    BY <1>1 DEF StringsOf
  <1>4. StringsOf(Append(values, v)) =
          IF v \in Strings THEN StringsOf(values) \cup {n} ELSE StringsOf(values)
    <2>1. 1 .. n = (1 .. Len(values)) \cup {n}
      BY <1>1
    <2>. PICK w : w = Append(values, v)
      OBVIOUS
    <2>2. /\ DOMAIN w = (1 .. Len(values)) \cup {n} /\ w[n] = v
          /\ \A i \in 1 .. Len(values) : w[i] = values[i]
      BY <1>1, <2>1
    <2>3. StringsOf(w) = {i \in (1 .. Len(values)) \cup {n} : w[i] \in Strings}
      BY <2>2 DEF StringsOf
    <2>4. StringsOf(values) = {i \in 1 .. Len(values) : w[i] \in Strings}
      BY <1>1, <2>2 DEF StringsOf
    <2>. HIDE DEF n
    <2>. QED BY <2>2, <2>3, <2>4
  <1>5. IsFiniteSet(StringsOf(values))
    <2>1. StringsOf(values) \subseteq 1 .. Len(values) /\ IsFiniteSet(1 .. Len(values))
      BY <1>1, UpTo DEF StringsOf
    <2>. QED BY <2>1, FS_Subset
  <1>. QED BY <1>1, <1>2, <1>3, <1>4, <1>5

LEMMA SizesAdd ==
  ASSUME NEW S \in SUBSET Strings, IsFiniteSet(S), NEW s \in Strings, s \notin S
  PROVE  SumOf(Size, S \cup {s}) = Size[s] + SumOf(Size, S)
  <1>1. \A y \in S \cup {s} : Size[y] \in Nat
    BY SizeFacts
  <1>. PICK u : u = Size
    OBVIOUS
  <1>2. \A y \in S : u[y] = Size[y]
    OBVIOUS
  <1>3. SumOf(u, S) \in Nat /\ SumOf(Size, S \cup {s}) = Size[s] + SumOf(u, S)
    BY <1>1, <1>2, SumOfOneMore
  <1>. QED BY <1>3

\* What a lookup does to the counts.
LEMMA LookUpCounts ==
  ASSUME NEW c, NEW values, Counted(c, values), NEW v \in Values
  PROVE  Counted(LookedUp(c, v), Append(values, v))
  <1>. DEFINE more == Append(values, v)
              n == Len(values) + 1
  <1>1. /\ c \in Caches /\ values \in Seq(Values)
        /\ IsFiniteSet(c.entries) /\ Cardinality(c.entries) <= c.capacity
        /\ c.retained_bytes = SumOf(Size, c.entries)
        /\ c.retained_bytes <= STRING_CACHE_RETAINED_BYTES_MAX
        /\ \A i \in Refused(c, values) : ~Admissible(c, values[i])
        /\ c.misses = Cardinality(c.entries) + Cardinality(Refused(c, values))
        /\ c.hits + c.misses = Cardinality(StringsOf(values))
    BY DEF Counted
  <1>2. /\ more \in Seq(Values) /\ more[n] = v /\ n \notin StringsOf(values)
        /\ \A i \in StringsOf(values) : more[i] = values[i]
        /\ StringsOf(more) = IF v \in Strings THEN StringsOf(values) \cup {n}
                                              ELSE StringsOf(values)
        /\ IsFiniteSet(StringsOf(values))
    BY <1>1, StringsOfOneMore
  <1>. HIDE DEF more, n
  <1>3. /\ Refused(c, values) \subseteq StringsOf(values)
        /\ IsFiniteSet(Refused(c, values)) /\ n \notin Refused(c, values)
    <2>1. Refused(c, values) \subseteq StringsOf(values)
      BY DEF Refused
    <2>. QED BY <1>2, <2>1, FS_Subset
  <1>4. /\ Cardinality(c.entries) \in Nat /\ Cardinality(Refused(c, values)) \in Nat
        /\ Cardinality(StringsOf(values)) \in Nat
    BY <1>1, <1>2, <1>3, FS_CardinalityType
  <1>5. /\ c.entries \subseteq Strings /\ c.capacity \in Nat /\ c.retained_bytes \in Nat
        /\ c.hits \in Nat /\ c.misses \in Nat
    BY <1>1 DEF Caches
  <1>6. CASE v \notin Strings
    <2>1. LookedUp(c, v) = c /\ StringsOf(more) = StringsOf(values)
      BY <1>2, <1>6 DEF LookedUp
    <2>2. Refused(c, more) = Refused(c, values)
      BY <1>2, <2>1 DEF Refused
    <2>3. \A i \in Refused(c, more) : ~Admissible(c, more[i])
      BY <1>1, <1>2, <1>3, <2>2
    <2>4. Counted(c, more)
      BY <1>1, <1>2, <2>1, <2>2, <2>3 DEF Counted
    <2>. QED BY <2>1, <2>4 DEF more
  <1>7. CASE v \in Strings
    <2>1. /\ LookedUp(c, v) = intern(c, v)
          /\ StringsOf(more) = StringsOf(values) \cup {n}
          /\ Size[v] \in Nat
      BY <1>2, <1>7, SizeFacts DEF LookedUp
    <2>2. Cardinality(StringsOf(more)) = Cardinality(StringsOf(values)) + 1
      BY <1>2, <2>1, FS_AddElement
    <2>3. CASE v \in c.entries
      <3>. PICK d : d = intern(c, v)
        OBVIOUS
      <3>1. d = [c EXCEPT !.hits = @ + 1]
        BY <2>3 DEF intern
      <3>2. /\ d.entries = c.entries /\ d.capacity = c.capacity /\ d.misses = c.misses
            /\ d.retained_bytes = c.retained_bytes /\ d.hits = c.hits + 1 /\ d \in Caches
        BY <1>1, <1>5, <3>1 DEF Caches
      <3>3. Refused(d, more) = Refused(c, values)
        BY <1>2, <2>1, <2>3, <3>2 DEF Refused
      <3>4. \A i \in Refused(d, more) : ~Admissible(d, more[i])
        BY <1>1, <1>2, <1>3, <3>2, <3>3 DEF Admissible
      <3>5. d.hits + d.misses = Cardinality(StringsOf(more))
        BY <1>1, <1>4, <1>5, <2>2, <3>2
      <3>6. Counted(d, more)
        BY <1>1, <1>2, <3>2, <3>3, <3>4, <3>5 DEF Counted
      <3>. QED BY <2>1, <3>6 DEF more
    <2>4. CASE v \notin c.entries /\ Admissible(c, v)
      <3>. PICK d : d = intern(c, v)
        OBVIOUS
      <3>1. d = [[c EXCEPT !.misses = @ + 1] EXCEPT !.entries = @ \cup {v},
                                                    !.retained_bytes = @ + Size[v]]
        BY <2>4 DEF intern, Admissible, Retained, Missed
      <3>2. /\ d.entries = c.entries \cup {v} /\ d.capacity = c.capacity
            /\ d.misses = c.misses + 1 /\ d.hits = c.hits
            /\ d.retained_bytes = c.retained_bytes + Size[v]
            /\ d \in Caches
        <4>. PICK m : m = [c EXCEPT !.misses = @ + 1]
          OBVIOUS
        <4>. PICK E, B : E = c.entries \cup {v} /\ B = c.retained_bytes + Size[v]
          OBVIOUS
        <4>1. /\ m \in Caches /\ m.entries = c.entries /\ m.capacity = c.capacity
              /\ m.hits = c.hits /\ m.retained_bytes = c.retained_bytes
              /\ m.misses = c.misses + 1
          BY <1>1, <1>5 DEF Caches
        <4>2. d = [m EXCEPT !.entries = E, !.retained_bytes = B]
          BY <3>1, <4>1
        <4>3. E \in SUBSET Strings /\ B \in Nat
          BY <1>5, <1>7, <2>1
        <4>4. /\ d.entries = E /\ d.capacity = m.capacity /\ d.misses = m.misses
              /\ d.hits = m.hits /\ d.retained_bytes = B /\ d \in Caches
          BY <4>1, <4>2, <4>3 DEF Caches
        <4>. QED BY <4>1, <4>4
      \* It was not looked up before, or it would have been retained then.
      <3>3. \A i \in StringsOf(values) : values[i] # v
        BY <1>1, <2>4 DEF Refused
      <3>4. Refused(d, more) = Refused(c, values)
        BY <1>2, <2>1, <3>2, <3>3 DEF Refused
      <3>5. /\ IsFiniteSet(d.entries)
            /\ Cardinality(d.entries) = Cardinality(c.entries) + 1
        BY <1>1, <2>4, <3>2, FS_AddElement
      <3>6. ASSUME NEW i \in Refused(d, more) PROVE ~Admissible(d, more[i])
        <4>1. more[i] = values[i] /\ ~Admissible(c, values[i]) /\ values[i] \in Strings
          BY <1>1, <1>2, <1>3, <3>4 DEF StringsOf
        <4>2. Size[values[i]] \in Nat
          BY <4>1, SizeFacts
        <4>. QED BY <1>4, <1>5, <2>1, <3>2, <3>5, <4>1, <4>2, LimitFacts DEF Admissible
      <3>7. d.retained_bytes = SumOf(Size, d.entries)
        <4>1. SumOf(Size, c.entries \cup {v}) = Size[v] + SumOf(Size, c.entries)
          BY <1>1, <1>5, <1>7, <2>4, SizesAdd
        <4>. PICK z, r : z = Size[v] /\ r = c.retained_bytes
          OBVIOUS
        <4>2. z + r = r + z
          BY <1>5, <2>1
        <4>. QED BY <1>1, <3>2, <4>1, <4>2
      <3>8. /\ d.misses = Cardinality(d.entries) + Cardinality(Refused(d, more))
            /\ d.hits + d.misses = Cardinality(StringsOf(more))
            /\ Cardinality(d.entries) <= d.capacity
            /\ d.retained_bytes <= STRING_CACHE_RETAINED_BYTES_MAX
        BY <1>1, <1>4, <1>5, <2>2, <2>4, <3>2, <3>4, <3>5 DEF Admissible
      <3>9. Counted(d, more)
        BY <1>2, <3>2, <3>5, <3>6, <3>7, <3>8 DEF Counted
      <3>. QED BY <2>1, <3>9 DEF more
    <2>5. CASE v \notin c.entries /\ ~Admissible(c, v)
      <3>. PICK d : d = intern(c, v)
        OBVIOUS
      <3>1. d = [c EXCEPT !.misses = @ + 1]
        BY <2>5 DEF intern, Admissible, Missed
      <3>2. /\ d.entries = c.entries /\ d.capacity = c.capacity /\ d.hits = c.hits
            /\ d.retained_bytes = c.retained_bytes /\ d.misses = c.misses + 1 /\ d \in Caches
        BY <1>1, <1>5, <3>1 DEF Caches
      <3>3. Refused(d, more) = Refused(c, values) \cup {n}
        BY <1>2, <2>1, <2>5, <3>2 DEF Refused
      <3>4. ASSUME NEW i \in Refused(d, more) PROVE ~Admissible(d, more[i])
        <4>1. ~Admissible(c, more[i])
          BY <1>1, <1>2, <1>3, <2>5, <3>3
        <4>. QED BY <3>2, <4>1 DEF Admissible
      <3>5. Cardinality(Refused(d, more)) = Cardinality(Refused(c, values)) + 1
        BY <1>3, <3>3, FS_AddElement
      <3>6. /\ d.misses = Cardinality(d.entries) + Cardinality(Refused(d, more))
            /\ d.hits + d.misses = Cardinality(StringsOf(more))
        <4>. PICK h, m, e, r, t : /\ h = c.hits /\ m = c.misses
                                  /\ e = Cardinality(c.entries)
                                  /\ r = Cardinality(Refused(c, values))
                                  /\ t = Cardinality(StringsOf(values))
          OBVIOUS
        <4>1. /\ h \in Nat /\ m \in Nat /\ e \in Nat /\ r \in Nat /\ t \in Nat
              /\ m = e + r /\ h + m = t
          BY <1>1, <1>4, <1>5
        <4>2. m + 1 = e + (r + 1) /\ h + (m + 1) = t + 1
          BY <4>1
        <4>. QED BY <2>2, <3>2, <3>5, <4>2
      <3>7. Counted(d, more)
        BY <1>1, <1>2, <3>2, <3>4, <3>6 DEF Counted
      <3>. QED BY <2>1, <3>7 DEF more
    <2>. QED BY <2>3, <2>4, <2>5
  <1>. QED BY <1>6, <1>7

\* f[s] is the cache after the values at the positions s, for every set of them.
Folds(f, c, values) ==
  f = [s \in SUBSET DOMAIN values |->
         IF s = {} THEN c ELSE LookedUp(f[s \ {Max(s)}], values[Max(s)])]

\* A set of positions has a last one.
LEMMA LastPosition ==
  ASSUME NEW n \in Nat, NEW s \in SUBSET (1 .. n), s # {}
  PROVE  Max(s) \in s /\ \A y \in s : y <= Max(s)
  <1>1. \E x \in s : \A y \in s : y <= x
    <2>1. s \subseteq Nat /\ \A x \in s : x <= n
      OBVIOUS
    <2>. QED BY <2>1, GreatestElement
  <1>2. \E x \in s : \A y \in s : x >= y
    BY <1>1
  <1>3. Max(s) \in s /\ \A y \in s : Max(s) >= y
    BY <1>2 DEF Max
  <1>. QED BY <1>3

LEMMA FoldsExist ==
  ASSUME NEW c, NEW values \in Seq(Values)
  PROVE  \E f : Folds(f, c, values)
  <1>. DEFINE S == DOMAIN values
              Sub(n) == {s \in SUBSET S : Cardinality(s) <= n}
              Rest(f, s) == IF s = {} THEN c
                            ELSE LookedUp(f[s \ {Max(s)}], values[Max(s)])
              Good(n, f) == f = [s \in Sub(n) |-> Rest(f, s)]
              T == {n \in Nat : \E f : Good(n, f)}
  <1>0. Len(values) \in Nat /\ S = 1 .. Len(values) /\ IsFiniteSet(S)
    BY LenProperties, UpTo
  <1>1. 0 \in T
    <2>. DEFINE f == [s \in Sub(0) |-> c]
    <2>1. \A s \in Sub(0) : s = {}
      BY <1>0, FS_Subset, FS_EmptySet, FS_CardinalityType
    <2>2. \A s \in Sub(0) : Rest(f, s) = c
      BY <2>1
    <2>. HIDE DEF Sub, Rest
    <2>3. Good(0, f)
      BY <2>2
    <2>. QED BY <2>3
  <1>2. ASSUME NEW n \in Nat, n \in T
        PROVE  n + 1 \in T
    <2>1. PICK f : Good(n, f)
      BY <1>2
    <2>. DEFINE g == [s \in Sub(n + 1) |-> Rest(f, s)]
    <2>2. ASSUME NEW s \in Sub(n + 1), s # {}
          PROVE  g[s \ {Max(s)}] = f[s \ {Max(s)}]
      <3>. DEFINE t == s \ {Max(s)}
      <3>1. Max(s) \in s /\ s \in SUBSET S /\ Cardinality(s) <= n + 1
        BY <1>0, <2>2, LastPosition
      <3>2. t \in Sub(n) /\ t \in Sub(n + 1)
        <4>. PICK x : x = Max(s)
          OBVIOUS
        <4>. HIDE DEF S
        <4>1. x \in s
          BY <3>1
        <4>2. /\ s \ {x} \in SUBSET S /\ Cardinality(s \ {x}) \in Nat
              /\ Cardinality(s \ {x}) <= n
          BY <1>0, <3>1, <4>1, WithoutOne
        <4>3. Cardinality(s \ {x}) <= n + 1
          BY <4>2
        <4>. QED BY <4>2, <4>3
      <3>. HIDE DEF Sub, Rest, t
      <3>3. g[t] = Rest(f, t) /\ f[t] = Rest(f, t)
        BY <2>1, <3>2
      <3>. QED BY <3>3 DEF t
    <2>3. \A s \in Sub(n + 1) : g[s] = Rest(g, s)
      <3>. SUFFICES ASSUME NEW s \in Sub(n + 1) PROVE g[s] = Rest(g, s)
        OBVIOUS
      <3>1. g[s] = Rest(f, s)
        OBVIOUS
      <3>. HIDE DEF g, Sub
      <3>. QED BY <3>1, <2>2
    <2>4. DOMAIN g = Sub(n + 1) /\ g = [s \in Sub(n + 1) |-> g[s]]
      OBVIOUS
    <2>. HIDE DEF g, Sub, Rest
    <2>5. Good(n + 1, g)
      BY <2>3, <2>4
    <2>. HIDE DEF Good
    <2>. QED BY <2>5
  <1>. HIDE DEF T
  <1>3. Cardinality(S) \in Nat /\ Cardinality(S) \in T
    <2>1. Cardinality(S) \in Nat
      BY <1>0, FS_CardinalityType
    <2>. QED BY <1>1, <1>2, <2>1, NatSetInduction
  <1>4. PICK f : Good(Cardinality(S), f)
    BY <1>3 DEF T
  <1>5. Sub(Cardinality(S)) = SUBSET S
    BY <1>0, <1>3, FS_Subset
  <1>6. f = [s \in SUBSET S |-> Rest(f, s)]
    <2>. HIDE DEF Sub, Rest, S
    <2>. QED BY <1>4, <1>5
  <1>. QED BY <1>6 DEF Folds

\* The cache after all values.
LEMMA FoldFacts ==
  ASSUME NEW c, NEW values \in Seq(Values)
  PROVE  \E f : Folds(f, c, values) /\ FoldLeft(LookedUp, c, values) = f[DOMAIN values]
  <1>. DEFINE Is(f) == f = [s \in SUBSET DOMAIN values |->
                              IF s = {} THEN c
                              ELSE LookedUp(f[s \ {Max(s)}], values[Max(s)])]
              f == CHOOSE f : Is(f)
  <1>1. FoldLeft(LookedUp, c, values) = f[DOMAIN values]
    BY DEF FoldLeft, MapThenFoldSet
  <1>2. \E g : Is(g)
    <2>1. PICK g : Folds(g, c, values)
      BY FoldsExist
    <2>2. Is(g)
      BY <2>1 DEF Folds
    <2>. QED BY <2>2
  <1>. HIDE DEF Is
  <1>3. Is(f)
    BY <1>2
  <1>. HIDE DEF f
  <1>4. Folds(f, c, values)
    BY <1>3 DEF Is, Folds
  <1>. QED BY <1>1, <1>4

LEMMA ValuesThree == \A a, b, c \in Seq(Values) : (a \o b) \o c = a \o (b \o c)
  BY ConcatThree

LEMMA FoldCounts ==
  ASSUME NEW c, NEW known, Counted(c, known), NEW values \in Seq(Values)
  PROVE  Counted(FoldLeft(LookedUp, c, values), known \o values)
  <1>1. PICK f : Folds(f, c, values) /\ FoldLeft(LookedUp, c, values) = f[DOMAIN values]
    BY FoldFacts
  <1>. DEFINE Upto(n) == SubSeq(values, 1, n)
              T == {n \in Nat : n <= Len(values) => Counted(f[1 .. n], known \o Upto(n))}
  <1>2. /\ Len(values) \in Nat /\ DOMAIN values = 1 .. Len(values)
        /\ known \in Seq(Values)
    BY LenProperties DEF Counted
  <1>3. 0 \in T
    <2>1. f[{}] = c
      BY <1>1 DEF Folds
    <2>2. 1 .. 0 = {} /\ known \o Upto(0) = known
      BY <1>2
    <2>. QED BY <2>1, <2>2
  <1>4. ASSUME NEW n \in Nat, n \in T PROVE n + 1 \in T
    <2>. SUFFICES ASSUME n + 1 <= Len(values)
                  PROVE  Counted(f[1 .. n + 1], known \o Upto(n + 1))
      OBVIOUS
    <2>1. Counted(f[1 .. n], known \o Upto(n))
      BY <1>2, <1>4
    <2>. DEFINE s == 1 .. n + 1
    <2>2. Max(s) = n + 1
      <3>1. s \in SUBSET (1 .. n + 1) /\ s # {} /\ n + 1 \in s /\ n + 1 \in Nat
        <4>1. n + 1 \in Nat /\ n + 1 \in s
          OBVIOUS
        <4>2. s \in SUBSET (1 .. n + 1)
          OBVIOUS
        <4>3. s # {}
          BY <4>1
        <4>. QED BY <4>1, <4>2, <4>3
      <3>2. Max(s) \in s /\ \A y \in s : y <= Max(s)
        BY <3>1, LastPosition
      <3>3. Max(s) <= n + 1
        BY <3>2
      <3>. QED BY <3>1, <3>2, <3>3
    <2>3. s \ {n + 1} = 1 .. n /\ s # {} /\ s \in SUBSET DOMAIN values
      <3>1. s \ {n + 1} = 1 .. n /\ 1 \in s
        OBVIOUS
      <3>2. s \subseteq 1 .. Len(values)
        BY <1>2
      <3>. QED BY <1>2, <3>1, <3>2
    <2>. HIDE DEF s
    <2>4. f[s] = LookedUp(f[s \ {Max(s)}], values[Max(s)])
      BY <1>1, <2>3 DEF Folds
    <2>5. f[s] = LookedUp(f[1 .. n], values[n + 1])
      BY <2>2, <2>3, <2>4
    <2>6. values[n + 1] \in Values
      BY <1>2, ElementOfSeq
    <2>7. Counted(f[s], Append(known \o Upto(n), values[n + 1]))
      BY <2>1, <2>5, <2>6, LookUpCounts
    <2>8. Append(known \o Upto(n), values[n + 1]) = known \o Upto(n + 1)
      <3>. PICK a, b, z : a = Upto(n) /\ b = Upto(n + 1) /\ z = values[n + 1]
        OBVIOUS
      <3>1. a \in Seq(Values) /\ b = Append(a, z)
        BY <1>2, <2>6
      <3>2. known \o a \in Seq(Values) /\ z \in Values
        BY <1>2, <2>6, <3>1
      <3>3. Append(known \o a, z) = known \o Append(a, z)
        <4>1. \A u \in Seq(Values) : Append(u, z) = u \o <<z>>
          BY <3>2
        <4>2. (known \o a) \o <<z>> = known \o (a \o <<z>>)
          <5>1. <<z>> \in Seq(Values)
            BY <3>2
          <5>2. known \in Seq(Values)
            BY <1>2
          <5>. QED BY <3>1, <5>1, <5>2, ValuesThree, Zenon
        <4>. QED BY <3>1, <3>2, <4>1, <4>2
      <3>. QED BY <3>1, <3>3
    <2>. QED BY <2>7, <2>8 DEF s
  <1>. HIDE DEF T
  <1>5. Len(values) \in T
    BY <1>2, <1>3, <1>4, NatSetInduction
  <1>6. Counted(f[1 .. Len(values)], known \o Upto(Len(values)))
    BY <1>2, <1>5 DEF T
  <1>7. Upto(Len(values)) = values
    BY <1>2
  <1>. QED BY <1>1, <1>2, <1>6, <1>7

\* What is converted of a row is a part of it.
LEMMA ConvertedPartFacts ==
  ASSUME NEW values \in Seq(Values)
  PROVE  ConvertedPart(values) \in Seq(Values)
  <1>. DEFINE I == {i \in 1 .. Len(values) : values[i] = Bad}
              k == IF I # {} THEN Min(I) ELSE 0
              n == IF Converts(values) THEN Len(values) ELSE k - 1
              m == Lesser(n, NumFields)
  <1>1. Len(values) \in Nat /\ NumFields \in Nat
    BY LenProperties, FieldsFacts
  <1>2. k \in 0 .. Len(values)
    <2>1. CASE I = {}
      BY <1>1, <2>1
    <2>2. CASE I # {}
      <3>1. I \subseteq Nat
        BY <1>1
      <3>2. \E x \in I : \A y \in I : x <= y
        BY <2>2, <3>1, LeastElement
      <3>. HIDE DEF I
      <3>3. Min(I) \in I
        BY <3>2 DEF Min
      <3>. QED BY <1>1, <2>2, <3>3 DEF I
    <2>. QED BY <2>1, <2>2
  <1>3. SelectInSeq(values, LAMBDA v : v = Bad) = k
    BY DEF SelectInSeq
  <1>. HIDE DEF k
  <1>4. m \in Int /\ m <= Len(values)
    BY <1>1, <1>2 DEF Lesser
  <1>5. ConvertedPart(values) = SubSeq(values, 1, m)
    BY <1>3 DEF ConvertedPart
  <1>. HIDE DEF m
  <1>6. SubSeq(values, 1, m) \in Seq(Values)
    BY <1>1, <1>4
  <1>. QED BY <1>5, <1>6

LEMMA NewCacheCounts ==
  ASSUME NEW capacity \in 1 .. STRING_CACHE_CAPACITY_MAX
  PROVE  Counted(NewCache(capacity), <<>>)
  <1>. PICK c : c = NewCache(capacity)
    OBVIOUS
  <1>1. /\ c.entries = {} /\ c.retained_bytes = 0 /\ c.hits = 0 /\ c.misses = 0
        /\ c.capacity \in Nat /\ c \in Caches
    BY LimitFacts DEF NewCache, Lesser, Caches
  <1>2. StringsOf(<<>>) = {} /\ Refused(c, <<>>) = {}
    BY DEF StringsOf, Refused
  <1>3. IsFiniteSet({}) /\ Cardinality({}) = 0
    BY FS_EmptySet
  <1>4. SumOf(Size, {}) = 0
    BY SumOfNone
  <1>5. /\ c.retained_bytes = SumOf(Size, c.entries)
        /\ c.retained_bytes <= STRING_CACHE_RETAINED_BYTES_MAX
    BY <1>1, <1>4, LimitFacts
  <1>6. /\ Cardinality(c.entries) <= c.capacity
        /\ c.misses = Cardinality(c.entries) + Cardinality(Refused(c, <<>>))
        /\ c.hits + c.misses = Cardinality(StringsOf(<<>>))
    <2>1. Cardinality(c.entries) = 0
      BY <1>1, <1>3
    <2>2. Cardinality(Refused(c, <<>>)) = 0
      BY <1>2, <1>3
    <2>3. Cardinality(StringsOf(<<>>)) = 0
      BY <1>2, <1>3
    <2>4. c.misses = 0 /\ c.hits = 0 /\ c.capacity \in Nat
      BY <1>1
    <2>. QED BY <2>1, <2>2, <2>3, <2>4
  <1>7. <<>> \in Seq(Values)
    OBVIOUS
  <1>. QED BY <1>1, <1>2, <1>3, <1>5, <1>6, <1>7 DEF Counted

LEMMA CacheInvariant == Spec => []CacheOK
  <1>1. Init => CacheOK
    BY DEF Init, CacheOK
  <1>2. IInv /\ CacheOK /\ [Next]_vars => CacheOK'
    <2>. SUFFICES ASSUME IInv, CacheOK, [Next]_vars PROVE CacheOK'
      OBVIOUS
    <2>1. CASE Begin
      <3>1. cache' = None /\ converted' = <<>>
        BY <2>1 DEF Begin
      <3>2. stage' = "create" => ArgumentsAccepted(call')
        BY <2>1 DEF Begin
      <3>3. stage' = "create" => ArgumentsAccepted(call)'
        BY <3>2 DEF ArgumentsAccepted, parse_string_cache
      <3>. QED BY <3>1, <3>3 DEF CacheOK
    <2>2. CASE CreateWriter
      <3>1. stage = "create" /\ converted' = converted
        BY <2>2 DEF CreateWriter
      <3>2. ArgumentsAccepted(call) /\ converted = <<>>
        BY <3>1 DEF CacheOK
      <3>3. stage' \in {"idle", "write_rows", "write_columns"}
        <4>1. stage' = "idle" \/ stage' = call.method
          BY <2>2 DEF CreateWriter, RaiseKeepingTarget, Raise
        <4>2. call \in Calls
          BY <3>1 DEF IInv, CallOK
        <4>. QED BY <4>1, <4>2, CallFacts
      <3>4. cache' = cache \/ cache' = CacheFor(parse_string_cache(call.string_cache))
        BY <2>2 DEF CreateWriter
      <3>5. cache' # None => Counted(cache', converted')
        <4>1. CASE cache' = cache
          BY <3>1, <4>1 DEF CacheOK
        <4>2. CASE cache' = CacheFor(parse_string_cache(call.string_cache))
          <5>. PICK capacity : capacity = parse_string_cache(call.string_cache)
            OBVIOUS
          <5>1. capacity # None => capacity \in 1 .. STRING_CACHE_CAPACITY_MAX
            BY <3>2 DEF ArgumentsAccepted
          <5>2. cache' = IF capacity = None THEN None ELSE NewCache(capacity)
            BY <4>2 DEF CacheFor
          <5>. QED BY <3>1, <3>2, <5>1, <5>2, NewCacheCounts
        <4>. QED BY <3>4, <4>1, <4>2
      <3>. QED BY <3>3, <3>5 DEF CacheOK
    <2>3. CASE WriteRow
      <3>1. stage = "write_rows" /\ data # <<>> /\ stage' # "create"
        BY <2>3 DEF WriteRow, RaiseKeepingTarget, Raise
      <3>2. \/ UNCHANGED <<cache, converted>>
            \/ LookUp(Head(data)) /\ Head(data) # NotArray
        BY <2>3 DEF WriteRow
      <3>3. CASE UNCHANGED <<cache, converted>>
        BY <3>1, <3>3 DEF CacheOK
      <3>4. CASE /\ LookUp(Head(data)) /\ Head(data) # NotArray
                 /\ ~UNCHANGED <<cache, converted>>
        <4>. PICK part : part = ConvertedPart(Head(data))
          OBVIOUS
        <4>1. /\ cache # None /\ cache' = FoldLeft(LookedUp, cache, part)
              /\ converted' = converted \o part
          BY <3>4 DEF LookUp
        <4>2. Head(data) \in Seq(Values)
          <5>1. data \in RowData
            BY <3>1 DEF IInv, DataOK, RowsOK
          <5>2. Head(data) \in {NotArray} \cup Seq(Values)
            BY <3>1, <5>1 DEF RowData
          <5>. QED BY <3>4, <5>2
        <4>3. part \in Seq(Values)
          BY <4>2, ConvertedPartFacts
        <4>4. Counted(cache, converted)
          BY <4>1 DEF CacheOK
        <4>5. Counted(FoldLeft(LookedUp, cache, part), converted \o part)
          BY <4>3, <4>4, FoldCounts
        <4>. QED BY <3>1, <4>1, <4>5 DEF CacheOK
      <3>. QED BY <3>2, <3>3, <3>4
    <2>4. CASE \/ ConvertBatch \/ WriteColumns \/ Finalize \/ ReadChunk \/ WriteToIO
               \/ WriteZero \/ WriteRaises \/ FlushIO \/ Dropped \/ Crash
      <3>1. UNCHANGED <<cache, converted>>
        BY <2>4 DEF ConvertBatch, WriteColumns, Finalize, ReadChunk, WriteToIO, WriteZero,
                    WriteRaises, FlushIO, Dropped, Crash
      <3>2. stage' # "create"
        <4>1. CASE ConvertBatch
          BY <4>1 DEF ConvertBatch, RaiseKeepingTarget, Raise
        <4>2. CASE WriteColumns
          BY <4>2 DEF WriteColumns, RaiseKeepingTarget, Raise
        <4>3. CASE Finalize
          BY <4>3 DEF Finalize, RaiseKeepingTarget, Raise, Return
        <4>4. CASE ReadChunk
          BY <4>4 DEF ReadChunk
        <4>5. CASE WriteToIO
          BY <4>5 DEF WriteToIO, Writing
        <4>6. CASE WriteZero
          BY <4>6 DEF WriteZero, Writing, GivesUp, RaiseKeepingTarget, Raise
        <4>7. CASE WriteRaises
          BY <4>7 DEF WriteRaises, Writing, GivesUp, RaiseKeepingTarget, Raise
        <4>8. CASE FlushIO
          BY <4>8 DEF FlushIO, Return, Raise
        <4>9. CASE Dropped
          BY <4>9 DEF Dropped, RaiseKeepingTarget, Raise
        <4>10. CASE Crash
          BY <4>10 DEF Crash
        <4>. QED BY <2>4, <4>1, <4>2, <4>3, <4>4, <4>5, <4>6, <4>7, <4>8, <4>9, <4>10
      <3>. QED BY <3>1, <3>2 DEF CacheOK
    <2>5. CASE UNCHANGED vars
      BY <2>5 DEF vars, CacheOK, ArgumentsAccepted, parse_string_cache
    <2>. QED BY <2>1, <2>2, <2>3, <2>4, <2>5 DEF Next, Work
  <1>. QED BY <1>1, <1>2, Invariance, PTL DEF Spec

\* The sum of the property.
LEMMA SizesSum ==
  ASSUME NEW S, IsFiniteSet(S)
  PROVE  MapThenSumSet(LAMBDA s : Size[s], S) = SumOf(Size, S)
  <1>. DEFINE Rest(f, s) == IF s = {} THEN 0 ELSE
                Size[CHOOSE x \in s : TRUE] + f[s \ {CHOOSE x \in s : TRUE}]
              f == CHOOSE f : f = [s \in SUBSET S |-> Rest(f, s)]
  <1>1. MapThenSumSet(LAMBDA s : Size[s], S) = f[S]
    BY DEF MapThenSumSet, MapThenFoldSet
  <1>2. PICK g : Sums(g, S, Size)
    BY SumsExist
  <1>3. g = [s \in SUBSET S |-> Rest(g, s)]
    BY <1>2 DEF Sums, AnElement
  <1>4. f = [s \in SUBSET S |-> Rest(f, s)]
    BY <1>3
  <1>. HIDE DEF f
  <1>5. Sums(f, S, Size)
    BY <1>4 DEF Sums, AnElement
  <1>. QED BY <1>1, <1>5, SumIs

----------------------------------------------------------------------------
(* Theorems. *)

\* write_rows and write_columns to a path: whatever fails and wherever the process
\* ends, a reader of the path gets the file from before the call or all rows of it.
THEOREM PathsHoldWholeFiles == Spec => []PathHoldsOldOrWholeFile
  <1>1. IInv => PathHoldsOldOrWholeFile
    BY DEF IInv
  <1>. QED BY <1>1, Invariance, PTL

\* write_rows and write_columns to an IO: whatever its writes answer, it gets the
\* finished file from its beginning, at most a buffer of it twice.
THEOREM IOGetsABeginning == Spec => []IOHoldsBeginningOfWholeFile
  <1>1. IInv => IOHoldsBeginningOfWholeFile
    BY DEF IInv
  <1>. QED BY <1>1, Invariance, PTL

\* StringCache::intern: however many strings are looked up, the cache stays within its
\* limits and its counts are those of what it holds and has refused.
THEOREM CacheCountsAreExactAlways == Spec => []CacheCountsAreExact
  <1>1. CacheOK => CacheCountsAreExact
    <2>. SUFFICES ASSUME CacheOK, cache # None PROVE CacheCountsAreExact
      BY DEF CacheCountsAreExact
    <2>1. Counted(cache, converted)
      BY DEF CacheOK
    <2>2. cache.retained_bytes = MapThenSumSet(LAMBDA s : Size[s], cache.entries)
      <3>1. IsFiniteSet(cache.entries) /\ cache.retained_bytes = SumOf(Size, cache.entries)
        BY <2>1 DEF Counted
      <3>. QED BY <3>1, SizesSum
    <2>. QED BY <2>1, <2>2 DEF Counted, CacheCountsAreExact, StringsOf, Refused
  <1>. QED BY <1>1, CacheInvariant, PTL
================================================================================
