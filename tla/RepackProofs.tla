----------------------------- MODULE RepackProofs -----------------------------
(***************************************************************************)
(* What Parquet.repack does to rows and files, proved for any files, calls *)
(* and chunk size, whatever fails, is interrupted, replaced or dies.       *)
(***************************************************************************)
EXTENDS Repack, DataFacts

----------------------------------------------------------------------------
(* The inductive invariant. *)

Phases == {"idle", "schemas", "open", "read", "write", "full", "finish", "persist"}

\* The first input is opened and no output is renamed yet.
Copying == {"open", "read", "write", "full", "finish"}

Files == [Paths -> Content \cup {NoFile}]
Outputs == [temp : Nat \X Nat, rows : Seq(Rows), num_rows : Nat, path : Paths]
Reports == [path : Paths, num_rows : Nat]
Readers == [schema : Schemas \cup {NoSchema}, rows : Seq(Rows)]

TypeOK ==
  /\ files \in Files /\ before \in Files
  /\ phase \in Phases
  /\ args \in Calls \cup {NoArgs}
  /\ schema \in Schemas \cup {NoSchema}
  /\ inputs \in Seq(Paths)
  /\ reader \in Readers
  /\ batch \in Seq(Rows) /\ consumed \in Seq(Rows)
  /\ output \in Seq(Outputs) /\ completed_outputs \in Seq(Outputs)
  /\ current_output_rows \in Nat /\ output_index \in Nat /\ calls \in Nat
  /\ repacked_files \in Seq(Reports)
  /\ cancelled \in BOOLEAN /\ cancelled_early \in BOOLEAN /\ replaced \in BOOLEAN

\* What is set in which phase.
PhaseOK ==
  /\ phase # "idle" => args \in Calls
  /\ phase \in Copying \cup {"persist"} => schema \in Schemas
  /\ phase \in {"idle", "schemas", "persist"} => output = <<>>
  /\ phase \in {"idle", "schemas"} => completed_outputs = <<>>
  /\ phase \in Copying \cup {"schemas"} => repacked_files = <<>>
  /\ phase \in {"schemas", "open", "read", "finish", "persist"} => batch = <<>>
  /\ phase \in {"schemas", "open", "finish", "persist"} => reader.rows = <<>>
  /\ phase \in {"finish", "persist"} => inputs = <<>>
  /\ phase = "schemas" => consumed = <<>> /\ output_index = 0 /\ current_output_rows = 0
  /\ phase = "full" => output # <<>>
  /\ phase = "idle" /\ args = NoArgs => repacked_files = <<>>
  /\ outcome = "files" => phase = "idle"

\* The inputs from the first that is not opened on.
Opened == Len(args.read_from) - Len(inputs)
InputsOK ==
  phase \in Copying \cup {"persist"} =>
    /\ Opened \in 0 .. Len(args.read_from)
    /\ \A i \in DOMAIN inputs : inputs[i] = args.read_from[Opened + i]

\* The i-th output of the call.
IsOutput(o, i) ==
  /\ i \in DOMAIN OutputPath[args.prefix]
  /\ o.path = OutputPath[args.prefix][i]
  /\ o.temp = <<calls, i - 1>>
  /\ o.num_rows = Len(o.rows)

OutputsOK ==
  /\ \A i \in DOMAIN completed_outputs :
       IsOutput(completed_outputs[i], Len(repacked_files) + i)
  /\ phase \in Copying => Len(completed_outputs) = output_index
  /\ Len(output) <= 1
  /\ output = <<>> /\ phase \in Copying => current_output_rows = 0
  /\ output # <<>> =>
       /\ IsOutput(output[1], output_index + 1)
       /\ current_output_rows = Len(output[1].rows)
       /\ output[1].rows = <<>> => phase = "write" /\ batch # <<>>

\* How far the outputs are filled; only the last of all may have no rows.
FillOK ==
  /\ args.rows_per_file # NoLimit =>
       /\ phase \in Copying \ {"full"} => current_output_rows < args.rows_per_file
       /\ phase = "full" => current_output_rows = args.rows_per_file
       /\ \A i \in DOMAIN completed_outputs :
            \/ Len(completed_outputs[i].rows) = args.rows_per_file
            \/ phase = "persist" /\ i = Len(completed_outputs)
                 /\ Len(completed_outputs[i].rows) < args.rows_per_file
  /\ \A i \in DOMAIN completed_outputs :
       completed_outputs[i].rows = <<>> => phase = "persist" /\ consumed = <<>>

\* Every row is in one place; during the renames too.
RowsOK ==
  phase \in Copying =>
    consumed = RowsOf(completed_outputs) \o RowsOf(output) \o batch

\* The rows of the first k paths in ps, when they hold what f says.
RowsAt(f, p) == IF f[p] = NoFile THEN <<>> ELSE f[p].rows
Originals(f, ps, k) == FlattenSeq([i \in 1 .. k |-> RowsAt(f, ps[i])])

SourceOK ==
  ~replaced /\ args # NoArgs =>
    /\ IsPrefix(consumed, Originals(before, args.read_from, Len(args.read_from)))
    /\ phase \in Copying \cup {"persist"} =>
         consumed \o reader.rows = Originals(before, args.read_from, Opened)
    /\ repacked_files # <<>> =>
         consumed = Originals(before, args.read_from, Len(args.read_from))

\* What stands at the first k paths that a list of reports names.
Reported(f, reports, k) == FlattenSeq([i \in 1 .. k |-> f[reports[i].path].rows])
AllReported == Reported(files, repacked_files, Len(repacked_files))

FilesOK ==
  ~replaced =>
    /\ \A i \in DOMAIN repacked_files :
         /\ i \in DOMAIN OutputPath[args.prefix]
         /\ repacked_files[i].path = OutputPath[args.prefix][i]
         /\ files[repacked_files[i].path] # NoFile
         /\ files[repacked_files[i].path].schema = schema
         /\ repacked_files[i].num_rows = Len(files[repacked_files[i].path].rows)
    /\ \A p \in Paths \ {repacked_files[i].path : i \in DOMAIN repacked_files} :
         files[p] = before[p]
    /\ repacked_files # <<>> => IsPrefix(AllReported, consumed)
    /\ phase = "persist" =>
         consumed = AllReported \o RowsOf(completed_outputs)
    /\ outcome = "files" => consumed = AllReported

\* Temporary files are those of the call and of calls that died.
TempsOK ==
  /\ temps = orphans \cup Held
  /\ \A t \in orphans : t[1] \in Nat /\ t[1] <= calls /\ (phase # "idle" => t[1] < calls)

\* After an interrupt that came early there are always rows left.
CancelOK ==
  cancelled_early =>
    /\ cancelled
    /\ repacked_files = <<>>
    /\ phase \in {"idle", "read", "write", "full"}
    /\ phase # "idle" => batch # <<>> \/ reader.rows # <<>>

IInv ==
  /\ TypeOK /\ PhaseOK /\ InputsOK /\ OutputsOK /\ FillOK /\ RowsOK
  /\ SourceOK /\ FilesOK /\ TempsOK /\ CancelOK

----------------------------------------------------------------------------
(* Arguments, outputs and files. *)

LEMMA LesserFacts ==
  ASSUME NEW a \in Nat, NEW b \in Nat
  PROVE  Lesser(a, b) \in Nat /\ Lesser(a, b) <= a /\ Lesser(a, b) <= b
         /\ (Lesser(a, b) = a \/ Lesser(a, b) = b)
  BY DEF Lesser

LEMMA NoArgsIsNoCall == NoArgs \notin Calls
  BY RepackAssumption DEF NoArgs

\* A call names an input, an output prefix and positive limits.
LEMMA CallFacts ==
  ASSUME NEW a \in Calls
  PROVE  /\ a.read_from \in Seq(Paths) /\ a.read_from # <<>>
         /\ Len(a.read_from) \in Nat \ {0}
         /\ a.prefix \in DOMAIN OutputPath
         /\ a.rows_per_file # NoLimit => a.rows_per_file \in Nat \ {0}
         /\ a.max_rows \in Nat \ {0}
  <1>1. a \in [read_from : Seq(Paths) \ {<<>>}, prefix : DOMAIN OutputPath,
               rows_per_file : (Nat \ {0}) \cup {NoLimit}, max_rows : Nat \ {0}]
    BY RepackAssumption
  <1>. QED BY <1>1, EmptySeq

\* Outputs of different numbers have different paths.
LEMMA OutputPathFacts ==
  ASSUME NEW prefix \in DOMAIN OutputPath, NEW i \in DOMAIN OutputPath[prefix]
  PROVE  /\ OutputPath[prefix][i] \in Paths
         /\ \A j \in DOMAIN OutputPath[prefix] :
              OutputPath[prefix][i] = OutputPath[prefix][j] => i = j
  BY RepackAssumption

LEMMA FileFacts ==
  ASSUME NEW f \in Files, NEW p \in Paths
  PROVE  /\ f[p] # NoFile => f[p] \in Content /\ f[p].schema \in Schemas
                              /\ f[p].rows \in Seq(Rows)
         /\ RowsAt(f, p) \in Seq(Rows)
         /\ NoFile \notin Content
  <1>1. f[p] \in Content \cup {NoFile}
    BY DEF Files
  <1>2. f[p] # NoFile => f[p].schema \in Schemas /\ f[p].rows \in Seq(Rows)
    BY <1>1 DEF Content
  <1>. QED BY <1>1, <1>2, EmptySeq, RepackAssumption DEF RowsAt

\* The arguments while a call runs.
LEMMA Running ==
  ASSUME IInv, phase # "idle"
  PROVE  /\ args \in Calls /\ args # NoArgs
         /\ args.read_from \in Seq(Paths) /\ args.read_from # <<>>
         /\ Len(args.read_from) \in Nat \ {0}
         /\ args.prefix \in DOMAIN OutputPath
         /\ args.rows_per_file # NoLimit => args.rows_per_file \in Nat \ {0}
         /\ args.max_rows \in Nat \ {0}
  BY CallFacts, NoArgsIsNoCall DEF IInv, PhaseOK

----------------------------------------------------------------------------
(* The rows of outputs. *)

LEMMA RowsThree == \A a, b, c \in Seq(Rows) : (a \o b) \o c = a \o (b \o c)
  BY ConcatThree

LEMMA RowsOfMap ==
  ASSUME NEW s \in Seq(Outputs)
  PROVE  LET m == [i \in DOMAIN s |-> s[i].rows]
         IN  /\ m \in Seq(Seq(Rows)) /\ Len(m) = Len(s)
             /\ \A i \in 1 .. Len(s) : m[i] = s[i].rows
             /\ m = [i \in 1 .. Len(s) |-> s[i].rows]
  <1>1. /\ Len(s) \in Nat /\ DOMAIN s = 1 .. Len(s)
        /\ \A i \in 1 .. Len(s) : s[i].rows \in Seq(Rows)
    <2>1. \A i \in 1 .. Len(s) : s[i] \in Outputs
      BY ElementOfSeq
    <2>. QED BY <2>1, LenProperties DEF Outputs
  <1>. QED BY <1>1

LEMMA RowsOfType ==
  ASSUME NEW s \in Seq(Outputs)
  PROVE  RowsOf(s) \in Seq(Rows)
  BY RowsOfMap, FlattenType DEF RowsOf

LEMMA RowsOfNone == RowsOf(<<>>) = <<>>
  <1>1. [i \in DOMAIN <<>> |-> <<>>[i].rows] = <<>>
    OBVIOUS
  <1>. QED BY <1>1, FlattenEmpty DEF RowsOf

LEMMA RowsOfOne ==
  ASSUME NEW o \in Outputs
  PROVE  RowsOf(<<o>>) = o.rows
  <1>1. [i \in DOMAIN <<o>> |-> <<o>>[i].rows] = <<o.rows>>
    OBVIOUS
  <1>2. o.rows \in Seq(Rows)
    BY DEF Outputs
  <1>. QED BY <1>1, <1>2, FlattenOne DEF RowsOf

LEMMA RowsOfAppend ==
  ASSUME NEW s \in Seq(Outputs), NEW o \in Outputs
  PROVE  RowsOf(Append(s, o)) = RowsOf(s) \o o.rows
  <1>. DEFINE t == Append(s, o)
              ms == [i \in DOMAIN s |-> s[i].rows]
              mt == [i \in DOMAIN t |-> t[i].rows]
  <1>1. /\ t \in Seq(Outputs) /\ Len(t) = Len(s) + 1 /\ Len(s) \in Nat
        /\ t[Len(s) + 1] = o
        /\ \A i \in 1 .. Len(s) : t[i] = s[i]
    BY AppendProperties, LenProperties
  <1>. HIDE DEF t
  <1>2. /\ ms \in Seq(Seq(Rows)) /\ Len(ms) = Len(s)
        /\ \A i \in 1 .. Len(s) : ms[i] = s[i].rows
    BY RowsOfMap
  <1>3. /\ mt \in Seq(Seq(Rows)) /\ Len(mt) = Len(t)
        /\ \A i \in 1 .. Len(t) : mt[i] = t[i].rows
    BY <1>1, RowsOfMap
  <1>4. RowsOf(s) = FlattenSeq(ms) /\ RowsOf(t) = FlattenSeq(mt)
    BY DEF RowsOf
  <1>. HIDE DEF ms, mt
  <1>5. FlattenSeq(mt) = FlattenSeq(ms) \o mt[Len(mt)]
    <2>1. \A i \in 1 .. Len(s) : i \in 1 .. Len(t)
      BY <1>1
    <2>2. \A i \in 1 .. Len(ms) : ms[i] = mt[i]
      BY <1>1, <1>2, <1>3, <2>1
    <2>3. Len(mt) = Len(ms) + 1
      BY <1>1, <1>2, <1>3
    <2>. QED BY <1>2, <1>3, <2>2, <2>3, FlattenOneMore
  <1>6. mt[Len(mt)] = o.rows
    BY <1>1, <1>3
  <1>. QED BY <1>4, <1>5, <1>6 DEF t

LEMMA RowsOfFirst ==
  ASSUME NEW s \in Seq(Outputs), s # <<>>
  PROVE  RowsOf(s) = s[1].rows \o RowsOf(Tail(s))
  <1>. DEFINE t == Tail(s)
              ms == [i \in DOMAIN s |-> s[i].rows]
              mt == [i \in DOMAIN t |-> t[i].rows]
  <1>1. /\ t \in Seq(Outputs) /\ Len(t) = Len(s) - 1 /\ Len(s) \in Nat \ {0}
        /\ \A i \in 1 .. Len(t) : t[i] = s[i + 1]
    BY HeadTailProperties, EmptySeq
  <1>. HIDE DEF t
  <1>2. /\ ms \in Seq(Seq(Rows)) /\ Len(ms) = Len(s)
        /\ \A i \in 1 .. Len(s) : ms[i] = s[i].rows
    BY RowsOfMap
  <1>3. /\ mt \in Seq(Seq(Rows)) /\ Len(mt) = Len(t)
        /\ \A i \in 1 .. Len(t) : mt[i] = t[i].rows
    BY <1>1, RowsOfMap
  <1>4. RowsOf(s) = FlattenSeq(ms) /\ RowsOf(t) = FlattenSeq(mt)
    BY DEF RowsOf
  <1>. HIDE DEF ms, mt
  <1>5. ms # <<>> /\ ms[1] = s[1].rows
    BY <1>1, <1>2, EmptySeq
  <1>6. Tail(ms) = mt
    <2>1. /\ Tail(ms) \in Seq(Seq(Rows)) /\ Len(Tail(ms)) = Len(ms) - 1
          /\ \A i \in 1 .. Len(Tail(ms)) : Tail(ms)[i] = ms[i + 1]
      BY <1>2, <1>5, HeadTailProperties
    <2>2. \A i \in 1 .. Len(mt) : Tail(ms)[i] = mt[i]
      <3>. TAKE i \in 1 .. Len(mt)
      <3>1. i + 1 \in 1 .. Len(s) /\ i \in 1 .. Len(t) /\ i \in 1 .. Len(Tail(ms))
        BY <1>1, <1>2, <1>3, <2>1
      <3>2. mt[i] = t[i].rows /\ t[i] = s[i + 1] /\ ms[i + 1] = s[i + 1].rows
        BY <1>1, <1>2, <1>3, <3>1
      <3>. QED BY <2>1, <3>1, <3>2
    <2>. QED BY <1>1, <1>2, <1>3, <2>1, <2>2, SeqEqual
  <1>7. FlattenSeq(ms) = ms[1] \o FlattenSeq(Tail(ms))
    BY <1>2, <1>5, FlattenFirst
  <1>. QED BY <1>4, <1>5, <1>6, <1>7 DEF t

----------------------------------------------------------------------------
(* The rows of inputs and of files that are in place. *)

LEMMA OriginalsFacts ==
  ASSUME NEW f \in Files, NEW ps \in Seq(Paths), NEW k \in 0 .. Len(ps)
  PROVE  /\ Originals(f, ps, k) \in Seq(Rows)
         /\ Originals(f, ps, 0) = <<>>
         /\ IsPrefix(Originals(f, ps, k), Originals(f, ps, Len(ps)))
         /\ k < Len(ps) =>
              Originals(f, ps, k + 1) = Originals(f, ps, k) \o RowsAt(f, ps[k + 1])
  <1>. DEFINE m == [i \in 1 .. Len(ps) |-> RowsAt(f, ps[i])]
  <1>1. Len(ps) \in Nat /\ k \in Nat /\ k <= Len(ps)
    BY LenProperties
  <1>2. /\ m \in Seq(Seq(Rows)) /\ Len(m) = Len(ps)
        /\ \A i \in 1 .. Len(ps) : m[i] = RowsAt(f, ps[i])
    <2>1. \A i \in 1 .. Len(ps) : RowsAt(f, ps[i]) \in Seq(Rows)
      BY ElementOfSeq, FileFacts
    <2>. QED BY <1>1, <2>1
  <1>3. \A n \in 0 .. Len(ps) : Originals(f, ps, n) = FlattenSeq([i \in 1 .. n |-> m[i]])
    <2>. TAKE n \in 0 .. Len(ps)
    <2>1. [i \in 1 .. n |-> m[i]] = [i \in 1 .. n |-> RowsAt(f, ps[i])]
      BY <1>1
    <2>. QED BY <2>1 DEF Originals
  <1>. HIDE DEF m
  <1>4. k \in 0 .. Len(m)
    BY <1>2
  <1>5. 0 \in 0 .. Len(ps) /\ Len(ps) \in 0 .. Len(ps)
        /\ (k < Len(ps) => k + 1 \in 0 .. Len(ps) /\ m[k + 1] = RowsAt(f, ps[k + 1]))
    BY <1>1, <1>2
  <1>. QED BY <1>2, <1>3, <1>4, <1>5, FlattenUpto

\* Reports of files that exist.
InPlace(f, reports) ==
  \A i \in 1 .. Len(reports) : reports[i].path \in Paths /\ f[reports[i].path] # NoFile

LEMMA ReportedFacts ==
  ASSUME NEW f \in Files, NEW r \in Seq(Reports), InPlace(f, r), NEW k \in 0 .. Len(r)
  PROVE  /\ Reported(f, r, k) \in Seq(Rows)
         /\ Reported(f, r, 0) = <<>>
         /\ IsPrefix(Reported(f, r, k), Reported(f, r, Len(r)))
         /\ k < Len(r) => Reported(f, r, k + 1) = Reported(f, r, k) \o f[r[k + 1].path].rows
  <1>. DEFINE m == [i \in 1 .. Len(r) |-> f[r[i].path].rows]
  <1>1. Len(r) \in Nat /\ k \in Nat /\ k <= Len(r)
    BY LenProperties
  <1>2. /\ m \in Seq(Seq(Rows)) /\ Len(m) = Len(r)
        /\ \A i \in 1 .. Len(r) : m[i] = f[r[i].path].rows
    <2>1. \A i \in 1 .. Len(r) : f[r[i].path].rows \in Seq(Rows)
      BY FileFacts DEF InPlace
    <2>. QED BY <1>1, <2>1
  <1>3. \A n \in 0 .. Len(r) : Reported(f, r, n) = FlattenSeq([i \in 1 .. n |-> m[i]])
    <2>. TAKE n \in 0 .. Len(r)
    <2>1. [i \in 1 .. n |-> m[i]] = [i \in 1 .. n |-> f[r[i].path].rows]
      BY <1>1
    <2>. QED BY <2>1 DEF Reported
  <1>. HIDE DEF m
  <1>4. k \in 0 .. Len(m)
    BY <1>2
  <1>5. 0 \in 0 .. Len(r) /\ Len(r) \in 0 .. Len(r)
        /\ (k < Len(r) => k + 1 \in 0 .. Len(r) /\ m[k + 1] = f[r[k + 1].path].rows)
    BY <1>1, <1>2
  <1>. QED BY <1>2, <1>3, <1>4, <1>5, FlattenUpto

----------------------------------------------------------------------------
(* Every step preserves the invariant. *)

LEMMA InitHolds == Init => IInv
  <1>. SUFFICES ASSUME Init PROVE IInv
    OBVIOUS
  <1>. USE DEF Init
  <1>0. Len(<<>>) = 0 /\ DOMAIN <<>> = {}
    OBVIOUS
  <1>1. TypeOK
    <2>1. NoReader \in Readers
      BY EmptySeq DEF NoReader, Readers
    <2>2. <<>> \in Seq(Paths) /\ <<>> \in Seq(Rows) /\ <<>> \in Seq(Outputs) /\ <<>> \in Seq(Reports)
      BY EmptySeq
    <2>3. Initial \in Files
      BY RepackAssumption DEF Files
    <2>. QED BY <2>1, <2>2, <2>3 DEF TypeOK, Phases
  <1>2. PhaseOK /\ InputsOK /\ RowsOK /\ CancelOK
    BY DEF PhaseOK, InputsOK, RowsOK, CancelOK, Copying, NoReader
  <1>3. OutputsOK
    BY <1>0 DEF OutputsOK, Copying
  <1>4. FillOK
    BY <1>0 DEF FillOK, Copying
  <1>5. SourceOK
    BY DEF SourceOK
  <1>6. FilesOK
    BY <1>0 DEF FilesOK
  <1>7. TempsOK
    <2>1. Held = {}
      BY <1>0 DEF Held
    <2>. QED BY <2>1 DEF TempsOK
  <1>. QED BY <1>1, <1>2, <1>3, <1>4, <1>5, <1>6, <1>7 DEF IInv

LEMMA RepackStep ==
  ASSUME IInv, NEW a \in Calls, Repack(a)
  PROVE  IInv'
  <1>. USE DEF Repack, disk
  <1>1. TypeOK'
    <2>1. NoReader \in Readers
      BY EmptySeq DEF NoReader, Readers
    <2>2. <<>> \in Seq(Rows) /\ <<>> \in Seq(Outputs) /\ <<>> \in Seq(Reports)
      BY EmptySeq
    <2>3. TypeOK /\ a.read_from \in Seq(Paths)
      BY CallFacts DEF IInv
    <2>4. files \in Files /\ calls \in Nat /\ calls + 1 \in Nat
      BY <2>3 DEF TypeOK
    <2>. QED BY <2>1, <2>2, <2>3, <2>4 DEF TypeOK, Phases
  <1>2. PhaseOK' /\ InputsOK' /\ RowsOK' /\ CancelOK'
    BY DEF PhaseOK, InputsOK, RowsOK, CancelOK, Copying, NoReader
  <1>3. OutputsOK' /\ FillOK'
    BY DEF OutputsOK, FillOK, Copying
  <1>4. SourceOK'
    <2>1. /\ Originals(files, a.read_from, Len(a.read_from)) \in Seq(Rows)
          /\ Len(a.read_from) \in Nat
      <3>1. files \in Files /\ Len(a.read_from) \in 0 .. Len(a.read_from)
        BY CallFacts DEF IInv, TypeOK
      <3>. QED BY <3>1, CallFacts, OriginalsFacts
    <2>2. IsPrefix(<<>>, Originals(files, a.read_from, Len(a.read_from)))
      <3>1. <<>> \in Seq(Rows)
        BY EmptySeq
      <3>2. <<>> \o Originals(files, a.read_from, Len(a.read_from))
              = Originals(files, a.read_from, Len(a.read_from))
        BY <2>1, ConcatEmptySeq
      <3>. QED BY <2>1, <3>1, <3>2, PrefixOfConcat
    <2>. QED BY <2>2 DEF SourceOK, Copying
  <1>5. FilesOK'
    BY DEF FilesOK
  <1>6. TempsOK'
    <2>1. Held = {} /\ Held' = {}
      BY DEF Held, IInv, PhaseOK
    <2>2. \A t \in orphans : t[1] \in Nat /\ t[1] <= calls
      BY DEF IInv, TempsOK
    <2>3. calls \in Nat
      BY DEF IInv, TypeOK
    <2>. QED BY <2>1, <2>2, <2>3 DEF IInv, TempsOK
  <1>. QED BY <1>1, <1>2, <1>3, <1>4, <1>5, <1>6 DEF IInv

LEMMA ReadSchemaStep ==
  ASSUME IInv, ReadSchema
  PROVE  IInv'
  <1>. USE DEF ReadSchema, disk, target, signal
  <1>1. /\ args \in Calls /\ args.read_from \in Seq(Paths)
        /\ Len(args.read_from) \in Nat \ {0}
    BY Running
  <1>2. /\ inputs \in Seq(Paths) /\ inputs # <<>>
        /\ Head(inputs) \in Paths /\ Tail(inputs) \in Seq(Paths)
        /\ files[Head(inputs)].schema \in Schemas
    <2>1. inputs \in Seq(Paths) /\ files \in Files /\ files[Head(inputs)] # NoFile
      BY DEF IInv, TypeOK
    <2>. QED BY <2>1, HeadTailProperties, FileFacts
  <1>3. phase' \in {"schemas", "open"}
    OBVIOUS
  <1>4. TypeOK'
    BY <1>1, <1>2, <1>3 DEF IInv, TypeOK, Phases
  <1>5. PhaseOK'
    BY <1>1, <1>2, <1>3 DEF IInv, PhaseOK, Copying
  <1>6. InputsOK'
    BY <1>1, <1>3 DEF InputsOK, Opened, Copying
  <1>7. OutputsOK' /\ FillOK' /\ RowsOK'
    <2>1. /\ output = <<>> /\ completed_outputs = <<>> /\ repacked_files = <<>>
          /\ batch = <<>> /\ consumed = <<>> /\ output_index = 0 /\ current_output_rows = 0
      BY DEF IInv, PhaseOK, Copying
    <2>2. OutputsOK'
      BY <2>1, <1>3 DEF OutputsOK, Copying
    <2>3. FillOK'
      BY <1>1, <1>3, <2>1, Running DEF FillOK, Copying
    <2>4. RowsOK'
      <3>1. <<>> \o <<>> \o <<>> = <<>>
        OBVIOUS
      <3>. QED BY <2>1, <3>1, RowsOfNone DEF RowsOK
    <2>. QED BY <2>2, <2>3, <2>4
  <1>8. SourceOK'
    <2>1. consumed = <<>> /\ reader.rows = <<>>
      BY DEF IInv, PhaseOK
    <2>2. phase' = "open" => Opened' = 0
      BY <1>1 DEF Opened
    <2>3. Originals(before, args.read_from, 0) = <<>>
      <3>1. before \in Files /\ 0 \in 0 .. Len(args.read_from)
        BY <1>1 DEF IInv, TypeOK
      <3>. QED BY <1>1, <3>1, OriginalsFacts
    <2>4. <<>> \o <<>> = <<>>
      OBVIOUS
    <2>. QED BY <1>3, <2>1, <2>2, <2>3, <2>4 DEF IInv, SourceOK, Copying
  <1>9. FilesOK'
    <2>1. repacked_files = <<>>
      BY DEF IInv, PhaseOK
    <2>2. phase' # "persist" /\ outcome # "files"
      BY <1>3 DEF IInv, PhaseOK
    <2>. QED BY <2>1, <2>2 DEF IInv, FilesOK
  <1>10. TempsOK' /\ CancelOK'
    <2>1. Held' = Held
      BY DEF Held
    <2>. QED BY <1>3, <2>1 DEF IInv, TempsOK, CancelOK
  <1>. QED BY <1>4, <1>5, <1>6, <1>7, <1>8, <1>9, <1>10 DEF IInv

LEMMA OpenInputStep ==
  ASSUME IInv, OpenInput
  PROVE  IInv'
  <1>. USE DEF OpenInput, disk, target, call, signal
  <1>. DEFINE ps == args.read_from
              p == Head(inputs)
  <1>1. /\ args \in Calls /\ args # NoArgs /\ ps \in Seq(Paths) /\ Len(ps) \in Nat \ {0}
    BY Running
  <1>2. /\ inputs \in Seq(Paths) /\ inputs # <<>> /\ Len(inputs) \in Nat \ {0}
        /\ p \in Paths /\ Tail(inputs) \in Seq(Paths) /\ Len(Tail(inputs)) = Len(inputs) - 1
        /\ p = inputs[1]
        /\ \A i \in 1 .. Len(inputs) - 1 : Tail(inputs)[i] = inputs[i + 1]
        /\ DOMAIN inputs = 1 .. Len(inputs) /\ DOMAIN Tail(inputs) = 1 .. Len(inputs) - 1
    <2>1. inputs \in Seq(Paths) /\ inputs # <<>>
      BY DEF IInv, TypeOK
    <2>. QED BY <2>1, HeadTailProperties, EmptySeq, LenProperties
  <1>3. /\ files \in Files /\ before \in Files /\ files[p] # NoFile
        /\ files[p] \in Content /\ files[p].schema \in Schemas /\ files[p].rows \in Seq(Rows)
    <2>1. files \in Files /\ before \in Files /\ files[p] # NoFile
      BY DEF IInv, TypeOK
    <2>. QED BY <1>2, <2>1, FileFacts
  <1>4. /\ Opened \in 0 .. Len(ps) /\ Opened' = Opened + 1 /\ Opened < Len(ps)
        /\ \A i \in 1 .. Len(inputs) : inputs[i] = ps[Opened + i]
    BY <1>1, <1>2 DEF IInv, InputsOK, Opened, Copying
  <1>5. /\ repacked_files = <<>> /\ reader.rows = <<>> /\ batch = <<>>
        /\ schema \in Schemas /\ outcome # "files"
    BY DEF IInv, PhaseOK, Copying
  <1>. HIDE DEF ps, p
  <1>6. TypeOK'
    <2>1. files[p] \in Readers
      BY <1>3 DEF Content, Readers
    <2>. QED BY <1>2, <2>1 DEF IInv, TypeOK, Phases, p
  <1>7. PhaseOK'
    BY <1>1, <1>5 DEF PhaseOK, Copying
  <1>8. InputsOK'
    <2>1. \A i \in 1 .. Len(inputs) - 1 : inputs[i + 1] = ps[Opened + (i + 1)]
      BY <1>2, <1>4
    <2>2. \A i \in 1 .. Len(inputs) - 1 : Opened + (i + 1) = (Opened + 1) + i
      BY <1>2, <1>4
    <2>3. Opened + 1 \in 0 .. Len(ps)
      BY <1>1, <1>4
    <2>. QED BY <1>2, <1>4, <2>1, <2>2, <2>3 DEF InputsOK, ps
  <1>9. OutputsOK'
    BY DEF IInv, OutputsOK, Copying, IsOutput
  <1>10. FillOK'
    BY DEF IInv, FillOK, Copying
  <1>11. RowsOK'
    BY DEF IInv, RowsOK, Copying
  <1>12. SourceOK'
    <2>. SUFFICES ASSUME ~replaced
                  PROVE  /\ IsPrefix(consumed, Originals(before, ps, Len(ps)))
                         /\ consumed \o files[p].rows = Originals(before, ps, Opened + 1)
      BY <1>1, <1>4, <1>5 DEF SourceOK, p, ps
    <2>1. /\ IsPrefix(consumed, Originals(before, ps, Len(ps)))
          /\ consumed \o reader.rows = Originals(before, ps, Opened)
      BY <1>1 DEF IInv, SourceOK, Copying, ps
    <2>2. consumed \o <<>> = consumed
      <3>1. consumed \in Seq(Rows)
        BY DEF IInv, TypeOK
      <3>. QED BY <3>1, ConcatEmptySeq
    <2>3. ps[Opened + 1] = p
      BY <1>2, <1>4
    <2>4. files[p] = before[p]
      BY <1>2, <1>5 DEF IInv, FilesOK
    <2>5. RowsAt(before, p) = files[p].rows
      BY <1>3, <2>4 DEF RowsAt
    <2>6. Originals(before, ps, Opened + 1) = Originals(before, ps, Opened) \o RowsAt(before, p)
      BY <1>1, <1>3, <1>4, <2>3, OriginalsFacts
    <2>. QED BY <1>5, <2>1, <2>2, <2>5, <2>6
  <1>13. FilesOK'
    BY <1>5 DEF IInv, FilesOK
  <1>14. TempsOK'
    <2>1. Held' = Held
      BY DEF Held
    <2>. QED BY <2>1 DEF IInv, TempsOK
  <1>15. CancelOK'
    BY DEF IInv, CancelOK
  <1>. QED BY <1>6, <1>7, <1>8, <1>9, <1>10, <1>11, <1>12, <1>13, <1>14, <1>15 DEF IInv

LEMMA NextBatchStep ==
  ASSUME IInv, NextBatch
  PROVE  IInv'
  <1>. USE DEF disk, target, call, signal
  <1>1. /\ phase = "read" /\ phase' = "write"
        /\ UNCHANGED <<disk, inputs, target, call, signal, outcome, replaced, orphans>>
    BY DEF NextBatch
  <1>2. /\ args \in Calls /\ args # NoArgs /\ args.max_rows \in Nat \ {0}
        /\ args.read_from \in Seq(Paths) /\ Len(args.read_from) \in Nat
    BY <1>1, Running
  <1>3. /\ reader \in Readers /\ reader.rows \in Seq(Rows) /\ Len(reader.rows) \in Nat
        /\ consumed \in Seq(Rows) /\ batch = <<>> /\ repacked_files = <<>>
        /\ schema \in Schemas /\ outcome # "files"
    <2>1. reader \in Readers /\ consumed \in Seq(Rows)
      BY DEF IInv, TypeOK
    <2>2. reader.rows \in Seq(Rows)
      BY <2>1 DEF Readers
    <2>. QED BY <1>1, <2>1, <2>2, LenProperties DEF IInv, PhaseOK, Copying
  <1>4. PICK n \in 1 .. Lesser(Len(reader.rows), effective_max_read_rows_per_chunk) :
          /\ batch' = SubSeq(reader.rows, 1, n)
          /\ consumed' = consumed \o SubSeq(reader.rows, 1, n)
          /\ reader' = [reader EXCEPT !.rows = SubSeq(@, n + 1, Len(@))]
    BY DEF NextBatch
  <1>5. n \in 1 .. Len(reader.rows) /\ n \in 0 .. Len(reader.rows)
    <2>1. effective_max_read_rows_per_chunk \in Nat
      BY <1>2, LesserFacts, RepackAssumption DEF effective_max_read_rows_per_chunk
    <2>2. Lesser(Len(reader.rows), effective_max_read_rows_per_chunk) \in Nat
          /\ Lesser(Len(reader.rows), effective_max_read_rows_per_chunk) <= Len(reader.rows)
      BY <1>3, <2>1, LesserFacts
    <2>. QED BY <1>3, <2>2
  <1>6. /\ reader' = [schema |-> reader.schema,
                      rows |-> SubSeq(reader.rows, n + 1, Len(reader.rows))]
        /\ batch' \in Seq(Rows) /\ Len(batch') = n /\ batch' # <<>>
        /\ reader'.rows \in Seq(Rows) /\ consumed' \in Seq(Rows)
        /\ batch' \o reader'.rows = reader.rows
    <2>1. /\ SubSeq(reader.rows, 1, n) \in Seq(Rows) /\ Len(SubSeq(reader.rows, 1, n)) = n
          /\ SubSeq(reader.rows, n + 1, Len(reader.rows)) \in Seq(Rows)
          /\ SubSeq(reader.rows, 1, n) \o SubSeq(reader.rows, n + 1, Len(reader.rows))
               = reader.rows
      BY <1>3, <1>5, SplitAt
    <2>2. reader' = [schema |-> reader.schema,
                     rows |-> SubSeq(reader.rows, n + 1, Len(reader.rows))]
      BY <1>3, <1>4 DEF Readers
    <2>3. consumed' \in Seq(Rows)
      BY <1>3, <1>4, <2>1, ConcatElements
    <2>4. batch' # <<>>
      BY <1>4, <1>5, <2>1, EmptySeq
    <2>. QED BY <1>4, <2>1, <2>2, <2>3, <2>4
  <1>7. TypeOK'
    <2>1. reader' \in Readers
      BY <1>3, <1>6 DEF Readers
    <2>. QED BY <1>1, <1>6, <2>1 DEF IInv, TypeOK, Phases
  <1>8. PhaseOK'
    BY <1>1, <1>2, <1>3 DEF PhaseOK, Copying
  <1>9. InputsOK'
    BY <1>1 DEF IInv, InputsOK, Opened, Copying
  <1>10. OutputsOK'
    BY <1>1, <1>6 DEF IInv, OutputsOK, Copying, IsOutput
  <1>11. FillOK'
    BY <1>1 DEF IInv, FillOK, Copying
  <1>12. RowsOK'
    <2>1. consumed = RowsOf(completed_outputs) \o RowsOf(output) \o <<>>
      BY <1>1, <1>3 DEF IInv, RowsOK, Copying
    <2>2. completed_outputs \in Seq(Outputs) /\ output \in Seq(Outputs)
      BY DEF IInv, TypeOK
    <2>3. RowsOf(completed_outputs) \o RowsOf(output) \in Seq(Rows)
      BY <2>2, RowsOfType, ConcatElements
    <2>4. consumed = RowsOf(completed_outputs) \o RowsOf(output)
      BY <2>1, <2>3, ConcatEmptySeq
    <2>. QED BY <1>1, <1>4, <2>4 DEF RowsOK
  <1>13. SourceOK'
    <2>. DEFINE ps == args.read_from
    <2>. SUFFICES ASSUME ~replaced
                  PROVE  /\ IsPrefix(consumed', Originals(before, ps, Len(ps)))
                         /\ consumed' \o reader'.rows = Originals(before, ps, Opened)
      BY <1>1, <1>3 DEF SourceOK, Opened
    <2>1. consumed \o reader.rows = Originals(before, ps, Opened)
      BY <1>1, <1>2 DEF IInv, SourceOK, Copying
    <2>2. consumed' = consumed \o batch'
      BY <1>4
    <2>3. (consumed \o batch') \o reader'.rows = consumed \o (batch' \o reader'.rows)
      <3>1. consumed \in Seq(Rows) /\ batch' \in Seq(Rows) /\ reader'.rows \in Seq(Rows)
        BY <1>3, <1>6
      <3>. QED BY <3>1, RowsThree, Zenon
    <2>4. consumed' \o reader'.rows = Originals(before, ps, Opened)
      BY <1>6, <2>1, <2>2, <2>3
    <2>5. IsPrefix(consumed', Originals(before, ps, Opened))
      BY <1>6, <2>4, PrefixOfConcat
    <2>6. before \in Files /\ Opened \in 0 .. Len(ps) /\ Len(ps) \in 0 .. Len(ps)
      BY <1>1, <1>2 DEF IInv, TypeOK, InputsOK, Copying
    <2>7. /\ Originals(before, ps, Opened) \in Seq(Rows)
          /\ Originals(before, ps, Len(ps)) \in Seq(Rows)
          /\ IsPrefix(Originals(before, ps, Opened), Originals(before, ps, Len(ps)))
      BY <1>2, <2>6, OriginalsFacts
    <2>8. IsPrefix(consumed', Originals(before, ps, Len(ps)))
      BY <1>6, <2>5, <2>7, PrefixTransitive
    <2>. QED BY <2>4, <2>8
  <1>14. FilesOK'
    BY <1>1, <1>3 DEF IInv, FilesOK
  <1>15. TempsOK'
    <2>1. Held' = Held
      BY <1>1 DEF Held
    <2>. QED BY <1>1, <2>1 DEF IInv, TempsOK
  <1>16. CancelOK'
    BY <1>1, <1>3, <1>6 DEF IInv, CancelOK
  <1>. QED BY <1>7, <1>8, <1>9, <1>10, <1>11, <1>12, <1>13, <1>14, <1>15, <1>16 DEF IInv

LEMMA EndOfInputStep ==
  ASSUME IInv, EndOfInput
  PROVE  IInv'
  <1>. USE DEF EndOfInput, disk, source, target, call, signal
  <1>1. /\ args \in Calls /\ args # NoArgs
        /\ phase' \in {"open", "finish"}
        /\ batch = <<>> /\ repacked_files = <<>> /\ outcome # "files" /\ schema \in Schemas
    BY Running DEF IInv, PhaseOK, Copying
  <1>2. TypeOK' /\ PhaseOK' /\ InputsOK'
    BY <1>1 DEF IInv, TypeOK, Phases, PhaseOK, InputsOK, Opened, Copying
  <1>3. OutputsOK'
    BY <1>1 DEF IInv, OutputsOK, Copying, IsOutput
  <1>4. FillOK' /\ RowsOK'
    BY <1>1 DEF IInv, FillOK, RowsOK, Copying
  <1>5. SourceOK'
    BY <1>1 DEF IInv, SourceOK, Opened, Copying
  <1>6. FilesOK'
    BY <1>1 DEF IInv, FilesOK
  <1>7. TempsOK'
    <2>1. Held' = Held
      BY DEF Held
    <2>. QED BY <1>1, <2>1 DEF IInv, TempsOK
  <1>8. CancelOK'
    BY <1>1 DEF IInv, CancelOK
  <1>. QED BY <1>2, <1>3, <1>4, <1>5, <1>6, <1>7, <1>8 DEF IInv

LEMMA EndOfBatchStep ==
  ASSUME IInv, EndOfBatch
  PROVE  IInv'
  <1>. USE DEF EndOfBatch, InBatch, disk, source, target, call, signal
  <1>1. /\ args \in Calls /\ args # NoArgs
        /\ repacked_files = <<>> /\ outcome # "files" /\ schema \in Schemas
    BY Running DEF IInv, PhaseOK, Copying
  <1>2. TypeOK' /\ PhaseOK' /\ InputsOK'
    BY <1>1 DEF IInv, TypeOK, Phases, PhaseOK, InputsOK, Opened, Copying
  <1>3. OutputsOK'
    BY <1>1 DEF IInv, OutputsOK, Copying, IsOutput
  <1>4. FillOK' /\ RowsOK'
    BY <1>1 DEF IInv, FillOK, RowsOK, Copying
  <1>5. SourceOK'
    BY <1>1 DEF IInv, SourceOK, Opened, Copying
  <1>6. FilesOK'
    BY <1>1 DEF IInv, FilesOK
  <1>7. TempsOK'
    <2>1. Held' = Held
      BY DEF Held
    <2>. QED BY <1>1, <2>1 DEF IInv, TempsOK
  <1>8. CancelOK'
    BY <1>1 DEF IInv, CancelOK
  <1>. QED BY <1>2, <1>3, <1>4, <1>5, <1>6, <1>7, <1>8 DEF IInv

LEMMA CreateOutputStep ==
  ASSUME IInv, CreateOutput
  PROVE  IInv'
  <1>. USE DEF CreateOutput, InBatch, source, call, signal
  <1>1. /\ args \in Calls /\ args # NoArgs /\ args.prefix \in DOMAIN OutputPath
        /\ schema \in Schemas /\ repacked_files = <<>> /\ outcome # "files"
        /\ output_index \in Nat /\ calls \in Nat /\ current_output_rows = 0
    BY Running DEF IInv, TypeOK, PhaseOK, OutputsOK, Copying
  <1>2. OutputPath[args.prefix][output_index + 1] \in Paths
    BY <1>1, OutputPathFacts DEF HasName
  <1>3. /\ NewOutput \in Outputs /\ NewOutput.rows = <<>> /\ NewOutput.num_rows = 0
        /\ NewOutput.temp = <<calls, output_index>>
        /\ NewOutput.path = OutputPath[args.prefix][output_index + 1]
    <2>1. <<>> \in Seq(Rows)
      BY EmptySeq
    <2>. QED BY <1>1, <1>2, <2>1 DEF NewOutput, Outputs
  <1>4. /\ output' = <<NewOutput>> /\ output' \in Seq(Outputs) /\ output' # <<>>
        /\ output'[1] = NewOutput /\ Len(output') = 1 /\ DOMAIN output' = {1}
    BY <1>3
  <1>5. TypeOK'
    BY <1>1, <1>4 DEF IInv, TypeOK
  <1>6. PhaseOK' /\ InputsOK'
    BY <1>1 DEF PhaseOK, IInv, InputsOK, Opened, Copying
  <1>7. OutputsOK'
    <2>1. IsOutput(output'[1], output_index + 1)
      <3>1. (output_index + 1) - 1 = output_index /\ Len(<<>>) = 0
        BY <1>1
      <3>. QED BY <1>3, <1>4, <3>1 DEF IsOutput, HasName
    <2>2. current_output_rows = Len(output'[1].rows)
      BY <1>1, <1>3, <1>4
    <2>. QED BY <1>4, <2>1, <2>2 DEF IInv, OutputsOK, Copying, IsOutput
  <1>8. FillOK'
    BY <1>1 DEF IInv, FillOK, Copying
  <1>9. RowsOK'
    <2>1. RowsOf(output') = <<>> /\ RowsOf(output) = <<>>
      BY <1>3, <1>4, RowsOfOne, RowsOfNone
    <2>. QED BY <2>1 DEF IInv, RowsOK
  <1>10. SourceOK'
    BY <1>1 DEF IInv, SourceOK, Opened, Copying
  <1>11. FilesOK'
    BY <1>1 DEF IInv, FilesOK
  <1>12. TempsOK'
    <2>1. Held' = Held \cup {NewOutput.temp}
      BY <1>4 DEF Held
    <2>. QED BY <1>1, <2>1 DEF IInv, TempsOK
  <1>13. CancelOK'
    BY <1>1 DEF IInv, CancelOK
  <1>. QED BY <1>5, <1>6, <1>7, <1>8, <1>9, <1>10, <1>11, <1>12, <1>13 DEF IInv

\* What is written fits into the output and into the batch.
LEMMA RowsToWriteFacts ==
  ASSUME IInv, phase = "write", batch # <<>>
  PROVE  /\ RowsToWrite \in 1 .. Len(batch)
         /\ args.rows_per_file # NoLimit =>
              current_output_rows + RowsToWrite <= args.rows_per_file
  <1>1. Len(batch) \in Nat \ {0} /\ current_output_rows \in Nat
    <2>1. batch \in Seq(Rows)
      BY DEF IInv, TypeOK
    <2>. QED BY <2>1, EmptySeq DEF IInv, TypeOK
  <1>2. CASE args.rows_per_file = NoLimit
    BY <1>1, <1>2 DEF RowsToWrite
  <1>3. CASE args.rows_per_file # NoLimit
    <2>1. args.rows_per_file \in Nat \ {0} /\ current_output_rows < args.rows_per_file
      BY <1>3, Running DEF IInv, FillOK, Copying
    <2>. QED BY <1>1, <1>3, <2>1 DEF RowsToWrite, Lesser
  <1>. QED BY <1>2, <1>3

LEMMA WriteSliceStep ==
  ASSUME IInv, WriteSlice
  PROVE  IInv'
  <1>. USE DEF disk, call, signal
  <1>. DEFINE n == RowsToWrite
              o == output[1]
              written == SubSeq(batch, 1, n)
  <1>1. /\ phase = "write" /\ batch # <<>> /\ output # <<>>
        /\ ~cancelled
        /\ output' = <<[o EXCEPT !.rows = @ \o written, !.num_rows = @ + n]>>
        /\ batch' = SubSeq(batch, n + 1, Len(batch))
        /\ current_output_rows' = current_output_rows + n
        /\ phase' = IF args.rows_per_file = current_output_rows + n THEN "full" ELSE "write"
        /\ UNCHANGED <<disk, inputs, reader, consumed, output_index, completed_outputs,
                       repacked_files, call, signal, outcome, replaced, orphans>>
    BY DEF WriteSlice, InBatch, check_cancelled, Rest
  <1>2. /\ args \in Calls /\ args # NoArgs /\ schema \in Schemas
        /\ args.rows_per_file # NoLimit => args.rows_per_file \in Nat \ {0}
        /\ repacked_files = <<>> /\ outcome # "files"
        /\ output \in Seq(Outputs) /\ completed_outputs \in Seq(Outputs)
        /\ batch \in Seq(Rows) /\ consumed \in Seq(Rows) /\ current_output_rows \in Nat
    BY <1>1, Running DEF IInv, TypeOK, PhaseOK, Copying
  <1>3. /\ n \in 1 .. Len(batch) /\ n \in 0 .. Len(batch) /\ n \in Nat \ {0}
        /\ args.rows_per_file # NoLimit => current_output_rows + n <= args.rows_per_file
    <2>1. Len(batch) \in Nat
      BY <1>2, LenProperties
    <2>. QED BY <1>1, <2>1, RowsToWriteFacts
  <1>. HIDE DEF n
  <1>4. /\ o \in Outputs /\ o.rows \in Seq(Rows) /\ o.num_rows \in Nat
        /\ IsOutput(o, output_index + 1) /\ current_output_rows = Len(o.rows)
        /\ output = <<o>>
    <2>1. Len(output) \in Nat \ {0} /\ Len(output) <= 1
      BY <1>1, <1>2, EmptySeq DEF IInv, OutputsOK
    <2>2. o \in Outputs
      BY <1>2, <2>1, ElementOfSeq
    <2>3. output = <<o>>
      <3>1. \A k \in Nat \ {0} : k <= 1 => k = 1
        OBVIOUS
      <3>2. Len(output) = 1
        BY <2>1, <3>1, Zenon
      <3>. QED BY <1>2, <3>2, OnlyElement
    <2>. QED BY <1>1, <2>2, <2>3 DEF Outputs, IInv, OutputsOK
  <1>5. /\ written \in Seq(Rows) /\ Len(written) = n
        /\ batch' \in Seq(Rows) /\ written \o batch' = batch
    BY <1>1, <1>2, <1>3, SplitAt
  <1>. HIDE DEF written
  <1>6. /\ o.rows \o written \in Seq(Rows)
        /\ Len(o.rows \o written) = current_output_rows + n
        /\ o.rows \o written # <<>>
    <2>1. /\ o.rows \o written \in Seq(Rows)
          /\ Len(o.rows \o written) = Len(o.rows) + Len(written)
      BY <1>4, <1>5, ConcatElements
    <2>2. Len(o.rows \o written) > 0 /\ Len(<<>>) = 0
      BY <1>2, <1>3, <1>4, <1>5, <2>1
    <2>. QED BY <1>4, <1>5, <2>1, <2>2
  <1>7. PICK w \in Outputs :
          /\ output' = <<w>> /\ output'[1] = w /\ output' # <<>> /\ Len(output') = 1
          /\ output' \in Seq(Outputs) /\ DOMAIN output' = {1}
          /\ w.rows = o.rows \o written /\ w.num_rows = o.num_rows + n
          /\ w.temp = o.temp /\ w.path = o.path
    <2>. DEFINE new == [o EXCEPT !.rows = @ \o written, !.num_rows = @ + n]
    <2>1. o.num_rows + n \in Nat
      BY <1>3, <1>4
    <2>2. /\ new \in Outputs
          /\ new.rows = o.rows \o written /\ new.num_rows = o.num_rows + n
          /\ new.temp = o.temp /\ new.path = o.path
      <3>1. ASSUME NEW q \in Outputs, q.rows \o written \in Seq(Rows), q.num_rows + n \in Nat
            PROVE  LET v == [q EXCEPT !.rows = @ \o written, !.num_rows = @ + n]
                   IN  /\ v \in Outputs
                       /\ v.rows = q.rows \o written /\ v.num_rows = q.num_rows + n
                       /\ v.temp = q.temp /\ v.path = q.path
        BY <1>5, <3>1 DEF Outputs
      <3>. HIDE DEF o
      <3>. QED BY <1>4, <1>6, <2>1, <3>1
    <2>3. output' = <<new>>
      BY <1>1
    <2>. HIDE DEF new
    <2>. QED BY <2>2, <2>3
  <1>. HIDE DEF o
  <1>8. phase' \in {"write", "full"}
    BY <1>1
  <1>9. TypeOK'
    <2>1. current_output_rows' \in Nat
      BY <1>1, <1>2, <1>3
    <2>. QED BY <1>1, <1>5, <1>7, <1>8, <2>1 DEF IInv, TypeOK, Phases
  <1>10. PhaseOK'
    BY <1>1, <1>2, <1>7, <1>8 DEF PhaseOK, Copying
  <1>11. InputsOK'
    BY <1>1, <1>8 DEF IInv, InputsOK, Opened, Copying
  <1>12. OutputsOK'
    <2>1. w.num_rows = Len(w.rows)
      BY <1>4, <1>6, <1>7 DEF IsOutput
    <2>2. IsOutput(w, output_index + 1)'
      BY <1>1, <1>4, <1>7, <2>1 DEF IsOutput
    <2>3. current_output_rows' = Len(w.rows) /\ w.rows # <<>>
      BY <1>1, <1>6, <1>7
    <2>4. \A i \in DOMAIN completed_outputs :
            IsOutput(completed_outputs[i], Len(repacked_files) + i)'
      BY <1>1 DEF IInv, OutputsOK, IsOutput
    <2>5. Len(completed_outputs) = output_index
      BY <1>1 DEF IInv, OutputsOK, Copying
    <2>6. (output # <<>> => /\ IsOutput(output[1], output_index + 1)
                            /\ current_output_rows = Len(output[1].rows)
                            /\ output[1].rows # <<>>)'
      BY <1>1, <1>7, <2>2, <2>3 DEF IsOutput
    <2>. QED BY <1>1, <1>7, <2>4, <2>5, <2>6 DEF OutputsOK
  <1>13. FillOK'
    <2>1. ASSUME args.rows_per_file # NoLimit
          PROVE  /\ phase' = "write" => current_output_rows' < args.rows_per_file
                 /\ phase' = "full" => current_output_rows' = args.rows_per_file
      <3>1. PICK m \in Nat, k \in Nat : m = args.rows_per_file /\ k = current_output_rows + n
        BY <1>2, <1>3, <2>1
      <3>2. k <= m
        BY <1>3, <2>1, <3>1
      <3>3. CASE k = m
        BY <1>1, <3>1, <3>3
      <3>4. CASE k # m
        BY <1>1, <3>1, <3>2, <3>4
      <3>. QED BY <3>3, <3>4
    <2>. QED BY <1>1, <1>8, <2>1 DEF IInv, FillOK, Copying
  <1>14. RowsOK'
    <2>1. PICK a \in Seq(Rows), b \in Seq(Rows), c \in Seq(Rows), d \in Seq(Rows) :
            a = RowsOf(completed_outputs) /\ b = o.rows /\ c = written /\ d = batch'
      BY <1>2, <1>4, <1>5, RowsOfType
    <2>2. consumed = a \o b \o (c \o d)
      <3>1. RowsOf(output) = o.rows
        BY <1>4, RowsOfOne
      <3>. QED BY <1>1, <1>5, <2>1, <3>1 DEF IInv, RowsOK, Copying
    <2>3. a \o b \o (c \o d) = a \o (b \o c) \o d
      <3>1. a \o b \in Seq(Rows)
        BY ConcatElements
      <3>2. (a \o b) \o (c \o d) = ((a \o b) \o c) \o d
        BY <3>1, RowsThree, Zenon
      <3>3. (a \o b) \o c = a \o (b \o c)
        BY RowsThree, Zenon
      <3>. QED BY <3>2, <3>3, Zenon
    <2>4. RowsOf(output') = b \o c
      BY <1>7, <2>1, RowsOfOne
    <2>. QED BY <1>1, <2>1, <2>2, <2>3, <2>4 DEF RowsOK
  <1>15. SourceOK'
    BY <1>1, <1>2, <1>8 DEF IInv, SourceOK, Opened, Copying
  <1>16. FilesOK'
    BY <1>1, <1>2, <1>8 DEF IInv, FilesOK
  <1>17. TempsOK'
    <2>1. Held' = Held
      <3>1. {output'[i].temp : i \in DOMAIN output'} = {o.temp}
        BY <1>7, Zenon
      <3>2. {output[i].temp : i \in DOMAIN output} = {o.temp}
        BY <1>4
      <3>. QED BY <1>1, <3>1, <3>2 DEF Held
    <2>. QED BY <1>1, <1>8, <2>1 DEF IInv, TempsOK
  <1>18. CancelOK'
    BY <1>1 DEF IInv, CancelOK
  <1>. QED BY <1>9, <1>10, <1>11, <1>12, <1>13, <1>14, <1>15, <1>16, <1>17, <1>18 DEF IInv

\* The output that is written, and an output more that is complete.
LEMMA TheOutput ==
  ASSUME IInv, output # <<>>
  PROVE  /\ output[1] \in Outputs /\ output = <<output[1]>> /\ output[1].rows \in Seq(Rows)
         /\ {output[i].temp : i \in DOMAIN output} = {output[1].temp}
         /\ RowsOf(output) = output[1].rows
  <1>1. output \in Seq(Outputs) /\ Len(output) \in Nat \ {0} /\ Len(output) <= 1
    <2>1. output \in Seq(Outputs)
      BY DEF IInv, TypeOK
    <2>. QED BY <2>1, EmptySeq DEF IInv, OutputsOK
  <1>2. Len(output) = 1
    <2>1. \A k \in Nat \ {0} : k <= 1 => k = 1
      OBVIOUS
    <2>. QED BY <1>1, <2>1, Zenon
  <1>3. output[1] \in Outputs /\ output = <<output[1]>>
    BY <1>1, <1>2, OnlyElement
  <1>4. DOMAIN output = {1}
    BY <1>1, <1>2, LenProperties
  <1>5. {output[i].temp : i \in DOMAIN output} = {output[1].temp}
    BY <1>4, Zenon
  <1>6. output[1].rows \in Seq(Rows)
    BY <1>3 DEF Outputs
  <1>7. RowsOf(<<output[1]>>) = output[1].rows
    BY <1>3, RowsOfOne
  <1>. QED BY <1>3, <1>5, <1>6, <1>7

OneMore(t, s, o) ==
  /\ t \in Seq(Outputs) /\ t # <<>> /\ Len(t) = Len(s) + 1 /\ Len(s) \in Nat
  /\ DOMAIN s = 1 .. Len(s) /\ DOMAIN t = 1 .. Len(s) + 1
  /\ \A i \in 1 .. Len(s) : t[i] = s[i]
  /\ t[Len(s) + 1] = o
  /\ {t[i].temp : i \in DOMAIN t} = {s[i].temp : i \in DOMAIN s} \cup {o.temp}
  /\ RowsOf(t) = RowsOf(s) \o o.rows

LEMMA OneOutputMore ==
  ASSUME NEW s \in Seq(Outputs), NEW o \in Outputs
  PROVE  OneMore(Append(s, o), s, o)
  <1>. DEFINE t == Append(s, o)
  <1>1. /\ t \in Seq(Outputs) /\ t # <<>> /\ Len(t) = Len(s) + 1 /\ Len(s) \in Nat
        /\ \A i \in 1 .. Len(s) : t[i] = s[i]
        /\ t[Len(s) + 1] = o
    BY AppendProperties, LenProperties
  <1>2. DOMAIN s = 1 .. Len(s) /\ DOMAIN t = 1 .. Len(s) + 1
    BY <1>1, LenProperties
  <1>. HIDE DEF t
  <1>3. {t[i].temp : i \in DOMAIN t} = {s[i].temp : i \in DOMAIN s} \cup {o.temp}
    <2>1. \A i \in DOMAIN t : i \in DOMAIN s \/ i = Len(s) + 1
      BY <1>1, <1>2
    <2>2. Len(s) + 1 \in DOMAIN t /\ \A i \in DOMAIN s : i \in DOMAIN t
      BY <1>1, <1>2
    <2>. QED BY <1>1, <1>2, <2>1, <2>2, Zenon
  <1>4. RowsOf(t) = RowsOf(s) \o o.rows
    BY RowsOfAppend DEF t
  <1>. QED BY <1>1, <1>2, <1>3, <1>4 DEF t, OneMore

LEMMA CloseFullStep ==
  ASSUME IInv, CloseFull
  PROVE  IInv'
  <1>. USE DEF CloseFull, disk, source, call, signal
  <1>. DEFINE o == output[1]
              n == Len(completed_outputs)
  <1>1. /\ args \in Calls /\ args # NoArgs /\ schema \in Schemas
        /\ args.rows_per_file # NoLimit => args.rows_per_file \in Nat \ {0}
        /\ repacked_files = <<>> /\ outcome # "files" /\ output # <<>>
        /\ completed_outputs \in Seq(Outputs) /\ output_index \in Nat
    BY Running DEF IInv, TypeOK, PhaseOK, Copying
  <1>2. /\ o \in Outputs /\ o.rows \in Seq(Rows)
        /\ {output[i].temp : i \in DOMAIN output} = {o.temp}
        /\ RowsOf(output) = o.rows
    BY <1>1, TheOutput
  <1>3. /\ completed_outputs' \in Seq(Outputs) /\ completed_outputs' # <<>>
        /\ Len(completed_outputs') = n + 1 /\ n \in Nat
        /\ DOMAIN completed_outputs = 1 .. n /\ DOMAIN completed_outputs' = 1 .. n + 1
        /\ \A i \in 1 .. n : completed_outputs'[i] = completed_outputs[i]
        /\ completed_outputs'[n + 1] = o
        /\ {completed_outputs'[i].temp : i \in DOMAIN completed_outputs'}
             = {completed_outputs[i].temp : i \in DOMAIN completed_outputs} \cup {o.temp}
        /\ RowsOf(completed_outputs') = RowsOf(completed_outputs) \o o.rows
    <2>1. completed_outputs' = Append(completed_outputs, o)
      OBVIOUS
    <2>2. OneMore(completed_outputs', completed_outputs, o)
      BY <1>1, <1>2, <2>1, OneOutputMore
    <2>. QED BY <2>2 DEF OneMore
  <1>4. /\ IsOutput(o, output_index + 1) /\ current_output_rows = Len(o.rows)
        /\ o.rows # <<>> /\ n = output_index
        /\ \A i \in 1 .. n : IsOutput(completed_outputs[i], i)
    <2>1. Len(repacked_files) = 0 /\ \A i \in Nat : 0 + i = i
      BY <1>1
    <2>2. OutputsOK /\ phase \in Copying /\ phase # "write"
      BY DEF IInv, Copying
    <2>3. IsOutput(o, output_index + 1) /\ current_output_rows = Len(o.rows) /\ o.rows # <<>>
      BY <1>1, <2>2 DEF OutputsOK
    <2>4. \A i \in 1 .. n : IsOutput(completed_outputs[i], 0 + i)
      BY <1>3, <2>1, <2>2 DEF OutputsOK
    <2>. QED BY <1>1, <2>1, <2>2, <2>3, <2>4 DEF OutputsOK
  <1>. HIDE DEF o, n
  <1>5. \A i \in 1 .. n + 1 : i \in 1 .. n \/ i = n + 1
    BY <1>3
  <1>6. TypeOK'
    <2>1. output' \in Seq(Outputs)
      BY EmptySeq
    <2>2. output_index + 1 \in Nat
      BY <1>1
    <2>. QED BY <1>3, <2>1, <2>2 DEF IInv, TypeOK, Phases
  <1>7. PhaseOK'
    BY <1>1 DEF PhaseOK, Copying
  <1>8. InputsOK'
    BY DEF IInv, InputsOK, Opened, Copying
  <1>9. OutputsOK'
    <2>1. \A i \in 1 .. n + 1 : IsOutput(completed_outputs'[i], i)
      BY <1>3, <1>4, <1>5
    <2>2. ASSUME NEW i \in 1 .. n + 1, NEW c, c = completed_outputs'[i]
          PROVE  IsOutput(c, i)'
      BY <2>1, <2>2 DEF IsOutput
    <2>3. (\A i \in DOMAIN completed_outputs :
             IsOutput(completed_outputs[i], Len(repacked_files) + i))'
      <3>1. \A i \in 1 .. n + 1 : Len(repacked_files') + i = i
        BY <1>1, <1>3
      <3>2. ASSUME NEW i \in 1 .. n + 1
            PROVE  IsOutput(completed_outputs[i], Len(repacked_files) + i)'
        BY <2>2, <3>1 DEF IsOutput
      <3>. QED BY <1>3, <3>2
    <2>4. Len(<<>>) = 0
      OBVIOUS
    <2>. QED BY <1>3, <1>4, <2>3, <2>4 DEF OutputsOK, n
  <1>10. FillOK'
    <2>1. ASSUME args.rows_per_file # NoLimit
          PROVE  /\ current_output_rows' < args.rows_per_file
                 /\ \A i \in 1 .. n + 1 :
                      Len(completed_outputs'[i].rows) = args.rows_per_file
      <3>1. \A i \in 1 .. n : Len(completed_outputs[i].rows) = args.rows_per_file
        BY <1>3, <2>1 DEF IInv, FillOK
      <3>2. Len(o.rows) = args.rows_per_file
        BY <1>4, <2>1 DEF IInv, FillOK
      <3>3. 0 < args.rows_per_file
        BY <1>1, <2>1
      <3>. QED BY <1>3, <1>5, <3>1, <3>2, <3>3
    <2>2. \A i \in 1 .. n + 1 : completed_outputs'[i].rows # <<>>
      <3>1. \A i \in 1 .. n : completed_outputs[i].rows # <<>>
        BY <1>3 DEF IInv, FillOK
      <3>. QED BY <1>3, <1>4, <1>5, <3>1
    <2>. QED BY <1>3, <2>1, <2>2 DEF FillOK
  <1>11. RowsOK'
    <2>1. consumed = RowsOf(completed_outputs) \o o.rows \o batch
      BY <1>2 DEF IInv, RowsOK, Copying
    <2>2. RowsOf(completed_outputs) \o o.rows \in Seq(Rows)
      BY <1>1, <1>2, RowsOfType, ConcatElements
    <2>3. (RowsOf(completed_outputs) \o o.rows) \o <<>> = RowsOf(completed_outputs) \o o.rows
      BY <2>2, ConcatEmptySeq
    <2>. QED BY <1>3, <2>1, <2>3, RowsOfNone DEF RowsOK
  <1>12. SourceOK'
    BY <1>1 DEF IInv, SourceOK, Opened, Copying
  <1>13. FilesOK'
    BY <1>1 DEF IInv, FilesOK
  <1>14. TempsOK'
    <2>1. {output'[i].temp : i \in DOMAIN output'} = {}
      OBVIOUS
    <2>2. Held' = Held
      BY <1>2, <1>3, <2>1 DEF Held
    <2>. QED BY <2>2 DEF IInv, TempsOK
  <1>15. CancelOK'
    BY DEF IInv, CancelOK
  <1>. QED BY <1>6, <1>7, <1>8, <1>9, <1>10, <1>11, <1>12, <1>13, <1>14, <1>15 DEF IInv

\* What persist_outputs is given: all rows, in outputs that are filled.
ToPersist(c) ==
  /\ c \in Seq(Outputs)
  /\ \A i \in DOMAIN c : IsOutput(c[i], i)
  /\ args.rows_per_file # NoLimit =>
       \A i \in DOMAIN c : \/ Len(c[i].rows) = args.rows_per_file
                           \/ i = Len(c) /\ Len(c[i].rows) < args.rows_per_file
  /\ \A i \in DOMAIN c : c[i].rows = <<>> => consumed = <<>>
  /\ consumed = RowsOf(c)
  /\ temps' = orphans \cup {c[i].temp : i \in DOMAIN c}

LEMMA OutputsToPersist ==
  ASSUME IInv, CloseLast
  PROVE  ToPersist(completed_outputs')
  <1>. DEFINE o == output[1]
              C == completed_outputs
              n == Len(C)
  <1>1. /\ phase = "finish" /\ args \in Calls /\ args.prefix \in DOMAIN OutputPath
        /\ args.rows_per_file # NoLimit => args.rows_per_file \in Nat \ {0}
        /\ repacked_files = <<>> /\ batch = <<>>
        /\ C \in Seq(Outputs) /\ n \in Nat /\ DOMAIN C = 1 .. n
        /\ output_index \in Nat /\ calls \in Nat /\ consumed \in Seq(Rows)
    <2>1. phase = "finish"
      BY DEF CloseLast
    <2>2. C \in Seq(Outputs)
      BY DEF IInv, TypeOK
    <2>. QED BY <2>1, <2>2, Running, LenProperties DEF IInv, TypeOK, PhaseOK, Copying
  <1>2. /\ n = output_index
        /\ \A i \in 1 .. n : IsOutput(C[i], i)
    <2>1. Len(repacked_files) = 0 /\ \A i \in Nat : 0 + i = i
      BY <1>1
    <2>2. OutputsOK /\ phase \in Copying
      BY <1>1 DEF IInv, Copying
    <2>3. \A i \in 1 .. n : IsOutput(C[i], 0 + i)
      BY <1>1, <2>1, <2>2 DEF OutputsOK
    <2>4. n = output_index
      BY <2>2 DEF OutputsOK
    <2>. HIDE DEF C, n
    <2>5. \A i \in 1 .. n : IsOutput(C[i], i)
      BY <1>1, <2>1, <2>3
    <2>. QED BY <2>4, <2>5
  <1>3. /\ args.rows_per_file # NoLimit =>
             \A i \in 1 .. n : Len(C[i].rows) = args.rows_per_file
        /\ \A i \in 1 .. n : C[i].rows # <<>>
    BY <1>1 DEF IInv, FillOK
  <1>4. consumed = RowsOf(C) \o RowsOf(output)
    <2>1. RowsOf(C) \o RowsOf(output) \in Seq(Rows)
      <3>1. output \in Seq(Outputs)
        BY DEF IInv, TypeOK
      <3>. QED BY <1>1, <3>1, RowsOfType, ConcatElements
    <2>2. consumed = RowsOf(C) \o RowsOf(output) \o <<>>
      BY <1>1 DEF IInv, RowsOK, Copying
    <2>. QED BY <2>1, <2>2, ConcatEmptySeq
  <1>5. temps = orphans \cup {output[i].temp : i \in DOMAIN output} \cup {C[i].temp : i \in DOMAIN C}
    BY DEF IInv, TempsOK, Held
  <1>6. CASE output # <<>>
    <2>1. completed_outputs' = Append(C, o) /\ temps' = temps
      BY <1>6 DEF CloseLast
    <2>2. /\ o \in Outputs /\ o.rows \in Seq(Rows)
          /\ {output[i].temp : i \in DOMAIN output} = {o.temp}
          /\ RowsOf(output) = o.rows
      BY <1>6, TheOutput
    <2>. DEFINE D == completed_outputs'
    <2>3. /\ D \in Seq(Outputs) /\ D # <<>> /\ Len(D) = n + 1 /\ DOMAIN D = 1 .. n + 1
          /\ \A i \in 1 .. n : D[i] = C[i]
          /\ D[n + 1] = o
          /\ {D[i].temp : i \in DOMAIN D} = {C[i].temp : i \in DOMAIN C} \cup {o.temp}
          /\ RowsOf(D) = RowsOf(C) \o o.rows
      <3>1. OneMore(D, C, o)
        BY <1>1, <2>1, <2>2, OneOutputMore
      <3>. QED BY <3>1 DEF OneMore
    <2>4. /\ IsOutput(o, n + 1) /\ o.rows # <<>>
          /\ args.rows_per_file # NoLimit => Len(o.rows) < args.rows_per_file
      <3>1. /\ IsOutput(o, output_index + 1) /\ current_output_rows = Len(o.rows)
            /\ o.rows # <<>>
        BY <1>1, <1>6 DEF IInv, OutputsOK
      <3>. QED BY <1>1, <1>2, <3>1 DEF IInv, FillOK, Copying
    <2>. HIDE DEF o, C, n, D
    <2>5. \A i \in 1 .. n + 1 : i \in 1 .. n \/ i = n + 1
      BY <1>1
    <2>6. \A i \in 1 .. n + 1 : IsOutput(D[i], i) /\ D[i].rows # <<>>
      BY <1>2, <1>3, <2>3, <2>4, <2>5
    <2>7. args.rows_per_file # NoLimit =>
            \A i \in 1 .. n + 1 : \/ Len(D[i].rows) = args.rows_per_file
                                  \/ i = n + 1 /\ Len(D[i].rows) < args.rows_per_file
      BY <1>3, <2>3, <2>4, <2>5
    <2>8. temps' = orphans \cup {D[i].temp : i \in DOMAIN D}
      BY <1>5, <2>1, <2>2, <2>3
    <2>9. ToPersist(D)
      BY <1>4, <2>2, <2>3, <2>6, <2>7, <2>8 DEF ToPersist
    <2>. QED BY <2>9 DEF D
  <1>7. CASE output = <<>> /\ C # <<>>
    <2>1. completed_outputs' = C /\ temps' = temps
      BY <1>7 DEF CloseLast
    <2>2. RowsOf(C) \in Seq(Rows) /\ RowsOf(C) \o <<>> = RowsOf(C)
      BY <1>1, RowsOfType, ConcatEmptySeq
    <2>3. {output[i].temp : i \in DOMAIN output} = {}
      BY <1>7
    <2>4. ToPersist(C)
      BY <1>1, <1>2, <1>3, <1>4, <1>5, <1>7, <2>1, <2>2, <2>3, RowsOfNone DEF ToPersist
    <2>. QED BY <2>1, <2>4
  <1>8. CASE output = <<>> /\ C = <<>>
    <2>. DEFINE D == <<NewOutput>>
    <2>1. completed_outputs' = D /\ temps' = temps \cup {NewOutput.temp} /\ HasName
      BY <1>8 DEF CloseLast
    <2>2. output_index = 0 /\ 0 + 1 = 1 /\ 1 - 1 = 0 /\ Len(<<>>) = 0
      BY <1>2, <1>8
    <2>3. OutputPath[args.prefix][1] \in Paths /\ 1 \in DOMAIN OutputPath[args.prefix]
      BY <1>1, <2>1, <2>2, OutputPathFacts DEF HasName
    <2>4. /\ NewOutput \in Outputs /\ NewOutput.rows = <<>>
          /\ IsOutput(NewOutput, 1)
      <3>1. <<>> \in Seq(Rows)
        BY EmptySeq
      <3>. QED BY <1>1, <2>2, <2>3, <3>1 DEF NewOutput, Outputs, IsOutput
    <2>5. /\ D \in Seq(Outputs) /\ DOMAIN D = {1} /\ D[1] = NewOutput /\ Len(D) = 1
          /\ RowsOf(D) = <<>>
      BY <2>4, RowsOfOne
    <2>6. consumed = <<>>
      BY <1>4, <1>8, RowsOfNone
    <2>7. {D[i].temp : i \in DOMAIN D} = {NewOutput.temp}
      BY <2>5, Zenon
    <2>8. temps' = orphans \cup {D[i].temp : i \in DOMAIN D}
      BY <1>5, <1>8, <2>1, <2>7
    <2>. HIDE DEF D
    <2>9. args.rows_per_file # NoLimit => Len(NewOutput.rows) < args.rows_per_file
      BY <1>1, <2>2, <2>4
    <2>10. ToPersist(D)
      BY <2>4, <2>5, <2>6, <2>8, <2>9 DEF ToPersist
    <2>. QED BY <2>1, <2>10
  <1>. QED BY <1>6, <1>7, <1>8

LEMMA CloseLastStep ==
  ASSUME IInv, CloseLast
  PROVE  IInv'
  <1>. USE DEF disk, source, call, signal
  <1>. DEFINE D == completed_outputs'
  <1>1. /\ phase = "finish" /\ phase' = "persist" /\ output' = <<>>
        /\ UNCHANGED <<files, source, current_output_rows, output_index, repacked_files,
                       call, signal, outcome, replaced, orphans>>
    BY DEF CloseLast
  <1>2. /\ args \in Calls /\ args # NoArgs /\ schema \in Schemas
        /\ repacked_files = <<>> /\ outcome # "files" /\ batch = <<>>
        /\ reader.rows = <<>> /\ inputs = <<>> /\ consumed \in Seq(Rows)
    BY <1>1, Running DEF IInv, TypeOK, PhaseOK, Copying
  <1>3. ToPersist(D)
    BY OutputsToPersist
  <1>4. D \in Seq(Outputs) /\ DOMAIN D = 1 .. Len(D) /\ Len(D) \in Nat
    BY <1>3, LenProperties DEF ToPersist
  <1>. HIDE DEF D
  <1>5. TypeOK'
    <2>1. output' \in Seq(Outputs)
      BY <1>1, EmptySeq
    <2>2. completed_outputs' \in Seq(Outputs)
      BY <1>4 DEF D
    <2>. QED BY <1>1, <2>1, <2>2 DEF IInv, TypeOK, Phases
  <1>6. PhaseOK'
    BY <1>1, <1>2 DEF PhaseOK, Copying
  <1>7. InputsOK'
    BY <1>1 DEF IInv, InputsOK, Opened, Copying
  <1>8. OutputsOK'
    <2>1. ASSUME NEW i \in DOMAIN D, NEW c, c = D[i]
          PROVE  IsOutput(c, i)'
      BY <1>1, <1>3, <2>1 DEF ToPersist, IsOutput
    <2>2. \A i \in DOMAIN D : Len(repacked_files') + i = i
      BY <1>1, <1>2, <1>4
    <2>3. (\A i \in DOMAIN completed_outputs :
             IsOutput(completed_outputs[i], Len(repacked_files) + i))'
      BY <2>1, <2>2 DEF D, IsOutput
    <2>4. Len(<<>>) = 0
      OBVIOUS
    <2>. QED BY <1>1, <2>3, <2>4 DEF OutputsOK, Copying
  <1>9. FillOK'
    BY <1>1, <1>3 DEF ToPersist, FillOK, Copying, D
  <1>10. RowsOK'
    BY <1>1 DEF RowsOK, Copying
  <1>11. SourceOK'
    BY <1>1, <1>2 DEF IInv, SourceOK, Opened, Copying
  <1>12. FilesOK'
    <2>1. AllReported' = <<>>
      <3>1. repacked_files' = <<>> /\ Len(<<>>) = 0 /\ [i \in 1 .. 0 |-> files'[<<>>[i].path].rows] = <<>>
        BY <1>1, <1>2
      <3>. QED BY <3>1, FlattenEmpty DEF AllReported, Reported
    <2>2. consumed = RowsOf(D) /\ <<>> \o consumed = consumed
      BY <1>2, <1>3, ConcatEmptySeq DEF ToPersist
    <2>3. (phase = "persist" => consumed = AllReported \o RowsOf(completed_outputs))'
      BY <1>1, <2>1, <2>2 DEF D
    <2>. QED BY <1>1, <1>2, <2>3 DEF IInv, FilesOK
  <1>13. TempsOK'
    <2>1. Held' = {D[i].temp : i \in DOMAIN D}
      <3>1. {output'[i].temp : i \in DOMAIN output'} = {}
        BY <1>1
      <3>. QED BY <3>1 DEF Held, D
    <2>. QED BY <1>1, <1>3, <2>1 DEF IInv, TempsOK, ToPersist
  <1>14. CancelOK'
    BY <1>1 DEF IInv, CancelOK
  <1>. QED BY <1>5, <1>6, <1>7, <1>8, <1>9, <1>10, <1>11, <1>12, <1>13, <1>14 DEF IInv

\* The call's outputs are temporary files of its own.
LEMMA HeldIsOwn ==
  ASSUME IInv, phase # "idle"
  PROVE  /\ temps = orphans \cup Held
         /\ \A t \in Held : t[1] = calls
         /\ \A t \in orphans : t[1] < calls
         /\ temps \ Held = orphans
  <1>1. calls \in Nat /\ temps = orphans \cup Held /\ \A t \in orphans : t[1] \in Nat /\ t[1] < calls
    BY DEF IInv, TypeOK, TempsOK
  <1>2. ASSUME NEW t \in Held
        PROVE  t[1] = calls
    <2>1. CASE \E i \in DOMAIN output : t = output[i].temp
      <3>1. output # <<>>
        BY <2>1
      <3>2. t = output[1].temp
        BY <2>1, <3>1, TheOutput
      <3>. QED BY <3>1, <3>2 DEF IInv, OutputsOK, IsOutput
    <2>2. CASE \E i \in DOMAIN completed_outputs : t = completed_outputs[i].temp
      BY <2>2 DEF IInv, OutputsOK, IsOutput
    <2>. QED BY <2>1, <2>2 DEF Held
  <1>3. \A t \in orphans : t \notin Held
    BY <1>1, <1>2
  <1>. QED BY <1>1, <1>2, <1>3

LEMMA AbortStep ==
  ASSUME IInv, phase # "idle", Abort
  PROVE  IInv'
  <1>. USE DEF Abort, source, call, signal
  <1>1. args \in Calls /\ args # NoArgs /\ outcome' # "files"
    BY Running
  <1>2. TypeOK'
    <2>1. output' \in Seq(Outputs) /\ completed_outputs' \in Seq(Outputs)
      BY EmptySeq
    <2>. QED BY <2>1 DEF IInv, TypeOK, Phases
  <1>3. PhaseOK' /\ InputsOK' /\ RowsOK'
    BY <1>1 DEF PhaseOK, InputsOK, RowsOK, Copying
  <1>4. OutputsOK' /\ FillOK'
    <2>1. Len(<<>>) = 0 /\ DOMAIN <<>> = {}
      OBVIOUS
    <2>. QED BY <2>1 DEF OutputsOK, FillOK, Copying
  <1>5. SourceOK'
    BY DEF IInv, SourceOK, Copying
  <1>6. FilesOK'
    BY <1>1 DEF IInv, FilesOK, AllReported
  <1>7. TempsOK'
    <2>1. Held' = {}
      BY DEF Held
    <2>2. temps' = orphans
      BY HeldIsOwn DEF Dropped
    <2>3. calls \in Nat /\ \A t \in orphans : t[1] \in Nat /\ t[1] <= calls
      BY DEF IInv, TypeOK, TempsOK
    <2>. QED BY <2>1, <2>2, <2>3 DEF TempsOK
  <1>8. CancelOK'
    BY DEF IInv, CancelOK
  <1>. QED BY <1>2, <1>3, <1>4, <1>5, <1>6, <1>7, <1>8 DEF IInv

LEMMA CrashStep ==
  ASSUME IInv, Crash
  PROVE  IInv'
  <1>. USE DEF Crash, source, call, signal, disk
  <1>1. args \in Calls /\ args # NoArgs /\ outcome' # "files"
    BY Running
  <1>2. TypeOK'
    <2>1. output' \in Seq(Outputs) /\ completed_outputs' \in Seq(Outputs)
      BY EmptySeq
    <2>. QED BY <2>1 DEF IInv, TypeOK, Phases
  <1>3. PhaseOK' /\ InputsOK' /\ RowsOK'
    BY <1>1 DEF PhaseOK, InputsOK, RowsOK, Copying
  <1>4. OutputsOK' /\ FillOK'
    <2>1. Len(<<>>) = 0 /\ DOMAIN <<>> = {}
      OBVIOUS
    <2>. QED BY <2>1 DEF OutputsOK, FillOK, Copying
  <1>5. SourceOK'
    BY DEF IInv, SourceOK, Copying
  <1>6. FilesOK'
    BY <1>1 DEF IInv, FilesOK, AllReported
  <1>7. TempsOK'
    <2>1. Held' = {}
      BY DEF Held
    <2>2. calls \in Nat /\ \A t \in orphans : t[1] \in Nat /\ t[1] <= calls
      BY DEF IInv, TypeOK, TempsOK
    <2>. QED BY <2>1, <2>2, HeldIsOwn DEF TempsOK
  <1>8. CancelOK'
    BY DEF IInv, CancelOK
  <1>. QED BY <1>2, <1>3, <1>4, <1>5, <1>6, <1>7, <1>8 DEF IInv

LEMMA UnblockStep ==
  ASSUME IInv, Unblock
  PROVE  IInv'
  <1>. USE DEF Unblock, source, target, call, disk
  <1>1. TypeOK' /\ PhaseOK' /\ InputsOK'
    BY DEF IInv, TypeOK, PhaseOK, InputsOK, Opened
  <1>2. OutputsOK' /\ FillOK' /\ RowsOK'
    BY DEF IInv, OutputsOK, IsOutput, FillOK, RowsOK
  <1>3. SourceOK' /\ FilesOK'
    BY DEF IInv, SourceOK, Opened, FilesOK, AllReported
  <1>4. TempsOK'
    BY DEF IInv, TempsOK, Held
  <1>5. CancelOK'
    BY DEF IInv, PhaseOK, CancelOK, Copying
  <1>. QED BY <1>1, <1>2, <1>3, <1>4, <1>5 DEF IInv

LEMMA ReplaceStep ==
  ASSUME IInv, Replace
  PROVE  IInv'
  <1>. USE DEF Replace, source, target, call, signal
  <1>1. files' \in Files
    <2>1. PICK r \in Replacements : files' = [files EXCEPT ![r[1]] = r[2]]
      OBVIOUS
    <2>2. files \in Files /\ r[2] \in Content \cup {NoFile}
      BY RepackAssumption DEF IInv, TypeOK
    <2>. QED BY <2>1, <2>2 DEF Files
  <1>2. TypeOK' /\ PhaseOK' /\ InputsOK'
    BY <1>1 DEF IInv, TypeOK, PhaseOK, InputsOK, Opened
  <1>3. OutputsOK' /\ FillOK' /\ RowsOK'
    BY DEF IInv, OutputsOK, IsOutput, FillOK, RowsOK
  <1>4. SourceOK' /\ FilesOK'
    BY DEF SourceOK, FilesOK
  <1>5. TempsOK'
    BY DEF IInv, TempsOK, Held
  <1>6. CancelOK'
    BY DEF IInv, CancelOK
  <1>. QED BY <1>2, <1>3, <1>4, <1>5, <1>6 DEF IInv

\* What is reported is there, unless another process replaced it.
LEMMA ReportsAreInPlace ==
  ASSUME IInv, ~replaced
  PROVE  InPlace(files, repacked_files) /\ AllReported \in Seq(Rows)
  <1>1. /\ files \in Files /\ repacked_files \in Seq(Reports)
        /\ Len(repacked_files) \in Nat
        /\ DOMAIN repacked_files = 1 .. Len(repacked_files)
    <2>1. files \in Files /\ repacked_files \in Seq(Reports)
      BY DEF IInv, TypeOK
    <2>. QED BY <2>1, LenProperties
  <1>2. InPlace(files, repacked_files)
    <2>1. \A i \in 1 .. Len(repacked_files) : repacked_files[i] \in Reports
      BY <1>1, ElementOfSeq
    <2>2. \A i \in 1 .. Len(repacked_files) : repacked_files[i].path \in Paths
      BY <2>1 DEF Reports
    <2>3. \A i \in 1 .. Len(repacked_files) : files[repacked_files[i].path] # NoFile
      BY <1>1 DEF IInv, FilesOK
    <2>. QED BY <2>2, <2>3 DEF InPlace
  <1>3. Len(repacked_files) \in 0 .. Len(repacked_files)
    BY <1>1
  <1>. QED BY <1>1, <1>2, <1>3, ReportedFacts DEF AllReported

LEMMA ReturnStep ==
  ASSUME IInv, Return
  PROVE  IInv'
  <1>. USE DEF Return, source, target, call, signal, disk
  <1>1. args \in Calls /\ args # NoArgs /\ output = <<>>
    BY Running DEF IInv, PhaseOK
  <1>2. TypeOK' /\ PhaseOK' /\ InputsOK' /\ RowsOK'
    BY <1>1 DEF IInv, TypeOK, Phases, PhaseOK, InputsOK, RowsOK, Copying
  <1>3. OutputsOK' /\ FillOK'
    <2>1. Len(<<>>) = 0 /\ DOMAIN <<>> = {}
      OBVIOUS
    <2>. QED BY <1>1, <2>1 DEF OutputsOK, FillOK, Copying
  <1>4. SourceOK'
    BY DEF IInv, SourceOK, Copying
  <1>5. FilesOK'
    <2>. SUFFICES ASSUME ~replaced PROVE FilesOK'
      BY DEF FilesOK
    <2>1. AllReported \in Seq(Rows)
      BY ReportsAreInPlace
    <2>2. consumed = AllReported
      <3>1. consumed = AllReported \o <<>>
        BY RowsOfNone DEF IInv, FilesOK
      <3>. QED BY <2>1, <3>1, ConcatEmptySeq
    <2>. QED BY <2>2 DEF IInv, FilesOK, AllReported
  <1>6. TempsOK'
    <2>1. calls \in Nat /\ \A t \in orphans : t[1] \in Nat /\ t[1] <= calls
      BY DEF IInv, TypeOK, TempsOK
    <2>. QED BY <2>1 DEF IInv, TempsOK, Held
  <1>7. CancelOK'
    BY DEF IInv, CancelOK
  <1>. QED BY <1>2, <1>3, <1>4, <1>5, <1>6, <1>7 DEF IInv

LEMMA StutterStep ==
  ASSUME IInv, UNCHANGED vars
  PROVE  IInv'
  <1>. USE DEF vars, source, target, call, signal, disk
  <1>1. TypeOK' /\ PhaseOK' /\ InputsOK' /\ RowsOK'
    BY DEF IInv, TypeOK, PhaseOK, InputsOK, Opened, RowsOK
  <1>2. OutputsOK' /\ FillOK'
    BY DEF IInv, OutputsOK, IsOutput, FillOK
  <1>3. SourceOK' /\ FilesOK'
    BY DEF IInv, SourceOK, Opened, FilesOK, AllReported
  <1>4. TempsOK' /\ CancelOK'
    BY DEF IInv, TempsOK, Held, CancelOK
  <1>. QED BY <1>1, <1>2, <1>3, <1>4 DEF IInv

Removed(t, s, S) ==
  /\ t = Tail(s) /\ t \in Seq(S)
  /\ Len(s) \in Nat \ {0} /\ Len(t) = Len(s) - 1
  /\ DOMAIN s = 1 .. Len(s) /\ DOMAIN t = 1 .. Len(s) - 1
  /\ \A i \in 1 .. Len(s) - 1 : t[i] = s[i + 1]

LEMMA FirstRemoved ==
  ASSUME NEW S, NEW s \in Seq(S), s # <<>>
  PROVE  Removed(RemoveAt(s, 1), s, S)
  <1>1. /\ Tail(s) \in Seq(S) /\ Len(s) \in Nat \ {0} /\ Len(Tail(s)) = Len(s) - 1
        /\ \A i \in 1 .. Len(s) - 1 : Tail(s)[i] = s[i + 1]
    BY HeadTailProperties, EmptySeq
  <1>2. DOMAIN s = 1 .. Len(s) /\ DOMAIN Tail(s) = 1 .. Len(s) - 1
    BY <1>1, LenProperties
  <1>3. RemoveAt(s, 1) = Tail(s)
    <2>1. SubSeq(s, 1, 1 - 1) = <<>>
      BY SubSeqEmpty
    <2>2. SubSeq(s, 1 + 1, Len(s)) = Tail(s)
      BY TailIsSubSeq
    <2>3. <<>> \o Tail(s) = Tail(s)
      BY <1>1, ConcatEmptySeq
    <2>. QED BY <2>1, <2>2, <2>3 DEF RemoveAt
  <1>. QED BY <1>1, <1>2, <1>3 DEF Removed

LEMMA PersistStep ==
  ASSUME IInv, Persist
  PROVE  IInv'
  <1>. USE DEF source, call, signal
  <1>. DEFINE C == completed_outputs
              D == completed_outputs'
              o == C[1]
              R == repacked_files
              k == Len(R)
              n == Len(C)
  <1>1. /\ phase = "persist" /\ C # <<>>
        /\ files' = [files EXCEPT ![o.path] = [schema |-> schema, rows |-> o.rows]]
        /\ temps' = temps \ {o.temp}
        /\ R' = Append(R, [path |-> o.path, num_rows |-> o.num_rows])
        /\ D = RemoveAt(C, 1)
        /\ UNCHANGED <<phase, source, output, current_output_rows, output_index, call,
                       signal, outcome, replaced, orphans>>
    BY DEF Persist, Persisted, Turn
  <1>2. /\ args \in Calls /\ args # NoArgs /\ args.prefix \in DOMAIN OutputPath
        /\ schema \in Schemas /\ output = <<>> /\ outcome # "files"
        /\ inputs = <<>> /\ reader.rows = <<>> /\ batch = <<>>
        /\ files \in Files /\ before \in Files /\ R \in Seq(Reports) /\ C \in Seq(Outputs)
        /\ consumed \in Seq(Rows) /\ calls \in Nat
    BY <1>1, Running DEF IInv, TypeOK, PhaseOK, Copying
  <1>3. /\ D \in Seq(Outputs) /\ D = Tail(C) /\ n \in Nat \ {0} /\ Len(D) = n - 1
        /\ DOMAIN C = 1 .. n /\ DOMAIN D = 1 .. n - 1
        /\ \A i \in 1 .. n - 1 : D[i] = C[i + 1]
    <2>1. Removed(D, C, Outputs)
      BY <1>1, <1>2, FirstRemoved
    <2>. QED BY <2>1 DEF Removed
  <1>4. /\ o \in Outputs /\ o.path \in Paths /\ o.rows \in Seq(Rows) /\ o.num_rows \in Nat
    <2>1. o \in Outputs
      BY <1>2, <1>3, ElementOfSeq
    <2>. QED BY <2>1 DEF Outputs
  <1>5. k \in Nat /\ DOMAIN R = 1 .. k /\ \A i \in 1 .. n : IsOutput(C[i], k + i)
    <2>1. k \in Nat /\ DOMAIN R = 1 .. k
      BY <1>2, LenProperties
    <2>. QED BY <1>3, <2>1 DEF IInv, OutputsOK
  <1>6. /\ IsOutput(o, k + 1) /\ o.temp = <<calls, k>>
        /\ k + 1 \in DOMAIN OutputPath[args.prefix]
        /\ o.path = OutputPath[args.prefix][k + 1] /\ o.num_rows = Len(o.rows)
    <2>1. 1 \in 1 .. n /\ (k + 1) - 1 = k
      BY <1>3, <1>5
    <2>2. IsOutput(o, k + 1)
      BY <1>5, <2>1
    <2>. QED BY <2>1, <2>2 DEF IsOutput
  <1>7. PICK r \in Reports : r = [path |-> o.path, num_rows |-> o.num_rows]
                             /\ r.path = o.path /\ r.num_rows = o.num_rows
    <2>. DEFINE r == [path |-> o.path, num_rows |-> o.num_rows]
    <2>1. r \in Reports /\ r.path = o.path /\ r.num_rows = o.num_rows
      BY <1>4 DEF Reports
    <2>. HIDE DEF r
    <2>2. \E x \in Reports : x = r /\ x.path = o.path /\ x.num_rows = o.num_rows
      BY <2>1
    <2>. QED BY <2>2 DEF r
  <1>8. /\ R' \in Seq(Reports) /\ Len(R') = k + 1 /\ DOMAIN R' = 1 .. k + 1
        /\ \A i \in 1 .. k : R'[i] = R[i]
        /\ R'[k + 1] = r /\ R' # <<>>
    <2>1. R' = Append(R, r)
      BY <1>1, <1>7
    <2>. QED BY <1>2, <1>5, <2>1, AppendProperties, LenProperties
  <1>9. /\ files' \in Files
        /\ files'[o.path] = [schema |-> schema, rows |-> o.rows]
        /\ files'[o.path] \in Content
        /\ \A p \in Paths : p # o.path => files'[p] = files[p]
    <2>1. [schema |-> schema, rows |-> o.rows] \in Content
      BY <1>2, <1>4 DEF Content
    <2>. QED BY <1>1, <1>2, <1>4, <2>1 DEF Files
  <1>10. C # <<>> /\ RowsOf(C) = o.rows \o RowsOf(D) /\ RowsOf(D) \in Seq(Rows)
    BY <1>1, <1>2, <1>3, RowsOfFirst, RowsOfType
  <1>. HIDE DEF C, D, o, R, k, n
  <1>11. TypeOK'
    BY <1>1, <1>3, <1>8, <1>9 DEF IInv, TypeOK, D, R
  <1>12. PhaseOK' /\ InputsOK' /\ RowsOK' /\ CancelOK'
    <2>1. PhaseOK' /\ InputsOK' /\ RowsOK'
      BY <1>1, <1>2 DEF PhaseOK, IInv, InputsOK, Opened, RowsOK, Copying
    <2>2. CancelOK'
      BY <1>1 DEF IInv, CancelOK
    <2>. QED BY <2>1, <2>2
  <1>13. OutputsOK'
    <2>1. \A i \in 1 .. n - 1 : IsOutput(D[i], Len(R') + i)
      <3>. TAKE i \in 1 .. n - 1
      <3>1. i + 1 \in 1 .. n /\ k + (i + 1) = Len(R') + i
        BY <1>3, <1>5, <1>8
      <3>. QED BY <1>3, <1>5, <3>1
    <2>2. (\A i \in DOMAIN completed_outputs :
             IsOutput(completed_outputs[i], Len(repacked_files) + i))'
      BY <1>1, <1>3, <2>1 DEF D, R, IsOutput
    <2>3. Len(<<>>) = 0
      OBVIOUS
    <2>. QED BY <1>1, <1>2, <2>2, <2>3 DEF OutputsOK, Copying
  <1>14. FillOK'
    <2>1. \A i \in 1 .. n - 1 : i + 1 \in 1 .. n /\ (i + 1 = n => i = Len(D))
      BY <1>3
    <2>2. args.rows_per_file # NoLimit =>
            \A i \in 1 .. n - 1 : \/ Len(D[i].rows) = args.rows_per_file
                                  \/ i = Len(D) /\ Len(D[i].rows) < args.rows_per_file
      <3>1. args.rows_per_file # NoLimit =>
              \A i \in 1 .. n : \/ Len(C[i].rows) = args.rows_per_file
                                \/ i = n /\ Len(C[i].rows) < args.rows_per_file
        BY <1>3 DEF IInv, FillOK, C, n
      <3>. QED BY <1>3, <2>1, <3>1
    <2>3. \A i \in 1 .. n - 1 : D[i].rows = <<>> => consumed = <<>>
      <3>1. \A i \in 1 .. n : C[i].rows = <<>> => consumed = <<>>
        BY <1>3 DEF IInv, FillOK, C
      <3>. QED BY <1>3, <2>1, <3>1
    <2>. QED BY <1>1, <1>3, <2>2, <2>3 DEF FillOK, D, Copying
  <1>15. SourceOK'
    <2>1. ~replaced => consumed = Originals(before, args.read_from, Len(args.read_from))
      <3>1. Opened = Len(args.read_from)
        <4>1. Len(args.read_from) \in Nat /\ Len(inputs) = 0
          BY <1>2, CallFacts
        <4>. QED BY <4>1 DEF Opened
      <3>2. consumed \o <<>> = consumed
        BY <1>2, ConcatEmptySeq
      <3>. QED BY <1>1, <1>2, <3>1, <3>2 DEF IInv, SourceOK
    <2>. QED BY <1>1, <2>1 DEF IInv, SourceOK, Opened
  <1>16. FilesOK'
    <2>. SUFFICES ASSUME ~replaced PROVE FilesOK'
      BY <1>1 DEF FilesOK
    <2>1. \A i \in 1 .. k :
            /\ i \in DOMAIN OutputPath[args.prefix]
            /\ R[i].path = OutputPath[args.prefix][i]
            /\ files[R[i].path] # NoFile
            /\ files[R[i].path].schema = schema
            /\ R[i].num_rows = Len(files[R[i].path].rows)
      BY <1>5 DEF IInv, FilesOK, R
    <2>2. \A i \in 1 .. k : R[i].path \in Paths /\ R[i].path # o.path
      <3>. TAKE i \in 1 .. k
      <3>1. i # k + 1
        BY <1>5
      <3>. QED BY <1>2, <1>6, <2>1, <3>1, OutputPathFacts
    <2>3. \A i \in 1 .. k : R'[i].path = R[i].path /\ files'[R'[i].path] = files[R[i].path]
      BY <1>8, <1>9, <2>2
    <2>4. \A i \in 1 .. k + 1 : i \in 1 .. k \/ i = k + 1
      BY <1>5
    <2>5. NoFile \notin Content
      BY RepackAssumption
    <2>6. \A i \in 1 .. k + 1 :
            /\ i \in DOMAIN OutputPath[args.prefix]
            /\ R'[i].path = OutputPath[args.prefix][i]
            /\ files'[R'[i].path] # NoFile
            /\ files'[R'[i].path].schema = schema
            /\ R'[i].num_rows = Len(files'[R'[i].path].rows)
      <3>1. ASSUME NEW i \in 1 .. k
            PROVE  /\ i \in DOMAIN OutputPath[args.prefix]
                   /\ R'[i].path = OutputPath[args.prefix][i]
                   /\ files'[R'[i].path] # NoFile
                   /\ files'[R'[i].path].schema = schema
                   /\ R'[i].num_rows = Len(files'[R'[i].path].rows)
        BY <1>8, <2>1, <2>3
      <3>2. /\ R'[k + 1].path = o.path /\ R'[k + 1].num_rows = Len(o.rows)
            /\ files'[o.path] # NoFile
            /\ files'[o.path].schema = schema /\ files'[o.path].rows = o.rows
        BY <1>6, <1>7, <1>8, <1>9, <2>5
      <3>. QED BY <1>6, <2>4, <3>1, <3>2
    <2>7. \A p \in Paths \ {R'[i].path : i \in DOMAIN R'} : files'[p] = before[p]
      <3>. TAKE p \in Paths \ {R'[i].path : i \in DOMAIN R'}
      <3>1. k + 1 \in DOMAIN R' /\ \A i \in DOMAIN R : i \in DOMAIN R'
        BY <1>5, <1>8
      <3>2. p # o.path /\ p \notin {R[i].path : i \in DOMAIN R}
        BY <1>5, <1>7, <1>8, <3>1
      <3>3. files[p] = before[p]
        BY <3>2 DEF IInv, FilesOK, R
      <3>. QED BY <1>9, <3>2, <3>3
    <2>8. InPlace(files', R')
      <3>1. \A i \in 1 .. k + 1 : R'[i].path \in Paths
        BY <1>2, <2>6, OutputPathFacts
      <3>. QED BY <1>8, <2>6, <3>1 DEF InPlace
    <2>9. AllReported' = AllReported \o o.rows /\ AllReported \in Seq(Rows)
      <3>1. k \in 0 .. Len(R') /\ k < Len(R')
        BY <1>5, <1>8
      <3>2. Reported(files', R', k + 1) = Reported(files', R', k) \o files'[R'[k + 1].path].rows
        BY <1>8, <1>9, <2>8, <3>1, ReportedFacts
      <3>3. files'[R'[k + 1].path].rows = o.rows
        BY <1>7, <1>8, <1>9
      <3>4. Reported(files', R', k) = Reported(files, R, k)
        <4>1. [i \in 1 .. k |-> files'[R'[i].path].rows] = [i \in 1 .. k |-> files[R[i].path].rows]
          BY <2>3
        <4>. QED BY <4>1 DEF Reported
      <3>5. AllReported = Reported(files, R, k)
        BY DEF AllReported, R, k
      <3>6. AllReported' = Reported(files', R', k + 1)
        BY <1>8 DEF AllReported, R
      <3>. QED BY <3>2, <3>3, <3>4, <3>5, <3>6, ReportsAreInPlace
    <2>10. consumed = AllReported' \o RowsOf(D)
      <3>1. consumed = AllReported \o RowsOf(C)
        BY <1>1 DEF IInv, FilesOK, C
      <3>2. (AllReported \o o.rows) \o RowsOf(D) = AllReported \o (o.rows \o RowsOf(D))
        BY <1>4, <1>10, <2>9, RowsThree, Zenon
      <3>. QED BY <1>10, <2>9, <3>1, <3>2
    <2>11. IsPrefix(AllReported', consumed)
      <3>1. AllReported' \in Seq(Rows)
        BY <1>4, <2>9, ConcatElements
      <3>. QED BY <1>10, <2>10, <3>1, PrefixOfConcat
    <2>. QED BY <1>1, <1>2, <1>8, <2>6, <2>7, <2>10, <2>11 DEF FilesOK, D, R
  <1>17. TempsOK'
    <2>1. Held = {C[i].temp : i \in 1 .. n}
      <3>1. {output[i].temp : i \in DOMAIN output} = {}
        BY <1>2
      <3>. QED BY <1>3, <3>1 DEF Held, C
    <2>2. Held' = {D[i].temp : i \in 1 .. n - 1}
      <3>1. {output'[i].temp : i \in DOMAIN output'} = {}
        BY <1>1, <1>2
      <3>. QED BY <1>3, <3>1 DEF Held, D
    <2>3. Held = Held' \cup {o.temp}
      <3>1. \A i \in 1 .. n : i = 1 \/ (i - 1 \in 1 .. n - 1 /\ (i - 1) + 1 = i)
        BY <1>3
      <3>2. 1 \in 1 .. n /\ \A i \in 1 .. n - 1 : i + 1 \in 1 .. n
        BY <1>3
      <3>3. \A i \in 1 .. n : C[i].temp = o.temp \/ \E j \in 1 .. n - 1 : C[i].temp = D[j].temp
        BY <1>3, <3>1 DEF o
      <3>4. \A j \in 1 .. n - 1 : \E i \in 1 .. n : C[i].temp = D[j].temp
        BY <1>3, <3>2
      <3>5. o.temp = C[1].temp
        BY DEF o
      <3>6. \A t \in Held : t \in Held' \/ t = o.temp
        BY <2>1, <2>2, <3>3
      <3>7. o.temp \in Held /\ \A t \in Held' : t \in Held
        BY <2>1, <2>2, <3>2, <3>4, <3>5
      <3>. QED BY <3>6, <3>7
    <2>4. o.temp \notin Held'
      <3>. SUFFICES ASSUME NEW i \in 1 .. n - 1 PROVE D[i].temp # o.temp
        BY <2>2
      <3>1. i + 1 \in 1 .. n /\ k + (i + 1) - 1 # k
        BY <1>3, <1>5
      <3>2. D[i].temp = <<calls, k + (i + 1) - 1>>
        BY <1>3, <1>5, <3>1 DEF IsOutput
      <3>. QED BY <1>6, <3>1, <3>2
    <2>5. o.temp \notin orphans
      <3>1. o.temp[1] = calls
        BY <1>6
      <3>. QED BY <1>1, <1>2, <3>1 DEF IInv, TempsOK
    <2>6. temps' = orphans \cup Held'
      BY <1>1, <2>3, <2>4, <2>5 DEF IInv, TempsOK
    <2>. QED BY <1>1, <2>6 DEF IInv, TempsOK
  <1>. QED BY <1>11, <1>12, <1>13, <1>14, <1>15, <1>16, <1>17 DEF IInv

LEMMA Invariance == Spec => []IInv
  <1>1. ASSUME IInv, [Next]_vars
        PROVE  IInv'
    <2>1. CASE Work
      <3>1. CASE Refuse
        <4>1. phase # "idle" /\ Abort
          BY <3>1 DEF Refuse
        <4>. QED BY <1>1, <4>1, AbortStep
      <3>. QED
        BY <1>1, <2>1, <3>1, ReadSchemaStep, OpenInputStep, NextBatchStep, EndOfInputStep,
           EndOfBatchStep, CreateOutputStep, WriteSliceStep, CloseFullStep, CloseLastStep,
           PersistStep, ReturnStep DEF Work
    <2>2. CASE Fail
      BY <1>1, <2>2, AbortStep DEF Fail
    <2>3. CASE Unblock \/ Replace \/ Crash
      BY <1>1, <2>3, UnblockStep, ReplaceStep, CrashStep
    <2>4. CASE \E a \in Calls : Repack(a)
      BY <1>1, <2>4, RepackStep
    <2>5. CASE UNCHANGED vars
      BY <1>1, <2>5, StutterStep
    <2>. QED BY <1>1, <2>1, <2>2, <2>3, <2>4, <2>5 DEF Next
  <1>. QED BY <1>1, InitHolds, PTL DEF Spec

----------------------------------------------------------------------------
(* Theorems. *)

\* Rows are neither lost, repeated nor reordered while they are distributed to
\* outputs (the loop over batches of repack_files).
THEOREM NoRowIsLost == Spec => []RowsAreConserved
  <1>1. IInv => RowsAreConserved
    BY DEF IInv, RowsOK, Copying, RowsAreConserved
  <1>. QED BY <1>1, Invariance, PTL

\* Every output but the last has rows_per_file rows (close_output when it is full).
THEOREM OutputsHaveTheirSize == Spec => []OutputsAreFilled
  <1>1. IInv => OutputsAreFilled
    <2>. SUFFICES ASSUME IInv PROVE OutputsAreFilled
      OBVIOUS
    <2>1. ASSUME args.rows_per_file # NoLimit, NEW i \in DOMAIN output
          PROVE  Len(output[i].rows) <= args.rows_per_file
      <3>1. output # <<>> /\ output[i] = output[1]
        <4>1. output # <<>>
          OBVIOUS
        <4>2. output = <<output[1]>>
          BY <4>1, TheOutput
        <4>3. DOMAIN output = {1}
          BY <4>2
        <4>. QED BY <4>1, <4>3
      <3>2. current_output_rows = Len(output[1].rows) /\ current_output_rows \in Nat
        BY <3>1 DEF IInv, OutputsOK, TypeOK
      <3>3. phase \in Copying
        BY <3>1 DEF IInv, TypeOK, Phases, PhaseOK, Copying
      <3>4. args.rows_per_file \in Nat
        BY <2>1, <3>3, Running DEF Copying
      <3>. QED BY <2>1, <3>1, <3>2, <3>3, <3>4 DEF IInv, FillOK, Copying
    <2>. QED BY <2>1 DEF IInv, FillOK, OutputsAreFilled
  <1>. QED BY <1>1, Invariance, PTL

\* Inputs that are outputs too are read as they were: persist_outputs comes after
\* the last batch is read.
THEOREM InputsAreReadBeforeTheyAreReplaced == Spec => []OriginalsAreRead
  <1>1. IInv => OriginalsAreRead
    <2>. SUFFICES ASSUME IInv, ~replaced, args # NoArgs
                  PROVE  LET originals == FlattenSeq([i \in DOMAIN args.read_from |->
                                   IF before[args.read_from[i]] = NoFile
                                   THEN <<>> ELSE before[args.read_from[i]].rows])
                         IN  /\ IsPrefix(consumed, originals)
                             /\ repacked_files # <<>> => consumed = originals
      BY DEF OriginalsAreRead
    <2>1. args \in Calls /\ args.read_from \in Seq(Paths)
      BY CallFacts DEF IInv, TypeOK
    <2>2. DOMAIN args.read_from = 1 .. Len(args.read_from)
      BY <2>1, LenProperties
    <2>3. FlattenSeq([i \in DOMAIN args.read_from |->
                        IF before[args.read_from[i]] = NoFile
                        THEN <<>> ELSE before[args.read_from[i]].rows])
            = Originals(before, args.read_from, Len(args.read_from))
      BY <2>2 DEF Originals, RowsAt
    <2>. QED BY <2>3 DEF IInv, SourceOK
  <1>. QED BY <1>1, Invariance, PTL

\* persist_outputs replaces the first outputs first, each as a whole.
THEOREM PersistsInOrder == Spec => []OutputsAppearInOrder
  <1>1. IInv => OutputsAppearInOrder
    <2>. SUFFICES ASSUME IInv, ~replaced PROVE OutputsAppearInOrder
      BY DEF OutputsAppearInOrder
    <2>. DEFINE R == repacked_files
                k == Len(R)
    <2>1. /\ files \in Files /\ R \in Seq(Reports) /\ k \in Nat /\ DOMAIN R = 1 .. k
          /\ consumed \in Seq(Rows) /\ InPlace(files, R) /\ AllReported \in Seq(Rows)
      <3>1. files \in Files /\ R \in Seq(Reports) /\ consumed \in Seq(Rows)
        BY DEF IInv, TypeOK
      <3>. QED BY <3>1, LenProperties, ReportsAreInPlace
    <2>. HIDE DEF R, k
    <2>2. ASSUME NEW i \in 1 .. k
          PROVE  IsPrefix(FlattenSeq([j \in 1 .. i - 1 |-> files[R[j].path].rows])
                            \o files[R[i].path].rows, consumed)
      <3>1. i - 1 \in 0 .. Len(R) /\ i - 1 < Len(R) /\ (i - 1) + 1 = i /\ i \in 0 .. Len(R)
        BY <2>1 DEF k
      <3>2. Reported(files, R, i) = Reported(files, R, i - 1) \o files[R[i].path].rows
        BY <2>1, <3>1, ReportedFacts
      <3>3. /\ Reported(files, R, i) \in Seq(Rows)
            /\ IsPrefix(Reported(files, R, i), AllReported)
        BY <2>1, <3>1, ReportedFacts DEF AllReported, R
      <3>4. IsPrefix(AllReported, consumed)
        <4>1. R # <<>>
          BY <2>1
        <4>. QED BY <4>1 DEF IInv, FilesOK, R
      <3>5. IsPrefix(Reported(files, R, i), consumed)
        BY <2>1, <3>3, <3>4, PrefixTransitive
      <3>. QED BY <3>2, <3>5 DEF Reported
    <2>. QED BY <2>1, <2>2 DEF IInv, FilesOK, OutputsAppearInOrder, R
  <1>. QED BY <1>1, Invariance, PTL

\* What repack returns names files that hold all rows of the inputs.
THEOREM ReportsAreComplete == Spec => []ReportedFilesHoldAllRows
  <1>1. IInv => ReportedFilesHoldAllRows
    <2>. SUFFICES ASSUME IInv, outcome = "files", ~replaced
                  PROVE  FlattenSeq([i \in DOMAIN repacked_files |->
                                       files[repacked_files[i].path].rows]) = consumed
      BY DEF ReportedFilesHoldAllRows
    <2>1. DOMAIN repacked_files = 1 .. Len(repacked_files)
      <3>1. repacked_files \in Seq(Reports)
        BY DEF IInv, TypeOK
      <3>. QED BY <3>1, LenProperties
    <2>. QED BY <2>1 DEF IInv, FilesOK, AllReported, Reported
  <1>. QED BY <1>1, Invariance, PTL

\* The unblocking function and the destructors of temporary files.
THEOREM NothingIsLeftBehind == Spec => []InterruptsAndFailuresCleanUp
  <1>1. IInv => InterruptsAndFailuresCleanUp
    <2>. SUFFICES ASSUME IInv PROVE InterruptsAndFailuresCleanUp
      OBVIOUS
    <2>1. phase = "idle" => Held = {}
      BY DEF IInv, PhaseOK, Held
    <2>. QED BY <2>1 DEF IInv, TempsOK, CancelOK, InterruptsAndFailuresCleanUp
  <1>. QED BY <1>1, Invariance, PTL
============================================================================
