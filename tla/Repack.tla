-------------------------------- MODULE Repack --------------------------------
(***************************************************************************)
(* Parquet.repack (repack.rs): rows of the input files, in order, into     *)
(* output files of rows_per_file rows.  Outputs are temporary files until  *)
(* all input is read; then each is renamed to its final path.              *)
(*                                                                         *)
(* The native code runs without the GVL: between two of its steps another  *)
(* thread may interrupt it (rb_thread_call_without_gvl then calls the      *)
(* unblocking function), another process may replace an input, or the      *)
(* process may die.  Any file operation may fail.  Files are a schema and  *)
(* a sequence of rows.                                                     *)
(***************************************************************************)
EXTENDS Integers, Sequences, FiniteSets, SequencesExt

CONSTANTS
  Paths,         \* paths of a directory that inputs and outputs share
  Schemas, Rows,
  SchemaOf,      \* the schema that a row was written with
  WriterTakes,   \* <<schema of a writer, schema of a batch>>: ArrowWriter::write compares
                 \* types column by column, not names
  Initial,       \* the files at the start: [Paths -> Content \cup {NoFile}]
  Calls,         \* arguments that callers pass
  OutputPath,    \* OutputPath[prefix][i + 1]: "<prefix>-<i>.parquet"; bound: its length
  Replacements,  \* <<path, content>> pairs that other processes write
  MaxChunk,      \* max_batch_size_for_column_count of the schemas
  MaxCalls,      \* bound: calls of repack
  NoFile, NoSchema, NoLimit

Content == [schema : Schemas, rows : Seq(Rows)]

\* parse_parquet_repack_args refuses no input, no rows and no chunk.
ASSUME RepackAssumption ==
  /\ NoFile \notin Content /\ NoSchema \notin Schemas /\ NoLimit \notin Nat
  /\ SchemaOf \in [Rows -> Schemas] /\ WriterTakes \subseteq Schemas \X Schemas
  /\ Initial \in [Paths -> Content \cup {NoFile}]
  /\ Replacements \subseteq Paths \X (Content \cup {NoFile})
  /\ Calls \subseteq [read_from : Seq(Paths) \ {<<>>}, prefix : DOMAIN OutputPath,
                      rows_per_file : (Nat \ {0}) \cup {NoLimit}, max_rows : Nat \ {0}]
  /\ \A prefix \in DOMAIN OutputPath :
       /\ \A i \in DOMAIN OutputPath[prefix] : OutputPath[prefix][i] \in Paths
       /\ \A i, j \in DOMAIN OutputPath[prefix] :
            OutputPath[prefix][i] = OutputPath[prefix][j] => i = j
  /\ MaxChunk \in Nat \ {0}

VARIABLES
  files,        \* what each path holds
  temps,        \* temporary files in the output directory
  phase,        \* where repack_files is
  args,         \* its arguments
  schema,       \* of the first input
  inputs,       \* input paths not opened yet
  reader,       \* the open input: its schema and the rows not read
  batch,        \* the rows of the current batch from offset on
  output,       \* current_output: no or one PendingOutput
  current_output_rows,
  output_index,
  completed_outputs,
  repacked_files,
  cancelled,    \* set by repack_without_gvl_unblock
  outcome       \* what the last call returned or raised

\* History: the calls made, the files when the call began, the rows its readers
\* returned, whether it was cancelled with rows still to write, whether another
\* process wrote a file since it began, and the temporary files of processes
\* that died.
VARIABLES calls, before, consumed, cancelled_early, replaced, orphans

source == <<inputs, reader, batch, consumed>>
target == <<output, current_output_rows, output_index, completed_outputs,
            repacked_files>>
call   == <<args, schema, before, calls>>
signal == <<cancelled, cancelled_early>>
disk   == <<files, temps>>
vars   == <<disk, phase, source, target, call, signal, outcome, replaced, orphans>>

RowsOf(outputs) == FlattenSeq([i \in DOMAIN outputs |-> outputs[i].rows])
----------------------------------------------------------------------------
NoReader == [schema |-> NoSchema, rows |-> <<>>]
NoArgs == [read_from |-> <<>>, prefix |-> "", rows_per_file |-> NoLimit, max_rows |-> 1]

Lesser(a, b) == IF a <= b THEN a ELSE b

effective_max_read_rows_per_chunk == Lesser(args.max_rows, MaxChunk)

\* A slip: the loop runs once more when the batch is used up.
InBatch_inclusive == TRUE

\* while offset < batch.num_rows()
InBatch == batch # <<>>

\* A slip: what the output holds already is not subtracted.
RowsToWrite_ignoring_current ==
  IF args.rows_per_file = NoLimit THEN Len(batch) ELSE Lesser(Len(batch), args.rows_per_file)

RowsToWrite ==
  IF args.rows_per_file = NoLimit
  THEN Len(batch)
  ELSE Lesser(Len(batch), args.rows_per_file - current_output_rows)

\* A slip: an if where the code has a while.
Rest_if(n) == <<>>
Rest(n) == SubSeq(batch, n + 1, Len(batch))

check_cancelled == ~cancelled

\* Temporary files the call holds: they are deleted when it lets go of them.
Held == {output[i].temp : i \in DOMAIN output}
          \cup {completed_outputs[i].temp : i \in DOMAIN completed_outputs}

\* A slip: the temporary file of the output being written is kept.
Dropped_completed == {completed_outputs[i].temp : i \in DOMAIN completed_outputs}

Dropped == Held
----------------------------------------------------------------------------
Init ==
  /\ files = Initial
  /\ temps = {}
  /\ phase = "idle"
  /\ args = NoArgs /\ schema = NoSchema
  /\ inputs = <<>> /\ reader = NoReader /\ batch = <<>>
  /\ output = <<>> /\ current_output_rows = 0 /\ output_index = 0
  /\ completed_outputs = <<>> /\ repacked_files = <<>>
  /\ cancelled = FALSE /\ cancelled_early = FALSE
  /\ outcome = "none"
  /\ calls = 0 /\ before = Initial /\ consumed = <<>>
  /\ replaced = FALSE /\ orphans = {}

\* parse_parquet_repack_args, then the native call.
Repack(a) ==
  /\ phase = "idle"
  /\ calls < MaxCalls
  /\ calls' = calls + 1
  /\ phase' = "schemas"
  /\ args' = a /\ schema' = NoSchema
  /\ inputs' = a.read_from /\ reader' = NoReader /\ batch' = <<>>
  /\ output' = <<>> /\ current_output_rows' = 0 /\ output_index' = 0
  /\ completed_outputs' = <<>> /\ repacked_files' = <<>>
  /\ cancelled' = FALSE /\ cancelled_early' = FALSE
  /\ outcome' = "none"
  /\ before' = files /\ consumed' = <<>> /\ replaced' = FALSE
  /\ UNCHANGED <<disk, orphans>>

\* read_schema(first), then validate_input_schemas: each other input must have
\* the schema of the first.
ReadSchema ==
  /\ phase = "schemas"
  /\ inputs # <<>>
  /\ files[Head(inputs)] # NoFile
  /\ schema \in {NoSchema, files[Head(inputs)].schema}
  /\ schema' = files[Head(inputs)].schema
  /\ IF Len(inputs) = 1
     THEN phase' = "open" /\ inputs' = args.read_from
     ELSE phase' = "schemas" /\ inputs' = Tail(inputs)
  /\ UNCHANGED <<disk, reader, batch, consumed, target, args, before, calls, signal,
                 outcome, replaced, orphans>>

\* The next input is opened again for its rows.
OpenInput ==
  /\ phase = "open"
  /\ inputs # <<>>
  /\ files[Head(inputs)] # NoFile
  /\ reader' = files[Head(inputs)]
  /\ inputs' = Tail(inputs)
  /\ phase' = "read"
  /\ UNCHANGED <<disk, batch, consumed, target, call, signal, outcome, replaced, orphans>>

\* The reader returns a batch, of up to the chunk size.
NextBatch ==
  /\ phase = "read"
  /\ \E n \in 1 .. Lesser(Len(reader.rows), effective_max_read_rows_per_chunk) :
       /\ batch' = SubSeq(reader.rows, 1, n)
       /\ consumed' = consumed \o SubSeq(reader.rows, 1, n)
       /\ reader' = [reader EXCEPT !.rows = SubSeq(@, n + 1, Len(@))]
  /\ phase' = "write"
  /\ UNCHANGED <<disk, inputs, target, call, signal, outcome, replaced, orphans>>

EndOfInput ==
  /\ phase = "read"
  /\ reader.rows = <<>>
  /\ phase' = IF inputs = <<>> THEN "finish" ELSE "open"
  /\ UNCHANGED <<disk, source, target, call, signal, outcome, replaced, orphans>>

EndOfBatch ==
  /\ phase = "write"
  /\ ~InBatch
  /\ phase' = "read"
  /\ UNCHANGED <<disk, source, target, call, signal, outcome, replaced, orphans>>

\* create_output: a temporary file in the output directory.
NewOutput == [temp |-> <<calls, output_index>>, rows |-> <<>>, num_rows |-> 0,
              path |-> OutputPath[args.prefix][output_index + 1]]
HasName == output_index + 1 \in DOMAIN OutputPath[args.prefix]

CreateOutput ==
  /\ phase = "write"
  /\ InBatch
  /\ output = <<>>
  /\ HasName
  /\ output' = <<NewOutput>>
  /\ temps' = temps \cup {NewOutput.temp}
  /\ UNCHANGED <<files, phase, source, current_output_rows, output_index,
                 completed_outputs, repacked_files, call, signal, outcome, replaced, orphans>>

\* Write a slice of the batch.  The schema of a batch is not compared here, only
\* its types by the ArrowWriter; the flag is looked at after the write and before
\* the counters move.
WriteSlice ==
  LET n == RowsToWrite
  IN  /\ phase = "write"
      /\ InBatch
      /\ output # <<>>
      /\ <<schema, reader.schema>> \in WriterTakes
      /\ check_cancelled
      /\ output' = <<[output[1] EXCEPT !.rows = @ \o SubSeq(batch, 1, n),
                                       !.num_rows = @ + n]>>
      /\ batch' = Rest(n)
      /\ current_output_rows' = current_output_rows + n
      /\ phase' = IF args.rows_per_file = current_output_rows + n THEN "full" ELSE "write"
      /\ UNCHANGED <<disk, inputs, reader, consumed, output_index, completed_outputs,
                     repacked_files, call, signal, outcome, replaced, orphans>>

\* A slip: an output that is full is renamed at once.
CloseFull_persisting ==
  /\ phase = "full"
  /\ files' = [files EXCEPT ![output[1].path] = [schema |-> schema, rows |-> output[1].rows]]
  /\ temps' = temps \ {output[1].temp}
  /\ output' = <<>>
  /\ output_index' = output_index + 1
  /\ current_output_rows' = 0
  /\ phase' = "write"
  /\ UNCHANGED <<source, completed_outputs, repacked_files, call, signal, outcome,
                 replaced, orphans>>

\* close_output of an output that is full ...
CloseFull ==
  /\ phase = "full"
  /\ completed_outputs' = Append(completed_outputs, output[1])
  /\ output' = <<>>
  /\ output_index' = output_index + 1
  /\ current_output_rows' = 0
  /\ phase' = "write"
  /\ UNCHANGED <<disk, source, repacked_files, call, signal, outcome, replaced, orphans>>

\* A slip: the last output is forgotten unless it is the only one.
CloseLast_forgetting ==
  /\ phase = "finish"
  /\ phase' = "persist"
  /\ \/ /\ completed_outputs # <<>>
        /\ temps' = temps \ {output[i].temp : i \in DOMAIN output}
        /\ UNCHANGED completed_outputs
     \/ /\ completed_outputs = <<>>
        /\ completed_outputs' = IF output = <<>> THEN <<NewOutput>> ELSE output
        /\ temps' = temps \cup {completed_outputs'[1].temp}
  /\ output' = <<>>
  /\ UNCHANGED <<files, source, current_output_rows, output_index, repacked_files,
                 call, signal, outcome, replaced, orphans>>

\* ... and of the last one; without input rows, of an empty one.
CloseLast ==
  /\ phase = "finish"
  /\ phase' = "persist"
  /\ \/ /\ output # <<>>
        /\ completed_outputs' = Append(completed_outputs, output[1])
        /\ UNCHANGED temps
     \/ /\ output = <<>> /\ completed_outputs # <<>>
        /\ UNCHANGED <<completed_outputs, temps>>
     \/ /\ output = <<>> /\ completed_outputs = <<>> /\ HasName
        /\ completed_outputs' = <<NewOutput>>
        /\ temps' = temps \cup {NewOutput.temp}
  /\ output' = <<>>
  /\ UNCHANGED <<files, source, current_output_rows, output_index, repacked_files,
                 call, signal, outcome, replaced, orphans>>

\* persist_outputs renames the outputs one by one, in order.
\* A slip: the last one first.
Turn_last == Len(completed_outputs)
Turn == 1

Persisted == completed_outputs[Turn]

Persist ==
  /\ phase = "persist"
  /\ completed_outputs # <<>>
  /\ files' = [files EXCEPT ![Persisted.path] = [schema |-> schema, rows |-> Persisted.rows]]
  /\ temps' = temps \ {Persisted.temp}
  /\ repacked_files' = Append(repacked_files,
                              [path |-> Persisted.path, num_rows |-> Persisted.num_rows])
  /\ completed_outputs' = RemoveAt(completed_outputs, Turn)
  /\ UNCHANGED <<phase, source, output, current_output_rows, output_index, call, signal,
                 outcome, replaced, orphans>>

\* Back in Ruby: an interrupt that is pending by then is raised, and the result
\* of a call that replaced its files is lost with it.
Return ==
  /\ phase = "persist"
  /\ completed_outputs = <<>>
  /\ phase' = "idle"
  /\ \/ outcome' = "files"
     \/ cancelled /\ outcome' = "interrupt"
  /\ UNCHANGED <<disk, source, target, call, signal, replaced, orphans>>

\* An error: the outputs that are held are dropped, and their temporary files
\* with them.
Abort ==
  /\ phase' = "idle"
  /\ temps' = temps \ Dropped
  /\ output' = <<>> /\ completed_outputs' = <<>>
  /\ outcome' \in IF cancelled THEN {"error", "interrupt"} ELSE {"error"}
  /\ UNCHANGED <<files, source, current_output_rows, output_index, repacked_files,
                 call, signal, replaced, orphans>>

\* An input is missing, has another schema or none that the writer takes, or the
\* call was cancelled.
Refuse ==
  /\ \/ phase \in {"schemas", "open"} /\ inputs # <<>> /\ files[Head(inputs)] = NoFile
     \/ phase = "schemas" /\ files[Head(inputs)] # NoFile
          /\ schema \notin {NoSchema, files[Head(inputs)].schema}
     \/ phase = "write" /\ InBatch /\ output # <<>>
          /\ (<<schema, reader.schema>> \notin WriterTakes \/ ~check_cancelled)
  /\ Abort

\* Any other step that touches a file may fail, or panic, which is caught.
Fail ==
  /\ phase # "idle"
  /\ phase # "persist" \/ completed_outputs # <<>>
  /\ Abort
----------------------------------------------------------------------------
(* The environment. *)

\* repack_without_gvl_unblock.
Unblock ==
  /\ phase # "idle" /\ ~cancelled
  /\ cancelled' = TRUE
  /\ cancelled_early' = (/\ phase \in {"read", "write", "full"}
                          /\ (batch # <<>> \/ reader.rows # <<>>))
  /\ UNCHANGED <<disk, phase, source, target, call, outcome, replaced, orphans>>

\* Another process replaces a file; a reader that is open keeps the old one.
Replace ==
  /\ phase # "idle" /\ ~replaced
  /\ \E r \in Replacements : files' = [files EXCEPT ![r[1]] = r[2]]
  /\ replaced' = TRUE
  /\ UNCHANGED <<temps, phase, source, target, call, signal, outcome, orphans>>

\* The process dies: nobody deletes the temporary files.
Crash ==
  /\ phase # "idle"
  /\ phase' = "idle"
  /\ outcome' = "crash"
  /\ orphans' = orphans \cup Held
  /\ output' = <<>> /\ completed_outputs' = <<>>
  /\ UNCHANGED <<disk, source, current_output_rows, output_index, repacked_files,
                 call, signal, replaced>>

Work ==
  \/ ReadSchema \/ OpenInput \/ NextBatch \/ EndOfInput \/ EndOfBatch
  \/ CreateOutput \/ WriteSlice \/ CloseFull \/ CloseLast \/ Persist \/ Return \/ Refuse

Next == Work \/ Fail \/ Unblock \/ Replace \/ Crash \/ \E a \in Calls : Repack(a)

Spec == Init /\ [][Next]_vars

\* The native code goes on without the GVL; no step of it waits for another
\* thread.
FairSpec == Spec /\ WF_vars(Work)
----------------------------------------------------------------------------
(* Properties. *)

\* Until the renames, every row read is in exactly one place, in order: an
\* output that is complete, the one being written, or the rest of the batch.
RowsAreConserved ==
  phase \in {"open", "read", "write", "full", "finish"} =>
    consumed = RowsOf(completed_outputs) \o RowsOf(output) \o batch

\* Outputs have rows_per_file rows, the last one what is left; only a repack of
\* no rows writes an empty one.
OutputsAreFilled ==
  /\ args.rows_per_file # NoLimit =>
       /\ \A i \in DOMAIN completed_outputs :
            \/ Len(completed_outputs[i].rows) = args.rows_per_file
            \/ phase = "persist" /\ i = Len(completed_outputs)
                 /\ Len(completed_outputs[i].rows) < args.rows_per_file
       /\ \A i \in DOMAIN output : Len(output[i].rows) <= args.rows_per_file
  /\ \A i \in DOMAIN completed_outputs :
       completed_outputs[i].rows = <<>> => consumed = <<>>

\* Inputs that nobody else replaces are read as they were when the call began,
\* outputs that share a path with them included: nothing is renamed before all
\* of them are read.
OriginalsAreRead ==
  ~replaced /\ args # NoArgs =>
    LET originals == FlattenSeq([i \in DOMAIN args.read_from |->
                                   IF before[args.read_from[i]] = NoFile
                                   THEN <<>> ELSE before[args.read_from[i]].rows])
    IN  /\ IsPrefix(consumed, originals)
        /\ repacked_files # <<>> => consumed = originals

\* A path holds what it held, or one whole output: at any moment, after a rename
\* that failed and after a crash, the outputs replaced are the first ones.
OutputsAppearInOrder ==
  ~replaced =>
    /\ \A i \in DOMAIN repacked_files :
         LET earlier == FlattenSeq([j \in 1 .. i - 1 |-> files[repacked_files[j].path].rows])
             here    == files[repacked_files[i].path]
         IN  /\ repacked_files[i].path = OutputPath[args.prefix][i]
             /\ here # NoFile /\ here.schema = schema
             /\ repacked_files[i].num_rows = Len(here.rows)
             /\ IsPrefix(earlier \o here.rows, consumed)
    /\ \A p \in Paths \ {repacked_files[i].path : i \in DOMAIN repacked_files} :
         files[p] = before[p]

\* The files that a successful call reports hold all rows it read.
ReportedFilesHoldAllRows ==
  outcome = "files" /\ ~replaced =>
    FlattenSeq([i \in DOMAIN repacked_files |-> files[repacked_files[i].path].rows]) = consumed

\* An interrupt that arrives while rows are still to be written is honoured
\* before any file is replaced, and a call that ended, in whatever way, leaves no
\* temporary file: those that are there were left by processes that died.
InterruptsAndFailuresCleanUp ==
  /\ cancelled_early => repacked_files = <<>>
  /\ phase = "idle" => temps = orphans

\* Repack streams "files with matching schemas" (CHANGELOG.md): rows of a reported
\* file stand under the schema they were written with.  Schemas are compared when
\* inputs are opened first, and rows are read when they are opened again.
ReportedRowsKeepTheirSchema ==
  outcome = "files" =>
    \A i \in DOMAIN repacked_files :
      LET file == files[repacked_files[i].path]
      IN  file # NoFile => \A row \in ToSet(file.rows) : SchemaOf[row] = file.schema

\* A call ends whatever fails.
EveryCallEnds == phase # "idle" ~> phase = "idle"
============================================================================
