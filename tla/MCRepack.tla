------------------------------- MODULE MCRepack -------------------------------
(* Two inputs of three and one row, an empty one and one that is missing; the
   first output takes the place of an input in some calls. *)
EXTENDS Repack

CONSTANTS S, T, U

File(s, rows) == [schema |-> s, rows |-> rows]

Outs == <<"out-0", "out-1", "out-2", "out-3", "out-4", "out-5", "out-6">>
MCPaths == {"a", "b", "none"} \cup ToSet(Outs)
MCInitial ==
  [p \in MCPaths |-> CASE p = "a"     -> File(S, <<1, 2, 3>>)
                       [] p = "b"     -> File(S, <<>>)
                       [] p = "out-0" -> File(S, <<4>>)
                       [] OTHER       -> NoFile]

MCOutputPath == [prefix \in {"out"} |-> Outs]

Call(read_from, rows_per_file, max_rows) ==
  [read_from |-> read_from, prefix |-> "out", rows_per_file |-> rows_per_file,
   max_rows |-> max_rows]

\* One row at a time, chunks smaller and larger than outputs, no limit; the
\* first output among the inputs, before and after another; no rows; no file.
MCCalls ==
  {Call(<<"a", "out-0">>, n, m) : n \in {1, 2, NoLimit}, m \in {1, 3}}
  \cup {Call(<<"out-0", "a">>, 3, 2), Call(<<"b">>, 2, 3), Call(<<"a", "none">>, 2, 2)}

\* U has the types of S under other names, T has other types.
MCSchemaOf == [row \in 1 .. 7 |-> CASE row = 5 -> T [] row = 7 -> U [] OTHER -> S]
MCWriterTakes == {<<S, S>>, <<S, U>>, <<U, S>>, <<U, U>>, <<T, T>>}

MCReplacements == {<<"out-0", File(T, <<5>>)>>, <<"out-0", File(S, <<6>>)>>,
                   <<"out-0", File(U, <<7>>)>>,
                   <<"a", NoFile>>}
============================================================================
