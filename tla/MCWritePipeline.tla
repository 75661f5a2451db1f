--------------------------- MODULE MCWritePipeline ---------------------------
(* Two fields, the first required; strings of one to three bytes against a
   cache of two entries and three bytes, with at most two bytes a value. *)
EXTENDS WritePipeline

MCSize == [s \in {"a", "b", "dd", "ccc"} |->
             CASE s = "dd" -> 2 [] s = "ccc" -> 3 [] OTHER -> 1]

MCOld == <<<<"a", "b">>, Footer>>

Call(method, to, from) ==
  [method |-> method, write_to |-> to, read_from |-> from, schema |-> "ok",
   logger |-> TRUE, string_cache |-> None, batch_size |-> None,
   sample_size |-> None]

\* Good rows, and data that fails at the second row in each way there is.
MCRowData ==
  {<<>>, NotArray, Enumerator,
   <<<<"a", "ccc">>, <<"b", Nil>>, <<"a", "ccc">>>>,
   <<<<"dd", "a">>, <<"b", "dd">>, <<"b", "a">>>>,
   <<<<"a", "b">>, <<"dd", Bad>>>>, <<<<"a", "b">>, <<Nil, "a">>>>,
   <<<<"a", "b">>, <<"a">>>>, <<<<"a", "b">>, <<"b", "a", "dd">>>>,
   <<<<"a", "b">>, NotArray>>}

\* Two batches, ragged ones, ones of the wrong shape.
MCColumnData ==
  {<<>>, <<<<<<"a">>, <<Nil>>>>, <<<<"b", "a">>, <<"b", "b">>>>>>,
   <<<<<<"a">>, <<"b", "dd">>>>, <<<<"b", "dd">>, <<Nil>>>>>>,
   <<<<<<"a">>, <<"b", "dd">>>>>>, <<<<<<"a">>>>>>, <<<<<<"a">>, NotArray>>>>,
   <<<<<<"a">>, <<"b">>>>, <<<<Bad>>, <<"b">>>>>>, <<NotArray>>,
   <<<<<<Nil>>, <<"b">>>>>>}

MCCalls ==
  {[Call("write_rows", to, from) EXCEPT !.string_cache = cap] :
     to \in {"path", "io"}, from \in MCRowData, cap \in {None, 1, On}}
  \cup {Call("write_columns", to, from) :
          to \in {"path", "io"}, from \in MCColumnData}
  \cup {[Call(m, "path", Enumerator) EXCEPT !.schema = s] :
          m \in {"write_rows", "write_columns"},
          s \in {"schema", "compression", "sizes"}}
  \cup {[Call(m, "path", <<>>) EXCEPT !.logger = FALSE] :
          m \in {"write_rows", "write_columns"}}
  \cup {[Call("write_rows", "path", <<>>) EXCEPT !.string_cache = cap] :
          cap \in {0, 3, Off}}
  \cup {[Call("write_columns", "path", <<>>) EXCEPT !.batch_size = 1],
        [Call("write_columns", "path", <<>>) EXCEPT !.sample_size = 1],
        [Call("write_columns", "path", <<>>) EXCEPT !.string_cache = On]}
============================================================================
