---------------------------- MODULE MCCoreWriter ----------------------------
(***************************************************************************)
(* Two fields and four kinds of value: two that every check accepts, one   *)
(* that validation accepts and the builder of the second field does not    *)
(* (a timestamp of another unit), one that validation refuses.             *)
(***************************************************************************)
EXTENDS CoreWriter

MCValues == {"a", "b", "other_unit", "mistyped"}

MCValid == [f \in 1 .. 2 |-> IF f = 1 THEN {"a", "b"} ELSE {"a", "b", "other_unit"}]

MCBuildable == [f \in 1 .. 2 |-> {"a", "b"}]

\* Rows that begin with b are large.
MCEstimatedRowSize ==
  [row \in [1 .. 2 -> MCValues] |-> IF row[1] = "b" THEN 4 ELSE 2]

\* Two good rows, one that validates but does not build, one that does not
\* validate and one that is too short.
MCOfferedRows ==
  {<<"a", "b">>, <<"b", "a">>, <<"a", "other_unit">>, <<"mistyped", "a">>, <<"a">>}

\* None; two good rows in reversed column order; columns of unequal length; a
\* duplicate; an unknown name; a value that does not build.
MCOfferedColumns ==
  {<<>>,
   << <<2, <<"a", "b">> >>, <<1, <<"b", "a">> >> >>,
   << <<1, <<"a">> >>, <<2, <<"a", "b">> >> >>,
   << <<1, <<"a">> >>, <<1, <<"a">> >> >>,
   << <<1, <<"a">> >>, <<3, <<"a">> >> >>,
   << <<1, <<"a">> >>, <<2, <<"other_unit">> >> >>}

MCBatchSizeOptions == {Dynamic, 0, 2, 4}
============================================================================
