------------------------------ MODULE RowFile ------------------------------
(***************************************************************************)
(* What a Parquet writer promises, whatever it buffers: the file is all or *)
(* nothing.  A file that was closed successfully holds exactly the rows    *)
(* whose write was acknowledged, once each and in order; a writer whose    *)
(* pipeline has failed ("doomed") never closes successfully, however often *)
(* the caller tries again.                                                 *)
(***************************************************************************)
EXTENDS Integers, Sequences

CONSTANT Rows

VARIABLES
  phase,  \* "open", "doomed", "finished" or "abandoned"
  acked,  \* the rows acknowledged so far
  file    \* the rows a reader of the finished file gets

vars == <<phase, acked, file>>

Init ==
  /\ phase = "open"
  /\ acked = <<>>
  /\ file = <<>>

\* Rows are acknowledged; the same call may doom the writer.
Accept ==
  /\ phase \in {"open", "doomed"}
  /\ acked' \in Seq(Rows)
  /\ Len(acked) <= Len(acked')
  /\ SubSeq(acked', 1, Len(acked)) = acked
  /\ phase' \in {phase, "doomed"}
  /\ UNCHANGED file

\* Only a healthy writer finishes, and then every acknowledged row is there.
Finish ==
  /\ phase = "open"
  /\ phase' = "finished"
  /\ file' = acked
  /\ UNCHANGED acked

\* A failed close, a refused configuration or a dropped writer.
Abandon ==
  /\ phase \in {"open", "doomed"}
  /\ phase' = "abandoned"
  /\ UNCHANGED <<acked, file>>

Next == Accept \/ Finish \/ Abandon

Spec == Init /\ [][Next]_vars
============================================================================
