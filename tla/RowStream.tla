----------------------------- MODULE RowStream -----------------------------
(***************************************************************************)
(* What reading a file promises, whatever it is cut into: its rows arrive  *)
(* in file order, each once, and the reading is only called complete when  *)
(* all of them have.  Anything that goes wrong is told.                    *)
(***************************************************************************)
EXTENDS Integers, Sequences

VARIABLES
  phase,     \* "idle", "open", "complete" or "failed"
  content,   \* the rows asked for, any sequence
  delivered  \* those that have arrived

vars == <<phase, content, delivered>>

Init ==
  /\ phase = "idle"
  /\ DOMAIN content = 1 .. Len(content)
  /\ delivered = <<>>

Open ==
  /\ phase = "idle"
  /\ phase' = "open"
  /\ UNCHANGED <<content, delivered>>

\* Some more rows arrive; whoever gets them may have had enough.
Deliver ==
  /\ phase = "open"
  /\ \E n \in 0 .. (Len(content) - Len(delivered)) :
       delivered' = SubSeq(content, 1, Len(delivered) + n)
  /\ phase' \in {"open", "failed"}
  /\ UNCHANGED content

Complete ==
  /\ phase = "open"
  /\ delivered = content
  /\ phase' = "complete"
  /\ UNCHANGED <<content, delivered>>

Fail ==
  /\ phase \in {"idle", "open"}
  /\ phase' = "failed"
  /\ UNCHANGED <<content, delivered>>

Next == Open \/ Deliver \/ Complete \/ Fail

Spec == Init /\ [][Next]_vars
============================================================================
