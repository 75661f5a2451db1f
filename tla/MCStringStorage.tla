--------------------------- MODULE MCStringStorage ---------------------------
(* Two reads; the empty string, two short strings and a long one. *)
EXTENDS StringStorage, TLC

CONSTANTS r1, r2, name

MCReads == {r1, r2}
MCStrings == {"", "a", "b", "ccc"}
MCSize == [s \in MCStrings |-> CASE s = "" -> 0 [] s = "ccc" -> 3 [] OTHER -> 1]

\* One entry of one byte; any number of three, a product that usize cannot
\* hold.
MCBudgets == {<<1, 1>>, <<4, 3>>}

Symmetry == Permutations(MCReads)
=============================================================================
