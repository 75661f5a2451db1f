------------------------------ MODULE MCReader ------------------------------
(* Values of the constants of Reader for TLC. *)
EXTENDS Reader

CONSTANTS a, b, c, unknown

\* No rows up to more than one batch; any one cell may be undecodable; the
\* names are distinct, or the first and the last are the same.
MCFiles ==
  UNION {[columns : {<<a, b, c>>, <<a, b, a>>}, rows : {n},
          bad : {{}} \union {{<<i, r>>} : i \in 1 .. 3, r \in 0 .. (n - 1)}] : n \in 0 .. 4}

\* Some columns in every relation to the file's.
MCRequests == {{}, {a}, {c, b}, {a, c}, {unknown, b}}

MCBatchSizes == {1, 2, 5}
=============================================================================
