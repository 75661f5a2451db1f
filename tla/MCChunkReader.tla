--------------------------- MODULE MCChunkReader ---------------------------
(* Two clones and two contents of one and three bytes; calls within, across
   and beyond their ends. *)
EXTENDS ChunkReader, TLC

CONSTANTS c1, c2, short, long

MCSize == short :> 1 @@ long :> 3
=============================================================================
