----------------------------- MODULE MCChunkStore -----------------------------
(* ChunkStore on small instances. *)
EXTENDS ChunkStore, TLC

Bytes(n, d) == [bytes |-> n, data |-> d]

\* two files of two chunks, the first tells their order apart, the second their size,
\* and one of more chunks than an upload may have
MCFiles ==
  {<<Bytes(1, "x"), Bytes(1, "y")>>, <<Bytes(2, "x"), Bytes(1, "x")>>,
   <<Bytes(1, "y"), Bytes(1, "x"), Bytes(1, "x")>>}

RequestSymmetry == Permutations(Requests)
===============================================================================
