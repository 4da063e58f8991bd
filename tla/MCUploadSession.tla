---------------------------- MODULE MCUploadSession ----------------------------
(***************************************************************************)
(* UploadSession on small instances.                                       *)
(***************************************************************************)
EXTENDS UploadSession, TLC

\* Two bytes to a chunk, and one in the last.
ThreeChunks == [k \in 0 .. 3 |-> IF k = 3 THEN 5 ELSE 2 * k]

\* A file of one byte.
OneChunk == [k \in 0 .. 1 |-> k]

ThreeBytes == [k \in 0 .. 3 |-> k]

Symmetry == Permutations(Files) \cup Permutations(Names) \cup Permutations(UploadHandlers)
================================================================================
