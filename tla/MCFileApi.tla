----------------------------- MODULE MCFileApi -----------------------------
(***************************************************************************)
(* Model-checking instance of FileApi: see MCFileApi.cfg.                  *)
(***************************************************************************)
EXTENDS FileApi, TLC

\* The handle of the second file: before and after it is issued.
MCStray   == {2}
MCAbsent  == -1
\* Whose bytes are whose matters, not which they are.
MCSymmetry == Permutations(Bytes)

\* Nothing, one element of two bytes, and nine bytes that are 1 in the word.
MCRequests == {<<0, 1>>, <<2, 1>>, <<3, 3>>}

MCOffsets == {-1, 0, 1}
=============================================================================
