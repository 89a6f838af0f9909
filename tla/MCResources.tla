---------------------------- MODULE MCResources ----------------------------
(***************************************************************************)
(* Model-checking instance of Resources: see MCResources.cfg.              *)
(***************************************************************************)
EXTENDS Resources, TLC

CONSTANTS r, s

MCSymmetry == Permutations(Blocks)

\* No resources; one after the other with a second of the same name; a
\* second section, which is not looked at; and two that are not in the file,
\* one of them at a negative int.
MCTables ==
  {<<>>,
   <<<<[filename |-> r, size |-> 2, offset |-> 0],
       [filename |-> s, size |-> 1, offset |-> 2],
       [filename |-> r, size |-> 1, offset |-> 2]>>>>,
   <<<<[filename |-> r, size |-> 1, offset |-> 1]>>,
     <<[filename |-> s, size |-> 2, offset |-> 2]>>>>,
   <<<<[filename |-> s, size |-> 1, offset |-> 5],
       [filename |-> r, size |-> 1, offset |-> 14]>>>>}

\* Other memory, behind the file and before it.
MCElsewhere == {5, -2}

\* One byte; two; one element of two bytes; none; eighteen that are two; and
\* a negative count.
MCRequests == {<<1, 1>>, <<1, 2>>, <<2, 1>>, <<0, 2>>, <<6, 3>>, <<1, -1>>}
=============================================================================
