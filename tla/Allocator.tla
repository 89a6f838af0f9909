----------------------------- MODULE Allocator -----------------------------
(***************************************************************************)
(* What the guest may expect of its heap, with nothing said of how: a      *)
(* block is given out with memory that nobody else holds, keeps exactly    *)
(* that memory as long as it is in use, and is taken back only when it is  *)
(* the application's to give back.  The handles of resources, the cells of *)
(* files and the dummies of the stubs are given out for good.              *)
(* Resources.tla implements this specification.                            *)
(***************************************************************************)
EXTENDS Naturals

CONSTANTS
  Blocks,       \* names for the blocks in use
  Memory        \* the units of memory there are

VARIABLE held   \* block |-> the memory it has, and whether it has it for good

Nobody == [units |-> {}, lasting |-> FALSE]

Init == held = [b \in Blocks |-> Nobody]

InUse(b) == held[b].units # {}

Free == {u \in Memory : \A b \in Blocks : u \notin held[b].units}

\* What can be given out at once lies in one piece.
Pieces == {first..last : first, last \in Memory} \ {{}}

Give(b) ==
  /\ ~InUse(b)
  /\ held'[b].units \in Pieces /\ held'[b].units \subseteq Free
  /\ held'[b].lasting \in BOOLEAN
  /\ held' = [held EXCEPT ![b] = held'[b]]

TakeBack(b) ==
  /\ InUse(b) /\ ~held[b].lasting
  /\ held' = [held EXCEPT ![b] = Nobody]

Next == \E b \in Blocks : Give(b) \/ TakeBack(b)

Spec == Init /\ [][Next]_held

=============================================================================
