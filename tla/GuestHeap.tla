----------------------------- MODULE GuestHeap -----------------------------
(***************************************************************************)
(* The heap of the guest: _sbrk of minisys/syscalls.c, the malloc and free *)
(* of the C library on top of it (external, newlib), and those in miniSYS  *)
(* and libccos that call them.  Memory is counted in units of a block.     *)
(*                                                                         *)
(* All that the library knows of the heap is what _sbrk has told it.  It   *)
(* takes a block from what it has, or asks for more than it needs; and     *)
(* what is free at the end of the heap it gives back with a negative       *)
(* increment.  _sbrk has no upper bound, so malloc never returns NULL: a   *)
(* heap that outgrows RAM is met as an access to unmapped memory, which    *)
(* ends the engine (GuestFaults of Ccdl).                                  *)
(***************************************************************************)
EXTENDS Integers

CONSTANTS
  RAM_START,    \* where the heap starts
  RAM_END,      \* where the mapped RAM ends
  HEAP_MAX,     \* bound: how far the heap grows, past RAM_END
  Blocks,       \* names for the blocks in use; bound: how many
  Lengths       \* bound: lengths that are asked for

ASSUME GuestHeapAssumption ==
  /\ RAM_START \in Nat \ {0} /\ RAM_END \in Nat /\ HEAP_MAX \in Nat
  /\ RAM_START < RAM_END /\ RAM_END <= HEAP_MAX
  /\ Lengths \subseteq Nat \ {0}

VARIABLES
  heap_end,     \* 0 before the first _sbrk
  avail,        \* what the library has and has not given out
  blocks,       \* the blocks in use
  faulted       \* unmapped memory was met: nothing runs any more

heapVars == <<heap_end, avail, blocks, faulted>>

Span(p, length) == p..(p + length - 1)

\* "app": blocks the application may free, from malloc, calloc and OSMalloc.
\* "kept": those nobody frees, the cells of fsys_fopen and the dummies of
\* OSSemCreate, OSTaskCreate and waveout_open.  "res": resources of libccos.
Owners == {"app", "kept", "res"}

Unused == [at |-> 0, length |-> 0, owner |-> "none"]

Block == [at : RAM_START..HEAP_MAX, length : Lengths, owner : Owners]

Used == {b \in Blocks : blocks[b] # Unused}

Units(b) == Span(blocks[b].at, blocks[b].length)

HeapInit ==
  /\ heap_end = 0
  /\ avail = {}
  /\ blocks = [b \in Blocks |-> Unused]
  /\ faulted = FALSE

-----------------------------------------------------------------------------
\* Mutants: heap_end is not static; it is moved the wrong way; the new end is
\* returned and not the old one.
_sbrk_local(incr, p) ==
  /\ p = RAM_START
  /\ heap_end' = RAM_START + incr

_sbrk_down(incr, p) ==
  /\ p = (IF heap_end = 0 THEN RAM_START ELSE heap_end)
  /\ heap_end' = p - incr

_sbrk_new(incr, p) ==
  /\ heap_end' = (IF heap_end = 0 THEN RAM_START ELSE heap_end) + incr
  /\ p = heap_end'

\* The old end of the heap is returned.
_sbrk(incr, p) ==
  /\ p = (IF heap_end = 0 THEN RAM_START ELSE heap_end)
  /\ heap_end' = p + incr

\* Part of what is free, anywhere.
TakeFree(length, p) ==
  /\ Span(p, length) \subseteq avail
  /\ avail' = avail \ Span(p, length)
  /\ UNCHANGED heap_end

\* More memory than that, in whole pages, joined to what is free before it.
Extend(length, p) ==
  \E spare \in {0, 1}, end \in p..HEAP_MAX :
    /\ _sbrk(length + spare, end)
    /\ heap_end' <= HEAP_MAX
    /\ p..(end - 1) \subseteq avail
    /\ avail' = (avail \cup Span(end, length + spare)) \ Span(p, length)

\* The library writes the length of a block before it, and may write behind.
Malloc(b, length, owner, p) ==
  /\ b \notin Used
  /\ TakeFree(length, p) \/ Extend(length, p)
  /\ blocks' = [blocks EXCEPT ![b] =
                  [at |-> p, length |-> length, owner |-> owner]]
  /\ faulted' \in IF p + length <= RAM_END THEN {FALSE} ELSE {FALSE, TRUE}

\* free and OSFree.
Free(b) ==
  /\ b \in Used /\ blocks[b].owner = "app"
  /\ avail' = avail \cup Units(b)
  /\ blocks' = [blocks EXCEPT ![b] = Unused]
  /\ UNCHANGED <<heap_end, faulted>>

\* In a free, if the end of the heap is where the library has left it.
Trim ==
  \E length \in Lengths :
    /\ Span(heap_end - length, length) \subseteq avail
    /\ _sbrk(-length, heap_end)
    /\ avail' = avail \ Span(heap_end - length, length)
    /\ UNCHANGED <<blocks, faulted>>

HeapNext ==
  \/ \E b \in Blocks, length \in Lengths, owner \in {"app", "kept"},
        p \in RAM_START..HEAP_MAX : Malloc(b, length, owner, p)
  \/ \E b \in Blocks : Free(b)
  \/ Trim

-----------------------------------------------------------------------------
\* The heap stays within the bound, and every block in use has an owner.
HeapTypeOK ==
  /\ heap_end \in {0} \cup (RAM_START..HEAP_MAX)
  /\ avail \subseteq RAM_START..HEAP_MAX
  /\ blocks \in [Blocks -> Block \cup {Unused}]
  /\ faulted \in BOOLEAN

\* No two blocks in use share memory, none is also free, and all of them lie
\* between the start of the heap and its end, as often as the heap has been
\* given back and has grown again.
BlocksApart ==
  /\ \A b, c \in Used : b # c => Units(b) \cap Units(c) = {}
  /\ \A b \in Used : Units(b) \cap avail = {}
  /\ \A b \in Used : Units(b) \subseteq RAM_START..(heap_end - 1)
  /\ avail \subseteq RAM_START..(heap_end - 1)

=============================================================================
