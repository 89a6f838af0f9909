----------------------------- MODULE Resources -----------------------------
(***************************************************************************)
(* The resources of an application: dl_res_open, dl_res_get_size and       *)
(* dl_res_get_data of libccos/src/dl.c, with the heap their handles live   *)
(* in.  A handle, DL_res_t, is a block of the heap like any other; it is   *)
(* never freed, because dl_res_close is a stub.                            *)
(*                                                                         *)
(* The file is in memory at APP_LOAD_ADDRESS.  A byte of it is told by its *)
(* offset; every byte of a resource is stored with one bit flipped.  What  *)
(* is read is the memory at the file's address plus an int, which the file *)
(* itself decides on: it may be any place in the guest's memory.           *)
(***************************************************************************)
EXTENDS GuestHeap, Sequences

CONSTANTS
  Names,        \* names of resources
  Tables,       \* the tables of resources considered
  APP_MAX_SIZE, \* bytes mapped for the file
  Elsewhere,    \* where else memory is mapped, as offsets from the file
  WordSize,     \* the number of values of an int, 2^32
  BufferSize,   \* bytes of the application's buffer
  Requests,     \* bound: <<size, count>> the application asks for
  SizeofRes     \* units of a DL_res_t

\* An int, and what becomes of a number that is stored in one.
Ints == (WordSize \div 2 - WordSize)..(WordSize \div 2 - 1)

ToInt(n) ==
  LET m == n % WordSize
  IN IF m < WordSize \div 2 THEN m ELSE m - WordSize

InFile == 0..(APP_MAX_SIZE - 1)

\* `offset' is from the start of the file: that of the section and that of
\* the entry in it.
Entry == [filename : Names, size : Nat, offset : Nat]

ASSUME ResourcesAssumption ==
  /\ APP_MAX_SIZE \in Nat /\ BufferSize \in Nat /\ WordSize \in Nat \ {0}
  /\ BufferSize < WordSize /\ APP_MAX_SIZE <= WordSize \div 2
  /\ Elsewhere \subseteq Ints \ InFile
  /\ Tables \subseteq Seq(Seq(Entry))
  /\ Requests \subseteq Int \X Int
  /\ SizeofRes \in Lengths

VARIABLES
  sections,     \* the contents of the sections of resources, in their order
  my_dl,        \* ccdl_from_memory has filled in my_dl
  mem,          \* what the units of RAM hold, as far as they hold a DL_res_t
  buffer,       \* the application's buffer
  opened,       \* the name a handle was asked for under
  consumed,     \* the bytes a handle has delivered, as the application counts
  last          \* the last call of dl_res_*

resVars == <<sections, my_dl, mem, buffer, opened, consumed, last>>
vars    == <<heapVars, resVars>>

\* A byte: the offset in the file it comes from, and whether it is readable.
Byte(offset, plain) == [from |-> offset, plain |-> plain]

\* What the application has put in its buffer itself.
OwnByte == Byte(-1, TRUE)

\* The byte at an offset, where memory is mapped there.
StoredByte(offset) == Byte(IF offset \in InFile THEN offset ELSE -1, FALSE)

\* Memory that holds no DL_res_t.
Other == [start_file_offset |-> -1, current_file_offset |-> -1, size |-> -1]

NoCall == [call |-> "none"]

Init ==
  /\ HeapInit
  /\ sections \in Tables
  /\ my_dl = FALSE
  /\ mem = [unit \in RAM_START..RAM_END |-> Other]
  /\ buffer = [k \in 1..BufferSize |-> OwnByte]
  /\ opened = [b \in Blocks |-> "none"]
  /\ consumed = [b \in Blocks |-> 0]
  /\ last = NoCall

-----------------------------------------------------------------------------
\* The first entry of a name in the first section of resources; all that are
\* behind are not looked at.
EntriesOf == IF my_dl /\ sections # <<>> THEN sections[1] ELSE <<>>

Hits(name) == {i \in DOMAIN EntriesOf : EntriesOf[i].filename = name}

FirstHit(name) == EntriesOf[CHOOSE i \in Hits(name) : \A j \in Hits(name) : i <= j]

\* Writing a DL_res_t to its block, or meeting the end of the RAM.
Stored(p, res) ==
  [unit \in DOMAIN mem |-> IF unit \in Span(p, SizeofRes) THEN res ELSE mem[unit]]

InRam(p, length) == p + length <= RAM_END

\* ccdl_from_memory fills in my_dl when the entry point has returned.
EntryPointReturns ==
  /\ ~my_dl /\ my_dl' = TRUE
  /\ last' = NoCall
  /\ UNCHANGED <<heapVars, sections, mem, buffer, opened, consumed>>

DlResOpen(b, name) ==
  /\ Hits(name) # {}
  /\ \E p \in RAM_START..HEAP_MAX :
       /\ Malloc(b, SizeofRes, "res", p)
       /\ InRam(p, SizeofRes)
       /\ LET ent == FirstHit(name)
          IN mem' = Stored(p, [start_file_offset   |-> ToInt(ent.offset),
                               current_file_offset |-> ToInt(ent.offset),
                               size                |-> ent.size])
  /\ opened' = [opened EXCEPT ![b] = name]
  /\ consumed' = [consumed EXCEPT ![b] = 0]
  /\ last' = NoCall
  /\ UNCHANGED <<sections, my_dl, buffer>>

\* The handle is outside of the RAM: the first write to it is the last.
DlResOpenFaults(b, name) ==
  /\ Hits(name) # {}
  /\ \E p \in RAM_START..HEAP_MAX :
       /\ TakeFree(SizeofRes, p) \/ Extend(SizeofRes, p)
       /\ ~InRam(p, SizeofRes)
  /\ faulted' = TRUE
  /\ UNCHANGED <<blocks, resVars>>

\* NULL for a name that is not there.
DlResOpenFails(name) ==
  /\ Hits(name) = {}
  /\ last' = [call |-> "open", name |-> name, found |-> FALSE, filled |-> my_dl]
  /\ UNCHANGED <<heapVars, sections, my_dl, mem, buffer, opened, consumed>>

Handles == {b \in Used : blocks[b].owner = "res"}

ResOf(b) == mem[blocks[b].at]

DlResGetSize(b) ==
  /\ last' = [call |-> "get_size", res |-> b, size |-> ResOf(b).size]
  /\ UNCHANGED <<heapVars, sections, my_dl, mem, buffer, opened, consumed>>

\* size * count, an int.
Product(length, count) == ToInt(length * count)

\* The offsets a read comes to, one after the other.
Reached(b, k) == ToInt(ResOf(b).current_file_offset + k - 1)

\* memcpy takes a negative length, and the loop that decodes a negative
\* count, for a huge unsigned number; else a read goes as far as it meets
\* mapped memory, whether that is the file or not.
Faults(b, num_to_read, count) ==
  \/ num_to_read < 0 \/ count < 0
  \/ \E k \in 1..num_to_read : Reached(b, k) \notin InFile \cup Elsewhere

Decode(byte) == Byte(byte.from, ~byte.plain)

\* Mutant: the handle stays where it is.
Advance_not(b, num_to_read) == mem

Advance(b, num_to_read) ==
  Stored(blocks[b].at,
         [ResOf(b) EXCEPT !.current_file_offset = ToInt(@ + num_to_read)])

\* The first count bytes of the buffer, whatever was copied.
Decoded(bytes, count) ==
  [k \in DOMAIN bytes |-> IF k <= count THEN Decode(bytes[k]) ELSE bytes[k]]

Copied(b, num_to_read) ==
  [k \in DOMAIN buffer |->
     IF k <= num_to_read THEN StoredByte(Reached(b, k)) ELSE buffer[k]]

\* The application's buffer has room for what is read and decoded.
DlResGetData(b, length, count) ==
  LET num_to_read == Product(length, count)
  IN /\ ~Faults(b, num_to_read, count)
     /\ num_to_read <= BufferSize /\ count <= BufferSize
     /\ buffer' = Decoded(Copied(b, num_to_read), count)
     /\ mem' = Advance(b, num_to_read)
     /\ consumed' = [consumed EXCEPT ![b] = @ + num_to_read]
     /\ last' = [call |-> "get_data", res |-> b, size |-> length,
                 count |-> count, before |-> consumed[b]]
     /\ UNCHANGED <<heapVars, sections, my_dl, opened>>

DlResGetDataFaults(b, length, count) ==
  /\ Faults(b, Product(length, count), count)
  /\ faulted' = TRUE
  /\ UNCHANGED <<heap_end, avail, blocks, resVars>>

\* The application fills a block of its own, or its buffer.
AppWrites(b) ==
  /\ b \in Used /\ blocks[b].owner = "app" /\ InRam(blocks[b].at, blocks[b].length)
  /\ mem' = [unit \in DOMAIN mem |-> IF unit \in Units(b) THEN Other ELSE mem[unit]]
  /\ buffer' = [k \in DOMAIN buffer |-> OwnByte]
  /\ last' = NoCall
  /\ UNCHANGED <<heapVars, sections, my_dl, opened, consumed>>

AppAllocates ==
  /\ HeapNext
  /\ last' = NoCall
  /\ UNCHANGED <<sections, my_dl, mem, buffer, opened, consumed>>

Next ==
  /\ ~faulted
  /\ \/ EntryPointReturns
     \/ \E name \in Names :
          \/ \E b \in Blocks : DlResOpen(b, name) \/ DlResOpenFaults(b, name)
          \/ DlResOpenFails(name)
     \/ \E b \in Handles :
          \/ DlResGetSize(b)
          \/ \E request \in Requests :
               \/ DlResGetData(b, request[1], request[2])
               \/ DlResGetDataFaults(b, request[1], request[2])
     \/ \E b \in Blocks : AppWrites(b)
     \/ AppAllocates

Spec == Init /\ [][Next]_vars

-----------------------------------------------------------------------------
\* A DL_res_t.
Res == [start_file_offset : Ints, current_file_offset : Ints, size : Nat]

\* The heap, the handles in it and the buffer keep their types.
ResTypeOK ==
  /\ HeapTypeOK
  /\ sections \in Tables
  /\ my_dl \in BOOLEAN
  /\ mem \in [RAM_START..RAM_END -> Res \cup {Other}]
  /\ buffer \in [1..BufferSize -> [from : -1..(APP_MAX_SIZE - 1), plain : BOOLEAN]]
  /\ opened \in [Blocks -> Names \cup {"none"}]
  /\ consumed \in [Blocks -> Nat]

\* An application that reads a resource by single bytes gets it as it was
\* before it was encoded, one piece after the other, with other resources
\* open, blocks freed and memory overwritten in between, if its table has it
\* in the file; it is told the size in the table; and once my_dl is filled in,
\* NULL means that the name is not there.
ResourceDelivers ==
  /\ last.call = "open" =>
       ~last.filled \/ sections = <<>>
         \/ \A i \in DOMAIN sections[1] : sections[1][i].filename # last.name
  /\ last.call = "get_size" => last.size = FirstHit(opened[last.res]).size
  /\ last.call = "get_data" =>
       LET ent == FirstHit(opened[last.res])
           there == ent.offset + ent.size <= APP_MAX_SIZE
       IN there /\ last.size = 1 /\ last.before + last.count <= ent.size =>
            \A k \in 1..last.count :
              buffer[k] = Byte(ent.offset + last.before + k - 1, TRUE)

\* The heap under the application, miniSYS and libccos keeps the promise of
\* Allocator: however it grows, shrinks and is cut up, a block is given memory
\* of its own, keeps it while it is in use, and the handles of resources and
\* the cells of miniSYS are never given to anybody else.
Heap == INSTANCE Allocator
  WITH Memory <- RAM_START..HEAP_MAX,
       held   <- [b \in Blocks |->
                    IF blocks[b] # Unused
                    THEN [units |-> Units(b), lasting |-> blocks[b].owner # "app"]
                    ELSE [units |-> {}, lasting |-> FALSE]]

ImplementsAllocator == Heap!Spec

=============================================================================
