------------------------------ MODULE FileApi ------------------------------
(***************************************************************************)
(* The guest's files: the fsys_* functions of minisys/minisys.c and the    *)
(* SVC handlers of src/api.cpp behind them, on top of Filesystem.          *)
(*                                                                         *)
(* fsys_fopen keeps the handle in a cell of its own and gives the guest    *)
(* the address of the cell.  The bytes of a read or a write pass through   *)
(* one static buffer of the host, a std::vector that is only ever given    *)
(* capacity: its size stays 0, so that growing it drops its bytes.  A file *)
(* handler runs to its end before the guest goes on, so each is one step.  *)
(*                                                                         *)
(* The functions take the pointer as it comes and look at nothing but the  *)
(* word it points at, so a call is named by that word, fd: what one of the *)
(* cells holds, or any word of Stray in memory of the guest's own.  (An    *)
(* unmapped pointer faults in the guest, which is GuestFaults of Ccdl.)    *)
(***************************************************************************)
EXTENDS Filesystem, Sequences

CONSTANTS
  Word,         \* the number of values of a register, 2^32
  Requests,     \* bound: <<size, count>> the guest passes to a transfer
  Bytes,        \* what memory can hold, told apart by whose bytes they are
  Junk          \* what fresh memory of the host holds

ASSUME FileApiAssumption ==
  /\ Word \in Nat \ {0}
  /\ Requests \subseteq (0..(Word - 1)) \X (0..(Word - 1))
  /\ \A request \in Requests : (request[1] * request[2]) % Word \in Counts
  /\ Junk \notin Bytes

VARIABLES
  cells,        \* cell address |-> handle; a cell is never freed
  streams,      \* what C says of each cell (see CStream), kept for comparison
  capacity,     \* file_buffer.capacity()
  file_buffer,  \* the bytes in file_buffer
  last,         \* the last transfer through file_buffer
  host          \* "up", "crashed" or "hung"

bufVars == <<capacity, file_buffer, last>>
apiVars == <<fsVars, cells, streams, bufVars, host>>

\* The position C's functions would leave a stream at; Lost once a call has
\* been made after which the code and C differ, or the guest was in error.
Lost == -1
Gone == -2
CStream == [file : Files, mode : {"in", "out"}, at : Nat \cup {Lost, Gone}]

NoTransfer == [span |-> 0, given |-> Junk, passed |-> Junk]

ApiInit ==
  /\ FsInit
  /\ cells = <<>> /\ streams = <<>>
  /\ capacity = 0 /\ file_buffer = Junk /\ last = NoTransfer
  /\ host = "up"

-----------------------------------------------------------------------------
(***************************************************************************)
(* Opening.                                                                *)
(***************************************************************************)

\* fsys_fopen, fsys_fopenW: the handle goes into a new cell.  A guest that has
\* passed the handle before is in error.
NewCell(f, mode) ==
  /\ cells' = Append(cells, next_handle)
  /\ streams' = Append(streams, [file |-> f, mode |-> mode,
                                 at |-> IF next_handle \in guessed THEN Lost ELSE 0])
  /\ last' = NoTransfer
  /\ UNCHANGED <<capacity, file_buffer, host>>

Fopen(f) ==
  /\ host = "up"
  /\ \/ OpenForReading(f) /\ NewCell(f, "in")
     \/ OpenForWriting(f) /\ NewCell(f, "out")

\* The host refuses (no such file, another mode): the handle is -1, the guest
\* gets NULL, and no cell is allocated.
FopenRefused ==
  /\ host = "up"
  /\ last' = NoTransfer
  /\ UNCHANGED <<fsVars, cells, streams, capacity, file_buffer, host>>

\* A string in memory that cannot be read: the character is uninitialised in
\* every turn of the loop.  If it is not 0, the loop does not end; otherwise
\* some string is opened, as in Fopen and FopenRefused.
FopenUnreadable ==
  /\ host = "up"
  /\ host' = "hung"
  /\ UNCHANGED <<fsVars, cells, streams, bufVars>>

-----------------------------------------------------------------------------
(***************************************************************************)
(* Calls on a pointer.                                                     *)
(***************************************************************************)
Words == {cells[p] : p \in DOMAIN cells} \cup Stray

\* What C says after a call on fd: each stream p behind it moves to at[p], if
\* its place was known before.
Tracked(fd, at) ==
  streams' = [p \in DOMAIN streams |->
                IF cells[p] # fd \/ streams[p].at = Gone THEN streams[p]
                ELSE [streams[p] EXCEPT
                        !.at = IF @ = Lost \/ at[p] < 0 THEN Lost ELSE at[p]]]

Untracked(fd) == Tracked(fd, [p \in DOMAIN streams |-> Lost])

\* The length of the host file p was opened on, once the call is over.
CLength(p) == size'[streams[p].file]

Fclose(fd) ==
  /\ host = "up"
  /\ CloseFile(fd)
  /\ streams' = [p \in DOMAIN streams |->
                   IF cells[p] = fd THEN [streams[p] EXCEPT !.at = Gone]
                   ELSE streams[p]]
  /\ last' = NoTransfer
  /\ UNCHANGED <<cells, capacity, file_buffer, host>>

\* C moves by off once, the code twice when it moves from where it is.
CTarget(p, off, whence) ==
  CASE whence = "SET" -> off
    [] whence = "CUR" -> IF off = 0 THEN streams[p].at ELSE Lost
    [] whence = "END" -> CLength(p) + off

Fseek(fd, off, whence) ==
  /\ host = "up"
  /\ \/ /\ SeekFile(fd, off, whence)
        /\ Tracked(fd, [p \in DOMAIN streams |-> CTarget(p, off, whence)])
     \/ SeekFileRefused(fd, off, whence) /\ Untracked(fd)
  /\ last' = NoTransfer
  /\ UNCHANGED <<cells, capacity, file_buffer, host>>

Ftell(fd) ==
  /\ host = "up"
  /\ TellFile(fd)
  /\ last' = NoTransfer
  /\ UNCHANGED <<cells, streams, capacity, file_buffer, host>>

-----------------------------------------------------------------------------
(***************************************************************************)
(* Transfers.                                                              *)
(***************************************************************************)

\* size * count in 32 bits: the bytes reserved, and the bytes of the span.
Product(length, count) == (length * count) % Word

\* Mutant: room for so many bytes as elements were asked for.
ReserveElements(length, count) == capacity' = Larger(capacity, count)

Reserve(length, count) ==
  capacity' = Larger(capacity, Product(length, count))

\* What file_buffer holds once it has room for n bytes.
Kept(n) == IF n > capacity THEN Junk ELSE file_buffer

\* The result is a quotient of two unsigned numbers; dividing by 0 kills the
\* host or, on other processors, gives 0.
Divide(length) ==
  \/ host' = "up"
  \/ length = 0 /\ host' = "crashed"

\* The guest's buffer may be unmapped, which is not looked at: then the bytes
\* are lost and the guest is told that they have arrived.
Fread(fd, length, count) ==
  LET n   == Product(length, count)
      got == GCount(Lookup(fd), n, SizeOf(Lookup(fd)))
      at  == [p \in DOMAIN streams |->
                IF streams[p].mode = "in" /\ streams[p].at + n <= CLength(p)
                THEN streams[p].at + n ELSE Lost]
  IN /\ host = "up"
     /\ Reserve(length, count)
     /\ ReadFile(fd, n)
     /\ file_buffer' \in IF got > 0 THEN Bytes ELSE {Kept(n)}
     /\ Tracked(fd, at)
     /\ last' = [NoTransfer EXCEPT !.span = n]
     /\ Divide(length)
     /\ UNCHANGED cells

\* uc_mem_read fills the buffer, or, from unmapped memory, leaves it.
Filled(n, given) == IF n > 0 /\ given # Junk THEN given ELSE Kept(n)

\* given: the bytes in the guest's buffer, Junk for a buffer that is not
\* mapped.  What the stream does with them does not show in the result.
Fwrite(fd, length, count, given) ==
  LET n  == Product(length, count)
      at == [p \in DOMAIN streams |->
               IF streams[p].mode = "out" THEN streams[p].at + n ELSE Lost]
  IN /\ host = "up"
     /\ Reserve(length, count)
     /\ file_buffer' = Filled(n, given)
     /\ \/ WriteFile(fd, n, FALSE) /\ Tracked(fd, at)
        \/ WriteFile(fd, n, TRUE) /\ Untracked(fd)
     /\ last' = [span |-> n, given |-> given, passed |-> file_buffer']
     /\ Divide(length)
     /\ UNCHANGED cells

ApiNext ==
  \/ \E f \in Files : Fopen(f)
  \/ FopenRefused
  \/ FopenUnreadable
  \/ \E fd \in Words :
       \/ Fclose(fd)
       \/ Ftell(fd)
       \/ \E off \in Offsets, whence \in {"SET", "CUR", "END"} :
            Fseek(fd, off, whence)
       \/ \E request \in Requests :
            \/ Fread(fd, request[1], request[2])
            \/ \E given \in Bytes \cup {Junk} :
                 Fwrite(fd, request[1], request[2], given)

ApiSpec == ApiInit /\ [][ApiNext]_apiVars

-----------------------------------------------------------------------------
(***************************************************************************)
(* Properties.                                                             *)
(***************************************************************************)

\* The table of files, the cells and the transfer buffer keep their types.
ApiTypeOK ==
  /\ FsTypeOK
  /\ cells \in Seq(Nat)
  /\ streams \in Seq(CStream) /\ Len(streams) = Len(cells)
  /\ capacity \in Nat
  /\ file_buffer \in Bytes \cup {Junk}
  /\ last \in [span : Nat, given : Bytes \cup {Junk}, passed : Bytes \cup {Junk}]
  /\ host \in {"up", "crashed", "hung"}

\* Whether the guest has passed p's handle before it was given it.
Guessed(p) == cells[p] \in guessed

\* A cell that was not closed leads to the stream it was opened on, and a
\* closed one to no file, whatever the guest has done with other cells, with
\* closed ones and with words of its own.  The one thing it can spoil is a
\* cell whose handle it has passed before it was given it: that cell may lead
\* to no file.  No cell ever leads to the file of somebody else.
StreamOfCell ==
  \A p \in DOMAIN cells :
    LET s       == Lookup(cells[p])
        itsOwn  == s.mode = streams[p].mode /\ s.file = streams[p].file
        nothing == s.mode = "closed"
    IN IF streams[p].at = Gone THEN nothing
       ELSE itsOwn \/ (nothing /\ Guessed(p))

\* As long as the guest reads what is there, writes to what it opened for
\* writing and the host takes it, and seeks from the start or the end, the
\* file is where C's stdio would have it, also with other streams on the same
\* file: the two seeks of seek_file, the shared file position and the
\* buffering do not show.
PositionAsInC ==
  \A p \in DOMAIN cells : streams[p].at >= 0 =>
    TellG(Lookup(cells[p])) = streams[p].at

\* The one buffer serves the call in progress: it has room for the bytes of
\* the span, although the size is a product of 32 bits, and what is written
\* to a file is what is in the guest's buffer, if that is mapped, and nothing
\* left from another call.
BufferServesCall ==
  /\ last.span <= capacity
  /\ last.span > 0 /\ last.given # Junk => last.passed = last.given

\* The fsys functions and the handlers behind them use the table of open files
\* by the methods of Filesystem alone: each call is at most one of them, on
\* the word behind the pointer, also when the transfer kills the host, and a
\* call that fails leaves the table alone.
ImplementsFilesystem == FsSpec

=============================================================================
