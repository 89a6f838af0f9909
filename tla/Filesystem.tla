----------------------------- MODULE Filesystem -----------------------------
(***************************************************************************)
(* src/filesystem.cpp: the table of open files behind the file SVCs.  A    *)
(* handle is a counter value that is never reused; the table is a map from *)
(* handle to stream in which every lookup, operator[], creates the entry   *)
(* it does not find (the code says FIXME: validate handle).  A handle may  *)
(* be any number: one that was never issued, or one that is still to be.   *)
(***************************************************************************)
EXTENDS Fstream

CONSTANTS
  Absent,       \* the size of a file that does not exist
  Stray,        \* handles the guest passes that were never returned to it
  Counts,       \* bound: byte counts of a read or a write
  Offsets,      \* bound: offsets of a seek
  MaxOpens,     \* bound: files opened
  MaxLen        \* bound: positions and sizes

ASSUME FilesystemAssumption ==
  /\ Absent = -1
  /\ Stray \subseteq Int
  /\ Counts \subseteq Nat /\ Offsets \subseteq Int
  /\ MaxOpens \in Nat /\ MaxLen \in Nat

VARIABLES
  next_handle,
  open_files,   \* handle |-> stream
  size,         \* host file |-> its length, or Absent
  guessed       \* history: what was passed as a handle before it was issued

fsVars == <<next_handle, open_files, size, guessed>>

Sizes == Nat \cup {Absent}

FsInit ==
  /\ next_handle = 1
  /\ open_files = [h \in {} |-> Closed]
  /\ size \in [Files -> {Absent} \cup (Counts \cap 0..MaxLen)]
  /\ guessed = {}

\* The guest passes handles it was given, closed ones too, and any others.
Issued  == 1..(next_handle - 1)
Handles == Issued \cup Stray

\* open_files[h], which creates the entry.
Lookup(h) == IF h \in DOMAIN open_files THEN open_files[h] ELSE Closed

Store(h, s) ==
  open_files' = [g \in DOMAIN open_files \cup {h} |->
                   IF g = h THEN s ELSE open_files[g]]

\* Every operation on a handle keeps the counter.
OnHandle(h) ==
  /\ next_handle' = next_handle
  /\ guessed' = guessed \cup ({h} \ Issued)

Resize(s, n) == size' = IF s.file \in Files THEN [size EXCEPT ![s.file] = n] ELSE size

SizeOf(s) == IF s.file \in Files THEN size[s.file] ELSE 0

-----------------------------------------------------------------------------
(***************************************************************************)
(* open_file.  The path arrives sanitized; only a mode that starts with rb *)
(* or wb opens anything, and when the host refuses, nothing changes and -1 *)
(* is returned.  emplace does not replace an entry that exists: the stream *)
(* just opened is then destroyed, and the handle leads to the old entry.   *)
(***************************************************************************)
\* Mutant: the handle is the lowest one that is free.
EmplaceLowest(s) ==
  LET h == CHOOSE g \in 1..next_handle :
             /\ g \notin DOMAIN open_files
             /\ \A k \in 1..(g - 1) : k \in DOMAIN open_files
  IN Store(h, s) /\ next_handle' = next_handle + 1 /\ UNCHANGED guessed

Emplace(s) ==
  /\ IF next_handle \in DOMAIN open_files
     THEN UNCHANGED open_files
     ELSE Store(next_handle, s)
  /\ next_handle' = next_handle + 1
  /\ UNCHANGED guessed

OpenForReading(f) ==
  /\ next_handle <= MaxOpens
  /\ size[f] # Absent
  /\ Emplace(OpenedOn(f, "in"))
  /\ UNCHANGED size

\* The file is created or truncated.
OpenForWriting(f) ==
  /\ next_handle <= MaxOpens
  /\ Emplace(OpenedOn(f, "out"))
  /\ size' = [size EXCEPT ![f] = 0]

\* What the host does with the rest of the buffer is not looked at.
CloseFile(h) ==
  LET s == Lookup(h)
  IN /\ open_files' = [g \in DOMAIN open_files \ {h} |-> open_files[g]]
     /\ \E upto \in Reaches(s) :
          /\ Grown(s, SizeOf(s), upto) <= Larger(SizeOf(s), MaxLen)
          /\ Resize(s, Grown(s, SizeOf(s), upto))
     /\ OnHandle(h)

\* A stream that is open for writing is written out, then there is nothing to
\* read.  (A read of no bytes that finds the disk full is left out.)
ReadFile(h, n) ==
  LET s == Lookup(h)
  IN /\ \E upto \in IF Writes(s) THEN Reaches(s) ELSE {s.pos} :
          /\ n = 0 => upto = s.pos
          /\ Store(h, AfterRead(s, n, SizeOf(s), upto))
          /\ IF Writes(s) THEN Resize(s, Grown(s, SizeOf(s), upto))
             ELSE UNCHANGED size
     /\ OnHandle(h)

\* Mutant: the second seek is taken from where the first has led to.
SeekFileMixed(h, off, whence) ==
  LET s     == Lookup(h)
      once  == SeekOnce(s, off, whence, SizeOf(s))
      after == IF SeekFlushes(s, off, whence)
               THEN Flushed(s, SizeOf(s)) ELSE SizeOf(s)
      twice == SeekOnce(once, off, "CUR", after)
  IN /\ Store(h, twice)
     /\ twice.pos <= MaxLen
     /\ IF SeekFlushes(s, off, whence) THEN Resize(s, after) ELSE UNCHANGED size
     /\ OnHandle(h)

\* Mutant: the position is set with no check that it is in the file.
SeekFileUnchecked(h, off, whence) ==
  LET s      == Lookup(h)
      target == SeekBase(s, whence, SizeOf(s)) + off
  IN /\ s.mode # "closed"
     /\ Store(h, [s EXCEPT !.pos = target, !.flushed = target])
     /\ target <= MaxLen
     /\ UNCHANGED size /\ OnHandle(h)

\* Both seekg and seekp, when the host takes what is in the buffer; a mode
\* other than the three does nothing more than the lookup.
SeekFile(h, off, whence) ==
  LET s     == Lookup(h)
      once  == SeekOnce(s, off, whence, SizeOf(s))
      after == IF SeekFlushes(s, off, whence)
               THEN Flushed(s, SizeOf(s)) ELSE SizeOf(s)
      twice == SeekOnce(once, off, whence, after)
  IN /\ Store(h, twice)
     /\ twice.pos <= MaxLen
     /\ IF SeekFlushes(s, off, whence) THEN Resize(s, after) ELSE UNCHANGED size
     /\ OnHandle(h)

\* The host refuses it: the first seek fails, the second is not tried.
SeekFileRefused(h, off, whence) ==
  LET s == Lookup(h)
  IN /\ SeekFlushes(s, off, whence) /\ s.flushed < s.pos
     /\ Store(h, [s EXCEPT !.fail = TRUE])
     /\ \E upto \in Reaches(s) : Resize(s, Grown(s, SizeOf(s), upto))
     /\ OnHandle(h)

TellFile(h) == Store(h, Lookup(h)) /\ UNCHANGED size /\ OnHandle(h)

\* The buffer of the stream is written out up to some point of the bytes, or
\* the host refuses to take more than that.  The result does not tell which:
\* it is the whole span, and neither does it when nothing can be written.
WriteFile(h, n, refused) ==
  LET s == Lookup(h)
  IN \E upto \in s.flushed..(s.pos + n) :
       /\ refused => Writes(s) /\ n > 0
       /\ s.pos + n <= MaxLen
       /\ Store(h, AfterWrite(s, n, upto, refused))
       /\ IF Writes(s)
          THEN Resize(s, Grown(s, SizeOf(s), upto))
          ELSE UNCHANGED size
       /\ OnHandle(h)

FsNext ==
  \/ \E f \in Files : OpenForReading(f) \/ OpenForWriting(f)
  \/ \E h \in Handles :
       \/ CloseFile(h)
       \/ \E n \in Counts : ReadFile(h, n)
       \/ \E n \in Counts, refused \in BOOLEAN : WriteFile(h, n, refused)
       \/ \E off \in Offsets, whence \in {"SET", "CUR", "END"} :
            SeekFile(h, off, whence) \/ SeekFileRefused(h, off, whence)
       \/ TellFile(h)

FsSpec == FsInit /\ [][FsNext]_fsVars

-----------------------------------------------------------------------------
(***************************************************************************)
(* Properties.                                                             *)
(***************************************************************************)

\* The table, the counter and the host files keep their types.
FsTypeOK ==
  /\ next_handle \in Nat \ {0}
  /\ DOMAIN open_files \subseteq Int
  /\ \A h \in DOMAIN open_files : open_files[h] \in Stream
  /\ size \in [Files -> Sizes]
  /\ guessed \subseteq Int

\* The entries that lookups leave behind are all under handles that were
\* passed: what has not been issued yet and not been guessed is free.
TableBelowCounter == DOMAIN open_files \subseteq Issued \cup guessed

\* open_file delivers: the handle it returns was not in the table, and now
\* leads to a good stream at the start of the file, whatever other handles
\* have been misused before.  The exception is a handle that the guest has
\* passed before it was issued: emplace leaves what that has put there.
OpenDelivers ==
  [][next_handle' # next_handle /\ next_handle \notin guessed =>
       /\ next_handle \notin DOMAIN open_files
       /\ next_handle \in DOMAIN open_files'
       /\ \E f \in Files, mode \in {"in", "out"} :
            open_files'[next_handle] = OpenedOn(f, mode)]_fsVars

IsOpen(h) == h \in DOMAIN open_files /\ open_files[h].mode # "closed"

\* A handle that was closed never leads to a file again: a guest that goes on
\* using it gets an unconnected stream, not the file of somebody else.  Nor
\* does an issued handle that has been spoilt by an early guess.
ClosedStaysClosed ==
  [][\A h \in Issued : ~IsOpen(h) => ~IsOpen(h)']_fsVars

\* Once an operation has failed a stream (a read past the end, a seek before
\* the start, a write to a file open for reading, bytes the host refuses), no
\* later operation moves data through it at the position where it was left: it
\* stays failed, with its position, until it is closed.
FailedIsInert ==
  [][\A h \in DOMAIN open_files \cap DOMAIN open_files' :
       open_files[h].fail =>
         /\ open_files'[h].fail
         /\ open_files'[h].pos = open_files[h].pos]_fsVars

=============================================================================
