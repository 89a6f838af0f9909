--------------------------- MODULE FileApiProofs ---------------------------
(***************************************************************************)
(* The files of the guest, for every number of files, handles, cells and   *)
(* calls.  First the table of open files on its own; then the fsys         *)
(* functions, which use the table only as FsSpec allows: each cell leads   *)
(* to its own stream, at the position C would have it, and file_buffer     *)
(* serves the call it is used for.                                         *)
(***************************************************************************)
EXTENDS FileApi, TLAPS

\* What a guess leaves under a handle that is still to be issued is connected
\* to no file.
UnissuedIsClosed ==
  \A h \in DOMAIN open_files \ Issued : open_files[h].mode = "closed"

FsInv == FsTypeOK /\ TableBelowCounter /\ UnissuedIsClosed

-----------------------------------------------------------------------------
\* Each stream operation gives a stream again, in the same mode; on a failed
\* stream it leaves the position and the failure.
LEMMA ReadStream ==
  ASSUME NEW s \in Stream, NEW n \in Nat, NEW sz \in Int, NEW out \in Nat
  PROVE  /\ AfterRead(s, n, sz, out) \in Stream
         /\ AfterRead(s, n, sz, out).mode = s.mode
         /\ s.fail => /\ AfterRead(s, n, sz, out).fail
                      /\ AfterRead(s, n, sz, out).pos = s.pos
<1> DEFINE t == AfterRead(s, n, sz, out)
<1>1. PICK got \in Nat : got = GCount(s, n, sz) /\ (s.fail => got = 0)
  BY DEF GCount, Readable, Smaller, Larger, Stream
<1>2. PICK b \in BOOLEAN : b = (s.fail \/ got < n)
  OBVIOUS
<1>0. PICK upto \in Nat :
        upto = IF s.fail \/ out < s.pos THEN s.flushed ELSE s.pos + got
  BY DEF Stream
<1>3. t = [s EXCEPT !.pos = s.pos + got, !.flushed = upto, !.fail = b]
  BY <1>0, <1>1, <1>2 DEF AfterRead, Stream
<1>4. s.pos + got \in Nat
  BY DEF Stream
<1>5. s.fail => b = TRUE /\ s.pos + got = s.pos
  BY <1>1, <1>2 DEF Stream
<1>6. /\ t \in Stream /\ t.mode = s.mode
      /\ t.pos = s.pos + got /\ t.fail = b
  BY <1>3, <1>4 DEF Stream
<1>7. s.fail => t.fail
  BY <1>5, <1>6, Zenon
<1> QED
  BY <1>5, <1>6, <1>7, Zenon

\* The same of write.
LEMMA WriteStream ==
  ASSUME NEW s \in Stream, NEW n \in Nat, NEW upto \in Nat, NEW refused \in BOOLEAN
  PROVE  /\ AfterWrite(s, n, upto, refused) \in Stream
         /\ AfterWrite(s, n, upto, refused).mode = s.mode
         /\ s.fail => /\ AfterWrite(s, n, upto, refused).fail
                      /\ AfterWrite(s, n, upto, refused).pos = s.pos
<1> DEFINE t == AfterWrite(s, n, upto, refused)
<1>1. CASE Writes(s)
  <2>0. PICK out \in Nat : out = IF refused THEN s.flushed ELSE upto
    BY DEF Stream
  <2>1. t = [s EXCEPT !.pos = s.pos + n, !.flushed = out, !.fail = refused]
    BY <1>1, <2>0 DEF AfterWrite, Stream
  <2>2. s.pos + n \in Nat /\ ~s.fail
    BY <1>1 DEF Writes, Stream
  <2> QED
    BY <2>1, <2>2 DEF Stream
<1>2. CASE ~Writes(s)
  <2>1. PICK b \in BOOLEAN : b = (s.fail \/ n > 0)
    OBVIOUS
  <2>2. t = [s EXCEPT !.fail = b]
    BY <1>2, <2>1 DEF AfterWrite
  <2>3. s.fail => b = TRUE
    BY <2>1
  <2>4. t \in Stream /\ t.mode = s.mode /\ t.pos = s.pos /\ t.fail = b
    BY <2>2 DEF Stream
  <2> QED
    BY <2>3, <2>4, Zenon
<1> QED
  BY <1>1, <1>2

\* The same of one seek, which leaves a failed stream entirely alone.
LEMMA SeekStream ==
  ASSUME NEW s \in Stream, NEW off \in Int, NEW sz \in Int,
         NEW whence \in {"SET", "CUR", "END"}
  PROVE  /\ SeekOnce(s, off, whence, sz) \in Stream
         /\ SeekOnce(s, off, whence, sz).mode = s.mode
         /\ s.fail => SeekOnce(s, off, whence, sz) = s
<1>1. PICK target \in Int : target = SeekBase(s, whence, sz) + off
  BY DEF SeekBase, Flushed, Grown, Larger, Stream
<1>2. \/ SeekOnce(s, off, whence, sz) = s
      \/ SeekOnce(s, off, whence, sz) = [s EXCEPT !.fail = TRUE]
      \/ SeekOnce(s, off, whence, sz) = [s EXCEPT !.flushed = s.pos, !.fail = TRUE]
      \/ /\ target \in Nat
         /\ SeekOnce(s, off, whence, sz)
              = [s EXCEPT !.pos = target, !.flushed = target]
  BY <1>1 DEF SeekOnce
<1>3. s.pos \in Nat
  BY DEF Stream
<1>4. s.fail => SeekOnce(s, off, whence, sz) = s
  BY DEF SeekOnce
<1>5. /\ SeekOnce(s, off, whence, sz) \in Stream
      /\ SeekOnce(s, off, whence, sz).mode = s.mode
  <2>1. CASE SeekOnce(s, off, whence, sz) = s
    BY <2>1
  <2>2. CASE SeekOnce(s, off, whence, sz) = [s EXCEPT !.fail = TRUE]
    BY <2>2 DEF Stream
  <2>3. CASE SeekOnce(s, off, whence, sz)
               = [s EXCEPT !.flushed = s.pos, !.fail = TRUE]
    BY <1>3, <2>3 DEF Stream
  <2>4. CASE target \in Nat /\ SeekOnce(s, off, whence, sz)
               = [s EXCEPT !.pos = target, !.flushed = target]
    BY <2>4 DEF Stream
  <2> QED
    BY <1>2, <2>1, <2>2, <2>3, <2>4
<1> QED
  BY <1>4, <1>5

\* No operation on a stream changes the file it is on.
LEMMA StreamFile ==
  ASSUME NEW s \in Stream
  PROVE  /\ \A n, sz, upto : AfterRead(s, n, sz, upto).file = s.file
         /\ \A n, upto, refused : AfterWrite(s, n, upto, refused).file = s.file
         /\ \A off, whence, sz : SeekOnce(s, off, whence, sz).file = s.file
         /\ [s EXCEPT !.fail = TRUE].file = s.file
<1>1. ASSUME NEW x, NEW y, NEW z
      PROVE  /\ [s EXCEPT !.pos = x, !.flushed = y, !.fail = z].file = s.file
             /\ [s EXCEPT !.pos = x, !.flushed = y].file = s.file
             /\ [s EXCEPT !.flushed = y, !.fail = z].file = s.file
             /\ [s EXCEPT !.fail = z].file = s.file
  BY DEF Stream
<1>2. ASSUME NEW n, NEW sz, NEW upto PROVE AfterRead(s, n, sz, upto).file = s.file
  BY <1>1 DEF AfterRead
<1>3. ASSUME NEW n, NEW upto, NEW refused
      PROVE  AfterWrite(s, n, upto, refused).file = s.file
  BY <1>1 DEF AfterWrite
<1>4. ASSUME NEW off, NEW whence, NEW sz
      PROVE  SeekOnce(s, off, whence, sz).file = s.file
  BY <1>1 DEF SeekOnce
<1> QED
  BY <1>1, <1>2, <1>3, <1>4

\* A stream that open_file makes is a stream.
LEMMA OpenedStream ==
  /\ Closed \in Stream
  /\ \A f \in Files, mode \in {"in", "out"} :
       OpenedOn(f, mode) \in Stream /\ OpenedOn(f, mode).mode = mode
BY DEF Closed, OpenedOn, Stream, Modes

-----------------------------------------------------------------------------
\* What a lookup finds, and what storing a stream under a handle does.
LEMMA LookupFacts ==
  ASSUME FsTypeOK, NEW h \in Handles
  PROVE  /\ h \in Int /\ Lookup(h) \in Stream /\ SizeOf(Lookup(h)) \in Int
         /\ SizeOf(Lookup(h)) \in Sizes
         /\ h \notin DOMAIN open_files => Lookup(h).mode = "closed"
<1>1. h \in Int
  BY FilesystemAssumption DEF Handles, Issued, FsTypeOK
<1>2. Lookup(h) \in Stream
  BY OpenedStream DEF Lookup, FsTypeOK
<1>3. SizeOf(Lookup(h)) \in Sizes
  BY DEF SizeOf, FsTypeOK, Sizes
<1>4. \A x \in Sizes : x \in Int
  BY FilesystemAssumption DEF Sizes
<1>5. Closed.mode = "closed"
  BY DEF Closed
<1> QED
  BY <1>1, <1>2, <1>3, <1>4, <1>5 DEF Lookup

\* Storing a stream under a handle of the guest's changes no other entry.
LEMMA StoreFacts ==
  ASSUME FsInv, NEW h \in Handles, NEW s \in Stream, Store(h, s), OnHandle(h)
  PROVE  /\ next_handle' = next_handle /\ guessed' \subseteq Int
         /\ DOMAIN open_files' = DOMAIN open_files \cup {h}
         /\ open_files'[h] = s
         /\ \A g \in DOMAIN open_files : g # h => open_files'[g] = open_files[g]
         /\ DOMAIN open_files' \subseteq Int
         /\ \A g \in DOMAIN open_files' : open_files'[g] \in Stream
         /\ TableBelowCounter'
<1>1. /\ DOMAIN open_files' = DOMAIN open_files \cup {h}
      /\ open_files'[h] = s
      /\ \A g \in DOMAIN open_files : g # h => open_files'[g] = open_files[g]
  BY DEF Store
<1>2. h \in Int
  BY LookupFacts DEF FsInv
<1>3. /\ DOMAIN open_files' \subseteq Int
      /\ \A g \in DOMAIN open_files' : open_files'[g] \in Stream
  BY <1>1, <1>2 DEF FsInv, FsTypeOK
<1>4. /\ next_handle' = next_handle /\ Issued' = Issued
      /\ guessed' = guessed \cup ({h} \ Issued)
  BY DEF OnHandle, Issued
<1>5. TableBelowCounter' /\ guessed' \subseteq Int
  BY <1>1, <1>2, <1>4 DEF FsInv, FsTypeOK, TableBelowCounter
<1> QED
  BY <1>1, <1>3, <1>4, <1>5

\* Host files keep a size.
LEMMA ResizeFacts ==
  ASSUME FsTypeOK, NEW s \in Stream, NEW n \in Sizes, Resize(s, n)
  PROVE  size' \in [Files -> Sizes]
BY DEF Resize, FsTypeOK

\* The writing out of a buffer, as far as it gets.
LEMMA GrownFacts ==
  ASSUME NEW s \in Stream, NEW sz \in Sizes
  PROVE  /\ Reaches(s) \subseteq Nat
         /\ \A upto \in Nat : Grown(s, sz, upto) \in Sizes
         /\ Flushed(s, sz) \in Sizes
<1>1. \A x \in Sizes, p \in Nat : Larger(x, p) \in Sizes
  BY FilesystemAssumption DEF Larger, Sizes
<1>2. s.flushed \in Nat /\ s.pos \in Nat
  BY DEF Stream
<1>3. Reaches(s) \subseteq Nat
  BY <1>2 DEF Reaches
<1> QED
  BY <1>1, <1>2, <1>3 DEF Flushed, Grown

\* A handle that was not guessed is new when open_file gives it out.
LEMMA HandleIsNew ==
  ASSUME FsInv, next_handle \notin guessed
  PROVE  next_handle \notin DOMAIN open_files
BY DEF FsInv, FsTypeOK, TableBelowCounter, Issued

\* Entering a new stream keeps the others, and an old one under its handle.
LEMMA EmplaceFacts ==
  ASSUME FsInv, NEW s \in Stream, Emplace(s)
  PROVE  /\ next_handle' = next_handle + 1 /\ guessed' = guessed
         /\ DOMAIN open_files' = DOMAIN open_files \cup {next_handle}
         /\ next_handle \notin DOMAIN open_files => open_files'[next_handle] = s
         /\ \A g \in DOMAIN open_files : open_files'[g] = open_files[g]
         /\ next_handle' \in Nat \ {0}
         /\ DOMAIN open_files' \subseteq Int
         /\ \A g \in DOMAIN open_files' : open_files'[g] \in Stream
         /\ TableBelowCounter'
<1>1. PICK n \in Nat \ {0} : n = next_handle
  BY DEF FsInv, FsTypeOK
<1>2. /\ next_handle' = n + 1 /\ guessed' = guessed
      /\ DOMAIN open_files' = DOMAIN open_files \cup {n}
      /\ n \notin DOMAIN open_files => open_files'[n] = s
      /\ \A g \in DOMAIN open_files : open_files'[g] = open_files[g]
  <2>1. CASE n \in DOMAIN open_files
    BY <1>1, <2>1 DEF Emplace
  <2>2. CASE n \notin DOMAIN open_files
    BY <1>1, <2>2 DEF Emplace, Store
  <2> QED
    BY <2>1, <2>2
<1>3. /\ DOMAIN open_files' \subseteq Int
      /\ \A g \in DOMAIN open_files' : open_files'[g] \in Stream
  BY <1>1, <1>2 DEF FsInv, FsTypeOK
<1>4. TableBelowCounter'
  BY <1>1, <1>2 DEF FsInv, TableBelowCounter, Issued
<1> QED
  BY <1>1, <1>2, <1>3, <1>4

\* What the calls on an open handle have in common.
HandleCall(h) ==
  \/ CloseFile(h)
  \/ \E n \in Counts : ReadFile(h, n)
  \/ \E n \in Counts, refused \in BOOLEAN : WriteFile(h, n, refused)
  \/ \E off \in Offsets, whence \in {"SET", "CUR", "END"} :
       SeekFile(h, off, whence) \/ SeekFileRefused(h, off, whence)
  \/ TellFile(h)

\* A call on a handle stores under it a stream of the same file and mode, or
\* drops it, and gives the host files lengths.
LEMMA CallStores ==
  ASSUME FsInv, NEW h \in Handles, HandleCall(h)
  PROVE  /\ OnHandle(h) /\ size' \in [Files -> Sizes]
         /\ \/ CloseFile(h)
            \/ \E t \in Stream :
                 /\ Store(h, t)
                 /\ t.mode = Lookup(h).mode /\ t.file = Lookup(h).file
                 /\ Lookup(h).fail => t.fail /\ t.pos = Lookup(h).pos
<1> DEFINE Stored(s, t) ==
      /\ Store(h, t) /\ t.mode = s.mode /\ t.file = s.file
      /\ s.fail => t.fail /\ t.pos = s.pos
<1>1. PICK s \in Stream : s = Lookup(h)
  BY LookupFacts DEF FsInv
<1>2. PICK sz \in Sizes : sz = SizeOf(s)
  BY <1>1, LookupFacts DEF FsInv
<1>3. s.flushed \in Nat /\ s.pos \in Nat /\ sz \in Int
  BY FilesystemAssumption DEF Stream, Sizes
<1>4. OnHandle(h)
  BY DEF HandleCall, CloseFile, ReadFile, WriteFile, SeekFile, SeekFileRefused,
         TellFile
<1>5. \A n \in Sizes : Resize(s, n) => size' \in [Files -> Sizes]
  BY ResizeFacts DEF FsInv
<1>6. size \in [Files -> Sizes]
  BY DEF FsInv, FsTypeOK
<1>7. CASE CloseFile(h)
  <2>1. PICK upto \in Reaches(s) : Resize(s, Grown(s, sz, upto))
    BY <1>1, <1>2, <1>7 DEF CloseFile
  <2> QED
    BY <1>4, <1>5, <1>7, <2>1, GrownFacts
<1>8. ASSUME NEW n \in Counts, ReadFile(h, n)
      PROVE  size' \in [Files -> Sizes] /\ \E t \in Stream : Stored(s, t)
  <2>1. PICK upto \in IF Writes(s) THEN Reaches(s) ELSE {s.pos} :
          /\ Store(h, AfterRead(s, n, sz, upto))
          /\ IF Writes(s) THEN Resize(s, Grown(s, sz, upto)) ELSE UNCHANGED size
    BY <1>1, <1>2, <1>8 DEF ReadFile
  <2>2. upto \in Nat
    BY <1>3, <2>1, GrownFacts
  <2>3. PICK t \in Stream : /\ t = AfterRead(s, n, sz, upto) /\ t.mode = s.mode
                            /\ s.fail => t.fail /\ t.pos = s.pos
    BY <1>3, <2>2, ReadStream, FilesystemAssumption
  <2>4. t.file = s.file
    BY <2>3, StreamFile
  <2> QED
    BY <1>5, <1>6, <2>1, <2>2, <2>3, <2>4, GrownFacts
<1>9. ASSUME NEW n \in Counts, NEW refused \in BOOLEAN, WriteFile(h, n, refused)
      PROVE  size' \in [Files -> Sizes] /\ \E t \in Stream : Stored(s, t)
  <2>1. PICK upto \in s.flushed..(s.pos + n) :
          /\ Store(h, AfterWrite(s, n, upto, refused))
          /\ IF Writes(s) THEN Resize(s, Grown(s, sz, upto)) ELSE UNCHANGED size
    BY <1>1, <1>2, <1>9 DEF WriteFile
  <2>2. upto \in Nat /\ n \in Nat
    BY <1>3, <2>1, FilesystemAssumption
  <2>3. PICK t \in Stream : /\ t = AfterWrite(s, n, upto, refused)
                            /\ t.mode = s.mode
                            /\ s.fail => t.fail /\ t.pos = s.pos
    BY <2>2, WriteStream
  <2>4. t.file = s.file
    BY <2>3, StreamFile
  <2> QED
    BY <1>5, <1>6, <2>1, <2>2, <2>3, <2>4, GrownFacts
<1>10. ASSUME NEW off \in Offsets, NEW whence \in {"SET", "CUR", "END"},
              SeekFile(h, off, whence)
       PROVE  size' \in [Files -> Sizes] /\ \E t \in Stream : Stored(s, t)
  <2>1. PICK after \in Sizes :
          after = IF SeekFlushes(s, off, whence) THEN Flushed(s, sz) ELSE sz
    BY GrownFacts
  <2>2. after \in Int /\ off \in Int
    BY FilesystemAssumption DEF Sizes
  <2>3. PICK once \in Stream : /\ once = SeekOnce(s, off, whence, sz)
                               /\ once.mode = s.mode /\ once.file = s.file
                               /\ s.fail => once = s
    <3>1. PICK t \in Stream : t = SeekOnce(s, off, whence, sz)
      BY <1>3, <2>2, SeekStream
    <3>2. t.mode = s.mode /\ (s.fail => t = s)
      BY <1>3, <2>2, <3>1, SeekStream
    <3>3. t.file = s.file
      BY <3>1, StreamFile
    <3> QED
      BY <3>1, <3>2, <3>3
  <2>4. PICK twice \in Stream : /\ twice = SeekOnce(once, off, whence, after)
                                /\ twice.mode = once.mode
                                /\ twice.file = once.file
                                /\ once.fail => twice = once
    <3>1. PICK t \in Stream : t = SeekOnce(once, off, whence, after)
      BY <2>2, SeekStream
    <3>2. t.mode = once.mode /\ (once.fail => t = once)
      BY <2>2, <3>1, SeekStream
    <3>3. t.file = once.file
      BY <3>1, StreamFile
    <3> QED
      BY <3>1, <3>2, <3>3
  <2>5. /\ Store(h, twice)
        /\ Resize(s, after) \/ UNCHANGED size
    BY <1>1, <1>2, <1>10, <2>1, <2>3, <2>4 DEF SeekFile
  <2> QED
    BY <1>5, <1>6, <2>3, <2>4, <2>5
<1>11. ASSUME NEW off \in Offsets, NEW whence \in {"SET", "CUR", "END"},
              SeekFileRefused(h, off, whence)
       PROVE  size' \in [Files -> Sizes] /\ \E t \in Stream : Stored(s, t)
  <2>1. PICK t : t = [s EXCEPT !.fail = TRUE]
    OBVIOUS
  <2>2. /\ t \in Stream /\ t.mode = s.mode /\ t.file = s.file /\ t.fail = TRUE
        /\ t.pos = s.pos
    BY <2>1 DEF Stream
  <2>3. Store(h, t) /\ \E upto \in Reaches(s) : Resize(s, Grown(s, sz, upto))
    BY <1>1, <1>2, <1>11, <2>1 DEF SeekFileRefused
  <2>4. t.fail
    BY <2>2, Zenon
  <2>5. size' \in [Files -> Sizes]
    BY <1>5, <2>3, GrownFacts
  <2> QED
    BY <2>2, <2>3, <2>4, <2>5
<1>12. CASE TellFile(h)
  BY <1>1, <1>4, <1>6, <1>12 DEF TellFile
<1> QED
  BY <1>1, <1>4, <1>7, <1>8, <1>9, <1>10, <1>11, <1>12 DEF HandleCall

-----------------------------------------------------------------------------
\* Opening leaves the entries under handles that are still to be issued.
LEMMA OpeningFacts ==
  ASSUME FsInv, NEW s \in Stream, Emplace(s)
  PROVE  UnissuedIsClosed'
<1>1. PICK n \in Nat \ {0} : n = next_handle
  BY DEF FsInv, FsTypeOK
<1>2. /\ next_handle' = n + 1
      /\ DOMAIN open_files' = DOMAIN open_files \cup {n}
      /\ \A g \in DOMAIN open_files : open_files'[g] = open_files[g]
  BY <1>1, EmplaceFacts
<1>3. DOMAIN open_files' \ Issued' \subseteq DOMAIN open_files \ Issued
  BY <1>1, <1>2 DEF Issued
<1> QED
  BY <1>2, <1>3 DEF FsInv, UnissuedIsClosed

\* Every operation keeps the types, the bound on the table's handles, and what
\* is under handles that are still to be issued.
LEMMA FsStep ==
  ASSUME FsInv, [FsNext]_fsVars
  PROVE  FsInv'
<1> USE DEF FsInv
<1>1. ASSUME NEW f \in Files, OpenForReading(f) PROVE FsInv'
  BY <1>1, OpenedStream, EmplaceFacts, OpeningFacts DEF OpenForReading, FsTypeOK
<1>2. ASSUME NEW f \in Files, OpenForWriting(f) PROVE FsInv'
  <2>1. size' \in [Files -> Sizes]
    BY <1>2 DEF OpenForWriting, FsTypeOK, Sizes
  <2> QED
    BY <1>2, <2>1, OpenedStream, EmplaceFacts, OpeningFacts
       DEF OpenForWriting, FsTypeOK
<1>3. ASSUME NEW h \in Handles, HandleCall(h) PROVE FsInv'
  <2>1. /\ OnHandle(h) /\ size' \in [Files -> Sizes] /\ h \in Int
        /\ Issued' = Issued
    BY <1>3, CallStores, LookupFacts DEF OnHandle, Issued
  <2>2. CASE CloseFile(h)
    <3>1. /\ DOMAIN open_files' = DOMAIN open_files \ {h}
          /\ \A g \in DOMAIN open_files' : open_files'[g] = open_files[g]
          /\ next_handle' = next_handle
          /\ guessed' = guessed \cup ({h} \ Issued)
      BY <2>1, <2>2 DEF CloseFile, OnHandle
    <3> QED
      BY <2>1, <3>1 DEF FsTypeOK, TableBelowCounter, UnissuedIsClosed
  <2>3. ASSUME NEW t \in Stream, Store(h, t), t.mode = Lookup(h).mode
        PROVE  FsInv'
    <3>1. /\ DOMAIN open_files' = DOMAIN open_files \cup {h}
          /\ open_files'[h] = t
          /\ \A g \in DOMAIN open_files : g # h => open_files'[g] = open_files[g]
      BY <2>1, <2>3, StoreFacts
    <3>2. h \notin Issued => t.mode = "closed"
      BY <2>3, LookupFacts DEF UnissuedIsClosed, Lookup
    <3>3. UnissuedIsClosed'
      BY <2>1, <3>1, <3>2 DEF UnissuedIsClosed
    <3> QED
      BY <2>1, <2>3, <3>3, StoreFacts DEF FsTypeOK
  <2> QED
    BY <1>3, <2>2, <2>3, CallStores
<1>4. CASE UNCHANGED fsVars
  BY <1>4 DEF fsVars, FsTypeOK, TableBelowCounter, UnissuedIsClosed, Issued
<1> QED
  BY <1>1, <1>2, <1>3, <1>4 DEF FsNext, HandleCall

\* The types and the bound on the table's handles hold in every state.
THEOREM FsInvariance == FsSpec => []FsInv
<1>1. FsInit => FsInv
  <2> SUFFICES ASSUME FsInit PROVE FsInv
    OBVIOUS
  <2>1. DOMAIN open_files = {} /\ next_handle = 1 /\ guessed = {}
    BY DEF FsInit
  <2>2. size \in [Files -> Sizes]
    BY DEF FsInit, Sizes
  <2> QED
    BY <2>1, <2>2 DEF FsInv, FsTypeOK, TableBelowCounter, UnissuedIsClosed
<1> QED
  BY <1>1, FsStep, PTL DEF FsSpec

\* The table, the counter and the host files keep their types.
THEOREM FsTypes == FsSpec => []FsTypeOK
<1>1. FsInv => FsTypeOK
  BY DEF FsInv
<1> QED
  BY <1>1, FsInvariance, PTL

-----------------------------------------------------------------------------
(***************************************************************************)
(* What single operations may never do, whatever came before them.         *)
(***************************************************************************)

\* An operation on an open handle, by what it does to the table: it drops the
\* handle, or stores under it a stream of the mode it had.
LEMMA HandleStep ==
  ASSUME FsInv, NEW h \in Handles, HandleCall(h)
  PROVE  /\ UNCHANGED next_handle
         /\ \A g \in DOMAIN open_files' : g # h =>
              g \in DOMAIN open_files /\ open_files'[g] = open_files[g]
         /\ h \in DOMAIN open_files' =>
              /\ open_files'[h].mode = Lookup(h).mode
              /\ Lookup(h).fail => /\ open_files'[h].fail
                                   /\ open_files'[h].pos = Lookup(h).pos
<1>1. OnHandle(h)
  BY CallStores
<1>2. CASE CloseFile(h)
  BY <1>1, <1>2 DEF CloseFile, OnHandle
<1>3. ASSUME NEW t \in Stream, Store(h, t), t.mode = Lookup(h).mode,
             Lookup(h).fail => t.fail /\ t.pos = Lookup(h).pos
      PROVE  /\ UNCHANGED next_handle
             /\ \A g \in DOMAIN open_files' : g # h =>
                  g \in DOMAIN open_files /\ open_files'[g] = open_files[g]
             /\ open_files'[h].mode = Lookup(h).mode
             /\ Lookup(h).fail => /\ open_files'[h].fail
                                  /\ open_files'[h].pos = Lookup(h).pos
  BY <1>1, <1>3, StoreFacts
<1> QED
  BY <1>2, <1>3, CallStores

\* A handle that was closed never leads to a file again.
THEOREM NoHandleReuse == FsSpec => ClosedStaysClosed
<1> DEFINE Stays == \A h \in Issued : ~IsOpen(h) => ~IsOpen(h)'
<1>1. FsInv /\ [FsNext]_fsVars => [Stays]_fsVars
  <2> SUFFICES ASSUME FsInv, FsNext, NEW h \in Issued, ~IsOpen(h)
               PROVE  ~IsOpen(h)'
    BY DEF fsVars
  <2>1. h < next_handle /\ h \in Handles /\ Lookup(h).mode = "closed"
    BY LookupFacts, OpenedStream
       DEF FsInv, FsTypeOK, Issued, Handles, IsOpen, Lookup, Closed
  <2>2. ASSUME NEW f \in Files, OpenForReading(f) \/ OpenForWriting(f)
        PROVE  ~IsOpen(h)'
    <3>1. PICK s \in Stream : Emplace(s)
      BY <2>2, OpenedStream DEF OpenForReading, OpenForWriting
    <3> QED
      BY <2>1, <3>1, EmplaceFacts DEF IsOpen, FsInv, FsTypeOK
  <2>3. ASSUME NEW g \in Handles, HandleCall(g)
        PROVE  ~IsOpen(h)'
    BY <2>1, <2>3, HandleStep DEF IsOpen
  <2> QED
    BY <2>2, <2>3 DEF FsNext, HandleCall
<1> QED
  BY <1>1, FsInvariance, PTL DEF FsSpec, ClosedStaysClosed

\* open_file delivers a handle to a good stream, whatever other handles have
\* been misused before, unless that very handle was passed before.
THEOREM OpensDeliver == FsSpec => OpenDelivers
<1> DEFINE Delivers ==
      next_handle' # next_handle /\ next_handle \notin guessed =>
        /\ next_handle \notin DOMAIN open_files
        /\ next_handle \in DOMAIN open_files'
        /\ \E f \in Files, mode \in {"in", "out"} :
             open_files'[next_handle] = OpenedOn(f, mode)
<1>1. FsInv /\ [FsNext]_fsVars => [Delivers]_fsVars
  <2> SUFFICES ASSUME FsInv, FsNext, next_handle' # next_handle,
                      next_handle \notin guessed
               PROVE  Delivers
    BY DEF fsVars
  <2>1. PICK f \in Files : OpenForReading(f) \/ OpenForWriting(f)
    BY HandleStep DEF FsNext, HandleCall
  <2>2. PICK mode \in {"in", "out"} : Emplace(OpenedOn(f, mode))
    BY <2>1 DEF OpenForReading, OpenForWriting
  <2> QED
    BY <2>2, HandleIsNew, OpenedStream, EmplaceFacts
<1> QED
  BY <1>1, FsInvariance, PTL DEF FsSpec, OpenDelivers

\* A failed stream stays failed, and stays where it is.
THEOREM FailuresAreFinal == FsSpec => FailedIsInert
<1> DEFINE Inert ==
      \A h \in DOMAIN open_files \cap DOMAIN open_files' :
        open_files[h].fail =>
          /\ open_files'[h].fail
          /\ open_files'[h].pos = open_files[h].pos
<1>1. FsInv /\ [FsNext]_fsVars => [Inert]_fsVars
  <2> SUFFICES ASSUME FsInv, FsNext,
                      NEW h \in DOMAIN open_files \cap DOMAIN open_files',
                      open_files[h].fail
               PROVE  /\ open_files'[h].fail
                      /\ open_files'[h].pos = open_files[h].pos
    BY DEF fsVars
  <2>1. Lookup(h) = open_files[h]
    BY DEF Lookup
  <2>2. ASSUME NEW f \in Files, OpenForReading(f) \/ OpenForWriting(f)
        PROVE  open_files'[h] = open_files[h]
    <3>1. PICK s \in Stream : Emplace(s)
      BY <2>2, OpenedStream DEF OpenForReading, OpenForWriting
    <3> QED
      BY <3>1, EmplaceFacts
  <2>3. ASSUME NEW g \in Handles, HandleCall(g)
        PROVE  /\ open_files'[h].fail
               /\ open_files'[h].pos = open_files[h].pos
    <3>1. CASE g = h
      BY <2>1, <2>3, <3>1, HandleStep
    <3>2. CASE g # h
      BY <2>3, <3>2, HandleStep
    <3> QED
      BY <3>1, <3>2
  <2> QED
    BY <2>2, <2>3 DEF FsNext, HandleCall
<1> QED
  BY <1>1, FsInvariance, PTL DEF FsSpec, FailedIsInert

-----------------------------------------------------------------------------
(***************************************************************************)
(* The fsys functions and the SVC handlers.                                *)
(***************************************************************************)

\* The k-th cell holds the k-th handle.
CellsAreHandles ==
  /\ Len(cells) = next_handle - 1
  /\ \A p \in DOMAIN cells : cells[p] = p

ApiInv ==
  /\ FsInv
  /\ ApiTypeOK
  /\ CellsAreHandles
  /\ StreamOfCell
  /\ BufferServesCall

\* The calls on a word fd that a pointer of the guest's leads to.
Transfer(fd) ==
  \E request \in Requests :
    \/ Fread(fd, request[1], request[2])
    \/ \E given \in Bytes \cup {Junk} : Fwrite(fd, request[1], request[2], given)

Moves(fd) ==
  \/ Ftell(fd)
  \/ \E off \in Offsets, whence \in {"SET", "CUR", "END"} : Fseek(fd, off, whence)
  \/ Transfer(fd)

WordCall(fd) == Fclose(fd) \/ Moves(fd)

-----------------------------------------------------------------------------
\* A function on an interval from 1 is a sequence.
LEMMA FunctionIsSeq ==
  ASSUME NEW S, NEW n \in Nat, NEW f \in [1..n -> S]
  PROVE  f \in Seq(S) /\ Len(f) = n
OBVIOUS

\* The cells and what C says of them belong together.
LEMMA CellTypes ==
  ASSUME ApiInv
  PROVE  /\ cells \in Seq(Nat) /\ streams \in Seq(CStream)
         /\ DOMAIN streams = DOMAIN cells /\ Len(cells) = next_handle - 1
         /\ DOMAIN cells = 1..Len(cells) /\ next_handle \in Nat \ {0}
         /\ \A p \in DOMAIN cells : /\ cells[p] = p /\ p \in Issued
                                    /\ streams[p] \in CStream
                                    /\ streams[p].at \in Int
<1>1. /\ cells \in Seq(Nat) /\ streams \in Seq(CStream)
      /\ Len(streams) = Len(cells) /\ Len(cells) = next_handle - 1
      /\ \A p \in DOMAIN cells : cells[p] = p
  BY DEF ApiInv, ApiTypeOK, CellsAreHandles
<1>2. DOMAIN streams = DOMAIN cells /\ DOMAIN cells = 1..Len(cells)
  BY <1>1
<1>3. next_handle \in Nat \ {0}
  BY DEF ApiInv, FsInv, FsTypeOK
<1>4. ASSUME NEW p \in DOMAIN cells
      PROVE  p \in Issued /\ streams[p] \in CStream /\ streams[p].at \in Int
  <2>1. streams[p] \in CStream
    BY <1>1, <1>2
  <2> QED
    BY <1>1, <1>2, <2>1 DEF Issued, CStream, Lost, Gone
<1> QED
  BY <1>1, <1>2, <1>3, <1>4

\* A pointer of the guest's leads to a handle it was given or to a stray one.
LEMMA WordIsHandle ==
  ASSUME ApiInv, NEW fd \in Words
  PROVE  fd \in Handles
BY CellTypes DEF Words, Handles

\* What the guest asks of a transfer is a number of bytes.
LEMMA ProductIsCount ==
  ASSUME NEW request \in Requests
  PROVE  /\ Product(request[1], request[2]) \in Counts
         /\ Product(request[1], request[2]) \in Nat
BY FileApiAssumption, FilesystemAssumption DEF Product

\* The calls on a pointer, by what they are to the table of open files.
LEMMA WordStep ==
  ASSUME NEW fd, WordCall(fd)
  PROVE  HandleCall(fd) /\ UNCHANGED cells
<1>1. CASE Fclose(fd) \/ Ftell(fd)
  BY <1>1 DEF Fclose, Ftell, HandleCall
<1>2. CASE \E off \in Offsets, whence \in {"SET", "CUR", "END"} :
             Fseek(fd, off, whence)
  BY <1>2 DEF Fseek, HandleCall
<1>3. ASSUME NEW request \in Requests,
             \/ Fread(fd, request[1], request[2])
             \/ \E given \in Bytes \cup {Junk} :
                  Fwrite(fd, request[1], request[2], given)
      PROVE  HandleCall(fd) /\ UNCHANGED cells
  <2>1. PICK n \in Counts : n = Product(request[1], request[2])
    BY ProductIsCount
  <2>2. \/ ReadFile(fd, n) \/ WriteFile(fd, n, FALSE) \/ WriteFile(fd, n, TRUE)
    BY <1>3, <2>1 DEF Fread, Fwrite
  <2>3. UNCHANGED cells
    BY <1>3 DEF Fread, Fwrite
  <2> QED
    BY <2>2, <2>3 DEF HandleCall
<1> QED
  BY <1>1, <1>2, <1>3 DEF WordCall, Moves, Transfer

\* Each step of the fsys functions is one call of the table, or none.
LEMMA ApiStepIsFsStep ==
  ASSUME ApiInv, [ApiNext]_apiVars
  PROVE  [FsNext]_fsVars
<1>1. CASE \E f \in Files : Fopen(f)
  BY <1>1 DEF Fopen, FsNext
<1>2. CASE FopenRefused \/ FopenUnreadable \/ UNCHANGED apiVars
  BY <1>2 DEF FopenRefused, FopenUnreadable, apiVars
<1>3. ASSUME NEW fd \in Words, WordCall(fd) PROVE FsNext
  <2>1. fd \in Handles /\ HandleCall(fd)
    BY <1>3, WordIsHandle, WordStep
  <2> QED
    BY <2>1 DEF HandleCall, FsNext
<1> QED
  BY <1>1, <1>2, <1>3 DEF ApiNext, WordCall, Moves, Transfer

-----------------------------------------------------------------------------
\* Opening: the new cell holds the handle that open_file gives out, and leads
\* to its stream or, when the handle was guessed, perhaps to none; the others
\* keep theirs.
LEMMA FopenStep ==
  ASSUME ApiInv, NEW f \in Files, Fopen(f)
  PROVE  CellsAreHandles' /\ StreamOfCell' /\ streams' \in Seq(CStream)
           /\ cells' \in Seq(Nat) /\ Len(streams') = Len(cells')
<1>1. PICK mode \in {"in", "out"} :
        /\ Emplace(OpenedOn(f, mode))
        /\ NewCell(f, mode)
  BY DEF Fopen, OpenForReading, OpenForWriting
<1>2. PICK n \in Nat \ {0} : n = next_handle
  BY DEF ApiInv, FsInv, FsTypeOK
<1>3. PICK st : st = [file |-> f, mode |-> mode,
                      at |-> IF n \in guessed THEN Lost ELSE 0]
  OBVIOUS
<1>4. st \in CStream /\ st.at # Gone /\ st.file = f /\ st.mode = mode
  BY <1>3 DEF CStream, Lost, Gone
<1>5. PICK s \in Stream : s = OpenedOn(f, mode) /\ s.mode = mode /\ s.file = f
  <2>1. OpenedOn(f, mode).file = f
    BY DEF OpenedOn, Closed
  <2> QED
    BY <2>1, OpenedStream
<1>6. /\ n + 1 = next_handle' /\ guessed' = guessed
      /\ DOMAIN open_files' = DOMAIN open_files \cup {n}
      /\ n \notin DOMAIN open_files => open_files'[n] = s
      /\ \A g \in DOMAIN open_files : open_files'[g] = open_files[g]
  BY <1>1, <1>2, <1>5, EmplaceFacts DEF ApiInv
<1>7. /\ cells' = Append(cells, n) /\ streams' = Append(streams, st)
      /\ cells \in Seq(Nat) /\ streams \in Seq(CStream)
      /\ Len(streams) = Len(cells) /\ Len(cells) = n - 1
      /\ \A p \in DOMAIN cells : cells[p] = p
  BY <1>1, <1>2, <1>3 DEF NewCell, ApiInv, ApiTypeOK, CellsAreHandles
<1>8. /\ cells' \in Seq(Nat) /\ streams' \in Seq(CStream)
      /\ Len(cells') = n /\ Len(streams') = n
      /\ DOMAIN cells' = 1..n
      /\ cells'[n] = n /\ streams'[n] = st
      /\ \A p \in 1..(n - 1) : /\ cells'[p] = p /\ cells'[p] = cells[p]
                               /\ streams'[p] = streams[p]
                               /\ p \in DOMAIN cells
  BY <1>4, <1>7
<1>9. CellsAreHandles'
  BY <1>6, <1>8 DEF CellsAreHandles
<1>10. ASSUME NEW p \in 1..(n - 1) PROVE Lookup(cells[p])' = Lookup(cells[p])
  BY <1>6, <1>8 DEF Lookup
<1>11. \/ Lookup(n)' = s
       \/ Lookup(n)'.mode = "closed" /\ n \in guessed
  <2>1. CASE n \in DOMAIN open_files
    <3>1. n \notin Issued
      BY <1>2 DEF Issued
    <3>2. n \in guessed /\ open_files[n].mode = "closed"
      BY <2>1, <3>1 DEF ApiInv, FsInv, TableBelowCounter, UnissuedIsClosed
    <3> QED
      BY <1>6, <2>1, <3>2 DEF Lookup
  <2>2. CASE n \notin DOMAIN open_files
    BY <1>6, <2>2 DEF Lookup
  <2> QED
    BY <2>1, <2>2
<1>12. StreamOfCell'
  <2> SUFFICES ASSUME NEW p \in DOMAIN cells'
               PROVE  IF streams'[p].at = Gone
                      THEN Lookup(cells[p])'.mode = "closed"
                      ELSE \/ /\ Lookup(cells[p])'.mode = streams'[p].mode
                              /\ Lookup(cells[p])'.file = streams'[p].file
                           \/ /\ Lookup(cells[p])'.mode = "closed"
                              /\ cells'[p] \in guessed'
    BY DEF StreamOfCell, Guessed
  <2>1. CASE p = n
    <3>1. Lookup(cells[p])' = Lookup(n)'
      BY <1>8, <2>1 DEF Lookup
    <3> QED
      BY <1>4, <1>5, <1>6, <1>8, <1>11, <2>1, <3>1
  <2>2. CASE p # n
    <3>1. p \in 1..(n - 1) /\ p \in DOMAIN cells
      BY <1>8, <2>2
    <3>2. Lookup(cells[p])' = Lookup(cells[p]) /\ streams'[p] = streams[p]
            /\ cells'[p] = cells[p]
      BY <1>8, <1>10, <3>1
    <3> QED
      BY <1>6, <3>1, <3>2 DEF ApiInv, StreamOfCell, Guessed
  <2> QED
    BY <2>1, <2>2
<1> QED
  BY <1>8, <1>9, <1>12

-----------------------------------------------------------------------------
\* A call on a handle leaves the other handles as they are; the stream of the
\* handle keeps its mode and its file, unless it is closed.
LEMMA HandleLookup ==
  ASSUME FsInv, NEW h \in Handles, HandleCall(h)
  PROVE  /\ \A g : g # h => Lookup(g)' = Lookup(g)
         /\ CloseFile(h) => Lookup(h)'.mode = "closed"
         /\ ~CloseFile(h) => /\ Lookup(h)'.mode = Lookup(h).mode
                             /\ Lookup(h)'.file = Lookup(h).file
<1>1. CASE CloseFile(h)
  <2>1. \A g : g # h => Lookup(g)' = Lookup(g)
    BY <1>1 DEF CloseFile, Lookup
  <2>2. Lookup(h)' = Closed
    BY <1>1 DEF CloseFile, Lookup
  <2> QED
    BY <1>1, <2>1, <2>2 DEF Closed
<1>2. CASE ~CloseFile(h)
  <2>1. PICK t : /\ Store(h, t)
                 /\ t.mode = Lookup(h).mode /\ t.file = Lookup(h).file
    BY <1>2, CallStores
  <2>2. Lookup(h)' = t /\ \A g : g # h => Lookup(g)' = Lookup(g)
    BY <2>1 DEF Store, Lookup
  <2> QED
    BY <1>2, <2>1, <2>2
<1> QED
  BY <1>1, <1>2

\* What C says of the streams stays what it is, but for the position of the
\* one behind fd.
SameStreams(fd) ==
  /\ streams' \in Seq(CStream) /\ Len(streams') = Len(streams)
  /\ DOMAIN streams' = DOMAIN streams
  /\ \A q \in DOMAIN streams :
       /\ streams'[q].mode = streams[q].mode
       /\ streams'[q].file = streams[q].file
       /\ q # fd => streams'[q].at = streams[q].at

\* Following a stream never takes it for closed or open.  A position that is
\* known afterwards was known before, and is the one the call leads to.
LEMMA TrackedFacts ==
  ASSUME ApiInv, NEW fd, NEW at, \A p \in DOMAIN streams : at[p] \in Int,
         Tracked(fd, at)
  PROVE  /\ SameStreams(fd)
         /\ \A q \in DOMAIN streams :
              /\ streams'[q].at = Gone <=> streams[q].at = Gone
              /\ q = fd /\ streams'[q].at >= 0 =>
                   /\ streams'[q].at = at[q] /\ at[q] >= 0
                   /\ streams[q].at >= 0
<1>1. PICK n \in Nat : n = Len(streams) /\ DOMAIN streams = 1..n
  BY CellTypes
<1>2. \A q \in DOMAIN streams : cells[q] = q /\ streams[q] \in CStream
  BY CellTypes
<1>3. /\ DOMAIN streams' = 1..n
      /\ \A q \in 1..n : streams'[q] =
           IF q # fd \/ streams[q].at = Gone THEN streams[q]
           ELSE [streams[q] EXCEPT
                   !.at = IF streams[q].at = Lost \/ at[q] < 0 THEN Lost
                          ELSE at[q]]
  BY <1>1, <1>2 DEF Tracked
<1>4. ASSUME NEW q \in 1..n
      PROVE  /\ streams'[q] \in CStream
             /\ streams'[q].mode = streams[q].mode
             /\ streams'[q].file = streams[q].file
             /\ q # fd => streams'[q].at = streams[q].at
             /\ streams'[q].at = Gone <=> streams[q].at = Gone
             /\ q = fd /\ streams'[q].at >= 0 =>
                  /\ streams'[q].at = at[q] /\ at[q] >= 0
                  /\ streams[q].at >= 0
  <2>1. streams[q] \in CStream /\ streams[q].at \in Nat \cup {Lost, Gone}
    BY <1>1, <1>2 DEF CStream
  <2>2. CASE q # fd \/ streams[q].at = Gone
    BY <1>3, <2>1, <2>2 DEF Gone
  <2>3. CASE q = fd /\ streams[q].at # Gone
    <3>1. PICK a : a = IF streams[q].at = Lost \/ at[q] < 0 THEN Lost ELSE at[q]
      OBVIOUS
    <3>2. at[q] \in Int
      BY <1>1
    <3>3. a \in Nat \cup {Lost} /\ a # Gone
      BY <3>1, <3>2 DEF Lost, Gone
    <3>4. streams'[q] = [streams[q] EXCEPT !.at = a]
      BY <1>3, <2>3, <3>1
    <3>5. /\ streams'[q] \in CStream /\ streams'[q].at = a
          /\ streams'[q].mode = streams[q].mode
          /\ streams'[q].file = streams[q].file
      BY <2>1, <3>3, <3>4 DEF CStream
    <3> QED
      BY <2>1, <2>3, <3>1, <3>2, <3>3, <3>5 DEF Lost, Gone
  <2> QED
    BY <2>2, <2>3
<1>5. PICK g : g = streams'
  OBVIOUS
<1>6. g = [q \in 1..n |-> g[q]]
  BY <1>1, <1>5 DEF Tracked
<1>7. g \in [1..n -> CStream]
  BY <1>4, <1>5, <1>6
<1>8. g \in Seq(CStream) /\ Len(g) = n
  BY <1>7, FunctionIsSeq
<1> QED
  BY <1>1, <1>3, <1>4, <1>5, <1>8 DEF SameStreams

\* The lengths that C goes by are numbers.
LEMMA CLengthType ==
  ASSUME ApiInv, FsTypeOK'
  PROVE  \A p \in DOMAIN streams : streams[p].at \in Int /\ CLength(p) \in Int
<1> SUFFICES ASSUME NEW p \in DOMAIN streams
             PROVE  streams[p].at \in Int /\ CLength(p) \in Int
  OBVIOUS
<1>1. streams[p] \in CStream /\ streams[p].at \in Int
  BY CellTypes
<1>2. streams[p].file \in Files
  BY <1>1 DEF CStream
<1> QED
  BY <1>1, <1>2, FilesystemAssumption DEF CLength, FsTypeOK, Sizes

\* The tracking of a failed call.
LEMMA UntrackedFacts ==
  ASSUME ApiInv, NEW fd, Untracked(fd)
  PROVE  /\ SameStreams(fd)
         /\ \A q \in DOMAIN streams :
              /\ streams'[q].at = Gone <=> streams[q].at = Gone
              /\ q = fd => ~(streams'[q].at >= 0)
<1>1. PICK at : at = [p \in DOMAIN streams |-> Lost]
  OBVIOUS
<1>2. \A p \in DOMAIN streams : at[p] = Lost /\ at[p] \in Int
  BY <1>1 DEF Lost
<1>3. Tracked(fd, at)
  BY <1>1 DEF Untracked
<1> QED
  BY <1>2, <1>3, TrackedFacts DEF Lost

\* A call other than fsys_fclose only moves the position C gives.
LEMMA MovesOnly ==
  ASSUME ApiInv, FsTypeOK', NEW fd \in Words, Moves(fd)
  PROVE  /\ SameStreams(fd)
         /\ ~CloseFile(fd)
         /\ \A q \in DOMAIN streams :
              streams'[q].at = Gone <=> streams[q].at = Gone
<1> DEFINE Goal == /\ SameStreams(fd)
                   /\ ~CloseFile(fd)
                   /\ \A q \in DOMAIN streams :
                        streams'[q].at = Gone <=> streams[q].at = Gone
<1>1. streams \in Seq(CStream)
  BY CellTypes
<1>2. \A s : Store(fd, s) => ~CloseFile(fd)
  BY DEF Store, CloseFile
<1>3. CASE Ftell(fd)
  BY <1>1, <1>2, <1>3 DEF Ftell, TellFile, SameStreams
<1>4. ASSUME NEW off \in Offsets, NEW whence \in {"SET", "CUR", "END"},
             Fseek(fd, off, whence)
      PROVE  Goal
  <2>1. PICK at : at = [p \in DOMAIN streams |-> CTarget(p, off, whence)]
    OBVIOUS
  <2>2. \A p \in DOMAIN streams : at[p] \in Int
    BY <2>1, CLengthType, FilesystemAssumption DEF CTarget, Lost
  <2>3. Tracked(fd, at) \/ Untracked(fd)
    BY <1>4, <2>1 DEF Fseek
  <2>4. ~CloseFile(fd)
    BY <1>2, <1>4 DEF Fseek, SeekFile, SeekFileRefused
  <2> QED
    BY <2>2, <2>3, <2>4, TrackedFacts, UntrackedFacts
<1>5. ASSUME NEW request \in Requests, Fread(fd, request[1], request[2])
      PROVE  Goal
  <2>1. PICK n \in Nat : n = Product(request[1], request[2])
    BY ProductIsCount
  <2>2. PICK at :
          at = [p \in DOMAIN streams |->
                  IF streams[p].mode = "in" /\ streams[p].at + n <= CLength(p)
                  THEN streams[p].at + n ELSE Lost]
    OBVIOUS
  <2>3. \A p \in DOMAIN streams : at[p] \in Int
    BY <2>2, CLengthType DEF Lost
  <2>4. Tracked(fd, at) /\ ReadFile(fd, n)
    BY <1>5, <2>1, <2>2 DEF Fread
  <2>5. ~CloseFile(fd)
    BY <1>2, <2>4 DEF ReadFile
  <2> QED
    BY <2>3, <2>4, <2>5, TrackedFacts
<1>6. ASSUME NEW request \in Requests, NEW given,
             Fwrite(fd, request[1], request[2], given)
      PROVE  Goal
  <2>1. PICK n \in Nat : n = Product(request[1], request[2])
    BY ProductIsCount
  <2>2. PICK at :
          at = [p \in DOMAIN streams |->
                  IF streams[p].mode = "out" THEN streams[p].at + n ELSE Lost]
    OBVIOUS
  <2>3. \A p \in DOMAIN streams : at[p] \in Int
    BY <2>2, CLengthType DEF Lost
  <2>4. /\ Tracked(fd, at) \/ Untracked(fd)
        /\ WriteFile(fd, n, FALSE) \/ WriteFile(fd, n, TRUE)
    BY <1>6, <2>1, <2>2 DEF Fwrite
  <2>5. ~CloseFile(fd)
    BY <1>2, <2>4 DEF WriteFile
  <2> QED
    BY <2>3, <2>4, <2>5, TrackedFacts, UntrackedFacts
<1> QED
  BY <1>3, <1>4, <1>5, <1>6 DEF Moves, Transfer

\* Closing: C's streams, but for the one behind fd, which is gone.
LEMMA FcloseFacts ==
  ASSUME ApiInv, NEW fd, Fclose(fd)
  PROVE  /\ SameStreams(fd)
         /\ \A q \in DOMAIN streams : q = fd => streams'[q].at = Gone
<1>1. PICK n \in Nat : n = Len(streams) /\ DOMAIN streams = 1..n
  BY CellTypes
<1>2. \A q \in DOMAIN streams : cells[q] = q /\ streams[q] \in CStream
  BY CellTypes
<1>3. /\ DOMAIN streams' = 1..n
      /\ \A q \in 1..n : streams'[q] =
           IF q = fd THEN [streams[q] EXCEPT !.at = Gone] ELSE streams[q]
  BY <1>1, <1>2 DEF Fclose
<1>4. ASSUME NEW q \in 1..n
      PROVE  /\ streams'[q] \in CStream
             /\ streams'[q].mode = streams[q].mode
             /\ streams'[q].file = streams[q].file
             /\ q # fd => streams'[q].at = streams[q].at
             /\ q = fd => streams'[q].at = Gone
  <2>1. streams[q] \in CStream
    BY <1>1, <1>2
  <2>2. CASE q = fd
    <3>1. streams'[q] = [streams[q] EXCEPT !.at = Gone]
      BY <1>3, <2>2
    <3> QED
      BY <2>1, <2>2, <3>1 DEF CStream
  <2>3. CASE q # fd
    BY <1>3, <2>1, <2>3
  <2> QED
    BY <2>2, <2>3
<1>5. PICK g : g = streams'
  OBVIOUS
<1>6. g = [q \in 1..n |-> g[q]]
  BY <1>1, <1>5 DEF Fclose
<1>7. g \in [1..n -> CStream]
  BY <1>4, <1>5, <1>6
<1>8. g \in Seq(CStream) /\ Len(g) = n
  BY <1>7, FunctionIsSeq
<1> QED
  BY <1>1, <1>3, <1>4, <1>5, <1>8 DEF SameStreams

\* A call on a pointer keeps the cells and what they lead to.
LEMMA WordKeepsCells ==
  ASSUME ApiInv, FsTypeOK', NEW fd \in Words, WordCall(fd)
  PROVE  CellsAreHandles' /\ StreamOfCell' /\ streams' \in Seq(CStream)
           /\ cells' \in Seq(Nat) /\ Len(streams') = Len(cells')
<1>1. fd \in Handles /\ HandleCall(fd) /\ cells' = cells
  BY WordIsHandle, WordStep
<1>2. UNCHANGED next_handle /\ guessed \subseteq guessed'
  BY <1>1, CallStores DEF ApiInv, OnHandle
<1>3. /\ cells \in Seq(Nat) /\ DOMAIN streams = DOMAIN cells
      /\ Len(cells) = next_handle - 1 /\ Len(streams) = Len(cells)
      /\ \A q \in DOMAIN cells : cells[q] = q
  BY CellTypes DEF ApiInv, ApiTypeOK
<1>4. SameStreams(fd)
  BY MovesOnly, FcloseFacts DEF WordCall
<1>5. CellsAreHandles' /\ streams' \in Seq(CStream)
        /\ cells' \in Seq(Nat) /\ Len(streams') = Len(cells')
  BY <1>1, <1>2, <1>3, <1>4 DEF SameStreams, CellsAreHandles
<1>6. ASSUME NEW q \in DOMAIN cells
      PROVE  LET s == Lookup(q)'
             IN IF streams'[q].at = Gone THEN s.mode = "closed"
                ELSE \/ s.mode = streams'[q].mode /\ s.file = streams'[q].file
                     \/ s.mode = "closed" /\ q \in guessed'
  <2>0. cells[q] = q /\ q \in DOMAIN streams
    BY <1>3
  <2>1. LET s == Lookup(q)
        IN IF streams[q].at = Gone THEN s.mode = "closed"
           ELSE \/ s.mode = streams[q].mode /\ s.file = streams[q].file
                \/ s.mode = "closed" /\ q \in guessed
    BY <2>0 DEF ApiInv, StreamOfCell, Guessed
  <2>2. CASE q # fd
    <3>1. Lookup(q)' = Lookup(q)
      BY <1>1, <2>2, HandleLookup DEF ApiInv
    <3>2. /\ streams'[q].at = streams[q].at
          /\ streams'[q].mode = streams[q].mode
          /\ streams'[q].file = streams[q].file
      BY <1>4, <2>0, <2>2 DEF SameStreams
    <3> QED
      BY <1>2, <2>1, <3>1, <3>2
  <2>3. CASE q = fd /\ Fclose(fd)
    <3>1. streams'[q].at = Gone
      BY <2>0, <2>3, FcloseFacts
    <3>2. Lookup(q)'.mode = "closed"
      BY <1>1, <2>3, HandleLookup DEF ApiInv, Fclose
    <3> QED
      BY <3>1, <3>2
  <2>4. CASE q = fd /\ Moves(fd)
    <3>1. ~CloseFile(fd) /\ (streams'[q].at = Gone <=> streams[q].at = Gone)
      BY <2>0, <2>4, MovesOnly
    <3>2. /\ Lookup(q)'.mode = Lookup(q).mode
          /\ Lookup(q)'.file = Lookup(q).file
      BY <1>1, <2>4, <3>1, HandleLookup DEF ApiInv
    <3>3. /\ streams'[q].mode = streams[q].mode
          /\ streams'[q].file = streams[q].file
      BY <1>4, <2>0 DEF SameStreams
    <3> QED
      BY <1>2, <2>1, <3>1, <3>2, <3>3
  <2> QED
    BY <2>2, <2>3, <2>4 DEF WordCall
<1>7. StreamOfCell'
  <2> SUFFICES ASSUME NEW q \in DOMAIN cells
               PROVE  LET s == Lookup(cells[q])'
                      IN IF streams'[q].at = Gone THEN s.mode = "closed"
                         ELSE \/ /\ s.mode = streams'[q].mode
                                 /\ s.file = streams'[q].file
                              \/ s.mode = "closed" /\ cells'[q] \in guessed'
    BY <1>1 DEF StreamOfCell, Guessed
  <2>1. Lookup(cells[q])' = Lookup(q)' /\ cells'[q] = q
    BY <1>1, <1>3 DEF Lookup
  <2> QED
    BY <1>6, <2>1
<1> QED
  BY <1>5, <1>7

-----------------------------------------------------------------------------
\* What a step does to file_buffer and its record.
BufferOK ==
  /\ capacity \in Nat
  /\ file_buffer \in Bytes \cup {Junk}
  /\ last \in [span : Nat, given : Bytes \cup {Junk}, passed : Bytes \cup {Junk}]
  /\ host \in {"up", "crashed", "hung"}
  /\ BufferServesCall

\* Room is made for as many bytes as the stream is given.
LEMMA ReserveFacts ==
  ASSUME capacity \in Nat, NEW request \in Requests,
         Reserve(request[1], request[2])
  PROVE  capacity' \in Nat /\ Product(request[1], request[2]) <= capacity'
BY ProductIsCount DEF Reserve, Larger

\* Every step keeps the buffer.
LEMMA BufferStep ==
  ASSUME BufferOK, [ApiNext]_apiVars
  PROVE  BufferOK'
<1>1. ASSUME last' = NoTransfer, UNCHANGED <<capacity, file_buffer>>,
             host' \in {"up", "crashed", "hung"}
      PROVE  BufferOK'
  BY <1>1 DEF BufferOK, BufferServesCall, NoTransfer
<1>2. CASE \/ \E f \in Files : Fopen(f)
           \/ FopenRefused
           \/ \E fd \in Words :
                \/ Fclose(fd) \/ Ftell(fd)
                \/ \E off \in Offsets, whence \in {"SET", "CUR", "END"} :
                     Fseek(fd, off, whence)
  BY <1>1, <1>2 DEF Fopen, NewCell, FopenRefused, Fclose, Ftell, Fseek, BufferOK
<1>3. CASE FopenUnreadable \/ UNCHANGED apiVars
  BY <1>3 DEF FopenUnreadable, bufVars, apiVars, BufferOK, BufferServesCall
<1>4. ASSUME NEW fd \in Words, NEW request \in Requests,
             Fread(fd, request[1], request[2])
      PROVE  BufferOK'
  <2>1. PICK n \in Nat : n = Product(request[1], request[2])
    BY ProductIsCount
  <2>2. capacity' \in Nat /\ n <= capacity'
    BY <1>4, <2>1, ReserveFacts DEF Fread, BufferOK
  <2>3. Kept(n) \in Bytes \cup {Junk}
    BY DEF Kept, BufferOK
  <2>4. file_buffer' \in Bytes \cup {Junk}
    BY <1>4, <2>1, <2>3 DEF Fread
  <2>5. host' \in {"up", "crashed", "hung"}
    BY <1>4 DEF Fread, Divide
  <2>6. last' = [span |-> n, given |-> Junk, passed |-> Junk]
    BY <1>4, <2>1 DEF Fread, NoTransfer
  <2> QED
    BY <2>2, <2>4, <2>5, <2>6 DEF BufferOK, BufferServesCall
<1>5. ASSUME NEW fd \in Words, NEW request \in Requests,
             NEW given \in Bytes \cup {Junk},
             Fwrite(fd, request[1], request[2], given)
      PROVE  BufferOK'
  <2>1. PICK n \in Nat : n = Product(request[1], request[2])
    BY ProductIsCount
  <2>2. capacity' \in Nat /\ n <= capacity'
    BY <1>5, <2>1, ReserveFacts DEF Fwrite, BufferOK
  <2>3. /\ file_buffer' = Filled(n, given)
        /\ last' = [span |-> n, given |-> given, passed |-> file_buffer']
    BY <1>5, <2>1 DEF Fwrite
  <2>4. /\ file_buffer' \in Bytes \cup {Junk}
        /\ n > 0 /\ given # Junk => file_buffer' = given
    BY <2>3 DEF Filled, Kept, BufferOK
  <2>5. host' \in {"up", "crashed", "hung"}
    BY <1>5 DEF Fwrite, Divide
  <2> QED
    BY <2>2, <2>3, <2>4, <2>5 DEF BufferOK, BufferServesCall
<1> QED
  BY <1>2, <1>3, <1>4, <1>5 DEF ApiNext

\* Every step keeps the table, the cells and the buffer in order.
LEMMA ApiStep ==
  ASSUME ApiInv, [ApiNext]_apiVars
  PROVE  ApiInv'
<1>1. FsInv'
  BY ApiStepIsFsStep, FsStep DEF ApiInv
<1>2. FsTypeOK'
  BY <1>1 DEF FsInv
<1>3. BufferOK'
  BY BufferStep DEF BufferOK, ApiInv, ApiTypeOK
<1>4. CellsAreHandles' /\ StreamOfCell' /\ streams' \in Seq(CStream)
        /\ cells' \in Seq(Nat) /\ Len(streams') = Len(cells')
  <2>1. CASE \E f \in Files : Fopen(f)
    BY <2>1, FopenStep
  <2>2. CASE FopenRefused \/ FopenUnreadable \/ UNCHANGED apiVars
    <3>1. UNCHANGED <<next_handle, open_files, guessed, cells, streams>>
      BY <2>2 DEF FopenRefused, FopenUnreadable, apiVars, fsVars
    <3> QED
      BY <3>1
         DEF ApiInv, ApiTypeOK, CellsAreHandles, StreamOfCell, Guessed, Lookup
  <2>3. ASSUME NEW fd \in Words, WordCall(fd)
        PROVE  CellsAreHandles' /\ StreamOfCell' /\ streams' \in Seq(CStream)
                 /\ cells' \in Seq(Nat) /\ Len(streams') = Len(cells')
    BY <1>2, <2>3, WordKeepsCells
  <2> QED
    BY <2>1, <2>2, <2>3 DEF ApiNext, WordCall, Moves, Transfer
<1> QED
  BY <1>1, <1>2, <1>3, <1>4 DEF ApiInv, ApiTypeOK, BufferOK

\* The table of open files, the cells and the buffer are in order in every
\* state: cell k holds handle k, and leads to the stream it was opened on or,
\* closed or guessed, to none.
THEOREM ApiInvariance == ApiSpec => []ApiInv
<1>1. ApiInit => ApiInv
  <2> SUFFICES ASSUME ApiInit PROVE ApiInv
    OBVIOUS
  <2>1. FsInit
    BY DEF ApiInit
  <2>2. /\ next_handle = 1 /\ DOMAIN open_files = {} /\ guessed = {}
        /\ size \in [Files -> Sizes]
    BY <2>1 DEF FsInit, Sizes
  <2>3. FsInv
    BY <2>2 DEF FsInv, FsTypeOK, TableBelowCounter, UnissuedIsClosed
  <2>4. cells = <<>> /\ streams = <<>>
    BY DEF ApiInit
  <2>5. CellsAreHandles /\ StreamOfCell
    BY <2>2, <2>4 DEF CellsAreHandles, StreamOfCell
  <2>6. BufferOK
    BY DEF ApiInit, NoTransfer, BufferOK, BufferServesCall
  <2> QED
    BY <2>3, <2>4, <2>5, <2>6 DEF ApiInv, ApiTypeOK, BufferOK, FsInv
<1> QED
  BY <1>1, ApiStep, PTL DEF ApiSpec

\* The variables of the files of the guest keep their types.
THEOREM ApiTypes == ApiSpec => []ApiTypeOK
<1>1. ApiInv => ApiTypeOK
  BY DEF ApiInv
<1> QED
  BY <1>1, ApiInvariance, PTL

\* A cell that was not closed leads to the stream it was opened on, a closed
\* one to no file, whatever handles and pointers the guest has misused; a
\* handle that was passed before it was issued costs its own cell the file, and
\* gives nobody the file of another.
THEOREM CellsLeadToTheirStreams == ApiSpec => []StreamOfCell
<1>1. ApiInv => StreamOfCell
  BY DEF ApiInv
<1> QED
  BY <1>1, ApiInvariance, PTL

\* file_buffer has room for every transfer, and what is written to a file is
\* what is in the guest's buffer, if it is mapped.
THEOREM BufferServesItsCall == ApiSpec => []BufferServesCall
<1>1. ApiInv => BufferServesCall
  BY DEF ApiInv
<1> QED
  BY <1>1, ApiInvariance, PTL

\* The fsys functions and the SVC handlers use the table of open files as
\* FsSpec allows, so that what is proved of that holds of the guest's files.
THEOREM ApiUsesFilesystem == ApiSpec => ImplementsFilesystem
<1>1. ApiInit => FsInit
  BY DEF ApiInit
<1>2. ApiInv /\ [ApiNext]_apiVars => [FsNext]_fsVars
  BY ApiStepIsFsStep
<1> QED
  BY <1>1, <1>2, ApiInvariance, PTL DEF ApiSpec, FsSpec, ImplementsFilesystem

\* fsys_fopen delivers a stream of its own, whatever handles, closed cells and
\* pointers the guest has misused before, unless it has passed as a pointer to
\* a handle, before it was given it, the very handle that open_file gives out.
THEOREM FopensDeliver == ApiSpec => OpenDelivers
BY ApiUsesFilesystem, OpensDeliver DEF ImplementsFilesystem

\* A guest that goes on using a cell it has closed never reaches a file.
THEOREM GuestsReuseNoHandle == ApiSpec => ClosedStaysClosed
BY ApiUsesFilesystem, NoHandleReuse DEF ImplementsFilesystem

\* A stream that has failed in a call of the guest stays where it was left.
THEOREM GuestFailuresAreFinal == ApiSpec => FailedIsInert
BY ApiUsesFilesystem, FailuresAreFinal DEF ImplementsFilesystem

-----------------------------------------------------------------------------
\* A good stream at position n; one that is read has nothing to write out.
AtPos(s, n) ==
  /\ ~s.fail /\ s.mode # "closed" /\ s.pos = n
  /\ s.mode = "in" => s.flushed = s.pos

\* Reading what is there moves the stream behind it.
LEMMA ReadMoves ==
  ASSUME NEW s \in Stream, NEW n \in Nat, NEW sz \in Int, AtPos(s, s.pos),
         s.mode = "in", s.pos + n <= sz
  PROVE  AtPos(AfterRead(s, n, sz, s.pos), s.pos + n)
<1>1. s.pos \in Nat /\ ~s.fail
  BY DEF Stream, AtPos
<1>2. Readable(s, sz) = sz - s.pos
  BY <1>1 DEF Readable, Larger
<1>3. GCount(s, n, sz) = n
  BY <1>1, <1>2 DEF GCount, Smaller
<1>4. PICK b \in BOOLEAN : b = (s.fail \/ n < n)
  OBVIOUS
<1>0. ~(n < n)
  OBVIOUS
<1>5. ~b
  BY <1>0, <1>1, <1>4, Zenon
<1>9. PICK out : out = IF s.fail \/ s.pos < s.pos THEN s.flushed ELSE s.pos + n
  OBVIOUS
<1>10. out = s.pos + n
  <2>1. ~(s.pos < s.pos)
    BY <1>1
  <2> QED
    BY <1>1, <1>9, <2>1, Zenon
<1>6. AfterRead(s, n, sz, s.pos)
        = [s EXCEPT !.pos = s.pos + n, !.flushed = s.pos + n, !.fail = b]
  <2>1. AfterRead(s, n, sz, s.pos)
          = [s EXCEPT !.pos = s.pos + n, !.flushed = out, !.fail = b]
    BY <1>3, <1>4, <1>9 DEF AfterRead
  <2> QED
    BY <1>10, <2>1
<1>7. /\ AfterRead(s, n, sz, s.pos).pos = s.pos + n
      /\ AfterRead(s, n, sz, s.pos).flushed = s.pos + n
      /\ AfterRead(s, n, sz, s.pos).fail = b
      /\ AfterRead(s, n, sz, s.pos).mode = s.mode
  BY <1>6 DEF Stream
<1>8. ~AfterRead(s, n, sz, s.pos).fail
  BY <1>5, <1>7, Zenon
<1> QED
  BY <1>7, <1>8 DEF AtPos

\* Writing moves it behind what is written.
LEMMA WriteMoves ==
  ASSUME NEW s \in Stream, NEW n \in Nat, NEW upto \in Nat, AtPos(s, s.pos),
         s.mode = "out"
  PROVE  AtPos(AfterWrite(s, n, upto, FALSE), s.pos + n)
<1>1. AfterWrite(s, n, upto, FALSE)
        = [s EXCEPT !.pos = s.pos + n, !.flushed = upto, !.fail = FALSE]
  BY DEF AfterWrite, Writes, AtPos, Stream
<1>2. /\ AfterWrite(s, n, upto, FALSE).pos = s.pos + n
      /\ AfterWrite(s, n, upto, FALSE).fail = FALSE
      /\ AfterWrite(s, n, upto, FALSE).mode = s.mode
  BY <1>1 DEF Stream
<1>3. ~AfterWrite(s, n, upto, FALSE).fail
  BY <1>2, Zenon
<1> QED
  BY <1>2, <1>3 DEF AtPos

\* A seek from the start or the end leads where it says.
LEMMA SeekMoves ==
  ASSUME NEW s \in Stream, NEW off \in Int, NEW sz \in Int, AtPos(s, s.pos),
         NEW whence \in {"SET", "END"}, NEW target \in Nat,
         target = SeekBase(s, whence, sz) + off
  PROVE  /\ SeekOnce(s, off, whence, sz) \in Stream
         /\ AtPos(SeekOnce(s, off, whence, sz), target)
         /\ SeekOnce(s, off, whence, sz).flushed = target
         /\ SeekOnce(s, off, whence, sz).mode = s.mode
<1>1. SeekOnce(s, off, whence, sz) = [s EXCEPT !.pos = target, !.flushed = target]
  BY DEF SeekOnce, AtPos
<1>2. /\ SeekOnce(s, off, whence, sz).pos = target
      /\ SeekOnce(s, off, whence, sz).flushed = target
      /\ SeekOnce(s, off, whence, sz).fail = s.fail
      /\ SeekOnce(s, off, whence, sz).mode = s.mode
      /\ SeekOnce(s, off, whence, sz) \in Stream
  BY <1>1 DEF Stream
<1>3. ~SeekOnce(s, off, whence, sz).fail
  BY <1>2, Zenon DEF AtPos
<1> QED
  BY <1>2, <1>3 DEF AtPos

\* A seek that is made twice, as seek_file does, leads there as well: nothing
\* is left to write out when the second begins.
LEMMA SeekTwiceMoves ==
  ASSUME NEW s \in Stream, NEW off \in Int, NEW sz \in Int, AtPos(s, s.pos),
         NEW whence \in {"SET", "END"}, NEW after \in Int,
         whence = "END" => SeekBase(s, whence, sz) = after,
         NEW target \in Nat,
         target = (IF whence = "SET" THEN 0 ELSE after) + off
  PROVE  AtPos(SeekOnce(SeekOnce(s, off, whence, sz), off, whence, after), target)
<1>1. target = SeekBase(s, whence, sz) + off
  BY DEF SeekBase
<1>2. PICK once \in Stream :
        /\ once = SeekOnce(s, off, whence, sz)
        /\ AtPos(once, target) /\ once.flushed = target
  BY <1>1, SeekMoves
<1>3. AtPos(once, once.pos) /\ once.pos = target
  BY <1>2 DEF AtPos
<1>4. target = SeekBase(once, whence, after) + off
  BY <1>2, <1>3 DEF SeekBase, Flushed, Grown
<1> QED
  BY <1>2, <1>3, <1>4, SeekMoves

-----------------------------------------------------------------------------
\* The cell's stream is where C has it, as long as C's position is known.
FollowsC(q) == streams[q].at >= 0 => AtPos(Lookup(cells[q]), streams[q].at)

AllFollow == \A q \in DOMAIN cells : FollowsC(q)

\* What is known of the cell a call is made on.
LEMMA CellFacts ==
  ASSUME ApiInv, AllFollow, NEW p \in DOMAIN cells, streams[p].at >= 0
  PROVE  /\ p \in DOMAIN streams /\ streams[p] \in CStream
         /\ Lookup(p) \in Stream
         /\ AtPos(Lookup(p), Lookup(p).pos)
         /\ Lookup(p).pos = streams[p].at
         /\ Lookup(p).mode = streams[p].mode /\ Lookup(p).file = streams[p].file
         /\ streams[p].file \in Files /\ SizeOf(Lookup(p)) = size[streams[p].file]
         /\ size[streams[p].file] \in Int
<1>1. /\ streams[p] \in CStream /\ p \in DOMAIN streams
      /\ cells[p] = p /\ p \in Issued
  BY CellTypes
<1>2. streams[p].file \in Files /\ streams[p].at # Gone
  BY <1>1 DEF CStream, Gone
<1>3. Lookup(p) \in Stream
  BY <1>1, LookupFacts DEF ApiInv, FsInv, Handles
<1>4. AtPos(Lookup(p), streams[p].at)
  BY <1>1 DEF AllFollow, FollowsC
<1>5. Lookup(p).mode = streams[p].mode /\ Lookup(p).file = streams[p].file
  BY <1>1, <1>2, <1>4 DEF ApiInv, StreamOfCell, AtPos
<1>6. size[streams[p].file] \in Int
  BY <1>2, FilesystemAssumption DEF ApiInv, FsInv, FsTypeOK, Sizes
<1>7. SizeOf(Lookup(p)) = size[streams[p].file]
  BY <1>2, <1>5 DEF SizeOf
<1> QED
  BY <1>1, <1>2, <1>3, <1>4, <1>5, <1>6, <1>7 DEF AtPos

\* fsys_fseek.
LEMMA FseekFollows ==
  ASSUME ApiInv, FsTypeOK', AllFollow, NEW p \in DOMAIN cells, NEW off \in Offsets,
         NEW whence \in {"SET", "CUR", "END"}, Fseek(p, off, whence),
         streams'[p].at >= 0
  PROVE  AtPos(Lookup(p)', streams'[p].at)
<1>0. p \in DOMAIN streams
  BY CellTypes
<1>1. PICK at : at = [q \in DOMAIN streams |-> CTarget(q, off, whence)]
  OBVIOUS
<1>2. off \in Int /\ \A q \in DOMAIN streams : at[q] \in Int
  BY <1>1, CLengthType, FilesystemAssumption DEF CTarget, Lost
<1>3. SeekFile(p, off, whence) /\ Tracked(p, at)
  BY <1>0, <1>1, UntrackedFacts DEF Fseek
<1>4. PICK target \in Nat : target = CTarget(p, off, whence)
                            /\ streams'[p].at = target /\ streams[p].at >= 0
  BY <1>0, <1>1, <1>2, <1>3, TrackedFacts
<1>5. PICK s \in Stream, sz \in Int :
        /\ s = Lookup(p) /\ sz = SizeOf(s) /\ sz = size[streams[p].file]
        /\ streams[p].file \in Files
        /\ AtPos(s, s.pos) /\ s.pos = streams[p].at
        /\ s.mode = streams[p].mode /\ s.file = streams[p].file
        /\ s.mode \in {"in", "out"}
  BY <1>4, CellFacts DEF CStream
<1>6. PICK after \in Int :
        /\ after = (IF SeekFlushes(s, off, whence) THEN Flushed(s, sz) ELSE sz)
        /\ Lookup(p)' = SeekOnce(SeekOnce(s, off, whence, sz), off, whence, after)
        /\ IF SeekFlushes(s, off, whence) THEN Resize(s, after) ELSE UNCHANGED size
  <2>1. Flushed(s, sz) \in Int
    BY <1>5 DEF Flushed, Grown, Larger, Stream
  <2>2. PICK after \in Int :
          after = (IF SeekFlushes(s, off, whence) THEN Flushed(s, sz) ELSE sz)
    BY <2>1
  <2>3. /\ Store(p, SeekOnce(SeekOnce(s, off, whence, sz), off, whence, after))
        /\ IF SeekFlushes(s, off, whence) THEN Resize(s, after) ELSE UNCHANGED size
    BY <1>3, <1>5, <2>2 DEF SeekFile
  <2> QED
    BY <2>2, <2>3 DEF Store, Lookup
<1>7. CASE whence = "CUR"
  <2>1. off = 0 /\ target = s.pos
    BY <1>2, <1>4, <1>5, <1>7 DEF CTarget, Lost
  <2>2. Lookup(p)' = s
    BY <1>5, <1>6, <1>7, <2>1 DEF SeekOnce
  <2> QED
    BY <1>4, <1>5, <2>1, <2>2
<1>8. CASE whence = "SET"
  <2>1. target = 0 + off
    BY <1>2, <1>4, <1>8 DEF CTarget
  <2> QED
    BY <1>2, <1>4, <1>5, <1>6, <1>8, <2>1, SeekTwiceMoves
<1>9. CASE whence = "END"
  <2>1. size'[streams[p].file] = after
    <3>1. CASE SeekFlushes(s, off, whence)
      BY <1>5, <1>6, <3>1 DEF Resize, ApiInv, FsInv, FsTypeOK
    <3>2. CASE ~SeekFlushes(s, off, whence)
      BY <1>5, <1>6, <3>2
    <3> QED
      BY <3>1, <3>2
  <2>2. target = after + off
    BY <1>2, <1>4, <1>9, <2>1 DEF CTarget, CLength
  <2>3. SeekBase(s, whence, sz) = after
    <3>1. CASE s.mode = "out"
      BY <1>5, <1>6, <1>9, <3>1 DEF SeekFlushes, SeekBase, AtPos
    <3>2. CASE s.mode = "in"
      <4>1. s.flushed = s.pos /\ s.pos \in Nat
        BY <1>5, <3>2 DEF AtPos, Stream
      <4> QED
        BY <1>6, <1>9, <3>2, <4>1 DEF SeekFlushes, SeekBase, Flushed, Grown
    <3> QED
      BY <1>5, <3>1, <3>2
  <2> QED
    BY <1>2, <1>4, <1>5, <1>6, <1>9, <2>2, <2>3, SeekTwiceMoves
<1> QED
  BY <1>7, <1>8, <1>9

\* fsys_fread of bytes that are there.
LEMMA FreadFollows ==
  ASSUME ApiInv, FsTypeOK', AllFollow, NEW p \in DOMAIN cells,
         NEW request \in Requests, Fread(p, request[1], request[2]),
         streams'[p].at >= 0
  PROVE  AtPos(Lookup(p)', streams'[p].at)
<1>0. p \in DOMAIN streams
  BY CellTypes
<1>1. PICK n \in Nat : n = Product(request[1], request[2])
  BY ProductIsCount
<1>2. PICK at :
        at = [q \in DOMAIN streams |->
                IF streams[q].mode = "in" /\ streams[q].at + n <= CLength(q)
                THEN streams[q].at + n ELSE Lost]
  OBVIOUS
<1>3. \A q \in DOMAIN streams : at[q] \in Int
  BY <1>2, CLengthType DEF Lost
<1>4. Tracked(p, at) /\ ReadFile(p, n)
  BY <1>1, <1>2 DEF Fread
<1>5. streams'[p].at = at[p] /\ at[p] >= 0 /\ streams[p].at >= 0
  BY <1>0, <1>3, <1>4, TrackedFacts
<1>6. /\ streams[p].mode = "in" /\ at[p] = streams[p].at + n
      /\ at[p] <= size'[streams[p].file]
  BY <1>0, <1>2, <1>5 DEF CLength, Lost
<1>7. PICK s \in Stream, sz \in Int :
        /\ s = Lookup(p) /\ sz = SizeOf(s) /\ sz = size[streams[p].file]
        /\ AtPos(s, s.pos) /\ s.pos = streams[p].at
        /\ s.mode = "in"
  BY <1>5, <1>6, CellFacts
<1>8. Store(p, AfterRead(s, n, sz, s.pos)) /\ UNCHANGED size
  BY <1>4, <1>7 DEF ReadFile, Writes
<1>9. Lookup(p)' = AfterRead(s, n, sz, s.pos)
  BY <1>8 DEF Store, Lookup
<1>10. s.pos + n = at[p] /\ s.pos + n <= sz
  BY <1>6, <1>7, <1>8
<1>11. AtPos(AfterRead(s, n, sz, s.pos), s.pos + n)
  BY <1>7, <1>10, ReadMoves
<1> QED
  BY <1>5, <1>9, <1>10, <1>11

\* fsys_fwrite to a file that was opened for writing, which the host takes.
LEMMA FwriteFollows ==
  ASSUME ApiInv, FsTypeOK', AllFollow, NEW p \in DOMAIN cells,
         NEW request \in Requests, NEW given,
         Fwrite(p, request[1], request[2], given),
         streams'[p].at >= 0
  PROVE  AtPos(Lookup(p)', streams'[p].at)
<1>0. p \in DOMAIN streams
  BY CellTypes
<1>1. PICK n \in Nat : n = Product(request[1], request[2])
  BY ProductIsCount
<1>2. PICK at :
        at = [q \in DOMAIN streams |->
                IF streams[q].mode = "out" THEN streams[q].at + n ELSE Lost]
  OBVIOUS
<1>3. \A q \in DOMAIN streams : at[q] \in Int
  BY <1>2, CLengthType DEF Lost
<1>4. Tracked(p, at) /\ WriteFile(p, n, FALSE)
  BY <1>0, <1>1, <1>2, UntrackedFacts DEF Fwrite
<1>5. streams'[p].at = at[p] /\ at[p] >= 0 /\ streams[p].at >= 0
  BY <1>0, <1>3, <1>4, TrackedFacts
<1>6. streams[p].mode = "out" /\ at[p] = streams[p].at + n
  BY <1>0, <1>2, <1>5 DEF Lost
<1>7. PICK s \in Stream :
        /\ s = Lookup(p) /\ AtPos(s, s.pos) /\ s.pos = streams[p].at
        /\ s.mode = "out"
  BY <1>5, <1>6, CellFacts
<1>8. PICK upto \in s.flushed..(s.pos + n) :
        Store(p, AfterWrite(s, n, upto, FALSE))
  BY <1>4, <1>7 DEF WriteFile
<1>9. upto \in Nat
  BY <1>8 DEF Stream
<1>10. Lookup(p)' = AfterWrite(s, n, upto, FALSE)
  BY <1>8 DEF Store, Lookup
<1>11. AtPos(AfterWrite(s, n, upto, FALSE), s.pos + n)
  BY <1>7, <1>9, WriteMoves
<1> QED
  BY <1>5, <1>6, <1>7, <1>10, <1>11

\* The call on the cell itself.
LEMMA WordFollows ==
  ASSUME ApiInv, FsTypeOK', AllFollow, NEW p \in DOMAIN cells, WordCall(p),
         streams'[p].at >= 0
  PROVE  AtPos(Lookup(p)', streams'[p].at)
<1>1. p \in DOMAIN streams
  BY CellTypes
<1>2. CASE Fclose(p)
  <2>1. streams'[p].at = Gone
    BY <1>1, <1>2, FcloseFacts
  <2> QED
    BY <2>1 DEF Gone
<1>3. CASE Ftell(p)
  <2>1. UNCHANGED streams
    BY <1>3 DEF Ftell
  <2>2. AtPos(Lookup(p), streams[p].at)
    BY <2>1, CellFacts
  <2>3. Lookup(p)' = Lookup(p)
    BY <1>3 DEF Ftell, TellFile, Store, Lookup
  <2> QED
    BY <2>1, <2>2, <2>3
<1>4. ASSUME NEW off \in Offsets, NEW whence \in {"SET", "CUR", "END"},
             Fseek(p, off, whence)
      PROVE  AtPos(Lookup(p)', streams'[p].at)
  BY <1>4, FseekFollows
<1>5. ASSUME NEW request \in Requests, Fread(p, request[1], request[2])
      PROVE  AtPos(Lookup(p)', streams'[p].at)
  BY <1>5, FreadFollows
<1>6. ASSUME NEW request \in Requests, NEW given \in Bytes \cup {Junk},
             Fwrite(p, request[1], request[2], given)
      PROVE  AtPos(Lookup(p)', streams'[p].at)
  BY <1>6, FwriteFollows
<1> QED
  BY <1>2, <1>3, <1>4, <1>5, <1>6 DEF WordCall, Moves, Transfer

\* A call on one word leaves every other cell's stream, and what C says of it,
\* alone.
LEMMA OtherCells ==
  ASSUME ApiInv, FsTypeOK', NEW fd \in Words, NEW q \in DOMAIN cells, q # fd,
         WordCall(fd)
  PROVE  Lookup(q)' = Lookup(q) /\ streams'[q].at = streams[q].at
<1>1. fd \in Handles /\ HandleCall(fd)
  BY WordIsHandle, WordStep
<1>2. Lookup(q)' = Lookup(q)
  BY <1>1, HandleLookup DEF ApiInv
<1>3. SameStreams(fd) /\ q \in DOMAIN streams
  BY CellTypes, MovesOnly, FcloseFacts DEF WordCall
<1> QED
  BY <1>2, <1>3 DEF SameStreams

\* Every step keeps every open cell where C has it.
LEMMA FollowStep ==
  ASSUME ApiInv, ApiInv', AllFollow, [ApiNext]_apiVars
  PROVE  AllFollow'
<1>1. /\ cells \in Seq(Nat) /\ streams \in Seq(CStream)
      /\ Len(streams) = Len(cells) /\ Len(cells) = next_handle - 1
      /\ \A q \in DOMAIN cells : cells[q] = q
      /\ \A q \in DOMAIN cells' : cells'[q] = q
  BY DEF ApiInv, ApiTypeOK, CellsAreHandles
<1> SUFFICES ASSUME NEW q \in DOMAIN cells', streams'[q].at >= 0
             PROVE  AtPos(Lookup(q)', streams'[q].at)
  BY <1>1 DEF AllFollow, FollowsC, Lookup
<1>2. q \in DOMAIN cells /\ streams[q].at >= 0 => AtPos(Lookup(q), streams[q].at)
  BY <1>1 DEF AllFollow, FollowsC
<1>3. ASSUME NEW f \in Files, Fopen(f)
      PROVE  AtPos(Lookup(q)', streams'[q].at)
  <2>1. PICK mode \in {"in", "out"} :
          /\ Emplace(OpenedOn(f, mode))
          /\ NewCell(f, mode)
    BY <1>3 DEF Fopen, OpenForReading, OpenForWriting
  <2>2. PICK n \in Nat \ {0} : n = next_handle
    BY DEF ApiInv, FsInv, FsTypeOK
  <2>3. PICK s \in Stream : s = OpenedOn(f, mode)
    BY OpenedStream
  <2>4. /\ n \notin guessed => open_files'[n] = s
        /\ DOMAIN open_files' = DOMAIN open_files \cup {n}
        /\ \A g \in DOMAIN open_files : open_files'[g] = open_files[g]
    BY <2>1, <2>2, <2>3, EmplaceFacts, HandleIsNew DEF ApiInv
  <2>5. PICK st : st = [file |-> f, mode |-> mode,
                        at |-> IF n \in guessed THEN Lost ELSE 0]
    OBVIOUS
  <2>6. st \in CStream /\ (st.at >= 0 => st.at = 0 /\ n \notin guessed)
    BY <2>5 DEF CStream, Lost
  <2>7. cells' = Append(cells, n) /\ streams' = Append(streams, st)
    BY <2>1, <2>2, <2>5 DEF NewCell
  <2>8. CASE q = n
    <3>1. streams'[q] = st
      BY <1>1, <2>2, <2>6, <2>7, <2>8
    <3>2. st.at = 0 /\ n \notin guessed
      BY <2>6, <3>1
    <3>3. Lookup(q)' = s
      BY <2>4, <2>8, <3>2 DEF Lookup
    <3>4. s.pos = 0 /\ s.flushed = 0 /\ s.fail = FALSE /\ s.mode = mode
      BY <2>3 DEF OpenedOn, Closed
    <3>5. ~s.fail
      BY <3>4, Zenon
    <3> QED
      BY <3>1, <3>2, <3>3, <3>4, <3>5 DEF AtPos
  <2>9. CASE q # n
    <3>1. q \in DOMAIN cells /\ streams'[q] = streams[q]
      BY <1>1, <2>2, <2>6, <2>7, <2>9
    <3>2. Lookup(q)' = Lookup(q)
      BY <2>4, <2>9 DEF Lookup
    <3> QED
      BY <1>2, <3>1, <3>2
  <2> QED
    BY <2>8, <2>9
<1>4. CASE FopenRefused \/ FopenUnreadable \/ UNCHANGED apiVars
  <2>1. UNCHANGED <<open_files, cells, streams>>
    BY <1>4 DEF FopenRefused, FopenUnreadable, apiVars, fsVars
  <2>2. Lookup(q)' = Lookup(q)
    BY <2>1 DEF Lookup
  <2> QED
    BY <1>2, <2>1, <2>2
<1>5. ASSUME NEW fd \in Words, WordCall(fd)
      PROVE  AtPos(Lookup(q)', streams'[q].at)
  <2>1. FsTypeOK' /\ q \in DOMAIN cells
    BY <1>5, WordStep DEF ApiInv, FsInv
  <2>2. CASE q = fd
    BY <1>5, <2>1, <2>2, WordFollows
  <2>3. CASE q # fd
    BY <1>2, <1>5, <2>1, <2>3, OtherCells
  <2> QED
    BY <2>2, <2>3
<1> QED
  BY <1>3, <1>4, <1>5 DEF ApiNext, WordCall, Moves, Transfer

\* As long as the guest reads what is there, writes where it may and the host
\* takes it, and seeks from the start or the end, each of its files is where
\* C's stdio would have it, with any number of streams on the same file.
THEOREM PositionsAreC == ApiSpec => []PositionAsInC
<1>1. ApiInit => AllFollow
  BY DEF ApiInit, AllFollow
<1>2. ApiInv /\ AllFollow => PositionAsInC
  <2> SUFFICES ASSUME ApiInv, AllFollow, NEW q \in DOMAIN cells,
                      streams[q].at >= 0
               PROVE  TellG(Lookup(cells[q])) = streams[q].at
    BY DEF PositionAsInC
  <2>1. AtPos(Lookup(cells[q]), streams[q].at)
    BY DEF AllFollow, FollowsC
  <2> QED
    BY <2>1 DEF AtPos, TellG
<1>3. ApiInv /\ ApiInv' /\ AllFollow /\ [ApiNext]_apiVars => AllFollow'
  BY FollowStep
<1> QED
  BY <1>1, <1>2, <1>3, ApiInvariance, PTL DEF ApiSpec

=============================================================================
