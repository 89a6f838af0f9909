------------------------------ MODULE Fstream ------------------------------
(***************************************************************************)
(* std::fstream, as src/filesystem.cpp uses it (an external library; the   *)
(* code is modelled from the standard and from libstdc++).  Contents are   *)
(* abstracted to lengths: a stream is a position in a file, and one file   *)
(* position serves reading and writing alike.                              *)
(*                                                                         *)
(* `fail' stands for failbit or badbit.  The eofbit is never set without   *)
(* failbit by the one reading call of the code, istream::read, and nothing *)
(* in the code ever clears failbit.                                        *)
(***************************************************************************)
EXTENDS Integers

CONSTANTS
  Files,        \* host files, by their sanitized names
  NoFile        \* the file of a stream that was never opened

ASSUME FstreamAssumption == NoFile \notin Files

Modes == {"closed", "in", "out"}

\* `flushed' is the position up to which the bytes written since the last
\* seek have reached the host file.
Stream == [mode : Modes, file : Files \cup {NoFile},
           pos : Nat, flushed : Nat, fail : BOOLEAN]

\* A default-constructed stream: good, but connected to nothing.
Closed == [mode |-> "closed", file |-> NoFile, pos |-> 0, flushed |-> 0,
           fail |-> FALSE]

OpenedOn(f, mode) == [Closed EXCEPT !.mode = mode, !.file = f]

Larger(a, b)  == IF a >= b THEN a ELSE b
Smaller(a, b) == IF a <= b THEN a ELSE b

(***************************************************************************)
(* Writing s's buffer out: all of it reaches the host file, or, when the   *)
(* host refuses (its disk is full, say), some first part of it.  The       *)
(* library keeps a buffer that was refused, and the only call that tries   *)
(* it again is the one that closes the stream: from where the first        *)
(* attempt has ended, so that the file may get longer than was written.    *)
(***************************************************************************)
Reaches(s) == s.flushed..(IF s.fail THEN 2 * s.pos - s.flushed ELSE s.pos)

\* The length of s's host file once its bytes are out up to `upto'.
Grown(s, size, upto) == IF s.flushed < upto THEN Larger(size, upto) ELSE size

Flushed(s, size) == Grown(s, size, s.pos)

-----------------------------------------------------------------------------
\* read(n): how many bytes arrive, and the stream afterwards.  An attempt to
\* read more than there is fails the stream.  A stream that was being written
\* is written out first, up to `upto'.
Readable(s, size) ==
  IF s.fail \/ s.mode # "in" THEN 0 ELSE Larger(size - s.pos, 0)

GCount(s, n, size) == Smaller(n, Readable(s, size))

AfterRead(s, n, size, upto) ==
  LET got == GCount(s, n, size)
  IN [s EXCEPT !.pos = @ + got,
               !.flushed = IF s.fail \/ upto < s.pos THEN @ ELSE s.pos + got,
               !.fail = @ \/ got < n]

\* write(n): the stream afterwards, when its buffer is written out to `upto';
\* it fails when the host refuses.
Writes(s) == ~s.fail /\ s.mode = "out"

AfterWrite(s, n, upto, refused) ==
  IF Writes(s)
  THEN [s EXCEPT !.pos = @ + n,
                 !.flushed = IF refused THEN @ ELSE upto,
                 !.fail = refused]
  ELSE [s EXCEPT !.fail = @ \/ n > 0]

\* seekg or seekp, they are the same to a file buffer: nothing on a failed
\* stream; the buffer is written out; a target before the start of the file
\* fails the stream.
SeekBase(s, whence, size) ==
  CASE whence = "SET" -> 0
    [] whence = "CUR" -> s.pos
    [] whence = "END" -> Flushed(s, size)

SeekOnce(s, off, whence, size) ==
  LET target == SeekBase(s, whence, size) + off
  IN IF s.fail THEN s
     ELSE IF s.mode = "closed" THEN [s EXCEPT !.fail = TRUE]
     ELSE IF whence = "CUR" /\ off = 0 THEN s
     ELSE IF target < 0 THEN [s EXCEPT !.flushed = s.pos, !.fail = TRUE]
     ELSE [s EXCEPT !.pos = target, !.flushed = target]

\* Whether that seek writes the buffer out.
SeekFlushes(s, off, whence) ==
  ~s.fail /\ s.mode = "out" /\ ~(whence = "CUR" /\ off = 0)

TellG(s) == IF s.fail \/ s.mode = "closed" THEN -1 ELSE s.pos

=============================================================================
