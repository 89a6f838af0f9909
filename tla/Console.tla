------------------------------ MODULE Console ------------------------------
(***************************************************************************)
(* What the guest prints on its way to the host: printf of the C library   *)
(* (external, newlib), the _fstat, _isatty and _write of                   *)
(* minisys/syscalls.c it rests on, and the SVC putc, one per character.    *)
(*                                                                         *)
(* The library asks _fstat and _isatty at the first print and decides how  *)
(* to buffer: a terminal by lines, anything else by full buffers.  The     *)
(* size of its buffer is st_blksize, which _fstat leaves uninitialised, or *)
(* a default; when there is no memory for it, 1.                           *)
(***************************************************************************)
EXTENDS Integers, Sequences

CONSTANTS
  Chars,        \* characters, by what they are part of
  NL,           \* the end of a line
  Capacities,   \* sizes the library's buffer can come to have
  MaxPrinted    \* bound: characters printed

ASSUME ConsoleAssumption ==
  /\ NL \in Chars
  /\ Capacities \subseteq Nat \ {0}
  /\ MaxPrinted \in Nat

VARIABLES
  capacity,     \* of the library's buffer, 0 before the first print
  stdout,       \* the characters in the buffer
  DataIdx,      \* how many of them _write has passed on, -1 outside of it
  todo,         \* what the printf in progress has still to put there
  printed,      \* all that was ever printed
  log           \* what has reached the host's stdout

consoleVars == <<capacity, stdout, DataIdx, todo, printed, log>>

ConsoleInit ==
  /\ capacity = 0
  /\ stdout = <<>> /\ DataIdx = -1
  /\ todo = <<>>
  /\ printed = <<>> /\ log = <<>>

-----------------------------------------------------------------------------
_fstat == "S_IFCHR"

\* Mutant: standard output is not a terminal.
_isatty_no == 0

_isatty == 1

LineBuffered == _fstat = "S_IFCHR" /\ _isatty = 1

Writing == DataIdx # -1

\* printf has returned.
Quiet == todo = <<>> /\ ~Writing

Printf(message) ==
  /\ Quiet
  /\ Len(printed) + Len(message) <= MaxPrinted
  /\ todo' = message
  /\ printed' = printed \o message
  /\ capacity' \in IF capacity = 0 THEN Capacities ELSE {capacity}
  /\ UNCHANGED <<stdout, DataIdx, log>>

\* The library takes a character into its buffer, and calls _write when that
\* is full or, for a terminal, when the line has ended.
TakeChar ==
  /\ todo # <<>> /\ ~Writing
  /\ stdout' = Append(stdout, Head(todo))
  /\ todo' = Tail(todo)
  /\ DataIdx' = IF \/ Len(stdout') = capacity
                   \/ LineBuffered /\ Head(todo) = NL
                THEN 0 ELSE -1
  /\ UNCHANGED <<capacity, printed, log>>

\* One turn of _write's loop, with the SVC putc.
Putc ==
  /\ Writing /\ DataIdx < Len(stdout)
  /\ log' = Append(log, stdout[DataIdx + 1])
  /\ DataIdx' = DataIdx + 1
  /\ UNCHANGED <<capacity, stdout, todo, printed>>

\* _write returns len, and the library empties its buffer.
WriteReturns ==
  /\ Writing /\ DataIdx = Len(stdout)
  /\ stdout' = <<>> /\ DataIdx' = -1
  /\ UNCHANGED <<capacity, todo, printed, log>>

LibraryRuns == TakeChar \/ Putc \/ WriteReturns

-----------------------------------------------------------------------------
\* No character is in the buffer beyond its capacity, none passed on twice.
ConsoleTypeOK ==
  /\ capacity \in Capacities \cup {0}
  /\ stdout \in Seq(Chars) /\ Len(stdout) <= capacity
  /\ DataIdx \in -1..Len(stdout)
  /\ todo \in Seq(Chars) /\ printed \in Seq(Chars) /\ log \in Seq(Chars)

\* The characters of the buffer that are not passed on yet.
Waiting == IF Writing THEN SubSeq(stdout, DataIdx + 1, Len(stdout)) ELSE stdout

\* Nothing that was printed is lost, repeated or overtaken on its way, for
\* every size of the buffer; and when printf has returned, at most a line
\* that has not ended is still in the guest, so that a message that ends its
\* line is seen even if the guest never prints again.
LinesAreOut ==
  /\ log \o Waiting \o todo = printed
  /\ Quiet => \A i \in DOMAIN stdout : stdout[i] # NL

=============================================================================
