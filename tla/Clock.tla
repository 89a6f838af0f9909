------------------------------- MODULE Clock -------------------------------
(***************************************************************************)
(* The guest's time: OSTimeGet, OSTimeDly and the SVC handlers getTimeMs   *)
(* and sleepMs.  The time is clock(), what the host process has used of    *)
(* its processors, in milliseconds and cut to a register; sleeping takes   *)
(* none of it.                                                             *)
(*                                                                         *)
(* Only the ticks modulo the range of the register show, so that is how    *)
(* they are kept: time goes on forever here.  The answer is computed in a  *)
(* clock_t, which holds clock() * 1000 for Room ticks of the process:      *)
(* some hundred years where it has 64 bits, 36 minutes where it has 32, as *)
(* in a build with MSVC.  From then on the signed product overflows and an *)
(* answer is any word.                                                     *)
(***************************************************************************)
EXTENDS Integers

CONSTANTS
  TicksPerMs,   \* CLOCKS_PER_SEC / 1000
  TimeWord,     \* the number of values of a register, 2^32
  Room,         \* the ticks for which clock() * 1000 fits a clock_t
  MaxWork       \* bound: ticks the process uses between two steps

ASSUME ClockAssumption ==
  /\ TicksPerMs \in Nat \ {0} /\ TimeWord \in Nat \ {0}
  /\ Room \in Nat /\ MaxWork \in Nat \ {0}

VARIABLES
  ticks,        \* clock(), modulo Turn
  left,         \* ticks until clock() * 1000 no longer fits
  time,         \* the last answer to OSTimeGet
  gone          \* ticks since that answer, Turn when it is that long or longer

clockVars == <<ticks, left, time, gone>>

\* The ticks after which the answers repeat.
Turn == TicksPerMs * TimeWord

\* The core is loaded when the process has run for whatever time.
ClockInit ==
  /\ left \in 0..Room
  /\ ticks \in 0..(Turn - 1)
  /\ left > 0 => ticks = (Room - left) % Turn
  /\ time = 0
  /\ gone = Turn

\* The process runs: in the guest, in a handler, in the frontend.
Work ==
  \E n \in 1..MaxWork :
    /\ ticks' = (ticks + n) % Turn
    /\ left' = IF n >= left THEN 0 ELSE left - n
    /\ gone' = IF gone + n >= Turn THEN Turn ELSE gone + n
    /\ UNCHANGED time

\* Mutant: what is cut to the register is not divided.
NowInTicks == ticks % TimeWord

\* clock() * 1000 / CLOCKS_PER_SEC, in a uint32_t.
Now == (ticks \div TicksPerMs) % TimeWord

OSTimeGet ==
  /\ time' \in IF left > 0 THEN {Now} ELSE 0..(TimeWord - 1)
  /\ gone' = 0
  /\ UNCHANGED <<ticks, left>>

\* OSTimeDly: the thread sleeps, for whatever time.
OSTimeDly == UNCHANGED clockVars

-----------------------------------------------------------------------------
\* The answer fits the register.
ClockTypeOK ==
  /\ ticks \in 0..(Turn - 1)
  /\ left \in 0..Room
  /\ time \in 0..(TimeWord - 1)
  /\ gone \in 0..Turn

\* What a guest takes for the time between two calls of OSTimeGet is the
\* processor time between them, right to one millisecond, wherever the
\* register has wrapped, unless it is longer than the register can hold, as
\* long as clock_t holds what the milliseconds are computed from.
ElapsedIsTrue ==
  [][gone' = 0 /\ gone < Turn /\ left > 0 =>
       LET elapsed == (time' - time) % TimeWord
       IN \/ elapsed = gone \div TicksPerMs
          \/ elapsed = (gone \div TicksPerMs + 1) % TimeWord]_clockVars

=============================================================================
