---------------------------- MODULE PanicReport ----------------------------
(***************************************************************************)
(* A panic of the guest, from ccos_panic_at to the stopped engine: the     *)
(* message goes through the guest's own buffered console, the SVC panic    *)
(* then prints a stack trace on the host and stops the engine.  The next   *)
(* ccdl_run_frame resumes the guest behind it (see PanicNeverReturns in    *)
(* LibretroCore), which may print and panic again.                         *)
(***************************************************************************)
EXTENDS Console, StackWalk

CONSTANTS
  Messages,     \* what applications and miniSYS print
  PanicMessage  \* what ccos_panic_at prints

ASSUME PanicAssumption ==
  /\ Messages \subseteq Seq(Chars)
  /\ PanicMessage \in Seq(Chars) /\ PanicMessage # <<>>
  /\ PanicMessage[Len(PanicMessage)] = NL

VARIABLES
  at            \* "guest", "panicking", "walking" or "stopped"

vars == <<consoleVars, walkVars, at>>

Init == ConsoleInit /\ WalkInit /\ at = "guest"

\* printf in the application, ccos_diag_at, and the traces of the stubs.
GuestPrints(message) ==
  /\ at = "guest"
  /\ Printf(message)
  /\ UNCHANGED <<walkVars, at>>

CcosPanicAt ==
  /\ at = "guest"
  /\ Printf(PanicMessage)
  /\ at' = "panicking"
  /\ UNCHANGED walkVars

\* The library at work, in either of them.
Printing ==
  /\ at \in {"guest", "panicking"}
  /\ LibraryRuns
  /\ UNCHANGED <<walkVars, at>>

\* GemeiEmu_panic, when printf has returned.
PanicSvc ==
  /\ at = "panicking" /\ Quiet
  /\ \E s \in Stack : WalkStarts(s.pc, s.lr, s.sp, s.mem)
  /\ at' = "walking"
  /\ UNCHANGED consoleVars

Walking ==
  /\ at = "walking"
  /\ Walk
  /\ UNCHANGED <<consoleVars, at>>

\* uc_emu_stop.
EmuStops ==
  /\ at = "walking" /\ done
  /\ at' = "stopped"
  /\ UNCHANGED <<consoleVars, walkVars>>

\* What the walk has left is gone.
Resumed ==
  /\ at = "stopped"
  /\ at' = "guest"
  /\ stack' = <<>> /\ sp' = 0 /\ i' = 0 /\ report' = <<>> /\ UNCHANGED done
  /\ UNCHANGED consoleVars

Next ==
  \/ \E message \in Messages : GuestPrints(message)
  \/ CcosPanicAt
  \/ Printing
  \/ PanicSvc
  \/ Walking
  \/ EmuStops
  \/ Resumed

Spec == Init /\ [][Next]_vars

\* The library, miniSYS and the handler are straight-line code; nothing
\* forces the guest to print or panic, or the frontend to resume it.
FairSpec == Spec /\ WF_vars(Printing \/ PanicSvc \/ Walking \/ EmuStops)

-----------------------------------------------------------------------------
\* The console and the walk keep their types.
PanicTypeOK ==
  /\ ConsoleTypeOK /\ WalkTypeOK
  /\ at \in {"guest", "panicking", "walking", "stopped"}

\* What is left of a panic: the library takes a character, passes it on, and
\* may have to return from _write for each; then the words of the stack.
PrintWork == 3 * Len(todo) + Len(Waiting) + (IF Writing THEN 1 ELSE 0)

PanicWork ==
  CASE at = "panicking" -> PrintWork + WalkLimit + 3
    [] at = "walking"   -> WalkLimit - i + (IF done THEN 1 ELSE 2)
    [] OTHER            -> 0

\* A panic takes no more steps than that: each step from ccos_panic_at to
\* the stopped engine leaves less to do, also when the stack wraps around the
\* end of the address space and no word of it is unmapped.
PanicWorkFalls ==
  [][(at = "panicking" \/ at = "walking") =>
       PanicWork \in Nat /\ PanicWork' < PanicWork]_vars

\* Every panic is seen: the engine stops with the message, and all that was
\* printed before it, out of the guest, and with a complete stack trace.
PanicIsReported ==
  at = "panicking" ~>
    (at = "stopped" /\ done /\ stack # <<>> /\ log = printed)

=============================================================================
