------------------------------ MODULE AppLife ------------------------------
(***************************************************************************)
(* What miniSYS promises an application, with nothing said of how: it is   *)
(* loaded at once and completely, or refused for a reason that its file    *)
(* gives; it starts where the header of its code says, then its AppMain    *)
(* runs, and neither comes back when it is over; and what it asks for is   *)
(* what it exports under the name, or what is built in.  Loader.tla        *)
(* implements this specification.                                          *)
(***************************************************************************)
EXTENDS CcdlFile

CONSTANT Files  \* the CCDL files considered

VARIABLES
  file,         \* the application's file
  stage,        \* "loading", "entry", "lookup", "main", "done" or "panicked"
  image,        \* the memory it runs in, <<>> while it does not
  entry,        \* the function called as its entry point
  main,         \* the function called as its AppMain
  asked         \* what it has last asked for

vars == <<file, stage, image, entry, main, asked>>

Imports == EntriesOf(file.sections, "import")
Exports == EntriesOf(file.sections, "export")
Code    == FirstSection(file.sections, "code")

Init ==
  /\ file \in Files
  /\ stage = "loading"
  /\ image = <<>>
  /\ entry = NoProc
  /\ main = NoProc
  /\ asked = [name |-> "AppMain", proc |-> NoProc, from |-> "none"]

Loadable ==
  /\ file.valid
  /\ Code # 0
  /\ \A k \in DOMAIN Imports : Imports[k].name \in Builtins

\* Every import jumps to its function; all else is the code, or as it was.
Linked(m) ==
  /\ DOMAIN m = Words
  /\ \A k \in DOMAIN Imports :
       /\ m[Imports[k].address] = Ldr
       /\ m[Imports[k].address + 1] = Pointer(Imports[k].name)
  /\ \A a \in Words : (\A k \in DOMAIN Imports : a \notin Slot(Imports[k])) =>
       LET code == file.sections[Code]
       IN m[a] = IF a \in CodeWords(code) THEN ImageWord(a - code.load) ELSE Nothing

Panics == stage' = "panicked" /\ image' = <<>>

Load ==
  /\ stage = "loading" /\ Loadable
  /\ stage' = "entry" /\ Linked(image')
  /\ entry' = AppProc(file.sections[Code].entry)
  /\ UNCHANGED <<file, main, asked>>

Refuse ==
  /\ stage = "loading" /\ ~Loadable
  /\ Panics
  /\ UNCHANGED <<file, entry, main, asked>>

EntryReturns ==
  /\ stage = "entry" /\ stage' = "lookup"
  /\ UNCHANGED <<file, image, entry, main, asked>>

\* A function the application exports under the name, one that is built in
\* under it if there is none, or no function.
Answers(proc, n) ==
  IF \E k \in DOMAIN Exports : Exports[k].name = n
  THEN \E k \in DOMAIN Exports :
         Exports[k].name = n /\ proc = AppProc(Exports[k].address)
  ELSE proc = ccos_get_builtin_proc(n)

CallMain ==
  /\ stage = "lookup"
  /\ Answers(main', "AppMain")
  /\ IF main' = NoProc THEN Panics ELSE stage' = "main" /\ UNCHANGED image
  /\ UNCHANGED <<file, entry, asked>>

MainReturns ==
  /\ stage = "main" /\ stage' = "done"
  /\ UNCHANGED <<file, image, entry, main, asked>>

\* Before its entry point has returned, an application has no exports yet.
Ask(n) ==
  /\ stage \in {"entry", "main"}
  /\ asked'.name = n /\ asked'.from = stage
  /\ IF stage = "main" THEN Answers(asked'.proc, n)
                       ELSE asked'.proc = ccos_get_builtin_proc(n)
  /\ IF asked'.proc = NoProc THEN Panics ELSE UNCHANGED <<stage, image>>
  /\ UNCHANGED <<file, entry, main>>

Next ==
  \/ Load \/ Refuse \/ EntryReturns \/ CallMain \/ MainReturns
  \/ \E n \in Names : Ask(n)

Spec == Init /\ [][Next]_vars

=============================================================================
