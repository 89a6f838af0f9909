------------------------------- MODULE Loader -------------------------------
(***************************************************************************)
(* How miniSYS loads an application: _start of minisys/minisys.c and       *)
(* ccdl_from_memory and dl_get_proc of libccos/src/dl.c.  The CCDL file is *)
(* in guest memory; its code is copied to where it runs, each import is    *)
(* linked by writing a jump over two words of the copy, the entry point of *)
(* the application is called, and only then is the DL_t filled in, in      *)
(* which AppMain, and whatever the application itself asks for, is looked  *)
(* up.                                                                     *)
(*                                                                         *)
(* Memory is counted in words.  A loop over the sections that stops at the *)
(* first one of a type is one step; the loop over the imports is one step  *)
(* for each, because each can panic.                                       *)
(***************************************************************************)
EXTENDS CcdlFile

CONSTANT Files  \* the CCDL files considered

\* The files are well formed: code goes to memory, each import has two words
\* of memory for its own.
ASSUME LoaderAssumption ==
  /\ "AppMain" \in Names /\ Builtins \subseteq Names
  /\ Words \subseteq Nat
  /\ Files \subseteq File
  /\ \A f \in Files :
       LET imports == EntriesOf(f.sections, "import")
       IN /\ \A k \in DOMAIN imports : Slot(imports[k]) \subseteq Words
          /\ \A j, k \in DOMAIN imports :
               j # k => Slot(imports[j]) \cap Slot(imports[k]) = {}

VARIABLES
  file,         \* the file at APP_LOAD_ADDRESS
  at,           \* where miniSYS or the application is
  shdr_code,    \* the section whose header was read last, before the imports
  import,       \* the import to be linked next
  mem,          \* word |-> what is there
  my_dl,        \* the sections my_dl knows of: none before it is filled in
  entry,        \* what it has called as the entry point
  main,         \* what miniSYS has found for AppMain
  asked         \* the last dl_get_proc of the application

vars == <<file, at, shdr_code, import, mem, my_dl, entry, main, asked>>

Imports == EntriesOf(file.sections, "import")
Exports == EntriesOf(file.sections, "export")

-----------------------------------------------------------------------------
Hits(sections, n) ==
  LET exports == EntriesOf(sections, "export")
  IN {k \in DOMAIN exports : exports[k].name = n}

Least(S) == CHOOSE k \in S : \A j \in S : k <= j

\* The application's exports come first.
dl_get_proc(sections, n) ==
  IF Hits(sections, n) = {} THEN ccos_get_builtin_proc(n)
  ELSE AppProc(EntriesOf(sections, "export")[Least(Hits(sections, n))].address)

Unasked == [name |-> "AppMain", proc |-> NoProc, from |-> "none"]

Init ==
  /\ file \in Files
  /\ at = "header"
  /\ shdr_code = 0
  /\ import = 1
  /\ mem = [a \in Words |-> Nothing]
  /\ my_dl = <<>>
  /\ entry = NoProc
  /\ main = NoProc
  /\ asked = Unasked

-----------------------------------------------------------------------------
(***************************************************************************)
(* ccdl_from_memory.  Its error results make _start panic.  That the       *)
(* emulator lets the guest go on behind a panic is modelled in Ccdl.tla;   *)
(* here it is the end.                                                     *)
(***************************************************************************)
Panic == at' = "panicked"

CheckHeader ==
  /\ at = "header"
  /\ IF file.valid THEN at' = "image" ELSE Panic
  /\ UNCHANGED <<file, shdr_code, import, mem, my_dl, entry, main, asked>>

\* Mutant: the loop reads on behind the code it has found.
CopyImageReadsOn ==
  LET k    == FirstSection(file.sections, "code")
      code == file.sections[k]
  IN /\ at = "image"
     /\ shdr_code' = Len(file.sections)
     /\ IF k = 0 THEN Panic /\ UNCHANGED mem
        ELSE /\ mem' = [a \in Words |->
                          IF a \in CodeWords(code)
                          THEN ImageWord(a - code.load) ELSE mem[a]]
             /\ at' = "link"
     /\ UNCHANGED <<file, import, my_dl, entry, main, asked>>

\* The loop reads each header into shdr_code, until it has the code's.
CopyImage ==
  LET k    == FirstSection(file.sections, "code")
      code == file.sections[k]
  IN /\ at = "image"
     /\ shdr_code' = IF k = 0 THEN Len(file.sections) ELSE k
     /\ IF k = 0 THEN Panic /\ UNCHANGED mem
        ELSE /\ mem' = [a \in Words |->
                          IF a \in CodeWords(code)
                          THEN ImageWord(a - code.load) ELSE mem[a]]
             /\ at' = "link"
     /\ UNCHANGED <<file, import, my_dl, entry, main, asked>>

\* Mutants: the first word is not written; the loop does not go on.
LinkImportHalf ==
  LET e == Imports[import]
  IN /\ at = "link" /\ import <= Len(Imports)
     /\ e.name \in Builtins
     /\ mem' = [mem EXCEPT ![e.address + 1] = Pointer(e.name)]
     /\ import' = import + 1
     /\ UNCHANGED <<file, at, shdr_code, my_dl, entry, main, asked>>

LinkImportAgain ==
  LET e == Imports[import]
  IN /\ at = "link" /\ import <= Len(Imports)
     /\ e.name \in Builtins
     /\ mem' = [mem EXCEPT ![e.address] = Ldr, ![e.address + 1] = Pointer(e.name)]
     /\ UNCHANGED <<file, at, shdr_code, import, my_dl, entry, main, asked>>

LinkImport ==
  LET e == Imports[import]
  IN /\ at = "link" /\ import <= Len(Imports)
     /\ e.name \in Builtins
     /\ mem' = [mem EXCEPT ![e.address] = Ldr, ![e.address + 1] = Pointer(e.name)]
     /\ import' = import + 1
     /\ UNCHANGED <<file, at, shdr_code, my_dl, entry, main, asked>>

\* Mutant: an import that is not found becomes a null pointer.
LinkFailsNull ==
  /\ at = "link" /\ import <= Len(Imports)
  /\ Imports[import].name \notin Builtins
  /\ mem' = [mem EXCEPT ![Imports[import].address + 1] = NoProc]
  /\ import' = import + 1
  /\ UNCHANGED <<file, at, shdr_code, my_dl, entry, main, asked>>

LinkFails ==
  /\ at = "link" /\ import <= Len(Imports)
  /\ Imports[import].name \notin Builtins
  /\ Panic
  /\ UNCHANGED <<file, shdr_code, import, mem, my_dl, entry, main, asked>>

\* The entry point is that of the header in shdr_code.
CallEntryPoint ==
  /\ at = "link" /\ import = Len(Imports) + 1
  /\ at' = "entry"
  /\ entry' = AppProc(file.sections[shdr_code].entry)
  /\ UNCHANGED <<file, shdr_code, import, mem, my_dl, main, asked>>

\* The entry point returns; dl_out is filled in.
EntryPointReturns ==
  /\ at = "entry"
  /\ my_dl' = file.sections
  /\ at' = "lookup"
  /\ UNCHANGED <<file, shdr_code, import, mem, entry, main, asked>>

\* _start looks up AppMain and calls it.
CallAppMain ==
  /\ at = "lookup"
  /\ main' = dl_get_proc(my_dl, "AppMain")
  /\ IF main' = NoProc THEN Panic ELSE at' = "main"
  /\ UNCHANGED <<file, shdr_code, import, mem, my_dl, entry, asked>>

\* AppMain returns, and _start with it.
AppMainReturns ==
  /\ at = "main"
  /\ at' = "done"
  /\ UNCHANGED <<file, shdr_code, import, mem, my_dl, entry, main, asked>>

\* The application, in its entry point already or in AppMain, asks for a
\* function through the DL_t that GetDLHandle gives it.
AppGetsProc(n) ==
  /\ at \in {"entry", "main"}
  /\ asked' = [name |-> n, proc |-> dl_get_proc(my_dl, n), from |-> at]
  /\ IF asked'.proc = NoProc THEN Panic ELSE UNCHANGED at
  /\ UNCHANGED <<file, shdr_code, import, mem, my_dl, entry, main>>

Loading == CheckHeader \/ CopyImage \/ LinkImport \/ LinkFails \/ CallEntryPoint

Next ==
  \/ Loading
  \/ EntryPointReturns
  \/ CallAppMain
  \/ AppMainReturns
  \/ \E n \in Names : AppGetsProc(n)

Spec == Init /\ [][Next]_vars

\* miniSYS runs; the application may take forever.
FairSpec == Spec /\ WF_vars(Loading) /\ WF_vars(CallAppMain)

-----------------------------------------------------------------------------
(***************************************************************************)
(* Properties.                                                             *)
(***************************************************************************)

Contents == {Nothing, Ldr} \cup ({"image"} \X Nat) \cup ({"pointer"} \X Names)

Procs == {NoProc} \cup ({"app"} \X Nat) \cup ({"sys"} \X Names)

\* The variables of the loader keep their types.
LoaderTypeOK ==
  /\ file \in Files
  /\ at \in {"header", "image", "link", "entry", "lookup", "main", "done", "panicked"}
  /\ shdr_code \in 0..Len(file.sections)
  /\ import \in 1..(Len(Imports) + 1)
  /\ mem \in [Words -> Contents]
  /\ my_dl \in {<<>>, file.sections}
  /\ entry \in Procs /\ main \in Procs
  /\ asked \in [name : Names, proc : Procs, from : {"none", "entry", "main"}]

\* The application is running or has run.
Entered == at \in {"entry", "lookup", "main", "done"}

IsLinked(e) == mem[e.address] = Ldr /\ mem[e.address + 1] = Pointer(e.name)

\* Before the first instruction of the application runs, each of its imports
\* jumps to the built-in function of its name: no import that came later has
\* overwritten it, and the image was in place before the jumps were.
ImportsLinked ==
  Entered => \A k \in DOMAIN Imports :
               IsLinked(Imports[k]) /\ Imports[k].name \in Builtins

\* Linking changes nothing of the code but the two words of each import: the
\* application starts in the image its file has in its first code section.
ImageIntact ==
  Entered =>
    LET k    == FirstSection(file.sections, "code")
        code == file.sections[k]
    IN /\ k # 0
       /\ \A a \in Words \cap CodeWords(code) :
            \/ \E j \in DOMAIN Imports : a \in Slot(Imports[j])
            \/ mem[a] = ImageWord(a - code.load)

\* What miniSYS calls as AppMain is a function the application exports under
\* that name, when miniSYS has none of the name itself.
MainIsOwn ==
  at \in {"main", "done"} /\ "AppMain" \notin Builtins =>
    \E k \in DOMAIN Exports :
      Exports[k].name = "AppMain" /\ main = AppProc(Exports[k].address)

\* In AppMain, the application finds its own functions before built-in ones
\* of the same name.  In its entry point it does not: my_dl is still empty.
OwnNamesFirst ==
  asked.from = "main" =>
    \A k \in DOMAIN Exports : Exports[k].name = asked.name =>
      \E j \in DOMAIN Exports :
        Exports[j].name = asked.name /\ asked.proc = AppProc(Exports[j].address)

Known(n) == n \in Builtins \/ \E k \in DOMAIN Exports : Exports[k].name = n

\* miniSYS panics only over a file that is not valid, has no code, imports
\* what there is not or has no AppMain, or when the application asks for a
\* function that there is not, or for its own one in its entry point.
NoNeedlessPanic ==
  at = "panicked" =>
    \/ ~file.valid
    \/ FirstSection(file.sections, "code") = 0
    \/ \E k \in DOMAIN Imports : Imports[k].name \notin Builtins
    \/ ~Known("AppMain")
    \/ asked.proc = NoProc /\ asked.from = "main" /\ ~Known(asked.name)
    \/ asked.proc = NoProc /\ asked.from = "entry" /\ asked.name \notin Builtins

\* What is left of a load: a step for each import, and those around them.
LoadWork ==
  CASE at = "header" -> Len(Imports) + 4
    [] at = "image"  -> Len(Imports) + 3
    [] at = "link"   -> Len(Imports) + 2 - import
    [] OTHER         -> 0

\* A load takes no more steps than that, however many imports there are: each
\* step until the application is entered, or miniSYS panics, leaves less.
LoadWorkFalls ==
  [][(at = "header" \/ at = "image" \/ at = "link") =>
       LoadWork \in Nat /\ LoadWork' < LoadWork]_vars

(***************************************************************************)
(* The promise.  While miniSYS loads, and when it has panicked, there is   *)
(* no application.                                                         *)
(***************************************************************************)
Stage == IF at \in {"header", "image", "link"} THEN "loading" ELSE at

Life == INSTANCE AppLife WITH stage <- Stage,
                              image <- IF Entered THEN mem ELSE <<>>

\* The loader's steps amount to one: an application runs completely linked
\* or not at all, it starts where the header of its code says, a file is
\* refused exactly for what is wrong with it, and what the application asks for is answered as promised, before and after
\* my_dl is filled in.
ImplementsAppLife == Life!Spec

\* Every load ends in the application or in a panic.
LoadEnds == <>(at \in {"entry", "panicked"})

=============================================================================
