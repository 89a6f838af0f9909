------------------------------- MODULE Thunks -------------------------------
(***************************************************************************)
(* How a call of the application reaches the emulator.  At build time      *)
(* make-thunks.py walks over the rows of api.csv three times: it numbers   *)
(* the SVCs and emits the miniSYS functions, emits svc_handler_table for   *)
(* the emulator, and emits os_function_table for miniSYS.  At run time     *)
(* ccos_get_builtin_proc searches os_function_table for each import of the *)
(* application, a call of an EMU function executes its SVC instruction and *)
(* hook_intr indexes svc_handler_table with the number in it.  The three   *)
(* walks and the two tables have to agree on every row.                    *)
(***************************************************************************)
EXTENDS Integers, Sequences

CONSTANTS
  Names,        \* names an application can import
  Csvs,         \* the contents of api.csv considered
  NoName        \* no name: the sentinel of os_function_table

Types == {"ABORT", "EMU", "NOOP", "MINISYS", "STUB", "STUB_DUMMY_ALLOC"}

\* `declares' is the name in the column Prototype, NoName if that is empty.
Row == [name : Names, type : Types, declares : Names \cup {NoName}]

\* A name has one row, and the prototype of an EMU row is that of its own
\* name: without one the generator's assertion stops it, and neither another
\* one nor two rows of one name would compile.
ASSUME ThunksAssumption ==
  /\ NoName \notin Names
  /\ \A c \in Csvs :
       /\ c \in Seq(Row)
       /\ \A j, k \in DOMAIN c : c[j].name = c[k].name => j = k
       /\ \A j \in DOMAIN c : c[j].type = "EMU" => c[j].declares = c[j].name

VARIABLES
  csv,                  \* api.csv
  phase,                \* the walk make-thunks.py is in, then "ready"
  cursor,               \* the row the walk is at
  next_svc,
  all_,                 \* the Entry records of the first walk
  thunks,               \* the miniSYS functions emitted: C name |-> body
  svc_handler_table,    \* names n of the handlers Svc_n, in table order
  os_function_table,
  want, scan,           \* the import being resolved, the index of the scan
  linked,               \* imports resolved: name |-> C name
  ran                   \* <<function called, handler that ran>>, or <<>>

buildVars == <<csv, phase, cursor, next_svc, all_, thunks,
               svc_handler_table, os_function_table>>
runVars   == <<want, scan, linked, ran>>
vars      == <<buildVars, runVars>>

Init ==
  /\ csv \in Csvs
  /\ phase = "rows" /\ cursor = 1
  /\ next_svc = 0 /\ all_ = <<>>
  /\ thunks = [f \in {} |-> {}]
  /\ svc_handler_table = <<>> /\ os_function_table = <<>>
  /\ want = NoName /\ scan = 1
  /\ linked = [f \in {} |-> {}]
  /\ ran = <<>>

-----------------------------------------------------------------------------
\* EMU functions and those of miniSYS keep their name, stubs get a prefix.
CName(row) ==
  [stub |-> row.type \in {"ABORT", "NOOP", "STUB", "STUB_DUMMY_ALLOC"},
   of   |-> row.name]

\* The function emitted for an EMU row is the one its prototype declares.
ThunkName(row) ==
  [CName(row) EXCEPT !.of = IF row.type = "EMU" THEN row.declares ELSE @]

\* What the function emitted for a row does; the number is that of its SVC.
Body(row, svc) ==
  [does |-> CASE row.type = "ABORT"            -> "panic"
              [] row.type = "EMU"              -> "svc"
              [] row.type = "STUB"             -> "trace"
              [] row.type = "STUB_DUMMY_ALLOC" -> "malloc"
              [] row.type = "NOOP"             -> "return",
   num  |-> IF row.type = "EMU" THEN svc ELSE 0]

\* Mutant: every row takes a number, not only those of the table.
EmitThunkCountsAll ==
  LET row == csv[cursor]
      f   == ThunkName(row)
  IN /\ phase = "rows" /\ cursor <= Len(csv)
     /\ all_' = Append(all_, [index |-> next_svc, name |-> row.name,
                              c_name |-> CName(row), type |-> row.type])
     /\ thunks' = IF row.type = "MINISYS" THEN thunks
                  ELSE [g \in DOMAIN thunks \cup {f} |->
                          IF g = f THEN Body(row, next_svc) ELSE thunks[g]]
     /\ next_svc' = next_svc + 1
     /\ cursor' = cursor + 1
     /\ UNCHANGED <<csv, phase, svc_handler_table, os_function_table, runVars>>

\* First walk.  Nothing is emitted for a function written in miniSYS.
EmitThunk ==
  LET row == csv[cursor]
      f   == ThunkName(row)
  IN /\ phase = "rows" /\ cursor <= Len(csv)
     /\ all_' = Append(all_, [index |-> next_svc, name |-> row.name,
                              c_name |-> CName(row), type |-> row.type])
     /\ thunks' = IF row.type = "MINISYS" THEN thunks
                  ELSE [g \in DOMAIN thunks \cup {f} |->
                          IF g = f THEN Body(row, next_svc) ELSE thunks[g]]
     /\ next_svc' = IF row.type = "EMU" THEN next_svc + 1 ELSE next_svc
     /\ cursor' = cursor + 1
     /\ UNCHANGED <<csv, phase, svc_handler_table, os_function_table, runVars>>

\* Second walk.
EmitHandler ==
  /\ phase = "handlers" /\ cursor <= Len(all_)
  /\ svc_handler_table' =
       IF all_[cursor].type = "EMU"
       THEN Append(svc_handler_table, all_[cursor].name)
       ELSE svc_handler_table
  /\ cursor' = cursor + 1
  /\ UNCHANGED <<csv, phase, next_svc, all_, thunks, os_function_table, runVars>>

\* Mutant: the table refers to stubs by their plain names.
EmitFunctionPlain ==
  /\ phase = "functions" /\ cursor <= Len(all_)
  /\ os_function_table' =
       Append(os_function_table, [name |-> all_[cursor].name,
                                  addr |-> [stub |-> FALSE,
                                            of   |-> all_[cursor].name]])
  /\ cursor' = cursor + 1
  /\ UNCHANGED <<csv, phase, next_svc, all_, thunks, svc_handler_table, runVars>>

\* Third walk.
EmitFunction ==
  /\ phase = "functions" /\ cursor <= Len(all_)
  /\ os_function_table' =
       Append(os_function_table, [name |-> all_[cursor].name,
                                  addr |-> all_[cursor].c_name])
  /\ cursor' = cursor + 1
  /\ UNCHANGED <<csv, phase, next_svc, all_, thunks, svc_handler_table, runVars>>

Sentinel == [name |-> NoName, addr |-> [stub |-> FALSE, of |-> NoName]]

\* The end of a walk; the third one is closed with the sentinel.
NextPhase ==
  CASE phase = "rows"      -> "handlers"
    [] phase = "handlers"  -> "functions"
    [] phase = "functions" -> "ready"

\* Mutant: no sentinel.
EndWalkUnclosed ==
  /\ phase # "ready" /\ cursor = Len(csv) + 1
  /\ phase' = NextPhase
  /\ cursor' = 1
  /\ UNCHANGED <<csv, next_svc, all_, thunks, svc_handler_table,
                 os_function_table, runVars>>

EndWalk ==
  /\ phase # "ready" /\ cursor = Len(csv) + 1
  /\ phase' = NextPhase
  /\ cursor' = 1
  /\ os_function_table' = IF phase = "functions"
                          THEN Append(os_function_table, Sentinel)
                          ELSE os_function_table
  /\ UNCHANGED <<csv, next_svc, all_, thunks, svc_handler_table, runVars>>

-----------------------------------------------------------------------------
(***************************************************************************)
(* ccos_get_builtin_proc(n), called by the loader and by the application.  *)
(* It scans from the first entry up to the sentinel, where it panics.      *)
(***************************************************************************)
GetBuiltinProc(n) ==
  /\ phase = "ready" /\ want = NoName
  /\ want' = n /\ scan' = 1
  /\ UNCHANGED <<buildVars, linked, ran>>

ScanOn ==
  /\ want # NoName
  /\ os_function_table[scan].name \notin {NoName, want}
  /\ scan' = scan + 1
  /\ UNCHANGED <<buildVars, want, linked, ran>>

\* Mutant: the result of strcmp is not negated.
ScanFindsOther ==
  /\ want # NoName
  /\ os_function_table[scan].name # want
  /\ linked' = [f \in DOMAIN linked \cup {want} |->
                  IF f = want THEN os_function_table[scan].addr ELSE linked[f]]
  /\ want' = NoName
  /\ UNCHANGED <<buildVars, scan, ran>>

ScanFinds ==
  /\ want # NoName
  /\ os_function_table[scan].name = want
  /\ linked' = [f \in DOMAIN linked \cup {want} |->
                  IF f = want THEN os_function_table[scan].addr ELSE linked[f]]
  /\ want' = NoName
  /\ UNCHANGED <<buildVars, scan, ran>>

\* Mutant: the scan gives up at the first name that is not the one.
ScanFailsEarly ==
  /\ want # NoName
  /\ os_function_table[scan].name # want
  /\ want' = NoName
  /\ UNCHANGED <<buildVars, scan, linked, ran>>

\* The import is not linked; the panic is modelled in Ccdl.tla.
ScanFails ==
  /\ want # NoName
  /\ os_function_table[scan].name = NoName
  /\ want' = NoName
  /\ UNCHANGED <<buildVars, scan, linked, ran>>

\* hook_intr indexes the table without looking at its length.
hook_intr(num) ==
  IF num + 1 \in DOMAIN svc_handler_table
  THEN svc_handler_table[num + 1] ELSE NoName

\* The application calls a function it has linked to an SVC thunk.
CallEmu(n) ==
  /\ want = NoName
  /\ n \in DOMAIN linked /\ linked[n] \in DOMAIN thunks
  /\ thunks[linked[n]].does = "svc"
  /\ ran' = <<n, hook_intr(thunks[linked[n]].num)>>
  /\ UNCHANGED <<buildVars, want, scan, linked>>

Build == EmitThunk \/ EmitHandler \/ EmitFunction \/ EndWalk

Scan == ScanOn \/ ScanFinds \/ ScanFails

Next ==
  \/ Build
  \/ \E n \in Names : GetBuiltinProc(n) \/ CallEmu(n)
  \/ Scan

Spec == Init /\ [][Next]_vars

\* The generator runs to its end, and so does a scan that has begun.
FairSpec == Spec /\ WF_vars(Build) /\ WF_vars(Scan)

-----------------------------------------------------------------------------
(***************************************************************************)
(* Properties.                                                             *)
(***************************************************************************)

CNames == [stub : BOOLEAN, of : Names]

Entry == [index : Nat, name : Names, c_name : CNames, type : Types]

\* The generator's variables, its outputs and the guest's keep their types.
ThunksTypeOK ==
  /\ csv \in Csvs
  /\ phase \in {"rows", "handlers", "functions", "ready"}
  /\ cursor \in 1..(Len(csv) + 1)
  /\ next_svc \in Nat
  /\ all_ \in Seq(Entry)
  /\ DOMAIN thunks \subseteq CNames
  /\ \A f \in DOMAIN thunks : thunks[f].num \in Nat
  /\ svc_handler_table \in Seq(Names)
  /\ os_function_table \in
       Seq([name : Names, addr : CNames] \cup {Sentinel})
  /\ want \in Names \cup {NoName} /\ scan \in Nat \ {0}
  /\ DOMAIN linked \subseteq Names
  /\ \A f \in DOMAIN linked : linked[f] \in CNames

\* When the application calls the function it imported as n and it traps to
\* the emulator, it is the handler Svc_n that runs: the number in the SVC
\* instruction, given out in one walk, is the handler's place in the table
\* written by another, whatever rows of other types lie in between.
DispatchesOwn == ran # <<>> => ran[1] = ran[2]

\* The scan of ccos_get_builtin_proc never leaves os_function_table.
ScanInTable == want # NoName => scan \in DOMAIN os_function_table

\* Whatever an import is linked to exists: it is a function that the first
\* walk has emitted, under the name the third walk refers to it by, or one
\* that miniSYS itself provides.
LinkedIsDefined ==
  \A n \in DOMAIN linked :
    \/ linked[n] \in DOMAIN thunks
    \/ \E k \in DOMAIN csv : csv[k].name = n /\ csv[k].type = "MINISYS"

\* A search ends right: with the function of the one row of its name, by the
\* C name the generator has given it, or with nothing if there is no such
\* row; what was linked before stays as it is.
SearchIsRight ==
  [][want # NoName /\ want' = NoName =>
       LET Hits == {k \in DOMAIN csv : csv[k].name = want}
       IN /\ DOMAIN linked' =
               DOMAIN linked \cup {csv[k].name : k \in Hits}
          /\ \A k \in Hits : linked'[want] = CName(csv[k])
          /\ \A f \in DOMAIN linked : f # want => linked'[f] = linked[f]]_vars

\* A scan for a name that api.csv has ends with that name linked.
KnownNamesLink ==
  \A n \in Names :
    (want = n /\ \E k \in DOMAIN csv : csv[k].name = n)
      ~> (n \in DOMAIN linked)

=============================================================================
