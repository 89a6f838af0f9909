------------------------------ MODULE CcdlFile ------------------------------
(***************************************************************************)
(* A CCDL file as the loader reads it, and what the loader makes of one:   *)
(* the words of the memory an application runs in, and the functions it    *)
(* can be given.  Loader.tla and AppLife.tla, its promise, share these.    *)
(***************************************************************************)
EXTENDS Integers, Sequences

CONSTANTS
  Names,        \* names of functions
  Builtins,     \* those in os_function_table
  Words         \* the words of memory, in which applications run

SectionTypes == {"code", "resources", "import", "export"}

\* `load', `words' and `entry' are for code: where it goes, how long it is and
\* where it starts.
Section == [type : SectionTypes, load : Nat, words : Nat, entry : Nat,
            entries : Seq([name : Names, address : Nat])]

\* `valid' is whether sign, version and unk_8 are as they should be.
File == [valid : BOOLEAN, sections : Seq(Section)]

\* The index of the first section of a type, or 0: every loop over sections
\* ends with a break.
FirstSection(sections, type) ==
  IF \E k \in DOMAIN sections : sections[k].type = type
  THEN CHOOSE k \in DOMAIN sections :
         /\ sections[k].type = type
         /\ \A j \in DOMAIN sections : sections[j].type = type => k <= j
  ELSE 0

EntriesOf(sections, type) ==
  LET k == FirstSection(sections, type)
  IN IF k = 0 THEN <<>> ELSE sections[k].entries

\* Where the code of a section goes.
CodeWords(code) == code.load..(code.load + code.words - 1)

\* The two words of an import's jump.
Slot(e) == {e.address, e.address + 1}

-----------------------------------------------------------------------------
\* What a word of memory can hold.
Nothing      == <<"nothing", 0>>
ImageWord(k) == <<"image", k>>
Ldr          == <<"ldr", 0>>
Pointer(n)   == <<"pointer", n>>

\* What a function pointer can be.
NoProc     == <<"none", 0>>
AppProc(a) == <<"app", a>>
SysProc(n) == <<"sys", n>>

\* NoProc stands for the panic of ccos_get_builtin_proc.
ccos_get_builtin_proc(n) == IF n \in Builtins THEN SysProc(n) ELSE NoProc

=============================================================================
