----------------------------- MODULE StackWalk -----------------------------
(***************************************************************************)
(* aarch32_walk_stack of src/debug.cpp and the three functions             *)
(* Svc_GemeiEmu_panic gives it: the memory of the guest, which ends at     *)
(* unmapped addresses, the two ranges taken for code, and the report.      *)
(***************************************************************************)
EXTENDS Integers, Sequences, FiniteSetsExt

CONSTANTS
  Code,         \* words that are addresses of code
  Data,         \* words that are not
  Unmapped,     \* what uc_mem_read finds at an address that is not mapped
  WordAddrs,    \* words of the address space, 2^30
  WalkLimit     \* words the walk looks at, 1024

ASSUME StackWalkAssumption ==
  /\ Unmapped \notin Code \cup Data
  /\ WordAddrs \in Nat \ {0} /\ WalkLimit \in 0..WordAddrs

VARIABLES
  stack,        \* pc, lr, sp and the memory when the walk began; <<>> before
  sp, i,        \* the parameter and the counter of the loop
  report,       \* the addresses printed
  done          \* the walk has ended

walkVars == <<stack, sp, i, report, done>>

Addresses == 0..(WordAddrs - 1)
Words     == Code \cup Data

Stack == [pc : Words, lr : Words, sp : Addresses,
          mem : [Addresses -> Words \cup {Unmapped}]]

WalkInit ==
  stack = <<>> /\ sp = 0 /\ i = 0 /\ report = <<>> /\ done = TRUE

\* Both ranges of is_code_address.
is_code_address(word) == word \in Code

\* The callback is called for pc and lr, whatever they are.
WalkStarts(pc, lr, sp0, mem) ==
  /\ stack' = [pc |-> pc, lr |-> lr, sp |-> sp0, mem |-> mem]
  /\ sp' = sp0 /\ i' = 0
  /\ report' = <<pc, lr>>
  /\ done' = FALSE

\* Mutants: one word too many; the walk ends at the first word that is not
\* code; nothing ends it but a word that is not mapped.
StepPastLimit ==
  /\ ~done /\ i <= WalkLimit /\ stack.mem[sp] # Unmapped
  /\ report' = IF is_code_address(stack.mem[sp])
               THEN Append(report, stack.mem[sp]) ELSE report
  /\ sp' = (sp + 1) % WordAddrs
  /\ i' = i + 1
  /\ UNCHANGED <<stack, done>>

StepEndsAtData ==
  /\ ~done /\ i < WalkLimit /\ stack.mem[sp] # Unmapped
  /\ IF is_code_address(stack.mem[sp])
     THEN /\ report' = Append(report, stack.mem[sp])
          /\ sp' = (sp + 1) % WordAddrs /\ i' = i + 1 /\ UNCHANGED done
     ELSE done' = TRUE /\ UNCHANGED <<sp, i, report>>
  /\ UNCHANGED stack

\* The callback always returns true.
WalkStep ==
  /\ ~done /\ i < WalkLimit /\ stack.mem[sp] # Unmapped
  /\ report' = IF is_code_address(stack.mem[sp])
               THEN Append(report, stack.mem[sp]) ELSE report
  /\ sp' = (sp + 1) % WordAddrs
  /\ i' = i + 1
  /\ UNCHANGED <<stack, done>>

WalkEnds ==
  /\ ~done /\ (i = WalkLimit \/ stack.mem[sp] = Unmapped)
  /\ done' = TRUE
  /\ UNCHANGED <<stack, sp, i, report>>

Walk == WalkStep \/ WalkEnds

-----------------------------------------------------------------------------
\* The walk stays within its limit and in the address space.
WalkTypeOK ==
  /\ stack \in {<<>>} \cup Stack
  /\ sp \in Addresses /\ i \in 0..WalkLimit
  /\ report \in Seq(Words)
  /\ done \in BOOLEAN

\* The k-th word above the stack pointer, around the end of the address space.
WordAt(s, k) == s.mem[(s.sp + k) % WordAddrs]

\* Which of the first n words above the stack pointer are code.
CodeBelow(s, n) == {k \in 0..(n - 1) : is_code_address(WordAt(s, k))}

\* The addresses are pc, lr, and then the code among the first n words in its
\* order: a word has its place behind as many as there are below it.
ListsCode(addresses, s, n) ==
  /\ Len(addresses) = 2 + Cardinality(CodeBelow(s, n))
  /\ addresses[1] = s.pc /\ addresses[2] = s.lr
  /\ \A k \in CodeBelow(s, n) :
       addresses[3 + Cardinality(CodeBelow(s, k))] = WordAt(s, k)

\* How many words of s are mapped from its stack pointer on, up to the limit.
Depth(s) ==
  Max({n \in 0..WalkLimit : \A k \in 0..(n - 1) : WordAt(s, k) # Unmapped})

\* The report is the stack: pc, lr, and then in their order all the words
\* above the stack pointer that are code and no others, up to the first that
\* is not mapped or to the limit; in particular no word is looked at twice.
ReportIsStack ==
  done /\ stack # <<>> => ListsCode(report, stack, Depth(stack))

=============================================================================
