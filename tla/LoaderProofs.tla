---------------------------- MODULE LoaderProofs ----------------------------
(***************************************************************************)
(* Proofs about Loader: for every file whose imports have words of their   *)
(* own, and every way the application asks for functions.                  *)
(***************************************************************************)
EXTENDS Loader, WellFoundedInduction, TLAPS

\* A nonempty set of naturals has a least element.
LEMMA LeastNat ==
  ASSUME NEW S \in SUBSET Nat, S # {}
  PROVE  \E k \in S : \A j \in S : k <= j
<1>1. \E x \in S : \A y \in S : ~ (<<y, x>> \in OpToRel(<, Nat))
  BY NatLessThanWellFounded, WFMin, Zenon
<1>2. PICK x \in S : \A y \in S : ~ (<<y, x>> \in OpToRel(<, Nat))
  BY <1>1
<1>3. ASSUME NEW y \in S PROVE x <= y
  <2>1. <<y, x>> \notin OpToRel(<, Nat)
    BY <1>2
  <2>2. ~(y < x)
    BY <2>1 DEF OpToRel
  <2> QED BY <2>2
<1> QED BY <1>3

\* What Least picks of the places at which a name is exported is one of them.
LEMMA LeastIn ==
  ASSUME NEW S \in SUBSET Nat, S # {}
  PROVE  Least(S) \in S
BY LeastNat DEF Least

\* FirstSection is 0 or a section of the type looked for.
LEMMA FirstSectionIsOne ==
  ASSUME NEW sections \in Seq(Section), NEW type \in SectionTypes
  PROVE  LET k == FirstSection(sections, type)
         IN k = 0 \/ (k \in DOMAIN sections /\ sections[k].type = type)
<1> DEFINE S == {k \in DOMAIN sections : sections[k].type = type}
<1>1. S \in SUBSET Nat
  OBVIOUS
<1>2. CASE S = {}
  BY <1>2 DEF FirstSection
<1>3. CASE S # {}
  <2>1. \E k \in S : \A j \in S : k <= j
    BY <1>1, <1>3, LeastNat
  <2>2. \E k \in DOMAIN sections :
         /\ sections[k].type = type
         /\ \A j \in DOMAIN sections : sections[j].type = type => k <= j
    BY <2>1
  <2> QED BY <2>2, <1>3 DEF FirstSection
<1> QED BY <1>2, <1>3

TableEntry == [name : Names, address : Nat]

\* The entries of a file's imports and exports are entries.
LEMMA EntriesAreTyped ==
  ASSUME NEW sections \in Seq(Section), NEW type \in SectionTypes
  PROVE  EntriesOf(sections, type) \in Seq(TableEntry)
<1> DEFINE k == FirstSection(sections, type)
<1>1. CASE k = 0
  BY <1>1 DEF EntriesOf
<1>2. CASE k # 0
  <2>1. k \in DOMAIN sections
    BY <1>2, FirstSectionIsOne
  <2>2. sections[k] \in Section
    BY <2>1
  <2>3. sections[k].entries \in Seq(TableEntry)
    BY <2>2 DEF Section, TableEntry
  <2> QED BY <1>2, <2>3 DEF EntriesOf
<1> QED BY <1>1, <1>2

-----------------------------------------------------------------------------
(***************************************************************************)
(* What dl_get_proc returns.                                               *)
(***************************************************************************)

\* A name that is exported is found among the exports.
LEMMA ExportedIsFound ==
  ASSUME NEW sections \in Seq(Section), NEW n, Hits(sections, n) # {}
  PROVE  \E k \in DOMAIN EntriesOf(sections, "export") :
           /\ EntriesOf(sections, "export")[k].name = n
           /\ dl_get_proc(sections, n)
                = AppProc(EntriesOf(sections, "export")[k].address)
<1> DEFINE exports == EntriesOf(sections, "export")
           k == Least(Hits(sections, n))
<1>1. exports \in Seq(TableEntry)
  BY EntriesAreTyped DEF SectionTypes
<1>2. Hits(sections, n) \in SUBSET Nat
  BY <1>1 DEF Hits
<1>3. k \in Hits(sections, n)
  BY <1>2, LeastIn
<1>4. k \in DOMAIN exports /\ exports[k].name = n
  BY <1>3 DEF Hits
<1>5. dl_get_proc(sections, n) = AppProc(exports[k].address)
  BY DEF dl_get_proc
<1> QED BY <1>4, <1>5

\* A name that is not exported is looked for among the built-in functions.
LEMMA OthersAreBuiltin ==
  ASSUME NEW sections, NEW n, Hits(sections, n) = {}
  PROVE  dl_get_proc(sections, n) = ccos_get_builtin_proc(n)
BY DEF dl_get_proc

\* As long as my_dl has no sections, only built-in functions are found.
LEMMA EmptyExportsNothing ==
  ASSUME NEW n
  PROVE  Hits(<<>>, n) = {}
<1>1. FirstSection(<<>>, "export") = 0
  BY DEF FirstSection
<1>2. EntriesOf(<<>>, "export") = <<>>
  BY <1>1 DEF EntriesOf
<1> QED BY <1>2 DEF Hits

\* What dl_get_proc returns is a function pointer or a panic.
LEMMA ProcIsTyped ==
  ASSUME NEW sections \in Seq(Section), NEW n \in Names
  PROVE  dl_get_proc(sections, n) \in Procs
<1>1. CASE Hits(sections, n) = {}
  <2>1. dl_get_proc(sections, n) = ccos_get_builtin_proc(n)
    BY <1>1, OthersAreBuiltin
  <2> QED BY <2>1 DEF ccos_get_builtin_proc, NoProc, SysProc, Procs
<1>2. CASE Hits(sections, n) # {}
  <2>1. EntriesOf(sections, "export") \in Seq(TableEntry)
    BY EntriesAreTyped DEF SectionTypes
  <2>2. PICK k \in DOMAIN EntriesOf(sections, "export") :
          dl_get_proc(sections, n)
            = AppProc(EntriesOf(sections, "export")[k].address)
    BY <1>2, ExportedIsFound
  <2>3. EntriesOf(sections, "export")[k] \in TableEntry
    BY <2>1
  <2>4. EntriesOf(sections, "export")[k].address \in Nat
    BY <2>3 DEF TableEntry
  <2> QED BY <2>2, <2>4 DEF AppProc, Procs
<1> QED BY <1>1, <1>2

\* The search fails only for a name that is neither exported nor built in.
LEMMA OnlyUnknownFail ==
  ASSUME NEW sections \in Seq(Section), NEW n, dl_get_proc(sections, n) = NoProc
  PROVE  Hits(sections, n) = {} /\ n \notin Builtins
<1>1. Hits(sections, n) = {}
  <2>1. SUFFICES ASSUME Hits(sections, n) # {} PROVE FALSE
    OBVIOUS
  <2>2. PICK a : dl_get_proc(sections, n) = AppProc(a)
    BY <2>1, ExportedIsFound
  <2>3. AppProc(a) # NoProc
    BY DEF AppProc, NoProc
  <2> QED BY <2>2, <2>3
<1>2. ccos_get_builtin_proc(n) = NoProc
  BY <1>1, OthersAreBuiltin
<1>3. SysProc(n) # NoProc
  BY DEF SysProc, NoProc
<1> QED BY <1>1, <1>2, <1>3 DEF ccos_get_builtin_proc

-----------------------------------------------------------------------------
(***************************************************************************)
(* The inductive invariant.                                                *)
(***************************************************************************)
BeforeLink == at \in {"header", "image"}

\* The loader goes on only with a valid file.
HeaderChecked == at # "header" /\ at # "panicked" => file.valid

\* Of the code that was copied, only the imports can have been changed.
ImagePlaced ==
  at = "link" \/ Entered =>
    LET k    == FirstSection(file.sections, "code")
        code == file.sections[k]
    IN /\ k # 0
       /\ \A a \in Words \cap CodeWords(code) :
            \/ \E j \in DOMAIN Imports : a \in Slot(Imports[j])
            \/ mem[a] = ImageWord(a - code.load)

\* The header that is kept is the code's.
HeaderKept ==
  at = "link" \/ Entered => shdr_code = FirstSection(file.sections, "code")

\* The imports before the one that is next are linked.
LinkedSoFar ==
  /\ BeforeLink => import = 1
  /\ Entered => import = Len(Imports) + 1
  /\ at = "link" \/ Entered =>
       \A k \in 1..(import - 1) : IsLinked(Imports[k]) /\ Imports[k].name \in Builtins

\* my_dl is filled in when the entry point has returned.
FilledIn ==
  /\ BeforeLink \/ at \in {"link", "entry"} => my_dl = <<>>
  /\ at \in {"lookup", "main", "done"} => my_dl = file.sections

MainFound ==
  at \in {"main", "done"} =>
    main = dl_get_proc(file.sections, "AppMain") /\ main # NoProc

\* What the application was last told is what it would be told again.
AskedTrue ==
  /\ asked.from = "entry" => asked.proc = ccos_get_builtin_proc(asked.name)
  /\ asked.from = "main" => asked.proc = dl_get_proc(file.sections, asked.name)

IInv ==
  /\ LoaderTypeOK
  /\ HeaderChecked
  /\ ImagePlaced
  /\ HeaderKept
  /\ LinkedSoFar
  /\ FilledIn
  /\ MainFound
  /\ AskedTrue
  /\ NoNeedlessPanic

\* The file, its sections and its imports have their types.
LEMMA FileIsTyped ==
  ASSUME NEW f \in Files
  PROVE  /\ f.sections \in Seq(Section)
         /\ EntriesOf(f.sections, "import") \in Seq(TableEntry)
         /\ EntriesOf(f.sections, "export") \in Seq(TableEntry)
<1>1. f \in File
  BY LoaderAssumption
<1>2. f.sections \in Seq(Section)
  BY <1>1 DEF File
<1>3. "import" \in SectionTypes /\ "export" \in SectionTypes
  BY DEF SectionTypes
<1> QED BY <1>2, <1>3, EntriesAreTyped

\* The imports have words of their own in memory.
LEMMA SlotsAreApart ==
  ASSUME file \in Files
  PROVE  /\ Imports \in Seq(TableEntry)
         /\ \A k \in DOMAIN Imports :
              /\ Imports[k].name \in Names
              /\ Imports[k].address \in Nat
              /\ Imports[k].address \in Words
              /\ Imports[k].address + 1 \in Words
         /\ \A j, k \in DOMAIN Imports :
              j # k => /\ Imports[j].address # Imports[k].address
                       /\ Imports[j].address # Imports[k].address + 1
                       /\ Imports[j].address + 1 # Imports[k].address
                       /\ Imports[j].address + 1 # Imports[k].address + 1
<1>1. Imports \in Seq(TableEntry)
  BY FileIsTyped DEF Imports
<1>2. \A k \in DOMAIN Imports : Imports[k] \in TableEntry
  BY <1>1
<1>3. \A k \in DOMAIN Imports : Slot(Imports[k]) \subseteq Words
  BY LoaderAssumption DEF Imports
<1>4. \A j, k \in DOMAIN Imports :
         j # k => Slot(Imports[j]) \cap Slot(Imports[k]) = {}
  BY LoaderAssumption DEF Imports
<1>5. ASSUME NEW j \in DOMAIN Imports, NEW k \in DOMAIN Imports, j # k
      PROVE  /\ Imports[j].address # Imports[k].address
             /\ Imports[j].address # Imports[k].address + 1
             /\ Imports[j].address + 1 # Imports[k].address
             /\ Imports[j].address + 1 # Imports[k].address + 1
  BY <1>4, <1>5 DEF Slot
<1> QED BY <1>1, <1>2, <1>3, <1>5 DEF TableEntry, Slot

\* The invariant holds when miniSYS starts.
LEMMA InitIInv == Init => IInv
<1> SUFFICES ASSUME Init PROVE IInv
  OBVIOUS
<1> USE DEF Init
<1>1. Imports \in Seq(TableEntry)
  BY FileIsTyped DEF Imports
<1>2. LoaderTypeOK
  <2>1. mem \in [Words -> Contents]
    BY DEF Contents
  <2>2. main \in Procs /\ asked \in [name : Names, proc : Procs, from : {"none", "entry", "main"}]
    BY LoaderAssumption DEF Procs, Unasked
  <2>3. import \in 1..(Len(Imports) + 1)
    BY <1>1
  <2>4. shdr_code \in 0..Len(file.sections) /\ entry \in Procs
    BY FileIsTyped DEF Procs
  <2> QED BY <2>1, <2>2, <2>3, <2>4 DEF LoaderTypeOK
<1>3. AskedTrue
  BY DEF AskedTrue, Unasked
<1> QED
  BY <1>2, <1>3 DEF IInv, HeaderChecked, ImagePlaced, HeaderKept, LinkedSoFar, FilledIn,
     MainFound, NoNeedlessPanic, BeforeLink, Entered

\* The imports and the exports are the file's.
LEMMA SameFile ==
  ASSUME UNCHANGED file
  PROVE  Imports' = Imports /\ Exports' = Exports
BY DEF Imports, Exports

\* Refusing a file, or not, keeps the invariant.
LEMMA CheckHeaderKeeps ==
  ASSUME IInv, CheckHeader PROVE IInv'
<1> USE DEF CheckHeader, IInv, Panic
<1>1. Imports' = Imports /\ Exports' = Exports
  BY SameFile
<1>2. LoaderTypeOK'
  BY <1>1 DEF LoaderTypeOK
<1>3. HeaderChecked'
  BY DEF HeaderChecked
<1>4. ImagePlaced' /\ HeaderKept'
  BY DEF ImagePlaced, HeaderKept, Entered
<1>5. LinkedSoFar'
  BY DEF LinkedSoFar, Entered, BeforeLink
<1>6. FilledIn' /\ MainFound' /\ AskedTrue'
  BY DEF FilledIn, MainFound, AskedTrue, BeforeLink
<1>7. NoNeedlessPanic'
  BY DEF NoNeedlessPanic
<1> QED BY <1>2, <1>3, <1>4, <1>5, <1>6, <1>7

\* After the copy, the image is in place and nothing is linked yet.
LEMMA CopyImageKeeps ==
  ASSUME IInv, CopyImage PROVE IInv'
<1> DEFINE k == FirstSection(file.sections, "code")
           code == file.sections[k]
<1> USE DEF IInv
<1>1. Imports' = Imports /\ Exports' = Exports
  BY SameFile DEF CopyImage
<1>2. Imports \in Seq(TableEntry)
  BY SlotsAreApart DEF LoaderTypeOK
<1>3. at = "image" /\ import = 1 /\ UNCHANGED <<file, import, my_dl, entry, main, asked>>
  BY DEF CopyImage, LinkedSoFar, BeforeLink
<1>4. CASE k = 0
  <2>1. at' = "panicked" /\ mem' = mem /\ shdr_code' = Len(file.sections)
    BY <1>4 DEF CopyImage, Panic
  <2>2. LoaderTypeOK'
    <3>1. shdr_code' \in 0..Len(file.sections)
      BY <2>1, FileIsTyped DEF LoaderTypeOK
    <3> QED BY <1>1, <1>3, <2>1, <3>1 DEF LoaderTypeOK
  <2>3. HeaderChecked' /\ ImagePlaced' /\ HeaderKept' /\ LinkedSoFar' /\ FilledIn' /\ MainFound' /\ AskedTrue'
    BY <1>3, <2>1 DEF HeaderChecked, ImagePlaced, HeaderKept, LinkedSoFar,
       FilledIn, MainFound, AskedTrue, Entered, BeforeLink
  <2>4. NoNeedlessPanic'
    BY <1>3, <1>4 DEF NoNeedlessPanic
  <2> QED BY <2>2, <2>3, <2>4
<1>5. CASE k # 0
  <2>1. /\ at' = "link" /\ shdr_code' = k
        /\ mem' = [a \in Words |->
                     IF a \in CodeWords(code)
                     THEN ImageWord(a - code.load) ELSE mem[a]]
    BY <1>5 DEF CopyImage
  <2>2. file.sections \in Seq(Section)
    BY FileIsTyped DEF LoaderTypeOK
  <2>3. k \in DOMAIN file.sections
    BY <2>2, <1>5, FirstSectionIsOne DEF SectionTypes
  <2>4. code.load \in Nat /\ code.words \in Nat
    <3>1. code \in Section
      BY <2>2, <2>3
    <3> QED BY <3>1 DEF Section
  <2>5. mem' \in [Words -> Contents]
    <3>1. ASSUME NEW a \in Words,
                 a \in CodeWords(code)
          PROVE  ImageWord(a - code.load) \in Contents
      <4>1. a - code.load \in Nat
        BY <3>1, <2>4, LoaderAssumption DEF CodeWords
      <4> QED BY <4>1 DEF ImageWord, Contents
    <3>2. \A a \in Words : mem[a] \in Contents
      BY DEF LoaderTypeOK
    <3> QED BY <2>1, <3>1, <3>2
  <2>6. LoaderTypeOK'
    <3>1. shdr_code' \in 0..Len(file.sections)
      BY <2>1, <2>2, <2>3
    <3> QED BY <1>1, <1>3, <2>1, <2>5, <3>1 DEF LoaderTypeOK
  <2>7. ImagePlaced'
    <3>1. \A a \in Words \cap CodeWords(code) :
            mem'[a] = ImageWord(a - code.load)
      BY <2>1
    <3> QED BY <1>1, <1>3, <1>5, <3>1 DEF ImagePlaced
  <2>8. LinkedSoFar'
    BY <1>1, <1>3, <2>1 DEF LinkedSoFar, Entered, BeforeLink
  <2>9. HeaderChecked' /\ HeaderKept' /\ FilledIn' /\ MainFound' /\ AskedTrue' /\ NoNeedlessPanic'
    BY <1>3, <2>1 DEF HeaderChecked, HeaderKept, FilledIn, MainFound, AskedTrue,
       NoNeedlessPanic, BeforeLink
  <2> QED BY <2>6, <2>7, <2>8, <2>9
<1> QED BY <1>4, <1>5

\* Linking an import links it, no other import loses its jump, and nothing
\* else of the image is touched: imports have their words to themselves.
LEMMA LinkImportKeeps ==
  ASSUME IInv, LinkImport PROVE IInv'
<1> DEFINE e == Imports[import]
           k == FirstSection(file.sections, "code")
           code == file.sections[k]
<1> USE DEF IInv
<1>1. Imports' = Imports /\ Exports' = Exports
  BY SameFile DEF LinkImport
<1>2. /\ at = "link" /\ import <= Len(Imports) /\ e.name \in Builtins
      /\ mem' = [mem EXCEPT ![e.address] = Ldr, ![e.address + 1] = Pointer(e.name)]
      /\ import' = import + 1
      /\ UNCHANGED <<file, at, shdr_code, my_dl, entry, main, asked>>
  BY DEF LinkImport
<1>3. file \in Files /\ import \in 1..(Len(Imports) + 1) /\ mem \in [Words -> Contents]
  BY DEF LoaderTypeOK
<1>4. Imports \in Seq(TableEntry)
  BY <1>3, SlotsAreApart
<1>5. import \in DOMAIN Imports
  BY <1>2, <1>3, <1>4
<1>6. PICK a : a = e.address
  OBVIOUS
<1>7. /\ a \in Nat /\ a \in Words /\ a + 1 \in Words /\ e.name \in Names
  BY <1>3, <1>5, <1>6, SlotsAreApart
<1>8. Ldr \in Contents /\ Pointer(e.name) \in Contents
  BY <1>7 DEF Ldr, Pointer, Contents
<1>9. mem' = [mem EXCEPT ![a] = Ldr, ![a + 1] = Pointer(e.name)]
  BY <1>2, <1>6
<1>10. /\ mem' \in [Words -> Contents]
       /\ mem'[a] = Ldr /\ mem'[a + 1] = Pointer(e.name)
       /\ \A w \in Words : w # a /\ w # a + 1 => mem'[w] = mem[w]
  BY <1>3, <1>7, <1>8, <1>9
<1>11. LoaderTypeOK'
  <2>1. import' \in 1..(Len(Imports) + 1)
    BY <1>2, <1>3, <1>4
  <2> QED BY <1>1, <1>2, <1>10, <2>1 DEF LoaderTypeOK
<1>12. ImagePlaced'
  <2>1. k # 0
    BY <1>2 DEF ImagePlaced
  <2>2. ASSUME NEW w \in Words \cap CodeWords(code)
        PROVE  \/ \E j \in DOMAIN Imports : w \in Slot(Imports[j])
               \/ mem'[w] = ImageWord(w - code.load)
    <3>1. CASE w = a \/ w = a + 1
      BY <1>5, <1>6, <3>1 DEF Slot
    <3>2. CASE w # a /\ w # a + 1
      <4>1. mem'[w] = mem[w]
        BY <1>10, <3>2
      <4>2. \/ \E j \in DOMAIN Imports : w \in Slot(Imports[j])
            \/ mem[w] = ImageWord(w - code.load)
        BY <1>2, <2>2 DEF ImagePlaced
      <4> QED BY <4>1, <4>2
    <3> QED BY <3>1, <3>2
  <2> QED BY <1>1, <1>2, <2>1, <2>2 DEF ImagePlaced
<1>13. LinkedSoFar'
  <2>1. ASSUME NEW j \in 1..import
        PROVE  /\ mem'[Imports[j].address] = Ldr
               /\ mem'[Imports[j].address + 1] = Pointer(Imports[j].name)
               /\ Imports[j].name \in Builtins
    <3>1. CASE j = import
      BY <1>2, <1>6, <1>10, <3>1
    <3>2. CASE j # import
      <4>1. j \in 1..(import - 1) /\ j \in DOMAIN Imports
        BY <1>3, <1>4, <1>5, <3>2
      <4>2. IsLinked(Imports[j]) /\ Imports[j].name \in Builtins
        BY <1>2, <4>1 DEF LinkedSoFar
      <4>3. PICK b : b = Imports[j].address
        OBVIOUS
      <4>4. /\ b \in Nat /\ b \in Words /\ b + 1 \in Words
            /\ b # a /\ b # a + 1 /\ b + 1 # a /\ b + 1 # a + 1
        BY <1>3, <1>5, <1>6, <3>2, <4>1, <4>3, SlotsAreApart
      <4>5. mem'[b] = mem[b] /\ mem'[b + 1] = mem[b + 1]
        BY <1>10, <4>4
      <4>6. mem[b] = Ldr /\ mem[b + 1] = Pointer(Imports[j].name)
        BY <4>2, <4>3 DEF IsLinked
      <4> QED BY <4>2, <4>3, <4>5, <4>6
    <3> QED BY <3>1, <3>2
  <2>2. import' - 1 = import
    BY <1>2, <1>3, <1>4
  <2>3. at' = "link"
    BY <1>2
  <2>4. \A j \in 1..(import' - 1) :
           IsLinked(Imports[j])' /\ Imports[j].name \in Builtins
    BY <1>1, <2>1, <2>2 DEF IsLinked
  <2> QED BY <1>1, <2>3, <2>4 DEF LinkedSoFar, BeforeLink, Entered, IsLinked
<1>14. HeaderChecked' /\ HeaderKept' /\ FilledIn' /\ MainFound' /\ AskedTrue' /\ NoNeedlessPanic'
  BY <1>2 DEF HeaderChecked, HeaderKept, Entered, FilledIn, MainFound, AskedTrue, NoNeedlessPanic,
     BeforeLink
<1> QED BY <1>11, <1>12, <1>13, <1>14

\* An import that is not found is a reason to panic.
LEMMA LinkFailsKeeps ==
  ASSUME IInv, LinkFails PROVE IInv'
<1> USE DEF IInv
<1>1. Imports' = Imports /\ Exports' = Exports
  BY SameFile DEF LinkFails
<1>2. /\ at = "link" /\ import <= Len(Imports)
      /\ Imports[import].name \notin Builtins
      /\ at' = "panicked"
      /\ UNCHANGED <<file, shdr_code, import, mem, my_dl, entry, main, asked>>
  BY DEF LinkFails, Panic
<1>3. import \in DOMAIN Imports
  <2>1. Imports \in Seq(TableEntry) /\ import \in 1..(Len(Imports) + 1)
    BY SlotsAreApart DEF LoaderTypeOK
  <2> QED BY <1>2, <2>1
<1>4. LoaderTypeOK'
  BY <1>1, <1>2 DEF LoaderTypeOK
<1>5. HeaderChecked' /\ ImagePlaced' /\ HeaderKept' /\ LinkedSoFar' /\ FilledIn' /\ MainFound' /\ AskedTrue'
  BY <1>2 DEF HeaderChecked, ImagePlaced, HeaderKept, LinkedSoFar, FilledIn, MainFound,
     AskedTrue, Entered, BeforeLink
<1>6. NoNeedlessPanic'
  BY <1>1, <1>2, <1>3 DEF NoNeedlessPanic
<1> QED BY <1>4, <1>5, <1>6

\* A step that leaves the file, memory and the imports alone keeps what is
\* placed and linked.
LEMMA PlacedStays ==
  ASSUME IInv, UNCHANGED <<file, shdr_code, import, mem>>,
         at = "link" \/ Entered, at' # "header", at' # "image",
         Entered' => Entered \/ import = Len(Imports) + 1
  PROVE  ImagePlaced' /\ HeaderKept' /\ LinkedSoFar'
<1>1. Imports' = Imports
  BY SameFile
<1>2. ImagePlaced' /\ HeaderKept'
  BY <1>1 DEF IInv, ImagePlaced, HeaderKept
<1>3. LinkedSoFar'
  <2>1. ~BeforeLink'
    BY DEF BeforeLink
  <2>2. Entered' => import' = Len(Imports') + 1
    BY <1>1 DEF IInv, LinkedSoFar
  <2>3. \A k \in 1..(import - 1) : IsLinked(Imports[k]) /\ Imports[k].name \in Builtins
    BY DEF IInv, LinkedSoFar
  <2>4. (\A k \in 1..(import - 1) : IsLinked(Imports[k]) /\ Imports[k].name \in Builtins)'
    BY <1>1, <2>3 DEF IsLinked
  <2> QED BY <2>1, <2>2, <2>4 DEF LinkedSoFar
<1> QED BY <1>2, <1>3

\* The entry point is called when all imports are linked.
LEMMA CallEntryPointKeeps ==
  ASSUME IInv, CallEntryPoint PROVE IInv'
<1>1. /\ at = "link" /\ import = Len(Imports) + 1 /\ at' = "entry"
      /\ entry' = AppProc(file.sections[shdr_code].entry)
      /\ UNCHANGED <<file, shdr_code, import, mem, my_dl, main, asked>>
  BY DEF CallEntryPoint
<1>2. ImagePlaced' /\ HeaderKept' /\ LinkedSoFar'
  BY <1>1, PlacedStays DEF Entered
<1>3. LoaderTypeOK'
  <2>1. file.sections \in Seq(Section)
    BY FileIsTyped DEF IInv, LoaderTypeOK
  <2>2. shdr_code \in DOMAIN file.sections
    BY <1>1, <2>1, FirstSectionIsOne DEF IInv, HeaderKept, ImagePlaced, SectionTypes
  <2>3. file.sections[shdr_code].entry \in Nat
    <3>1. file.sections[shdr_code] \in Section
      BY <2>1, <2>2
    <3> QED BY <3>1 DEF Section
  <2>4. entry' \in Procs
    BY <1>1, <2>3 DEF AppProc, Procs
  <2> QED BY <1>1, <2>4, SameFile DEF IInv, LoaderTypeOK
<1>4. FilledIn'
  BY <1>1 DEF IInv, FilledIn, BeforeLink
<1>5. HeaderChecked' /\ MainFound' /\ AskedTrue' /\ NoNeedlessPanic'
  BY <1>1 DEF IInv, HeaderChecked, MainFound, AskedTrue, NoNeedlessPanic
<1> QED BY <1>2, <1>3, <1>4, <1>5 DEF IInv

\* The entry point's return fills in my_dl.
LEMMA EntryPointReturnsKeeps ==
  ASSUME IInv, EntryPointReturns PROVE IInv'
<1>1. /\ at = "entry" /\ at' = "lookup" /\ my_dl' = file.sections
      /\ UNCHANGED <<file, shdr_code, import, mem, entry, main, asked>>
  BY DEF EntryPointReturns
<1>2. ImagePlaced' /\ HeaderKept' /\ LinkedSoFar'
  BY <1>1, PlacedStays DEF Entered
<1>3. LoaderTypeOK'
  BY <1>1, SameFile DEF IInv, LoaderTypeOK
<1>4. FilledIn'
  BY <1>1 DEF FilledIn, BeforeLink
<1>5. HeaderChecked' /\ MainFound' /\ AskedTrue' /\ NoNeedlessPanic'
  BY <1>1 DEF IInv, HeaderChecked, MainFound, AskedTrue, NoNeedlessPanic
<1> QED BY <1>2, <1>3, <1>4, <1>5 DEF IInv

\* AppMain is looked up with my_dl filled in; without it, miniSYS panics.
LEMMA CallAppMainKeeps ==
  ASSUME IInv, CallAppMain PROVE IInv'
<1>1. /\ at = "lookup" /\ main' = dl_get_proc(my_dl, "AppMain")
      /\ UNCHANGED <<file, shdr_code, import, mem, my_dl, entry, asked>>
  BY DEF CallAppMain
<1>2. my_dl = file.sections
  BY <1>1 DEF IInv, FilledIn
<1>3. file.sections \in Seq(Section)
  BY FileIsTyped DEF IInv, LoaderTypeOK
<1>4. main' = dl_get_proc(file.sections, "AppMain") /\ main' \in Procs
  BY <1>1, <1>2, <1>3, ProcIsTyped, LoaderAssumption
<1>5. \/ main' = NoProc /\ at' = "panicked"
      \/ main' # NoProc /\ at' = "main"
  BY DEF CallAppMain, Panic
<1>6. LoaderTypeOK'
  BY <1>1, <1>4, <1>5, SameFile DEF IInv, LoaderTypeOK
<1>7. ImagePlaced' /\ HeaderKept' /\ LinkedSoFar'
  BY <1>1, <1>5, PlacedStays DEF Entered
<1>8. HeaderChecked' /\ FilledIn'
  BY <1>1, <1>5 DEF IInv, HeaderChecked, FilledIn, BeforeLink
<1>9. MainFound'
  BY <1>1, <1>4, <1>5 DEF MainFound
<1>10. AskedTrue'
  BY <1>1 DEF IInv, AskedTrue
<1>11. NoNeedlessPanic'
  <2>1. CASE at' = "main"
    BY <2>1 DEF NoNeedlessPanic
  <2>2. CASE main' = NoProc
    <3>1. Hits(file.sections, "AppMain") = {} /\ "AppMain" \notin Builtins
      BY <1>3, <1>4, <2>2, OnlyUnknownFail
    <3>2. ~Known("AppMain")
      BY <3>1 DEF Known, Hits, Exports
    <3>3. ~Known("AppMain")'
      BY <1>1, <3>2, SameFile DEF Known
    <3> QED BY <3>3 DEF NoNeedlessPanic
  <2> QED BY <1>5, <2>1, <2>2
<1> QED BY <1>6, <1>7, <1>8, <1>9, <1>10, <1>11 DEF IInv

\* The return of AppMain changes nothing the invariant is about.
LEMMA AppMainReturnsKeeps ==
  ASSUME IInv, AppMainReturns PROVE IInv'
<1>1. /\ at = "main" /\ at' = "done"
      /\ UNCHANGED <<file, shdr_code, import, mem, my_dl, entry, main, asked>>
  BY DEF AppMainReturns
<1>2. ImagePlaced' /\ HeaderKept' /\ LinkedSoFar'
  BY <1>1, PlacedStays DEF Entered
<1>3. LoaderTypeOK'
  BY <1>1, SameFile DEF IInv, LoaderTypeOK
<1>4. FilledIn'
  BY <1>1 DEF IInv, FilledIn, BeforeLink
<1>5. HeaderChecked' /\ MainFound' /\ AskedTrue' /\ NoNeedlessPanic'
  BY <1>1 DEF IInv, HeaderChecked, MainFound, AskedTrue, NoNeedlessPanic
<1> QED BY <1>2, <1>3, <1>4, <1>5 DEF IInv

\* What the application is told depends on whether my_dl is filled in.
LEMMA AppGetsProcKeeps ==
  ASSUME IInv, NEW n \in Names, AppGetsProc(n) PROVE IInv'
<1>1. /\ at \in {"entry", "main"}
      /\ asked' = [name |-> n, proc |-> dl_get_proc(my_dl, n), from |-> at]
      /\ UNCHANGED <<file, shdr_code, import, mem, my_dl, entry, main>>
  BY DEF AppGetsProc
<1>2. asked'.name = n /\ asked'.proc = dl_get_proc(my_dl, n) /\ asked'.from = at
  BY <1>1
<1>3. \/ asked'.proc = NoProc /\ at' = "panicked"
      \/ at' = at
  BY DEF AppGetsProc, Panic
<1>4. file.sections \in Seq(Section)
  BY FileIsTyped DEF IInv, LoaderTypeOK
<1>5. my_dl \in Seq(Section)
  <2>1. my_dl = <<>> \/ my_dl = file.sections
    BY DEF IInv, LoaderTypeOK
  <2>2. <<>> \in Seq(Section)
    OBVIOUS
  <2> QED BY <1>4, <2>1, <2>2, Zenon
<1>6. LoaderTypeOK'
  <2>1. dl_get_proc(my_dl, n) \in Procs
    BY <1>5, ProcIsTyped
  <2> QED BY <1>1, <1>3, <2>1, SameFile DEF IInv, LoaderTypeOK
<1>7. ImagePlaced' /\ HeaderKept' /\ LinkedSoFar'
  BY <1>1, <1>3, PlacedStays DEF Entered
<1>8. HeaderChecked' /\ FilledIn' /\ MainFound'
  BY <1>1, <1>3 DEF IInv, HeaderChecked, FilledIn, MainFound, BeforeLink
<1>9. at = "entry" => dl_get_proc(my_dl, n) = ccos_get_builtin_proc(n)
  BY EmptyExportsNothing, OthersAreBuiltin DEF IInv, FilledIn
<1>10. at = "main" => my_dl = file.sections
  BY DEF IInv, FilledIn
<1>11. AskedTrue'
  BY <1>1, <1>2, <1>9, <1>10 DEF AskedTrue
<1>12. NoNeedlessPanic'
  <2>1. CASE at' = at
    BY <1>1, <2>1 DEF NoNeedlessPanic
  <2>2. CASE asked'.proc = NoProc
    <3>1. Hits(my_dl, n) = {} /\ n \notin Builtins
      BY <1>2, <1>5, <2>2, OnlyUnknownFail
    <3>2. CASE at = "entry"
      BY <1>2, <2>2, <3>1, <3>2 DEF NoNeedlessPanic
    <3>3. CASE at = "main"
      <4>1. ~Known(n)
        BY <1>10, <3>1, <3>3 DEF Known, Hits, Exports
      <4>2. ~(n \in Builtins \/ \E k \in DOMAIN Exports' : Exports'[k].name = n)
        BY <1>1, <4>1, SameFile DEF Known
      <4> QED BY <1>2, <2>2, <3>3, <4>2 DEF NoNeedlessPanic, Known
    <3> QED BY <1>1, <3>2, <3>3
  <2> QED BY <1>3, <2>1, <2>2
<1> QED BY <1>6, <1>7, <1>8, <1>11, <1>12 DEF IInv

\* Steps of others keep the invariant.
LEMMA StutterKeeps ==
  ASSUME IInv, UNCHANGED vars PROVE IInv'
<1> USE DEF vars
<1>1. Imports' = Imports /\ Exports' = Exports
  BY SameFile
<1>2. LoaderTypeOK' /\ HeaderChecked' /\ FilledIn' /\ MainFound' /\ AskedTrue'
  BY <1>1 DEF IInv, LoaderTypeOK, HeaderChecked, FilledIn, MainFound, AskedTrue,
     BeforeLink
<1>3. ImagePlaced' /\ HeaderKept' /\ LinkedSoFar'
  BY <1>1 DEF IInv, ImagePlaced, HeaderKept, LinkedSoFar, BeforeLink, Entered, IsLinked
<1>4. NoNeedlessPanic'
  BY <1>1 DEF IInv, NoNeedlessPanic, Known
<1> QED BY <1>2, <1>3, <1>4 DEF IInv

-----------------------------------------------------------------------------
(***************************************************************************)
(* The theorems.                                                           *)
(***************************************************************************)

\* Every step of miniSYS and of the application keeps the invariant.
LEMMA NextKeeps ==
  ASSUME IInv, [Next]_vars PROVE IInv'
<1>1. CASE Loading
  BY <1>1, CheckHeaderKeeps, CopyImageKeeps, LinkImportKeeps, LinkFailsKeeps,
     CallEntryPointKeeps DEF Loading
<1>2. CASE EntryPointReturns
  BY <1>2, EntryPointReturnsKeeps
<1>3. CASE CallAppMain
  BY <1>3, CallAppMainKeeps
<1>4. CASE AppMainReturns
  BY <1>4, AppMainReturnsKeeps
<1>5. CASE \E n \in Names : AppGetsProc(n)
  BY <1>5, AppGetsProcKeeps
<1>6. CASE UNCHANGED vars
  BY <1>6, StutterKeeps
<1> QED BY <1>1, <1>2, <1>3, <1>4, <1>5, <1>6 DEF Next

\* The inductive invariant of the loader.
THEOREM LoaderInvariance == Spec => []IInv
<1>1. Init => IInv
  BY InitIInv
<1>2. IInv /\ [Next]_vars => IInv'
  BY NextKeeps
<1> QED BY <1>1, <1>2, PTL DEF Spec

\* The variables of the loader keep their types, for all files.
THEOREM LoaderTypes == Spec => []LoaderTypeOK
<1>1. IInv => LoaderTypeOK
  BY DEF IInv
<1> QED BY <1>1, LoaderInvariance, PTL

\* When the application's first instruction runs, each of its imports jumps
\* to the built-in function of its name.
THEOREM ApplicationsAreLinked == Spec => []ImportsLinked
<1>1. IInv => ImportsLinked
  <2> SUFFICES ASSUME IInv, Entered, NEW k \in DOMAIN Imports
               PROVE  IsLinked(Imports[k]) /\ Imports[k].name \in Builtins
    BY DEF ImportsLinked
  <2>1. Imports \in Seq(TableEntry)
    BY SlotsAreApart DEF IInv, LoaderTypeOK
  <2>2. import = Len(Imports) + 1
    BY DEF IInv, LinkedSoFar
  <2>3. k \in 1..(import - 1)
    BY <2>1, <2>2
  <2> QED BY <2>3 DEF IInv, LinkedSoFar
<1> QED BY <1>1, LoaderInvariance, PTL

\* Linking spoils nothing of the image.
THEOREM ImagesAreIntact == Spec => []ImageIntact
<1>1. IInv => ImageIntact
  BY DEF IInv, ImagePlaced, ImageIntact
<1> QED BY <1>1, LoaderInvariance, PTL

\* An exported name is found where the application has it.
LEMMA FoundAmongExports ==
  ASSUME IInv, NEW n, NEW p, p = dl_get_proc(file.sections, n),
         \/ n \notin Builtins /\ p # NoProc
         \/ \E k \in DOMAIN Exports : Exports[k].name = n
  PROVE  \E k \in DOMAIN Exports :
           Exports[k].name = n /\ p = AppProc(Exports[k].address)
<1>1. file.sections \in Seq(Section)
  BY FileIsTyped DEF IInv, LoaderTypeOK
<1>2. Hits(file.sections, n) # {}
  <2>1. CASE n \notin Builtins /\ p # NoProc
    BY <2>1, OthersAreBuiltin DEF ccos_get_builtin_proc
  <2>2. CASE \E k \in DOMAIN Exports : Exports[k].name = n
    BY <2>2 DEF Hits, Exports
  <2> QED BY <2>1, <2>2
<1> QED BY <1>1, <1>2, ExportedIsFound DEF Exports

\* AppMain is the application's own.
THEOREM AppMainIsOwn == Spec => []MainIsOwn
<1>1. IInv => MainIsOwn
  <2> SUFFICES ASSUME IInv, at \in {"main", "done"}, "AppMain" \notin Builtins
               PROVE  \E k \in DOMAIN Exports :
                        /\ Exports[k].name = "AppMain"
                        /\ main = AppProc(Exports[k].address)
    BY DEF MainIsOwn
  <2>1. main = dl_get_proc(file.sections, "AppMain") /\ main # NoProc
    BY DEF IInv, MainFound
  <2> QED BY <2>1, FoundAmongExports
<1> QED BY <1>1, LoaderInvariance, PTL

\* In AppMain, what the application exports comes before what is built in.
THEOREM OwnNamesComeFirst == Spec => []OwnNamesFirst
<1>1. IInv => OwnNamesFirst
  <2> SUFFICES ASSUME IInv, asked.from = "main",
                      \E k \in DOMAIN Exports : Exports[k].name = asked.name
               PROVE  \E j \in DOMAIN Exports :
                        /\ Exports[j].name = asked.name
                        /\ asked.proc = AppProc(Exports[j].address)
    BY DEF OwnNamesFirst
  <2>1. asked.proc = dl_get_proc(file.sections, asked.name)
    BY DEF IInv, AskedTrue
  <2> QED BY <2>1, FoundAmongExports
<1> QED BY <1>1, LoaderInvariance, PTL

\* miniSYS panics only for a reason.
THEOREM PanicsHaveReasons == Spec => []NoNeedlessPanic
<1>1. IInv => NoNeedlessPanic
  BY DEF IInv
<1> QED BY <1>1, LoaderInvariance, PTL

-----------------------------------------------------------------------------
(***************************************************************************)
(* The promise of AppLife.                                                 *)
(***************************************************************************)

\* Where there is neither code nor an import's jump, memory is as it was.
Untouched ==
  /\ BeforeLink => \A a \in Words : mem[a] = Nothing
  /\ at = "link" \/ Entered =>
       \A a \in Words \ CodeWords(file.sections[FirstSection(file.sections, "code")]) :
         (\A k \in DOMAIN Imports : a \notin Slot(Imports[k])) => mem[a] = Nothing

\* No step touches other memory.
LEMMA UntouchedKeeps ==
  ASSUME IInv, Untouched, [Next]_vars
  PROVE  Untouched'
<1> DEFINE k == FirstSection(file.sections, "code")
           code == file.sections[k]
<1>1. CASE CopyImage
  <2>1. Imports' = Imports /\ file' = file
    BY <1>1, SameFile DEF CopyImage
  <2>2. CASE k = 0
    BY <1>1, <2>2 DEF CopyImage, Panic, Untouched, BeforeLink, Entered
  <2>3. CASE k # 0
    <3>1. /\ at' = "link"
          /\ mem' = [a \in Words |-> IF a \in CodeWords(code)
                                     THEN ImageWord(a - code.load) ELSE mem[a]]
      BY <1>1, <2>3 DEF CopyImage
    <3>2. \A a \in Words : mem[a] = Nothing
      BY <1>1 DEF CopyImage, Untouched, BeforeLink
    <3>3. \A a \in Words \ CodeWords(code) : mem'[a] = Nothing
      BY <3>1, <3>2
    <3> QED
      BY <2>1, <3>1, <3>3 DEF Untouched, BeforeLink
  <2> QED
    BY <2>2, <2>3
<1>2. CASE LinkImport
  <2>1. Imports' = Imports /\ file' = file /\ at = "link" /\ at' = "link"
    BY <1>2, SameFile DEF LinkImport
  <2>2. mem \in [Words -> Contents] /\ import \in DOMAIN Imports
    <3>1. Imports \in Seq(TableEntry)
      BY SlotsAreApart DEF IInv, LoaderTypeOK
    <3> QED
      BY <1>2, <3>1 DEF LinkImport, IInv, LoaderTypeOK
  <2>3. PICK e : e = Imports[import]
    OBVIOUS
  <2>4. mem' = [mem EXCEPT ![e.address] = Ldr, ![e.address + 1] = Pointer(e.name)]
    BY <1>2, <2>3 DEF LinkImport
  <2>5. \A a \in Words : a \notin Slot(e) => mem'[a] = mem[a]
    BY <2>2, <2>4 DEF Slot
  <2>6. ASSUME NEW a \in Words \ CodeWords(code),
               \A j \in DOMAIN Imports : a \notin Slot(Imports[j])
        PROVE  mem'[a] = Nothing
    BY <2>1, <2>2, <2>3, <2>5, <2>6 DEF Untouched
  <2> QED
    BY <2>1, <2>6 DEF Untouched, BeforeLink
<1>3. ASSUME UNCHANGED <<file, mem>>, BeforeLink' => BeforeLink,
             at' = "link" \/ Entered' => at = "link" \/ Entered
      PROVE  Untouched'
  <2>1. Imports' = Imports
    BY <1>3, SameFile
  <2> QED
    BY <1>3, <2>1 DEF Untouched
<1>4. CASE CheckHeader \/ LinkFails \/ CallEntryPoint
  BY <1>3, <1>4 DEF CheckHeader, LinkFails, CallEntryPoint, Panic, BeforeLink, Entered
<1>5. CASE EntryPointReturns \/ CallAppMain \/ AppMainReturns
  BY <1>3, <1>5 DEF EntryPointReturns, CallAppMain, AppMainReturns, Panic,
                    BeforeLink, Entered
<1>6. ASSUME NEW n \in Names, AppGetsProc(n) PROVE Untouched'
  BY <1>3, <1>6 DEF AppGetsProc, Panic, BeforeLink, Entered
<1>7. CASE UNCHANGED vars
  BY <1>3, <1>7 DEF vars, BeforeLink, Entered
<1> QED
  BY <1>1, <1>2, <1>4, <1>5, <1>6, <1>7 DEF Next, Loading

LifeInv == IInv /\ Untouched

LEMMA LifeInvariance == Spec => []LifeInv
<1>1. Init => Untouched
  BY DEF Init, Untouched, BeforeLink, Entered
<1>2. LifeInv /\ [Next]_vars => LifeInv'
  BY NextKeeps, UntouchedKeeps DEF LifeInv
<1>3. Init => LifeInv
  BY <1>1, InitIInv DEF LifeInv
<1> QED
  BY <1>2, <1>3, PTL DEF Spec

\* The loader and its promise read the file alike.
LEMMA SameReading ==
  /\ Life!Imports = Imports /\ Life!Exports = Exports
  /\ Life!Code = FirstSection(file.sections, "code")
  /\ \A e : Life!Slot(e) = Slot(e)
  /\ \A code : Life!CodeWords(code) = CodeWords(code)
BY DEF Life!Imports, Imports, Life!Exports, Exports, Life!Code, Life!EntriesOf,
       EntriesOf, Life!FirstSection, FirstSection, Life!Slot, Slot,
       Life!CodeWords, CodeWords

LEMMA SameContents ==
  /\ Life!Nothing = Nothing /\ Life!Ldr = Ldr /\ Life!NoProc = NoProc
  /\ \A k : Life!ImageWord(k) = ImageWord(k)
  /\ \A n : Life!Pointer(n) = Pointer(n)
  /\ \A a : Life!AppProc(a) = AppProc(a)
  /\ \A n : Life!ccos_get_builtin_proc(n) = ccos_get_builtin_proc(n)
BY DEF Life!Nothing, Nothing, Life!Ldr, Ldr, Life!NoProc, NoProc,
       Life!ImageWord, ImageWord, Life!Pointer, Pointer, Life!AppProc, AppProc,
       Life!ccos_get_builtin_proc, ccos_get_builtin_proc, Life!SysProc, SysProc

\* The memory an application is entered in is as promised.
LEMMA EnteredLinked ==
  ASSUME LifeInv, at = "link", import = Len(Imports) + 1
  PROVE  Life!Linked(mem)
<1> DEFINE k == FirstSection(file.sections, "code")
           code == file.sections[k]
<1>1. mem \in [Words -> Contents] /\ Imports \in Seq(TableEntry)
  BY SlotsAreApart DEF LifeInv, IInv, LoaderTypeOK
<1>2. ASSUME NEW j \in DOMAIN Imports
      PROVE  mem[Imports[j].address] = Ldr /\ mem[Imports[j].address + 1] = Pointer(Imports[j].name)
  <2>1. j \in 1..(import - 1)
    BY <1>1
  <2> QED
    BY <2>1 DEF LifeInv, IInv, LinkedSoFar, IsLinked
<1>3. ASSUME NEW a \in Words, \A j \in DOMAIN Imports : a \notin Slot(Imports[j])
      PROVE  mem[a] = IF a \in CodeWords(code) THEN ImageWord(a - code.load) ELSE Nothing
  <2>1. CASE a \in CodeWords(code)
    BY <1>3, <2>1 DEF LifeInv, IInv, ImagePlaced
  <2>2. CASE a \notin CodeWords(code)
    BY <1>3, <2>2 DEF LifeInv, Untouched
  <2> QED
    BY <2>1, <2>2
<1>4. /\ Life!Imports = Imports /\ Life!Code = k /\ DOMAIN mem = Words
  BY <1>1, SameReading
<1> QED
  BY <1>2, <1>3, <1>4, SameReading, SameContents DEF Life!Linked

\* What dl_get_proc finds is an answer as promised.
LEMMA FoundIsAnswer ==
  ASSUME IInv, NEW n
  PROVE  Life!Answers(dl_get_proc(file.sections, n), n)
<1>1. Life!Exports = Exports /\ Exports = EntriesOf(file.sections, "export")
  BY SameReading DEF Exports
<1>2. CASE \E k \in DOMAIN Exports : Exports[k].name = n
  <2>1. \E k \in DOMAIN Exports :
          /\ Exports[k].name = n
          /\ dl_get_proc(file.sections, n) = AppProc(Exports[k].address)
    BY <1>2, FoundAmongExports
  <2> QED
    BY <1>1, <1>2, <2>1, SameContents DEF Life!Answers
<1>3. CASE ~ \E k \in DOMAIN Exports : Exports[k].name = n
  <2>1. Hits(file.sections, n) = {}
    BY <1>1, <1>3 DEF Hits
  <2>2. dl_get_proc(file.sections, n) = ccos_get_builtin_proc(n)
    BY <2>1, OthersAreBuiltin
  <2> QED
    BY <1>1, <1>3, <2>2, SameContents DEF Life!Answers
<1> QED
  BY <1>2, <1>3

\* Each step of the loader is a step of the application's life, or none.
LEMMA LifeStep ==
  ASSUME LifeInv, LifeInv', [Next]_vars
  PROVE  [Life!Next]_(Life!vars)
<1> DEFINE image == IF Entered THEN mem ELSE <<>>
           same == UNCHANGED <<file, Stage, image, entry, main, asked>>
<1>1. ASSUME same PROVE UNCHANGED Life!vars
  BY <1>1 DEF Life!vars
<1>2. ASSUME UNCHANGED <<file, entry, main, asked>>, Stage = "loading", at' = "panicked",
             ~Life!Loadable
      PROVE  Life!Refuse
  BY <1>2 DEF Life!Refuse, Life!Panics, Stage, Entered
<1>3. ASSUME UNCHANGED <<file, entry, main, asked>>, Stage = "loading", Stage' = "loading"
      PROVE  UNCHANGED Life!vars
  <2>1. ~Entered /\ ~Entered'
    BY <1>3 DEF Stage, Entered
  <2> QED
    BY <1>1, <1>3, <2>1
<1>4. CASE CheckHeader
  <2>1. Stage = "loading" /\ UNCHANGED <<file, entry, main, asked>>
    BY <1>4 DEF CheckHeader, Stage
  <2>2. CASE file.valid
    BY <1>3, <1>4, <2>1, <2>2 DEF CheckHeader, Stage
  <2>3. CASE ~file.valid
    BY <1>2, <1>4, <2>1, <2>3 DEF CheckHeader, Panic, Life!Loadable, Life!Next
  <2> QED
    BY <2>2, <2>3
<1>5. CASE CopyImage
  <2>1. Stage = "loading" /\ UNCHANGED <<file, entry, main, asked>>
    BY <1>5 DEF CopyImage, Stage
  <2>2. CASE FirstSection(file.sections, "code") # 0
    BY <1>3, <1>5, <2>1, <2>2 DEF CopyImage, Stage
  <2>3. CASE FirstSection(file.sections, "code") = 0
    BY <1>2, <1>5, <2>1, <2>3, SameReading DEF CopyImage, Panic, Life!Loadable, Life!Next
  <2> QED
    BY <2>2, <2>3
<1>6. CASE LinkImport
  BY <1>3, <1>6 DEF LinkImport, Stage
<1>7. CASE LinkFails
  <2>1. import \in DOMAIN Imports
    <3>1. Imports \in Seq(TableEntry)
      BY SlotsAreApart DEF LifeInv, IInv, LoaderTypeOK
    <3> QED
      BY <1>7, <3>1 DEF LinkFails, LifeInv, IInv, LoaderTypeOK
  <2>2. ~Life!Loadable
    BY <1>7, <2>1, SameReading DEF LinkFails, Life!Loadable
  <2> QED
    BY <1>2, <1>7, <2>2 DEF LinkFails, Panic, Stage, Life!Next
<1>8. CASE CallEntryPoint
  <2>1. Life!Loadable
    <3>1. file.valid /\ FirstSection(file.sections, "code") # 0
      BY <1>8 DEF CallEntryPoint, LifeInv, IInv, HeaderChecked, ImagePlaced
    <3>2. \A j \in 1..(import - 1) : Imports[j].name \in Builtins
      BY <1>8 DEF CallEntryPoint, LifeInv, IInv, LinkedSoFar
    <3>3. Imports \in Seq(TableEntry)
      BY SlotsAreApart DEF LifeInv, IInv, LoaderTypeOK
    <3>4. \A j \in DOMAIN Imports : Imports[j].name \in Builtins
      BY <1>8, <3>2, <3>3 DEF CallEntryPoint
    <3> QED
      BY <3>1, <3>4, SameReading DEF Life!Loadable
  <2>2. Life!Linked(mem)
    BY <1>8, EnteredLinked DEF CallEntryPoint
  <2>3. /\ Stage = "loading" /\ Stage' = "entry" /\ image' = mem
        /\ UNCHANGED <<file, mem, main, asked>>
    BY <1>8 DEF CallEntryPoint, Stage, Entered
  <2>4. Life!Linked(image')
    BY <2>2, <2>3
  <2>5. entry' = Life!AppProc(file.sections[Life!Code].entry)
    BY <1>8, SameReading, SameContents
    DEF CallEntryPoint, LifeInv, IInv, HeaderKept
  <2> QED
    BY <2>1, <2>3, <2>4, <2>5 DEF Life!Load, Life!Next
<1>9. CASE EntryPointReturns
  <2>1. /\ Stage = "entry" /\ Stage' = "lookup" /\ image' = image
        /\ UNCHANGED <<file, entry, main, asked>>
    BY <1>9 DEF EntryPointReturns, Stage, Entered
  <2> QED
    BY <2>1 DEF Life!EntryReturns, Life!Next
<1>10. CASE CallAppMain
  <2>1. main' = dl_get_proc(file.sections, "AppMain") /\ Life!Answers(main', "AppMain")
    <3>1. my_dl = file.sections
      BY <1>10 DEF CallAppMain, LifeInv, IInv, FilledIn
    <3> QED
      BY <1>10, <3>1, FoundIsAnswer DEF CallAppMain, LifeInv
  <2>2. Stage = "lookup" /\ Entered /\ UNCHANGED <<file, mem, entry, asked>>
    BY <1>10 DEF CallAppMain, Stage, Entered
  <2>3. CASE main' = NoProc
    <3>1. Stage' = "panicked" /\ image' = <<>>
      BY <1>10, <2>3 DEF CallAppMain, Panic, Stage, Entered
    <3> QED
      BY <2>1, <2>2, <2>3, <3>1, SameContents DEF Life!CallMain, Life!Panics, Life!Next
  <2>4. CASE main' # NoProc
    <3>1. Stage' = "main" /\ image' = image
      BY <1>10, <2>2, <2>4 DEF CallAppMain, Stage, Entered
    <3> QED
      BY <2>1, <2>2, <2>4, <3>1, SameContents DEF Life!CallMain, Life!Next
  <2> QED
    BY <2>3, <2>4
<1>11. CASE AppMainReturns
  <2>1. /\ Stage = "main" /\ Stage' = "done" /\ image' = image
        /\ UNCHANGED <<file, entry, main, asked>>
    BY <1>11 DEF AppMainReturns, Stage, Entered
  <2> QED
    BY <2>1 DEF Life!MainReturns, Life!Next
<1>12. ASSUME NEW n \in Names, AppGetsProc(n) PROVE Life!Next
  <2>1. /\ at \in {"entry", "main"} /\ Stage = at /\ Entered
        /\ UNCHANGED <<file, mem, entry, main>>
    BY <1>12 DEF AppGetsProc, Stage, Entered
  <2>2. asked' = [name |-> n, proc |-> dl_get_proc(my_dl, n), from |-> at]
    BY <1>12 DEF AppGetsProc
  <2>3. asked'.name = n /\ asked'.from = Stage /\ asked'.proc = dl_get_proc(my_dl, n)
    BY <2>1, <2>2
  <2>4. IF Stage = "main" THEN Life!Answers(asked'.proc, n)
                          ELSE asked'.proc = Life!ccos_get_builtin_proc(n)
    <3>1. CASE at = "main"
      BY <2>1, <2>3, <3>1, FoundIsAnswer DEF LifeInv, IInv, FilledIn
    <3>2. CASE at = "entry"
      <4>1. my_dl = <<>>
        BY <3>2 DEF LifeInv, IInv, FilledIn
      <4>2. asked'.proc = ccos_get_builtin_proc(n)
        BY <2>3, <4>1, EmptyExportsNothing, OthersAreBuiltin
      <4> QED
        BY <2>1, <3>2, <4>2, SameContents
    <3> QED
      BY <2>1, <3>1, <3>2
  <2>5. IF asked'.proc = Life!NoProc THEN Stage' = "panicked" /\ image' = <<>>
                                     ELSE Stage' = Stage /\ image' = image
    BY <1>12, <2>1, SameContents DEF AppGetsProc, Panic, Stage, Entered
  <2>6. Life!Ask(n)
    BY <2>1, <2>3, <2>4, <2>5 DEF Life!Ask, Life!Panics
  <2> QED
    BY <2>6 DEF Life!Next
<1>13. CASE UNCHANGED vars
  BY <1>1, <1>13 DEF vars, Stage, Entered
<1> QED
  BY <1>4, <1>5, <1>6, <1>7, <1>8, <1>9, <1>10, <1>11, <1>12, <1>13
  DEF Next, Loading

\* The loader keeps its promise, for every file and whatever the application
\* asks for.
THEOREM KeepsAppLife == Spec => ImplementsAppLife
<1>1. Init => Life!Init
  BY SameContents DEF Init, Unasked, Life!Init, Stage, Entered
<1>2. LifeInv /\ LifeInv' /\ [Next]_vars => [Life!Next]_(Life!vars)
  BY LifeStep
<1> QED
  BY <1>1, <1>2, LifeInvariance, PTL DEF Spec, Life!Spec, ImplementsAppLife

-----------------------------------------------------------------------------
\* A load ends after as many steps as the file has imports, and a few more.
THEOREM LoadsAreShort == Spec => LoadWorkFalls
<1>1. ASSUME IInv, [Next]_vars, at = "header" \/ at = "image" \/ at = "link"
      PROVE  UNCHANGED vars \/ (LoadWork \in Nat /\ LoadWork' < LoadWork)
  <2>1. PICK n \in Nat : n = Len(Imports)
    BY <1>1, SlotsAreApart DEF IInv, LoaderTypeOK
  <2>2. import \in 1..(n + 1) /\ (at # "link" => import = 1)
    BY <1>1, <2>1 DEF IInv, LoaderTypeOK, LinkedSoFar, BeforeLink
  <2>3. LoadWork = CASE at = "header" -> n + 4 [] at = "image" -> n + 3
                     [] at = "link" -> n + 2 - import [] OTHER -> 0
    BY <2>1 DEF LoadWork
  <2>4. Imports' = Imports =>
          LoadWork' = CASE at' = "header" -> n + 4 [] at' = "image" -> n + 3
                        [] at' = "link" -> n + 2 - import' [] OTHER -> 0
    BY <2>1 DEF LoadWork
  <2>5. CASE Loading
    <3>1. Imports' = Imports
      BY <2>5, SameFile DEF Loading, CheckHeader, CopyImage, LinkImport,
                            LinkFails, CallEntryPoint
    <3>2. \/ at = "header" /\ at' \in {"image", "panicked"} /\ import' = import
          \/ at = "image" /\ at' \in {"link", "panicked"} /\ import' = import
          \/ at = "link" /\ at' = "link" /\ import <= n /\ import' = import + 1
          \/ at = "link" /\ at' \in {"entry", "panicked"}
      BY <2>1, <2>5 DEF Loading, CheckHeader, CopyImage, LinkImport, LinkFails,
                        CallEntryPoint, Panic
    <3>3. LoadWork' = CASE at' = "header" -> n + 4 [] at' = "image" -> n + 3
                        [] at' = "link" -> n + 2 - import' [] OTHER -> 0
      BY <2>4, <3>1
    <3>4. CASE at = "header"
      BY <2>1, <2>2, <2>3, <3>2, <3>3, <3>4
    <3>5. CASE at = "image"
      BY <2>1, <2>2, <2>3, <3>2, <3>3, <3>5
    <3>6. CASE at = "link"
      <4>1. PICK i \in 1..(n + 1) : i = import
        BY <2>2
      <4>2. LoadWork = n + 2 - i
        BY <2>3, <3>6, <4>1
      <4>3. CASE at' = "link"
        <5>1. LoadWork' = n + 2 - (i + 1)
          BY <3>2, <3>3, <3>6, <4>1, <4>3
        <5> QED
          BY <2>1, <4>1, <4>2, <5>1
      <4>4. CASE at' # "link"
        <5>1. LoadWork' = 0
          BY <3>2, <3>3, <3>6, <4>4
        <5> QED
          BY <2>1, <4>1, <4>2, <5>1
      <4> QED
        BY <4>3, <4>4
    <3> QED
      BY <1>1, <3>4, <3>5, <3>6
  <2>6. CASE ~Loading
    BY <1>1, <2>6 DEF Next, EntryPointReturns, CallAppMain, AppMainReturns, AppGetsProc
  <2> QED
    BY <2>5, <2>6
<1>2. IInv /\ [Next]_vars =>
        [(at = "header" \/ at = "image" \/ at = "link") =>
           LoadWork \in Nat /\ LoadWork' < LoadWork]_vars
  BY <1>1
<1> QED
  BY <1>2, LoaderInvariance, PTL DEF Spec, LoadWorkFalls

=============================================================================
