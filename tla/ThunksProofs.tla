---------------------------- MODULE ThunksProofs ----------------------------
(***************************************************************************)
(* For every api.csv, the three walks of make-thunks.py agree.  Each part  *)
(* of the invariant says what one output looks like up to the row its walk *)
(* has reached; the index of an entry is described by that of the entry    *)
(* before it, so that no counting over the file is needed.                 *)
(***************************************************************************)
EXTENDS Thunks, TLAPS

\* The entries of the first walk repeat the rows they were made from.
Entries ==
  /\ Len(all_) <= Len(csv)
  /\ \A k \in 1..Len(all_) : /\ all_[k].name = csv[k].name
                             /\ all_[k].type = csv[k].type
                             /\ all_[k].c_name = CName(csv[k])
  /\ IF phase = "rows" THEN cursor = Len(all_) + 1 ELSE Len(all_) = Len(csv)

\* The number the first walk goes on with behind entry k.
Behind(k) ==
  IF k = 0 THEN 0
  ELSE IF all_[k].type = "EMU" THEN all_[k].index + 1 ELSE all_[k].index

Numbering ==
  /\ \A k \in 1..Len(all_) : all_[k].index = Behind(k - 1)
  /\ next_svc = Behind(Len(all_))

\* A function was emitted for a row, and its SVC has the index of the entry.
EmittedFor(f, k) ==
  /\ all_[k].type # "MINISYS"
  /\ f = CName(csv[k]) /\ thunks[f] = Body(csv[k], all_[k].index)

Emitted ==
  /\ \A f \in DOMAIN thunks : \E k \in 1..Len(all_) : EmittedFor(f, k)
  /\ \A k \in 1..Len(all_) :
       all_[k].type # "MINISYS" => CName(csv[k]) \in DOMAIN thunks

\* The handler of entry k is where its SVC will look for it.
Placed(k) ==
  all_[k].type = "EMU" =>
    /\ all_[k].index + 1 \in 1..Len(svc_handler_table)
    /\ svc_handler_table[all_[k].index + 1] = all_[k].name

Handlers ==
  /\ phase = "rows" => svc_handler_table = <<>>
  /\ phase = "handlers" =>
       /\ Len(svc_handler_table) = Behind(cursor - 1)
       /\ \A k \in 1..Len(all_) : k < cursor => Placed(k)
  /\ phase \in {"functions", "ready"} => \A k \in 1..Len(all_) : Placed(k)

Functions ==
  LET FilledTo(n) ==
        \A k \in 1..n : os_function_table[k] = [name |-> csv[k].name,
                                                addr |-> CName(csv[k])]
  IN /\ phase \in {"rows", "handlers"} => os_function_table = <<>>
     /\ phase = "functions" => /\ Len(os_function_table) = cursor - 1
                               /\ FilledTo(cursor - 1)
     /\ phase = "ready" => /\ Len(os_function_table) = Len(csv) + 1
                           /\ FilledTo(Len(csv))
                           /\ os_function_table[Len(csv) + 1] = Sentinel

BuildTypes ==
  /\ csv \in Csvs
  /\ phase \in {"rows", "handlers", "functions", "ready"}
  /\ cursor \in 1..(Len(csv) + 1)
  /\ next_svc \in Nat
  /\ all_ \in Seq(Entry)
  /\ svc_handler_table \in Seq(Names)
  /\ os_function_table \in Seq([name : Names, addr : CNames] \cup {Sentinel})

BuildInv ==
  /\ BuildTypes
  /\ Entries
  /\ Numbering
  /\ Emitted
  /\ Handlers
  /\ Functions

\* Nothing is linked or called before the build is over.
Running ==
  /\ phase # "ready" => want = NoName /\ DOMAIN linked = {} /\ ran = <<>>
  /\ want \in Names \cup {NoName}
  /\ want # NoName => scan \in 1..(Len(csv) + 1)
  /\ \A n \in DOMAIN linked :
       \E k \in DOMAIN csv : csv[k].name = n /\ linked[n] = CName(csv[k])
  /\ DispatchesOwn

IInv == BuildInv /\ Running

-----------------------------------------------------------------------------
\* What is known of the rows of a file.
LEMMA CsvFacts ==
  ASSUME csv \in Csvs
  PROVE  /\ csv \in Seq(Row) /\ Len(csv) \in Nat /\ DOMAIN csv = 1..Len(csv)
         /\ \A k \in 1..Len(csv) : /\ csv[k] \in Row
                                   /\ csv[k].name \in Names /\ csv[k].type \in Types
                                   /\ CName(csv[k]) \in CNames
                                   /\ ThunkName(csv[k]) = CName(csv[k])
         /\ \A j, k \in 1..Len(csv) : csv[j].name = csv[k].name => j = k
<1>1. /\ csv \in Seq(Row) /\ Len(csv) \in Nat /\ DOMAIN csv = 1..Len(csv)
      /\ \A j, k \in 1..Len(csv) : csv[j].name = csv[k].name => j = k
  BY ThunksAssumption
<1>2. \A k \in 1..Len(csv) : csv[k] \in Row
  BY <1>1
<1>3. \A r \in Row : r.name \in Names /\ r.type \in Types /\ CName(r) \in CNames
  BY DEF Row, CName, CNames
<1>4. \A k \in 1..Len(csv) : csv[k].type = "EMU" => csv[k].declares = csv[k].name
  BY <1>1, ThunksAssumption
<1>5. ASSUME NEW k \in 1..Len(csv) PROVE ThunkName(csv[k]) = CName(csv[k])
  <2>1. PICK row \in Row : row = csv[k] /\ CName(row) \in CNames
    BY <1>2, <1>3
  <2>2. CName(row).of = row.name
    BY DEF CName
  <2>3. row.type = "EMU" => row.declares = row.name
    BY <1>4, <2>1
  <2>4. PICK f \in CNames : f = CName(row)
    BY <2>1
  <2>5. ThunkName(row) = [f EXCEPT !.of = f.of]
    BY <2>2, <2>3, <2>4 DEF ThunkName
  <2> QED
    BY <2>1, <2>4, <2>5 DEF CNames
<1> QED
  BY <1>1, <1>2, <1>3, <1>5

\* Two rows have different C names.
LEMMA CNamesDiffer ==
  ASSUME csv \in Csvs, NEW j \in 1..Len(csv), NEW k \in 1..Len(csv),
         CName(csv[j]) = CName(csv[k])
  PROVE  j = k
BY CsvFacts DEF CName

\* Before the first walk nothing has been emitted.
LEMMA ThunksInit == Init => IInv
<1> SUFFICES ASSUME Init PROVE IInv
  OBVIOUS
<1>1. BuildTypes
  BY CsvFacts DEF Init, BuildTypes
<1>2. Entries /\ Numbering /\ Emitted /\ Handlers /\ Functions
  BY CsvFacts DEF Init, Entries, Numbering, Behind, Emitted, Handlers, Functions
<1>3. Running
  BY CsvFacts DEF Init, Running, DispatchesOwn
<1> QED
  BY <1>1, <1>2, <1>3 DEF IInv, BuildInv

\* The first walk keeps the invariant.
LEMMA EmitThunkStep ==
  ASSUME IInv, EmitThunk
  PROVE  BuildInv'
<1> USE DEF IInv, BuildInv
<1>1. PICK n \in 1..Len(csv) : n = cursor
  BY CsvFacts DEF EmitThunk, BuildTypes
<1>2. PICK row \in Row : /\ row = csv[n] /\ row.type \in Types /\ CName(row) \in CNames
                        /\ ThunkName(row) = CName(row)
  BY CsvFacts DEF BuildTypes
<1>3. PICK e \in Entry : e = [index |-> next_svc, name |-> row.name,
                              c_name |-> CName(row), type |-> row.type]
  BY <1>2 DEF Entry, Row, BuildTypes
<1>4. /\ phase = "rows" /\ Len(all_) = n - 1 /\ n \in Nat /\ all_ \in Seq(Entry)
      /\ all_' = Append(all_, e) /\ Len(all_') = n
      /\ all_'[n] = e
      /\ \A k \in 1..(n - 1) : all_'[k] = all_[k]
      /\ cursor' = n + 1
      /\ UNCHANGED <<csv, phase, svc_handler_table, os_function_table>>
  BY <1>1, <1>2, <1>3 DEF EmitThunk, Entries, BuildTypes
<1>5. /\ e.index = next_svc /\ e.type = row.type /\ e.name = row.name
      /\ e.c_name = CName(row)
  BY <1>3
<1>6. BuildTypes'
  BY <1>1, <1>2, <1>4, CsvFacts DEF EmitThunk, BuildTypes
<1>7. Entries'
  BY <1>1, <1>2, <1>4, <1>5 DEF Entries
<1>8. Numbering'
  <2>1. \A k \in 0..(n - 1) : Behind(k)' = Behind(k)
    BY <1>4 DEF Behind
  <2>2. next_svc' = Behind(n)'
    BY <1>1, <1>2, <1>4, <1>5 DEF EmitThunk, Behind
  <2>3. \A k \in 1..n : all_'[k].index = Behind(k - 1)'
    BY <1>4, <1>5, <2>1 DEF Numbering
  <2> QED
    BY <1>4, <2>2, <2>3 DEF Numbering
<1>9. Emitted'
  <2>1. CASE row.type = "MINISYS"
    <3>1. thunks' = thunks
      BY <1>1, <1>2, <2>1 DEF EmitThunk
    <3> QED
      BY <1>4, <1>5, <2>1, <3>1 DEF Emitted, EmittedFor
  <2>2. CASE row.type # "MINISYS"
    <3>1. PICK f \in CNames : f = CName(row)
      BY <1>2
    <3>2. /\ DOMAIN thunks' = DOMAIN thunks \cup {f}
          /\ thunks'[f] = Body(row, next_svc)
          /\ \A g \in DOMAIN thunks : g # f => thunks'[g] = thunks[g]
      BY <1>1, <1>2, <2>2, <3>1 DEF EmitThunk
    <3>3. EmittedFor(f, n)'
      BY <1>2, <1>4, <1>5, <2>2, <3>1, <3>2 DEF EmittedFor
    <3>4. \A g \in DOMAIN thunks : g # f =>
            \E k \in 1..(n - 1) : EmittedFor(g, k)'
      BY <1>4, <3>2 DEF Emitted, EmittedFor
    <3>5. \A g \in DOMAIN thunks' : \E k \in 1..n : EmittedFor(g, k)'
      BY <1>4, <3>2, <3>3, <3>4
    <3>6. \A k \in 1..n : all_'[k].type # "MINISYS" => CName(csv[k]) \in DOMAIN thunks'
      BY <1>2, <1>4, <3>1, <3>2 DEF Emitted
    <3> QED
      BY <1>4, <3>5, <3>6 DEF Emitted
  <2> QED
    BY <2>1, <2>2
<1>10. Handlers' /\ Functions'
  BY <1>4 DEF Handlers, Functions
<1> QED
  BY <1>6, <1>7, <1>8, <1>9, <1>10

\* The second walk: the number of handlers written so far is the index of
\* the next entry, so a handler lands where its SVC will look for it.
LEMMA EmitHandlerStep ==
  ASSUME IInv, EmitHandler
  PROVE  BuildInv'
<1> USE DEF IInv, BuildInv
<1>1. PICK n \in 1..Len(all_) : n = cursor
  BY DEF EmitHandler, BuildTypes
<1>2. /\ phase = "handlers" /\ n \in Nat /\ cursor' = n + 1
      /\ all_ \in Seq(Entry) /\ all_[n] \in Entry /\ Len(all_) = Len(csv)
      /\ UNCHANGED <<csv, phase, next_svc, all_, thunks, os_function_table>>
  BY <1>1 DEF EmitHandler, Entries, BuildTypes
<1>3. /\ svc_handler_table \in Seq(Names)
      /\ Len(svc_handler_table) = Behind(n - 1)
      /\ all_[n].index = Behind(n - 1) /\ all_[n].index \in Nat
      /\ \A k \in 1..(n - 1) : Placed(k)
  <2>1. svc_handler_table \in Seq(Names) /\ all_[n].index \in Nat
    BY <1>2 DEF BuildTypes, Entry
  <2>2. all_[n].index = Behind(n - 1)
    BY <1>1 DEF Numbering
  <2>3. /\ Len(svc_handler_table) = Behind(n - 1)
        /\ \A k \in 1..(n - 1) : Placed(k)
    BY <1>1, <1>2 DEF Handlers
  <2> QED
    BY <2>1, <2>2, <2>3
<1>4. Len(svc_handler_table') = Behind(n)' /\ \A k \in 1..n : Placed(k)'
  <2>1. CASE all_[n].type = "EMU"
    <3>1. /\ svc_handler_table' = Append(svc_handler_table, all_[n].name)
          /\ Len(svc_handler_table') = all_[n].index + 1
          /\ svc_handler_table'[all_[n].index + 1] = all_[n].name
          /\ \A i \in 1..Len(svc_handler_table) :
               svc_handler_table'[i] = svc_handler_table[i]
      BY <1>1, <1>3, <2>1 DEF EmitHandler
    <3>2. Len(svc_handler_table') = Behind(n)'
      BY <1>2, <2>1, <3>1 DEF Behind
    <3>3. Placed(n)'
      BY <1>2, <1>3, <3>1 DEF Placed
    <3>4. \A k \in 1..(n - 1) : Placed(k)'
      BY <1>2, <1>3, <3>1 DEF Placed
    <3> QED
      BY <1>2, <3>2, <3>3, <3>4
  <2>2. CASE all_[n].type # "EMU"
    <3>1. svc_handler_table' = svc_handler_table
      BY <1>1, <2>2 DEF EmitHandler
    <3>2. Len(svc_handler_table') = Behind(n)'
      BY <1>2, <1>3, <2>2, <3>1 DEF Behind
    <3>3. \A k \in 1..n : Placed(k)'
      BY <1>2, <1>3, <2>2, <3>1 DEF Placed
    <3> QED
      BY <3>2, <3>3
  <2> QED
    BY <2>1, <2>2
<1>5. Handlers'
  BY <1>2, <1>4 DEF Handlers
<1>6. BuildTypes'
  <2>1. svc_handler_table' \in Seq(Names)
    BY <1>1, <1>2, <1>3 DEF EmitHandler, Entry
  <2> QED
    BY <1>1, <1>2, <2>1 DEF BuildTypes
<1>7. Entries' /\ Numbering' /\ Functions'
  BY <1>2 DEF Entries, Numbering, Behind, Functions
<1>8. Emitted'
  BY <1>2 DEF Emitted, EmittedFor
<1> QED
  BY <1>5, <1>6, <1>7, <1>8

\* The third walk.
LEMMA EmitFunctionStep ==
  ASSUME IInv, EmitFunction
  PROVE  BuildInv'
<1> USE DEF IInv, BuildInv
<1>1. PICK n \in 1..Len(all_) : n = cursor
  BY DEF EmitFunction, BuildTypes
<1>2. /\ phase = "functions" /\ n \in Nat /\ cursor' = n + 1
      /\ Len(all_) = Len(csv) /\ all_ \in Seq(Entry) /\ all_[n] \in Entry
      /\ UNCHANGED <<csv, phase, next_svc, all_, thunks, svc_handler_table>>
  BY <1>1 DEF EmitFunction, Entries, BuildTypes
<1>3. PICK f \in [name : Names, addr : CNames] :
        f = [name |-> csv[n].name, addr |-> CName(csv[n])]
  BY <1>2, CsvFacts DEF BuildTypes
<1>4. /\ os_function_table \in Seq([name : Names, addr : CNames] \cup {Sentinel})
      /\ Len(os_function_table) = n - 1
      /\ os_function_table' = Append(os_function_table, f)
  BY <1>1, <1>2, <1>3 DEF EmitFunction, Functions, Entries, BuildTypes
<1>5. /\ Len(os_function_table') = n
      /\ os_function_table'[n] = f
      /\ \A k \in 1..(n - 1) : os_function_table'[k] = os_function_table[k]
      /\ os_function_table' \in Seq([name : Names, addr : CNames] \cup {Sentinel})
  BY <1>2, <1>4
<1>6. Functions'
  <2>1. \A k \in 1..(n - 1) :
          os_function_table[k] = [name |-> csv[k].name, addr |-> CName(csv[k])]
    BY <1>1, <1>2 DEF Functions
  <2>2. \A k \in 1..n :
          os_function_table'[k] = [name |-> csv[k].name, addr |-> CName(csv[k])]
    <3> SUFFICES ASSUME NEW k \in 1..n
                 PROVE  os_function_table'[k]
                          = [name |-> csv[k].name, addr |-> CName(csv[k])]
      OBVIOUS
    <3>1. CASE k = n
      BY <1>3, <1>5, <3>1
    <3>2. CASE k # n
      <4>1. k \in 1..(n - 1)
        BY <1>2, <3>2
      <4> QED
        BY <1>5, <2>1, <4>1
    <3> QED
      BY <3>1, <3>2
  <2>3. (\A k \in 1..(cursor - 1) :
           os_function_table[k] = [name |-> csv[k].name, addr |-> CName(csv[k])])'
    BY <1>2, <2>2
  <2> QED
    BY <1>2, <1>5, <2>3 DEF Functions
<1>7. BuildTypes'
  BY <1>1, <1>2, <1>5 DEF BuildTypes
<1>8. Entries' /\ Numbering'
  BY <1>2 DEF Entries, Numbering, Behind
<1>9. Emitted'
  BY <1>2 DEF Emitted, EmittedFor
<1>10. Handlers'
  BY <1>2 DEF Handlers, Placed
<1> QED
  BY <1>6, <1>7, <1>8, <1>9, <1>10

\* The end of a walk, at the row behind the last.
LEMMA EndWalkStep ==
  ASSUME IInv, EndWalk
  PROVE  BuildInv'
<1> USE DEF IInv, BuildInv
<1>1. /\ csv \in Csvs /\ Len(csv) \in Nat
      /\ phase \in {"rows", "handlers", "functions"}
      /\ cursor = Len(csv) + 1 /\ cursor' = 1
      /\ phase' = NextPhase
      /\ phase' \in {"handlers", "functions", "ready"}
      /\ Len(all_) = Len(csv)
      /\ UNCHANGED <<csv, next_svc, all_, thunks, svc_handler_table>>
  BY CsvFacts DEF EndWalk, NextPhase, Entries, BuildTypes
<1>2. Entries' /\ Numbering'
  BY <1>1 DEF Entries, Numbering, Behind
<1>3. Emitted'
  BY <1>1 DEF Emitted, EmittedFor
<1>4. Handlers'
  BY <1>1 DEF Handlers, NextPhase, Behind, Placed
<1>5. Functions' /\ BuildTypes'
  <2>1. CASE phase = "functions"
    <3>1. /\ os_function_table \in Seq([name : Names, addr : CNames] \cup {Sentinel})
          /\ Len(os_function_table) = Len(csv)
          /\ os_function_table' = Append(os_function_table, Sentinel)
      BY <1>1, <2>1 DEF EndWalk, Functions, BuildTypes
    <3>2. /\ Len(os_function_table') = Len(csv) + 1
          /\ os_function_table'[Len(csv) + 1] = Sentinel
          /\ \A k \in 1..Len(csv) : os_function_table'[k] = os_function_table[k]
          /\ os_function_table' \in Seq([name : Names, addr : CNames] \cup {Sentinel})
      BY <1>1, <3>1
    <3>3. Functions'
      BY <1>1, <2>1, <3>2 DEF NextPhase, Functions
    <3>4. BuildTypes'
      BY <1>1, <3>2 DEF BuildTypes
    <3> QED
      BY <3>3, <3>4
  <2>2. CASE phase # "functions"
    BY <1>1, <2>2 DEF EndWalk, NextPhase, Functions, BuildTypes
  <2> QED
    BY <2>1, <2>2
<1> QED
  BY <1>2, <1>3, <1>4, <1>5

-----------------------------------------------------------------------------
\* A build step finds nothing linked yet; a step of the scan or a call leaves
\* the build's outputs alone.
LEMMA BuildKeepsRunning ==
  ASSUME IInv, Build
  PROVE  Running'
<1>1. phase # "ready" /\ UNCHANGED <<csv, runVars>>
  BY DEF Build, EmitThunk, EmitHandler, EmitFunction, EndWalk
<1> QED
  BY <1>1 DEF runVars, IInv, Running, DispatchesOwn

\* The guest's steps leave the generator's outputs as they are.
LEMMA SameBuild ==
  ASSUME BuildInv, UNCHANGED buildVars
  PROVE  BuildInv'
<1> USE DEF buildVars, BuildInv
<1>1. BuildTypes' /\ Entries' /\ Numbering' /\ Functions'
  BY DEF BuildTypes, Entries, Numbering, Behind, Functions
<1>2. Emitted'
  BY DEF Emitted, EmittedFor
<1>3. Handlers'
  <2>1. \A k : Placed(k)' = Placed(k)
    BY DEF Placed
  <2>2. Behind(cursor - 1)' = Behind(cursor - 1)
    BY DEF Behind
  <2> QED
    BY <2>1, <2>2 DEF Handlers
<1> QED
  BY <1>1, <1>2, <1>3

\* A scan begins inside the table.
LEMMA GetBuiltinProcStep ==
  ASSUME IInv, NEW n \in Names, GetBuiltinProc(n)
  PROVE  Running'
<1>1. Len(csv) \in Nat
  BY CsvFacts DEF IInv, BuildInv, BuildTypes
<1> QED
  BY <1>1 DEF GetBuiltinProc, buildVars, IInv, Running, DispatchesOwn

\* The table once the build is over: it names every row and then nothing.
LEMMA FunctionTable ==
  ASSUME BuildInv, phase = "ready"
  PROVE  /\ \A k \in 1..Len(csv) :
              /\ os_function_table[k].name = csv[k].name
              /\ os_function_table[k].name # NoName
              /\ os_function_table[k].addr = CName(csv[k])
         /\ os_function_table[Len(csv) + 1].name = NoName
         /\ Len(os_function_table) = Len(csv) + 1
         /\ Len(csv) \in Nat /\ DOMAIN csv = 1..Len(csv)
<1>1. /\ Len(csv) \in Nat /\ DOMAIN csv = 1..Len(csv)
      /\ \A k \in 1..Len(csv) : csv[k].name \in Names
  BY CsvFacts DEF BuildInv, BuildTypes
<1>2. /\ \A k \in 1..Len(csv) :
           os_function_table[k] = [name |-> csv[k].name, addr |-> CName(csv[k])]
      /\ os_function_table[Len(csv) + 1] = Sentinel
      /\ Len(os_function_table) = Len(csv) + 1
  BY DEF BuildInv, Functions
<1>3. Sentinel.name = NoName
  BY DEF Sentinel
<1>4. \A k \in 1..Len(csv) : csv[k].name # NoName
  BY <1>1, ThunksAssumption
<1>5. \A k \in 1..Len(csv) : /\ os_function_table[k].name = csv[k].name
                             /\ os_function_table[k].addr = CName(csv[k])
  <2> TAKE k \in 1..Len(csv)
  <2>1. os_function_table[k] = [name |-> csv[k].name, addr |-> CName(csv[k])]
    BY <1>2
  <2> QED
    BY <2>1
<1>6. os_function_table[Len(csv) + 1].name = NoName
  BY <1>2, <1>3
<1> QED
  BY <1>1, <1>2, <1>4, <1>5, <1>6

\* A scan stays inside the table, and links only what the table names.
LEMMA ScanStep ==
  ASSUME IInv, Scan
  PROVE  Running'
<1>1. phase = "ready" /\ scan \in 1..(Len(csv) + 1) /\ want \in Names
  BY DEF Scan, ScanOn, ScanFinds, ScanFails, IInv, Running
<1>2. UNCHANGED <<csv, phase, ran>>
  BY DEF Scan, ScanOn, ScanFinds, ScanFails, buildVars
<1>3. CASE ScanOn
  <2>1. scan # Len(csv) + 1
    BY <1>1, <1>3, FunctionTable DEF ScanOn, IInv
  <2>2. scan + 1 \in 1..(Len(csv) + 1)
    BY <1>1, <2>1, FunctionTable DEF IInv
  <2> QED
    BY <1>2, <1>3, <2>2 DEF ScanOn, IInv, Running, DispatchesOwn
<1>4. CASE ScanFinds
  <2>1. PICK k \in 1..Len(csv) : k = scan /\ csv[k].name = want
    BY <1>1, <1>4, FunctionTable, ThunksAssumption DEF ScanFinds, IInv
  <2>2. os_function_table[k].addr = CName(csv[k])
    BY <1>1, FunctionTable DEF IInv
  <2>3. PICK n \in Names : n = want
    BY <1>1
  <2>4. /\ DOMAIN linked' = DOMAIN linked \cup {n}
        /\ linked'[n] = CName(csv[k])
        /\ \A f \in DOMAIN linked : f # n => linked'[f] = linked[f]
    BY <1>4, <2>1, <2>2, <2>3 DEF ScanFinds
  <2>5. \A f \in DOMAIN linked' :
          \E j \in DOMAIN csv : csv[j].name = f /\ linked'[f] = CName(csv[j])
    BY <1>1, <2>1, <2>3, <2>4, FunctionTable DEF IInv, Running
  <2> QED
    BY <1>1, <1>2, <1>4, <2>5 DEF ScanFinds, IInv, Running, DispatchesOwn
<1>5. CASE ScanFails
  BY <1>1, <1>2, <1>5 DEF ScanFails, IInv, Running, DispatchesOwn
<1> QED
  BY <1>3, <1>4, <1>5 DEF Scan

\* The heart of the matter: the number in the SVC is the place of the handler.
LEMMA CallEmuStep ==
  ASSUME IInv, NEW n \in Names, CallEmu(n)
  PROVE  Running'
<1> USE DEF IInv
<1>1. PICK j \in DOMAIN csv : csv[j].name = n /\ linked[n] = CName(csv[j])
  BY DEF CallEmu, Running
<1>2. phase = "ready" /\ csv \in Csvs /\ Len(all_) = Len(csv) /\ j \in 1..Len(csv)
  BY <1>1, CsvFacts DEF CallEmu, Running, BuildInv, BuildTypes, Entries
<1>3. PICK k \in 1..Len(all_) : EmittedFor(linked[n], k)
  BY DEF CallEmu, BuildInv, Emitted
<1>4. j = k
  BY <1>1, <1>2, <1>3, CNamesDiffer DEF EmittedFor
<1>5. csv[k].type = "EMU" /\ thunks[linked[n]].num = all_[k].index
  <2>1. thunks[linked[n]] = Body(csv[k], all_[k].index)
    BY <1>3 DEF EmittedFor
  <2>2. thunks[linked[n]].does = "svc"
    BY DEF CallEmu
  <2>3. csv[k].type \in Types /\ csv[k].type # "MINISYS"
    BY <1>2, <1>3, CsvFacts DEF EmittedFor, BuildInv, Entries
  <2> QED
    BY <2>1, <2>2, <2>3 DEF Body, Types
<1>6. /\ all_[k].index + 1 \in 1..Len(svc_handler_table)
      /\ svc_handler_table[all_[k].index + 1] = n
  <2>1. Placed(k)
    BY <1>2, <1>3 DEF BuildInv, Handlers
  <2>2. all_[k].type = "EMU" /\ all_[k].name = n
    BY <1>1, <1>2, <1>3, <1>4, <1>5 DEF BuildInv, Entries
  <2> QED
    BY <2>1, <2>2 DEF Placed
<1>7. hook_intr(thunks[linked[n]].num) = n
  <2>1. DOMAIN svc_handler_table = 1..Len(svc_handler_table)
    BY DEF BuildInv, BuildTypes
  <2> QED
    BY <1>5, <1>6, <2>1 DEF hook_intr
<1>8. ran' = <<n, n>> /\ UNCHANGED <<csv, phase, want, scan, linked>>
  BY <1>7 DEF CallEmu, buildVars
<1> QED
  BY <1>2, <1>8 DEF Running, DispatchesOwn

\* The walks agree up to where they have got, in every state.
THEOREM ThunksInvariance == Spec => []IInv
<1>1. IInv /\ [Next]_vars => IInv'
  <2> SUFFICES ASSUME IInv, [Next]_vars PROVE IInv'
    OBVIOUS
  <2>1. CASE Build
    BY <2>1, EmitThunkStep, EmitHandlerStep, EmitFunctionStep, EndWalkStep,
       BuildKeepsRunning DEF Build, IInv
  <2>2. ASSUME NEW n \in Names, GetBuiltinProc(n) PROVE IInv'
    BY <2>2, GetBuiltinProcStep, SameBuild DEF GetBuiltinProc, IInv
  <2>3. ASSUME NEW n \in Names, CallEmu(n) PROVE IInv'
    BY <2>3, CallEmuStep, SameBuild DEF CallEmu, IInv
  <2>4. CASE Scan
    BY <2>4, ScanStep, SameBuild DEF Scan, ScanOn, ScanFinds, ScanFails, IInv
  <2>5. CASE UNCHANGED vars
    <3>1. BuildInv'
      BY <2>5, SameBuild DEF vars, IInv
    <3>2. Running'
      BY <2>5 DEF vars, buildVars, runVars, IInv, Running, DispatchesOwn
    <3> QED
      BY <3>1, <3>2 DEF IInv
  <2> QED
    BY <2>1, <2>2, <2>3, <2>4, <2>5 DEF Next
<1> QED
  BY <1>1, ThunksInit, PTL DEF Spec

\* Whatever rows api.csv has in whatever order, a call that traps to the
\* emulator is answered by the handler of the function that was called.
THEOREM CallsReachTheirHandlers == Spec => []DispatchesOwn
<1>1. IInv => DispatchesOwn
  BY DEF IInv, Running
<1> QED
  BY <1>1, ThunksInvariance, PTL

\* The scan for an import never runs off os_function_table.
THEOREM ScansEndInTable == Spec => []ScanInTable
<1>1. IInv => ScanInTable
  <2> SUFFICES ASSUME IInv, want # NoName PROVE scan \in DOMAIN os_function_table
    BY DEF ScanInTable
  <2>1. phase = "ready" /\ scan \in 1..(Len(csv) + 1)
    BY DEF IInv, Running
  <2>2. DOMAIN os_function_table = 1..(Len(csv) + 1)
    BY <2>1, FunctionTable DEF IInv, BuildInv, BuildTypes
  <2> QED
    BY <2>1, <2>2
<1> QED
  BY <1>1, ThunksInvariance, PTL

\* Every import is linked to a function that exists.
THEOREM ImportsAreDefined == Spec => []LinkedIsDefined
<1>1. IInv => LinkedIsDefined
  <2> SUFFICES ASSUME IInv, NEW n \in DOMAIN linked
               PROVE  \/ linked[n] \in DOMAIN thunks
                      \/ \E k \in DOMAIN csv :
                           csv[k].name = n /\ csv[k].type = "MINISYS"
    BY DEF LinkedIsDefined
  <2>1. PICK k \in DOMAIN csv : csv[k].name = n /\ linked[n] = CName(csv[k])
    BY DEF IInv, Running
  <2>2. /\ phase = "ready" /\ Len(all_) = Len(csv) /\ k \in 1..Len(csv)
        /\ csv[k] \in Row
    BY <2>1, CsvFacts DEF IInv, Running, BuildInv, BuildTypes, Entries
  <2>3. CASE csv[k].type = "MINISYS"
    BY <2>1, <2>2, <2>3 DEF Row
  <2>4. CASE csv[k].type # "MINISYS"
    BY <2>1, <2>2, <2>4 DEF IInv, BuildInv, Entries, Emitted
  <2> QED
    BY <2>3, <2>4
<1> QED
  BY <1>1, ThunksInvariance, PTL

-----------------------------------------------------------------------------
\* The rows before the one a search is at have other names.
PassedOver ==
  want # NoName => \A k \in 1..(scan - 1) : k \in DOMAIN csv => csv[k].name # want

\* A search goes on only from a row of another name.
LEMMA PassedOverStep ==
  ASSUME IInv, PassedOver, [Next]_vars
  PROVE  PassedOver'
<1>1. CASE ScanOn
  <2>1. /\ want # NoName /\ want' = want /\ scan' = scan + 1 /\ csv' = csv
        /\ phase = "ready" /\ scan \in 1..(Len(csv) + 1)
        /\ os_function_table[scan].name # want
    BY <1>1 DEF ScanOn, buildVars, IInv, Running
  <2>2. \A k \in 1..Len(csv) : os_function_table[k].name = csv[k].name
    BY <2>1, FunctionTable DEF IInv
  <2>3. Len(csv) \in Nat /\ DOMAIN csv = 1..Len(csv)
    BY <2>1, FunctionTable DEF IInv
  <2>4. ASSUME NEW k \in 1..scan, k \in DOMAIN csv PROVE csv[k].name # want
    <3>1. CASE k = scan
      BY <2>1, <2>2, <2>3, <2>4, <3>1
    <3>2. CASE k # scan
      BY <2>1, <2>4, <3>2 DEF PassedOver
    <3> QED
      BY <3>1, <3>2
  <2> QED
    BY <2>1, <2>4 DEF PassedOver
<1>2. CASE ScanFinds \/ ScanFails
  BY <1>2 DEF ScanFinds, ScanFails, PassedOver
<1>3. ASSUME NEW n \in Names, GetBuiltinProc(n) PROVE PassedOver'
  BY <1>3 DEF GetBuiltinProc, PassedOver
<1>4. ASSUME UNCHANGED <<csv, want, scan>> PROVE PassedOver'
  BY <1>4 DEF PassedOver
<1>5. CASE Build \/ \E n \in Names : CallEmu(n)
  BY <1>4, <1>5 DEF Build, EmitThunk, EmitHandler, EmitFunction, EndWalk, CallEmu,
                    runVars, buildVars
<1>6. CASE UNCHANGED vars
  BY <1>4, <1>6 DEF vars, buildVars, runVars
<1> QED
  BY <1>1, <1>2, <1>3, <1>5, <1>6 DEF Next, Scan

\* The end of a search.
LEMMA SearchEnds ==
  ASSUME IInv, PassedOver, [Next]_vars, want # NoName, want' = NoName
  PROVE  LET Hits == {k \in DOMAIN csv : csv[k].name = want}
         IN /\ DOMAIN linked' =
                 DOMAIN linked \cup {csv[k].name : k \in Hits}
            /\ \A k \in Hits : linked'[want] = CName(csv[k])
            /\ \A f \in DOMAIN linked : f # want => linked'[f] = linked[f]
<1> DEFINE Hits == {k \in DOMAIN csv : csv[k].name = want}
<1>1. ScanFinds \/ ScanFails
  BY DEF Next, Build, EmitThunk, EmitHandler, EmitFunction, EndWalk, runVars,
         GetBuiltinProc, CallEmu, Scan, ScanOn, vars
<1>2. phase = "ready" /\ scan \in 1..(Len(csv) + 1) /\ want \in Names
  BY DEF IInv, Running
<1>3. csv \in Csvs /\ Len(csv) \in Nat /\ DOMAIN csv = 1..Len(csv)
  BY CsvFacts DEF IInv, BuildInv, BuildTypes
<1>4. CASE ScanFinds
  <2>1. PICK k \in 1..Len(csv) : /\ k = scan /\ csv[k].name = want
                                 /\ os_function_table[k].addr = CName(csv[k])
    BY <1>2, <1>4, FunctionTable, ThunksAssumption DEF ScanFinds, IInv
  <2>2. Hits = {k}
    BY <1>3, <2>1, CsvFacts
  <2>3. PICK n \in Names : n = want
    BY <1>2
  <2>4. /\ DOMAIN linked' = DOMAIN linked \cup {n}
        /\ linked'[n] = CName(csv[k])
        /\ \A f \in DOMAIN linked : f # n => linked'[f] = linked[f]
    BY <1>4, <2>1, <2>3 DEF ScanFinds
  <2>5. {csv[j].name : j \in Hits} = {n}
    BY <2>1, <2>2, <2>3
  <2> QED
    BY <2>2, <2>3, <2>4, <2>5
<1>5. CASE ScanFails
  <2>1. scan = Len(csv) + 1
    <3>1. scan \notin 1..Len(csv)
      BY <1>2, <1>5, FunctionTable DEF ScanFails, IInv
    <3> QED
      BY <1>2, <1>3, <3>1
  <2>2. Hits = {}
    BY <1>3, <2>1 DEF PassedOver
  <2>3. linked' = linked
    BY <1>5 DEF ScanFails
  <2> QED
    BY <2>2, <2>3
<1> QED
  BY <1>1, <1>4, <1>5

\* For every api.csv, a search ends with the function of the row of its name,
\* and without one only if there is no such row.
THEOREM SearchesEndRight == Spec => SearchIsRight
<1>1. Init => PassedOver
  BY DEF Init, PassedOver
<1>2. IInv /\ PassedOver /\ [Next]_vars => PassedOver'
  BY PassedOverStep
<1>3. IInv /\ PassedOver /\ [Next]_vars =>
        [want # NoName /\ want' = NoName =>
           LET Hits == {k \in DOMAIN csv : csv[k].name = want}
           IN /\ DOMAIN linked' =
                   DOMAIN linked \cup {csv[k].name : k \in Hits}
              /\ \A k \in Hits : linked'[want] = CName(csv[k])
              /\ \A f \in DOMAIN linked : f # want => linked'[f] = linked[f]]_vars
  BY SearchEnds
<1> QED
  BY <1>1, <1>2, <1>3, ThunksInvariance, PTL DEF Spec, SearchIsRight

-----------------------------------------------------------------------------
\* A scan starts at the first entry and goes up from there.
ScanPlace == scan \in Nat \ {0}

\* What the invariant says of the outputs has their types in it.
LEMMA TypesFromInvariant ==
  ASSUME IInv, ScanPlace
  PROVE  ThunksTypeOK
<1> USE DEF IInv, BuildInv
<1>1. BuildTypes
  OBVIOUS
<1>2. ASSUME NEW f \in DOMAIN thunks
      PROVE  f \in CNames /\ thunks[f].num \in Nat
  <2>1. PICK k \in 1..Len(all_) : EmittedFor(f, k)
    BY DEF Emitted
  <2>2. all_[k] \in Entry /\ k \in 1..Len(csv)
    BY CsvFacts DEF BuildTypes, Entries
  <2>3. f \in CNames
    BY <2>1, <2>2, CsvFacts DEF EmittedFor, BuildTypes
  <2>4. all_[k].index \in Nat
    BY <2>2 DEF Entry
  <2>5. thunks[f].num = (IF csv[k].type = "EMU" THEN all_[k].index ELSE 0)
    BY <2>1 DEF EmittedFor, Body
  <2> QED
    BY <2>3, <2>4, <2>5
<1>3. ASSUME NEW n \in DOMAIN linked
      PROVE  n \in Names /\ linked[n] \in CNames
  <2>1. PICK k \in DOMAIN csv : csv[k].name = n /\ linked[n] = CName(csv[k])
    BY DEF Running
  <2> QED
    BY <2>1, CsvFacts DEF BuildTypes
<1> QED
  BY <1>1, <1>2, <1>3 DEF BuildTypes, Running, ScanPlace, ThunksTypeOK

\* For every api.csv, the variables of the generator, its outputs and what
\* the guest has linked keep their types.
THEOREM ThunksTypes == Spec => []ThunksTypeOK
<1>1. Init => ScanPlace
  BY DEF Init, ScanPlace
<1>2. ScanPlace /\ [Next]_vars => ScanPlace'
  BY DEF ScanPlace, Next, vars, runVars, Build, EmitThunk, EmitHandler,
         EmitFunction, EndWalk, GetBuiltinProc, CallEmu, Scan, ScanOn,
         ScanFinds, ScanFails
<1>3. Spec => []ScanPlace
  BY <1>1, <1>2, PTL DEF Spec
<1>4. IInv /\ ScanPlace => ThunksTypeOK
  BY TypesFromInvariant
<1> QED
  BY <1>3, <1>4, ThunksInvariance, PTL

=============================================================================
