-------------------------- MODULE ResourcesProofs --------------------------
(***************************************************************************)
(* The heap of the guest and the resources in it, for every size of the    *)
(* memory, every number of blocks, every table of resources and every      *)
(* sequence of calls.                                                      *)
(***************************************************************************)
EXTENDS Resources, WellFoundedInduction, TLAPS

HeapInv == HeapTypeOK /\ BlocksApart

-----------------------------------------------------------------------------
\* A block in use has a place and a length, an unused one has neither.
LEMMA BlockFacts ==
  ASSUME HeapInv
  PROVE  /\ \A b \in Used : /\ blocks[b] \in Block /\ b \in Blocks
                            /\ blocks[b].at \in Nat /\ blocks[b].length \in Nat
         /\ heap_end \in Nat
<1>1. \A b \in Used : blocks[b] \in Block /\ b \in Blocks
  BY DEF Used, HeapInv, HeapTypeOK
<1>2. \A b \in Used : blocks[b].at \in RAM_START..HEAP_MAX /\ blocks[b].length \in Lengths
  BY <1>1 DEF Block
<1>3. heap_end \in Nat
  BY GuestHeapAssumption DEF HeapInv, HeapTypeOK
<1>4. ASSUME NEW b \in Used PROVE blocks[b].at \in Nat /\ blocks[b].length \in Nat
  <2>1. PICK at \in RAM_START..HEAP_MAX, length \in Lengths :
          at = blocks[b].at /\ length = blocks[b].length
    BY <1>2
  <2> QED
    BY <2>1, GuestHeapAssumption
<1> QED
  BY <1>1, <1>3, <1>4

\* The memory a block is taken from, wherever it comes from: no block in use
\* has any of it, and it is below the end of the heap.
Pool(pool, length, p) ==
  /\ Span(p, length) \subseteq pool
  /\ avail' = pool \ Span(p, length)
  /\ pool \subseteq RAM_START..(heap_end' - 1)
  /\ \A b \in Used : Units(b) \cap pool = {}
  /\ heap_end <= heap_end'
  /\ heap_end' \in {0} \cup (RAM_START..HEAP_MAX)

\* Memory from _sbrk is above all blocks in use.
LEMMA ExtendFacts ==
  ASSUME HeapInv, NEW length \in Lengths, NEW p \in RAM_START..HEAP_MAX,
         Extend(length, p)
  PROVE  \E pool : Pool(pool, length, p)
<1>1. PICK spare \in {0, 1}, end \in p..HEAP_MAX :
        /\ _sbrk(length + spare, end)
        /\ heap_end' <= HEAP_MAX
        /\ p..(end - 1) \subseteq avail
        /\ avail' = (avail \cup Span(end, length + spare)) \ Span(p, length)
  BY DEF Extend
<1>2. /\ p \in Nat /\ end \in Nat /\ p <= end /\ RAM_START <= p
      /\ length \in Nat \ {0} /\ spare \in Nat /\ RAM_START \in Nat \ {0}
      /\ HEAP_MAX \in Nat
  BY GuestHeapAssumption
<1>3. heap_end \in Nat /\ heap_end' = end + (length + spare)
        /\ end = (IF heap_end = 0 THEN RAM_START ELSE heap_end)
  BY <1>1, BlockFacts DEF _sbrk
<1>4. heap_end <= end /\ RAM_START <= end
  BY <1>2, <1>3
<1> DEFINE pool == avail \cup Span(end, length + spare)
<1>5. avail \subseteq RAM_START..(heap_end - 1)
  BY DEF HeapInv, BlocksApart
<1>6. pool \subseteq RAM_START..(heap_end' - 1)
  BY <1>2, <1>3, <1>4, <1>5 DEF Span
<1>7. Span(p, length) \subseteq pool
  BY <1>1, <1>2 DEF Span
<1>8. ASSUME NEW b \in Used PROVE Units(b) \cap pool = {}
  <2>1. Units(b) \cap avail = {} /\ Units(b) \subseteq RAM_START..(heap_end - 1)
    BY DEF HeapInv, BlocksApart
  <2>2. \A x \in Span(end, length + spare) : x \in Int /\ x >= end
    BY <1>2 DEF Span
  <2> QED
    BY <1>2, <1>3, <1>4, <2>1, <2>2
<1>9. heap_end <= heap_end' /\ heap_end' \in RAM_START..HEAP_MAX
  BY <1>1, <1>2, <1>3, <1>4
<1> QED
  BY <1>1, <1>6, <1>7, <1>8, <1>9 DEF Pool

\* The same of a block from what is free.
LEMMA TakeFreeFacts ==
  ASSUME HeapInv, NEW length \in Lengths, NEW p \in RAM_START..HEAP_MAX,
         TakeFree(length, p)
  PROVE  Pool(avail, length, p)
<1>1. heap_end' = heap_end /\ heap_end \in Nat
  BY BlockFacts DEF TakeFree
<1> QED
  BY <1>1 DEF TakeFree, HeapInv, HeapTypeOK, BlocksApart, Pool

\* What is taken from a pool is apart from the rest of it and from the
\* blocks in use.
LEMMA PoolKeepsBlocks ==
  ASSUME HeapInv, NEW pool, NEW length \in Lengths,
         NEW p \in RAM_START..HEAP_MAX, Pool(pool, length, p)
  PROVE  /\ avail' \subseteq RAM_START..(heap_end' - 1)
         /\ avail' \subseteq RAM_START..HEAP_MAX
         /\ Span(p, length) \subseteq RAM_START..(heap_end' - 1)
         /\ Span(p, length) \cap avail' = {}
         /\ \A b \in Used : /\ Units(b) \cap avail' = {}
                            /\ Units(b) \cap Span(p, length) = {}
                            /\ Units(b) \subseteq RAM_START..(heap_end' - 1)
<1>1. heap_end \in Nat /\ heap_end' \in Nat /\ HEAP_MAX \in Nat /\ RAM_START \in Nat \ {0}
  BY BlockFacts, GuestHeapAssumption DEF Pool
<1>2. heap_end' <= HEAP_MAX
  BY <1>1 DEF Pool
<1>3. \A b \in Used : Units(b) \subseteq RAM_START..(heap_end' - 1)
  BY <1>1 DEF Pool, HeapInv, BlocksApart
<1>4. PICK end \in Nat : end = heap_end'
  BY <1>1
<1>5. ASSUME NEW x \in RAM_START..(end - 1) PROVE x \in RAM_START..HEAP_MAX
  <2>1. end <= HEAP_MAX
    BY <1>2, <1>4
  <2> QED
    BY <1>1, <2>1
<1>6. avail' \subseteq RAM_START..(end - 1) /\ Span(p, length) \subseteq RAM_START..(end - 1)
  BY <1>4 DEF Pool
<1>7. \A b \in Used : Units(b) \cap avail' = {} /\ Units(b) \cap Span(p, length) = {}
  BY DEF Pool
<1>8. Span(p, length) \cap avail' = {}
  BY DEF Pool
<1> QED
  BY <1>3, <1>4, <1>5, <1>6, <1>7, <1>8

\* malloc.
LEMMA MallocStep ==
  ASSUME HeapInv, NEW b \in Blocks, NEW length \in Lengths,
         NEW owner \in Owners, NEW p \in RAM_START..HEAP_MAX,
         Malloc(b, length, owner, p)
  PROVE  /\ HeapInv'
         /\ Used' = Used \cup {b} /\ b \notin Used
         /\ \A c \in Used : blocks'[c] = blocks[c]
         /\ blocks'[b] = [at |-> p, length |-> length, owner |-> owner]
         /\ \A c \in Used : Units(c) \cap Span(p, length) = {}
<1>1. PICK pool : Pool(pool, length, p)
  BY ExtendFacts, TakeFreeFacts DEF Malloc
<1>2. PICK blk : blk = [at |-> p, length |-> length, owner |-> owner]
  OBVIOUS
<1>3. /\ blk \in Block /\ blk # Unused /\ blk.at = p /\ blk.length = length
  <2>1. p # 0
    BY GuestHeapAssumption
  <2> QED
    BY <1>2, <2>1 DEF Block, Unused
<1>4. blocks' = [blocks EXCEPT ![b] = blk] /\ b \notin Used
  BY <1>2 DEF Malloc
<1>5. /\ blocks' \in [Blocks -> Block \cup {Unused}]
      /\ blocks'[b] = blk
      /\ \A c \in Blocks : c # b => blocks'[c] = blocks[c]
  BY <1>3, <1>4 DEF HeapInv, HeapTypeOK
<1>6. Used' = Used \cup {b} /\ \A c \in Used : c # b
  BY <1>3, <1>4, <1>5 DEF Used
<1>7. /\ Units(b)' = Span(p, length)
      /\ \A c \in Used : (Units(c))' = Units(c)
  BY <1>3, <1>5, <1>6 DEF Units, Used
<1>8. faulted' \in BOOLEAN
  BY DEF Malloc
<1>9. HeapTypeOK'
  BY <1>1, <1>5, <1>8, PoolKeepsBlocks DEF HeapTypeOK, Pool
<1>10. BlocksApart'
  <2>1. \A c, d \in Used' : c # d => (Units(c))' \cap (Units(d))' = {}
    BY <1>1, <1>6, <1>7, PoolKeepsBlocks DEF HeapInv, BlocksApart
  <2>2. \A c \in Used' : /\ (Units(c))' \cap avail' = {}
                         /\ (Units(c))' \subseteq RAM_START..(heap_end' - 1)
    BY <1>1, <1>6, <1>7, PoolKeepsBlocks
  <2>3. avail' \subseteq RAM_START..(heap_end' - 1)
    BY <1>1, PoolKeepsBlocks
  <2> QED
    BY <2>1, <2>2, <2>3 DEF BlocksApart
<1> QED
  BY <1>1, <1>2, <1>4, <1>5, <1>6, <1>9, <1>10, PoolKeepsBlocks DEF HeapInv, Used

\* free: what a block has had is free, and nobody else's.
LEMMA FreeStep ==
  ASSUME HeapInv, NEW b \in Blocks, Free(b)
  PROVE  /\ HeapInv'
         /\ Used' = Used \ {b} /\ b \in Used /\ blocks[b].owner = "app"
         /\ \A c \in Used' : blocks'[c] = blocks[c]
<1>1. /\ b \in Used /\ blocks[b].owner = "app"
      /\ heap_end' = heap_end /\ faulted' = faulted
      /\ avail' = avail \cup Units(b)
  BY DEF Free
<1>2. /\ blocks' \in [Blocks -> Block \cup {Unused}]
      /\ blocks'[b] = Unused
      /\ \A c \in Blocks : c # b => blocks'[c] = blocks[c]
  BY DEF Free, HeapInv, HeapTypeOK
<1>3. Used' = Used \ {b} /\ \A c \in Used' : c \in Blocks /\ blocks'[c] = blocks[c]
  BY <1>2 DEF Used
<1>4. \A c \in Used' : (Units(c))' = Units(c)
  BY <1>3 DEF Units
<1>5. PICK end \in Nat : end = heap_end /\ end <= HEAP_MAX
  BY GuestHeapAssumption DEF HeapInv, HeapTypeOK
<1>6. Units(b) \subseteq RAM_START..(end - 1)
  BY <1>1, <1>5 DEF HeapInv, BlocksApart
<1>7. \A x \in RAM_START..(end - 1) : x \in RAM_START..HEAP_MAX
  BY <1>5, GuestHeapAssumption
<1>8. HeapTypeOK'
  BY <1>1, <1>2, <1>6, <1>7 DEF HeapInv, HeapTypeOK
<1>9. BlocksApart'
  BY <1>1, <1>3, <1>4, <1>5, <1>6 DEF HeapInv, BlocksApart
<1> QED
  BY <1>1, <1>3, <1>8, <1>9 DEF HeapInv

\* Giving back the end of the heap takes it from no block.
LEMMA TrimStep ==
  ASSUME HeapInv, Trim
  PROVE  HeapInv' /\ blocks' = blocks
<1>1. PICK length \in Lengths :
        /\ Span(heap_end - length, length) \subseteq avail
        /\ _sbrk(-length, heap_end)
        /\ avail' = avail \ Span(heap_end - length, length)
        /\ blocks' = blocks /\ faulted' = faulted
  BY DEF Trim
<1>2. PICK end \in Nat : end = heap_end /\ end <= HEAP_MAX
  BY GuestHeapAssumption DEF HeapInv, HeapTypeOK
<1>3. length \in Nat \ {0} /\ RAM_START \in Nat \ {0} /\ HEAP_MAX \in Nat
  BY GuestHeapAssumption
<1>4. heap_end' = end - length
  BY <1>1, <1>2, <1>3 DEF _sbrk
<1>5. avail \subseteq RAM_START..(end - 1)
  BY <1>2 DEF HeapInv, BlocksApart
<1>6. end - length \in Span(end - length, length)
  BY <1>2, <1>3 DEF Span
<1>7. end - length \in RAM_START..HEAP_MAX
  BY <1>1, <1>2, <1>3, <1>5, <1>6
<1>8. \A x \in RAM_START..(end - 1) :
        x \notin Span(end - length, length) => x \in RAM_START..(end - length - 1)
  BY <1>2, <1>3, <1>7 DEF Span
<1>9. avail' \subseteq RAM_START..(heap_end' - 1)
  BY <1>1, <1>2, <1>4, <1>5, <1>8
<1>10. Used' = Used /\ \A c \in Used : (Units(c))' = Units(c)
  BY <1>1 DEF Used, Units
<1>11. \A c \in Used : Units(c) \subseteq RAM_START..(heap_end' - 1)
  BY <1>1, <1>2, <1>4, <1>8 DEF HeapInv, BlocksApart
<1>12. HeapTypeOK'
  BY <1>1, <1>4, <1>7 DEF HeapInv, HeapTypeOK
<1>13. BlocksApart'
  BY <1>1, <1>9, <1>10, <1>11 DEF HeapInv, BlocksApart
<1> QED
  BY <1>1, <1>12, <1>13 DEF HeapInv

\* A resource whose handle is past the end of the RAM: the block is in
\* nobody's hands.
LEMMA ExtendStep ==
  ASSUME HeapInv, NEW length \in Lengths, NEW p \in RAM_START..HEAP_MAX,
         TakeFree(length, p) \/ Extend(length, p),
         blocks' = blocks, faulted' \in BOOLEAN
  PROVE  HeapInv'
<1>1. PICK pool : Pool(pool, length, p)
  BY ExtendFacts, TakeFreeFacts
<1>2. Used' = Used /\ \A c \in Used : (Units(c))' = Units(c)
  BY DEF Used, Units
<1>3. HeapTypeOK'
  BY <1>1, PoolKeepsBlocks DEF HeapTypeOK, Pool, HeapInv
<1>4. BlocksApart'
  BY <1>1, <1>2, PoolKeepsBlocks DEF HeapInv, BlocksApart
<1> QED
  BY <1>3, <1>4 DEF HeapInv

-----------------------------------------------------------------------------
\* The heap at the start.
LEMMA HeapStarts == ASSUME Init PROVE HeapInv
<1>1. Used = {}
  BY DEF Init, HeapInit, Used
<1>2. HeapTypeOK
  BY DEF Init, HeapInit, HeapTypeOK
<1> QED
  BY <1>1, <1>2 DEF Init, HeapInit, HeapInv, BlocksApart

\* No call of the application or of the loader breaks the heap.
LEMMA HeapStep ==
  ASSUME HeapInv, [Next]_vars
  PROVE  HeapInv'
<1>1. ASSUME UNCHANGED heapVars PROVE HeapInv'
  BY <1>1 DEF heapVars, HeapInv, HeapTypeOK, BlocksApart, Used, Units
<1>2. ASSUME NEW b \in Blocks, NEW name \in Names, DlResOpen(b, name) PROVE HeapInv'
  <2>1. PICK p \in RAM_START..HEAP_MAX : Malloc(b, SizeofRes, "res", p)
    BY <1>2 DEF DlResOpen
  <2> QED
    BY <2>1, MallocStep, ResourcesAssumption DEF Owners
<1>3. ASSUME NEW b \in Blocks, NEW name \in Names, DlResOpenFaults(b, name)
      PROVE  HeapInv'
  BY <1>3, ExtendStep, ResourcesAssumption DEF DlResOpenFaults
<1>4. ASSUME NEW b, NEW length, NEW count, DlResGetDataFaults(b, length, count)
      PROVE  HeapInv'
  BY <1>4 DEF DlResGetDataFaults, HeapInv, HeapTypeOK, BlocksApart, Used, Units
<1>5. ASSUME AppAllocates PROVE HeapInv'
  <2>1. HeapNext
    BY <1>5 DEF AppAllocates
  <2> QED
    BY <2>1, MallocStep, FreeStep, TrimStep DEF HeapNext, Owners
<1>6. CASE Next
  BY <1>1, <1>2, <1>3, <1>4, <1>5, <1>6
  DEF Next, EntryPointReturns, DlResOpenFails, DlResGetSize, DlResGetData, AppWrites
<1>7. CASE UNCHANGED vars
  BY <1>1, <1>7 DEF vars
<1> QED
  BY <1>6, <1>7

\* Blocks in use, those of the application, those of miniSYS that nobody
\* frees and the handles of resources, never share memory with each other or
\* with what is free, however the heap grows and shrinks.
THEOREM BlocksStayApart == Spec => []BlocksApart
<1>1. Spec => []HeapInv
  BY HeapStarts, HeapStep, PTL DEF Spec
<1>2. HeapInv => BlocksApart
  BY DEF HeapInv
<1> QED
  BY <1>1, <1>2, PTL

-----------------------------------------------------------------------------
\* An int holds every number below the half of its range, and makes an int
\* of every other.
LEMMA IntFacts ==
  /\ WordSize \div 2 \in Nat
  /\ \A n \in Int : ToInt(n) \in Ints
  /\ \A n \in Nat : n < WordSize \div 2 => ToInt(n) = n
<1>1. PICK w \in Nat \ {0}, h \in Nat : w = WordSize /\ h = w \div 2 /\ h < w
  BY ResourcesAssumption
<1>2. \A n \in Int : n % w \in 0..(w - 1)
  OBVIOUS
<1>3. ASSUME NEW n \in Int PROVE ToInt(n) \in Ints
  <2>1. PICK m \in 0..(w - 1) : m = n % w
    BY <1>2
  <2>2. ToInt(n) = IF m < h THEN m ELSE m - w
    BY <1>1, <2>1 DEF ToInt
  <2> QED
    BY <1>1, <2>1, <2>2 DEF Ints
<1>4. ASSUME NEW n \in Nat, n < h PROVE ToInt(n) = n
  <2>1. n % w = n
    BY <1>1, <1>4
  <2> QED
    BY <1>1, <1>4, <2>1 DEF ToInt
<1> QED
  BY <1>1, <1>3, <1>4

\* A handle holds what it was opened for, and how far it has been read as
\* long as an int can count it.
HandleOK(b) ==
  /\ my_dl
  /\ Hits(opened[b]) # {}
  /\ consumed[b] \in Nat
  /\ blocks[b].at \in DOMAIN mem /\ blocks[b].length = SizeofRes
  /\ ResOf(b) \in Res
  /\ ResOf(b).size = FirstHit(opened[b]).size
  /\ LET reached == FirstHit(opened[b]).offset + consumed[b]
     IN reached < WordSize \div 2 => ResOf(b).current_file_offset = reached

ResInv ==
  /\ HeapInv
  /\ sections \in Tables /\ my_dl \in BOOLEAN
  /\ DOMAIN mem = RAM_START..RAM_END
  /\ DOMAIN buffer = 1..BufferSize
  /\ DOMAIN opened = Blocks /\ DOMAIN consumed = Blocks
  /\ \A b \in Handles : HandleOK(b)

\* A name that is there has a first entry.
LEMMA FirstHitIsEntry ==
  ASSUME sections \in Tables, NEW name, Hits(name) # {}
  PROVE  FirstHit(name) \in Entry
<1>1. PICK R : R = {ss \in Nat \X Nat : ss[1] < ss[2]} /\ IsWellFoundedOn(R, Nat)
  BY NatLessThanWellFounded DEF OpToRel
<1>2. EntriesOf \in Seq(Entry)
  BY ResourcesAssumption DEF EntriesOf
<1>3. Hits(name) \subseteq Nat /\ Hits(name) \subseteq DOMAIN EntriesOf
  BY <1>2 DEF Hits
<1>4. PICK i \in Hits(name) : \A j \in Hits(name) : <<j, i>> \notin R
  BY <1>1, <1>3, WFMin
<1>5. ASSUME NEW j \in Hits(name) PROVE i <= j
  <2>1. i \in Nat /\ j \in Nat /\ <<j, i>> \notin R
    BY <1>3, <1>4
  <2>2. ~(j < i)
    BY <1>1, <2>1
  <2> QED
    BY <2>1, <2>2
<1>6. (CHOOSE n \in Hits(name) : \A j \in Hits(name) : n <= j) \in DOMAIN EntriesOf
  BY <1>3, <1>5
<1> QED
  BY <1>2, <1>6 DEF FirstHit

\* The table is the same in both states of a step that leaves it alone.
LEMMA SameTable ==
  ASSUME sections' = sections, my_dl' = my_dl
  PROVE  \A name : (Hits(name))' = Hits(name) /\ (FirstHit(name))' = FirstHit(name)
BY DEF EntriesOf, Hits, FirstHit

\* A handle is kept by a step that leaves its block, its bytes and its
\* history alone.
LEMMA SameHandle ==
  ASSUME NEW b \in Handles, HandleOK(b), sections' = sections, my_dl' = my_dl,
         blocks'[b] = blocks[b], opened'[b] = opened[b],
         consumed'[b] = consumed[b],
         mem'[blocks[b].at] = mem[blocks[b].at], DOMAIN mem' = DOMAIN mem
  PROVE  HandleOK(b)'
<1>1. (Hits(opened[b]))' = Hits(opened[b]) /\ (FirstHit(opened[b]))' = FirstHit(opened[b])
  BY DEF EntriesOf, Hits, FirstHit
<1>2. (ResOf(b))' = ResOf(b)
  BY DEF ResOf
<1> QED
  BY <1>1, <1>2 DEF HandleOK

\* The first unit of a block is its own.
LEMMA FirstUnit ==
  ASSUME HeapInv
  PROVE  \A b \in Used : blocks[b].at \in Units(b)
<1>1. ASSUME NEW b \in Used PROVE blocks[b].at \in Units(b)
  <2>1. PICK at \in RAM_START..HEAP_MAX, length \in Lengths :
          at = blocks[b].at /\ length = blocks[b].length
    BY BlockFacts DEF Block
  <2>2. at \in Span(at, length)
    BY <2>1, GuestHeapAssumption DEF Span
  <2> QED
    BY <2>1, <2>2 DEF Units
<1> QED
  BY <1>1

-----------------------------------------------------------------------------
ResGood == ResInv /\ ResourceDelivers

\* Nothing is open, and nothing has been asked, before the first call.
LEMMA ResStarts == ASSUME Init PROVE ResGood
<1>1. Handles = {}
  BY DEF Init, HeapInit, Used, Handles
<1>2. ResInv
  BY <1>1, HeapStarts DEF Init, ResInv
<1>3. ResourceDelivers
  BY DEF Init, NoCall, ResourceDelivers
<1> QED
  BY <1>2, <1>3 DEF ResGood

\* ccdl_from_memory: there is no handle before it.
LEMMA EntryPointStep ==
  ASSUME ResInv, EntryPointReturns
  PROVE  ResGood'
<1>1. Handles = {}
  BY DEF ResInv, HandleOK, EntryPointReturns
<1>2. Handles' = {}
  BY <1>1 DEF EntryPointReturns, heapVars, Handles, Used
<1>3. HeapInv'
  BY HeapStep DEF ResInv, EntryPointReturns, heapVars, HeapInv, HeapTypeOK,
                  BlocksApart, Used, Units
<1>4. ResInv'
  BY <1>2, <1>3 DEF ResInv, EntryPointReturns
<1>5. ResourceDelivers'
  BY DEF EntryPointReturns, NoCall, ResourceDelivers
<1> QED
  BY <1>4, <1>5 DEF ResGood

\* dl_res_open of a name that is there.
LEMMA OpenStep ==
  ASSUME ResInv, NEW b \in Blocks, NEW name \in Names, DlResOpen(b, name)
  PROVE  ResGood'
<1> DEFINE res == [start_file_offset   |-> ToInt(FirstHit(name).offset),
                   current_file_offset |-> ToInt(FirstHit(name).offset),
                   size                |-> FirstHit(name).size]
<1>1. PICK p \in RAM_START..HEAP_MAX :
        /\ Malloc(b, SizeofRes, "res", p)
        /\ InRam(p, SizeofRes)
        /\ mem' = Stored(p, res)
  BY DEF DlResOpen
<1>2. /\ HeapInv'
      /\ Used' = Used \cup {b} /\ b \notin Used
      /\ \A c \in Used : blocks'[c] = blocks[c]
      /\ blocks'[b] = [at |-> p, length |-> SizeofRes, owner |-> "res"]
      /\ \A c \in Used : Units(c) \cap Span(p, SizeofRes) = {}
  BY <1>1, MallocStep, ResourcesAssumption DEF ResInv, Owners
<1>3. /\ Hits(name) # {}
      /\ opened' = [opened EXCEPT ![b] = name]
      /\ consumed' = [consumed EXCEPT ![b] = 0]
      /\ last' = NoCall /\ sections' = sections /\ my_dl' = my_dl
      /\ buffer' = buffer
  BY DEF DlResOpen
<1>4. my_dl
  BY <1>3 DEF Hits, EntriesOf
<1>5. DOMAIN mem' = DOMAIN mem
  BY <1>1 DEF Stored
<1>6. ASSUME NEW c \in Handles PROVE HandleOK(c)'
  <2>1. c \in Used /\ c # b /\ HandleOK(c) /\ c \in Blocks
    BY <1>2, <1>6 DEF ResInv, Handles, Used
  <2>2. blocks[c].at \notin Span(p, SizeofRes)
    BY <1>2, <2>1, FirstUnit DEF ResInv
  <2>3. blocks[c].at \in DOMAIN mem
    BY <2>1 DEF HandleOK
  <2>4. mem'[blocks[c].at] = mem[blocks[c].at]
    BY <1>1, <2>2, <2>3 DEF Stored
  <2>5. /\ blocks'[c] = blocks[c] /\ opened'[c] = opened[c]
        /\ consumed'[c] = consumed[c]
    BY <1>2, <1>3, <2>1 DEF ResInv
  <2> QED
    BY <1>3, <1>5, <2>1, <2>4, <2>5, SameHandle
<1>7. HandleOK(b)'
  <2>1. p \in Span(p, SizeofRes) /\ p \in RAM_START..RAM_END
    BY <1>1, ResourcesAssumption, GuestHeapAssumption DEF Span, InRam
  <2>2. mem'[p] = res
    BY <1>1, <2>1 DEF Stored, ResInv
  <2>3. opened'[b] = name /\ consumed'[b] = 0
    BY <1>3 DEF ResInv
  <2>4. PICK offset \in Nat, size \in Nat :
          offset = FirstHit(name).offset /\ size = FirstHit(name).size
    <3>1. FirstHit(name) \in Entry
      BY <1>3, FirstHitIsEntry DEF ResInv
    <3> QED
      BY <3>1 DEF Entry
  <2>5. /\ (ResOf(b))' = res /\ res \in Res
        /\ res.size = size /\ res.current_file_offset = ToInt(offset)
    <3>1. (ResOf(b))' = res
      BY <1>2, <2>2 DEF ResOf
    <3>2. ToInt(offset) \in Ints
      BY IntFacts
    <3> QED
      BY <2>4, <3>1, <3>2 DEF Res
  <2>6. (Hits(opened[b]))' = Hits(name) /\ (FirstHit(opened[b]))' = FirstHit(name)
    BY <1>3, <2>3 DEF EntriesOf, Hits, FirstHit
  <2>7. offset + 0 < WordSize \div 2 => ToInt(offset) = offset + 0
    BY IntFacts
  <2> QED
    BY <1>2, <1>3, <1>4, <1>5, <2>1, <2>3, <2>4, <2>5, <2>6, <2>7
    DEF HandleOK, ResInv
<1>8. Handles' = Handles \cup {b}
  BY <1>2 DEF Handles
<1>9. ResInv'
  BY <1>2, <1>3, <1>5, <1>6, <1>7, <1>8 DEF ResInv
<1>10. ResourceDelivers'
  BY <1>3 DEF NoCall, ResourceDelivers
<1> QED
  BY <1>9, <1>10 DEF ResGood

\* A step that leaves blocks, memory and handles alone.
LEMMA QuietStep ==
  ASSUME ResInv, HeapInv', UNCHANGED <<sections, my_dl, mem, opened, consumed>>,
         DOMAIN buffer' = DOMAIN buffer, blocks' = blocks
  PROVE  ResInv'
<1>1. Handles' = Handles
  BY DEF Handles, Used
<1>2. ASSUME NEW b \in Handles PROVE HandleOK(b)'
  BY <1>2, SameHandle DEF ResInv
<1> QED
  BY <1>1, <1>2 DEF ResInv

\* The heap is the same where its variables are.
LEMMA SameHeap == ASSUME HeapInv, UNCHANGED <<heap_end, avail, blocks>>,
                         faulted' \in BOOLEAN
                  PROVE  HeapInv'
BY DEF HeapInv, HeapTypeOK, BlocksApart, Used, Units

\* dl_res_open of a name that is not there.
LEMMA OpenFailsStep ==
  ASSUME ResInv, NEW name \in Names, DlResOpenFails(name)
  PROVE  ResGood'
<1>1. ResInv'
  BY QuietStep, SameHeap DEF DlResOpenFails, heapVars, ResInv, HeapInv, HeapTypeOK
<1>2. /\ last' = [call |-> "open", name |-> name, found |-> FALSE, filled |-> my_dl]
      /\ Hits(name) = {} /\ sections' = sections
  BY DEF DlResOpenFails
<1>3. my_dl /\ sections # <<>> => \A i \in DOMAIN sections[1] : sections[1][i].filename # name
  BY <1>2 DEF Hits, EntriesOf
<1>4. last'.call = "open" /\ last'.filled = my_dl /\ last'.name = name
  BY <1>2
<1>5. ResourceDelivers'
  BY <1>2, <1>3, <1>4 DEF ResourceDelivers
<1> QED
  BY <1>1, <1>5 DEF ResGood

\* dl_res_get_size.
LEMMA GetSizeStep ==
  ASSUME ResInv, NEW b \in Handles, DlResGetSize(b)
  PROVE  ResGood'
<1>1. ResInv'
  BY QuietStep, SameHeap DEF DlResGetSize, heapVars, ResInv, HeapInv, HeapTypeOK
<1>2. /\ last' = [call |-> "get_size", res |-> b, size |-> ResOf(b).size]
      /\ opened' = opened /\ sections' = sections /\ my_dl' = my_dl
  BY DEF DlResGetSize
<1>3. ResOf(b).size = FirstHit(opened[b]).size
  BY DEF ResInv, HandleOK
<1>4. (FirstHit(opened[b]))' = FirstHit(opened[b])
  BY <1>2 DEF EntriesOf, Hits, FirstHit
<1>5. last'.call = "get_size" /\ last'.res = b /\ last'.size = ResOf(b).size
  BY <1>2
<1>6. ResourceDelivers'
  BY <1>3, <1>4, <1>5 DEF ResourceDelivers
<1> QED
  BY <1>1, <1>6 DEF ResGood

\* dl_res_get_data: what an application that reads by single bytes gets.
LEMMA GetDataStep ==
  ASSUME ResInv, NEW b \in Handles, NEW length \in Int, NEW count \in Int,
         DlResGetData(b, length, count)
  PROVE  ResGood'
<1>1. PICK n : n = Product(length, count)
  OBVIOUS
<1>2. /\ ~Faults(b, n, count) /\ n <= BufferSize /\ count <= BufferSize
      /\ buffer' = Decoded(Copied(b, n), count)
      /\ mem' = Advance(b, n)
      /\ consumed' = [consumed EXCEPT ![b] = @ + n]
      /\ last' = [call |-> "get_data", res |-> b, size |-> length,
                  count |-> count, before |-> consumed[b]]
      /\ UNCHANGED <<heapVars, sections, my_dl, opened>>
  BY <1>1 DEF DlResGetData
<1>3. n \in Nat
  <2>1. length * count \in Int
    OBVIOUS
  <2>2. n \in Ints /\ Ints \subseteq Int
    BY <1>1, <2>1, IntFacts, ResourcesAssumption DEF Product, Ints
  <2> QED
    BY <1>2, <2>2 DEF Faults
<1>4. PICK ent : /\ ent = FirstHit(opened[b]) /\ ent \in Entry
  BY FirstHitIsEntry DEF ResInv, HandleOK
<1>5. PICK done \in Nat : done = consumed[b]
  BY DEF ResInv, HandleOK
<1>6. ent.offset \in Nat /\ ent.size \in Nat
  BY <1>4 DEF Entry
<1>7. PICK start \in Ints, current \in Ints :
        /\ ResOf(b) = [start_file_offset |-> start,
                       current_file_offset |-> current, size |-> ent.size]
        /\ ent.offset + done < WordSize \div 2 => current = ent.offset + done
  BY <1>4, <1>5 DEF ResInv, HandleOK, Res
<1> DEFINE res == [start_file_offset |-> start,
                   current_file_offset |-> ToInt(current + n),
                   size |-> ent.size]
<1>8. [ResOf(b) EXCEPT !.current_file_offset = ToInt(@ + n)] = res
  BY <1>7
<1>9. mem' = Stored(blocks[b].at, res)
  BY <1>2, <1>8 DEF Advance
<1>10. DOMAIN mem' = DOMAIN mem
  BY <1>9 DEF Stored
<1>11. ASSUME NEW c \in Handles, c # b PROVE HandleOK(c)'
  <2>1. c \in Used /\ b \in Used /\ HandleOK(b) /\ HandleOK(c) /\ c \in Blocks
    BY DEF ResInv, Handles, Used
  <2>2. Units(b) = Span(blocks[b].at, SizeofRes)
    BY <2>1 DEF HandleOK, Units
  <2>3. blocks[c].at \notin Span(blocks[b].at, SizeofRes)
    BY <1>11, <2>1, <2>2, FirstUnit DEF ResInv, HeapInv, BlocksApart
  <2>4. mem'[blocks[c].at] = mem[blocks[c].at]
    BY <1>9, <2>1, <2>3 DEF Stored, HandleOK
  <2>5. /\ blocks'[c] = blocks[c] /\ opened'[c] = opened[c]
        /\ consumed'[c] = consumed[c]
    BY <1>2, <1>11, <2>1 DEF ResInv, heapVars
  <2> QED
    BY <1>2, <1>10, <2>4, <2>5, SameHandle, <2>1
<1>12. HandleOK(b)'
  <2>1. b \in Used /\ HandleOK(b) /\ b \in Blocks
    BY DEF ResInv, Handles, Used
  <2>2. blocks[b].at \in Span(blocks[b].at, SizeofRes)
    BY <2>1, FirstUnit DEF ResInv, HandleOK, Units
  <2>3. mem'[blocks[b].at] = res
    BY <1>9, <2>1, <2>2 DEF Stored, HandleOK
  <2>4. blocks' = blocks /\ opened' = opened
    BY <1>2 DEF heapVars
  <2>5. consumed'[b] = done + n
    BY <1>2, <1>5, <2>1 DEF ResInv
  <2>6. (ResOf(b))' = res
    BY <2>3, <2>4 DEF ResOf
  <2>7. (Hits(opened[b]))' = Hits(opened[b]) /\ (FirstHit(opened[b]))' = ent
    BY <1>2, <1>4, <2>4 DEF EntriesOf, Hits, FirstHit
  <2>8. done + n \in Nat
    BY <1>3
  <2>9. res \in Res /\ res.size = ent.size
    <3>1. current + n \in Int
      BY <1>3, IntFacts, ResourcesAssumption DEF Ints
    <3>2. ToInt(current + n) \in Ints
      BY <3>1, IntFacts
    <3> QED
      BY <1>6, <3>2 DEF Res
  <2>10. ent.offset + (done + n) < WordSize \div 2 =>
           res.current_file_offset = ent.offset + (done + n)
    BY <1>3, <1>6, <1>7, IntFacts
  <2> QED
    BY <1>2, <1>10, <2>1, <2>4, <2>5, <2>6, <2>7, <2>8, <2>9, <2>10 DEF HandleOK
<1>13. HeapInv'
  BY <1>2, SameHeap DEF heapVars, ResInv, HeapInv, HeapTypeOK
<1>14. Handles' = Handles
  BY <1>2 DEF heapVars, Handles, Used
<1>15. ResInv'
  BY <1>2, <1>10, <1>11, <1>12, <1>13, <1>14 DEF ResInv, Decoded, Copied
<1>16. ASSUME length = 1, ent.offset + ent.size <= APP_MAX_SIZE,
              done + count <= ent.size, NEW k \in 1..count
       PROVE  buffer'[k] = Byte(ent.offset + done + k - 1, TRUE)
  <2>1. count \in Nat /\ count < WordSize /\ n >= 0
    BY <1>2, <1>3, ResourcesAssumption DEF Faults
  <2>2. (1 * count) % WordSize = count
    BY <2>1, ResourcesAssumption
  <2>3. n = count
    BY <1>1, <1>3, <1>16, <2>1, <2>2, ResourcesAssumption DEF Product, ToInt
  <2>4. k \in DOMAIN buffer
    BY <1>2, <2>1, ResourcesAssumption DEF ResInv
  <2>5. PICK from \in Nat : from = ent.offset + done + k - 1
    BY <1>6
  <2>6. from \in InFile /\ from < WordSize \div 2 /\ ent.offset + done <= from
    BY <1>6, <1>16, <2>5, IntFacts, ResourcesAssumption DEF InFile
  <2>7. current = ent.offset + done
    BY <1>6, <1>7, <2>5, <2>6, IntFacts
  <2>8. Reached(b, k) = from
    BY <1>7, <2>5, <2>6, <2>7, IntFacts DEF Reached
  <2>9. Copied(b, n)[k] = Byte(from, FALSE)
    BY <2>3, <2>4, <2>6, <2>8 DEF Copied, StoredByte
  <2>10. buffer'[k] = Decode(Copied(b, n)[k])
    BY <1>2, <2>1, <2>4 DEF Decoded, Copied
  <2>11. Decode(Byte(from, FALSE)) = Byte(from, TRUE)
    BY Zenon DEF Decode, Byte
  <2> QED
    BY <2>5, <2>9, <2>10, <2>11
<1>17. /\ last'.call = "get_data" /\ last'.res = b /\ last'.size = length
       /\ last'.count = count /\ last'.before = done
  BY <1>2, <1>5
<1>18. (FirstHit(opened[b]))' = ent
  BY <1>2, <1>4 DEF EntriesOf, Hits, FirstHit
<1>19. ResourceDelivers'
  BY <1>16, <1>17, <1>18 DEF ResourceDelivers
<1> QED
  BY <1>15, <1>19 DEF ResGood

\* The application writes to its own memory only.
LEMMA AppWritesStep ==
  ASSUME ResInv, NEW b \in Blocks, AppWrites(b)
  PROVE  ResGood'
<1>1. /\ b \in Used /\ blocks[b].owner = "app"
      /\ mem' = [unit \in DOMAIN mem |-> IF unit \in Units(b) THEN Other ELSE mem[unit]]
      /\ DOMAIN buffer' = DOMAIN buffer
      /\ last' = NoCall
      /\ UNCHANGED <<heapVars, sections, my_dl, opened, consumed>>
  BY DEF AppWrites
<1>2. DOMAIN mem' = DOMAIN mem
  BY <1>1
<1>3. HeapInv'
  BY <1>1, SameHeap DEF heapVars, ResInv, HeapInv, HeapTypeOK
<1>4. Handles' = Handles
  BY <1>1 DEF heapVars, Handles, Used
<1>5. ASSUME NEW c \in Handles PROVE HandleOK(c)'
  <2>1. c \in Used /\ c # b /\ HandleOK(c)
    BY <1>1 DEF ResInv, Handles
  <2>2. blocks[c].at \notin Units(b)
    BY <1>1, <2>1, FirstUnit DEF ResInv, HeapInv, BlocksApart
  <2>3. mem'[blocks[c].at] = mem[blocks[c].at]
    BY <1>1, <2>1, <2>2 DEF HandleOK
  <2> QED
    BY <1>1, <1>2, <2>1, <2>3, SameHandle DEF heapVars
<1>6. ResInv'
  BY <1>1, <1>2, <1>3, <1>4, <1>5 DEF ResInv
<1>7. ResourceDelivers'
  BY <1>1 DEF NoCall, ResourceDelivers
<1> QED
  BY <1>6, <1>7 DEF ResGood

\* malloc and free of the application touch no handle.
LEMMA AppAllocatesStep ==
  ASSUME ResInv, AppAllocates
  PROVE  ResGood'
<1>1. /\ HeapNext /\ last' = NoCall
      /\ UNCHANGED <<sections, my_dl, mem, buffer, opened, consumed>>
  BY DEF AppAllocates
<1>2. ASSUME NEW b \in Blocks, NEW length \in Lengths, NEW owner \in {"app", "kept"},
             NEW p \in RAM_START..HEAP_MAX, Malloc(b, length, owner, p)
      PROVE  HeapInv' /\ Handles' = Handles /\ \A c \in Handles : blocks'[c] = blocks[c]
  <2>1. owner \in Owners /\ owner # "res"
    BY DEF Owners
  <2>2. /\ HeapInv' /\ Used' = Used \cup {b} /\ b \notin Used
        /\ \A c \in Used : blocks'[c] = blocks[c]
        /\ blocks'[b] = [at |-> p, length |-> length, owner |-> owner]
    BY <1>2, <2>1, MallocStep DEF ResInv
  <2>3. blocks'[b].owner # "res"
    BY <2>1, <2>2
  <2>4. \A c : c \in Handles' <=> c \in Used' /\ blocks'[c].owner = "res"
    BY DEF Handles
  <2>5. \A c : c \in Handles <=> c \in Used /\ blocks[c].owner = "res"
    BY DEF Handles
  <2>6. \A c : c \in Handles' <=> c \in Handles
    BY <2>2, <2>3, <2>4, <2>5
  <2> QED
    BY <2>2, <2>5, <2>6
<1>3. ASSUME NEW b \in Blocks, Free(b)
      PROVE  HeapInv' /\ Handles' = Handles /\ \A c \in Handles : blocks'[c] = blocks[c]
  <2>1. /\ HeapInv' /\ Used' = Used \ {b} /\ blocks[b].owner = "app"
        /\ \A c \in Used' : blocks'[c] = blocks[c]
    BY <1>3, FreeStep DEF ResInv
  <2> QED
    BY <2>1 DEF Handles
<1>4. ASSUME Trim
      PROVE  HeapInv' /\ Handles' = Handles /\ \A c \in Handles : blocks'[c] = blocks[c]
  BY <1>4, TrimStep DEF ResInv, Handles, Used
<1>5. HeapInv' /\ Handles' = Handles /\ \A c \in Handles : blocks'[c] = blocks[c]
  BY <1>1, <1>2, <1>3, <1>4 DEF HeapNext
<1>6. ASSUME NEW c \in Handles PROVE HandleOK(c)'
  BY <1>1, <1>5, SameHandle DEF ResInv
<1>7. ResInv'
  BY <1>1, <1>5, <1>6 DEF ResInv
<1>8. ResourceDelivers'
  BY <1>1 DEF NoCall, ResourceDelivers
<1> QED
  BY <1>7, <1>8 DEF ResGood

\* A step that changes no block and nothing of the resources, whether the
\* engine goes on or not.
LEMMA LeftAlone ==
  ASSUME ResGood, HeapInv', blocks' = blocks, UNCHANGED resVars
  PROVE  ResGood'
<1>1. UNCHANGED <<sections, my_dl, mem, buffer, opened, consumed, last>>
  BY DEF resVars
<1>2. ResInv'
  BY <1>1, QuietStep DEF ResGood
<1>3. ResourceDelivers'
  <2>1. EntriesOf' = EntriesOf
    BY <1>1 DEF EntriesOf
  <2>2. ResourceDelivers' <=> ResourceDelivers
    BY <1>1, <2>1, Zenon DEF ResourceDelivers, Hits, FirstHit
  <2> QED
    BY <2>2 DEF ResGood
<1> QED
  BY <1>2, <1>3 DEF ResGood

\* No step breaks the promise.
LEMMA ResStep ==
  ASSUME ResGood, [Next]_vars
  PROVE  ResGood'
<1>1. ResInv /\ HeapInv'
  BY HeapStep DEF ResGood, ResInv
<1>2. ASSUME NEW b \in Blocks, NEW name \in Names, DlResOpenFaults(b, name)
      PROVE  ResGood'
  BY <1>1, <1>2, LeftAlone DEF DlResOpenFaults
<1>3. ASSUME NEW b \in Handles, NEW request \in Requests,
             DlResGetData(b, request[1], request[2])
      PROVE  ResGood'
  <2>1. request[1] \in Int /\ request[2] \in Int
    BY ResourcesAssumption
  <2> QED
    BY <1>1, <1>3, <2>1, GetDataStep
<1>4. ASSUME NEW b \in Handles, NEW request \in Requests,
             DlResGetDataFaults(b, request[1], request[2])
      PROVE  ResGood'
  BY <1>1, <1>4, LeftAlone DEF DlResGetDataFaults
<1>5. CASE Next
  BY <1>1, <1>2, <1>3, <1>4, <1>5, EntryPointStep, OpenStep, OpenFailsStep,
     GetSizeStep, AppWritesStep, AppAllocatesStep
  DEF Next
<1>6. CASE UNCHANGED vars
  BY <1>1, <1>6, LeftAlone DEF vars, heapVars
<1> QED
  BY <1>5, <1>6

\* An application that reads a resource of the file by single bytes gets what
\* is in it, decoded and in order; it is told its size; and NULL means that
\* there is no such name once ccdl_from_memory is done.
THEOREM ResourcesAreDelivered == Spec => []ResourceDelivers
<1>1. Spec => []ResGood
  BY ResStarts, ResStep, PTL DEF Spec
<1>2. ResGood => ResourceDelivers
  BY DEF ResGood
<1> QED
  BY <1>1, <1>2, PTL

-----------------------------------------------------------------------------
\* The types that are not the heap's.
MemOK == mem \in [RAM_START..RAM_END -> Res \cup {Other}]

FileByte == [from : -1..(APP_MAX_SIZE - 1), plain : BOOLEAN]

CallsOK ==
  /\ buffer \in [1..BufferSize -> FileByte]
  /\ opened \in [Blocks -> Names \cup {"none"}]
  /\ consumed \in [Blocks -> Nat]

TypesInv == ResGood /\ MemOK /\ CallsOK

\* What the application writes itself is a byte.
LEMMA OwnByteIsByte == OwnByte \in FileByte
<1>1. -1 \in -1..(APP_MAX_SIZE - 1)
  BY ResourcesAssumption
<1> QED
  BY <1>1 DEF OwnByte, Byte, FileByte

\* Writing a DL_res_t.
LEMMA StoredTypes ==
  ASSUME MemOK, NEW p, NEW res \in Res, mem' = Stored(p, res)
  PROVE  MemOK'
<1>1. DOMAIN mem = RAM_START..RAM_END
  BY DEF MemOK
<1>2. \A unit \in RAM_START..RAM_END : mem'[unit] = res \/ mem'[unit] = mem[unit]
  BY <1>1 DEF Stored
<1>3. mem' = [unit \in RAM_START..RAM_END |-> mem'[unit]]
  BY <1>1 DEF Stored
<1> QED
  BY <1>2, <1>3 DEF MemOK

\* A new handle stands where its resource starts.
LEMMA OpenTypes ==
  ASSUME TypesInv, NEW b \in Blocks, NEW name \in Names, DlResOpen(b, name)
  PROVE  MemOK' /\ CallsOK'
<1>1. PICK ent : ent = FirstHit(name) /\ ent \in Entry
  BY FirstHitIsEntry DEF DlResOpen, TypesInv, ResGood, ResInv
<1> DEFINE res == [start_file_offset   |-> ToInt(ent.offset),
                   current_file_offset |-> ToInt(ent.offset),
                   size                |-> ent.size]
<1>2. PICK p : mem' = Stored(p, res)
  BY <1>1 DEF DlResOpen
<1>3. res \in Res
  BY <1>1, IntFacts DEF Entry, Res
<1>4. MemOK'
  BY <1>2, <1>3, StoredTypes DEF TypesInv
<1>5. CallsOK'
  BY DEF DlResOpen, TypesInv, CallsOK
<1> QED
  BY <1>4, <1>5

\* What a handle delivers are bytes, of the file or of anything else.
LEMMA GetDataTypes ==
  ASSUME TypesInv, NEW b \in Handles, NEW length \in Int, NEW count \in Int,
         DlResGetData(b, length, count)
  PROVE  MemOK' /\ CallsOK'
<1>1. PICK n : n = Product(length, count)
  OBVIOUS
<1>2. /\ ~Faults(b, n, count)
      /\ buffer' = Decoded(Copied(b, n), count)
      /\ mem' = Advance(b, n)
      /\ consumed' = [consumed EXCEPT ![b] = @ + n]
      /\ opened' = opened
  BY <1>1 DEF DlResGetData
<1>3. Ints \subseteq Int
  BY ResourcesAssumption DEF Ints
<1>4. n \in Nat
  <2>1. length * count \in Int
    OBVIOUS
  <2>2. n \in Int
    BY <1>1, <1>3, <2>1, IntFacts DEF Product
  <2> QED
    BY <1>2, <2>2 DEF Faults
<1>5. b \in Blocks /\ ResOf(b) \in Res
  BY DEF TypesInv, ResGood, ResInv, HandleOK, Handles, Used
<1>6. PICK start \in Ints, current \in Ints, size \in Nat :
        ResOf(b) = [start_file_offset |-> start, current_file_offset |-> current,
                    size |-> size]
  BY <1>5 DEF Res
<1> DEFINE after == [start_file_offset |-> start,
                     current_file_offset |-> ToInt(current + n), size |-> size]
<1>7. mem' = Stored(blocks[b].at, after)
  <2>1. [ResOf(b) EXCEPT !.current_file_offset = ToInt(@ + n)] = after
    BY <1>6
  <2> QED
    BY <1>2, <2>1 DEF Advance
<1>8. after \in Res
  <2>1. ToInt(current + n) \in Ints
    BY <1>3, <1>4, IntFacts
  <2> QED
    BY <2>1 DEF Res
<1>9. MemOK'
  BY <1>7, <1>8, StoredTypes DEF TypesInv
<1>10. \A offset : StoredByte(offset) \in FileByte
  BY ResourcesAssumption DEF StoredByte, InFile, Byte, FileByte
<1>11. \A k \in 1..BufferSize : Copied(b, n)[k] \in FileByte
  BY <1>10 DEF Copied, TypesInv, CallsOK
<1>12. buffer' \in [1..BufferSize -> FileByte]
  <2>1. DOMAIN Copied(b, n) = 1..BufferSize
    BY DEF Copied, TypesInv, CallsOK
  <2>2. buffer' = [k \in 1..BufferSize |->
                     IF k <= count THEN Decode(Copied(b, n)[k]) ELSE Copied(b, n)[k]]
    BY <1>2, <2>1 DEF Decoded
  <2>3. \A byte \in FileByte : Decode(byte) \in FileByte
    BY DEF FileByte, Decode, Byte
  <2> QED
    BY <1>11, <2>2, <2>3
<1>13. consumed' \in [Blocks -> Nat]
  BY <1>2, <1>4, <1>5 DEF TypesInv, CallsOK
<1> QED
  BY <1>2, <1>9, <1>12, <1>13 DEF TypesInv, CallsOK

\* What the application writes is no DL_res_t.
LEMMA AppWritesTypes ==
  ASSUME TypesInv, NEW b \in Blocks, AppWrites(b)
  PROVE  MemOK' /\ CallsOK'
<1>1. /\ mem' = [unit \in DOMAIN mem |->
                   IF unit \in Units(b) THEN Other ELSE mem[unit]]
      /\ buffer' = [k \in DOMAIN buffer |-> OwnByte]
      /\ opened' = opened /\ consumed' = consumed
  BY DEF AppWrites
<1>2. MemOK'
  BY <1>1 DEF TypesInv, MemOK
<1> QED
  BY <1>1, <1>2, OwnByteIsByte DEF TypesInv, CallsOK

\* The types that are not the heap's are kept.
LEMMA TypesStep ==
  ASSUME TypesInv, [Next]_vars
  PROVE  TypesInv'
<1>1. ResGood'
  BY ResStep DEF TypesInv
<1>2. ASSUME UNCHANGED <<mem, buffer, opened, consumed>> PROVE MemOK' /\ CallsOK'
  BY <1>2 DEF TypesInv, MemOK, CallsOK
<1>3. ASSUME NEW b \in Handles, NEW request \in Requests,
             DlResGetData(b, request[1], request[2])
      PROVE  MemOK' /\ CallsOK'
  <2>1. request[1] \in Int /\ request[2] \in Int
    BY ResourcesAssumption
  <2> QED
    BY <1>3, <2>1, GetDataTypes
<1>4. ASSUME Next PROVE MemOK' /\ CallsOK'
  BY <1>2, <1>3, <1>4, OpenTypes, AppWritesTypes
  DEF Next, EntryPointReturns, DlResOpenFaults, DlResOpenFails, DlResGetSize,
      DlResGetDataFaults, AppAllocates, resVars
<1>5. ASSUME UNCHANGED vars PROVE MemOK' /\ CallsOK'
  BY <1>2, <1>5 DEF vars, resVars
<1> QED
  BY <1>1, <1>4, <1>5 DEF TypesInv

\* The heap, the handles and the buffer keep their types, whatever the tables
\* say and wherever a read leads.
THEOREM ResTypes == Spec => []ResTypeOK
<1>1. Init => TypesInv
  <2>1. ASSUME Init PROVE MemOK /\ CallsOK
    <3>1. MemOK
      BY <2>1 DEF Init, MemOK
    <3> QED
      BY <2>1, <3>1, OwnByteIsByte DEF Init, CallsOK
  <2> QED
    BY <2>1, ResStarts DEF TypesInv
<1>2. TypesInv => ResTypeOK
  BY DEF TypesInv, ResGood, ResInv, HeapInv, MemOK, CallsOK, FileByte, ResTypeOK
<1> QED
  BY <1>1, <1>2, TypesStep, PTL DEF Spec

-----------------------------------------------------------------------------
(***************************************************************************)
(* The heap implements Allocator: each step gives one block out, takes one *)
(* back, or moves none.                                                    *)
(***************************************************************************)
HeldBy(b) ==
  IF blocks[b] # Unused
  THEN [units |-> Units(b), lasting |-> blocks[b].owner # "app"]
  ELSE [units |-> {}, lasting |-> FALSE]

Held == [b \in Blocks |-> HeldBy(b)]

\* A block in use has memory, in one piece.
LEMMA UnitsArePiece ==
  ASSUME HeapInv, NEW b \in Used
  PROVE  /\ Units(b) \in Heap!Pieces
         /\ Units(b) # {}
<1>1. PICK at \in Nat, length \in Nat :
        at = blocks[b].at /\ length = blocks[b].length
  BY BlockFacts
<1>2. blocks[b] \in Block /\ heap_end \in Nat /\ heap_end <= HEAP_MAX
  BY BlockFacts, GuestHeapAssumption DEF HeapInv, HeapTypeOK
<1>3. at \in RAM_START..HEAP_MAX /\ length \in Lengths
  BY <1>1, <1>2 DEF Block
<1>4. length > 0
  BY <1>3, GuestHeapAssumption
<1>5. Units(b) = at..(at + length - 1)
  BY <1>1 DEF Units, Span
<1>6. at + length - 1 \in RAM_START..(heap_end - 1)
  <2>1. at + length - 1 \in Units(b)
    BY <1>4, <1>5
  <2> QED
    BY <2>1 DEF HeapInv, BlocksApart
<1>7. PICK top \in RAM_START..HEAP_MAX : top = at + length - 1
  BY <1>2, <1>6, GuestHeapAssumption
<1>8. Units(b) = at..top /\ at \in Units(b)
  BY <1>4, <1>5, <1>7
<1>9. at..top \in {x..y : x, y \in RAM_START..HEAP_MAX}
  BY <1>3, <1>7
<1> QED
  BY <1>8, <1>9 DEF Heap!Pieces

AllPieces == \A b \in Used : Units(b) \in Heap!Pieces

LEMMA UnitsStayPieces == HeapInv' => AllPieces'
<1>1. HeapInv => AllPieces
  BY UnitsArePiece DEF AllPieces
<1> QED
  BY <1>1, PTL

\* A piece lies in the memory there is.
LEMMA PiecesInMemory ==
  ASSUME NEW piece \in Heap!Pieces
  PROVE  piece \subseteq RAM_START..HEAP_MAX
<1>1. PICK x, y \in RAM_START..HEAP_MAX : piece = x..y
  BY DEF Heap!Pieces
<1> QED
  BY <1>1, GuestHeapAssumption

\* What is not in use has nobody's memory, and only that.
LEMMA InUseIsUsed ==
  ASSUME HeapInv, NEW b \in Blocks
  PROVE  Held[b].units # {} <=> b \in Used
BY UnitsArePiece DEF Held, HeldBy, Used

\* malloc gives out memory that no block in use has.
LEMMA MallocGives ==
  ASSUME HeapInv, NEW b \in Blocks, NEW length \in Lengths,
         NEW owner \in Owners, NEW p \in RAM_START..HEAP_MAX,
         Malloc(b, length, owner, p)
  PROVE  Heap!Give(b)
<1>1. /\ HeapInv' /\ b \notin Used /\ Used' = Used \cup {b}
      /\ \A c \in Blocks : c # b => blocks'[c] = blocks[c]
  BY MallocStep DEF Malloc, HeapInv, HeapTypeOK
<1>2. Units(b)' \in Heap!Pieces
  BY <1>1, UnitsStayPieces DEF AllPieces
<1>3. \A c \in Blocks : c # b => HeldBy(c)' = HeldBy(c)
  BY <1>1 DEF HeldBy, Units
<1>4. HeldBy(b)'.units = Units(b)' /\ HeldBy(b)'.lasting \in BOOLEAN
  BY <1>1 DEF HeldBy, Used
<1>5. Held' = [Held EXCEPT ![b] = Held'[b]]
  BY <1>3 DEF Held
<1>6. Held[b].units = {}
  BY <1>1, InUseIsUsed
<1>7. \A c \in Blocks : Held[c].units \cap Units(b)' = {}
  <2>1. ASSUME NEW c \in Used PROVE Held[c].units \cap Units(b)' = {}
    <3>1. c # b /\ c \in Used' /\ b \in Used'
      BY <1>1
    <3>2. Units(c)' \cap Units(b)' = {}
      BY <1>1, <3>1 DEF HeapInv, BlocksApart
    <3>3. Held[c].units = Units(c)'
      BY <1>1, <2>1 DEF Held, HeldBy, Units, Used
    <3> QED
      BY <3>2, <3>3
  <2> QED
    BY <2>1, InUseIsUsed
<1>8. Units(b)' \subseteq Heap!Free
  <2>1. Units(b)' \subseteq RAM_START..HEAP_MAX
    BY <1>2, PiecesInMemory
  <2> QED
    BY <1>7, <2>1 DEF Heap!Free, Held, HeldBy
<1> QED
  BY <1>2, <1>4, <1>5, <1>6, <1>8 DEF Heap!Give, Heap!InUse, Held, HeldBy

\* free takes back a block of the application, and no other.
LEMMA FreeTakesBack ==
  ASSUME HeapInv, NEW b \in Blocks, Free(b)
  PROVE  Heap!TakeBack(b)
<1>1. b \in Used /\ blocks[b].owner = "app"
      /\ blocks' = [blocks EXCEPT ![b] = Unused]
  BY DEF Free
<1>2. blocks'[b] = Unused /\ \A c \in Blocks : c # b => blocks'[c] = blocks[c]
  BY <1>1 DEF HeapInv, HeapTypeOK
<1>3. \A c \in Blocks : c # b => HeldBy(c)' = HeldBy(c)
  BY <1>2 DEF HeldBy, Units
<1>4. HeldBy(b)' = Heap!Nobody
  BY <1>2 DEF HeldBy, Heap!Nobody
<1>5. Held' = [Held EXCEPT ![b] = Heap!Nobody]
  BY <1>3, <1>4 DEF Held
<1>6. Held[b].units # {} /\ ~Held[b].lasting
  BY <1>1, InUseIsUsed DEF Held, HeldBy, Used
<1> QED
  BY <1>5, <1>6 DEF Heap!TakeBack, Heap!InUse, Held, HeldBy

\* Every other step leaves all blocks where they are.
LEMMA AllocatorStep ==
  ASSUME HeapInv, [Next]_vars
  PROVE  Heap!Next \/ UNCHANGED Held
<1>1. ASSUME UNCHANGED blocks PROVE UNCHANGED Held
  BY <1>1 DEF Held, HeldBy, Units
<1>2. ASSUME NEW b \in Blocks, NEW name \in Names, DlResOpen(b, name)
      PROVE  Heap!Next
  <2>1. PICK p \in RAM_START..HEAP_MAX : Malloc(b, SizeofRes, "res", p)
    BY <1>2 DEF DlResOpen
  <2> QED
    BY <2>1, MallocGives, ResourcesAssumption DEF Heap!Next, Owners
<1>3. ASSUME AppAllocates PROVE Heap!Next \/ UNCHANGED Held
  <2>1. CASE Trim
    BY <1>1, <2>1 DEF Trim
  <2>2. ASSUME NEW b \in Blocks, NEW length \in Lengths,
               NEW owner \in {"app", "kept"}, NEW p \in RAM_START..HEAP_MAX,
               Malloc(b, length, owner, p)
        PROVE  Heap!Next
    BY <2>2, MallocGives DEF Heap!Next, Owners
  <2>3. ASSUME NEW b \in Blocks, Free(b) PROVE Heap!Next
    BY <2>3, FreeTakesBack DEF Heap!Next
  <2> QED
    BY <1>3, <2>1, <2>2, <2>3 DEF AppAllocates, HeapNext
<1>4. CASE UNCHANGED vars
  BY <1>1, <1>4 DEF vars, heapVars
<1>5. CASE Next
  BY <1>1, <1>2, <1>3, <1>5
  DEF Next, EntryPointReturns, DlResOpenFaults, DlResOpenFails, DlResGetSize,
      DlResGetData, DlResGetDataFaults, AppWrites, heapVars
<1> QED
  BY <1>4, <1>5

\* Under every application, the heap keeps the promise of Allocator: memory of
\* its own for each block, as long as it is in use, and for the handles of
\* resources and the cells of miniSYS for good.
THEOREM KeepsAllocator == Spec => ImplementsAllocator
<1>1. Init => Heap!Init
  BY DEF Init, HeapInit, Heap!Init, Heap!Nobody
<1>2. HeapInv /\ [Next]_vars => [Heap!Next]_Held
  BY AllocatorStep
<1>3. Held = [b \in Blocks |->
                IF blocks[b] # Unused
                THEN [units |-> Units(b), lasting |-> blocks[b].owner # "app"]
                ELSE [units |-> {}, lasting |-> FALSE]]
  BY DEF Held, HeldBy
<1>4. Spec => []HeapInv
  BY HeapStarts, HeapStep, PTL DEF Spec
<1> QED
  BY <1>1, <1>2, <1>4, PTL DEF Spec, Heap!Spec, ImplementsAllocator, Held, HeldBy

=============================================================================
