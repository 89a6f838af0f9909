------------------------- MODULE PanicReportProofs -------------------------
(***************************************************************************)
(* What the guest prints reaches the host, for every size of the C         *)
(* library's buffer and everything that is printed; the stack walk stays   *)
(* within its bounds, for every stack.                                     *)
(***************************************************************************)
EXTENDS PanicReport, SequenceTheorems, FiniteSetTheorems, TLAPS

\* Where the library stands: between two characters its buffer has room for
\* one more, and holds no line that has ended.
Settled ==
  /\ ~Writing => /\ capacity # 0 => Len(stdout) < capacity
                 /\ \A k \in DOMAIN stdout : stdout[k] # NL
  /\ capacity = 0 => todo = <<>> /\ stdout = <<>>

ConsoleInv ==
  /\ ConsoleTypeOK
  /\ Settled
  /\ log \o Waiting \o todo = printed

-----------------------------------------------------------------------------
\* The next character goes behind what is in the buffer.
LEMMA TakeOne ==
  ASSUME NEW s \in Seq(Chars), NEW t \in Seq(Chars), NEW u \in Seq(Chars),
         u # <<>>
  PROVE  s \o Append(t, Head(u)) \o Tail(u) = s \o t \o u
OBVIOUS

\* The next character of the buffer goes behind what is out.
LEMMA PassOne ==
  ASSUME NEW s \in Seq(Chars), NEW t \in Seq(Chars), NEW u \in Seq(Chars),
         NEW k \in 0..(Len(t) - 1)
  PROVE  Append(s, t[k + 1]) \o SubSeq(t, k + 2, Len(t)) \o u
           = s \o SubSeq(t, k + 1, Len(t)) \o u
<1>1. k + 1 \in 1..Len(t) /\ Len(t) \in (k + 1)..Len(t) /\ t[k + 1] \in Chars
  OBVIOUS
<1>2. SubSeq(t, k + 1, Len(t)) = <<t[k + 1]>> \o SubSeq(t, (k + 1) + 1, Len(t))
  BY <1>1, SubSeqRecursiveFirst
<1>3. (k + 1) + 1 = k + 2
  OBVIOUS
<1>4. PICK rest \in Seq(Chars) : rest = SubSeq(t, k + 2, Len(t))
  <2>1. PICK m \in Int, n \in Int : m = k + 2 /\ n = Len(t)
    OBVIOUS
  <2>2. \A j \in m..n : t[j] \in Chars
    BY <2>1
  <2>3. SubSeq(t, m, n) \in Seq(Chars)
    BY <2>2, SubSeqProperties
  <2> QED
    BY <2>1, <2>3
<1>5. PICK c \in Chars : c = t[k + 1]
  BY <1>1
<1>6. Append(s, c) \o rest = s \o (<<c>> \o rest)
  <2>1. Append(s, c) = s \o <<c>> /\ <<c>> \in Seq(Chars)
    BY AppendIsConcat
  <2> QED
    BY <2>1, ConcatAssociative
<1> QED
  BY <1>2, <1>3, <1>4, <1>5, <1>6

-----------------------------------------------------------------------------
\* printf takes a message on.
LEMMA PrintfStep ==
  ASSUME ConsoleInv, NEW message \in Seq(Chars), Printf(message)
  PROVE  ConsoleInv'
<1>1. /\ todo = <<>> /\ DataIdx = -1 /\ ~Writing
      /\ todo' = message /\ printed' = printed \o message
      /\ capacity' \in IF capacity = 0 THEN Capacities ELSE {capacity}
      /\ UNCHANGED <<stdout, DataIdx, log>>
  BY DEF Printf, Quiet, Writing
<1>2. /\ stdout \in Seq(Chars) /\ log \in Seq(Chars) /\ printed \in Seq(Chars)
      /\ capacity \in Nat /\ capacity' \in Nat \ {0} /\ capacity' \in Capacities
  BY <1>1, ConsoleAssumption DEF ConsoleInv, ConsoleTypeOK
<1>3. Waiting = stdout /\ Waiting' = stdout /\ ~Writing'
  BY <1>1 DEF Waiting, Writing
<1>4. log \o stdout = printed
  BY <1>1, <1>2, <1>3 DEF ConsoleInv
<1>5. (log \o Waiting \o todo = printed)'
  BY <1>1, <1>3, <1>4
<1>6. ConsoleTypeOK'
  BY <1>1, <1>2 DEF ConsoleInv, ConsoleTypeOK
<1>7. Settled'
  BY <1>1, <1>2, <1>3 DEF ConsoleInv, Settled
<1> QED
  BY <1>5, <1>6, <1>7 DEF ConsoleInv

\* The library takes a character into its buffer.
LEMMA TakeCharStep ==
  ASSUME ConsoleInv, TakeChar
  PROVE  ConsoleInv'
<1>1. /\ todo # <<>> /\ ~Writing /\ DataIdx = -1
      /\ stdout' = Append(stdout, Head(todo)) /\ todo' = Tail(todo)
      /\ DataIdx' = IF Len(stdout') = capacity \/ (LineBuffered /\ Head(todo) = NL)
                    THEN 0 ELSE -1
      /\ UNCHANGED <<capacity, printed, log>>
  BY DEF TakeChar, Writing
<1>2. /\ stdout \in Seq(Chars) /\ log \in Seq(Chars) /\ printed \in Seq(Chars)
      /\ todo \in Seq(Chars) /\ capacity \in Nat \ {0} /\ Len(stdout) < capacity
      /\ \A k \in DOMAIN stdout : stdout[k] # NL
  BY <1>1, ConsoleAssumption DEF ConsoleInv, ConsoleTypeOK, Settled
<1>3. PICK c \in Chars : c = Head(todo)
  BY <1>1, <1>2
<1>4. /\ stdout' \in Seq(Chars) /\ Len(stdout') = Len(stdout) + 1
      /\ todo' \in Seq(Chars)
      /\ stdout'[Len(stdout) + 1] = c
      /\ \A k \in 1..Len(stdout) : stdout'[k] = stdout[k]
  BY <1>1, <1>2, <1>3
<1>5. ConsoleTypeOK'
  BY <1>1, <1>2, <1>4 DEF ConsoleInv, ConsoleTypeOK
<1>6. LineBuffered
  BY DEF LineBuffered, _fstat, _isatty
<1>7. Settled'
  BY <1>1, <1>2, <1>3, <1>4, <1>6 DEF Settled, Writing
<1>8. Waiting = stdout /\ Waiting' = stdout'
  BY <1>1, <1>4, SubSeqFull DEF Waiting, Writing
<1>9. (log \o Waiting \o todo = printed)'
  <2>1. PICK s \in Seq(Chars), t \in Seq(Chars), u \in Seq(Chars) :
          s = log /\ t = stdout /\ u = todo /\ u # <<>>
    BY <1>1, <1>2
  <2>2. s \o Append(t, Head(u)) \o Tail(u) = s \o t \o u
    BY <2>1, TakeOne
  <2>3. s \o t \o u = printed
    BY <1>8, <2>1 DEF ConsoleInv
  <2>4. /\ log' = s /\ Waiting' = Append(t, Head(u))
        /\ todo' = Tail(u) /\ printed' = printed
    BY <1>1, <1>8, <2>1
  <2> QED
    BY <2>2, <2>3, <2>4, Zenon
<1> QED
  BY <1>5, <1>7, <1>9 DEF ConsoleInv

\* One turn of _write's loop.
LEMMA PutcStep ==
  ASSUME ConsoleInv, Putc
  PROVE  ConsoleInv'
<1>1. /\ DataIdx # -1 /\ DataIdx < Len(stdout)
      /\ log' = Append(log, stdout[DataIdx + 1])
      /\ DataIdx' = DataIdx + 1
      /\ UNCHANGED <<capacity, stdout, todo, printed>>
  BY DEF Putc, Writing
<1>2. /\ stdout \in Seq(Chars) /\ log \in Seq(Chars)
      /\ todo \in Seq(Chars) /\ DataIdx \in 0..(Len(stdout) - 1)
  BY <1>1 DEF ConsoleInv, ConsoleTypeOK
<1>3. DataIdx' # -1 /\ DataIdx' \in 0..Len(stdout)
  BY <1>1, <1>2
<1>4. stdout[DataIdx + 1] \in Chars
  BY <1>2
<1>5. ConsoleTypeOK'
  BY <1>1, <1>2, <1>3, <1>4 DEF ConsoleInv, ConsoleTypeOK
<1>6. Settled'
  BY <1>1, <1>3 DEF ConsoleInv, Settled, Writing
<1>7. /\ Waiting = SubSeq(stdout, DataIdx + 1, Len(stdout))
      /\ Waiting' = SubSeq(stdout, DataIdx + 2, Len(stdout))
  <2>1. (DataIdx + 1) + 1 = DataIdx + 2
    BY <1>2
  <2> QED
    BY <1>1, <1>3, <2>1 DEF Waiting, Writing
<1>8. (log \o Waiting \o todo = printed)'
  BY <1>1, <1>2, <1>7, PassOne DEF ConsoleInv
<1> QED
  BY <1>5, <1>6, <1>8 DEF ConsoleInv

\* _write returns.
LEMMA WriteReturnsStep ==
  ASSUME ConsoleInv, WriteReturns
  PROVE  ConsoleInv'
<1>1. /\ DataIdx # -1 /\ DataIdx = Len(stdout)
      /\ stdout' = <<>> /\ DataIdx' = -1
      /\ UNCHANGED <<capacity, todo, printed, log>>
  BY DEF WriteReturns, Writing
<1>2. /\ stdout \in Seq(Chars) /\ log \in Seq(Chars) /\ todo \in Seq(Chars)
      /\ capacity \in Nat
  BY ConsoleAssumption DEF ConsoleInv, ConsoleTypeOK
<1>3. ConsoleTypeOK'
  BY <1>1, <1>2 DEF ConsoleInv, ConsoleTypeOK
<1>4. Settled'
  BY <1>1, <1>2 DEF ConsoleInv, Settled, Writing
<1>5. Waiting = <<>> /\ Waiting' = <<>>
  BY <1>1, <1>2, SubSeqEmpty DEF Waiting, Writing
<1>6. (log \o Waiting \o todo = printed)'
  BY <1>1, <1>5 DEF ConsoleInv
<1> QED
  BY <1>3, <1>4, <1>6 DEF ConsoleInv

-----------------------------------------------------------------------------
\* The walk: its counter stays below its limit, its address in the space.
LEMMA WalkStepTypes ==
  ASSUME WalkTypeOK, Walk, stack # <<>>
  PROVE  WalkTypeOK'
<1>1. stack \in Stack
  BY DEF WalkTypeOK
<1>2. CASE WalkEnds
  BY <1>2 DEF WalkEnds, WalkTypeOK
<1>3. CASE WalkStep
  <2>1. stack.mem[sp] \in Words \cup {Unmapped} /\ stack.mem[sp] # Unmapped
    BY <1>1, <1>3 DEF WalkStep, WalkTypeOK, Stack
  <2>2. PICK word \in Words : word = stack.mem[sp]
    BY <2>1
  <2>3. report' \in Seq(Words)
    BY <1>3, <2>2 DEF WalkStep, WalkTypeOK
  <2>4. sp' \in Addresses /\ i' \in 0..WalkLimit
    BY <1>3, StackWalkAssumption DEF WalkStep, WalkTypeOK, Addresses
  <2> QED
    BY <1>3, <2>3, <2>4 DEF WalkStep, WalkTypeOK
<1> QED
  BY <1>2, <1>3 DEF Walk

-----------------------------------------------------------------------------
\* Adding one before or after a turn of the address space is the same.
LEMMA NextAddress ==
  ASSUME NEW w \in Nat \ {0}, NEW x \in Nat
  PROVE  ((x % w) + 1) % w = (x + 1) % w
<1>1. \A q \in Int, r \in 0..(w - 1) : (w * q + r) % w = r
  OBVIOUS
<1>2. PICK q \in Int, r \in 0..(w - 1) : x = w * q + r /\ x % w = r
  OBVIOUS
<1>3. PICK a \in {0, 1}, b \in 0..(w - 1) : r + 1 = w * a + b
  <2>1. CASE r + 1 < w
    BY <1>2, <2>1
  <2>2. CASE r + 1 = w
    BY <1>2, <2>2
  <2> QED
    BY <1>2, <2>1, <2>2
<1>4. (r + 1) % w = b
  BY <1>1, <1>3
<1>5. x + 1 = w * (q + a) + b
  BY <1>2, <1>3
<1>6. (x + 1) % w = b
  <2>1. q + a \in Int
    OBVIOUS
  <2> QED
    BY <1>1, <1>5, <2>1
<1> QED
  BY <1>2, <1>4, <1>6

\* How many of the first n words are code.
LEMMA CodeBelowFacts ==
  ASSUME NEW s, NEW n \in Nat
  PROVE  /\ IsFiniteSet(CodeBelow(s, n)) /\ Cardinality(CodeBelow(s, n)) \in Nat
         /\ \A k \in CodeBelow(s, n) :
              /\ Cardinality(CodeBelow(s, k)) \in Nat
              /\ Cardinality(CodeBelow(s, k)) < Cardinality(CodeBelow(s, n))
<1>1. \A m \in Nat : IsFiniteSet(0..(m - 1))
  BY FS_Interval
<1>2. \A m \in Nat : IsFiniteSet(CodeBelow(s, m))
  BY <1>1, FS_Subset DEF CodeBelow
<1>3. ASSUME NEW k \in CodeBelow(s, n)
      PROVE  /\ Cardinality(CodeBelow(s, k)) \in Nat
             /\ Cardinality(CodeBelow(s, k)) < Cardinality(CodeBelow(s, n))
  <2>1. k \in Nat /\ k \notin CodeBelow(s, k) /\ CodeBelow(s, k) \subseteq CodeBelow(s, n)
    BY DEF CodeBelow
  <2>2. CodeBelow(s, k) # CodeBelow(s, n)
    BY <2>1
  <2>3. /\ Cardinality(CodeBelow(s, k)) <= Cardinality(CodeBelow(s, n))
        /\ Cardinality(CodeBelow(s, k)) # Cardinality(CodeBelow(s, n))
    BY <1>2, <2>1, <2>2, FS_Subset
  <2> QED
    BY <1>2, <2>1, <2>3, FS_CardinalityType
<1> QED
  BY <1>2, <1>3, FS_CardinalityType

\* One more word of the stack: it is listed behind all others, or left out.
LEMMA ListOneMore ==
  ASSUME NEW addresses \in Seq(Words), NEW s, NEW n \in Nat,
         ListsCode(addresses, s, n), WordAt(s, n) \in Words
  PROVE  ListsCode(IF is_code_address(WordAt(s, n))
                   THEN Append(addresses, WordAt(s, n)) ELSE addresses, s, n + 1)
<1> DEFINE below == CodeBelow(s, n)
           rank(k) == 3 + Cardinality(CodeBelow(s, k))
<1>1. /\ IsFiniteSet(below) /\ Cardinality(below) \in Nat
      /\ \A k \in below : rank(k) \in 1..Len(addresses)
  BY CodeBelowFacts DEF ListsCode
<1>2. CASE is_code_address(WordAt(s, n))
  <2> DEFINE longer == Append(addresses, WordAt(s, n))
  <2>1. CodeBelow(s, n + 1) = below \cup {n} /\ n \notin below
    BY <1>2 DEF CodeBelow
  <2>2. Cardinality(CodeBelow(s, n + 1)) = Cardinality(below) + 1
    BY <1>1, <2>1, FS_AddElement
  <2>3. /\ Len(longer) = Len(addresses) + 1
        /\ longer[Len(addresses) + 1] = WordAt(s, n)
        /\ \A k \in 1..Len(addresses) : longer[k] = addresses[k]
    OBVIOUS
  <2>4. Len(addresses) = 2 + Cardinality(below)
    BY DEF ListsCode
  <2>5. \A k \in CodeBelow(s, n + 1) : longer[rank(k)] = WordAt(s, k)
    <3>1. longer[rank(n)] = WordAt(s, n)
      BY <1>1, <2>3, <2>4
    <3>2. ASSUME NEW k \in below PROVE longer[rank(k)] = WordAt(s, k)
      BY <1>1, <2>3 DEF ListsCode
    <3> QED
      BY <2>1, <3>1, <3>2
  <2>6. longer[1] = s.pc /\ longer[2] = s.lr
    BY <1>1, <2>3, <2>4 DEF ListsCode
  <2>7. Len(longer) = 2 + Cardinality(CodeBelow(s, n + 1))
    BY <1>1, <2>2, <2>3, <2>4
  <2> QED
    BY <1>2, <2>5, <2>6, <2>7 DEF ListsCode
<1>3. CASE ~is_code_address(WordAt(s, n))
  <2>1. CodeBelow(s, n + 1) = below
    BY <1>3 DEF CodeBelow
  <2> QED
    BY <1>3, <2>1 DEF ListsCode
<1> QED
  BY <1>2, <1>3

\* How far the walk has come: it is at the i-th word above the stack pointer,
\* all below were mapped, and the code among them is in the report.
WalkSoFar ==
  stack # <<>> =>
    /\ sp = (stack.sp + i) % WordAddrs
    /\ \A k \in 0..(i - 1) : WordAt(stack, k) # Unmapped
    /\ ListsCode(report, stack, i)
    /\ done => i = WalkLimit \/ WordAt(stack, i) = Unmapped

\* The walk begins with pc and lr, and nothing of the stack.
LEMMA WalkStartsSoFar ==
  ASSUME NEW s \in Stack, WalkStarts(s.pc, s.lr, s.sp, s.mem)
  PROVE  WalkSoFar'
<1>1. /\ stack'.pc = s.pc /\ stack'.lr = s.lr /\ stack'.sp = s.sp
      /\ s.sp \in Addresses /\ sp' = s.sp /\ i' = 0 /\ done' = FALSE
      /\ report' = <<s.pc, s.lr>>
  BY DEF WalkStarts, Stack
<1>2. sp' = (stack'.sp + i') % WordAddrs
  BY <1>1, StackWalkAssumption DEF Addresses
<1>3. CodeBelow(stack', 0) = {}
  BY DEF CodeBelow
<1>4. Cardinality(CodeBelow(stack', 0)) = 0
  BY <1>3, FS_EmptySet
<1>5. ListsCode(report', stack', i')
  BY <1>1, <1>3, <1>4 DEF ListsCode
<1> QED
  BY <1>1, <1>2, <1>5 DEF WalkSoFar

\* One turn of the loop, or its end.
LEMMA WalkGoesOn ==
  ASSUME WalkTypeOK, WalkSoFar, Walk, stack # <<>>
  PROVE  WalkSoFar'
<1>1. /\ stack \in Stack /\ stack.sp \in Addresses /\ i \in Nat
      /\ stack' = stack /\ report \in Seq(Words)
  BY StackWalkAssumption DEF WalkTypeOK, Stack, Walk, WalkStep, WalkEnds
<1>2. /\ stack.mem[sp] = WordAt(stack, i)
      /\ sp = (stack.sp + i) % WordAddrs
      /\ \A k \in 0..(i - 1) : WordAt(stack, k) # Unmapped
      /\ ListsCode(report, stack, i)
  BY DEF WalkSoFar, WordAt
<1>3. CASE WalkEnds
  <2>1. /\ i' = i /\ sp' = sp /\ report' = report
        /\ i = WalkLimit \/ WordAt(stack, i) = Unmapped
    BY <1>2, <1>3 DEF WalkEnds
  <2> QED
    BY <1>1, <1>2, <2>1 DEF WalkSoFar
<1>4. CASE WalkStep
  <2>1. /\ i' = i + 1 /\ sp' = (sp + 1) % WordAddrs /\ ~done'
        /\ WordAt(stack, i) # Unmapped
        /\ report' = IF is_code_address(WordAt(stack, i))
                     THEN Append(report, WordAt(stack, i)) ELSE report
    BY <1>2, <1>4 DEF WalkStep
  <2>2. sp' = (stack.sp + i') % WordAddrs
    <3>1. PICK x \in Nat : x = stack.sp + i
      BY <1>1, StackWalkAssumption DEF Addresses
    <3>2. stack.sp + (i + 1) = x + 1
      BY <1>1, <3>1, StackWalkAssumption DEF Addresses
    <3> QED
      BY <1>2, <2>1, <3>1, <3>2, NextAddress, StackWalkAssumption
  <2>3. WordAt(stack, i) \in Words
    <3>1. sp \in Addresses
      BY DEF WalkTypeOK
    <3>2. stack.mem[sp] \in Words \cup {Unmapped}
      BY <1>1, <3>1 DEF Stack
    <3> QED
      BY <1>2, <2>1, <3>2
  <2>4. ListsCode(report', stack, i')
    BY <1>1, <1>2, <2>1, <2>3, ListOneMore
  <2>5. \A k \in 0..(i' - 1) : WordAt(stack, k) # Unmapped
    BY <1>1, <1>2, <2>1
  <2> QED
    BY <1>1, <2>1, <2>2, <2>4, <2>5 DEF WalkSoFar
<1> QED
  BY <1>3, <1>4 DEF Walk

\* A walk that is over has come as far as the stack goes.
LEMMA WalkIsDeep ==
  ASSUME WalkTypeOK, WalkSoFar, done, stack # <<>>
  PROVE  ReportIsStack
<1> DEFINE reached(n) == \A k \in 0..(n - 1) : WordAt(stack, k) # Unmapped
<1>1. /\ i \in 0..WalkLimit /\ WalkLimit \in Nat /\ reached(i)
      /\ ListsCode(report, stack, i)
      /\ i = WalkLimit \/ WordAt(stack, i) = Unmapped
  BY StackWalkAssumption DEF WalkTypeOK, WalkSoFar
<1>2. \A n \in 0..WalkLimit : reached(n) => i >= n
  <2>1. ASSUME NEW n \in 0..WalkLimit, reached(n), i < n PROVE FALSE
    <3>1. i \in 0..(n - 1) /\ i # WalkLimit
      BY <1>1, <2>1
    <3> QED
      BY <1>1, <2>1, <3>1
  <2> QED
    BY <1>1, <2>1
<1>3. Depth(stack) = i
  <2> DEFINE S == {n \in 0..WalkLimit : reached(n)}
  <2>1. i \in S /\ \A n \in S : i >= n
    BY <1>1, <1>2
  <2>2. \A n \in S : (\A m \in S : n >= m) => n = i
    BY <1>1, <2>1
  <2> QED
    BY <2>1, <2>2 DEF Depth, Max
<1> QED
  BY <1>1, <1>3 DEF ReportIsStack

\* A walk that is not over has a stack, and goes on only inside the SVC.
WalkPlaced ==
  /\ at # "walking" => done
  /\ ~done => stack # <<>>

\* The message of a panic ends its line, and is out when the walk begins.
MessageSeen ==
  /\ at = "panicking" => printed # <<>> /\ printed[Len(printed)] = NL
  /\ at \in {"walking", "stopped"} => log = printed

PanicInv ==
  /\ ConsoleInv
  /\ WalkTypeOK
  /\ at \in {"guest", "panicking", "walking", "stopped"}
  /\ WalkPlaced /\ WalkSoFar /\ MessageSeen

\* What leaves the console alone, and what leaves the walk alone.
LEMMA Untouched ==
  /\ ConsoleInv /\ UNCHANGED consoleVars => ConsoleInv'
  /\ WalkTypeOK /\ UNCHANGED walkVars => WalkTypeOK'
  /\ WalkSoFar /\ UNCHANGED walkVars => WalkSoFar'
<1>1. ConsoleInv /\ UNCHANGED consoleVars => ConsoleInv'
  BY DEF ConsoleInv, ConsoleTypeOK, Settled, Waiting, Writing, consoleVars
<1>2. ASSUME WalkTypeOK, UNCHANGED walkVars PROVE WalkTypeOK'
  <2>1. UNCHANGED <<stack, sp, i, report>> /\ done' = done
    BY <1>2 DEF walkVars
  <2> QED
    BY <1>2, <2>1, Zenon DEF WalkTypeOK
<1>3. ASSUME WalkSoFar, UNCHANGED walkVars PROVE WalkSoFar'
  <2>1. UNCHANGED <<stack, sp, i, report>> /\ done' = done
    BY <1>3 DEF walkVars
  <2> QED
    BY <1>3, <2>1, Zenon DEF WalkSoFar
<1> QED
  BY <1>1, <1>2, <1>3

\* Behind printf, nothing of a line that has ended is still in the guest.
LEMMA EndedLinesAreOut ==
  ASSUME ConsoleInv, Quiet, printed # <<>>, printed[Len(printed)] = NL
  PROVE  log = printed
<1>1. /\ todo = <<>> /\ ~Writing /\ Waiting = stdout
      /\ stdout \in Seq(Chars) /\ log \in Seq(Chars)
      /\ \A k \in DOMAIN stdout : stdout[k] # NL
  BY DEF ConsoleInv, ConsoleTypeOK, Settled, Quiet, Waiting
<1>2. log \o stdout = printed
  BY <1>1 DEF ConsoleInv
<1>3. CASE stdout = <<>>
  BY <1>1, <1>2, <1>3
<1>4. CASE stdout # <<>>
  <2>1. Len(stdout) \in DOMAIN stdout
    BY <1>1, <1>4
  <2>2. printed[Len(printed)] = stdout[Len(stdout)]
    <3>1. PICK s \in Seq(Chars), t \in Seq(Chars) : s = log /\ t = stdout
      BY <1>1
    <3>2. PICK m \in Nat, n \in Nat \ {0} : m = Len(s) /\ n = Len(t)
      BY <1>4, <3>1
    <3>3. Len(s \o t) = m + n /\ (s \o t)[m + n] = t[n]
      <4>1. Len(s \o t) = m + n /\ m + n \in 1..m + n
        BY <3>2, ConcatProperties
      <4>2. (s \o t)[m + n] = IF m + n <= m THEN s[m + n] ELSE t[(m + n) - m]
        BY <3>2, <4>1, ConcatProperties
      <4> QED
        BY <3>2, <4>1, <4>2
    <3> QED
      BY <1>2, <3>1, <3>2, <3>3
  <2> QED
    BY <1>1, <2>1, <2>2
<1> QED
  BY <1>3, <1>4

\* What miniSYS prints over a panic ends with the end of a line.
LEMMA MessageEnds ==
  ASSUME NEW s \in Seq(Chars)
  PROVE  /\ s \o PanicMessage # <<>>
         /\ (s \o PanicMessage)[Len(s \o PanicMessage)] = NL
<1>1. PICK t \in Seq(Chars) : t = PanicMessage /\ t # <<>> /\ t[Len(t)] = NL
  BY PanicAssumption
<1>2. Len(s \o t) = Len(s) + Len(t) /\ Len(t) \in 1..Len(t)
  BY <1>1
<1>3. (s \o t)[Len(s) + Len(t)] = t[Len(t)]
  BY <1>2
<1> QED
  BY <1>1, <1>2, <1>3

\* Printing: the console moves on, the walk does not.
LEMMA PrintingStep ==
  ASSUME PanicInv, ConsoleInv', UNCHANGED walkVars, at # "walking",
         at' \in {"guest", "panicking"}, MessageSeen'
  PROVE  PanicInv'
<1>1. done /\ done' = done
  <2>1. done' = done
    BY DEF walkVars
  <2> QED
    BY <2>1, Zenon DEF PanicInv, WalkPlaced
<1>2. WalkPlaced'
  BY <1>1, Zenon DEF WalkPlaced
<1> QED
  BY <1>2, Untouched DEF PanicInv

\* Every step keeps the console and the walk in order.
LEMMA PanicStep ==
  ASSUME PanicInv, [Next]_vars
  PROVE  PanicInv'
<1>1. ConsoleInv /\ WalkTypeOK /\ WalkPlaced /\ WalkSoFar /\ MessageSeen
  BY DEF PanicInv
<1>2. UNCHANGED <<at, printed, log>> => MessageSeen'
  BY <1>1 DEF MessageSeen
<1>3. ASSUME NEW message \in Messages, GuestPrints(message) PROVE PanicInv'
  <2>1. MessageSeen'
    BY <1>3 DEF GuestPrints, MessageSeen
  <2> QED
    BY <1>1, <1>3, <2>1, PrintfStep, PrintingStep, PanicAssumption DEF GuestPrints
<1>4. CASE CcosPanicAt
  <2>1. printed' = printed \o PanicMessage /\ printed \in Seq(Chars) /\ at' = "panicking"
    BY <1>1, <1>4 DEF CcosPanicAt, Printf, ConsoleInv, ConsoleTypeOK
  <2>2. MessageSeen'
    BY <2>1, MessageEnds DEF MessageSeen
  <2> QED
    BY <1>1, <1>4, <2>2, PrintfStep, PrintingStep, PanicAssumption DEF CcosPanicAt
<1>5. CASE Printing
  <2>1. /\ at \in {"guest", "panicking"} /\ at' = at
        /\ UNCHANGED <<printed, walkVars>> /\ LibraryRuns
    BY <1>5 DEF Printing, LibraryRuns, TakeChar, Putc, WriteReturns
  <2>2. MessageSeen'
    BY <1>1, <2>1 DEF MessageSeen
  <2>3. ConsoleInv'
    BY <1>1, <2>1, TakeCharStep, PutcStep, WriteReturnsStep DEF LibraryRuns
  <2> QED
    BY <2>1, <2>2, <2>3, PrintingStep
<1>6. CASE PanicSvc
  <2>1. PICK s \in Stack : WalkStarts(s.pc, s.lr, s.sp, s.mem)
    BY <1>6 DEF PanicSvc
  <2>2. /\ s.pc \in Words /\ s.lr \in Words /\ s.sp \in Addresses
        /\ stack' \in Stack /\ stack' # <<>>
    BY <2>1 DEF WalkStarts, Stack
  <2>3. report' \in Seq(Words)
    <3>1. PICK pc \in Words, lr \in Words : pc = s.pc /\ lr = s.lr
      BY <2>2
    <3>2. report' = <<pc, lr>>
      BY <2>1, <3>1 DEF WalkStarts
    <3> QED
      BY <3>2
  <2>4. sp' \in Addresses /\ i' \in 0..WalkLimit /\ done' = FALSE
    BY <2>1, <2>2, StackWalkAssumption DEF WalkStarts
  <2>5. WalkTypeOK'
    BY <2>2, <2>3, <2>4, Zenon DEF WalkTypeOK
  <2>6. at' = "walking" /\ ConsoleInv'
    BY <1>1, <1>6, Untouched DEF PanicSvc
  <2>7. WalkPlaced'
    BY <2>2, <2>6, Zenon DEF WalkPlaced
  <2>8. MessageSeen'
    <3>1. log = printed
      BY <1>1, <1>6, EndedLinesAreOut DEF PanicSvc, MessageSeen
    <3>2. UNCHANGED <<log, printed>>
      BY <1>6 DEF PanicSvc, consoleVars
    <3> QED
      BY <2>6, <3>1, <3>2 DEF MessageSeen
  <2> QED
    BY <2>1, <2>5, <2>6, <2>7, <2>8, WalkStartsSoFar DEF PanicInv
<1>7. CASE Walking
  <2>1. Walk /\ ~done /\ at' = "walking" /\ at = "walking" /\ ConsoleInv'
    BY <1>1, <1>7, Untouched DEF Walking, Walk, WalkStep, WalkEnds
  <2>2. stack' = stack /\ stack # <<>>
    BY <1>1, <2>1, Zenon DEF Walk, WalkStep, WalkEnds, WalkPlaced
  <2>3. WalkPlaced'
    BY <2>1, <2>2, Zenon DEF WalkPlaced
  <2>4. WalkTypeOK'
    BY <1>1, <2>1, <2>2, WalkStepTypes
  <2> QED
    BY <1>1, <1>2, <1>7, <2>1, <2>2, <2>3, <2>4, WalkGoesOn
    DEF PanicInv, Walking, consoleVars
<1>8. CASE EmuStops
  <2>1. /\ done /\ at' = "stopped" /\ UNCHANGED <<consoleVars, walkVars>>
    BY <1>8 DEF EmuStops
  <2>2. done' = done
    BY <2>1 DEF walkVars
  <2>3. WalkPlaced'
    BY <2>1, <2>2, Zenon DEF WalkPlaced
  <2>4. MessageSeen'
    BY <1>1, <1>8, <2>1 DEF EmuStops, MessageSeen, consoleVars
  <2> QED
    BY <1>1, <2>1, <2>3, <2>4, Untouched DEF PanicInv
<1>9. CASE Resumed
  <2>1. 0 \in Addresses /\ 0 \in 0..WalkLimit
    BY StackWalkAssumption DEF Addresses
  <2>2. /\ at = "stopped" /\ at' = "guest" /\ done' = done
        /\ stack' = <<>> /\ sp' = 0 /\ i' = 0 /\ report' = <<>>
        /\ UNCHANGED consoleVars
    BY <1>9 DEF Resumed
  <2>3. WalkPlaced' /\ done' \in BOOLEAN
    <3>1. done
      BY <1>1, <2>2 DEF WalkPlaced
    <3>2. done \in BOOLEAN
      BY <1>1, Zenon DEF WalkTypeOK
    <3> QED
      BY <2>2, <3>1, <3>2, Zenon DEF WalkPlaced
  <2>4. report' \in Seq(Words) /\ sp' \in Addresses /\ i' \in 0..WalkLimit
    BY <2>1, <2>2
  <2>5. WalkTypeOK'
    BY <2>2, <2>3, <2>4, Zenon DEF WalkTypeOK
  <2> QED
    BY <1>1, <2>2, <2>3, <2>5, Untouched
    DEF PanicInv, WalkSoFar, MessageSeen
<1>10. CASE UNCHANGED vars
  <2>1. UNCHANGED <<consoleVars, walkVars, at>>
    BY <1>10 DEF vars
  <2>2. done' = done /\ stack' = stack /\ at' = at
    BY <2>1 DEF walkVars
  <2>3. WalkPlaced'
    BY <1>1, <2>2, Zenon DEF WalkPlaced
  <2> QED
    BY <1>1, <1>2, <2>1, <2>2, <2>3, Untouched DEF PanicInv, consoleVars
<1> QED
  BY <1>3, <1>4, <1>5, <1>6, <1>7, <1>8, <1>9, <1>10 DEF Next

\* The console and the walk are in order in every state.
THEOREM PanicInvariance == Spec => []PanicInv
<1>1. Init => PanicInv
  <2>1. 0 \in Addresses /\ 0 \in 0..WalkLimit
    BY StackWalkAssumption DEF Addresses
  <2>2. ConsoleInit => ConsoleInv
    BY DEF ConsoleInit, ConsoleInv, ConsoleTypeOK, Settled, Waiting, Writing
  <2>3. WalkInit => WalkTypeOK
    BY <2>1 DEF WalkInit, WalkTypeOK
  <2>4. Init => WalkPlaced
    BY Zenon DEF Init, WalkInit, WalkPlaced
  <2>5. WalkInit => WalkSoFar
    BY Zenon DEF WalkInit, WalkSoFar
  <2> QED
    BY <2>2, <2>3, <2>4, <2>5 DEF Init, PanicInv, MessageSeen
<1> QED
  BY <1>1, PanicStep, PTL DEF Spec

\* The console and the walk keep their types; the walk looks at no more words
\* than its limit, and stays in the address space when sp wraps.
THEOREM PanicTypes == Spec => []PanicTypeOK
<1>1. PanicInv => PanicTypeOK
  BY DEF PanicInv, PanicTypeOK, ConsoleInv
<1> QED
  BY <1>1, PanicInvariance, PTL

\* All that is printed is on its way to the host in its order, and out as far
\* as the lines have ended, for every size of the library's buffer.
THEOREM PrintedLinesAreOut == Spec => []LinesAreOut
<1>1. PanicInv => LinesAreOut
  BY DEF PanicInv, ConsoleInv, Settled, LinesAreOut, Quiet
<1> QED
  BY <1>1, PanicInvariance, PTL
\* The stack trace of a panic is complete, in order and without repetition,
\* for every stack and every limit of the walk, also across the end of the
\* address space.
THEOREM StackIsReported == Spec => []ReportIsStack
<1>1. PanicInv => ReportIsStack
  <2>1. PanicInv /\ done /\ stack # <<>> => ReportIsStack
    BY WalkIsDeep DEF PanicInv
  <2> QED
    BY <2>1, Zenon DEF ReportIsStack
<1> QED
  BY <1>1, PanicInvariance, PTL

-----------------------------------------------------------------------------
\* How much is left to print, and that it is a number.
LEMMA PrintWorkIs ==
  ConsoleInv => /\ PrintWork \in Nat
                /\ PrintWork = 3 * Len(todo) +
                     (IF DataIdx = -1 THEN Len(stdout) ELSE Len(stdout) - DataIdx + 1)
<1>1. SUFFICES ASSUME ConsoleInv
               PROVE  /\ PrintWork \in Nat
                      /\ PrintWork = 3 * Len(todo) +
                           (IF DataIdx = -1 THEN Len(stdout)
                            ELSE Len(stdout) - DataIdx + 1)
  OBVIOUS
<1>2. /\ stdout \in Seq(Chars) /\ todo \in Seq(Chars)
      /\ DataIdx \in -1..Len(stdout)
  BY <1>1 DEF ConsoleInv, ConsoleTypeOK
<1>3. PICK l \in Nat, t \in Nat : l = Len(stdout) /\ t = Len(todo)
  BY <1>2
<1>4. CASE DataIdx = -1
  <2>1. ~Writing /\ Waiting = stdout
    BY <1>4 DEF Waiting, Writing
  <2>2. PrintWork = 3 * t + l + 0
    BY <1>3, <2>1 DEF PrintWork
  <2> QED
    BY <1>3, <1>4, <2>2
<1>5. CASE DataIdx # -1
  <2>1. Writing /\ Waiting = SubSeq(stdout, DataIdx + 1, Len(stdout))
    BY <1>5 DEF Waiting, Writing
  <2>2. Len(Waiting) = l - DataIdx /\ DataIdx \in 0..l
    BY <1>2, <1>3, <1>5, <2>1
  <2>3. PrintWork = 3 * t + (l - DataIdx) + 1
    BY <1>3, <2>1, <2>2 DEF PrintWork
  <2> QED
    BY <1>3, <1>5, <2>2, <2>3
<1> QED
  BY <1>4, <1>5

\* Each step of the library leaves less to print.
LEMMA PrintWorkFalls ==
  ASSUME ConsoleInv, ConsoleInv', LibraryRuns
  PROVE  PrintWork' < PrintWork
<1>1. /\ stdout \in Seq(Chars) /\ todo \in Seq(Chars)
      /\ DataIdx \in -1..Len(stdout)
  BY DEF ConsoleInv, ConsoleTypeOK
<1>2. PICK l \in Nat, t \in Nat : l = Len(stdout) /\ t = Len(todo)
  BY <1>1
<1>3. PrintWork = 3 * t + (IF DataIdx = -1 THEN l ELSE l - DataIdx + 1)
  BY <1>2, PrintWorkIs
<1>4. (PrintWork = 3 * Len(todo) +
         (IF DataIdx = -1 THEN Len(stdout) ELSE Len(stdout) - DataIdx + 1))'
  BY PrintWorkIs, PTL
<1>5. CASE TakeChar
  <2>1. /\ DataIdx = -1 /\ DataIdx' \in {0, -1}
        /\ Len(todo') = t - 1 /\ Len(stdout') = l + 1 /\ t # 0
    <3>1. todo # <<>> /\ Head(todo) \in Chars
      BY <1>1, <1>5 DEF TakeChar
    <3> QED
      BY <1>1, <1>2, <1>5, <3>1 DEF TakeChar, Writing
  <2>2. PrintWork = 3 * t + l
    BY <1>3, <2>1
  <2>3. CASE DataIdx' = 0
    <3>1. PrintWork' = 3 * (t - 1) + ((l + 1) - 0 + 1)
      BY <1>4, <2>1, <2>3
    <3> QED
      BY <2>2, <3>1
  <2>4. CASE DataIdx' = -1
    <3>1. PrintWork' = 3 * (t - 1) + (l + 1)
      BY <1>4, <2>1, <2>4
    <3> QED
      BY <2>2, <3>1
  <2> QED
    BY <2>1, <2>3, <2>4
<1>6. CASE Putc
  <2>1. /\ DataIdx # -1 /\ DataIdx < l /\ DataIdx' = DataIdx + 1
        /\ Len(stdout') = l /\ Len(todo') = t
    BY <1>2, <1>6 DEF Putc, Writing
  <2>2. PICK d \in 0..l : d = DataIdx
    BY <1>1, <1>2, <2>1
  <2>3. PrintWork = 3 * t + (l - d + 1)
    BY <1>3, <2>1, <2>2
  <2>4. DataIdx' = d + 1 /\ d + 1 # -1
    BY <2>1, <2>2
  <2>5. PrintWork' = 3 * t + (l - (d + 1) + 1)
    BY <1>4, <2>1, <2>4
  <2> QED
    BY <2>3, <2>5
<1>7. CASE WriteReturns
  <2>1. /\ DataIdx # -1 /\ DataIdx = l /\ DataIdx' = -1
        /\ Len(stdout') = 0 /\ Len(todo') = t
    BY <1>2, <1>7 DEF WriteReturns, Writing
  <2> QED
    BY <1>3, <1>4, <2>1
<1> QED
  BY <1>5, <1>6, <1>7 DEF LibraryRuns

\* One step of a panic.
LEMMA PanicWorkStep ==
  ASSUME PanicInv, [Next]_vars, at = "panicking" \/ at = "walking"
  PROVE  UNCHANGED vars \/ (PanicWork \in Nat /\ PanicWork' < PanicWork)
<1>1. ConsoleInv /\ WalkLimit \in Nat /\ i \in 0..WalkLimit
  BY StackWalkAssumption DEF PanicInv, WalkTypeOK
<1>2. PrintWork \in Nat
  BY <1>1, PrintWorkIs
<1>3. PanicWork \in Nat
  BY <1>1, <1>2 DEF PanicWork
<1>4. CASE Printing /\ at = "panicking"
  <2>1. ConsoleInv' /\ at' = "panicking"
    BY <1>1, <1>4, TakeCharStep, PutcStep, WriteReturnsStep DEF Printing, LibraryRuns
  <2>2. PrintWork' < PrintWork
    BY <1>1, <1>4, <2>1, PrintWorkFalls DEF Printing
  <2>3. ConsoleInv' => (PrintWork \in Nat)'
    BY PrintWorkIs, PTL
  <2> QED
    BY <1>1, <1>2, <1>3, <1>4, <2>1, <2>2, <2>3 DEF PanicWork
<1>5. CASE PanicSvc
  <2>1. at = "panicking" /\ at' = "walking" /\ i' = 0
    BY <1>5 DEF PanicSvc, WalkStarts
  <2>2. PanicWork' \in Int /\ PanicWork' <= WalkLimit + 2
    BY <1>1, <2>1 DEF PanicWork
  <2>3. PanicWork = PrintWork + WalkLimit + 3
    BY <2>1 DEF PanicWork
  <2> QED
    BY <1>1, <1>2, <1>3, <2>2, <2>3
<1>6. CASE Walking
  <2>1. /\ at = "walking" /\ at' = "walking" /\ ~done
        /\ \/ i' = i + 1 /\ done' = done
           \/ i' = i /\ done'
    BY <1>6 DEF Walking, Walk, WalkStep, WalkEnds
  <2> QED
    BY <1>1, <1>3, <2>1 DEF PanicWork
<1>7. CASE EmuStops
  <2>1. at = "walking" /\ at' = "stopped"
    BY <1>7 DEF EmuStops
  <2> QED
    BY <1>1, <1>3, <2>1 DEF PanicWork
<1>8. CASE UNCHANGED vars
  BY <1>8
<1>9. /\ ~ \E message \in Messages : GuestPrints(message)
      /\ ~ CcosPanicAt /\ ~ Resumed
  BY DEF GuestPrints, CcosPanicAt, Resumed
<1>10. Printing => at = "panicking"
  BY DEF Printing
<1> QED
  BY <1>4, <1>5, <1>6, <1>7, <1>8, <1>9, <1>10 DEF Next

\* Whatever has been printed, however large the buffer is, and whatever is on
\* the stack, a panic takes no more steps than its PanicWork.
THEOREM PanicsAreShort == Spec => PanicWorkFalls
<1>1. PanicInv /\ [Next]_vars =>
        [(at = "panicking" \/ at = "walking") =>
           PanicWork \in Nat /\ PanicWork' < PanicWork]_vars
  BY PanicWorkStep
<1> QED
  BY <1>1, PanicInvariance, PTL DEF Spec, PanicWorkFalls

=============================================================================
