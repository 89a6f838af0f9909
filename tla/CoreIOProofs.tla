---------------------------- MODULE CoreIOProofs ----------------------------
(***************************************************************************)
(* The coordinates, the keys and the clock, for every state a frontend may *)
(* load, every number of buttons and every range of the clock's register.  *)
(***************************************************************************)
EXTENDS CoreIO, FiniteSetTheorems, TLAPS

\* What is in the frontend's buffer are the coordinates it was written from.
SaveInv == SaveTypeOK /\ RoundTrip

\* What the guest has got in this frame are the buttons polled in it.
KeyInv ==
  KeyTypeOK /\ (outputs # <<>> => outputs = <<{}, {}, get_keypad_state>>)

IOInv == SaveInv /\ KeyInv /\ ClockTypeOK /\ in_frame \in BOOLEAN

-----------------------------------------------------------------------------
\* A number below 32 survives the cut to a byte and the mask.
LEMMA MaskFacts ==
  /\ \A n \in 0..31 : And31(Uint8(n)) = n /\ Uint8(n) \in 0..255
  /\ \A n \in Nat : And31(n) \in 0..31
BY DEF And31, Uint8

\* The functions on the coordinates keep them below 32.
LEMMA SaveStep ==
  ASSUME SaveInv, SaveNext \/ UNCHANGED saveVars
  PROVE  SaveInv'
<1>1. CASE RetroReset
  BY <1>1 DEF RetroReset, SaveInv, SaveTypeOK, RoundTrip
<1>2. CASE LoadOtherState
  <2>1. PICK u \in 0..255, v \in 0..255 : data' = <<u, v>>
    BY <1>2, SaveStateAssumption DEF LoadOtherState
  <2>2. saved' = <<>> /\ UNCHANGED <<x_coord, y_coord>>
    BY <1>2 DEF LoadOtherState
  <2> QED
    BY <2>1, <2>2 DEF SaveInv, SaveTypeOK, RoundTrip
<1>3. ASSUME NEW length \in BufferSizes, RetroSerialize(length)
      PROVE  SaveInv'
  <2>1. PICK x \in 0..31, y \in 0..31 : x = x_coord /\ y = y_coord
    BY DEF SaveInv, SaveTypeOK
  <2>2. PICK u \in 0..255, v \in 0..255 :
          u = Uint8(x) /\ v = Uint8(y) /\ And31(u) = x /\ And31(v) = y
    BY MaskFacts
  <2>3. data' = <<u, v>> /\ saved' = <<x, y>> /\ UNCHANGED <<x_coord, y_coord>>
    BY <1>3, <2>1, <2>2 DEF RetroSerialize
  <2> QED
    BY <2>1, <2>2, <2>3 DEF SaveInv, SaveTypeOK, RoundTrip
<1>4. ASSUME NEW length \in BufferSizes, RetroUnserialize(length)
      PROVE  SaveInv'
  <2>1. data \in (0..255) \X (0..255)
    BY <1>4 DEF RetroUnserialize, SaveInv, SaveTypeOK
  <2>2. /\ x_coord' = And31(data[1]) /\ y_coord' = And31(data[2])
        /\ UNCHANGED <<data, saved>>
    BY <1>4 DEF RetroUnserialize
  <2>3. x_coord' \in 0..31 /\ y_coord' \in 0..31
    BY <2>1, <2>2, MaskFacts
  <2> QED
    BY <2>2, <2>3 DEF SaveInv, SaveTypeOK, RoundTrip
<1>5. CASE UNCHANGED saveVars
  BY <1>5 DEF saveVars, SaveInv, SaveTypeOK, RoundTrip
<1> QED
  BY <1>1, <1>2, <1>3, <1>4, <1>5 DEF SaveNext

\* A word of the keypad is a set of bit numbers.
LEMMA KeyBitsFacts ==
  /\ \A b \in Buttons \ Keyless : b \in DOMAIN KeyBits /\ KeyBits[b] \in 0..31
  /\ \A b, c \in Buttons \ Keyless : KeyBits[b] = KeyBits[c] => b = c
  /\ DOMAIN KeyBits = Buttons \ Keyless
BY DEF KeyBits, Buttons, Keyless

\* The word of the keypad tells the buttons apart, and has one bit for each.
LEMMA KeysApart ==
  ASSUME KeyInv
  PROVE  KeysTellApart
<1> SUFFICES ASSUME outputs # <<>>
             PROVE  /\ \A b \in Buttons \ Keyless :
                         b \in input <=> KeyBits[b] \in outputs[3]
                    /\ Cardinality(outputs[3]) = Cardinality(input \ Keyless)
  BY DEF KeysTellApart
<1>1. input \subseteq Buttons
  BY DEF KeyInv, KeyTypeOK, Held
<1>2. outputs[3] = get_keypad_state
  BY DEF KeyInv
<1> DEFINE S == input \ Keyless
           f == [b \in S |-> KeyBits[b]]
<1>3. S \subseteq Buttons \ Keyless /\ input \cap DOMAIN KeyBits = S
  BY <1>1, KeyBitsFacts
<1>4. get_keypad_state = {KeyBits[b] : b \in S}
  BY <1>3 DEF get_keypad_state
<1>5. \A b \in Buttons \ Keyless : b \in input <=> KeyBits[b] \in outputs[3]
  BY <1>2, <1>3, <1>4, KeyBitsFacts
<1>6. IsFiniteSet(S)
  <2>1. f \in Injection(S, 0..31)
    <3>1. \A b \in S : KeyBits[b] \in 0..31
      BY <1>3, KeyBitsFacts
    <3>2. f \in [S -> 0..31]
      BY <3>1
    <3>3. \A b, c \in S : KeyBits[b] = KeyBits[c] => b = c
      BY <1>3, KeyBitsFacts
    <3>4. IsInjective(f)
      BY <3>3 DEF IsInjective
    <3> QED
      BY <3>2, <3>4 DEF Injection
  <2>2. IsFiniteSet(0..31)
    <3>1. 0 \in Int /\ 31 \in Int
      OBVIOUS
    <3> QED
      BY <3>1, FS_Interval, Zenon
  <2> QED
    BY <2>1, <2>2, FS_Injection
<1>7. f \in Bijection(S, get_keypad_state)
  BY <1>3, <1>4, KeyBitsFacts
     DEF Bijection, Injection, Surjection, IsInjective
<1>8. Cardinality(get_keypad_state) = Cardinality(S)
  BY <1>6, <1>7, FS_Bijection DEF ExistsBijection
<1> QED
  BY <1>2, <1>5, <1>8

\* Polling and reading the keys keep them.
LEMMA KeyStep ==
  ASSUME KeyInv, UpdateInput \/ KbdGetStatus \/ UNCHANGED keyVars
  PROVE  KeyInv'
<1>1. CASE UpdateInput
  BY <1>1 DEF UpdateInput, KeyInv, KeyTypeOK
<1>2. CASE KbdGetStatus
  <2>1. get_keypad_state \subseteq 0..31
    BY KeyBitsFacts DEF get_keypad_state
  <2>2. outputs' = <<{}, {}, get_keypad_state>> /\ UNCHANGED input
    BY <1>2 DEF KbdGetStatus
  <2> QED
    BY <2>1, <2>2 DEF KeyInv, KeyTypeOK, get_keypad_state
<1>3. CASE UNCHANGED keyVars
  BY <1>3 DEF keyVars, KeyInv, KeyTypeOK, get_keypad_state
<1> QED
  BY <1>1, <1>2, <1>3

\* The clock keeps to its range, and the answers to the register's.
LEMMA ClockStep ==
  ASSUME ClockTypeOK, Work \/ OSTimeGet \/ UNCHANGED clockVars
  PROVE  ClockTypeOK'
<1>1. PICK turn \in Nat \ {0} : turn = Turn
  <2>1. \A x \in Nat \ {0}, y \in Nat \ {0} : x * y \in Nat \ {0}
    OBVIOUS
  <2> QED
    BY <2>1, ClockAssumption DEF Turn
<1>2. /\ ticks \in 0..(turn - 1) /\ left \in 0..Room
      /\ time \in 0..(TimeWord - 1) /\ gone \in 0..turn
  BY <1>1 DEF ClockTypeOK
<1>3. CASE Work
  <2>1. PICK n \in Nat : /\ ticks' = (ticks + n) % turn
                         /\ left' = IF n >= left THEN 0 ELSE left - n
                         /\ gone' = IF gone + n >= turn THEN turn ELSE gone + n
                         /\ UNCHANGED time
    BY <1>1, <1>3, ClockAssumption DEF Work
  <2>2. left' \in 0..Room
    BY <1>2, <2>1, ClockAssumption
  <2> QED
    BY <1>1, <1>2, <2>1, <2>2 DEF ClockTypeOK
<1>4. CASE OSTimeGet
  <2>1. ticks \div TicksPerMs \in Nat
    BY <1>2, ClockAssumption
  <2>2. Now \in 0..(TimeWord - 1)
    BY <2>1, ClockAssumption DEF Now
  <2>3. 0 \in 0..turn
    BY <1>1
  <2> QED
    BY <1>1, <1>2, <1>4, <2>2, <2>3 DEF OSTimeGet, ClockTypeOK
<1>5. CASE UNCHANGED clockVars
  BY <1>5 DEF clockVars, ClockTypeOK
<1> QED
  BY <1>3, <1>4, <1>5

\* Each step of the composition is one of the parts, and leaves the others.
LEMMA IOStep ==
  ASSUME IOInv, [IONext]_ioVars
  PROVE  IOInv'
<1>1. /\ SaveNext \/ UNCHANGED saveVars
      /\ UpdateInput \/ KbdGetStatus \/ UNCHANGED keyVars
      /\ Work \/ OSTimeGet \/ UNCHANGED clockVars
      /\ in_frame' \in BOOLEAN
  BY DEF IOInv, IONext, ioVars, RetroRun, FrameEnds, GuestReadsKeys,
         GuestReadsTime, GuestSleeps, OSTimeDly, ProcessRuns, FrontendSaves
<1> QED
  BY <1>1, SaveStep, KeyStep, ClockStep DEF IOInv

\* The coordinates keep below 32, the guest's keys are those polled, and the
\* clock keeps to its range, in every state.
THEOREM IOInvariance == IOSpec => []IOInv
<1>1. IOInit => IOInv
  <2> SUFFICES ASSUME IOInit PROVE IOInv
    OBVIOUS
  <2>1. SaveInv
    BY DEF IOInit, SaveInit, SaveInv, SaveTypeOK, RoundTrip
  <2>2. KeyInv
    <3>1. Cardinality({}) = 0
      BY FS_EmptySet
    <3> QED
      BY <3>1, KeypadAssumption
         DEF IOInit, KeyInit, KeyInv, KeyTypeOK, Held
  <2>3. ClockTypeOK
    <3>1. PICK turn \in Nat \ {0} : turn = Turn
      <4>1. \A x \in Nat \ {0}, y \in Nat \ {0} : x * y \in Nat \ {0}
        OBVIOUS
      <4> QED
        BY <4>1, ClockAssumption DEF Turn
    <3> QED
      BY <3>1, ClockAssumption DEF IOInit, ClockInit, ClockTypeOK
  <2> QED
    BY <2>1, <2>2, <2>3 DEF IOInit, IOInv
<1> QED
  BY <1>1, IOStep, PTL DEF IOSpec

\* Coordinates, keys and time keep their types.
THEOREM IOTypes == IOSpec => []IOTypeOK
<1>1. IOInv => IOTypeOK
  BY DEF IOInv, SaveInv, KeyInv, IOTypeOK
<1> QED
  BY <1>1, IOInvariance, PTL

\* What retro_serialize has written is read back by retro_unserialize,
\* whatever states the frontend has loaded before.
THEOREM StatesRoundTrip == IOSpec => []RoundTrip
<1>1. IOInv => RoundTrip
  BY DEF IOInv, SaveInv
<1> QED
  BY <1>1, IOInvariance, PTL

\* The word the guest gets tells exactly the buttons polled in this frame.
THEOREM KeysAreToldApart == IOSpec => []KeysTellApart
<1>1. IOInv => KeysTellApart
  BY KeysApart DEF IOInv
<1> QED
  BY <1>1, IOInvariance, PTL

-----------------------------------------------------------------------------
\* The ticks at the last answer, as long as the register can tell them from
\* the ticks now and clock_t holds the product: the answer was the
\* milliseconds in them.
AnsweredAt ==
  gone < Turn /\ left > 0 =>
    \E base \in 0..(Turn - 1) :
      /\ time = (base \div TicksPerMs) % TimeWord
      /\ ticks = (base + gone) % Turn

\* Division by the ticks of a millisecond, with the rest given.
LEMMA DivUnique ==
  ASSUME NEW t \in Nat \ {0}, NEW q \in Int, NEW r \in 0..(t - 1)
  PROVE  (t * q + r) \div t = q
OBVIOUS

\* The same, with the rest to be found.
LEMMA DivFacts ==
  ASSUME NEW t \in Nat \ {0}, NEW x \in Nat
  PROVE  \E q \in Nat, r \in 0..(t - 1) : x = t * q + r /\ x \div t = q
OBVIOUS

\* Adding before or after a turn is cut off is the same.
LEMMA CutOnce ==
  ASSUME NEW w \in Nat \ {0}, NEW x \in Nat, NEW m \in Nat
  PROVE  ((x % w) + m) % w = (x + m) % w
<1>1. \A q \in Int, r \in 0..(w - 1) : (w * q + r) % w = r
  OBVIOUS
<1>2. PICK q \in Nat, r \in 0..(w - 1) : x = w * q + r /\ x % w = r
  <2>1. PICK q \in Nat, r \in 0..(w - 1) : x = w * q + r
    BY DivFacts
  <2> QED
    BY <1>1, <2>1
<1>3. PICK a \in Nat, b \in 0..(w - 1) : r + m = w * a + b
  <2>1. PICK y \in Nat : y = r + m
    BY <1>2
  <2>2. \E a \in Nat, b \in 0..(w - 1) : y = w * a + b
    BY DivFacts
  <2> QED
    BY <2>1, <2>2
<1>4. (r + m) % w = b
  BY <1>1, <1>3
<1>5. x + m = w * (q + a) + b
  BY <1>2, <1>3
<1>6. (x + m) % w = b
  <2>1. q + a \in Int
    OBVIOUS
  <2> QED
    BY <1>1, <1>5, <2>1
<1> QED
  BY <1>2, <1>4, <1>6

\* What the register cuts off.
LEMMA CutFacts ==
  ASSUME NEW w \in Nat \ {0}, NEW x \in 0..w
  PROVE  /\ x < w => x % w = x
         /\ (x - w) % w = x % w
OBVIOUS

\* A turn of the clock is as many milliseconds as the register has values.
LEMMA TurnFacts ==
  /\ Turn \in Nat \ {0}
  /\ TicksPerMs \in Nat \ {0} /\ TimeWord \in Nat \ {0}
  /\ \A q \in Nat, r \in 0..(TicksPerMs - 1) :
       TicksPerMs * q + r < Turn => q < TimeWord
<1>1. TicksPerMs \in Nat \ {0} /\ TimeWord \in Nat \ {0}
  BY ClockAssumption
<1>2. \A x \in Nat \ {0}, y \in Nat \ {0} : x * y \in Nat \ {0}
  OBVIOUS
<1>3. ASSUME NEW q \in Nat, NEW r \in 0..(TicksPerMs - 1),
             TicksPerMs * q + r < TicksPerMs * TimeWord
      PROVE  q < TimeWord
  <2>1. SUFFICES ASSUME q >= TimeWord PROVE FALSE
    BY <1>1
  <2>2. \A t \in Nat, x \in Nat, y \in Nat : x >= y => t * x >= t * y
    OBVIOUS
  <2>3. TicksPerMs * q >= TicksPerMs * TimeWord
    BY <1>1, <2>1, <2>2
  <2> QED
    BY <1>1, <1>3, <2>3
<1> QED
  BY <1>1, <1>2, <1>3 DEF Turn

\* The place of the last answer is kept.
LEMMA AnsweredAtStep ==
  ASSUME ClockTypeOK, AnsweredAt, Work \/ OSTimeGet \/ UNCHANGED clockVars
  PROVE  AnsweredAt'
<1>1. PICK turn \in Nat \ {0} : turn = Turn
  BY TurnFacts
<1>2. ticks \in 0..(turn - 1) /\ left \in 0..Room /\ gone \in 0..turn
  BY <1>1 DEF ClockTypeOK
<1>3. CASE Work
  <2>1. PICK n \in Nat : /\ ticks' = (ticks + n) % turn
                         /\ left' = IF n >= left THEN 0 ELSE left - n
                         /\ gone' = IF gone + n >= turn THEN turn ELSE gone + n
                         /\ UNCHANGED time
    BY <1>1, <1>3, ClockAssumption DEF Work
  <2> SUFFICES ASSUME gone' < turn, left' > 0
               PROVE  \E base \in 0..(turn - 1) :
                        /\ time' = (base \div TicksPerMs) % TimeWord
                        /\ ticks' = (base + gone') % turn
    BY <1>1 DEF AnsweredAt, Turn
  <2>2. gone < turn /\ gone' = gone + n /\ left > 0
    BY <1>2, <2>1, ClockAssumption
  <2>3. PICK base \in 0..(turn - 1) :
          /\ time = (base \div TicksPerMs) % TimeWord
          /\ ticks = (base + gone) % turn
    BY <1>1, <2>2 DEF AnsweredAt
  <2>4. PICK g \in Nat : g = gone
    BY <1>2
  <2>5. ticks' = (base + gone') % turn
    <3>1. PICK x \in Nat : x = base + g
      BY <2>4
    <3>2. ((x % turn) + n) % turn = (x + n) % turn
      BY CutOnce
    <3>3. x + n = base + (g + n)
      BY <3>1
    <3> QED
      BY <2>1, <2>2, <2>3, <2>4, <3>1, <3>2, <3>3
  <2> QED
    BY <2>1, <2>3, <2>5
<1>4. CASE OSTimeGet
  <2>1. ticks % turn = ticks
    BY <1>2
  <2>2. ticks = (ticks + 0) % turn
    BY <1>2, <2>1
  <2> QED
    BY <1>1, <1>2, <1>4, <2>2 DEF OSTimeGet, Now, AnsweredAt, Turn
<1>5. CASE UNCHANGED clockVars
  BY <1>5 DEF clockVars, AnsweredAt, Turn
<1> QED
  BY <1>3, <1>4, <1>5

\* Two answers that are less than a turn apart.
LEMMA Elapsed ==
  ASSUME ClockTypeOK, AnsweredAt, OSTimeGet, gone < Turn, left > 0
  PROVE  \/ (time' - time) % TimeWord = gone \div TicksPerMs
         \/ (time' - time) % TimeWord = (gone \div TicksPerMs + 1) % TimeWord
<1>1. PICK t \in Nat \ {0}, w \in Nat \ {0}, turn \in Nat \ {0} :
        t = TicksPerMs /\ w = TimeWord /\ turn = Turn /\ turn = t * w
  BY TurnFacts DEF Turn
<1>2. PICK g \in 0..(turn - 1) : g = gone
  BY <1>1 DEF ClockTypeOK
<1>3. PICK base \in 0..(turn - 1) :
        time = (base \div t) % w /\ ticks = (base + g) % turn
  BY <1>1, <1>2 DEF AnsweredAt
<1>4. PICK q \in Nat, r \in 0..(t - 1) : base = t * q + r /\ base \div t = q
  BY DivFacts
<1>5. PICK d \in Nat, e \in 0..(t - 1) : g = t * d + e /\ g \div t = d
  BY DivFacts
<1>6. q < w /\ d < w
  BY <1>1, <1>4, <1>5, TurnFacts
<1>7. time = q
  BY <1>3, <1>4, <1>6, CutFacts
<1>8. PICK c \in {0, 1} : r + e - t * c \in 0..(t - 1)
  BY <1>4, <1>5
<1>9. PICK o \in {0, 1} : base + g - turn * o \in 0..(turn - 1) /\ ticks = base + g - turn * o
  <2>1. CASE base + g < turn
    <3>1. base + g \in 0..turn
      BY <2>1
    <3>2. (base + g) % turn = base + g
      BY <2>1, <3>1, CutFacts
    <3>3. turn * 0 = 0
      OBVIOUS
    <3> QED
      BY <1>3, <2>1, <3>2, <3>3
  <2>2. CASE base + g >= turn
    <3>1. base + g - turn \in 0..(turn - 1)
      BY <2>2
    <3>2. (base + g) % turn = base + g - turn
      BY <3>1
    <3> QED
      BY <1>3, <3>1, <3>2
  <2> QED
    BY <2>1, <2>2
<1>10. ticks = t * (q + d + c - w * o) + (r + e - t * c)
  BY <1>1, <1>4, <1>5, <1>8, <1>9
<1>11. ticks \div t = q + d + c - w * o
  <2>1. q + d + c - w * o \in Int
    OBVIOUS
  <2> QED
    BY <1>8, <1>10, <2>1, DivUnique
<1>12. q + d + c - w * o \in 0..(w - 1)
  <2>1. ticks \in Nat /\ ticks < turn
    BY <1>9
  <2>2. ticks \div t \in Nat
    BY <2>1
  <2>3. q + d + c - w * o \in Nat
    BY <1>11, <2>2
  <2> QED
    BY <1>1, <1>8, <1>10, <2>1, <2>3, TurnFacts
<1>13. time' = q + d + c - w * o
  <2>1. time' = (ticks \div t) % w
    BY <1>1 DEF OSTimeGet, Now
  <2>2. PICK k \in 0..(w - 1) : k = q + d + c - w * o
    BY <1>12
  <2>3. k % w = k
    BY CutFacts
  <2> QED
    BY <1>11, <2>1, <2>2, <2>3
<1>14. time' - time = d + c - w * o
  BY <1>7, <1>13
<1>15. (time' - time) % w = (d + c) % w
  <2>1. PICK k \in 0..w : k = d + c
    BY <1>6
  <2>2. (k - w) % w = k % w
    BY CutFacts
  <2>3. w * 0 = 0 /\ w * 1 = w
    OBVIOUS
  <2>4. CASE o = 0
    BY <1>14, <2>3, <2>4
  <2>5. CASE o = 1
    BY <1>14, <2>1, <2>2, <2>3, <2>5
  <2> QED
    BY <2>4, <2>5
<1>16. CASE c = 0
  BY <1>1, <1>2, <1>5, <1>6, <1>15, <1>16, CutFacts
<1>17. CASE c = 1
  BY <1>1, <1>2, <1>5, <1>15, <1>17
<1> QED
  BY <1>16, <1>17

\* The guest measures the processor time between two answers, right to one
\* millisecond and wherever the register wraps, for every length of a tick,
\* every width of the register and of clock_t, until clock_t overflows.
THEOREM TimeIsTrue == IOSpec => ElapsedIsTrue
<1>1. IOInit => AnsweredAt
  BY TurnFacts DEF IOInit, ClockInit, AnsweredAt
<1>2. [IONext]_ioVars => Work \/ OSTimeGet \/ UNCHANGED clockVars
  BY DEF IONext, ioVars, RetroRun, FrameEnds, GuestReadsKeys, GuestReadsTime,
         GuestSleeps, OSTimeDly, ProcessRuns, FrontendSaves
<1>3. IOInv /\ AnsweredAt /\ [IONext]_ioVars => AnsweredAt'
  BY <1>2, AnsweredAtStep DEF IOInv
<1>4. ASSUME ClockTypeOK, Work PROVE gone' # 0
  <2>1. PICK turn \in Nat \ {0} : turn = Turn
    BY TurnFacts
  <2>2. PICK n \in 1..MaxWork :
          gone' = IF gone + n >= turn THEN turn ELSE gone + n
    BY <1>4, <2>1 DEF Work
  <2>3. n \in Nat \ {0}
    BY ClockAssumption
  <2>4. gone \in Nat
    BY <1>4, <2>1 DEF ClockTypeOK
  <2> QED
    BY <2>1, <2>2, <2>3, <2>4
<1> DEFINE True ==
      gone' = 0 /\ gone < Turn /\ left > 0 =>
        LET elapsed == (time' - time) % TimeWord
        IN \/ elapsed = gone \div TicksPerMs
           \/ elapsed = (gone \div TicksPerMs + 1) % TimeWord
<1>5. IOInv /\ AnsweredAt /\ [IONext]_ioVars => [True]_clockVars
  BY <1>2, <1>4, Elapsed DEF IOInv
<1> QED
  BY <1>1, <1>3, <1>5, IOInvariance, PTL DEF IOSpec, ElapsedIsTrue

=============================================================================
